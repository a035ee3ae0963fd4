------------------------------ MODULE InputPath ------------------------------
(***************************************************************************)
(* The input of one capture iteration, from the session's client bus to    *)
(* the compositor (server/src/pipewire): input_task folds what the client  *)
(* sends into InputCoalesce and drains it in ticks, dispatch_input turns   *)
(* each datagram into events for the EIS thread, and eis_main hands them   *)
(* over in batches.  The compositor, the portal's EIS connection and the   *)
(* virtual gamepads are external: they appear as what they hold (seat) and *)
(* as what they may do to the connection.                                  *)
(*                                                                         *)
(* Left out: coordinates are carried, not mapped; a granted drain is any   *)
(* positive number of entries, as the shared budget gives; the cursor arm, *)
(* which only tells the client of a blocked pointer; and the order across  *)
(* devices within one batch, which no part of the seat depends on.         *)
(***************************************************************************)
EXTENDS Integers, Sequences, FiniteSets, SequencesExt

CONSTANTS
    Slot,           \* touch slots a client names
    OwnSlot,        \* those below SLOTS_PER_SESSION
    Pos,            \* positions of a finger
    Pad,            \* gamepads
    Snapshot,       \* states of a gamepad
    Button,         \* mouse buttons
    Key, NoKey,     \* keys the keyboard knows; all other keycodes
    Modifier,
    Delta,          \* distances of one motion or scroll
    Idle,           \* a slot without finger, an absent gamepad, a released key
    Pressed,
    Lost,           \* the bus has dropped what the client said
    BusCap,         \* the client bus (256 in run_session)
    ChannelCap,     \* the channel to the EIS thread (64)
    MaxBatch,       \* MAX_INPUT_BATCH (64)
    MaxDelta,       \* the largest i16
    Equipment,      \* bound: the sets of slots, gamepads, buttons, keys and axes
                    \* of which a client uses one
    MaxInFlight,    \* bound: datagrams and events on their way
    MaxOwed         \* bound: motion on its way

ASSUME CapAssumption ==
    /\ BusCap \in Nat \ {0} /\ ChannelCap \in Nat \ {0}
    /\ MaxBatch \in Nat \ {0} /\ MaxDelta \in Nat
    /\ Delta \subseteq -MaxDelta..MaxDelta
    /\ MaxInFlight \in Nat /\ MaxOwed \in Nat
ASSUME SlotAssumption == OwnSlot \subseteq Slot
ASSUME FiniteAssumption == IsFiniteSet(Slot) /\ IsFiniteSet(Modifier)

Axis == {"MouseMove", "Scroll"}

\* Slots, gamepads, buttons, keys, modifiers and axes are told apart.
ASSUME IdAssumption ==
    LET ids == <<Slot, Pad, Button, Key, {NoKey}, Modifier, Axis>>
    IN  \A i, j \in 1..7 : i # j => ids[i] \cap ids[j] = {}

VARIABLES
    bus,            \* the task's receiver of the client bus
    pending,        \* InputCoalesce
    drained,        \* what a tick has drained and not yet dispatched
    outgoing,       \* the events of one datagram, not yet sent
    input,          \* input_task
    active,         \* TouchState.active_slots
    mods,           \* ModifierState.current
    channel,        \* the channel to the EIS thread
    eis,            \* eis_main
    handle,         \* the compositor's device behind the thread's handles
    restart,        \* a pipeline restart has been asked for
    cancelled,      \* the iteration's token
    seat,           \* what the compositor holds for each slot, key, button, gamepad
    offered,        \* the equipment this client uses
    said,           \* what the client has said last of each slot, button, gamepad
    owed            \* motion sent by the client, not dropped, clipped or yet applied

buffers == <<pending, drained, outgoing>>
device == <<eis, handle, restart>>
client == <<bus, offered, said>>
vars == <<client, buffers, input, active, mods, channel, device, cancelled, seat, owed>>

----------------------------------------------------------------------------
\* Datagrams.  A release, a disconnect and a released button carry Idle.
Touch(s, p) == [kind |-> "Touchscreen", id |-> s, val |-> p]
TouchRelease(s) == [kind |-> "TouchscreenRelease", id |-> s, val |-> Idle]
PadState(g, x) == [kind |-> "Gamepad", id |-> g, val |-> x]
PadGone(g) == [kind |-> "GamepadDisconnect", id |-> g, val |-> Idle]
MouseButton(b, x) == [kind |-> "MouseButton", id |-> b, val |-> x]
Keyboard(k, m) == [kind |-> "Keyboard", id |-> k, val |-> m]
Motion(a, n) == [kind |-> a, id |-> a, val |-> n]

Datagram ==
    {Touch(s, p) : s \in Slot, p \in Pos} \cup {TouchRelease(s) : s \in Slot}
    \cup {PadState(g, x) : g \in Pad, x \in Snapshot} \cup {PadGone(g) : g \in Pad}
    \cup {MouseButton(b, x) : b \in Button, x \in {Idle, Pressed}}
    \cup {Keyboard(k, m) : k \in Key \cup {NoKey}, m \in SUBSET Modifier}
    \cup {Motion(a, n) : a \in Axis, n \in -MaxDelta..MaxDelta}

\* MUTANT: a lift ends nothing, so a new press folds in front of it.
TerminatesNothing(d) == {}

\* InputKey::of, and the identity a lifecycle end terminates.
InputKey(d) == <<d.kind, d.id>>
Terminates(d) ==
    CASE d.kind = "TouchscreenRelease" -> {<<"Touchscreen", d.id>>}
      [] d.kind = "GamepadDisconnect" -> {<<"Gamepad", d.id>>}
      [] OTHER -> {}

Saturate(n) == IF n > MaxDelta THEN MaxDelta ELSE IF n < -MaxDelta THEN -MaxDelta ELSE n

\* MUTANT: the newest delta replaces the pending one.
MergeNewest(old, new) == new

\* merge: deltas add, everything else takes the newest.
Merge(old, new) ==
    IF old.kind \in Axis THEN [old EXCEPT !.val = Saturate(@ + new.val)] ELSE new

\* Where the buffer holds an identity: the empty set or one index.
At(buf, key) == {i \in DOMAIN buf : InputKey(buf[i]) = key}

Without(buf, keys) ==
    LET there == {i \in DOMAIN buf : InputKey(buf[i]) \in keys}
    IN  IF there = {} THEN buf ELSE RemoveAt(buf, CHOOSE i \in there : TRUE)

\* MUTANT: an identity seen again goes to the back.
PushToBack(buf, d) ==
    LET there == At(buf, InputKey(d))
        kept == Without(buf, Terminates(d) \cup {InputKey(d)})
    IN  Append(kept, IF there = {} THEN d ELSE Merge(buf[CHOOSE i \in there : TRUE], d))

\* InputCoalesce::push.
Push(buf, d) ==
    LET kept == Without(buf, Terminates(d))
        there == At(kept, InputKey(d))
    IN  IF there = {}
        THEN Append(kept, d)
        ELSE [i \in DOMAIN kept |-> IF i \in there THEN Merge(kept[i], d) ELSE kept[i]]

\* What a datagram's motion along an axis loses to the width of the field when it
\* is folded in.
Clipped(buf, d, a) ==
    LET there == IF d.id = a THEN At(buf, InputKey(d)) ELSE {}
        sum == buf[CHOOSE i \in there : TRUE].val + d.val
    IN  IF there = {} THEN 0 ELSE sum - Saturate(sum)

\* Events of the EIS thread.
Event(id, op, val) == [id |-> id, op |-> op, val |-> val]
PressKey(k) == Event(k, "Down", Pressed)
ReleaseKey(k) == Event(k, "Up", Idle)

\* MUTANT: only what is added is told.
SyncAdded(old, new) ==
    [i \in 1..Cardinality(new \ old) |-> PressKey(SetToSeq(new \ old)[i])]

\* ModifierState::sync: the removed are released, then the added pressed.
Sync(old, new) ==
    [i \in 1..Cardinality(old \ new) |-> ReleaseKey(SetToSeq(old \ new)[i])]
    \o [i \in 1..Cardinality(new \ old) |-> PressKey(SetToSeq(new \ old)[i])]

Thing == OwnSlot \cup Button \cup Key \cup Modifier \cup Pad

EisEvent ==
    {Event(s, op, v) : s \in Slot, op \in {"Down", "Motion", "Up"}, v \in Pos \cup {Idle}}
    \cup {PressKey(k) : k \in Key \cup Modifier} \cup {ReleaseKey(k) : k \in Key \cup Modifier}
    \cup {Event(b, "Set", x) : b \in Button, x \in {Idle, Pressed}}
    \cup {Event(a, "Set", n) : a \in Axis, n \in -MaxDelta..MaxDelta}

Held == Pos \cup Snapshot \cup {Idle, Pressed}

\* owed is not typed here: MotionConserved says what it is.
TypeOK ==
    /\ bus \in Seq(Datagram) /\ Len(bus) <= BusCap
    /\ pending \in Seq(Datagram)
    /\ drained \in Seq(Datagram)
    /\ outgoing \in Seq(EisEvent)
    /\ channel \in Seq(EisEvent) /\ Len(channel) <= ChannelCap
    /\ input \in {"running", "ended"}
    /\ active \subseteq Slot
    /\ mods \subseteq Modifier
    /\ eis \in {"setup", "running", "waiting", "ended"}
    /\ handle \in {"live", "removed"}
    /\ restart \in BOOLEAN
    /\ cancelled \in BOOLEAN
    /\ seat \in [Thing -> Held]
    /\ offered \in Equipment
    /\ said \in [OwnSlot \cup Button \cup Pad -> Held \cup {Lost}]

----------------------------------------------------------------------------
Init ==
    /\ bus = <<>> /\ pending = <<>> /\ drained = <<>> /\ outgoing = <<>> /\ channel = <<>>
    /\ input = "running"
    /\ active = {} /\ mods = {}
    /\ eis = "setup" /\ handle = "live" /\ restart = FALSE
    /\ cancelled = FALSE
    /\ seat = [t \in Thing |-> Idle]
    /\ offered \in Equipment
    /\ said = [t \in OwnSlot \cup Button \cup Pad |-> Idle]
    /\ owed = [a \in Axis |-> 0]

Share(e, a) == IF e.id = a THEN e.val ELSE 0
Total(events, a) ==
    LET sum[n \in 0..Len(events)] == IF n = 0 THEN 0 ELSE sum[n - 1] + Share(events[n], a)
    IN  sum[Len(events)]

Flowing == input = "running" /\ eis # "ended" /\ handle = "live"
InFlight == channel \o outgoing \o drained \o pending \o bus

\* The client's datagrams reach the bus from client_pump; a receiver that is a
\* whole bus behind loses the oldest.
Send(d) ==
    LET dropped == IF Len(bus) = BusCap THEN <<Head(bus)>> ELSE <<>>
        kept == IF Len(bus) = BusCap THEN Tail(bus) ELSE bus
    IN  /\ Flowing /\ ~cancelled
        /\ d.id \in offered
        /\ Len(InFlight) < MaxInFlight
        /\ d.id \in Axis => d.val \in Delta /\ owed[d.id] + d.val \in -MaxOwed..MaxOwed
        /\ bus' = Append(kept, d)
        /\ said' = [t \in DOMAIN said |->
                       IF \E i \in DOMAIN dropped : dropped[i].id = t THEN Lost
                       ELSE IF t = d.id THEN d.val ELSE said[t]]
        /\ owed' = [a \in Axis |-> owed[a] - Total(dropped, a) + Total(<<d>>, a)]
        /\ UNCHANGED <<offered, buffers, input, active, mods, channel, device, cancelled, seat>>

----------------------------------------------------------------------------
\* input_task.  Its select is biased: token, tick, bus, cursor, timeout.
Selecting == input = "running" /\ drained = <<>> /\ outgoing = <<>>

Recv ==
    /\ Selecting /\ ~cancelled
    /\ bus # <<>>
    /\ pending' = Push(pending, Head(bus))
    /\ bus' = Tail(bus)
    /\ owed' = [a \in Axis |-> owed[a] - Clipped(pending, Head(bus), a)]
    /\ UNCHANGED <<offered, said, drained, outgoing, input, active, mods, channel, device,
                   cancelled, seat>>

Drain ==
    /\ Selecting /\ ~cancelled
    /\ \E n \in 1..Len(pending) :
        /\ drained' = SubSeq(pending, 1, n)
        /\ pending' = SubSeq(pending, n + 1, Len(pending))
    /\ UNCHANGED <<client, outgoing, input, active, mods, channel, device, cancelled, seat, owed>>

\* One second without a keyboard event.
ModifierTimeout ==
    /\ Selecting /\ ~cancelled
    /\ bus = <<>>
    /\ mods # {}
    /\ outgoing' = Sync(mods, {})
    /\ mods' = {}
    /\ UNCHANGED <<client, pending, drained, input, active, channel, device, cancelled, seat, owed>>

\* dispatch_input, one datagram at a time, once the events of the one before
\* have been sent.
Dispatching(kind) ==
    /\ input = "running" /\ outgoing = <<>>
    /\ drained # <<>> /\ Head(drained).kind = kind
    /\ drained' = Tail(drained)
    /\ UNCHANGED <<client, pending, channel, device, cancelled, owed>>

HandleTouch ==
    LET d == Head(drained)
    IN  /\ Dispatching("Touchscreen")
        /\ outgoing' = <<Event(d.id, IF d.id \in active THEN "Motion" ELSE "Down", d.val)>>
        /\ active' = active \cup {d.id}
        /\ UNCHANGED <<input, mods, seat>>

HandleRelease ==
    LET d == Head(drained)
    IN  /\ Dispatching("TouchscreenRelease")
        /\ outgoing' = IF d.id \in active THEN <<Event(d.id, "Up", Idle)>> ELSE <<>>
        /\ active' = active \ {d.id}
        /\ UNCHANGED <<input, mods, seat>>

HandleKey ==
    LET d == Head(drained)
    IN  /\ Dispatching("Keyboard")
        /\ outgoing' = Sync(mods, d.val)
                       \o (IF d.id = NoKey THEN <<>> ELSE <<PressKey(d.id), ReleaseKey(d.id)>>)
        /\ mods' = d.val
        /\ UNCHANGED <<input, active, seat>>

HandleMotion ==
    LET d == Head(drained)
    IN  /\ \E a \in Axis : Dispatching(a)
        /\ outgoing' = <<Event(d.id, "Set", d.val)>>
        /\ UNCHANGED <<input, active, mods, seat>>

HandleButton ==
    LET d == Head(drained)
    IN  /\ Dispatching("MouseButton")
        /\ outgoing' = <<Event(d.id, "Set", d.val)>>
        /\ UNCHANGED <<input, active, mods, seat>>

\* GamepadManager applies a snapshot at once, creating the device if need be.
HandlePad ==
    LET d == Head(drained)
    IN  /\ Dispatching("Gamepad")
        /\ seat' = [seat EXCEPT ![d.id] = d.val]
        /\ UNCHANGED <<outgoing, input, active, mods>>

HandlePadGone ==
    LET d == Head(drained)
    IN  /\ Dispatching("GamepadDisconnect")
        /\ seat' = [seat EXCEPT ![d.id] = Idle]
        /\ UNCHANGED <<outgoing, input, active, mods>>

\* A send waits for room; once the thread has dropped its end it fails, and the
\* event is lost.
SendEvent ==
    /\ input = "running" /\ outgoing # <<>>
    /\ \/ eis # "ended" /\ Len(channel) < ChannelCap
          /\ channel' = Append(channel, Head(outgoing))
       \/ eis = "ended" /\ UNCHANGED channel
    /\ outgoing' = Tail(outgoing)
    /\ UNCHANGED <<client, pending, drained, input, active, mods, device, cancelled, seat, owed>>

\* The task is gone, and with it its end of the channel and the gamepads.
InputGone(sent) ==
    /\ input' = "ended"
    /\ channel' = IF eis = "ended" THEN channel ELSE channel \o sent
    /\ bus' = <<>> /\ pending' = <<>> /\ drained' = <<>> /\ outgoing' = <<>>
    /\ seat' = [t \in Thing |-> IF t \in Pad THEN Idle ELSE seat[t]]
    /\ UNCHANGED <<offered, said, active, mods, device, cancelled, owed>>

\* The token: every finger is lifted, as far as the channel has room.
InputCancelled ==
    /\ Selecting /\ cancelled
    /\ LET fingers == SetToSeq(active)
           room == ChannelCap - Len(channel)
           n == IF Len(fingers) < room THEN Len(fingers) ELSE room
       IN  InputGone([i \in 1..n |-> Event(fingers[i], "Up", Idle)])

\* The bus is closed; EisTasks::stop aborts the task, at whichever await it is;
\* a gamepad that cannot be created panics it.
BusClosed == Selecting /\ ~cancelled /\ bus = <<>> /\ InputGone(<<>>)
InputAborted == input = "running" /\ cancelled /\ InputGone(<<>>)
PadPanics ==
    /\ input = "running" /\ outgoing = <<>> /\ drained # <<>>
    /\ Head(drained).kind = "Gamepad" /\ seat[Head(drained).id] = Idle
    /\ InputGone(<<>>)

----------------------------------------------------------------------------
\* eis_main.
EisUnchanged == UNCHANGED <<client, buffers, input, active, mods, cancelled, owed>>

DevicesReady ==
    /\ eis = "setup"
    /\ eis' = "running"
    /\ EisUnchanged /\ UNCHANGED <<handle, restart, channel, seat>>

DevicePaused ==
    /\ eis = "running"
    /\ eis' = "waiting"
    /\ EisUnchanged /\ UNCHANGED <<handle, restart, channel, seat>>

\* wait_for_resume: any device's resumption, or a disconnect or an error, which
\* the main loop then runs into.
WaitOver ==
    /\ eis = "waiting"
    /\ eis' = "running"
    /\ EisUnchanged /\ UNCHANGED <<handle, restart, channel, seat>>

\* The thread returns: its end of the channel and the connection go, and the
\* compositor releases whatever the connection held.
EisGone ==
    /\ eis' = "ended"
    /\ channel' = <<>>
    /\ seat' = [t \in Thing |-> IF t \in Pad THEN seat[t] ELSE Idle]
    /\ EisUnchanged

\* The compositor removes the devices, as it does when the outputs change.
\* wait_for_devices and wait_for_resume pass the event over.
DeviceRemoved ==
    /\ handle = "live" /\ eis # "ended"
    /\ handle' = "removed"
    /\ \/ eis = "running" /\ restart' = TRUE /\ EisGone
       \/ eis # "running" /\ EisUnchanged /\ UNCHANGED <<eis, restart, channel, seat>>

\* A failed set-up, a disconnect, an error or the end of the stream.
ConnectionLost ==
    /\ eis \in {"setup", "running"}
    /\ EisGone /\ UNCHANGED <<handle, restart>>

\* MUTANT: wait_for_resume does not look at the token.
EisCancelledRunning ==
    /\ eis \in {"setup", "running"} /\ cancelled
    /\ EisGone /\ UNCHANGED <<handle, restart>>

EisCancelled ==
    /\ eis # "ended" /\ cancelled
    /\ EisGone /\ UNCHANGED <<handle, restart>>

ChannelClosed ==
    /\ eis = "running" /\ input = "ended" /\ channel = <<>>
    /\ EisGone /\ UNCHANGED <<handle, restart>>

\* What a sequence of events leaves a thing at.
After(events, t, before) ==
    LET about == {i \in DOMAIN events : events[i].id = t}
    IN  IF about = {} THEN before ELSE events[CHOOSE i \in about : \A j \in about : j <= i].val

\* A batch: slots out of the session's range are dropped, the rest is handed
\* over; a removed device discards all of it.
TakeBatch ==
    LET n == IF Len(channel) < MaxBatch THEN Len(channel) ELSE MaxBatch
        batch == SubSeq(channel, 1, n)
    IN  /\ eis = "running" /\ ~cancelled
        /\ channel # <<>>
        /\ channel' = SubSeq(channel, n + 1, Len(channel))
        /\ seat' = IF handle = "removed" THEN seat
                   ELSE [t \in Thing |-> After(batch, t, seat[t])]
        /\ owed' = IF handle = "removed" THEN owed
                   ELSE [a \in Axis |-> owed[a] - Total(batch, a)]
        /\ UNCHANGED <<client, buffers, input, active, mods, device, cancelled>>

----------------------------------------------------------------------------
\* The capture iteration ends: the session is over, or the pipeline restarts.
Cancel ==
    /\ ~cancelled
    /\ cancelled' = TRUE
    /\ UNCHANGED <<client, buffers, input, active, mods, channel, device, seat, owed>>

Dispatch ==
    \/ HandleTouch \/ HandleRelease \/ HandleKey \/ HandleMotion \/ HandleButton
    \/ HandlePad \/ HandlePadGone

InputStep ==
    \/ Recv \/ Drain \/ ModifierTimeout \/ Dispatch \/ SendEvent
    \/ InputCancelled \/ BusClosed \/ InputAborted \/ PadPanics

EisStep ==
    \/ DevicesReady \/ DevicePaused \/ WaitOver \/ DeviceRemoved \/ ConnectionLost
    \/ EisCancelled \/ ChannelClosed \/ TakeBatch

Next == (\E d \in Datagram : Send(d)) \/ InputStep \/ EisStep \/ Cancel

(***************************************************************************)
(* The task and the thread run whenever they can.  A tick that drains is   *)
(* followed by four milliseconds of the other arms (MissedTickBehavior::   *)
(* Delay), so the bus is read again and again, and so does the timer get   *)
(* its turn whenever the bus is found empty again and again.  Nothing is   *)
(* assumed of the compositor, the client or the session.                   *)
(***************************************************************************)
Fairness ==
    /\ SF_vars(Recv) /\ WF_vars(Drain) /\ SF_vars(ModifierTimeout)
    /\ WF_vars(Dispatch) /\ WF_vars(SendEvent) /\ WF_vars(InputCancelled)
    /\ WF_vars(TakeBatch) /\ WF_vars(EisCancelled) /\ WF_vars(ChannelClosed)

Spec == Init /\ [][Next]_vars /\ Fairness

----------------------------------------------------------------------------
\* Replaying what is on its way over what the compositor holds gives what the
\* client has said last of every finger, button and gamepad, whatever has been
\* folded, terminated, deferred or batched (input_coalesce.rs, dispatch_input).
SeatAgrees ==
    Flowing =>
        \A t \in DOMAIN said : said[t] \in {Lost, After(InFlight, t, seat[t])}

\* The same for the keyboard: the modifiers the compositor will hold are those
\* ModifierState tracks, and no other key is left pressed (eis_keyboard.rs).
KeyboardAgrees ==
    Flowing =>
        LET sent == channel \o outgoing
        IN  /\ \A m \in Modifier :
                 After(sent, m, seat[m]) = IF m \in mods THEN Pressed ELSE Idle
            /\ \A k \in Key : After(sent, k, seat[k]) = Idle

\* The buffer holds one entry per identity, and a lift or a disconnect never
\* follows the state it ends, so it cannot undo a later press.
PendingOrdered ==
    \A i, j \in DOMAIN pending : i < j =>
        /\ InputKey(pending[i]) # InputKey(pending[j])
        /\ InputKey(pending[i]) \notin Terminates(pending[j])

\* No motion is lost or doubled by folding, but for what the width of the field
\* clips.
MotionConserved ==
    Flowing => \A a \in Axis : owed[a] = Total(InFlight, a)

\* A finger, button or gamepad the client has let go of is let go of on the
\* compositor, unless the input stops flowing: what is deferred past the budget
\* is not deferred for ever (input_coalesce.rs).
LiftsArrive ==
    \A t \in OwnSlot \cup Button \cup Pad :
        said[t] = Idle ~> \/ seat[t] = Idle \/ said[t] # Idle
                          \/ ~Flowing \/ cancelled \/ eis # "running"

\* Stopping the workers ends both, whatever either waits for, and leaves
\* nothing pressed on the compositor (EisTasks::stop).
StopCompletes ==
    cancelled ~> input = "ended" /\ eis = "ended" /\ \A t \in Thing : seat[t] = Idle

=============================================================================
