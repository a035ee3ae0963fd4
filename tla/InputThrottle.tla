---------------------------- MODULE InputThrottle ----------------------------
(***************************************************************************)
(* The page's input throttle (webui/wasm/src/throttle.rs): send_input      *)
(* writes an event straight through once the spacing since the last send   *)
(* has elapsed and queues it otherwise; a timer sends the queue one        *)
(* datagram per spacing.  The queue merges what describes the same thing   *)
(* (coalesce_input, shared/src/client_datagram.rs) and loses its oldest    *)
(* entry past MAX_PENDING.  A controller's unplugging goes around all of   *)
(* it, on a stream of its own (gamepad.rs).                                *)
(*                                                                         *)
(* `seat` is what the user does at the page, `host` what the datagrams so  *)
(* far say.  A datagram that is sent arrives, and in order: losses of the  *)
(* network are not what this module is about.  Time passes in ticks; the   *)
(* browser may run an expired timer as late as it likes.  Scrolling merges *)
(* as motion does and the two axes alike, so there is one; keys and        *)
(* buttons are one button, and there is one finger and one controller.     *)
(***************************************************************************)
EXTENDS Integers, Sequences, SequencesExt

CONSTANTS
    Floor,          \* INPUT_MIN_INTERVAL_MS, in ticks
    Requests,       \* the intervals the server may ask for
    MaxPending,     \* MAX_PENDING
    MaxDelta,       \* the largest i16
    Step,           \* how far the pointer moves in one event
    Place,          \* where a finger can be
    Up,             \* no finger
    MaxEvents       \* bound: how much the user does

\* A request is a whole number of milliseconds that fits its field, so one is the longest.
ASSUME SpacingAssumption ==
    /\ Floor \in Nat \ {0} /\ Requests \subseteq Nat /\ 0 \in Requests
    /\ \E top \in Requests : \A r \in Requests : r <= top
ASSUME QueueAssumption == MaxPending \in Nat \ {0} /\ MaxEvents \in Nat

\* A movement in one event: what fits its field.
Delta == (-MaxDelta - 1)..MaxDelta

ASSUME DeltaAssumption == MaxDelta \in Nat /\ Step \subseteq Delta
ASSUME PlaceAssumption == Up \notin Place

\* shared/src/throttle.rs: the server can only make the spacing coarser.
Effective(requested) == IF requested > Floor THEN requested ELSE Floor

Spacing == {Effective(r) : r \in Requests}
Longest == CHOOSE s \in Spacing : \A r \in Spacing : r <= s

Event == [kind : {"motion"}, by : Delta]
    \cup [kind : {"button"}, down : BOOLEAN]
    \cup [kind : {"touch"}, at : Place]
    \cup [kind : {"lift"}]
    \cup [kind : {"pad"}, pressed : BOOLEAN]

\* What a user, or the host on a user's behalf, has done: how far the pointer
\* has moved, whether the button is down, where the finger is, and whether a
\* controller is there ("none", or what it holds).
Seat == [motion : Int, button : BOOLEAN,
         finger : Place \cup {Up}, pad : {"none", "idle", "pressed"}]

VARIABLES
    interval, since,    \* interval_ms; ticks since last_send, up to Longest
    pending,
    flushIn,            \* flush_id: ticks left, or Longest + 1 when there is none
    seat, host,
    unplugging,         \* a GamepadDisconnect is on its stream
    left,               \* how much the user will still do
    evicted, clipped,   \* motion that MAX_PENDING and the field's limits have cost
    excused             \* the parts of the seat an overtaking or an eviction has upset

throttleVars == <<interval, since, pending, flushIn, seat, host, unplugging, left, evicted,
                  clipped, excused>>

NoTimer == Longest + 1
Part == {"button", "finger", "pad"}

ThrottleTypeOK ==
    /\ interval \in Spacing /\ since \in 0..Longest /\ flushIn \in 0..NoTimer
    /\ pending \in Seq(Event) /\ Len(pending) <= MaxPending
    /\ seat \in Seat /\ host \in Seat
    /\ unplugging \in BOOLEAN /\ left \in 0..MaxEvents /\ {evicted, clipped} \subseteq Int
    /\ excused \subseteq Part

Untouched == [motion |-> 0, button |-> FALSE, finger |-> Up, pad |-> "none"]

\* Throttle::new: a page that has produced no input yet has waited long enough.
ThrottleInit ==
    /\ interval = Floor /\ since = Longest /\ flushIn = NoTimer
    /\ pending = <<>> /\ unplugging = FALSE
    /\ seat = Untouched /\ host = Untouched
    /\ left = MaxEvents /\ evicted = 0 /\ clipped = 0 /\ excused = {}

\* What an event does to a seat.
Apply(s, e) ==
    CASE e.kind = "motion" -> [s EXCEPT !.motion = @ + e.by]
      [] e.kind = "button" -> [s EXCEPT !.button = e.down]
      [] e.kind = "touch"  -> [s EXCEPT !.finger = e.at]
      [] e.kind = "lift"   -> [s EXCEPT !.finger = Up]
      [] e.kind = "pad"    -> [s EXCEPT !.pad = IF e.pressed THEN "pressed" ELSE "idle"]

PartOf(e) ==
    CASE e.kind = "motion" -> "motion"
      [] e.kind = "button" -> "button"
      [] e.kind \in {"touch", "lift"} -> "finger"
      [] e.kind = "pad" -> "pad"

PartsOf(q) == {PartOf(q[i]) : i \in DOMAIN q}
Moved(e) == IF e.kind = "motion" THEN e.by ELSE 0
Motion(q) ==
    LET sum[n \in 0..Len(q)] == IF n = 0 THEN 0 ELSE sum[n - 1] + Moved(q[n])
    IN  sum[Len(q)]

\* Mutant: the scan for a finger's position does not stop where it was lifted.
MergeTouchPastLift(q, e) ==
    LET i == SelectLastInSeq(q, LAMBDA p : p.kind = "touch")
    IN IF i # 0 THEN [q EXCEPT ![i].at = e.at] ELSE Append(q, e)

\* saturating_add's result, and what it drops.
Saturate(n) == IF n > MaxDelta THEN MaxDelta ELSE IF n < -MaxDelta - 1 THEN -MaxDelta - 1 ELSE n
Excess(n) == IF n > MaxDelta THEN n - MaxDelta ELSE IF n < -MaxDelta - 1 THEN n + MaxDelta + 1 ELSE 0

FirstMotion(q) == SelectInSeq(q, LAMBDA p : p.kind = "motion")

\* coalesce_input's four rules: motion into the oldest motion, a finger's
\* position into its newest one unless it has been lifted since, a controller's
\* snapshot into one at the very back, and anything else behind the rest.
MergeMotion(q, e) ==
    LET i == FirstMotion(q)
    IN IF i # 0 THEN [q EXCEPT ![i].by = Saturate(@ + e.by)] ELSE Append(q, e)

\* What merging e into q drops.
Clipped(q, e) ==
    LET i == FirstMotion(q)
    IN  IF e.kind = "motion" /\ i # 0 THEN Excess(q[i].by + e.by) ELSE 0

MergeTouch(q, e) ==
    LET i == SelectLastInSeq(q, LAMBDA p : p.kind \in {"touch", "lift"})
    IN IF i # 0 /\ q[i].kind = "touch" THEN [q EXCEPT ![i].at = e.at] ELSE Append(q, e)

MergePad(q, e) ==
    IF q # <<>> /\ Last(q).kind = "pad" THEN [q EXCEPT ![Len(q)] = e] ELSE Append(q, e)

\* Mutant: the newest motion stands for the whole window, as a snapshot would.
CoalesceNewest(q, e) ==
    LET i == SelectInSeq(q, LAMBDA p : p.kind = e.kind)
    IN IF e.kind = "motion" /\ i # 0 THEN [q EXCEPT ![i] = e]
       ELSE IF e.kind = "touch" THEN MergeTouch(q, e) ELSE Append(q, e)

Coalesce(q, e) ==
    CASE e.kind = "motion" -> MergeMotion(q, e)
      [] e.kind = "touch"  -> MergeTouch(q, e)
      [] e.kind = "pad"    -> MergePad(q, e)
      [] OTHER -> Append(q, e)

Due == since >= interval

\* schedule_flush: one timer at most, for the rest of the spacing.
Schedule(t, q, elapsed) ==
    IF t # NoTimer \/ q = <<>> THEN t
    ELSE IF elapsed >= interval THEN 0 ELSE interval - elapsed

\* What the host has of a part is explained, or is the seat's, when nothing of
\* it waits.
Settled(h, s, q) == {p \in Part : p \notin PartsOf(q) /\ h[p] = s[p]}

\* send_input for `e`, after which the user's seat is `s`: straight through
\* when the spacing allows it, whatever is still pending.
SendInput(e, s) ==
    /\ seat' = s
    /\ \/ /\ Due
          /\ since' = 0
          /\ host' = Apply(host, e)
          /\ excused' = (excused \cup ({PartOf(e)} \cap PartsOf(pending) \cap Part))
                            \ Settled(host', s, pending)
          /\ UNCHANGED <<pending, evicted, clipped>>
       \/ /\ ~Due
          /\ LET all  == Coalesce(pending, e)
                 over == Len(all) > MaxPending
             IN /\ pending' = IF over THEN Tail(all) ELSE all
                /\ evicted' = evicted + IF over THEN Moved(Head(all)) ELSE 0
                /\ excused' = excused \cup
                       IF over THEN {PartOf(Head(all))} \cap Part ELSE {}
          /\ clipped' = clipped + Clipped(pending, e)
          /\ UNCHANGED <<since, host>>
    /\ flushIn' = Schedule(flushIn, pending', since')
    /\ UNCHANGED <<interval, unplugging>>

\* The user's next event.  A touch slot is used again once it is free.
UserEvent(e) ==
    /\ left > 0 /\ left' = left - 1
    /\ SendInput(e, Apply(seat, e))

MoveMouse == \E n \in Step : UserEvent([kind |-> "motion", by |-> n])
PressButton == UserEvent([kind |-> "button", down |-> ~seat.button])
MoveFinger == \E p \in Place \ {seat.finger} : UserEvent([kind |-> "touch", at |-> p])
LiftFinger == seat.finger # Up /\ UserEvent([kind |-> "lift"])

\* setup_gamepad's poll: a snapshot when the controller has changed or has just
\* been plugged in, and a message on a stream of its own when it is gone.
PollPad ==
    UserEvent([kind |-> "pad", pressed |-> seat.pad = "idle"])

Unplug ==
    /\ seat.pad # "none" /\ left > 0
    /\ ~unplugging      \* bound: one such stream at a time
    /\ left' = left - 1
    /\ seat' = [seat EXCEPT !.pad = "none"]
    /\ unplugging' = TRUE
    /\ UNCHANGED <<interval, since, pending, flushIn, host, evicted, clipped, excused>>

\* GamepadDisconnect arrives: the host takes the controller away, be it one that
\* has been plugged in again since, and puts it back for a snapshot that was
\* still waiting.  Or it cannot be sent, which is no more than logged.
Unplugged ==
    /\ unplugging /\ unplugging' = FALSE
    /\ host' = [host EXCEPT !.pad = "none"] \/ UNCHANGED host
    /\ excused' = (excused \cup {"pad"}) \ Settled(host', seat, pending)
    /\ UNCHANGED <<interval, since, pending, flushIn, seat, left, evicted, clipped>>

\* flush_pending: the next of the queue if it is due, and the timer again.  A
\* timer's delay is cut to whole milliseconds, so it may run early.
Flush ==
    /\ flushIn <= 1
    /\ IF Due /\ pending # <<>>
       THEN /\ host' = Apply(host, Head(pending))
            /\ pending' = Tail(pending)
            /\ since' = 0
       ELSE UNCHANGED <<host, pending, since>>
    /\ flushIn' = Schedule(NoTimer, pending', since')
    /\ excused' = excused \ Settled(host', seat, pending')
    /\ UNCHANGED <<interval, seat, unplugging, left, evicted, clipped>>

\* set_throttle, for the server's Throttle message.
SetThrottle ==
    /\ \E r \in Requests : interval' = Effective(r) /\ interval' # interval
    /\ UNCHANGED <<since, pending, flushIn, seat, host, unplugging, left, evicted, clipped, excused>>

Elapse ==
    /\ since < Longest \/ flushIn \in 1..Longest
    /\ since' = IF since < Longest THEN since + 1 ELSE since
    /\ flushIn' = IF flushIn \in 1..Longest THEN flushIn - 1 ELSE flushIn
    /\ UNCHANGED <<interval, pending, seat, host, unplugging, left, evicted, clipped, excused>>

ThrottleNext ==
    \/ MoveMouse \/ PressButton \/ MoveFinger \/ LiftFinger \/ PollPad
    \/ Unplug \/ Unplugged \/ Flush \/ SetThrottle \/ Elapse

\* Time passes, the browser runs an expired timer in the end (an early run of
\* it is no one's promise), and a stream arrives or fails.
ThrottleFairness ==
    /\ WF_throttleVars(Elapse)
    /\ WF_throttleVars(flushIn = 0 /\ Flush)
    /\ WF_throttleVars(Unplugged)

ThrottleSpec == ThrottleInit /\ [][ThrottleNext]_throttleVars /\ ThrottleFairness
-----------------------------------------------------------------------------
\* No motion is lost but what MAX_PENDING evicts and what a merge clips at the
\* limits of an i16: what the host has moved, what waits and those two make up
\* what the user moved (throttle.rs:6-9, client_datagram.rs:119-120), across
\* merging, flushing and writing through.
MotionConserved == host.motion + Motion(pending) + evicted + clipped = seat.motion

\* Nothing is left held on the host, and no finger or controller is misplaced,
\* once nothing about it waits, unless an event was written past one still in the
\* queue, an unplugging went around it or could not be sent, or MAX_PENDING took
\* one (throttle.rs:137, gamepad.rs:180-184, throttle.rs:104).
SeatTruthful ==
    \A p \in Part \ (PartsOf(pending) \cup excused) :
        (p = "pad" /\ unplugging) \/ host[p] = seat[p]

=============================================================================
