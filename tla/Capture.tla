------------------------------- MODULE Capture -------------------------------
(***************************************************************************)
(* capture and single_capture (server/src/pipewire/video.rs): one portal   *)
(* session, virtual monitor and pipeline per iteration, set up step by     *)
(* step, torn down in the reverse order whatever ended the set-up, and     *)
(* begun again at the newest size; with the approval of portal dialogs     *)
(* (portal_auth.rs), the wait for an unlock (session_lock.rs) and the      *)
(* bitrate governor (bitrate.rs).  The portal, the compositor, GStreamer   *)
(* and logind are external: they answer, fail or say nothing.              *)
(*                                                                         *)
(* Left out: the restore token, which decides only how soon the portal     *)
(* answers; the choice among the streams on offer and of the codec, which  *)
(* ends here in "some" or "none"; and the counters of rate_task.  What the *)
(* input tasks do is InputPath, what becomes of the frames MediaPath.      *)
(***************************************************************************)
EXTENDS Integers, Sequences, FiniteSets, FiniteSetsExt, SequencesExt

CONSTANTS
    Size, NoSize,
    Noise,          \* what else a client sends
    BusCap,         \* the client bus (256 in run_session)
    ControlCap,     \* the control channel (8)
    Dialogs,        \* the dialogs of one iteration: select_devices, select_sources, start (3)
    Ceiling,        \* BITRATE_CEILING_KBPS
    MinKbps,        \* MIN_KBPS
    MaxFaults,      \* bound: refusals, timeouts and errors of what is external
    MaxResizes,     \* bound: sizes the client asks for
    MaxLocks        \* bound: times the session is locked

ASSUME SizeAssumption == NoSize \notin Size /\ Noise \notin Size
ASSUME CapAssumption ==
    /\ BusCap \in Nat \ {0} /\ ControlCap \in Nat \ {0} /\ Dialogs \in Nat \ {0}
    /\ MaxFaults \in Nat /\ MaxResizes \in Nat /\ MaxLocks \in Nat
ASSUME RateAssumption == {Ceiling, MinKbps} \subseteq Nat \ {0} /\ MinKbps <= Ceiling

\* What an iteration acquires, in this order, and what each stands on.
Resource == {"monitor", "keyboard", "session", "pipeline", "tasks", "bus", "input"}
StandsOn ==
    [r \in Resource |->
        CASE r = "session"  -> {"monitor"}
          [] r = "pipeline" -> {"session", "monitor"}
          [] r = "tasks"    -> {"pipeline", "session", "monitor"}
          [] r = "bus"      -> {"session", "monitor"}
          [] r = "input"    -> {"tasks", "pipeline", "session", "monitor"}
          [] OTHER          -> {}]

Phase == {"proxies", "top", "size", "create",
          "call", "press", "pressed", "manual",
          "remote", "build", "play", "eis", "eisAgain", "running",
          "stopInput", "stopTasks", "stopPipeline", "stopBus", "closeSession", "dropMonitor",
          "failed", "notify", "parked", "done"}
Portal == {"create", "call", "pressed", "manual", "remote", "eis", "eisAgain"}
TearDown == {"stopInput", "stopTasks", "stopPipeline", "stopBus", "closeSession", "dropMonitor"}

VARIABLES
    phase,
    dialog,         \* the dialogs of this iteration already answered
    up,             \* the resources held
    size,           \* the size of this iteration
    lastDims,       \* last_dims
    result,         \* how the iteration ended: an error, no size, the next size
    restart,        \* the restart watch has changed
    alive,          \* the pipeline plays
    bus,            \* the receiver of the client bus
    wanted,         \* the size the client asked for last
    lagged,         \* the bus dropped it unread
    owesKey,        \* the client has asked for a keyframe and has had none
    keyRx,          \* keyframe_task's receiver holds a request, or the lag that took it
    cancelled,
    locked,         \* the desktop's session is locked
    notices,        \* the control channel; -1 once its receiver is gone
    rate,           \* govern_bitrate's current
    encoder,        \* the encoder's bitrate
    faults, resizes, locks

iteration == <<dialog, up, size, result, restart, alive>>
client == <<bus, wanted, lagged, resizes>>
keys == <<owesKey, keyRx>>
bitrate == <<rate, encoder>>
outside == <<locked, locks, notices>>
vars == <<phase, lastDims, iteration, client, keys, bitrate, cancelled, outside, faults>>

Error == "error"

TypeOK ==
    /\ phase \in Phase
    /\ dialog \in 0..Dialogs
    /\ up \subseteq Resource
    /\ {size, lastDims, wanted} \subseteq Size \cup {NoSize}
    /\ result \in Size \cup {NoSize, Error}
    /\ {restart, alive, lagged, owesKey, keyRx, cancelled, locked} \subseteq BOOLEAN
    /\ bus \in Seq(Size \cup {Noise}) /\ Len(bus) <= BusCap
    /\ notices \in -1..ControlCap
    /\ {rate, encoder} \subseteq 1..Ceiling
    /\ faults \in 0..MaxFaults /\ resizes \in 0..MaxResizes /\ locks \in 0..MaxLocks

Init ==
    /\ phase = "proxies" /\ dialog = 0 /\ up = {}
    /\ size = NoSize /\ lastDims = NoSize /\ result = NoSize
    /\ restart = FALSE /\ alive = FALSE
    /\ bus = <<>> /\ wanted = NoSize /\ lagged = FALSE
    /\ owesKey = FALSE /\ keyRx = FALSE
    /\ cancelled = FALSE
    /\ locked \in BOOLEAN /\ notices = 0
    /\ rate = Ceiling /\ encoder = Ceiling
    /\ faults = 0 /\ resizes = 0 /\ locks = 0

----------------------------------------------------------------------------
\* Something external refuses, fails or keeps silent for too long.
Fault == faults < MaxFaults /\ faults' = faults + 1

\* A call fails, or its future is dropped because the token is cancelled.
GivenUp == (cancelled /\ UNCHANGED faults) \/ Fault

\* state() asks logind, which may not be able to say.
Hint == IF locked THEN "Locked" ELSE "Unlocked"
Readings == {Hint, "Unknown"}
CanApprove(reading) == reading # "Locked"

\* An iteration's set-up ends in r, having got some more, and its teardown begins.
EndsIn(r, got) ==
    phase' = "stopInput" /\ result' = r /\ up' = (up \ {"keyboard"}) \cup got

FailsWith(got) ==
    /\ EndsIn(Error, got)
    /\ UNCHANGED <<dialog, size, lastDims, restart, alive, client, keys, bitrate, cancelled, outside>>

Fails == FailsWith({})

\* capture: the two D-Bus proxies, either of which ends it by failing.
Proxies ==
    /\ phase = "proxies"
    /\ \/ cancelled /\ phase' = "done" /\ UNCHANGED faults
       \/ Fault /\ phase' = "done"
       \/ phase' = "top" /\ UNCHANGED faults
    /\ UNCHANGED <<lastDims, iteration, client, keys, bitrate, cancelled, outside>>

\* The loop of capture, then single_capture taking the size it has.
Top ==
    /\ phase = "top"
    /\ phase' = IF cancelled THEN "done" ELSE "size"
    /\ UNCHANGED <<lastDims, iteration, client, keys, bitrate, cancelled, outside, faults>>

\* A size to begin with is stashed and its monitor spawned: the krfb child, or
\* nothing and the portal's own monitor, or an error before any teardown.
\* The keyboard for the dialogs is best effort.
Begin(s) ==
    /\ lastDims' = s
    /\ \/ /\ phase' = "create" /\ size' = s
          /\ up' \in {{"monitor"}, {"monitor", "keyboard"}}
          /\ UNCHANGED faults
       \/ Fault /\ phase' = "failed" /\ UNCHANGED <<size, up>>

Rebegin ==
    /\ phase = "size" /\ lastDims # NoSize
    /\ Begin(lastDims)
    /\ UNCHANGED <<dialog, result, restart, alive, client, keys, bitrate, cancelled, outside>>

AwaitSize ==
    /\ phase = "size" /\ lastDims = NoSize
    /\ IF cancelled
       THEN phase' = "top" /\ UNCHANGED <<bus, size, up, lastDims, faults>>
       ELSE /\ bus # <<>> /\ bus' = Tail(bus)
            /\ IF Head(bus) \in Size
               THEN Begin(Head(bus))
               ELSE UNCHANGED <<phase, size, up, lastDims, faults>>
    /\ UNCHANGED <<dialog, result, restart, alive, wanted, lagged, resizes, keys, bitrate, cancelled, outside>>

----------------------------------------------------------------------------
\* The portal.  Every call is cancellable; create_session fails before the
\* common teardown exists, which leaves the monitor and keyboard to Drop.

Answered ==
    /\ phase \in {"create", "call", "pressed", "manual", "remote"}
    /\ phase' = CASE phase = "create" -> "call"
                  [] phase = "remote" -> "build"
                  [] OTHER -> IF dialog + 1 = Dialogs THEN "remote" ELSE "call"
    /\ dialog' = IF phase \in {"call", "pressed", "manual"} THEN dialog + 1 ELSE dialog
    /\ up' = IF phase = "create" THEN up \cup {"session"}
             ELSE IF dialog' = Dialogs THEN up \ {"keyboard"} ELSE up
    /\ UNCHANGED <<size, lastDims, result, restart, alive, client, keys, bitrate, cancelled, outside, faults>>

\* Nothing below capture's own loop sees a failed create_session.
NotCreated ==
    /\ phase = "create"
    /\ GivenUp
    /\ phase' = "failed" /\ up' = {} /\ size' = NoSize
    /\ UNCHANGED <<lastDims, dialog, result, restart, alive, client, keys, bitrate, cancelled, outside>>

\* Refused, cancelled, out of time (a manual approval), or no stream of the
\* right shape among the answer's.  A first connect_to_eis that fails is tried
\* once more, after a sleep.
Refused ==
    /\ phase \in Portal \ {"create", "eis"}
    /\ GivenUp
    /\ Fails

\* accept_dialog: the grace for a dialog to appear is over.  The lock is read
\* now and not before.
GraceOver ==
    /\ phase = "call"
    /\ \E reading \in Readings :
        IF CanApprove(reading)
        THEN /\ phase' = IF "keyboard" \in up THEN "press" ELSE "manual"
             /\ UNCHANGED <<lastDims, iteration, client, keys, bitrate, cancelled, outside>>
        ELSE Fails
    /\ UNCHANGED faults

\* Enter, once, wherever the focus now is.
Press ==
    /\ phase = "press"
    /\ phase' = "pressed"
    /\ UNCHANGED <<lastDims, iteration, client, keys, bitrate, cancelled, outside, faults>>

PressFailed ==
    /\ phase = "pressed"
    /\ phase' = "manual"
    /\ UNCHANGED <<lastDims, iteration, client, keys, bitrate, cancelled, outside, faults>>

----------------------------------------------------------------------------
\* From the stream to the running capture.

\* build_pipeline, the keyframe, rate and bitrate tasks, the bus watcher; the
\* encoder starts at the ceiling and so does its governor.  It may fail with
\* nothing, with the pipeline or with its tasks up too, never with the watcher.
Build ==
    /\ phase = "build"
    /\ \/ Fault /\ \E got \in {{}, {"pipeline"}, {"pipeline", "tasks"}} : FailsWith(got)
       \/ /\ phase' = "play" /\ UNCHANGED <<result, faults>>
          /\ up' = up \cup {"pipeline", "tasks", "bus"}
          /\ rate' = Ceiling /\ encoder' = Ceiling
          /\ UNCHANGED <<dialog, size, lastDims, restart, alive, client, keys, cancelled, outside>>

\* set_state(Playing).  The first frame of a new encoder is a keyframe.
Play ==
    /\ phase = "play"
    /\ \/ Fault /\ Fails
       \/ /\ phase' = "eis" /\ alive' = TRUE /\ owesKey' = FALSE
          /\ UNCHANGED <<lastDims, dialog, up, size, result, restart, client, keyRx, bitrate,
                         cancelled, outside, faults>>

EisFailed ==
    /\ phase = "eis"
    /\ GivenUp
    /\ phase' = "eisAgain"
    /\ UNCHANGED <<lastDims, iteration, client, keys, bitrate, cancelled, outside>>

\* eis_task: the input tasks run, unless their thread could not be started.
Connected ==
    /\ phase \in {"eis", "eisAgain"}
    /\ \/ Fault /\ Fails
       \/ /\ phase' = "running" /\ up' = up \cup {"input"}
          /\ UNCHANGED <<dialog, size, lastDims, result, restart, alive, client, keys, bitrate,
                         cancelled, outside, faults>>

\* The wait loop, biased: the token, the restart watch, the bus.
NextDims ==
    /\ phase = "running"
    /\ \/ cancelled /\ EndsIn(NoSize, {}) /\ UNCHANGED <<restart, bus>>
       \/ ~cancelled /\ restart /\ EndsIn(size, {}) /\ restart' = FALSE /\ UNCHANGED bus
       \/ /\ ~cancelled /\ ~restart /\ bus # <<>>
          /\ bus' = Tail(bus)
          /\ IF Head(bus) \in Size
             THEN EndsIn(Head(bus), {})
             ELSE UNCHANGED <<phase, result, up>>
          /\ UNCHANGED restart
    /\ UNCHANGED <<dialog, size, lastDims, alive, wanted, lagged, resizes, keys, bitrate,
                   cancelled, outside, faults>>

\* The bus watcher: an error it takes for a lost GPU asks for a restart, any
\* other and an end of stream do not; either way the pipeline stops, and the
\* watcher ends.  The input thread asks for a restart when its device is gone.
PipelineEnds ==
    /\ alive /\ "bus" \in up
    /\ Fault
    /\ restart' \in {TRUE, restart}
    /\ alive' = FALSE
    /\ UNCHANGED <<phase, lastDims, dialog, up, size, result, client, keys, bitrate, cancelled, outside>>

DeviceGone ==
    /\ "input" \in up
    /\ Fault
    /\ restart' = TRUE
    /\ UNCHANGED <<phase, lastDims, dialog, up, size, result, alive, client, keys, bitrate,
                   cancelled, outside>>

----------------------------------------------------------------------------
\* The common teardown: each step is awaited before the next.

TearDownOrder == <<"stopInput", "stopTasks", "stopPipeline", "stopBus", "closeSession", "dropMonitor">>
\* MUTANT: the portal session is closed before the pipeline has stopped.
ReleasesSessionFirst == <<"input", "tasks", "session", "pipeline", "bus", "monitor">>

Releases == <<"input", "tasks", "pipeline", "bus", "session", "monitor">>

\* The close of the portal session is given two seconds: refused or unanswered,
\* it leaves the session open, and the teardown goes on.
Release ==
    /\ \E i \in 1..5 :
        /\ phase = TearDownOrder[i]
        /\ phase' = TearDownOrder[i + 1]
        /\ \/ up' = up \ {Releases[i]} /\ UNCHANGED faults
           \/ Releases[i] = "session" /\ Fault /\ UNCHANGED up
    /\ alive' = (alive /\ "pipeline" \in up')
    /\ keyRx' = FALSE
    /\ UNCHANGED <<lastDims, dialog, size, result, restart, client, owesKey, bitrate,
                   cancelled, outside>>

\* What belongs to one iteration ends with it.
OutOfScope ==
    /\ dialog' = 0 /\ size' = NoSize /\ result' = NoSize /\ restart' = FALSE
    /\ rate' = Ceiling /\ encoder' = Ceiling

\* The result is looked at once everything is gone: an error keeps the stash,
\* no size returns to capture's loop, a size begins the next iteration.  The monitor
\* goes, and the portal session with it is let go of, closed or not.
Finish ==
    /\ phase = "dropMonitor"
    /\ up' = up \ {"monitor", "session"}
    /\ IF result = Error
       THEN phase' = "failed" /\ UNCHANGED lastDims
       ELSE /\ phase' = IF result = NoSize THEN "top" ELSE "size"
            /\ lastDims' = result
    /\ OutOfScope
    /\ UNCHANGED <<alive, client, keys, cancelled, outside, faults>>

\* MUTANT: only a failure under a lock is tried again.
FailedGivesUp ==
    /\ phase = "failed"
    /\ \E reading \in Readings : phase' = IF CanApprove(reading) THEN "done" ELSE "notify"
    /\ UNCHANGED <<lastDims, iteration, client, keys, bitrate, cancelled, outside, faults>>

\* capture: only a failure under a lock is waited out, any other is retried.
Failed ==
    /\ phase = "failed"
    /\ \E reading \in Readings : phase' = IF CanApprove(reading) THEN "top" ELSE "notify"
    /\ UNCHANGED <<lastDims, iteration, client, keys, bitrate, cancelled, outside, faults>>

\* park_until_unlocked tells the client, waiting for room in the channel.
Notify ==
    /\ phase = "notify"
    /\ notices < ControlCap
    /\ IF notices = -1
       THEN phase' = "done" /\ UNCHANGED notices
       ELSE phase' = "parked" /\ notices' = notices + 1
    /\ UNCHANGED <<lastDims, iteration, client, keys, bitrate, cancelled, locked, locks, faults>>

\* MUTANT: an unlock ends the wait, the token does not.
PollUncancellable(reading) ==
    /\ phase = "parked"
    /\ CanApprove(reading)
    /\ phase' = IF cancelled THEN "done" ELSE "top"
    /\ UNCHANGED <<lastDims, iteration, client, keys, bitrate, cancelled, outside, faults>>

\* wait_until_unlocked, reading the lock at every poll.
Poll(reading) ==
    /\ phase = "parked"
    /\ CanApprove(reading) \/ cancelled
    /\ phase' = IF cancelled THEN "done" ELSE "top"
    /\ UNCHANGED <<lastDims, iteration, client, keys, bitrate, cancelled, outside, faults>>

----------------------------------------------------------------------------
\* keyframe_task and govern_bitrate, while the pipeline's tasks run.

TasksRun == "tasks" \in up /\ phase \notin TearDown

ForceKeyframe ==
    /\ TasksRun /\ keyRx
    /\ keyRx' = FALSE
    /\ owesKey' = (owesKey /\ ~alive)
    /\ UNCHANGED <<phase, lastDims, iteration, client, bitrate, cancelled, outside, faults>>

\* next_bitrate.
NextBitrate(current, congested) ==
    LET half == current \div 2
        next == IF ~congested THEN Min({2 * current, Ceiling})
                ELSE IF current >= MinKbps THEN Max({half, MinKbps}) ELSE Max({half, 1})
    IN  Min({next, Ceiling})

\* MUTANT: the governor believes what it asked for.
GovernUnread ==
    /\ TasksRun
    /\ \E congested \in BOOLEAN :
        /\ rate' = NextBitrate(rate, congested)
        /\ \/ encoder' = rate' /\ UNCHANGED faults
           \/ Fault /\ encoder' = encoder
    /\ UNCHANGED <<phase, lastDims, iteration, client, keys, cancelled, outside>>

\* A verdict on the path changes the encoder's bitrate, which the encoder may
\* ignore: what it has is read back.
Govern ==
    /\ TasksRun
    /\ \E congested \in BOOLEAN :
        \/ encoder' = NextBitrate(rate, congested) /\ UNCHANGED faults
        \/ Fault /\ encoder' = encoder
    /\ rate' = encoder'
    /\ UNCHANGED <<phase, lastDims, iteration, client, keys, cancelled, outside>>

----------------------------------------------------------------------------
\* The client, the person at the desktop, the rest of the session.

Sizes(q) == SelectSeq(q, LAMBDA m : m \in Size)

\* A full bus drops its oldest message.
Put(m) ==
    LET q == Append(bus, m)
        kept == IF Len(q) > BusCap THEN Tail(q) ELSE q
    IN  /\ bus' = kept
        /\ lagged' = (m \notin Size /\ (lagged \/ (Sizes(q) # <<>> /\ Sizes(kept) = <<>>)))

Resize ==
    /\ ~cancelled
    /\ resizes < MaxResizes
    /\ \E s \in Size : s # wanted /\ wanted' = s /\ Put(s)
    /\ resizes' = resizes + 1
    /\ UNCHANGED <<phase, lastDims, iteration, keys, bitrate, cancelled, outside, faults>>

KeepAlive ==
    /\ ~cancelled
    /\ Put(Noise)
    /\ UNCHANGED <<phase, lastDims, iteration, wanted, resizes, keys, bitrate, cancelled, outside, faults>>

\* MUTANT: the keyframe task subscribes once everything else runs.
RequestKeyframeUnheard ==
    /\ ~cancelled
    /\ wanted # NoSize
    /\ Put(Noise)
    /\ owesKey' = TRUE
    /\ keyRx' = ("input" \in up)
    /\ UNCHANGED <<phase, lastDims, iteration, wanted, resizes, bitrate, cancelled, outside, faults>>

\* A request nobody was there to receive is answered by the next encoder.
RequestKeyframe ==
    /\ ~cancelled
    /\ wanted # NoSize
    /\ Put(Noise)
    /\ owesKey' = TRUE
    /\ keyRx' = ("tasks" \in up)
    /\ UNCHANGED <<phase, lastDims, iteration, wanted, resizes, bitrate, cancelled, outside, faults>>

Cancel ==
    /\ ~cancelled /\ cancelled' = TRUE
    /\ UNCHANGED <<phase, lastDims, iteration, client, keys, bitrate, outside, faults>>

Lock ==
    /\ ~locked /\ locks < MaxLocks
    /\ locked' = TRUE /\ locks' = locks + 1
    /\ UNCHANGED <<phase, lastDims, iteration, client, keys, bitrate, cancelled, notices, faults>>

Unlock ==
    /\ locked /\ locked' = FALSE
    /\ UNCHANGED <<phase, lastDims, iteration, client, keys, bitrate, cancelled, locks, notices, faults>>

Drain ==
    /\ notices > 0 /\ notices' = notices - 1
    /\ UNCHANGED <<phase, lastDims, iteration, client, keys, bitrate, cancelled, locked, locks, faults>>

ControlGone ==
    /\ notices' = -1
    /\ UNCHANGED <<phase, lastDims, iteration, client, keys, bitrate, cancelled, locked, locks, faults>>

----------------------------------------------------------------------------
Portals == Answered \/ Connected
GivesUp == NotCreated \/ Refused \/ EisFailed

\* The steps of capture and single_capture that wait for nobody.
Own ==
    \/ Proxies \/ Top \/ Rebegin \/ AwaitSize \/ GraceOver \/ Press \/ PressFailed
    \/ Build \/ Play \/ NextDims \/ Release \/ Finish \/ Failed \/ Notify

Next ==
    \/ Own \/ Portals \/ GivesUp
    \/ \E reading \in Readings : Poll(reading)
    \/ PipelineEnds \/ DeviceGone
    \/ ForceKeyframe \/ Govern
    \/ Resize \/ KeepAlive \/ RequestKeyframe
    \/ Cancel \/ Lock \/ Unlock \/ Drain \/ ControlGone

\* The runtime polls every future that is ready, and the control task empties
\* its channel.  That logind can be read is given, that it cannot is not.
Fairness ==
    /\ WF_vars(Own)
    /\ WF_vars(Poll(Hint))
    /\ WF_vars(cancelled /\ GivesUp)
    /\ WF_vars(ForceKeyframe)
    /\ WF_vars(Drain)

Spec == Init /\ [][Next]_vars /\ Fairness

----------------------------------------------------------------------------
\* Whatever ended it, an iteration holds nothing when the next begins, the client
\* is told or the capture ends, and nothing it holds outlives what it stands on:
\* the virtual monitor is there until the close of the portal session has been
\* answered or given up, the session until the pipeline has stopped, the
\* pipeline until its tasks and the input thread have (single_capture's common
\* teardown, Drop).  The monitor goes with the portal session still open only if
\* something external had failed or kept silent, its close for two seconds.
ResourcesNested ==
    /\ phase \in {"proxies", "top", "size", "failed", "notify", "parked", "done"} => up = {}
    /\ \A r \in up : StandsOn[r] \subseteq up
    /\ phase = "dropMonitor" /\ "session" \in up => faults > 0

\* While it runs, the governor's bitrate is the one the encoder has, and never
\* above the ceiling nor, by its own doing, below the floor (govern_bitrate).
GovernorTruthful ==
    TasksRun => /\ rate = encoder
                /\ encoder <= Ceiling
                /\ encoder >= MinKbps

\* A cancelled capture returns, whatever it was waiting for: the portal, a
\* person, an unlock, room in the control channel.
CancelEnds == cancelled ~> phase = "done"

\* The portal answers in the end and a locked session is unlocked.
Attended == WF_vars(Portals) /\ WF_vars(Unlock)

\* A pipeline that ended without a restart being asked for: the bus watcher saw
\* an end of stream or an error it does not take for a lost GPU.
Stalled == phase = "running" /\ ~alive

\* What ends a capture before it is cancelled: no D-Bus proxy to begin with, or
\* the control channel's receiver gone, which is the session's end.
Ended == notices = -1 \/ (phase = "done" /\ lastDims = NoSize)

\* With a portal that answers, a client that stays gets the size it asked for
\* last, unless the bus dropped that or the pipeline ended unnoticed.
ReachesLastSize ==
    Attended =>
        <>[](\/ cancelled \/ Ended \/ lagged \/ Stalled \/ wanted = NoSize
             \/ phase = "running" /\ size = wanted)

\* A keyframe that was asked for is forced, or comes as the first frame of a new
\* encoder, also when the request fell between two encoders or off the bus.
KeyframeServed ==
    Attended =>
        (owesKey ~> ~owesKey \/ cancelled \/ Ended \/ lagged \/ Stalled)

=============================================================================
