--------------------------- MODULE SessionTeardown ---------------------------
(***************************************************************************)
(* One registered session and its tasks: run_session (server/src/wt.rs)    *)
(* spawning the audio and capture tasks while Session::stop                *)
(* (server/src/ipc.rs) may be tearing the session down on another thread,  *)
(* the cleanup task that stop() leaves behind, and shutdown_sessions as it *)
(* deals with this session before the runtime is torn down.                *)
(* SessionRegistry has the many sessions, their ids and their names.       *)
(***************************************************************************)
EXTENDS Naturals

CONSTANTS
    Kind,       \* the tasks in the session's slots; "video" is capture
    Kept        \* those whose resource outlives them: the audio sink

ASSUME KindAssumption == "video" \in Kind /\ Kept \subseteq Kind \ {"video"}

\* From registration to the end of the cleanup task.  stop() runs in
\* "removed" (before the token is cancelled) and "closing" (after it).
Stage == {"live", "removed", "closing", "cleaning", "clean"}

\* The transport task: awaiting start_rx, spawning its tasks, in the select,
\* past it, returned or aborted; or
\* unwound by a panic in its own code.
Work == {"parked", "spawning", "running", "leaving", "over", "panicked"}

TaskState == {"none", "spawned", "over"}

\* The PipeWire node or virtual monitor of a task, which carries the session's
\* name: none, the task's to release, stored in Session.audio_sink, or left
\* behind by an aborted task.
NodeState == {"none", "owned", "stored", "stray"}

VARIABLES
    stage,
    cancelled,      \* Session.disconnect
    work,
    task, node,
    slot,           \* the handles in Session.video and Session.audio
    joining,        \* the handles the cleanup task awaits
    killed,         \* the tasks abort() was called on
    shut            \* shutdown_sessions, as far as this session is concerned

tasks == <<task, node, slot, joining, killed>>
vars == <<stage, cancelled, work, tasks, shut>>

\* "listed": in the snapshot, its removal to come.  "removed": shutdown found
\* it registered and ran its stop(); "lost": another thread was first.
\* "awaiting": its cleanup handle is awaited; "done": nothing more to await,
\* "missed": there was no handle to await; "exited": the runtime is gone.
Shut == {"no", "listed", "removed", "lost", "awaiting", "done", "missed", "exited"}

Unfinished == {k \in Kind : task[k] = "spawned"}

TypeOK ==
    /\ stage \in Stage
    /\ cancelled \in BOOLEAN
    /\ work \in Work
    /\ task \in [Kind -> TaskState]
    /\ node \in [Kind -> NodeState]
    /\ slot \in SUBSET Kind
    /\ joining \in SUBSET Kind
    /\ killed \in SUBSET Kind
    /\ shut \in Shut

Init ==
    /\ stage = "live"
    /\ cancelled = FALSE
    /\ work = "parked"
    /\ task = [k \in Kind |-> "none"]
    /\ node = [k \in Kind |-> "none"]
    /\ slot = {}
    /\ joining = {}
    /\ killed = {}
    /\ shut = "no"

----------------------------------------------------------------------------
\* The transport task.

Start ==
    /\ work = "parked"
    /\ work' = "spawning"
    /\ UNCHANGED <<stage, cancelled, tasks, shut>>

\* MUTANT: the handle is stored whatever the token says.
HandleKeptAlways == TRUE

\* set_audio, set_video: under the slot's lock a cancelled session aborts the
\* task that was just spawned; any other keeps its handle.
HandleKept == ~cancelled

Spawn(k) ==
    /\ work = "spawning"
    /\ task[k] = "none"
    /\ task' = [task EXCEPT ![k] = "spawned"]
    /\ IF HandleKept
       THEN slot' = slot \cup {k} /\ UNCHANGED killed
       ELSE killed' = killed \cup {k} /\ UNCHANGED slot
    /\ UNCHANGED <<stage, cancelled, work, node, joining, shut>>

EnterSelect ==
    /\ work = "spawning"
    /\ \A k \in Kind : task[k] # "none"
    /\ work' = "running"
    /\ UNCHANGED <<stage, cancelled, tasks, shut>>

\* The select returns: the token is cancelled, capture has reported its end,
\* or a pump or the mux ended.  run_session then cancels the token itself.
Leave ==
    /\ work = "running"
    /\ work' = "leaving"
    /\ cancelled' = TRUE
    /\ UNCHANGED <<stage, tasks, shut>>

\* The media pump, which the select polls in place, panics (publish.rs expects a
\* group that is not open): run_session unwinds past cancel() and remove_session.
\* The handles it spawned stay in their slots, and nobody removes the session
\* but the tray or the shutdown.
Panic ==
    /\ work = "running"
    /\ work' = "panicked"
    /\ UNCHANGED <<stage, cancelled, tasks, shut>>

MustLeave == cancelled \/ task["video"] = "over"

\* remove_session finds the session registered, or another thread was first.
RemoveOwn ==
    /\ work = "leaving"
    /\ work' = "over"
    /\ stage' = IF stage = "live" THEN "removed" ELSE stage
    /\ UNCHANGED <<cancelled, tasks, shut>>

\* A task that stop() aborted dies at an await.
AbortLands ==
    /\ stage \in {"cleaning", "clean"}
    /\ work \in {"parked", "running"}
    /\ work' = "over"
    /\ UNCHANGED <<stage, cancelled, tasks, shut>>

----------------------------------------------------------------------------
\* Removal by a tray callback, and stop() on whichever thread removed it.

RemoveByTray ==
    /\ stage = "live"
    /\ stage' = "removed"
    /\ UNCHANGED <<cancelled, work, tasks, shut>>

StopCancel ==
    /\ stage = "removed"
    /\ stage' = "closing"
    /\ cancelled' = TRUE
    /\ UNCHANGED <<work, tasks, shut>>

\* The transport task is aborted, both handles are taken and moved into the
\* cleanup task.
StopTakeHandles ==
    /\ stage = "closing"
    /\ stage' = "cleaning"
    /\ joining' = slot
    /\ slot' = {}
    /\ UNCHANGED <<cancelled, work, task, node, killed, shut>>

\* MUTANT: the five seconds pass and the task is left alone.
TimeoutAbortsNothing(k) == {}

\* finish(): a task that outlasts five seconds is aborted, and still awaited.
TimeoutAborts(k) == {k}

CleanupTimeout(k) ==
    /\ stage = "cleaning"
    /\ k \in (joining \cap Unfinished) \ killed
    /\ killed' = killed \cup TimeoutAborts(k)
    /\ UNCHANGED <<stage, cancelled, work, task, node, slot, joining, shut>>

\* MUTANT: an aborted task is not awaited.
JoinsReturnedOnAbort == (joining \cap Unfinished) \ killed = {}

JoinsReturned == joining \cap Unfinished = {}

\* The stored sink is dropped, which joins its thread; then the reservation is.
CleanupDone ==
    /\ stage = "cleaning"
    /\ JoinsReturned
    /\ stage' = "clean"
    /\ node' = [k \in Kind |-> IF node[k] = "stored" THEN "none" ELSE node[k]]
    /\ UNCHANGED <<cancelled, work, task, slot, joining, killed, shut>>

----------------------------------------------------------------------------
\* The capture and audio tasks.  What names a resource starts only after a
\* message of the client, which is not read before the select, so a task
\* aborted as it was spawned never gets there.
Acquire(k) ==
    /\ k \in Unfinished \ killed
    /\ node[k] = "none"
    /\ node' = [node EXCEPT ![k] = "owned"]
    /\ UNCHANGED <<stage, cancelled, work, task, slot, joining, killed, shut>>

\* A capture that is resized, or an audio sink that could not be started.
Release(k) ==
    /\ k \in Unfinished
    /\ node[k] = "owned"
    /\ node' = [node EXCEPT ![k] = "none"]
    /\ UNCHANGED <<stage, cancelled, work, task, slot, joining, killed, shut>>

Store(k) ==
    /\ k \in Kept \cap Unfinished
    /\ node[k] = "owned"
    /\ node' = [node EXCEPT ![k] = "stored"]
    /\ UNCHANGED <<stage, cancelled, work, task, slot, joining, killed, shut>>

\* It returns, on the token or by itself, having released what is still its own.
Finish(k) ==
    /\ k \in Unfinished
    /\ task' = [task EXCEPT ![k] = "over"]
    /\ node' = [node EXCEPT ![k] = IF @ = "owned" THEN "none" ELSE @]
    /\ UNCHANGED <<stage, cancelled, work, slot, joining, killed, shut>>

\* Aborted, it dies at an await: no teardown runs, and a thread it started is
\* joined by a reaper nobody awaits.
Die(k) ==
    /\ k \in Unfinished \cap killed
    /\ task' = [task EXCEPT ![k] = "over"]
    /\ node' = [node EXCEPT ![k] = IF @ = "owned" THEN "stray" ELSE @]
    /\ UNCHANGED <<stage, cancelled, work, slot, joining, killed, shut>>

Reap(k) ==
    /\ node[k] = "stray"
    /\ node' = [node EXCEPT ![k] = "none"]
    /\ UNCHANGED <<stage, cancelled, work, task, slot, joining, killed, shut>>

----------------------------------------------------------------------------
\* shutdown_sessions.  The snapshot either has this session ...
ShutdownLists ==
    /\ shut = "no"
    /\ stage = "live"
    /\ shut' = "listed"
    /\ UNCHANGED <<stage, cancelled, work, tasks>>

\* ... or does not: it has left the registry already, its cleanup handle unseen.
ShutdownMisses ==
    /\ shut = "no"
    /\ stage # "live"
    /\ shut' = "missed"
    /\ UNCHANGED <<stage, cancelled, work, tasks>>

ShutdownRemoves ==
    /\ shut = "listed"
    /\ shut' = IF stage = "live" THEN "removed" ELSE "lost"
    /\ stage' = IF stage = "live" THEN "removed" ELSE stage
    /\ UNCHANGED <<cancelled, work, tasks>>

\* MUTANT: the handle is looked for before the stop() it ran has returned.
StopReturnedAtOnce == TRUE

StopReturned == stage \notin {"removed", "closing"}

\* The cleanup handle is taken if it is there: after its own stop() it is; a
\* stop() on another thread may not have stored it yet.
ShutdownCollects ==
    /\ \/ shut = "removed" /\ StopReturned
       \/ shut = "lost"
    /\ shut' = IF stage \in {"cleaning", "clean"} THEN "awaiting"
               ELSE IF shut = "removed" THEN "done" ELSE "missed"
    /\ UNCHANGED <<stage, cancelled, work, tasks>>

ShutdownAwaited ==
    /\ shut = "awaiting"
    /\ stage = "clean"
    /\ shut' = "done"
    /\ UNCHANGED <<stage, cancelled, work, tasks>>

\* Five seconds are over, or every session was dealt with: main tears the
\* runtime down.
Exit ==
    /\ shut \in {"awaiting", "done", "missed"}
    /\ shut' = "exited"
    /\ UNCHANGED <<stage, cancelled, work, tasks>>

----------------------------------------------------------------------------
WorkerNext == Start \/ EnterSelect \/ Leave \/ RemoveOwn \/ Panic \/ AbortLands
StopNext == RemoveByTray \/ StopCancel \/ StopTakeHandles \/ CleanupDone
TaskNext(k) ==
    \/ Spawn(k) \/ CleanupTimeout(k)
    \/ Acquire(k) \/ Release(k) \/ Store(k) \/ Finish(k) \/ Die(k) \/ Reap(k)

ShutdownNext ==
    \/ ShutdownLists \/ ShutdownMisses \/ ShutdownRemoves
    \/ ShutdownCollects \/ ShutdownAwaited \/ Exit

Alive == shut # "exited"

Next ==
    /\ Alive
    /\ WorkerNext \/ StopNext \/ ShutdownNext \/ \E k \in Kind : TaskNext(k)

\* While the process lives, code between two awaits goes on, timers fire and
\* an aborted task reaches an await.  A capture need not heed the token, nor a
\* client ever leave.
Fairness ==
    /\ WF_vars(Alive /\ (Start \/ EnterSelect))
    /\ WF_vars(Alive /\ MustLeave /\ Leave)
    /\ WF_vars(Alive /\ RemoveOwn)
    /\ WF_vars(Alive /\ AbortLands)
    /\ WF_vars(Alive /\ (StopCancel \/ StopTakeHandles))
    /\ WF_vars(Alive /\ CleanupDone)
    /\ \A k \in Kind :
        /\ WF_vars(Alive /\ Spawn(k))
        /\ WF_vars(Alive /\ CleanupTimeout(k))
        /\ WF_vars(Alive /\ Die(k))

Safety == Init /\ [][Next]_vars
Spec == Safety /\ Fairness

----------------------------------------------------------------------------
\* A task that still runs is within reach of stop(), awaited by the cleanup
\* task, or aborted: a removal that overlaps run_session spawning its tasks
\* strands none of them.
NoOrphanTask ==
    \A k \in Unfinished :
        \/ k \in killed
        \/ k \in slot /\ stage \in {"live", "removed", "closing"}
        \/ k \in joining /\ stage = "cleaning"

\* When the reservation of the session's names ends, no PipeWire resource of
\* those names is left, but what a task aborted after five seconds left behind.
CleanMeansReleased ==
    stage = "clean" =>
        \A k \in Kind : node[k] = "none" \/ (node[k] = "stray" /\ k \in killed)

\* shutdown_sessions does not call a session it removed itself dealt with while
\* its cleanup still runs.
ShutdownAwaitsItsOwn == shut = "done" => stage = "clean"

\* A session that is removed, cancelled or whose capture has ended is torn
\* down to its last task, although a capture may ignore the token for ever,
\* unless the process exits first or the transport task panics with the session
\* still registered.  One that panicked is torn down once it is removed.
TornDown == stage = "clean" /\ work \in {"over", "panicked"} /\ Unfinished = {}
Abandoned == stage = "live" /\ work = "panicked"
TearDownCompletes ==
    (stage # "live" \/ MustLeave) ~> (TornDown \/ Abandoned \/ shut = "exited")
=============================================================================
