------------------------ MODULE SessionTeardownProofs ------------------------
(***************************************************************************)
(* Proofs about SessionTeardown, for any set of tasks.                     *)
(*                                                                         *)
(* The hand-over of a task handle from the slot to the cleanup task is     *)
(* safe because the token is cancelled before the slots are emptied, and   *)
(* because a task aborted as it was spawned never comes to own anything.   *)
(***************************************************************************)
EXTENDS SessionTeardown, TLAPS

\* The slots are emptied only after the token is cancelled, so no handle is
\* stored behind the back of stop().
ClosedIsCancelled == stage \in {"closing", "cleaning", "clean"} => cancelled

\* What a task has to release it still runs to release, and the cleanup task
\* awaits it or will.
OwnedIsAwaited ==
    \A k \in Kind : node[k] = "owned" =>
        /\ k \in Unfinished
        /\ \/ k \in slot /\ stage \in {"live", "removed", "closing"}
           \/ k \in joining /\ stage = "cleaning"

\* Only an aborted task leaves something behind.
StrayIsKilled == \A k \in Kind : node[k] = "stray" => k \in killed

\* A sink is stored in time for the cleanup task to drop it.
StoredIsDropped == stage = "clean" => \A k \in Kind : node[k] # "stored"

NodesInOrder == OwnedIsAwaited /\ StrayIsKilled /\ StoredIsDropped

\* shutdown_sessions removed what it says it removed.
RemovedIsNotLive == shut = "removed" => stage # "live"

IInv ==
    /\ TypeOK
    /\ ClosedIsCancelled
    /\ NoOrphanTask
    /\ NodesInOrder
    /\ RemovedIsNotLive
    /\ ShutdownAwaitsItsOwn

----------------------------------------------------------------------------
LEMMA InitInv == Init => IInv
<1> SUFFICES ASSUME Init PROVE IInv
    OBVIOUS
<1>1. TypeOK
    BY DEF Init, TypeOK, Stage, Work, TaskState, NodeState, Shut
<1>2. NoOrphanTask /\ NodesInOrder
    BY DEF Init, NoOrphanTask, Unfinished, NodesInOrder, OwnedIsAwaited,
           StrayIsKilled, StoredIsDropped
<1>3. ClosedIsCancelled /\ RemovedIsNotLive /\ ShutdownAwaitsItsOwn
    BY DEF Init, ClosedIsCancelled, RemovedIsNotLive, ShutdownAwaitsItsOwn
<1> QED BY <1>1, <1>2, <1>3 DEF IInv

\* The transport task's steps touch no task, and a session in its registry may
\* leave it.
LEMMA WorkerInv ==
    ASSUME IInv, WorkerNext
    PROVE  IInv'
<1> USE DEF IInv, tasks, Unfinished, NoOrphanTask, NodesInOrder, OwnedIsAwaited,
            StrayIsKilled,
        StoredIsDropped, ClosedIsCancelled, RemovedIsNotLive, ShutdownAwaitsItsOwn
<1>1. CASE Start
    BY <1>1 DEF Start, TypeOK, Work
<1>2. CASE EnterSelect
    BY <1>2 DEF EnterSelect, TypeOK, Work
<1>3. CASE Leave
    BY <1>3 DEF Leave, TypeOK, Work
<1>4. CASE RemoveOwn
    BY <1>4 DEF RemoveOwn, TypeOK, Work, Stage
<1>5. CASE AbortLands
    BY <1>5 DEF AbortLands, TypeOK, Work
<1>6. CASE Panic
    BY <1>6 DEF Panic, TypeOK, Work
<1> QED BY <1>1, <1>2, <1>3, <1>4, <1>5, <1>6 DEF WorkerNext

LEMMA StopInv ==
    ASSUME IInv, StopNext
    PROVE  IInv'
<1> USE DEF IInv, tasks, Unfinished, NoOrphanTask, NodesInOrder, OwnedIsAwaited,
            StrayIsKilled,
        StoredIsDropped, ClosedIsCancelled, RemovedIsNotLive, ShutdownAwaitsItsOwn
<1>1. CASE RemoveByTray
    BY <1>1 DEF RemoveByTray, TypeOK, Stage
<1>2. CASE StopCancel
    BY <1>2 DEF StopCancel, TypeOK, Stage
<1>3. CASE StopTakeHandles
    BY <1>3 DEF StopTakeHandles, TypeOK, Stage
<1>4. CASE CleanupDone
    BY <1>4 DEF CleanupDone, JoinsReturned, TypeOK, Stage, NodeState
<1> QED BY <1>1, <1>2, <1>3, <1>4 DEF StopNext

LEMMA TaskInv ==
    ASSUME IInv, NEW k \in Kind, TaskNext(k)
    PROVE  IInv'
<1> USE DEF IInv, Unfinished, NoOrphanTask, NodesInOrder, OwnedIsAwaited, StrayIsKilled,
        StoredIsDropped, ClosedIsCancelled, RemovedIsNotLive, ShutdownAwaitsItsOwn
<1>1. CASE Spawn(k)
    <2>1. CASE HandleKept
        BY <1>1, <2>1 DEF Spawn, HandleKept, TypeOK, TaskState, Stage
    <2>2. CASE ~HandleKept
        BY <1>1, <2>2 DEF Spawn, TypeOK, TaskState
    <2> QED BY <2>1, <2>2
<1>2. CASE CleanupTimeout(k)
    BY <1>2 DEF CleanupTimeout, TimeoutAborts, TypeOK
<1>3. CASE Acquire(k)
    BY <1>3 DEF Acquire, TypeOK, NodeState
<1>4. CASE Release(k)
    BY <1>4 DEF Release, TypeOK, NodeState
<1>5. CASE Store(k)
    BY <1>5 DEF Store, TypeOK, NodeState
<1>6. CASE Finish(k)
    BY <1>6 DEF Finish, TypeOK, TaskState, NodeState
<1>7. CASE Die(k)
    BY <1>7 DEF Die, TypeOK, TaskState, NodeState
<1>8. CASE Reap(k)
    BY <1>8 DEF Reap, TypeOK, NodeState
<1> QED BY <1>1, <1>2, <1>3, <1>4, <1>5, <1>6, <1>7, <1>8 DEF TaskNext

LEMMA ShutdownInv ==
    ASSUME IInv, ShutdownNext
    PROVE  IInv'
<1> USE DEF IInv, tasks, Unfinished, NoOrphanTask, NodesInOrder, OwnedIsAwaited,
            StrayIsKilled,
        StoredIsDropped, ClosedIsCancelled, RemovedIsNotLive, ShutdownAwaitsItsOwn
<1>1. CASE ShutdownLists
    BY <1>1 DEF ShutdownLists, TypeOK, Shut
<1>2. CASE ShutdownMisses
    BY <1>2 DEF ShutdownMisses, TypeOK, Shut
<1>3. CASE ShutdownRemoves
    BY <1>3 DEF ShutdownRemoves, TypeOK, Shut, Stage
<1>4. CASE ShutdownCollects
    BY <1>4 DEF ShutdownCollects, StopReturned, TypeOK, Shut, Stage
<1>5. CASE ShutdownAwaited
    BY <1>5 DEF ShutdownAwaited, TypeOK, Shut
<1>6. CASE Exit
    BY <1>6 DEF Exit, TypeOK, Shut
<1> QED BY <1>1, <1>2, <1>3, <1>4, <1>5, <1>6 DEF ShutdownNext

LEMMA NextInv == IInv /\ [Next]_vars => IInv'
<1> SUFFICES ASSUME IInv, [Next]_vars PROVE IInv'
    OBVIOUS
<1>1. CASE UNCHANGED vars
    BY <1>1 DEF vars, tasks, IInv, TypeOK, Unfinished, NoOrphanTask, NodesInOrder,
                OwnedIsAwaited, StrayIsKilled, StoredIsDropped, ClosedIsCancelled, RemovedIsNotLive, ShutdownAwaitsItsOwn
<1>2. CASE Next
    BY <1>2, WorkerInv, StopInv, TaskInv, ShutdownInv DEF Next
<1> QED BY <1>1, <1>2

LEMMA Inductive == Safety => []IInv
BY InitInv, NextInv, PTL DEF Safety

----------------------------------------------------------------------------
\* Every variable keeps its type.
THEOREM TypeCorrect == Safety => []TypeOK
<1>1. IInv => TypeOK
    BY DEF IInv
<1> QED BY <1>1, Inductive, PTL

\* However a removal overlaps run_session spawning its tasks, each task that
\* runs is in a slot stop() has yet to empty, awaited, or aborted.
THEOREM NoTaskIsOrphaned == Safety => []NoOrphanTask
<1>1. IInv => NoOrphanTask
    BY DEF IInv
<1> QED BY <1>1, Inductive, PTL

\* Once the cleanup is over the session's names are free on PipeWire, but for
\* what an aborted task left behind.
THEOREM CleanIsReleased == Safety => []CleanMeansReleased
<1>1. IInv => CleanMeansReleased
    BY DEF IInv, TypeOK, NodeState, NodesInOrder, OwnedIsAwaited, StrayIsKilled,
           StoredIsDropped, CleanMeansReleased
<1> QED BY <1>1, Inductive, PTL

\* shutdown_sessions is never done with a session it removed before its cleanup
\* is over.
THEOREM ShutdownAwaits == Safety => []ShutdownAwaitsItsOwn
<1>1. IInv => ShutdownAwaitsItsOwn
    BY DEF IInv
<1> QED BY <1>1, Inductive, PTL
=============================================================================
