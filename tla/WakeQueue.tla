------------------------------ MODULE WakeQueue ------------------------------
(***************************************************************************)
(* shared/src/wake_queue.rs: the queue between the mux pump (server/src/   *)
(* moq/mod.rs, webui/wasm/src/moq.rs) and the tasks that poll it.          *)
(*                                                                         *)
(* push and close change the queue under the lock and wake afterwards, so  *)
(* the wakes of one call are in flight while others run.  A consumer is a  *)
(* task that awaits poll_pop: it is polled when it starts the await, when  *)
(* its waker is used, and whenever another branch of the same task (a      *)
(* select arm, a timer) is ready; and it may drop the await at any time,   *)
(* which leaves its waker in the list.                                     *)
(*                                                                         *)
(* The specification's own names say "queue", so that a module about the   *)
(* pumps can extend this one as well.                                      *)
(***************************************************************************)
EXTENDS Sequences

CONSTANTS
    Item,       \* the messages that may be pushed, each at most once
    Producer,
    Consumer

VARIABLES
    items, closed,
    wakers,     \* the tasks registered, deduplicated by will_wake
    waking,     \* per producer call, the wakers it took and has yet to wake
    state,      \* of each consumer
    pushed      \* items some push was called with

queueVars == <<items, closed, wakers, waking, state, pushed>>

\* Not awaiting, about to be polled, Pending, told that there are no more.
State == {"idle", "scheduled", "parked", "ended"}

QueueTypeOK ==
    /\ items \in Seq(Item)
    /\ closed \in BOOLEAN
    /\ wakers \in SUBSET Consumer
    /\ waking \in [Producer -> SUBSET Consumer]
    /\ state \in [Consumer -> State]
    /\ pushed \in SUBSET Item

QueueInit ==
    /\ items = <<>>
    /\ closed = FALSE
    /\ wakers = {}
    /\ waking = [p \in Producer |-> {}]
    /\ state = [c \in Consumer |-> "idle"]
    /\ pushed = {}

----------------------------------------------------------------------------
\* MUTANT: push wakes a single waiter, as notify_one would.
TakenOne == IF wakers = {} THEN {} ELSE {CHOOSE c \in wakers : TRUE}

\* mem::take of the list: everyone who waits is woken.
Taken == wakers

\* A call is on its way out while it still has wakers to wake.
Returned(p) == waking[p] = {}

Push(p, i) ==
    /\ Returned(p)
    /\ i \notin pushed
    /\ pushed' = pushed \cup {i}
    /\ IF closed
       THEN UNCHANGED <<items, wakers, waking>>
       ELSE /\ items' = Append(items, i)
            /\ waking' = [waking EXCEPT ![p] = Taken]
            /\ wakers' = wakers \ Taken
    /\ UNCHANGED <<closed, state>>

\* MUTANT: the waiters stay registered and are not woken.
CloseSilently(p) ==
    /\ Returned(p)
    /\ closed' = TRUE
    /\ UNCHANGED <<items, wakers, waking, state, pushed>>

Close(p) ==
    /\ Returned(p)
    /\ closed' = TRUE
    /\ waking' = [waking EXCEPT ![p] = wakers]
    /\ wakers' = {}
    /\ UNCHANGED <<items, state, pushed>>

\* wake_all, with the lock released.
Wake(p, c) ==
    /\ c \in waking[p]
    /\ waking' = [waking EXCEPT ![p] = @ \ {c}]
    /\ state' = [state EXCEPT ![c] = IF @ = "parked" THEN "scheduled" ELSE @]
    /\ UNCHANGED <<items, closed, wakers, pushed>>

----------------------------------------------------------------------------
\* MUTANT: the close is looked at before the items.
EndedFirst == closed

\* poll_pop answers Ready(None) only when it has found no item.
Ended == closed /\ items = <<>>

\* The task awaits the queue; the first poll comes at once.
Await(c) ==
    /\ state[c] = "idle"
    /\ state' = [state EXCEPT ![c] = "scheduled"]
    /\ UNCHANGED <<items, closed, wakers, waking, pushed>>

PollItem(c) ==
    /\ state[c] = "scheduled"
    /\ items # <<>>
    /\ items' = Tail(items)
    /\ state' = [state EXCEPT ![c] = "idle"]
    /\ UNCHANGED <<closed, wakers, waking, pushed>>

PollEnd(c) ==
    /\ state[c] = "scheduled"
    /\ Ended
    /\ state' = [state EXCEPT ![c] = "ended"]
    /\ UNCHANGED <<items, closed, wakers, waking, pushed>>

PollPending(c) ==
    /\ state[c] = "scheduled"
    /\ items = <<>> /\ ~closed
    /\ wakers' = wakers \cup {c}
    /\ state' = [state EXCEPT ![c] = "parked"]
    /\ UNCHANGED <<items, closed, waking, pushed>>

\* Another branch of the task is ready: it polls the queue again ...
PolledAnyway(c) ==
    /\ state[c] = "parked"
    /\ state' = [state EXCEPT ![c] = "scheduled"]
    /\ UNCHANGED <<items, closed, wakers, waking, pushed>>

\* ... or drops the await.  Its waker stays where it is.
GiveUp(c) ==
    /\ state[c] \in {"scheduled", "parked"}
    /\ state' = [state EXCEPT ![c] = "idle"]
    /\ UNCHANGED <<items, closed, wakers, waking, pushed>>

----------------------------------------------------------------------------
ProducerNext(p) ==
    \/ \E i \in Item : Push(p, i)
    \/ Close(p)
    \/ \E c \in Consumer : Wake(p, c)

Poll(c) == PollItem(c) \/ PollEnd(c) \/ PollPending(c)

QueueNext ==
    \/ \E p \in Producer : ProducerNext(p)
    \/ \E c \in Consumer : Await(c) \/ Poll(c) \/ PolledAnyway(c) \/ GiveUp(c)

\* The loop of wake_all goes on, and the executor polls what is scheduled.  A
\* select starts with a random arm, so a task that keeps awaiting the queue
\* does not drop the await before its poll for ever.
QueueFairness ==
    /\ \A p \in Producer, c \in Consumer : WF_queueVars(Wake(p, c))
    /\ \A c \in Consumer : SF_queueVars(Poll(c))

QueueSafety == QueueInit /\ [][QueueNext]_queueVars
QueueSpec == QueueSafety /\ QueueFairness

----------------------------------------------------------------------------
\* A parked consumer is registered or about to be woken; and while there is
\* an item, or the queue is closed, it is about to be woken: neither a
\* consumer that gave up nor a repeated registration can cost it its wake.
WakeInFlight(c) == \E p \in Producer : c \in waking[p]
NoLostWakeup ==
    \A c \in Consumer : state[c] = "parked" =>
        /\ c \in wakers \/ WakeInFlight(c)
        /\ items # <<>> \/ closed => WakeInFlight(c)

\* A closed queue tells every consumer that goes on waiting, whichever of them
\* gave up an await, registered twice or was woken for nothing (wake_queue.rs:85-132).
Waits(c) == state[c] \in {"scheduled", "parked"}
CloseReachesAll == \A c \in Consumer : closed /\ Waits(c) ~> ~Waits(c)

\* The users see a plain queue.
Fifo == INSTANCE FifoQueue WITH
    queue <- items,
    open <- ~closed,
    told <- {c \in Consumer : state[c] = "ended"}
IsFifo == Fifo!Spec
=============================================================================
