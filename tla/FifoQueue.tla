------------------------------ MODULE FifoQueue ------------------------------
(***************************************************************************)
(* What the users of shared/src/wake_queue.rs rely on: items come out once *)
(* and in order, whoever takes them, nothing is accepted after the close,  *)
(* and "no more items" is said only once the queue is closed and drained.  *)
(***************************************************************************)
EXTENDS Sequences

CONSTANTS
    Item,
    Consumer

VARIABLES
    queue,      \* items accepted and not yet handed out
    open,
    told        \* consumers that have been told there will be no more

vars == <<queue, open, told>>

Init ==
    /\ queue = <<>>
    /\ open = TRUE
    /\ told = {}

Accept(i) ==
    /\ open
    /\ queue' = Append(queue, i)
    /\ UNCHANGED <<open, told>>

HandOut ==
    /\ queue # <<>>
    /\ queue' = Tail(queue)
    /\ UNCHANGED <<open, told>>

Close ==
    /\ open' = FALSE
    /\ UNCHANGED <<queue, told>>

Tell(c) ==
    /\ ~open
    /\ queue = <<>>
    /\ told' = told \cup {c}
    /\ UNCHANGED <<queue, open>>

Next ==
    \/ \E i \in Item : Accept(i)
    \/ HandOut
    \/ Close
    \/ \E c \in Consumer : Tell(c)

Spec == Init /\ [][Next]_vars
=============================================================================
