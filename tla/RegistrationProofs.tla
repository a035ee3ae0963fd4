-------------------------- MODULE RegistrationProofs --------------------------
(***************************************************************************)
(* Proofs about Registration, for any finite sets of keys and of requests  *)
(* in flight, any rate limit and any bounds: what one command can admit,   *)
(* how far the rate limit is overshot, and how a user can vanish.          *)
(***************************************************************************)
EXTENDS Registration, FiniteSetTheorems, TLAPS

Known == Id \cup {None}
Stored == [users : SUBSET Known, edit : Int]

StepsTyped ==
    /\ pc \in [Writer -> Step]
    /\ kind \in [Writer -> {"login", "register"}]
    /\ id \in [Writer -> Known]

ConfigsTyped ==
    /\ snap \in [Writer -> Stored]
    /\ since \in [Writer -> SUBSET Known]
    /\ file \in Stored /\ mem \in Stored /\ read \in Stored

\* The parts of TypeOK that the proofs rest on.
Typed == StepsTyped /\ ConfigsTyped

----------------------------------------------------------------------------
LEMMA DefaultStored == DefaultConfig \in Stored /\ EmptyFile \in Stored /\ TornFile \in Stored
    BY DEF DefaultConfig, EmptyFile, TornFile, Stored

LEMMA InitTyped == Init => Typed
<1> SUFFICES ASSUME Init PROVE Typed
    OBVIOUS
<1>1. StepsTyped
    BY DEF Init, ForAll, StepsTyped, Step, Known
<1>2. ConfigsTyped
    BY DefaultStored, FoundersAssumption, BoundAssumption
        DEF Init, ForAll, ConfigsTyped, Stored, Known
<1> QED BY <1>1, <1>2 DEF Typed

LEMMA NextTyped == Typed /\ [Next]_vars => Typed'
<1> SUFFICES ASSUME Typed, [Next]_vars PROVE Typed'
    OBVIOUS
<1> USE DEF Typed
<1>1. StepsTyped'
    <2> USE DEF StepsTyped, Goto, Step, Known, attempts
    <2>1. ASSUME NEW i \in Id, GetChallenge(i) PROVE StepsTyped'
        BY <2>1 DEF GetChallenge
    <2>2. ASSUME NEW a \in Attempt, NEW k \in {"login", "register"}, NEW i \in Id,
                 Submit(a, k, i)
          PROVE  StepsTyped'
        BY <2>2 DEF Submit
    <2>3. ASSUME NEW a \in Attempt, Handle(a) PROVE StepsTyped'
        BY <2>3 DEF Handle, Receive, Approve, Menu, Requeue, Block, Verify, IssueCookie,
                    RecordFailure, Succeed, Reset
    <2>4. ASSUME NEW a \in Attempt, Timeout(a) \/ AnswerLost(a) \/ HangUp(a)
          PROVE  StepsTyped'
        BY <2>4 DEF Timeout, AnswerLost, HangUp, Reset
    <2>5. ASSUME NEW w \in Writer, Update(w) \/ WriteFails(w) PROVE StepsTyped'
        BY <2>5 DEF Update, Open, Write, Store, WriteFails, Reset
    <2>6. ASSUME NEW n \in Index, NEW s \in BOOLEAN, Authorise(n, s) PROVE StepsTyped'
        BY <2>6 DEF Authorise
    <2>7. ASSUME NEW n \in Index, Deauthorise(n) PROVE StepsTyped'
        BY <2>7 DEF Deauthorise, ConfigsTyped, Stored
    <2>8. CASE WindowPasses \/ Edit \/ Watch \/ ServerFails \/ ResetApp
        BY <2>8 DEF WindowPasses, Edit, Watch, DropWatcher, ReadFile, Reload, ServerFails,
                    ResetApp
    <2>9. CASE Crash
        BY <2>9 DEF Crash, ForAll
    <2>10. CASE Boot
        BY <2>10 DEF Boot
    <2>11. CASE UNCHANGED vars
        BY <2>11 DEF vars
    <2> QED BY <2>1, <2>2, <2>3, <2>4, <2>5, <2>6, <2>7, <2>8, <2>9, <2>10, <2>11
            DEF Next
<1>2. ConfigsTyped'
    <2> USE DefaultStored DEF ConfigsTyped, Known, writers, config, watching
    <2>1. ASSUME NEW i \in Id, GetChallenge(i) PROVE ConfigsTyped'
        BY <2>1 DEF GetChallenge
    <2>2. ASSUME NEW a \in Attempt, NEW k \in {"login", "register"}, NEW i \in Id,
                 Submit(a, k, i)
          PROVE  ConfigsTyped'
        BY <2>2 DEF Submit, Clone
    <2>3. ASSUME NEW a \in Attempt, Handle(a) PROVE ConfigsTyped'
        <3>1. CASE IssueCookie(a)
            <4>1. snap' \in [Writer -> Stored]
                BY <3>1 DEF IssueCookie, Stored, StepsTyped, Writer
            <4> QED BY <3>1, <4>1 DEF IssueCookie
        <3>2. CASE RecordFailure(a) \/ Succeed(a)
            BY <3>2 DEF RecordFailure, Succeed, Reset
        <3>3. CASE Receive(a) \/ Approve(a) \/ Menu(a) \/ Requeue(a) \/ Block(a) \/ Verify(a)
            BY <3>3 DEF Receive, Approve, Menu, Requeue, Block, Verify
        <3> QED BY <2>3, <3>1, <3>2, <3>3 DEF Handle
    <2>4. ASSUME NEW a \in Attempt, Timeout(a) \/ AnswerLost(a) \/ HangUp(a)
          PROVE  ConfigsTyped'
        BY <2>4 DEF Timeout, AnswerLost, HangUp, Reset
    <2>5. ASSUME NEW w \in Writer, Update(w) \/ WriteFails(w) PROVE ConfigsTyped'
        <3>1. CASE Open(w)
            BY <3>1 DEF Open, Reported
        <3>2. CASE Write(w)
            BY <3>2 DEF Write, Reported, Reset
        <3>3. CASE Store(w)
            <4>1. mem' = snap[w] /\ mem' \in Stored
                BY <3>3 DEF Store, SetMemory
            <4>2. since' \in [Writer -> SUBSET Known]
                BY <3>3 DEF Store, SetMemory, Stored
            <4>3. snap' \in [Writer -> Stored]
                BY <3>3 DEF Store
            <4> QED BY <3>3, <4>1, <4>2, <4>3 DEF Store
        <3>4. CASE WriteFails(w)
            BY <3>4 DEF WriteFails, Reset
        <3> QED BY <2>5, <3>1, <3>2, <3>3, <3>4 DEF Update
    <2>6. ASSUME NEW n \in Index, NEW s \in BOOLEAN, Authorise(n, s) PROVE ConfigsTyped'
        BY <2>6 DEF Authorise
    <2>7. ASSUME NEW n \in Index, Deauthorise(n) PROVE ConfigsTyped'
        <3>1. [mem EXCEPT !.users = @ \ {Doomed(n)}] \in Stored
            BY DEF Stored
        <3> QED BY <2>7, <3>1 DEF Deauthorise
    <2>8. CASE WindowPasses \/ ServerFails \/ ResetApp \/ DropWatcher
        BY <2>8 DEF WindowPasses, DropWatcher, ServerFails, ResetApp
    <2>9. CASE Edit
        <3>1. file' \in Stored
            BY <2>9 DEF Edit, Stored
        <3> QED BY <2>9, <3>1 DEF Edit, Reported
    <2>10. CASE ReadFile
        BY <2>10 DEF ReadFile
    <2>11. CASE Reload
        <3>1. since' \in [Writer -> SUBSET Known]
            BY <2>11 DEF Reload, SetMemory, Stored
        <3> QED BY <2>11, <3>1 DEF Reload, SetMemory
    <2>12. CASE Crash
        BY <2>12 DEF Crash, ForAll
    <2>13. CASE Boot
        BY <2>13 DEF Boot
    <2>14. CASE UNCHANGED vars
        BY <2>14 DEF vars
    <2> QED BY <2>1, <2>2, <2>3, <2>4, <2>5, <2>6, <2>7, <2>8, <2>9, <2>10, <2>11,
               <2>12, <2>13, <2>14
            DEF Next, Watch
<1> QED BY <1>1, <1>2

----------------------------------------------------------------------------
(***************************************************************************)
(* The rate limit.  Whoever passes the check adds at most one failure, so  *)
(* the failures counted and those that may still come have a bound.        *)
(***************************************************************************)
InFlight == {a \in Attempt : pc[a] # "idle"}

RateSum ==
    /\ rate \in [count : Nat, stale : BOOLEAN]
    /\ rate.count + Cardinality(InFlight) < RateLimit + Cardinality(Attempt)

LEMMA InFlightFinite ==
    /\ IsFiniteSet(InFlight) /\ Cardinality(InFlight) \in Nat
    /\ Cardinality(InFlight) <= Cardinality(Attempt) /\ Cardinality(Attempt) \in Nat
<1>1. InFlight \in SUBSET Attempt
    BY DEF InFlight
<1> QED BY <1>1, PartiesAssumption, FS_Subset, FS_CardinalityType

LEMMA InitRate == Init => RateSum
<1> SUFFICES ASSUME Init PROVE RateSum
    OBVIOUS
<1>1. InFlight = {}
    BY DEF Init, ForAll, InFlight, Writer
<1> QED BY <1>1, FS_EmptySet, InFlightFinite, LimitAssumption
        DEF Init, NoAddress, RateSum

\* What leaves the count alone and starts no attempt keeps the sum.
LEMMA RateKept ==
    ASSUME RateSum, UNCHANGED rate, InFlight' \in SUBSET InFlight
    PROVE  RateSum'
<1>1. Cardinality(InFlight') <= Cardinality(InFlight) /\ Cardinality(InFlight') \in Nat
    BY InFlightFinite, FS_Subset, FS_CardinalityType
<1> QED BY <1>1, InFlightFinite, LimitAssumption DEF RateSum

LEMMA NextRate == Typed /\ RateSum /\ [Next]_vars => RateSum'
<1> SUFFICES ASSUME Typed, RateSum, [Next]_vars PROVE RateSum'
    OBVIOUS
<1>1. RateLimit \in Nat /\ RateLimit > 0
    BY LimitAssumption
<1>2. IsFiniteSet(InFlight') /\ Cardinality(InFlight') \in Nat
    <2>1. InFlight' \in SUBSET Attempt
        BY DEF InFlight
    <2> QED BY <2>1, PartiesAssumption, FS_Subset, FS_CardinalityType
<1>3. ASSUME NEW a \in Attempt, NEW k \in {"login", "register"}, NEW i \in Id,
             Submit(a, k, i)
      PROVE  RateSum'
    <2>1. Cardinality(InFlight') <= Cardinality(Attempt)
        <3>1. InFlight' \in SUBSET Attempt
            BY DEF InFlight
        <3> QED BY <3>1, PartiesAssumption, FS_Subset
    <2>2. rate' \in [count : Nat, stale : BOOLEAN] /\ rate'.count < RateLimit
        BY <1>3 DEF Submit, Refreshed, NoAddress, RateSum
    <2> QED BY <2>1, <2>2, <1>1, <1>2, InFlightFinite DEF RateSum
<1>4. ASSUME NEW a \in Attempt, RecordFailure(a)
      PROVE  RateSum'
    <2>1. a \in InFlight /\ InFlight' = InFlight \ {a}
        BY <1>4 DEF RecordFailure, Reset, InFlight, Typed, StepsTyped, Writer
    <2>2. Cardinality(InFlight') = Cardinality(InFlight) - 1
        BY <2>1, InFlightFinite, FS_RemoveElement
    <2>3. /\ rate' \in [count : Nat, stale : BOOLEAN]
          /\ rate'.count = rate.count + 1 \/ rate'.count = 1
        <3>1. Refreshed \in [count : Nat, stale : BOOLEAN]
            BY DEF Refreshed, NoAddress, RateSum
        <3>2. Refreshed.count = rate.count \/ Refreshed.count = 0
            BY DEF Refreshed, NoAddress
        <3>3. rate' = [Refreshed EXCEPT !.count = @ + 1]
            BY <1>4 DEF RecordFailure
        <3> QED BY <3>1, <3>2, <3>3
    <2> QED BY <2>2, <2>3, <1>1, <1>2, InFlightFinite DEF RateSum
<1>5. ASSUME NEW a \in Attempt, Succeed(a)
      PROVE  RateSum'
    <2>1. InFlight' \in SUBSET InFlight
        BY <1>5 DEF Succeed, Reset, InFlight, Typed, StepsTyped
    <2>2. Cardinality(InFlight') <= Cardinality(Attempt)
        <3>1. Cardinality(InFlight') <= Cardinality(InFlight)
            BY <2>1, InFlightFinite, FS_Subset
        <3> QED BY <3>1, <1>2, InFlightFinite
    <2>3. rate' = NoAddress
        BY <1>5 DEF Succeed
    <2> QED BY <2>2, <2>3, <1>1, <1>2, InFlightFinite DEF RateSum, NoAddress
<1>6. CASE WindowPasses
    <2>1. /\ rate' \in [count : Nat, stale : BOOLEAN] /\ rate'.count = rate.count
          /\ InFlight' = InFlight
        BY <1>6 DEF WindowPasses, RateSum, InFlight, attempts
    <2> QED BY <2>1 DEF RateSum
<1>7. CASE Crash
    <2>1. InFlight' = {} /\ rate' = NoAddress
        BY <1>7 DEF Crash, ForAll, InFlight, Writer
    <2> QED BY <2>1, <1>1, FS_EmptySet, InFlightFinite DEF RateSum, NoAddress
<1> USE DEF Typed, StepsTyped, Writer, InFlight, Goto, attempts
<1>8. ASSUME NEW a \in Attempt,
             \/ Receive(a) \/ Approve(a) \/ Menu(a) \/ Requeue(a) \/ Block(a)
             \/ Verify(a) \/ IssueCookie(a) \/ Timeout(a) \/ AnswerLost(a) \/ HangUp(a)
      PROVE  RateSum'
    <2>1. UNCHANGED rate
        BY <1>8 DEF Receive, Approve, Menu, Requeue, Block, Verify, IssueCookie, Timeout,
                    AnswerLost, HangUp
    <2>2. pc[a] # "idle" /\ \E step : pc' = [pc EXCEPT ![a] = step]
        BY <1>8 DEF Receive, Approve, Menu, Requeue, Block, Verify, IssueCookie, Timeout,
                    AnswerLost, HangUp, Reset
    <2>3. InFlight' \in SUBSET InFlight
        BY <2>2
    <2> QED BY <2>1, <2>3, RateKept
<1>9. ASSUME NEW w \in Writer, Update(w) \/ WriteFails(w)
      PROVE  RateSum'
    <2>1. UNCHANGED rate
        BY <1>9 DEF Update, Open, Write, Store, WriteFails
    <2>2. pc[w] # "idle" /\ \E step : pc' = [pc EXCEPT ![w] = step]
        BY <1>9 DEF Update, Open, Write, Store, WriteFails, Reset
    <2>3. InFlight' \in SUBSET InFlight
        BY <2>2
    <2> QED BY <2>1, <2>3, RateKept
<1>10. ASSUME NEW n \in Index, Deauthorise(n)
       PROVE  RateSum'
    <2>1. UNCHANGED rate /\ InFlight' \in SUBSET InFlight
        BY <1>10, PartiesAssumption DEF Deauthorise
    <2> QED BY <2>1, RateKept
<1>11. ASSUME UNCHANGED rate, UNCHANGED pc
       PROVE  RateSum'
    <2>1. InFlight' \in SUBSET InFlight
        BY <1>11
    <2> QED BY <1>11, <2>1, RateKept
<1>12. CASE \/ \E i \in Id : GetChallenge(i)
            \/ \E n \in Index, s \in BOOLEAN : Authorise(n, s)
            \/ Edit \/ Watch \/ ServerFails \/ ResetApp \/ Boot \/ UNCHANGED vars
    BY <1>11, <1>12 DEF GetChallenge, Authorise, Edit, Watch, DropWatcher, ReadFile, Reload,
                        ServerFails, ResetApp, Boot, vars
<1> QED BY <1>3, <1>4, <1>5, <1>6, <1>7, <1>8, <1>9, <1>10, <1>12 DEF Next, Handle

\* The rate limit is overshot by less than the number of requests in flight
\* (rate_limited): the check and the record have the attempt between them.
THEOREM RateIsBounded == Spec => []RateBounded
<1>1. Init => Typed /\ RateSum
    BY InitTyped, InitRate
<1>2. Typed /\ RateSum /\ [Next]_vars => Typed' /\ RateSum'
    BY NextTyped, NextRate
<1>3. RateSum => RateBounded
    <2> SUFFICES ASSUME RateSum PROVE RateBounded
        OBVIOUS
    <2> QED BY InFlightFinite, LimitAssumption DEF RateSum, RateBounded
<1> QED BY <1>1, <1>2, <1>3, PTL DEF Spec

----------------------------------------------------------------------------
(***************************************************************************)
(* What a command admits.  A command lies in the queue, is held by a       *)
(* registration that decides or has been granted, or has become a user in  *)
(* some copy of the configuration; nothing makes two of one.               *)
(***************************************************************************)
Somewhere(i) ==
    \/ i \in mem.users \/ i \in file.users \/ i \in read.users
    \/ \E w \in Writer : i \in snap[w].users

Admitted == {i \in Known \ Founders : Somewhere(i)}

Granted ==
    {a \in Attempt : \/ pc[a] = "deciding"
                     \/ pc[a] \in {"verifying", "issuing"} /\ kind[a] = "register"}

Pending == IF queue \in {Empty, Blocked} THEN 0 ELSE 1

Spent ==
    /\ commands \in Nat
    /\ Cardinality(Admitted) + Cardinality(Granted) + Pending <= commands

LEMMA Finite ==
    /\ IsFiniteSet(Admitted) /\ Cardinality(Admitted) \in Nat
    /\ IsFiniteSet(Granted) /\ Cardinality(Granted) \in Nat
    /\ Pending \in {0, 1}
<1>1. Granted \in SUBSET Attempt
    BY DEF Granted
<1>2. IsFiniteSet(Known)
    BY PartiesAssumption, FS_AddElement DEF Known
<1>3. Admitted \in SUBSET Known
    BY DEF Admitted
<1> QED BY <1>1, <1>2, <1>3, PartiesAssumption, FS_Subset, FS_CardinalityType DEF Pending

LEMMA FiniteNext ==
    /\ IsFiniteSet(Admitted') /\ Cardinality(Admitted') \in Nat
    /\ IsFiniteSet(Granted') /\ Cardinality(Granted') \in Nat
    /\ Pending' \in {0, 1}
<1>1. Granted' \in SUBSET Attempt
    BY DEF Granted
<1>2. IsFiniteSet(Known)
    BY PartiesAssumption, FS_AddElement DEF Known
<1>3. Admitted' \in SUBSET Known
    BY DEF Admitted
<1> QED BY <1>1, <1>2, <1>3, PartiesAssumption, FS_Subset, FS_CardinalityType DEF Pending

LEMMA InitSpent == Init => Spent
<1> SUFFICES ASSUME Init PROVE Spent
    OBVIOUS
<1>1. Granted = {} /\ Pending = 0
    BY DEF Init, ForAll, Granted, Pending, Writer
<1>2. Admitted = {}
    BY DEF Init, ForAll, Admitted, Somewhere, DefaultConfig
<1> QED BY <1>1, <1>2, FS_EmptySet DEF Init, Spent

\* A step that spreads nothing spends nothing.
LEMMA SpentKept ==
    ASSUME Spent, commands' \in Nat, commands' >= commands,
           Admitted' \in SUBSET Admitted, Granted' \in SUBSET Granted,
           Pending' <= Pending
    PROVE  Spent'
<1>1. Cardinality(Admitted') <= Cardinality(Admitted)
    BY Finite, FS_Subset
<1>2. Cardinality(Granted') <= Cardinality(Granted)
    BY Finite, FS_Subset
<1> QED BY <1>1, <1>2, Finite, FiniteNext DEF Spent

\* The steps that pass a command on: queue to registration, and back; grant to
\* user.
LEMMA ReceiveSpent ==
    ASSUME Typed, Spent, NEW a \in Attempt, Receive(a)
    PROVE  Spent'
<1>1. Admitted' = Admitted /\ commands' = commands
    BY DEF Receive, writers, config, watching, Admitted, Somewhere
<1>2. CASE queue = Blocked
    <2>1. Granted' = Granted /\ Pending' <= Pending
        BY <1>2 DEF Receive, Granted, Pending, Empty, Blocked
    <2> QED BY <1>1, <2>1, SpentKept DEF Spent
<1>3. CASE queue # Blocked
    <2>1. Granted' \in SUBSET (Granted \cup {a})
        BY <1>3 DEF Receive, Granted, Goto, Typed, StepsTyped, Writer
    <2>2. Pending = 1 /\ Pending' = 0
        BY <1>3 DEF Receive, Pending
    <2>3. Cardinality(Granted') <= Cardinality(Granted) + 1
        <3>1. IsFiniteSet(Granted \cup {a})
              /\ Cardinality(Granted \cup {a}) <= Cardinality(Granted) + 1
            BY Finite, FS_AddElement
        <3>2. Cardinality(Granted') <= Cardinality(Granted \cup {a})
            BY <2>1, <3>1, FS_Subset
        <3> QED BY <3>1, <3>2, Finite, FiniteNext, FS_CardinalityType
    <2> QED BY <1>1, <2>2, <2>3, Finite, FiniteNext DEF Spent
<1> QED BY <1>2, <1>3

LEMMA RequeueSpent ==
    ASSUME Typed, Spent, NEW a \in Attempt, Requeue(a)
    PROVE  Spent'
<1>1. Admitted' = Admitted /\ commands' = commands
    BY DEF Requeue, writers, config, watching, Admitted, Somewhere
<1>2. a \in Granted /\ Granted' = Granted \ {a}
    BY DEF Requeue, Granted, Goto, Typed, StepsTyped, Writer
<1>3. Cardinality(Granted') = Cardinality(Granted) - 1
    BY <1>2, Finite, FS_RemoveElement
<1>4. Pending' <= Pending + 1
    BY Finite, FiniteNext
<1> QED BY <1>1, <1>3, <1>4, Finite, FiniteNext DEF Spent

LEMMA IssueSpent ==
    ASSUME Typed, Spent, NEW a \in Attempt, IssueCookie(a)
    PROVE  Spent'
<1>1. commands' = commands /\ Pending' = Pending
    BY DEF IssueCookie, Pending
<1>2. CASE kind[a] = "login"
    <2>1. Admitted' = Admitted
        BY <1>2 DEF IssueCookie, config, watching, Admitted, Somewhere
    <2>2. Granted' \in SUBSET Granted
        BY <1>2 DEF IssueCookie, Granted, Goto, Typed, StepsTyped, Writer
    <2> QED BY <1>1, <2>1, <2>2, Finite, SpentKept DEF Spent
<1>3. CASE kind[a] # "login"
    <2>1. a \in Granted /\ Granted' = Granted \ {a}
        BY <1>3 DEF IssueCookie, Granted, Goto, Typed, StepsTyped, Writer
    <2>2. Cardinality(Granted') = Cardinality(Granted) - 1
        BY <2>1, Finite, FS_RemoveElement
    <2>3. Admitted' \in SUBSET (Admitted \cup {id[a]})
        <3>1. UNCHANGED <<file, mem, read>>
            BY DEF IssueCookie, config, watching
        <3>2. \A w \in Writer : snap'[w].users \subseteq snap[w].users \cup {id[a]}
            BY <1>3 DEF IssueCookie, Typed, ConfigsTyped, Stored
        <3> QED BY <3>1, <3>2 DEF Admitted, Somewhere
    <2>4. Cardinality(Admitted') <= Cardinality(Admitted) + 1
        <3>1. IsFiniteSet(Admitted \cup {id[a]})
              /\ Cardinality(Admitted \cup {id[a]}) <= Cardinality(Admitted) + 1
            BY Finite, FS_AddElement
        <3>2. Cardinality(Admitted') <= Cardinality(Admitted \cup {id[a]})
            BY <2>3, <3>1, FS_Subset
        <3> QED BY <3>1, <3>2, Finite, FiniteNext, FS_CardinalityType
    <2> QED BY <1>1, <2>2, <2>4, Finite, FiniteNext DEF Spent
<1> QED BY <1>2, <1>3

LEMMA AuthoriseSpent ==
    ASSUME Spent, NEW n \in Index, NEW s \in BOOLEAN, Authorise(n, s)
    PROVE  Spent'
<1>1. Admitted' = Admitted /\ Granted' = Granted
    BY DEF Authorise, attempts, writers, config, watching, Admitted, Somewhere, Granted
<1>2. commands' = commands + 1
    BY DEF Authorise
<1> QED BY <1>1, <1>2, Finite, FiniteNext DEF Spent

\* The writes: they move configurations between the copies.
LEMMA WriteSpent ==
    ASSUME Typed, Spent, NEW w \in Writer, Update(w) \/ WriteFails(w)
    PROVE  Spent'
<1>1. commands' = commands /\ Pending' = Pending
    BY DEF Update, Open, Write, Store, WriteFails, Pending
<1>2. Granted' \in SUBSET Granted
    BY DEF Update, Open, Write, Store, WriteFails, Reset, Goto, Granted, Typed, StepsTyped,
           Writer
<1>3. Admitted' \in SUBSET Admitted
    <2> USE DEF Typed, ConfigsTyped, Admitted, Somewhere, writers, config, watching
    <2>1. CASE Open(w)
        BY <2>1 DEF Open, Reported, EmptyFile, DefaultConfig
    <2>2. CASE Write(w)
        <3>1. file'.users \subseteq snap[w].users
            BY <2>2 DEF Write, TornFile
        <3>2. \A v \in Writer : snap'[v].users \subseteq snap[v].users
            BY <2>2 DEF Write, Reset, DefaultConfig
        <3>3. mem' = mem /\ read'.users \subseteq read.users
            BY <2>2 DEF Write, Reported, DefaultConfig
        <3> QED BY <3>1, <3>2, <3>3
    <2>3. CASE Store(w)
        <3>1. mem' = snap[w] /\ UNCHANGED <<file, read>>
            BY <2>3 DEF Store, SetMemory
        <3>2. \A v \in Writer : snap'[v].users \subseteq snap[v].users
            BY <2>3 DEF Store, DefaultConfig
        <3> QED BY <3>1, <3>2
    <2>4. CASE WriteFails(w)
        <3>1. \A v \in Writer : snap'[v].users \subseteq snap[v].users
            BY <2>4 DEF WriteFails, Reset, DefaultConfig
        <3> QED BY <2>4, <3>1 DEF WriteFails
    <2> QED BY <2>1, <2>2, <2>3, <2>4 DEF Update
<1> QED BY <1>1, <1>2, <1>3, Finite, SpentKept DEF Spent

\* The other steps of a request.
LEMMA RequestSpent ==
    ASSUME Typed, Spent, NEW a \in Attempt,
           \/ Approve(a) \/ Menu(a) \/ Block(a) \/ Verify(a) \/ RecordFailure(a)
           \/ Succeed(a) \/ Timeout(a) \/ AnswerLost(a) \/ HangUp(a)
    PROVE  Spent'
<1>1. commands' = commands /\ Pending' <= Pending
    BY DEF Approve, Menu, Block, Verify, RecordFailure, Succeed, Timeout, AnswerLost, HangUp,
           Pending, Empty, Blocked
<1>2. Granted' \in SUBSET Granted
    BY DEF Approve, Menu, Block, Verify, RecordFailure, Succeed, Timeout, AnswerLost, HangUp,
           Reset, Goto, Granted, Typed, StepsTyped, Writer
<1>3. \A v \in Writer : snap'[v].users \subseteq snap[v].users
    BY DEF Approve, Menu, Block, Verify, RecordFailure, Succeed, Timeout, AnswerLost, HangUp,
           Reset, Typed, ConfigsTyped, DefaultConfig, writers
<1>4. UNCHANGED <<mem, file, read>>
    BY DEF Approve, Menu, Block, Verify, RecordFailure, Succeed, Timeout, AnswerLost, HangUp,
           config, watching
<1>5. Admitted' \in SUBSET Admitted
    BY <1>3, <1>4 DEF Admitted, Somewhere
<1> QED BY <1>1, <1>2, <1>5, SpentKept DEF Spent

LEMMA SubmitSpent ==
    ASSUME Typed, Spent, NEW a \in Attempt, NEW k \in {"login", "register"}, NEW i \in Id,
           Submit(a, k, i)
    PROVE  Spent'
<1>1. commands' = commands /\ Pending' = Pending
    BY DEF Submit, Pending
<1>2. Granted' \in SUBSET Granted
    BY DEF Submit, Goto, Granted, Typed, StepsTyped, Writer
<1>3. \A v \in Writer : snap'[v].users \subseteq snap[v].users \cup mem.users
    BY DEF Submit, Clone, Typed, ConfigsTyped, writers
<1>4. Admitted' \in SUBSET Admitted
    BY <1>3 DEF Submit, config, watching, Admitted, Somewhere
<1> QED BY <1>1, <1>2, <1>4, Finite, SpentKept DEF Spent

\* The steps of the operator and of the process.
LEMMA OutsideSpent ==
    ASSUME Typed, Spent,
           \/ \E i \in Id : GetChallenge(i)
           \/ \E n \in Index : Deauthorise(n)
           \/ WindowPasses \/ Edit \/ Watch \/ ServerFails \/ ResetApp \/ Crash \/ Boot
           \/ UNCHANGED vars
    PROVE  Spent'
<1>1. commands' = commands /\ Pending' <= Pending
    BY DEF GetChallenge, Deauthorise, WindowPasses, Edit, Watch, DropWatcher, ReadFile, Reload,
           ServerFails, ResetApp, Crash, Boot, vars, Pending, Blocked
<1>2. Granted' \in SUBSET Granted
    <2>1. CASE \E n \in Index : Deauthorise(n)
        BY <2>1, PartiesAssumption DEF Deauthorise, Goto, Granted, Typed, StepsTyped, Writer
    <2>2. CASE Crash
        BY <2>2 DEF Crash, ForAll, Granted, Writer
    <2>3. CASE UNCHANGED <<pc, kind>>
        BY <2>3 DEF Granted
    <2> QED BY <2>1, <2>2, <2>3
            DEF GetChallenge, WindowPasses, Edit, Watch, DropWatcher, ReadFile, Reload,
                ServerFails, ResetApp, Boot, vars, attempts
<1>3. Admitted' \in SUBSET Admitted
    <2> USE DEF Admitted, Somewhere, config, watching, writers
    <2>1. CASE \E n \in Index : Deauthorise(n)
        <3>1. \A v \in Writer : snap'[v].users \subseteq snap[v].users \cup mem.users
            BY <2>1 DEF Deauthorise, Typed, ConfigsTyped, Stored
        <3> QED BY <2>1, <3>1 DEF Deauthorise
    <2>2. CASE Edit
        <3>1. file'.users = file.users /\ read'.users \subseteq read.users
            BY <2>2 DEF Edit, Reported, DefaultConfig, Typed, ConfigsTyped, Stored
        <3> QED BY <2>2, <3>1 DEF Edit
    <2>3. CASE ReadFile
        BY <2>3 DEF ReadFile
    <2>4. CASE Reload
        BY <2>4 DEF Reload, SetMemory, DefaultConfig
    <2>5. CASE Crash
        BY <2>5 DEF Crash, ForAll, DefaultConfig
    <2>6. CASE Boot
        BY <2>6 DEF Boot, DefaultConfig
    <2>7. CASE \/ \E i \in Id : GetChallenge(i)
               \/ WindowPasses \/ DropWatcher \/ ServerFails \/ ResetApp \/ UNCHANGED vars
        BY <2>7 DEF GetChallenge, WindowPasses, DropWatcher, ServerFails, ResetApp, vars
    <2> QED BY <2>1, <2>2, <2>3, <2>4, <2>5, <2>6, <2>7 DEF Watch
<1> QED BY <1>1, <1>2, <1>3, SpentKept DEF Spent

LEMMA NextSpent == Typed /\ Spent /\ [Next]_vars => Spent'
    BY ReceiveSpent, RequeueSpent, IssueSpent, AuthoriseSpent, WriteSpent, RequestSpent,
       SubmitSpent, OutsideSpent DEF Next, Handle

\* No command admits two users, through queues, time-outs, crashes and copies
\* of the configuration written over each other (register_inner, ipc_send).
THEOREM OneCommandAdmitsOne == Spec => []CommandAdmitsOne
<1>1. Init => Typed /\ Spent
    BY InitTyped, InitSpent
<1>2. Typed /\ Spent /\ [Next]_vars => Typed' /\ Spent'
    BY NextTyped, NextSpent
<1>3. Typed /\ Spent => CommandAdmitsOne
    <2> SUFFICES ASSUME Typed, Spent PROVE CommandAdmitsOne
        OBVIOUS
    <2>1. Newcomers \in SUBSET Admitted
        BY DEF Newcomers, Admitted, Somewhere, Typed, ConfigsTyped, Stored
    <2>2. Cardinality(Newcomers) <= Cardinality(Admitted) /\ Cardinality(Newcomers) \in Nat
        BY <2>1, Finite, FS_Subset, FS_CardinalityType
    <2> QED BY <2>2, Finite DEF Spent, CommandAdmitsOne
<1> QED BY <1>1, <1>2, <1>3, PTL DEF Spec

----------------------------------------------------------------------------
(***************************************************************************)
(* How a user vanishes.  A copy that will be written back lacks only users *)
(* added since it was made, and the one its operator takes out.            *)
(***************************************************************************)
MayWrite(w) == w = Operator \/ kind[w] = "register"

ClonesTold ==
    \A w \in Writer :
        /\ pc[w] \in {"opening", "writing", "storing"} => MayWrite(w)
        /\ Writing(w) /\ MayWrite(w) =>
             \A i \in mem.users \ snap[w].users :
                 i \in since[w] \/ (w = Operator /\ i = id[w])

\* A process that is down has no writer in flight: what it starts with can contradict none.
DownIsIdle == ~up => \A w \in Writer : pc[w] = "idle"

LEMMA InitDown == Init => DownIsIdle
    BY DEF Init, DownIsIdle

LEMMA NextDown == DownIsIdle /\ [Next]_vars => DownIsIdle'
<1> SUFFICES ASSUME DownIsIdle, [Next]_vars, ~up', NEW w \in Writer PROVE pc'[w] = "idle"
    BY DEF DownIsIdle
<1>1. CASE Crash
    BY <1>1 DEF Crash, ForAll
<1>2. CASE ~Crash
    <2>1. ~up
        BY <1>2 DEF Next, Handle, Update, Watch, GetChallenge, Submit, Receive, Approve, Menu,
                    Requeue, Block, Verify, IssueCookie, RecordFailure, Succeed, Timeout,
                    AnswerLost, HangUp, Open, Write, Store, WriteFails, Authorise, Deauthorise,
                    WindowPasses, Edit, DropWatcher, ReadFile, Reload, ServerFails, ResetApp,
                    Boot, vars, process
    <2>2. \A v \in Writer : pc[v] = "idle"
        BY <2>1 DEF DownIsIdle
    <2>3. Attempt \subseteq Writer
        BY DEF Writer
    <2>4. Edit \/ Boot \/ UNCHANGED vars
        BY <1>2, <2>1, <2>2, <2>3
           DEF Next, Handle, Update, Watch, GetChallenge, Submit, Receive, Approve, Menu,
               Requeue, Block, Verify, IssueCookie, RecordFailure, Succeed, Timeout,
               AnswerLost, HangUp, Open, Write, Store, WriteFails, Authorise, Deauthorise,
               WindowPasses, DropWatcher, ReadFile, Reload, ServerFails, ResetApp
    <2>5. pc' = pc
        BY <2>4 DEF Edit, Boot, vars, attempts
    <2> QED BY <2>2, <2>5
<1> QED BY <1>1, <1>2

LEMMA InitClones == Init => ClonesTold
    BY DEF Init, ForAll, ClonesTold, Writing

\* Nothing new in the memory, and no writer but in step with its copy.
LEMMA ClonesKept ==
    ASSUME ClonesTold, mem'.users \subseteq mem.users, UNCHANGED <<snap, since, kind, id>>,
           \A w \in Writer :
               \/ pc'[w] \notin {"opening", "writing", "storing"}
               \/ pc[w] \in {"opening", "writing", "storing"},
           \A w \in Writer : Writing(w)' => Writing(w)
    PROVE  ClonesTold'
    BY DEF ClonesTold, MayWrite

LEMMA NextClones == Typed /\ DownIsIdle /\ ClonesTold /\ [Next]_vars => ClonesTold'
<1> SUFFICES ASSUME Typed, DownIsIdle, ClonesTold, [Next]_vars PROVE ClonesTold'
    OBVIOUS
<1> USE DEF Typed, StepsTyped
<1>1. ASSUME NEW a \in Attempt, NEW k \in {"login", "register"}, NEW i \in Id, Submit(a, k, i)
      PROVE  ClonesTold'
    <2>1. a \in Writer /\ a # Operator
        BY PartiesAssumption DEF Writer
    <2>2. mem' = mem
        BY <1>1 DEF Submit, config
    <2>3. \A w \in Writer \ {a} : /\ pc'[w] = pc[w] /\ kind'[w] = kind[w] /\ id'[w] = id[w]
                                  /\ snap'[w] = snap[w] /\ since'[w] = since[w]
        BY <1>1, <2>1 DEF Submit, Clone, Goto, writers, ConfigsTyped
    <2>4. /\ pc'[a] \in {"verifying", "failing", "waiting"} /\ kind'[a] = k
          /\ k = "login" \/ snap'[a] = mem
        BY <1>1, <2>1 DEF Submit, Clone, Goto, ConfigsTyped
    <2> QED BY <2>1, <2>2, <2>3, <2>4 DEF ClonesTold, Writing, MayWrite
<1>2. ASSUME NEW a \in Attempt, IssueCookie(a)
      PROVE  ClonesTold'
    <2>1. a \in Writer
        BY DEF Writer
    <2>2. mem' = mem /\ kind' = kind /\ id' = id /\ since' = since /\ pc[a] = "issuing"
        BY <1>2 DEF IssueCookie, config
    <2>3. \A w \in Writer \ {a} : pc'[w] = pc[w] /\ snap'[w] = snap[w]
        BY <1>2 DEF IssueCookie, Goto, ConfigsTyped
    <2>4. /\ pc'[a] = "succeeding" \/ (pc'[a] = "opening" /\ kind[a] = "register")
          /\ snap[a].users \subseteq snap'[a].users
        BY <1>2, <2>1 DEF IssueCookie, Goto, ConfigsTyped, Stored
    <2> QED BY <2>1, <2>2, <2>3, <2>4 DEF ClonesTold, Writing, MayWrite
<1>3. ASSUME NEW a \in Attempt,
             \/ Receive(a) \/ Approve(a) \/ Menu(a) \/ Requeue(a) \/ Block(a) \/ Verify(a)
             \/ Timeout(a) \/ AnswerLost(a)
      PROVE  ClonesTold'
    <2>1. UNCHANGED <<mem, kind, id, snap, since>>
        BY <1>3 DEF Receive, Approve, Menu, Requeue, Block, Verify, Timeout, AnswerLost,
                    writers, config
    <2>2. pc[a] \in {"waiting", "deciding", "blocking", "verifying"}
        BY <1>3 DEF Receive, Approve, Menu, Requeue, Block, Verify, Timeout, AnswerLost
    <2>3. \E step \in {"waiting", "deciding", "blocking", "verifying", "issuing", "failing"} :
              pc' = [pc EXCEPT ![a] = step] \/ pc' = pc
        BY <1>3 DEF Receive, Approve, Menu, Requeue, Block, Verify, Timeout, AnswerLost, Goto
    <2> QED BY <2>1, <2>2, <2>3, ClonesKept DEF Writing
\* A writer that resets writes no more.
<1>4. ASSUME NEW a \in Attempt, RecordFailure(a) \/ Succeed(a) \/ HangUp(a)
      PROVE  ClonesTold'
    <2>1. mem' = mem
        BY <1>4 DEF RecordFailure, Succeed, HangUp, config
    <2>2. \A w \in Writer \ {a} : /\ pc'[w] = pc[w] /\ kind'[w] = kind[w] /\ id'[w] = id[w]
                                  /\ snap'[w] = snap[w] /\ since'[w] = since[w]
        BY <1>4 DEF RecordFailure, Succeed, HangUp, Reset, Goto, writers, ConfigsTyped
    <2>3. a \in Writer => pc'[a] \in {"idle", "orphaned"}
        BY <1>4 DEF RecordFailure, Succeed, HangUp, Reset, Goto
    <2> QED BY <2>1, <2>2, <2>3 DEF ClonesTold, Writing, MayWrite
<1>5. ASSUME NEW w \in Writer, Open(w)
      PROVE  ClonesTold'
    <2>1. UNCHANGED <<mem, kind, id, snap, since>>
        BY <1>5 DEF Open, writers
    <2>2. pc[w] = "opening" /\ pc' = [pc EXCEPT ![w] = "writing"]
        BY <1>5 DEF Open, Goto
    <2> QED BY <2>1, <2>2, ClonesKept DEF Writing
<1>6. ASSUME NEW w \in Writer, Write(w) \/ WriteFails(w)
      PROVE  ClonesTold'
    <2>1. mem' = mem
        BY <1>6 DEF Write, WriteFails, config
    <2>2. \A v \in Writer \ {w} : /\ pc'[v] = pc[v] /\ kind'[v] = kind[v] /\ id'[v] = id[v]
                                  /\ snap'[v] = snap[v] /\ since'[v] = since[v]
        BY <1>6 DEF Write, WriteFails, Reset, Goto, writers, ConfigsTyped
    <2>3. \/ pc'[w] \in {"idle", "failing"}
          \/ /\ pc[w] = "writing" /\ pc'[w] = "storing"
             /\ UNCHANGED <<kind, id, snap, since>>
        BY <1>6 DEF Write, WriteFails, Reset, Goto, writers
    <2> QED BY <2>1, <2>2, <2>3 DEF ClonesTold, Writing, MayWrite
<1>7. ASSUME NEW w \in Writer, Store(w)
      PROVE  ClonesTold'
    <2>1. UNCHANGED kind /\ pc'[w] \in {"idle", "succeeding"}
        BY <1>7 DEF Store, Goto
    <2>2. \A v \in Writer \ {w} : pc'[v] = pc[v] /\ id'[v] = id[v] /\ snap'[v] = snap[v]
        BY <1>7 DEF Store, Goto, ConfigsTyped
    <2>3. \A v \in Writer : Writing(v) =>
              since'[v] = since[v] \cup (mem'.users \ mem.users)
        BY <1>7 DEF Store, SetMemory
    <2> QED BY <2>1, <2>2, <2>3 DEF ClonesTold, Writing, MayWrite
<1>8. CASE Reload
    <2>1. UNCHANGED <<pc, kind, id, snap>>
        BY <1>8 DEF Reload, attempts
    <2>2. \A v \in Writer : Writing(v) =>
              since'[v] = since[v] \cup (mem'.users \ mem.users)
        BY <1>8 DEF Reload, SetMemory
    <2> QED BY <2>1, <2>2 DEF ClonesTold, Writing, MayWrite
<1>9. ASSUME NEW n \in Index, Deauthorise(n)
      PROVE  ClonesTold'
    <2>1. mem' = mem /\ kind' = kind /\ Operator \in Writer
        BY <1>9 DEF Deauthorise, config, Writer
    <2>2. \A v \in Writer \ {Operator} : /\ pc'[v] = pc[v] /\ id'[v] = id[v]
                                         /\ snap'[v] = snap[v] /\ since'[v] = since[v]
        BY <1>9 DEF Deauthorise, Goto, ConfigsTyped
    <2>3. id'[Operator] = Doomed(n) /\ snap'[Operator].users = mem.users \ {Doomed(n)}
        BY <1>9, <2>1 DEF Deauthorise, ConfigsTyped, Stored
    <2> QED BY <2>1, <2>2, <2>3 DEF ClonesTold, Writing, MayWrite
<1>10. CASE Crash
    BY <1>10 DEF Crash, ForAll, ClonesTold, Writing
<1>11. CASE Boot
    \* The process that starts has no request in flight.
    <2>1. UNCHANGED <<pc, kind, id, snap, since>>
        BY <1>11 DEF Boot, attempts, writers
    <2>2. \A w \in Writer : pc[w] = "idle"
        BY <1>11 DEF Boot, DownIsIdle
    <2> QED BY <2>1, <2>2 DEF ClonesTold, Writing
<1>12. CASE \/ \E i \in Id : GetChallenge(i)
            \/ \E n \in Index, s \in BOOLEAN : Authorise(n, s)
            \/ WindowPasses \/ Edit \/ DropWatcher \/ ReadFile \/ ServerFails \/ ResetApp
            \/ UNCHANGED vars
    <2>1. UNCHANGED <<mem, pc, kind, id, snap, since>>
        BY <1>12 DEF GetChallenge, Authorise, WindowPasses, Edit, DropWatcher, ReadFile,
                     ServerFails, ResetApp, vars, attempts, writers, config
    <2> QED BY <2>1 DEF ClonesTold, Writing, MayWrite
<1> QED BY <1>1, <1>2, <1>3, <1>4, <1>5, <1>6, <1>7, <1>8, <1>9, <1>10, <1>11, <1>12
        DEF Next, Handle, Update, Watch

\* A user leaves the running configuration only with a reload, a restart, or a copy made
\* before the user came or with the user taken out (update_config, watch_respond).
THEOREM UsersLeaveForReasonsOnly == Spec => UsersLeaveForAReason
<1>1. Init => Typed /\ DownIsIdle /\ ClonesTold
    BY InitTyped, InitDown, InitClones
<1>2. Typed /\ DownIsIdle /\ ClonesTold /\ [Next]_vars => (Typed /\ DownIsIdle /\ ClonesTold)'
    BY NextTyped, NextDown, NextClones
<1>3. Typed /\ ClonesTold /\ [Next]_vars =>
        [\A i \in mem.users \ mem'.users :
            LostToAClone(i) \/ (reload = "read" /\ mem' = read) \/ ~up]_vars
    <2> SUFFICES ASSUME Typed, ClonesTold, [Next]_vars, NEW i \in mem.users \ mem'.users
                 PROVE  LostToAClone(i) \/ (reload = "read" /\ mem' = read) \/ ~up
        OBVIOUS
    <2>1. ASSUME NEW w \in Writer, Store(w) PROVE LostToAClone(i)
        <3>1. pc[w] = "storing" /\ mem' = snap[w]
            BY <2>1 DEF Store, SetMemory
        <3>2. i \in since[w] \/ (w = Operator /\ i = id[w])
            BY <3>1 DEF ClonesTold, Writing
        <3> QED BY <3>1, <3>2 DEF LostToAClone
    <2>2. CASE Reload
        BY <2>2 DEF Reload, SetMemory
    <2>3. CASE Boot
        BY <2>3 DEF Boot
    <2>4. mem' = mem \/ Reload \/ Boot \/ \E w \in Writer : Store(w)
        BY DEF Next, Handle, Update, Watch, GetChallenge, Submit, Receive, Approve, Menu,
               Requeue, Block, Verify, IssueCookie, RecordFailure, Succeed, Timeout,
               AnswerLost, HangUp, Open, Write, WriteFails, Authorise, Deauthorise,
               WindowPasses, Edit, DropWatcher, ReadFile, ServerFails, ResetApp, Crash,
               vars, config
    <2> QED BY <2>1, <2>2, <2>3, <2>4
<1> QED BY <1>1, <1>2, <1>3, PTL DEF Spec, UsersLeaveForAReason

=============================================================================
