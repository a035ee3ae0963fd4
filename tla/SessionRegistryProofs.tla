------------------------ MODULE SessionRegistryProofs ------------------------
(***************************************************************************)
(* Proofs about SessionRegistry, for any finite set of connections, any    *)
(* set of users and any bound on the ids.                                  *)
(*                                                                         *)
(* TypeOK, UniqueIds and TearingExact are inductive only together: the     *)
(* counter stays a natural number because it counts the set it decrements  *)
(* for, and an id stays unique because it was the least free one.          *)
(***************************************************************************)
EXTENDS SessionRegistry, FiniteSetTheorems, TLAPS

\* One candidate at a time: what lets the accept loop hold an id across an
\* await without the registry knowing of it.
OneCandidate == \A s, t \in Candidates : s = t

\* What the steps preserve together.
IInv == TypeOK /\ OneCandidate /\ UniqueIds /\ TearingExact

----------------------------------------------------------------------------
\* The sessions being torn down are finitely many: their number is a natural
\* number, and it is not zero while there is one.
LEMMA TearingFinite ==
    /\ IsFiniteSet(Tearing)
    /\ Cardinality(Tearing) \in Nat
    /\ \A s \in Tearing : Cardinality(Tearing) # 0
<1>1. IsFiniteSet(Tearing)
    BY SessionAssumption, FS_Subset DEF Tearing
<1>2. Cardinality(Tearing) \in Nat
    BY <1>1, FS_CardinalityType
<1>3. \A s \in Tearing : Cardinality(Tearing) # 0
    BY <1>1, FS_EmptySet
<1> QED BY <1>1, <1>2, <1>3

\* A step that leaves every stage as it is, or moves one session between
\* stages that do not count, keeps the number; entering and leaving change it
\* by one.
LEMMA TearingSame ==
    ASSUME TypeOK, NEW s \in Session, NEW a,
           stage' = [stage EXCEPT ![s] = a],
           s \in Tearing <=> a \in {"removed", "cleaning"}
    PROVE  Tearing' = Tearing
BY DEF TypeOK, Tearing

LEMMA TearingEnters ==
    ASSUME TypeOK, NEW s \in Session, s \notin Tearing,
           stage' = [stage EXCEPT ![s] = "removed"]
    PROVE  Cardinality(Tearing') = Cardinality(Tearing) + 1
<1>1. Tearing' = Tearing \cup {s}
    BY DEF TypeOK, Tearing
<1> QED BY <1>1, TearingFinite, FS_AddElement

LEMMA TearingLeaves ==
    ASSUME TypeOK, NEW s \in Session, s \in Tearing,
           stage' = [stage EXCEPT ![s] = "clean"]
    PROVE  Cardinality(Tearing') = Cardinality(Tearing) - 1
<1>1. Tearing' = Tearing \ {s}
    BY DEF TypeOK, Tearing
<1> QED BY <1>1, TearingFinite, FS_RemoveElement

\* What remove_session does: it removes the one session it was given, or it
\* does nothing at all.
LEMMA RemoveSessionCases ==
    ASSUME TypeOK, NEW s \in Session, RemoveSession(s)
    PROVE  \/ /\ s \notin Registry
              /\ UNCHANGED <<stage, tearing, notified>>
           \/ /\ s \in Registry
              /\ stage' = [stage EXCEPT ![s] = "removed"]
              /\ tearing' = tearing + 1
              /\ notified' = TRUE
BY DEF RemoveSession, Doomed, Registry, TypeOK

----------------------------------------------------------------------------
LEMMA InitInv == Init => IInv
<1> SUFFICES ASSUME Init PROVE IInv
    OBVIOUS
<1>1. TypeOK
    <2>1. 0 \in 0..MaxId
        BY MaxIdAssumption
    <2>2. /\ stage \in [Session -> Stage]
          /\ run \in [Session -> Run]
          /\ refresher \in Refresher
        BY DEF Init, Stage, Run, Refresher
    <2>3. id \in [Session -> 0..MaxId] /\ suffix \in [Session -> 0..MaxId]
        BY <2>1 DEF Init
    <2> QED BY <2>2, <2>3 DEF Init, TypeOK
<1>2. OneCandidate /\ UniqueIds
    BY DEF Init, OneCandidate, UniqueIds, Candidates, Registry
<1>3. Tearing = {}
    BY DEF Init, Tearing
<1>4. TearingExact
    BY <1>3, FS_EmptySet DEF Init, TearingExact
<1> QED BY <1>1, <1>2, <1>4 DEF IInv

\* The removal of a session, as a step of whoever asked for it.
LEMMA RemoveSessionInv ==
    ASSUME IInv, NEW s \in Session, RemoveSession(s), UNCHANGED names
    PROVE  /\ stage' \in [Session -> Stage] /\ tearing' \in Nat /\ notified' \in BOOLEAN
           /\ OneCandidate' /\ UniqueIds' /\ TearingExact'
<1> USE DEF IInv
<1>1. CASE /\ s \notin Registry
           /\ UNCHANGED <<stage, tearing, notified>>
    BY <1>1 DEF TypeOK, names, OneCandidate, UniqueIds, TearingExact,
                Registry, Candidates, Tearing
<1>2. CASE /\ s \in Registry
           /\ stage' = [stage EXCEPT ![s] = "removed"]
           /\ tearing' = tearing + 1
           /\ notified' = TRUE
    <2>1. stage' \in [Session -> Stage] /\ tearing' \in Nat /\ notified' \in BOOLEAN
        BY <1>2 DEF TypeOK, Stage
    <2>2. OneCandidate' /\ UniqueIds'
        BY <1>2 DEF TypeOK, names, OneCandidate, UniqueIds, Registry, Candidates
    <2>3. s \notin Tearing
        BY <1>2 DEF Registry, Tearing
    <2>4. TearingExact'
        BY <1>2, <2>3, TearingEnters DEF TearingExact
    <2> QED BY <2>1, <2>2, <2>4
<1> QED BY <1>1, <1>2, RemoveSessionCases

\* A step that touches no stage, id or count.
LEMMA QuietInv ==
    ASSUME IInv, UNCHANGED <<stage, id, tearing>>
    PROVE  OneCandidate' /\ UniqueIds' /\ TearingExact'
BY DEF IInv, OneCandidate, UniqueIds, TearingExact, Registry, Candidates, Tearing

LEMMA AcceptInv ==
    ASSUME IInv, NEW s \in Session, AcceptStep(s)
    PROVE  IInv'
<1> USE DEF IInv
<1>1. CASE Reserve(s)
    <2>1. PICK i \in Id : LowestFreeId(i) /\ id' = [id EXCEPT ![s] = i]
        BY <1>1 DEF Reserve
    <2>2. stage' = [stage EXCEPT ![s] = "reserved"] /\ stage[s] = "unborn" /\ Candidates = {}
        BY <1>1 DEF Reserve
    <2>3. TypeOK'
        BY <1>1, <2>1, <2>2, MaxIdAssumption DEF Reserve, TypeOK, Stage, Id, tray
    <2>4. Candidates' = {s} /\ Registry' = Registry /\ s \notin Registry
        BY <2>2 DEF TypeOK, Candidates, Registry
    <2>5. \A t \in Registry : id'[t] = id[t] /\ id[t] # i
        BY <2>1, <2>4 DEF LowestFreeId, TypeOK, Registry
    <2>6. id'[s] = i
        BY <2>1 DEF TypeOK
    <2>7. UniqueIds'
        BY <2>4, <2>5, <2>6 DEF UniqueIds
    <2>8. Tearing' = Tearing
        BY <2>2, TearingSame DEF Tearing
    <2>9. TearingExact'
        BY <1>1, <2>8 DEF Reserve, TearingExact
    <2>10. OneCandidate'
        BY <2>4 DEF OneCandidate
    <2> QED BY <2>3, <2>7, <2>9, <2>10
<1>2. CASE Render(s)
    <2>1. TypeOK'
        BY <1>2, MaxIdAssumption DEF Render, TypeOK, Stage, tray
    <2>2. Candidates' = Candidates /\ Registry' = Registry /\ Tearing' = Tearing
        BY <1>2 DEF Render, TypeOK, Candidates, Registry, Tearing
    <2>3. OneCandidate' /\ UniqueIds' /\ TearingExact'
        BY <1>2, <2>2 DEF Render, OneCandidate, UniqueIds, TearingExact
    <2> QED BY <2>1, <2>3
<1>3. CASE Drop(s)
    <2>1. TypeOK'
        BY <1>3 DEF Drop, TypeOK, Stage, names, tray
    <2>2. Candidates' \subseteq Candidates /\ Registry' = Registry /\ Tearing' = Tearing
        BY <1>3 DEF Drop, TypeOK, Candidates, Registry, Tearing
    <2>3. OneCandidate' /\ UniqueIds' /\ TearingExact'
        BY <1>3, <2>2 DEF Drop, OneCandidate, UniqueIds, TearingExact, names
    <2> QED BY <2>1, <2>3
<1>4. CASE Register(s)
    <2>1. TypeOK'
        BY <1>4 DEF Register, TypeOK, Stage, Run, names, tray
    <2>2. /\ Candidates' \subseteq Candidates
          /\ Registry' \cup Candidates' = Registry \cup Candidates
          /\ Tearing' = Tearing
        BY <1>4 DEF Register, TypeOK, Candidates, Registry, Tearing
    <2>3. OneCandidate' /\ UniqueIds' /\ TearingExact'
        BY <1>4, <2>2 DEF Register, OneCandidate, UniqueIds, TearingExact, names
    <2> QED BY <2>1, <2>3
<1> QED BY <1>1, <1>2, <1>3, <1>4 DEF AcceptStep

LEMMA RemovalInv ==
    ASSUME IInv, NEW s \in Session, RemovalStep(s)
    PROVE  IInv'
<1> USE DEF IInv
<1>1. CASE Stop(s)
    <2>1. TypeOK'
        BY <1>1 DEF Stop, TypeOK, Stage, names, tray
    <2>2. Candidates' = Candidates /\ Registry' = Registry /\ Tearing' = Tearing
        BY <1>1 DEF Stop, TypeOK, Candidates, Registry, Tearing
    <2>3. OneCandidate' /\ UniqueIds' /\ TearingExact'
        BY <1>1, <2>2 DEF Stop, OneCandidate, UniqueIds, TearingExact, names
    <2> QED BY <2>1, <2>3
<1>2. CASE CleanupDone(s)
    <2>1. s \in Tearing
        BY <1>2 DEF CleanupDone, Tearing
    <2>2. tearing # 0
        BY <2>1, TearingFinite DEF TearingExact
    <2>3. TypeOK'
        BY <1>2, <2>2 DEF CleanupDone, TypeOK, Stage, names, tray
    <2>4. Candidates' = Candidates /\ Registry' = Registry
        BY <1>2 DEF CleanupDone, TypeOK, Candidates, Registry
    <2>5. OneCandidate' /\ UniqueIds'
        BY <1>2, <2>4 DEF CleanupDone, OneCandidate, UniqueIds, names
    <2>6. TearingExact'
        BY <1>2, <2>1, TearingLeaves DEF CleanupDone, TearingExact
    <2> QED BY <2>3, <2>5, <2>6
<1> QED BY <1>1, <1>2 DEF RemovalStep

LEMMA TaskInv ==
    ASSUME IInv, NEW s \in Session, TaskStep(s)
    PROVE  IInv'
<1> USE DEF IInv
<1>1. CASE Leave(s)
    <2>1. TypeOK'
        BY <1>1 DEF Leave, TypeOK, Run, names, tray
    <2> QED BY <1>1, <2>1, QuietInv DEF Leave, names
<1>2. CASE RemoveOwn(s)
    <2>1. /\ stage' \in [Session -> Stage] /\ tearing' \in Nat /\ notified' \in BOOLEAN
          /\ OneCandidate' /\ UniqueIds' /\ TearingExact'
        BY <1>2, RemoveSessionInv DEF RemoveOwn
    <2>2. TypeOK'
        BY <1>2, <2>1 DEF RemoveOwn, TypeOK, Run, names, tray
    <2> QED BY <2>1, <2>2
<1>3. CASE Panic(s)
    <2>1. TypeOK'
        BY <1>3 DEF Panic, TypeOK, Run, names, tray
    <2> QED BY <1>3, <2>1, QuietInv DEF Panic, names
<1>4. CASE AbortLands(s)
    <2>1. TypeOK'
        BY <1>4 DEF AbortLands, TypeOK, Run, names, tray
    <2> QED BY <1>4, <2>1, QuietInv DEF AbortLands, names
<1> QED BY <1>1, <1>2, <1>3, <1>4 DEF TaskStep

LEMMA TrayInv ==
    ASSUME IInv, TrayStep
    PROVE  IInv'
<1> USE DEF IInv
<1>1. ASSUME NEW s \in Session, NEW t \in Session, Disconnect(s, t)
      PROVE  IInv'
    <2>1. TypeOK'
        BY <1>1 DEF Disconnect, TypeOK, names
    <2> QED BY <1>1, <2>1, QuietInv DEF Disconnect, names
<1>2. ASSUME NEW s \in Session, RemoveAsked(s)
      PROVE  IInv'
    <2>1. /\ stage' \in [Session -> Stage] /\ tearing' \in Nat /\ notified' \in BOOLEAN
          /\ OneCandidate' /\ UniqueIds' /\ TearingExact'
        BY <1>2, RemoveSessionInv DEF RemoveAsked
    <2>2. TypeOK'
        BY <1>2, <2>1 DEF RemoveAsked, TypeOK, names
    <2> QED BY <2>1, <2>2
<1>3. CASE SpawnTray \/ SpawnTrayFails \/ Subscribe \/ SeeChange \/ RenderMenu \/ TrayGone
    <2>1. UNCHANGED <<stage, names, tearing, run, asked>>
        BY <1>3 DEF SpawnTray, SpawnTrayFails, Subscribe, SeeChange, RenderMenu, TrayGone
    <2>2. menu' \in SUBSET Session /\ missed' \in SUBSET Session
        BY <1>3 DEF SpawnTray, SpawnTrayFails, Subscribe, SeeChange, RenderMenu, TrayGone,
                    TypeOK, Stale, Registry
    <2>3. refresher' \in Refresher /\ notified' \in BOOLEAN
        BY <1>3 DEF SpawnTray, SpawnTrayFails, Subscribe, SeeChange, RenderMenu, TrayGone,
                    TypeOK, Refresher
    <2>4. TypeOK'
        BY <2>1, <2>2, <2>3 DEF TypeOK, names
    <2> QED BY <2>1, <2>4, QuietInv DEF names
<1> QED BY <1>1, <1>2, <1>3 DEF TrayStep

LEMMA NextInv == IInv /\ [Next]_vars => IInv'
<1> SUFFICES ASSUME IInv, [Next]_vars PROVE IInv'
    OBVIOUS
<1>1. CASE UNCHANGED vars
    <2>1. TypeOK'
        BY <1>1 DEF vars, names, tray, IInv, TypeOK
    <2> QED BY <1>1, <2>1, QuietInv DEF vars, names, IInv
<1>2. CASE Next
    BY <1>2, AcceptInv, RemovalInv, TaskInv, TrayInv DEF Next
<1> QED BY <1>1, <1>2

LEMMA Inductive == Spec => []IInv
BY InitInv, NextInv, PTL DEF Spec

\* Every variable keeps its type; in particular TEARING_DOWN never underflows.
THEOREM TypeCorrect == Spec => []TypeOK
<1>1. IInv => TypeOK
    BY DEF IInv
<1> QED BY <1>1, Inductive, PTL

\* No id is held, or reserved across the await of the config, by two sessions:
\* the assertion of register_session never fails.
THEOREM IdsAreUnique == Spec => []UniqueIds
<1>1. IInv => UniqueIds
    BY DEF IInv
<1> QED BY <1>1, Inductive, PTL

\* TEARING_DOWN is the number of removed sessions whose cleanup is unfinished,
\* however the removals of one session race.
THEOREM TearingIsExact == Spec => []TearingExact
<1>1. IInv => TearingExact
    BY DEF IInv
<1> QED BY <1>1, Inductive, PTL

----------------------------------------------------------------------------
\* What a removal may do to the registry, and what it tells the refresher.
LEMMA RemovalTold ==
    ASSUME TypeOK, NEW s \in Session, RemoveSession(s)
    PROVE  /\ Registry' = Registry \ {s}
           /\ s \in Registry => notified'
           /\ s \notin Registry => UNCHANGED notified
<1>1. CASE /\ s \notin Registry
           /\ UNCHANGED <<stage, tearing, notified>>
    BY <1>1 DEF Registry
<1>2. CASE /\ s \in Registry
           /\ stage' = [stage EXCEPT ![s] = "removed"]
           /\ tearing' = tearing + 1
           /\ notified' = TRUE
    BY <1>2 DEF Registry, TypeOK
<1> QED BY <1>1, <1>2, RemoveSessionCases

\* No step of one session's accept, stop or own work but registering and
\* remove_session changes the set of registered sessions.
LEMMA RegistryKept ==
    ASSUME TypeOK, NEW s \in Session,
           \/ Reserve(s) \/ Render(s) \/ Drop(s) \/ RemovalStep(s)
           \/ Leave(s) \/ Panic(s) \/ AbortLands(s)
    PROVE  Registry' = Registry /\ UNCHANGED <<menu, notified, refresher, missed>>
BY DEF TypeOK, Registry, tray, names, Reserve, Render, Drop, RemovalStep, Stop,
       CleanupDone, Leave, Panic, AbortLands

\* Once CHANGES is watched and nothing waits to be seen, the menu lacks at most
\* what changed between its first rendering and the subscription.
THEOREM MenuIsPending == Spec => []MenuPending
<1>1. Init => MenuPending
    BY DEF Init, MenuPending
<1>2. TypeOK /\ MenuPending /\ [Next]_vars => MenuPending'
    <2> SUFFICES ASSUME TypeOK, MenuPending, [Next]_vars PROVE MenuPending'
        OBVIOUS
    <2> USE DEF MenuPending, Stale
    <2>1. ASSUME NEW s \in Session, AcceptStep(s) PROVE MenuPending'
        <3>1. CASE Register(s)
            BY <3>1 DEF Register
        <3>2. CASE Reserve(s) \/ Render(s) \/ Drop(s)
            BY <3>2, RegistryKept
        <3> QED BY <2>1, <3>1, <3>2 DEF AcceptStep
    <2>2. ASSUME NEW s \in Session, RemovalStep(s) PROVE MenuPending'
        BY <2>2, RegistryKept
    <2>3. ASSUME NEW s \in Session, TaskStep(s) PROVE MenuPending'
        <3>1. CASE RemoveOwn(s)
            BY <3>1, RemovalTold DEF RemoveOwn, tray
        <3>2. CASE Leave(s) \/ Panic(s) \/ AbortLands(s)
            BY <3>2, RegistryKept
        <3> QED BY <2>3, <3>1, <3>2 DEF TaskStep
    <2>4. ASSUME TrayStep PROVE MenuPending'
        <3>1. ASSUME NEW s \in Session, NEW t \in Session, Disconnect(s, t)
              PROVE  MenuPending'
            BY <3>1 DEF Disconnect, Registry
        <3>2. ASSUME NEW s \in Session, RemoveAsked(s)
              PROVE  MenuPending'
            BY <3>2, RemovalTold DEF RemoveAsked
        <3>3. CASE SpawnTray \/ SpawnTrayFails \/ SeeChange \/ TrayGone
            BY <3>3 DEF SpawnTray, SpawnTrayFails, SeeChange, TrayGone
        <3>4. CASE Subscribe
            BY <3>4 DEF Subscribe, Registry
        <3>5. CASE RenderMenu
            BY <3>5 DEF RenderMenu, Registry
        <3> QED BY <2>4, <3>1, <3>2, <3>3, <3>4, <3>5 DEF TrayStep
    <2>5. CASE UNCHANGED vars
        BY <2>5 DEF vars, tray, Registry
    <2> QED BY <2>1, <2>2, <2>3, <2>4, <2>5 DEF Next
<1> QED BY <1>1, <1>2, TypeCorrect, PTL DEF Spec

\* Only its own ended run, or a lookup that found it, takes a session out of
\* the registry: never the late removal of an earlier holder of its id.
THEOREM LeavesWhenDue == Spec => LeavesOnlyWhenDue
<1> DEFINE Due == \A s \in Registry : stage'[s] # "live" =>
                        run[s] = "leaving" \/ s \in asked
<1>1. TypeOK /\ [Next]_vars => [Due]_vars
    <2> SUFFICES ASSUME TypeOK, Next, NEW s \in Registry, stage'[s] # "live"
                 PROVE  run[s] = "leaving" \/ s \in asked
        OBVIOUS
    <2> s \in Session /\ s \notin Registry'
        BY DEF Registry
    <2>1. ASSUME NEW r \in Session, AcceptStep(r) PROVE FALSE
        BY <2>1, RegistryKept DEF AcceptStep, Register, TypeOK, Registry
    <2>2. ASSUME NEW r \in Session, RemovalStep(r) PROVE FALSE
        BY <2>2, RegistryKept
    <2>3. ASSUME NEW r \in Session, TaskStep(r) PROVE run[s] = "leaving"
        <3>1. CASE RemoveOwn(r)
            BY <3>1, RemovalTold DEF RemoveOwn
        <3>2. CASE Leave(r) \/ Panic(r) \/ AbortLands(r)
            BY <3>2, RegistryKept
        <3> QED BY <2>3, <3>1, <3>2 DEF TaskStep
    <2>4. ASSUME TrayStep PROVE s \in asked
        <3>1. ASSUME NEW r \in Session, NEW t \in Session, Disconnect(r, t)
              PROVE  FALSE
            BY <3>1 DEF Disconnect, Registry
        <3>2. ASSUME NEW r \in Session, RemoveAsked(r)
              PROVE  s \in asked
            BY <3>2, RemovalTold DEF RemoveAsked
        <3>3. CASE SpawnTray \/ SpawnTrayFails \/ Subscribe \/ SeeChange \/ RenderMenu \/ TrayGone
            BY <3>3 DEF SpawnTray, SpawnTrayFails, Subscribe, SeeChange, RenderMenu,
                        TrayGone, Registry
        <3> QED BY <2>4, <3>1, <3>2, <3>3 DEF TrayStep
    <2> QED BY <2>1, <2>2, <2>3, <2>4 DEF Next
<1> QED BY <1>1, TypeCorrect, PTL DEF Spec, LeavesOnlyWhenDue
=============================================================================
