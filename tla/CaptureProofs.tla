---------------------------- MODULE CaptureProofs ----------------------------
(***************************************************************************)
(* Proofs about Capture, for any sizes, any capacities, any number of      *)
(* dialogs and any bounds: what an iteration holds at each of its steps,   *)
(* and what the bitrate governor knows of its encoder.                     *)
(***************************************************************************)
EXTENDS Capture, TLAPS

Session == {"monitor", "session"}
Media == Session \cup {"pipeline", "tasks", "bus"}
Everything == Media \cup {"input"}

\* What there is of it when a set-up is given up before the bus watcher runs.
Partial == {Session, Session \cup {"pipeline"}, Session \cup {"pipeline", "tasks"}}

\* What is held at each step of the set-up ...
SetUpHolds ==
    /\ phase \in {"proxies", "top", "size", "failed", "notify", "parked", "done"} => up = {}
    /\ phase = "create" => up \in {{"monitor"}, {"monitor", "keyboard"}}
    /\ phase \in {"call", "press", "pressed", "manual"} =>
           up \in {Session, Session \cup {"keyboard"}}
    /\ phase \in {"remote", "build"} => up = Session
    /\ phase \in {"play", "eis", "eisAgain"} => up = Media
    /\ phase = "running" => up = Everything

\* ... and of the teardown, which begins with what any of them held.
TearDownHolds ==
    /\ phase = "stopInput" => up \in Partial \cup {Media, Everything}
    /\ phase = "stopTasks" => up \in Partial \cup {Media}
    /\ phase = "stopPipeline" => up \in {Session, Session \cup {"pipeline"}, Media \ {"tasks"}}
    /\ phase = "stopBus" => up \in {Session, Session \cup {"bus"}}
    /\ phase = "closeSession" => up = Session
    /\ phase = "dropMonitor" => up \in {{"monitor"}, Session}

Holds == phase \in Phase /\ SetUpHolds /\ TearDownHolds

----------------------------------------------------------------------------
LEMMA InitHolds == Init => Holds
    BY DEF Init, Holds, SetUpHolds, TearDownHolds, Phase

\* An error leaves no more than the set-up had.
LEMMA FailsHolds ==
    ASSUME Holds, phase \in {"call", "pressed", "manual", "remote", "eisAgain", "eis", "build", "play"},
           EndsIn(Error, {})
    PROVE  Holds'
    BY DEF EndsIn, Holds, SetUpHolds, TearDownHolds, Phase, Partial, Session, Media, Everything

LEMMA BuildFailsHolds ==
    ASSUME Holds, phase = "build",
           NEW got \in {{}, {"pipeline"}, {"pipeline", "tasks"}}, EndsIn(Error, got)
    PROVE  Holds'
<1>1. phase' = "stopInput" /\ up' = Session \cup got
    BY DEF EndsIn, Holds, SetUpHolds, Session
<1>2. up' \in Partial
    BY <1>1 DEF Partial
<1> QED BY <1>1, <1>2 DEF Holds, SetUpHolds, TearDownHolds, Phase

LEMMA BeginHolds ==
    ASSUME Holds, phase = "size", NEW s, Begin(s)
    PROVE  Holds'
    BY DEF Begin, Holds, SetUpHolds, TearDownHolds, Phase

LEMMA PortalHolds ==
    ASSUME Holds, Answered \/ NotCreated \/ Refused \/ GraceOver \/ Press \/ PressFailed
    PROVE  Holds'
<1> USE DEF Holds, SetUpHolds, TearDownHolds, Phase, Session
<1>1. CASE Answered
    <2>1. CASE phase = "create"
        <3>1. phase' = "call" /\ up' = up \cup {"session"}
            BY <1>1, <2>1 DEF Answered
        <3>2. up' \in {Session, Session \cup {"keyboard"}}
            BY <2>1, <3>1
        <3> QED BY <3>1, <3>2
    <2>2. CASE phase = "remote"
        BY <1>1, <2>2 DEF Answered
    <2>3. CASE phase \in {"call", "pressed", "manual"}
        <3>1. \/ phase' = "remote" /\ up' = up \ {"keyboard"}
              \/ phase' = "call" /\ up' = up
            BY <1>1, <2>3 DEF Answered
        <3> QED BY <2>3, <3>1
    <2> QED BY <1>1, <2>1, <2>2, <2>3 DEF Answered
<1>2. CASE NotCreated
    BY <1>2 DEF NotCreated
<1>3. CASE Refused
    BY <1>3, FailsHolds DEF Refused, Fails, FailsWith, Portal
<1>4. CASE GraceOver
    <2>1. \/ phase' \in {"press", "manual"} /\ up' = up
          \/ EndsIn(Error, {})
        BY <1>4 DEF GraceOver, Fails, FailsWith, iteration
    <2> QED BY <1>4, <2>1, FailsHolds DEF GraceOver
<1>5. CASE Press \/ PressFailed
    BY <1>5 DEF Press, PressFailed, iteration
<1> QED BY <1>1, <1>2, <1>3, <1>4, <1>5

LEMMA RunHolds ==
    ASSUME Holds, Build \/ Play \/ EisFailed \/ Connected \/ NextDims
    PROVE  Holds'
<1> USE DEF Holds, SetUpHolds, TearDownHolds, Phase, Partial, Session, Media, Everything
<1>1. CASE Build
    <2>1. CASE \E got \in {{}, {"pipeline"}, {"pipeline", "tasks"}} : FailsWith(got)
        BY <1>1, <2>1, BuildFailsHolds DEF Build, FailsWith
    <2>2. CASE phase' = "play" /\ up' = up \cup {"pipeline", "tasks", "bus"}
        BY <1>1, <2>2 DEF Build
    <2> QED BY <1>1, <2>1, <2>2 DEF Build
<1>2. CASE Play
    BY <1>2, FailsHolds DEF Play, Fails, FailsWith
<1>3. CASE EisFailed
    BY <1>3 DEF EisFailed, iteration
<1>4. CASE Connected
    BY <1>4, FailsHolds DEF Connected, Fails, FailsWith
<1>5. CASE NextDims
    <2>1. \/ phase' = "stopInput" /\ up' = up \ {"keyboard"}
          \/ phase' = phase /\ up' = up
        BY <1>5 DEF NextDims, EndsIn
    <2> QED BY <1>5, <2>1 DEF NextDims
<1> QED BY <1>1, <1>2, <1>3, <1>4, <1>5

\* The teardown's steps, in its order.
LEMMA TearDownSteps ==
    ASSUME Holds, Release \/ Finish
    PROVE  Holds'
<1> USE DEF Holds, SetUpHolds, TearDownHolds, Phase, Partial, Session, Media, Everything
<1>1. CASE Release
    <2>1. PICK i \in 1..5 : /\ phase = TearDownOrder[i] /\ phase' = TearDownOrder[i + 1]
                            /\ \/ up' = up \ {Releases[i]}
                               \/ Releases[i] = "session" /\ up' = up
        BY <1>1 DEF Release
    <2>2. \/ phase = "stopInput" /\ phase' = "stopTasks" /\ up' = up \ {"input"}
          \/ phase = "stopTasks" /\ phase' = "stopPipeline" /\ up' = up \ {"tasks"}
          \/ phase = "stopPipeline" /\ phase' = "stopBus" /\ up' = up \ {"pipeline"}
          \/ phase = "stopBus" /\ phase' = "closeSession" /\ up' = up \ {"bus"}
          \/ /\ phase = "closeSession" /\ phase' = "dropMonitor"
             /\ up' \in {up, up \ {"session"}}
        <3>1. i = 1 \/ i = 2 \/ i = 3 \/ i = 4 \/ i = 5
            OBVIOUS
        <3> QED BY <2>1, <3>1 DEF TearDownOrder, Releases
    <2> QED BY <2>2
<1>2. CASE Finish
    BY <1>2 DEF Finish
<1> QED BY <1>1, <1>2

\* capture's loop holds nothing, and everybody else takes and gives nothing.
LEMMA OtherHolds ==
    ASSUME Holds,
           \/ Proxies \/ Top \/ Rebegin \/ AwaitSize \/ Failed \/ Notify
           \/ \E reading \in Readings : Poll(reading)
           \/ PipelineEnds \/ DeviceGone \/ ForceKeyframe \/ Govern
           \/ Resize \/ KeepAlive \/ RequestKeyframe
           \/ Cancel \/ Lock \/ Unlock \/ Drain \/ ControlGone \/ UNCHANGED vars
    PROVE  Holds'
<1> USE DEF Holds, SetUpHolds, TearDownHolds, Phase
<1>1. CASE Rebegin
    BY <1>1, BeginHolds DEF Rebegin
<1>2. CASE AwaitSize
    BY <1>2, BeginHolds DEF AwaitSize
<1>3. CASE Proxies \/ Top \/ Failed \/ Notify \/ \E reading \in Readings : Poll(reading)
    <2>1. /\ phase \in {"proxies", "top", "failed", "notify", "parked"}
          /\ phase' \in {"done", "top", "size", "notify", "parked"} /\ up' = up
        BY <1>3 DEF Proxies, Top, Failed, Notify, Poll, iteration
    <2> QED BY <2>1
<1>4. CASE \/ PipelineEnds \/ DeviceGone \/ ForceKeyframe \/ Govern
           \/ Resize \/ KeepAlive \/ RequestKeyframe
           \/ Cancel \/ Lock \/ Unlock \/ Drain \/ ControlGone \/ UNCHANGED vars
    <2>1. UNCHANGED <<phase, up>>
        BY <1>4 DEF PipelineEnds, DeviceGone, ForceKeyframe, Govern, Resize, KeepAlive,
                    RequestKeyframe, Cancel, Lock, Unlock, Drain, ControlGone, vars, iteration
    <2> QED BY <2>1
<1> QED BY <1>1, <1>2, <1>3, <1>4

LEMMA NextHolds == Holds /\ [Next]_vars => Holds'
    BY PortalHolds, RunHolds, TearDownSteps, OtherHolds DEF Next, Own, Portals, GivesUp

\* The close of a portal session that did not come off counts as a fault.
OpenByFault ==
    /\ faults \in Nat
    /\ phase = "dropMonitor" /\ "session" \in up => faults > 0

LEMMA FaultsGrow ==
    ASSUME faults \in Nat, [Next]_vars
    PROVE  faults' = faults \/ faults' = faults + 1
<1>1. CASE \/ Proxies \/ Top \/ Rebegin \/ AwaitSize \/ GraceOver \/ Press \/ PressFailed
           \/ Build \/ Play \/ NextDims \/ Release \/ Finish \/ Failed \/ Notify
    BY <1>1 DEF Proxies, Top, Rebegin, AwaitSize, Begin, GraceOver, Press, PressFailed,
                Build, Play, NextDims, Release, Finish, Failed, Notify, Fault
<1>2. CASE Answered \/ Connected \/ NotCreated \/ Refused \/ EisFailed
    BY <1>2 DEF Answered, Connected, NotCreated, Refused, EisFailed, GivenUp, Fault
<1>3. CASE \/ \E reading \in Readings : Poll(reading)
           \/ PipelineEnds \/ DeviceGone \/ ForceKeyframe \/ Govern
           \/ Resize \/ KeepAlive \/ RequestKeyframe
           \/ Cancel \/ Lock \/ Unlock \/ Drain \/ ControlGone \/ UNCHANGED vars
    BY <1>3 DEF Poll, PipelineEnds, DeviceGone, ForceKeyframe, Govern, Resize, KeepAlive,
                RequestKeyframe, Cancel, Lock, Unlock, Drain, ControlGone, vars, Fault
<1> QED BY <1>1, <1>2, <1>3 DEF Next, Own, Portals, GivesUp

\* Only the last step of the teardown but one comes to where the monitor goes.
LEMMA DropReached ==
    ASSUME Holds, [Next]_vars, phase' = "dropMonitor"
    PROVE  \/ UNCHANGED <<phase, up>>
           \/ "session" \notin up'
           \/ Fault
<1>1. CASE Release
    <2>1. PICK i \in 1..5 : /\ phase = TearDownOrder[i] /\ phase' = TearDownOrder[i + 1]
                            /\ \/ up' = up \ {Releases[i]}
                               \/ Releases[i] = "session" /\ Fault /\ up' = up
        BY <1>1 DEF Release
    <2>2. i = 5
        <3>1. i = 1 \/ i = 2 \/ i = 3 \/ i = 4 \/ i = 5
            OBVIOUS
        <3> QED BY <2>1, <3>1 DEF TearDownOrder
    <2> QED BY <2>1, <2>2 DEF Releases
<1>2. CASE \/ Proxies \/ Top \/ Rebegin \/ AwaitSize \/ GraceOver \/ Press \/ PressFailed
           \/ Build \/ Play \/ NextDims \/ Finish \/ Failed \/ Notify
    BY <1>2 DEF Proxies, Top, Rebegin, AwaitSize, Begin, GraceOver, Press, PressFailed, Fails,
                FailsWith, EndsIn, Build, Play, NextDims, Finish, Failed, Notify
<1>3. CASE Answered \/ Connected \/ NotCreated \/ Refused \/ EisFailed
    BY <1>3 DEF Answered, Connected, NotCreated, Refused, EisFailed, Fails, FailsWith, EndsIn
<1>4. CASE \/ \E reading \in Readings : Poll(reading)
           \/ PipelineEnds \/ DeviceGone \/ ForceKeyframe \/ Govern
           \/ Resize \/ KeepAlive \/ RequestKeyframe
           \/ Cancel \/ Lock \/ Unlock \/ Drain \/ ControlGone \/ UNCHANGED vars
    BY <1>4 DEF Poll, PipelineEnds, DeviceGone, ForceKeyframe, Govern, Resize, KeepAlive,
                RequestKeyframe, Cancel, Lock, Unlock, Drain, ControlGone, vars, iteration
<1> QED BY <1>1, <1>2, <1>3, <1>4 DEF Next, Own, Portals, GivesUp

LEMMA NextOpenByFault == Holds /\ OpenByFault /\ [Next]_vars => OpenByFault'
<1> SUFFICES ASSUME Holds, OpenByFault, [Next]_vars PROVE OpenByFault'
    OBVIOUS
<1>1. faults' \in Nat /\ faults' >= faults
    BY FaultsGrow DEF OpenByFault
<1>2. Fault => faults' > 0
    BY DEF Fault, OpenByFault
<1> QED BY <1>1, <1>2, DropReached DEF OpenByFault

\* Every iteration gives back all it took before the next begins, and nothing
\* outlives what it stands on (single_capture's teardown, which every failure
\* after create_session shares); a portal session is let go of unclosed only
\* after a fault.
THEOREM NothingLeftStanding == Spec => []ResourcesNested
<1>1. Holds /\ OpenByFault => ResourcesNested
    BY DEF Holds, SetUpHolds, TearDownHolds, Phase, Partial, Session, Media, Everything,
           ResourcesNested, StandsOn, Resource, OpenByFault
<1>2. Init => OpenByFault
    BY DEF Init, OpenByFault
<1> QED BY InitHolds, NextHolds, NextOpenByFault, <1>1, <1>2, PTL DEF Spec

----------------------------------------------------------------------------
(***************************************************************************)
(* The governor.                                                           *)
(***************************************************************************)
LEMMA MinOfTwo ==
    ASSUME NEW a \in Int, NEW b \in Int
    PROVE  Min({a, b}) = IF a <= b THEN a ELSE b
<1>1. \E x \in {a, b} : \A y \in {a, b} : x <= y
    OBVIOUS
<1> QED BY <1>1 DEF Min

LEMMA MaxOfTwo ==
    ASSUME NEW a \in Int, NEW b \in Int
    PROVE  Max({a, b}) = IF a >= b THEN a ELSE b
<1>1. \E x \in {a, b} : \A y \in {a, b} : x >= y
    OBVIOUS
<1> QED BY <1>1 DEF Max

\* The policy keeps a bitrate within its bounds: what congestion halves stays at
\* the floor or above, what recovery doubles at the ceiling or below.
LEMMA BitrateBounded ==
    ASSUME NEW current \in MinKbps..Ceiling, NEW congested \in BOOLEAN
    PROVE  NextBitrate(current, congested) \in MinKbps..Ceiling
<1> USE RateAssumption
<1> DEFINE half == current \div 2
<1>1. half \in Int /\ half <= current
    OBVIOUS
<1> HIDE DEF half
<1>2. Min({2 * current, Ceiling}) \in MinKbps..Ceiling
    BY MinOfTwo
<1>3. Max({half, MinKbps}) \in MinKbps..Ceiling
    BY <1>1, MaxOfTwo
<1>4. NextBitrate(current, congested) =
          LET next == IF ~congested THEN Min({2 * current, Ceiling}) ELSE Max({half, MinKbps})
          IN  Min({next, Ceiling})
    BY DEF NextBitrate, half
<1>5. \A next \in MinKbps..Ceiling : Min({next, Ceiling}) = next
    BY MinOfTwo
<1> QED BY <1>2, <1>3, <1>4, <1>5

Governed == rate = encoder /\ encoder \in MinKbps..Ceiling

LEMMA NextGoverned == Governed /\ [Next]_vars => Governed'
<1> SUFFICES ASSUME Governed, [Next]_vars PROVE Governed'
    OBVIOUS
<1> USE RateAssumption DEF Governed
<1>1. CASE Build
    BY <1>1 DEF Build, FailsWith, bitrate
<1>2. CASE Finish
    BY <1>2 DEF Finish, OutOfScope
<1>3. CASE Govern
    BY <1>3, BitrateBounded DEF Govern
<1>4. CASE ~(Build \/ Finish \/ Govern)
    <2>1. UNCHANGED bitrate
        <3>1. CASE \/ Proxies \/ Top \/ Rebegin \/ AwaitSize \/ Press \/ PressFailed \/ Play
                   \/ NextDims \/ Release \/ Failed \/ Notify
            BY <3>1 DEF Proxies, Top, Rebegin, AwaitSize, Press, PressFailed, Play, Fails, FailsWith,
                        NextDims, Release, Failed, Notify
        <3>2. CASE GraceOver \/ Answered \/ Connected \/ NotCreated \/ Refused \/ EisFailed
            BY <3>2 DEF GraceOver, Fails, FailsWith, Answered, Connected, NotCreated, Refused, EisFailed
        <3>3. CASE \/ \E reading \in Readings : Poll(reading)
                   \/ PipelineEnds \/ DeviceGone \/ ForceKeyframe
                   \/ Resize \/ KeepAlive \/ RequestKeyframe
                   \/ Cancel \/ Lock \/ Unlock \/ Drain \/ ControlGone \/ UNCHANGED vars
            BY <3>3 DEF Poll, PipelineEnds, DeviceGone, ForceKeyframe, Resize, KeepAlive,
                        RequestKeyframe, Cancel, Lock, Unlock, Drain, ControlGone, vars
        <3> QED BY <1>4, <3>1, <3>2, <3>3 DEF Next, Own, Portals, GivesUp
    <2> QED BY <2>1 DEF bitrate
<1> QED BY <1>1, <1>2, <1>3, <1>4

\* The governor's bitrate is the encoder's, also when the encoder ignored it, and
\* between the floor and the ceiling (govern_bitrate, next_bitrate).
THEOREM GovernorKnows == Spec => []GovernorTruthful
<1>1. Init => Governed
    BY RateAssumption DEF Init, Governed
<1>2. Governed => GovernorTruthful
    BY RateAssumption DEF Governed, GovernorTruthful
<1> QED BY <1>1, <1>2, NextGoverned, PTL DEF Spec

=============================================================================
