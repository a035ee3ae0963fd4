------------------------------ MODULE PageProofs ------------------------------
(***************************************************************************)
(* Proofs about the page: its display and its track of video (Display),    *)
(* for any sizes and any settle window; its input throttle                 *)
(* (InputThrottle), for any spacings, any queue and any events; and its    *)
(* session with the server (Page), for any chunks, any channel and any     *)
(* volumes.                                                                *)
(*                                                                         *)
(* What the page believes of the server's size is true, and the decoder is *)
(* never fed across a gap.  No motion is lost or told twice, and what      *)
(* waits in the throttle has the last word on every part of the seat.      *)
(* MoQ's stream is read whole, every message the page takes is handled,    *)
(* and a page at rest plays at the host's volume or is excused.            *)
(***************************************************************************)
EXTENDS Display, Page, InputThrottle, FiniteSetTheorems, SequenceTheorems,
        WellFoundedInduction, TLAPS

----------------------------------------------------------------------------
\* Display.

\* Until the first send has come back nothing has been observed and the server
\* has no size; from then on `sent` is the server's size, or while a send is
\* under way the size on its way, with the server's to fall back on, unless the
\* last size to arrive was reported as not sent.
BeliefKept ==
    /\ phase # "watching" => timer = 0 /\ sent = None /\ server = None /\ ~misled
    /\ phase = "start" => flight = None
    /\ phase = "initial" => flight # None
    /\ phase = "watching" =>
         /\ flight # None => sent = flight.size
         /\ ~misled => server = IF flight = None THEN sent ELSE flight.restore

\* A gap never meets a lowered gate: the gate is up, or the next frame to be read
\* is a keyframe, or the group is lost and nothing of it will come.
GapGuarded ==
    /\ ~unsound
    /\ task = "none" => gate
    /\ torn => wire = <<>>
    /\ gap => gate \/ (wire = <<>> /\ torn) \/ (wire # <<>> /\ Head(wire).key)

IInv == TypeOK /\ BeliefKept /\ GapGuarded

\* The size that goes out last as things stand: what waits to settle goes after
\* what is queued, and that after what is on the wire.
Intended == IF waiting # None THEN waiting ELSE IF queued # None THEN queued ELSE sent

\* What was last observed is what goes out last, unless there is an excuse.  A
\* queue needs a send before it; and a size that waits though it is the one sent
\* has come to be so by the send that emptied the queue.
IntentKept ==
    /\ phase # "watching" => seen = "never" /\ waiting = None /\ queued = None
    /\ flight = None => queued = None
    /\ waiting # None /\ waiting = sent => queued = None
    /\ excuse = {} /\ seen \in Size => Intended = seen

----------------------------------------------------------------------------
\* The first keyframe on the wire is one.
LEMMA NextKey ==
    ASSUME wire \in Seq(Frame),
           NEW n, n = SelectInSeq(wire, LAMBDA f : f.key), n # 0
    PROVE  n \in 1..Len(wire) /\ wire[n].key
<1> DEFINE I == {i \in 1..Len(wire) : wire[i].key}
           R == OpToRel(<, Nat)
<1>1. n = IF I # {} THEN CHOOSE x \in I : \A y \in I : x <= y ELSE 0
    BY DEF SelectInSeq, Min
<1>2. I \subseteq Nat /\ I # {}
    BY <1>1
<1> HIDE DEF I
<1>3. \E x \in I : \A y \in I : ~(<<y, x>> \in R)
    BY <1>2, WFMin, NatLessThanWellFounded
<1>4. \E x \in I : \A y \in I : x <= y
    <2>1. PICK x \in I : \A y \in I : ~(<<y, x>> \in R)
        BY <1>3
    <2>2. \A y \in I : ~(y < x)
        BY <2>1, <1>2 DEF OpToRel
    <2> QED BY <2>2, <1>2
<1>5. n \in I
    BY <1>1, <1>2, <1>4
<1> QED BY <1>5 DEF I

LEMMA HeadIsFrame == FramesTyped /\ wire # <<>> => Head(wire) \in Frame
    BY HeadTailProperties DEF FramesTyped

----------------------------------------------------------------------------
LEMMA InitInv == Init => IInv
<1> SUFFICES ASSUME Init PROVE IInv
    OBVIOUS
<1>1. SizesTyped
    BY DEF Init, SizesTyped, MaybeSize
<1>2. FramesTyped
    BY BoundAssumption DEF Init, FramesTyped
<1>3. StagesTyped
    BY DEF Init, StagesTyped
<1>5. CountsTyped
    BY BoundAssumption DEF Init, CountsTyped
<1>4. BeliefKept /\ GapGuarded
    BY DEF Init, BeliefKept, GapGuarded
<1> QED BY <1>1, <1>2, <1>3, <1>4, <1>5 DEF IInv, TypeOK

\* The steps of the size leave the video alone, and may only raise `wanted`.
ResizeNext ==
    Layout \/ SendInitial \/ InitialDone \/ Observe \/ Tick \/ Expire \/ Land

LEMMA ResizeSizes ==
    ASSUME IInv, ResizeNext
    PROVE  SizesTyped'
<1> USE SizeAssumption DEF IInv, TypeOK, SizesTyped, MaybeSize, video
<1>1. CASE Layout
    BY <1>1 DEF Layout
<1>2. CASE SendInitial
    BY <1>2 DEF SendInitial
<1>3. CASE InitialDone
    BY <1>3 DEF InitialDone, Reported, Received, BeliefKept
<1>4. CASE Observe
    BY <1>4 DEF Observe, Observed
<1>5. CASE Tick
    BY <1>5 DEF Tick
<1>6. CASE Expire
    BY <1>6 DEF Expire, BeginSend
<1>7. CASE Land
    BY <1>7 DEF Land, Completed, BeginSend, Reported, Received
<1> QED BY <1>1, <1>2, <1>3, <1>4, <1>5, <1>6, <1>7 DEF ResizeNext

LEMMA ResizeStages ==
    ASSUME IInv, ResizeNext
    PROVE  StagesTyped' /\ UNCHANGED video
<1> USE DEF IInv, TypeOK, StagesTyped, video
<1>1. CASE Layout
    BY <1>1 DEF Layout
<1>2. CASE SendInitial
    BY <1>2 DEF SendInitial
<1>3. CASE InitialDone
    BY <1>3 DEF InitialDone, Reported, Received
<1>4. CASE Observe
    BY <1>4 DEF Observe, Observed
<1>5. CASE Tick
    BY <1>5 DEF Tick
<1>6. CASE Expire
    BY <1>6 DEF Expire
<1>7. CASE Land
    BY <1>7 DEF Land, Reported, Received
<1> QED BY <1>1, <1>2, <1>3, <1>4, <1>5, <1>6, <1>7 DEF ResizeNext

LEMMA ResizeCounts ==
    ASSUME IInv, ResizeNext
    PROVE  CountsTyped'
<1> USE BoundAssumption DEF IInv, TypeOK, CountsTyped
<1>1. CASE Layout
    BY <1>1 DEF Layout
<1>2. CASE SendInitial
    BY <1>2 DEF SendInitial
<1>3. CASE InitialDone
    BY <1>3 DEF InitialDone, Reported, Received
<1>4. CASE Observe
    <2>1. timer' \in {timer, 0, Settle}
        BY <1>4 DEF Observe, Observed
    <2>2. excuse' \in {excuse, {}, {"returned"}} /\ UNCHANGED faults
        BY <1>4 DEF Observe, Observed
    <2> QED BY <2>1, <2>2
<1>5. CASE Tick
    BY <1>5 DEF Tick
<1>6. CASE Expire
    BY <1>6 DEF Expire
<1>7. CASE Land
    <2>1. UNCHANGED timer
        BY <1>7 DEF Land
    <2>2. faults' = faults \/ (faults < MaxFaults /\ faults' = faults + 1)
        BY <1>7 DEF Land, Reported
    <2>3. excuse' \in {excuse, excuse \cup {"failed"}}
        BY <1>7 DEF Land
    <2> QED BY <2>1, <2>2, <2>3
<1> QED BY <1>1, <1>2, <1>3, <1>4, <1>5, <1>6, <1>7 DEF ResizeNext

LEMMA ResizeType ==
    ASSUME IInv, ResizeNext
    PROVE  TypeOK' /\ UNCHANGED video
<1>1. FramesTyped'
    BY ResizeStages DEF IInv, TypeOK, FramesTyped, video
<1> QED BY <1>1, ResizeSizes, ResizeStages, ResizeCounts DEF TypeOK

LEMMA ResizeBelief ==
    ASSUME IInv, ResizeNext
    PROVE  BeliefKept'
<1> USE SizeAssumption DEF IInv, BeliefKept
<1>1. CASE Layout
    BY <1>1 DEF Layout
<1>2. CASE SendInitial
    BY <1>2 DEF SendInitial, TypeOK, SizesTyped, MaybeSize
<1>3. CASE InitialDone
    BY <1>3 DEF InitialDone, Reported, Received
<1>4. CASE Observe
    BY <1>4 DEF Observe
<1>5. CASE Tick
    BY <1>5 DEF Tick
<1>6. CASE Expire
    BY <1>6 DEF Expire, BeginSend, TypeOK, SizesTyped, MaybeSize
<1>7. CASE Land
    BY <1>7 DEF Land, Completed, BeginSend, Reported, Received, TypeOK, SizesTyped, MaybeSize
<1> QED BY <1>1, <1>2, <1>3, <1>4, <1>5, <1>6, <1>7 DEF ResizeNext

\* The steps of the video leave the size alone.
VideoNext == Publish \/ GroupFails \/ Subscribe \/ Asked \/ Read \/ Output

\* Whatever a lost group leaves on the wire is the rest of what was there.
LEMMA VideoFrames ==
    ASSUME IInv, VideoNext
    PROVE  FramesTyped'
<1> USE BoundAssumption DEF IInv, TypeOK, FramesTyped
<1>1. CASE Publish
    <2>1. \A key \in BOOLEAN : server # None => [key |-> key, size |-> server] \in Frame
        BY DEF SizesTyped, MaybeSize, Frame
    <2>2. PICK key \in BOOLEAN :
              wire' = wire \/ wire' = Append(wire, [key |-> key, size |-> server])
        BY <1>1 DEF Publish
    <2>3. server # None /\ Len(wire) < MaxWire /\ UNCHANGED backlog
        BY <1>1 DEF Publish
    <2>4. wire' \in Seq(Frame) /\ Len(wire') <= MaxWire
        BY <2>1, <2>2, <2>3
    <2> QED BY <2>3, <2>4
<1>2. CASE GroupFails
    <2>1. PICK n : /\ n = SelectInSeq(wire, LAMBDA f : f.key)
                   /\ wire' = IF n = 0 THEN <<>> ELSE SubSeq(wire, n, Len(wire))
        BY <1>2 DEF GroupFails
    <2>2. CASE n = 0
        BY <1>2, <2>1, <2>2 DEF GroupFails
    <2>3. CASE n # 0
        <3>1. n \in 1..Len(wire)
            BY <2>1, <2>3, NextKey
        <3>2. wire' = SubSeq(wire, n, Len(wire))
            BY <2>1, <2>3
        <3>3. wire' \in Seq(Frame) /\ Len(wire') = Len(wire) - n + 1
            BY <3>1, <3>2, SubSeqProperties
        <3> QED BY <1>2, <3>1, <3>3 DEF GroupFails
    <2> QED BY <2>2, <2>3
<1>3. CASE Subscribe
    BY <1>3 DEF Subscribe
<1>4. CASE Asked
    BY <1>4 DEF Asked
<1>5. CASE Read
    <2>1. Head(wire).size \in Size
        BY <1>5, HeadIsFrame DEF Read, Frame
    <2>2. wire' \in Seq(Frame) /\ Len(wire') <= MaxWire
        BY <1>5, HeadTailProperties DEF Read
    <2>3. \/ UNCHANGED backlog
          \/ /\ Len(backlog) < MaxBacklog
             /\ backlog' = Append(backlog, Head(wire).size)
        BY <1>5 DEF Read
    <2>4. backlog' \in Seq(Size) /\ Len(backlog') <= MaxBacklog
        BY <2>1, <2>3
    <2> QED BY <2>2, <2>4
<1>6. CASE Output
    BY <1>6, HeadTailProperties DEF Output
<1> QED BY <1>1, <1>2, <1>3, <1>4, <1>5, <1>6 DEF VideoNext

LEMMA VideoType ==
    ASSUME IInv, VideoNext
    PROVE  TypeOK' /\ UNCHANGED <<resize, server>>
<1>1. UNCHANGED <<resize, server>>
    BY DEF VideoNext, Publish, GroupFails, Subscribe, Asked, Read, Output, resize
<1>2. StagesTyped'
    <2> USE DEF IInv, TypeOK, StagesTyped, resize
    <2>1. CASE Publish
        BY <2>1, <1>1 DEF Publish
    <2>2. CASE GroupFails
        BY <2>2, <1>1 DEF GroupFails
    <2>3. CASE Subscribe
        BY <2>3, <1>1 DEF Subscribe
    <2>4. CASE Asked
        BY <2>4, <1>1 DEF Asked
    <2>5. CASE Read
        <3>1. Head(wire).key \in BOOLEAN
            BY <2>5, HeadIsFrame DEF Read, IInv, TypeOK, Frame
        <3>2. \/ gate' = (Len(backlog) + 1 > MaxQueue)
              \/ gate' = gate
            BY <2>5 DEF Read
        <3>3. \/ gap' = (gap /\ ~Head(wire).key) \/ gap' = TRUE
            BY <2>5 DEF Read
        <3>5. \/ unsound' = (unsound \/ (gap /\ ~Head(wire).key))
              \/ unsound' = unsound
            BY <2>5 DEF Read
        <3>4. task' \in {"none", "asking", "reading"}
            BY <2>5 DEF Read
        <3>6. gate' \in BOOLEAN
            <4>1. (Len(backlog) + 1 > MaxQueue) \in BOOLEAN
                OBVIOUS
            <4>2. gate \in BOOLEAN
                OBVIOUS
            <4> QED BY ONLY <3>2, <4>1, <4>2
        <3>8. gap' \in BOOLEAN
            BY <3>3
        <3>9. unsound' \in BOOLEAN
            BY <3>5
        <3>7. wanted' \in BOOLEAN /\ torn' \in BOOLEAN /\ UNCHANGED <<phase, misled>>
            BY <2>5, <1>1 DEF Read
        <3> QED BY <3>4, <3>6, <3>7, <3>8, <3>9
    <2>6. CASE Output
        BY <2>6, <1>1 DEF Output
    <2> QED BY <2>1, <2>2, <2>3, <2>4, <2>5, <2>6 DEF VideoNext
<1>3. shown' \in MaybeSize
    <2>1. CASE Output
        BY <2>1, HeadTailProperties DEF Output, IInv, TypeOK, FramesTyped, MaybeSize
    <2>2. CASE ~Output
        BY <2>2 DEF VideoNext, Publish, GroupFails, Subscribe, Asked, Read, IInv,
                    TypeOK, SizesTyped
    <2> QED BY <2>1, <2>2
<1>4. SizesTyped'
    BY <1>1, <1>3 DEF IInv, TypeOK, SizesTyped, resize
<1>5. CountsTyped'
    <2>1. faults' = faults \/ (faults < MaxFaults /\ faults' = faults + 1)
        BY DEF VideoNext, Publish, GroupFails, Subscribe, Asked, Read, Output
    <2> QED BY <1>1, <2>1, BoundAssumption DEF IInv, TypeOK, CountsTyped, resize
<1> QED BY <1>1, <1>2, <1>4, <1>5, VideoFrames DEF TypeOK

LEMMA VideoGap ==
    ASSUME IInv, VideoNext
    PROVE  GapGuarded'
<1> USE DEF IInv, TypeOK, FramesTyped, GapGuarded
<1>1. CASE Publish
    <2>1. PICK key \in BOOLEAN :
              /\ torn' = (torn /\ ~key)
              /\ IF task = "none" \/ torn'
                 THEN UNCHANGED wire /\ gap' = (gap \/ torn' \/ task = "none")
                 ELSE /\ wire' = Append(wire, [key |-> key, size |-> server])
                      /\ UNCHANGED gap
        BY <1>1 DEF Publish
    <2>2. UNCHANGED <<task, gate, unsound>>
        BY <1>1 DEF Publish
    <2>3. CASE task = "none"
        BY <2>1, <2>2, <2>3
    <2>4. CASE task # "none" /\ torn'
        BY <2>1, <2>2, <2>4
    <2>5. CASE task # "none" /\ ~torn'
        <3>1. wire' # <<>> /\ (wire = <<>> => Head(wire').key = key)
            BY <2>1, <2>5
        <3>2. wire # <<>> => Head(wire') = Head(wire)
            BY <2>1, <2>5
        <3> QED BY <2>1, <2>2, <2>5, <3>1, <3>2
    <2> QED BY <2>3, <2>4, <2>5
<1>2. CASE GroupFails
    <2>1. PICK n : /\ n = SelectInSeq(wire, LAMBDA f : f.key)
                   /\ wire' = IF n = 0 THEN <<>> ELSE SubSeq(wire, n, Len(wire))
                   /\ torn' = (n = 0)
        BY <1>2 DEF GroupFails
    <2>2. CASE n = 0
        BY <1>2, <2>1, <2>2 DEF GroupFails
    <2>3. CASE n # 0
        <3>1. n \in 1..Len(wire) /\ wire[n].key
            BY <2>1, <2>3, NextKey
        <3>2. wire' = SubSeq(wire, n, Len(wire))
            BY <2>1, <2>3
        <3>3. Len(wire') = Len(wire) - n + 1 /\ wire'[1] = wire[n]
            BY <3>1, <3>2, SubSeqProperties
        <3>4. wire' # <<>> /\ Head(wire') = wire[n]
            BY <3>1, <3>3
        <3> QED BY <1>2, <2>1, <2>3, <3>1, <3>4 DEF GroupFails
    <2> QED BY <2>2, <2>3
<1>3. CASE Subscribe
    BY <1>3 DEF Subscribe
<1>4. CASE Asked
    BY <1>4 DEF Asked
<1>5. CASE Read
    BY <1>5 DEF Read, Passes
<1>6. CASE Output
    BY <1>6 DEF Output
<1> QED BY <1>1, <1>2, <1>3, <1>4, <1>5, <1>6 DEF VideoNext

LEMMA StepInv == IInv /\ [Next]_vars => IInv'
<1> SUFFICES ASSUME IInv, [Next]_vars PROVE IInv'
    OBVIOUS
<1>1. CASE ResizeNext
    <2>1. GapGuarded'
        BY <1>1, ResizeType DEF IInv, GapGuarded, video
    <2> QED BY <1>1, <2>1, ResizeType, ResizeBelief DEF IInv
<1>2. CASE VideoNext
    <2>1. BeliefKept'
        BY <1>2, VideoType DEF IInv, BeliefKept, resize
    <2> QED BY <1>2, <2>1, VideoType, VideoGap DEF IInv
<1>3. CASE UNCHANGED vars
    BY <1>3 DEF vars, resize, video, IInv, TypeOK, SizesTyped, FramesTyped, StagesTyped,
                CountsTyped, BeliefKept, GapGuarded
<1> QED BY <1>1, <1>2, <1>3 DEF Next, ResizeNext, VideoNext

\* The resize debouncer loses track of no size: each decision of observe,
\* settle_expired and completed hands it on.
LEMMA ResizeIntent ==
    ASSUME IInv, IntentKept, ResizeNext
    PROVE  IntentKept'
<1> USE SizeAssumption DEF IInv, TypeOK, SizesTyped, MaybeSize, BeliefKept, IntentKept, Intended
<1>1. CASE Layout
    BY <1>1 DEF Layout
<1>2. CASE SendInitial
    BY <1>2 DEF SendInitial
<1>3. CASE InitialDone
    BY <1>3 DEF InitialDone
<1>4. CASE Observe
    BY <1>4 DEF Observe, Observed
<1>5. CASE Tick
    BY <1>5 DEF Tick
<1>6. CASE Expire
    <2>1. phase = "watching"
        BY <1>6 DEF Expire
    <2>2. CASE waiting \in {None, sent}
        BY <1>6, <2>1, <2>2 DEF Expire
    <2>3. CASE waiting \notin {None, sent}
        BY <1>6, <2>1, <2>3 DEF Expire, BeginSend
    <2> QED BY <2>2, <2>3
<1>7. CASE Land
    <2>1. CASE UNCHANGED excuse /\ Completed(TRUE)
        BY <1>7, <2>1 DEF Land, Completed, BeginSend
    <2>2. CASE /\ Completed(FALSE)
               /\ excuse' = IF queued = None /\ waiting = None
                             THEN excuse \cup {"failed"} ELSE excuse
        BY <1>7, <2>2 DEF Land, Completed, BeginSend
    <2>3. PICK ok \in BOOLEAN :
              /\ Completed(ok)
              /\ excuse' = IF ~ok /\ queued = None /\ waiting = None
                           THEN excuse \cup {"failed"} ELSE excuse
        BY <1>7 DEF Land
    <2> QED BY <2>1, <2>2, <2>3
<1> QED BY <1>1, <1>2, <1>3, <1>4, <1>5, <1>6, <1>7 DEF ResizeNext

LEMMA IntentStep == IInv /\ IntentKept /\ [Next]_vars => IntentKept'
<1> SUFFICES ASSUME IInv, IntentKept, [Next]_vars PROVE IntentKept'
    OBVIOUS
<1>1. CASE ResizeNext
    BY <1>1, ResizeIntent
<1>2. CASE VideoNext
    BY <1>2, VideoType DEF resize, IntentKept, Intended
<1>3. CASE UNCHANGED vars
    BY <1>3 DEF vars, resize, IntentKept, Intended
<1> QED BY <1>1, <1>2, <1>3 DEF Next, ResizeNext, VideoNext

\* The display's state is well typed; no queue of frames passes its bound.
THEOREM TypeCorrect == Spec => []TypeOK
<1>1. IInv => TypeOK
    BY DEF IInv
<1> QED BY InitInv, StepInv, <1>1, PTL DEF Spec

\* Between sends the page's belief about the server is true, whatever was queued,
\* cancelled or lost (ResizeDebounce), unless a send that arrived was reported as
\* failed.
THEOREM PageBelievesTheTruth == Spec => []BeliefIsTrue
<1>1. IInv => BeliefIsTrue
    BY DEF IInv, BeliefKept, BeliefIsTrue
<1> QED BY InitInv, StepInv, <1>1, PTL DEF Spec

\* The decoder is given no delta whose base it does not have (run_video_track).
THEOREM DecoderHasItsBase == Spec => []NothingFedWithoutItsBase
<1>1. IInv => NothingFedWithoutItsBase
    BY DEF IInv, GapGuarded, NothingFedWithoutItsBase
<1> QED BY InitInv, StepInv, <1>1, PTL DEF Spec

\* A page at rest has told the server the size its canvas has, or has an excuse,
\* or was told that a size which arrived did not:
\* no interleaving of observations, settle windows, queued sends and failures
\* drops the last size (ResizeDebounce, DisplayResize).
THEOREM SizeReachesTheServer == Spec => []StaleExplained
<1>1. Init => IntentKept
    BY SizeAssumption DEF Init, IntentKept
<1>2. IInv /\ IntentKept => StaleExplained
    BY SizeAssumption DEF IInv, TypeOK, SizesTyped, MaybeSize, BeliefKept, IntentKept,
                          Intended, StaleExplained, AtRest
<1> QED BY InitInv, StepInv, IntentStep, <1>1, <1>2, PTL DEF Spec

----------------------------------------------------------------------------
\* Numbers, sequences and the motion summed over one.

\* The first and the last of finitely many indices exist.
LEMMA HasFirst ==
    ASSUME NEW n \in Nat, NEW S \in SUBSET (1..n), S # {}
    PROVE  \E i \in S : \A j \in S : i <= j
<1> DEFINE R == OpToRel(<, Nat)
<1>1. S \subseteq Nat
    OBVIOUS
<1>2. \E x \in S : \A y \in S : ~(<<y, x>> \in R)
    BY <1>1, WFMin, NatLessThanWellFounded
<1>3. PICK x \in S : \A y \in S : ~(<<y, x>> \in R)
    BY <1>2
<1>4. \A y \in S : ~(y < x)
    BY <1>1, <1>3 DEF OpToRel
<1> QED BY <1>1, <1>4

LEMMA HasLast ==
    ASSUME NEW n \in Nat, NEW S \in SUBSET (1..n), S # {}
    PROVE  \E i \in S : \A j \in S : j <= i
<1> DEFINE T == {n - i : i \in S}
           R == OpToRel(<, Nat)
<1>1. T \subseteq Nat
    <2>1. \A i \in S : n - i \in Nat
        OBVIOUS
    <2> QED BY <2>1
<1>2. T # {}
    <2>1. PICK i \in S : TRUE
        OBVIOUS
    <2>2. n - i \in T
        BY <2>1
    <2> QED BY <2>2
<1>3. IsWellFoundedOn(R, Nat)
    BY NatLessThanWellFounded
<1>4. \E x \in T : \A y \in T : <<y, x>> \notin R
    <2> HIDE DEF T, R
    <2> QED BY <1>1, <1>2, <1>3, WFMin
<1>5. PICK x \in T : \A y \in T : <<y, x>> \notin R
    BY <1>4
<1>6. \A y \in T : ~(y < x)
    BY <1>5, <1>1 DEF OpToRel
<1>7. PICK i \in S : x = n - i
    BY <1>5
<1>8. \A j \in S : j <= i
    <2> TAKE j \in S
    <2>1. n - j \in T
        OBVIOUS
    <2>2. ~(n - j < n - i)
        BY <2>1, <1>6, <1>7
    <2>3. i \in 1..n /\ j \in 1..n
        BY Zenon
    <2> QED BY <2>2, <2>3
<1> QED BY <1>8

\* Induction over the numbers, as a fact about sets.
LEMMA Induction ==
    ASSUME NEW P \in SUBSET Nat, 0 \in P, \A n \in P : n + 1 \in P
    PROVE  P = Nat
<1> DEFINE T == Nat \ P
           R == OpToRel(<, Nat)
<1> SUFFICES ASSUME T # {} PROVE FALSE
    OBVIOUS
<1>1. T \subseteq Nat
    OBVIOUS
<1>2. IsWellFoundedOn(R, Nat)
    BY NatLessThanWellFounded
<1>3. \E x \in T : \A y \in T : <<y, x>> \notin R
    <2> HIDE DEF T, R
    <2> QED BY <1>1, <1>2, WFMin
<1>4. PICK x \in T : \A y \in T : <<y, x>> \notin R
    BY <1>3
<1>5. \A y \in T : ~(y < x)
    BY <1>1, <1>4 DEF OpToRel
<1>6. x \in Nat \ {0} /\ x - 1 \in Nat /\ x - 1 < x /\ (x - 1) + 1 = x
    <2>1. x \in Nat /\ x # 0
        BY <1>4
    <2> QED BY <2>1
<1>7. x - 1 \in P
    BY <1>5, <1>6
<1>8. (x - 1) + 1 \in P
    BY <1>7
<1> QED BY <1>4, <1>6, <1>8

LEMMA ConcatParts ==
    ASSUME NEW S, NEW a \in Seq(S), NEW b \in Seq(S), NEW c, c = a \o b
    PROVE  /\ c \in Seq(S) /\ Len(c) = Len(a) + Len(b)
           /\ \A i \in 1..Len(a) : i \in 1..Len(c) /\ c[i] = a[i]
           /\ \A i \in 1..Len(b) : Len(a) + i \in 1..Len(c) /\ c[Len(a) + i] = b[i]
           /\ \A k \in 1..Len(c) : k \in 1..Len(a) \/ \E i \in 1..Len(b) : k = Len(a) + i
<1>1. Len(a) \in Nat /\ Len(b) \in Nat
    OBVIOUS
<1>2. /\ c \in Seq(S) /\ Len(c) = Len(a) + Len(b)
      /\ \A i \in 1..Len(a) + Len(b) :
            c[i] = IF i <= Len(a) THEN a[i] ELSE b[i - Len(a)]
    BY ConcatProperties
<1>3. \A i \in 1..Len(a) : i \in 1..Len(c) /\ c[i] = a[i]
    BY <1>1, <1>2
<1>4. ASSUME NEW i \in 1..Len(b)
      PROVE  Len(a) + i \in 1..Len(c) /\ c[Len(a) + i] = b[i]
    <2>1. /\ Len(a) + i \in 1..Len(a) + Len(b) /\ ~(Len(a) + i <= Len(a))
          /\ Len(a) + i - Len(a) = i
        BY <1>1
    <2> QED BY <2>1, <1>2
<1>5. ASSUME NEW k \in 1..Len(c)
      PROVE  k \in 1..Len(a) \/ \E i \in 1..Len(b) : k = Len(a) + i
    <2>1. CASE k > Len(a)
        <3>1. k - Len(a) \in 1..Len(b) /\ k = Len(a) + (k - Len(a))
            BY <2>1, <1>1, <1>2
        <3> QED BY <3>1
    <2>2. CASE ~(k > Len(a))
        BY <2>2, <1>1, <1>2
    <2> QED BY <2>1, <2>2
<1> QED BY <1>2, <1>3, <1>4, <1>5

LEMMA HeadConcat ==
    ASSUME NEW S, NEW s \in Seq(S), s # <<>>
    PROVE  s = <<Head(s)>> \o Tail(s)
<1> DEFINE h == <<Head(s)>>
           r == Tail(s)
<1>1. Head(s) \in S /\ r \in Seq(S) /\ Len(r) = Len(s) - 1 /\ Len(s) \in Nat \ {0}
    BY HeadTailProperties
<1>2. h \in Seq(S) /\ Len(h) = 1 /\ h[1] = s[1]
    BY <1>1, HeadTailProperties
<1>3. \A i \in 1..Len(s) - 1 : r[i] = s[i + 1]
    BY HeadTailProperties
<1> HIDE DEF h, r
<1> DEFINE c == h \o r
<1>4. /\ c \in Seq(S) /\ Len(c) = Len(s)
      /\ \A i \in 1..Len(s) : c[i] = IF i <= 1 THEN h[i] ELSE r[i - 1]
    <2>1. Len(h) + Len(r) = Len(s)
        BY <1>1, <1>2
    <2>2. /\ c \in Seq(S) /\ Len(c) = Len(h) + Len(r)
          /\ \A i \in 1..Len(h) + Len(r) : c[i] = IF i <= Len(h) THEN h[i] ELSE r[i - Len(h)]
        BY <1>1, <1>2, ConcatProperties
    <2> QED BY <2>1, <2>2, <1>2
<1> HIDE DEF c
<1>5. \A i \in 1..Len(s) : c[i] = s[i]
    <2> TAKE i \in 1..Len(s)
    <2>1. CASE i = 1
        BY <2>1, <1>2, <1>4
    <2>2. CASE i # 1
        <3>1. i - 1 \in 1..Len(s) - 1 /\ i - 1 + 1 = i /\ ~(i <= 1)
            BY <2>2, <1>1
        <3> QED BY <3>1, <1>3, <1>4
    <2> QED BY <2>1, <2>2
<1>6. c = s
    BY <1>4, <1>5, SeqEqual
<1> QED BY <1>6 DEF c, h, r

\* The running sums of the motion in a sequence of events.
Sums(f, s, n) ==
    /\ f \in [0..n -> Int]
    /\ f[0] = 0
    /\ \A i \in 1..n : f[i] = f[i - 1] + Moved(s[i])

Moves(S) == \A e \in S : Moved(e) \in Int

LEMMA SumsExist ==
    ASSUME NEW S, Moves(S), NEW s \in Seq(S)
    PROVE  \E f : Sums(f, s, Len(s))
<1> DEFINE P == {n \in Nat : n <= Len(s) => \E f : Sums(f, s, n)}
<1>1. Len(s) \in Nat /\ \A i \in 1..Len(s) : Moved(s[i]) \in Int
    BY DEF Moves
<1>2. 0 \in P
    <2>1. Sums([i \in 0..0 |-> 0], s, 0)
        BY DEF Sums
    <2> QED BY <2>1
<1>3. ASSUME NEW n \in P
      PROVE  n + 1 \in P
    <2>1. CASE n + 1 <= Len(s)
        <3>1. n \in Nat /\ n <= Len(s)
            BY <2>1, <1>1
        <3>2. PICK f : Sums(f, s, n)
            BY <3>1
        <3> DEFINE g == [i \in 0..n + 1 |-> IF i = n + 1 THEN f[n] + Moved(s[n + 1]) ELSE f[i]]
        <3>3. n + 1 \in 1..Len(s) /\ Moved(s[n + 1]) \in Int /\ f[n] \in Int
            BY <3>1, <3>2, <2>1, <1>1 DEF Sums
        <3>4. g \in [0..n + 1 -> Int] /\ g[0] = 0
            BY <3>1, <3>2, <3>3 DEF Sums
        <3>5. ASSUME NEW i \in 1..n + 1
              PROVE  g[i] = g[i - 1] + Moved(s[i])
            <4>1. CASE i = n + 1
                <5>1. i - 1 = n /\ n \in 0..n + 1 /\ n # n + 1
                    BY <4>1, <3>1
                <5> QED BY <4>1, <5>1
            <4>2. CASE i # n + 1
                <5>1. i \in 1..n /\ i - 1 \in 0..n + 1 /\ i - 1 # n + 1 /\ i \in 0..n + 1
                    BY <4>2, <3>1
                <5> QED BY <4>2, <5>1, <3>2 DEF Sums
            <4> QED BY <4>1, <4>2
        <3> HIDE DEF g
        <3>6. Sums(g, s, n + 1)
            BY <3>4, <3>5 DEF Sums
        <3> QED BY <3>1, <3>6
    <2>2. CASE ~(n + 1 <= Len(s))
        BY <2>2
    <2> QED BY <2>1, <2>2
<1>4. P = Nat
    <2>1. P \in SUBSET Nat
        OBVIOUS
    <2> HIDE DEF P
    <2> QED BY <2>1, <1>2, <1>3, Induction
<1>5. Len(s) \in P
    BY <1>1, <1>4
<1> QED BY <1>1, <1>5

LEMMA MotionOf ==
    ASSUME NEW S, Moves(S), NEW s \in Seq(S), NEW f, Sums(f, s, Len(s))
    PROVE  Motion(s) = f[Len(s)] /\ Motion(s) \in Int
<1> DEFINE n == Len(s)
           step(g) == [i \in 0..n |-> IF i = 0 THEN 0 ELSE g[i - 1] + Moved(s[i])]
           sum == CHOOSE g : g = step(g)
<1>1. n \in Nat
    OBVIOUS
<1>2. f = step(f)
    <2>1. ASSUME NEW i \in 0..n
          PROVE  f[i] = IF i = 0 THEN 0 ELSE f[i - 1] + Moved(s[i])
        <3>1. i # 0 => i \in 1..n
            BY <1>1
        <3> QED BY <3>1 DEF Sums
    <2>2. f = [i \in 0..n |-> f[i]]
        BY DEF Sums
    <2> QED BY <2>1, <2>2
<1>3. sum = step(sum)
    BY <1>2
<1>4. Motion(s) = sum[n]
    BY DEF Motion
<1> HIDE DEF sum
<1>5. sum[0] = 0 /\ \A i \in 1..n : sum[i] = sum[i - 1] + Moved(s[i])
    <2>1. \A i \in 0..n : sum[i] = IF i = 0 THEN 0 ELSE sum[i - 1] + Moved(s[i])
        BY <1>3
    <2>2. 0 \in 0..n /\ \A i \in 1..n : i \in 0..n /\ i # 0
        BY <1>1
    <2> HIDE DEF n
    <2> QED BY <2>1, <2>2
<1> DEFINE P == {i \in Nat : i <= n => sum[i] = f[i]}
<1>6. 0 \in P
    BY <1>5 DEF Sums
<1>7. ASSUME NEW i \in P
      PROVE  i + 1 \in P
    <2>1. CASE i + 1 <= n
        <3>1. i <= n /\ i + 1 \in 1..n /\ i + 1 - 1 = i /\ i \in Nat
            BY <2>1, <1>1
        <3>2. sum[i] = f[i]
            BY <3>1
        <3>3. sum[i + 1] = sum[i] + Moved(s[i + 1])
            BY <3>1, <1>5
        <3>4. f[i + 1] = f[i] + Moved(s[i + 1])
            BY <3>1 DEF Sums
        <3> QED BY <3>1, <3>2, <3>3, <3>4
    <2>2. CASE ~(i + 1 <= n)
        BY <2>2
    <2> QED BY <2>1, <2>2
<1>8. P = Nat
    <2>1. P \in SUBSET Nat
        OBVIOUS
    <2> HIDE DEF P
    <2> QED BY <2>1, <1>6, <1>7, Induction
<1>9. sum[n] = f[n]
    BY <1>1, <1>8
<1>10. f[n] \in Int
    BY <1>1 DEF Sums
<1> QED BY <1>4, <1>9, <1>10

LEMMA MotionEmpty == Motion(<<>>) = 0
<1>1. Sums([i \in 0..0 |-> 0], <<>>, 0)
    BY DEF Sums
<1>2. <<>> \in Seq({}) /\ Len(<<>>) = 0 /\ Moves({})
    BY DEF Moves
<1> QED BY <1>1, <1>2, MotionOf

LEMMA MotionConcat ==
    ASSUME NEW S, Moves(S), NEW s \in Seq(S), NEW t \in Seq(S)
    PROVE  /\ Motion(s) \in Int /\ Motion(t) \in Int
           /\ Motion(s \o t) = Motion(s) + Motion(t)
<1> DEFINE m == Len(s)
           n == Len(t)
           c == s \o t
<1>1. PICK f : Sums(f, s, m)
    BY SumsExist
<1>2. PICK g : Sums(g, t, n)
    BY SumsExist
<1>3. /\ m \in Nat /\ n \in Nat /\ c \in Seq(S) /\ Len(c) = m + n
      /\ \A i \in 1..m : c[i] = s[i]
      /\ \A i \in 1..n : c[m + i] = t[i]
    BY ConcatParts
<1>4. Motion(s) = f[m] /\ Motion(t) = g[n] /\ f[m] \in Int /\ g[n] \in Int
    BY <1>1, <1>2, MotionOf
<1> HIDE DEF c
<1> DEFINE h == [i \in 0..m + n |-> IF i <= m THEN f[i] ELSE f[m] + g[i - m]]
<1>5. h \in [0..m + n -> Int]
    <2>1. ASSUME NEW i \in 0..m + n
          PROVE  (IF i <= m THEN f[i] ELSE f[m] + g[i - m]) \in Int
        <3>1. CASE i <= m
            <4>1. i \in 0..m
                BY <3>1, <1>3
            <4> QED BY <4>1, <3>1, <1>1 DEF Sums
        <3>2. CASE ~(i <= m)
            <4>1. i - m \in 0..n
                BY <3>2, <1>3
            <4>2. g[i - m] \in Int
                BY <4>1, <1>2 DEF Sums
            <4> QED BY <4>2, <3>2, <1>4
        <3> QED BY <3>1, <3>2
    <2> QED BY <2>1
<1>6. h[0] = 0
    BY <1>1, <1>3 DEF Sums
<1>7. ASSUME NEW i \in 1..m + n
      PROVE  h[i] = h[i - 1] + Moved(c[i])
    <2>1. CASE i <= m
        <3>1. i \in 1..m /\ i - 1 \in 0..m + n /\ i \in 0..m + n /\ i - 1 <= m
            BY <2>1, <1>3
        <3> QED BY <2>1, <3>1, <1>1, <1>3 DEF Sums
    <2>2. CASE ~(i <= m)
        <3> DEFINE j == i - m
        <3>1. j \in 1..n /\ m + j = i /\ i \in 0..m + n /\ i - 1 \in 0..m + n
              /\ j - 1 \in 0..n /\ i - 1 - m = j - 1 /\ ~(i <= m)
            BY <2>2, <1>3
        <3>2. h[i] = f[m] + g[j]
            BY <3>1
        <3>3. h[i - 1] = f[m] + g[j - 1]
            <4>1. CASE i - 1 <= m
                <5>1. i - 1 = m /\ j - 1 = 0
                    BY <4>1, <2>2, <1>3
                <5>2. h[i - 1] = f[m] /\ g[j - 1] = 0
                    BY <5>1, <3>1, <1>2 DEF Sums
                <5> QED BY <5>2, <1>4
            <4>2. CASE ~(i - 1 <= m)
                BY <3>1, <4>2
            <4> QED BY <4>1, <4>2
        <3>4. g[j] = g[j - 1] + Moved(t[j]) /\ c[i] = t[j]
            BY <3>1, <1>2, <1>3 DEF Sums
        <3>5. g[j] \in Int /\ g[j - 1] \in Int /\ Moved(t[j]) \in Int
            <4>1. j \in 0..n /\ j - 1 \in 0..n /\ t[j] \in S
                BY <3>1, <1>3
            <4>2. g \in [0..n -> Int]
                BY <1>2 DEF Sums
            <4> HIDE DEF j
            <4>3. g[j] \in Int /\ g[j - 1] \in Int
                BY <4>1, <4>2
            <4> QED BY <4>1, <4>3 DEF Moves
        <3> HIDE DEF h, j
        <3> QED BY <3>2, <3>3, <3>4, <3>5, <1>4
    <2> QED BY <2>1, <2>2
<1>8. h[m + n] = f[m] + g[n]
    <2>1. CASE n = 0
        <3>1. g[n] = 0 /\ m + n = m /\ m \in 0..m + n
            BY <2>1, <1>2, <1>3 DEF Sums
        <3> QED BY <3>1, <1>4
    <2>2. CASE n # 0
        <3>1. ~(m + n <= m) /\ m + n - m = n /\ m + n \in 0..m + n
            BY <2>2, <1>3
        <3> QED BY <3>1
    <2> QED BY <2>1, <2>2
<1> HIDE DEF h
<1>9. Sums(h, c, Len(c))
    BY <1>3, <1>5, <1>6, <1>7 DEF Sums
<1>10. Motion(c) = h[m + n]
    <2>1. c \in Seq(S)
        BY <1>3
    <2>2. Motion(c) = h[Len(c)]
        BY <2>1, <1>9, MotionOf
    <2> QED BY <2>2, <1>3
<1> QED BY <1>4, <1>8, <1>10 DEF c

LEMMA MotionTold ==
    ASSUME NEW e, Moved(e) \in Int
    PROVE  Motion(<<e>>) = Moved(e)
<1> DEFINE s == <<e>>
           f == [i \in 0..1 |-> IF i = 0 THEN 0 ELSE Moved(e)]
<1>1. s \in Seq({e}) /\ Len(s) = 1 /\ s[1] = e /\ Moves({e})
    BY DEF Moves
<1> HIDE DEF s
<1>2. f \in [0..1 -> Int] /\ f[0] = 0 /\ f[1] = Moved(e)
    OBVIOUS
<1> HIDE DEF f
<1>3. Sums(f, s, 1)
    BY <1>1, <1>2 DEF Sums
<1>4. Motion(s) = f[Len(s)]
    <2>1. Sums(f, s, Len(s)) /\ s \in Seq({e}) /\ Moves({e})
        BY <1>1, <1>3
    <2> QED BY <2>1, MotionOf
<1> QED BY <1>1, <1>2, <1>4 DEF s

LEMMA MotionAppend ==
    ASSUME NEW S, Moves(S), NEW s \in Seq(S), NEW e \in S
    PROVE  Motion(Append(s, e)) = Motion(s) + Moved(e)
<1> DEFINE h == <<e>>
<1>1. Append(s, e) = s \o h /\ h \in Seq(S)
    BY AppendIsConcat
<1>2. Motion(h) = Moved(e)
    BY MotionTold DEF Moves
<1> HIDE DEF h
<1>3. Motion(s \o h) = Motion(s) + Motion(h)
    BY <1>1, MotionConcat
<1> QED BY <1>1, <1>2, <1>3

LEMMA MotionHead ==
    ASSUME NEW S, Moves(S), NEW s \in Seq(S), s # <<>>
    PROVE  /\ Moved(Head(s)) \in Int /\ Motion(Tail(s)) \in Int
           /\ Motion(s) = Moved(Head(s)) + Motion(Tail(s))
<1> DEFINE h == <<Head(s)>>
           r == Tail(s)
<1>1. Head(s) \in S /\ h \in Seq(S) /\ r \in Seq(S) /\ Moved(Head(s)) \in Int
    BY HeadTailProperties DEF Moves
<1>2. s = h \o r
    BY HeadConcat
<1>3. Motion(h) = Moved(Head(s))
    BY <1>1, MotionTold
<1> HIDE DEF h, r
<1>4. Motion(r) \in Int /\ Motion(h \o r) = Motion(h) + Motion(r)
    BY <1>1, MotionConcat
<1> QED BY <1>1, <1>2, <1>3, <1>4 DEF r

LEMMA MotionChanged ==
    ASSUME NEW S, Moves(S), NEW s \in Seq(S), NEW t \in Seq(S),
           Len(s) = Len(t), NEW k \in 1..Len(s), \A i \in 1..Len(s) : i # k => t[i] = s[i]
    PROVE  /\ Motion(s) \in Int
           /\ Motion(t) = Motion(s) - Moved(s[k]) + Moved(t[k])
<1> DEFINE n == Len(s)
           add == Moved(t[k]) - Moved(s[k])
<1>1. PICK f : Sums(f, s, n)
    BY SumsExist
<1>2. n \in Nat /\ Moved(t[k]) \in Int /\ Moved(s[k]) \in Int /\ add \in Int /\ k \in 1..n
    BY DEF Moves
<1> DEFINE h == [i \in 0..n |-> IF i < k THEN f[i] ELSE f[i] + add]
<1>3. f \in [0..n -> Int] /\ f[0] = 0 /\ \A i \in 1..n : f[i] = f[i - 1] + Moved(s[i])
    BY <1>1 DEF Sums
<1> HIDE DEF add
<1>4. h \in [0..n -> Int] /\ h[0] = 0
    BY <1>2, <1>3
<1>5. ASSUME NEW i \in 1..n
      PROVE  h[i] = h[i - 1] + Moved(t[i])
    <2>0. i \in 0..n /\ i - 1 \in 0..n
        BY <1>2
    <2>1. /\ i \in 0..n /\ i - 1 \in 0..n /\ f[i] = f[i - 1] + Moved(s[i])
          /\ f[i] \in Int /\ f[i - 1] \in Int
        <3> HIDE DEF n
        <3> QED BY <2>0, <1>3
    <2>2. CASE i < k
        <3>1. t[i] = s[i] /\ i - 1 < k
            BY <2>2, <1>2
        <3> QED BY <2>1, <2>2, <3>1
    <2>3. CASE i = k
        <3>1. h[i] = f[i] + add /\ h[i - 1] = f[i - 1]
            BY <2>1, <2>3, <1>2
        <3> QED BY <2>1, <2>3, <3>1, <1>2 DEF add
    <2>4. CASE i > k
        <3>1. t[i] = s[i] /\ ~(i - 1 < k) /\ ~(i < k)
            BY <2>4, <1>2
        <3>2. h[i] = f[i] + add /\ h[i - 1] = f[i - 1] + add
            BY <2>1, <3>1
        <3>3. Moved(s[i]) \in Int
            <4>1. s[i] \in S
                BY <2>1
            <4> QED BY <4>1 DEF Moves
        <3> HIDE DEF h
        <3> QED BY <2>1, <3>1, <3>2, <3>3, <1>2, SMTT(40)
    <2> QED BY <2>2, <2>3, <2>4, <1>2
<1>6. h[n] = f[n] + add /\ f[n] \in Int
    BY <1>2, <1>3
<1> HIDE DEF h, n
<1>7. Sums(f, s, Len(s)) /\ Sums(h, t, Len(t))
    BY <1>1, <1>4, <1>5 DEF Sums, n
<1>8. Motion(s) = f[Len(s)] /\ Motion(t) = h[Len(t)]
    BY <1>7, MotionOf
<1> QED BY <1>2, <1>6, <1>8 DEF n, add

LEMMA MotionInt ==
    ASSUME NEW S, Moves(S), NEW s \in Seq(S)
    PROVE  Motion(s) \in Int
<1>1. PICK f : Sums(f, s, Len(s))
    BY SumsExist
<1> QED BY <1>1, MotionOf

----------------------------------------------------------------------------
\* InputThrottle.

\* The value an event leaves its part of the seat with.
Leaves(e) ==
    CASE e.kind = "button" -> e.down
      [] e.kind = "touch"  -> e.at
      [] e.kind = "lift"   -> Up
      [] e.kind = "pad"    -> IF e.pressed THEN "pressed" ELSE "idle"
      [] OTHER -> e.by

\* The last event about a part leaves it with this value.
Ends(q, p, v) ==
    \E i \in 1..Len(q) :
        /\ PartOf(q[i]) = p /\ Leaves(q[i]) = v
        /\ \A j \in 1..Len(q) : i < j => PartOf(q[j]) # p

\* The spacings have a longest one.
LEMMA LongestSpacing ==
    /\ Longest \in Spacing /\ Longest \in Nat /\ Spacing \subseteq Nat
    /\ \A s \in Spacing : s <= Longest
<1>1. PICK top \in Requests : \A r \in Requests : r <= top
    BY SpacingAssumption
<1>2. \A r \in Requests : Effective(r) \in Nat /\ Effective(r) <= Effective(top)
    BY <1>1, SpacingAssumption DEF Effective
<1>3. Spacing \subseteq Nat /\ \E s \in Spacing : \A r \in Spacing : r <= s
    BY <1>1, <1>2 DEF Spacing
<1>4. Longest \in Spacing /\ \A r \in Spacing : r <= Longest
    BY <1>3 DEF Longest
<1> QED BY <1>3, <1>4

LEMMA EventForms ==
    ASSUME NEW e \in Event
    PROVE  \/ e.kind = "motion" /\ e.by \in Delta /\ e.by \in Int /\ e = [kind |-> "motion", by |-> e.by]
           \/ e.kind = "button" /\ e.down \in BOOLEAN
           \/ e.kind = "touch" /\ e.at \in Place /\ e = [kind |-> "touch", at |-> e.at]
           \/ e.kind = "lift"
           \/ e.kind = "pad" /\ e.pressed \in BOOLEAN
<1>1. CASE e \in [kind : {"motion"}, by : Delta]
    BY <1>1, DeltaAssumption DEF Delta
<1>2. CASE e \in [kind : {"button"}, down : BOOLEAN]
    BY <1>2
<1>3. CASE e \in [kind : {"touch"}, at : Place]
    BY <1>3
<1>4. CASE e \in [kind : {"lift"}]
    BY <1>4
<1>5. CASE e \in [kind : {"pad"}, pressed : BOOLEAN]
    BY <1>5
<1> QED BY <1>1, <1>2, <1>3, <1>4, <1>5 DEF Event

LEMMA EventParts ==
    ASSUME NEW e \in Event
    PROVE  /\ Moved(e) \in Int
           /\ PartOf(e) \in Part => Moved(e) = 0
           /\ PartOf(e) = "motion" <=> e.kind = "motion"
           /\ PartOf(e) = "button" <=> e.kind = "button"
           /\ PartOf(e) = "finger" <=> e.kind \in {"touch", "lift"}
           /\ PartOf(e) = "pad" <=> e.kind = "pad"
           /\ PartOf(e) \in Part \cup {"motion"}
BY EventForms DEF Moved, PartOf, Part

\* What an event does to a seat: it moves the pointer, or sets one part.
LEMMA ApplyParts ==
    ASSUME NEW s \in Seat, NEW e \in Event
    PROVE  /\ Apply(s, e) \in Seat
           /\ Apply(s, e).motion = s.motion + Moved(e)
           /\ \A p \in Part : Apply(s, e)[p] = IF PartOf(e) = p THEN Leaves(e) ELSE s[p]
<1>1. CASE e.kind = "motion"
    <2>1. e.by \in Int /\ Apply(s, e) = [s EXCEPT !.motion = @ + e.by]
        BY <1>1, EventForms DEF Apply
    <2>2. Moved(e) = e.by /\ PartOf(e) = "motion"
        BY <1>1 DEF Moved, PartOf
    <2> QED BY <2>1, <2>2 DEF Seat, Part
<1>2. CASE e.kind = "button"
    <2>1. e.down \in BOOLEAN /\ Apply(s, e) = [s EXCEPT !.button = e.down]
        BY <1>2, EventForms DEF Apply
    <2>2. Moved(e) = 0 /\ PartOf(e) = "button" /\ Leaves(e) = e.down
        BY <1>2 DEF Moved, PartOf, Leaves
    <2> QED BY <2>1, <2>2 DEF Seat, Part
<1>3. CASE e.kind = "touch"
    <2>1. e.at \in Place /\ Apply(s, e) = [s EXCEPT !.finger = e.at]
        BY <1>3, EventForms DEF Apply
    <2>2. Moved(e) = 0 /\ PartOf(e) = "finger" /\ Leaves(e) = e.at
        BY <1>3 DEF Moved, PartOf, Leaves
    <2> QED BY <2>1, <2>2 DEF Seat, Part
<1>4. CASE e.kind = "lift"
    <2>1. Apply(s, e) = [s EXCEPT !.finger = Up]
        BY <1>4 DEF Apply
    <2>2. Moved(e) = 0 /\ PartOf(e) = "finger" /\ Leaves(e) = Up
        BY <1>4 DEF Moved, PartOf, Leaves
    <2> QED BY <2>1, <2>2 DEF Seat, Part
<1>5. CASE e.kind = "pad"
    <2> DEFINE v == IF e.pressed THEN "pressed" ELSE "idle"
    <2>1. v \in {"idle", "pressed"} /\ Apply(s, e) = [s EXCEPT !.pad = v]
        BY <1>5 DEF Apply
    <2>2. Moved(e) = 0 /\ PartOf(e) = "pad" /\ Leaves(e) = v
        BY <1>5 DEF Moved, PartOf, Leaves
    <2> HIDE DEF v
    <2> QED BY <2>1, <2>2 DEF Seat, Part
<1> QED BY <1>1, <1>2, <1>3, <1>4, <1>5, EventForms

----------------------------------------------------------------------------
\* Queues.

LEMMA EventMoves == Moves(Event)
BY EventParts DEF Moves

LEMMA PartAbsent ==
    ASSUME NEW q \in Seq(Event), NEW p
    PROVE  p \in PartsOf(q) <=> \E i \in 1..Len(q) : PartOf(q[i]) = p
<1>1. DOMAIN q = 1..Len(q)
    BY LenProperties
<1> QED BY <1>1 DEF PartsOf

LEMMA EndsPresent ==
    ASSUME NEW q \in Seq(Event), NEW p, NEW v, Ends(q, p, v)
    PROVE  p \in PartsOf(q)
BY PartAbsent DEF Ends

LEMMA AppendEnds ==
    ASSUME NEW q \in Seq(Event), NEW e \in Event
    PROVE  LET c == Append(q, e) IN
           /\ c \in Seq(Event) /\ c # <<>> /\ Len(c) = Len(q) + 1
           /\ Ends(c, PartOf(e), Leaves(e))
           /\ \A p, v : p # PartOf(e) /\ Ends(q, p, v) => Ends(c, p, v)
           /\ \A p : p # PartOf(e) /\ p \notin PartsOf(q) => p \notin PartsOf(c)
<1> DEFINE c == Append(q, e)
           n == Len(q)
<1>1. /\ n \in Nat /\ c \in Seq(Event) /\ c # <<>> /\ Len(c) = n + 1
      /\ c[n + 1] = e /\ \A i \in 1..n : c[i] = q[i]
    BY AppendProperties
<1> HIDE DEF c, n
<1>2. Ends(c, PartOf(e), Leaves(e))
    <2>1. n + 1 \in 1..Len(c) /\ \A j \in 1..Len(c) : ~(n + 1 < j)
        BY <1>1
    <2> QED BY <2>1, <1>1 DEF Ends
<1>3. ASSUME NEW p, NEW v, p # PartOf(e), Ends(q, p, v)
      PROVE  Ends(c, p, v)
    <2>1. PICK i \in 1..n : /\ PartOf(q[i]) = p /\ Leaves(q[i]) = v
                            /\ \A j \in 1..n : i < j => PartOf(q[j]) # p
        BY <1>3 DEF Ends, n
    <2>2. i \in 1..Len(c) /\ c[i] = q[i]
        BY <1>1
    <2>3. \A j \in 1..Len(c) : i < j => PartOf(c[j]) # p
        <3>1. \A j \in 1..Len(c) : j \in 1..n \/ j = n + 1
            BY <1>1
        <3> QED BY <3>1, <2>1, <1>1, <1>3
    <2> QED BY <2>1, <2>2, <2>3 DEF Ends
<1>4. ASSUME NEW p, p # PartOf(e), p \notin PartsOf(q)
      PROVE  p \notin PartsOf(c)
    <2>1. \A i \in 1..n : PartOf(q[i]) # p
        BY <1>4, PartAbsent DEF n
    <2>2. \A j \in 1..Len(c) : j \in 1..n \/ j = n + 1
        BY <1>1
    <2>3. \A j \in 1..Len(c) : PartOf(c[j]) # p
        BY <2>1, <2>2, <1>1, <1>4
    <2> QED BY <2>3, <1>1, PartAbsent
<1> QED BY <1>1, <1>2, <1>3, <1>4 DEF c, n

\* An entry gives way to one about the same part: to the part that was its last
\* word, and to no other, this is news.
LEMMA ReplaceEnds ==
    ASSUME NEW q \in Seq(Event), NEW c \in Seq(Event), Len(c) = Len(q),
           NEW k \in 1..Len(q), \A i \in 1..Len(q) : i # k => c[i] = q[i],
           PartOf(c[k]) = PartOf(q[k])
    PROVE  /\ \A p, v : p # PartOf(c[k]) /\ Ends(q, p, v) => Ends(c, p, v)
           /\ \A p : p \notin PartsOf(q) => p \notin PartsOf(c)
           /\ (\A j \in 1..Len(q) : k < j => PartOf(q[j]) # PartOf(q[k]))
                => Ends(c, PartOf(c[k]), Leaves(c[k]))
<1>1. \A i \in 1..Len(q) : PartOf(c[i]) = PartOf(q[i])
    OBVIOUS
<1>2. ASSUME NEW p, NEW v, p # PartOf(c[k]), Ends(q, p, v)
      PROVE  Ends(c, p, v)
    <2>1. PICK i \in 1..Len(q) : /\ PartOf(q[i]) = p /\ Leaves(q[i]) = v
                            /\ \A j \in 1..Len(q) : i < j => PartOf(q[j]) # p
        BY <1>2 DEF Ends
    <2>2. i # k /\ c[i] = q[i]
        BY <1>2, <2>1
    <2> QED BY <1>1, <2>1, <2>2 DEF Ends
<1>3. ASSUME NEW p, p \notin PartsOf(q)
      PROVE  p \notin PartsOf(c)
    <2>1. \A i \in 1..Len(q) : PartOf(q[i]) # p
        BY <1>3, PartAbsent
    <2> QED BY <2>1, <1>1, PartAbsent
<1>4. ASSUME \A j \in 1..Len(q) : k < j => PartOf(q[j]) # PartOf(q[k])
      PROVE  Ends(c, PartOf(c[k]), Leaves(c[k]))
    BY <1>1, <1>4 DEF Ends
<1> QED BY <1>2, <1>3, <1>4

\* The head goes: it was the last word on its part, or another still is.
LEMMA TailEnds ==
    ASSUME NEW q \in Seq(Event), q # <<>>
    PROVE  /\ Head(q) \in Event /\ Tail(q) \in Seq(Event) /\ Len(Tail(q)) = Len(q) - 1
           /\ \A p : p \notin PartsOf(q) => p \notin PartsOf(Tail(q)) /\ PartOf(Head(q)) # p
           /\ \A p, v : Ends(q, p, v) =>
                \/ Ends(Tail(q), p, v)
                \/ p \notin PartsOf(Tail(q)) /\ PartOf(Head(q)) = p /\ Leaves(Head(q)) = v
<1> DEFINE r == Tail(q)
           n == Len(q)
<1>1. /\ n \in Nat \ {0} /\ Head(q) \in Event /\ r \in Seq(Event) /\ Len(r) = n - 1
      /\ Head(q) = q[1] /\ \A i \in 1..n - 1 : r[i] = q[i + 1]
    BY HeadTailProperties
<1> HIDE DEF r, n
<1>2. \A i \in 1..Len(r) : i + 1 \in 1..n /\ r[i] = q[i + 1]
    BY <1>1
<1>3. ASSUME NEW p, p \notin PartsOf(q)
      PROVE  p \notin PartsOf(r) /\ PartOf(Head(q)) # p
    <2>1. \A i \in 1..n : PartOf(q[i]) # p
        BY <1>3, PartAbsent DEF n
    <2>2. \A i \in 1..Len(r) : PartOf(r[i]) # p
        BY <2>1, <1>2
    <2>3. 1 \in 1..n
        BY <1>1
    <2> QED BY <2>1, <2>2, <2>3, <1>1, PartAbsent
<1>4. ASSUME NEW p, NEW v, Ends(q, p, v)
      PROVE  \/ Ends(r, p, v)
             \/ p \notin PartsOf(r) /\ PartOf(Head(q)) = p /\ Leaves(Head(q)) = v
    <2>1. PICK i \in 1..n : /\ PartOf(q[i]) = p /\ Leaves(q[i]) = v
                            /\ \A j \in 1..n : i < j => PartOf(q[j]) # p
        BY <1>4 DEF Ends, n
    <2>2. CASE i = 1
        <3>1. \A j \in 1..Len(r) : j + 1 \in 1..n /\ 1 < j + 1
            BY <1>1, <1>2
        <3>2. \A j \in 1..Len(r) : PartOf(r[j]) # p
            BY <3>1, <2>1, <2>2, <1>2
        <3> QED BY <3>2, <2>1, <2>2, <1>1, PartAbsent
    <2>3. CASE i # 1
        <3>1. i - 1 \in 1..Len(r) /\ i - 1 + 1 = i
            BY <2>3, <1>1
        <3>2. r[i - 1] = q[i]
            BY <3>1, <1>2
        <3>3. \A j \in 1..Len(r) : i - 1 < j => i < j + 1
            BY <3>1, <1>1
        <3>4. \A j \in 1..Len(r) : i - 1 < j => PartOf(r[j]) # p
            BY <3>3, <2>1, <1>2
        <3> QED BY <3>1, <3>2, <3>4, <2>1 DEF Ends
    <2> QED BY <2>2, <2>3
<1> QED BY <1>1, <1>3, <1>4 DEF r, n

\* coalesce_input, rule by rule; x is what it clips.
Merged(q, e, c, x) ==
    /\ c \in Seq(Event) /\ c # <<>> /\ Len(c) <= Len(q) + 1
    /\ x \in Int /\ Motion(c) \in Int /\ Motion(c) = Motion(q) + Moved(e) - x
    /\ PartOf(e) \in Part => Ends(c, PartOf(e), Leaves(e))
    /\ \A p \in Part : \A v : p # PartOf(e) /\ Ends(q, p, v) => Ends(c, p, v)
    /\ \A p \in Part : p # PartOf(e) /\ p \notin PartsOf(q) => p \notin PartsOf(c)

LEMMA AppendMerges ==
    ASSUME NEW q \in Seq(Event), NEW e \in Event
    PROVE  Merged(q, e, Append(q, e), 0)
<1>1. /\ Motion(Append(q, e)) = Motion(q) + Moved(e)
      /\ Motion(q) \in Int /\ Moved(e) \in Int
    BY EventMoves, MotionAppend, MotionInt, EventParts
<1>2. Len(q) \in Nat
    OBVIOUS
<1> DEFINE c == Append(q, e)
<1>3. /\ c \in Seq(Event) /\ c # <<>> /\ Len(c) = Len(q) + 1
      /\ Ends(c, PartOf(e), Leaves(e))
      /\ \A p, v : p # PartOf(e) /\ Ends(q, p, v) => Ends(c, p, v)
      /\ \A p : p # PartOf(e) /\ p \notin PartsOf(q) => p \notin PartsOf(c)
    BY AppendEnds
<1> HIDE DEF c
<1>4. Motion(c) = Motion(q) + Moved(e) - 0 /\ Motion(c) \in Int
    BY <1>1 DEF c
<1>5. Merged(q, e, c, 0)
    BY <1>2, <1>3, <1>4 DEF Merged
<1> QED BY <1>5 DEF c

\* `d` takes the place of an entry, with what the two of them move but for `x`.
LEMMA ReplaceMerges ==
    ASSUME NEW q \in Seq(Event), NEW e \in Event, NEW k \in 1..Len(q), NEW d \in Event,
           PartOf(d) = PartOf(q[k]), PartOf(d) = PartOf(e),
           NEW x \in Int, Moved(d) + x = Moved(q[k]) + Moved(e),
           PartOf(e) \in Part =>
                /\ Leaves(d) = Leaves(e)
                /\ \A j \in 1..Len(q) : k < j => PartOf(q[j]) # PartOf(e)
    PROVE  Merged(q, e, [q EXCEPT ![k] = d], x)
<1> DEFINE c == [q EXCEPT ![k] = d]
<1>1. c \in Seq(Event) /\ Len(c) = Len(q) /\ \A i \in 1..Len(q) : c[i] = IF i = k THEN d ELSE q[i]
    BY ExceptSeq
<1>2. c[k] = d /\ (\A i \in 1..Len(q) : i # k => c[i] = q[i]) /\ Len(q) \in Nat /\ c # <<>>
    BY <1>1
<1> HIDE DEF c
<1>3. Motion(q) \in Int /\ Motion(c) = Motion(q) - Moved(q[k]) + Moved(c[k])
    BY <1>1, <1>2, EventMoves, MotionChanged
<1>4. Motion(c) = Motion(q) + Moved(e) - x /\ Motion(c) \in Int
    <2>1. Moved(q[k]) \in Int /\ Moved(e) \in Int /\ Moved(d) \in Int
        <3>1. q[k] \in Event
            OBVIOUS
        <3> QED BY <3>1, EventParts
    <2>2. \A m, v, w, u, y \in Int : u + y = v + w => m - v + u = m + w - y
        OBVIOUS
    <2>3. Motion(c) = Motion(q) - Moved(q[k]) + Moved(d)
        BY <1>2, <1>3
    <2>4. Motion(q) - Moved(q[k]) + Moved(d) = Motion(q) + Moved(e) - x
        <3> DEFINE m == Motion(q)
                   v == Moved(q[k])
                   w == Moved(e)
                   u == Moved(d)
        <3>1. m \in Int /\ v \in Int /\ w \in Int /\ u \in Int /\ u + x = v + w
            BY <2>1, <1>3
        <3> HIDE DEF m, v, w, u
        <3>2. m - v + u = m + w - x
            BY <2>2, <3>1
        <3> QED BY <3>2 DEF m, v, w, u
    <2> QED BY <2>1, <2>3, <2>4, <1>3
<1>5. /\ \A p, v : p # PartOf(e) /\ Ends(q, p, v) => Ends(c, p, v)
      /\ \A p : p \notin PartsOf(q) => p \notin PartsOf(c)
      /\ (\A j \in 1..Len(q) : k < j => PartOf(q[j]) # PartOf(q[k]))
            => Ends(c, PartOf(e), Leaves(d))
    BY <1>1, <1>2, ReplaceEnds
<1>6. Merged(q, e, c, x)
    BY <1>1, <1>2, <1>4, <1>5 DEF Merged
<1> QED BY <1>6 DEF c

\* What saturation keeps and what it drops make up the sum.
LEMMA SaturateParts ==
    ASSUME NEW n \in Int
    PROVE  /\ Saturate(n) \in Delta /\ Saturate(n) \in Int /\ Excess(n) \in Int
           /\ Saturate(n) + Excess(n) = n
BY DeltaAssumption DEF Saturate, Excess, Delta

LEMMA MotionMerges ==
    ASSUME NEW q \in Seq(Event), NEW e \in Event, e.kind = "motion"
    PROVE  Merged(q, e, MergeMotion(q, e), Clipped(q, e))
<1> DEFINE I == {i \in 1..Len(q) : q[i].kind = "motion"}
           k == FirstMotion(q)
<1>1. k = IF I # {} THEN CHOOSE x \in I : \A y \in I : x <= y ELSE 0
    BY DEF FirstMotion, SelectInSeq, Min
<1>2. /\ MergeMotion(q, e) = IF k # 0 THEN [q EXCEPT ![k].by = Saturate(@ + e.by)]
                                ELSE Append(q, e)
      /\ Clipped(q, e) = IF k # 0 THEN Excess(q[k].by + e.by) ELSE 0
    BY DEF MergeMotion, Clipped
<1> HIDE DEF k
<1>3. CASE k # 0
    <2>1. I # {} /\ I \in SUBSET (1..Len(q)) /\ Len(q) \in Nat
        BY <1>1, <1>3
    <2>2. k \in I
        <3> HIDE DEF I
        <3>1. \E x \in I : \A y \in I : x <= y
            BY <2>1, HasFirst
        <3> QED BY <1>1, <2>1, <3>1
    <2>3. k \in 1..Len(q) /\ q[k].kind = "motion" /\ q[k] \in Event
        BY <2>2
    <2> DEFINE d == [q[k] EXCEPT !.by = Saturate(@ + e.by)]
    <2>4. /\ e.by \in Int /\ q[k].by \in Int
          /\ q[k] = [kind |-> "motion", by |-> q[k].by]
        BY <1>3, <2>3, EventForms
    <2> DEFINE n == Saturate(q[k].by + e.by)
               x == Excess(q[k].by + e.by)
    <2>5. n \in Delta /\ n \in Int /\ x \in Int /\ n + x = q[k].by + e.by
        <3>1. q[k].by + e.by \in Int
            BY <2>4
        <3> QED BY <3>1, SaturateParts
    <2>6. d.kind = "motion" /\ d.by = n /\ d \in Event
        <3>1. d = [kind |-> "motion", by |-> n]
            BY <2>4
        <3> HIDE DEF d, n
        <3> QED BY <2>5, <3>1 DEF Event
    <2>7. [q EXCEPT ![k].by = Saturate(@ + e.by)] = [q EXCEPT ![k] = d]
        OBVIOUS
    <2> HIDE DEF d, n, x
    <2>8. PartOf(d) = "motion" /\ PartOf(q[k]) = "motion" /\ PartOf(e) = "motion"
        BY <2>3, <2>6 DEF PartOf
    <2>9. Moved(d) + x = Moved(q[k]) + Moved(e)
        BY <2>3, <2>5, <2>6 DEF Moved
    <2>10. "motion" \notin Part
        BY DEF Part
    <2>11. Merged(q, e, [q EXCEPT ![k] = d], x)
        BY <2>3, <2>5, <2>6, <2>8, <2>9, <2>10, ReplaceMerges
    <2>12. Clipped(q, e) = x
        BY <1>2, <1>3 DEF x
    <2> QED BY <1>2, <1>3, <2>7, <2>11, <2>12
<1>4. CASE k = 0
    BY <1>2, <1>4, AppendMerges
<1> QED BY <1>3, <1>4

LEMMA TouchMerges ==
    ASSUME NEW q \in Seq(Event), NEW e \in Event, e.kind = "touch"
    PROVE  Merged(q, e, MergeTouch(q, e), 0)
<1> DEFINE I == {i \in 1..Len(q) : q[i].kind \in {"touch", "lift"}}
           k == SelectLastInSeq(q, LAMBDA p : p.kind \in {"touch", "lift"})
<1>1. k = IF I # {} THEN CHOOSE x \in I : \A y \in I : x >= y ELSE 0
    BY DEF SelectLastInSeq, Max
<1>2. MergeTouch(q, e) = IF k # 0 /\ q[k].kind = "touch" THEN [q EXCEPT ![k].at = e.at]
                         ELSE Append(q, e)
    BY DEF MergeTouch
<1> HIDE DEF k
<1>3. CASE k # 0 /\ q[k].kind = "touch"
    <2>1. I # {} /\ I \in SUBSET (1..Len(q)) /\ Len(q) \in Nat
        BY <1>1, <1>3
    <2>2. \E x \in I : \A y \in I : y <= x
        <3> HIDE DEF I
        <3> QED BY <2>1, HasLast
    <2>3. \E x \in I : \A y \in I : x >= y
        BY <2>2, <2>1
    <2>4. k \in I /\ \A y \in I : k >= y
        <3> HIDE DEF I
        <3> QED BY <1>1, <2>1, <2>3
    <2>5. k \in 1..Len(q) /\ q[k] \in Event
        BY <2>4
    <2>6. ASSUME NEW j \in 1..Len(q), k < j
          PROVE  PartOf(q[j]) # PartOf(e)
        <3>1. j \notin I
            BY <2>4, <2>5, <2>6
        <3>2. q[j].kind \notin {"touch", "lift"} /\ q[j] \in Event
            BY <3>1
        <3> QED BY <3>2, EventParts
    <2> DEFINE d == [q[k] EXCEPT !.at = e.at]
    <2>7. e.at \in Place /\ q[k] = [kind |-> "touch", at |-> q[k].at]
        BY <1>3, <2>5, EventForms
    <2>8. d = [kind |-> "touch", at |-> e.at]
        BY <2>7
    <2>9. d.kind = "touch" /\ d.at = e.at /\ d \in Event
        BY <2>7, <2>8 DEF Event
    <2>10. [q EXCEPT ![k].at = e.at] = [q EXCEPT ![k] = d]
        OBVIOUS
    <2> HIDE DEF d
    <2>11. /\ PartOf(d) = "finger" /\ PartOf(q[k]) = "finger" /\ PartOf(e) = "finger"
           /\ Leaves(d) = Leaves(e)
        BY <1>3, <2>9 DEF PartOf, Leaves
    <2>12. Moved(d) = 0 /\ Moved(q[k]) = 0 /\ Moved(e) = 0
        BY <1>3, <2>9 DEF Moved
    <2>13. Merged(q, e, [q EXCEPT ![k] = d], 0)
        BY <2>5, <2>6, <2>9, <2>11, <2>12, ReplaceMerges
    <2> QED BY <1>2, <1>3, <2>10, <2>13
<1>4. CASE ~(k # 0 /\ q[k].kind = "touch")
    BY <1>2, <1>4, AppendMerges
<1> QED BY <1>3, <1>4

LEMMA PadMerges ==
    ASSUME NEW q \in Seq(Event), NEW e \in Event, e.kind = "pad"
    PROVE  Merged(q, e, MergePad(q, e), 0)
<1>1. CASE q # <<>> /\ Last(q).kind = "pad"
    <2> DEFINE k == Len(q)
    <2>1. k \in 1..Len(q) /\ q[k] \in Event /\ q[k].kind = "pad"
        BY <1>1 DEF Last
    <2>2. \A j \in 1..Len(q) : ~(k < j)
        BY <2>1
    <2>3. MergePad(q, e) = [q EXCEPT ![k] = e]
        BY <1>1 DEF MergePad
    <2> HIDE DEF k
    <2>4. PartOf(q[k]) = "pad" /\ PartOf(e) = "pad" /\ Moved(q[k]) = 0 /\ Moved(e) = 0
        BY <2>1 DEF PartOf, Moved
    <2>5. Merged(q, e, [q EXCEPT ![k] = e], 0)
        BY <2>1, <2>2, <2>4, ReplaceMerges
    <2> QED BY <2>3, <2>5
<1>2. CASE ~(q # <<>> /\ Last(q).kind = "pad")
    BY <1>2, AppendMerges DEF MergePad
<1> QED BY <1>1, <1>2

\* Whatever the rule, the queue comes to say what the event says.
LEMMA CoalesceMerges ==
    ASSUME NEW q \in Seq(Event), NEW e \in Event
    PROVE  Merged(q, e, Coalesce(q, e), Clipped(q, e))
<1>1. CASE e.kind = "motion"
    BY <1>1, MotionMerges DEF Coalesce
<1>2. CASE e.kind = "touch"
    BY <1>2, TouchMerges DEF Coalesce, Clipped
<1>3. CASE e.kind = "pad"
    BY <1>3, PadMerges DEF Coalesce, Clipped
<1>4. CASE e.kind \notin {"motion", "touch", "pad"}
    <2>1. Coalesce(q, e) = Append(q, e)
        BY <1>4 DEF Coalesce
    <2> QED BY <2>1, <1>4, AppendMerges DEF Clipped
<1> QED BY <1>1, <1>2, <1>3, <1>4

----------------------------------------------------------------------------
\* What waits about a part ends with the seat's value, and what nothing waits
\* for is on the host: unless the part is excused, or its controller's unplugging
\* is on the way.
Latest ==
    \A p \in Part \ excused :
        \/ p = "pad" /\ unplugging
        \/ p \notin PartsOf(pending) /\ host[p] = seat[p]
        \/ Ends(pending, p, seat[p])

ThrottleInv == ThrottleTypeOK /\ MotionConserved /\ Latest

LEMMA ThrottleInitInv == ThrottleInit => ThrottleInv
<1> SUFFICES ASSUME ThrottleInit PROVE ThrottleInv
    OBVIOUS
<1>1. interval \in Spacing /\ since \in 0..Longest /\ flushIn \in 0..NoTimer
    <2>1. Effective(0) = Floor /\ Floor \in Spacing
        BY SpacingAssumption DEF Effective, Spacing
    <2>2. Longest \in Nat /\ NoTimer \in Nat
        BY LongestSpacing DEF NoTimer
    <2> QED BY <2>1, <2>2 DEF ThrottleInit
<1>2. pending \in Seq(Event) /\ Len(pending) <= MaxPending
    BY QueueAssumption DEF ThrottleInit
<1>3. seat \in Seat /\ host \in Seat /\ seat.motion = 0 /\ host = seat
    BY DEF ThrottleInit, Untouched, Seat
<1>4. unplugging \in BOOLEAN /\ left \in 0..MaxEvents /\ {evicted, clipped} \subseteq Int /\ excused \subseteq Part
    <2>1. MaxEvents \in 0..MaxEvents
        BY QueueAssumption
    <2>2. evicted = 0 /\ clipped = 0 /\ left = MaxEvents /\ unplugging = FALSE /\ excused = {}
        BY DEF ThrottleInit
    <2>3. {evicted, clipped} \subseteq Int /\ left \in 0..MaxEvents
        BY <2>1, <2>2
    <2>4. unplugging \in BOOLEAN /\ excused \subseteq Part
        BY <2>2
    <2> QED BY <2>3, <2>4
<1>5. MotionConserved
    <2>1. Motion(pending) = 0 /\ evicted = 0 /\ clipped = 0
        BY MotionEmpty DEF ThrottleInit
    <2> QED BY <2>1, <1>3 DEF MotionConserved
<1>6. Latest
    <2>1. \A p \in Part : p \notin PartsOf(pending)
        <3>1. \A i \in 1..Len(pending) : FALSE
            BY DEF ThrottleInit
        <3> QED BY <3>1, <1>2, PartAbsent
    <2> QED BY <2>1, <1>3 DEF Latest
<1> QED BY <1>1, <1>2, <1>3, <1>4, <1>5, <1>6 DEF ThrottleInv, ThrottleTypeOK

LEMMA ScheduleType ==
    ASSUME NEW t \in 0..NoTimer, NEW q, NEW elapsed \in 0..Longest, interval \in Spacing
    PROVE  Schedule(t, q, elapsed) \in 0..NoTimer
<1>1. interval \in Nat /\ interval <= Longest /\ Longest \in Nat /\ NoTimer = Longest + 1
    BY LongestSpacing DEF NoTimer
<1> QED BY <1>1 DEF Schedule

\* An event goes straight through.
LEMMA ThroughInv ==
    ASSUME ThrottleInv, NEW e \in Event, SendInput(e, Apply(seat, e)),
           host' = Apply(host, e), since' = 0, UNCHANGED <<pending, evicted, clipped>>,
           excused' = (excused \cup ({PartOf(e)} \cap PartsOf(pending) \cap Part))
                            \ Settled(host', Apply(seat, e), pending)
    PROVE  /\ since' \in 0..Longest /\ pending' \in Seq(Event) /\ Len(pending') <= MaxPending
           /\ seat' \in Seat /\ host' \in Seat /\ {evicted', clipped'} \subseteq Int /\ excused' \subseteq Part
           /\ MotionConserved' /\ Latest'
<1>1. seat' = Apply(seat, e) /\ unplugging' = unplugging
    BY DEF SendInput
<1>2. /\ seat \in Seat /\ host \in Seat /\ pending \in Seq(Event) /\ Len(pending) <= MaxPending
      /\ {evicted, clipped} \subseteq Int /\ excused \subseteq Part
    BY DEF ThrottleInv, ThrottleTypeOK
<1>3. /\ seat' \in Seat /\ seat'.motion = seat.motion + Moved(e)
      /\ \A p \in Part : seat'[p] = IF PartOf(e) = p THEN Leaves(e) ELSE seat[p]
    BY <1>1, <1>2, ApplyParts
<1>4. /\ host' \in Seat /\ host'.motion = host.motion + Moved(e)
      /\ \A p \in Part : host'[p] = IF PartOf(e) = p THEN Leaves(e) ELSE host[p]
    BY <1>2, ApplyParts
<1>5. MotionConserved'
    <2>1. /\ Moved(e) \in Int /\ host.motion \in Int /\ seat.motion \in Int
          /\ Motion(pending) \in Int /\ Motion(pending') = Motion(pending)
          /\ evicted' = evicted /\ clipped' = clipped
        <3>1. Moved(e) \in Int /\ Motion(pending) \in Int
            BY <1>2, EventParts, EventMoves, MotionInt
        <3>2. host.motion \in Int /\ seat.motion \in Int
            BY <1>2 DEF Seat
        <3> QED BY <3>1, <3>2
    <2>2. host.motion + Motion(pending) + evicted + clipped = seat.motion
        BY DEF ThrottleInv, MotionConserved
    <2>3. host'.motion + Motion(pending') + evicted' + clipped' = seat'.motion
        BY <2>1, <2>2, <1>2, <1>3, <1>4
    <2> QED BY <2>3 DEF MotionConserved
<1>6. Latest'
    <2> SUFFICES ASSUME NEW p \in Part \ excused'
                 PROVE  \/ p = "pad" /\ unplugging
                        \/ p \notin PartsOf(pending) /\ host'[p] = seat'[p]
                        \/ Ends(pending, p, seat'[p])
        BY <1>1 DEF Latest
    <2>1. CASE p \in Settled(host', Apply(seat, e), pending)
        BY <2>1, <1>1 DEF Settled
    <2>2. CASE p \notin Settled(host', Apply(seat, e), pending)
        <3>1. p \notin excused /\ ~(p = PartOf(e) /\ p \in PartsOf(pending))
            BY <2>2
        <3>2. CASE p = PartOf(e)
            BY <3>1, <3>2, <1>3, <1>4
        <3>3. CASE p # PartOf(e)
            <4>1. host'[p] = host[p] /\ seat'[p] = seat[p]
                BY <3>3, <1>3, <1>4
            <4> QED BY <4>1, <3>1 DEF ThrottleInv, Latest
        <3> QED BY <3>2, <3>3
    <2> QED BY <2>1, <2>2
<1>7. since' \in 0..Longest
    BY LongestSpacing
<1>8. pending' = pending /\ evicted' = evicted /\ clipped' = clipped /\ excused' \subseteq Part
    BY <1>2
<1> QED BY <1>2, <1>3, <1>4, <1>5, <1>6, <1>7, <1>8

\* An event is queued, and the oldest entry may have to go.
LEMMA QueuedInv ==
    ASSUME ThrottleInv, NEW e \in Event, SendInput(e, Apply(seat, e)),
           UNCHANGED <<since, host>>,
           NEW all, all = Coalesce(pending, e),
           IF Len(all) > MaxPending
           THEN /\ pending' = Tail(all) /\ evicted' = evicted + Moved(Head(all))
                /\ excused' = excused \cup ({PartOf(Head(all))} \cap Part)
           ELSE pending' = all /\ evicted' = evicted + 0 /\ excused' = excused \cup {},
           clipped' = clipped + Clipped(pending, e)
    PROVE  /\ since' \in 0..Longest /\ pending' \in Seq(Event) /\ Len(pending') <= MaxPending
           /\ seat' \in Seat /\ host' \in Seat /\ {evicted', clipped'} \subseteq Int /\ excused' \subseteq Part
           /\ MotionConserved' /\ Latest'
<1>1. seat' = Apply(seat, e) /\ unplugging' = unplugging
    BY DEF SendInput
<1>2. /\ seat \in Seat /\ host \in Seat /\ pending \in Seq(Event) /\ Len(pending) <= MaxPending
      /\ {evicted, clipped} \subseteq Int /\ excused \subseteq Part /\ since \in 0..Longest
    BY DEF ThrottleInv, ThrottleTypeOK
<1>3. /\ seat' \in Seat /\ seat'.motion = seat.motion + Moved(e)
      /\ \A p \in Part : seat'[p] = IF PartOf(e) = p THEN Leaves(e) ELSE seat[p]
    BY <1>1, <1>2, ApplyParts
<1> DEFINE x == Clipped(pending, e)
<1>4. Merged(pending, e, all, x)
    BY <1>2, CoalesceMerges
<1>5. all \in Seq(Event) /\ all # <<>> /\ Len(all) <= Len(pending) + 1
    BY <1>4 DEF Merged
<1>6. /\ Head(all) \in Event /\ Tail(all) \in Seq(Event) /\ Len(Tail(all)) = Len(all) - 1
      /\ \A p : p \notin PartsOf(all) => p \notin PartsOf(Tail(all)) /\ PartOf(Head(all)) # p
      /\ \A p, v : Ends(all, p, v) =>
            \/ Ends(Tail(all), p, v)
            \/ p \notin PartsOf(Tail(all)) /\ PartOf(Head(all)) = p /\ Leaves(Head(all)) = v
    BY <1>5, TailEnds
<1>7. /\ Motion(all) = Motion(pending) + Moved(e) - x /\ Moved(e) \in Int /\ x \in Int
      /\ Motion(pending) \in Int /\ Moved(Head(all)) \in Int /\ Motion(all) \in Int
      /\ Motion(Tail(all)) \in Int /\ Motion(all) = Moved(Head(all)) + Motion(Tail(all))
    <2>1. Motion(all) = Motion(pending) + Moved(e) - x /\ x \in Int /\ Motion(all) \in Int
        BY <1>4 DEF Merged
    <2>2. Moved(e) \in Int /\ Moved(Head(all)) \in Int /\ Motion(pending) \in Int
        BY <1>2, <1>6, EventParts, EventMoves, MotionInt
    <2>3. Motion(Tail(all)) \in Int /\ Motion(all) = Moved(Head(all)) + Motion(Tail(all))
        BY <1>5, EventMoves, MotionHead
    <2> QED BY <2>1, <2>2, <2>3
<1>8. Motion(pending') + evicted' = Motion(all) + evicted /\ evicted' \in Int
      /\ Motion(pending') \in Int
    <2>1. CASE Len(all) > MaxPending
        <3>1. /\ evicted' = evicted + Moved(Head(all))
              /\ Motion(pending') = Motion(Tail(all))
            BY <2>1
        <3>2. \A h, r, v \in Int : r + (v + h) = h + r + v
            OBVIOUS
        <3>3. Motion(pending') + evicted' = Motion(all) + evicted
            BY <3>1, <3>2, <1>2, <1>7
        <3> QED BY <3>1, <3>3, <1>2, <1>7
    <2>2. CASE ~(Len(all) > MaxPending)
        <3>1. pending' = all /\ evicted' = evicted + 0
            BY <2>2
        <3> QED BY <3>1, <1>2, <1>7
    <2> QED BY <2>1, <2>2
<1>9. MotionConserved' /\ clipped' \in Int
    <2>1. host'.motion = host.motion /\ host.motion \in Int /\ seat.motion \in Int
        BY <1>2 DEF Seat
    <2>2. host.motion + Motion(pending) + evicted + clipped = seat.motion
        BY DEF ThrottleInv, MotionConserved
    <2>3. clipped' = clipped + x
        OBVIOUS
    <2>4. \A h, m, v, c, w, d, k, y, a, z \in Int :
            /\ h + m + v + c = w /\ y + k = a + v /\ a = m + d - z
            => h + y + k + (c + z) = w + d
        OBVIOUS
    <2>5. host.motion + Motion(pending') + evicted' + (clipped + x) = seat.motion + Moved(e)
        <3> HIDE DEF x
        <3> DEFINE h == host.motion
                   w == seat.motion
                   m == Motion(pending)
                   y == Motion(pending')
                   k == evicted'
                   d == Moved(e)
                   a == Motion(all)
        <3>1. /\ h \in Int /\ evicted \in Int /\ w \in Int /\ d \in Int /\ k \in Int
              /\ m \in Int /\ y \in Int /\ a \in Int /\ x \in Int /\ clipped \in Int
              /\ h + m + evicted + clipped = w /\ y + k = a + evicted /\ a = m + d - x
            BY <1>2, <1>7, <1>8, <2>1, <2>2
        <3> HIDE DEF h, w, m, y, k, d, a
        <3>2. h + y + k + (clipped + x) = w + d
            BY <2>4, <3>1
        <3> QED BY <3>2 DEF h, w, y, k, d
    <2>6. host'.motion + Motion(pending') + evicted' + clipped' = seat'.motion
        BY <2>1, <2>3, <2>5, <1>3
    <2> QED BY <2>3, <2>6, <1>2, <1>7 DEF MotionConserved
<1>10. pending' \in Seq(Event) /\ Len(pending') <= MaxPending
    <2>1. CASE Len(all) > MaxPending
        <3>1. pending' = Tail(all)
            BY <2>1
        <3>2. Len(all) \in Nat /\ Len(pending) \in Nat /\ MaxPending \in Nat
            BY <1>2, <1>5, QueueAssumption
        <3>3. \A a, q, m \in Nat : a <= q + 1 /\ q <= m => a - 1 <= m
            OBVIOUS
        <3>4. Len(Tail(all)) <= MaxPending
            BY <3>2, <3>3, <1>2, <1>5, <1>6
        <3> QED BY <3>1, <3>4, <1>6
    <2>2. CASE ~(Len(all) > MaxPending)
        <3>1. pending' = all /\ Len(all) \in Nat
            BY <2>2, <1>5
        <3> QED BY <3>1, <2>2, <1>5, QueueAssumption
    <2> QED BY <2>1, <2>2
<1>11. ASSUME NEW p \in Part \ excused', ~(p = "pad" /\ unplugging)
       PROVE  \/ p \notin PartsOf(all) /\ host[p] = seat'[p]
              \/ Ends(all, p, seat'[p])
    <2>1. p \notin excused
        BY <1>11
    <2>2. CASE p = PartOf(e)
        <3>1. seat'[p] = Leaves(e)
            BY <2>2, <1>3
        <3> QED BY <2>2, <3>1, <1>4 DEF Merged
    <2>3. CASE p # PartOf(e)
        <3>1. seat'[p] = seat[p]
            BY <2>3, <1>3
        <3>2. (p \notin PartsOf(pending) /\ host[p] = seat[p]) \/ Ends(pending, p, seat[p])
            BY <2>1, <1>11 DEF ThrottleInv, Latest
        <3> QED BY <2>3, <3>1, <3>2, <1>4 DEF Merged
    <2> QED BY <2>2, <2>3
<1>12. Latest'
    <2> SUFFICES ASSUME NEW p \in Part \ excused', ~(p = "pad" /\ unplugging)
                 PROVE  \/ p \notin PartsOf(pending') /\ host'[p] = seat'[p]
                        \/ Ends(pending', p, seat'[p])
        BY <1>1 DEF Latest
    <2>1. CASE Len(all) > MaxPending
        <3>1. pending' = Tail(all) /\ PartOf(Head(all)) # p
            BY <2>1
        <3> QED BY <3>1, <1>6, <1>11
    <2>2. CASE ~(Len(all) > MaxPending)
        <3>1. pending' = all
            BY <2>2
        <3> QED BY <3>1, <1>11
    <2> QED BY <2>1, <2>2
<1>13. excused' \subseteq Part /\ since' \in 0..Longest /\ host' \in Seat
    BY <1>2
<1> QED BY <1>3, <1>8, <1>9, <1>10, <1>12, <1>13

LEMMA UserInv ==
    ASSUME ThrottleInv, NEW e \in Event, UserEvent(e)
    PROVE  ThrottleInv'
<1>1. SendInput(e, Apply(seat, e)) /\ left > 0 /\ left' = left - 1
    BY DEF UserEvent
<1>2. /\ since' \in 0..Longest /\ pending' \in Seq(Event) /\ Len(pending') <= MaxPending
      /\ seat' \in Seat /\ host' \in Seat /\ {evicted', clipped'} \subseteq Int /\ excused' \subseteq Part
      /\ MotionConserved' /\ Latest'
    <2> DEFINE all == Coalesce(pending, e)
    <2>1. \/ /\ host' = Apply(host, e) /\ since' = 0 /\ UNCHANGED <<pending, evicted, clipped>>
             /\ excused' = (excused \cup ({PartOf(e)} \cap PartsOf(pending) \cap Part))
                                \ Settled(host', Apply(seat, e), pending)
          \/ /\ UNCHANGED <<since, host>>
             /\ IF Len(all) > MaxPending
                THEN /\ pending' = Tail(all) /\ evicted' = evicted + Moved(Head(all))
                     /\ excused' = excused \cup ({PartOf(Head(all))} \cap Part)
                ELSE pending' = all /\ evicted' = evicted + 0 /\ excused' = excused \cup {}
             /\ clipped' = clipped + Clipped(pending, e)
        BY <1>1 DEF SendInput
    <2> QED
        <3> HIDE DEF all
        <3>1. all = Coalesce(pending, e)
            BY DEF all
        <3> QED BY <2>1, <3>1, <1>1, ThroughInv, QueuedInv
<1>3. /\ interval \in Spacing /\ flushIn \in 0..NoTimer /\ left \in 0..MaxEvents
      /\ unplugging \in BOOLEAN
    BY DEF ThrottleInv, ThrottleTypeOK
<1>4. flushIn' \in 0..NoTimer /\ interval' = interval /\ unplugging' = unplugging
    <2>1. flushIn' = Schedule(flushIn, pending', since')
        BY <1>1 DEF SendInput
    <2>2. Schedule(flushIn, pending', since') \in 0..NoTimer
        BY <1>2, <1>3, ScheduleType
    <2> QED BY <2>1, <2>2, <1>1 DEF SendInput
<1>5. left' \in 0..MaxEvents
    BY <1>1, <1>3, QueueAssumption
<1> QED BY <1>2, <1>3, <1>4, <1>5 DEF ThrottleInv, ThrottleTypeOK

LEMMA FlushInv ==
    ASSUME ThrottleInv, Flush
    PROVE  ThrottleInv'
<1>1. /\ interval \in Spacing /\ since \in 0..Longest /\ pending \in Seq(Event)
      /\ Len(pending) <= MaxPending /\ seat \in Seat /\ host \in Seat
      /\ unplugging \in BOOLEAN /\ left \in 0..MaxEvents /\ {evicted, clipped} \subseteq Int /\ excused \subseteq Part
    BY DEF ThrottleInv, ThrottleTypeOK
<1>2. /\ UNCHANGED <<interval, seat, unplugging, left, evicted, clipped>>
      /\ excused' = excused \ Settled(host', seat, pending')
      /\ flushIn' = Schedule(NoTimer, pending', since')
    BY DEF Flush
<1>3. /\ since' \in 0..Longest /\ pending' \in Seq(Event) /\ Len(pending') <= MaxPending
      /\ host' \in Seat /\ host'.motion + Motion(pending') = host.motion + Motion(pending)
      /\ \A p \in Part : \A v :
            (p \notin PartsOf(pending) /\ host[p] = v) \/ Ends(pending, p, v)
              => (p \notin PartsOf(pending') /\ host'[p] = v) \/ Ends(pending', p, v)
    <2>1. CASE Due /\ pending # <<>>
        <3>1. host' = Apply(host, Head(pending)) /\ pending' = Tail(pending) /\ since' = 0
            BY <2>1 DEF Flush
        <3>2. /\ Head(pending) \in Event /\ pending' \in Seq(Event)
              /\ Len(pending') = Len(pending) - 1
              /\ \A p : p \notin PartsOf(pending)
                    => p \notin PartsOf(pending') /\ PartOf(Head(pending)) # p
              /\ \A p, v : Ends(pending, p, v) =>
                    \/ Ends(pending', p, v)
                    \/ /\ p \notin PartsOf(pending')
                       /\ PartOf(Head(pending)) = p /\ Leaves(Head(pending)) = v
            BY <2>1, <3>1, <1>1, TailEnds
        <3>3. /\ host' \in Seat /\ host'.motion = host.motion + Moved(Head(pending))
              /\ \A p \in Part :
                    host'[p] = IF PartOf(Head(pending)) = p THEN Leaves(Head(pending)) ELSE host[p]
            BY <3>1, <3>2, <1>1, ApplyParts
        <3>4. /\ Motion(pending') \in Int /\ Moved(Head(pending)) \in Int
              /\ Motion(pending) = Moved(Head(pending)) + Motion(pending')
            BY <2>1, <3>1, <1>1, EventMoves, MotionHead
        <3>5. host.motion \in Int /\ Len(pending) \in Nat /\ Longest \in Nat /\ MaxPending \in Nat
            BY <1>1, LongestSpacing, QueueAssumption DEF Seat
        <3>6. since' \in 0..Longest /\ Len(pending') <= MaxPending
            BY <3>1, <3>2, <3>5, <1>1
        <3>7. host'.motion + Motion(pending') = host.motion + Motion(pending)
            BY <3>3, <3>4, <3>5
        <3>8. ASSUME NEW p \in Part, NEW v,
                     (p \notin PartsOf(pending) /\ host[p] = v) \/ Ends(pending, p, v)
              PROVE  (p \notin PartsOf(pending') /\ host'[p] = v) \/ Ends(pending', p, v)
            BY <3>2, <3>3, <3>8
        <3> QED BY <3>2, <3>3, <3>6, <3>7, <3>8
    <2>2. CASE ~(Due /\ pending # <<>>)
        <3>1. host' = host /\ pending' = pending /\ since' = since
            BY <2>2 DEF Flush
        <3> QED BY <3>1, <1>1
    <2> QED BY <2>1, <2>2
<1>4. flushIn' \in 0..NoTimer
    <2>1. NoTimer \in 0..NoTimer
        BY LongestSpacing DEF NoTimer
    <2>2. Schedule(NoTimer, pending', since') \in 0..NoTimer
        BY <2>1, <1>1, <1>3, ScheduleType
    <2> QED BY <2>2, <1>2
<1>5. MotionConserved'
    <2>1. host.motion + Motion(pending) + evicted + clipped = seat.motion
        BY DEF ThrottleInv, MotionConserved
    <2>2. host'.motion + Motion(pending') + evicted' + clipped' = seat'.motion
        BY <2>1, <1>2, <1>3
    <2> QED BY <2>2 DEF MotionConserved
<1>6. Latest'
    <2> SUFFICES ASSUME NEW p \in Part \ excused', ~(p = "pad" /\ unplugging)
                 PROVE  \/ p \notin PartsOf(pending') /\ host'[p] = seat[p]
                        \/ Ends(pending', p, seat[p])
        BY <1>2 DEF Latest
    <2>1. CASE p \in Settled(host', seat, pending')
        BY <2>1 DEF Settled
    <2>2. CASE p \notin Settled(host', seat, pending')
        <3>1. p \notin excused
            BY <2>2, <1>2
        <3>2. (p \notin PartsOf(pending) /\ host[p] = seat[p]) \/ Ends(pending, p, seat[p])
            BY <3>1 DEF ThrottleInv, Latest
        <3> QED BY <3>2, <1>3
    <2> QED BY <2>1, <2>2
<1>7. excused' \subseteq Part
    BY <1>1, <1>2
<1> QED BY <1>1, <1>2, <1>3, <1>4, <1>5, <1>6, <1>7 DEF ThrottleInv, ThrottleTypeOK

\* An unplugging sets out, and arrives or fails.
LEMMA UnplugInv ==
    ASSUME ThrottleInv, Unplug \/ Unplugged
    PROVE  ThrottleInv'
<1>1. /\ seat \in Seat /\ host \in Seat /\ excused \subseteq Part /\ left \in 0..MaxEvents
      /\ MaxEvents \in Nat
    BY QueueAssumption DEF ThrottleInv, ThrottleTypeOK
<1>2. CASE Unplug
    <2>1. /\ UNCHANGED <<interval, since, pending, flushIn, host, evicted, clipped, excused>>
          /\ unplugging' = TRUE /\ left > 0 /\ left' = left - 1
          /\ seat' = [seat EXCEPT !.pad = "none"]
        BY <1>2 DEF Unplug
    <2>2. /\ seat' \in Seat /\ seat'.motion = seat.motion
          /\ \A p \in Part : p # "pad" => seat'[p] = seat[p]
        BY <2>1, <1>1 DEF Seat, Part
    <2>3. left' \in 0..MaxEvents
        BY <2>1, <1>1
    <2>4. ThrottleTypeOK'
        BY <2>1, <2>2, <2>3 DEF ThrottleInv, ThrottleTypeOK
    <2>5. MotionConserved'
        BY <2>1, <2>2 DEF ThrottleInv, MotionConserved
    <2>6. Latest'
        <3> SUFFICES ASSUME NEW p \in Part \ excused, p # "pad"
                     PROVE  \/ p \notin PartsOf(pending) /\ host[p] = seat[p]
                            \/ Ends(pending, p, seat[p])
            BY <2>1, <2>2 DEF Latest
        <3> QED BY DEF ThrottleInv, Latest
    <2> QED BY <2>4, <2>5, <2>6 DEF ThrottleInv
<1>3. CASE Unplugged
    <2>1. /\ UNCHANGED <<interval, since, pending, flushIn, seat, left, evicted, clipped>>
          /\ unplugging' = FALSE
          /\ host' = [host EXCEPT !.pad = "none"] \/ host' = host
          /\ excused' = (excused \cup {"pad"}) \ Settled(host', seat, pending)
        BY <1>3 DEF Unplugged
    <2>2. /\ host' \in Seat /\ host'.motion = host.motion
          /\ \A p \in Part : p # "pad" => host'[p] = host[p]
        BY <2>1, <1>1 DEF Seat, Part
    <2>3. excused' \subseteq Part
        BY <2>1, <1>1 DEF Part
    <2>4. ThrottleTypeOK'
        BY <2>1, <2>2, <2>3 DEF ThrottleInv, ThrottleTypeOK
    <2>5. MotionConserved'
        BY <2>1, <2>2 DEF ThrottleInv, MotionConserved
    <2>6. Latest'
        <3> SUFFICES ASSUME NEW p \in Part \ excused'
                     PROVE  \/ p \notin PartsOf(pending) /\ host'[p] = seat[p]
                            \/ Ends(pending, p, seat[p])
            BY <2>1 DEF Latest
        <3>1. CASE p \in Settled(host', seat, pending)
            BY <3>1 DEF Settled
        <3>2. CASE p \notin Settled(host', seat, pending)
            <4>1. p \notin excused /\ p # "pad"
                BY <3>2, <2>1
            <4> QED BY <4>1, <2>2 DEF ThrottleInv, Latest
        <3> QED BY <3>1, <3>2
    <2> QED BY <2>4, <2>5, <2>6 DEF ThrottleInv
<1> QED BY <1>2, <1>3

\* Time and the spacing touch nothing that is said.
LEMMA ClockInv ==
    ASSUME ThrottleInv, SetThrottle \/ Elapse \/ UNCHANGED throttleVars
    PROVE  ThrottleInv'
<1>1. UNCHANGED <<pending, seat, host, unplugging, left, evicted, clipped, excused>>
    BY DEF SetThrottle, Elapse, throttleVars
<1>2. interval' \in Spacing /\ since' \in 0..Longest /\ flushIn' \in 0..NoTimer
    <2>1. /\ interval \in Spacing /\ since \in 0..Longest /\ flushIn \in 0..NoTimer
          /\ Longest \in Nat /\ NoTimer = Longest + 1
        BY LongestSpacing DEF ThrottleInv, ThrottleTypeOK, NoTimer
    <2>2. CASE SetThrottle
        BY <2>1, <2>2 DEF SetThrottle, Spacing
    <2>3. CASE Elapse
        BY <2>1, <2>3 DEF Elapse
    <2>4. CASE UNCHANGED throttleVars
        BY <2>1, <2>4 DEF throttleVars
    <2> QED BY <2>2, <2>3, <2>4
<1>3. ThrottleTypeOK'
    BY <1>1, <1>2 DEF ThrottleInv, ThrottleTypeOK
<1>4. MotionConserved' /\ Latest'
    BY <1>1 DEF ThrottleInv, MotionConserved, Latest
<1> QED BY <1>3, <1>4 DEF ThrottleInv

LEMMA ThrottleNextInv == ThrottleInv /\ [ThrottleNext]_throttleVars => ThrottleInv'
<1> SUFFICES ASSUME ThrottleInv, [ThrottleNext]_throttleVars PROVE ThrottleInv'
    OBVIOUS
<1>1. seat \in Seat
    BY DEF ThrottleInv, ThrottleTypeOK
<1>2. CASE MoveMouse
    BY <1>2, UserInv, DeltaAssumption DEF MoveMouse, Event
<1>3. CASE PressButton
    BY <1>3, <1>1, UserInv DEF PressButton, Event, Seat
<1>4. CASE MoveFinger
    BY <1>4, UserInv DEF MoveFinger, Event
<1>5. CASE LiftFinger
    BY <1>5, UserInv DEF LiftFinger, Event
<1>6. CASE PollPad
    <2>1. [kind |-> "pad", pressed |-> seat.pad = "idle"] \in Event
        BY DEF Event
    <2> QED BY <1>6, <2>1, UserInv DEF PollPad
<1>7. CASE Unplug \/ Unplugged
    BY <1>7, UnplugInv
<1>8. CASE Flush
    BY <1>8, FlushInv
<1>9. CASE SetThrottle \/ Elapse \/ UNCHANGED throttleVars
    BY <1>9, ClockInv
<1> QED BY <1>2, <1>3, <1>4, <1>5, <1>6, <1>7, <1>8, <1>9 DEF ThrottleNext

LEMMA ThrottleInductive == ThrottleSpec => []ThrottleInv
BY ThrottleInitInv, ThrottleNextInv, PTL DEF ThrottleSpec

\* The throttle's state is well typed, and its queue within MAX_PENDING.
THEOREM ThrottleTyped == ThrottleSpec => []ThrottleTypeOK
<1>1. ThrottleInv => ThrottleTypeOK
    BY DEF ThrottleInv
<1> QED BY <1>1, ThrottleInductive, PTL

\* For any spacings, any queue and any use: coalesce_input, flush_pending and
\* writing through lose no motion but what MAX_PENDING evicts and what a sum of two i16 clips, and
\* count none twice.
THEOREM ThrottleKeepsMotion == ThrottleSpec => []MotionConserved
<1>1. ThrottleInv => MotionConserved
    BY DEF ThrottleInv
<1> QED BY <1>1, ThrottleInductive, PTL

\* For any spacings, any queue and any use: a part of the seat nothing waits for
\* is on the host as it is at the page, but for the three ways round
\* the queue and an unplugging that could not be sent.
THEOREM HostFollowsSeat == ThrottleSpec => []SeatTruthful
<1>1. ThrottleInv => SeatTruthful
    <2> SUFFICES ASSUME ThrottleInv, NEW p \in Part \ (PartsOf(pending) \cup excused)
                 PROVE  (p = "pad" /\ unplugging) \/ host[p] = seat[p]
        BY DEF SeatTruthful
    <2>1. pending \in Seq(Event)
        BY DEF ThrottleInv, ThrottleTypeOK
    <2>2. ~Ends(pending, p, seat[p])
        BY <2>1, EndsPresent
    <2> QED BY <2>2 DEF ThrottleInv, Latest
<1> QED BY <1>1, ThrottleInductive, PTL

----------------------------------------------------------------------------
\* Page.

\* Which steps touch what.
LEMMA StreamSteps ==
    PageNext =>
        \/ moq' = moq
        \/ AcceptStream \/ Classify \/ PollRead \/ MoqOpens
<1> SUFFICES ASSUME PageNext
             PROVE  moq' = moq \/ AcceptStream \/ Classify \/ PollRead \/ MoqOpens
    OBVIOUS
<1>1. CASE Start
    BY <1>1 DEF Start, Connect, SetUp, InitialResize, Attach
<1>2. CASE RunMoq
    BY <1>2 DEF RunMoq, Handshake, Announcement, AnnouncementsEnd, RequestBroadcast,
                TakeWord, TakeLevel, SessionEnds
<1>3. CASE Pumps
    BY <1>3 DEF Pumps, DrainTask, Drain, ReceiveDatagram, PumpEnds
<1>4. CASE DriverEnds \/ Die
    BY <1>4 DEF DriverEnds, Die
<1>5. CASE Audio
    BY <1>5 DEF Audio, AudioState, Gesture, Prepare, Pause
<1>6. CASE Server
    BY <1>6 DEF Server, AudioReady, SinkStarts, HostVolume, SendAudioLevel, WordSent
<1> QED BY <1>1, <1>2, <1>3, <1>4, <1>5, <1>6 DEF PageNext

LEMMA SplitParts ==
    ASSUME NEW S, NEW s \in Seq(S), NEW n \in 0..Len(s)
    PROVE  /\ SubSeq(s, 1, n) \in Seq(S) /\ SubSeq(s, n + 1, Len(s)) \in Seq(S)
           /\ s = SubSeq(s, 1, n) \o SubSeq(s, n + 1, Len(s))
<1>1. /\ Len(s) \in Nat /\ \A i \in 1..Len(s) : s[i] \in S
    OBVIOUS
<1>2. SubSeq(s, 1, n) \in Seq(S)
    BY <1>1, SubSeqProperties
<1>3. SubSeq(s, n + 1, Len(s)) \in Seq(S)
    <2>1. n + 1 \in 1..Len(s) + 1 /\ \A i \in n + 1..Len(s) : s[i] \in S
        BY <1>1
    <2> QED BY <2>1, <1>1, SubSeqProperties
<1>4. SubSeq(s, 1, Len(s)) = s
    BY SubSeqFull
<1>5. 1 \in 1..Len(s) + 1 /\ n \in 1 - 1..Len(s) /\ Len(s) \in n..Len(s)
    OBVIOUS
<1>6. SubSeq(s, 1, n) \o SubSeq(s, n + 1, Len(s)) = SubSeq(s, 1, Len(s))
    BY <1>5, ConcatAdjacentSubSeq
<1>7. s = SubSeq(s, 1, n) \o SubSeq(s, n + 1, Len(s))
    BY <1>4, <1>6, Zenon
<1> QED BY <1>2, <1>3, <1>7

----------------------------------------------------------------------------
\* What the first chunks of MoQ's stream amount to.

Joined(f, n) ==
    /\ f \in [0..n -> Seq(Byte)]
    /\ f[0] = <<>>
    /\ \A i \in 1..n : f[i] = f[i - 1] \o Chunks[i]

LEMMA ChunkParts ==
    /\ Len(Chunks) \in Nat \ {0}
    /\ \A i \in 1..Len(Chunks) : Chunks[i] \in Seq(Byte)
BY ChunkAssumption

LEMMA JoinedExist == \E f : Joined(f, Len(Chunks))
<1> DEFINE N == Len(Chunks)
           P == {n \in Nat : n <= N => \E f : Joined(f, n)}
<1>1. N \in Nat /\ \A i \in 1..N : Chunks[i] \in Seq(Byte)
    BY ChunkParts
<1> HIDE DEF N
<1>2. 0 \in P
    <2>1. Joined([i \in 0..0 |-> <<>>], 0)
        BY DEF Joined
    <2> QED BY <2>1
<1>3. ASSUME NEW n \in P
      PROVE  n + 1 \in P
    <2>1. CASE n + 1 <= N
        <3>1. n \in Nat /\ n <= N
            BY <2>1, <1>1
        <3>2. PICK f : Joined(f, n)
            BY <3>1
        <3> DEFINE g == [i \in 0..n + 1 |-> IF i = n + 1 THEN f[n] \o Chunks[n + 1] ELSE f[i]]
        <3>3. n + 1 \in 1..N /\ Chunks[n + 1] \in Seq(Byte) /\ f[n] \in Seq(Byte)
            BY <3>1, <3>2, <2>1, <1>1 DEF Joined
        <3>4. g \in [0..n + 1 -> Seq(Byte)] /\ g[0] = <<>>
            <4>1. f[n] \o Chunks[n + 1] \in Seq(Byte)
                BY <3>3, ConcatProperties
            <4> QED BY <4>1, <3>1, <3>2 DEF Joined
        <3>5. ASSUME NEW i \in 1..n + 1
              PROVE  g[i] = g[i - 1] \o Chunks[i]
            <4>1. CASE i = n + 1
                <5>1. i - 1 = n /\ n \in 0..n + 1 /\ n # n + 1
                    BY <4>1, <3>1
                <5> QED BY <4>1, <5>1
            <4>2. CASE i # n + 1
                <5>1. i \in 1..n /\ i - 1 \in 0..n + 1 /\ i - 1 # n + 1 /\ i \in 0..n + 1
                    BY <4>2, <3>1
                <5> QED BY <4>2, <5>1, <3>2 DEF Joined
            <4> QED BY <4>1, <4>2
        <3> HIDE DEF g
        <3>6. Joined(g, n + 1)
            BY <3>4, <3>5 DEF Joined
        <3> QED BY <3>1, <3>6
    <2>2. CASE ~(n + 1 <= N)
        BY <2>2
    <2> QED BY <2>1, <2>2
<1>4. P = Nat
    <2>1. P \in SUBSET Nat
        OBVIOUS
    <2> HIDE DEF P
    <2> QED BY <2>1, <1>2, <1>3, Induction
<1>5. N \in P
    BY <1>1, <1>4
<1>6. \E f : Joined(f, N)
    BY <1>1, <1>5
<1> QED BY <1>6 DEF N

SoFar == CHOOSE f : Joined(f, Len(Chunks))

LEMMA SoFarJoins ==
    /\ Joined(SoFar, Len(Chunks)) /\ SoFar[0] = <<>>
    /\ \A i \in 1..Len(Chunks), j \in 0..Len(Chunks) :
            i = j + 1 => SoFar[i] = SoFar[j] \o Chunks[i] /\ SoFar[j] \in Seq(Byte)
<1>1. Joined(SoFar, Len(Chunks))
    BY JoinedExist DEF SoFar
<1>2. ASSUME NEW i \in 1..Len(Chunks), NEW j \in 0..Len(Chunks), i = j + 1
      PROVE  SoFar[i] = SoFar[j] \o Chunks[i] /\ SoFar[j] \in Seq(Byte)
    <2>1. j = i - 1
        BY <1>2
    <2> QED BY <2>1, <1>1 DEF Joined
<1> QED BY <1>1, <1>2 DEF Joined

\* FlattenSeq is the last of them.
LEMMA FlattenIsLast == FlattenSeq(Chunks) = SoFar[Len(Chunks)]
<1> DEFINE n == Len(Chunks)
           step(g) == [i \in 1..n |-> IF i = 1 THEN Chunks[i] ELSE g[i - 1] \o Chunks[i]]
           flatten == CHOOSE g : g = step(g)
           h == [i \in 1..n |-> SoFar[i]]
<1>1. n \in Nat \ {0} /\ \A i \in 1..n : Chunks[i] \in Seq(Byte)
    BY ChunkParts
<1>2. /\ SoFar[0] = <<>>
      /\ \A i \in 1..n, j \in 0..n : i = j + 1 => SoFar[i] = SoFar[j] \o Chunks[i]
    BY SoFarJoins
<1>3. h = step(h)
    <2>1. ASSUME NEW i \in 1..n
          PROVE  h[i] = IF i = 1 THEN Chunks[i] ELSE h[i - 1] \o Chunks[i]
        <3>1. CASE i = 1
            <4>1. 0 \in 0..n /\ 1 \in 1..n /\ 1 = 0 + 1
                BY <1>1
            <4>2. SoFar[1] = <<>> \o Chunks[1] /\ Chunks[1] \in Seq(Byte)
                BY <4>1, <1>1, <1>2
            <4>3. <<>> \o Chunks[1] = Chunks[1]
                BY <4>2, ConcatEmptySeq
            <4> QED BY <3>1, <4>1, <4>2, <4>3
        <3>2. CASE i # 1
            <4>1. i - 1 \in 1..n /\ i - 1 \in 0..n /\ i = i - 1 + 1
                BY <3>2, <1>1
            <4> QED BY <3>2, <4>1, <1>2
        <3> QED BY <3>1, <3>2
    <2> QED BY <2>1
<1>4. flatten = step(flatten)
    <2> HIDE DEF h, step
    <2> QED BY <1>3
<1>5. FlattenSeq(Chunks) = flatten[n]
    BY <1>1 DEF FlattenSeq
<1> HIDE DEF flatten
<1>6. /\ flatten[1] = Chunks[1]
      /\ \A i, j \in 1..n : i = j + 1 => flatten[i] = flatten[j] \o Chunks[i]
    <2>1. \A i \in 1..n : flatten[i] = IF i = 1 THEN Chunks[i] ELSE flatten[i - 1] \o Chunks[i]
        BY <1>4
    <2>2. \A i, j \in 1..n : i = j + 1 => j = i - 1 /\ i # 1
        BY <1>1
    <2>3. 1 \in 1..n
        BY <1>1
    <2> QED BY <2>1, <2>2, <2>3
<1> HIDE DEF n
<1> DEFINE P == {i \in Nat : i + 1 <= n => flatten[i + 1] = SoFar[i + 1]}
<1>7. 0 \in P
    <2>1. 1 \in 1..n /\ 0 \in 0..n /\ 0 + 1 = 1
        BY <1>1
    <2>2. <<>> \o Chunks[1] = Chunks[1]
        BY <2>1, <1>1, ConcatEmptySeq
    <2>3. flatten[1] = Chunks[1] /\ SoFar[1] = <<>> \o Chunks[1]
        BY <2>1, <1>2, <1>6
    <2> QED BY <2>1, <2>2, <2>3
<1>8. ASSUME NEW i \in P
      PROVE  i + 1 \in P
    <2>1. CASE i + 1 + 1 <= n
        <3>1. i \in Nat /\ i + 1 <= n
            BY <2>1, <1>1
        <3>2. flatten[i + 1] = SoFar[i + 1]
            BY <3>1
        <3>3. PICK j \in 1..n : j = i + 1
            BY <3>1
        <3>4. PICK m \in 1..n : m = j + 1
            BY <2>1, <3>1, <3>3
        <3>5. j \in 0..n
            BY <3>3
        <3>6. flatten[m] = flatten[j] \o Chunks[m] /\ SoFar[m] = SoFar[j] \o Chunks[m]
            BY <3>4, <3>5, <1>2, <1>6
        <3>7. flatten[m] = SoFar[m] /\ m = i + 1 + 1
            BY <3>2, <3>3, <3>4, <3>6
        <3> QED BY <3>1, <3>7
    <2>2. CASE ~(i + 1 + 1 <= n)
        BY <2>2
    <2> QED BY <2>1, <2>2
<1>9. P = Nat
    <2>1. P \in SUBSET Nat
        OBVIOUS
    <2> HIDE DEF P
    <2> QED BY <2>1, <1>7, <1>8, Induction
<1>10. n - 1 \in Nat /\ n - 1 + 1 = n /\ n <= n
    BY <1>1
<1>11. flatten[n] = SoFar[n]
    <2>1. n - 1 \in P
        BY <1>9, <1>10
    <2> QED BY <2>1, <1>10
<1> QED BY <1>5, <1>11 DEF n

LEMMA ConcatThrice ==
    \A s, t, u \in Seq(Byte) : (s \o t) \o u = s \o (t \o u)
BY ConcatAssociative

\* What the first chunks amount to begins what all of them do.
LEMMA SoFarBegins ==
    ASSUME NEW k \in 0..Len(Chunks)
    PROVE  \E t \in Seq(Byte) : SoFar[Len(Chunks)] = SoFar[k] \o t
<1> DEFINE n == Len(Chunks)
           P == {j \in Nat : k + j <= n => \E t \in Seq(Byte) : SoFar[k + j] = SoFar[k] \o t}
<1>1. n \in Nat \ {0} /\ k \in 0..n /\ \A i \in 1..n : Chunks[i] \in Seq(Byte)
    BY ChunkParts
<1>2. /\ SoFar \in [0..n -> Seq(Byte)]
      /\ \A i \in 1..n, j \in 0..n : i = j + 1 => SoFar[i] = SoFar[j] \o Chunks[i]
    BY SoFarJoins DEF Joined
<1> HIDE DEF n
<1>3. 0 \in P
    <2>1. SoFar[k] \in Seq(Byte) /\ k + 0 = k /\ <<>> \in Seq(Byte)
        BY <1>1, <1>2
    <2>2. SoFar[k] \o <<>> = SoFar[k]
        BY <2>1, ConcatEmptySeq
    <2> QED BY <2>1, <2>2
<1>4. ASSUME NEW j \in P
      PROVE  j + 1 \in P
    <2>1. CASE k + (j + 1) <= n
        <3>1. j \in Nat /\ k + j <= n
            BY <2>1, <1>1
        <3>2. PICK t \in Seq(Byte) : SoFar[k + j] = SoFar[k] \o t
            BY <3>1
        <3>3. PICK a \in 0..n : a = k + j
            BY <3>1, <1>1
        <3>4. PICK b \in 1..n : b = a + 1 /\ b = k + (j + 1)
            BY <2>1, <3>1, <3>3, <1>1
        <3> DEFINE c == Chunks[b]
        <3>5. SoFar[b] = (SoFar[k] \o t) \o c
            BY <3>2, <3>3, <3>4, <1>2
        <3>6. c \in Seq(Byte) /\ SoFar[k] \in Seq(Byte)
            BY <1>1, <1>2
        <3> HIDE DEF c
        <3>7. PICK s \in Seq(Byte) : s = SoFar[k]
            BY <3>6
        <3>8. (s \o t) \o c = s \o (t \o c)
            BY <3>2, <3>6, <3>7, ConcatThrice, Zenon
        <3>9. t \o c \in Seq(Byte)
            BY <3>2, <3>6, ConcatProperties
        <3>10. SoFar[b] = s \o (t \o c)
            BY <3>5, <3>7, <3>8
        <3>11. \E u \in Seq(Byte) : SoFar[k + (j + 1)] = SoFar[k] \o u
            <4> DEFINE u == t \o c
            <4>1. u \in Seq(Byte) /\ SoFar[k + (j + 1)] = SoFar[k] \o u
                BY <3>4, <3>7, <3>9, <3>10
            <4> HIDE DEF u
            <4> QED BY <4>1
        <3>12. j + 1 \in Nat
            BY <3>1
        <3> QED BY <3>11, <3>12, Zenon
    <2>2. CASE ~(k + (j + 1) <= n)
        BY <2>2
    <2> QED BY <2>1, <2>2
<1>5. P = Nat
    <2>1. P \in SUBSET Nat
        OBVIOUS
    <2> HIDE DEF P
    <2> QED BY <2>1, <1>3, <1>4, Induction
<1>6. n - k \in Nat /\ k + (n - k) = n /\ n <= n
    BY <1>1
<1>7. \E t \in Seq(Byte) : SoFar[n] = SoFar[k] \o t
    <2>1. n - k \in P
        BY <1>5, <1>6
    <2> QED BY <2>1, <1>6
<1> QED BY <1>7 DEF n

LEMMA ConcatPrefix ==
    ASSUME NEW S, NEW s \in Seq(S), NEW t \in Seq(S)
    PROVE  IsPrefix(s, s \o t)
<1> DEFINE c == s \o t
           n == Len(s)
<1>1. /\ c \in Seq(S) /\ Len(c) = n + Len(t) /\ n \in Nat /\ Len(t) \in Nat
      /\ \A i \in 1..n : i \in 1..Len(c) /\ c[i] = s[i]
    BY ConcatParts
<1> HIDE DEF c, n
<1>2. \A i \in 1..n : c[i] \in S /\ s[i] \in S
    BY <1>1 DEF n
<1>3. /\ SubSeq(c, 1, n) \in Seq(S) /\ SubSeq(s, 1, n) \in Seq(S)
      /\ Len(SubSeq(c, 1, n)) = n /\ Len(SubSeq(s, 1, n)) = n
      /\ \A i \in 1..n : SubSeq(c, 1, n)[i] = c[i] /\ SubSeq(s, 1, n)[i] = s[i]
    <2>1. /\ SubSeq(c, 1, n) \in Seq(S)
          /\ Len(SubSeq(c, 1, n)) = IF 1 <= n THEN n - 1 + 1 ELSE 0
          /\ \A i \in 1..n - 1 + 1 : SubSeq(c, 1, n)[i] = c[1 + i - 1]
        BY <1>1, <1>2, SubSeqProperties
    <2>2. /\ SubSeq(s, 1, n) \in Seq(S)
          /\ Len(SubSeq(s, 1, n)) = IF 1 <= n THEN n - 1 + 1 ELSE 0
          /\ \A i \in 1..n - 1 + 1 : SubSeq(s, 1, n)[i] = s[1 + i - 1]
        BY <1>1, <1>2, SubSeqProperties
    <2>3. \A i \in 1..n : i \in 1..n - 1 + 1 /\ 1 + i - 1 = i
        BY <1>1
    <2> QED BY <2>1, <2>2, <2>3, <1>1
<1>4. SubSeq(s, 1, n) = SubSeq(c, 1, n)
    BY <1>1, <1>3, SeqEqual
<1>5. n <= Len(c)
    BY <1>1
<1> QED BY <1>4, <1>5 DEF IsPrefix, c, n

----------------------------------------------------------------------------
\* MoQ's stream.  Of its first k chunks all has been read or waits in the burst,
\* and the others are still to come.

MoqTyped ==
    moq \in [at : {"unsent", "wire", "classifying", "inbox", "ended", "gone"},
             left : Seq(Seq(Byte)), burst : Seq(Byte), got : Seq(Byte)]

Remains(k) ==
    /\ Len(moq.left) = Len(Chunks) - k
    /\ \A i \in 1..Len(moq.left), j \in 1..Len(Chunks) : j = k + i => moq.left[i] = Chunks[j]
    /\ moq.got \o moq.burst = SoFar[k]

StreamInv ==
    /\ MoqTyped
    /\ moq.at \in {"unsent", "wire", "classifying"} =>
            moq.left = Chunks /\ moq.burst = <<>> /\ moq.got = <<>>
    /\ moq.at = "ended" => moq.left = <<>> /\ moq.burst = <<>>
    /\ \E k \in 0..Len(Chunks) : Remains(k)

\* What a caller takes and what it leaves make up the burst.
LEMMA BurstSplits ==
    ASSUME NEW g \in Seq(Byte), NEW b \in Seq(Byte)
    PROVE  /\ g \o SubSeq(b, 1, Room(b)) \in Seq(Byte)
           /\ DrainBurst(b) \in Seq(Byte)
           /\ (g \o SubSeq(b, 1, Room(b))) \o DrainBurst(b) = g \o b
<1> DEFINE r == Room(b)
           t == SubSeq(b, 1, r)
           u == DrainBurst(b)
<1>1. r \in 0..Len(b)
    BY CapAssumption DEF Room
<1>2. t \in Seq(Byte) /\ u \in Seq(Byte) /\ b = t \o u
    BY <1>1, SplitParts DEF DrainBurst
<1>3. g \o t \in Seq(Byte)
    <2> HIDE DEF t
    <2> QED BY <1>2, ConcatProperties
<1>4. (g \o t) \o u = g \o (t \o u)
    <2> HIDE DEF t, u
    <2> QED BY <1>2, ConcatThrice, Zenon
<1>5. (g \o t) \o u = g \o b
    <2> HIDE DEF t, u
    <2> QED BY <1>2, <1>4
<1> QED BY <1>2, <1>3, <1>5

LEMMA StreamBegins == PageInit => StreamInv
<1> SUFFICES ASSUME PageInit PROVE StreamInv
    OBVIOUS
<1>1. moq = [at |-> "unsent", left |-> Chunks, burst |-> <<>>, got |-> <<>>]
    BY DEF PageInit
<1>2. MoqTyped
    BY <1>1, ChunkAssumption DEF MoqTyped
<1>3. Remains(0)
    <2>1. moq.got \o moq.burst = SoFar[0]
        <3>1. <<>> \in Seq(Byte)
            OBVIOUS
        <3>2. <<>> \o <<>> = <<>>
            BY <3>1, ConcatEmptySeq
        <3> QED BY <1>1, <3>2, SoFarJoins
    <2> QED BY <1>1, <2>1, ChunkParts DEF Remains
<1>4. 0 \in 0..Len(Chunks)
    BY ChunkParts
<1> QED BY <1>1, <1>2, <1>3, <1>4 DEF StreamInv

\* One more chunk has come: the part g of it and what precedes it was taken, and
\* u is left in the burst.
LEMMA ChunkComes ==
    ASSUME StreamInv, NEW k \in 0..Len(Chunks), Remains(k),
           moq.left # <<>>, moq.burst = <<>>
    PROVE  /\ k + 1 \in 1..Len(Chunks)
           /\ Head(moq.left) \in Seq(Byte) /\ Tail(moq.left) \in Seq(Seq(Byte))
           /\ Len(Tail(moq.left)) = Len(Chunks) - (k + 1)
           /\ \A i \in 1..Len(Tail(moq.left)), j \in 1..Len(Chunks) :
                    j = k + 1 + i => Tail(moq.left)[i] = Chunks[j]
           /\ moq.got \o Head(moq.left) = SoFar[k + 1]
<1> DEFINE l == moq.left
           n == Len(Chunks)
<1>1. /\ l \in Seq(Seq(Byte)) /\ moq.got \in Seq(Byte) /\ n \in Nat /\ l # <<>>
      /\ Len(l) = n - k
      /\ \A i \in 1..Len(l), j \in 1..n : j = k + i => l[i] = Chunks[j]
    BY ChunkParts DEF StreamInv, MoqTyped, Remains
<1>2. moq.got = SoFar[k]
    <2>1. moq.got \o <<>> = moq.got
        BY <1>1, ConcatEmptySeq
    <2> QED BY <2>1 DEF Remains
<1> HIDE DEF l
<1>3. Len(l) \in Nat \ {0} /\ Head(l) = l[1] /\ l[1] \in Seq(Byte)
    BY <1>1
<1>4. /\ Tail(l) \in Seq(Seq(Byte)) /\ Len(Tail(l)) = Len(l) - 1
      /\ \A i \in 1..Len(l) - 1 : Tail(l)[i] = l[i + 1]
    BY <1>1, HeadTailProperties
<1> HIDE DEF n
<1>5. PICK m \in 1..n : m = k + 1
    BY <1>1, <1>3 DEF n
<1>6. k \in 0..n
    BY DEF n
<1>7. moq.got \o Head(l) = SoFar[m]
    <2>1. l[1] = Chunks[m]
        BY <1>1, <1>3, <1>5
    <2>2. SoFar[m] = SoFar[k] \o Chunks[m]
        BY <1>5, <1>6, SoFarJoins DEF n
    <2> QED BY <1>2, <1>3, <2>1, <2>2
<1>8. ASSUME NEW i \in 1..Len(Tail(l)), NEW j \in 1..n, j = k + 1 + i
      PROVE  Tail(l)[i] = Chunks[j]
    <2>1. i \in 1..Len(l) - 1 /\ i + 1 \in 1..Len(l) /\ j = k + (i + 1)
        BY <1>1, <1>3, <1>4, <1>6, <1>8
    <2> QED BY <2>1, <1>1, <1>4
<1>9. Len(Tail(l)) = n - (k + 1)
    BY <1>1, <1>3, <1>4, <1>6
<1>10. k + 1 \in 1..n /\ SoFar[m] = SoFar[k + 1]
    BY <1>5
<1> QED BY <1>3, <1>4, <1>7, <1>8, <1>9, <1>10 DEF l, n

LEMMA StreamGoesOn ==
    StreamInv /\ [PageNext]_pageVars => StreamInv'
<1> SUFFICES ASSUME StreamInv, PageNext \/ moq' = moq
             PROVE  StreamInv'
    BY DEF pageVars
<1>1. MoqTyped
    BY DEF StreamInv
<1>2. PICK k \in 0..Len(Chunks) : Remains(k)
    BY DEF StreamInv
<1>3. CASE moq' = moq
    BY <1>3 DEF StreamInv, MoqTyped, Remains
<1>4. CASE AcceptStream \/ MoqOpens
    <2>1. moq' = moq \/ (/\ moq.at \in {"unsent", "wire"}
                         /\ \E a \in {"wire", "classifying"} : moq' = [moq EXCEPT !.at = a])
        BY <1>4 DEF AcceptStream, MoqOpens
    <2>2. CASE moq' # moq
        <3>1. /\ moq'.at \in {"wire", "classifying"} /\ moq.at \in {"unsent", "wire"}
              /\ moq'.left = moq.left /\ moq'.burst = moq.burst /\ moq'.got = moq.got
              /\ MoqTyped'
            BY <2>1, <2>2, <1>1 DEF MoqTyped
        <3>2. Remains(k)'
            BY <3>1, <1>2 DEF Remains
        <3> QED BY <3>1, <3>2 DEF StreamInv
    <2> QED BY <1>3, <2>2
<1>5. ASSUME moq' = [moq EXCEPT !.at = "gone"]
      PROVE  StreamInv'
    <2>1. /\ moq'.at = "gone" /\ MoqTyped'
          /\ moq'.left = moq.left /\ moq'.burst = moq.burst /\ moq'.got = moq.got
        BY <1>1, <1>5 DEF MoqTyped
    <2>2. Remains(k)'
        BY <2>1, <1>2 DEF Remains
    <2> QED BY <2>1, <2>2 DEF StreamInv
<1>6. CASE Classify
    <2>1. CASE moq' = [moq EXCEPT !.at = "inbox", !.left = Tail(moq.left),
                                  !.burst = Head(moq.left)]
        <3>1. moq.at = "classifying" /\ moq.left = Chunks /\ moq.burst = <<>> /\ moq.got = <<>>
            BY <1>6 DEF Classify, StreamInv
        <3>2. moq.left # <<>>
            BY <3>1, ChunkAssumption
        <3>3. /\ k + 1 \in 1..Len(Chunks)
              /\ Head(moq.left) \in Seq(Byte) /\ Tail(moq.left) \in Seq(Seq(Byte))
              /\ Len(Tail(moq.left)) = Len(Chunks) - (k + 1)
              /\ \A i \in 1..Len(Tail(moq.left)), j \in 1..Len(Chunks) :
                    j = k + 1 + i => Tail(moq.left)[i] = Chunks[j]
              /\ moq.got \o Head(moq.left) = SoFar[k + 1]
            BY <1>2, <3>1, <3>2, ChunkComes
        <3>4. /\ moq'.at = "inbox" /\ MoqTyped' /\ moq'.left = Tail(moq.left)
              /\ moq'.burst = Head(moq.left) /\ moq'.got = moq.got
            BY <2>1, <1>1, <3>3 DEF MoqTyped
        <3>5. Remains(k + 1)'
            BY <3>3, <3>4 DEF Remains
        <3>6. k + 1 \in 0..Len(Chunks)
            BY <3>3
        <3> QED BY <3>4, <3>5, <3>6 DEF StreamInv
    <2> QED BY <1>5, <1>6, <2>1 DEF Classify, WithInitialChunk
<1>7. CASE PollRead
    <2>1. CASE moq.burst # <<>> /\ moq' = [moq EXCEPT
                    !.burst = DrainBurst(moq.burst),
                    !.got = moq.got \o SubSeq(moq.burst, 1, Room(moq.burst))]
        <3>1. moq.got \in Seq(Byte) /\ moq.burst \in Seq(Byte)
            BY <1>1 DEF MoqTyped
        <3>2. /\ moq.got \o SubSeq(moq.burst, 1, Room(moq.burst)) \in Seq(Byte)
              /\ DrainBurst(moq.burst) \in Seq(Byte)
              /\ (moq.got \o SubSeq(moq.burst, 1, Room(moq.burst))) \o DrainBurst(moq.burst)
                    = moq.got \o moq.burst
            BY <3>1, BurstSplits
        <3>3. /\ MoqTyped' /\ moq'.at = "inbox" /\ moq'.left = moq.left
              /\ moq'.burst = DrainBurst(moq.burst)
              /\ moq'.got = moq.got \o SubSeq(moq.burst, 1, Room(moq.burst))
            BY <2>1, <1>1, <1>7, <3>2 DEF MoqTyped, PollRead
        <3>4. Remains(k)'
            BY <3>2, <3>3, <1>2 DEF Remains
        <3> QED BY <3>3, <3>4 DEF StreamInv
    <2>2. CASE /\ moq.burst = <<>> /\ moq.left # <<>>
               /\ moq' = [moq EXCEPT !.left = Tail(moq.left),
                    !.burst = DrainBurst(Head(moq.left)),
                    !.got = moq.got \o SubSeq(Head(moq.left), 1, Room(Head(moq.left)))]
        <3> DEFINE c == Head(moq.left)
        <3>1. /\ k + 1 \in 1..Len(Chunks)
              /\ c \in Seq(Byte) /\ Tail(moq.left) \in Seq(Seq(Byte))
              /\ Len(Tail(moq.left)) = Len(Chunks) - (k + 1)
              /\ \A i \in 1..Len(Tail(moq.left)), j \in 1..Len(Chunks) :
                    j = k + 1 + i => Tail(moq.left)[i] = Chunks[j]
              /\ moq.got \o c = SoFar[k + 1]
            BY <1>2, <2>2, ChunkComes
        <3>2. moq' = [moq EXCEPT !.left = Tail(moq.left), !.burst = DrainBurst(c),
                                 !.got = moq.got \o SubSeq(c, 1, Room(c))]
            BY <2>2
        <3> HIDE DEF c
        <3>3. moq.got \in Seq(Byte)
            BY <1>1 DEF MoqTyped
        <3>4. /\ moq.got \o SubSeq(c, 1, Room(c)) \in Seq(Byte)
              /\ DrainBurst(c) \in Seq(Byte)
              /\ (moq.got \o SubSeq(c, 1, Room(c))) \o DrainBurst(c) = moq.got \o c
            BY <3>1, <3>3, BurstSplits
        <3>5. /\ MoqTyped' /\ moq'.at = "inbox" /\ moq'.left = Tail(moq.left)
              /\ moq'.burst = DrainBurst(c)
              /\ moq'.got = moq.got \o SubSeq(c, 1, Room(c))
            BY <3>1, <3>2, <1>1, <1>7, <3>4 DEF MoqTyped, PollRead
        <3>6. Remains(k + 1)'
            BY <3>1, <3>4, <3>5 DEF Remains
        <3>7. k + 1 \in 0..Len(Chunks)
            BY <3>1
        <3> QED BY <3>5, <3>6, <3>7 DEF StreamInv
    <2>3. CASE moq.burst = <<>> /\ moq.left = <<>> /\ moq' = [moq EXCEPT !.at = "ended"]
        <3>1. /\ MoqTyped' /\ moq'.at = "ended"
              /\ moq'.left = moq.left /\ moq'.burst = moq.burst /\ moq'.got = moq.got
            BY <2>3, <1>1 DEF MoqTyped
        <3>2. Remains(k)'
            BY <3>1, <1>2 DEF Remains
        <3>3. moq'.left = <<>> /\ moq'.burst = <<>>
            BY <2>3, <3>1
        <3> QED BY <3>1, <3>2, <3>3 DEF StreamInv
    <2> QED BY <1>5, <1>7, <2>1, <2>2, <2>3 DEF PollRead
<1> QED BY <1>3, <1>4, <1>6, <1>7, StreamSteps

\* What moq-net reads of its stream is what the server sent, in order and whole:
\* the chunk read to classify the stream is handed on as the first of the burst,
\* and what a caller has no room for is kept for the next call (poll_read).
THEOREM StreamReadsWhole == PageSpec => []StreamWhole
<1>1. PageInit => StreamInv
    BY StreamBegins
<1>2. StreamInv /\ [PageNext]_pageVars => StreamInv'
    BY StreamGoesOn
<1>3. StreamInv => StreamWhole
    <2> SUFFICES ASSUME StreamInv PROVE StreamWhole
        OBVIOUS
    <2>1. PICK k \in 0..Len(Chunks) : Remains(k)
        BY DEF StreamInv
    <2>2. moq.got \in Seq(Byte) /\ moq.burst \in Seq(Byte)
        BY DEF StreamInv, MoqTyped
    <2>3. PICK t \in Seq(Byte) : SoFar[Len(Chunks)] = SoFar[k] \o t
        BY SoFarBegins
    <2>4. FlattenSeq(Chunks) = (moq.got \o moq.burst) \o t
        BY <2>1, <2>3, FlattenIsLast DEF Remains
    <2>5. (moq.got \o moq.burst) \o t = moq.got \o (moq.burst \o t)
        BY <2>2, <2>3, ConcatThrice, Zenon
    <2>6. moq.burst \o t \in Seq(Byte)
        BY <2>2, <2>3, ConcatProperties
    <2>7. IsPrefix(moq.got, FlattenSeq(Chunks))
        <3>1. IsPrefix(moq.got, moq.got \o (moq.burst \o t))
            BY <2>2, <2>6, ConcatPrefix, Zenon
        <3> QED BY <2>4, <2>5, <3>1, Zenon
    <2>8. ASSUME moq.at = "ended"
          PROVE  moq.got = FlattenSeq(Chunks)
        <3>1. moq.left = <<>> /\ moq.burst = <<>>
            BY <2>8 DEF StreamInv
        <3>2. k = Len(Chunks)
            BY <3>1, <2>1, ChunkParts DEF Remains
        <3>3. moq.got \o <<>> = moq.got
            BY <2>2, ConcatEmptySeq
        <3> QED BY <2>1, <3>1, <3>2, <3>3, FlattenIsLast DEF Remains
    <2> QED BY <2>7, <2>8 DEF StreamWhole
<1> QED BY <1>1, <1>2, <1>3, PTL DEF PageSpec

----------------------------------------------------------------------------
\* Messages, volumes and the sink.

Early == {"connecting", "refused", "setup", "sizing", "attach"}

\* The connection is made once, and the queues close only after it is gone; before
\* Attach there is no player, and without one no sink.
LineKnown ==
    /\ main = "connecting" => conn = "none"
    /\ closed => conn = "down"
    /\ main \in Early => ~player /\ driver = "off" /\ handled = {}
    /\ ~player => /\ ctx = "suspended" /\ ~listening /\ events = 0
                  /\ ready = "none" /\ sink = "none"

\* A context that runs is one change ahead of the pauses.
EventsCounted == events <= 2 * pauses + (IF ctx = "running" THEN 1 ELSE 0)

\* What waits in a queue.
Waiting(q) == {q[i] : i \in 1..Len(q)}

\* Every message a queue accepted waits in it or was handled.
MessagesKept == taken = handled \cup Waiting(appUni) \cup Waiting(appDg)

\* The newest volume of the host is the last in the channel or, once that is empty,
\* the last sent.
LevelsTell ==
    /\ changes > 0 => hostLevel \in Level
    /\ changes > 0 /\ ~refused =>
            hostLevel = IF levels = <<>> THEN lastLevel ELSE levels[Len(levels)]

\* The first k streams are the ones opened, and the last of them carries the last
\* level sent.
OpenedUpTo(k) ==
    /\ \A n \in Number : stream[n] # "unsent" <=> n <= k
    /\ k + Len(levels) <= changes
    /\ k = 0 => lastLevel = NoLevel
    /\ k > 0 => carries[k] = lastLevel

\* A stream that was read to its end on a live connection waits or was handled, and
\* nothing else was.
StreamsHeard ==
    /\ \A n \in Number : stream[n] = "gone" /\ conn # "down" =>
            n \in handled \/ n \in Waiting(appUni)
    /\ \A n \in Number : n \in handled \/ n \in Waiting(appUni) => stream[n] = "gone"

\* What the player was told.
LevelsApplied ==
    /\ player => \A n \in Number : n \in handled => n <= newest
    /\ newest # 0 => newest \in handled
    /\ applied <= newest
    /\ applied # 0 => applied \in handled /\ volume = carries[applied]

PageInv ==
    /\ PageTypeOK /\ LineKnown /\ EventsCounted /\ MessagesKept
    /\ LevelsTell /\ (\E k \in 0..MaxLevels : OpenedUpTo(k))
    /\ StreamsHeard /\ LevelsApplied

LEMMA PageTyping ==
    ASSUME PageTypeOK, LineKnown, EventsCounted, [PageNext]_pageVars
    PROVE  PageTypeOK'
<1> USE LevelAssumption, CapAssumption DEF PageTypeOK
<1>1. CASE UNCHANGED pageVars
    BY <1>1 DEF pageVars, session, queues, carried, context, sound, effects
<1> USE DEF session, queues, carried, context, sound, effects
<1>2. CASE Connect
    BY <1>2 DEF Connect, Phase
<1>3. CASE SetUp
    BY <1>3 DEF SetUp, Phase
<1>4. CASE InitialResize
    BY <1>4 DEF InitialResize, Phase
<1>5. CASE Attach
    <2>1. ctx' \in {"suspended", "running"} /\ player' \in BOOLEAN /\ listening' \in BOOLEAN
        BY <1>5 DEF Attach
    <2>2. latch' \in BOOLEAN /\ ready' \in {"none", "wire", "lost", "taken"}
        BY <1>5 DEF Attach, Told
    <2>3. main' \in Phase /\ pump' \in [Carrier -> {"off", "on", "over"}]
        BY <1>5 DEF Attach, Phase
    <2> QED BY <1>5, <2>1, <2>2, <2>3 DEF Attach
<1>6. CASE Handshake
    <2>1. main' \in Phase /\ driver' \in {"off", "on", "over"}
        BY <1>6 DEF Handshake, Lost, Phase
    <2>2. overlay' \in BOOLEAN /\ keepalive' \in BOOLEAN
        BY <1>6 DEF Handshake, Lost
    <2> QED BY <1>6, <2>1, <2>2 DEF Handshake
<1>7. CASE Announcement
    BY <1>7 DEF Announcement, Phase
<1>8. CASE AnnouncementsEnd
    BY <1>8 DEF AnnouncementsEnd, Lost, Phase
<1>9. CASE RequestBroadcast
    <2>1. main' \in Phase
        BY <1>9 DEF RequestBroadcast, Lost, Phase
    <2>2. overlay' \in BOOLEAN /\ keepalive' \in BOOLEAN
        BY <1>9 DEF RequestBroadcast, Lost
    <2> QED BY <1>9, <2>1, <2>2 DEF RequestBroadcast
<1>10. CASE SessionEnds
    BY <1>10 DEF SessionEnds, ControlEnds, Lost, Phase
<1>11. CASE TakeWord
    BY <1>11 DEF TakeWord, Message
<1>12. CASE TakeLevel
    <2> DEFINE n == Head(appUni)
    <2>1. n \in Number /\ appUni' \in Seq(Number)
        BY <1>12 DEF TakeLevel
    <2>2. n \in 1..MaxLevels /\ n \in Message /\ carries[n] \in Level \cup {NoLevel}
        BY <2>1 DEF Number, Message
    <2> HIDE DEF n
    <2>3. handled' \subseteq Message
        BY <1>12, <2>2 DEF TakeLevel, n
    <2>4. /\ volume' \in Level \cup {NoLevel}
          /\ applied' \in 0..MaxLevels /\ newest' \in 0..MaxLevels
        <3>1. \/ volume' = volume /\ applied' = applied /\ newest' = newest
              \/ volume' = carries[n] /\ applied' = n /\ newest' \in {n, newest}
            BY <1>12 DEF TakeLevel, SetVolume, n
        <3> QED BY <2>2, <3>1
    <2> QED BY <1>12, <2>1, <2>3, <2>4 DEF TakeLevel
<1>13. CASE AcceptStream
    BY <1>13 DEF AcceptStream
<1>14. CASE DrainTask
    <2>1. PICK n \in Number : Drain(n)
        BY <1>14 DEF DrainTask
    <2>2. n \in Message
        BY DEF Message
    <2>3. appUni' \in Seq(Number)
        <3>1. appUni' = Append(appUni, n) \/ appUni' = appUni
            BY <2>1 DEF Drain
        <3>2. appUni \in Seq(Number)
            OBVIOUS
        <3> QED BY ONLY <3>1, <3>2
    <2>5. taken' \subseteq Message
        <3>1. taken' \in {taken, taken \cup {n}}
            BY <2>1 DEF Drain
        <3>2. taken \subseteq Message
            OBVIOUS
        <3> QED BY ONLY <2>2, <3>1, <3>2
    <2>4. stream' \in [Number -> {"unsent", "wire", "draining", "gone"}]
        BY <2>1 DEF Drain
    <2> QED BY <2>1, <2>3, <2>5, <2>4 DEF Drain
<1>15. CASE Classify \/ PollRead \/ MoqOpens
    BY <1>15 DEF Classify, PollRead, MoqOpens
<1>16. CASE ReceiveDatagram
    <2>1. Word \in Message
        BY DEF Message
    <2>2. appDg' \in Seq({Word})
        <3>1. appDg' = Append(appDg, Word) \/ appDg' = appDg
            BY <1>16 DEF ReceiveDatagram
        <3>2. appDg \in Seq({Word})
            OBVIOUS
        <3> QED BY ONLY <3>1, <3>2
    <2>3. taken' \subseteq Message
        <3>1. taken' \in {taken, taken \cup {Word}}
            BY <1>16 DEF ReceiveDatagram
        <3>2. taken \subseteq Message
            OBVIOUS
        <3> QED BY ONLY <2>1, <3>1, <3>2
    <2> QED BY <1>16, <2>2, <2>3 DEF ReceiveDatagram
<1>17. CASE PumpEnds
    BY <1>17 DEF PumpEnds, CloseAll
<1>18. CASE DriverEnds \/ Die
    BY <1>18 DEF DriverEnds, Die
<1>19. CASE AudioState
    <2>1. latch' \in BOOLEAN /\ ready' \in {"none", "wire", "lost", "taken"}
        BY <1>19 DEF AudioState, Told
    <2>2. ctx' \in {"suspended", "running"} /\ events' \in 0..(2 * MaxPauses + 1)
        BY <1>19 DEF AudioState
    <2> QED BY <1>19, <2>1, <2>2 DEF AudioState
<1>20. CASE Gesture
    BY <1>20 DEF Gesture, StillListens, EventsCounted
<1>21. CASE Prepare
    BY <1>21 DEF Prepare
<1>22. CASE Pause
    BY <1>22 DEF Pause, EventsCounted
<1>23. CASE AudioReady \/ SinkStarts \/ WordSent
    BY <1>23 DEF AudioReady, SinkStarts, WordSent
<1>24. CASE HostVolume
    <2>1. hostLevel' \in Level \cup {NoLevel} /\ changes' \in 0..MaxLevels
        BY <1>24 DEF HostVolume
    <2>3. refused' \in BOOLEAN
        BY <1>24 DEF HostVolume
    <2>2. levels' \in Seq(Level) /\ Len(levels') <= LevelCap
        <3>1. \/ levels' = levels
              \/ Len(levels) < LevelCap /\ \E l \in Level : levels' = Append(levels, l)
            BY <1>24 DEF HostVolume
        <3>2. levels \in Seq(Level) /\ Len(levels) <= LevelCap /\ LevelCap \in Nat
            OBVIOUS
        <3> QED BY ONLY <3>1, <3>2
    <2> QED BY <1>24, <2>1, <2>3, <2>2 DEF HostVolume
<1>25. CASE SendAudioLevel
    <2>1. Head(levels) \in Level /\ levels' \in Seq(Level) /\ Len(levels') <= LevelCap
        BY <1>25 DEF SendAudioLevel
    <2>2. lastLevel' \in Level \cup {NoLevel}
        BY <1>25, <2>1 DEF SendAudioLevel
    <2>3. /\ stream' \in [Number -> {"unsent", "wire", "draining", "gone"}]
          /\ carries' \in [Number -> Level \cup {NoLevel}]
        BY <1>25, <2>1 DEF SendAudioLevel
    <2> QED BY <1>25, <2>1, <2>2, <2>3 DEF SendAudioLevel
<1> QED
    BY <1>1, <1>2, <1>3, <1>4, <1>5, <1>6, <1>7, <1>8, <1>9, <1>10, <1>11, <1>12, <1>13,
       <1>14, <1>15, <1>16, <1>17, <1>18, <1>19, <1>20, <1>21, <1>22, <1>23, <1>24, <1>25
       DEF PageNext, Start, RunMoq, Pumps, Audio, Server

LEMMA LineKeeps ==
    ASSUME PageTypeOK, LineKnown, [PageNext]_pageVars
    PROVE  LineKnown'
<1> USE DEF LineKnown, Early, session, queues, carried, context, sound, effects
<1>1. CASE UNCHANGED pageVars
    BY <1>1 DEF pageVars
<1>2. CASE Start
    BY <1>2 DEF Start, Connect, SetUp, InitialResize, Attach, Told
<1>3. CASE Handshake \/ Announcement \/ AnnouncementsEnd \/ RequestBroadcast \/ SessionEnds
    BY <1>3 DEF Handshake, Announcement, AnnouncementsEnd, RequestBroadcast, SessionEnds,
                ControlEnds, Lost
<1>4. CASE TakeWord
    BY <1>4 DEF TakeWord
<1>5. CASE TakeLevel
    BY <1>5 DEF TakeLevel
<1>6. CASE Pumps
    BY <1>6 DEF Pumps, DrainTask, AcceptStream, Drain, Classify, ReceiveDatagram, PumpEnds, CloseAll
<1>7. CASE PollRead \/ DriverEnds \/ Die
    BY <1>7 DEF PollRead, DriverEnds, Die
<1>8. CASE AudioState
    BY <1>8 DEF AudioState, Told, PageTypeOK
<1>9. CASE Gesture \/ Prepare
    BY <1>9 DEF Gesture, Prepare
<1>10. CASE Pause
    BY <1>10 DEF Pause
<1>11. CASE Server
    BY <1>11 DEF Server, AudioReady, SinkStarts, HostVolume, SendAudioLevel, WordSent, MoqOpens
<1> QED
    BY <1>1, <1>2, <1>3, <1>4, <1>5, <1>6, <1>7, <1>8, <1>9, <1>10, <1>11
       DEF PageNext, RunMoq, Audio

LEMMA EventsKeep ==
    ASSUME PageTypeOK, LineKnown, EventsCounted, [PageNext]_pageVars
    PROVE  EventsCounted'
<1>1. /\ events \in Nat /\ pauses \in Nat /\ ctx \in {"suspended", "running"}
      /\ main = "attach" => ctx = "suspended"
    BY CapAssumption DEF PageTypeOK, LineKnown, Early
<1> USE DEF EventsCounted, session, queues, carried, context, sound, effects
<1>2. CASE UNCHANGED <<events, pauses, ctx>>
    BY <1>2
<1>3. CASE Attach
    BY <1>1, <1>3 DEF Attach
<1>4. CASE AudioState
    BY <1>1, <1>4 DEF AudioState
<1>5. CASE Gesture
    BY <1>1, <1>5 DEF Gesture
<1>6. CASE Pause
    BY <1>1, <1>6 DEF Pause
<1>7. CASE UNCHANGED pageVars
    BY <1>2, <1>7 DEF pageVars
<1>8. CASE Start /\ ~Attach
    BY <1>2, <1>8 DEF Start, Connect, SetUp, InitialResize
<1>9. CASE RunMoq
    BY <1>2, <1>9 DEF RunMoq, Handshake, Announcement, AnnouncementsEnd, RequestBroadcast,
                      TakeWord, TakeLevel, SessionEnds
<1>10. CASE Pumps
    BY <1>2, <1>10 DEF Pumps, DrainTask, Drain, AcceptStream, Classify, ReceiveDatagram, PumpEnds
<1>11. CASE PollRead \/ DriverEnds \/ Die \/ Prepare
    BY <1>2, <1>11 DEF PollRead, DriverEnds, Die, Prepare
<1>12. CASE Server
    BY <1>2, <1>12 DEF Server, AudioReady, SinkStarts, HostVolume, SendAudioLevel, WordSent,
                       MoqOpens
<1> QED BY <1>3, <1>4, <1>5, <1>6, <1>7, <1>8, <1>9, <1>10, <1>11, <1>12 DEF PageNext, Audio

\* Which steps move a message or a volume.
LEMMA MessageSteps ==
    ASSUME [PageNext]_pageVars
    PROVE  \/ TakeWord \/ TakeLevel \/ DrainTask \/ ReceiveDatagram
           \/ UNCHANGED <<effects, appUni, appDg>>
<1> USE DEF session, queues, carried, context, sound, effects
<1>1. CASE UNCHANGED pageVars
    BY <1>1 DEF pageVars
<1>2. CASE Start
    BY <1>2 DEF Start, Connect, SetUp, InitialResize, Attach
<1>3. CASE RunMoq
    BY <1>3 DEF RunMoq, Handshake, Announcement, AnnouncementsEnd, RequestBroadcast, SessionEnds
<1>4. CASE Pumps
    BY <1>4 DEF Pumps, AcceptStream, Classify, PumpEnds
<1>5. CASE PollRead \/ DriverEnds \/ Die
    BY <1>5 DEF PollRead, DriverEnds, Die
<1>6. CASE Audio
    BY <1>6 DEF Audio, AudioState, Gesture, Prepare, Pause
<1>7. CASE Server
    BY <1>7 DEF Server, AudioReady, SinkStarts, HostVolume, SendAudioLevel, WordSent, MoqOpens
<1> QED BY <1>1, <1>2, <1>3, <1>4, <1>5, <1>6, <1>7 DEF PageNext

LEMMA LevelSteps ==
    ASSUME [PageNext]_pageVars
    PROVE  \/ HostVolume \/ SendAudioLevel
           \/ UNCHANGED <<levels, lastLevel, hostLevel, changes, refused, carries>>
<1> USE DEF session, queues, carried, context, sound, effects
<1>1. CASE UNCHANGED pageVars
    BY <1>1 DEF pageVars
<1>2. CASE Start
    BY <1>2 DEF Start, Connect, SetUp, InitialResize, Attach
<1>3. CASE RunMoq
    BY <1>3 DEF RunMoq, Handshake, Announcement, AnnouncementsEnd, RequestBroadcast, SessionEnds,
                TakeWord, TakeLevel
<1>4. CASE Pumps
    BY <1>4 DEF Pumps, AcceptStream, Classify, PumpEnds, DrainTask, Drain, ReceiveDatagram
<1>5. CASE PollRead \/ DriverEnds \/ Die
    BY <1>5 DEF PollRead, DriverEnds, Die
<1>6. CASE Audio
    BY <1>6 DEF Audio, AudioState, Gesture, Prepare, Pause
<1>7. CASE Server
    BY <1>7 DEF Server, AudioReady, SinkStarts, WordSent, MoqOpens
<1> QED BY <1>1, <1>2, <1>3, <1>4, <1>5, <1>6, <1>7 DEF PageNext

LEMMA StreamStates ==
    ASSUME [PageNext]_pageVars
    PROVE  \/ AcceptStream \/ DrainTask \/ SendAudioLevel
           \/ UNCHANGED stream
<1> USE DEF session, queues, carried, context, sound, effects
<1>1. CASE UNCHANGED pageVars
    BY <1>1 DEF pageVars
<1>2. CASE Start
    BY <1>2 DEF Start, Connect, SetUp, InitialResize, Attach
<1>3. CASE RunMoq
    BY <1>3 DEF RunMoq, Handshake, Announcement, AnnouncementsEnd, RequestBroadcast, SessionEnds,
                TakeWord, TakeLevel
<1>4. CASE Pumps
    BY <1>4 DEF Pumps, Classify, PumpEnds, ReceiveDatagram
<1>5. CASE PollRead \/ DriverEnds \/ Die
    BY <1>5 DEF PollRead, DriverEnds, Die
<1>6. CASE Audio
    BY <1>6 DEF Audio, AudioState, Gesture, Prepare, Pause
<1>7. CASE Server
    BY <1>7 DEF Server, AudioReady, SinkStarts, HostVolume, WordSent, MoqOpens
<1> QED BY <1>1, <1>2, <1>3, <1>4, <1>5, <1>6, <1>7 DEF PageNext

LEMMA WaitingParts ==
    ASSUME NEW S, NEW q \in Seq(S)
    PROVE  /\ \A e \in S : Waiting(Append(q, e)) = Waiting(q) \cup {e}
           /\ q # <<>> => Head(q) \in S /\ Waiting(q) = {Head(q)} \cup Waiting(Tail(q))
           /\ q = <<>> => Waiting(q) = {}
<1>1. Len(q) \in Nat
    OBVIOUS
<1>2. ASSUME NEW e \in S
      PROVE  Waiting(Append(q, e)) = Waiting(q) \cup {e}
    <2>1. /\ Len(Append(q, e)) = Len(q) + 1 /\ Append(q, e)[Len(q) + 1] = e
          /\ \A i \in 1..Len(q) : Append(q, e)[i] = q[i]
        BY AppendProperties
    <2>2. 1..Len(q) + 1 = 1..Len(q) \cup {Len(q) + 1}
        BY <1>1
    <2> QED BY <2>1, <2>2 DEF Waiting
<1>3. ASSUME q # <<>>
      PROVE  Head(q) \in S /\ Waiting(q) = {Head(q)} \cup Waiting(Tail(q))
    <2> DEFINE t == Tail(q)
    <2>1. /\ Head(q) = q[1] /\ Len(q) \in Nat \ {0} /\ q[1] \in S
          /\ Len(t) = Len(q) - 1
          /\ \A i \in 1..Len(q) - 1 : t[i] = q[i + 1]
        BY <1>1, <1>3, HeadTailProperties
    <2> HIDE DEF t
    <2>2. \A e \in Waiting(q) : e = q[1] \/ e \in Waiting(t)
        <3> SUFFICES ASSUME NEW i \in 1..Len(q), i # 1 PROVE q[i] \in Waiting(t)
            BY DEF Waiting
        <3>1. i - 1 \in 1..Len(q) - 1 /\ i - 1 + 1 = i
            BY <2>1
        <3>2. t[i - 1] = q[i]
            BY <2>1, <3>1
        <3> QED BY <2>1, <3>1, <3>2 DEF Waiting
    <2>3. \A e \in Waiting(t) : e \in Waiting(q)
        <3> SUFFICES ASSUME NEW i \in 1..Len(t) PROVE t[i] \in Waiting(q)
            BY DEF Waiting
        <3>1. i + 1 \in 1..Len(q) /\ t[i] = q[i + 1]
            BY <2>1
        <3> QED BY <3>1 DEF Waiting
    <2>4. q[1] \in Waiting(q)
        BY <2>1 DEF Waiting
    <2> QED BY <2>1, <2>2, <2>3, <2>4 DEF t
<1>4. q = <<>> => Waiting(q) = {}
    BY DEF Waiting
<1> QED BY <1>2, <1>3, <1>4

LEMMA MessagesStay ==
    ASSUME PageTypeOK, MessagesKept, [PageNext]_pageVars
    PROVE  MessagesKept'
<1>1. appUni \in Seq(Number) /\ appDg \in Seq({Word})
    BY DEF PageTypeOK
<1> USE DEF MessagesKept
<1>2. CASE TakeWord
    <2>1. /\ appDg # <<>> /\ appDg' = Tail(appDg) /\ appUni' = appUni /\ taken' = taken
          /\ handled' = handled \cup {Word}
        BY <1>2 DEF TakeWord
    <2>2. Head(appDg) = Word /\ Waiting(appDg) = {Head(appDg)} \cup Waiting(Tail(appDg))
        BY <1>1, <2>1, WaitingParts
    <2>3. Waiting(appDg)' = Waiting(Tail(appDg)) /\ Waiting(appUni)' = Waiting(appUni)
        BY <2>1 DEF Waiting
    <2> QED BY <2>1, <2>2, <2>3
<1>3. CASE TakeLevel
    <2>1. /\ appUni # <<>> /\ appUni' = Tail(appUni) /\ appDg' = appDg /\ taken' = taken
          /\ handled' = handled \cup {Head(appUni)}
        BY <1>3 DEF TakeLevel
    <2>2. Waiting(appUni) = {Head(appUni)} \cup Waiting(Tail(appUni))
        BY <1>1, <2>1, WaitingParts
    <2>3. Waiting(appUni)' = Waiting(Tail(appUni)) /\ Waiting(appDg)' = Waiting(appDg)
        BY <2>1 DEF Waiting
    <2> QED BY <2>1, <2>2, <2>3
<1>4. CASE DrainTask
    <2>1. PICK n \in Number : Drain(n)
        BY <1>4 DEF DrainTask
    <2>2. /\ appDg' = appDg /\ handled' = handled
          /\ \/ appUni' = Append(appUni, n) /\ taken' = taken \cup {n}
             \/ appUni' = appUni /\ taken' = taken
        BY <2>1 DEF Drain
    <2>3. Waiting(Append(appUni, n)) = Waiting(appUni) \cup {n}
        BY <1>1, WaitingParts
    <2>4. Waiting(appUni)' \in {Waiting(appUni), Waiting(Append(appUni, n))}
        BY <2>2 DEF Waiting
    <2>5. Waiting(appDg)' = Waiting(appDg)
        BY <2>2 DEF Waiting
    <2>6. CASE appUni' = Append(appUni, n) /\ taken' = taken \cup {n}
        <3>1. Waiting(appUni)' = Waiting(Append(appUni, n))
            BY <2>6 DEF Waiting
        <3> QED BY <2>2, <2>3, <2>5, <2>6, <3>1
    <2>7. CASE appUni' = appUni /\ taken' = taken
        <3>1. Waiting(appUni)' = Waiting(appUni)
            BY <2>7 DEF Waiting
        <3> QED BY <2>2, <2>5, <2>7, <3>1
    <2> QED BY <2>2, <2>6, <2>7
<1>5. CASE ReceiveDatagram
    <2>1. /\ appUni' = appUni /\ handled' = handled
          /\ \/ appDg' = Append(appDg, Word) /\ taken' = taken \cup {Word}
             \/ appDg' = appDg /\ taken' = taken
        BY <1>5 DEF ReceiveDatagram, effects
    <2>2. Waiting(Append(appDg, Word)) = Waiting(appDg) \cup {Word}
        BY <1>1, WaitingParts
    <2>3. Waiting(appUni)' = Waiting(appUni)
        BY <2>1 DEF Waiting
    <2>4. CASE appDg' = Append(appDg, Word) /\ taken' = taken \cup {Word}
        <3>1. Waiting(appDg)' = Waiting(Append(appDg, Word))
            BY <2>4 DEF Waiting
        <3> QED BY <2>1, <2>2, <2>3, <2>4, <3>1
    <2>5. CASE appDg' = appDg /\ taken' = taken
        <3>1. Waiting(appDg)' = Waiting(appDg)
            BY <2>5 DEF Waiting
        <3> QED BY <2>1, <2>3, <2>5, <3>1
    <2> QED BY <2>1, <2>4, <2>5
<1>6. CASE UNCHANGED <<effects, appUni, appDg>>
    BY <1>6 DEF Waiting, effects
<1> QED BY <1>2, <1>3, <1>4, <1>5, <1>6, MessageSteps

\* What the types, the line and the messages come to.
KeptInv == PageTypeOK /\ LineKnown /\ EventsCounted /\ MessagesKept

LEMMA KeptBegins == PageInit => KeptInv
<1> SUFFICES ASSUME PageInit PROVE KeptInv
    OBVIOUS
<1> USE DEF PageInit
<1>1. PageTypeOK
    <2>1. /\ appUni \in Seq(Number) /\ appDg \in Seq({Word})
          /\ levels \in Seq(Level) /\ Len(levels) <= LevelCap
        BY CapAssumption
    <2>2. /\ events \in 0..(2 * MaxPauses + 1) /\ pauses \in 0..MaxPauses
          /\ changes \in 0..MaxLevels /\ applied \in 0..MaxLevels /\ newest \in 0..MaxLevels
        BY CapAssumption
    <2>3. {overlay, keepalive, audioOnly, closed, player, latch, prepared, listening, refused}
             \subseteq BOOLEAN
        OBVIOUS
    <2>4. taken \subseteq Message /\ handled \subseteq Message
        OBVIOUS
    <2> QED BY <2>1, <2>2, <2>3, <2>4 DEF PageTypeOK, Phase
<1>2. LineKnown /\ EventsCounted
    BY DEF LineKnown, EventsCounted, Early
<1>3. MessagesKept
    BY DEF MessagesKept, Waiting
<1> QED BY <1>1, <1>2, <1>3 DEF KeptInv

LEMMA KeptStays == KeptInv /\ [PageNext]_pageVars => KeptInv'
BY PageTyping, LineKeeps, EventsKeep, MessagesStay DEF KeptInv

\* A page's variables stay in their types: at most LevelCap levels wait in the
\* channel, and the AudioContext has at most two changes for each of its pauses,
\* and one, that its handler has not seen (audio.rs, handle_audio_state).
THEOREM PageTyped == PageSpec => []PageTypeOK
<1>1. KeptInv => PageTypeOK
    BY DEF KeptInv
<1> QED BY <1>1, KeptBegins, KeptStays, PTL DEF PageSpec

\* The control loop ends only when both of its queues are closed and drained
\* (next_control), and by then it has handled every message they accepted.
THEOREM EveryMessageHandled == PageSpec => NoMessageStranded
<1>1. ASSUME KeptInv, [PageNext]_pageVars
      PROVE  main = "control" /\ main' = "over" => handled = taken
    <2> SUFFICES ASSUME main = "control", main' = "over" PROVE handled = taken
        OBVIOUS
    <2>1. SessionEnds
        <3> USE <1>1 DEF session, queues, carried, context, sound, effects
        <3>1. ~UNCHANGED main
            OBVIOUS
        <3>2. ~Start
            BY DEF Start, Connect, SetUp, InitialResize, Attach
        <3>3. ~(Pumps \/ PollRead \/ DriverEnds \/ Die)
            BY <3>1 DEF Pumps, AcceptStream, DrainTask, Drain, Classify, ReceiveDatagram, PumpEnds,
                        PollRead, DriverEnds, Die
        <3>4. ~(Audio \/ Server)
            BY <3>1 DEF Audio, AudioState, Gesture, Prepare, Pause, Server, AudioReady, SinkStarts,
                        HostVolume, SendAudioLevel, WordSent, MoqOpens
        <3>5. RunMoq
            BY <3>1, <3>2, <3>3, <3>4 DEF PageNext, pageVars
        <3> QED BY <3>5 DEF RunMoq, Handshake, Announcement, AnnouncementsEnd, RequestBroadcast,
                            TakeWord, TakeLevel
    <2>2. appDg = <<>> /\ appUni = <<>>
        BY <2>1 DEF SessionEnds, ControlEnds, Done
    <2>3. Waiting(appDg) = {} /\ Waiting(appUni) = {}
        BY <2>2 DEF Waiting
    <2> QED BY <1>1, <2>3 DEF KeptInv, MessagesKept
<1> QED BY <1>1, KeptBegins, KeptStays, PTL DEF PageSpec, NoMessageStranded

LEMMA PlayerSteps ==
    ASSUME [PageNext]_pageVars
    PROVE  player' = player \/ Attach
<1> USE DEF session, queues, carried, context, sound, effects
<1>1. CASE UNCHANGED pageVars
    BY <1>1 DEF pageVars
<1>2. CASE Start
    BY <1>2 DEF Start, Connect, SetUp, InitialResize
<1>3. CASE RunMoq
    BY <1>3 DEF RunMoq, Handshake, Announcement, AnnouncementsEnd, RequestBroadcast, SessionEnds,
                TakeWord, TakeLevel
<1>4. CASE Pumps
    BY <1>4 DEF Pumps, AcceptStream, Classify, PumpEnds, DrainTask, Drain, ReceiveDatagram
<1>5. CASE PollRead \/ DriverEnds \/ Die
    BY <1>5 DEF PollRead, DriverEnds, Die
<1>6. CASE Audio
    BY <1>6 DEF Audio, AudioState, Gesture, Prepare, Pause
<1>7. CASE Server
    BY <1>7 DEF Server, AudioReady, SinkStarts, HostVolume, SendAudioLevel, WordSent, MoqOpens
<1> QED BY <1>1, <1>2, <1>3, <1>4, <1>5, <1>6, <1>7 DEF PageNext

\* A connection that is down stays so.
LEMMA DownStays ==
    ASSUME LineKnown, [PageNext]_pageVars, conn = "down"
    PROVE  conn' = "down"
<1> USE DEF session, queues, carried, context, sound, effects
<1>1. CASE UNCHANGED pageVars
    BY <1>1 DEF pageVars
<1>2. CASE Start
    BY <1>2 DEF Start, Connect, SetUp, InitialResize, Attach, LineKnown
<1>3. CASE RunMoq
    BY <1>3 DEF RunMoq, Handshake, Announcement, AnnouncementsEnd, RequestBroadcast, SessionEnds,
                TakeWord, TakeLevel
<1>4. CASE Pumps
    BY <1>4 DEF Pumps, AcceptStream, Classify, PumpEnds, DrainTask, Drain, ReceiveDatagram
<1>5. CASE PollRead \/ DriverEnds \/ Die
    BY <1>5 DEF PollRead, DriverEnds, Die
<1>6. CASE Audio
    BY <1>6 DEF Audio, AudioState, Gesture, Prepare, Pause
<1>7. CASE Server
    BY <1>7 DEF Server, AudioReady, SinkStarts, HostVolume, SendAudioLevel, WordSent, MoqOpens
<1> QED BY <1>1, <1>2, <1>3, <1>4, <1>5, <1>6, <1>7 DEF PageNext

LEMMA LevelsStay ==
    ASSUME PageTypeOK, LevelsTell, [PageNext]_pageVars
    PROVE  LevelsTell'
<1>1. levels \in Seq(Level) /\ changes \in Nat
    BY CapAssumption DEF PageTypeOK
<1>2. CASE HostVolume
    <2>1. PICK l \in Level :
            /\ hostLevel' = l /\ changes' = changes + 1 /\ lastLevel' = lastLevel
            /\ (levels' = Append(levels, l)) \/ refused'
        BY <1>2 DEF HostVolume
    <2>2. /\ Append(levels, l) # <<>>
          /\ Append(levels, l)[Len(Append(levels, l))] = l
        BY <1>1
    <2> QED BY <1>1, <2>1, <2>2 DEF LevelsTell
<1>3. CASE SendAudioLevel
    <2>1. /\ levels # <<>> /\ levels' = Tail(levels) /\ lastLevel' = Head(levels)
          /\ hostLevel' = hostLevel /\ changes' = changes /\ refused' = refused
        BY <1>3 DEF SendAudioLevel
    <2>2. /\ Len(levels) \in Nat \ {0} /\ Head(levels) = levels[1]
          /\ Tail(levels) \in Seq(Level) /\ Len(Tail(levels)) = Len(levels) - 1
          /\ \A i \in 1..Len(levels) - 1 : Tail(levels)[i] = levels[i + 1]
        BY <1>1, <2>1, HeadTailProperties
    <2>3. CASE Tail(levels) = <<>>
        <3>1. Len(levels) = 1
            BY <2>2, <2>3
        <3> QED BY <2>1, <2>2, <2>3, <3>1 DEF LevelsTell
    <2>4. CASE Tail(levels) # <<>>
        <3> DEFINE n == Len(levels)
                   t == Tail(levels)
        <3>1. Len(t) # 0
            BY <2>2, <2>4
        <3> HIDE DEF t
        <3>2. n - 1 \in 1..n - 1 /\ n - 1 + 1 = n /\ Len(t) = n - 1
            BY <2>2, <3>1 DEF t
        <3>3. t[Len(t)] = levels[n]
            BY <2>2, <3>2 DEF t
        <3> QED BY <2>1, <2>4, <3>3 DEF LevelsTell, t
    <2> QED BY <2>3, <2>4
<1>4. CASE UNCHANGED <<levels, lastLevel, hostLevel, changes, refused, carries>>
    BY <1>4 DEF LevelsTell
<1> QED BY <1>2, <1>3, <1>4, LevelSteps

LEMMA OpenedCount ==
    ASSUME NEW k \in 0..MaxLevels, OpenedUpTo(k)
    PROVE  Opened = k
<1> DEFINE U == {n \in Number : stream[n] # "unsent"}
<1>1. U = 1..k
    BY CapAssumption DEF OpenedUpTo, Number
<1>2. Cardinality(1..k) = k
    <2>1. k \in Int /\ 1 \in Int
        OBVIOUS
    <2>2. Cardinality(1..k) = IF 1 > k THEN 0 ELSE k - 1 + 1
        BY <2>1, FS_Interval
    <2> QED BY <2>2
<1> QED BY <1>1, <1>2 DEF Opened

\* What SendAudioLevel does with the level at the head of the channel.
LEMMA LevelGoes ==
    ASSUME PageTypeOK, NEW k \in 0..MaxLevels, OpenedUpTo(k), SendAudioLevel
    PROVE  /\ Head(levels) \in Level /\ Len(levels) \in Nat \ {0}
           /\ Len(levels') = Len(levels) - 1
           /\ lastLevel' = Head(levels) /\ changes' = changes
           /\ k + 1 \in Number /\ stream[k + 1] = "unsent"
           /\ \/ lastLevel = Head(levels) /\ stream' = stream /\ carries' = carries
              \/ /\ stream' = [stream EXCEPT ![k + 1] = "wire"]
                 /\ carries' = [carries EXCEPT ![k + 1] = Head(levels)]
<1>1. levels \in Seq(Level) /\ changes \in 0..MaxLevels /\ MaxLevels \in Nat /\ levels # <<>>
    BY CapAssumption DEF PageTypeOK, SendAudioLevel
<1>2. /\ Head(levels) \in Level /\ Len(levels) \in Nat \ {0}
      /\ Len(Tail(levels)) = Len(levels) - 1
    BY <1>1
<1>3. k + 1 \in Number /\ stream[k + 1] = "unsent"
    <2>1. k + 1 \in 1..MaxLevels
        BY <1>1, <1>2 DEF OpenedUpTo
    <2> QED BY <2>1 DEF OpenedUpTo, Number
<1>4. Opened = k
    BY OpenedCount
<1>5. /\ levels' = Tail(levels) /\ lastLevel' = Head(levels) /\ changes' = changes
      /\ \/ lastLevel = Head(levels) /\ stream' = stream /\ carries' = carries
         \/ /\ stream' = [stream EXCEPT ![k + 1] = "wire"]
            /\ carries' = [carries EXCEPT ![k + 1] = Head(levels)]
    BY <1>4 DEF SendAudioLevel
<1> QED BY <1>2, <1>3, <1>5

LEMMA OpenedStay ==
    ASSUME PageTypeOK, \E k \in 0..MaxLevels : OpenedUpTo(k), [PageNext]_pageVars
    PROVE  \E k \in 0..MaxLevels : OpenedUpTo(k)'
<1>1. PICK k \in 0..MaxLevels : OpenedUpTo(k)
    OBVIOUS
<1>2. /\ levels \in Seq(Level) /\ Len(levels) \in Nat /\ changes \in Nat /\ MaxLevels \in Nat
      /\ stream \in [Number -> {"unsent", "wire", "draining", "gone"}]
      /\ carries \in [Number -> Level \cup {NoLevel}]
    BY CapAssumption DEF PageTypeOK
<1>3. CASE SendAudioLevel
    <2>1. /\ Head(levels) \in Level /\ Len(levels) \in Nat \ {0}
          /\ Len(levels') = Len(levels) - 1
          /\ lastLevel' = Head(levels) /\ changes' = changes
          /\ k + 1 \in Number /\ stream[k + 1] = "unsent"
          /\ \/ lastLevel = Head(levels) /\ stream' = stream /\ carries' = carries
             \/ /\ stream' = [stream EXCEPT ![k + 1] = "wire"]
                /\ carries' = [carries EXCEPT ![k + 1] = Head(levels)]
        BY <1>1, <1>3, LevelGoes
    <2>2. CASE lastLevel = Head(levels) /\ stream' = stream /\ carries' = carries
        <3>1. lastLevel' = lastLevel /\ k + Len(levels') <= changes'
            BY <1>1, <1>2, <2>1, <2>2 DEF OpenedUpTo
        <3>2. OpenedUpTo(k)'
            BY <1>1, <2>2, <3>1 DEF OpenedUpTo
        <3> QED BY <3>2
    <2>3. CASE /\ stream' = [stream EXCEPT ![k + 1] = "wire"]
               /\ carries' = [carries EXCEPT ![k + 1] = Head(levels)]
        <3>1. k + 1 \in 0..MaxLevels /\ k + 1 # 0 /\ k + 1 > 0
            BY <2>1 DEF Number
        <3>2. k + 1 + Len(levels') <= changes'
            BY <1>1, <1>2, <2>1 DEF OpenedUpTo
        <3>3. carries'[k + 1] = lastLevel'
            BY <1>2, <2>1, <2>3
        <3>4. ASSUME NEW n \in Number
              PROVE  stream'[n] # "unsent" <=> n <= k + 1
            <4>1. n \in Nat /\ (n <= k + 1 <=> n <= k \/ n = k + 1)
                BY DEF Number
            <4> QED BY <4>1, <1>1, <1>2, <2>1, <2>3 DEF OpenedUpTo
        <3>5. OpenedUpTo(k + 1)'
            BY <3>1, <3>2, <3>3, <3>4 DEF OpenedUpTo
        <3> QED BY <3>1, <3>5
    <2> QED BY <2>1, <2>2, <2>3
<1>4. CASE ~SendAudioLevel
    <2>1. \A n \in Number : stream'[n] # "unsent" <=> stream[n] # "unsent"
        <3>1. CASE AcceptStream
            BY <1>2, <3>1 DEF AcceptStream
        <3>2. CASE DrainTask
            BY <1>2, <3>2 DEF DrainTask, Drain
        <3> QED BY <1>4, <3>1, <3>2, StreamStates
    <2>2. carries' = carries /\ lastLevel' = lastLevel /\ k + Len(levels') <= changes'
        <3>1. CASE HostVolume
            <4>1. /\ carries' = carries /\ lastLevel' = lastLevel /\ changes' = changes + 1
                  /\ levels' = levels \/ \E l \in Level : levels' = Append(levels, l)
                BY <3>1 DEF HostVolume, carried
            <4>2. Len(levels') <= Len(levels) + 1 /\ Len(levels') \in Nat
                BY <1>2, <4>1
            <4> QED BY <1>1, <1>2, <4>1, <4>2 DEF OpenedUpTo
        <3> QED BY <1>1, <1>4, <3>1, LevelSteps DEF OpenedUpTo
    <2>3. OpenedUpTo(k)'
        BY <1>1, <2>1, <2>2 DEF OpenedUpTo
    <2> QED BY <2>3
<1> QED BY <1>3, <1>4

LEMMA HeardStay ==
    ASSUME PageTypeOK, LineKnown, \E k \in 0..MaxLevels : OpenedUpTo(k), StreamsHeard,
           [PageNext]_pageVars
    PROVE  StreamsHeard'
<1>1. /\ appUni \in Seq(Number)
      /\ stream \in [Number -> {"unsent", "wire", "draining", "gone"}]
      /\ Word \notin Number
    BY DEF PageTypeOK, Number, Word
<1>2. conn' # "down" => conn # "down"
    BY DownStays
\* Who waits or was handled, and which streams are gone.
<1> DEFINE known(n) == n \in handled \/ n \in Waiting(appUni)
<1>3. \A n \in Number : /\ stream[n] = "gone" /\ conn # "down" => known(n)
                        /\ known(n) => stream[n] = "gone"
    BY DEF StreamsHeard
<1>4. SUFFICES \A n \in Number :
                    /\ stream'[n] = "gone" /\ conn' # "down" => known(n)'
                    /\ known(n)' => stream'[n] = "gone"
    BY DEF StreamsHeard
<1>5. CASE DrainTask
    <2>1. PICK n \in Number : Drain(n)
        BY <1>5 DEF DrainTask
    <2>2. /\ stream[n] = "draining" /\ stream' = [stream EXCEPT ![n] = "gone"]
          /\ handled' = handled
          /\ \/ appUni' = Append(appUni, n)
             \/ appUni' = appUni /\ conn' = "down"
        BY <2>1 DEF Drain, LineKnown, session
    <2>3. Waiting(Append(appUni, n)) = Waiting(appUni) \cup {n}
        BY <1>1, WaitingParts
    <2>4. CASE appUni' = Append(appUni, n)
        <3>1. \A m \in Number : known(m)' <=> known(m) \/ m = n
            BY <2>2, <2>3, <2>4 DEF Waiting
        <3> HIDE DEF known
        <3> QED BY <1>1, <1>2, <1>3, <2>2, <3>1
    <2>5. CASE appUni' = appUni /\ conn' = "down"
        <3>1. \A m \in Number : known(m)' <=> known(m)
            BY <2>2, <2>5 DEF Waiting
        <3> HIDE DEF known
        <3> QED BY <1>1, <1>3, <2>2, <2>5, <3>1
    <2> QED BY <2>2, <2>4, <2>5
<1>6. CASE ~DrainTask
    <2>1. \A n \in Number : known(n)' <=> known(n)
        <3>1. CASE TakeWord
            <4>1. handled' = handled \cup {Word} /\ appUni' = appUni
                BY <3>1 DEF TakeWord
            <4> QED BY <1>1, <4>1 DEF Waiting
        <3>2. CASE TakeLevel
            <4>1. /\ appUni # <<>> /\ appUni' = Tail(appUni)
                  /\ handled' = handled \cup {Head(appUni)}
                BY <3>2 DEF TakeLevel
            <4>2. Waiting(appUni) = {Head(appUni)} \cup Waiting(Tail(appUni))
                BY <1>1, <4>1, WaitingParts
            <4>3. Waiting(appUni)' = Waiting(Tail(appUni))
                BY <4>1 DEF Waiting
            <4> QED BY <4>1, <4>2, <4>3
        <3>3. CASE ReceiveDatagram
            BY <3>3 DEF ReceiveDatagram, effects, Waiting
        <3>4. CASE UNCHANGED <<effects, appUni, appDg>>
            BY <3>4 DEF effects, Waiting
        <3> QED BY <1>6, <3>1, <3>2, <3>3, <3>4, MessageSteps
    <2>2. \A n \in Number : stream'[n] = "gone" <=> stream[n] = "gone"
        <3>1. CASE AcceptStream
            BY <1>1, <3>1 DEF AcceptStream
        <3>2. CASE SendAudioLevel
            <4>1. PICK k \in 0..MaxLevels : OpenedUpTo(k)
                OBVIOUS
            <4>2. /\ k + 1 \in Number /\ stream[k + 1] = "unsent"
                  /\ stream' = stream \/ stream' = [stream EXCEPT ![k + 1] = "wire"]
                BY <3>2, <4>1, LevelGoes
            <4> QED BY <1>1, <4>2
        <3> QED BY <1>6, <3>1, <3>2, StreamStates
    <2> HIDE DEF known
    <2> QED BY <1>2, <1>3, <2>1, <2>2
<1> QED BY <1>5, <1>6

LEMMA AppliedStay ==
    ASSUME PageTypeOK, LineKnown, \E k \in 0..MaxLevels : OpenedUpTo(k), StreamsHeard,
           LevelsApplied, [PageNext]_pageVars
    PROVE  LevelsApplied'
<1>1. /\ appUni \in Seq(Number) /\ carries \in [Number -> Level \cup {NoLevel}]
      /\ applied \in 0..MaxLevels /\ newest \in 0..MaxLevels
      /\ \A n \in Number : n \in Nat \ {0}
      /\ \A n \in 0..MaxLevels : n # 0 => n \in Number
      /\ Word \notin Number
    BY DEF PageTypeOK, Number, Word
<1>2. CASE TakeLevel
    <2> DEFINE n == Head(appUni)
    <2>1. n \in Number /\ handled' = handled \cup {n} /\ carries' = carries /\ player' = player
        BY <1>1, <1>2 DEF TakeLevel, carried, context
    <2>2. CASE player
        <3>1. /\ volume' = carries[n] /\ applied' = n
              /\ newest' = IF n > newest THEN n ELSE newest
            BY <1>2, <2>2 DEF TakeLevel, SetVolume
        <3> HIDE DEF n
        <3>2. \A m \in Number : m \in handled' => m <= newest'
            BY <1>1, <2>1, <2>2, <3>1 DEF LevelsApplied
        <3>3. newest' \in handled' /\ applied' <= newest' /\ applied' \in handled'
            BY <1>1, <2>1, <3>1 DEF LevelsApplied
        <3> QED BY <2>1, <3>1, <3>2, <3>3 DEF LevelsApplied
    <2>3. CASE ~player
        <3>1. volume' = volume /\ applied' = applied /\ newest' = newest
            BY <1>2, <2>3 DEF TakeLevel
        <3> HIDE DEF n
        <3> QED BY <2>1, <2>3, <3>1 DEF LevelsApplied
    <2> QED BY <2>2, <2>3
<1>3. CASE ~TakeLevel
    <2>1. /\ volume' = volume /\ applied' = applied /\ newest' = newest
          /\ handled \subseteq handled'
          /\ \A n \in Number : n \in handled' => n \in handled
        <3>1. CASE TakeWord
            BY <1>1, <3>1 DEF TakeWord
        <3>2. CASE DrainTask
            BY <3>2 DEF DrainTask, Drain
        <3>3. CASE ReceiveDatagram
            BY <3>3 DEF ReceiveDatagram
        <3>4. CASE UNCHANGED <<effects, appUni, appDg>>
            BY <3>4 DEF effects
        <3> QED BY <1>3, <3>1, <3>2, <3>3, <3>4, MessageSteps
    <2>2. player' => \A n \in Number : n \in handled' => n <= newest'
        <3>1. CASE Attach
            <4>1. handled = {}
                BY <3>1 DEF Attach, LineKnown, Early
            <4> QED BY <2>1, <4>1
        <3>2. CASE player' = player
            BY <2>1, <3>2 DEF LevelsApplied
        <3> QED BY <3>1, <3>2, PlayerSteps
    <2>3. applied # 0 => carries'[applied] = carries[applied]
        <3>1. CASE SendAudioLevel
            <4>1. PICK k \in 0..MaxLevels : OpenedUpTo(k)
                OBVIOUS
            <4>2. /\ k + 1 \in Number /\ stream[k + 1] = "unsent"
                  /\ carries' = carries \/ carries' = [carries EXCEPT ![k + 1] = Head(levels)]
                BY <3>1, <4>1, LevelGoes
            <4>3. applied # 0 => applied \in Number /\ stream[applied] = "gone"
                BY <1>1 DEF LevelsApplied, StreamsHeard
            <4> QED BY <1>1, <4>2, <4>3
        <3>2. CASE HostVolume
            BY <3>2 DEF HostVolume, carried
        <3> QED BY <3>1, <3>2, LevelSteps
    <2> QED BY <2>1, <2>2, <2>3 DEF LevelsApplied
<1> QED BY <1>2, <1>3

VolumeInv ==
    /\ KeptInv /\ LevelsTell /\ (\E k \in 0..MaxLevels : OpenedUpTo(k))
    /\ StreamsHeard /\ LevelsApplied

LEMMA VolumeBegins == PageInit => VolumeInv
<1> SUFFICES ASSUME PageInit PROVE VolumeInv
    OBVIOUS
<1>1. KeptInv
    BY KeptBegins
<1> USE DEF PageInit
<1>2. LevelsTell
    BY DEF LevelsTell
<1>3. OpenedUpTo(0) /\ 0 \in 0..MaxLevels
    BY CapAssumption DEF OpenedUpTo, Number
<1>4. StreamsHeard
    BY DEF StreamsHeard, Waiting
<1>5. LevelsApplied
    BY DEF LevelsApplied
<1> QED BY <1>1, <1>2, <1>3, <1>4, <1>5 DEF VolumeInv

LEMMA VolumeStays == VolumeInv /\ [PageNext]_pageVars => VolumeInv'
<1> SUFFICES ASSUME VolumeInv, [PageNext]_pageVars PROVE VolumeInv'
    OBVIOUS
<1>1. /\ KeptInv /\ LevelsTell /\ (\E k \in 0..MaxLevels : OpenedUpTo(k))
      /\ StreamsHeard /\ LevelsApplied
    BY DEF VolumeInv
<1>2. PageTypeOK /\ LineKnown
    BY <1>1 DEF KeptInv
<1>3. KeptInv'
    BY <1>1, KeptStays
<1>4. LevelsTell'
    BY <1>1, <1>2, LevelsStay
<1>5. \E k \in 0..MaxLevels : OpenedUpTo(k)'
    BY <1>1, <1>2, OpenedStay
<1>6. StreamsHeard'
    BY <1>1, <1>2, HeardStay
<1>7. LevelsApplied'
    BY <1>1, <1>2, AppliedStay
<1> QED BY <1>3, <1>4, <1>5, <1>6, <1>7 DEF VolumeInv

\* A page at rest plays at the host's volume unless one of two messages was lost
\* for good: the newest setting, dropped at a full channel (try_send), or the
\* newest stream's level, overwritten by an older one's that was read later.
THEOREM VolumeFollowsHost == PageSpec => []VolumeExplained
<1>1. VolumeInv => VolumeExplained
    <2> SUFFICES ASSUME VolumeInv, sink = "up", conn = "up", changes > 0, levels = <<>>,
                        appUni = <<>>, \A n \in Number : stream[n] \in {"unsent", "gone"},
                        ~refused, ~(applied < newest)
                 PROVE  volume = hostLevel
        BY DEF VolumeExplained
    <2> USE DEF VolumeInv
    <2>1. player
        BY DEF KeptInv, LineKnown
    <2>2. hostLevel = lastLevel /\ lastLevel # NoLevel
        BY LevelAssumption DEF LevelsTell
    <2>3. PICK k \in 0..MaxLevels : OpenedUpTo(k)
        OBVIOUS
    <2>4. k > 0 /\ k \in Number /\ carries[k] = lastLevel /\ k \in Nat
        <3>1. k # 0 /\ k \in Nat
            BY <2>2, <2>3 DEF OpenedUpTo
        <3> QED BY <2>3, <3>1 DEF OpenedUpTo, Number
    <2>5. k \in handled
        <3>1. stream[k] = "gone"
            BY <2>3, <2>4 DEF OpenedUpTo
        <3>2. Waiting(appUni) = {}
            BY DEF Waiting
        <3> QED BY <2>4, <3>1, <3>2 DEF StreamsHeard
    <2>6. applied \in 0..MaxLevels /\ newest \in 0..MaxLevels
        BY DEF KeptInv, PageTypeOK
    <2>7. k <= newest
        BY <2>1, <2>4, <2>5 DEF LevelsApplied
    <2>8. newest \in Number /\ newest \in handled
        BY <2>4, <2>6, <2>7 DEF LevelsApplied, Number
    <2>9. newest <= k
        BY <2>3, <2>8 DEF StreamsHeard, OpenedUpTo
    <2>10. newest = k /\ applied = k
        BY <2>4, <2>6, <2>7, <2>9 DEF LevelsApplied
    <2>11. volume = carries[k]
        BY <2>4, <2>10 DEF LevelsApplied
    <2> QED BY <2>2, <2>4, <2>11
<1> QED BY <1>1, VolumeBegins, VolumeStays, PTL DEF PageSpec

=============================================================================
