--------------------------- MODULE ConnectionProofs ---------------------------
(***************************************************************************)
(* Proofs about Connection, for any streams, rates and timeouts, and about *)
(* the queues it is built on (WakeQueue).                                  *)
(*                                                                         *)
(* That a session ended for silence had a silent client rests on promptness: *)
(* time passes only while neither pump has anything to do, so between two  *)
(* ticks whatever has reached the server either reaches client_pump or is  *)
(* held up behind a stream that a pump waits for (TickIdle).  QuietInv says *)
(* what the two loops are doing, that a wait which has lasted a tick shows *)
(* in heldUp, and that the deadline is behind the silence, or something is *)
(* still on its way, or a wait explains the difference.                    *)
(*                                                                         *)
(* That an honest client's kick is explained is a count: within a window   *)
(* what has been refused and what is still on its way grow by no more than *)
(* the client sends (WindowBound), so unless more than a keepalive's worth *)
(* was on its way when the count began, there are fewer refusals than kick *)
(* (KickAssumption).                                                       *)
(***************************************************************************)
EXTENDS Connection, WakeQueue, TLAPS

----------------------------------------------------------------------------
\* What the mux and the pump are doing shows in the streams.
StagesMatch ==
    /\ mux = "classifying" => \E x \in Stream : Classifying = {x}
    /\ mux # "classifying" => Classifying = {}
    /\ pump = "reading" => \E x \in Stream : Reading = {x}
    /\ pump # "reading" => Reading = {}
    /\ pump # "over" => reason = "none"
    /\ mux = "over" => ~connected
    /\ pump \in {"select", "reading"} => refusals < KickRefusals

\* A wait that has lasted a tick shows in heldUp.
WaitKnown ==
    /\ pump = "reading" => quiet = 0 \/ heldUp = 0
    /\ mux = "classifying" => muxTimer = 0 \/ heldUp = 0
    /\ pump = "kicking" => quiet = 0

\* Something of webshooter's has reached the server and not yet client_pump.
Underway ==
    \/ buffer # Nothing \/ queue # Nothing \/ Queued # {}
    \/ \E x \in AppStream : stream[x] \in {"announced", "classifying"}

\* The deadline runs no earlier than the silence, but for what a wait has kept.
QuietKnown ==
    pump # "over" =>
        \/ quiet <= silence \/ heldUp < quiet
        \/ quiet < KeepAlive /\ (Underway \/ ~connected)

QuietInv == TypeOK /\ StagesMatch /\ WaitKnown /\ QuietKnown /\ QuietExplained

\* What a window has refused of a client that keeps its cap, with what is on its
\* way to be refused.
WindowBound ==
    honest /\ ~gathered /\ window < KickWindow =>
        refusals + InFlight <= ClientCap * (KeepAlive + window)

KickShows == pump = "kicking" => window < KickWindow /\ refusals = KickRefusals

HonestInv == WindowBound /\ KickShows

----------------------------------------------------------------------------
LEMMA MaxOfTwo ==
    ASSUME NEW a \in Nat, NEW b \in Nat
    PROVE  Max({a, b}) = IF a >= b THEN a ELSE b
<1> DEFINE S == {a, b}
           m == IF a >= b THEN a ELSE b
<1>1. m \in S /\ \A y \in S : m >= y
    OBVIOUS
<1>2. \A x \in S : (\A y \in S : x >= y) => x = m
    OBVIOUS
<1> HIDE DEF m
<1> QED BY <1>1, <1>2 DEF Max

LEMMA MinOfTwo ==
    ASSUME NEW a \in Nat, NEW b \in Nat
    PROVE  Min({a, b}) = IF a <= b THEN a ELSE b
<1> DEFINE S == {a, b}
           m == IF a <= b THEN a ELSE b
<1>1. m \in S /\ \A y \in S : m <= y
    OBVIOUS
<1>2. \A x \in S : (\A y \in S : x <= y) => x = m
    OBVIOUS
<1> HIDE DEF m
<1> QED BY <1>1, <1>2 DEF Min

\* Joining two counts adds their input and forgets no keepalive.
LEMMA JoinParts ==
    ASSUME NEW c \in [Kind -> Nat], NEW d \in [Kind -> Nat]
    PROVE  /\ Join(c, d) \in [Kind -> Nat]
           /\ Join(c, d)["input"] = c["input"] + d["input"]
           /\ d # Nothing => Join(c, d) # Nothing
           /\ c # Nothing => Join(c, d) # Nothing
<1>1. /\ c["input"] \in Nat /\ c["control"] \in Nat
      /\ d["input"] \in Nat /\ d["control"] \in Nat
    BY DEF Kind
<1>2. Max({c["control"], d["control"]})
        = IF c["control"] >= d["control"] THEN c["control"] ELSE d["control"]
    BY <1>1, MaxOfTwo
<1> DEFINE j == Join(c, d)
<1>3. /\ j \in [Kind -> Nat]
      /\ j["input"] = c["input"] + d["input"]
      /\ j["control"] >= c["control"] /\ j["control"] >= d["control"]
    BY <1>1, <1>2 DEF Join, Kind
<1>4. \A f \in [Kind -> Nat] : f = Nothing <=> f["input"] = 0 /\ f["control"] = 0
    BY DEF Nothing, Kind
<1> HIDE DEF j
<1>5. j["input"] \in Nat /\ j["control"] \in Nat
    BY <1>3 DEF Kind
<1> QED BY <1>1, <1>3, <1>4, <1>5 DEF j

LEMMA Counts ==
    ASSUME NEW f \in [Kind -> Nat]
    PROVE  /\ f["input"] \in Nat /\ f["control"] \in Nat
           /\ f = Nothing <=> f["input"] = 0 /\ f["control"] = 0
           /\ Nothing \in [Kind -> Nat] /\ Nothing["input"] = 0
           /\ \A n \in Nat : [f EXCEPT !["input"] = n] \in [Kind -> Nat]
           /\ \A n \in Nat : [f EXCEPT !["control"] = n] \in [Kind -> Nat]
           /\ \A n : [f EXCEPT !["input"] = n]["input"] = n
           /\ \A n : [f EXCEPT !["control"] = n]["input"] = f["input"]
BY DEF Nothing, Kind

\* The arithmetic of rates over times.
LEMMA Times ==
    /\ \A n \in Nat : ClientCap * n \in Nat
    /\ \A n \in Nat : ClientCap * (n + 1) = ClientCap * n + ClientCap
    /\ \A m, n \in Nat : m <= n => ClientCap * m <= ClientCap * n
<1> DEFINE c == ClientCap
<1>1. c \in Nat
    BY RateAssumption
<1> HIDE DEF c
<1>2. \A n \in Nat : c * n \in Nat /\ c * (n + 1) = c * n + c
    BY <1>1
<1>3. ASSUME NEW m \in Nat, NEW n \in Nat, m <= n
      PROVE  c * m <= c * n
    <2>1. PICK k \in Nat : n = m + k
        <3>1. n - m \in Nat /\ n = m + (n - m)
            BY <1>3
        <3> QED BY <3>1
    <2>2. c * n = c * m + c * k /\ c * k \in Nat /\ c * m \in Nat
        BY <1>1, <2>1
    <2> QED BY <2>2
<1> QED BY <1>2, <1>3 DEF c

----------------------------------------------------------------------------
LEMMA InitQuiet == Init => QuietInv
<1> SUFFICES ASSUME Init PROVE QuietInv
    OBVIOUS
<1> USE TimeAssumption, RateAssumption DEF Init
<1>1. Nothing \in [Kind -> Nat]
    BY DEF Nothing
<1>2. TypeOK
    <2>1. stream \in [Stream -> StreamState] /\ bytes \in [Stream -> Bytes]
        BY DEF StreamState, Bytes
    <2>2. /\ muxTimer \in 0..FirstByte /\ {readTimer, quiet} \subseteq 0..KeepAlive
          /\ tokens \in 0..Burst /\ refusals \in 0..KickRefusals /\ window \in 0..KickWindow
          /\ {silence, heldUp} \subseteq 0..KeepAlive
        OBVIOUS
    <2> QED BY <1>1, <2>1, <2>2 DEF TypeOK
<1>3. StagesMatch
    BY DEF StagesMatch, Classifying, Reading
<1>4. WaitKnown /\ QuietKnown /\ QuietExplained
    BY DEF WaitKnown, QuietKnown, QuietExplained
<1> QED BY <1>2, <1>3, <1>4 DEF QuietInv

\* Types, action by action.
LEMMA MuxType ==
    ASSUME TypeOK, Mux
    PROVE  TypeOK'
<1> USE TimeAssumption DEF TypeOK, network, timers, guard, ghosts
<1>1. CASE AcceptUni
    <2>1. stream' \in [Stream -> StreamState]
        BY <1>1 DEF AcceptUni, StreamState
    <2> QED BY <1>1, <2>1 DEF AcceptUni
<1>2. CASE Classify
    <2>1. PICK x \in Classifying :
            stream' = [stream EXCEPT ![x] = CASE bytes[x] = "none" -> "dropped"
                                              [] x \in MoqStream -> "moq"
                                              [] OTHER -> "queued"]
        BY <1>2 DEF Classify
    <2>2. stream' \in [Stream -> StreamState]
        BY <2>1 DEF StreamState
    <2> QED BY <1>2, <2>2 DEF Classify
<1>3. CASE ReceiveDatagram
    <2>1. Nothing \in [Kind -> Nat] /\ Join(queue, buffer) \in [Kind -> Nat]
        BY JoinParts DEF Nothing
    <2> QED BY <1>3, <2>1 DEF ReceiveDatagram
<1>4. CASE MuxEnds
    BY <1>4 DEF MuxEnds
<1> QED BY <1>1, <1>2, <1>3, <1>4 DEF Mux

LEMMA PumpType ==
    ASSUME TypeOK, StagesMatch, Pump \/ KickEnds
    PROVE  TypeOK'
<1> USE TimeAssumption DEF TypeOK, network, timers, guard, ghosts
<1>1. CASE Quiet
    BY <1>1 DEF Quiet, Ends
<1>2. CASE RecvDatagram
    <2>1. queue["input"] \in Nat /\ queue["control"] \in Nat
        BY Counts
    <2>2. refusals < KickRefusals /\ refusals + 1 \in 0..KickRefusals /\ 1 \in 0..KickRefusals
        BY <1>2, RateAssumption DEF RecvDatagram, StagesMatch
    <2>3. queue' \in [Kind -> Nat]
        <3>1. CASE TakeInput
            <4>1. queue["input"] - 1 \in Nat
                BY <2>1, <3>1 DEF TakeInput
            <4> QED BY <3>1, <4>1, Counts DEF TakeInput
        <3>2. CASE TakeControl
            <4>1. queue["control"] - 1 \in Nat
                BY <2>1, <3>2 DEF TakeControl
            <4> QED BY <3>2, <4>1, Counts DEF TakeControl
        <3> QED BY <1>2, <3>1, <3>2 DEF RecvDatagram
    <2>4. /\ tokens' \in 0..Burst /\ refusals' \in 0..KickRefusals /\ window' \in 0..KickWindow
          /\ pump' \in {"select", "reading", "kicking", "over"} /\ gathered' \in BOOLEAN
        <3>1. CASE TakeInput /\ tokens > 0
            <4>1. tokens - 1 \in 0..Burst
                BY <3>1, RateAssumption
            <4> QED BY <3>1, <4>1 DEF TakeInput
        <3>2. CASE TakeInput /\ ~(tokens > 0)
            <4>1. gathered' = IF window = KickWindow THEN Much(InFlight) ELSE gathered
                BY <3>2 DEF TakeInput
            <4>2. gathered' \in BOOLEAN
                <5>1. Much(InFlight) \in BOOLEAN
                    BY SMT DEF Much
                <5>2. gathered \in BOOLEAN
                    OBVIOUS
                <5> QED BY ONLY <4>1, <5>1, <5>2, Zenon
            <4> QED BY <3>2, <2>2, <4>2 DEF TakeInput, Record
        <3>3. CASE TakeControl
            BY <3>3 DEF TakeControl
        <3> QED BY <1>2, <3>1, <3>2, <3>3 DEF RecvDatagram
    <2> QED BY <1>2, <2>3, <2>4 DEF RecvDatagram
<1>3. CASE RecvUnistream
    <2>1. stream' \in [Stream -> StreamState]
        BY <1>3 DEF RecvUnistream, StreamState
    <2> QED BY <1>3, <2>1 DEF RecvUnistream
<1>4. CASE ReadToEnd
    <2>1. stream' \in [Stream -> StreamState]
        BY <1>4 DEF ReadToEnd, StreamState
    <2> QED BY <1>4, <2>1 DEF ReadToEnd
<1>5. CASE QueuesEnd
    BY <1>5 DEF QueuesEnd, Ends
<1>6. CASE KickEnds
    BY <1>6 DEF KickEnds, Ends
<1> QED BY <1>1, <1>2, <1>3, <1>4, <1>5, <1>6 DEF Pump

LEMMA OutsideType ==
    ASSUME TypeOK, Outside
    PROVE  TypeOK'
<1> USE TimeAssumption, RateAssumption DEF TypeOK, network, timers, guard, ghosts
<1>1. Nothing \in [Kind -> Nat] /\ held["input"] \in Nat
    BY Counts
<1>3. CASE Deliver
    <2>1. PICK i \in 0..held["input"], c \in 0..held["control"] :
            LET part == [input |-> i, control |-> c]
            IN  /\ part # Nothing
                /\ held' = [k \in Kind |-> held[k] - part[k]]
                /\ \/ buffer' = Join(buffer, part) /\ silence' = 0
                   \/ UNCHANGED <<buffer, silence>>
        BY <1>3 DEF Deliver
    <2> DEFINE part == [input |-> i, control |-> c]
    <2>2. held["control"] \in Nat
        BY Counts
    <2>3. part \in [Kind -> Nat]
        BY <1>1, <2>2 DEF Kind
    <2>4. \A k \in Kind : held[k] - part[k] \in Nat
        BY <1>1, <2>2 DEF Kind
    <2>5. Join(buffer, part) \in [Kind -> Nat]
        BY <2>3, JoinParts
    <2>6. held' \in [Kind -> Nat] /\ buffer' \in [Kind -> Nat] /\ silence' \in 0..KeepAlive
        BY <2>1, <2>4, <2>5
    <2> QED BY <1>3, <2>6 DEF Deliver
<1>4. CASE Open
    <2>1. stream' \in [Stream -> StreamState] /\ bytes' \in [Stream -> Bytes]
          /\ silence' \in 0..KeepAlive
        BY <1>4 DEF Open, ToCome, Bytes, StreamState, Reaches
    <2> QED BY <1>4, <2>1 DEF Open
<1>5. CASE Arrive
    <2>1. bytes' \in [Stream -> Bytes] /\ silence' \in 0..KeepAlive
        BY <1>5 DEF Arrive, ToCome, Bytes, Reaches
    <2> QED BY <1>5, <2>1 DEF Arrive
<1>6. CASE Lose
    BY <1>6 DEF Lose
<1> QED BY <1>3, <1>4, <1>5, <1>6 DEF Outside

\* What a tick sends.
LEMMA Sent ==
    ASSUME TypeOK, Send
    PROVE  /\ held' \in [Kind -> Nat]
           /\ honest => held'["input"] <= held["input"] + ClientCap
<1>1. PICK i \in {0, Cap} : held' = [input |-> held["input"] + i, control |-> 1]
    BY DEF Send
<1>2. held["input"] \in Nat
    BY Counts DEF TypeOK
<1>3. i \in Nat /\ (honest => i <= ClientCap)
    BY RateAssumption DEF Cap
<1>4. held'["input"] = held["input"] + i /\ held' \in [Kind -> Nat]
    BY <1>1, <1>2, <1>3 DEF Kind
<1> QED BY <1>2, <1>3, <1>4, RateAssumption

LEMMA TickType ==
    ASSUME TypeOK, Tick
    PROVE  TypeOK'
<1> USE TimeAssumption, RateAssumption
<1>1. Min({tokens + Refill, Burst}) \in 0..Burst
    <2>1. tokens + Refill \in Nat /\ Burst \in Nat
        BY DEF TypeOK
    <2> QED BY <2>1, MinOfTwo
<1>2. ASSUME NEW limit \in Nat, NEW t \in 0..limit
      PROVE  Plus(t, limit) \in 0..limit
    BY DEF Plus
<1>3. KeepAlive \in Nat /\ FirstByte \in Nat /\ KickWindow \in Nat
    OBVIOUS
<1>4. /\ muxTimer' \in 0..FirstByte /\ readTimer' \in 0..KeepAlive /\ quiet' \in 0..KeepAlive
      /\ window' \in 0..KickWindow /\ silence' \in 0..KeepAlive /\ heldUp' \in 0..KeepAlive
    BY <1>2, <1>3, SMTT(40) DEF Tick, TypeOK
<1>5. /\ tokens' \in 0..Burst
      /\ UNCHANGED <<connected, stream, bytes, honest, buffer, queue, mux, pump, refusals,
                     reason>>
    BY <1>1 DEF Tick
<1>6. gathered' \in BOOLEAN
    BY DEF Tick
<1>7. held' \in [Kind -> Nat]
    BY Sent DEF Tick
<1> QED BY <1>4, <1>5, <1>6, <1>7 DEF TypeOK

----------------------------------------------------------------------------
\* Which stream is where, action by action.
LEMMA MuxStages ==
    ASSUME TypeOK, StagesMatch, Mux
    PROVE  StagesMatch'
<1> USE DEF network, timers, guard, ghosts
<1>0. stream \in [Stream -> StreamState]
    BY DEF TypeOK
<1>1. CASE AcceptUni
    <2>1. PICK x \in Announced : stream' = [stream EXCEPT ![x] = "classifying"]
        BY <1>1 DEF AcceptUni
    <2>2. x \in Stream /\ stream[x] = "announced"
        BY <2>1 DEF Announced
    <2>3. Classifying = {} /\ mux' = "classifying" /\ mux = "idle"
        BY <1>1 DEF AcceptUni, StagesMatch
    <2>4. Classifying' = {x}
        BY <1>0, <2>1, <2>2, <2>3 DEF Classifying
    <2>5. Reading' = Reading
        BY <1>0, <2>1, <2>2 DEF Reading
    <2>6. UNCHANGED <<connected, pump, refusals, reason>>
        BY <1>1 DEF AcceptUni
    <2> QED BY <2>2, <2>3, <2>4, <2>5, <2>6 DEF StagesMatch
<1>2. CASE Classify
    <2>1. PICK x \in Classifying :
            stream' = [stream EXCEPT ![x] = CASE bytes[x] = "none" -> "dropped"
                                              [] x \in MoqStream -> "moq"
                                              [] OTHER -> "queued"]
        BY <1>2 DEF Classify
    <2>2. x \in Stream /\ stream[x] = "classifying"
        BY <2>1 DEF Classifying
    <2>3. stream'[x] \in {"dropped", "moq", "queued"}
        BY <1>0, <2>1, <2>2
    <2>4. \A y \in Stream : y # x => stream'[y] = stream[y]
        BY <1>0, <2>1
    <2>5. mux = "classifying" /\ mux' = "idle"
        BY <1>2 DEF Classify
    <2>6. Classifying = {x}
        BY <2>1, <2>5 DEF StagesMatch
    <2>7. Classifying' = {}
        BY <2>3, <2>4, <2>6 DEF Classifying
    <2>8. Reading' = Reading
        BY <2>2, <2>3, <2>4 DEF Reading
    <2>9. UNCHANGED <<connected, pump, refusals, reason>>
        BY <1>2 DEF Classify
    <2> QED BY <2>5, <2>7, <2>8, <2>9 DEF StagesMatch
<1>3. CASE ReceiveDatagram
    BY <1>3 DEF ReceiveDatagram, StagesMatch, Classifying, Reading
<1>4. CASE MuxEnds
    BY <1>4 DEF MuxEnds, StagesMatch, Classifying, Reading
<1> QED BY <1>1, <1>2, <1>3, <1>4 DEF Mux

LEMMA PumpStages ==
    ASSUME TypeOK, StagesMatch, Pump \/ KickEnds
    PROVE  StagesMatch'
<1> USE DEF network, timers, guard, ghosts
<1>0. stream \in [Stream -> StreamState]
    BY DEF TypeOK
<1>1. CASE Quiet
    BY <1>1 DEF Quiet, Ends, StagesMatch, Classifying, Reading
<1>2. CASE RecvDatagram
    <2>1. /\ UNCHANGED <<connected, stream, mux, reason>>
          /\ pump = "select"
        BY <1>2 DEF RecvDatagram
    <2>2. pump' = "kicking" \/ (pump' = "select" /\ refusals' < KickRefusals)
        <3>1. refusals < KickRefusals /\ KickRefusals \in Nat \ {0} /\ refusals \in Nat
            BY <2>1, RateAssumption DEF StagesMatch, TypeOK
        <3>2. CASE TakeInput /\ tokens > 0
            BY <2>1, <3>1, <3>2 DEF TakeInput
        <3>3. CASE TakeInput /\ ~(tokens > 0)
            <4>1. refusals' = 1 \/ refusals' = refusals + 1
                BY <3>3 DEF TakeInput, Record
            <4>2. refusals' \in Nat /\ refusals' <= KickRefusals
                BY <3>1, <4>1
            <4>3. pump' = "kicking" \/ (pump' = pump /\ refusals' # KickRefusals)
                BY <3>3 DEF TakeInput
            <4>4. refusals' = KickRefusals \/ refusals' < KickRefusals
                BY <3>1, <4>2
            <4> QED BY <2>1, <4>3, <4>4
        <3>4. CASE TakeControl
            BY <2>1, <3>1, <3>4 DEF TakeControl, guard
        <3> QED BY <1>2, <3>2, <3>3, <3>4 DEF RecvDatagram
    <2> QED BY <2>1, <2>2 DEF StagesMatch, Classifying, Reading
<1>3. CASE RecvUnistream
    <2>1. PICK x \in Queued : stream' = [stream EXCEPT ![x] = "reading"]
        BY <1>3 DEF RecvUnistream
    <2>2. x \in Stream /\ stream[x] = "queued"
        BY <2>1 DEF Queued
    <2>3. /\ UNCHANGED <<connected, mux, reason, refusals>>
          /\ pump = "select" /\ pump' = "reading"
        BY <1>3 DEF RecvUnistream
    <2>4. Reading = {}
        BY <2>3 DEF StagesMatch
    <2>5. Reading' = {x}
        BY <1>0, <2>1, <2>2, <2>4 DEF Reading
    <2>6. Classifying' = Classifying
        BY <1>0, <2>1, <2>2 DEF Classifying
    <2> QED BY <2>2, <2>3, <2>5, <2>6 DEF StagesMatch
<1>4. CASE ReadToEnd
    <2>1. PICK x \in Reading :
            stream' = [stream EXCEPT ![x] = IF bytes[x] = "all" THEN "read" ELSE "dropped"]
        BY <1>4 DEF ReadToEnd
    <2>2. x \in Stream /\ stream[x] = "reading"
        BY <2>1 DEF Reading
    <2>3. /\ UNCHANGED <<connected, mux, reason, refusals>>
          /\ pump = "reading" /\ pump' = "select"
        BY <1>4 DEF ReadToEnd
    <2>4. Reading = {x}
        BY <2>1, <2>3 DEF StagesMatch
    <2>5. Reading' = {}
        BY <1>0, <2>1, <2>2, <2>4 DEF Reading
    <2>6. Classifying' = Classifying
        BY <1>0, <2>1, <2>2 DEF Classifying
    <2> QED BY <2>3, <2>5, <2>6 DEF StagesMatch
<1>5. CASE QueuesEnd
    BY <1>5 DEF QueuesEnd, Ends, StagesMatch, Classifying, Reading
<1>6. CASE KickEnds
    BY <1>6 DEF KickEnds, Ends, StagesMatch, Classifying, Reading
<1> QED BY <1>1, <1>2, <1>3, <1>4, <1>5, <1>6 DEF Pump

LEMMA OutsideStages ==
    ASSUME TypeOK, StagesMatch, Outside
    PROVE  StagesMatch'
<1> USE DEF network, timers, guard, ghosts
<1>2. CASE Deliver
    BY <1>2 DEF Deliver, StagesMatch, Classifying, Reading
<1>3. CASE Open
    <2>1. PICK x \in Stream : stream[x] = "unopened"
                /\ stream' = [stream EXCEPT ![x] = "announced"]
        BY <1>3 DEF Open
    <2>2. Classifying' = Classifying /\ Reading' = Reading
        BY <2>1 DEF Classifying, Reading, TypeOK
    <2> QED BY <1>3, <2>2 DEF Open, StagesMatch
<1>4. CASE Arrive
    BY <1>4 DEF Arrive, StagesMatch, Classifying, Reading
<1>5. CASE Lose
    BY <1>5 DEF Lose, StagesMatch, Classifying, Reading
<1> QED BY <1>2, <1>3, <1>4, <1>5 DEF Outside

LEMMA StagesKept ==
    ASSUME TypeOK, StagesMatch, [Next]_vars
    PROVE  StagesMatch'
<1>1. CASE Tick
    BY <1>1 DEF Tick, StagesMatch, Classifying, Reading
<1>2. CASE UNCHANGED vars
    BY <1>2 DEF vars, network, guard, StagesMatch, Classifying, Reading
<1> QED BY <1>1, <1>2, MuxStages, PumpStages, OutsideStages DEF Next

----------------------------------------------------------------------------
\* The deadline and the silence, action by action.
LEMMA Numbers ==
    TypeOK => /\ {quiet, silence, heldUp, window, muxTimer, refusals} \subseteq Nat
              /\ quiet <= KeepAlive /\ silence <= KeepAlive /\ heldUp <= KeepAlive
              /\ window <= KickWindow /\ muxTimer <= FirstByte
              /\ KeepAlive \in Nat /\ KeepAlive >= 1 /\ FirstByte \in Nat /\ FirstByte >= 1
              /\ KickWindow \in Nat /\ KickWindow >= 1
BY TimeAssumption DEF TypeOK

\* What a pump waits for leaves either nothing to tell or a trace in heldUp.
LEMMA WaitCovers ==
    ASSUME TypeOK, quiet = 0 \/ heldUp = 0
    PROVE  quiet <= silence \/ heldUp < quiet
BY Numbers

LEMMA MuxQuiet ==
    ASSUME QuietInv, Mux
    PROVE  WaitKnown' /\ QuietKnown' /\ QuietExplained'
<1> USE DEF network, timers, guard, ghosts
<1>0. /\ TypeOK /\ StagesMatch /\ WaitKnown /\ QuietKnown
      /\ stream \in [Stream -> StreamState]
    BY DEF QuietInv, TypeOK
<1>1. pump # "over" /\ reason = "none"
    BY <1>0 DEF Mux, StagesMatch
<1>2. UNCHANGED <<pump, quiet, silence, heldUp, reason, connected>>
    BY DEF Mux, AcceptUni, Classify, ReceiveDatagram, MuxEnds
<1>3. QuietExplained'
    BY <1>1, <1>2 DEF QuietExplained
<1>4. WaitKnown'
    <2>1. mux' = "classifying" => muxTimer' = 0
        BY DEF Mux, AcceptUni, Classify, ReceiveDatagram, MuxEnds
    <2> QED BY <1>0, <1>2, <2>1 DEF WaitKnown
<1>5. ASSUME Underway, ~(quiet <= silence \/ heldUp < quiet), connected
      PROVE  Underway'
    <2>1. CASE AcceptUni
        <3>1. PICK x \in Announced : stream' = [stream EXCEPT ![x] = "classifying"]
            BY <2>1 DEF AcceptUni
        <3>2. \A y \in Stream : stream'[y] = IF y = x THEN "classifying" ELSE stream[y]
            BY <1>0, <3>1
        <3>3. x \in Stream /\ stream[x] = "announced"
            BY <3>1 DEF Announced
        <3>4. AppStream \subseteq Stream
            BY DEF Stream
        <3>5. Queued' = Queued
            BY <3>2, <3>3 DEF Queued
        <3>6. UNCHANGED <<buffer, queue>>
            BY <2>1 DEF AcceptUni
        <3> QED BY <1>5, <3>2, <3>4, <3>5, <3>6 DEF Underway
    <2>2. CASE Classify
        <3>1. PICK x \in Classifying :
                /\ Classified(x)
                /\ stream' = [stream EXCEPT ![x] = CASE bytes[x] = "none" -> "dropped"
                                                     [] x \in MoqStream -> "moq"
                                                     [] OTHER -> "queued"]
            BY <2>2 DEF Classify
        <3>2. x \in Stream /\ stream[x] = "classifying" /\ mux = "classifying"
            BY <2>2, <3>1 DEF Classifying, Classify
        <3>3. ~(quiet = 0 \/ heldUp = 0)
            BY <1>0, <1>5, WaitCovers
        <3>4. muxTimer # FirstByte
            BY <1>0, <3>2, <3>3, Numbers DEF WaitKnown
        <3>5. bytes[x] # "none"
            BY <1>5, <3>1, <3>4 DEF Classified
        <3>6. stream'[x] = IF x \in MoqStream THEN "moq" ELSE "queued"
            BY <1>0, <3>1, <3>2, <3>5
        <3>7. \A y \in Stream : y # x => stream'[y] = stream[y]
            BY <1>0, <3>1
        <3>8. UNCHANGED <<buffer, queue>>
            BY <2>2 DEF Classify
        <3>9. AppStream \subseteq Stream /\ (x \in MoqStream => x \notin AppStream)
            BY StreamAssumption DEF Stream
        <3>10. Queued \subseteq Queued'
            BY <3>2, <3>7 DEF Queued
        <3>11. CASE x \in MoqStream
            <4>1. \A y \in AppStream : stream'[y] = stream[y]
                BY <3>7, <3>9, <3>11
            <4> QED BY <1>5, <3>8, <3>10, <4>1 DEF Underway
        <3>12. CASE x \notin MoqStream
            <4>1. x \in Queued'
                BY <3>2, <3>6, <3>12 DEF Queued
            <4> QED BY <4>1 DEF Underway
        <3> QED BY <3>11, <3>12
    <2>3. CASE ReceiveDatagram
        <3>1. queue' # Nothing
            BY <1>0, <2>3, JoinParts DEF ReceiveDatagram, TypeOK
        <3> QED BY <3>1 DEF Underway, Nothing
    <2>4. CASE MuxEnds
        BY <1>5, <2>4 DEF MuxEnds
    <2> QED BY <2>1, <2>2, <2>3, <2>4 DEF Mux
<1>6. QuietKnown'
    BY <1>0, <1>1, <1>2, <1>5 DEF QuietKnown
<1> QED BY <1>3, <1>4, <1>6

LEMMA PumpQuiet ==
    ASSUME QuietInv, Pump \/ KickEnds
    PROVE  WaitKnown' /\ QuietKnown' /\ QuietExplained'
<1> USE DEF network, timers, guard, ghosts
<1>0. TypeOK /\ StagesMatch /\ WaitKnown /\ QuietKnown
    BY DEF QuietInv
<1>1. pump # "over" /\ reason = "none"
    BY <1>0 DEF Pump, KickEnds, Quiet, RecvDatagram, RecvUnistream, ReadToEnd, QueuesEnd,
                StagesMatch
<1>2. CASE Quiet
    <2>1. /\ UNCHANGED <<mux, muxTimer, silence, heldUp>>
          /\ pump' = "over" /\ quiet = KeepAlive
        BY <1>2 DEF Quiet, Ends
    <2>2. silence = KeepAlive \/ heldUp < KeepAlive
        BY <1>0, <1>1, <2>1, Numbers DEF QuietKnown
    <2> QED BY <1>0, <2>1, <2>2 DEF WaitKnown, QuietKnown, QuietExplained
<1>3. CASE RecvDatagram \/ RecvUnistream
    <2>1. /\ UNCHANGED <<mux, muxTimer, silence, heldUp, reason>>
          /\ quiet' = 0
        BY <1>3 DEF RecvDatagram, RecvUnistream
    <2> QED BY <1>0, <1>1, <2>1, Numbers DEF WaitKnown, QuietKnown, QuietExplained
<1>4. CASE ReadToEnd
    <2>1. /\ UNCHANGED <<mux, muxTimer, quiet, silence, heldUp, reason>>
          /\ pump = "reading" /\ pump' = "select"
        BY <1>4 DEF ReadToEnd
    <2>2. quiet <= silence \/ heldUp < quiet
        BY <1>0, <2>1, WaitCovers DEF WaitKnown
    <2> QED BY <1>0, <1>1, <2>1, <2>2 DEF WaitKnown, QuietKnown, QuietExplained
<1>5. CASE QueuesEnd \/ KickEnds
    <2>1. /\ UNCHANGED <<mux, muxTimer, quiet, silence, heldUp>>
          /\ pump' = "over" /\ reason' # "quiet"
        BY <1>5 DEF QueuesEnd, KickEnds, Ends
    <2> QED BY <1>0, <2>1 DEF WaitKnown, QuietKnown, QuietExplained
<1> QED BY <1>2, <1>3, <1>4, <1>5 DEF Pump

LEMMA OutsideQuiet ==
    ASSUME QuietInv, Outside
    PROVE  WaitKnown' /\ QuietKnown' /\ QuietExplained'
<1> USE DEF network, timers, guard, ghosts
<1>0. /\ TypeOK /\ StagesMatch /\ WaitKnown /\ QuietKnown
      /\ stream \in [Stream -> StreamState]
    BY DEF QuietInv, TypeOK
<1>1. pump # "over" /\ reason = "none"
    BY <1>0 DEF Outside, StagesMatch
<1>2. UNCHANGED <<pump, quiet, heldUp, reason, mux, muxTimer, queue>>
    BY DEF Outside, Deliver, Open, Arrive, Lose
<1>3. QuietExplained' /\ WaitKnown'
    BY <1>0, <1>1, <1>2 DEF QuietExplained, WaitKnown
\* Whatever arrives does so before the deadline, or while the pump is busy.
<1>4. quiet < KeepAlive \/ quiet <= 0 \/ heldUp < quiet
    <2>1. pump = "select" => quiet # KeepAlive
        BY DEF Outside
    <2>2. pump = "reading" => quiet <= 0 \/ heldUp < quiet
        BY <1>0, Numbers DEF WaitKnown
    <2>3. pump = "kicking" => quiet <= 0
        BY <1>0, Numbers DEF WaitKnown
    <2>4. pump \in {"select", "reading", "kicking"}
        BY <1>0, <1>1 DEF TypeOK
    <2> QED BY <1>0, <2>1, <2>2, <2>3, <2>4, Numbers
<1>5. silence' \in Nat
    <2>1. TypeOK'
        BY <1>0, OutsideType
    <2> QED BY <2>1, TimeAssumption DEF TypeOK
<1>6. ASSUME Underway' PROVE QuietKnown'
    BY <1>2, <1>4, <1>5, <1>6, <1>0, Numbers DEF QuietKnown
<1>7. ASSUME silence' = silence, Underway => Underway', connected' => connected
      PROVE  QuietKnown'
    BY <1>0, <1>1, <1>2, <1>7 DEF QuietKnown, TypeOK
<1>9. CASE Deliver
    <2>1. UNCHANGED <<stream, connected>>
        BY <1>9 DEF Deliver
    <2>2. PICK i \in 0..held["input"], c \in 0..held["control"] :
            LET part == [input |-> i, control |-> c]
            IN  /\ part # Nothing
                /\ \/ buffer' = Join(buffer, part)
                   \/ UNCHANGED <<buffer, silence>>
        BY <1>9 DEF Deliver
    <2> DEFINE part == [input |-> i, control |-> c]
    <2>3. part \in [Kind -> Nat] /\ buffer \in [Kind -> Nat]
        <3>1. held["input"] \in Nat /\ held["control"] \in Nat
            BY <1>0, Counts DEF TypeOK
        <3> QED BY <1>0, <3>1 DEF Kind, TypeOK
    <2>4. CASE buffer' = Join(buffer, part)
        <3>1. buffer' # Nothing
            BY <2>2, <2>3, <2>4, JoinParts
        <3>2. Underway'
            BY <3>1 DEF Underway, Nothing
        <3> QED BY <1>3, <1>6, <3>2
    <2>5. CASE UNCHANGED <<buffer, silence>>
        <3>1. Underway' <=> Underway
            BY <1>2, <2>1, <2>5 DEF Underway, Queued
        <3> QED BY <1>3, <1>7, <2>1, <2>5, <3>1
    <2> QED BY <2>2, <2>4, <2>5
<1>10. CASE Open
    <2>1. PICK x \in Stream :
            /\ stream[x] = "unopened"
            /\ stream' = [stream EXCEPT ![x] = "announced"]
            /\ Reaches(x)
        BY <1>10 DEF Open
    <2>2. \A y \in Stream : stream'[y] = IF y = x THEN "announced" ELSE stream[y]
        BY <1>0, <2>1
    <2>3. AppStream \subseteq Stream
        BY DEF Stream
    <2>4. UNCHANGED <<buffer, queue, connected>>
        BY <1>10 DEF Open
    <2>5. CASE x \in AppStream
        <3>1. Underway'
            BY <2>2, <2>3, <2>5 DEF Underway
        <3> QED BY <1>3, <1>6, <3>1
    <2>6. CASE x \notin AppStream
        <3>1. Queued' = Queued
            BY <2>1, <2>2 DEF Queued
        <3>2. Underway => Underway'
            BY <2>1, <2>2, <2>3, <2>4, <3>1 DEF Underway
        <3>3. silence' = silence
            BY <2>1, <2>6 DEF Reaches
        <3> QED BY <1>3, <1>7, <2>4, <3>2, <3>3
    <2> QED BY <2>5, <2>6
<1>11. CASE Arrive
    <2>1. PICK x \in Stream :
            /\ stream[x] \in {"announced", "classifying", "queued", "reading"}
            /\ Reaches(x)
        BY <1>11 DEF Arrive
    <2>2. UNCHANGED <<buffer, queue, connected, stream>>
        BY <1>11 DEF Arrive
    <2>3. Underway' <=> Underway
        BY <2>2 DEF Underway, Queued
    <2>4. CASE x \in AppStream /\ stream[x] = "reading"
        <3>1. pump = "reading"
            BY <1>0, <2>1, <2>4 DEF StagesMatch, Reading
        <3>2. quiet <= 0 \/ heldUp < quiet
            BY <1>0, <3>1, Numbers DEF WaitKnown
        <3> QED BY <1>0, <1>2, <1>3, <1>5, <3>2, Numbers DEF QuietKnown
    <2>5. CASE x \in AppStream /\ stream[x] # "reading"
        <3>1. Underway
            BY <2>1, <2>5 DEF Underway, Queued
        <3> QED BY <1>3, <1>6, <2>3, <3>1
    <2>6. CASE x \notin AppStream
        <3>1. silence' = silence
            BY <2>1, <2>6 DEF Reaches
        <3> QED BY <1>3, <1>7, <2>2, <2>3, <3>1
    <2> QED BY <2>4, <2>5, <2>6
<1>12. CASE Lose
    <2>1. Underway' <=> Underway
        BY <1>12 DEF Lose, Underway, Queued
    <2> QED BY <1>3, <1>7, <1>12, <2>1 DEF Lose
<1> QED BY <1>9, <1>10, <1>11, <1>12 DEF Outside

\* Time passes only while nothing of webshooter's is on its way to client_pump.
LEMMA TickIdle ==
    ASSUME QuietInv, Tick
    PROVE  /\ connected /\ pump \in {"select", "reading"}
           /\ ~Waiting => /\ pump = "select" /\ quiet < KeepAlive /\ ~Underway
                          /\ buffer = Nothing /\ queue = Nothing
<1>0. TypeOK /\ StagesMatch
    BY DEF QuietInv
<1>1. ~MuxReady /\ ~PumpReady /\ pump \in {"select", "reading"}
    BY <1>0 DEF Tick, TypeOK
<1>2. mux = "classifying" => \E x \in Classifying : TRUE
    BY <1>0 DEF StagesMatch
<1>3. pump = "reading" => \E x \in Reading : TRUE
    BY <1>0 DEF StagesMatch
<1>4. connected
    BY <1>0, <1>1, <1>2, <1>3 DEF MuxReady, PumpReady, Classified, ReadOver, TypeOK
<1>5. ASSUME ~Waiting
      PROVE  /\ pump = "select" /\ quiet < KeepAlive /\ ~Underway
             /\ buffer = Nothing /\ queue = Nothing
    <2>1. pump = "select" /\ mux = "idle"
        BY <1>0, <1>1, <1>4, <1>5 DEF Waiting, TypeOK, StagesMatch
    <2>2. /\ buffer = Nothing /\ Announced = {} /\ queue = Nothing /\ Queued = {}
          /\ quiet # KeepAlive
        BY <1>1, <2>1 DEF MuxReady, PumpReady
    <2>3. Classifying = {}
        BY <1>0, <2>1 DEF StagesMatch
    <2>4. \A x \in AppStream : stream[x] \notin {"announced", "classifying"}
        BY <2>2, <2>3 DEF Announced, Classifying, Stream
    <2> QED BY <1>0, <2>1, <2>2, <2>4, Numbers DEF Underway
<1> QED BY <1>1, <1>4, <1>5

LEMMA TickQuiet ==
    ASSUME QuietInv, Tick
    PROVE  WaitKnown' /\ QuietKnown' /\ QuietExplained'
<1>0. TypeOK /\ StagesMatch /\ WaitKnown /\ QuietKnown
    BY DEF QuietInv
<1>1. pump # "over" /\ reason = "none" /\ UNCHANGED <<pump, reason, mux>>
    BY <1>0 DEF Tick, StagesMatch
<1>2. /\ quiet' = Plus(quiet, KeepAlive) /\ silence' = Plus(silence, KeepAlive)
      /\ heldUp' = IF Waiting THEN 0 ELSE Plus(heldUp, KeepAlive)
    BY DEF Tick
<1>3. QuietExplained'
    BY <1>1 DEF QuietExplained
<1>4. CASE Waiting
    <2>1. heldUp' = 0 /\ quiet' >= 1 /\ quiet' \in Nat
        BY <1>0, <1>2, <1>4, Numbers DEF Plus
    <2>2. pump' # "kicking"
        BY <1>1, TickIdle
    <2> QED BY <1>3, <2>1, <2>2 DEF WaitKnown, QuietKnown
<1>5. CASE ~Waiting
    <2>1. /\ pump = "select" /\ quiet < KeepAlive /\ ~Underway /\ connected
        BY <1>5, TickIdle
    <2>2. quiet <= silence \/ heldUp < quiet
        BY <1>0, <1>1, <2>1 DEF QuietKnown
    <2>3. quiet' <= silence' \/ heldUp' < quiet'
        BY <1>0, <1>2, <1>5, <2>1, <2>2, Numbers DEF Plus
    <2>4. mux' # "classifying" /\ pump' = "select"
        BY <1>1, <1>5, <2>1 DEF Waiting
    <2> QED BY <1>3, <2>3, <2>4 DEF WaitKnown, QuietKnown
<1> QED BY <1>4, <1>5

LEMMA TypeKept ==
    ASSUME TypeOK, StagesMatch, [Next]_vars
    PROVE  TypeOK'
<1>1. CASE UNCHANGED vars
    BY <1>1 DEF vars, network, timers, guard, ghosts, TypeOK
<1> QED BY <1>1, MuxType, PumpType, OutsideType, TickType DEF Next

LEMMA QuietKept ==
    ASSUME QuietInv, [Next]_vars
    PROVE  QuietInv'
<1>0. TypeOK /\ StagesMatch
    BY DEF QuietInv
<1>1. TypeOK' /\ StagesMatch'
    BY <1>0, TypeKept, StagesKept
<1>2. CASE UNCHANGED vars
    BY <1>1, <1>2 DEF vars, network, timers, guard, ghosts, QuietInv, WaitKnown, QuietKnown,
                      QuietExplained, Underway, Queued
<1>3. WaitKnown' /\ QuietKnown' /\ QuietExplained'
    BY <1>2, MuxQuiet, PumpQuiet, OutsideQuiet, TickQuiet DEF Next, QuietInv
<1> QED BY <1>1, <1>3 DEF QuietInv

\* A session that client_pump (server/src/wt.rs) ends for silence has heard
\* nothing of its client for KEEPALIVE_TIMEOUT: whatever reaches the server in
\* time is handed on by the mux pump and puts the deadline off, unless one of the
\* two loops was itself waiting for the bytes of a stream within that time.
THEOREM SilenceIsTrue == Spec => []QuietExplained
<1>1. Init => QuietInv
    BY InitQuiet
<1>2. QuietInv /\ [Next]_vars => QuietInv'
    BY QuietKept
<1>3. QuietInv => QuietExplained
    BY DEF QuietInv
<1> QED BY <1>1, <1>2, <1>3, PTL DEF Spec

----------------------------------------------------------------------------
\* A client that keeps its cap.
LEMMA Flights ==
    TypeOK => /\ {held["input"], buffer["input"], queue["input"]} \subseteq Nat
              /\ InFlight \in Nat
<1> SUFFICES ASSUME TypeOK
             PROVE  /\ {held["input"], buffer["input"], queue["input"]} \subseteq Nat
                    /\ InFlight \in Nat
    OBVIOUS
<1>1. held["input"] \in Nat /\ buffer["input"] \in Nat /\ queue["input"] \in Nat
    BY Counts DEF TypeOK
<1> QED BY <1>1 DEF InFlight

LEMMA InitHonest == Init => HonestInv
<1> SUFFICES ASSUME Init PROVE HonestInv
    OBVIOUS
<1>1. /\ held["input"] = 0 /\ buffer["input"] = 0 /\ queue["input"] = 0
      /\ window = 0 /\ refusals = 0 /\ pump = "select"
    BY DEF Init, Nothing, Kind
<1>2. ClientCap * (KeepAlive + window) \in Nat
    BY <1>1, TimeAssumption, Times
<1>3. refusals + InFlight = 0
    BY <1>1 DEF InFlight
<1> HIDE DEF Init
<1>4. WindowBound
    BY <1>2, <1>3 DEF WindowBound
<1> QED BY <1>1, <1>4 DEF HonestInv, KickShows

\* A step that puts nothing more on its way and refuses nothing.
LEMMA NothingMore ==
    ASSUME WindowBound, KickShows, TypeOK, TypeOK',
           UNCHANGED <<honest, gathered, window, refusals>>,
           pump' = "kicking" => pump = "kicking", InFlight' <= InFlight
    PROVE  HonestInv'
<1>1. ClientCap * (KeepAlive + window) \in Nat
    <2>1. KeepAlive + window \in Nat
        BY Numbers
    <2> QED BY <2>1, Times
<1>2. InFlight \in Nat /\ refusals \in Nat
    BY Flights, Numbers
<1>3. InFlight' \in Nat
    <2>1. {held', buffer', queue'} \subseteq [Kind -> Nat]
        BY DEF TypeOK
    <2>2. held'["input"] \in Nat /\ buffer'["input"] \in Nat /\ queue'["input"] \in Nat
        BY <2>1, Counts
    <2> QED BY <2>2 DEF InFlight
<1>4. \A a, b, c, d \in Nat : b <= c => (a + c <= d => a + b <= d)
    OBVIOUS
<1> DEFINE b == ClientCap * (KeepAlive + window)
<1>5. WindowBound'
    <2>1. honest /\ ~gathered /\ window < KickWindow => refusals + InFlight <= b
        BY DEF WindowBound
    <2>2. b \in Nat
        BY <1>1
    <2>3. b' = b
        OBVIOUS
    <2>4. b' = ClientCap * (KeepAlive + window')
        OBVIOUS
    <2> HIDE DEF b
    <2>5. honest /\ ~gathered /\ window < KickWindow => refusals + InFlight' <= b
        BY ONLY InFlight' <= InFlight, <1>2, <1>3, <1>4, <2>1, <2>2
    <2> QED BY <2>3, <2>4, <2>5 DEF WindowBound
<1>6. KickShows'
    BY DEF KickShows
<1> QED BY <1>5, <1>6 DEF HonestInv

LEMMA MuxHonest ==
    ASSUME TypeOK, TypeOK', HonestInv, Mux
    PROVE  HonestInv'
<1> USE DEF network, timers, guard, ghosts
<1>1. UNCHANGED <<honest, gathered, pump, window, refusals, held>>
    BY DEF Mux, AcceptUni, Classify, ReceiveDatagram, MuxEnds
<1>2. InFlight' = InFlight
    <2>1. CASE ReceiveDatagram
        <3>1. queue'["input"] = queue["input"] + buffer["input"]
            BY <2>1, JoinParts DEF ReceiveDatagram, TypeOK
        <3>2. buffer'["input"] = 0
            BY <2>1 DEF ReceiveDatagram, Nothing, Kind
        <3> QED BY <1>1, <3>1, <3>2, Flights DEF InFlight
    <2>2. CASE AcceptUni \/ Classify \/ MuxEnds
        BY <1>1, <2>2 DEF AcceptUni, Classify, MuxEnds, InFlight
    <2> QED BY <2>1, <2>2 DEF Mux
<1>3. InFlight' <= InFlight
    BY <1>2, Flights
<1> QED BY <1>1, <1>3, NothingMore DEF HonestInv

\* Enough refusals for a kick are more than a keepalive and a window bring.
LEMMA TooFew ==
    ASSUME NEW f \in Nat, NEW w \in Nat, w < KickWindow,
           KickRefusals + f <= ClientCap * (KeepAlive + w)
    PROVE  FALSE
<1> DEFINE a == KeepAlive + w
           b == KeepAlive + KickWindow - 1
<1>1. a \in Nat /\ b \in Nat /\ a <= b
    BY TimeAssumption
<1>2. ClientCap * a <= ClientCap * b /\ ClientCap * a \in Nat /\ ClientCap * b \in Nat
    BY <1>1, Times
<1>3. ClientCap * b < KickRefusals /\ KickRefusals \in Nat
    BY KickAssumption, RateAssumption
<1>4. KickRefusals + f <= ClientCap * a
    OBVIOUS
<1> DEFINE x == ClientCap * a
           y == ClientCap * b
<1> HIDE DEF x, y
<1>5. x <= y /\ x \in Nat /\ y \in Nat /\ y < KickRefusals /\ KickRefusals + f <= x
    BY <1>2, <1>3, <1>4 DEF x, y
<1> QED BY <1>3, <1>5

\* A datagram taken is one fewer on its way, and one more refused at most; a
\* count begins with what is on its way at the time.
LEMMA RecvHonest ==
    ASSUME TypeOK, TypeOK', StagesMatch, HonestInv, RecvDatagram
    PROVE  HonestInv'
<1>1. UNCHANGED <<held, buffer, honest>> /\ pump = "select"
    BY DEF RecvDatagram, network
<1>2. queue["input"] \in Nat /\ queue \in [Kind -> Nat] /\ InFlight \in Nat
      /\ refusals \in Nat /\ window \in Nat /\ window <= KickWindow /\ KickWindow \in Nat
      /\ KickWindow >= 1 /\ KeepAlive \in Nat
      /\ held["input"] \in Nat /\ buffer["input"] \in Nat
    BY Counts, Flights, Numbers DEF TypeOK
<1>3. WindowBound /\ KickShows
    BY DEF HonestInv
<1>4. CASE TakeControl
    <2>1. queue'["input"] = queue["input"] /\ UNCHANGED <<refusals, window, pump, gathered>>
        BY <1>2, <1>4 DEF TakeControl, guard, Kind
    <2>2. InFlight' = InFlight
        BY <1>1, <2>1 DEF InFlight
    <2>3. InFlight' <= InFlight
        BY <1>2, <2>2
    <2> QED BY <1>1, <1>3, <2>1, <2>3, NothingMore
<1>5. CASE TakeInput
    <2>1. queue'["input"] = queue["input"] - 1 /\ queue["input"] > 0
        BY <1>2, <1>5 DEF TakeInput, Kind
    <2>2. InFlight' = InFlight - 1 /\ InFlight >= 1
        BY <1>1, <1>2, <2>1 DEF InFlight
    <2>3. CASE tokens > 0
        <3>1. UNCHANGED <<refusals, window, pump, gathered>>
            BY <1>5, <2>3 DEF TakeInput
        <3>2. InFlight' <= InFlight
            BY <1>2, <2>2
        <3> QED BY <1>1, <1>3, <3>1, <3>2, NothingMore
    <2>4. CASE ~(tokens > 0)
        <3>1. /\ Record
              /\ pump' = IF refusals' = KickRefusals THEN "kicking" ELSE pump
              /\ gathered' = IF window = KickWindow THEN Much(InFlight) ELSE gathered
            BY <1>5, <2>4 DEF TakeInput
        <3>2. CASE window = KickWindow
            <4>1. refusals' = 1 /\ window' = 0 /\ gathered' = Much(InFlight)
                BY <3>1, <3>2 DEF Record
            <4>2. refusals' + InFlight' = InFlight
                BY <1>2, <2>2, <4>1
            <4>3. KeepAlive + window' = KeepAlive /\ window' < KickWindow
                BY <1>2, <4>1
            <4>4. ClientCap * KeepAlive \in Nat
                BY <1>2, Times
            <4>5. ~gathered' => InFlight <= ClientCap * KeepAlive
                <5> DEFINE x == ClientCap * KeepAlive
                <5>1. x \in Nat
                    BY <4>4
                <5>2. gathered' = (InFlight > x)
                    BY <4>1 DEF Much
                <5> HIDE DEF x
                <5>3. \A m, n \in Nat : ~(m > n) => m <= n
                    OBVIOUS
                <5>4. ~gathered' => ~(InFlight > x)
                    BY <5>2, Zenon
                <5>5. ~gathered' => InFlight <= x
                    BY <1>2, <5>1, <5>3, <5>4
                <5> QED BY <5>5 DEF x
            <4>6. WindowBound'
                BY <4>2, <4>3, <4>5 DEF WindowBound
            <4>7. KickShows'
                BY <1>1, <3>1, <4>3 DEF KickShows
            <4> QED BY <4>6, <4>7 DEF HonestInv
        <3>3. CASE window # KickWindow
            <4>1. refusals' = refusals + 1 /\ window' = window /\ gathered' = gathered
                BY <3>1, <3>3 DEF Record
            <4>2. refusals' + InFlight' = refusals + InFlight
                BY <1>2, <2>2, <4>1
            <4>3. WindowBound'
                BY <1>1, <1>3, <4>1, <4>2 DEF WindowBound
            <4>4. window' < KickWindow
                BY <1>2, <3>3, <4>1
            <4>5. KickShows'
                BY <1>1, <3>1, <4>4 DEF KickShows
            <4> QED BY <4>3, <4>5 DEF HonestInv
        <3> QED BY <3>2, <3>3
    <2> QED BY <2>3, <2>4
<1> QED BY <1>4, <1>5 DEF RecvDatagram

LEMMA PumpHonest ==
    ASSUME TypeOK, TypeOK', StagesMatch, HonestInv, Pump \/ KickEnds
    PROVE  HonestInv'
<1> USE DEF network, timers, guard, ghosts
<1>1. CASE Quiet \/ QueuesEnd \/ KickEnds \/ RecvUnistream \/ ReadToEnd
    <2>1. UNCHANGED <<honest, gathered, window, refusals, held, buffer, queue>>
          /\ pump' # "kicking"
        BY <1>1 DEF Quiet, QueuesEnd, KickEnds, RecvUnistream, ReadToEnd, Ends
    <2>2. InFlight' <= InFlight
        BY <2>1, Flights DEF InFlight
    <2> QED BY <2>1, <2>2, NothingMore DEF HonestInv
<1> QED BY <1>1, RecvHonest DEF Pump

LEMMA OutsideHonest ==
    ASSUME TypeOK, TypeOK', HonestInv, Outside
    PROVE  HonestInv'
<1> USE DEF network, timers, guard, ghosts
<1>1. UNCHANGED <<honest, gathered, pump, window, refusals, queue>>
    BY DEF Outside, Deliver, Open, Arrive, Lose
<1>2. InFlight' <= InFlight
    <2>1. CASE Deliver
        <3>1. PICK i \in 0..held["input"], c \in 0..held["control"] :
                LET part == [input |-> i, control |-> c]
                IN  /\ held' = [k \in Kind |-> held[k] - part[k]]
                    /\ buffer' = Join(buffer, part) \/ buffer' = buffer
            BY <2>1 DEF Deliver
        <3> DEFINE part == [input |-> i, control |-> c]
        <3>2. held["input"] \in Nat /\ held["control"] \in Nat
            BY Counts DEF TypeOK
        <3>3. part \in [Kind -> Nat] /\ part["input"] = i /\ i \in Nat
            BY <3>2 DEF Kind
        <3>4. held'["input"] = held["input"] - i
            BY <3>1, <3>3 DEF Kind
        <3>5. buffer \in [Kind -> Nat]
            BY DEF TypeOK
        <3>6. Join(buffer, part)["input"] = buffer["input"] + i
            BY <3>3, <3>5, JoinParts
        <3>7. buffer'["input"] = buffer["input"] + i \/ buffer'["input"] = buffer["input"]
            BY <3>1, <3>6
        <3> QED BY <1>1, <3>2, <3>3, <3>4, <3>7, Flights DEF InFlight
    <2>2. CASE Open \/ Arrive \/ Lose
        BY <1>1, <2>2, Flights DEF Open, Arrive, Lose, InFlight
    <2> QED BY <2>1, <2>2 DEF Outside
<1> QED BY <1>1, <1>2, NothingMore DEF HonestInv

\* A tick brings what the client sends in it.
LEMMA TickHonest ==
    ASSUME TypeOK, TypeOK', HonestInv, Tick
    PROVE  HonestInv'
<1>1. /\ UNCHANGED <<honest, pump, buffer, queue, refusals>> /\ pump # "kicking"
      /\ window' = Plus(window, KickWindow)
      /\ gathered' = (gathered /\ window' < KickWindow)
    BY DEF Tick
<1>2. KickShows'
    BY <1>1 DEF KickShows
<1>3. WindowBound'
    <2>1. SUFFICES ASSUME honest', ~gathered', window' < KickWindow
                   PROVE  refusals' + InFlight' <= ClientCap * (KeepAlive + window')
        BY DEF WindowBound
    <2>2. honest /\ ~gathered
        BY <1>1, <2>1 DEF TypeOK
    <2>3. /\ {refusals, window, KeepAlive, KickWindow, InFlight} \subseteq Nat
          /\ window <= KickWindow /\ ClientCap \in Nat
          /\ held["input"] \in Nat /\ buffer["input"] \in Nat /\ queue["input"] \in Nat
        BY Numbers, Flights, RateAssumption
    <2>4. window' = window + 1 /\ window < KickWindow
        BY <1>1, <2>1, <2>3 DEF Plus
    <2>5. held'["input"] <= held["input"] + ClientCap /\ held'["input"] \in Nat
        <3>1. held' \in [Kind -> Nat]
            BY DEF TypeOK
        <3>2. held'["input"] \in Nat
            BY <3>1, Counts
        <3> QED BY <2>2, <3>2, Sent DEF Tick
    <2>6. InFlight' <= InFlight + ClientCap /\ InFlight' \in Nat
        BY <1>1, <2>3, <2>5 DEF InFlight
    <2>7. KeepAlive + window \in Nat /\ KeepAlive + window' = (KeepAlive + window) + 1
        BY <2>3, <2>4
    <2> DEFINE x == ClientCap * (KeepAlive + window)
    <2>8. x \in Nat /\ ClientCap * (KeepAlive + window') = x + ClientCap
        BY <2>7, Times
    <2>9. refusals + InFlight <= x
        BY <2>2, <2>4 DEF HonestInv, WindowBound
    <2> HIDE DEF x
    <2>10. refusals + InFlight' <= x + ClientCap
        BY <2>3, <2>6, <2>8, <2>9
    <2> QED BY <1>1, <2>8, <2>10
<1> QED BY <1>2, <1>3 DEF HonestInv

LEMMA HonestKept ==
    ASSUME QuietInv, TypeOK', HonestInv, [Next]_vars
    PROVE  HonestInv'
<1>1. TypeOK /\ StagesMatch
    BY DEF QuietInv
<1>2. CASE UNCHANGED vars
    BY <1>2 DEF vars, network, timers, guard, ghosts, HonestInv, WindowBound, KickShows,
                InFlight
<1> QED BY <1>1, <1>2, MuxHonest, PumpHonest, OutsideHonest, TickHonest DEF Next

\* A client that keeps to INPUT_MIN_INTERVAL_MS is kicked for a flood (FloodKick
\* in server/src/wt.rs) only when more of its input than it sends in
\* KEEPALIVE_TIMEOUT was on its way at once as the count of refusals began,
\* however the network delays, drops and releases what it sends.
THEOREM HonestClientsStay == Spec => []HonestKickExplained
<1>1. Init => QuietInv /\ HonestInv
    BY InitQuiet, InitHonest
<1>2. QuietInv /\ HonestInv /\ [Next]_vars => QuietInv' /\ HonestInv'
    <2>1. QuietInv' => TypeOK'
        BY DEF QuietInv
    <2> QED BY <2>1, QuietKept, HonestKept
<1>3. QuietInv /\ HonestInv => HonestKickExplained
    <2>1. ASSUME QuietInv, HonestInv, honest, pump = "kicking", ~gathered
          PROVE  FALSE
        <3>1. window < KickWindow /\ refusals = KickRefusals
            BY <2>1 DEF HonestInv, KickShows
        <3>2. KickRefusals + InFlight <= ClientCap * (KeepAlive + window)
            BY <2>1, <3>1 DEF HonestInv, WindowBound
        <3>3. InFlight \in Nat /\ window \in Nat
            BY <2>1, Flights, Numbers DEF QuietInv
        <3> QED BY <3>1, <3>2, <3>3, TooFew
    <2> QED BY <2>1 DEF HonestKickExplained
<1> QED BY <1>1, <1>2, <1>3, PTL DEF Spec

----------------------------------------------------------------------------
(***************************************************************************)
(* One of the four queues between the pumps, for any messages, producers   *)
(* and consumers.  Nobody is registered while there is something to be     *)
(* had: push and close take the whole list with the lock held, and a poll  *)
(* registers only when it has found neither an item nor the close.  A      *)
(* consumer that waits then has its wake in flight.                        *)
(***************************************************************************)
NobodyRegistered == items # <<>> \/ closed => wakers = {}

ParkedIsKnown ==
    \A c \in Consumer : state[c] = "parked" => c \in wakers \/ WakeInFlight(c)

WakersInv == QueueTypeOK /\ NobodyRegistered /\ ParkedIsKnown

----------------------------------------------------------------------------
LEMMA WakersInit == QueueInit => WakersInv
<1> SUFFICES ASSUME QueueInit PROVE WakersInv
    OBVIOUS
<1>1. waking \in [Producer -> SUBSET Consumer]
    BY DEF QueueInit
<1>2. state \in [Consumer -> State] /\ \A c \in Consumer : state[c] # "parked"
    BY DEF QueueInit, State
<1>3. items \in Seq(Item)
    BY DEF QueueInit
<1>4. QueueTypeOK
    BY <1>1, <1>2, <1>3 DEF QueueInit, QueueTypeOK
<1> QED BY <1>2, <1>4 DEF QueueInit, WakersInv, NobodyRegistered, ParkedIsKnown

\* push and close: whoever is parked is among the wakers taken, or was already
\* to be woken by another call.
LEMMA WakersTaken ==
    ASSUME WakersInv, NEW p \in Producer, Returned(p),
           waking' = [waking EXCEPT ![p] = wakers], wakers' = {}, UNCHANGED state
    PROVE  ParkedIsKnown'
BY DEF WakersInv, QueueTypeOK, Returned, ParkedIsKnown, WakeInFlight

LEMMA WakersProducer ==
    ASSUME WakersInv, NEW p \in Producer, ProducerNext(p)
    PROVE  WakersInv'
<1> USE DEF WakersInv
<1>1. ASSUME NEW i \in Item, Push(p, i)
      PROVE  WakersInv'
    <2>1. CASE closed
        BY <1>1, <2>1 DEF Push, QueueTypeOK, NobodyRegistered, ParkedIsKnown,
                            WakeInFlight
    <2>2. CASE ~closed
        <3>1. /\ waking' = [waking EXCEPT ![p] = wakers] /\ wakers' = {}
              /\ items' = Append(items, i) /\ pushed' = pushed \cup {i}
              /\ Returned(p) /\ UNCHANGED <<closed, state>>
            BY <1>1, <2>2 DEF Push, Taken
        <3>2. QueueTypeOK'
            BY <3>1 DEF QueueTypeOK
        <3>3. ParkedIsKnown'
            BY <3>1, WakersTaken
        <3>4. NobodyRegistered'
            BY <3>1 DEF NobodyRegistered
        <3> QED BY <3>2, <3>3, <3>4
    <2> QED BY <2>1, <2>2
<1>2. CASE Close(p)
    <2>1. QueueTypeOK'
        BY <1>2 DEF Close, QueueTypeOK
    <2>2. ParkedIsKnown'
        BY <1>2, WakersTaken DEF Close
    <2>3. NobodyRegistered'
        BY <1>2 DEF Close, NobodyRegistered
    <2> QED BY <2>1, <2>2, <2>3
<1>3. ASSUME NEW c \in Consumer, Wake(p, c)
      PROVE  WakersInv'
    <2>1. QueueTypeOK'
        BY <1>3 DEF Wake, QueueTypeOK, State
    <2>2. NobodyRegistered'
        BY <1>3 DEF Wake, NobodyRegistered
    <2>3. ParkedIsKnown'
        BY <1>3 DEF Wake, QueueTypeOK, ParkedIsKnown, WakeInFlight
    <2> QED BY <2>1, <2>2, <2>3
<1> QED BY <1>1, <1>2, <1>3 DEF ProducerNext

LEMMA WakersConsumer ==
    ASSUME WakersInv, NEW c \in Consumer,
           Await(c) \/ Poll(c) \/ PolledAnyway(c) \/ GiveUp(c)
    PROVE  WakersInv'
<1> USE DEF WakersInv, NobodyRegistered, ParkedIsKnown, WakeInFlight
<1>1. CASE Await(c)
    BY <1>1 DEF Await, QueueTypeOK, State
<1>2. CASE PollItem(c)
    <2>1. items' \in Seq(Item)
        BY <1>2 DEF PollItem, QueueTypeOK
    <2> QED BY <1>2, <2>1 DEF PollItem, QueueTypeOK, State
<1>3. CASE PollEnd(c)
    BY <1>3 DEF PollEnd, QueueTypeOK, State
<1>4. CASE PollPending(c)
    BY <1>4 DEF PollPending,
                    QueueTypeOK, State
<1>5. CASE PolledAnyway(c)
    BY <1>5 DEF PolledAnyway, QueueTypeOK, State
<1>6. CASE GiveUp(c)
    BY <1>6 DEF GiveUp, QueueTypeOK, State
<1> QED BY <1>1, <1>2, <1>3, <1>4, <1>5, <1>6 DEF Poll

LEMMA WakersNext == WakersInv /\ [QueueNext]_queueVars => WakersInv'
<1> SUFFICES ASSUME WakersInv, [QueueNext]_queueVars PROVE WakersInv'
    OBVIOUS
<1>1. CASE UNCHANGED queueVars
    BY <1>1 DEF queueVars, WakersInv, QueueTypeOK, NobodyRegistered, ParkedIsKnown,
                WakeInFlight
<1>2. CASE QueueNext
    BY <1>2, WakersProducer, WakersConsumer DEF QueueNext
<1> QED BY <1>1, <1>2

LEMMA WakersInductive == QueueSafety => []WakersInv
BY WakersInit, WakersNext, PTL DEF QueueSafety

\* No wake-up is lost: a consumer that waits while there is an item, or after
\* the close, is about to be woken.
THEOREM NoWakeupIsLost == QueueSafety => []NoLostWakeup
<1>1. WakersInv => NoLostWakeup
    BY DEF WakersInv, NobodyRegistered, ParkedIsKnown, NoLostWakeup
<1> QED BY <1>1, WakersInductive, PTL

----------------------------------------------------------------------------
LEMMA FifoInit == QueueInit => Fifo!Init
BY DEF QueueInit, Fifo!Init

\* Each step of the queue is a step of the abstract one, or none of its
\* business.
LEMMA FifoStep == QueueTypeOK /\ [QueueNext]_queueVars => [Fifo!Next]_Fifo!vars
<1> SUFFICES ASSUME QueueTypeOK, [QueueNext]_queueVars
             PROVE  [Fifo!Next]_Fifo!vars
    OBVIOUS
<1> DEFINE told == {c \in Consumer : state[c] = "ended"}
<1>1. CASE UNCHANGED queueVars
    BY <1>1 DEF queueVars, Fifo!vars
<1>2. ASSUME NEW p \in Producer, NEW i \in Item, Push(p, i)
      PROVE  [Fifo!Next]_Fifo!vars
    <2>1. CASE closed
        BY <1>2, <2>1 DEF Push, Fifo!vars
    <2>2. CASE ~closed
        BY <1>2, <2>2 DEF Push, Fifo!Next, Fifo!Accept
    <2> QED BY <2>1, <2>2
<1>3. ASSUME NEW p \in Producer, Close(p)
      PROVE  [Fifo!Next]_Fifo!vars
    BY <1>3 DEF Close, Fifo!Next, Fifo!Close
<1>4. ASSUME NEW p \in Producer, NEW c \in Consumer, Wake(p, c)
      PROVE  [Fifo!Next]_Fifo!vars
    <2>1. told' = told
        BY <1>4 DEF Wake, QueueTypeOK
    <2> QED BY <1>4, <2>1 DEF Wake, Fifo!vars
<1>5. ASSUME NEW c \in Consumer,
             \/ Await(c) \/ PolledAnyway(c)
             \/ GiveUp(c) \/ PollPending(c)
      PROVE  [Fifo!Next]_Fifo!vars
    <2>1. told' = told
        BY <1>5 DEF Await, PolledAnyway, GiveUp, PollPending,
                    QueueTypeOK
    <2> QED BY <1>5, <2>1 DEF Await, PolledAnyway, GiveUp,
                                   PollPending, Fifo!vars
<1>6. ASSUME NEW c \in Consumer, PollItem(c)
      PROVE  [Fifo!Next]_Fifo!vars
    <2>1. told' = told
        BY <1>6 DEF PollItem, QueueTypeOK
    <2> QED BY <1>6, <2>1 DEF PollItem, Fifo!Next, Fifo!HandOut
<1>7. ASSUME NEW c \in Consumer, PollEnd(c)
      PROVE  [Fifo!Next]_Fifo!vars
    <2>1. told' = told \cup {c}
        BY <1>7 DEF PollEnd, QueueTypeOK
    <2> QED BY <1>7, <2>1 DEF PollEnd, Ended, Fifo!Next, Fifo!Tell
<1> QED BY <1>1, <1>2, <1>3, <1>4, <1>5, <1>6, <1>7 DEF QueueNext, ProducerNext,
                                                           Poll

\* The queue is a plain queue to its users: items come out once and in order,
\* none is accepted after the close, and the end is told after the last item.
THEOREM QueueIsFifo == QueueSafety => IsFifo
<1>1. WakersInv => QueueTypeOK
    BY DEF WakersInv
<1> QED BY <1>1, FifoInit, FifoStep, WakersInductive, PTL
       DEF QueueSafety, IsFifo, Fifo!Spec
=============================================================================
