----------------------------- MODULE Connection -----------------------------
(***************************************************************************)
(* How a client's messages enter a session: the mux pump (server/src/moq/  *)
(* mod.rs), sole reader of the connection, which routes every stream and   *)
(* datagram by its first byte (shared/src/mux.rs), and client_pump         *)
(* (server/src/wt.rs), which takes webshooter's half, limits floods and    *)
(* ends a silent session.  Time passes in ticks, and only while neither    *)
(* pump has anything to do: both are prompt, their timeouts exact.  The    *)
(* client, the network and QUIC's buffers are external.                    *)
(*                                                                         *)
(* Left out: the content of a message (a message that does not parse is    *)
(* dropped and counts as a sign of life all the same), MoQ's datagrams,    *)
(* and what either side does with what it is handed (MediaPath, InputPath, *)
(* Capture); the queues between the pumps are WakeQueue's.                 *)
(***************************************************************************)
EXTENDS Integers, FiniteSets, FiniteSetsExt

CONSTANTS
    AppStream, MoqStream,   \* unidirectional streams the client opens
    KeepAlive,      \* KEEPALIVE_TIMEOUT, in ticks
    FirstByte,      \* FIRST_BYTE_TIMEOUT, in ticks
    Refill,         \* INPUT_FLOOD_RATE_PER_SEC, per tick
    Burst,          \* INPUT_FLOOD_BURST
    KickRefusals,   \* INPUT_FLOOD_KICK_REFUSALS
    KickWindow,     \* INPUT_FLOOD_KICK_WINDOW, in ticks
    ClientCap,      \* input datagrams a client sends in a tick (INPUT_MIN_INTERVAL_MS)
    FloodRate,      \* and those of a client that keeps no cap
    MaxHeld         \* bound: input held up by the network or the pumps

ASSUME TimeAssumption ==
    /\ KeepAlive \in Nat \ {0} /\ FirstByte \in Nat \ {0} /\ KickWindow \in Nat \ {0}
ASSUME RateAssumption ==
    /\ Refill \in Nat \ {0} /\ Burst \in Nat \ {0} /\ KickRefusals \in Nat \ {0}
    /\ ClientCap \in Nat /\ FloodRate \in Nat /\ MaxHeld \in Nat

\* 250 a second for three seconds and a window of one: one tick's worth short of
\* the thousand refusals that kick.
ASSUME KickAssumption == ClientCap * (KeepAlive + KickWindow - 1) < KickRefusals

ASSUME StreamAssumption ==
    AppStream \cap MoqStream = {} /\ IsFiniteSet(AppStream) /\ IsFiniteSet(MoqStream)

Stream == AppStream \cup MoqStream

\* A stream on its way: announced, taken by the mux, queued for its side, read
\* by client_pump; then read to its end, given up, or MoQ's.
StreamState == {"unopened", "announced", "classifying", "queued", "reading",
                "read", "dropped", "moq"}

\* What of it has arrived.
Bytes == {"none", "first", "all"}

Kind == {"input", "control"}

VARIABLES
    honest,         \* the client keeps to its cap
    connected,      \* the connection is up
    held,           \* datagrams in the network, a number of each kind
    buffer,         \* datagrams in QUIC's receive buffer
    queue,          \* app.datagrams
    stream, bytes,
    mux,            \* "idle", "classifying", "over"
    pump,           \* "select", "reading", "kicking", "over"
    muxTimer, readTimer, quiet,
    tokens,         \* InputFloodGuard
    refusals, window,   \* FloodKick: the count, the ticks since window_start
    reason,         \* why client_pump ended
    silence,        \* ticks since anything of webshooter's reached the server, up to KeepAlive
    heldUp,         \* ticks since a pump last waited for a stream's bytes, up to KeepAlive
    gathered        \* much input was on its way when the window's count began

network == <<connected, held, stream, bytes, honest>>
timers == <<muxTimer, readTimer, quiet, window>>
guard == <<tokens, refusals>>
ghosts == <<silence, heldUp, gathered>>
vars == <<network, buffer, queue, mux, pump, timers, guard, reason, ghosts>>

TypeOK ==
    /\ {honest, connected} \subseteq BOOLEAN
    /\ {held, buffer, queue} \subseteq [Kind -> Nat]
    /\ stream \in [Stream -> StreamState] /\ bytes \in [Stream -> Bytes]
    /\ mux \in {"idle", "classifying", "over"}
    /\ pump \in {"select", "reading", "kicking", "over"}
    /\ muxTimer \in 0..FirstByte /\ {readTimer, quiet} \subseteq 0..KeepAlive
    /\ tokens \in 0..Burst /\ refusals \in 0..KickRefusals /\ window \in 0..KickWindow
    /\ reason \in {"none", "quiet", "flood", "closed"}
    /\ {silence, heldUp} \subseteq 0..KeepAlive /\ gathered \in BOOLEAN

Nothing == [k \in Kind |-> 0]

\* Several keepalives waiting are as good as one.
Join(c, d) == [input |-> c["input"] + d["input"], control |-> Max({c["control"], d["control"]})]

Init ==
    /\ honest \in BOOLEAN /\ connected = TRUE
    /\ held = Nothing /\ buffer = Nothing /\ queue = Nothing
    /\ stream = [x \in Stream |-> "unopened"] /\ bytes = [x \in Stream |-> "none"]
    /\ mux = "idle" /\ pump = "select"
    /\ muxTimer = 0 /\ readTimer = 0 /\ quiet = 0
    /\ tokens = Burst /\ refusals = 0 /\ window = 0
    /\ reason = "none"
    /\ silence = 0 /\ heldUp = KeepAlive /\ gathered = FALSE

----------------------------------------------------------------------------
\* The mux pump.  Its select is biased: streams before datagrams, and nothing
\* else while a stream is classified.

Announced == {x \in Stream : stream[x] = "announced"}
Classifying == {x \in Stream : stream[x] = "classifying"}
Queued == {x \in Stream : stream[x] = "queued"}
Reading == {x \in Stream : stream[x] = "reading"}

AcceptUni ==
    /\ mux = "idle" /\ connected
    /\ \E x \in Announced : stream' = [stream EXCEPT ![x] = "classifying"]
    /\ mux' = "classifying" /\ muxTimer' = 0
    /\ UNCHANGED <<connected, held, bytes, honest, buffer, queue, pump, readTimer, quiet,
                   window, guard, reason, ghosts>>

\* classify: the first byte decides, the timeout drops, and so does a stream
\* that cannot be read any more.
Classified(x) == bytes[x] # "none" \/ muxTimer = FirstByte \/ ~connected

Classify ==
    /\ mux = "classifying"
    /\ \E x \in Classifying :
        /\ Classified(x)
        /\ stream' = [stream EXCEPT ![x] =
                        CASE bytes[x] = "none" -> "dropped"
                          [] x \in MoqStream -> "moq"
                          [] OTHER -> "queued"]
    /\ mux' = "idle" /\ muxTimer' = 0
    /\ UNCHANGED <<connected, held, bytes, honest, buffer, queue, pump, readTimer, quiet,
                   window, guard, reason, ghosts>>

ReceiveDatagram ==
    /\ mux = "idle" /\ connected /\ Announced = {}
    /\ buffer # Nothing
    /\ buffer' = Nothing /\ queue' = Join(queue, buffer)
    /\ UNCHANGED <<network, mux, pump, timers, guard, reason, ghosts>>

\* A failed read ends the pump, which closes all four queues on its way out.
MuxEnds ==
    /\ mux = "idle" /\ ~connected
    /\ mux' = "over"
    /\ UNCHANGED <<network, buffer, queue, pump, timers, guard, reason, ghosts>>

----------------------------------------------------------------------------
\* client_pump: select over the timer, the datagrams and the streams, in any
\* order when several are ready.

Ends(why) == pump' = "over" /\ reason' = why

Quiet ==
    /\ pump = "select" /\ quiet = KeepAlive
    /\ Ends("quiet")
    /\ UNCHANGED <<network, buffer, queue, mux, timers, guard, ghosts>>

\* MUTANT: a refusal is forgotten by no window.
RecordForever == refusals' = refusals + 1 /\ UNCHANGED window

\* MUTANT: every refusal starts a count.
RecordAnew == refusals' = 1 /\ window' = 0

\* FloodKick.record: a refusal starts a count when the window is over.
Record ==
    IF window = KickWindow
    THEN refusals' = 1 /\ window' = 0
    ELSE refusals' = refusals + 1 /\ UNCHANGED window

\* Input on its way to client_pump: in the network, in QUIC's buffer, in the queue.
InFlight == held["input"] + buffer["input"] + queue["input"]

\* More than a client that keeps its cap sends in KEEPALIVE_TIMEOUT.
Much(n) == n > ClientCap * KeepAlive

\* An input datagram takes a token, or is refused and counted.  Enough refusals
\* in one window queue the notice and keep the pump open for it to be sent.
TakeInput ==
    /\ queue["input"] > 0
    /\ queue' = [queue EXCEPT !["input"] = @ - 1]
    /\ IF tokens > 0
       THEN tokens' = tokens - 1 /\ UNCHANGED <<refusals, window, pump, gathered>>
       ELSE /\ Record
            /\ pump' = IF refusals' = KickRefusals THEN "kicking" ELSE pump
            /\ gathered' = IF window = KickWindow THEN Much(InFlight) ELSE gathered
            /\ UNCHANGED tokens

TakeControl ==
    /\ queue["control"] > 0
    /\ queue' = [queue EXCEPT !["control"] = @ - 1]
    /\ UNCHANGED <<guard, window, pump, gathered>>

RecvDatagram ==
    /\ pump = "select"
    /\ TakeInput \/ TakeControl
    /\ quiet' = 0
    /\ UNCHANGED <<network, buffer, mux, muxTimer, readTimer, reason, silence, heldUp>>

\* MUTANT: a stream is no sign of life.
RecvUnistreamUnheard ==
    /\ pump = "select"
    /\ \E x \in Queued : stream' = [stream EXCEPT ![x] = "reading"]
    /\ pump' = "reading" /\ readTimer' = 0
    /\ UNCHANGED <<connected, held, bytes, honest, buffer, queue, mux, muxTimer, quiet, window,
                   guard, reason, ghosts>>

RecvUnistream ==
    /\ pump = "select"
    /\ \E x \in Queued : stream' = [stream EXCEPT ![x] = "reading"]
    /\ pump' = "reading" /\ readTimer' = 0 /\ quiet' = 0
    /\ UNCHANGED <<connected, held, bytes, honest, buffer, queue, mux, muxTimer, window,
                   guard, reason, ghosts>>

\* read_to_end, or KEEPALIVE_TIMEOUT for a stream that sends no more.
ReadOver(x) == bytes[x] = "all" \/ readTimer = KeepAlive \/ ~connected

ReadToEnd ==
    /\ pump = "reading"
    /\ \E x \in Reading :
        /\ ReadOver(x)
        /\ stream' = [stream EXCEPT ![x] = IF bytes[x] = "all" THEN "read" ELSE "dropped"]
    /\ pump' = "select" /\ readTimer' = 0
    /\ UNCHANGED <<connected, held, bytes, honest, buffer, queue, mux, muxTimer, quiet, window,
                   guard, reason, ghosts>>

\* A closed queue is drained before it reports its end; the other one may report
\* it first.
QueuesEnd ==
    /\ pump = "select" /\ mux = "over"
    /\ queue = Nothing \/ Queued = {}
    /\ Ends("closed")
    /\ UNCHANGED <<network, buffer, queue, mux, timers, guard, ghosts>>

\* KICK_NOTICE_DRAIN is over.
KickEnds ==
    /\ pump = "kicking"
    /\ Ends("flood")
    /\ UNCHANGED <<network, buffer, queue, mux, timers, guard, ghosts>>

----------------------------------------------------------------------------
\* The client and the network.

Cap == IF honest THEN ClientCap ELSE FloodRate

\* In a tick a client sends a keepalive, and all the input it may or none.
Send ==
    \E i \in {0, Cap} :
        /\ i > 0 => InFlight + i <= MaxHeld
        /\ held' = [input |-> held["input"] + i, control |-> 1]

\* The network delivers any part of what it holds, or loses it.
Deliver ==
    /\ connected
    /\ \E i \in 0..held["input"], c \in 0..held["control"] :
        LET part == [input |-> i, control |-> c]
        IN  /\ part # Nothing
            /\ held' = [k \in Kind |-> held[k] - part[k]]
            /\ \/ buffer' = Join(buffer, part) /\ silence' = 0
               \/ UNCHANGED <<buffer, silence>>
    /\ UNCHANGED <<connected, stream, bytes, honest, queue, mux, pump, timers, guard, reason,
                   heldUp, gathered>>

\* What may yet be found to have arrived of a stream; of MoQ's only the first
\* byte matters here.
ToCome(x) ==
    IF x \in MoqStream THEN Bytes \ {"all"} ELSE IF bytes[x] = "all" THEN {} ELSE Bytes

Reaches(x) == silence' = IF x \in AppStream THEN 0 ELSE silence

\* A stream is announced by its preamble; its bytes follow, now or later.
Open ==
    /\ connected
    /\ \E x \in Stream :
        /\ stream[x] = "unopened"
        /\ stream' = [stream EXCEPT ![x] = "announced"]
        /\ \E b \in ToCome(x) : bytes' = [bytes EXCEPT ![x] = b]
        /\ Reaches(x)
    /\ UNCHANGED <<connected, held, honest, buffer, queue, mux, pump, timers, guard, reason,
                   heldUp, gathered>>

Arrive ==
    /\ connected
    /\ \E x \in Stream :
        /\ stream[x] \in {"announced", "classifying", "queued", "reading"}
        /\ \E b \in ToCome(x) : b # bytes[x] /\ b # "none" /\ bytes' = [bytes EXCEPT ![x] = b]
        /\ Reaches(x)
    /\ UNCHANGED <<connected, held, stream, honest, buffer, queue, mux, pump, timers, guard, reason,
                   heldUp, gathered>>

Lose ==
    /\ connected /\ connected' = FALSE
    /\ UNCHANGED <<held, stream, bytes, honest, buffer, queue, mux, pump, timers, guard, reason, ghosts>>

\* The session ends with its pump, and aborts the mux.
Mux == pump # "over" /\ (AcceptUni \/ Classify \/ ReceiveDatagram \/ MuxEnds)
Pump == Quiet \/ RecvDatagram \/ RecvUnistream \/ ReadToEnd \/ QueuesEnd

\* Whether either has something to do.
MuxReady ==
    /\ pump # "over"
    /\ \/ mux = "idle" /\ (~connected \/ Announced # {} \/ buffer # Nothing)
       \/ mux = "classifying" /\ \E x \in Classifying : Classified(x)

PumpReady ==
    \/ pump = "select" /\ (quiet = KeepAlive \/ queue # Nothing \/ Queued # {} \/ mux = "over")
    \/ pump = "reading" /\ \E x \in Reading : ReadOver(x)

Waiting == mux = "classifying" \/ pump = "reading"

Plus(t, limit) == IF t < limit THEN t + 1 ELSE limit

\* Every timer advances, the bucket is refilled, and the client sends what it
\* sends in a tick.
Tick ==
    /\ pump \notin {"kicking", "over"}
    /\ ~MuxReady /\ ~PumpReady
    /\ Send
    /\ muxTimer' = IF mux = "classifying" THEN Plus(muxTimer, FirstByte) ELSE 0
    /\ readTimer' = IF pump = "reading" THEN Plus(readTimer, KeepAlive) ELSE 0
    /\ quiet' = Plus(quiet, KeepAlive)
    /\ window' = Plus(window, KickWindow)
    /\ tokens' = Min({tokens + Refill, Burst})
    /\ silence' = Plus(silence, KeepAlive)
    /\ heldUp' = IF Waiting THEN 0 ELSE Plus(heldUp, KeepAlive)
    /\ gathered' = (gathered /\ window' < KickWindow)
    /\ UNCHANGED <<connected, stream, bytes, honest, buffer, queue, mux, pump, refusals, reason>>

\* The network acts while the session is up; what comes in the
\* instant the quiet timer expires comes too late.
Outside ==
    /\ pump # "over" /\ ~(pump = "select" /\ quiet = KeepAlive)
    /\ Deliver \/ Open \/ Arrive \/ Lose

Next ==
    \/ Mux \/ Pump \/ KickEnds
    \/ Outside \/ Tick

\* The runtime polls both pumps, and time passes.
Fairness == WF_vars(Mux) /\ WF_vars(Pump) /\ WF_vars(KickEnds) /\ WF_vars(Tick)

Spec == Init /\ [][Next]_vars /\ Fairness

----------------------------------------------------------------------------
\* A session that client_pump ends for silence has heard nothing of its client
\* for KEEPALIVE_TIMEOUT, unless within that time one of the pumps was waiting
\* for the bytes of a stream and heard nobody else meanwhile.
QuietExplained == reason = "quiet" => silence = KeepAlive \/ heldUp < KeepAlive

\* A client that keeps its cap is dropped as a flood only if more of its input
\* than it sends in KEEPALIVE_TIMEOUT was on its way at once when the refusals
\* began to be counted, held up by an uplink that let little through or by a
\* stream whose bytes a pump waited for (FloodKick, InputFloodGuard,
\* INPUT_FLOOD_KICK_REFUSALS).
HonestKickExplained ==
    honest /\ pump = "kicking" => gathered

\* Refusals counted in the window that is open.
Counted == IF window < KickWindow THEN refusals ELSE 0

\* A client that goes on flooding is dropped, not merely throttled: one whose
\* input keeps coming, with the bucket empty, in numbers that bring the refusals
\* of the window to INPUT_FLOOD_KICK_REFUSALS.
FloodEnds ==
    []<>(tokens = 0 /\ Counted + queue["input"] >= KickRefusals) => <>(pump = "over")

=============================================================================
