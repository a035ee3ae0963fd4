---------------------------------- MODULE Page ----------------------------------
(***************************************************************************)
(* A page's session in the browser (webui/wasm/src/lib.rs): start, from    *)
(* the connection to the "Connection lost" overlay; the two pumps that own *)
(* the transport's reads and the streams they classify (moq.rs); the       *)
(* control loop of run_moq; and the audio handshake, from the user's       *)
(* gesture (audio.rs) to the sink the server creates for it and the volume *)
(* it reports back (audio_ready_task of server/src/wt.rs).  The transport, *)
(* moq-net, the browser's autoplay policy, PipeWire and the user are       *)
(* external.                                                               *)
(*                                                                         *)
(* Left out: the display and its track (Display), input (InputThrottle),   *)
(* the play-head and the badge, what is logged, and the content of every   *)
(* control message that is not a volume: they are one "word", carried by a *)
(* datagram.  One incoming stream stands for MoQ's.                        *)
(***************************************************************************)
EXTENDS Integers, Sequences, FiniteSets, SequencesExt

CONSTANTS
    Level, NoLevel,
    LevelCap,       \* the volume channel (8)
    Byte,
    Chunks,         \* the chunks the MoQ stream arrives in, each a sequence of its bytes
    Want,           \* the room a caller of poll_read offers
    Mixes,          \* bound: of the MoQ stream, the word and the volumes, what a server sends
    MaxLevels,      \* bound: volume changes on the host
    MaxPauses       \* bound: suspensions of the AudioContext

ASSUME LevelAssumption == NoLevel \notin Level
ASSUME CapAssumption ==
    /\ LevelCap \in Nat \ {0} /\ Want \in Nat \ {0}
    /\ MaxLevels \in Nat \ {0} /\ MaxPauses \in Nat
ASSUME MixAssumption == Mixes \subseteq SUBSET {"moq", "word", "volume"}
ASSUME ChunkAssumption == Chunks \in Seq(Seq(Byte)) /\ Chunks # <<>> /\ Chunks[1] # <<>>

Phase == {"connecting", "refused", "setup", "sizing", "attach",
          "handshake", "announce", "request", "control", "over"}
Carrier == {"uni", "dg"}
Number == 1..MaxLevels      \* the volume streams, in the order they are opened

VARIABLES
    conn,           \* the transport: "none", "up", "down"
    main,           \* where start and run_moq are
    overlay, keepalive,
    audioOnly,
    driver,         \* the fused moq-net drivers: "off", "on", "over"
    pump,           \* the pump of each carrier: "off", "on", "over"
    closed,         \* every queue the pumps feed is closed
    appUni, appDg,  \* AppSide: messages the control loop has not taken
    stream,         \* each volume stream: "unsent", "wire", "draining", "gone"
    carries,        \* and its level
    mix,            \* what this server sends
    word,           \* the other control message: "unsent", "wire", "gone"
    moq,            \* the MoQ stream: where it is, what is left of it, burst, got
    player,         \* AudioPlayer::new succeeded
    ctx, events,    \* the AudioContext; its statechange events not yet handled
    latch,          \* audio_ready
    prepared,       \* the browser would let the context run
    pauses,
    listening,      \* something on the page takes a gesture
    ready,          \* AudioReady on its way: "none", "wire", "lost", "taken"
    sink,           \* "none", "starting", "up", "failed"
    levels, lastLevel,      \* the volume channel and audio_ready_task's last_level
    hostLevel, changes,
    refused,        \* the newest volume found the channel full
    volume,         \* the gain node
    applied, newest,        \* the number of the stream it came from; the highest so far
    taken, handled  \* messages the queues accepted, and those the control loop handled

session == <<conn, main, overlay, keepalive, audioOnly, driver>>
queues == <<pump, closed, appUni, appDg>>
carried == <<mix, stream, carries, word>>
context == <<player, ctx, events, latch, prepared, pauses, listening, ready>>
sound == <<sink, levels, lastLevel, hostLevel, changes, refused>>
effects == <<volume, applied, newest, taken, handled>>
pageVars == <<session, queues, carried, moq, context, sound, effects>>

Word == 0
Message == Number \cup {Word}

PageTypeOK ==
    /\ conn \in {"none", "up", "down"} /\ main \in Phase
    /\ {overlay, keepalive, audioOnly, closed, player, latch, prepared, listening, refused}
         \subseteq BOOLEAN
    /\ driver \in {"off", "on", "over"} /\ pump \in [Carrier -> {"off", "on", "over"}]
    /\ appUni \in Seq(Number) /\ appDg \in Seq({Word})
    /\ stream \in [Number -> {"unsent", "wire", "draining", "gone"}]
    /\ carries \in [Number -> Level \cup {NoLevel}]
    /\ mix \in Mixes /\ word \in {"unsent", "wire", "gone"}
    /\ pauses \in 0..MaxPauses
    /\ ctx \in {"suspended", "running"} /\ events \in 0..(2 * MaxPauses + 1)
    /\ ready \in {"none", "wire", "lost", "taken"}
    /\ sink \in {"none", "starting", "up", "failed"}
    /\ levels \in Seq(Level) /\ Len(levels) <= LevelCap
    /\ {lastLevel, hostLevel, volume} \subseteq Level \cup {NoLevel}
    /\ changes \in 0..MaxLevels
    /\ {applied, newest} \subseteq 0..MaxLevels
    /\ taken \subseteq Message /\ handled \subseteq Message

PageInit ==
    /\ conn = "none" /\ main = "connecting" /\ overlay = FALSE /\ keepalive = FALSE
    /\ audioOnly \in BOOLEAN /\ driver = "off"
    /\ pump = [c \in Carrier |-> "off"] /\ closed = FALSE /\ appUni = <<>> /\ appDg = <<>>
    /\ stream = [n \in Number |-> "unsent"] /\ carries = [n \in Number |-> NoLevel]
    /\ mix \in Mixes /\ word = "unsent"
    /\ moq = [at |-> "unsent", left |-> Chunks, burst |-> <<>>, got |-> <<>>]
    /\ player = FALSE /\ ctx = "suspended" /\ events = 0 /\ latch = FALSE
    /\ prepared \in BOOLEAN /\ pauses = 0 /\ listening = FALSE /\ ready = "none"
    /\ sink = "none" /\ levels = <<>> /\ lastLevel = NoLevel /\ hostLevel = NoLevel
    /\ changes = 0 /\ refused = FALSE
    /\ volume = NoLevel /\ applied = 0 /\ newest = 0 /\ taken = {} /\ handled = {}

----------------------------------------------------------------------------
\* start.

\* Ready, or an error for the caller: there is no session to call lost yet.
Connect ==
    /\ main = "connecting"
    /\ \/ conn' = "up" /\ main' = "setup"
       \/ conn' = "down" /\ main' = "refused"
    /\ UNCHANGED <<overlay, keepalive, audioOnly, driver, queues, carried, moq, context, sound, effects>>

\* The keepalive, the decoder's capabilities, and a display unless the session
\* is audio only.
SetUp ==
    /\ main = "setup"
    /\ keepalive' = TRUE
    /\ main' = IF audioOnly THEN "attach" ELSE "sizing"
    /\ UNCHANGED <<conn, overlay, audioOnly, driver, queues, carried, moq, context, sound, effects>>

\* send_initial_resize: sent or not, the session goes on.
InitialResize ==
    /\ main = "sizing" /\ main' = "attach"
    /\ UNCHANGED <<conn, overlay, keepalive, audioOnly, driver, queues, carried, moq, context, sound, effects>>

\* What handle_audio_state does in a state of the context; the server is told
\* once for every time it runs.
Told(state) ==
    IF state = "running"
    THEN /\ latch' = TRUE
         /\ ready' = IF ~latch /\ ready \in {"none", "lost"} THEN "wire" ELSE ready
    ELSE /\ latch' = FALSE
         /\ ready' = IF ready = "lost" THEN "none" ELSE ready

\* The pumps start and the player is built: an environment may hand out a context
\* that runs already, or none.  Then the gestures are listened for, the button of
\* an audio page being one of them.
Attach ==
    /\ main = "attach"
    /\ pump' = [c \in Carrier |-> "on"]
    /\ \E p \in BOOLEAN, s \in {"suspended", "running"} :
        /\ s = "running" => p /\ prepared
        /\ player' = p /\ ctx' = s /\ listening' = p
        /\ IF s = "running" THEN Told(s) ELSE UNCHANGED <<latch, ready>>
    /\ main' = "handshake"
    /\ UNCHANGED <<conn, overlay, keepalive, audioOnly, driver, closed, appUni, appDg, carried, moq,
                   events, prepared, pauses, sound, effects>>

\* What run_moq returns to.
Lost == main' = "over" /\ overlay' = TRUE /\ keepalive' = FALSE

\* connect_lite builds the machine, or refuses the transport.
Handshake ==
    /\ main = "handshake"
    /\ \/ main' = "announce" /\ driver' = "on" /\ UNCHANGED <<overlay, keepalive>>
       \/ Lost /\ UNCHANGED driver
    /\ UNCHANGED <<conn, audioOnly, queues, carried, moq, context, sound, effects>>

\* The announcement.  None comes once the drivers have ended.
Announcement ==
    /\ main = "announce"
    /\ driver = "on" /\ conn = "up" /\ main' = "request"
    /\ UNCHANGED <<conn, overlay, keepalive, audioOnly, driver, queues, carried, moq, context, sound, effects>>

AnnouncementsEnd ==
    /\ main = "announce"
    /\ driver = "over" /\ Lost
    /\ UNCHANGED <<conn, audioOnly, driver, queues, carried, moq, context, sound, effects>>

\* The broadcast is there, or is not.
RequestBroadcast ==
    /\ main = "request"
    /\ \/ driver = "on" /\ main' = "control" /\ UNCHANGED <<overlay, keepalive>>
       \/ Lost
    /\ UNCHANGED <<conn, audioOnly, driver, queues, carried, moq, context, sound, effects>>

\* A queue that is closed and drained is done.
Done(q) == closed /\ q = <<>>

\* MUTANT: the first carrier to run dry ends the session.
ControlEndsEarly == (Done(appDg) \/ Done(appUni)) /\ Lost

ControlEnds == (Done(appDg) /\ Done(appUni)) /\ Lost

\* next_control answers None.
SessionEnds ==
    /\ main = "control" /\ ControlEnds
    /\ UNCHANGED <<conn, audioOnly, driver, queues, carried, moq, context, sound, effects>>

\* next_control prefers the datagrams.
TakeWord ==
    /\ main = "control" /\ appDg # <<>>
    /\ appDg' = Tail(appDg) /\ handled' = handled \cup {Word}
    /\ UNCHANGED <<session, pump, closed, appUni, carried, moq, context, sound,
                   volume, applied, newest, taken>>

\* MUTANT: the level is set when the gain node is made, and only then.
SetVolumeOnce(n) ==
    /\ volume' = IF volume = NoLevel THEN carries[n] ELSE volume
    /\ applied' = n /\ newest' = IF n > newest THEN n ELSE newest

SetVolume(n) ==
    /\ volume' = carries[n]
    /\ applied' = n /\ newest' = IF n > newest THEN n ELSE newest

\* Without a player there is nothing to set it on.
TakeLevel ==
    /\ main = "control" /\ appDg = <<>> /\ appUni # <<>>
    /\ appUni' = Tail(appUni)
    /\ LET n == Head(appUni) IN
        /\ handled' = handled \cup {n}
        /\ IF player THEN SetVolume(n) ELSE UNCHANGED <<volume, applied, newest>>
    /\ UNCHANGED <<session, pump, closed, appDg, carried, moq, context, sound, taken>>

----------------------------------------------------------------------------
\* The pumps.

\* drain_unistreams takes a stream and leaves it to a task of its own.
AcceptStream ==
    /\ pump["uni"] = "on" /\ conn = "up"
    /\ \/ \E n \in Number :
            /\ stream[n] = "wire"
            /\ stream' = [stream EXCEPT ![n] = "draining"]
            /\ UNCHANGED moq
       \/ /\ moq.at = "wire"
          /\ moq' = [moq EXCEPT !.at = "classifying"]
          /\ UNCHANGED stream
    /\ UNCHANGED <<session, queues, mix, carries, word, context, sound, effects>>

\* An application's stream is read to its end and queued as one message, which a
\* closed queue drops; or the read fails.
Drain(n) ==
    /\ stream[n] = "draining"
    /\ stream' = [stream EXCEPT ![n] = "gone"]
    /\ \/ /\ ~closed /\ appUni' = Append(appUni, n) /\ taken' = taken \cup {n}
       \/ /\ closed \/ conn = "down"
          /\ UNCHANGED <<appUni, taken>>
    /\ UNCHANGED <<session, pump, closed, appDg, mix, carries, word, moq, context, sound,
                   volume, applied, newest, handled>>

\* MUTANT: the chunk that named the stream is not kept.
WithoutInitialChunk(chunk) == <<>>

WithInitialChunk(chunk) == chunk

\* MoQ's stream is handed to its inbox with the chunk that named it.
Classify ==
    /\ moq.at = "classifying"
    /\ \/ moq' = IF closed THEN [moq EXCEPT !.at = "gone"]
                 ELSE [moq EXCEPT !.at = "inbox", !.left = Tail(moq.left),
                                  !.burst = WithInitialChunk(Head(moq.left))]
       \/ conn = "down" /\ moq' = [moq EXCEPT !.at = "gone"]
    /\ UNCHANGED <<session, queues, carried, context, sound, effects>>

ReceiveDatagram ==
    /\ pump["dg"] = "on" /\ conn = "up" /\ word = "wire"
    /\ word' = "gone"
    /\ IF closed THEN UNCHANGED <<appDg, taken>>
       ELSE appDg' = Append(appDg, Word) /\ taken' = taken \cup {Word}
    /\ UNCHANGED <<session, pump, closed, appUni, mix, stream, carries, moq, context, sound,
                   volume, applied, newest, handled>>

\* MUTANT: MoQ's half is closed and webshooter's is forgotten.
CloseInboxOnly == UNCHANGED closed

CloseAll == closed' = TRUE

\* A read that ends or fails ends the pump, and the pump every queue.
PumpEnds ==
    /\ conn = "down"
    /\ \E c \in Carrier :
        /\ pump[c] = "on"
        /\ pump' = [pump EXCEPT ![c] = "over"]
    /\ CloseAll
    /\ UNCHANGED <<session, appUni, appDg, carried, moq, context, sound, effects>>

----------------------------------------------------------------------------
\* moq-net's drivers over BrowserSession.

\* drain_burst takes what there is room for.
Room(burst) == IF Len(burst) < Want THEN Len(burst) ELSE Want
DrainBurst(burst) == SubSeq(burst, Room(burst) + 1, Len(burst))

\* poll_read: the burst first, then the next chunk, of which as much is taken at
\* once; then the end of the stream, or its failure.
PollRead ==
    /\ moq.at = "inbox" /\ driver = "on"
    /\ \/ /\ moq.burst # <<>>
          /\ moq' = [moq EXCEPT !.burst = DrainBurst(moq.burst),
                                !.got = @ \o SubSeq(moq.burst, 1, Room(moq.burst))]
       \/ /\ moq.burst = <<>> /\ moq.left # <<>> /\ conn = "up"
          /\ LET chunk == Head(moq.left) IN
             moq' = [moq EXCEPT !.left = Tail(@), !.burst = DrainBurst(chunk),
                                !.got = @ \o SubSeq(chunk, 1, Room(chunk))]
       \/ /\ moq.burst = <<>> /\ moq.left = <<>> /\ conn = "up"
          /\ moq' = [moq EXCEPT !.at = "ended"]
       \/ /\ moq.burst = <<>> /\ conn = "down"
          /\ moq' = [moq EXCEPT !.at = "gone"]
    /\ UNCHANGED <<session, queues, carried, context, sound, effects>>

\* The session driver ends when poll_accept_uni or poll_closed says so, or on its
\* own, and takes the origin with it; it may close the transport.  Nothing but a
\* line of the log tells the page.
DriverEnds ==
    /\ driver = "on" /\ driver' = "over"
    /\ conn' \in {conn, "down"}
    /\ UNCHANGED <<main, overlay, keepalive, audioOnly, queues, carried, moq, context, sound, effects>>

----------------------------------------------------------------------------
\* The AudioContext.

\* statechange: the handler reads the state the context is in by now.  Suspended,
\* it asks to resume, which a permissive browser grants.
AudioState ==
    /\ events > 0
    /\ Told(ctx)
    /\ \/ UNCHANGED ctx /\ events' = events - 1
       \/ /\ ctx = "suspended" /\ prepared
          /\ ctx' = "running" /\ UNCHANGED events
    /\ UNCHANGED <<session, queues, carried, moq, player, prepared, pauses, listening, sound, effects>>

\* MUTANT: the listeners are removed once they have asked.
StillListensOnce == FALSE

\* The listeners stay; the button of an audio page hides.
StillListens == ~audioOnly

\* A gesture asks the context to resume.  Unless the browser is prepared to,
\* nothing comes of it.
Gesture ==
    /\ listening /\ ctx = "suspended"
    /\ listening' = StillListens
    /\ IF prepared THEN ctx' = "running" /\ events' = events + 1 ELSE UNCHANGED <<ctx, events>>
    /\ UNCHANGED <<session, queues, carried, moq, player, latch, prepared, pauses, ready, sound, effects>>

\* The browser comes to allow what it did not; and it pauses a hidden page.
Prepare ==
    /\ player /\ ~prepared /\ prepared' = TRUE
    /\ UNCHANGED <<session, queues, carried, moq, player, ctx, events, latch, pauses, listening, ready,
                   sound, effects>>

Pause ==
    /\ ctx = "running" /\ pauses < MaxPauses
    /\ ctx' = "suspended" /\ events' = events + 1 /\ pauses' = pauses + 1
    /\ UNCHANGED <<session, queues, carried, moq, player, latch, prepared, listening, ready, sound, effects>>

----------------------------------------------------------------------------
\* audio_ready_task.

\* The first AudioReady starts the sink; it may also be lost on the way, or to a
\* reader of the bus that lags.
AudioReady ==
    /\ ready = "wire" /\ conn = "up"
    /\ \/ ready' = "taken" /\ sink' = "starting"
       \/ ready' = "lost" /\ UNCHANGED sink
    /\ UNCHANGED <<session, queues, carried, moq, player, ctx, events, latch, prepared, pauses, listening,
                   levels, lastLevel, hostLevel, changes, refused, effects>>

SinkStarts ==
    /\ sink = "starting" /\ conn = "up"
    /\ sink' \in {"up", "failed"}
    /\ UNCHANGED <<session, queues, carried, moq, context, levels, lastLevel, hostLevel, changes,
                   refused, effects>>

\* The sink's node reports a volume: try_send, so that a full channel drops it.
HostVolume ==
    /\ sink \in {"starting", "up"} /\ "volume" \in mix /\ changes < MaxLevels
    /\ \E l \in Level : 
        /\ hostLevel' = l
        /\ changes' = changes + 1
        /\ IF Len(levels) < LevelCap
           THEN levels' = Append(levels, l) /\ refused' = FALSE
           ELSE UNCHANGED levels /\ refused' = TRUE
    /\ UNCHANGED <<session, queues, carried, moq, context, sink, lastLevel, effects>>

Opened == Cardinality({n \in Number : stream[n] # "unsent"})

\* A level that differs from the last goes out on a stream of its own.
SendAudioLevel ==
    /\ sink = "up" /\ conn = "up" /\ levels # <<>>
    /\ levels' = Tail(levels)
    /\ LET l == Head(levels) IN
        IF l = lastLevel THEN UNCHANGED <<lastLevel, stream, carries>>
        ELSE /\ lastLevel' = l
             /\ stream' = [stream EXCEPT ![Opened + 1] = "wire"]
             /\ carries' = [carries EXCEPT ![Opened + 1] = l]
    /\ UNCHANGED <<session, queues, mix, word, moq, context, sink, hostLevel, changes, refused, effects>>

----------------------------------------------------------------------------
\* The server's other messages, and the network.

WordSent ==
    /\ conn = "up" /\ "word" \in mix /\ word = "unsent" /\ word' = "wire"
    /\ UNCHANGED <<session, queues, mix, stream, carries, moq, context, sound, effects>>

MoqOpens ==
    /\ conn = "up" /\ "moq" \in mix /\ moq.at = "unsent" /\ moq' = [moq EXCEPT !.at = "wire"]
    /\ UNCHANGED <<session, queues, carried, context, sound, effects>>

Die ==
    /\ conn = "up" /\ conn' = "down"
    /\ UNCHANGED <<main, overlay, keepalive, audioOnly, driver, queues, carried, moq, context, sound, effects>>

Start == Connect \/ SetUp \/ InitialResize \/ Attach
RunMoq ==
    \/ Handshake \/ Announcement \/ AnnouncementsEnd \/ RequestBroadcast
    \/ TakeWord \/ TakeLevel \/ SessionEnds
DrainTask == \E n \in Number : Drain(n)
Pumps == AcceptStream \/ DrainTask \/ Classify \/ ReceiveDatagram \/ PumpEnds
Audio == AudioState \/ Gesture \/ Prepare \/ Pause
Server == AudioReady \/ SinkStarts \/ HostVolume \/ SendAudioLevel \/ WordSent \/ MoqOpens

PageNext == Start \/ RunMoq \/ Pumps \/ PollRead \/ DriverEnds \/ Audio \/ Server \/ Die

\* The browser's event loop runs every task, answers every promise of a dead
\* transport, and reports every change of the context; the user goes on using
\* the page, which the browser takes for leave to play.
PageFairness ==
    /\ WF_pageVars(SetUp \/ InitialResize \/ Attach)
    /\ WF_pageVars(Handshake \/ AnnouncementsEnd \/ RequestBroadcast)
    /\ WF_pageVars(TakeWord \/ TakeLevel \/ SessionEnds)
    /\ WF_pageVars(PumpEnds) /\ WF_pageVars(DriverEnds /\ conn = "down")
    /\ WF_pageVars(AudioState) /\ WF_pageVars(Gesture) /\ WF_pageVars(Prepare)
    /\ WF_pageVars(AudioReady)

PageSpec == PageInit /\ [][PageNext]_pageVars /\ PageFairness

----------------------------------------------------------------------------
\* Whoever is shown a session is told when its connection is gone, wherever
\* start and run_moq were when it went.
DeathIsTold == (conn = "down" /\ main \notin {"connecting", "refused"}) ~> overlay

\* The control loop ends only after every message its queues accepted: one carrier
\* that has run dry says nothing of the other (next_control).
NoMessageStranded == [][main = "control" /\ main' = "over" => handled = taken]_pageVars

\* What moq-net reads of a stream is what was sent, in order and whole, although
\* the first chunk was read to classify it and the caller takes less than a chunk.
StreamWhole ==
    /\ IsPrefix(moq.got, FlattenSeq(Chunks))
    /\ moq.at = "ended" => moq.got = FlattenSeq(Chunks)

\* Once nothing is on its way the page plays at the host's volume, unless the
\* newest setting found the channel full, or its stream was overtaken by an older
\* one's: neither is ever said again.
VolumeExplained ==
    (/\ sink = "up" /\ conn = "up" /\ main = "control" /\ changes > 0
     /\ levels = <<>> /\ appUni = <<>>
     /\ \A n \in Number : stream[n] \in {"unsent", "gone"})
        => volume = hostLevel \/ refused \/ applied < newest

\* The user of a video page, whose every gesture asks the context to resume, gets
\* a sink on the host, or an attempt at one, unless the AudioReady that follows is
\* lost: it is sent once for each time the context runs.
AudioArrives ==
    (main = "control" /\ player /\ ~audioOnly)
        ~> (conn = "down" \/ main = "over" \/ sink # "none" \/ ready = "lost")
=============================================================================
