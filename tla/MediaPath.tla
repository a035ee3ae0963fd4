------------------------------ MODULE MediaPath ------------------------------
(***************************************************************************)
(* One session's media, from the encoder to the MoQ tracks: the appsink    *)
(* callback (server/src/pipewire/video.rs) and the audio task (server/src/ *)
(* wt.rs) fill two channels, media_pump (server/src/wt.rs) drains them     *)
(* into Tracks (server/src/moq/publish.rs).  moq-net itself is external:   *)
(* it may refuse a frame and its driver may fail.  The link report, which  *)
(* touches no state of this path, is left out.                             *)
(***************************************************************************)
EXTENDS Naturals, Sequences

CONSTANTS
    Codec,
    NoCodec,
    FrameCap,       \* the frame channel (8 in run_session)
    AudioCap,       \* the audio channel (256)
    ControlCap      \* the control channel (8)

ASSUME CodecAssumption == NoCodec \notin Codec
ASSUME CapAssumption ==
    FrameCap \in Nat \ {0} /\ AudioCap \in Nat \ {0} /\ ControlCap \in Nat \ {0}

VARIABLES
    cancelled,      \* the session's token
    pump,           \* media_pump
    driver,         \* the MoQ driver task
    capture,        \* the capture task: no pipeline yet, encoding, returned
    codec,          \* of the running pipeline
    fresh,          \* the pipeline has not encoded anything yet
    frames,         \* the frame channel
    audioTask,      \* audio_ready_task
    audio,          \* packets in the audio channel
    control,        \* messages in the control channel
    told,           \* the codec of the last VideoTrack notice the channel took
    video           \* Tracks.video

source == <<capture, codec, fresh>>
sound == <<audioTask, audio>>
notices == <<control, told>>
vars == <<cancelled, pump, driver, source, frames, sound, notices, video>>

Frame == [codec : Codec, key : BOOLEAN]

\* A track, and its open group by the frame that opened it and the codecs of
\* what was written to it since.
Group == [head : Frame, codecs : SUBSET Codec]
NoGroup == [head |-> NoCodec, codecs |-> {}]
NoTrack == [codec |-> NoCodec, group |-> NoGroup]

TypeOK ==
    /\ cancelled \in BOOLEAN
    /\ pump \in {"handshake", "serving", "ended", "panicked"}
    /\ driver \in {"up", "down"}
    /\ capture \in {"off", "encoding", "over"}
    /\ codec \in Codec \cup {NoCodec}
    /\ fresh \in BOOLEAN
    /\ frames \in Seq(Frame) /\ Len(frames) <= FrameCap
    /\ audioTask \in {"waiting", "streaming", "failed", "returned"}
    /\ audio \in 0..AudioCap
    /\ control \in 0..ControlCap
    /\ told \in Codec \cup {NoCodec}
    /\ video = NoTrack \/ video \in [codec : Codec, group : Group \cup {NoGroup}]

Init ==
    /\ cancelled = FALSE
    /\ pump = "handshake"
    /\ driver = "up"
    /\ capture = "off"
    /\ codec = NoCodec
    /\ fresh = TRUE
    /\ frames = <<>>
    /\ audioTask = "waiting"
    /\ audio = 0
    /\ control = 0
    /\ told = NoCodec
    /\ video = NoTrack

----------------------------------------------------------------------------
\* Capture.  A resize or a change of decoders restarts the pipeline; a new
\* encoder begins with a keyframe.
StartPipeline(c) ==
    /\ capture # "over"
    /\ capture' = "encoding"
    /\ codec' = c
    /\ fresh' = TRUE
    /\ UNCHANGED <<cancelled, pump, driver, frames, sound, notices, video>>

\* The appsink callback drops the newest frame when the channel is full, or
\* when the pump that would read it is gone.
Encode(key) ==
    /\ capture = "encoding"
    /\ fresh => key
    /\ fresh' = FALSE
    /\ frames' = IF Len(frames) < FrameCap /\ pump \in {"handshake", "serving"}
                 THEN Append(frames, [codec |-> codec, key |-> key])
                 ELSE frames
    /\ UNCHANGED <<cancelled, pump, driver, capture, codec, sound, notices, video>>

CaptureEnds ==
    /\ capture # "over"
    /\ capture' = "over"
    /\ UNCHANGED <<cancelled, pump, driver, codec, fresh, frames, sound, notices, video>>

----------------------------------------------------------------------------
\* Audio.  The task keeps its end of the channel until the token is cancelled,
\* also when there is no sink or the sink's stream has ended, which a full
\* channel is enough for.
AudioStarts ==
    /\ audioTask = "waiting"
    /\ audioTask' = "streaming"
    /\ UNCHANGED <<cancelled, pump, driver, source, frames, audio, notices, video>>

AudioFails ==
    /\ audioTask \in {"waiting", "streaming"}
    /\ audioTask' = "failed"
    /\ UNCHANGED <<cancelled, pump, driver, source, frames, audio, notices, video>>

MayReturn == cancelled

AudioReturns ==
    /\ audioTask # "returned"
    /\ MayReturn
    /\ audioTask' = "returned"
    /\ UNCHANGED <<cancelled, pump, driver, source, frames, audio, notices, video>>

AudioPacket ==
    /\ audioTask = "streaming"
    /\ audio < AudioCap
    /\ audio' = audio + 1
    /\ UNCHANGED <<cancelled, pump, driver, source, frames, audioTask, notices, video>>

----------------------------------------------------------------------------
\* The control channel: anyone may put a message in, control_sender takes it.
ControlMessage ==
    /\ control < ControlCap
    /\ control' = control + 1
    /\ UNCHANGED <<cancelled, pump, driver, source, frames, sound, told, video>>

ControlSent ==
    /\ control > 0
    /\ control' = control - 1
    /\ UNCHANGED <<cancelled, pump, driver, source, frames, sound, told, video>>

----------------------------------------------------------------------------
\* media_pump.  Its handshake is raced against the token.
Handshake ==
    /\ pump = "handshake"
    /\ ~cancelled
    /\ pump' \in {"serving", "ended"}
    /\ UNCHANGED <<cancelled, driver, source, frames, sound, notices, video>>

DriverFails ==
    /\ pump = "serving"
    /\ driver' = "down"
    /\ UNCHANGED <<cancelled, pump, source, frames, sound, notices, video>>

\* The pump returns and drops the publisher: its tracks end.
End ==
    /\ pump' = "ended"
    /\ video' = NoTrack
    /\ UNCHANGED <<cancelled, driver, source, sound, notices>>

\* MUTANT: the token is watched only once the handshake is done.
StopStagesLate == {"serving"}
StopStages == {"handshake", "serving"}

StopOnCancel ==
    /\ pump \in StopStages
    /\ cancelled
    /\ End
    /\ UNCHANGED frames

StopOnDriver ==
    /\ pump = "serving"
    /\ driver = "down"
    /\ End
    /\ UNCHANGED frames

\* The select is biased: token, driver, frames, audio.
Serving == pump = "serving" /\ ~cancelled /\ driver = "up"

Served == IF frames # <<>> \/ capture = "over" THEN "video" ELSE "audio"

\* MUTANT: the track's codec is not compared with the frame's.
NeedsTrackOnce(f) == video = NoTrack

NeedsTrack(f) == video = NoTrack \/ video.codec # f.codec

HasGroup(f, track) == f.key \/ track.group # NoGroup

\* push_video: a new track for a new codec, announced with try_send; a new
\* group at a keyframe; a delta goes where a group is open, and nowhere else.
PushVideo(f) ==
    LET track == IF NeedsTrack(f) THEN [codec |-> f.codec, group |-> NoGroup] ELSE video
        group == IF f.key THEN [head |-> f, codecs |-> {f.codec}]
                 ELSE [track.group EXCEPT !.codecs = @ \cup {f.codec}]
    IN  /\ IF NeedsTrack(f) /\ control < ControlCap
           THEN control' = control + 1 /\ told' = f.codec
           ELSE UNCHANGED notices
        /\ IF HasGroup(f, track)
           THEN video' = [track EXCEPT !.group = group] /\ UNCHANGED pump
           ELSE video' = NoTrack /\ pump' = "panicked"

TakeFrame ==
    /\ Serving /\ Served = "video"
    /\ frames # <<>>
    /\ frames' = Tail(frames)
    /\ PushVideo(Head(frames))
    /\ UNCHANGED <<cancelled, driver, source, sound>>

\* The buffer cannot be mapped: the frame is skipped.
SkipFrame ==
    /\ Serving /\ Served = "video"
    /\ frames # <<>>
    /\ frames' = Tail(frames)
    /\ UNCHANGED <<cancelled, pump, driver, source, sound, notices, video>>

\* moq-net refuses the track, the group or the frame.
TrackFails ==
    /\ Serving /\ Served = "video"
    /\ frames # <<>>
    /\ frames' = Tail(frames)
    /\ End

\* recv() answers None: the channel it is the turn of is empty and its sender
\* is gone.  Either ends the media.
SenderGone ==
    IF Served = "video"
    THEN frames = <<>> /\ capture = "over"
    ELSE audio = 0 /\ audioTask = "returned"

ChannelClosed ==
    /\ Serving
    /\ SenderGone
    /\ End
    /\ UNCHANGED frames

TakeAudio ==
    /\ Serving /\ Served = "audio"
    /\ audio > 0
    /\ audio' = audio - 1
    /\ UNCHANGED <<cancelled, pump, driver, source, frames, audioTask, notices, video>>

AudioTrackFails ==
    /\ Serving /\ Served = "audio"
    /\ audio > 0
    /\ pump' = "ended"
    /\ video' = NoTrack
    /\ audio' = audio - 1
    /\ UNCHANGED <<cancelled, driver, source, frames, audioTask, notices>>

\* A removal, or run_session once the pump has returned, cancels the token.
Cancel ==
    /\ ~cancelled
    /\ cancelled' = TRUE
    /\ UNCHANGED <<pump, driver, source, frames, sound, notices, video>>

----------------------------------------------------------------------------
CaptureNext ==
    \/ \E c \in Codec : StartPipeline(c)
    \/ \E key \in BOOLEAN : Encode(key)
    \/ CaptureEnds
AudioNext == AudioStarts \/ AudioFails \/ AudioReturns \/ AudioPacket
ControlNext == ControlMessage \/ ControlSent
HandleFrame == TakeFrame \/ SkipFrame \/ TrackFails
HandleAudio == TakeAudio \/ AudioTrackFails
PumpNext ==
    \/ Handshake \/ DriverFails
    \/ StopOnCancel \/ StopOnDriver
    \/ HandleFrame \/ HandleAudio \/ ChannelClosed

Next == CaptureNext \/ AudioNext \/ ControlNext \/ PumpNext \/ Cancel

\* The pump is polled whenever something it waits for is ready.  A peer need
\* not complete the handshake, and nothing need be encoded.
Fairness ==
    /\ WF_vars(StopOnCancel \/ StopOnDriver)
    /\ WF_vars(HandleFrame)
    /\ WF_vars(HandleAudio)
    /\ WF_vars(ChannelClosed)
    /\ WF_vars(pump = "ended" /\ Cancel)

Safety == Init /\ [][Next]_vars
Spec == Safety /\ Fairness

----------------------------------------------------------------------------
\* An open group began with a keyframe, and it and every frame written to it
\* since have the codec that the track's name promises.  That no frame between
\* them is missing is not said: one may be dropped before it reaches the pump.
GroupDecodable ==
    video.group # NoGroup =>
        /\ video.group.head.key
        /\ video.group.head.codec = video.codec
        /\ video.group.codecs = {video.codec}

\* "Audio is optional: ending it degrades the session" (wt.rs:388-389): while the
\* token stands, the driver is up and capture may still send, the media ends only
\* at a frame or a packet that it takes and its track refuses, so never because
\* audio does not start, fails or stops.
EndsAtARefusal ==
    [][pump = "serving" /\ pump' = "ended" =>
            \/ cancelled \/ driver = "down"
            \/ capture = "over" /\ frames = <<>>
            \/ frames # <<>> /\ frames' = Tail(frames)
            \/ audio > 0 /\ audio' = audio - 1]_vars

\* A cancelled session's media ends, even when the peer never says a word.
CancelEndsMedia == cancelled ~> pump \in {"ended", "panicked"}

\* "The frame that follows always has somewhere to go" (publish.rs:178).
NeverPanics == pump # "panicked"

=============================================================================
