--------------------------- MODULE MediaPathProofs ---------------------------
(***************************************************************************)
(* Proofs about MediaPath, for any codecs and any channel sizes.           *)
(***************************************************************************)
EXTENDS MediaPath, TLAPS

\* The audio task leaves its channel only once the token is cancelled, so a
\* closed audio channel is never the first thing the pump hears of the end.
AudioOutlastsSession == audioTask = "returned" => cancelled

\* A pipeline encodes for some codec.
EncoderHasCodec == capture = "encoding" => codec \in Codec

IInv == TypeOK /\ GroupDecodable /\ AudioOutlastsSession /\ EncoderHasCodec

----------------------------------------------------------------------------
LEMMA InitInv == Init => IInv
<1> SUFFICES ASSUME Init PROVE IInv
    OBVIOUS
<1>1. frames \in Seq(Frame) /\ Len(frames) <= FrameCap
    BY CapAssumption DEF Init
<1>2. audio \in 0..AudioCap /\ control \in 0..ControlCap
    BY CapAssumption DEF Init
<1>3. TypeOK
    BY <1>1, <1>2 DEF Init, TypeOK
<1>4. GroupDecodable /\ AudioOutlastsSession /\ EncoderHasCodec
    BY DEF Init, EncoderHasCodec, GroupDecodable, AudioOutlastsSession, NoTrack
<1> QED BY <1>3, <1>4 DEF IInv

LEMMA CaptureInv ==
    ASSUME IInv, CaptureNext
    PROVE  IInv'
<1> USE DEF IInv, GroupDecodable, AudioOutlastsSession, EncoderHasCodec, source,
            sound, notices
<1>1. ASSUME NEW c \in Codec, StartPipeline(c) PROVE IInv'
    BY <1>1 DEF StartPipeline, TypeOK
<1>2. ASSUME NEW key \in BOOLEAN, Encode(key) PROVE IInv'
    <2>1. codec \in Codec => [codec |-> codec, key |-> key] \in Frame
        BY DEF Frame
    <2>2. codec \in Codec
        BY <1>2 DEF Encode, EncoderHasCodec
    <2>3. frames' \in Seq(Frame) /\ Len(frames') <= FrameCap
        BY <1>2, <2>1, <2>2, CapAssumption DEF Encode, TypeOK
    <2> QED BY <1>2, <2>3 DEF Encode, TypeOK
<1>3. CASE CaptureEnds
    BY <1>3 DEF CaptureEnds, TypeOK
<1> QED BY <1>1, <1>2, <1>3 DEF CaptureNext

LEMMA AudioInv ==
    ASSUME IInv, AudioNext
    PROVE  IInv'
<1> USE CapAssumption
    DEF IInv, GroupDecodable, AudioOutlastsSession, EncoderHasCodec, source, sound,
        notices
<1>1. CASE AudioStarts
    BY <1>1 DEF AudioStarts, TypeOK
<1>2. CASE AudioFails
    BY <1>2 DEF AudioFails, TypeOK
<1>3. CASE AudioReturns
    BY <1>3 DEF AudioReturns, MayReturn, TypeOK
<1>4. CASE AudioPacket
    BY <1>4 DEF AudioPacket, TypeOK
<1> QED BY <1>1, <1>2, <1>3, <1>4 DEF AudioNext

LEMMA ControlInv ==
    ASSUME IInv, ControlNext
    PROVE  IInv'
<1> USE CapAssumption
    DEF IInv, GroupDecodable, AudioOutlastsSession, EncoderHasCodec, source, sound,
        notices
<1>1. CASE ControlMessage
    BY <1>1 DEF ControlMessage, TypeOK
<1>2. CASE ControlSent
    BY <1>2 DEF ControlSent, TypeOK
<1> QED BY <1>1, <1>2 DEF ControlNext

\* The pump returns: its track is gone, and with it any group.
LEMMA EndInv ==
    ASSUME IInv, End, frames' \in Seq(Frame), Len(frames') <= FrameCap
    PROVE  IInv'
BY DEF End, IInv, TypeOK, GroupDecodable, NoTrack, AudioOutlastsSession,
       EncoderHasCodec, source, sound, notices

\* What is left of a frame channel that was not empty.
LEMMA TailFits ==
    ASSUME TypeOK, frames # <<>>
    PROVE  /\ Tail(frames) \in Seq(Frame) /\ Len(Tail(frames)) <= FrameCap
           /\ Head(frames) \in Frame
<1>1. Tail(frames) \in Seq(Frame) /\ Len(Tail(frames)) = Len(frames) - 1
    BY DEF TypeOK
<1> QED BY <1>1, CapAssumption DEF TypeOK

\* push_video keeps the track in order, whatever the frame: a keyframe opens a
\* group of its own, a delta joins only a group of its codec.
LEMMA PushInv ==
    ASSUME IInv, NEW f \in Frame, pump = "serving", PushVideo(f)
    PROVE  /\ video' = NoTrack \/ video' \in [codec : Codec, group : Group \cup {NoGroup}]
           /\ GroupDecodable'
           /\ control' \in 0..ControlCap /\ told' \in Codec \cup {NoCodec}
           /\ pump' \in {"serving", "panicked"}
<1> USE DEF IInv
<1> DEFINE track == IF NeedsTrack(f) THEN [codec |-> f.codec, group |-> NoGroup] ELSE video
           group == IF f.key THEN [head |-> f, codecs |-> {f.codec}]
                    ELSE [track.group EXCEPT !.codecs = @ \cup {f.codec}]
<1>1. f.codec \in Codec /\ f.key \in BOOLEAN
    BY DEF Frame
<1>2. control' \in 0..ControlCap /\ told' \in Codec \cup {NoCodec}
    BY <1>1, CapAssumption DEF PushVideo, TypeOK, notices
<1>3. /\ track \in [codec : Codec, group : Group \cup {NoGroup}]
      /\ track.codec = f.codec
      /\ track.group # NoGroup => track = video
    BY <1>1 DEF TypeOK, NeedsTrack, Group
<1>4. CASE ~HasGroup(f, track)
    BY <1>2, <1>4 DEF PushVideo, GroupDecodable, NoTrack
<1>5. CASE HasGroup(f, track)
    <2>1. video' = [track EXCEPT !.group = group] /\ pump' = pump
        BY <1>5 DEF PushVideo
    <2>2. /\ group \in Group
          /\ group.head.key /\ group.head.codec = f.codec /\ group.codecs = {f.codec}
        <3>1. CASE f.key
            BY <1>1, <3>1 DEF Group
        <3>2. CASE ~f.key
            <4>1. track.group # NoGroup /\ track = video /\ track.group \in Group
                BY <1>3, <1>5, <3>2 DEF HasGroup
            <4>2. /\ track.group.head.key /\ track.group.head.codec = f.codec
                  /\ track.group.codecs = {f.codec}
                BY <4>1, <1>3 DEF GroupDecodable
            <4>3. group = [track.group EXCEPT !.codecs = {f.codec}]
                BY <3>2, <4>2
            <4> QED BY <4>1, <4>2, <4>3, <1>1 DEF Group
        <3> QED BY <3>1, <3>2
    <2>3. video'.codec = f.codec /\ video'.group = group
        BY <2>1, <1>3
    <2>4. video' \in [codec : Codec, group : Group \cup {NoGroup}]
        BY <2>1, <2>2, <1>3
    <2>5. GroupDecodable'
        BY <2>2, <2>3 DEF GroupDecodable
    <2> QED BY <1>2, <2>1, <2>4, <2>5
<1> QED BY <1>4, <1>5

LEMMA PumpInv ==
    ASSUME IInv, PumpNext
    PROVE  IInv'
<1> USE DEF IInv
<1>1. CASE Handshake
    BY <1>1 DEF Handshake, TypeOK, GroupDecodable, AudioOutlastsSession,
                EncoderHasCodec, source, sound, notices
<1>2. CASE DriverFails
    BY <1>2 DEF DriverFails, TypeOK, GroupDecodable, AudioOutlastsSession,
                EncoderHasCodec, source, sound, notices
<1>3. CASE StopOnCancel \/ StopOnDriver \/ ChannelClosed
    BY <1>3, EndInv DEF StopOnCancel, StopOnDriver, ChannelClosed, TypeOK
<1>4. CASE TakeFrame
    <2>1. frames' = Tail(frames) /\ frames # <<>> /\ pump = "serving" /\ PushVideo(Head(frames))
        BY <1>4 DEF TakeFrame, Serving
    <2>2. frames' \in Seq(Frame) /\ Len(frames') <= FrameCap
        BY <2>1, TailFits
    <2>3. /\ video' = NoTrack \/ video' \in [codec : Codec, group : Group \cup {NoGroup}]
          /\ GroupDecodable'
          /\ control' \in 0..ControlCap /\ told' \in Codec \cup {NoCodec}
          /\ pump' \in {"serving", "panicked"}
        BY <2>1, TailFits, PushInv
    <2>4. UNCHANGED <<cancelled, driver, capture, codec, fresh, audioTask, audio>>
        BY <1>4 DEF TakeFrame, source, sound
    <2> QED BY <2>2, <2>3, <2>4 DEF TypeOK, AudioOutlastsSession, EncoderHasCodec
<1>5. CASE SkipFrame
    <2>1. frames' \in Seq(Frame) /\ Len(frames') <= FrameCap
        BY <1>5, TailFits DEF SkipFrame
    <2> QED BY <1>5, <2>1 DEF SkipFrame, TypeOK, GroupDecodable,
                              AudioOutlastsSession, EncoderHasCodec,
                              source, sound, notices
<1>6. CASE TrackFails
    <2>1. frames' \in Seq(Frame) /\ Len(frames') <= FrameCap
        BY <1>6, TailFits DEF TrackFails
    <2> QED BY <1>6, <2>1, EndInv DEF TrackFails
<1>7. CASE TakeAudio
    BY <1>7, CapAssumption DEF TakeAudio, TypeOK, GroupDecodable,
                               AudioOutlastsSession, EncoderHasCodec, source,
                               notices
<1>8. CASE AudioTrackFails
    BY <1>8, CapAssumption DEF AudioTrackFails, TypeOK, GroupDecodable,
                               AudioOutlastsSession, EncoderHasCodec,
                               NoTrack, source, notices
<1> QED BY <1>1, <1>2, <1>3, <1>4, <1>5, <1>6, <1>7, <1>8 DEF PumpNext, HandleFrame,
                                                              HandleAudio

LEMMA NextInv == IInv /\ [Next]_vars => IInv'
<1> SUFFICES ASSUME IInv, [Next]_vars PROVE IInv'
    OBVIOUS
<1>1. CASE UNCHANGED vars
    BY <1>1 DEF vars, source, sound, notices, IInv, TypeOK, GroupDecodable,
                AudioOutlastsSession, EncoderHasCodec
<1>2. CASE Cancel
    BY <1>2 DEF Cancel, source, sound, notices, IInv, TypeOK, GroupDecodable,
                AudioOutlastsSession, EncoderHasCodec
<1> QED BY <1>1, <1>2, CaptureInv, AudioInv, ControlInv, PumpInv DEF Next

LEMMA Inductive == Safety => []IInv
BY InitInv, NextInv, PTL DEF Safety

----------------------------------------------------------------------------
\* Every variable keeps its type and every channel its bound.
THEOREM TypeCorrect == Safety => []TypeOK
<1>1. IInv => TypeOK
    BY DEF IInv
<1> QED BY <1>1, Inductive, PTL

\* Across codec changes, dropped frames and skipped frames, an open group began
\* with a keyframe and holds nothing but its track's codec.
THEOREM GroupsAreDecodable == Safety => []GroupDecodable
<1>1. IInv => GroupDecodable
    BY DEF IInv
<1> QED BY <1>1, Inductive, PTL

\* Audio that fails, ends or never starts does not end the media, whatever is
\* queued: only an audio packet that its track refuses does.
THEOREM AudioTaskEndsNothing == Safety => EndsAtARefusal
<1> DEFINE Due == pump = "serving" /\ pump' = "ended" =>
                    \/ cancelled \/ driver = "down"
                    \/ capture = "over" /\ frames = <<>>
                    \/ frames # <<>> /\ frames' = Tail(frames)
                    \/ audio > 0 /\ audio' = audio - 1
<1>1. IInv /\ [Next]_vars => [Due]_vars
    <2> SUFFICES ASSUME IInv, Next, pump = "serving", pump' = "ended",
                        ~cancelled, driver # "down"
                 PROVE  \/ capture = "over" /\ frames = <<>>
                        \/ frames # <<>> /\ frames' = Tail(frames)
                        \/ audio > 0 /\ audio' = audio - 1
        OBVIOUS
    <2>1. CASE CaptureNext
        BY <2>1 DEF CaptureNext, StartPipeline, Encode, CaptureEnds
    <2>2. CASE AudioNext
        BY <2>2 DEF AudioNext, AudioStarts, AudioFails, AudioReturns, AudioPacket
    <2>3. CASE ControlNext \/ Cancel
        BY <2>3 DEF ControlNext, ControlMessage, ControlSent, Cancel
    <2>4. CASE HandleFrame
        BY <2>4 DEF HandleFrame, TakeFrame, SkipFrame, TrackFails
    <2>5. CASE HandleAudio
        BY <2>5 DEF HandleAudio, TakeAudio, AudioTrackFails
    <2>6. CASE Handshake \/ DriverFails \/ StopOnCancel \/ StopOnDriver
        BY <2>6 DEF Handshake, DriverFails, StopOnCancel, StopOnDriver
    \* The audio task is the last to let go of its channel, so the channel that
    \* closes while the token stands is capture's.
    <2>7. CASE ChannelClosed
        BY <2>7 DEF ChannelClosed, SenderGone, Served, IInv, AudioOutlastsSession
    <2> QED BY <2>1, <2>2, <2>3, <2>4, <2>5, <2>6, <2>7 DEF Next, PumpNext
<1> QED BY <1>1, Inductive, PTL DEF Safety, EndsAtARefusal
=============================================================================
