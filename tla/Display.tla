------------------------------- MODULE Display -------------------------------
(***************************************************************************)
(* The page's display (webui/wasm/src/video.rs): ResizeDebounce and        *)
(* DisplayResize, which report the canvas's size to the server, and        *)
(* run_video_track, which decodes what the server captures at that size.   *)
(* The browser runs one callback at a time, so a callback is a step; what  *)
(* waits for the network (send_reliable) takes a step to come back.        *)
(*                                                                         *)
(* External: the user and the page's layout, the browser's observers,      *)
(* timers and decoder, and the server, which captures at the last size it  *)
(* was sent and opens a group at every keyframe (MediaPath, Capture).  Its *)
(* video comes on one track: a change of codec, which starts a second task *)
(* beside the first, is left out.                                          *)
(***************************************************************************)
EXTENDS Naturals, Sequences, SequencesExt

CONSTANTS
    Size,           \* sizes the canvas can have
    None,           \* no size: not laid out, nothing sent, nothing waiting
    Settle,         \* RESIZE_SETTLE_MS, in ticks
    MaxQueue,       \* MAX_DECODE_QUEUE
    MaxBacklog,     \* bound: chunks the decoder is ever given ahead of its output
    MaxWire,        \* bound: video frames on their way
    MaxFaults       \* bound: streams and groups that fail

ASSUME SizeAssumption ==
    /\ None \notin Size /\ None \notin [size : Size, restore : Size \cup {None}]
    /\ "never" \notin Size \cup {None}
ASSUME BoundAssumption ==
    /\ Settle \in Nat \ {0} /\ MaxQueue \in Nat /\ MaxBacklog \in Nat
    /\ MaxWire \in Nat /\ MaxFaults \in Nat /\ MaxBacklog > MaxQueue

MaybeSize == Size \cup {None}
Frame == [key : BOOLEAN, size : Size]

VARIABLES
    canvas,     \* the canvas's size
    seen,       \* what ResizeObserver last called back for; "never" before that
    phase,      \* "start", "initial" (send_initial_resize awaits), "watching"
    sent, waiting, queued,  \* ResizeDebounce: sent, pending, queued
    flight,     \* the send on its stream: its size and what to restore, or None
    timer,      \* the settle timer's ticks; 0 when it is not armed
    misled,     \* the last size to arrive was reported as not sent
    server,     \* the size the server captures at
    wanted,     \* the server owes a keyframe
    wire,       \* video frames on their way, oldest first
    torn,       \* the group on its way has failed: the rest of it is lost
    task,       \* run_video_track: "none", "asking" (awaits a send), "reading"
    gate,       \* awaiting_keyframe
    backlog,    \* the sizes of the frames the decoder holds
    shown,      \* the size of the picture on the canvas
    faults,
    gap,        \* a frame of the current group never reached the decoder
    unsound,    \* the decoder was fed a delta across such a gap
    excuse      \* why the server may keep another size: {}, "failed", "returned"

resize == <<canvas, seen, phase, sent, waiting, queued, flight, timer, misled, excuse>>
video == <<wire, torn, task, gate, backlog, shown, gap, unsound>>
vars == <<resize, server, wanted, video, faults>>

SizesTyped ==
    /\ canvas \in MaybeSize /\ seen \in MaybeSize \cup {"never"}
    /\ sent \in MaybeSize /\ waiting \in MaybeSize /\ queued \in MaybeSize
    /\ server \in MaybeSize /\ shown \in MaybeSize
    /\ flight = None \/ flight \in [size : Size, restore : MaybeSize]

FramesTyped ==
    /\ wire \in Seq(Frame) /\ Len(wire) <= MaxWire
    /\ backlog \in Seq(Size) /\ Len(backlog) <= MaxBacklog

StagesTyped ==
    /\ phase \in {"start", "initial", "watching"}
    /\ task \in {"none", "asking", "reading"}
    /\ misled \in BOOLEAN /\ wanted \in BOOLEAN /\ torn \in BOOLEAN /\ gate \in BOOLEAN
    /\ gap \in BOOLEAN /\ unsound \in BOOLEAN

CountsTyped ==
    /\ timer \in 0..Settle /\ faults \in 0..MaxFaults
    /\ excuse \in SUBSET {"failed", "returned"}

TypeOK == SizesTyped /\ FramesTyped /\ StagesTyped /\ CountsTyped

Init ==
    /\ canvas \in MaybeSize /\ seen = "never" /\ phase = "start"
    /\ sent = None /\ waiting = None /\ queued = None /\ flight = None /\ timer = 0
    /\ misled = FALSE /\ server = None /\ wanted = FALSE
    /\ wire = <<>> /\ torn = FALSE /\ task = "none" /\ gate = TRUE /\ backlog = <<>>
    /\ shown = None /\ gap = TRUE /\ unsound = FALSE
    /\ faults = 0 /\ excuse = {}

(***************************************************************************)
(* The size.                                                               *)
(***************************************************************************)

\* The user drags the window, rotates the device, goes full screen; the canvas
\* has no size while it is not laid out.
Layout ==
    /\ canvas' \in MaybeSize \ {canvas}
    /\ UNCHANGED <<seen, phase, sent, waiting, queued, flight, timer, misled, excuse,
                   server, wanted, video, faults>>

\* send_initial_resize: nothing is sent for a canvas without a size.
SendInitial ==
    /\ phase = "start"
    /\ IF canvas = None
       THEN phase' = "watching" /\ UNCHANGED flight
       ELSE /\ phase' = "initial"
            /\ flight' = [size |-> canvas, restore |-> None]
    /\ UNCHANGED <<canvas, seen, sent, waiting, queued, timer, misled, excuse, server,
                   wanted, video, faults>>

\* The server rebuilds its capture for a size it is sent, and a new encoder
\* begins with a keyframe.
Received(size) == server' = size /\ wanted' = TRUE

\* send_reliable: the size is written and the stream closed; or it is not
\* delivered; or it is, and the failure of the close alone is reported as the
\* failure of the send.
Reported(ok) ==
    \/ /\ ok /\ Received(flight.size) /\ misled' = FALSE
       /\ UNCHANGED faults
    \/ /\ ~ok /\ faults < MaxFaults /\ faults' = faults + 1
       /\ \/ UNCHANGED <<server, wanted, misled>>
          \/ Received(flight.size) /\ misled' = TRUE

\* It comes back, and setup_display_events goes on with what was sent.
InitialDone ==
    /\ phase = "initial" /\ phase' = "watching" /\ flight' = None
    /\ \E ok \in BOOLEAN : Reported(ok) /\ sent' = IF ok THEN flight.size ELSE sent
    /\ UNCHANGED <<canvas, seen, waiting, queued, timer, excuse, video>>

\* Mutant: a size that settles during a send is dropped.
BeginSendOrDrop(size, believed, free) ==
    IF free
    THEN /\ flight' = [size |-> size, restore |-> believed]
         /\ sent' = size /\ queued' = None
    ELSE UNCHANGED <<sent, flight, queued>>

\* ResizeDebounce::begin_send: one send at a time; the next waits in `queued`.
BeginSend(size, believed, free) ==
    IF free
    THEN /\ flight' = [size |-> size, restore |-> believed]
         /\ sent' = size /\ queued' = None
    ELSE queued' = size /\ UNCHANGED <<sent, flight>>

\* Mutant: every observation restarts the settle window.
ObserveRestarting(size) ==
    IF sent = size /\ waiting # size
    THEN /\ waiting' = None /\ timer' = 0
         /\ excuse' = IF queued = None THEN excuse ELSE {"returned"}
    ELSE waiting' = size /\ timer' = Settle /\ excuse' = {}

\* ResizeDebounce::observe, and DisplayResize::act on what it decides: a size
\* already waiting keeps its settle window, a return to what was sent cancels
\* what waits, and anything else waits anew.
Observed(size) ==
    IF waiting = size THEN UNCHANGED <<waiting, timer, excuse>>
    ELSE IF sent = size
    THEN /\ waiting' = None
         /\ timer' = IF waiting = None THEN timer ELSE 0
         /\ excuse' = IF queued = None THEN excuse ELSE {"returned"}
    ELSE waiting' = size /\ timer' = Settle /\ excuse' = {}

\* The callbacks of a rendering frame: ResizeObserver's, when the box is not what
\* it last called back for, and before it those of the orientation's media query
\* and of fullscreenchange, which may find nothing new.  They measure the same
\* layout, and what the second of them observes twice changes nothing.
Observe ==
    /\ phase = "watching"
    /\ seen' = canvas
    /\ IF canvas = None THEN UNCHANGED <<waiting, timer, excuse>> ELSE Observed(canvas)
    /\ UNCHANGED <<canvas, phase, sent, queued, flight, misled, server, wanted, video, faults>>

Tick ==
    /\ timer > 1 /\ timer' = timer - 1
    /\ UNCHANGED <<canvas, seen, phase, sent, waiting, queued, flight, misled, excuse,
                   server, wanted, video, faults>>

\* settle_expired, DisplayResize::flush.
Expire ==
    /\ timer = 1 /\ timer' = 0
    /\ waiting' = None
    /\ IF waiting \in {None, sent} THEN UNCHANGED <<sent, queued, flight>>
       ELSE BeginSend(waiting, sent, flight = None)
    /\ UNCHANGED <<canvas, seen, phase, misled, excuse, server, wanted, video, faults>>

\* Mutant: a send that fails is believed.
CompletedBelieving(ok) ==
    IF queued \in {None, sent} THEN queued' = None /\ flight' = None /\ UNCHANGED sent
    ELSE BeginSend(queued, sent, TRUE)

\* ResizeDebounce::completed: `sent` is what the server has again if the send
\* failed, and a queued size that is not it goes out.
Completed(ok) ==
    LET believed == IF ok THEN sent ELSE flight.restore
    IN IF queued \in {None, believed}
       THEN queued' = None /\ flight' = None /\ sent' = believed
       ELSE BeginSend(queued, believed, TRUE)

\* DisplayResize::send comes back, and goes by what send_reliable reports.
Land ==
    /\ phase = "watching" /\ flight # None
    /\ \E ok \in BOOLEAN :
        /\ Reported(ok) /\ Completed(ok)
        /\ excuse' = IF ~ok /\ queued = None /\ waiting = None
                     THEN excuse \cup {"failed"} ELSE excuse
    /\ UNCHANGED <<canvas, seen, phase, waiting, timer, video>>

(***************************************************************************)
(* The video.                                                              *)
(***************************************************************************)

\* The server publishes a frame: a keyframe when it owes one, and else if its
\* encoder sees fit.  Whoever has not subscribed, or has lost the group, does not
\* get it.
Publish ==
    /\ server # None /\ Len(wire) < MaxWire
    /\ \E key \in BOOLEAN :
        /\ wanted => key
        /\ torn' = (torn /\ ~key)
        /\ IF task = "none" \/ torn'
           THEN UNCHANGED wire /\ gap' = (gap \/ torn' \/ task = "none")
           ELSE wire' = Append(wire, [key |-> key, size |-> server]) /\ UNCHANGED gap
    /\ wanted' = FALSE
    /\ UNCHANGED <<resize, server, task, gate, backlog, shown, unsound, faults>>

\* The stream of the group being read fails: what is left of it is lost, and the
\* reader goes on with the next.
GroupFails ==
    /\ task # "none" /\ ~torn /\ faults < MaxFaults /\ faults' = faults + 1
    /\ LET next == SelectInSeq(wire, LAMBDA f : f.key)
       IN /\ wire' = IF next = 0 THEN <<>> ELSE SubSeq(wire, next, Len(wire))
          /\ torn' = (next = 0)
    /\ gap' = TRUE
    /\ UNCHANGED <<resize, server, wanted, task, gate, backlog, shown, unsound>>

\* The server announces its track (VideoTrack), and run_video_track subscribes
\* with the gate raised and asks for a keyframe.
Subscribe ==
    /\ phase = "watching" /\ task = "none" /\ server # None
    /\ task' = "asking"
    /\ UNCHANGED <<resize, server, wanted, wire, torn, gate, backlog, shown, gap, unsound, faults>>

\* The request comes back.  Whether it was delivered is not looked at.
Asked ==
    /\ task = "asking" /\ task' = "reading"
    /\ \/ wanted' = TRUE /\ UNCHANGED faults
       \/ faults < MaxFaults /\ faults' = faults + 1 /\ UNCHANGED wanted
    /\ UNCHANGED <<resize, server, wire, torn, gate, backlog, shown, gap, unsound>>

\* Mutant: a gate that is lowered by whatever comes first.
PassesAny(frame) == TRUE

Passes(frame) == ~gate \/ frame.key

\* One turn of run_video_track's loop: skip up to a keyframe, decode, and when
\* the decoder holds too much raise the gate and ask for a keyframe.
Read ==
    /\ task = "reading" /\ wire # <<>>
    /\ wire' = Tail(wire)
    /\ LET frame == Head(wire)
           late  == Len(backlog) + 1 > MaxQueue
       IN IF Passes(frame)
          THEN /\ Len(backlog) < MaxBacklog
               /\ backlog' = Append(backlog, frame.size)
               /\ unsound' = (unsound \/ (gap /\ ~frame.key))
               /\ gap' = (gap /\ ~frame.key)
               /\ gate' = late
               /\ task' = IF late THEN "asking" ELSE task
          ELSE gap' = TRUE /\ UNCHANGED <<backlog, unsound, gate, task>>
    /\ UNCHANGED <<resize, server, wanted, torn, shown, faults>>

\* The decoder's output callback draws the frame and sizes the canvas to it.
Output ==
    /\ backlog # <<>>
    /\ shown' = Head(backlog) /\ backlog' = Tail(backlog)
    /\ UNCHANGED <<resize, server, wanted, wire, torn, task, gate, gap, unsound, faults>>

Next ==
    \/ Layout \/ SendInitial \/ InitialDone \/ Observe \/ Tick \/ Expire \/ Land
    \/ Publish \/ GroupFails \/ Subscribe \/ Asked \/ Read \/ Output

\* Callbacks that are due run, sends come back, the server publishes, the network
\* delivers, the decoder decodes.  Nothing is promised of the user, of callbacks
\* that find nothing new, or of keyframes no one has asked for: the server makes
\* them on request only (server/src/pipewire/video.rs:743-749).
Fairness ==
    /\ WF_vars(SendInitial) /\ WF_vars(InitialDone) /\ WF_vars(seen # canvas /\ Observe)
    /\ WF_vars(Tick) /\ WF_vars(Expire) /\ WF_vars(Land)
    /\ WF_vars(Subscribe) /\ WF_vars(Asked) /\ WF_vars(Read) /\ WF_vars(Output)
    /\ WF_vars(Publish)

Spec == Init /\ [][Next]_vars /\ Fairness
-----------------------------------------------------------------------------
\* Between sends, what the page believes it has told the server is what the
\* server captures at, through queued sends and failed ones (video.rs:223-249),
\* unless the last size to arrive was reported as not sent (lib.rs:336-342).
BeliefIsTrue == phase = "watching" /\ flight = None => sent = server \/ misled

AtRest ==
    /\ phase = "watching" /\ seen = canvas /\ canvas # None
    /\ flight = None /\ waiting = None

\* Once the page is at rest the server captures at the canvas's size, unless the
\* last word of it was lost with a stream, the canvas came back to the size on the
\* wire while another was queued behind it (video.rs:191-219), or the page takes a
\* size that arrived for one that did not.
StaleExplained == AtRest /\ excuse = {} /\ ~misled => server = canvas

\* The decoder is never fed a delta whose group it has not had from the keyframe
\* on, whether the subscription began mid-group, the decoder fell behind or a
\* group was lost (video.rs:756-821).
NothingFedWithoutItsBase == ~unsound

\* What reaches the page cannot be decoded until a keyframe comes, and no one has
\* asked for one: the request was lost, or the group was.
Frozen ==
    /\ task = "reading" /\ (gate \/ torn) /\ ~wanted
    /\ \A i \in DOMAIN wire : ~wire[i].key

\* A canvas that stays at a size is shown the desktop at that size in the end, or
\* the page came to rest with an excuse or misled, or the picture is frozen: the settle
\* window closes, the send comes out of the queue, the gate comes down again, the
\* decoder catches up (video.rs:301-355, 701-828).
PictureFollows ==
    \A s \in Size : <>[](canvas = s) => <>[](shown = s \/ excuse # {} \/ misled \/ Frozen)
=============================================================================
