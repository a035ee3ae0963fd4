# A verification model of webshooter

webshooter shares a Linux desktop with a browser. The server (`server/`, Rust on
tokio) accepts WebTransport connections, gives each client a virtual monitor and a
virtual speaker, encodes them and publishes them over MoQ; the client (`webui/`,
Rust compiled to WebAssembly with some TypeScript) decodes them and sends input
back. `shared/` holds the wire types and the queue both sides use.

The modules here are translated from the source. They are checked on small
instances by TLC, and their safety properties are proved for all instances by TLAPS.
`PROJECT.json` lists the runs, the mutants each property catches, the source lines
each definition stands for, the hazards and the theorems.

## 1. Inventory

| Component | State it keeps | Operations | What is hard |
|---|---|---|---|
| Session registry (`ipc.rs`, `wt.rs`) | `REGISTRY` (set of `Arc<Session>` keyed by id), `CHANGES`, `TEARING_DOWN` | `next_client_id`, `register_session`, `remove_session`, `lowest_client_id`, `render_session_names` | ids are recycled while late removals, tray callbacks and cleanups of their previous holders are still under way; an await between choosing an id and a name |
| Session teardown (`ipc.rs`, `wt.rs`, `pipewire/audio.rs`) | the token, the task slots, the cleanup task, the audio sink | `run_session`, `set_video`, `set_audio`, `Session::stop`, `shutdown_sessions` | `stop` on a tray or shutdown thread while the tasks are being spawned; aborts after five seconds; threads that outlive a task |
| Wake queue (`shared/wake_queue.rs`) | items, wakers, closed | `push`, `close`, `poll_pop` | wakes outside the lock, wakers of futures that were dropped |
| MoQ mux and transport (`moq/mod.rs`, `moq/transport.rs`, `shared/mux.rs`) | four wake queues, peeked bytes | `pump`, `classify`, the poll traits | one reader for two protocols; a stream that never sends its first byte |
| Media path (`wt.rs`, `moq/publish.rs`) | frame, audio and control channels, tracks and groups | the appsink callback, `media_pump`, `push_video`, `push_audio` | full channels, codec changes between queued frames, biased selection, failures of the optional part |
| Capture (`pipewire/video.rs`) | `next_size`, the portal session, the pipeline, the restart watch | `capture`, `single_capture`, `park_until_unlocked` | retry, resize, GPU loss and cancellation at every await |
| Bitrate governor (`pipewire/bitrate.rs`) | the current rate | `next_bitrate`, a watch of link pressure | a coalescing watch, bounds |
| Portal approval, session lock (`portal_auth.rs`, `session_lock.rs`) | the restore token, the lock state | `accept_dialog`, `wait_until_unlocked` | a lock state read before it is used |
| Audio sink (`pipewire/audio.rs`) | a PipeWire thread, a pipeline | `start_audio_sink`, drop | a start that is dropped half way; a join that blocks |
| Client pump and flood guard (`wt.rs`) | a token bucket, a kick window, a keepalive timer | `client_pump` | limits in a row, a timer against late traffic, waits for a stream's bytes in between |
| Input (`pipewire/{eis,touch,eis_keyboard,pointer,gamepad,input_coalesce}.rs`) | pending events, pressed keys, touches, devices | `push`, `drain_budgeted`, EIS requests | order of press and release under coalescing; a shared budget; capture restarts with keys down |
| Registration and login (`auth.rs`) | challenges, cookies, one-time tokens, attempt counts | `get_challenge`, `login`, `register`, `OnetimeToken::check` | an operator's answer consumed by one of several waiting requests |
| Configuration (`config.rs`, `config_watch.rs`, `main.rs`) | `APP_CONFIG`, the file | `update_config`, `deauthorise`, `watch_respond` | snapshots written back over each other; a delayed reload |
| IPC socket (`ipc.rs`) | a queue of one message | `ipc_send`, `ipc_recv`, `setup_ipc` | a full queue; a second instance |
| Serve loop (`main.rs`, `cert_watcher.rs`, `frontend.rs`) | `RESET_TRIGGER`, the server tasks | `run`, `restart_on_error`, `reset_app` | blocking calls in async code; a second turn of the loop |
| Tray (`tray.rs`) | the rendered menu | `menu`, `menu_refresher`, the entries | entries that close over ids |
| Page: session (`wasm/lib.rs`, `moq.rs`) | the transport, two pumps, `AppSide` and MoQ's inbox, the overlay | `start`, `run_moq`, `next_control`, the drains, `poll_read` | a connection that dies between any two promises; two queues closed apart; a chunk read to classify a stream and owed to its reader |
| Page: audio (`wasm/audio.rs`, `wt.rs`, `pipewire/audio.rs`) | the `AudioContext`, the `audio_ready` latch, the gain, the volume channel | `handle_audio_state`, `resume_on_first_gesture`, `audio_ready_task` | a handshake over one datagram, gestures, volumes that overtake each other |
| Page: display (`wasm/video.rs`) | `ResizeDebounce`, the subscription's gate, the decode queue | `observed`, `expire`, `send_completed`, `run_video_track` | three sizes under way at once; gaps in a group |
| Page: input throttle (`wasm/throttle.rs`, `gamepad.rs`, `shared/client_datagram.rs`) | the pending queue, one timer, the interval | `send_input`, `flush_pending`, `coalesce_input` | writing through past what waits; eviction |
| Everything else (`compositor_discovery.rs`, `keyboard.rs`, `logging.rs`, `error.rs`, `macros/`, `webui/src`) | none that outlives a call | | sequential, or outside the process |

How they interact. The accept loop of `setup_wt` is the only creator of sessions. A
session's transport task (`run_session`) runs the media pump, the client pump and
the control sender as inline futures, and spawns two tasks, capture and audio, whose
handles live in the `Session`. Everyone who ends a session (the session itself, a
tray callback, the shutdown) calls `remove_session`, which decides by identity under
the registry's lock and then runs `stop()` with no lock held. `stop()` leaves a
cleanup task that holds the reservation of the session's names (`TEARING_DOWN`)
until capture and audio have released them. The mux pump is the only reader of the
connection and feeds the MoQ driver and the client pump through wake queues. Capture
and audio feed the media pump through bounded channels; the media pump owns the
tracks. Control messages go through one bounded channel per session. On the page, the
pumps own the transport's reads as the mux does on the server, and hand on to moq-net's
drivers and to the control loop; the display reports sizes that the capture's next
iteration is built for, and asks for keyframes that the capture forces. A registration
waits on the queue of the IPC socket and writes a copy of the configuration that the
other handlers, the operator and the reload also write.

## 2. What is modelled

### SessionRegistry

State: the stage of each `Session` from the accept loop to the end of its cleanup,
its id, its name (the display name and the suffix `name_for` appends; two sessions
have the same names exactly when both agree), `TEARING_DOWN`, the transport tasks,
and the tray: what the menu shows, how far the refresher is, whether a revision of
`CHANGES` is unseen, and the sessions `disconnect_client` has looked up. One action per
step that is atomic in the code: `Reserve` ends where the accept loop awaits the config,
`Render` and `Register` are what follows, and `Disconnect` and `RemoveAsked` are the two
lock sections of `disconnect_client`. Any number of tray callbacks may be between the
two. `RemoveSession` is shared by every caller, as in the code. A transport task leaves
its select and removes its session, is aborted, or unwinds past the removal (`Panic`).

The tray is spawned beside the serve loop: `SpawnTray` renders the first menu,
`Subscribe` comes after it and takes whatever revision `CHANGES` has as seen; the
service may be unavailable, or end later. `missed` is history: the sessions that came or
went between the two, which the menu does not show until the next change.

A `Session` is used for one connection, so `Session` bounds the number of
connections of a behaviour; ids are recycled among them. `MaxId` bounds ids and is
never reached: no id exceeds the number of sessions alive at once. Shutdown adds only
another caller of `remove_session` and is in the next module.

### SessionTeardown

One registered session, in the detail that SessionRegistry leaves out: the token, the
two task slots, the handles the cleanup task joins, which tasks were aborted, and for
each task the PipeWire resource that carries the session's name (`none`, `owned` by
the task, `stored` in `Session.audio_sink`, `stray`: left by an aborted task to a
thread nobody awaits). `stop()` is three steps (cancel; abort the transport task and
take the handles; join with the five-second aborts), so that `set_video` and
`set_audio` fall between any two. `shutdown_sessions` is followed as far as this one
session is concerned: listed or missed, removed here or by another thread, its handle
collected, awaited, timed out.

`Panic` is the media path's: the task unwinds, cancels nothing, leaves its handles in
their slots and its session registered.

Time is abstracted: a timeout may fire whenever what it bounds has not finished.
Nothing forces a capture to heed its token.

### WakeQueue and FifoQueue

`push` and `close` change the queue and take the wakers under the lock; the wakes are
then in flight, one at a time, while other calls run. A consumer awaits, is polled
because it was woken or because another branch of its task was ready, or drops its
await, leaving its waker in the list. `FifoQueue` is the abstract promise: accepted
items come out once and in order, nothing is accepted after the close, and nobody is
told of the end while items are left. `WakeQueue` implements it with
`queue <- items, open <- ~closed, told <- {c : state[c] = "ended"}`.

### MediaPath

The appsink callback, the audio task, the control channel, `media_pump` and the video
track. A frame is its codec and whether it is a key; an open group is the frame that
opened it and the codecs of what was written to it. The pump's `biased` select is kept
as it is: token, driver, frames, audio. A failure of audio is told apart, for
`EndsAtARefusal`, which is proved and not run. `push_video` is one action: the new track and
its notice, the group, the write, and the panic when a delta finds no group. moq-net
is external: it may refuse a track, a group or a frame, and its driver may fail.
Left out: the link report, which touches none of this state, the fixed size of audio
groups, and payloads.

### InputPath

One capture iteration's input: the task's receiver of the client bus, `InputCoalesce`,
the datagrams a tick has drained, the events of the datagram being dispatched, the
channel of 64 to the EIS thread, and `eis_main`. `seat` is what the compositor holds for
each finger, button, key and modifier, and what a virtual gamepad is set to. A datagram is
its kind, the thing it names and a value; two have one `InputKey` when kind and thing
agree, and a lift, a disconnect and a released button carry `Idle`. `Keyboard` carries
the modifiers held at that moment and the resolved key, `NoKey` for all other codes, as
in `InputKey::of`. The `biased` select is kept where it matters: the token first, the
timeout only with an empty bus. Every `send` of `dispatch_input` is a step of its own, so
the thread, a pause, a removal or an abort may come between two events of one datagram.

The compositor is external: it may be slow to offer devices, pause and resume them,
remove them, close the connection, and it releases what a connection held when it goes,
as the comment at `eis.rs:195` expects. `said`, `offered` and `owed` are history: what the
client has said last, the equipment it uses, and the motion it has sent. Bounds:
`Equipment` limits what one client uses, `MaxInFlight` what is under way at once,
`MaxOwed` the motion under way.

Left out: the mapping of coordinates and `base + index`; the budget other sessions
draw from, so that a tick that is
granted nothing is only a tick that does not happen; the cursor feedback, whose
`ReleaseMouse` may wait on a full control channel; and the order across devices within
one batch.

### Capture

One session's `capture`: the loop, the iterations of `single_capture` and, inside one,
every await from the two D-Bus proxies to the wait loop. `phase` is where the task is,
`up` what the iteration holds: the virtual monitor, the keyboard for dialogs, the portal
session, the pipeline, its tasks, the bus watcher, the input thread. `Answered`,
`NotCreated`, `Refused`, `GraceOver`, `Press` and `PressFailed` are the portal's calls
with `accept_dialog` around them; `Build` may fail with nothing, the pipeline, or the
pipeline and its tasks up. `Release` and `Finish` are the common teardown, one
step per await; the close of the portal session may be refused or time out, and the
teardown then goes on with the session open; `Failed`, `Notify` and `Poll` are `capture`'s reaction with
`park_until_unlocked`. `Govern` is one turn of `govern_bitrate` with `NextBitrate` for
`next_bitrate`; an encoder may ignore what it is told, and the governor reads back.
`ForceKeyframe` is `keyframe_task`, whose receiver lives as long as the tasks of one
iteration. The client bus is a broadcast channel that drops its oldest message.
Portal, compositor, GStreamer and logind are external.

Left out: the restore token, the choice among streams and codecs, the cursor, `rate_task`,
and what a `create_session` dropped at its await leaves with the portal.

### Connection

`moq/mod.rs`'s pump and `client_pump` over the connection, in discrete time: `Tick`
passes only while neither pump has anything to do (`MuxReady`, `PumpReady`), so timeouts
are exact and the pumps prompt. `AcceptUni` and `Classify` are the mux's stream arm (it waits up to
`FIRST_BYTE_TIMEOUT` for the first byte and takes nothing else meanwhile),
`ReceiveDatagram` the other; `RecvDatagram`, `RecvUnistream` and `ReadToEnd` are the
client pump's, with the token bucket, the count of refusals and the kick; `Quiet` is
the keepalive. A tick is about a second, so the kick window is one. In each the client
sends a keepalive and the input it may, or none of it. The network holds what it is given
for as long as it likes and delivers or loses any part of it at any moment: an uplink may
let a keepalive through now and then while input gathers behind it. `silence`, `heldUp`
and `gathered` are history: how long the client has truly said nothing, how long ago a
pump last waited for a stream's bytes, and whether, when the refusals of the open window
began to be counted, more input was on its way than a client sends in a keepalive
timeout. `KickAssumption` relates constants of the code: 250 inputs a second, for the
three seconds of the keepalive and the one of the kick window less a tick, are fewer than
the thousand refusals that kick.

Left out: contents (what does not parse is dropped and still counts as a sign of life)
and MoQ's datagrams. The queues between the pumps are `WakeQueue`'s.

### Registration

`get_challenge`, `login_inner`, `register_inner` with the rate limit around them, the
operator's `authorise` and `deauthorise`, the one-message queue between them, and the
configuration: the file, its copy in memory, `update_config` in three steps (truncate,
write, store), `watch_config` with its debounce, and a crash and a restart between any
two. A handler is a program counter and its locals; `snap` is the copy of the
configuration it carries across its wait, and `since` (history) the users that have come
into memory meanwhile. `Receive`, `Approve`, `Menu`, `Requeue` and `Block` are the turns
of the loop that waits for the operator; `Timeout`, `AnswerLost` and `HangUp` its other
ends. Two writes to the file may overlap: the second then finds another's contents, and
the result may be torn. `incidents` bounds faults, crashes, edits and windows together.

Left out: one-time tokens, cookies on other routes, and all settings but the users and
one more value.

### Display

The page's display: `ResizeDebounce` and `DisplayResize` (`sent`, the size that waits for
the settle window, the size queued behind a send, the send on its stream) and
`run_video_track` (`gate` is `awaiting_keyframe`, `backlog` the decode queue). A callback
of the browser is one action; what awaits the network takes a second to come back.
`Reported` is `send_reliable`: the size is written and the stream closed, or the size is
lost, or it arrives and the failure of the close is reported as the send's. The
server is the abstraction of `Capture` and `MediaPath`: it captures at the last size it
has received and a keyframe opens a group. `gap`, `unsound`, `excuse` and `misled` are history.

Left out: a change of codec, which starts a second track task beside the first, and the
task's end on an error of the track or of the decoder.

### InputThrottle

`send_input`, `flush_pending` and `coalesce_input`, with the gamepad poll and its
disconnection on a stream, which may fail. Motion goes both ways and is merged as the
code merges it, with saturation at the limits of its field (`MaxDelta`, an `i16`). `seat` is what the user has done, `host` what the datagrams
sent so far say, `pending` the queue. Time is in ticks, and the browser's timer may be
late, or early by the part of a millisecond it is cut by. `evicted`, `clipped` and
`excused` are history: the motion that `MAX_PENDING` and the field's limits have cost, and
the parts of the seat that a write past the queue, an unplugging, or an eviction has upset.

Left out: losses of the network (`InputPath` has those of the bus), the distinction of
scrolling from motion and of keys from buttons, which merge alike.

### Page

A page's session from `start` to the overlay: the transport, `run_moq`'s stages, the two
pumps with a task for every stream they drain, `AppSide`'s two queues and MoQ's inbox,
`MoQRecv::poll_read` with the chunk that classified the stream, moq-net's fused drivers,
the `AudioContext` with its events and the gestures, and `audio_ready_task` on the server
with the volume it reports. `taken` and `handled` are history: the messages the queues
have accepted and those the control loop has handled.

Left out: the display and input, the play-head and its badge, `defer_report`, the log
queue of `log.rs`, `MoQSend`, the visualiser, and any second stream of MoQ's.

## 3. What the runs check

| Run | Instance | Result |
|---|---|---|
| `registry` | 3 connections, 1 display name, ids 1..3 | about 839,000 states; `UniqueIds`, `TearingExact`, `MenuPending`, `LeavesOnlyWhenDue` hold |
| `teardown` | the 2 tasks a session has | about 7,200 states; `NoOrphanTask`, `CleanMeansReleased`, `ShutdownAwaitsItsOwn` and, under fairness, `TearDownCompletes` hold |
| `wakequeue` | 2 items, 2 producers, 2 consumers | about 2,400 states; `NoLostWakeup`, the refinement `IsFifo` and, under fairness, `CloseReachesAll` hold |
| `mediapath` | 2 codecs, a frame channel of 2, audio and control channels of 1 | about 81,900 states; `GroupDecodable` and, under fairness, `CancelEndsMedia` hold |
| `inputpath` | a finger in range and one out of it, a key, a modifier, a button, a gamepad, both axes; bus, channel and batch of 2; deltas up to the field's width of 2, 3 of motion owed; 3 datagrams or events under way | about 107,400 states; `SeatAgrees`, `KeyboardAgrees`, `MotionConserved` and, under fairness, `LiftsArrive`, `StopCompletes` hold |
| `capture` | 2 sizes, 2 resizes, 2 dialogs, a bus of 2, a control channel of 1, 2 faults, 1 lock, bitrates 2..3 | about 459,000 states; `ResourcesNested`, `GovernorTruthful` and, under fairness, `CancelEnds`, `ReachesLastSize`, `KeyframeServed` hold |
| `connection` | 1 application stream, 1 of MoQ's; keepalive 2 ticks, first byte 3, refill 2, burst 1, a kick after 3 refusals in 1 tick; an honest client sends 1 a tick, a flood 4; 4 inputs on their way | about 1.7 million states; `QuietExplained`, `HonestKickExplained` and, under fairness, `FloodEnds` hold |
| `registration` | 2 keys, 2 requests at once, no founders, a limit of 1; 2 challenges, 2 commands, 1 incident | about 2.3 million states; `CommandAdmitsOne`, `RateBounded`, `UsersLeaveForAReason` hold |
| `display` | 2 sizes, a settle window of 2 ticks, 1 frame on the wire, 2 in the decoder (1 is the limit), 1 fault | about 272,500 states; `BeliefIsTrue`, `StaleExplained`, `NothingFedWithoutItsBase` and, under fairness, `PictureFollows` hold |
| `throttle` | spacings of 2 and 3 ticks, a queue of 3, 5 events, steps of 1 either way in a field that holds -2..1 | about 443,000 states; `MotionConserved`, `SeatTruthful` hold |
| `page` | MoQ's stream in three chunks (one empty), or one other message with two volumes; a volume channel of 1, 1 pause | about 414,000 states; `StreamWhole`, `VolumeExplained`, `NoMessageStranded` and, under fairness, `DeathIsTold`, `AudioArrives` hold |
| `media_panic` | as `mediapath` | `NeverPanics` is violated, see below |

Deadlock is not checked: connections, items, sessions, events and incidents run out, and
what has been torn down stops.

The bounds. Recycling an id needs its old holder, its new holder and, for the names, a
bystander that keeps the registry from being empty: three connections. One display
name is the worst case for names. Two producers and two consumers let a wake meant
for one reach the other and a close overtake a push. Two codecs and a frame channel of
two put frames of both encoders behind each other and a dropped frame between them;
the other two channels are full at one, which is the case that matters. A press, its
lift and a second press are three datagrams, the shortest sequence in which folding can
go wrong; with a bus, a channel and a batch of two, each of them is full, and partly
taken, within three. Two deltas of two units fold past the width of the field, so that
clipping happens. One client uses one finger with the wheel, one key with bare
modifiers, one gamepad with the pointer, a button, or a slot out of range: the buffer
then holds entries of different things, and no two things share state but through the
queues. Symmetry is used for sessions and users in `registry`, which checks no liveness.

Two sizes and two resizes let a second size arrive during the set-up or the teardown for
the first; a bus of two holds a resize and what pushes it out; two faults are a failure
and a failure of what handles it (a first EIS connection and its retry, a pipeline and
the next iteration's set-up). Two dialogs are a first and a last. In `connection` the
first byte's timeout is longer than the keepalive, as in the code, and the refill of a
tick fills the bucket, as a second's does there; three refusals in a tick are the fewest
an honest client's one a tick cannot reach without a backlog (`KickAssumption`), and four
inputs on their way are a backlog that does reach them, so that the honest client of the
instance is kicked; one stream of each side suffices for a pump to wait on one. Two registrations contend for one command, or have
one each; every incident of `registration` happens in some behaviour, though
not two in one; with two in one (13 million states, too many for every run) the same
properties hold, and the proofs have no such bound. In `display` one frame on the wire and
two in the decoder put the decoder behind, with a keyframe or a delta next. A queue of
three and five events let the throttle evict, and fold behind a lift; a field whose limits
are two steps away lets it clip. In `page` the
content of the stream and the order of the other messages meet no common state, so each
`mix` sends one of them.

What holds has limits a reader should know, most of them in the properties' own words.

- `SeatAgrees` and `LiftsArrive` except what a lagging bus has dropped (`Lost`): when the
  datagram lost is the lift, no later state supersedes it. Folding keeps the last state,
  not each: a press and its release within one window arrive as the release only. A bus
  that lags may also take a size off (`lagged` in `ReachesLastSize`).
- A menu entry closes over a client id (`server/src/tray.rs:75`); when it is clicked the
  id may belong to another client. `UniqueIds` says only that it belongs to one.
- A session that is already being removed when `shutdown_sessions` takes its snapshot
  (`ipc.rs:428`) is not awaited; `ShutdownAwaitsItsOwn` is about those it removed.
- `MenuPending`: the menu does not show what changed between its first rendering and the
  refresher's subscription (`missed`) until the next change.
- `TearDownCompletes`: a session whose transport task has panicked stays registered until
  the tray or the shutdown removes it, also when its capture has ended (`Abandoned`).
- `GroupDecodable`: a group opens with a key of its track's codec and holds that codec
  only. A frame dropped on the way to the pump leaves a gap in it, disagreement 13.
- `KeyboardAgrees` compares the compositor with the task's tracker of modifiers, not with
  what the user holds. `LiftsArrive`, `StopCompletes`: the shared budget is assumed to
  grant a tick something in the end.
- `ResourcesNested`: a portal session whose close was refused or timed out is let go of
  still open, its virtual monitor gone.
- `GovernorTruthful` says nothing of the rate at which a governor whose path sampler is
  gone stays: the one it had, not the ceiling (`video.rs:308`).
- `QuietExplained`: a session may be ended for silence within a keepalive of a pump having
  waited on a stream's bytes. `HonestKickExplained`: an honest client may be kicked when
  more than a keepalive's worth of its input is released at once, disagreement 12.
- `FloodEnds` is about input that keeps coming, with the bucket empty, in numbers that
  bring the window's refusals to the limit. A flood spread over a window with the bucket
  refilling is refused and not dropped.
- `MotionConserved` of the input path: what folding makes larger than the field holds is
  clipped, and that much of the motion is lost (`Clipped`). The throttle's is the same, and
  loses what `MAX_PENDING` evicts as well.
- `UsersLeaveForAReason`: a registration that waits for the operator writes back the
  users of the moment it began, and undoes what was added or reloaded since.
- `StaleExplained`: a send that fails in the end leaves the server at the old size.
  `BeliefIsTrue`, `StaleExplained` and `PictureFollows` except a page that takes a size
  which arrived for one that did not (`misled`), disagreement 16.
- `SeatTruthful`: a controller whose disconnection could not be sent stays on the host.
- `DeathIsTold` is about connections that are down; a driver that ends with the connection
  up is only logged.
- `VolumeExplained`: of two volume streams the page may apply the older one last.
- `ReachesLastSize`, `KeyframeServed`: a pipeline that ends with an error not taken for a
  lost GPU is not restarted (`Stalled`). A keyframe served is one the encoder was told to
  make; it may be dropped by a full frame channel (`video.rs:822`).

### Disagreements between the code and its comments

`media_panic` (`code_bug`): a dropped or unreadable keyframe after a change of codec makes
the next delta panic in `push_video` (`server/src/moq/publish.rs:194`), and the panic
unwinds `run_session` past `remove_session`.

The following were read in the code. The models do what the code does in each case; no
run singles them out.

1. A newcomer may take the plain name while the session being torn down still holds it:
   `lowest_client_id` consults `TEARING_DOWN` only when the registry is empty. The comment
   at `server/src/ipc.rs:378` excludes it.
2. Two live sessions may have the same name: the id is reserved, the config awaited
   (`server/src/wt.rs:226`), and then the suffix decided; the session with the lowest id
   may leave in between. The comment at `wt.rs:319` excludes it.
3. The select of `media_pump` is biased (`wt.rs:745`), its comment at `wt.rs:754` speaks of
   randomised selection; audio can starve.
4. The notice naming a new track is sent with `try_send` and lost on a full control
   channel (`server/src/moq/publish.rs:238`).
5. A device removed while the thread waits for its devices or for a resumption
   (`server/src/pipewire/eis.rs:741`, `:761`) is passed over; the comments at `eis.rs:430`
   say a session learns of it and asks for a rebuild.
6. The watcher of the configuration is a local of the closure that starts it
   (`server/src/config_watch.rs:15-24`) and ends as soon as it watches: `DropWatcher`. A
   reload happens only for a change seen before that.
7. `reset_app` takes an async mutex with `blocking_lock` on a runtime thread
   (`server/src/main.rs:69`): it panics, and a failed server stays down (`ResetApp`).
8. A canvas that returns to the size on the wire while another is queued behind it leaves
   the queued size to be sent (`webui/wasm/src/video.rs:197-207`, against 111-117).
   `excuse` holds `"returned"` for it.
9. Recovery doubles the bitrate on one clean sample; `server/src/pipewire/bitrate.rs:16-18`
   speaks of consecutive ones.
10. A must-not-lag event is written past the events still pending
    (`webui/wasm/src/throttle.rs:137`), so that a release may reach the host before its
    press. A controller's disconnection, which "must arrive" (`gamepad.rs:176`), goes around
    the queue on a stream, and when that fails it is only logged (`gamepad.rs:180-184`).
    `excused` holds both.
11. The button of an audio page hides after the first click, whether or not the context
    came to run (`webui/wasm/src/audio.rs:252`); the documentation of
    `resume_on_first_gesture` promises later gestures. `AudioArrives` is about video pages.
12. `InputFloodGuard` (`server/src/wt.rs:139`) has 32 tokens and a refill; datagrams of a
    client that keeps its cap, held up by the network and released together, overdraw them,
    and what is refused is discarded. A backlog of a little more than a thousand inputs,
    four seconds' worth, kicks the client. The session need not have ended for silence
    before: a few keepalives that get through keep it up ("an uplink queue that filled
    under congestion", `wt.rs:40-41`). The comments at `wt.rs:70-73` and `:76-79` say such a
    client never accumulates a refusal and that no burst arrives there by accident. That
    less than a keepalive's worth does not kick it is `HonestKickExplained`.
13. A keyframe dropped by a full frame channel (`server/src/pipewire/video.rs:822`) is
    followed by the deltas of its GOP, which `push_video` appends to the group that is
    open. "One group per GOP" (`publish.rs:175`, `webui/wasm/src/video.rs:690-695`) is then
    untrue, and the page decodes them.
14. `menu_refresher` does not "refresh once on startup" (`server/src/tray.rs:131`): it waits
    for a change after its subscription, which comes after the first rendering. A session
    registered in between is missing from the menu: `missed`.
15. "Audio is optional: ending it degrades the session, never ends it" (`wt.rs:388-389`)
    holds of the audio task (`EndsAtARefusal`); an audio packet that its track refuses ends
    the media and the session (`AudioTrackFails`).
16. `send_reliable` returns `false` also when the message was written and only `close()`
    failed (`webui/wasm/src/lib.rs:336-342`). `ResizeDebounce::completed` concludes that the
    server does not have the size (`webui/wasm/src/video.rs:226-228`) and falls back on the
    one before, which it then takes as sent: `misled`.

### Fairness

- `teardown`: weak fairness of the steps that run between two awaits, of timers, of an
  aborted task reaching its next await, and of `run_session` leaving its select once
  the token is cancelled or the capture has ended. None for a client leaving, for a
  panic, for a tray, or for a capture finishing by itself.
- `wakequeue`: weak fairness of each wake in flight (the loop of `wake_all` goes on)
  and strong fairness of a consumer's poll. A consumer sits in a `select` that starts
  with a random arm, so one that keeps returning to the await does not drop it before
  its first poll for ever. Nothing obliges a consumer to await at all.
- `mediapath`: weak fairness of the pump's branches, each disabled unless the select
  would take it, and of `run_session` cancelling the token once the pump has returned.
  None for the handshake, for the encoder, or for audio.
- `inputpath`: weak fairness of the tick, the dispatch, the sends, the batches and of
  heeding the token; strong fairness of reading the bus and of the modifier timeout. A
  tick that has drained is followed by four milliseconds of the other arms
  (`MissedTickBehavior::Delay`), so the bus gets its turn again and again, and so does a
  timer that is due whenever the bus is found empty again and again. The batch arm
  comes after the compositor's events in a biased select: a compositor that never pauses
  between events would starve it, which is excluded. None for the compositor, the client
  or the end of the iteration.
- `capture`: weak fairness of the steps that wait for nobody, of a poll that reads the
  lock as it is, of a dropped future once the token is cancelled, of `keyframe_task`, and
  of the control task emptying its channel. That the portal answers and the session is
  unlocked (`Attended`) is a hypothesis of `ReachesLastSize` and `KeyframeServed` and of
  nothing else: `CancelEnds` needs neither.
- `connection`: weak fairness of both pumps, of the end of a kick, and of time. None for the
  client or the network.
- `registration`: stated for the handlers, their timers, the writes and the watcher; its
  properties are safety and use none of it.
- `display`: weak fairness of callbacks that are due, of sends coming back, of the server
  publishing, the network delivering, and the decoder. None for the user, for a callback
  that finds nothing new, or for a keyframe nobody asked for.
- `throttle`: stated for time, an expired timer and a stream's arrival; the properties are
  safety.
- `page`: weak fairness of the browser's tasks, of the promises of a dead transport, of
  reported changes of the context, of a user who goes on using the page, and of a datagram
  being delivered or lost. None for the peer: an announcement or an `AudioReady` may never
  come.

## 4. What is proved

`tlapm` checks every proof; the theorems are listed in `PROJECT.json`.

- `SessionRegistryProofs`. The inductive invariant is `TypeOK`, `OneCandidate` (the
  accept loop works on one connection at a time), `UniqueIds` and `TearingExact`. That
  ids are unique across the await needs `OneCandidate`: the id chosen is free then, and
  nobody else can take one before the candidate registers. `TearingExact` needs the
  finiteness of `Session`, and the lemmas on cardinality that say a stage entering or
  leaving the torn-down ones changes the count by one. `MenuPending` is inductive by
  itself over `TypeOK`: a registration or a removal leaves a revision unseen. `LeavesOnlyWhenDue` is an action property of each step.
- `SessionTeardownProofs`. The inductive invariant is `TypeOK`, `ClosedIsCancelled` (past
  the first step of `stop()` the token is cancelled), `NoOrphanTask`, `NodesInOrder`
  (whose node may exist in which state of its task), `RemovedIsNotLive` and
  `ShutdownAwaitsItsOwn`. `ClosedIsCancelled` is the point of `set_video`'s check under
  the lock: a task spawned after the handles were taken sees the token cancelled.
- `ConnectionProofs`, three arguments. *Silence*: time passes only while neither pump has
  anything to do, so between two ticks whatever has reached the server either reaches
  `client_pump` or is held up behind a stream that a pump waits for (`TickIdle`).
  `QuietInv` adds to the types what the two loops are doing (`StagesMatch`), that a wait
  which has lasted a tick shows in `heldUp` (`WaitKnown`), and that the deadline is behind
  the silence, or something is under way, or a wait explains the difference
  (`QuietKnown`). *Honesty* is a count. In the window that is open, what has
  been refused and what is still on its way are together at most a keepalive's worth and
  one tick's for each tick of the window (`WindowBound`), unless there was more when the
  count began (`gathered`): a delivery moves input from one place to another, and a tick
  adds a tick's worth. That is fewer than the refusals that kick, by `KickAssumption`. *The wake queue*: while there is
  an item, or after the close, the list of wakers is empty, because whoever changes the
  queue takes the whole list and nobody registers while there is something to see
  (`NobodyRegistered`); a parked consumer is registered or in some call's list
  (`ParkedIsKnown`). Together they give `NoLostWakeup`. The refinement is a step-by-step
  mapping to `FifoQueue`, needing no invariant but types.
- `MediaPathProofs`. `TypeOK`, `GroupDecodable`, `AudioOutlastsSession` (the audio task
  returns only when the token is cancelled) and `EncoderHasCodec` (a running pipeline
  has a codec, so what it encodes is a frame). That failed or missing audio does not end
  the media, which ends at a packet its track refuses or not because of audio at all
  (`EndsAtARefusal`), is proved from them and not run.
- `InputPathProofs`. The inductive invariant is `TypeOK` and `PendingOrdered`. Lemmas say
  what `RemoveAt`, `SetToSeq`, the merge, the removal of what a lift ends and the push
  return: a merge keeps its entry's identity, an identity terminates at most one other,
  so removing one entry removes all a lift could undo (`WithoutOrdered`), and what is
  appended or replaced keeps the order (`PushOrdered`). `HasLast`, that finitely many
  indices have a last one, gives the type of what a batch leaves on the compositor.
  `PendingOrdered` is proved and not run. Two more invariants speak of the states in which
  input flows. *Replay*: `After(s, t, x)` is what a sequence leaves a thing at; applied
  stage by stage, from the bus down to the seat, it gives what the client said last
  (`SeatKept`), a finger the task does not count as down ends up (`FingersKnown`), and the
  modifiers are the tracker's (`KeysKept`). A step moves a word from one stage to the next,
  so the whole is unchanged; the order of the buffer is what makes this true of a fold, and
  that `drained` takes the oldest what makes it true of a tick. *Motion*: `OwedKept`, that
  the sum over the five stages is what is owed. `Total` is a recursive function, so that
  what it gives for a concatenation, a removal or a replacement is proved by induction over
  a set of lengths. A fold adds two deltas within the width of the field or clips, and what
  is clipped is taken off what is owed, exactly.
- `CaptureProofs`. `Holds` says for each phase exactly which resources an iteration can
  hold, and that a portal session stands past its close only after a fault;
  `ResourcesNested` follows by looking. `Governed`, that rate and encoder agree and
  are within bounds in every phase, rests on `BitrateBounded`: `NextBitrate` maps the
  interval between floor and ceiling into itself.
- `RegistrationProofs`, three arguments. *Rate*: `RateSum` bounds the failures
  recorded plus those that can still be recorded by the requests admitted below the limit,
  so the excess is less than the number of requests. *Admission*: `Spent` counts the users
  admitted anywhere (memory, file, copies, what the reload has read), the approvals granted
  and the message in the queue together; only a command raises the sum, which holds through
  every step that copies a configuration from one place to another because a union does not
  grow by it. *Leaving*: `ClonesTold`: a copy that will be written back lacks only
  users in `since`, or the one its operator takes out; `DownIsIdle`: a process that starts
  has no such copy.
- `PageProofs`, the three modules of the page. *Display*: `BeliefKept` fixes what `sent`
  means in each phase and during a send, with the size to fall back on, unless the page was
  misled; `GapGuarded`: a gap
  never meets a lowered gate, because the gate is up, or a keyframe is next, or the group is
  lost and nothing of it will come; `IntentKept`: the size that goes out last, be it
  waiting, queued or on the wire (`Intended`), is the one observed last, or there is an
  excuse. *Throttle*: the rules of `coalesce_input` are shown one by one (`MergeMotion`,
  `MergeTouch`, `MergePad`) to keep the motion's sum but for what is clipped, which is counted, and the last word on
  every part of the seat (`Merged`); `Latest` says that the last word waiting about a part is the seat's, and
  that a part nothing waits about agrees on both sides, unless it is excused. *The stream*:
  `StreamInv`: of the first k chunks all has been read or waits in the burst, and the others
  are still to come, k being whatever it takes; `SoFar` is what the first k chunks amount
  to, which `FlattenSeq` is shown to end in. *Messages*: what a queue accepted waits in it
  or was handled (`MessagesKept`), so a loop that ends on two drained queues has handled
  all. *Volume*: a prefix of the streams is open and the last of it carries the last level
  sent (`OpenedUpTo`), which is the host's once the channel is empty and its last try was
  not refused (`LevelsTell`); a stream read on a live connection waits or was handled
  (`StreamsHeard`), and the player has the level of the one handled last (`LevelsApplied`).
  If that is the newest, it is the host's.

Assumptions: `Session` is finite and `MaxId` is a natural number; `"video"` is among
the tasks and its resource does not outlive it; no codec is the placeholder for none;
the channels have positive capacities; slots and
modifiers are finite, deltas fit their field, and slots, gamepads, buttons, keys,
modifiers and axes are told apart; the bitrate's floor is not above its ceiling (250
and 4000 in the code); keys and requests are finite and the rate limit is positive; no size
is the placeholder for none nor the mark of nothing observed yet, and the settle window is
at least one tick; the connection's times and rates are positive, its streams finitely many
and each of one side, and `KickAssumption`, above; the spacings asked of the throttle
have a longest one, and a movement fits its field; no level is the placeholder for none, and a stream comes in at least one
chunk, the first not empty, each a sequence of bytes. TLC evaluates each of them on its runs.

Only model-checked: the properties that need fairness (`TearDownCompletes`,
`CloseReachesAll`, `CancelEndsMedia`, `LiftsArrive`, `StopCompletes`, `CancelEnds`,
`ReachesLastSize`, `KeyframeServed`, `FloodEnds`, `PictureFollows`, `DeathIsTold`,
`AudioArrives`), which are out of the prover's reach. Every other property of a passing run
is a theorem.

## 5. Plan

1. `InputBudget`: the token bucket of `take_input_budget` drawn from by several sessions'
   ticks, and whether one can starve another; `TouchSpace`: `CoordMap`, `input_space` and
   the slot ranges as operators with the width of their integers.
2. `ServeLoop`: the restart of the server tasks, the certificate watcher, the IPC socket and
   a second instance. Of these `Registration` has only a server's failure.
3. The safety halves of the liveness properties, as invariants that can be proved: that a
   connection that is down leaves no state in which every task waits (`DeathIsTold`), that a
   loop that must end has a step to take (`CancelEnds`, `StopCompletes`, `FloodEnds`).
4. Compositions: the page's throttle with the server's bucket (`InputThrottle` and
   `Connection`), the display with the capture (`Display`'s server refined by `Capture`).
5. A second video track after a change of codec, beside the one that ends; audio groups.
6. Pure operators against reference definitions: the stream selection, `truncate`, the
   jitter buffer's play-head.

## 6. What is not modelled, and why

`compositor_discovery.rs`, `keyboard.rs`, `logging.rs`, `error.rs` and `extensions.rs`
read the environment or wrap a device and keep no state across calls. Serialisation in
`shared/` is bytes in, bytes out. `macros/` runs at compile time. The TypeScript of
`webui/src` starts the client. GStreamer, PipeWire, the portals, quinn and moq-net are
external and appear only as what they may do to the code modelled. Of the browser client the
play-head, the visualiser, the badge and the log queue are presentation; the poll traits
of `moq/transport.rs` and `MoQSend` adapt one interface to another and add no state of
their own but a peeked chunk, which `Page` has for the page's side. What each component
leaves out is said in its section above and in `PROJECT.json`.
