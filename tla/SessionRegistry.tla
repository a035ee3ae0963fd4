--------------------------- MODULE SessionRegistry ---------------------------
(***************************************************************************)
(* The registry of connected clients: server/src/ipc.rs, with the accept   *)
(* loop and the end of a session in server/src/wt.rs and the tray's client *)
(* menu in server/src/tray.rs.                                             *)
(*                                                                         *)
(* Threads that interleave here: the accept loop (one), the transport task *)
(* of each session, the cleanup task that stop() leaves behind, any number *)
(* of tray callbacks and the menu refresher.                              *)
(* What one session's own tasks do while it is torn down, and shutdown, are *)
(* in SessionTeardown.                                                     *)
(*                                                                         *)
(* A Session is one Arc<Session>; it is used for one connection only.  An  *)
(* id is recycled, a Session never is.  Session names are rendered from    *)
(* the default template "{{ name }}-webshooter", so a name is a user's     *)
(* display name and the suffix name_for appends to it, 0 for none.         *)
(***************************************************************************)
EXTENDS Naturals, FiniteSets

CONSTANTS
    Session,    \* the Arc<Session> values of the connections of one process
    User,       \* display names of the configured users
    MaxId       \* ids never exceed the number of sessions alive at once

ASSUME SessionAssumption == IsFiniteSet(Session)
ASSUME MaxIdAssumption == MaxId \in Nat

Id == 1..MaxId

\* Where a session stands, from the accept loop to the end of its cleanup.
\* "live" is membership of REGISTRY.  TEARING_DOWN counts "removed" (stop()
\* has not yet spawned the cleanup task) and "cleaning".
Stage == {"unborn", "reserved", "named", "live",
          "removed", "cleaning", "clean", "dropped"}

\* The transport task: alive, past the select of run_session, returned or
\* unwound.
Run == {"none", "running", "leaving", "over"}

\* The tray and its menu_refresher: the service is being spawned, has rendered
\* its menu but nobody watches CHANGES yet, watched, in Handle::update, gone.
Refresher == {"starting", "rendered", "waiting", "rendering", "gone"}

VARIABLES
    stage, id,          \* per session; id is immutable once set
    user, suffix,       \* the display name, and what name_for appended to it
    tearing,            \* TEARING_DOWN
    run,                \* the transport task
    menu,               \* the sessions the tray menu was last rendered with
    notified,           \* CHANGES has a revision the refresher has not seen
    refresher,          \* how far the tray and its refresher are
    missed,             \* history: what the menu lacked when CHANGES was subscribed to
    asked               \* sessions disconnect_client not yet removed

names == <<id, user, suffix>>
tray == <<menu, refresher, missed, asked>>
vars == <<stage, names, tearing, run, notified, tray>>

Registry == {s \in Session : stage[s] = "live"}
Candidates == {s \in Session : stage[s] \in {"reserved", "named"}}
Tearing == {s \in Session : stage[s] \in {"removed", "cleaning"}}

TypeOK ==
    /\ stage \in [Session -> Stage]
    /\ id \in [Session -> 0..MaxId]
    /\ user \in [Session -> User]
    /\ suffix \in [Session -> 0..MaxId]
    /\ tearing \in Nat
    /\ run \in [Session -> Run]
    /\ menu \in SUBSET Session
    /\ notified \in BOOLEAN
    /\ refresher \in Refresher
    /\ missed \in SUBSET Session
    /\ asked \in SUBSET Session

Init ==
    /\ stage = [s \in Session |-> "unborn"]
    /\ id = [s \in Session |-> 0]
    /\ user \in [Session -> User]
    /\ suffix = [s \in Session |-> 0]
    /\ tearing = 0
    /\ run = [s \in Session |-> "none"]
    /\ menu = {}
    /\ notified = FALSE
    /\ refresher = "starting"
    /\ missed = {}
    /\ asked = {}

----------------------------------------------------------------------------
\* The accept loop.

\* MUTANT: an id counted up from the number of sessions.
LowestFreeIdByCount(i) == i = Cardinality(Registry) + 1

\* The least positive id no registered session holds.
LowestFreeId(i) ==
    /\ \A s \in Registry : id[s] # i
    /\ \A j \in 1..(i - 1) : \E s \in Registry : id[s] = j

\* A connection has authenticated and its id is reserved; the loop now awaits
\* the config.  The loop accepts nothing else until it has registered.
Reserve(s) ==
    /\ Candidates = {}
    /\ stage[s] = "unborn"
    /\ \E i \in Id : LowestFreeId(i) /\ id' = [id EXCEPT ![s] = i]
    /\ stage' = [stage EXCEPT ![s] = "reserved"]
    /\ UNCHANGED <<user, suffix, tearing, run, notified, tray>>

\* lowest_client_id() as render_session_names uses it: no lowest id makes any
\* client primary, and an empty registry with teardowns pending answers zero.
IsPrimary(i) ==
    IF Registry = {} THEN tearing = 0 ELSE \A s \in Registry : i <= id[s]

Render(s) ==
    /\ stage[s] = "reserved"
    /\ suffix' = [suffix EXCEPT ![s] = IF IsPrimary(id[s]) THEN 0 ELSE id[s]]
    /\ stage' = [stage EXCEPT ![s] = "named"]
    /\ UNCHANGED <<id, user, tearing, run, notified, tray>>

\* The template does not render, or the loop was aborted while it awaited the
\* config: the session is never constructed.
Drop(s) ==
    /\ stage[s] = "reserved"
    /\ stage' = [stage EXCEPT ![s] = "dropped"]
    /\ UNCHANGED <<names, tearing, run, notified, tray>>

\* set_transport, register_session, then start_tx releases the transport task.
\* Nobody else has the Arc before, so its token is not cancelled.
Register(s) ==
    /\ stage[s] = "named"
    /\ stage' = [stage EXCEPT ![s] = "live"]
    /\ run' = [run EXCEPT ![s] = "running"]
    /\ notified' = TRUE
    /\ UNCHANGED <<names, tearing, tray>>

----------------------------------------------------------------------------
\* Removal.  remove_session decides by identity under the write lock, then
\* stop() runs on the same thread with no lock held.

\* MUTANT: the entry is found by its key, the id.
DoomedById(s) == {t \in Registry : id[t] = id[s]}

Doomed(s) == {t \in Registry : t = s}

\* MUTANT: a removal is counted before the early return.
RemoveSessionCountedFirst(s) ==
    /\ stage' = [t \in Session |-> IF t \in Doomed(s) THEN "removed" ELSE stage[t]]
    /\ tearing' = tearing + 1
    /\ notified' = (notified \/ Doomed(s) # {})

\* MUTANT: the revision is not bumped.
RemoveSessionSilently(s) ==
    /\ stage' = [t \in Session |-> IF t \in Doomed(s) THEN "removed" ELSE stage[t]]
    /\ tearing' = IF Doomed(s) = {} THEN tearing ELSE tearing + 1
    /\ UNCHANGED notified

RemoveSession(s) ==
    IF Doomed(s) = {}
    THEN UNCHANGED <<stage, tearing, notified>>
    ELSE /\ stage' = [t \in Session |-> IF t \in Doomed(s) THEN "removed" ELSE stage[t]]
         /\ tearing' = tearing + 1
         /\ notified' = TRUE

\* stop(): cancel, close, abort the transport task, hand the capture and audio
\* tasks to a cleanup task that owns the reservation.
Stop(s) ==
    /\ stage[s] = "removed"
    /\ stage' = [stage EXCEPT ![s] = "cleaning"]
    /\ UNCHANGED <<names, tearing, run, notified, tray>>

\* The cleanup task has joined both tasks and PendingCleanup is dropped.
CleanupDone(s) ==
    /\ stage[s] = "cleaning"
    /\ stage' = [stage EXCEPT ![s] = "clean"]
    /\ tearing' = tearing - 1
    /\ UNCHANGED <<names, run, notified, tray>>

----------------------------------------------------------------------------
\* The session's transport task.

\* The select of run_session returns, whatever its reason.
Leave(s) ==
    /\ run[s] = "running"
    /\ run' = [run EXCEPT ![s] = "leaving"]
    /\ UNCHANGED <<stage, names, tearing, notified, tray>>

\* The last statement of run_session removes the session: a no-op when the
\* tray or the shutdown has removed it first, whoever has its id by now.
RemoveOwn(s) ==
    /\ run[s] = "leaving"
    /\ run' = [run EXCEPT ![s] = "over"]
    /\ RemoveSession(s)
    /\ UNCHANGED <<names, tray>>

\* The media path panics inside the select: the task unwinds past
\* remove_session, and the session stays registered.
Panic(s) ==
    /\ run[s] = "running"
    /\ run' = [run EXCEPT ![s] = "over"]
    /\ UNCHANGED <<stage, names, tearing, notified, tray>>

\* stop() has aborted the transport task; it dies at an await.
AbortLands(s) ==
    /\ stage[s] \in {"cleaning", "clean"}
    /\ run[s] = "running"
    /\ run' = [run EXCEPT ![s] = "over"]
    /\ UNCHANGED <<stage, names, tearing, notified, tray>>

----------------------------------------------------------------------------
\* The tray: a callback closes over the id its menu entry was rendered with.

\* disconnect_client(id): the lookup, under the read lock ...
Disconnect(s, t) ==
    /\ s \in menu
    /\ t \in Registry
    /\ id[t] = id[s]
    /\ asked' = asked \cup {t}
    /\ UNCHANGED <<stage, names, tearing, run, notified, menu, refresher, missed>>

\* ... and the removal, under the write lock taken afterwards.
RemoveAsked(s) ==
    /\ s \in asked
    /\ asked' = asked \ {s}
    /\ RemoveSession(s)
    /\ UNCHANGED <<names, run, menu, refresher, missed>>

\* setup(): the menu is first rendered while the service is spawned; a host
\* without a tray makes that fail, and nothing is ever shown.
SpawnTray ==
    /\ refresher = "starting"
    /\ menu' = Registry
    /\ refresher' = "rendered"
    /\ UNCHANGED <<stage, names, tearing, run, notified, missed, asked>>

SpawnTrayFails ==
    /\ refresher = "starting"
    /\ refresher' = "gone"
    /\ UNCHANGED <<stage, names, tearing, run, notified, menu, missed, asked>>

\* The sessions the menu lists and the registry does not, or the reverse.
Stale == (menu \ Registry) \cup (Registry \ menu)

\* menu_refresher subscribes: whatever revision CHANGES has is seen already.
Subscribe ==
    /\ refresher = "rendered"
    /\ refresher' = "waiting"
    /\ notified' = FALSE
    /\ missed' = Stale
    /\ UNCHANGED <<stage, names, tearing, run, menu, asked>>

\* changed().await marks the revision seen before the menu is read again.
SeeChange ==
    /\ refresher = "waiting" /\ notified
    /\ notified' = FALSE
    /\ refresher' = "rendering"
    /\ UNCHANGED <<stage, names, tearing, run, menu, missed, asked>>

RenderMenu ==
    /\ refresher = "rendering"
    /\ menu' = Registry
    /\ missed' = {}
    /\ refresher' = "waiting"
    /\ UNCHANGED <<stage, names, tearing, run, notified, asked>>

\* update() answers None: the service has shut down, and its menu with it.
TrayGone ==
    /\ refresher = "rendering"
    /\ menu' = {}
    /\ refresher' = "gone"
    /\ UNCHANGED <<stage, names, tearing, run, notified, missed, asked>>

----------------------------------------------------------------------------
AcceptStep(s) == Reserve(s) \/ Render(s) \/ Drop(s) \/ Register(s)
RemovalStep(s) == Stop(s) \/ CleanupDone(s)
TaskStep(s) == Leave(s) \/ RemoveOwn(s) \/ Panic(s) \/ AbortLands(s)
TrayStep ==
    \/ \E s, t \in Session : Disconnect(s, t)
    \/ \E s \in Session : RemoveAsked(s)
    \/ SpawnTray \/ SpawnTrayFails
    \/ Subscribe \/ SeeChange \/ RenderMenu \/ TrayGone

Next ==
    \/ \E s \in Session : AcceptStep(s) \/ RemovalStep(s) \/ TaskStep(s)
    \/ TrayStep

Spec == Init /\ [][Next]_vars

----------------------------------------------------------------------------
\* No id is ever held by two sessions, nor reserved while a session holds it,
\* so the assertion of register_session cannot fail (ipc.rs:337): the config
\* is awaited between choosing an id and taking it.
UniqueIds ==
    \A s, t \in Registry \cup Candidates : s # t => id[s] # id[t]

\* TEARING_DOWN counts exactly the removed sessions whose cleanup has not
\* finished, whoever removed them and however often removal was asked for;
\* so it never underflows when a reservation is dropped.
TearingExact == tearing = Cardinality(Tearing)

\* Once CHANGES is watched and no change waits to be seen, the menu lists the
\* registered sessions, whatever was registered or removed while it was being
\* rendered: all it may lack is what changed between its first rendering and
\* the subscription, and that until it is next rendered.
MenuPending == refresher = "waiting" /\ ~notified => Stale \subseteq missed

\* A session leaves the registry only when its own run has ended or the tray has
\* looked it up: the late removal of a session
\* whose id has been recycled never takes out the new holder of the id.
LeavesOnlyWhenDue ==
    [][\A s \in Registry : stage'[s] # "live" =>
            run[s] = "leaving" \/ s \in asked]_vars
=============================================================================
