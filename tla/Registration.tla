---------------------------- MODULE Registration ----------------------------
(***************************************************************************)
(* How a user gets in: the challenge, login and registration handlers of   *)
(* server/src/auth.rs with their rate limit, the operator's commands and   *)
(* the queue that carries them (server/src/ipc.rs), and the configuration  *)
(* that holds the users - its file, its copy in memory, the writes of the  *)
(* server and of the operator's editor, the reload (main.rs, config_watch. *)
(* rs) - with crashes between any two steps.  Each await is a step.        *)
(*                                                                         *)
(* A client signs the challenge it was last given, and signs it rightly;   *)
(* one address makes all the attempts.  Left out: cookies and one-time     *)
(* tokens, wordings, the formats of the file (a file is a configuration,   *)
(* empty, or not readable), and the parts that take no part in admission.  *)
(***************************************************************************)
EXTENDS Integers, FiniteSets, FiniteSetsExt, SequencesExt

CONSTANTS
    Id,             \* public keys
    Attempt,        \* login and register requests in flight at once
    Operator,       \* the writer that deauthorises
    None,
    Founders,       \* the users of the file at the start
    RateLimit,      \* config.rate_limit
    MaxChallenges, MaxCommands, MaxIncidents    \* bounds

ASSUME PartiesAssumption ==
    IsFiniteSet(Id) /\ IsFiniteSet(Attempt) /\ Operator \notin Attempt /\ None \notin Id
ASSUME FoundersAssumption == Founders \subseteq Id
ASSUME LimitAssumption == RateLimit \in Nat \ {0}
ASSUME BoundAssumption ==
    {MaxChallenges, MaxCommands, MaxIncidents} \subseteq Nat

Writer == Attempt \cup {Operator}

\* A configuration: its users, and which of the operator's edits it carries.
Config == [users: SUBSET Id, edit: 0 .. MaxIncidents]
DefaultConfig == [users |-> {}, edit |-> 0]

\* What fs::write leaves of the file when it is cut short, or overlaps another.
EmptyFile == [users |-> {}, edit |-> -1]
TornFile == [users |-> {}, edit |-> -2]
Spoilt == {EmptyFile, TornFile}

\* authorise, and authorise <n>.
NoIndex == -1
Index == {NoIndex} \cup 0 .. Cardinality(Id) - 1
Empty == -3
Blocked == -2       \* the None that ipc_send leaves behind its message

VARIABLES
    session,        \* AUTH_SESSIONS: no entry (0), a challenge's number, or approved (-1)
    challenges,     \* challenges issued
    pc, kind, id, signed,   \* each writer: its step, its handler, its parameters
    held,           \* the command an attempt has taken off the queue
    snap,           \* the configuration a writer has cloned
    since,          \* users added to the memory since that clone
    rate,           \* RATE_LIMITS' entry of the address
    queue,          \* ipc_funcs::IPC, which holds one
    commands,       \* authorise commands given
    order,          \* the order in which AUTH_SESSIONS iterates
    file, mem,      \* the configuration on disk, and APP_CONFIG
    watch,          \* watch_config's watcher is alive
    reload, read,   \* its debounce: "none", "armed", "read"; what was read
    up, serving,    \* the process; its servers: "up", "failed", "dead"
    incidents       \* the bound's count: faults, crashes, edits, dismissals, windows

attempts == <<pc, kind, id, signed, held>>
config == <<file, mem>>
watching == <<watch, reload, read>>
writers == <<snap, since>>
process == <<up, serving>>
vars == <<session, challenges, attempts, writers, rate, queue, commands, order,
          config, watching, process, incidents>>

NoAddress == [count |-> 0, stale |-> FALSE]

Step == {"idle", "waiting", "deciding", "blocking", "verifying", "issuing",
         "opening", "writing", "orphaned", "storing", "failing", "succeeding"}

TypeOK ==
    /\ session \in [Id -> -1 .. MaxChallenges]
    /\ challenges \in 0 .. MaxChallenges
    /\ pc \in [Writer -> Step]
    /\ kind \in [Writer -> {"login", "register"}]
    /\ id \in [Writer -> Id \cup {None}]
    /\ signed \in [Writer -> 0 .. MaxChallenges]
    /\ held \in [Writer -> Index \cup {Empty}]
    /\ snap \in [Writer -> Config]
    /\ since \in [Writer -> SUBSET Id]
    /\ rate \in [count: Nat, stale: BOOLEAN]
    /\ queue \in Index \cup {Empty, Blocked}
    /\ commands \in 0 .. MaxCommands
    /\ order \in SetToSeqs(Id)
    /\ file \in Config \cup Spoilt
    /\ mem \in Config
    /\ watch \in BOOLEAN
    /\ reload \in {"none", "armed", "read"} /\ read \in Config
    /\ up \in BOOLEAN /\ serving \in {"up", "failed", "dead"}
    /\ incidents \in 0 .. MaxIncidents

\* One of the bounded events.
Incident == incidents < MaxIncidents /\ incidents' = incidents + 1

-----------------------------------------------------------------------------
(***************************************************************************)
(* AUTH_SESSIONS                                                           *)
(***************************************************************************)
Approved == -1
Challenged(i) == session[i] > 0

\* get_challenged_sessions: in the map's order.
ChallengedSessions == SelectSeq(order, Challenged)

\* get_challenge: whatever the entry held, a login's approval included, is gone; a key new
\* to the map may move all the others.
GetChallenge(i) ==
    /\ up /\ serving = "up" /\ challenges < MaxChallenges
    /\ challenges' = challenges + 1
    /\ session' = [session EXCEPT ![i] = challenges + 1]
    /\ IF session[i] = 0 THEN order' \in SetToSeqs(Id) ELSE UNCHANGED order
    /\ UNCHANGED <<attempts, writers, rate, queue, commands, config, watching, process, incidents>>

-----------------------------------------------------------------------------
(***************************************************************************)
(* The rate limit of an address                                            *)
(***************************************************************************)
Refreshed == IF rate.stale THEN NoAddress ELSE rate

\* RATE_LIMIT_WINDOW goes by.
WindowPasses ==
    /\ up /\ rate # NoAddress /\ ~rate.stale
    /\ Incident
    /\ rate' = [rate EXCEPT !.stale = TRUE]
    /\ UNCHANGED <<session, challenges, attempts, writers, queue, commands, order, config,
                   watching, process>>

\* The attempt is over: its place is free for the next.
Reset(a) ==
    /\ pc' = [pc EXCEPT ![a] = "idle"]
    /\ id' = [id EXCEPT ![a] = None]
    /\ held' = [held EXCEPT ![a] = Empty]
    /\ kind' = [kind EXCEPT ![a] = "login"]
    /\ signed' = [signed EXCEPT ![a] = 0]
    /\ snap' = [snap EXCEPT ![a] = DefaultConfig]
    /\ since' = [since EXCEPT ![a] = {}]

\* rate_limited's two ends: record_rate_limit_failure, and reset_rate_limit.
RecordFailure(a) ==
    /\ pc[a] = "failing"
    /\ rate' = [Refreshed EXCEPT !.count = @ + 1]
    /\ Reset(a)
    /\ UNCHANGED <<session, challenges, queue, commands, order, config, watching, process, incidents>>

Succeed(a) ==
    /\ pc[a] = "succeeding"
    /\ rate' = NoAddress
    /\ Reset(a)
    /\ UNCHANGED <<session, challenges, queue, commands, order, config, watching, process, incidents>>

-----------------------------------------------------------------------------
(***************************************************************************)
(* A request                                                               *)
(***************************************************************************)
Goto(a, step) == pc' = [pc EXCEPT ![a] = step]

\* Mutant: what is written starts from the defaults.
CloneDefaults(w) ==
    /\ snap' = [snap EXCEPT ![w] = DefaultConfig]
    /\ since' = [since EXCEPT ![w] = {}]

\* get_config_with_path: a clone, which later changes do not reach.
Clone(w) ==
    /\ snap' = [snap EXCEPT ![w] = mem]
    /\ since' = [since EXCEPT ![w] = {}]

\* Mutant: the last failure that the limit allows does not count against it.
SubmitAtLimit(a, k, i) ==
    /\ up /\ serving = "up" /\ pc[a] = "idle" /\ Challenged(i)
    /\ rate' = Refreshed
    /\ Refreshed.count <= RateLimit
    /\ kind' = [kind EXCEPT ![a] = k]
    /\ id' = [id EXCEPT ![a] = i]
    /\ signed' = [signed EXCEPT ![a] = session[i]]
    /\ LET known == i \in mem.users
       IN  IF k = "login"
           THEN Goto(a, IF known THEN "verifying" ELSE "failing") /\ UNCHANGED writers
           ELSE Goto(a, IF known THEN "failing" ELSE "waiting") /\ Clone(a)
    /\ UNCHANGED <<session, challenges, held, queue, commands, order, config, watching,
                   process, incidents>>

\* check_rate_limit, then login_inner or register_inner up to its first wait, for a request
\* that answers the challenge its client was given last.
Submit(a, k, i) ==
    /\ up /\ serving = "up" /\ pc[a] = "idle" /\ Challenged(i)
    /\ rate' = Refreshed
    /\ Refreshed.count < RateLimit
    /\ kind' = [kind EXCEPT ![a] = k]
    /\ id' = [id EXCEPT ![a] = i]
    /\ signed' = [signed EXCEPT ![a] = session[i]]
    /\ LET known == i \in mem.users
       IN  IF k = "login"
           THEN Goto(a, IF known THEN "verifying" ELSE "failing") /\ UNCHANGED writers
           ELSE Goto(a, IF known THEN "failing" ELSE "waiting") /\ Clone(a)
    /\ UNCHANGED <<session, challenges, held, queue, commands, order, config, watching,
                   process, incidents>>

\* ipc_recv, which passes over what only blocks the queue.
Receive(a) ==
    /\ pc[a] = "waiting" /\ queue # Empty
    /\ queue' = Empty
    /\ IF queue = Blocked
       THEN UNCHANGED <<pc, held>>
       ELSE Goto(a, "deciding") /\ held' = [held EXCEPT ![a] = queue]
    /\ UNCHANGED <<session, challenges, kind, id, signed, writers, rate, commands, order,
                   config, watching, process, incidents>>

\* The arms of register_inner's loop: the only challenged session, whoever's it is; the
\* one of that number, if it is this attempt's; otherwise the menu.
Accepts(a) ==
    LET list == ChallengedSessions
    IN  IF held[a] = NoIndex
        THEN Len(list) = 1
        ELSE held[a] + 1 \in DOMAIN list /\ list[held[a] + 1] = id[a]

Drop(a) == held' = [held EXCEPT ![a] = Empty]

\* Mutant: an approval is passed on to the other registrations as well.
ApproveAndPassOn(a) ==
    /\ pc[a] = "deciding" /\ Accepts(a)
    /\ Goto(a, "verifying") /\ Drop(a)
    /\ queue' = IF queue = Empty THEN held[a] ELSE queue
    /\ UNCHANGED <<session, challenges, kind, id, signed, writers, rate, commands, order,
                   config, watching, process, incidents>>

Approve(a) ==
    /\ pc[a] = "deciding" /\ Accepts(a)
    /\ Goto(a, "verifying") /\ Drop(a) /\ UNCHANGED queue
    /\ UNCHANGED <<session, challenges, kind, id, signed, writers, rate, commands, order,
                   config, watching, process, incidents>>

Menu(a) ==
    /\ pc[a] = "deciding" /\ ~Accepts(a) /\ held[a] = NoIndex
    /\ Goto(a, "waiting") /\ Drop(a) /\ UNCHANGED queue
    /\ UNCHANGED <<session, challenges, kind, id, signed, writers, rate, commands, order,
                   config, watching, process, incidents>>

\* A number that is not this attempt's goes back (ipc_send); a full queue ends the attempt.
Requeue(a) ==
    /\ pc[a] = "deciding" /\ ~Accepts(a) /\ held[a] # NoIndex
    /\ Drop(a)
    /\ IF queue = Empty
       THEN queue' = held[a] /\ Goto(a, "blocking")
       ELSE UNCHANGED queue /\ Goto(a, "failing")
    /\ UNCHANGED <<session, challenges, kind, id, signed, writers, rate, commands, order,
                   config, watching, process, incidents>>

\* ipc_send's second try_send, in vain unless the message has been taken already.
Block(a) ==
    /\ pc[a] = "blocking"
    /\ queue' = IF queue = Empty THEN Blocked ELSE queue
    /\ Goto(a, "waiting")
    /\ UNCHANGED <<session, challenges, kind, id, signed, held, writers, rate, commands,
                   order, config, watching, process, incidents>>

\* The operator's terminal has gone: the answer cannot be written, and the attempt fails,
\* approved or not.
AnswerLost(a) ==
    /\ pc[a] = "deciding" /\ (Accepts(a) \/ held[a] = NoIndex)
    /\ Incident
    /\ Goto(a, "failing") /\ Drop(a)
    /\ UNCHANGED <<session, challenges, kind, id, signed, writers, rate, queue, commands,
                   order, config, watching, process>>

\* auth_timeout; a command taken by then is lost.
Timeout(a) ==
    /\ pc[a] \in {"waiting", "deciding"}
    /\ Goto(a, "failing") /\ Drop(a)
    /\ UNCHANGED <<session, challenges, kind, id, signed, writers, rate, queue, commands,
                   order, config, watching, process, incidents>>

\* verify_challenge_and_issue_cookie: the challenge is read under one lock and the approval
\* entered under another.
Verify(a) ==
    /\ pc[a] = "verifying"
    /\ Goto(a, IF Challenged(id[a]) /\ session[id[a]] = signed[a] THEN "issuing" ELSE "failing")
    /\ UNCHANGED <<session, challenges, kind, id, signed, held, writers, rate, queue, commands,
                   order, config, watching, process, incidents>>

IssueCookie(a) ==
    /\ pc[a] = "issuing"
    /\ session' = [session EXCEPT ![id[a]] = Approved]
    /\ IF kind[a] = "login"
       THEN Goto(a, "succeeding") /\ UNCHANGED snap
       ELSE /\ Goto(a, "opening")
            /\ snap' = [snap EXCEPT ![a].users = @ \cup {id[a]}]
    /\ UNCHANGED <<challenges, kind, id, signed, held, since, rate, queue, commands, order,
                   config, watching, process, incidents>>

\* The client goes away: its handler is dropped at an await, but for a write that has begun.
HangUp(a) ==
    /\ pc[a] \notin {"idle", "blocking", "orphaned"} /\ Incident
    /\ IF pc[a] = "writing"
       THEN Goto(a, "orphaned") /\ UNCHANGED <<kind, id, signed, held, writers>>
       ELSE Reset(a)
    /\ UNCHANGED <<session, challenges, rate, queue, commands, order, config, watching, process>>

-----------------------------------------------------------------------------
(***************************************************************************)
(* update_config                                                           *)
(***************************************************************************)
\* A live watcher reports every change of the file, and the debounce starts over.
Reported ==
    /\ reload' = IF watch THEN "armed" ELSE reload
    /\ read' = IF watch THEN DefaultConfig ELSE read

\* fs::write opens and truncates ...
Open(w) ==
    /\ pc[w] = "opening"
    /\ file' = EmptyFile /\ Reported
    /\ Goto(w, "writing")
    /\ UNCHANGED <<session, challenges, kind, id, signed, held, writers, rate, queue, commands,
                   order, mem, watch, process, incidents>>

\* ... and then writes: over another's contents, if another has written since.
Write(w) ==
    /\ pc[w] \in {"writing", "orphaned"}
    /\ IF file = EmptyFile THEN file' = snap[w] ELSE file' \in {snap[w], TornFile}
    /\ Reported
    /\ IF pc[w] = "writing"
       THEN Goto(w, "storing") /\ UNCHANGED <<kind, id, signed, held, writers>>
       ELSE Reset(w)
    /\ UNCHANGED <<session, challenges, rate, queue, commands, order, mem, watch, process, incidents>>

\* The disk is full: the error is the request's answer.
WriteFails(w) ==
    /\ pc[w] \in {"opening", "writing"} /\ Incident
    /\ IF w = Operator THEN Reset(w) ELSE Goto(w, "failing") /\ UNCHANGED <<kind, id, signed, held, writers>>
    /\ UNCHANGED <<session, challenges, rate, queue, commands, order, config, watching, process>>

\* A new value of APP_CONFIG, and the users that clones in flight have missed.
Writing(w) == pc[w] \in {"waiting", "deciding", "blocking", "verifying", "issuing",
                         "opening", "writing", "storing"}

SetMemory(c) ==
    /\ mem' = c
    /\ since' = [w \in Writer |-> IF Writing(w) THEN since[w] \cup (c.users \ mem.users) ELSE {}]

Store(w) ==
    /\ pc[w] = "storing"
    /\ Goto(w, IF w = Operator THEN "idle" ELSE "succeeding")
    /\ id' = IF w = Operator THEN [id EXCEPT ![w] = None] ELSE id
    /\ snap' = [snap EXCEPT ![w] = DefaultConfig]
    /\ SetMemory(snap[w])
    /\ UNCHANGED <<session, challenges, kind, signed, held, rate, queue, commands, order,
                   file, watching, process, incidents>>

-----------------------------------------------------------------------------
(***************************************************************************)
(* The operator                                                            *)
(***************************************************************************)
\* authorise, over the socket (which asks for a challenged session first) or the terminal:
\* ipc_send gives up on a queue that is full.
Authorise(n, overSocket) ==
    /\ up /\ commands < MaxCommands
    /\ overSocket => ChallengedSessions # <<>>
    /\ commands' = commands + 1
    /\ queue' = IF queue = Empty THEN n ELSE queue
    /\ UNCHANGED <<session, challenges, attempts, writers, rate, order, config,
                   watching, process, incidents>>

\* deauthorise: the only challenged session, or the one of that number; a user who has
\* logged in is not among them.
Doomed(n) ==
    LET list == ChallengedSessions
    IN  IF Len(list) = 1 THEN list[1]
        ELSE IF n + 1 \in DOMAIN list THEN list[n + 1] ELSE None

Deauthorise(n) ==
    /\ up /\ pc[Operator] = "idle" /\ Incident
    /\ Doomed(n) \in mem.users
    /\ Goto(Operator, "opening")
    /\ id' = [id EXCEPT ![Operator] = Doomed(n)]
    /\ snap' = [snap EXCEPT ![Operator] = [mem EXCEPT !.users = @ \ {Doomed(n)}]]
    /\ since' = [since EXCEPT ![Operator] = {}]
    /\ UNCHANGED <<session, challenges, kind, signed, held, rate, queue, commands, order,
                   config, watching, process>>

\* The operator saves an edit of the file as it is (external).
Edit ==
    /\ file \notin Spoilt /\ Incident
    /\ file' = [file EXCEPT !.edit = @ + 1]
    /\ Reported
    /\ UNCHANGED <<session, challenges, attempts, writers, rate, queue, commands, order, mem,
                   watch, process>>

-----------------------------------------------------------------------------
(***************************************************************************)
(* watch_config                                                            *)
(***************************************************************************)
\* The watcher is a local of the closure that starts it: it ends as soon as it watches.
DropWatcher ==
    /\ up /\ watch
    /\ watch' = FALSE
    /\ UNCHANGED <<session, challenges, attempts, writers, rate, queue, commands, order, config,
                   reload, read, process, incidents>>

\* watch_respond: four seconds after the last event it reads, and sets what it can parse.
ReadFile ==
    /\ up /\ reload = "armed"
    /\ IF file \in Spoilt
       THEN reload' = "none" /\ UNCHANGED read
       ELSE reload' = "read" /\ read' = file
    /\ UNCHANGED <<session, challenges, attempts, writers, rate, queue, commands, order, config,
                   watch, process, incidents>>

Reload ==
    /\ up /\ reload = "read"
    /\ SetMemory(read)
    /\ reload' = "none" /\ read' = DefaultConfig
    /\ UNCHANGED <<session, challenges, attempts, snap, rate, queue, commands, order, file,
                   watch, process, incidents>>

-----------------------------------------------------------------------------
(***************************************************************************)
(* The process                                                             *)
(***************************************************************************)
\* A server's future ends in an error ...
ServerFails ==
    /\ up /\ serving = "up" /\ Incident
    /\ serving' = "failed"
    /\ UNCHANGED <<session, challenges, attempts, writers, rate, queue, commands, order, config,
                   watching, up>>

\* ... and restart_on_error calls reset_app, whose blocking_lock panics on a runtime thread:
\* nothing is sent to the serve loop, and the server's task is over.
ResetApp ==
    /\ up /\ serving = "failed"
    /\ serving' = "dead"
    /\ UNCHANGED <<session, challenges, attempts, writers, rate, queue, commands, order, config,
                   watching, up, incidents>>

\* What a process starts with: all of this, and a configuration.
NoSessions == [i \in Id |-> 0]
ForAll(value) == [w \in Writer |-> value]

Crash ==
    /\ up /\ Incident
    /\ up' = FALSE /\ serving' = "up"
    /\ session' = NoSessions /\ rate' = NoAddress /\ queue' = Blocked
    /\ pc' = ForAll("idle") /\ kind' = ForAll("login") /\ id' = ForAll(None)
    /\ signed' = ForAll(0) /\ held' = ForAll(Empty)
    /\ snap' = ForAll(DefaultConfig) /\ since' = ForAll({})
    /\ watch' = TRUE /\ reload' = "none" /\ read' = DefaultConfig
    /\ UNCHANGED <<challenges, commands, order, config>>

\* setup_config: an empty file is replaced by the defaults; one that cannot be read stops
\* the start.
Boot ==
    /\ ~up
    /\ file # TornFile
    /\ up' = TRUE
    /\ mem' = IF file = EmptyFile THEN DefaultConfig ELSE file
    /\ file' = mem'
    /\ UNCHANGED <<session, challenges, attempts, writers, rate, queue, commands, order,
                   watching, serving, incidents>>

-----------------------------------------------------------------------------
Init ==
    /\ session = NoSessions /\ rate = NoAddress
    /\ queue = Blocked          \* ipc_init
    /\ pc = ForAll("idle") /\ kind = ForAll("login") /\ id = ForAll(None)
    /\ signed = ForAll(0) /\ held = ForAll(Empty)
    /\ snap = ForAll(DefaultConfig) /\ since = ForAll({})
    /\ watch = TRUE /\ reload = "none" /\ read = DefaultConfig
    /\ challenges = 0 /\ commands = 0 /\ incidents = 0
    /\ order = SetToSeq(Id)
    /\ file = [users |-> Founders, edit |-> 0] /\ mem = file
    /\ up = TRUE /\ serving = "up"

Handle(a) ==
    \/ Receive(a) \/ Approve(a) \/ Menu(a) \/ Requeue(a) \/ Block(a)
    \/ Verify(a) \/ IssueCookie(a) \/ RecordFailure(a) \/ Succeed(a)

Update(w) == Open(w) \/ Write(w) \/ Store(w)

Watch == DropWatcher \/ ReadFile \/ Reload

Next ==
    \/ \E i \in Id : GetChallenge(i)
    \/ \E a \in Attempt, k \in {"login", "register"}, i \in Id : Submit(a, k, i)
    \/ \E a \in Attempt : Handle(a) \/ Timeout(a) \/ AnswerLost(a) \/ HangUp(a)
    \/ \E w \in Writer : Update(w) \/ WriteFails(w)
    \/ \E n \in Index, overSocket \in BOOLEAN : Authorise(n, overSocket)
    \/ \E n \in Index : Deauthorise(n)
    \/ WindowPasses \/ Edit \/ Watch \/ ServerFails \/ ResetApp \/ Crash \/ Boot

\* A handler's step is never put off for ever; a timer goes off although the loop around it
\* may go round and round (the runtime's budget makes the loop yield to it).
Fairness ==
    /\ \A a \in Attempt : WF_vars(Handle(a)) /\ SF_vars(Timeout(a))
    /\ \A w \in Writer : WF_vars(Update(w))
    /\ WF_vars(Watch) /\ WF_vars(ResetApp)

Spec == Init /\ [][Next]_vars /\ Fairness

-----------------------------------------------------------------------------
(***************************************************************************)
(* Properties                                                              *)
(***************************************************************************)
\* One authorise command lets in at most one new user, however many registrations wait,
\* however often its message goes back to the queue, whatever is written over whatever.
Newcomers == (mem.users \cup file.users) \ Founders
CommandAdmitsOne == Cardinality(Newcomers) <= commands

\* The check and the record of a failure are two steps, so attempts that run side by side
\* may pass the limit together: by one less than there are of them, and never by more.
RateBounded == rate.count < RateLimit + Cardinality(Attempt)

\* A user disappears from the running configuration only when deauthorised, by a reload of
\* the file, or when overwritten by a clone made before the user was added - a registration
\* keeps its clone through the whole wait for the operator, so that is not rare.
LostToAClone(i) ==
    \E w \in Writer : /\ pc[w] = "storing" /\ mem' = snap[w]
                      /\ i \in since[w] \/ (w = Operator /\ i = id[w])
UsersLeaveForAReason ==
    [][\A i \in mem.users \ mem'.users :
          LostToAClone(i) \/ (reload = "read" /\ mem' = read) \/ ~up]_vars

=============================================================================
