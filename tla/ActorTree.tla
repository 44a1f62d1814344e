------------------------------ MODULE ActorTree ------------------------------
(***************************************************************************)
(* The life of `racli server` and `racli mcp`: run_until_shutdown and      *)
(* RootActor (src/actors/root.rs), BackendSupervisor                       *)
(* (src/actors/backend.rs), FileWatcherActor (src/actors/file_watcher.rs)  *)
(* with its filters (src/workspace_file_watcher.rs), GrpcFrontend and      *)
(* McpFrontend (src/actors/frontend.rs) with the tonic server and the rmcp *)
(* service behind them (external), and the rust-analyzer actor as the      *)
(* serial service that SerialService specifies.                            *)
(*                                                                         *)
(* Actors start top to bottom and stop in reverse order.  Each waits for   *)
(* others by calls and by joining their tasks, while a signal, a failing   *)
(* server, a panicking actor, RPCs, event streams and file changes arrive  *)
(* at any time.                                                            *)
(***************************************************************************)
EXTENDS Naturals, Sequences

CONSTANTS
  Kinds,     \* the front ends looked at: "grpc" (racli server), "mcp" (racli mcp)
  Rpcs,      \* gRPC requests or MCP tool calls, each sent at most once
  Streams,   \* clients that may hold an LspEvents stream open
  Changes,   \* file system events that may occur
  Event      \* Event[c]: what notify reports of a change, its kind and its paths

EventKinds == {"create", "metadata", "modify", "remove", "other", "any", "access"}
\* A path names a Rust source or a Cargo file, or another file; either may lie
\* below target, .git or node_modules.
Paths == [watched : BOOLEAN, noise : BOOLEAN]

ASSUME TreeAssumption == "shutdown" \notin Rpcs \cup Changes /\ Rpcs \cap Changes = {}
ASSUME KindsAssumption == Kinds \subseteq {"grpc", "mcp"} /\ Kinds # {}
ASSUME EventAssumption == Event \in [Changes -> [kind : EventKinds, paths : SUBSET Paths]]

VARIABLES
  main,       \* run_until_shutdown: "spawning", "waiting", "joining" or "returned";
              \* "exited" once the process has ended
  signalled,  \* SIGINT or SIGTERM has arrived
  result,     \* what run_until_shutdown returns, "none" until it is known
  root,       \* where RootActor is in pre_start or in its handler
  rootBox,    \* its mailbox
  backend,    \* where BackendSupervisor is
  asked,      \* BackendMsg::Shutdown is in its mailbox
  watcher,    \* "none", "idle", "draining" or "stopped"
  change,     \* what became of each file system event
  ra,         \* rust-analyzer's actor: "none", "open", "closed" (no session) or "gone"
  raBox,      \* its mailbox
  raResult,   \* the result of the LSP shutdown
  frontend,   \* the front end: "none", "idle", "stopping", "stopped" or "failed"
  server,     \* its serve task: "none", "serving", "draining" or "ended"
  served,     \* the serve task's result
  rpc,        \* what became of each request
  stream,     \* "new", "open" or "left"
  panicked,   \* history: the actors, and the serve task, that panicked
  host        \* the front end's kind, and how far an MCP host's stdin is: "silent",
              \* "ready" (handshake done), "spent" (written to after the service has
              \* ended) or "gone"

rootVars == <<main, signalled, result, root, rootBox>>
watcherVars == <<watcher, change>>
raVars == <<ra, raBox, raResult>>
frontendVars == <<frontend, server, served, rpc, stream>>
vars == <<rootVars, backend, asked, watcherVars, raVars, frontendVars, panicked, host>>

Init ==
  /\ main = "spawning"
  /\ signalled = FALSE
  /\ result = "none"
  /\ root = "startBackend"
  /\ rootBox = <<>>
  /\ backend = "startRa"
  /\ asked = FALSE
  /\ watcher = "none"
  /\ change = [c \in Changes |-> "new"]
  /\ ra = "none"
  /\ raBox = <<>>
  /\ raResult = "ok"
  /\ frontend = "none"
  /\ server = "none"
  /\ served = "ok"
  /\ rpc = [r \in Rpcs |-> "new"]
  /\ stream = [s \in Streams |-> "new"]
  /\ panicked = {}
  /\ host \in [kind : Kinds, stdin : {"silent"}]

Grpc == host.kind = "grpc"
Mcp == host.kind = "mcp"

RaAlive == ra \in {"open", "closed"}

\* Tool calls an MCP service leaves behind: nobody is there to answer them.
CutOff == [r \in Rpcs |-> IF Mcp /\ rpc[r] = "inflight" THEN "cut" ELSE rpc[r]]

\* A cast or call to the root actor is dropped once that actor is gone.
TellRoot(m) == rootBox' = IF root \in {"stopped", "failed"} THEN rootBox ELSE Append(rootBox, m)

------------------------------------------------------------------------------
\* run_until_shutdown: start the tree, wait for a signal or the root, join it.

Signal ==
  /\ ~signalled
  /\ main # "exited"
  /\ signalled' = TRUE
  /\ UNCHANGED <<main, result, root, rootBox, backend, asked, watcherVars, raVars,
                 frontendVars, panicked, host>>

\* The root's pre_start has returned.
MainSpawned ==
  /\ main = "spawning"
  /\ root \notin {"startBackend", "startFrontend", "undo"}
  /\ main' = IF root = "failed" THEN "returned" ELSE "waiting"
  /\ UNCHANGED <<signalled, result, root, rootBox, backend, asked, watcherVars, raVars,
                 frontendVars, panicked, host>>

\* The select! sees the signal.
MainSignalled ==
  /\ main = "waiting"
  /\ signalled
  /\ main' = "joining"
  /\ TellRoot("Shutdown")
  /\ UNCHANGED <<signalled, result, root, backend, asked, watcherVars, raVars,
                 frontendVars, panicked, host>>

\* run_until_shutdown returns, and with it main: the tasks that are left are dropped.
MainReturns ==
  /\ main \in {"waiting", "joining"}
  /\ root = "stopped"
  /\ main' = "returned"
  /\ server' = IF server = "none" THEN server ELSE "ended"
  /\ rpc' = CutOff
  /\ UNCHANGED <<signalled, result, root, rootBox, backend, asked, watcherVars, raVars,
                 frontend, served, stream, panicked, host>>

\* A read of stdin that the MCP service has begun cannot be cancelled: it goes on until
\* the host writes or leaves.
ReadPends == Mcp /\ host.stdin = "ready"

\* The runtime is dropped, which waits for a pending read; then the process ends.
ProcessEnds ==
  /\ main = "returned"
  /\ ~ReadPends
  /\ main' = "exited"
  /\ UNCHANGED <<signalled, result, root, rootBox, backend, asked, watcherVars, raVars,
                 frontendVars, panicked, host>>

------------------------------------------------------------------------------
\* RootActor.

\* The backend has started and answers GetSession, or it has failed.
RootHasBackend ==
  /\ root = "startBackend"
  /\ backend \in {"idle", "failed"}
  /\ IF backend = "idle"
       THEN root' = "startFrontend" /\ UNCHANGED result
       ELSE root' = "failed" /\ result' = "start backend"
  /\ UNCHANGED <<main, signalled, rootBox, backend, asked, watcherVars, raVars,
                 frontendVars, panicked, host>>

\* GrpcFrontend binds the socket in pre_start, McpFrontend completes the MCP handshake,
\* for as long as the host takes; then each spawns its serve task.
FrontendStarts ==
  /\ root = "startFrontend"
  /\ Mcp => host.stdin = "ready"
  /\ root' = "idle"
  /\ frontend' = "idle"
  /\ server' = "serving"
  /\ UNCHANGED <<main, signalled, result, rootBox, backend, asked, watcherVars, raVars,
                 served, rpc, stream, panicked, host>>

\* The bind or the handshake fails: the started backend is shut down again.
FrontendStartFails ==
  /\ root = "startFrontend"
  /\ Mcp => host.stdin = "gone"
  /\ root' = "undo"
  /\ asked' = TRUE
  /\ UNCHANGED <<main, signalled, result, rootBox, backend, watcherVars, raVars,
                 frontendVars, panicked, host>>

\* Mutant of RootUndone: the front end's error is lost.
RootForgetsError ==
  /\ root = "undo"
  /\ backend \in {"stopped", "failed"}
  /\ root' = "failed"
  /\ UNCHANGED <<main, signalled, result, rootBox, backend, asked, watcherVars, raVars,
                 frontendVars, panicked, host>>

RootUndone ==
  /\ root = "undo"
  /\ backend \in {"stopped", "failed"}
  /\ root' = "failed"
  /\ result' = "start frontend"
  /\ UNCHANGED <<main, signalled, rootBox, backend, asked, watcherVars, raVars,
                 frontendVars, panicked, host>>

\* The first Shutdown or FrontendExited starts the teardown; the handler does not
\* return before the tree is down.
RootHandles ==
  /\ root = "idle"
  /\ rootBox # <<>>
  /\ root' = "stopFrontend"
  /\ rootBox' = Tail(rootBox)
  /\ UNCHANGED <<main, signalled, result, backend, asked, watcherVars, raVars,
                 frontendVars, panicked, host>>

\* ActorFailed of the front end, seen between two messages; a second message would
\* find the teardown done, so one is enough.
RootSupervises ==
  /\ root = "idle"
  /\ frontend = "failed"
  /\ \A i \in DOMAIN rootBox : rootBox[i] # "FrontendExited"
  /\ TellRoot("FrontendExited")
  /\ UNCHANGED <<main, signalled, result, root, backend, asked, watcherVars, raVars,
                 frontendVars, panicked, host>>

\* Mutant of RootStopsFrontend: the backend is shut down without waiting.
RootSkipsFrontend ==
  /\ root = "stopFrontend"
  /\ root' = "stopBackend"
  /\ asked' = TRUE
  /\ UNCHANGED <<main, signalled, result, rootBox, backend, watcherVars, raVars,
                 frontendVars, panicked, host>>

\* Mutant of RootStopsFrontend: a front end that is gone is waited for.
RootAwaitsReply ==
  /\ root = "stopFrontend"
  /\ frontend = "stopped"
  /\ root' = "stopBackend"
  /\ asked' = TRUE
  /\ UNCHANGED <<main, signalled, result, rootBox, backend, watcherVars, raVars,
                 frontendVars, panicked, host>>

\* The front end has replied to Stop and its actor has ended (or it is gone).
RootStopsFrontend ==
  /\ root = "stopFrontend"
  /\ frontend \in {"stopped", "failed"}
  /\ root' = "stopBackend"
  /\ asked' = TRUE
  /\ UNCHANGED <<main, signalled, result, rootBox, backend, watcherVars, raVars,
                 frontendVars, panicked, host>>

\* Mutant of Outcome: only the backend's result is reported.
BackendOutcome == IF backend = "stopped" /\ raResult = "error" THEN "backend" ELSE "ok"

\* The front end's error comes first; an actor that is gone counts as stopped.
Outcome ==
  IF frontend = "stopped" /\ served # "ok" THEN "frontend"
  ELSE IF backend = "stopped" /\ raResult = "error" THEN "backend"
  ELSE "ok"

RootStopsBackend ==
  /\ root = "stopBackend"
  /\ backend \in {"stopped", "failed"}
  /\ root' = "stopped"
  /\ result' = Outcome
  /\ UNCHANGED <<main, signalled, rootBox, backend, asked, watcherVars, raVars,
                 frontendVars, panicked, host>>

------------------------------------------------------------------------------
\* BackendSupervisor.

\* rust-analyzer is spawned and initialized, or not.
RaStarts ==
  /\ backend = "startRa"
  /\ \/ ra' = "open" /\ backend' = "startWatcher"
     \/ ra' = ra /\ backend' = "failed"
  /\ UNCHANGED <<rootVars, asked, watcherVars, raBox, raResult, frontendVars, panicked, host>>

WatcherStarts ==
  /\ backend = "startWatcher"
  /\ watcher' = "idle"
  /\ backend' = "info"
  /\ UNCHANGED <<rootVars, asked, change, raVars, frontendVars, panicked, host>>

\* A watch that fails is only logged: what fails a start is a panic.
WatcherStartFails ==
  /\ backend = "startWatcher"
  /\ backend' = "undo"
  /\ raBox' = IF RaAlive THEN Append(raBox, "shutdown") ELSE raBox
  /\ UNCHANGED <<rootVars, asked, watcherVars, ra, raResult, frontendVars, panicked, host>>

\* ServerInfo, InitializeResult and Events are answered; or the actor is gone, and the
\* failing supervisor takes the watcher down with it.
BackendStarts ==
  /\ backend = "info"
  /\ backend' = IF RaAlive THEN "idle" ELSE "failed"
  /\ watcher' = IF RaAlive THEN watcher ELSE "stopped"
  /\ change' = [c \in Changes |->
       IF ~RaAlive /\ change[c] = "queued" THEN "lost" ELSE change[c]]
  /\ UNCHANGED <<rootVars, asked, raVars, frontendVars, panicked, host>>

\* Mutant of BackendDrains: the watcher is stopped with what it has queued.
BackendStopsWatcher ==
  /\ backend = "idle"
  /\ asked
  /\ backend' = "drain"
  /\ watcher' = "stopped"
  /\ change' = [c \in Changes |-> IF change[c] = "queued" THEN "lost" ELSE change[c]]
  /\ UNCHANGED <<rootVars, asked, raVars, frontendVars, panicked, host>>

\* Shutdown begins with drain_and_wait.
BackendDrains ==
  /\ backend = "idle"
  /\ asked
  /\ backend' = "drain"
  /\ watcher' = "draining"
  /\ UNCHANGED <<rootVars, asked, change, raVars, frontendVars, panicked, host>>

\* Then rust-analyzer is shut down.
BackendStopsRa ==
  /\ backend = "drain"
  /\ watcher = "stopped"
  /\ backend' = "stopRa"
  /\ raBox' = IF RaAlive THEN Append(raBox, "shutdown") ELSE raBox
  /\ UNCHANGED <<rootVars, asked, watcherVars, ra, raResult, frontendVars, panicked, host>>

\* What is still in a mailbox when its actor ends is lost.
DropRpcs == [r \in Rpcs |-> IF rpc[r] = "inflight" THEN "closed" ELSE rpc[r]]
DropChanges == [c \in Changes |-> IF change[c] = "sent" THEN "lost" ELSE change[c]]

\* shutdown_rust_analyzer has its reply (or the actor is gone) and stops the actor.
BackendStops ==
  /\ backend \in {"stopRa", "undo"}
  /\ ra \in {"closed", "gone"}
  /\ ra' = "gone"
  /\ raBox' = <<>>
  /\ rpc' = DropRpcs
  /\ change' = DropChanges
  /\ backend' = IF backend = "undo" THEN "failed" ELSE "stopped"
  /\ UNCHANGED <<rootVars, asked, watcher, raResult, frontend, server, served, stream, panicked, host>>

------------------------------------------------------------------------------
\* The file watcher.

\* file_change_type: the LSP change a kind of event stands for, if any.
ChangeType(kind) ==
  CASE kind = "create" -> "created"
    [] kind = "metadata" -> "none"
    [] kind = "remove" -> "deleted"
    [] OTHER -> "changed"

IsWatched(p) == p.watched /\ ~p.noise

IsRelevant(e) == ChangeType(e.kind) # "none" /\ \E p \in e.paths : IsWatched(p)

\* notify_event_to_lsp_changes: the watched paths of an event, each with its change.
LspChanges(e) ==
  IF ChangeType(e.kind) = "none" THEN {}
  ELSE {[path |-> p, type |-> ChangeType(e.kind)] : p \in {p \in e.paths : IsWatched(p)}}

\* notify's callback casts a relevant event to the actor; a draining actor refuses it.
\* A watch that could not be set up reports nothing, ever.
FileChanges(c) ==
  /\ change[c] = "new"
  /\ watcher = "idle"
  /\ change' = [change EXCEPT ![c] = IF IsRelevant(Event[c]) THEN "queued" ELSE "ignored"]
  /\ UNCHANGED <<rootVars, backend, asked, watcher, raVars, frontendVars, panicked, host>>

\* An event without a change left is dropped, the others are cast to rust-analyzer.
WatcherForwards(c) ==
  /\ change[c] = "queued"
  /\ watcher \in {"idle", "draining"}
  /\ IF LspChanges(Event[c]) = {}
       THEN change' = [change EXCEPT ![c] = "ignored"] /\ UNCHANGED raBox
       ELSE /\ change' = [change EXCEPT ![c] = IF RaAlive THEN "sent" ELSE "lost"]
            /\ raBox' = IF RaAlive THEN Append(raBox, c) ELSE raBox
  /\ UNCHANGED <<rootVars, backend, asked, watcher, ra, raResult, frontendVars, panicked,
                 host>>

WatcherStops ==
  /\ watcher = "draining"
  /\ \A c \in Changes : change[c] # "queued"
  /\ watcher' = "stopped"
  /\ UNCHANGED <<rootVars, backend, asked, change, raVars, frontendVars, panicked, host>>

------------------------------------------------------------------------------
\* The rust-analyzer actor, one message at a time.

RaServes ==
  /\ RaAlive
  /\ raBox # <<>>
  /\ raBox' = Tail(raBox)
  /\ LET m == Head(raBox) IN
       /\ rpc' = [r \in Rpcs |->
            IF r # m \/ rpc[r] # "inflight" THEN rpc[r]
            ELSE IF ra = "open" THEN "answered" ELSE "closed"]
       /\ change' = [c \in Changes |->
            IF c # m THEN change[c] ELSE IF ra = "open" THEN "delivered" ELSE "lost"]
       /\ IF m = "shutdown"
            THEN ra' = "closed" /\ raResult' \in {"ok", "error"}
            ELSE UNCHANGED <<ra, raResult>>
  /\ UNCHANGED <<rootVars, backend, asked, watcher, frontend, server, served, stream, panicked, host>>

------------------------------------------------------------------------------
\* The front ends and their clients.

\* The MCP host completes the handshake.
HostGreets ==
  /\ Mcp
  /\ root = "startFrontend"
  /\ host.stdin = "silent"
  /\ host' = [host EXCEPT !.stdin = "ready"]
  /\ UNCHANGED <<rootVars, backend, asked, watcherVars, raVars, frontendVars, panicked>>

\* It writes when the service no longer reads: that ends the read which was pending.
HostWrites ==
  /\ ReadPends
  /\ server \in {"draining", "ended"}
  /\ host' = [host EXCEPT !.stdin = "spent"]
  /\ UNCHANGED <<rootVars, backend, asked, watcherVars, raVars, frontendVars, panicked>>

\* It closes racli's stdin, or its handshake is not one.
HostLeaves ==
  /\ Mcp
  /\ host.stdin # "gone"
  /\ host' = [host EXCEPT !.stdin = "gone"]
  /\ UNCHANGED <<rootVars, backend, asked, watcherVars, raVars, frontendVars, panicked>>

RpcArrives(r) ==
  /\ rpc[r] = "new"
  /\ server = "serving"
  /\ host.stdin # "gone"
  /\ rpc' = [rpc EXCEPT ![r] = IF RaAlive THEN "inflight" ELSE "closed"]
  /\ raBox' = IF RaAlive THEN Append(raBox, r) ELSE raBox
  /\ UNCHANGED <<rootVars, backend, asked, watcherVars, ra, raResult, frontend, server,
                 served, stream, panicked, host>>

StreamOpens(s) ==
  /\ Grpc
  /\ stream[s] = "new"
  /\ server = "serving"
  /\ stream' = [stream EXCEPT ![s] = "open"]
  /\ UNCHANGED <<rootVars, backend, asked, watcherVars, raVars, frontend, server, served,
                 rpc, panicked, host>>

\* Only the client ends a stream: the hub's sender lives as long as the server.
StreamLeaves(s) ==
  /\ stream[s] = "open"
  /\ stream' = [stream EXCEPT ![s] = "left"]
  /\ UNCHANGED <<rootVars, backend, asked, watcherVars, raVars, frontend, server, served,
                 rpc, panicked, host>>

\* tonic's graceful shutdown waits for every request and stream; a cancelled MCP
\* service waits for nothing.
Drained == Grpc =>
  /\ \A r \in Rpcs : rpc[r] # "inflight"
  /\ \A s \in Streams : stream[s] # "open"

\* FrontendMsg::Stop resolves the serve task's shutdown future, or cancels the MCP
\* service, and joins the task.
FrontendStops ==
  /\ frontend = "idle"
  /\ root = "stopFrontend"
  /\ frontend' = "stopping"
  /\ server' = IF server = "serving" THEN "draining" ELSE server
  /\ UNCHANGED <<rootVars, backend, asked, watcherVars, raVars, served, rpc, stream, panicked, host>>

\* The serve task ends: after draining, or with an error.  It tells the root.
ServerDrains ==
  /\ server = "draining"
  /\ Drained
  /\ server' = "ended"
  /\ rpc' = CutOff
  /\ TellRoot("FrontendExited")
  /\ UNCHANGED <<main, signalled, result, root, backend, asked, watcherVars, raVars,
                 frontend, served, stream, panicked, host>>

\* The MCP service ends with its stdin, which is no error.
ServiceEnds ==
  /\ Mcp
  /\ server = "serving"
  /\ host.stdin = "gone"
  /\ server' = "ended"
  /\ rpc' = CutOff
  /\ TellRoot("FrontendExited")
  /\ UNCHANGED <<main, signalled, result, root, backend, asked, watcherVars, raVars,
                 frontend, served, stream, panicked, host>>

\* tonic returns an error, or rmcp's own task has failed, which is only a warning.
ServerFails ==
  /\ server \in {"serving", "draining"}
  /\ server = "draining" => Mcp
  /\ server' = "ended"
  /\ served' = IF Grpc THEN "error" ELSE served
  /\ rpc' = CutOff
  /\ TellRoot("FrontendExited")
  /\ UNCHANGED <<main, signalled, result, root, backend, asked, watcherVars, raVars,
                 frontend, stream, panicked, host>>

FrontendStopped ==
  /\ frontend = "stopping"
  /\ server = "ended"
  /\ frontend' = "stopped"
  /\ UNCHANGED <<rootVars, backend, asked, watcherVars, raVars, server, served, rpc,
                 stream, panicked, host>>

------------------------------------------------------------------------------
\* An actor panics: its supervisor is told, its children are killed.

RaPanics ==
  /\ RaAlive
  /\ ra' = "gone"
  /\ raBox' = <<>>
  /\ rpc' = DropRpcs
  /\ change' = DropChanges
  /\ panicked' = panicked \cup {"ra"}
  /\ UNCHANGED <<rootVars, backend, asked, watcher, raResult, frontend, server, served, stream, host>>

BackendPanics ==
  /\ backend \in {"idle", "drain", "stopRa"}
  /\ backend' = "failed"
  /\ ra' = "gone"
  /\ raBox' = <<>>
  /\ watcher' = "stopped"
  /\ rpc' = DropRpcs
  /\ change' = [c \in Changes |->
       IF change[c] \in {"queued", "sent"} THEN "lost" ELSE change[c]]
  /\ panicked' = panicked \cup {"backend"}
  /\ UNCHANGED <<rootVars, asked, raResult, frontend, server, served, stream, host>>

\* The serve task is detached.  tonic's drains, because its shutdown sender is dropped;
\* an MCP service goes on.
FrontendPanics ==
  /\ frontend \in {"idle", "stopping"}
  /\ frontend' = "failed"
  /\ server' = IF Grpc /\ server = "serving" THEN "draining" ELSE server
  /\ panicked' = panicked \cup {"frontend"}
  /\ UNCHANGED <<rootVars, backend, asked, watcherVars, raVars, served, rpc, stream, host>>

\* The serve task panics, before it tells the root.
ServerPanics ==
  /\ server \in {"serving", "draining"}
  /\ server' = "ended"
  /\ served' = "panicked"
  /\ rpc' = CutOff
  /\ panicked' = panicked \cup {"server"}
  /\ UNCHANGED <<rootVars, backend, asked, watcherVars, raVars, frontend, stream, host>>

------------------------------------------------------------------------------
Main == MainSpawned \/ MainSignalled \/ MainReturns \/ ProcessEnds
Root ==
  \/ RootHasBackend \/ FrontendStarts \/ FrontendStartFails \/ RootUndone
  \/ RootHandles \/ RootSupervises \/ RootStopsFrontend \/ RootStopsBackend
Backend ==
  \/ RaStarts \/ WatcherStarts \/ WatcherStartFails \/ BackendStarts
  \/ BackendDrains \/ BackendStopsRa \/ BackendStops
Watcher == WatcherStops \/ \E c \in Changes : WatcherForwards(c)
Frontend == FrontendStops \/ ServerDrains \/ ServiceEnds \/ FrontendStopped

Next ==
  \/ Signal
  \/ Main
  \/ Root
  \/ Backend
  \/ Watcher
  \/ RaServes
  \/ Frontend
  \/ ServerFails
  \/ HostGreets \/ HostWrites \/ HostLeaves
  \/ \E c \in Changes : FileChanges(c)
  \/ \E r \in Rpcs : RpcArrives(r)
  \/ \E s \in Streams : StreamOpens(s) \/ StreamLeaves(s)
  \/ RaPanics \/ BackendPanics \/ FrontendPanics \/ ServerPanics

\* Each task is polled: the actors, the serve task and main.  Nobody has to send a
\* signal, a request, a change or a handshake, to fail, or to leave a stream.
Spec ==
  /\ Init /\ [][Next]_vars
  /\ WF_vars(Main) /\ WF_vars(Root) /\ WF_vars(Backend) /\ WF_vars(Watcher)
  /\ WF_vars(RaServes) /\ WF_vars(Frontend)

------------------------------------------------------------------------------
\* run_until_shutdown has returned.
Returned == main \in {"returned", "exited"}

\* Every variable has its type.
TypeOK ==
  /\ main \in {"spawning", "waiting", "joining", "returned", "exited"}
  /\ signalled \in BOOLEAN
  /\ result \in {"none", "ok", "start backend", "start frontend", "frontend", "backend"}
  /\ root \in {"startBackend", "startFrontend", "undo", "idle", "stopFrontend",
               "stopBackend", "stopped", "failed"}
  /\ rootBox \in Seq({"Shutdown", "FrontendExited"})
  /\ backend \in {"startRa", "startWatcher", "info", "undo", "idle", "drain", "stopRa",
                  "stopped", "failed"}
  /\ asked \in BOOLEAN
  /\ watcher \in {"none", "idle", "draining", "stopped"}
  /\ change \in [Changes -> {"new", "ignored", "queued", "sent", "delivered", "lost"}]
  /\ ra \in {"none", "open", "closed", "gone"}
  /\ raBox \in Seq(Rpcs \cup Changes \cup {"shutdown"})
  /\ raResult \in {"ok", "error"}
  /\ frontend \in {"none", "idle", "stopping", "stopped", "failed"}
  /\ server \in {"none", "serving", "draining", "ended"}
  /\ served \in {"ok", "error", "panicked"}
  /\ rpc \in [Rpcs -> {"new", "inflight", "answered", "closed", "cut"}]
  /\ stream \in [Streams -> {"new", "open", "left"}]
  /\ panicked \subseteq {"ra", "backend", "frontend", "server"}
  /\ host \in [kind : Kinds, stdin : {"silent", "ready", "spent", "gone"}]
  /\ Returned => result # "none"

\* rust-analyzer is asked to shut down only when no front end serves any more and the
\* file watcher has stopped ("teardown runs front end, then backend").
TeardownInOrder ==
  (ra = "closed" \/ \E i \in DOMAIN raBox : raBox[i] = "shutdown") =>
    /\ frontend \notin {"idle", "stopping"}
    /\ watcher \notin {"idle", "draining"}

\* What racli has accepted it finishes, as long as nothing failed: a request is
\* answered by a live session, however it races with a shutdown, and only an MCP
\* service that has ended leaves one unanswered; and rust-analyzer hears of every
\* change to a watched file that was seen, and of no other, before its own shutdown.
AcceptedWorkFinishes ==
  /\ \A r \in Rpcs :
       /\ rpc[r] = "closed" => panicked # {}
       /\ rpc[r] = "cut" => Mcp /\ server = "ended"
  /\ \A c \in Changes :
       LET telling == /\ Event[c].kind # "metadata"
                      /\ [watched |-> TRUE, noise |-> FALSE] \in Event[c].paths
       IN /\ change[c] = "lost" => panicked # {}
          /\ change[c] = "ignored" => ~telling
          /\ change[c] \in {"sent", "delivered"} => telling

\* run_until_shutdown never returns, nor reports a failed start, with a rust-analyzer
\* actor left; and it does not hide why it ends: a serve task that failed or panicked is
\* reported even when a signal arrives at the same time and the backend fails as well.
ExitIsClean == Returned =>
  /\ ra \in {"none", "gone"}
  /\ (served # "ok" /\ "frontend" \notin panicked) => result = "frontend"

\* A signal, even one that arrives during startup, and the end of a serve task that does
\* not panic bring the tree down and run_until_shutdown to its return, once clients have
\* left their streams and an MCP host has answered the handshake or left, whichever
\* comes first, and whatever fails on the way.  Then the process ends, but for an MCP
\* host that neither writes nor closes stdin.
StopCompletes ==
  /\ (/\ <>[](\A s \in Streams : stream[s] # "open")
      /\ Mcp => <>(host.stdin # "silent"))
       => (signalled ~> Returned)
  /\ (server = "ended" /\ served # "panicked") ~> Returned
  /\ (Returned /\ ~ReadPends) ~> (main = "exited")

\* docs/racli-tee-limitations.md:46, src/tee.rs:83: it stops when SIGINT/SIGTERM arrives.
SignalStops == signalled ~> (main = "exited")
==============================================================================
