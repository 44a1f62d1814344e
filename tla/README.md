# Formal models of racli

TLA+ models of [racli](../src/README.md), the program that puts a command line, a gRPC service and MCP
tools in front of one long-lived rust-analyzer. TLC checks the models on small instances and TLAPS
proves the central results for every instance. Paths below are relative to the repository (`src/`), so
`src/racli_core.rs` is `src/src/racli_core.rs` seen from the workspace.

## The system

| Component | Code | State it keeps | Operations |
| --- | --- | --- | --- |
| Root actor | `actors/root.rs` | its children, the phase of start and teardown | `run_until_shutdown`, `Shutdown`, `FrontendExited`, supervision events |
| Backend supervisor | `actors/backend.rs` | rust-analyzer's actor, the watcher | start, `GetSession`, `Shutdown`, child failures |
| rust-analyzer actor | `actors/rust_analyzer.rs` | `Option<session>`, the mailbox | 15 kinds of message, `post_stop` |
| Session | `rust_analyzer.rs` | the child process, the LSP client, forwarding tasks | spawn/initialize, requests, notifications, shutdown handshake, `Drop` |
| LSP client, transport | `lsp_client.rs`, `lsp_client/transport.rs` | jsonrpsee's queues, the pipes | request, notification, framing, acknowledging server requests |
| Notification hub | `lsp_events.rs` | latest event per cached topic, broadcast channel | `publish`, `subscribe` |
| Backend status | `backend_status.rs` | none: computed from the hub's cache | `from_server_status`, metadata |
| Core | `racli_core.rs` | handles to the actor and the hub | one call per RPC, validation, error classes |
| gRPC service | `grpc_server.rs` | none of its own | one handler per RPC, `LspEvents` streams, signals |
| Front ends | `actors/frontend.rs` | serve task, socket path and its identity | bind, serve, `Stop`, removal of the socket |
| File watcher | `actors/file_watcher.rs`, `workspace_file_watcher.rs` | watch, queued events | forward, drain (only built with the `notify` feature) |
| `racli tee` | `tee.rs` | the stdio session, the in-process server | take over the socket, connect, proxy |
| Queries | `server.rs`, `symbol.rs`, `call_hierarchy.rs` | none across calls | merge of search patterns, symbol resolution, call-hierarchy walk |
| Commands | the command modules, `command_output.rs`, `racli_backend.rs` | what is printed and noted so far | arguments, lookup, one call per target, output |
| Command line, gRPC client | `cli.rs`, `client.rs` | one connection | parse, run a command, print |
| MCP tools | `mcp.rs`, `mcp/params.rs` | none across calls | check, run the command, make a result of its output |

**Interactions.** Handlers of the gRPC and MCP front ends run concurrently on a multi-threaded tokio
runtime. Each calls `RacliCore`, which sends the rust-analyzer actor a message with a reply port and
awaits it (`ractor::call!`). The actor serves one message at a time, and for the whole exchange owns
the session, whose JSON-RPC client has its own send and receive tasks. Notifications take a second way
up: a task per method publishes them into the hub, from which `LspEvents` streams and the status of
every response are fed. The file watcher casts into the actor's mailbox. Processes share nothing
but the path of the Unix socket.

**What is hard.** Answers and statuses come to a handler on two ways (`GrpcService`); a snapshot
must join a live channel (`LspEvents`); late answers meet the next request, and a handshake, a crash, a
stop and a kill meet queued calls (`RustAnalyzerActor`); two tasks write to one editor, and what
keeps the one waiting must not keep the other (`TeeProxy`); two tasks write to rust-analyzer's stdin, and
both pipes may be full at once (`LspTransport`); a command works with fuzzy, truncated answers
about files that change between two of them (`Commands`); start and teardown are a tree of calls and
joins that a signal, a failure or a panic may hit at any step (`ActorTree`); processes hand a socket
over with nothing but `unlink`, `bind` and inode numbers (`SocketTakeover`). `PROJECT.json` lists each
hazard with its line and the properties that cover it.

**What makes each part correct.**

- Actor and session: calls reach rust-analyzer in the order they were queued and are not interleaved;
  nothing but `exit` follows `shutdown`; an answer belongs to its own request; every caller hears
  something; no path leaves a child process behind.
- Transport: frames stay whole and in order, no notification is lost before its subscription overflows, and
  no wait of a start or of a request is endless, whatever rust-analyzer does.
- Hub: a subscriber gets every later update of a cached topic once, is never taken back to an older one,
  and knows the current state when it has caught up.
- Status: never older than what had been published when the answer was given.
- Actor tree: teardown in order, nothing accepted is lost in an orderly shutdown, errors are reported,
  `run_until_shutdown` returns, and the process ends.
- Socket: starters leave a reachable server, an old server removes its own socket and no other.
- `racli tee`: notifications follow the `initialize` reply, every request is answered in order, and the
  editor's end ends the process.
- Queries and commands: the merge loses and invents no symbol and reports truncation; the walk asks for
  each item once and stops only at the depth; each name and each position given is run once or reported; a
  tool takes what its command takes and loses nothing it says; a rename reports every edit with its text.

## Modules

| Module | Models | Composes |
| --- | --- | --- |
| `SerialService` | abstract: the service rust-analyzer's actor promises its callers | |
| `RustAnalyzerActor` | `actors/rust_analyzer.rs`, `rust_analyzer.rs`, `lsp_client*`, the child | implements `SerialService` |
| `RustAnalyzerActorProofs` | the actor's safety theorems and its refinement of `SerialService` | extends `RustAnalyzerActor` |
| `MessageLink` | abstract: a link that delivers messages and acknowledgements whole, once and in order | |
| `LspTransport` | `lsp_client/transport.rs`, `lsp_client.rs`, the start of a session in `rust_analyzer.rs` | implements `MessageLink` |
| `LspTransportProofs` | the transport's safety theorems and its refinement of `MessageLink` | extends `LspTransport` |
| `EventFeed` | abstract: a log of events with atomic publish and subscribe | |
| `LspEvents` | `lsp_events.rs`, forwarding tasks, `RacliGrpc::lsp_events` | implements `EventFeed` |
| `LspEventsProofs` | the hub's safety theorems and its refinement of `EventFeed` | extends `LspEvents` |
| `GrpcService` | `grpc_server.rs`, `racli_core.rs`, `backend_status.rs` | instances of `SerialService` and `LspEvents` |
| `GrpcServiceProofs` | the freshness theorem | extends `GrpcService` |
| `ActorTree` | `actors/root.rs`, `backend.rs`, `file_watcher.rs`, `frontend.rs`, `workspace_file_watcher.rs` | rust-analyzer's actor as a serial service |
| `ActorTreeProofs` | the tree's safety theorems | extends `ActorTree` |
| `SocketTakeover` | `tee.rs`, `actors/frontend.rs`, `grpc_server.rs` over one path | |
| `SocketTakeoverProofs` | the takeover's safety theorems | extends `SocketTakeover` |
| `TeeProxy` | the stdio session of `tee.rs` | the server seen from outside |
| `TeeProxyProofs` | the session's safety theorems | extends `TeeProxy` |
| `Filters` | Rust's `filter` and `collect`, as a fold | |
| `CommandArguments` | the checks of clap, of `classify` and of the tools' `targets` | |
| `SymbolTargets` | `symbol.rs` | extends `CommandArguments` |
| `CallHierarchyWalk` | the walk of `call_hierarchy.rs` | |
| `SearchMerge` | split, cut and merge in `server.rs`, `rust_analyzer.rs`, `search --exact` | |
| `RenameEdits` | a rename's edits from `lsp_map.rs` to the report of `rename.rs` | |
| `Commands` | the commands, on the command line and as MCP tools | extends the four before it |
| `CommandsProofs` | the safety theorems of the commands and of their parts | extends `Commands` |
| `MC...` | values of the constants for TLC | |

### RustAnalyzerActor

`mailbox` is ractor's message port, `current`/`step`/`phase` say where `handle` is awaiting, `session`
is the actor's `Option<RustAnalyzerSession>` (`closing` while `shutdown_handshake` owns it). The LSP
messages of one call are numbered: a rename has two (prepareRename, rename), a search one per pattern,
a shutdown two (`shutdown`, `exit`). `sendQueue` and `connected` are jsonrpsee's send task, `wire`
what it has written, `busy` and `answers` rust-analyzer's side. `Kind` groups the messages by what
their handler does: `cached` reads session fields, `request` is any one-exchange call, `forbidden` a
passthrough `shutdown` that `RacliCore` refuses. `TimeOut` is the 60 s limit of a request and the 8 s of
the handshake, `Reap` the 10 s wait and the kill. `Kill` is a kill signal or a panic, which skips
`post_stop` and leaves `Drop` to clean up.

External behaviour is taken from how the code uses it: ractor delivers a stop signal before queued
messages and drops reply ports with the mailbox; jsonrpsee queues without limit, discards answers
nobody waits for and fails pending requests when its tasks end. rust-analyzer answers in any order, may
never answer, and may exit at any time.

### LspTransport

`sender` and `receiver` are jsonrpsee's two tasks, `lock` the mutex around the child's stdin (its holder,
then those that wait, as tokio's mutex is fair), `outgoing` the frame each task writes, in `Chunks` parts.
`toServer` and `toClient` hold everything ever written to a pipe, `consumed` and `taken` how much of it
has been read, so a pipe is full when they differ by its capacity. `stage` follows
`RustAnalyzerSession::spawn`: the `initialize` handshake, the subscriptions, `initialized`, and
`startup_failure`, which gives a failing child a second before it is killed. `queue` is jsonrpsee's
channel to its send task; a subscription is registered on the same channel, which is why the ones made
before `initialized` are there when rust-analyzer answers it. `patient` is fixed at the start: a patient
rust-analyzer reads its stdin whatever else it does, another one may stop.

A subscription is bounded, as in `LspEvents`: `inbox` holds up to `BufferSize` notifications of a method that
its forwarding task has not taken yet. One that finds it full is lost, and jsonrpsee drops the subscription
for good (`dropped`); what waits in it is still forwarded, then the task ends. So `NothingEarlyIsLost` cannot
say that every notification arrives. It says that those of a method arrive once, in order and without a gap,
from the first that rust-analyzer sends, until the subscription overflows, and that it overflows only when
`BufferSize` notifications have had room in it.

`asked` and `heard` are histories, of the asks the receive task has read and of the whole frames the child
has; no step depends on them. `MessageLink` is mapped to them, and promises delivery only while it is not
`excused`: rust-analyzer is patient and alive and nothing closes. `NobodyHangs` says what holds without
that.

### LspEvents

Each forwarding task moves one notification from its bounded subscription into the hub in two steps
under the hub's lock: `Record` (the cache) and `Broadcast` (the channel). `Subscribe` takes snapshot and
receiver under the same lock. `Skip` is the receiver's `Lagged`. A full subscription is dropped by
jsonrpsee (`listening`), after which the task ends when it has emptied it.

### GrpcService

Instances of `SerialService` (the actor) and `LspEvents` (restricted to the one topic
`experimental/serverStatus`) are joined with the handlers. An RPC asks the actor (`request`), fails
validation (`forbidden`) or is answered from memory (`Versions`: `GetVersion`, `LspInitialize`). A
response takes its status in `Respond`, after the answer; an error carries none. The history `published`
remembers which status the hub had when the actor answered. `RespondLspError` lets every error of an
`LspRequest` be passed on as a response; the code does so for those rust-analyzer answered, and fails the
RPC for those of the transport.

### ActorTree

One variable per actor says at which await of `pre_start` or of its handler it is; `root`'s handler does
not return before the tree is down, so a second `Shutdown` or `FrontendExited` finds it gone. RPCs,
event streams and file changes are tracked one by one through the mailbox of rust-analyzer's actor,
which serves or loses them. The model is of a build with the `notify` feature.

`host.kind` is the front end of a behaviour. With `grpc` the start binds the socket and an RPC in flight is
drained; with `mcp` the start waits until the host has greeted (`HostGreets`) or left (`HostLeaves`), the
service ends with the host's stdin, and a request that it leaves behind is `cut`. rmcp's own failure ends the
service as well, but `McpFrontend` only warns of it, so it is not an error of the front end. A serve task may
also panic (`ServerPanics`): it then tells nobody, and whoever joins it gets `FrontendError::Task`. When the
front end's actor panics, its serve task is detached: tonic's drains, an MCP service goes on until
`run_until_shutdown` returns. `TeardownInOrder` therefore speaks of the actor and not of the task.

`main = "returned"` is the return of `run_until_shutdown`, `"exited"` the end of the process. Between the two,
main drops tokio's runtime, which waits for a read of stdin that has begun (`ReadPends`). A greeted MCP host
has one pending until it writes (`HostWrites`) or closes stdin; `racli server` reads no stdin.

A file event has a kind
and a set of paths, and `FileChanges` reports it if `IsRelevant` does; what `LspChanges` drops from it
rust-analyzer does not hear of.

### SocketTakeover

`path` is the process whose socket file the path leads to, `identity` what `file_identity` read after
the bind. Removal, start, bind, reading the identity, closing the listener, comparing and unlinking are
separate steps of each process. A new socket's inode is fresh or any that is free again. The tee's proxy
retries its connect from the moment its server task is spawned.

### TeeProxy

`step` is where the stdin loop of `proxy_stdio`, and `run_tee` after it, awaits; `events` and `writer` are
the two tasks it spawns, `out` the unbounded queue to the writer, `written` what the editor gets. A message
is its kind and its number on stdin; `owed` is the set of the numbers of the requests read so far. The
server binds, serves, drains and stops, or fails, at any time; `Return` is either branch of `run_tee`'s
select. The editor is taken to send `initialize` and `shutdown` with an id and `exit` without one.

### Commands and the modules it extends

`Commands` runs one command, as `front` says on the command line or as a tool, from its arguments to
`outcome`, by steps of the modules it extends; each keeps its variables, and what lies between two backend
calls is one step. `printed`, `noted` and `answered` are what `CommandOutput` holds as far as it matters who
is told what, `result` is the tool's result as a list of blocks. find-implementations has the steps of
find-references and is not a command of its own here. The two backends (`RacliBackend` for `Client` and
for `RacliCore`) answer or fail in the same way; a failing connection is a failing call.

- `CommandArguments`: a command is given names (a Rust path or not), parts of a position, and a filter:
  "kind" stands for `--kind` and for a `--glob` that parses. `ClapRejects` and `ClassifyRejects` are the
  command line's checks, `ToolRejects` the tool's own copy of them.
- `SymbolTargets`: `specs` is the list of names and the position, `at` the one in work, `lookup` the call
  that is awaited. A search may return any list of symbols of its scope, cut or not, so a later answer
  may contradict an earlier one. `seen`, `targets` and `notes` are `targets`'s three results. `Give`
  forgets what nobody reads afterwards.
- `CallHierarchyWalk`: the recursion of `walk` is `stack`, one frame for each call with its remaining
  steps and depth. Answers are any lists of items, so graphs have cycles and diamonds and change under
  the walk. `first` and `shallow` are histories for the properties.
- `SearchMerge`: a query is a sequence of five sorts of characters; `Split` is the loop over them,
  `ReferenceSegments` says the same without a loop. Each entry has a name, a dedup key and a range or
  none. `Wanted` says what `--exact` keeps without `LastSegment`'s search from the right.
- `RenameEdits`: an answer has `changes`, a function, and `documents`, a list; a file is a list of lines of
  characters that are one or two UTF-16 units wide. `Slice` is the loop of `utf16_slice`, `Shows` the
  text between two offsets without it, `Times` counts an edit in the answer without sorting anything.
  `Sorted` says of Rust's stable sort what it promises, each edit's place, and not how it gets there.

## Runs

| Run | Question | Bounds |
| --- | --- | --- |
| `actor` | safety and liveness of the actor, and `SerialService` with fairness | five workloads of three or four calls out of nine; a rename and a search of two patterns whose callers may leave |
| `transport` | framing, early notifications, no endless wait, `MessageLink` with fairness | one request beside the handshake, one acknowledged ask, two notifications of one of two methods, one for the buffer of its subscription; pipes of one chunk and one frame, two chunks a frame |
| `events` | hub safety, convergence, `EventFeed` | two cached documents on one subscription, one uncached topic, two versions each, channel and buffers of two, one subscriber |
| `grpc` | freshness of the status, every RPC answered | one query whose client may leave, one invalid, `GetVersion`, a shutdown, two status notifications |
| `lifecycle` | start, teardown, failures, of both front ends | one request, one stream, three file events |
| `lifecycle_signal` (violation) | does a signal stop racli? | one stream |
| `takeover` | handing over the socket | three processes: a tee, an editor's server, one started by hand |
| `takeover_connect` (violation) | is a tee's first connect its own? | two tees |
| `tee_proxy` | order and completeness of what the editor gets, the end of the process | three messages, two notifications |
| `commands` | arguments, resolution, walk, merge, rename report, and what a command says, on both front ends | five symbols in two scopes, every combination of parts and filters with four name lists and seven more argument lists, two details, depth to 3 over three items, queries to four characters and four longer ones, limit 2, 25 rename answers over two files |
| `walk_depth` (violation) | is everything within the depth listed? | the same |
| `rename_unknown` (violation) | does a tool's caller read why nothing was found? | the same |

**Why the bounds suffice.** The actor's runs hold every kind of handler (no exchange, one, several, the
handshake) and at least one call queued behind each, so that every wait can be hit by a timeout, a late
answer, a crash, a stop and a kill with work behind it; two Shutdowns reach the closed session by both ways.
All nine calls at once are more interleavings than TLC can enumerate, so `MCRustAnalyzerActor` cuts behaviours
to one of five workloads with a state constraint. The constraint only cuts steps of `Call`, for which no
fairness is assumed, so what is left are the behaviours in which the other callers never call, and the
liveness properties keep their meaning. Pipes of one chunk are full after half a frame, which is the least
that lets a frame be interrupted, and one ask is enough for the receive task to wait for a mutex whose holder
waits for a full pipe. A buffer of one notification overflows with the second, unless that one is forwarded in
between. The hub needs two topics on one subscription to overflow it with the wrong one, two versions to tell
an old one from a new one, and more events (six) than the channel keeps (two) to lag. Two statuses are the
least that can change between an answer and its response. In the tree each item is independent of the others
of its sort except through rust-analyzer's mailbox, where a request and a change take all relative orders with
the shutdown. The three events are an edit along with a build product, one that changes metadata only, and one
below `target`. A socket needs three processes for a starter to disturb two others that are handing over, and
for an inode to be used, freed and used again.

Three messages hold an
`initialize`, one after it and a second `initialize`. The five symbols are one each of what the lookup
tells apart: an alias at a place that is listed twice, a dependency's symbol of the same name, one that is
not in a local file, one without a range, and one the filter leaves out. Three items and depth 3 give a
diamond whose longer side is walked first, and a cycle; four characters hold two escapes or an
escape between two pipes. Call hierarchies take four of the argument lists (`WalkGiven`): which names and
filters were given is settled before the walk. The rename answers put every pair of offsets over a line
with a surrogate pair, edits over two lines and beyond the end of a line or of the file, a file that cannot
be read, both shapes with the same edit in each, and a file operation.

Deadlock is checked where the model ends in a step that stays (`Commands`). It is off in the others:
each system stops for good (the actor stops, racli exits, every call is made once, the editor falls
silent); that it stops only where it may is what the liveness properties say.

**Fairness.** Weak fairness of the handlers, forwarding tasks and actor steps: tokio polls every task that is
ready, and timers fire. There is none for what depends on others: callers, clients leaving, signals, failures,
rust-analyzer answering, reading or exiting. `ServiceSpec` and `StopCompletes` of the actor therefore hold
with a rust-analyzer that never does anything, on the timeouts alone. In `LspTransport` a `patient`
rust-analyzer reads, of the others nothing is assumed, and they do not write either. `ActorTree`'s
`StopCompletes` assumes of others that clients leave their streams in the end and that an MCP host greets or
leaves; then a signal leads to the return of `run_until_shutdown`. The end of the process follows unless an
MCP host leaves a read of stdin pending for ever, and the end of a serve task leads there unless it panicked.
`SignalStops` is the first of these without exceptions, and fails. In `TeeProxy` a call
returns (`EveryRpcAnswered`, and the client's own 60 s), the editor reads its stdin, and a server without open
streams drains; it need not send anything.

## What the runs found

Four statements of the documentation do not hold of the code; each has a run that shows it.

- `README.md:108`, `docs/racli-usage.md:239`: call-hierarchy shows callers and callees "to the depth you
  choose". A function that the walk meets at the depth limit first is not expanded when it is met again
  nearer to the root, so the tree lacks levels that are within the depth (`walk_depth`).
  `OnlyDepthLimits` says that nothing else keeps an item from being expanded.
- ADR 006, decision 5: the message for a name that finds nothing goes into the tool's result, so that the
  caller "reads why". The rename tool ends with an internal error "no symbol to rename" instead, and the
  message with the closest symbols, which the command line prints, is dropped (`rename_unknown`).
  `ToolIsItsCommand` says that every other command that comes to its end returns its notes.
- `docs/racli-tee-limitations.md:46` and `tee.rs:83`: tee stops on SIGINT/SIGTERM. The server
  first drains every open response, and an `LspEvents` stream, tee's own included, never ends. With
  `racli mcp` (`docs/high-level-architecture.md:138`) a signal during the start waits for the host: until
  the handshake on stdin is done, nobody acts on it.
- `tee.rs:103`: removing the socket first "guarantees" that the first connect attempt reaches no other
  process. A process that is already starting may bind the path in between.

Noticed while modelling, without a run of their own:

- `cli.rs:104`: after a signal `racli mcp` returns from `run_until_shutdown`, but its runtime waits for the
  pending read of stdin until the host writes or closes it. `tee.rs:151` names this and exits directly.
- `actors/frontend.rs:58`: the root is told "if the server stops on its own". A serve task that panics does
  not get to tell it (line 117, and 207 for MCP), so racli stays up and serves nothing until a signal.
- `mcp.rs:137`: any tool whose command fails after it has noted something loses its notes, which the command
  line prints. `ToolIsItsCommand` is about commands that end well; ADR 006 is contradicted by the rename only.
- `actors/rust_analyzer.rs:103` says that `LspNotify` is answered once it has been written to
  rust-analyzer; it is answered when jsonrpsee has queued it, and may be lost with the session.
- `symbol.rs:555` drops a symbol at the place of an earlier one before it compares names: an exact match
  that shares its place with a symbol of another name is not found (`dup` in `MCCommands`).
- ADR 004: "the status belongs to that answer". By the same ADR it is read after the response has been
  produced, so a partial answer may be labelled `ready` if rust-analyzer becomes quiescent in between.
- `rename.rs:74`: an ambiguity ends the command before the notes of the lookup are printed, so that a
  cut-off search is not mentioned. Its message (`rename.rs:141`), like that of a name that its filters leave
  without a symbol (`symbol.rs:148`), names command line options; ADR 006, decision 5, wants a tool to name
  the parameters.
- `rename.rs:192`: the comment says `None` if an offset is not on a character. An offset inside a surrogate
  pair gives a text; `RenameReport` speaks of offsets on characters only.
- `rename.rs:173`: the replaced text is read from the disk, where an editor's unsaved buffer, which
  rust-analyzer knows through `racli tee`, is not.
- `find_definition.rs:94`: the hover and the outline of a definition are not under the command's 60 s; on
  the command line each request has 60 s of its own, in the tools rust-analyzer's request does.
- `workspace_file_watcher.rs:77`: the noise test takes in the components above the workspace, so nothing is
  watched in a workspace below a directory named `target` or `node_modules`.
- If rust-analyzer stops reading for good, the transport stays stuck: every later call takes its 60 s. If
  writing an acknowledgement fails, the receive task ends, and the client with it.
- Each notification method has a forwarding task of its own, so the order between methods is not kept.
- `server.rs:248`: an empty answer counts as a list of the flat shape, so a nested answer after it fails
  the search ("mixed"), while `null` is compatible with both.

## Proofs

TLAPS checks the theorems below for every value of the constants that satisfies the modules' assumptions,
and for runs of any length. Every safety invariant and every action property that a passing run checks
is among them, and of each of the three abstract specifications the part without fairness. Each proof has
the same form: an inductive invariant `IndInv` (in `CommandsProofs` one for each part: `LookupInv`, `WalkInv`, ...),
`Init => IndInv`, `IndInv /\ [Next]_vars => IndInv'` with one step per action, and the property from it.
TLC has confirmed every `IndInv` on the instance of its component's run.

| Module | Theorem | States |
| --- | --- | --- |
| `RustAnalyzerActorProofs` | `TypeCorrect` | `Spec => []TypeOK` |
| | `ShutdownEndsTraffic` | `Spec => []ShutdownIsLast` |
| | `MessagesAreContiguous` | `Spec => []CallsAreContiguous` |
| | `MessagesFollowArrival` | `Spec => []ArrivalOrder` |
| | `AnswersAreOwn` | `Spec => []AnsweredMeansAsked` |
| | `ChildNeverOrphaned` | `Spec => []NoOrphanChild` |
| | `ActorIsSerialService` | `Spec => ServiceSafety`, the safety part of `SerialService` |
| `LspTransportProofs` | `TypeCorrect` | `Spec => []TypeOK` |
| | `FramesStayWhole` | `Spec => []FramesAreWhole` |
| | `EarlyNoticesArrive` | `Spec => []NothingEarlyIsLost` |
| | `TransportIsLink` | `Spec => LinkSafety`, the safety part of `MessageLink` |
| `LspEventsProofs` | `TypeCorrect` | `Spec => []TypeOK` |
| | `SubscribersMissNothing` | `Spec => []NothingMissedOrRepeated` |
| | `HubImplementsFeed` | `Spec => FeedSafety`, the refinement of `EventFeed` |
| `GrpcServiceProofs` | `TypeCorrect` | `Spec => []TypeOK` |
| | `ResponsesAreFresh` | `Spec => []StatusIsFresh` |
| `ActorTreeProofs` | `TypeCorrect` | `Spec => []TypeOK` |
| | `TeardownIsOrdered` | `Spec => []TeardownInOrder` |
| | `AcceptedIsFinished` | `Spec => []AcceptedWorkFinishes` |
| | `ExitsClean` | `Spec => []ExitIsClean` |
| `SocketTakeoverProofs` | `TypeCorrect` | `Spec => []TypeOK` |
| | `StartersLeaveServing` | `Spec => []StartersLeaveAServer` |
| | `NothingStaleLeft` | `Spec => []NoStaleSocket` |
| | `SuccessorsAreKept` | `Spec => SuccessorKept`, an action property |
| `TeeProxyProofs` | `TypeCorrect` | `Spec => []TypeOK` |
| | `NothingBeforeInitialize` | `Spec => []EventsFollowInitialize` |
| | `RepliesAreComplete` | `Spec => []EveryReplyWritten` |
| `CommandsProofs` | `TypeCorrect` | `Spec => []TypeOK` |
| | `LookupAccountsForAll` | `Spec => []TargetsAccounted` |
| | `ToolDoesWhatItsCommandDoes` | `Spec => []ToolIsItsCommand` |
| | `WalkIsComplete` | `Spec => []OnlyDepthLimits` |
| | `SearchMergesRight` | `Spec => []SearchIsReference` |
| | `RenameIsReportedWhole` | `Spec => []RenameReport` |

**What is assumed.** Most assumptions on the constants only say what kind of value each one is (a function of
kinds, a positive size, a list, a model value that is not one of the things it stands beside). These say
more:

- `PatternsAssumption`: a search has at least two patterns (with one it is a `request`).
- `GrpcAssumption`: the RPCs that are answered from memory are not calls to the actor.
- `MergeAssumption`: entries with the same dedup key have the same name (the name is a part of the key), and
  the limit is positive.
- `GivenAssumption`: arguments have the shape that clap and the tools' schema give them.
- `RenameAssumption`: rust-analyzer's answer has the shape of a `WorkspaceEdit` and names documents that
  have a place among the URIs, and no character is zero UTF-16 units wide.

The sets of calls, topics, subscribers, messages, processes, changes, symbols, items and answers need not
even be finite.

**The actor.** `HandlerInv` ties `phase`, `current`, `step` and `session` together: an idle handler has no
current call, one that reaps is in a handshake, a closed session has no client and no queue. The other parts
are about `Sent`, what is written followed by what is queued, which writing a message does not change
(`MoveHead`); each step leaves `Sent` alone, appends the handler's current message or cuts the queue off
(`SentEvolves`). `SentInv` makes `ShutdownIsLast` inductive: while the session is open no shutdown has been
sent, and in a handshake the last thing sent is its own. `LastInv` does so for `CallsAreContiguous`: what
was sent last is the message before the handler's next. `ArrivalOrder` needs `MailboxInv` (the mailbox holds
the latest arrivals, and the handler works for the one before them) and `SendersInv` (whoever had a message
sent arrived no later than that). `AskedInv` says that rust-analyzer works on and answers written messages
only, from which a call at its second message has had its first one written, and `AnsweredMeansAsked`
follows.

The refinement maps the abstract queue to the call being handled followed by the mailbox. `Finish`, `Close`
and the two `Take`s that answer at once are `Serve`, `Call` is `Accept`, `Kill` and the end of `post_stop`
are `Stop`; sending, timing out of a handshake, the JSON-RPC client and the child are stutters.

**The transport.** `FramesAreWhole` is inductive with two more facts. `LockInv`: each task is in the mutex
at most once, and exactly while it has a frame. `BoundaryInv`: what is on the pipe ends with a whole frame,
or with the part that the holder of the mutex wrote last. It holds only while somebody may still write: a
frame is cut short because the child is gone, or because the receive task is told to close while it writes,
and then the send task has ended before it. `NothingEarlyIsLost` rests on `EarlyInv`: while a subscription
is missing, `initialized` is not in the client's queue, in no task's hands and not on the pipe, so
rust-analyzer has not notified. As each notification is sent once (`SaidOnce`), one that arrives after the
overflow is not one of those that had room, so it is lost without changing what the hub has of its method;
and a subscription that is dropped had `BufferSize` of them in it.

`TransportIsLink` says where in the two logs a frame on the pipe is from. `OnPipeInv`: a whole message on the
pipe is the accepted message with its number among the messages there, a whole acknowledgement that of the
ask with its number. `HeardInv`: what has been heard are as many of each as are whole in what has been read.
`AckInv` and `SendInv` say what each task holds and what waits in the queue by the same numbers, as long as
something may still be written. To hear a frame is to read the last chunk of it, and by `FramesAreWhole` it
is a frame of one writer, so the step is an `Arrive` of the abstract link. All others leave `heard` alone.

**The hub.** `LogInv`, `LockedInv` and `BufferInv` say that the versions of a topic go up by one from the
log of published events over the one in the lock to those that wait in the subscription; `SentInv` that
nothing sent is lost while the subscription lasts; `CacheInv` that the cache has the newest logged event of
a topic, or that of the lock. `ReaderInv` is about one subscriber and its position in the log: what it was
given and what is left of its snapshot make up everything before the position (`Complete`), without a gap
(`NoGap`) and in order. `Record` changes the cache before `Broadcast` changes the log; that a subscriber
never sees the state in between is what `HubImplementsFeed` adds: its refinement mapping hides the lock,
every step under it but the last is a stutter, and `Subscribe` finds the lock free.

**The gRPC service.** `StatusIsFresh` compares a status with one that another component had earlier.
`FeedInv` gives that the cached version only grows (what waits in the subscription is newer than the cache).
`QueueInv` and `OutcomeInv` give that a call is answered once and that a client has heard of it only
afterwards, so `published` is written once, before `Respond` reads the cache. `PublishedInv` puts the two
together.

**The actor tree.** The actors' places are separate variables, so most of `IndInv` (`ControlInv`) says which
places go together: the root's place fixes the front end's, the supervisor only stops when it was asked to or
when something has failed, and its children are there while it runs unless one has panicked. `MailInv` orders
rust-analyzer's mailbox: its shutdown comes after every file change and, unless something has panicked, after
every request (`ComesFirst`). `RequestInv` says that a request in flight waits in that mailbox, so that
whatever empties it answers the request, and that only a panic loses one: rust-analyzer is not asked to shut
down while the front end still serves (`NotServing`), and tonic's has drained by then. `ChangeInv` says what
became of each change, and blames a lost one on a panic.

**The takeover.** A process binds at most once, so its inode stays its own, and nobody else gets it while
the process listens. `PathBound` and `PathFree` say who may be at the path, and that while nobody is, some
process is not through yet or has stopped; `OwnIdentity` that whoever is at the path knows its socket for
its own, so that it removes it; `SuccessorsDiffer` and `UnlinksNoSuccessor` that it takes no successor's for
its own.

**`racli tee`.** The argument is about `Stdout`, what is written followed by what is queued: the loop and
the events task add to its end, the writer moves items inside it and drops its tail when stdout breaks.
`Ordered` and `Followed` state the two properties over `Stdout`; `CallInv` says that the call that runs is
that of the last message, `StreamInv` that events are opened after the reply to `initialize` was queued,
`CompleteInv` and `WriterInv` that a writer which has ended in order has nothing left.

**The commands.** The steps are few and what they compute is much, so these proofs are about lists. Folds are
unfolded once, to the trace of the values the accumulator takes (`FoldExists`), and what holds along a trace
is shown with the least number at which it fails (`LeastNatural`), as the library's induction theorems cannot
be instantiated.

- `TypeCorrect` needs all the invariants below (`TypeInv`), since what one part hands to the next is typed
  by what the part before knows of it.
- The lookup. `LookupInv` says that each name or position before `at` is `Resolved`: it has a note of its
  own, or a definition whose place is in `seen`. That is enough only because whatever is in `seen` is a
  target or reported (`SeenIsRun`), and, when a name is among the arguments (`Grouped`: a position then
  goes through its definition too), each target is at a place of its own (`RunOnce`). `Cuts` remembers
  which searches were cut until the note is written, and `NotesOf` that the notes say so.
- A tool and its command. `ToolChecksSuffice`: the tool's checks reject exactly what clap's and classify's
  reject together. `ArgumentsPassed` carries that to the end, and `CommandInv` adds that a command which
  has no targets left has a result or has `Said` why.
- The walk. `WalkingInv`: every item met is followed or was met first at the limit (`MetIsFollowed`), and
  what is awaited is an item met and not yet asked for, with a level left (`AskingInv`, `FramesInv`).
- The search. `SplitIsReference` rests on a list of cutting points being determined by its elements and
  its order: two increasing lists with the same elements are equal. `SearchInv` says that the merge is
  right after every answer, and not only at the end: the keys listed so far (`Merged`), in the order in
  which they were listed first (`InTheirOrder`), by the steps of one answer's entries.
- The rename. `Sorted` puts an edit at the number of edits that precede it; that this is a bijection onto
  the positions is why it loses none (`OccurrencesAreCounted`). `EditsOf`, `Times` and `ReportOf` run over
  the same documents, so that their counts add up alike over each concatenation. For the slice, offsets of
  characters grow strictly, as none is zero wide; so there is one character at an offset, where the loop
  of `utf16_slice` starts or stops. A report is then right whatever the answer was, and `RenameInv` only
  says that the one written is that of the answer received.

**Model-checked only.** No safety invariant and no action property of a passing run. What is left to TLC
is liveness under fairness, which the provers do not do: `CacheConverges`, `NobodyHangs`,
`EveryRpcAnswered`, both `StopCompletes`, `TeeConnects`, `EditorEndStops`, and `ServiceSpec` and
`LinkSpec` beyond their safety parts. The runs that expect a violation state what does not hold, so there
is nothing to prove.

## Not modelled

- Capabilities, LSP parameters and URIs: data that no state of racli depends on. Positions are, where
  their arithmetic matters (`CommandArguments`, `RenameEdits`).
- `get_version` and the JSON of `mcp/mcp_proto_json.rs`, rmcp and tonic beyond how they begin and end,
  connecting to the socket, text and JSON formats, suggestions and glob matching, the conversions of
  `lsp_map.rs` other than a rename's, logging, path derivation, generated code.
- An editor that breaks the protocol (`exit` with an id, `initialize` without one).
- Builds without the `notify` feature, where rust-analyzer watches the files itself.
- A connection failing in the middle of an RPC: to the server it is a client that leaves.

## Plan

1. Done: the actor with its abstract service and proofs; the hub; the gRPC service over both; the
   actor tree; the socket.
2. Done: `tee`'s stdio session; symbol resolution, the call-hierarchy walk, the search merge and the
   commands over them.
3. Done: the transport over bounded pipes with the start of a session; `McpFrontend` and the watcher's
   filters in `ActorTree`; the MCP tools, the argument checks and the rename report in `Commands`.
4. Done: the proofs of the safety properties of the actor, the transport, the hub, the gRPC service, the
   actor tree, the takeover and `tee`, and the refinements of `SerialService`, `EventFeed` and `MessageLink`.
5. Done: the proofs of the commands and of their parts: the arguments, the lookup, the walk, the merge of a
   search and the report of a rename.
6. Left: the conversions of `lsp_map.rs` other than a rename's; the replaced text of a rename when an
   editor's unsaved buffer differs from the disk (`rename.rs:173`), and the status that outlives the session
   (`racli_core.rs:196`), which are hazards without a property so far.
