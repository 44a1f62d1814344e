----------------------------- MODULE GrpcService -----------------------------
(***************************************************************************)
(* The gRPC service (src/grpc_server.rs) over RacliCore                    *)
(* (src/racli_core.rs): many RPCs in flight at once, the serial service of *)
(* the actor below them, and the backend status that every response        *)
(* carries (src/backend_status.rs, ADR 004).                               *)
(*                                                                         *)
(* It composes SerialService, which RustAnalyzerActor implements, with     *)
(* LspEvents, whose cache holds the latest status.  The answer of an RPC   *)
(* and its status come to the handler on these two separate ways.          *)
(***************************************************************************)
EXTENDS Naturals, Sequences

CONSTANTS
  Calls,       \* RPCs that ask rust-analyzer, and the backend's own shutdown
  Kind,        \* "request", "forbidden" (fails validation) or "shutdown"
  Leavers,     \* RPCs whose client may give up (REQUEST_TIMEOUT)
  Versions,    \* GetVersion and LspInitialize RPCs, answered without rust-analyzer
  MaxVersion,  \* bound of the model: status notifications
  Status,      \* the topic and method experimental/serverStatus
  NoEvent

ASSUME GrpcAssumption == Calls \cap Versions = {} /\ Kind \in [Calls -> {"request", "forbidden", "shutdown"}]
ASSUME FeedAssumption ==
  MaxVersion \in Nat /\ NoEvent \notin [topic : {Status}, version : 1..MaxVersion]

VARIABLES
  outcome, queue, open, alive,                                   \* SerialService
  sent, buffer, listening, running, locked, latest, log, reader, \* LspEvents
  up,          \* rust-analyzer runs
  statuses,    \* history: the params of every serverStatus notification
  reply,       \* what each RPC's client has received
  published    \* history: versions of the cached status when the actor answered an RPC

Backend == INSTANCE SerialService
Hub == INSTANCE LspEvents WITH
  Topics <- {Status}, Cached <- {Status}, Methods <- {Status},
  MethodOf <- [t \in {Status} |-> Status],
  Subscribers <- {}, Capacity <- 1, BufferSize <- 1

backendVars == <<outcome, queue, open, alive>>
hubVars == <<sent, buffer, listening, running, locked, latest, log, reader>>
vars == <<backendVars, hubVars, up, statuses, reply, published>>

Rpcs == Versions \cup {c \in Calls : Kind[c] # "shutdown"}

\* serverStatus params, as far as the status depends on them.
ServerStatus == [health : {"ok", "error"}, quiescent : BOOLEAN]

\* Mutant of FromServerStatus: Unknown, which adds nothing, before the first notification.
UnknownBeforeFirst(v) ==
  IF v = 0 THEN "none"
  ELSE IF statuses[v].health = "error" THEN "error"
  ELSE IF statuses[v].quiescent THEN "ready"
  ELSE "indexing"

\* BackendStatus::from_server_status; version 0 stands for no notification yet.
FromServerStatus(v) ==
  IF v = 0 THEN "indexing"
  ELSE IF statuses[v].health = "error" THEN "error"
  ELSE IF statuses[v].quiescent THEN "ready"
  ELSE "indexing"

NoReply == [code |-> "none", status |-> "none", version |-> 0]

Init ==
  /\ Backend!Init
  /\ Hub!Init
  /\ up = TRUE
  /\ statuses = <<>>
  /\ reply = [r \in Rpcs |-> NoReply]
  /\ published = [r \in Rpcs |-> 0]

------------------------------------------------------------------------------
\* rust-analyzer and the feed of its status.

\* It reports a status that differs from the last one.
Announce(p) ==
  /\ up
  /\ statuses # <<>> => statuses[Len(statuses)] # p
  /\ Hub!Notify(Status)
  /\ statuses' = Append(statuses, p)
  /\ UNCHANGED <<backendVars, up, reply, published>>

Publish ==
  /\ Hub!Record(Status) \/ Hub!Broadcast
  /\ UNCHANGED <<backendVars, up, statuses, reply, published>>

\* It exits on its own; the actor and the gRPC server go on.
Crash ==
  /\ up
  /\ up' = FALSE
  /\ UNCHANGED <<backendVars, hubVars, statuses, reply, published>>

\* The actor's turn: a live rust-analyzer may answer, a dead one cannot.
Serve ==
  /\ Backend!Serve
  /\ ~up /\ open => \A c \in Calls :
       Kind[c] = "request" /\ outcome'[c] # outcome[c] => outcome'[c] = "error"
  /\ published' = [r \in Rpcs |->
       IF queue # <<>> /\ r = Head(queue) THEN latest[Status] ELSE published[r]]
  /\ up' = (up /\ open')
  /\ UNCHANGED <<hubVars, statuses, reply>>

\* The actor ends, and its session with it.
BackendStops ==
  /\ Backend!Stop
  /\ up' = FALSE
  /\ UNCHANGED <<hubVars, statuses, reply, published>>

\* shutdown_handshake and Drop abort the task that feeds the status.
Abort ==
  /\ Hub!Abort(Status)
  /\ ~alive \/ ~open \/ \E i \in DOMAIN queue : Kind[queue[i]] = "shutdown"
  /\ UNCHANGED <<backendVars, up, statuses, reply, published>>

------------------------------------------------------------------------------
\* The RPC handlers.

\* The handler validates its request and calls the actor, or fails at once.
Begin(c) ==
  /\ Backend!Accept(c) \/ Backend!Refuse(c)
  /\ UNCHANGED <<hubVars, up, statuses, reply, published>>

\* A response says what the cache says when it is made; a status error says nothing.
Ok == [code |-> "ok", status |-> FromServerStatus(latest[Status]), version |-> latest[Status]]
Invalid == [NoReply EXCEPT !.code = "invalid_argument"]
Internal == [NoReply EXCEPT !.code = "internal"]

\* Mutant of Respond: the status is read before the answer is awaited.
RespondWithEarlierStatus(r) ==
  /\ reply[r] = NoReply
  /\ outcome[r] = "ok"
  /\ \E v \in 0..latest[Status] :
       reply' = [reply EXCEPT ![r] = [code |-> "ok", status |-> FromServerStatus(v), version |-> v]]
  /\ UNCHANGED <<backendVars, hubVars, up, statuses, published>>

\* Mutant of Respond: answers are held back until rust-analyzer is ready.
RespondWhenReady(r) ==
  /\ reply[r] = NoReply
  /\ outcome[r] = "ok"
  /\ locked = NoEvent
  /\ FromServerStatus(latest[Status]) = "ready"
  /\ reply' = [reply EXCEPT ![r] = Ok]
  /\ UNCHANGED <<backendVars, hubVars, up, statuses, published>>

\* The answer is converted (it may not have the expected shape), then the status
\* is read under the hub's lock.
Respond(r) ==
  /\ reply[r] = NoReply
  /\ outcome[r] = "ok"
  /\ \/ locked = NoEvent /\ reply' = [reply EXCEPT ![r] = Ok]
     \/ reply' = [reply EXCEPT ![r] = Internal]
  /\ UNCHANGED <<backendVars, hubVars, up, statuses, published>>

\* racli_rpc_error_to_status
RespondError(r) ==
  /\ reply[r] = NoReply
  /\ outcome[r] \in {"refused", "error", "closed", "internal"}
  /\ reply' = [reply EXCEPT ![r] = IF outcome[r] = "refused" THEN Invalid ELSE Internal]
  /\ UNCHANGED <<backendVars, hubVars, up, statuses, published>>

\* LspRequest passes an error that rust-analyzer answered on as a response.
RespondLspError(r) ==
  /\ reply[r] = NoReply
  /\ outcome[r] = "error"
  /\ locked = NoEvent
  /\ reply' = [reply EXCEPT ![r] = Ok]
  /\ UNCHANGED <<backendVars, hubVars, up, statuses, published>>

\* GetVersion and LspInitialize never wait for the actor.
GetVersion(r) ==
  /\ reply[r] = NoReply
  /\ locked = NoEvent
  /\ reply' = [reply EXCEPT ![r] = Ok]
  /\ UNCHANGED <<backendVars, hubVars, up, statuses, published>>

\* The client gives up; its handler is dropped, the call stays queued.
ClientLeaves(c) ==
  /\ Backend!Abandon(c)
  /\ UNCHANGED <<hubVars, up, statuses, reply, published>>

------------------------------------------------------------------------------
Next ==
  \/ \E p \in ServerStatus : Announce(p)
  \/ Publish
  \/ Crash
  \/ Serve
  \/ BackendStops
  \/ Abort
  \/ \E c \in Calls : Begin(c) \/ ClientLeaves(c)
  \/ \E r \in Rpcs \cap Calls : Respond(r) \/ RespondError(r) \/ RespondLspError(r)
  \/ \E r \in Versions : GetVersion(r)

\* tokio polls the actor, the forwarding task and the handlers of accepted RPCs.
Spec ==
  /\ Init /\ [][Next]_vars
  /\ WF_vars(Serve) /\ WF_vars(Publish)
  /\ \A r \in Rpcs \cap Calls : WF_vars(Respond(r)) /\ WF_vars(RespondError(r))

------------------------------------------------------------------------------
Replies == [code : {"none", "ok", "invalid_argument", "internal"},
            status : {"none", "indexing", "ready", "error"}, version : 0..MaxVersion]

\* Every variable has its type, and every response carries a status.
TypeOK ==
  /\ Hub!TypeOK
  /\ up \in BOOLEAN
  /\ statuses \in Seq(ServerStatus) /\ Len(statuses) = sent[Status]
  /\ reply \in [Rpcs -> Replies]
  /\ \A r \in Rpcs : (reply[r].code = "ok") <=> (reply[r].status # "none")
  /\ published \in [Rpcs -> 0..MaxVersion]

\* A response is never tagged with a status older than the one that had been
\* published when rust-analyzer answered (the status is added after producing the
\* response, RacliGrpc::respond).
StatusIsFresh ==
  \A r \in Rpcs : reply[r].code = "ok" => reply[r].version >= published[r]

\* Every RPC gets a response or an error, whether or not rust-analyzer is ready or
\* alive and however the session ends ("A backend that isn't ready still answers").
EveryRpcAnswered ==
  \A r \in Rpcs \cap Calls :
    (outcome[r] # "unsent") ~> (reply[r] # NoReply \/ outcome[r] = "abandoned")
==============================================================================
