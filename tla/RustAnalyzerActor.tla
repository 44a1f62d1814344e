-------------------------- MODULE RustAnalyzerActor --------------------------
(***************************************************************************)
(* The actor that owns the rust-analyzer session                           *)
(* (src/actors/rust_analyzer.rs), the session it drives                    *)
(* (src/rust_analyzer.rs), the JSON-RPC client below it                    *)
(* (src/lsp_client.rs, over the external jsonrpsee) and the rust-analyzer  *)
(* child process (external).                                               *)
(*                                                                         *)
(* Many callers send messages to one FIFO mailbox; the handler serves one  *)
(* message at a time and may exchange several LSP messages for it.  Every  *)
(* wait has a timeout, an answer may arrive after its timeout, the child   *)
(* may die at any moment, callers may give up, and the actor may be        *)
(* stopped or killed between any two steps.                                *)
(***************************************************************************)
EXTENDS Naturals, Sequences

CONSTANTS
  Calls,      \* every message ever sent to the actor, each sent at most once
  Kind,       \* Kind[c] \in Kinds
  Leavers,    \* calls whose caller may give up before the answer
  Patterns,   \* number of |-separated patterns of a multi-pattern search
  PostStop,   \* owner of the LSP messages that post_stop sends
  None

\* "forbidden" is a passthrough request for `shutdown`, which RacliCore refuses.
Kinds == {"cached", "request", "rename", "search", "notify", "watched", "shutdown", "forbidden"}

ASSUME CallsAssumption == PostStop \notin Calls /\ None \notin Calls /\ None # PostStop
ASSUME KindAssumption == Kind \in [Calls -> Kinds]
ASSUME LeaversAssumption == Leavers \subseteq Calls
ASSUME PatternsAssumption == Patterns \in Nat \ {0, 1}

Owners == Calls \cup {PostStop}

VARIABLES
  mailbox,     \* calls queued in the actor's message port, oldest first
  current,     \* what the handler works on: a call, PostStop or None
  step,        \* which LSP message of current the handler is at
  phase,       \* "idle", "send", "await", "reap" (child.wait) or "stopped"
  session,     \* state.session: "open", "closing" (taken by a handshake), "none"
  stopping,    \* a stop signal has been sent to the actor
  sendQueue,   \* LSP messages queued in the JSON-RPC client's send task
  connected,   \* the JSON-RPC client's background tasks still run
  child,       \* the rust-analyzer process: "up" or "exited"
  wire,        \* history: every message written to rust-analyzer, in order
  busy,        \* requests rust-analyzer has read and not answered
  answers,     \* responses on their way back
  outcome,     \* what each caller has been told
  arrivals     \* history: the calls in the order they entered the mailbox

handlerVars == <<current, step, phase>>
clientVars == <<sendQueue, connected>>
childVars == <<child, wire, busy, answers>>
vars == <<mailbox, handlerVars, session, stopping, clientVars, childVars,
          outcome, arrivals>>

------------------------------------------------------------------------------
\* The LSP messages a call makes the handler exchange, one after the other.

KindOf(o) == IF o = PostStop THEN "shutdown" ELSE Kind[o]

\* A rename is prepareRename and rename, a shutdown is `shutdown` and `exit`.
Steps(o) ==
  CASE KindOf(o) = "cached" -> 0
    [] KindOf(o) \in {"rename", "shutdown"} -> 2
    [] KindOf(o) = "search" -> Patterns
    [] OTHER -> 1

Message(o, i) == [owner |-> o, step |-> i]
Messages == [owner : Owners, step : Nat \ {0}]

IsShutdown(m) ==
  \/ KindOf(m.owner) = "shutdown" /\ m.step = 1
  \/ KindOf(m.owner) = "forbidden"
IsExit(m) == KindOf(m.owner) = "shutdown" /\ m.step = 2
IsRequest(m) == KindOf(m.owner) \in {"request", "rename", "search"} \/ IsShutdown(m)

\* What rust-analyzer may answer: only prepareRename's null matters to the handler.
AnswerValues(m) ==
  IF KindOf(m.owner) = "rename" /\ m.step = 1 THEN {"value", "null", "error"}
  ELSE {"value", "error"}
Answers == [to : Messages, value : {"value", "null", "error"}]

Init ==
  /\ mailbox = <<>>
  /\ current = None
  /\ step = 0
  /\ phase = "idle"
  /\ session = "open"
  /\ stopping = FALSE
  /\ sendQueue = <<>>
  /\ connected = TRUE
  /\ child = "up"
  /\ wire = <<>>
  /\ busy = {}
  /\ answers = {}
  /\ outcome = [c \in Calls |-> "unsent"]
  /\ arrivals = <<>>

------------------------------------------------------------------------------
\* The callers.

\* Mutant of Blocked: passthrough forwards every method.
BlocksNothing(c) == FALSE

\* RacliCore::lsp_request refuses what would stop the shared rust-analyzer
\* (BLOCKED_LSP_REQUESTS), before anything reaches the actor.
Blocked(c) == Kind[c] = "forbidden"

Refuse(c) ==
  /\ outcome[c] = "unsent"
  /\ Blocked(c)
  /\ outcome' = [outcome EXCEPT ![c] = "refused"]
  /\ UNCHANGED <<mailbox, handlerVars, session, stopping, clientVars, childVars,
                 arrivals>>

\* Mutant of Call: the watcher writes its changes past the mailbox.
CallPastMailbox(c) ==
  /\ outcome[c] = "unsent"
  /\ ~Blocked(c)
  /\ phase # "stopped"
  /\ outcome' = [outcome EXCEPT ![c] = IF Kind[c] = "watched" THEN "cast" ELSE "pending"]
  /\ IF Kind[c] = "watched"
       THEN sendQueue' = Append(sendQueue, Message(c, 1)) /\ UNCHANGED mailbox
       ELSE mailbox' = Append(mailbox, c) /\ UNCHANGED sendQueue
  /\ arrivals' = Append(arrivals, c)
  /\ UNCHANGED <<handlerVars, session, stopping, connected, childVars>>

\* Mutant of Call: requests overtake the watcher's changes in the mailbox.
CallOvertaking(c) ==
  /\ outcome[c] = "unsent"
  /\ ~Blocked(c)
  /\ phase # "stopped"
  /\ outcome' = [outcome EXCEPT ![c] = IF Kind[c] = "watched" THEN "cast" ELSE "pending"]
  /\ mailbox' = IF Kind[c] = "request" THEN <<c>> \o mailbox ELSE Append(mailbox, c)
  /\ arrivals' = Append(arrivals, c)
  /\ UNCHANGED <<handlerVars, session, stopping, clientVars, childVars>>

\* ractor::call! queues a message and its reply port (cast, for the watcher's
\* changes); a stopped actor's port refuses it, which the caller maps to Internal.
Call(c) ==
  /\ outcome[c] = "unsent"
  /\ ~Blocked(c)
  /\ IF phase = "stopped"
       THEN /\ outcome' = [outcome EXCEPT ![c] = "internal"]
            /\ UNCHANGED <<mailbox, arrivals>>
       ELSE /\ outcome' = [outcome EXCEPT ![c] =
                             IF Kind[c] = "watched" THEN "cast" ELSE "pending"]
            /\ mailbox' = Append(mailbox, c)
            /\ arrivals' = Append(arrivals, c)
  /\ UNCHANGED <<handlerVars, session, stopping, clientVars, childVars>>

\* The caller's future is dropped (its gRPC client left); the message stays queued.
Abandon(c) ==
  /\ c \in Leavers
  /\ outcome[c] = "pending"
  /\ outcome' = [outcome EXCEPT ![c] = "abandoned"]
  /\ UNCHANGED <<mailbox, handlerVars, session, stopping, clientVars, childVars,
                 arrivals>>

------------------------------------------------------------------------------
\* How one message's handler begins, goes on and ends.

\* let _ = reply.send(r): a caller that left or never asked for a reply gets nothing.
Told(c, r) == [outcome EXCEPT ![c] = IF @ = "pending" THEN r ELSE @]

\* Mutant of Begin: the count of LSP messages starts at zero.
BeginAtZero(o) ==
  /\ current' = o
  /\ step' = 0
  /\ phase' = "send"

Begin(o) ==
  /\ current' = o
  /\ step' = 1
  /\ phase' = "send"

Finish(r) ==
  /\ outcome' = Told(current, r)
  /\ current' = None
  /\ step' = 0
  /\ phase' = "idle"

\* The current LSP message has been dealt with: on to the next one, if any.
\* A shutdown handshake goes on to wait for the child.
Proceed ==
  IF step < Steps(current)
    THEN step' = step + 1 /\ phase' = "send" /\ UNCHANGED <<current, outcome>>
    ELSE IF session = "closing"
      THEN phase' = "reap" /\ UNCHANGED <<current, step, outcome>>
      ELSE Finish("ok")

\* An error ends the call; a shutdown handshake only logs it and goes on.
Fail == IF session = "closing" THEN Proceed ELSE Finish("error")

\* The handler gets the answer it awaits.
Resume(value) ==
  IF value = "value" \/ (value = "null" /\ session = "closing") THEN Proceed ELSE Fail

CanTake == phase = "idle" /\ ~stopping /\ mailbox # <<>>

\* ServerInfo, InitializeResult and Events read the session without waiting.
TakeCached ==
  /\ CanTake
  /\ Kind[Head(mailbox)] = "cached"
  /\ outcome' = Told(Head(mailbox), IF session = "open" THEN "ok" ELSE "default")
  /\ mailbox' = Tail(mailbox)
  /\ UNCHANGED <<handlerVars, session, stopping, clientVars, childVars, arrivals>>

\* Without a session a second Shutdown succeeds, watched changes are dropped and
\* every other request fails with session_closed().
TakeClosed ==
  /\ CanTake
  /\ session = "none"
  /\ Kind[Head(mailbox)] # "cached"
  /\ outcome' = Told(Head(mailbox), IF Kind[Head(mailbox)] = "shutdown" THEN "ok" ELSE "closed")
  /\ mailbox' = Tail(mailbox)
  /\ UNCHANGED <<handlerVars, session, stopping, clientVars, childVars, arrivals>>

\* Every other message starts an exchange with rust-analyzer; Shutdown first
\* takes the session out of the actor's state.
TakeExchange ==
  /\ CanTake
  /\ session = "open"
  /\ Kind[Head(mailbox)] # "cached"
  /\ Begin(Head(mailbox))
  /\ session' = IF Kind[Head(mailbox)] = "shutdown" THEN "closing" ELSE session
  /\ mailbox' = Tail(mailbox)
  /\ UNCHANGED <<stopping, clientVars, childVars, outcome, arrivals>>

\* The handler hands its next LSP message to the JSON-RPC client.  A request is
\* then awaited; a notification is done as soon as it is queued.
Send ==
  LET m == Message(current, step) IN
  /\ phase = "send"
  /\ IF ~connected
       THEN Fail /\ UNCHANGED sendQueue
       ELSE /\ sendQueue' = Append(sendQueue, m)
            /\ IF IsRequest(m)
                 THEN phase' = "await" /\ UNCHANGED <<current, step, outcome>>
                 ELSE Proceed
  /\ UNCHANGED <<mailbox, session, stopping, connected, childVars, arrivals>>

\* Mutant of TimeOut: nothing bounds the wait for an answer.
NoTimeOut == FALSE

\* Mutant of TimeOut: the handshake's `shutdown` is awaited without a limit.
TimeOutOfRequests ==
  /\ phase = "await"
  /\ session = "open"
  /\ Fail
  /\ UNCHANGED <<mailbox, session, stopping, clientVars, childVars, arrivals>>

\* 60 s for a request, 8 s for the handshake's `shutdown`, have passed.
TimeOut ==
  /\ phase = "await"
  /\ Fail
  /\ UNCHANGED <<mailbox, session, stopping, clientVars, childVars, arrivals>>

------------------------------------------------------------------------------
\* The end of a handshake, and the end of the actor.

\* Mutant of Dropped: the reply ports of queued calls stay open.
DroppedSilently == outcome

\* Calls still queued when the actor's port is dropped learn of it as Internal.
Dropped == [c \in Calls |-> IF outcome[c] = "pending" THEN "internal" ELSE outcome[c]]

\* The handshake is over and the LSP client is dropped with what it had queued.
Close(r) ==
  /\ session' = "none"
  /\ connected' = FALSE
  /\ sendQueue' = <<>>
  /\ IF current = PostStop
       THEN /\ phase' = "stopped"
            /\ mailbox' = <<>>
            /\ outcome' = Dropped
       ELSE /\ phase' = "idle"
            /\ outcome' = Told(current, r)
            /\ UNCHANGED mailbox
  /\ current' = None
  /\ step' = 0
  /\ UNCHANGED <<stopping, wire, answers, arrivals>>

\* Mutant of Reap: a child that does not exit in time is left running.
ReapWithoutKill ==
  /\ phase = "reap"
  /\ UNCHANGED <<child, busy>>
  /\ Close("ok")

\* child.wait() returns, or 10 s pass and the child is killed.
Reap ==
  /\ phase = "reap"
  /\ child' = "exited"
  /\ busy' = {}
  /\ Close("ok")

\* child.wait() or child.kill() fails; dropping the session sends the child SIGKILL.
ReapFails ==
  /\ phase = "reap"
  /\ child' = "exited"
  /\ busy' = {}
  /\ Close("error")

\* Whoever holds the actor sends it a stop signal.
SignalStop ==
  /\ ~stopping
  /\ phase # "stopped"
  /\ stopping' = TRUE
  /\ UNCHANGED <<mailbox, handlerVars, session, clientVars, childVars,
                 outcome, arrivals>>

\* A stop signal is served before queued messages but after the running handler.
\* post_stop closes a session that no Shutdown has closed.
Stop ==
  /\ phase = "idle"
  /\ stopping
  /\ IF session = "open"
       THEN /\ Begin(PostStop)
            /\ session' = "closing"
            /\ UNCHANGED <<mailbox, outcome>>
       ELSE /\ phase' = "stopped"
            /\ mailbox' = <<>>
            /\ outcome' = Dropped
            /\ UNCHANGED <<current, step, session>>
  /\ UNCHANGED <<stopping, clientVars, childVars, arrivals>>

\* A kill signal or a panicking handler skips post_stop: the dropped session kills
\* the child, and the reply port of the running handler is dropped as well.
Kill ==
  /\ phase # "stopped"
  /\ phase' = "stopped"
  /\ current' = None
  /\ step' = 0
  /\ session' = "none"
  /\ connected' = FALSE
  /\ sendQueue' = <<>>
  /\ child' = "exited"
  /\ busy' = {}
  /\ mailbox' = <<>>
  /\ outcome' = Dropped
  /\ UNCHANGED <<stopping, wire, answers, arrivals>>

------------------------------------------------------------------------------
\* The JSON-RPC client's background tasks.

\* The send task writes the oldest queued message; rust-analyzer reads it.
Transmit ==
  /\ connected
  /\ child = "up"
  /\ sendQueue # <<>>
  /\ sendQueue' = Tail(sendQueue)
  /\ wire' = Append(wire, Head(sendQueue))
  /\ busy' = IF IsRequest(Head(sendQueue)) THEN busy \cup {Head(sendQueue)} ELSE busy
  /\ UNCHANGED <<mailbox, handlerVars, session, stopping, connected, child, answers,
                 outcome, arrivals>>

\* Mutant of Receive: any response resumes whoever waits.
ReceiveUnmatched(a) ==
  /\ connected
  /\ answers' = answers \ {a}
  /\ IF phase = "await" THEN Resume(a.value) ELSE UNCHANGED <<handlerVars, outcome>>
  /\ UNCHANGED <<mailbox, session, stopping, clientVars, child, wire, busy, arrivals>>

\* The receive task matches a response to the request that waits for it; the
\* response to a request that timed out is discarded.
Receive(a) ==
  /\ connected
  /\ answers' = answers \ {a}
  /\ IF phase = "await" /\ a.to = Message(current, step)
       THEN Resume(a.value)
       ELSE UNCHANGED <<handlerVars, outcome>>
  /\ UNCHANGED <<mailbox, session, stopping, clientVars, child, wire, busy, arrivals>>

\* Writing to a dead child fails, or reading from it ends: the client gives up
\* and fails the request in flight.
Disconnect ==
  /\ connected
  /\ child = "exited"
  /\ answers = {} \/ sendQueue # <<>>
  /\ connected' = FALSE
  /\ sendQueue' = <<>>
  /\ IF phase = "await" THEN Fail ELSE UNCHANGED <<handlerVars, outcome>>
  /\ UNCHANGED <<mailbox, session, stopping, childVars, arrivals>>

------------------------------------------------------------------------------
\* The rust-analyzer process.

\* Requests are answered in any order.
Answer(m, v) ==
  /\ busy' = busy \ {m}
  /\ answers' = answers \cup {[to |-> m, value |-> v]}
  /\ UNCHANGED <<mailbox, handlerVars, session, stopping, clientVars, child, wire,
                 outcome, arrivals>>

\* It exits when told to, or crashes at any time.
Exit ==
  /\ child = "up"
  /\ child' = "exited"
  /\ busy' = {}
  /\ UNCHANGED <<mailbox, handlerVars, session, stopping, clientVars, wire, answers,
                 outcome, arrivals>>

------------------------------------------------------------------------------
Handler ==
  TakeCached \/ TakeClosed \/ TakeExchange \/ Send \/ TimeOut \/ Reap \/ ReapFails \/ Stop

Next ==
  \/ \E c \in Calls : Call(c) \/ Refuse(c) \/ Abandon(c)
  \/ Handler
  \/ SignalStop
  \/ Kill
  \/ Transmit
  \/ \E a \in answers : Receive(a)
  \/ Disconnect
  \/ \E m \in busy : \E v \in AnswerValues(m) : Answer(m, v)
  \/ Exit

\* tokio polls the handler and its timers for ever; nobody has to call, stop,
\* answer or crash, and the child need not read what is written to it.
Spec == Init /\ [][Next]_vars /\ WF_vars(Handler)

------------------------------------------------------------------------------
\* Types, and what the actor must get right.

Phases == {"idle", "send", "await", "reap", "stopped"}
Outcomes == {"unsent", "pending", "cast", "abandoned", "refused",
             "ok", "error", "default", "closed", "internal"}

\* Every variable has its type.
TypeOK ==
  /\ mailbox \in Seq(Calls)
  /\ current \in Owners \cup {None}
  /\ step \in Nat
  /\ phase \in Phases
  /\ session \in {"open", "closing", "none"}
  /\ stopping \in BOOLEAN
  /\ sendQueue \in Seq(Messages)
  /\ connected \in BOOLEAN
  /\ child \in {"up", "exited"}
  /\ wire \in Seq(Messages)
  /\ busy \subseteq Messages
  /\ answers \subseteq Answers
  /\ outcome \in [Calls -> Outcomes]
  /\ arrivals \in Seq(Calls)

\* What has been handed to the JSON-RPC client, in order.
Sent == wire \o sendQueue

\* Nothing follows the LSP `shutdown` but the `exit` of the same handshake, whether
\* it was started by Shutdown or by post_stop, answered, timed out or refused
\* (shutdown_handshake takes the session before it sends anything).
ShutdownIsLast ==
  \A i, j \in 1..Len(Sent) :
    i < j /\ IsShutdown(Sent[i]) => IsExit(Sent[j]) /\ Sent[j].owner = Sent[i].owner

\* The LSP messages of one call are sent in order with nothing in between: the
\* document state prepareRename was asked about is the one rename edits, and all
\* patterns of a search see the same workspace (reply_with_session holds the
\* session for the whole call).
CallsAreContiguous ==
  \A i \in 1..Len(Sent) :
    Sent[i].step > 1 =>
      i > 1 /\ Sent[i - 1] = Message(Sent[i].owner, Sent[i].step - 1)

\* rust-analyzer sees calls in the order they entered the mailbox: a change queued
\* by the file watcher or by an editor precedes every request queued after it.
ArrivalOrder ==
  \A i, j \in 1..Len(Sent), a, b \in 1..Len(arrivals) :
    (i < j /\ a < b) => ~(Sent[i].owner = arrivals[b] /\ Sent[j].owner = arrivals[a])

\* A call answered from rust-analyzer had every one of its requests written to it:
\* a late response never answers somebody else's request.  A notification that was
\* acknowledged is written, or still queued for as long as the client lives: it is
\* lost only with the whole session.
AnsweredMeansAsked ==
  \A c \in Calls : outcome[c] = "ok" =>
    /\ Kind[c] \in {"request", "rename", "search"} =>
         \A s \in 1..Steps(c) : \E i \in 1..Len(wire) : wire[i] = Message(c, s)
    /\ Kind[c] = "notify" =>
         ~connected \/ \E i \in 1..Len(Sent) : Sent[i] = Message(c, 1)

\* Once the session is gone the child process is too, whichever way the actor
\* ended: after a handshake, after post_stop, after a kill or a failed wait.
NoOrphanChild == (session = "none") => child = "exited"

\* A stop signal ends the actor even if rust-analyzer never answers or exits.
StopCompletes == stopping ~> (phase = "stopped")

\* The actor is a serial service: the mailbox and the call being handled are its
\* queue, and the session is open until a handshake has reaped the child.
Service == INSTANCE SerialService WITH
  queue <- (IF current \in Calls THEN <<current>> ELSE <<>>) \o mailbox,
  open <- session # "none",
  alive <- phase # "stopped"
ServiceSafety == Service!SafeSpec

\* Moreover, an accepted call does not wait for ever.
ServiceSpec == Service!Spec
==============================================================================
