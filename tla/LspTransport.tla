----------------------------- MODULE LspTransport -----------------------------
(***************************************************************************)
(* The pipes between racli and rust-analyzer: the two halves of the LSP    *)
(* transport (src/lsp_client/transport.rs), the send and receive tasks of  *)
(* the JSON-RPC client that own them (src/lsp_client.rs, over the external *)
(* jsonrpsee), and the session that is started over them                   *)
(* (RustAnalyzerSession::spawn and startup_failure, src/rust_analyzer.rs). *)
(*                                                                         *)
(* The child's stdin has two writers.  The send task writes the client's   *)
(* messages, and the receive task acknowledges some of rust-analyzer's     *)
(* requests itself; a fair mutex keeps their frames apart.  Both pipes     *)
(* hold a bounded amount, so a write may wait for its reader.              *)
(*                                                                         *)
(* The session's messages are awaited one at a time (RustAnalyzerActor).   *)
(* A session ends when its owner drops it with the child (Close); the      *)
(* handshake that precedes this is RustAnalyzerActor's.                    *)
(***************************************************************************)
EXTENDS Naturals, Sequences, FiniteSets

CONSTANTS
  Requests,   \* LSP requests of a live session, each made once
  Asks,       \* rust-analyzer's requests that the transport acknowledges
  Notices,    \* rust-analyzer's notifications, each sent once
  Methods,    \* FORWARDED_METHODS
  Method,     \* Method[n] is the method of notification n
  Capacity,   \* chunks the child's stdin pipe holds
  Room,       \* frames the child's stdout pipe holds
  Chunks,     \* chunks of a frame, written one after the other
  BufferSize, \* notifications the JSON-RPC client keeps per subscription
  None

ASSUME MethodAssumption == Method \in [Notices -> Methods]
ASSUME SizesAssumption == {Capacity, Room, Chunks, BufferSize} \subseteq Nat \ {0}

VARIABLES
  stage,       \* how far spawn is, and what became of the session
  awaiting,    \* the answer the session's owner waits for, or None
  queue,       \* what the send task has still to do, oldest first
  sender,      \* the send task: "idle", "waiting" (for the mutex), "writing", "ended"
  receiver,    \* the receive task: "reading", "waiting", "writing", "ended"
  outgoing,    \* the frame each task waits to write, or writes
  lock,        \* the writer mutex: its holder, then those that wait for it
  written,     \* chunks of the holder's frame written so far
  toServer,    \* every chunk ever written to the child's stdin
  consumed,    \* how many of them the child has read
  toClient,    \* every frame ever written to the child's stdout
  taken,       \* how many of them the receive task has read
  subscribed,  \* the methods that have a subscription
  inbox,       \* inbox[m]: notifications waiting in m's subscription
  dropped,     \* the methods whose subscription the client has dropped, being full
  published,   \* the notifications handed to the hub, in order
  child,       \* rust-analyzer: "up" or "exited"
  owed,        \* frames it has still to write
  patient,     \* it reads even while it waits to write
  made,        \* the requests made so far
  accepted,    \* history: the messages the send task has been given, in order
  asked,       \* history: the asks the receive task has read, in order
  heard        \* history: the whole frames the child has read, in order

pipeVars == <<lock, written, toServer, toClient>>
taskVars == <<queue, sender, receiver, outgoing, taken, asked>>
hubVars == <<subscribed, inbox, dropped, published>>
sessionVars == <<stage, awaiting, made, accepted>>
serverVars == <<child, owed, consumed, patient, heard>>
vars == <<pipeVars, taskVars, hubVars, sessionVars, serverVars>>

Writers == {"sender", "receiver"}
Handshake == "initialize"

Request(r) == [kind |-> "request", id |-> r]
Initialized == [kind |-> "initialized", id |-> None]
Ack(a) == [kind |-> "ack", id |-> a]
Response(r) == [kind |-> "response", id |-> r]
Ask(a) == [kind |-> "ask", id |-> a]
Notice(n) == [kind |-> "notice", id |-> n]
Registration(m) == [kind |-> "register", id |-> m]

Messages == {Request(r) : r \in Requests \cup {Handshake}} \cup {Initialized}
Registrations == {Registration(m) : m \in Methods}
Acks == {Ack(a) : a \in Asks}
Garbage == [kind |-> "garbage", id |-> None]
Said == {Ask(a) : a \in Asks} \cup {Notice(n) : n \in Notices} \cup {Garbage}

ASSUME NoneAssumption == None \notin Messages \cup Acks

Over == {"failed", "exitedDuringStartup", "closed"}

Init ==
  /\ stage = "start"
  /\ awaiting = None
  /\ queue = <<>>
  /\ sender = "idle"
  /\ receiver = "reading"
  /\ outgoing = [w \in Writers |-> None]
  /\ lock = <<>>
  /\ written = 0
  /\ toServer = <<>>
  /\ consumed = 0
  /\ toClient = <<>>
  /\ taken = 0
  /\ subscribed = {}
  /\ inbox = [m \in Methods |-> <<>>]
  /\ dropped = {}
  /\ published = <<>>
  /\ child = "up"
  /\ owed = <<>>
  /\ patient \in BOOLEAN
  /\ made = {}
  /\ accepted = <<>>
  /\ asked = <<>>
  /\ heard = <<>>

------------------------------------------------------------------------------
\* The session.

\* A task that ends takes the other one with it, as does dropping the client.
Closing == stage \in Over \/ sender = "ended" \/ receiver = "ended"

\* Mutant of Accept: a request goes out before the notifications that wait.
AcceptFirst(m) ==
  /\ sender # "ended"
  /\ queue' = <<m>> \o queue
  /\ accepted' = Append(accepted, m)

\* The client takes a message as long as its send task runs.
Accept(m) ==
  /\ sender # "ended"
  /\ queue' = Append(queue, m)
  /\ accepted' = Append(accepted, m)

\* What an error of the awaited call does.  spawn's error drops the client and the
\* child, which kills it; initialize's goes through startup_failure first.
Broken ==
  /\ awaiting' = None
  /\ stage' = CASE stage \in {"start", "handshake"} -> "dying"
                [] stage = "subscribing" -> "failed"
                [] OTHER -> stage
  /\ child' = IF stage = "subscribing" THEN "exited" ELSE child

Initialize ==
  /\ stage = "start"
  /\ Accept(Request(Handshake))
  /\ awaiting' = Handshake
  /\ stage' = "handshake"
  /\ UNCHANGED <<made, sender, receiver, outgoing, taken, asked, pipeVars, hubVars, serverVars>>

\* The next subscription is registered by the send task and awaited.
Subscribe(m) ==
  /\ stage = "subscribing"
  /\ awaiting = None
  /\ m \notin subscribed
  /\ sender # "ended"
  /\ queue' = Append(queue, Registration(m))
  /\ awaiting' = m
  /\ UNCHANGED <<stage, made, accepted, sender, receiver, outgoing, taken, asked, pipeVars,
                 hubVars, serverVars>>

\* Mutant of AllSubscribed: `initialized` goes out before the subscriptions.
NoneSubscribed == TRUE

AllSubscribed == subscribed = Methods

SendInitialized ==
  /\ stage = "subscribing"
  /\ awaiting = None
  /\ AllSubscribed
  /\ Accept(Initialized)
  /\ stage' = "live"
  /\ UNCHANGED <<awaiting, made, sender, receiver, outgoing, taken, asked, pipeVars, hubVars,
                 serverVars>>

MakeRequest(r) ==
  /\ stage = "live"
  /\ awaiting = None
  /\ r \notin made
  /\ Accept(Request(r))
  /\ made' = made \cup {r}
  /\ awaiting' = r
  /\ UNCHANGED <<stage, sender, receiver, outgoing, taken, asked, pipeVars, hubVars, serverVars>>

\* A client whose send task has ended refuses everything; a request of a live
\* session then fails at once and changes nothing here.
Refused ==
  /\ sender = "ended"
  /\ stage \in {"start", "subscribing"}
  /\ Broken
  /\ UNCHANGED <<made, accepted, taskVars, pipeVars, hubVars, owed, consumed, patient, heard>>

\* Mutant of TimeOut: only requests of a live session are bounded.
TimeOutOfRequests ==
  /\ awaiting \in Requests
  /\ Broken
  /\ UNCHANGED <<made, accepted, taskVars, pipeVars, hubVars, owed, consumed, patient, heard>>

\* The JSON-RPC client gives every call 60 s, and fails it once both tasks are gone.
TimeOut ==
  /\ awaiting # None
  /\ Broken
  /\ UNCHANGED <<made, accepted, taskVars, pipeVars, hubVars, owed, consumed, patient, heard>>

\* startup_failure waits up to 1 s for the child's exit and says so when it sees it.
StartupFails ==
  /\ stage = "dying"
  /\ stage' = IF child = "exited" THEN "exitedDuringStartup" ELSE "failed"
  /\ child' = "exited"
  /\ UNCHANGED <<awaiting, made, accepted, taskVars, pipeVars, hubVars, owed, consumed, patient, heard>>

\* The session is dropped with its child, after a handshake or without one.
Close ==
  /\ stage = "live"
  /\ stage' = "closed"
  /\ awaiting' = None
  /\ child' = "exited"
  /\ UNCHANGED <<made, accepted, taskVars, pipeVars, hubVars, owed, consumed, patient, heard>>

\* The forwarding task of method m hands its subscription's next item to the hub.
Forward(m) ==
  /\ inbox[m] # <<>>
  /\ inbox' = [inbox EXCEPT ![m] = Tail(@)]
  /\ published' = Append(published, Head(inbox[m]))
  /\ UNCHANGED <<subscribed, dropped, taskVars, pipeVars, sessionVars, serverVars>>

------------------------------------------------------------------------------
\* The send and receive tasks.

\* The send task takes the next message, or registers a subscription.
TakeNext ==
  /\ sender = "idle"
  /\ queue # <<>>
  /\ ~Closing
  /\ queue' = Tail(queue)
  /\ LET m == Head(queue) IN
     IF m \in Registrations
       THEN /\ subscribed' = subscribed \cup {m.id}
            /\ IF awaiting = m.id
                 THEN awaiting' = None ELSE UNCHANGED awaiting
            /\ UNCHANGED <<sender, outgoing, lock>>
       ELSE /\ sender' = "waiting"
            /\ outgoing' = [outgoing EXCEPT !["sender"] = m]
            /\ lock' = Append(lock, "sender")
            /\ UNCHANGED <<subscribed, awaiting>>
  /\ UNCHANGED <<receiver, taken, asked, written, toServer, toClient, inbox, dropped, published,
                 stage, made, accepted, serverVars>>

\* Mutant of Holds: nothing keeps the two writers apart.
HoldsNothing(w) == \E i \in DOMAIN lock : lock[i] = w

\* guard = writer.lock().await: the mutex serves its waiters in order.
Holds(w) == lock # <<>> /\ Head(lock) = w

\* After its frame the send task takes the next message; the receive task reads on.
Idle(w) == IF w = "sender" THEN "idle" ELSE "reading"

SetTask(w, s) ==
  /\ sender' = IF w = "sender" THEN s ELSE sender
  /\ receiver' = IF w = "receiver" THEN s ELSE receiver

\* Mutant of Without: the mutex is not released.
StillThere(w) == lock

\* What w holds, or waits for, is left to the other task.
Without(w) ==
  LET other == IF w = "sender" THEN "receiver" ELSE "sender"
  IN IF \E i \in DOMAIN lock : lock[i] = other THEN <<other>> ELSE <<>>

\* write_framed: the next chunk of the holder's frame, once the pipe has room for it.
WriteChunk(w) ==
  /\ Holds(w)
  /\ child = "up"
  /\ Len(toServer) - consumed < Capacity
  /\ toServer' = Append(toServer, [frame |-> outgoing[w], part |-> written + 1])
  /\ IF written + 1 = Chunks
       THEN /\ written' = 0
            /\ lock' = Without(w)
            /\ SetTask(w, Idle(w))
            /\ outgoing' = [outgoing EXCEPT ![w] = None]
       ELSE /\ written' = written + 1
            /\ SetTask(w, "writing")
            /\ UNCHANGED <<lock, outgoing>>
  /\ UNCHANGED <<queue, taken, asked, toClient, hubVars, sessionVars, serverVars>>

\* A task ends: what it held, or waited for, is released.
End(w) ==
  /\ SetTask(w, "ended")
  /\ outgoing' = [outgoing EXCEPT ![w] = None]
  /\ lock' = Without(w)
  /\ written' = IF Holds(w) THEN 0 ELSE written
  /\ queue' = IF w = "sender" THEN <<>> ELSE queue
  /\ UNCHANGED <<taken, asked, toServer, toClient, hubVars, sessionVars, serverVars>>

\* Nobody reads the pipe any more.
WriteFails(w) == Holds(w) /\ child = "exited" /\ End(w)

\* The send task looks whether the client closes only between two messages, the
\* receive task wherever it waits.
SeeClosing(w) ==
  /\ Closing
  /\ IF w = "sender" THEN sender = "idle" ELSE receiver # "ended"
  /\ End(w)

\* The child's output has ended.
ReadEnds ==
  /\ receiver = "reading"
  /\ child = "exited"
  /\ taken = Len(toClient)
  /\ End("receiver")

\* A frame without a length, or whose body is not JSON, is an error as well.
ReadFails ==
  /\ receiver = "reading"
  /\ taken < Len(toClient)
  /\ toClient[taken + 1] = Garbage
  /\ End("receiver")

\* The call that awaits this response goes on; a late response is discarded.
Resume(r) ==
  IF awaiting = r
    THEN /\ awaiting' = None
         /\ stage' = IF r = Handshake THEN "subscribing" ELSE stage
    ELSE UNCHANGED <<awaiting, stage>>

\* Mutant of Deliver: a full subscription skips what it has no room for.
DeliverOrSkip(n) ==
  /\ inbox' = IF Len(inbox[Method[n]]) < BufferSize
                THEN [inbox EXCEPT ![Method[n]] = Append(@, n)] ELSE inbox
  /\ UNCHANGED dropped

\* The client gives a notification to its method's subscription.  One that is full is
\* dropped for good; what waits in it is still forwarded.
Deliver(n) ==
  LET m == Method[n] IN
  IF m \notin subscribed \ dropped THEN UNCHANGED <<inbox, dropped>>
  ELSE IF Len(inbox[m]) < BufferSize
    THEN /\ inbox' = [inbox EXCEPT ![m] = Append(@, n)]
         /\ UNCHANGED dropped
    ELSE /\ dropped' = dropped \cup {m}
         /\ UNCHANGED inbox

\* receive(): the next frame is acknowledged here, or handed to the client, which
\* gives a response to its call and a notification to its subscription.
Receive ==
  LET f == toClient[taken + 1] IN
  /\ receiver = "reading"
  /\ taken < Len(toClient)
  /\ f # Garbage
  /\ taken' = taken + 1
  /\ IF f.kind = "ask"
       THEN /\ receiver' = "waiting"
            /\ outgoing' = [outgoing EXCEPT !["receiver"] = Ack(f.id)]
            /\ lock' = Append(lock, "receiver")
            /\ asked' = Append(asked, f.id)
       ELSE UNCHANGED <<receiver, outgoing, lock, asked>>
  /\ IF f.kind = "response" THEN Resume(f.id) ELSE UNCHANGED <<awaiting, stage>>
  /\ IF f.kind = "notice" THEN Deliver(f.id) ELSE UNCHANGED <<inbox, dropped>>
  /\ UNCHANGED <<queue, sender, written, toServer, toClient, subscribed, published,
                 made, accepted, serverVars>>

------------------------------------------------------------------------------
\* rust-analyzer, as far as the transport can tell.

HasHeard(f) == \E i \in 1..consumed : toServer[i].part = Chunks /\ toServer[i].frame = f
HasSaid(f) == \/ \E i \in DOMAIN owed : owed[i] = f
              \/ \E i \in DOMAIN toClient : toClient[i] = f

\* A server that is not patient does not read while it has something to write.
ServerReads ==
  LET c == toServer[consumed + 1] IN
  /\ child = "up"
  /\ consumed < Len(toServer)
  /\ patient \/ owed = <<>>
  /\ consumed' = consumed + 1
  /\ owed' = IF c.part = Chunks /\ c.frame.kind = "request"
               THEN Append(owed, Response(c.frame.id)) ELSE owed
  /\ heard' = IF c.part = Chunks THEN Append(heard, c.frame) ELSE heard
  /\ UNCHANGED <<child, patient, pipeVars, taskVars, hubVars, sessionVars>>

\* Once initialized it may ask and notify at any time.
ServerSays(f) ==
  /\ child = "up"
  /\ HasHeard(Initialized)
  /\ ~HasSaid(f)
  /\ owed' = Append(owed, f)
  /\ UNCHANGED <<child, patient, consumed, heard, pipeVars, taskVars, hubVars, sessionVars>>

ServerWrites ==
  /\ child = "up"
  /\ owed # <<>>
  /\ Len(toClient) - taken < Room
  /\ toClient' = Append(toClient, Head(owed))
  /\ owed' = Tail(owed)
  /\ UNCHANGED <<child, patient, consumed, heard, lock, written, toServer, taskVars, hubVars,
                 sessionVars>>

ServerExits ==
  /\ child = "up"
  /\ child' = "exited"
  /\ UNCHANGED <<patient, consumed, owed, heard, pipeVars, taskVars, hubVars, sessionVars>>

------------------------------------------------------------------------------
SendTask == TakeNext \/ WriteChunk("sender") \/ WriteFails("sender") \/ SeeClosing("sender")
ReceiveTask ==
  \/ Receive \/ ReadEnds \/ ReadFails
  \/ WriteChunk("receiver") \/ WriteFails("receiver") \/ SeeClosing("receiver")
Spawn == Initialize \/ (\E m \in Methods : Subscribe(m)) \/ SendInitialized \/ Refused \/ StartupFails

Next ==
  \/ Spawn
  \/ \E r \in Requests : MakeRequest(r)
  \/ TimeOut
  \/ Close
  \/ \E m \in Methods : Forward(m)
  \/ SendTask
  \/ ReceiveTask
  \/ ServerReads
  \/ \E f \in Said : ServerSays(f)
  \/ ServerWrites
  \/ ServerExits

\* tokio polls racli's tasks and timers for ever.  Of rust-analyzer nothing is
\* assumed, except that a patient one reads what it is sent.
Spec ==
  /\ Init /\ [][Next]_vars
  /\ WF_vars(Spawn) /\ WF_vars(TimeOut)
  /\ WF_vars(SendTask) /\ WF_vars(ReceiveTask)
  /\ \A m \in Methods : WF_vars(Forward(m))
  /\ WF_vars(patient /\ ServerReads)

------------------------------------------------------------------------------
\* Types, and what the transport must get right.

Frames == Messages \cup Acks

\* Every variable has its type, and a task waits for the mutex exactly while it
\* has a frame to write.
TypeOK ==
  /\ stage \in {"start", "handshake", "dying", "subscribing", "live"} \cup Over
  /\ awaiting \in {None, Handshake} \cup Methods \cup Requests
  /\ queue \in Seq(Messages \cup Registrations)
  /\ sender \in {"idle", "waiting", "writing", "ended"}
  /\ receiver \in {"reading", "waiting", "writing", "ended"}
  /\ outgoing \in [Writers -> Frames \cup {None}]
  /\ lock \in Seq(Writers)
  /\ written \in 0..(Chunks - 1)
  /\ toServer \in Seq([frame : Frames, part : 1..Chunks])
  /\ consumed \in 0..Len(toServer)
  /\ toClient \in Seq(Said \cup {Response(r) : r \in Requests \cup {Handshake}})
  /\ taken \in 0..Len(toClient)
  /\ subscribed \subseteq Methods
  /\ inbox \in [Methods -> Seq(Notices)]
  /\ dropped \subseteq Methods
  /\ published \in Seq(Notices)
  /\ child \in {"up", "exited"}
  /\ owed \in Seq(Said \cup {Response(r) : r \in Requests \cup {Handshake}})
  /\ patient \in BOOLEAN
  /\ made \subseteq Requests
  /\ accepted \in Seq(Messages)
  /\ asked \in Seq(Asks)
  /\ heard \in Seq(Frames)
  /\ \A w \in Writers : outgoing[w] # None <=> \E i \in DOMAIN lock : lock[i] = w

\* The bytes on the child's stdin are whole frames one after the other: whatever
\* order the send task and the receive task write in, no frame is broken into by
\* another (Sender::send and receive() hold the writer mutex across write_framed).
FramesAreWhole ==
  \A i \in DOMAIN toServer :
    LET c == toServer[i] IN
    IF i > 1 /\ toServer[i - 1].part < Chunks
      THEN c = [frame |-> toServer[i - 1].frame, part |-> toServer[i - 1].part + 1]
      ELSE c.part = 1

\* The receive task has read x, and before y.
Read(x) == \E i \in 1..taken : toClient[i] = Notice(x)
ReadBefore(x, y) ==
  \E i, j \in 1..taken : i < j /\ toClient[i] = Notice(x) /\ toClient[j] = Notice(y)

\* What has been handed to the hub, and what of method m is about to be.
Handed(m) == published \o inbox[m]

Passed(x) == LET h == Handed(Method[x]) IN \E k \in DOMAIN h : h[k] = x
Ahead(x, y) ==
  LET h == Handed(Method[x]) IN \E k, l \in DOMAIN h : k < l /\ h[k] = x /\ h[l] = y

\* How many notifications of method m have had room in its subscription.
Kept(m) == Cardinality({k \in DOMAIN published : Method[published[k]] = m}) + Len(inbox[m])

\* No notification of a forwarded method is lost between rust-analyzer and the hub,
\* not even one sent right after `initialized` ("Subscribe before `initialized` so no
\* early notification is dropped"), unless its subscription overflows: the hub gets
\* those of a method each once and in the order sent, without a gap, and all of them
\* that the receive task has read until it finds the subscription full, which takes
\* more than BufferSize.
NothingEarlyIsLost ==
  /\ \A x, y \in Notices :
       /\ Passed(x) => Read(x)
       /\ Read(x) => Passed(x) \/ Method[x] \in dropped
       /\ Method[x] = Method[y] => (Ahead(x, y) <=> ReadBefore(x, y) /\ Passed(y))
  /\ \A m \in dropped : Kept(m) >= BufferSize

\* Whatever rust-analyzer does, even if it stops reading with both pipes full: every
\* wait of spawn and of a request ends, a failed startup is reported, and the tasks
\* of a session that is over end with it (the 60 s of every call, startup_failure's
\* 1 s, and the child's death, which unblocks a stuck write).
NobodyHangs ==
  /\ (awaiting # None) ~> (awaiting = None)
  /\ (stage = "dying") ~> (stage \in Over)
  /\ (stage \in Over) ~> (sender = "ended" /\ receiver = "ended")

\* The transport is a link: messages in the order accepted, acknowledgements in the
\* order asked, each once, and, while rust-analyzer reads and nothing closes, all of
\* them (a receive task that waits for the mutex never stops the send task for good).
Link == INSTANCE MessageLink WITH
  excused <- ~patient \/ child = "exited" \/ Closing
LinkSpec == Link!Spec

\* What of it is safety.
LinkSafety == Link!SafeSpec
==============================================================================
