--------------------------- MODULE LspTransportProofs ---------------------------
(***************************************************************************)
(* Proofs about LspTransport, for any messages, sizes of the two pipes and *)
(* number of chunks per frame: no frame is broken into by another, no      *)
(* notification of a forwarded method is lost before its subscription      *)
(* overflows or is ever overtaken, and messages and acknowledgements are   *)
(* delivered as MessageLink has it.                                        *)
(*                                                                         *)
(* The first rests on the mutex (at most two tasks, each once, hold it or  *)
(* wait for it) and on where a frame may be cut short: only when the child *)
(* is gone or both tasks have ended, after which nobody writes.  The       *)
(* second rests on the order of the start: while a subscription is         *)
(* missing, `initialized` is nowhere on its way to the child; and each     *)
(* notification is said once, so that none is read again once the          *)
(* subscription that missed it is dropped.  The third                      *)
(* counts: each message is at the place that the number of whole messages  *)
(* before it gives it among those accepted, likewise each acknowledgement. *)
(***************************************************************************)
EXTENDS LspTransport, SequenceTheorems, FiniteSetTheorems, TLAPS

USE MethodAssumption, SizesAssumption

------------------------------------------------------------------------------
\* The parts of the type invariant.

Responses == {Response(r) : r \in Requests \cup {Handshake}}
Outputs == Said \cup Responses

SessionTypes ==
  /\ stage \in {"start", "handshake", "dying", "subscribing", "live"} \cup Over
  /\ awaiting \in {None, Handshake} \cup Methods \cup Requests
  /\ child \in {"up", "exited"}
  /\ patient \in BOOLEAN
  /\ made \subseteq Requests
  /\ accepted \in Seq(Messages)

TaskTypes ==
  /\ queue \in Seq(Messages \cup Registrations)
  /\ sender \in {"idle", "waiting", "writing", "ended"}
  /\ receiver \in {"reading", "waiting", "writing", "ended"}
  /\ outgoing \in [Writers -> Frames \cup {None}]
  /\ written \in 0..(Chunks - 1)

PipeTypes ==
  /\ toServer \in Seq([frame : Frames, part : 1..Chunks])
  /\ consumed \in 0..Len(toServer)
  /\ toClient \in Seq(Outputs)
  /\ taken \in 0..Len(toClient)
  /\ owed \in Seq(Outputs)

FeedTypes ==
  /\ subscribed \subseteq Methods
  /\ inbox \in [Methods -> Seq(Notices)]
  /\ dropped \subseteq Methods
  /\ published \in Seq(Notices)

------------------------------------------------------------------------------
\* The parts of the inductive invariant.

In(s, x) == \E i \in DOMAIN s : s[i] = x

\* Each task holds the mutex, or waits for it, at most once ...
Locks == {<<>>, <<"sender">>, <<"receiver">>, <<"sender", "receiver">>, <<"receiver", "sender">>}

\* ... and exactly while it has a frame to write.
LockInv ==
  /\ lock \in Locks
  /\ \A w \in Writers : outgoing[w] # None <=> In(lock, w)
  /\ sender \in {"waiting", "writing"} <=> In(lock, "sender")
  /\ receiver \in {"waiting", "writing"} <=> In(lock, "receiver")

\* A session that is over has killed its child.
OverInv == stage \in Over => child = "exited"

\* Whoever may write next goes on where the last chunk ended.
BoundaryInv ==
  child = "up" /\ ~(sender = "ended" /\ receiver = "ended") =>
    IF written = 0
      THEN toServer # <<>> => toServer[Len(toServer)].part = Chunks
      ELSE /\ toServer # <<>> /\ lock # <<>>
           /\ toServer[Len(toServer)] = [frame |-> outgoing[Head(lock)], part |-> written]

\* While a subscription is missing, `initialized` is not on its way, and rust-analyzer
\* has not notified.
EarlyInv ==
  subscribed # Methods =>
    /\ \A i \in DOMAIN queue : queue[i] # Initialized
    /\ \A w \in Writers : outgoing[w] # Initialized
    /\ \A i \in DOMAIN toServer : toServer[i].frame # Initialized
    /\ \A i \in DOMAIN owed : owed[i].kind # "notice"
    /\ \A i \in DOMAIN toClient : toClient[i].kind # "notice"

\* A subscription holds notifications of its method.
InboxInv == \A m \in Methods : \A i \in DOMAIN inbox[m] : Method[inbox[m][i]] = m

\* rust-analyzer sends each notification once.
SaidOnce ==
  /\ \A i, j \in DOMAIN toClient : toClient[i] = toClient[j] /\ toClient[i].kind = "notice" => i = j
  /\ \A i, j \in DOMAIN owed : owed[i] = owed[j] /\ owed[i].kind = "notice" => i = j
  /\ \A i \in DOMAIN toClient, j \in DOMAIN owed : toClient[i].kind = "notice" => toClient[i] # owed[j]

\* Where a message, or an acknowledgement, is whole among the first n chunks of a pipe.
MessageEnds(pipe, n) == {i \in 1..n : pipe[i].part = Chunks /\ pipe[i].frame.kind # "ack"}
AckEnds(pipe, n) == {i \in 1..n : pipe[i].part = Chunks /\ pipe[i].frame.kind = "ack"}
MessagesIn(pipe, n) == Cardinality(MessageEnds(pipe, n))
AcksIn(pipe, n) == Cardinality(AckEnds(pipe, n))

MessagesOf(frames) == Cardinality({i \in DOMAIN frames : frames[i].kind # "ack"})
AcksOf(frames) == Cardinality({i \in DOMAIN frames : frames[i].kind = "ack"})

HistoryTypes == asked \in Seq(Asks) /\ heard \in Seq(Frames)

\* What is on the pipe are the first messages accepted and the first asks.
OnPipeInv ==
  \A i \in DOMAIN toServer : toServer[i].part = Chunks =>
    IF toServer[i].frame.kind = "ack"
      THEN AcksIn(toServer, i) \in DOMAIN asked /\ toServer[i].frame = Ack(asked[AcksIn(toServer, i)])
      ELSE /\ MessagesIn(toServer, i) \in DOMAIN accepted
           /\ toServer[i].frame = accepted[MessagesIn(toServer, i)]

\* What was heard are the whole frames among the chunks consumed.
HeardInv ==
  /\ MessagesOf(heard) = MessagesIn(toServer, consumed)
  /\ AcksOf(heard) = AcksIn(toServer, consumed)

\* The receive task is at the last ask, and has written the acknowledgements before it.
AckInv ==
  /\ outgoing["receiver"] # None =>
       /\ Len(asked) = AcksIn(toServer, Len(toServer)) + 1
       /\ outgoing["receiver"] = Ack(asked[Len(asked)])
  /\ receiver # "ended" /\ outgoing["receiver"] = None =>
       Len(asked) = AcksIn(toServer, Len(toServer))

\* How many messages have been given up to each one that waits, after the first ones.
Counts(index, before, waiting, given) ==
  /\ index \in [0..Len(waiting) -> 0..Len(given)]
  /\ index[0] = before
  /\ index[Len(waiting)] = Len(given)
  /\ \A k \in 1..Len(waiting) :
       IF waiting[k] \in Registrations THEN index[k] = index[k - 1]
       ELSE index[k] = index[k - 1] + 1 /\ waiting[k] = given[index[k]]

\* The send task has the message after those on the pipe, the queue has the rest.
SendInv ==
  LET sent == MessagesIn(toServer, Len(toServer)) IN
  /\ outgoing["sender"] # None => /\ sent + 1 \in DOMAIN accepted
                                  /\ outgoing["sender"] = accepted[sent + 1]
  /\ sender # "ended" =>
       \E index : Counts(index, IF outgoing["sender"] = None THEN sent ELSE sent + 1, queue, accepted)

TypeInv == SessionTypes /\ TaskTypes /\ PipeTypes /\ FeedTypes
WritersInv == LockInv /\ OverInv /\ BoundaryInv /\ FramesAreWhole
FeedInv == EarlyInv /\ InboxInv /\ SaidOnce /\ NothingEarlyIsLost
LinkInv == HistoryTypes /\ OnPipeInv /\ HeardInv /\ AckInv /\ SendInv
IndInv == TypeInv /\ WritersInv /\ FeedInv /\ LinkInv

------------------------------------------------------------------------------
\* Messages and frames.

LEMMA MessageFacts ==
  /\ \A m \in Frames : m # None
  /\ Initialized \in Messages /\ Initialized \notin Registrations
  /\ \A m \in Messages \cup Registrations :
       (m \in Registrations => m.id \in Methods) /\ (m \notin Registrations => m \in Messages)
  /\ \A r \in Requests \cup {Handshake} : Request(r) \in Messages /\ Request(r) # Initialized
  /\ \A m \in Methods : Registration(m) \in Registrations /\ Registration(m) # Initialized
  /\ \A a \in Asks : Ack(a) \in Frames /\ Ack(a) # Initialized
  /\ \A m \in Frames : m.kind = "request" => m.id \in Requests \cup {Handshake}
<1>1. \A m \in Frames : m # None
  BY NoneAssumption DEF Frames
<1>2. Initialized \in Messages /\ Initialized \notin Registrations
  BY DEF Messages, Registrations, Initialized, Registration
<1>3. \A m \in Messages \cup Registrations :
       (m \in Registrations => m.id \in Methods) /\ (m \notin Registrations => m \in Messages)
  BY DEF Registrations, Registration
<1>4. \A r \in Requests \cup {Handshake} : Request(r) \in Messages /\ Request(r) # Initialized
  BY DEF Messages, Request, Initialized
<1>5. \A m \in Methods : Registration(m) \in Registrations /\ Registration(m) # Initialized
  BY DEF Registrations, Registration, Initialized
<1>6. \A a \in Asks : Ack(a) \in Frames /\ Ack(a) # Initialized
  BY DEF Frames, Acks, Ack, Initialized
<1>7. \A m \in Frames : m.kind = "request" => m.id \in Requests \cup {Handshake}
  BY DEF Frames, Messages, Acks, Ack, Initialized, Request
<1> QED
  BY <1>1, <1>2, <1>3, <1>4, <1>5, <1>6, <1>7

LEMMA OutputFacts ==
  /\ \A f \in Outputs : f.kind = "ask" => f.id \in Asks
  /\ \A f \in Outputs : f.kind = "notice" => f.id \in Notices /\ f = Notice(f.id)
  /\ \A n \in Notices : Notice(n).kind = "notice" /\ Notice(n).id = n /\ Notice(n) \in Outputs
  /\ \A r \in Requests \cup {Handshake} : Response(r) \in Outputs /\ Response(r).kind = "response"
  /\ Said \subseteq Outputs
<1>1. \A f \in Outputs : f.kind = "ask" => f.id \in Asks
  BY DEF Outputs, Said, Responses, Ask, Notice, Garbage, Response
<1>2. \A f \in Outputs : f.kind = "notice" => f.id \in Notices /\ f = Notice(f.id)
  BY DEF Outputs, Said, Responses, Ask, Notice, Garbage, Response
<1>3. \A n \in Notices : Notice(n).kind = "notice" /\ Notice(n).id = n /\ Notice(n) \in Outputs
  BY DEF Outputs, Said, Notice
<1>4. \A r \in Requests \cup {Handshake} : Response(r) \in Outputs /\ Response(r).kind = "response"
  BY DEF Outputs, Responses, Response
<1>5. Said \subseteq Outputs
  BY DEF Outputs
<1> QED
  BY <1>1, <1>2, <1>3, <1>4, <1>5

\* What an item at the end changes.
LEMMA AtTheEnd ==
  ASSUME NEW S, NEW s \in Seq(S), NEW x \in S
  PROVE  /\ Append(s, x) \in Seq(S) /\ Append(s, x) # <<>>
         /\ Len(s) \in Nat /\ DOMAIN s = 1..Len(s)
         /\ Len(Append(s, x)) = Len(s) + 1
         /\ DOMAIN Append(s, x) = 1..(Len(s) + 1)
         /\ Append(s, x)[Len(s) + 1] = x
         /\ \A i \in 1..Len(s) : Append(s, x)[i] = s[i]
         /\ \A i \in 1..(Len(s) + 1) : i = Len(s) + 1 \/ i \in 1..Len(s)
OBVIOUS

\* What taking the head leaves.
LEMMA WithoutTheHead ==
  ASSUME NEW S, NEW s \in Seq(S), s # <<>>
  PROVE  /\ Head(s) \in S /\ Tail(s) \in Seq(S) /\ Head(s) = s[1] /\ 1 \in DOMAIN s
         /\ \A i \in DOMAIN Tail(s) : Tail(s)[i] = s[i + 1] /\ i + 1 \in DOMAIN s
OBVIOUS

------------------------------------------------------------------------------
\* The mutex.

LEMMA MembersOfLocks ==
  \A w \in Writers :
    /\ ~In(<<>>, w)
    /\ In(<<"sender">>, w) <=> w = "sender"
    /\ In(<<"receiver">>, w) <=> w = "receiver"
    /\ In(<<"sender", "receiver">>, w)
    /\ In(<<"receiver", "sender">>, w)
<1>1. /\ DOMAIN <<"sender">> = 1..1 /\ DOMAIN <<"receiver">> = 1..1
      /\ DOMAIN <<"sender", "receiver">> = 1..2 /\ DOMAIN <<"receiver", "sender">> = 1..2
  OBVIOUS
<1> QED
  BY <1>1 DEF In, Writers

LEMMA PairOfLocks ==
  ASSUME NEW v \in Writers, NEW w \in Writers
  PROVE  Append(<<v>>, w) = <<v, w>>
<1>1. /\ <<v>> \in Seq(Writers) /\ <<v, w>> \in Seq(Writers) /\ Append(<<v>>, w) \in Seq(Writers)
      /\ Len(Append(<<v>>, w)) = 2 /\ Len(<<v, w>>) = 2
  OBVIOUS
<1>2. \A i \in 1..2 : Append(<<v>>, w)[i] = <<v, w>>[i]
  BY <1>1
<1> QED
  BY <1>1, <1>2, SeqEqual

\* A task that is not there queues at the end.
LEMMA Queueing ==
  ASSUME NEW l \in Locks, NEW w \in Writers, ~In(l, w)
  PROVE  /\ Append(l, w) \in Locks /\ Append(l, w) # <<>>
         /\ \A v \in Writers : In(Append(l, w), v) <=> In(l, v) \/ v = w
         /\ l # <<>> => Head(Append(l, w)) = Head(l) /\ Head(l) \in Writers /\ Head(l) # w
<1>1. /\ w = "sender" => l \in {<<>>, <<"receiver">>}
      /\ w = "receiver" => l \in {<<>>, <<"sender">>}
  BY MembersOfLocks DEF Locks, Writers
<1>2. /\ w = "sender" => Append(l, w) \in {<<"sender">>, <<"receiver", "sender">>}
      /\ w = "receiver" => Append(l, w) \in {<<"receiver">>, <<"sender", "receiver">>}
  <2>1. Append(<<>>, w) = <<w>>
    OBVIOUS
  <2>2. /\ Append(<<"receiver">>, "sender") = <<"receiver", "sender">>
        /\ Append(<<"sender">>, "receiver") = <<"sender", "receiver">>
    BY PairOfLocks DEF Writers
  <2> QED
    BY <1>1, <2>1, <2>2, Zenon
<1>3. \A v \in Writers : In(Append(l, w), v) <=> In(l, v) \/ v = w
  <2>1. CASE w = "sender" /\ l = <<>>
    <3>1. Append(l, w) = <<"sender">>
      BY <2>1
    <3> QED
      BY <2>1, <3>1, MembersOfLocks, Zenon
  <2>2. CASE w = "receiver" /\ l = <<>>
    <3>1. Append(l, w) = <<"receiver">>
      BY <2>2
    <3> QED
      BY <2>2, <3>1, MembersOfLocks, Zenon
  <2>3. CASE w = "sender" /\ l = <<"receiver">>
    <3>1. Append(l, w) = <<"receiver", "sender">>
      BY <2>3, PairOfLocks DEF Writers
    <3> QED
      BY <2>3, <3>1, MembersOfLocks DEF Writers
  <2>4. CASE w = "receiver" /\ l = <<"sender">>
    <3>1. Append(l, w) = <<"sender", "receiver">>
      BY <2>4, PairOfLocks DEF Writers
    <3> QED
      BY <2>4, <3>1, MembersOfLocks DEF Writers
  <2> QED
    BY <1>1, <2>1, <2>2, <2>3, <2>4 DEF Writers
<1>4. Append(l, w) \in Locks /\ Append(l, w) # <<>>
  BY SMTT(30), <1>2 DEF Locks, Writers
<1>5. l # <<>> => Head(Append(l, w)) = Head(l) /\ Head(l) \in Writers /\ Head(l) # w
  BY <1>1 DEF Writers
<1> QED
  BY <1>3, <1>4, <1>5

\* A task that leaves lets the other one move up.
LEMMA Leaving ==
  ASSUME lock \in Locks, NEW w \in Writers
  PROVE  /\ Without(w) \in Locks
         /\ \A v \in Writers : In(Without(w), v) <=> In(lock, v) /\ v # w
         /\ ~In(lock, w) => Without(w) = lock
         /\ Holds(w) => In(lock, w)
<1>1. CASE lock = <<>>
  BY <1>1, MembersOfLocks DEF Without, In, Holds, Locks
<1>2. CASE lock = <<"sender">>
  BY <1>2, MembersOfLocks DEF Without, In, Holds, Locks, Writers
<1>3. CASE lock = <<"receiver">>
  BY <1>3, MembersOfLocks DEF Without, In, Holds, Locks, Writers
<1>4. CASE lock = <<"sender", "receiver">> \/ lock = <<"receiver", "sender">>
  <2>1. \A v \in Writers : In(lock, v)
    BY <1>4, MembersOfLocks
  <2>2. Without(w) = IF w = "sender" THEN <<"receiver">> ELSE <<"sender">>
    BY <2>1 DEF Without, In, Writers
  <2> QED
    BY <2>1, <2>2, MembersOfLocks DEF Locks, Writers
<1> QED
  BY <1>1, <1>2, <1>3, <1>4 DEF Locks

------------------------------------------------------------------------------
\* The steps, by what they may change.

SessionStep ==
  Initialize \/ (\E m \in Methods : Subscribe(m)) \/ SendInitialized \/ Refused \/ StartupFails
    \/ (\E r \in Requests : MakeRequest(r)) \/ TimeOut \/ Close

EndStep(w) ==
  /\ End(w)
  /\ \/ child = "exited" /\ Holds(w)
     \/ Closing /\ w = "sender" /\ sender = "idle"
     \/ Closing /\ w = "receiver" /\ receiver # "ended"
     \/ w = "receiver" /\ receiver = "reading"

ServerStep == ServerReads \/ (\E f \in Said : ServerSays(f)) \/ ServerWrites \/ ServerExits

LEMMA Steps ==
  ASSUME [Next]_vars
  PROVE  \/ SessionStep
         \/ \E m \in Methods : Forward(m)
         \/ TakeNext
         \/ \E w \in Writers : WriteChunk(w) \/ EndStep(w)
         \/ Receive
         \/ ServerStep
         \/ UNCHANGED vars
<1>1. CASE Spawn \/ (\E r \in Requests : MakeRequest(r)) \/ TimeOut \/ Close
  BY <1>1, Zenon DEF Spawn, SessionStep
<1>2. CASE SendTask
  BY <1>2 DEF SendTask, WriteFails, SeeClosing, EndStep, Writers
<1>3. CASE ReceiveTask
  BY <1>3 DEF ReceiveTask, WriteFails, SeeClosing, ReadEnds, ReadFails, EndStep, Writers
<1>4. CASE ServerReads \/ (\E f \in Said : ServerSays(f)) \/ ServerWrites \/ ServerExits
  BY <1>4, Zenon DEF ServerStep
<1> QED
  BY <1>1, <1>2, <1>3, <1>4, Zenon DEF Next

\* The session only queues messages, and `initialized` only when it may.
Queued(m) == m \in Messages \cup Registrations /\ (m = Initialized => subscribed = Methods)

LEMMA SessionMoves ==
  ASSUME TypeInv, OverInv, SessionStep
  PROVE  /\ UNCHANGED <<sender, receiver, outgoing, taken, pipeVars, hubVars,
                        owed, consumed, patient>>
         /\ queue' = queue \/ \E m : Queued(m) /\ queue' = Append(queue, m)
         /\ SessionTypes' /\ OverInv'
         /\ child' = "up" => child = "up"
<1> USE DEF TypeInv, SessionTypes, OverInv, Over, Queued
<1>0. patient \in BOOLEAN /\ accepted \in Seq(Messages)
  OBVIOUS
<1>1. ASSUME NEW m \in Messages, Accept(m)
      PROVE  queue' = Append(queue, m) /\ accepted' \in Seq(Messages)
  BY <1>0, <1>1 DEF Accept
<1>2. CASE Initialize
  <2>1. Request(Handshake) \in Messages /\ Request(Handshake) # Initialized
    BY MessageFacts
  <2> QED
    BY <1>1, <1>2, <2>1 DEF Initialize, serverVars
<1>3. ASSUME NEW r \in Requests, MakeRequest(r)
      PROVE  /\ UNCHANGED <<sender, receiver, outgoing, taken, pipeVars, hubVars,
                            owed, consumed, patient>>
             /\ queue' = queue \/ \E m : Queued(m) /\ queue' = Append(queue, m)
             /\ SessionTypes' /\ OverInv'
             /\ child' = "up" => child = "up"
  <2>1. Request(r) \in Messages /\ Request(r) # Initialized
    BY MessageFacts
  <2> QED
    BY <1>1, <1>3, <2>1 DEF MakeRequest, serverVars
<1>4. ASSUME NEW m \in Methods, Subscribe(m)
      PROVE  /\ UNCHANGED <<sender, receiver, outgoing, taken, pipeVars, hubVars,
                            owed, consumed, patient>>
             /\ queue' = queue \/ \E n : Queued(n) /\ queue' = Append(queue, n)
             /\ SessionTypes' /\ OverInv'
             /\ child' = "up" => child = "up"
  <2>1. Registration(m) \in Registrations /\ Registration(m) # Initialized
    BY MessageFacts
  <2> QED
    BY <1>4, <2>1 DEF Subscribe, serverVars
<1>5. CASE SendInitialized
  BY <1>1, <1>5, MessageFacts DEF SendInitialized, AllSubscribed, serverVars
<1>6. CASE Refused \/ TimeOut
  BY <1>6 DEF Refused, TimeOut, Broken, taskVars
<1>7. CASE StartupFails \/ Close
  BY <1>7 DEF StartupFails, Close, taskVars
<1> QED
  BY <1>2, <1>3, <1>4, <1>5, <1>6, <1>7 DEF SessionStep

------------------------------------------------------------------------------
\* Types.

LEMMA SessionTypesKept ==
  ASSUME TypeInv, OverInv, [Next]_vars
  PROVE  SessionTypes'
<1> USE DEF TypeInv, SessionTypes
<1>1. CASE SessionStep
  BY <1>1, SessionMoves
<1>2. ASSUME NEW m \in Methods, Forward(m) PROVE SessionTypes'
  BY <1>2 DEF Forward, sessionVars, serverVars
<1>3. CASE TakeNext
  BY <1>3 DEF TakeNext, serverVars
<1>4. ASSUME NEW w \in Writers, WriteChunk(w) \/ EndStep(w) PROVE SessionTypes'
  BY <1>4 DEF WriteChunk, EndStep, End, sessionVars, serverVars
<1>5. CASE Receive
  <2>1. UNCHANGED <<child, patient, made, accepted>>
    BY <1>5 DEF Receive, serverVars
  <2>2. /\ awaiting' \in {None, Handshake} \cup Methods \cup Requests
        /\ stage' \in {"start", "handshake", "dying", "subscribing", "live"} \cup Over
    BY <1>5 DEF Receive, Resume
  <2> QED
    BY <2>1, <2>2
<1>6. CASE ServerStep
  BY <1>6 DEF ServerStep, ServerReads, ServerSays, ServerWrites, ServerExits, sessionVars
<1>7. CASE UNCHANGED vars
  BY <1>7 DEF vars, sessionVars, serverVars
<1> QED
  BY <1>1, <1>2, <1>3, <1>4, <1>5, <1>6, <1>7, Steps

LEMMA TaskTypesKept ==
  ASSUME TypeInv, LockInv, OverInv, [Next]_vars
  PROVE  TaskTypes'
<1>0. /\ TaskTypes /\ queue \in Seq(Messages \cup Registrations)
      /\ outgoing \in [Writers -> Frames \cup {None}] /\ Chunks \in Nat \ {0}
      /\ written \in 0..(Chunks - 1) /\ written \in Nat
  BY DEF TypeInv, TaskTypes
<1>1. CASE SessionStep
  <2>1. queue' \in Seq(Messages \cup Registrations)
    BY SMTT(30), <1>0, <1>1, SessionMoves DEF Queued
  <2> QED
    BY <1>0, <1>1, <2>1, SessionMoves DEF TaskTypes, pipeVars
<1>2. ASSUME NEW m \in Methods, Forward(m) PROVE TaskTypes'
  BY <1>0, <1>2 DEF Forward, taskVars, pipeVars, TaskTypes
<1>3. CASE TakeNext
  <2>1. Head(queue) \in Messages \cup Registrations /\ Tail(queue) \in Seq(Messages \cup Registrations)
    BY <1>0, <1>3, WithoutTheHead DEF TakeNext
  <2>2. CASE Head(queue) \in Registrations
    BY <1>0, <1>3, <2>1, <2>2 DEF TakeNext, TaskTypes
  <2>3. CASE Head(queue) \notin Registrations
    <3>1. Head(queue) \in Frames
      BY <2>1, <2>3 DEF Frames
    <3> QED
      BY <1>0, <1>3, <2>1, <2>3, <3>1 DEF TakeNext, TaskTypes
  <2> QED
    BY <2>2, <2>3
<1>4. ASSUME NEW w \in Writers, WriteChunk(w) PROVE TaskTypes'
  <2>1. CASE written + 1 = Chunks
    BY <1>0, <1>4, <2>1 DEF WriteChunk, SetTask, Idle, TaskTypes, Writers
  <2>2. CASE written + 1 # Chunks
    BY <1>0, <1>4, <2>2 DEF WriteChunk, SetTask, TaskTypes, Writers
  <2> QED
    BY <2>1, <2>2
<1>5. ASSUME NEW w \in Writers, EndStep(w) PROVE TaskTypes'
  BY <1>0, <1>5 DEF EndStep, End, SetTask, TaskTypes
<1>6. CASE Receive
  <2> DEFINE f == toClient[taken + 1]
  <2>1. f \in Outputs /\ (f.kind = "ask" => Ack(f.id) \in Frames)
    <3>1. toClient \in Seq(Outputs) /\ taken + 1 \in 1..Len(toClient)
      <4>1. taken < Len(toClient)
        BY <1>6, Zenon DEF Receive
      <4>2. toClient \in Seq(Outputs) /\ taken \in 0..Len(toClient)
        BY Zenon DEF TypeInv, PipeTypes
      <4> QED
        BY <4>1, <4>2, LenProperties
    <3> QED
      BY <3>1, OutputFacts, MessageFacts
  <2> HIDE DEF f
  <2>2. UNCHANGED <<queue, sender, written>>
    BY <1>6 DEF Receive
  <2>3. CASE f.kind = "ask"
    BY <1>0, <1>6, <2>1, <2>2, <2>3 DEF Receive, TaskTypes, f
  <2>4. CASE f.kind # "ask"
    BY <1>0, <1>6, <2>2, <2>4 DEF Receive, TaskTypes, f
  <2> QED
    BY <2>3, <2>4
<1>7. CASE ServerStep
  BY <1>0, <1>7 DEF ServerStep, ServerReads, ServerSays, ServerWrites, ServerExits, taskVars,
       pipeVars, TaskTypes
<1>8. CASE UNCHANGED vars
  BY <1>0, <1>8 DEF vars, taskVars, pipeVars, TaskTypes
<1> QED
  BY <1>1, <1>2, <1>3, <1>4, <1>5, <1>6, <1>7, <1>8, Steps

LEMMA PipeTypesKept ==
  ASSUME TypeInv, LockInv, OverInv, [Next]_vars
  PROVE  PipeTypes'
<1> DEFINE Chunk == [frame : Frames, part : 1..Chunks]
<1>0. /\ PipeTypes /\ toServer \in Seq(Chunk) /\ consumed \in 0..Len(toServer)
      /\ toClient \in Seq(Outputs) /\ taken \in 0..Len(toClient) /\ owed \in Seq(Outputs)
      /\ Len(toServer) \in Nat /\ Len(toClient) \in Nat
  BY DEF TypeInv, PipeTypes
<1>1. CASE UNCHANGED <<toServer, toClient, owed, consumed, taken>>
  BY <1>0, <1>1 DEF PipeTypes
<1>2. CASE SessionStep
  BY <1>1, <1>2, SessionMoves DEF pipeVars
<1>3. ASSUME NEW m \in Methods, Forward(m) PROVE PipeTypes'
  BY <1>1, <1>3 DEF Forward, pipeVars, taskVars, serverVars
<1>4. CASE TakeNext
  BY <1>1, <1>4 DEF TakeNext, serverVars
<1>5. ASSUME NEW w \in Writers, WriteChunk(w) PROVE PipeTypes'
  <2> DEFINE c == [frame |-> outgoing[w], part |-> written + 1]
  <2>1. outgoing[w] \in Frames
    BY <1>5, Leaving DEF WriteChunk, LockInv, TypeInv, TaskTypes
  <2>2. c \in Chunk
    BY <2>1 DEF TypeInv, TaskTypes
  <2>3. toServer' = Append(toServer, c) /\ UNCHANGED <<consumed, toClient, taken, owed>>
    BY <1>5 DEF WriteChunk, serverVars
  <2> HIDE DEF c, Chunk
  <2>4. toServer' \in Seq(Chunk) /\ Len(toServer') = Len(toServer) + 1
    BY <1>0, <2>2, <2>3
  <2> QED
    BY <1>0, <2>3, <2>4 DEF PipeTypes, Chunk
<1>6. ASSUME NEW w \in Writers, EndStep(w) PROVE PipeTypes'
  BY <1>1, <1>6 DEF EndStep, End, serverVars
<1>7. CASE Receive
  <2>1. taken < Len(toClient) /\ taken' = taken + 1 /\ UNCHANGED <<consumed, owed, toServer, toClient>>
    BY <1>7 DEF Receive, serverVars
  <2> QED
    BY SMTT(30), <1>0, <2>1 DEF PipeTypes
<1>8. CASE ServerReads
  <2> DEFINE c == toServer[consumed + 1]
  <2>1. c \in Chunk /\ consumed' = consumed + 1 /\ consumed + 1 \in 0..Len(toServer)
        /\ UNCHANGED <<toServer, toClient, taken>>
    <3>1. consumed < Len(toServer) /\ consumed' = consumed + 1
          /\ UNCHANGED <<toServer, toClient, taken>>
      BY <1>8 DEF ServerReads, pipeVars, taskVars
    <3>2. consumed + 1 \in 1..Len(toServer)
      BY <1>0, <3>1
    <3>3. c \in Chunk
      BY <1>0, <3>2, ElementOfSeq
    <3> QED
      BY <3>1, <3>2, <3>3
  <2>2. owed' \in Seq(Outputs)
    <3>1. c.frame.kind = "request" => Response(c.frame.id) \in Outputs
      BY <2>1, MessageFacts, OutputFacts
    <3> QED
      BY SMTT(30), <1>0, <1>8, <3>1 DEF ServerReads
  <2> QED
    BY <1>0, <2>1, <2>2 DEF PipeTypes
<1>9. ASSUME NEW f \in Said, ServerSays(f) PROVE PipeTypes'
  BY <1>0, <1>9, OutputFacts DEF ServerSays, pipeVars, taskVars, PipeTypes
<1>10. CASE ServerWrites
  BY SMTT(30), <1>0, <1>10 DEF ServerWrites, taskVars, PipeTypes
<1>11. CASE ServerExits
  BY <1>1, <1>11 DEF ServerExits, pipeVars, taskVars
<1>12. CASE UNCHANGED vars
  BY <1>1, <1>12 DEF vars, pipeVars, taskVars, serverVars
<1> QED
  BY <1>2, <1>3, <1>4, <1>5, <1>6, <1>7, <1>8, <1>9, <1>10, <1>11, <1>12, Steps DEF ServerStep

LEMMA FeedTypesKept ==
  ASSUME TypeInv, OverInv, [Next]_vars
  PROVE  FeedTypes'
<1>0. /\ FeedTypes /\ subscribed \subseteq Methods /\ inbox \in [Methods -> Seq(Notices)]
      /\ published \in Seq(Notices) /\ dropped \subseteq Methods
  BY DEF TypeInv, FeedTypes
<1>1. CASE UNCHANGED hubVars
  BY <1>0, <1>1 DEF FeedTypes, hubVars
<1>2. CASE SessionStep
  BY <1>1, <1>2, SessionMoves
<1>3. ASSUME NEW m \in Methods, Forward(m) PROVE FeedTypes'
  BY <1>0, <1>3 DEF Forward, FeedTypes
<1>4. CASE TakeNext
  <2>1. Head(queue) \in Registrations => Head(queue).id \in Methods
    BY <1>4, MessageFacts DEF TypeInv, TaskTypes
  <2> QED
    BY <1>0, <1>4, <2>1 DEF TakeNext, FeedTypes
<1>5. ASSUME NEW w \in Writers, WriteChunk(w) \/ EndStep(w) PROVE FeedTypes'
  BY <1>1, <1>5 DEF WriteChunk, EndStep, End
<1>6. CASE Receive
  <2> DEFINE f == toClient[taken + 1]
  <2>1. f.kind = "notice" => f.id \in Notices /\ Method[f.id] \in Methods
    <3>1. toClient \in Seq(Outputs) /\ taken + 1 \in 1..Len(toClient)
      <4>1. taken < Len(toClient)
        BY <1>6, Zenon DEF Receive
      <4>2. toClient \in Seq(Outputs) /\ taken \in 0..Len(toClient)
        BY Zenon DEF TypeInv, PipeTypes
      <4> QED
        BY <4>1, <4>2, LenProperties
    <3> QED
      BY <3>1, OutputFacts
  <2>2. \/ UNCHANGED <<inbox, dropped>>
        \/ f.kind = "notice" /\ inbox' = inbox /\ dropped' = dropped \cup {Method[f.id]}
        \/ /\ f.kind = "notice" /\ UNCHANGED dropped
           /\ inbox' = [inbox EXCEPT ![Method[f.id]] = Append(inbox[Method[f.id]], f.id)]
    BY <1>6 DEF Receive, Deliver
  <2>3. UNCHANGED <<subscribed, published>>
    BY <1>6 DEF Receive
  <2> HIDE DEF f
  <2>4. CASE UNCHANGED <<inbox, dropped>>
    BY <1>0, <2>3, <2>4 DEF FeedTypes
  <2>5. CASE f.kind = "notice" /\ inbox' = inbox /\ dropped' = dropped \cup {Method[f.id]}
    BY <1>0, <2>1, <2>3, <2>5 DEF FeedTypes
  <2>6. ASSUME f.kind = "notice", UNCHANGED dropped,
               inbox' = [inbox EXCEPT ![Method[f.id]] = Append(inbox[Method[f.id]], f.id)]
        PROVE  FeedTypes'
    <3>1. Append(inbox[Method[f.id]], f.id) \in Seq(Notices)
      BY <1>0, <2>1, <2>6
    <3> QED
      BY <1>0, <2>1, <2>3, <2>6, <3>1 DEF FeedTypes
  <2> QED
    BY <2>2, <2>4, <2>5, <2>6
<1>7. CASE ServerStep
  BY <1>1, <1>7 DEF ServerStep, ServerReads, ServerSays, ServerWrites, ServerExits
<1>8. CASE UNCHANGED vars
  BY <1>1, <1>8 DEF vars
<1> QED
  BY <1>2, <1>3, <1>4, <1>5, <1>6, <1>7, <1>8, Steps

LEMMA TypesKept ==
  ASSUME TypeInv, LockInv, OverInv, [Next]_vars
  PROVE  TypeInv'
BY SessionTypesKept, TaskTypesKept, PipeTypesKept, FeedTypesKept, Zenon DEF TypeInv

------------------------------------------------------------------------------
\* The two writers.

LEMMA OverKept == ASSUME TypeInv, OverInv, [Next]_vars PROVE OverInv'
<1>1. CASE SessionStep
  BY <1>1, SessionMoves
<1>2. CASE UNCHANGED <<stage, child>>
  BY <1>2 DEF OverInv
<1>3. CASE (\E m \in Methods : Forward(m)) \/ TakeNext
  BY <1>2, <1>3 DEF Forward, TakeNext, sessionVars, serverVars
<1>4. ASSUME NEW w \in Writers, WriteChunk(w) \/ EndStep(w) PROVE OverInv'
  BY <1>2, <1>4 DEF WriteChunk, EndStep, End, sessionVars, serverVars
<1>5. CASE Receive
  BY <1>5 DEF Receive, Resume, serverVars, OverInv, Over
<1>6. CASE ServerStep
  BY <1>6 DEF ServerStep, ServerReads, ServerSays, ServerWrites, ServerExits, sessionVars, OverInv
<1>7. CASE UNCHANGED vars
  BY <1>2, <1>7 DEF vars, sessionVars, serverVars
<1> QED
  BY <1>1, <1>3, <1>4, <1>5, <1>6, <1>7, Steps

\* A step that moves neither the tasks nor the mutex.
LEMMA StillTasks ==
  ASSUME TypeInv, [Next]_vars, OverInv,
         SessionStep \/ (\E m \in Methods : Forward(m)) \/ ServerStep \/ UNCHANGED vars
  PROVE  /\ UNCHANGED <<sender, receiver, outgoing, lock, written, toServer>>
         /\ child' = "up" => child = "up"
<1>1. CASE SessionStep
  BY <1>1, SessionMoves DEF pipeVars
<1>2. CASE \E m \in Methods : Forward(m)
  BY <1>2 DEF Forward, taskVars, pipeVars, serverVars
<1>3. CASE ServerStep
  BY <1>3 DEF ServerStep, ServerReads, ServerSays, ServerWrites, ServerExits, taskVars, pipeVars
<1>4. CASE UNCHANGED vars
  BY <1>4 DEF vars, taskVars, pipeVars, serverVars
<1> QED
  BY <1>1, <1>2, <1>3, <1>4

\* A task that has nothing to write takes a frame and queues for the mutex, or does not.
LEMMA TakingAFrame ==
  ASSUME TypeInv, LockInv, TakeNext \/ Receive
  PROVE  /\ UNCHANGED <<written, toServer, child>>
         /\ sender = "ended" <=> sender' = "ended"
         /\ receiver = "ended" <=> receiver' = "ended"
         /\ ~(sender = "ended" /\ receiver = "ended")
         /\ \/ UNCHANGED <<sender, receiver, outgoing, lock>>
            \/ \E w \in Writers, f \in Frames :
                 /\ outgoing[w] = None /\ ~In(lock, w)
                 /\ outgoing' = [outgoing EXCEPT ![w] = f]
                 /\ lock' = Append(lock, w)
                 /\ sender' = IF w = "sender" THEN "waiting" ELSE sender
                 /\ receiver' = IF w = "receiver" THEN "waiting" ELSE receiver
<1>1. CASE TakeNext
  <2>1. UNCHANGED <<written, toServer, child, receiver>> /\ sender = "idle"
    BY <1>1 DEF TakeNext, serverVars
  <2>2. outgoing["sender"] = None /\ ~In(lock, "sender")
    BY <2>1 DEF LockInv, Writers
  <2>3. CASE Head(queue) \in Registrations
    BY <1>1, <2>1, <2>3 DEF TakeNext
  <2>4. CASE Head(queue) \notin Registrations
    <3>1. Head(queue) \in Frames
      BY <1>1, <2>4, MessageFacts, WithoutTheHead DEF TakeNext, TypeInv, TaskTypes, Frames
    <3>2. /\ sender' = "waiting" /\ outgoing' = [outgoing EXCEPT !["sender"] = Head(queue)]
          /\ lock' = Append(lock, "sender")
      BY <1>1, <2>4 DEF TakeNext
    <3> QED
      BY <2>1, <2>2, <3>1, <3>2 DEF Writers
  <2> QED
    BY <2>3, <2>4
<1>2. CASE Receive
  <2> DEFINE f == toClient[taken + 1]
  <2>1. UNCHANGED <<written, toServer, child, sender>> /\ receiver = "reading"
    BY <1>2 DEF Receive, serverVars
  <2>2. outgoing["receiver"] = None /\ ~In(lock, "receiver")
    BY <2>1 DEF LockInv, Writers
  <2>3. CASE f.kind = "ask"
    <3>1. Ack(f.id) \in Frames
      <4>1. toClient \in Seq(Outputs) /\ taken + 1 \in 1..Len(toClient)
        <5>1. taken < Len(toClient)
          BY <1>2 DEF Receive
        <5> QED
          BY <5>1 DEF TypeInv, PipeTypes
      <4> QED
        BY <2>3, <4>1, OutputFacts, MessageFacts
    <3>2. /\ receiver' = "waiting" /\ outgoing' = [outgoing EXCEPT !["receiver"] = Ack(f.id)]
          /\ lock' = Append(lock, "receiver")
      BY <1>2, <2>3 DEF Receive
    <3> QED
      BY <2>1, <2>2, <3>1, <3>2 DEF Writers
  <2>4. CASE f.kind # "ask"
    BY <1>2, <2>1, <2>4 DEF Receive
  <2> QED
    BY <2>3, <2>4
<1> QED
  BY <1>1, <1>2

LEMMA LockKept ==
  ASSUME TypeInv, LockInv, OverInv, [Next]_vars
  PROVE  LockInv'
<1>0. /\ outgoing \in [Writers -> Frames \cup {None}] /\ lock \in Locks
      /\ \A w \in Writers : outgoing[w] # None <=> In(lock, w)
      /\ sender \in {"waiting", "writing"} <=> In(lock, "sender")
      /\ receiver \in {"waiting", "writing"} <=> In(lock, "receiver")
      /\ "sender" \in Writers /\ "receiver" \in Writers
  BY DEF TypeInv, TaskTypes, LockInv, Writers
<1>1. CASE UNCHANGED <<sender, receiver, outgoing, lock>>
  BY <1>0, <1>1 DEF LockInv, In
<1>2. CASE SessionStep \/ (\E m \in Methods : Forward(m)) \/ ServerStep \/ UNCHANGED vars
  BY <1>1, <1>2, StillTasks
<1>3. CASE TakeNext \/ Receive
  <2>1. ASSUME NEW w \in Writers, NEW f \in Frames,
               outgoing[w] = None, ~In(lock, w),
               outgoing' = [outgoing EXCEPT ![w] = f],
               lock' = Append(lock, w),
               sender' = IF w = "sender" THEN "waiting" ELSE sender,
               receiver' = IF w = "receiver" THEN "waiting" ELSE receiver
        PROVE  LockInv'
    <3>1. /\ lock' \in Locks
          /\ \A v \in Writers : In(lock', v) <=> In(lock, v) \/ v = w
      BY <1>0, <2>1, Queueing
    <3>2. f # None
      BY MessageFacts
    <3>3. \A v \in Writers : outgoing'[v] = IF v = w THEN f ELSE outgoing[v]
      BY <1>0, <2>1
    <3> QED
      BY <1>0, <2>1, <3>1, <3>2, <3>3 DEF LockInv, Writers
  <2> QED
    BY <1>1, <1>3, <2>1, TakingAFrame
<1>4. ASSUME NEW w \in Writers, WriteChunk(w) PROVE LockInv'
  <2>1. In(lock, w)
    BY <1>0, <1>4, Leaving DEF WriteChunk
  <2>2. CASE written + 1 = Chunks
    <3>1. /\ lock' = Without(w) /\ outgoing' = [outgoing EXCEPT ![w] = None]
          /\ sender' = IF w = "sender" THEN "idle" ELSE sender
          /\ receiver' = IF w = "receiver" THEN "reading" ELSE receiver
      BY <1>4, <2>2 DEF WriteChunk, SetTask, Idle, Writers
    <3>2. /\ lock' \in Locks
          /\ \A v \in Writers : In(lock', v) <=> In(lock, v) /\ v # w
      BY <1>0, <3>1, Leaving
    <3>3. \A v \in Writers : outgoing'[v] = IF v = w THEN None ELSE outgoing[v]
      BY <1>0, <3>1
    <3> QED
      BY <1>0, <3>1, <3>2, <3>3 DEF LockInv, Writers
  <2>3. CASE written + 1 # Chunks
    <3>1. /\ lock' = lock /\ outgoing' = outgoing
          /\ sender' = IF w = "sender" THEN "writing" ELSE sender
          /\ receiver' = IF w = "receiver" THEN "writing" ELSE receiver
      BY <1>4, <2>3 DEF WriteChunk, SetTask
    <3> QED
      BY <1>0, <2>1, <3>1 DEF LockInv, Writers
  <2> QED
    BY <2>2, <2>3
<1>5. ASSUME NEW w \in Writers, EndStep(w) PROVE LockInv'
  <2>1. /\ lock' = Without(w) /\ outgoing' = [outgoing EXCEPT ![w] = None]
        /\ sender' = IF w = "sender" THEN "ended" ELSE sender
        /\ receiver' = IF w = "receiver" THEN "ended" ELSE receiver
    BY <1>5 DEF EndStep, End, SetTask
  <2>2. /\ lock' \in Locks
        /\ \A v \in Writers : In(lock', v) <=> In(lock, v) /\ v # w
    BY <1>0, <2>1, Leaving
  <2>3. \A v \in Writers : outgoing'[v] = IF v = w THEN None ELSE outgoing[v]
    BY <1>0, <2>1
  <2> QED
    BY <1>0, <2>1, <2>2, <2>3 DEF LockInv, Writers
<1> QED
  BY <1>2, <1>3, <1>4, <1>5, Steps

\* A writer that ends in the middle of a frame is the last one to write, if the child
\* still reads at all.
LEMMA EndingsAreFinal ==
  ASSUME TypeInv, LockInv, OverInv, NEW w \in Writers, EndStep(w), child' = "up",
         ~(sender' = "ended" /\ receiver' = "ended")
  PROVE  /\ ~In(lock, w)
         /\ ~(sender = "ended" /\ receiver = "ended")
<1>1. child = "up"
  BY DEF EndStep, End, serverVars
<1>2. /\ sender' = IF w = "sender" THEN "ended" ELSE sender
      /\ receiver' = IF w = "receiver" THEN "ended" ELSE receiver
  BY DEF EndStep, End, SetTask
<1>3. CASE w = "sender"
  <2>1. sender = "idle"
    BY <1>1, <1>3 DEF EndStep
  <2> QED
    BY <1>3, <2>1 DEF LockInv
<1>4. CASE w = "receiver" /\ receiver = "reading"
  BY <1>4 DEF LockInv
<1>5. CASE w = "receiver" /\ Closing /\ receiver # "ended"
  <2>1. sender = "ended"
    BY <1>1, <1>5 DEF Closing, OverInv
  <2> QED
    BY <1>2, <1>5, <2>1
<1> QED
  BY <1>1, <1>3, <1>4, <1>5 DEF EndStep, Writers

LEMMA WholeKept ==
  ASSUME TypeInv, LockInv, OverInv, BoundaryInv, FramesAreWhole, [Next]_vars
  PROVE  BoundaryInv' /\ FramesAreWhole'
<1> DEFINE Chunk == [frame : Frames, part : 1..Chunks]
           n == Len(toServer)
<1>0. /\ outgoing \in [Writers -> Frames \cup {None}] /\ lock \in Locks
      /\ toServer \in Seq(Chunk) /\ n \in Nat /\ DOMAIN toServer = 1..n
      /\ Chunks \in Nat /\ Chunks # 0 /\ written \in Nat /\ written < Chunks
  BY DEF TypeInv, TaskTypes, PipeTypes, LockInv
<1>1. CASE UNCHANGED <<sender, receiver, outgoing, lock, written, toServer>>
           /\ (child' = "up" => child = "up")
  BY <1>1 DEF BoundaryInv, FramesAreWhole
<1>2. CASE SessionStep \/ (\E m \in Methods : Forward(m)) \/ ServerStep \/ UNCHANGED vars
  BY <1>1, <1>2, StillTasks
<1>3. CASE TakeNext \/ Receive
  <2>1. FramesAreWhole'
    BY <1>3, TakingAFrame DEF FramesAreWhole
  <2>2. CASE UNCHANGED <<sender, receiver, outgoing, lock>>
    BY <1>1, <1>3, <2>2, TakingAFrame
  <2>3. ASSUME NEW w \in Writers, NEW f \in Frames, ~In(lock, w),
               outgoing' = [outgoing EXCEPT ![w] = f], lock' = Append(lock, w)
        PROVE  BoundaryInv'
    <3>1. /\ UNCHANGED <<written, toServer, child>> /\ ~(sender = "ended" /\ receiver = "ended")
      BY <1>3, TakingAFrame
    <3>2. lock # <<>> => lock' # <<>> /\ Head(lock') = Head(lock)
                         /\ outgoing'[Head(lock)] = outgoing[Head(lock)]
      BY <1>0, <2>3, Queueing
    <3> QED
      BY <3>1, <3>2 DEF BoundaryInv
  <2> QED
    BY <1>3, <2>1, <2>2, <2>3, TakingAFrame
<1>4. ASSUME NEW w \in Writers, WriteChunk(w) PROVE BoundaryInv' /\ FramesAreWhole'
  <2> DEFINE c == [frame |-> outgoing[w], part |-> written + 1]
  <2>1. /\ lock # <<>> /\ Head(lock) = w /\ child = "up" /\ toServer' = Append(toServer, c)
    BY <1>4 DEF WriteChunk, Holds
  <2>2. In(lock, w) /\ ~(sender = "ended" /\ receiver = "ended")
    BY <1>0, <1>4, Leaving DEF WriteChunk, LockInv, Writers
  <2>3. c \in Chunk
    <3>1. outgoing[w] \in Frames
      BY <1>0, <2>2 DEF LockInv
    <3>2. written + 1 \in 1..Chunks
      BY <1>0
    <3> QED
      BY <3>1, <3>2
  <2>4. /\ toServer' # <<>> /\ Len(toServer') = n + 1 /\ toServer'[n + 1] = c
        /\ DOMAIN toServer' = 1..(n + 1)
        /\ \A i \in 1..n : toServer'[i] = toServer[i]
        /\ \A i \in 1..(n + 1) : i = n + 1 \/ i \in 1..n
    <3> HIDE DEF c, Chunk, n
    <3> QED
      BY SMTT(30), <1>0, <2>1, <2>3, AtTheEnd DEF n
  <2>5. c.frame = outgoing[w] /\ c.part = written + 1
    OBVIOUS
  <2>6. IF written = 0 THEN n > 0 => toServer[n].part = Chunks
        ELSE n > 0 /\ toServer[n] = [frame |-> outgoing[w], part |-> written]
    BY <1>0, <2>1, <2>2 DEF BoundaryInv
  <2>7. toServer[n].part \in 1..Chunks \/ n = 0
    <3>1. n # 0 => toServer[n] \in Chunk
      <4>1. n # 0 => n \in 1..Len(toServer)
        BY <1>0
      <4> HIDE DEF Chunk, n
      <4> QED
        BY <1>0, <4>1, ElementOfSeq
    <3> QED
      BY <3>1
  <2> HIDE DEF c, Chunk, n
  <2>8. FramesAreWhole'
    <3> SUFFICES ASSUME NEW i \in 1..(n + 1)
                 PROVE  IF i > 1 /\ toServer'[i - 1].part < Chunks
                          THEN toServer'[i] = [frame |-> toServer'[i - 1].frame,
                                               part |-> toServer'[i - 1].part + 1]
                          ELSE toServer'[i].part = 1
      BY <2>4 DEF FramesAreWhole
    <3>1. CASE i \in 1..n
      <4>1. i > 1 => i - 1 \in 1..n
        BY <1>0, <3>1
      <4> QED
        BY <1>0, <2>4, <3>1, <4>1 DEF FramesAreWhole
    <3>2. CASE i = n + 1
      <4>1. i - 1 = n /\ (i > 1 <=> n > 0) /\ (i > 1 => i - 1 \in 1..n)
        BY <1>0, <3>2
      <4>2. i > 1 => toServer'[i - 1] = toServer[n]
        BY <2>4, <4>1
      <4>3. CASE written = 0
        <5>1. ~(i > 1 /\ toServer'[i - 1].part < Chunks)
          BY <1>0, <2>6, <4>1, <4>2, <4>3
        <5>2. toServer'[i].part = 1
          BY <2>4, <2>5, <3>2, <4>3
        <5> QED
          BY <5>1, <5>2, Zenon
      <4>4. CASE written # 0
        <5>1. /\ toServer[n].part = written /\ toServer[n].frame = outgoing[w]
              /\ i > 1 /\ toServer'[i - 1].part < Chunks
          BY <1>0, <2>6, <4>1, <4>2, <4>4
        <5>2. toServer'[i] = [frame |-> outgoing[w], part |-> written + 1]
          BY <2>4, <3>2 DEF c
        <5>3. toServer'[i] = [frame |-> toServer'[i - 1].frame, part |-> toServer'[i - 1].part + 1]
          BY <4>2, <5>1, <5>2
        <5> QED
          BY <5>1, <5>3, Zenon
      <4> QED
        BY <4>3, <4>4
    <3> QED
      BY <2>4, <3>1, <3>2
  <2>9. BoundaryInv'
    <3>1. CASE written + 1 = Chunks
      <4>1. written' = 0
        BY <1>4, <3>1 DEF WriteChunk
      <4> QED
        BY <2>4, <2>5, <3>1, <4>1 DEF BoundaryInv
    <3>2. CASE written + 1 # Chunks
      <4>1. written' = written + 1 /\ lock' = lock /\ outgoing' = outgoing /\ written + 1 # 0
        BY <1>0, <1>4, <3>2 DEF WriteChunk
      <4> QED
        BY <2>1, <2>4, <4>1 DEF BoundaryInv, c
    <3> QED
      BY <3>1, <3>2
  <2> QED
    BY <2>8, <2>9
<1>5. ASSUME NEW w \in Writers, EndStep(w) PROVE BoundaryInv' /\ FramesAreWhole'
  <2>1. /\ toServer' = toServer /\ child' = child /\ lock' = Without(w)
        /\ written' = IF Holds(w) THEN 0 ELSE written
        /\ outgoing' = [outgoing EXCEPT ![w] = None]
    BY <1>5 DEF EndStep, End, serverVars
  <2>2. FramesAreWhole'
    BY <2>1 DEF FramesAreWhole
  <2>3. ASSUME child' = "up", ~(sender' = "ended" /\ receiver' = "ended")
        PROVE  BoundaryInv'
    <3>1. ~In(lock, w) /\ ~(sender = "ended" /\ receiver = "ended") /\ child = "up"
      BY <1>5, <2>1, <2>3, EndingsAreFinal
    <3>2. lock' = lock /\ written' = written
      BY <1>0, <2>1, <3>1, Leaving
    <3>3. lock # <<>> => Head(lock) # w /\ outgoing'[Head(lock)] = outgoing[Head(lock)]
      BY <1>0, <2>1, <3>1, Queueing
    <3> QED
      BY <2>1, <3>1, <3>2, <3>3 DEF BoundaryInv
  <2> QED
    BY <2>2, <2>3 DEF BoundaryInv
<1> QED
  BY <1>2, <1>3, <1>4, <1>5, Steps

------------------------------------------------------------------------------
\* The start: `initialized` after the subscriptions.

LEMMA EarlyKept ==
  ASSUME TypeInv, LockInv, OverInv, EarlyInv, [Next]_vars
  PROVE  EarlyInv'
<1> DEFINE Quiet(s) == \A i \in DOMAIN s : s[i].kind # "notice"
<1>1. subscribed # Methods \/ subscribed' = Methods
  <2>1. CASE TakeNext
    <3>1. Head(queue) \in Registrations => Head(queue).id \in Methods
      BY <2>1, MessageFacts DEF TakeNext, TypeInv, TaskTypes
    <3> QED
      BY <2>1, <3>1 DEF TakeNext
  <2>2. CASE SessionStep
    BY <2>2, SessionMoves DEF hubVars
  <2>3. CASE (\E m \in Methods : Forward(m)) \/ Receive
    BY <2>3 DEF Forward, Receive
  <2>4. ASSUME NEW w \in Writers, WriteChunk(w) \/ EndStep(w) PROVE subscribed' = subscribed
    BY <2>4 DEF WriteChunk, EndStep, End, hubVars
  <2>5. CASE ServerStep \/ UNCHANGED vars
    BY <2>5 DEF ServerStep, ServerReads, ServerSays, ServerWrites, ServerExits, vars, hubVars
  <2> QED
    BY <2>1, <2>2, <2>3, <2>4, <2>5, Steps
<1> SUFFICES ASSUME subscribed # Methods
             PROVE  /\ \A i \in DOMAIN queue' : queue'[i] # Initialized
                    /\ \A w \in Writers : outgoing'[w] # Initialized
                    /\ \A i \in DOMAIN toServer' : toServer'[i].frame # Initialized
                    /\ Quiet(owed')
                    /\ Quiet(toClient')
  BY <1>1 DEF EarlyInv
<1>0. /\ \A i \in DOMAIN queue : queue[i] # Initialized
      /\ \A w \in Writers : outgoing[w] # Initialized
      /\ \A i \in DOMAIN toServer : toServer[i].frame # Initialized
      /\ Quiet(owed)
      /\ Quiet(toClient)
  BY DEF EarlyInv
<1>2. /\ queue \in Seq(Messages \cup Registrations)
      /\ outgoing \in [Writers -> Frames \cup {None}]
      /\ toServer \in Seq([frame : Frames, part : 1..Chunks])
      /\ owed \in Seq(Outputs) /\ toClient \in Seq(Outputs)
  BY DEF TypeInv, TaskTypes, PipeTypes
<1>3. None # Initialized
  BY MessageFacts DEF Frames
<1> HIDE DEF Quiet
<1>4. CASE SessionStep
  <2>1. UNCHANGED <<outgoing, toServer, owed, toClient>>
    BY <1>4, SessionMoves DEF pipeVars
  <2>2. ASSUME NEW m, Queued(m), queue' = Append(queue, m)
        PROVE  \A i \in DOMAIN queue' : queue'[i] # Initialized
    <3>1. m # Initialized /\ m \in Messages \cup Registrations
      BY <2>2 DEF Queued
    <3> QED
      BY SMTT(30), <1>0, <1>2, <2>2, <3>1, AtTheEnd
  <2>3. \A i \in DOMAIN queue' : queue'[i] # Initialized
    BY <1>0, <1>4, <2>2, SessionMoves
  <2> QED
    BY <1>0, <2>1, <2>3
<1>5. CASE (\E m \in Methods : Forward(m)) \/ UNCHANGED vars
  BY <1>0, <1>5 DEF Forward, vars, taskVars, pipeVars, serverVars
<1>6. CASE TakeNext
  <2>1. UNCHANGED <<toServer, owed, toClient>> /\ queue' = Tail(queue) /\ queue # <<>>
    BY <1>6 DEF TakeNext, serverVars
  <2>2. Head(queue) # Initialized /\ \A i \in DOMAIN queue' : queue'[i] # Initialized
    BY <1>0, <1>2, <2>1, WithoutTheHead
  <2>3. outgoing' = outgoing \/ outgoing' = [outgoing EXCEPT !["sender"] = Head(queue)]
    BY <1>6 DEF TakeNext
  <2> QED
    BY <1>0, <1>2, <2>1, <2>2, <2>3
<1>7. ASSUME NEW w \in Writers, WriteChunk(w)
      PROVE  /\ \A i \in DOMAIN queue' : queue'[i] # Initialized
             /\ \A v \in Writers : outgoing'[v] # Initialized
             /\ \A i \in DOMAIN toServer' : toServer'[i].frame # Initialized
             /\ Quiet(owed')
             /\ Quiet(toClient')
  <2> DEFINE c == [frame |-> outgoing[w], part |-> written + 1]
  <2>1. /\ UNCHANGED <<queue, owed, toClient>> /\ toServer' = Append(toServer, c)
        /\ outgoing' = outgoing \/ outgoing' = [outgoing EXCEPT ![w] = None]
    BY <1>7 DEF WriteChunk, serverVars
  <2>2. c.frame # Initialized
    BY <1>0
  <2>3. /\ DOMAIN toServer' = 1..(Len(toServer) + 1) /\ toServer'[Len(toServer) + 1] = c
        /\ \A i \in 1..Len(toServer) : toServer'[i] = toServer[i] /\ i \in DOMAIN toServer
        /\ \A i \in 1..(Len(toServer) + 1) : i = Len(toServer) + 1 \/ i \in 1..Len(toServer)
    <3> HIDE DEF c
    <3> QED
      BY SMTT(45), <1>2, <2>1
  <2> HIDE DEF c
  <2> QED
    BY <1>0, <1>2, <1>3, <2>1, <2>2, <2>3
<1>8. ASSUME NEW w \in Writers, EndStep(w)
      PROVE  /\ \A i \in DOMAIN queue' : queue'[i] # Initialized
             /\ \A v \in Writers : outgoing'[v] # Initialized
             /\ \A i \in DOMAIN toServer' : toServer'[i].frame # Initialized
             /\ Quiet(owed')
             /\ Quiet(toClient')
  <2>1. /\ UNCHANGED <<toServer, owed, toClient>>
        /\ queue' = queue \/ queue' = <<>>
        /\ outgoing' = [outgoing EXCEPT ![w] = None]
    BY <1>8 DEF EndStep, End, serverVars
  <2>2. \A v \in Writers : outgoing'[v] # Initialized
    BY <1>0, <1>2, <1>3, <2>1
  <2>3. \A i \in DOMAIN queue' : queue'[i] # Initialized
    BY <1>0, <2>1
  <2> QED
    BY <1>0, <2>1, <2>2, <2>3
<1>9. CASE Receive
  <2> DEFINE f == toClient[taken + 1]
  <2>1. UNCHANGED <<queue, toServer, owed, toClient>>
    BY <1>9 DEF Receive, serverVars
  <2>2. outgoing' = outgoing \/ outgoing' = [outgoing EXCEPT !["receiver"] = Ack(f.id)]
    BY <1>9 DEF Receive
  <2>3. Ack(f.id) # Initialized
    BY DEF Ack, Initialized
  <2> HIDE DEF f
  <2> QED
    BY <1>0, <1>2, <2>1, <2>2, <2>3
<1>10. CASE ServerReads
  <2> DEFINE r == Response(toServer[consumed + 1].frame.id)
  <2>1. UNCHANGED <<queue, outgoing, toServer, toClient>>
    BY <1>10 DEF ServerReads, pipeVars, taskVars
  <2>2. r.kind # "notice"
    BY DEF Response
  <2>3. owed' = owed \/ (r \in Outputs /\ owed' = Append(owed, r))
    <3>1. consumed < Len(toServer)
      BY <1>10 DEF ServerReads
    <3>2. consumed + 1 \in 1..Len(toServer)
      BY <3>1 DEF TypeInv, PipeTypes
    <3>3. toServer[consumed + 1].frame \in Frames
      <4>1. toServer[consumed + 1] \in [frame : Frames, part : 1..Chunks]
        BY <1>2, <3>2, ElementOfSeq
      <4> QED
        BY <4>1
    <3>4. toServer[consumed + 1].frame.kind = "request" => r \in Outputs
      BY <3>3, MessageFacts, OutputFacts
    <3> QED
      BY <1>10, <3>4 DEF ServerReads
  <2> HIDE DEF r
  <2>4. Quiet(owed')
    <3>1. CASE owed' = owed
      BY <1>0, <3>1
    <3>2. ASSUME r \in Outputs, owed' = Append(owed, r) PROVE Quiet(owed')
      BY <1>0, <1>2, <2>2, <3>2, AtTheEnd DEF Quiet
    <3> QED
      BY <2>3, <3>1, <3>2
  <2> QED
    BY <1>0, <2>1, <2>4
<1>11. \A f \in Said : ~ServerSays(f)
  <2>1. \A i \in 1..consumed : toServer[i].frame # Initialized
    BY SMTT(30), <1>0, <1>2 DEF TypeInv, PipeTypes
  <2> QED
    BY <2>1 DEF ServerSays, HasHeard
<1>12. CASE ServerWrites
  <2>1. UNCHANGED <<queue, outgoing, toServer>> /\ owed # <<>>
        /\ toClient' = Append(toClient, Head(owed)) /\ owed' = Tail(owed)
    BY <1>12 DEF ServerWrites, taskVars
  <2>2. Head(owed).kind # "notice" /\ Quiet(owed') /\ Head(owed) \in Outputs
    BY <1>0, <1>2, <2>1, WithoutTheHead DEF Quiet
  <2>3. Quiet(toClient')
    BY <1>0, <1>2, <2>1, <2>2, AtTheEnd DEF Quiet
  <2> QED
    BY <1>0, <2>1, <2>2, <2>3
<1>13. CASE ServerExits
  BY <1>0, <1>13 DEF ServerExits, pipeVars, taskVars
<1> QED
  BY <1>4, <1>5, <1>6, <1>7, <1>8, <1>9, <1>10, <1>11, <1>12, <1>13, Steps DEF ServerStep

------------------------------------------------------------------------------
\* The notifications.

\* The steps that neither read a notification nor hand one on.
FeedStill == UNCHANGED <<taken, inbox, dropped, published>> /\ \A i \in 1..taken : toClient'[i] = toClient[i]

LEMMA FeedSteps ==
  ASSUME TypeInv, OverInv, [Next]_vars
  PROVE  FeedStill \/ Receive \/ \E m \in Methods : Forward(m)
<1>1. CASE SessionStep
  BY <1>1, SessionMoves DEF FeedStill, hubVars, pipeVars
<1>2. CASE TakeNext
  BY <1>2 DEF TakeNext, FeedStill
<1>3. ASSUME NEW w \in Writers, WriteChunk(w) \/ EndStep(w) PROVE FeedStill
  BY <1>3 DEF WriteChunk, EndStep, End, FeedStill, hubVars
<1>4. CASE ServerReads \/ (\E f \in Said : ServerSays(f)) \/ ServerExits \/ UNCHANGED vars
  BY <1>4 DEF ServerReads, ServerSays, ServerExits, FeedStill, vars, taskVars, pipeVars, hubVars
<1>5. CASE ServerWrites
  <2>1. /\ toClient' = Append(toClient, Head(owed)) /\ owed # <<>>
        /\ UNCHANGED <<taken, inbox, dropped, published>>
    BY <1>5 DEF ServerWrites, taskVars, hubVars
  <2>2. toClient \in Seq(Outputs) /\ Head(owed) \in Outputs /\ taken \in 0..Len(toClient)
    BY <2>1, WithoutTheHead DEF TypeInv, PipeTypes
  <2>3. \A i \in 1..taken : i \in 1..Len(toClient)
    BY <2>2
  <2> QED
    BY <2>1, <2>2, <2>3, AtTheEnd DEF FeedStill
<1> QED
  BY <1>1, <1>2, <1>3, <1>4, <1>5, Steps DEF ServerStep

\* A notification is kept by its method's subscription, or lost, that one being dropped.
Keeps(n) ==
  /\ Method[n] \notin dropped
  /\ inbox' = [inbox EXCEPT ![Method[n]] = Append(inbox[Method[n]], n)]
  /\ UNCHANGED dropped

Loses(n) ==
  /\ UNCHANGED inbox
  /\ dropped' = dropped \cup {Method[n]}
  /\ Method[n] \in dropped \/ Len(inbox[Method[n]]) >= BufferSize

\* What the receive task makes of the next frame.
LEMMA Receiving ==
  ASSUME TypeInv, EarlyInv, Receive
  PROVE  LET f == toClient[taken + 1] IN
         /\ taken' = taken + 1 /\ UNCHANGED <<toClient, published>>
         /\ \/ f.kind # "notice" /\ UNCHANGED <<inbox, dropped>>
            \/ /\ f.id \in Notices /\ f = Notice(f.id) /\ Method[f.id] \in Methods
               /\ \/ Keeps(f.id) \/ Loses(f.id)
<1> DEFINE f == toClient[taken + 1]
<1>1. taken' = taken + 1 /\ UNCHANGED <<toClient, published>> /\ taken < Len(toClient)
  BY DEF Receive
<1>2. toClient \in Seq(Outputs) /\ taken + 1 \in 1..Len(toClient)
  BY <1>1 DEF TypeInv, PipeTypes
<1>3. f.kind = "notice" => f.id \in Notices /\ f = Notice(f.id) /\ Method[f.id] \in Methods
  BY <1>2, OutputFacts
<1>4. f.kind = "notice" => subscribed = Methods
  BY <1>2 DEF EarlyInv
<1>5. IF f.kind = "notice" THEN Deliver(f.id) ELSE UNCHANGED <<inbox, dropped>>
  BY DEF Receive
<1>6. CASE f.kind = "notice"
  <2>1. Method[f.id] \in dropped \/ Method[f.id] \in subscribed \ dropped
    BY <1>3, <1>4, <1>6
  <2>2. Deliver(f.id)
    BY <1>5, <1>6
  <2> HIDE DEF f
  <2>3. Len(inbox[Method[f.id]]) \in Nat /\ BufferSize \in Nat
    BY <1>3, <1>6 DEF TypeInv, FeedTypes
  <2>4. Keeps(f.id) \/ Loses(f.id)
    BY <2>1, <2>2, <2>3 DEF Deliver, Keeps, Loses
  <2> QED
    BY <1>1, <1>3, <1>6, <2>4 DEF f
<1> QED
  BY <1>1, <1>5, <1>6

LEMMA InboxKept ==
  ASSUME TypeInv, EarlyInv, OverInv, InboxInv, [Next]_vars
  PROVE  InboxInv'
<1>0. inbox \in [Methods -> Seq(Notices)]
  BY DEF TypeInv, FeedTypes
<1>1. CASE FeedStill
  BY <1>1 DEF FeedStill, InboxInv
<1>2. ASSUME NEW m \in Methods, Forward(m) PROVE InboxInv'
  <2>1. inbox[m] # <<>> /\ inbox' = [inbox EXCEPT ![m] = Tail(inbox[m])]
    BY <1>2 DEF Forward
  <2>2. \A i \in DOMAIN Tail(inbox[m]) : Method[Tail(inbox[m])[i]] = m
    BY <1>0, <2>1, WithoutTheHead DEF InboxInv
  <2> QED
    BY <1>0, <2>1, <2>2 DEF InboxInv
<1>3. CASE Receive
  <2> DEFINE f == toClient[taken + 1]
  <2>1. CASE inbox' = inbox
    BY <2>1 DEF InboxInv
  <2>2. ASSUME f.id \in Notices, Method[f.id] \in Methods,
               inbox' = [inbox EXCEPT ![Method[f.id]] = Append(inbox[Method[f.id]], f.id)]
        PROVE  InboxInv'
    <3> DEFINE n == f.id
               s == inbox[Method[n]]
    <3>1. s \in Seq(Notices)
      BY <1>0, <2>2
    <3>2. \A i \in DOMAIN s : Method[s[i]] = Method[n]
      BY <2>2 DEF InboxInv
    <3> HIDE DEF n, s
    <3>3. \A i \in DOMAIN Append(s, n) : Method[Append(s, n)[i]] = Method[n]
      BY <2>2, <3>1, <3>2, AtTheEnd DEF n
    <3> QED
      BY <1>0, <2>2, <3>3 DEF InboxInv, n, s
  <2> QED
    BY <1>3, <2>1, <2>2, Receiving DEF Keeps, Loses
<1> QED
  BY <1>1, <1>2, <1>3, FeedSteps

\* One more position that counts, or does not.
LEMMA OneMorePosition ==
  ASSUME NEW n \in Nat \ {0}, NEW S, NEW T, T \subseteq 1..(n - 1),
         S = T \/ S = T \cup {n}
  PROVE  /\ Cardinality(T) \in Nat
         /\ Cardinality(S) = IF n \in S THEN Cardinality(T) + 1 ELSE Cardinality(T)
<1>1. IsFiniteSet(1..(n - 1))
  BY FS_Interval
<1>2. IsFiniteSet(T)
  BY <1>1, FS_Subset
<1>3. n \notin T
  OBVIOUS
<1>4. Cardinality(T) \in Nat /\ Cardinality(T \cup {n}) = Cardinality(T) + 1
  BY <1>2, <1>3, FS_CardinalityType, FS_AddElement
<1>5. QED
  BY <1>3, <1>4

\* x is before y in s.
Pair(s, x, y) == \E k, l \in DOMAIN s : k < l /\ s[k] = x /\ s[l] = y

\* What is handed on when it is the oldest that waits changes nothing for its method ...
LEMMA HandingOn ==
  ASSUME NEW S, NEW p \in Seq(S), NEW q \in Seq(S), q # <<>>
  PROVE  Append(p, Head(q)) \o Tail(q) = p \o q
<1>1. /\ Head(q) \in S /\ Tail(q) \in Seq(S) /\ <<Head(q)>> \in Seq(S)
  BY WithoutTheHead
<1>2. <<Head(q)>> \o Tail(q) = q
  OBVIOUS
<1>3. Append(p, Head(q)) = p \o <<Head(q)>>
  BY <1>1, AppendIsConcat
<1> QED
  BY SMTT(45), <1>1, <1>2, <1>3, ConcatAssociative

\* ... and nothing for another one.
LEMMA Inserting ==
  ASSUME NEW S, NEW p \in Seq(S), NEW q \in Seq(S), NEW z \in S
  PROVE  LET s == p \o q
             t == Append(p, z) \o q
         IN /\ \A x \in S : x # z => (In(t, x) <=> In(s, x))
            /\ \A x, y \in S : x # z /\ y # z => (Pair(t, x, y) <=> Pair(s, x, y))
<1> DEFINE s == p \o q
           t == Append(p, z) \o q
           n == Len(p)
           k == Len(q)
           Up(i) == IF i <= n THEN i ELSE i + 1
           Down(i) == IF i <= n THEN i ELSE i - 1
<1>1. /\ n \in Nat /\ k \in Nat /\ DOMAIN s = 1..(n + k) /\ DOMAIN t = 1..(n + 1 + k)
      /\ \A i \in 1..(n + k) : s[i] = IF i <= n THEN p[i] ELSE q[i - n]
      /\ \A i \in 1..(n + 1 + k) :
           t[i] = IF i <= n THEN p[i] ELSE IF i = n + 1 THEN z ELSE q[i - (n + 1)]
  <2>1. Append(p, z) \in Seq(S) /\ Len(Append(p, z)) = n + 1 /\ n \in Nat /\ k \in Nat
        /\ \A i \in 1..(n + 1) : Append(p, z)[i] = IF i <= n THEN p[i] ELSE z
    OBVIOUS
  <2> DEFINE a == Append(p, z)
  <2> HIDE DEF a
  <2>2. DOMAIN (a \o q) = 1..(n + 1 + k)
        /\ \A i \in 1..(n + 1 + k) : (a \o q)[i] = IF i <= n + 1 THEN a[i] ELSE q[i - (n + 1)]
    BY <2>1, ConcatProperties DEF a
  <2>3. DOMAIN s = 1..(n + k) /\ \A i \in 1..(n + k) : s[i] = IF i <= n THEN p[i] ELSE q[i - n]
    BY ConcatProperties
  <2>4. ASSUME NEW i \in 1..(n + 1 + k)
        PROVE  t[i] = IF i <= n THEN p[i] ELSE IF i = n + 1 THEN z ELSE q[i - (n + 1)]
    <3>1. t[i] = IF i <= n + 1 THEN a[i] ELSE q[i - (n + 1)]
      BY <2>2 DEF a
    <3>2. i <= n + 1 => a[i] = IF i <= n THEN p[i] ELSE z
      BY SMTT(45), <2>1 DEF a
    <3> HIDE DEF t, n, k
    <3> QED
      BY <2>1, <3>1, <3>2 DEF n, k
  <2> QED
    BY <2>1, <2>2, <2>3, <2>4 DEF a
<1> HIDE DEF s, t, n, k
<1>2. \A i \in DOMAIN s : Up(i) \in DOMAIN t /\ t[Up(i)] = s[i]
  <2> SUFFICES ASSUME NEW i \in 1..(n + k) PROVE Up(i) \in DOMAIN t /\ t[Up(i)] = s[i]
    BY <1>1
  <2>1. CASE i <= n
    BY <1>1, <2>1
  <2>2. CASE i > n
    <3>1. Up(i) = i + 1 /\ i + 1 \in 1..(n + 1 + k) /\ (i + 1) - (n + 1) = i - n
      BY <1>1, <2>2
    <3>2. ~(i + 1 <= n) /\ i + 1 # n + 1 /\ ~(i <= n)
      BY <1>1, <2>2
    <3>3. t[i + 1] = q[(i + 1) - (n + 1)] /\ s[i] = q[i - n]
      BY <1>1, <3>1, <3>2
    <3> QED
      BY <1>1, <3>1, <3>3
  <2> QED
    BY <1>1, <2>1, <2>2
<1>3. \A i \in DOMAIN t : t[i] # z => Down(i) \in DOMAIN s /\ s[Down(i)] = t[i] /\ i # n + 1
  <2> SUFFICES ASSUME NEW i \in 1..(n + 1 + k), t[i] # z
               PROVE  Down(i) \in DOMAIN s /\ s[Down(i)] = t[i] /\ i # n + 1
    BY <1>1
  <2>0. i # n + 1
    BY <1>1
  <2>1. CASE i <= n
    BY <1>1, <2>1
  <2>2. CASE i > n + 1
    <3>1. Down(i) = i - 1 /\ i - 1 \in 1..(n + k) /\ (i - 1) - n = i - (n + 1)
      BY <1>1, <2>2
    <3>2. ~(i <= n) /\ i # n + 1 /\ ~(i - 1 <= n)
      BY <1>1, <2>2
    <3>3. t[i] = q[i - (n + 1)] /\ s[i - 1] = q[(i - 1) - n]
      BY <1>1, <3>1, <3>2
    <3> QED
      BY <1>1, <2>0, <3>1, <3>3
  <2> QED
    BY <1>1, <2>0, <2>1, <2>2
<1>4. \A i, j \in Nat : i < j => Up(i) < Up(j)
  BY <1>1
<1>5. \A i, j \in Nat : i < j /\ i # n + 1 /\ j # n + 1 => Down(i) < Down(j)
  BY <1>1
<1>6. (\A i \in DOMAIN s : i \in Nat) /\ (\A i \in DOMAIN t : i \in Nat)
  BY <1>1
<1> HIDE DEF Up, Down
<1>7. \A x \in S : x # z => (In(t, x) <=> In(s, x))
  BY <1>2, <1>3 DEF In
<1>8. ASSUME NEW x \in S, NEW y \in S, x # z, y # z
      PROVE  Pair(t, x, y) <=> Pair(s, x, y)
  <2>1. Pair(s, x, y) => Pair(t, x, y)
    BY <1>2, <1>4, <1>6 DEF Pair
  <2>2. Pair(t, x, y) => Pair(s, x, y)
    <3> SUFFICES ASSUME NEW i \in DOMAIN t, NEW j \in DOMAIN t, i < j, t[i] = x, t[j] = y
                 PROVE  Pair(s, x, y)
      BY DEF Pair
    <3>1. Down(i) \in DOMAIN s /\ s[Down(i)] = x /\ Down(j) \in DOMAIN s /\ s[Down(j)] = y
      BY <1>3, <1>8
    <3>2. Down(i) < Down(j)
      BY <1>3, <1>5, <1>6, <1>8
    <3> QED
      BY <3>1, <3>2 DEF Pair
  <2> QED
    BY <2>1, <2>2
<1> QED
  BY <1>7, <1>8 DEF s, t

LEMMA AppendingAfter ==
  ASSUME NEW S, NEW p \in Seq(S), NEW q \in Seq(S), NEW z \in S
  PROVE  p \o Append(q, z) = Append(p \o q, z)
BY SMTT(30), AppendIsConcat, ConcatAssociative, ConcatProperties, AppendProperties

\* What is added at the end comes after all the rest.
LEMMA Adding ==
  ASSUME NEW S, NEW s \in Seq(S), NEW z \in S
  PROVE  LET t == Append(s, z)
         IN /\ \A x \in S : In(t, x) <=> In(s, x) \/ x = z
            /\ \A x, y \in S : Pair(t, x, y) <=> Pair(s, x, y) \/ (In(s, x) /\ y = z)
<1> DEFINE t == Append(s, z)
           n == Len(s)
<1>1. /\ n \in Nat /\ DOMAIN s = 1..n /\ DOMAIN t = 1..(n + 1) /\ t[n + 1] = z
      /\ \A i \in 1..n : t[i] = s[i] /\ i \in 1..(n + 1) /\ i < n + 1 /\ i \in Nat
      /\ \A i \in 1..(n + 1) : (i = n + 1 \/ i \in 1..n) /\ i \in Nat /\ i <= n + 1
      /\ n + 1 \in 1..(n + 1)
  BY AtTheEnd
<1> HIDE DEF t, n
<1>2. \A x \in S : In(t, x) <=> In(s, x) \/ x = z
  BY <1>1 DEF In
<1>3. ASSUME NEW x \in S, NEW y \in S
      PROVE  Pair(t, x, y) <=> Pair(s, x, y) \/ (In(s, x) /\ y = z)
  <2>1. ASSUME NEW i \in DOMAIN t, NEW j \in DOMAIN t, i < j, t[i] = x, t[j] = y
        PROVE  Pair(s, x, y) \/ (In(s, x) /\ y = z)
    <3>1. i \in 1..n
      BY <1>1, <2>1
    <3>2. CASE j \in 1..n
      BY <1>1, <2>1, <3>1, <3>2 DEF Pair
    <3>3. CASE j = n + 1
      BY <1>1, <2>1, <3>1, <3>3 DEF In
    <3> QED
      BY <1>1, <2>1, <3>2, <3>3
  <2>2. Pair(s, x, y) => Pair(t, x, y)
    BY <1>1 DEF Pair
  <2>3. In(s, x) /\ y = z => Pair(t, x, y)
    BY <1>1 DEF Pair, In
  <2> QED
    BY <2>1, <2>2, <2>3 DEF Pair
<1> QED
  BY <1>2, <1>3 DEF t

\* The last frame read.
LEMMA ReadingOneMore ==
  ASSUME TypeInv, taken' = taken + 1, toClient' = toClient
  PROVE  \A x, y \in Notices :
           /\ Read(x)' <=> Read(x) \/ toClient[taken + 1] = Notice(x)
           /\ ReadBefore(x, y)' <=> ReadBefore(x, y) \/ (Read(x) /\ toClient[taken + 1] = Notice(y))
<1>1. taken \in Nat
  BY DEF TypeInv, PipeTypes
<1>2. /\ \A i \in 1..(taken + 1) : (i = taken + 1 \/ i \in 1..taken) /\ i <= taken + 1 /\ i \in Nat
      /\ \A i \in 1..taken : i \in 1..(taken + 1) /\ i < taken + 1 /\ i \in Nat
      /\ taken + 1 \in 1..(taken + 1)
  BY <1>1
<1> SUFFICES ASSUME NEW x \in Notices, NEW y \in Notices
             PROVE  /\ Read(x)' <=> Read(x) \/ toClient[taken + 1] = Notice(x)
                    /\ ReadBefore(x, y)' <=>
                         ReadBefore(x, y) \/ (Read(x) /\ toClient[taken + 1] = Notice(y))
  OBVIOUS
<1>3. Read(x)' <=> Read(x) \/ toClient[taken + 1] = Notice(x)
  BY <1>2 DEF Read
<1>4. ASSUME NEW i \in 1..(taken + 1), NEW j \in 1..(taken + 1), i < j,
             toClient[i] = Notice(x), toClient[j] = Notice(y)
      PROVE  ReadBefore(x, y) \/ (Read(x) /\ toClient[taken + 1] = Notice(y))
  <2>1. i \in 1..taken
    BY <1>1, <1>2, <1>4
  <2>2. CASE j \in 1..taken
    BY <1>4, <2>1, <2>2 DEF ReadBefore
  <2>3. CASE j = taken + 1
    BY <1>4, <2>1, <2>3 DEF Read
  <2> QED
    BY <1>2, <2>2, <2>3
<1>5. ReadBefore(x, y) => ReadBefore(x, y)'
  BY <1>2 DEF ReadBefore
<1>6. Read(x) /\ toClient[taken + 1] = Notice(y) => ReadBefore(x, y)'
  BY <1>2 DEF Read, ReadBefore
<1> QED
  BY <1>3, <1>4, <1>5, <1>6 DEF ReadBefore

LEMMA InHanded ==
  /\ \A x : Passed(x) <=> In(Handed(Method[x]), x)
  /\ \A x, y : Ahead(x, y) <=> Pair(Handed(Method[x]), x, y)
BY DEF Passed, Ahead, In, Pair

\* What NothingEarlyIsLost says of two notifications ...
Arrives(x, y) ==
  /\ Passed(x) => Read(x)
  /\ Read(x) => Passed(x) \/ Method[x] \in dropped
  /\ Method[x] = Method[y] => (Ahead(x, y) <=> ReadBefore(x, y) /\ Passed(y))

\* ... and of the subscriptions that were full.
Overflowed == \A m \in dropped : Kept(m) >= BufferSize

LEMMA ArrivalsKept ==
  ASSUME TypeInv, EarlyInv, OverInv, InboxInv, SaidOnce, [Next]_vars,
         NEW x \in Notices, NEW y \in Notices, \A v, w \in Notices : Arrives(v, w)
  PROVE  Arrives(x, y)'
<1>0. /\ inbox \in [Methods -> Seq(Notices)] /\ published \in Seq(Notices)
      /\ \A m \in Methods : inbox[m] \in Seq(Notices) /\ Handed(m) \in Seq(Notices)
      /\ \A z \in Notices : Method[z] \in Methods
  BY DEF TypeInv, FeedTypes, Handed
<1> DEFINE h == published \o inbox[Method[x]]
           g == published' \o inbox'[Method[x]]
<1>1. /\ Passed(x) => Read(x)
      /\ Read(x) => Passed(x) \/ Method[x] \in dropped
      /\ Method[x] = Method[y] =>
           /\ Ahead(x, y) <=> ReadBefore(x, y) /\ Passed(y)
           /\ Passed(y) => Read(y)
  BY DEF Arrives
<1>2. /\ Passed(x) <=> In(h, x)
      /\ Passed(x)' <=> In(g, x)
      /\ Ahead(x, y) <=> Pair(h, x, y)
      /\ Ahead(x, y)' <=> Pair(g, x, y)
      /\ Method[x] = Method[y] => (Passed(y) <=> In(h, y)) /\ (Passed(y)' <=> In(g, y))
  BY DEF Passed, Ahead, Handed, In, Pair
<1> HIDE DEF h, g
<1>3. ASSUME Read(x)' <=> Read(x), ReadBefore(x, y)' <=> ReadBefore(x, y), dropped' = dropped,
             In(g, x) <=> In(h, x),
             Method[x] = Method[y] => (In(g, y) <=> In(h, y)) /\ (Pair(g, x, y) <=> Pair(h, x, y))
      PROVE  Arrives(x, y)'
  BY <1>1, <1>2, <1>3 DEF Arrives
<1>4. CASE FeedStill
  <2>1. /\ Read(x)' <=> Read(x)
        /\ ReadBefore(x, y)' <=> ReadBefore(x, y)
    BY <1>4 DEF FeedStill, Read, ReadBefore
  <2>2. g = h /\ dropped' = dropped
    BY <1>4 DEF FeedStill, g, h
  <2> QED
    BY <1>3, <2>1, <2>2
<1>5. ASSUME NEW m \in Methods, Forward(m) PROVE Arrives(x, y)'
  <2> DEFINE z == Head(inbox[m])
  <2>1. /\ inbox[m] # <<>> /\ inbox' = [inbox EXCEPT ![m] = Tail(inbox[m])]
        /\ published' = Append(published, z) /\ UNCHANGED <<taken, toClient, dropped>>
    BY <1>5 DEF Forward, taskVars, pipeVars
  <2>2. /\ Read(x)' <=> Read(x)
        /\ ReadBefore(x, y)' <=> ReadBefore(x, y)
    BY <2>1 DEF Read, ReadBefore
  <2>3. z \in Notices /\ Method[z] = m
    BY <1>0, <2>1, WithoutTheHead DEF InboxInv
  <2> HIDE DEF z
  <2>4. CASE Method[x] = m
    <3>1. g = h
      BY ZenonT(60), <1>0, <2>1, <2>4, HandingOn DEF z, g, h
    <3> QED
      BY <1>3, <2>1, <2>2, <3>1
  <2>5. CASE Method[x] # m
    <3>1. inbox'[Method[x]] = inbox[Method[x]] /\ inbox[Method[x]] \in Seq(Notices)
      BY <1>0, <2>1, <2>5
    <3>2. /\ x # z /\ (Method[x] = Method[y] => y # z)
      BY <2>3, <2>5
    <3>3. g = Append(published, z) \o inbox[Method[x]]
      BY <2>1, <3>1 DEF g
    <3>4. /\ In(g, x) <=> In(h, x)
          /\ Method[x] = Method[y] => (In(g, y) <=> In(h, y)) /\ (Pair(g, x, y) <=> Pair(h, x, y))
      BY <1>0, <2>3, <3>1, <3>2, <3>3, Inserting DEF h
    <3> QED
      BY <1>3, <2>1, <2>2, <3>4
  <2> QED
    BY <2>4, <2>5
<1>6. CASE Receive
  <2> DEFINE f == toClient[taken + 1]
  <2>1. taken' = taken + 1 /\ UNCHANGED <<toClient, published>>
    BY <1>6, Receiving
  <2>2. /\ Read(x)' <=> Read(x) \/ f = Notice(x)
        /\ Read(y)' <=> Read(y) \/ f = Notice(y)
        /\ ReadBefore(x, y)' <=> ReadBefore(x, y) \/ (Read(x) /\ f = Notice(y))
    BY <2>1, ReadingOneMore
  <2>3. CASE f.kind # "notice" /\ UNCHANGED <<inbox, dropped>>
    <3>1. f # Notice(x) /\ f # Notice(y)
      BY <2>3, OutputFacts
    <3>2. g = h
      BY <2>1, <2>3 DEF g, h
    <3> QED
      BY <1>3, <2>2, <2>3, <3>1, <3>2
  <2>4. ASSUME f.id \in Notices, f = Notice(f.id), Method[f.id] \in Methods,
               Keeps(f.id) \/ Loses(f.id)
        PROVE  Arrives(x, y)'
    <3> DEFINE n == f.id
    <3>1. (f = Notice(x) <=> x = n) /\ (f = Notice(y) <=> y = n)
      BY <2>4, OutputFacts
    <3>2. f = Notice(y) => ~Read(y) /\ ~ReadBefore(x, y)
      <4>1. taken < Len(toClient) /\ toClient \in Seq(Outputs) /\ taken \in 0..Len(toClient)
        BY <1>6, Zenon DEF Receive, TypeInv, PipeTypes
      <4>2. /\ taken + 1 \in DOMAIN toClient
            /\ \A i \in 1..taken : i \in DOMAIN toClient /\ i # taken + 1
        BY <4>1
      <4>3. f.kind = "notice"
        BY <2>4, OutputFacts
      <4>4. \A i \in 1..taken : toClient[i] # f
        BY <4>2, <4>3 DEF SaidOnce
      <4> QED
        BY <4>4 DEF Read, ReadBefore
    <3>3. n \in Notices /\ Method[n] \in Methods /\ (Keeps(n) \/ Loses(n))
      BY <2>4
    <3>4. f = Notice(x) => ~Read(x)
      <4>1. taken < Len(toClient) /\ toClient \in Seq(Outputs) /\ taken \in 0..Len(toClient)
        BY <1>6, Zenon DEF Receive, TypeInv, PipeTypes
      <4>2. /\ taken + 1 \in DOMAIN toClient
            /\ \A i \in 1..taken : i \in DOMAIN toClient /\ i # taken + 1
        BY <4>1
      <4>3. f.kind = "notice"
        BY <2>4, OutputFacts
      <4>4. \A i \in 1..taken : toClient[i] # f
        BY <4>2, <4>3 DEF SaidOnce
      <4> QED
        BY <4>4 DEF Read
    <3> HIDE DEF n, f
    <3>5. CASE Loses(n)
      <4>1. g = h /\ dropped \subseteq dropped' /\ Method[n] \in dropped'
        BY <2>1, <3>5 DEF Loses, g, h
      <4> QED
        BY <1>1, <1>2, <2>2, <3>1, <3>2, <3>4, <4>1 DEF Arrives
    <3>6. CASE Keeps(n) /\ Method[x] = Method[n]
      <4>1. inbox'[Method[x]] = Append(inbox[Method[x]], n) /\ Method[n] \notin dropped
            /\ dropped' = dropped
        BY <1>0, <3>3, <3>6 DEF Keeps
      <4>2. inbox[Method[x]] \in Seq(Notices) /\ h \in Seq(Notices)
        BY <1>0, ConcatProperties DEF h
      <4>3. g = Append(h, n)
        <5>1. \A p, q \in Seq(Notices), k \in Notices : p \o Append(q, k) = Append(p \o q, k)
          BY AppendingAfter
        <5>2. g = published \o Append(inbox[Method[x]], n)
          BY <2>1, <4>1 DEF g
        <5> QED
          BY <1>0, <3>3, <4>2, <5>1, <5>2 DEF h
      <4>4. /\ In(g, x) <=> In(h, x) \/ x = n
            /\ In(g, y) <=> In(h, y) \/ y = n
            /\ Pair(g, x, y) <=> Pair(h, x, y) \/ (In(h, x) /\ y = n)
        BY <3>3, <4>2, <4>3, Adding
      <4>5. Method[x] \notin dropped /\ Method[x] \notin dropped'
        BY <3>6, <4>1
      <4> QED
        BY <1>1, <1>2, <2>2, <3>1, <3>2, <3>4, <4>4, <4>5 DEF Arrives
    <3>7. CASE Keeps(n) /\ Method[x] # Method[n]
      <4>1. inbox'[Method[x]] = inbox[Method[x]] /\ dropped' = dropped
        BY <1>0, <3>3, <3>7 DEF Keeps
      <4>2. x # n /\ (Method[x] = Method[y] => y # n)
        BY <3>7
      <4>3. g = h
        BY <2>1, <4>1 DEF g, h
      <4> QED
        BY <1>1, <1>2, <2>2, <3>1, <4>1, <4>2, <4>3 DEF Arrives
    <3> QED
      BY <3>3, <3>5, <3>6, <3>7
  <2> QED
    BY <1>6, <2>3, <2>4, Receiving
<1> QED
  BY <1>4, <1>5, <1>6, FeedSteps

\* The notifications of method m that the hub has been handed.
HandedOf(s, m) == {k \in DOMAIN s : Method[s[k]] = m}

LEMMA HandingOneMore ==
  ASSUME NEW s \in Seq(Notices), NEW z \in Notices, NEW m
  PROVE  /\ Cardinality(HandedOf(s, m)) \in Nat
         /\ Cardinality(HandedOf(Append(s, z), m)) =
              IF Method[z] = m THEN Cardinality(HandedOf(s, m)) + 1
              ELSE Cardinality(HandedOf(s, m))
<1> DEFINE t == Append(s, z)
           n == Len(s) + 1
<1>1. /\ DOMAIN s = 1..(n - 1) /\ DOMAIN t = 1..n /\ t[n] = z /\ n \in Nat \ {0}
      /\ \A i \in 1..(n - 1) : t[i] = s[i]
      /\ \A i \in 1..n : i = n \/ i \in 1..(n - 1)
      /\ n \in 1..n /\ 1..(n - 1) \subseteq 1..n
  BY AtTheEnd
<1> HIDE DEF t, n
<1>2. HandedOf(s, m) \subseteq 1..(n - 1) /\ (n \in HandedOf(t, m) <=> Method[z] = m)
  BY <1>1 DEF HandedOf
<1>3. HandedOf(t, m) = HandedOf(s, m) \/ HandedOf(t, m) = HandedOf(s, m) \cup {n}
  BY <1>1, Zenon DEF HandedOf
<1> QED
  BY <1>1, <1>2, <1>3, OneMorePosition DEF t

LEMMA OverflowKept ==
  ASSUME TypeInv, EarlyInv, OverInv, InboxInv, Overflowed, [Next]_vars
  PROVE  Overflowed'
<1>0. /\ inbox \in [Methods -> Seq(Notices)] /\ published \in Seq(Notices)
      /\ dropped \subseteq Methods /\ BufferSize \in Nat
  BY DEF TypeInv, FeedTypes
<1>1. \A m \in Methods : Kept(m) = Cardinality(HandedOf(published, m)) + Len(inbox[m])
  BY DEF Kept, HandedOf
<1>2. \A m \in Methods : Kept(m)' = Cardinality(HandedOf(published', m)) + Len(inbox'[m])
  BY DEF Kept, HandedOf
<1>3. \A m \in Methods : Cardinality(HandedOf(published, m)) \in Nat /\ Len(inbox[m]) \in Nat
  <2>1. IsFiniteSet(1..Len(published)) /\ DOMAIN published = 1..Len(published)
    BY <1>0, FS_Interval
  <2>2. \A m : HandedOf(published, m) \subseteq 1..Len(published)
    BY <2>1 DEF HandedOf
  <2> QED
    BY <1>0, <2>1, <2>2, FS_Subset, FS_CardinalityType
<1>4. CASE FeedStill
  BY <1>4 DEF FeedStill, Overflowed, Kept
<1>5. ASSUME NEW m \in Methods, Forward(m) PROVE Overflowed'
  <2> DEFINE z == Head(inbox[m])
  <2>1. /\ inbox[m] # <<>> /\ inbox' = [inbox EXCEPT ![m] = Tail(inbox[m])]
        /\ published' = Append(published, z) /\ dropped' = dropped
    BY <1>5 DEF Forward
  <2>2. z \in Notices /\ Method[z] = m
    BY <1>0, <2>1, WithoutTheHead DEF InboxInv
  <2>3. Len(Tail(inbox[m])) = Len(inbox[m]) - 1
    BY <1>0, <2>1
  <2> HIDE DEF z
  <2>4. ASSUME NEW o \in dropped PROVE Kept(o)' = Kept(o)
    <3>1. o \in Methods
      BY <1>0
    <3>2. Cardinality(HandedOf(published', o)) =
            IF m = o THEN Cardinality(HandedOf(published, o)) + 1
            ELSE Cardinality(HandedOf(published, o))
      BY <1>0, <2>1, <2>2, HandingOneMore
    <3>3. Len(inbox'[o]) = IF m = o THEN Len(inbox[o]) - 1 ELSE Len(inbox[o])
      BY <1>0, <2>1, <2>3, <3>1
    <3> QED
      BY <1>1, <1>2, <1>3, <3>1, <3>2, <3>3
  <2> QED
    BY <2>1, <2>4 DEF Overflowed
<1>6. CASE Receive
  <2> DEFINE f == toClient[taken + 1]
  <2>1. published' = published
    BY <1>6, Receiving
  <2>2. CASE UNCHANGED <<inbox, dropped>>
    BY <2>1, <2>2 DEF Overflowed, Kept
  <2>3. ASSUME NEW n \in Notices, Method[n] \in Methods, Keeps(n) PROVE Overflowed'
    <3>1. \A o \in dropped : o \in Methods /\ inbox'[o] = inbox[o]
      BY <1>0, <2>3 DEF Keeps
    <3>2. \A o \in dropped : Kept(o)' = Kept(o)
      BY <1>1, <1>2, <2>1, <3>1
    <3> QED
      BY <2>3, <3>2 DEF Overflowed, Keeps
  <2>4. ASSUME NEW n \in Notices, Method[n] \in Methods, Loses(n) PROVE Overflowed'
    <3>1. \A o \in dropped' : o \in Methods /\ Kept(o)' = Kept(o)
      BY <1>0, <1>1, <1>2, <2>1, <2>4 DEF Loses
    <3>2. Kept(Method[n]) >= BufferSize
      <4>1. CASE Method[n] \in dropped
        BY <4>1 DEF Overflowed
      <4>2. CASE Len(inbox[Method[n]]) >= BufferSize
        BY <1>0, <1>1, <1>3, <2>4, <4>2
      <4> QED
        BY <2>4, <4>1, <4>2 DEF Loses
    <3> QED
      BY <2>4, <3>1, <3>2 DEF Overflowed, Loses
  <2> QED
    BY <1>6, <2>2, <2>3, <2>4, Receiving
<1> QED
  BY <1>4, <1>5, <1>6, FeedSteps

LEMMA NothingLostKept ==
  ASSUME TypeInv, EarlyInv, OverInv, InboxInv, SaidOnce, NothingEarlyIsLost, [Next]_vars
  PROVE  NothingEarlyIsLost'
<1>1. (\A x, y \in Notices : Arrives(x, y)) /\ Overflowed
  BY Zenon DEF NothingEarlyIsLost, Arrives, Overflowed
<1>2. Overflowed'
  BY <1>1, OverflowKept
<1>3. \A x, y \in Notices : Arrives(x, y)'
  BY <1>1, ArrivalsKept
<1> QED
  BY <1>2, <1>3, Zenon DEF NothingEarlyIsLost, Arrives, Overflowed

\* A notification that is said is nowhere yet, and one that is written moves.
LEMMA SaidOnceKept ==
  ASSUME TypeInv, OverInv, SaidOnce, [Next]_vars
  PROVE  SaidOnce'
<1>0. toClient \in Seq(Outputs) /\ owed \in Seq(Outputs)
  BY DEF TypeInv, PipeTypes
<1>1. CASE UNCHANGED <<toClient, owed>>
  BY <1>1 DEF SaidOnce
<1>2. ASSUME NEW f \in Outputs, owed' = Append(owed, f), toClient' = toClient,
             f.kind = "notice" => /\ \A i \in DOMAIN owed : owed[i] # f
                                  /\ \A i \in DOMAIN toClient : toClient[i] # f
      PROVE  SaidOnce'
  <2>1. /\ DOMAIN owed = 1..Len(owed) /\ DOMAIN owed' = 1..(Len(owed) + 1)
        /\ owed'[Len(owed) + 1] = f /\ \A i \in DOMAIN owed : owed'[i] = owed[i]
        /\ \A i \in DOMAIN owed' : i = Len(owed) + 1 \/ i \in DOMAIN owed
    BY <1>0, <1>2, AtTheEnd
  <2>2. \A i, j \in DOMAIN owed' : owed'[i] = owed'[j] /\ owed'[i].kind = "notice" => i = j
    BY <1>2, <2>1 DEF SaidOnce
  <2>3. \A i \in DOMAIN toClient, j \in DOMAIN owed' :
          toClient[i].kind = "notice" => toClient[i] # owed'[j]
    BY <1>2, <2>1 DEF SaidOnce
  <2> QED
    BY <1>2, <2>2, <2>3 DEF SaidOnce
<1>3. CASE SessionStep
  BY <1>1, <1>3, SessionMoves DEF pipeVars
<1>4. ASSUME NEW m \in Methods, Forward(m) PROVE SaidOnce'
  BY <1>1, <1>4 DEF Forward, pipeVars, serverVars
<1>5. CASE TakeNext \/ Receive
  BY <1>1, <1>5 DEF TakeNext, Receive, serverVars
<1>6. ASSUME NEW w \in Writers, WriteChunk(w) \/ EndStep(w) PROVE SaidOnce'
  BY <1>1, <1>6 DEF WriteChunk, EndStep, End, serverVars
<1>7. CASE ServerReads
  <2> DEFINE c == toServer[consumed + 1]
  <2>1. toClient' = toClient /\ consumed < Len(toServer)
        /\ owed' = IF c.part = Chunks /\ c.frame.kind = "request"
                     THEN Append(owed, Response(c.frame.id)) ELSE owed
    BY <1>7 DEF ServerReads, pipeVars
  <2>2. c \in [frame : Frames, part : 1..Chunks]
    <3>1. toServer \in Seq([frame : Frames, part : 1..Chunks]) /\ consumed \in 0..Len(toServer)
      BY DEF TypeInv, PipeTypes
    <3>2. consumed + 1 \in 1..Len(toServer)
      BY <2>1, <3>1
    <3> QED
      BY <3>1, <3>2, ElementOfSeq
  <2>3. c.frame.kind = "request" => /\ Response(c.frame.id) \in Outputs
                                    /\ Response(c.frame.id).kind # "notice"
    BY <2>2, MessageFacts, OutputFacts DEF Response
  <2> HIDE DEF c
  <2> QED
    BY <1>1, <1>2, <2>1, <2>3
<1>8. ASSUME NEW f \in Said, ServerSays(f) PROVE SaidOnce'
  <2>1. /\ owed' = Append(owed, f) /\ toClient' = toClient /\ f \in Outputs
        /\ \A i \in DOMAIN owed : owed[i] # f
        /\ \A i \in DOMAIN toClient : toClient[i] # f
    BY <1>8, OutputFacts DEF ServerSays, HasSaid, pipeVars
  <2> QED
    BY <1>2, <2>1
<1>9. CASE ServerWrites
  <2> DEFINE f == Head(owed)
  <2>1. toClient' = Append(toClient, f) /\ owed' = Tail(owed) /\ owed # <<>>
    BY <1>9 DEF ServerWrites
  <2>2. /\ f \in Outputs /\ f = owed[1] /\ 1 \in DOMAIN owed
        /\ \A i \in DOMAIN owed' : owed'[i] = owed[i + 1] /\ i + 1 \in DOMAIN owed /\ i \in Nat \ {0}
        /\ DOMAIN owed' = 1..Len(owed')
    <3>1. Tail(owed) \in Seq(Outputs)
      BY <1>0, <2>1, WithoutTheHead
    <3> QED
      BY <1>0, <2>1, <3>1, WithoutTheHead
  <2>3. /\ DOMAIN toClient' = 1..(Len(toClient) + 1) /\ toClient'[Len(toClient) + 1] = f
        /\ \A i \in DOMAIN toClient : toClient'[i] = toClient[i]
        /\ \A i \in DOMAIN toClient' : i = Len(toClient) + 1 \/ i \in DOMAIN toClient
    BY <1>0, <2>1, <2>2, AtTheEnd
  <2> HIDE DEF f
  <2>4. f.kind = "notice" => \A i \in DOMAIN toClient : toClient[i] # f
    BY <2>2 DEF SaidOnce
  <2>5. \A i, j \in DOMAIN toClient' : toClient'[i] = toClient'[j] /\ toClient'[i].kind = "notice" => i = j
    BY <2>3, <2>4, Zenon DEF SaidOnce
  <2>6. \A i, j \in DOMAIN owed' : owed'[i] = owed'[j] /\ owed'[i].kind = "notice" => i = j
    <3> SUFFICES ASSUME NEW i \in DOMAIN owed', NEW j \in DOMAIN owed', owed'[i] = owed'[j],
                        owed'[i].kind = "notice"
                 PROVE  i = j
      OBVIOUS
    <3>1. i + 1 = j + 1
      BY <2>2 DEF SaidOnce
    <3> QED
      BY <2>2, <3>1
  <2>7. f.kind = "notice" => \A j \in DOMAIN owed' : f # owed'[j]
    <3> SUFFICES ASSUME f.kind = "notice", NEW j \in DOMAIN owed', f = owed'[j]
                 PROVE  FALSE
      OBVIOUS
    <3>1. 1 = j + 1
      BY <2>2 DEF SaidOnce
    <3> QED
      BY <2>2, <3>1
  <2>8. \A i \in DOMAIN toClient', j \in DOMAIN owed' :
          toClient'[i].kind = "notice" => toClient'[i] # owed'[j]
    <3> SUFFICES ASSUME NEW i \in DOMAIN toClient', NEW j \in DOMAIN owed', toClient'[i].kind = "notice"
                 PROVE  toClient'[i] # owed'[j]
      OBVIOUS
    <3>1. CASE i = Len(toClient) + 1
      BY <2>3, <2>7, <3>1
    <3>2. CASE i \in DOMAIN toClient
      BY <2>2, <2>3, <3>2 DEF SaidOnce
    <3> QED
      BY <2>3, <3>1, <3>2
  <2> QED
    BY <2>5, <2>6, <2>8 DEF SaidOnce
<1>10. CASE ServerExits
  BY <1>1, <1>10 DEF ServerExits, pipeVars
<1>11. CASE UNCHANGED vars
  BY <1>1, <1>11 DEF vars, pipeVars, serverVars
<1> QED
  BY <1>3, <1>4, <1>5, <1>6, <1>7, <1>8, <1>9, <1>10, <1>11, Steps DEF ServerStep

------------------------------------------------------------------------------
\* Counting messages and acknowledgements.

Chunk == [frame : Frames, part : 1..Chunks]

\* Nothing is among no chunks, and the next chunk ends a message, an acknowledgement or neither.
LEMMA NothingIn ==
  ASSUME NEW pipe
  PROVE  MessagesIn(pipe, 0) = 0 /\ AcksIn(pipe, 0) = 0
<1>1. MessageEnds(pipe, 0) = {} /\ AckEnds(pipe, 0) = {}
  BY DEF MessageEnds, AckEnds
<1>2. QED
  BY <1>1, FS_EmptySet DEF MessagesIn, AcksIn

LEMMA OneMoreIn ==
  ASSUME NEW pipe, NEW n \in Nat \ {0}
  PROVE  /\ MessagesIn(pipe, n - 1) \in Nat /\ AcksIn(pipe, n - 1) \in Nat
         /\ MessagesIn(pipe, n) = IF pipe[n].part = Chunks /\ pipe[n].frame.kind # "ack"
                                  THEN MessagesIn(pipe, n - 1) + 1 ELSE MessagesIn(pipe, n - 1)
         /\ AcksIn(pipe, n) = IF pipe[n].part = Chunks /\ pipe[n].frame.kind = "ack"
                              THEN AcksIn(pipe, n - 1) + 1 ELSE AcksIn(pipe, n - 1)
<1>1. 1..n = 1..(n - 1) \cup {n} /\ n \in 1..n /\ n - 1 \in Nat
  OBVIOUS
<1>2. /\ MessageEnds(pipe, n - 1) \subseteq 1..(n - 1)
      /\ n \in MessageEnds(pipe, n) <=> pipe[n].part = Chunks /\ pipe[n].frame.kind # "ack"
      /\ \/ MessageEnds(pipe, n) = MessageEnds(pipe, n - 1)
         \/ MessageEnds(pipe, n) = MessageEnds(pipe, n - 1) \cup {n}
  BY <1>1, Zenon DEF MessageEnds
<1>3. /\ AckEnds(pipe, n - 1) \subseteq 1..(n - 1)
      /\ n \in AckEnds(pipe, n) <=> pipe[n].part = Chunks /\ pipe[n].frame.kind = "ack"
      /\ \/ AckEnds(pipe, n) = AckEnds(pipe, n - 1)
         \/ AckEnds(pipe, n) = AckEnds(pipe, n - 1) \cup {n}
  BY <1>1, Zenon DEF AckEnds
<1>4. /\ Cardinality(MessageEnds(pipe, n - 1)) \in Nat
      /\ Cardinality(MessageEnds(pipe, n)) = IF n \in MessageEnds(pipe, n)
                                             THEN Cardinality(MessageEnds(pipe, n - 1)) + 1
                                             ELSE Cardinality(MessageEnds(pipe, n - 1))
  BY <1>2, OneMorePosition
<1>5. /\ Cardinality(AckEnds(pipe, n - 1)) \in Nat
      /\ Cardinality(AckEnds(pipe, n)) = IF n \in AckEnds(pipe, n)
                                         THEN Cardinality(AckEnds(pipe, n - 1)) + 1
                                         ELSE Cardinality(AckEnds(pipe, n - 1))
  BY <1>3, OneMorePosition
<1>6. QED
  BY <1>2, <1>3, <1>4, <1>5, Zenon DEF MessagesIn, AcksIn

\* A chunk at the end of the pipe changes no count before it.
LEMMA CountsBefore ==
  ASSUME NEW pipe \in Seq(Chunk), NEW c \in Chunk, NEW n \in 0..Len(pipe)
  PROVE  /\ MessagesIn(Append(pipe, c), n) = MessagesIn(pipe, n)
         /\ AcksIn(Append(pipe, c), n) = AcksIn(pipe, n)
<1>1. \A i \in 1..n : Append(pipe, c)[i] = pipe[i]
  BY AtTheEnd
<1>2. MessageEnds(Append(pipe, c), n) = MessageEnds(pipe, n)
  BY <1>1, Zenon DEF MessageEnds
<1>3. AckEnds(Append(pipe, c), n) = AckEnds(pipe, n)
  BY <1>1, Zenon DEF AckEnds
<1>4. QED
  BY <1>2, <1>3 DEF MessagesIn, AcksIn

LEMMA CountTypes ==
  ASSUME NEW pipe, NEW n \in Nat
  PROVE  MessagesIn(pipe, n) \in Nat /\ AcksIn(pipe, n) \in Nat
<1>1. n + 1 \in Nat \ {0} /\ (n + 1) - 1 = n
  OBVIOUS
<1>2. QED
  BY <1>1, OneMoreIn

\* The counts over the frames that were heard.
LEMMA OneMoreHeard ==
  ASSUME NEW frames \in Seq(Frames), NEW f \in Frames
  PROVE  /\ MessagesOf(frames) \in Nat /\ AcksOf(frames) \in Nat
         /\ MessagesOf(Append(frames, f)) = IF f.kind # "ack" THEN MessagesOf(frames) + 1
                                            ELSE MessagesOf(frames)
         /\ AcksOf(Append(frames, f)) = IF f.kind = "ack" THEN AcksOf(frames) + 1
                                        ELSE AcksOf(frames)
<1> DEFINE n == Len(frames) + 1
           more == Append(frames, f)
           messages == {i \in DOMAIN frames : frames[i].kind # "ack"}
           messages2 == {i \in DOMAIN more : more[i].kind # "ack"}
           acks == {i \in DOMAIN frames : frames[i].kind = "ack"}
           acks2 == {i \in DOMAIN more : more[i].kind = "ack"}
<1>1. /\ n \in Nat \ {0} /\ DOMAIN frames = 1..(n - 1) /\ DOMAIN more = 1..(n - 1) \cup {n}
      /\ more[n] = f /\ \A i \in 1..(n - 1) : more[i] = frames[i]
  BY AtTheEnd
<1> HIDE DEF n, more
<1>2. /\ messages \subseteq 1..(n - 1) /\ (n \in messages2 <=> f.kind # "ack")
      /\ messages2 = messages \/ messages2 = messages \cup {n}
  BY <1>1, Zenon
<1>3. /\ acks \subseteq 1..(n - 1) /\ (n \in acks2 <=> f.kind = "ack")
      /\ acks2 = acks \/ acks2 = acks \cup {n}
  BY <1>1, Zenon
<1> HIDE DEF messages, messages2, acks, acks2
<1>4. /\ Cardinality(messages) \in Nat
      /\ Cardinality(messages2) = IF n \in messages2 THEN Cardinality(messages) + 1
                                  ELSE Cardinality(messages)
  BY <1>1, <1>2, OneMorePosition
<1>5. /\ Cardinality(acks) \in Nat
      /\ Cardinality(acks2) = IF n \in acks2 THEN Cardinality(acks) + 1 ELSE Cardinality(acks)
  BY <1>1, <1>3, OneMorePosition
<1>6. QED
  BY <1>2, <1>3, <1>4, <1>5, Zenon DEF MessagesOf, AcksOf, more, messages, messages2, acks, acks2

\* Messages and registrations on their way to the send task.
LEMMA MessageIsNoRegistration ==
  /\ \A m \in Messages : m \notin Registrations /\ m.kind # "ack" /\ m # None /\ m \in Frames
  /\ \A m \in Acks : m.kind = "ack" /\ m # None /\ m \in Frames
  /\ \A f \in Frames : f.kind # "ack" => f \in Messages
  /\ \A a \in Asks : Ack(a) \in Acks
<1>1. \A m \in Messages : m \notin Registrations /\ m.kind # "ack"
  BY DEF Messages, Registrations, Registration, Request, Initialized
<1>2. \A m \in Acks : m.kind = "ack"
  BY DEF Acks, Ack
<1>3. QED
  BY <1>1, <1>2, NoneAssumption DEF Frames, Acks

LEMMA MessageQueued ==
  ASSUME NEW waiting \in Seq(Messages \cup Registrations), NEW given \in Seq(Messages),
         NEW before, NEW index, Counts(index, before, waiting, given), NEW m \in Messages
  PROVE  \E index2 : Counts(index2, before, Append(waiting, m), Append(given, m))
<1> DEFINE n == Len(waiting)
           index2 == [k \in 0..(n + 1) |-> IF k = n + 1 THEN Len(given) + 1 ELSE index[k]]
<1>1. /\ index \in [0..n -> 0..Len(given)] /\ index[0] = before /\ index[n] = Len(given)
      /\ \A k \in 1..n : IF waiting[k] \in Registrations THEN index[k] = index[k - 1]
                         ELSE index[k] = index[k - 1] + 1 /\ waiting[k] = given[index[k]]
  BY DEF Counts
<1>2. PICK w, g : w = Append(waiting, m) /\ g = Append(given, m)
  OBVIOUS
<1>3. /\ n \in Nat /\ Len(w) = n + 1 /\ w[n + 1] = m /\ \A i \in 1..n : w[i] = waiting[i]
      /\ Len(given) \in Nat /\ Len(g) = Len(given) + 1 /\ g[Len(given) + 1] = m
      /\ \A i \in 1..Len(given) : g[i] = given[i]
  BY <1>2, AtTheEnd
<1>9. n \in Nat /\ 0 \in 0..n /\ n \in 0..n
  OBVIOUS
<1> HIDE DEF n
<1>4. /\ index2[n + 1] = Len(given) + 1 /\ \A k \in 0..n : index2[k] = index[k] /\ index[k] \in 0..Len(given)
      /\ index2 \in [0..(n + 1) -> 0..(Len(given) + 1)]
  BY <1>1, <1>3
<1> HIDE DEF index2
<1>5. ASSUME NEW k \in 1..(n + 1)
      PROVE  IF w[k] \in Registrations THEN index2[k] = index2[k - 1]
             ELSE index2[k] = index2[k - 1] + 1 /\ w[k] = g[index2[k]]
  <2>1. CASE k = n + 1
    <3>1. w[k] \notin Registrations
      BY <1>3, <2>1, MessageIsNoRegistration
    <3>2. k - 1 = n /\ n \in 0..n
      BY <1>9, <2>1
    <3>3. index2[k - 1] = Len(given)
      BY <1>1, <1>4, <3>2
    <3>4. QED
      BY <1>3, <1>4, <2>1, <3>1, <3>3
  <2>2. CASE k # n + 1
    <3>1. k \in 1..n /\ k \in 0..n /\ k - 1 \in 0..n
      BY <1>3, <2>2
    <3>2. index2[k] = index[k] /\ index2[k - 1] = index[k - 1] /\ w[k] = waiting[k]
      BY <1>3, <1>4, <3>1
    <3>3. CASE waiting[k] \in Registrations
      BY <1>1, <3>1, <3>2, <3>3
    <3>4. CASE waiting[k] \notin Registrations
      <4>1. index[k] = index[k - 1] + 1 /\ waiting[k] = given[index[k]] /\ index[k - 1] \in 0..Len(given)
        BY <1>1, <1>4, <3>1, <3>4
      <4>2. index[k] \in 1..Len(given)
        <5>1. index[k] \in 0..Len(given) /\ Len(given) \in Nat
          BY <1>3, <1>4, <3>1, Zenon
        <5>2. QED
          BY <4>1, <5>1
      <4>3. QED
        BY <1>3, <3>2, <3>4, <4>1, <4>2
    <3>5. QED
      BY <3>3, <3>4
  <2>3. QED
    BY <2>1, <2>2
<1>6. index2[0] = before
  BY <1>1, <1>4, <1>9
<1>7. Counts(index2, before, w, g)
  BY <1>3, <1>4, <1>5, <1>6 DEF Counts
<1>8. QED
  BY <1>2, <1>7

LEMMA RegistrationQueued ==
  ASSUME NEW waiting \in Seq(Messages \cup Registrations), NEW given \in Seq(Messages),
         NEW before, NEW index, Counts(index, before, waiting, given), NEW m \in Registrations
  PROVE  \E index2 : Counts(index2, before, Append(waiting, m), given)
<1> DEFINE n == Len(waiting)
           index2 == [k \in 0..(n + 1) |-> IF k = n + 1 THEN Len(given) ELSE index[k]]
<1>1. /\ index \in [0..n -> 0..Len(given)] /\ index[0] = before /\ index[n] = Len(given)
      /\ \A k \in 1..n : IF waiting[k] \in Registrations THEN index[k] = index[k - 1]
                         ELSE index[k] = index[k - 1] + 1 /\ waiting[k] = given[index[k]]
  BY DEF Counts
<1>2. PICK w : w = Append(waiting, m)
  OBVIOUS
<1>3. /\ n \in Nat /\ Len(w) = n + 1 /\ w[n + 1] = m /\ \A i \in 1..n : w[i] = waiting[i]
      /\ Len(given) \in Nat
  BY <1>2, AtTheEnd
<1>9. n \in Nat /\ 0 \in 0..n /\ n \in 0..n
  OBVIOUS
<1> HIDE DEF n
<1>4. /\ index2[n + 1] = Len(given) /\ \A k \in 0..n : index2[k] = index[k] /\ index[k] \in 0..Len(given)
      /\ index2 \in [0..(n + 1) -> 0..Len(given)]
  BY <1>1, <1>3
<1> HIDE DEF index2
<1>5. ASSUME NEW k \in 1..(n + 1)
      PROVE  IF w[k] \in Registrations THEN index2[k] = index2[k - 1]
             ELSE index2[k] = index2[k - 1] + 1 /\ w[k] = given[index2[k]]
  <2>1. CASE k = n + 1
    <3>1. k - 1 = n /\ n \in 0..n
      BY <1>9, <2>1
    <3>2. QED
      BY <1>1, <1>3, <1>4, <2>1, <3>1
  <2>2. CASE k # n + 1
    <3>1. k \in 1..n /\ k \in 0..n /\ k - 1 \in 0..n
      BY <1>3, <2>2
    <3>2. QED
      BY <1>1, <1>3, <1>4, <3>1
  <2>3. QED
    BY <2>1, <2>2
<1>6. index2[0] = before
  BY <1>1, <1>4, <1>9
<1>7. Counts(index2, before, w, given)
  BY <1>3, <1>4, <1>5, <1>6 DEF Counts
<1>8. QED
  BY <1>2, <1>7

\* The send task takes the first one.
LEMMA FirstTaken ==
  ASSUME NEW waiting \in Seq(Messages \cup Registrations), NEW given \in Seq(Messages),
         NEW before, NEW index, Counts(index, before, waiting, given), waiting # <<>>
  PROVE  IF Head(waiting) \in Registrations
           THEN \E index2 : Counts(index2, before, Tail(waiting), given)
           ELSE /\ before + 1 \in DOMAIN given /\ Head(waiting) = given[before + 1]
                /\ \E index2 : Counts(index2, before + 1, Tail(waiting), given)
<1> DEFINE n == Len(waiting)
           index2 == [k \in 0..(n - 1) |-> index[k + 1]]
<1>1. /\ index \in [0..n -> 0..Len(given)] /\ index[0] = before /\ index[n] = Len(given)
      /\ \A k \in 1..n : IF waiting[k] \in Registrations THEN index[k] = index[k - 1]
                         ELSE index[k] = index[k - 1] + 1 /\ waiting[k] = given[index[k]]
  BY DEF Counts
<1>2. PICK w : w = Tail(waiting)
  OBVIOUS
<1>3. /\ n \in Nat /\ n # 0 /\ Len(w) = n - 1 /\ Head(waiting) = waiting[1]
      /\ \A i \in 1..(n - 1) : w[i] = waiting[i + 1]
      /\ Len(given) \in Nat /\ DOMAIN given = 1..Len(given)
  BY <1>2
<1> HIDE DEF n
<1>4. \A k \in 0..(n - 1) : index2[k] = index[k + 1] /\ k + 1 \in 0..n /\ k + 1 \in 1..n
  BY <1>3
<1>5. index2 \in [0..(n - 1) -> 0..Len(given)]
  BY <1>1, <1>3
<1> HIDE DEF index2
<1>6. ASSUME NEW k \in 1..(n - 1)
      PROVE  IF w[k] \in Registrations THEN index2[k] = index2[k - 1]
             ELSE index2[k] = index2[k - 1] + 1 /\ w[k] = given[index2[k]]
  <2>1. k + 1 \in 1..n /\ (k + 1) - 1 = k /\ k \in 0..(n - 1) /\ k - 1 \in 0..(n - 1) /\ (k - 1) + 1 = k
    BY <1>3
  <2>2. index2[k] = index[k + 1] /\ index2[k - 1] = index[k] /\ w[k] = waiting[k + 1]
    BY <1>3, <1>4, <2>1
  <2>3. IF waiting[k + 1] \in Registrations THEN index[k + 1] = index[k]
        ELSE index[k + 1] = index[k] + 1 /\ waiting[k + 1] = given[index[k + 1]]
    BY <1>1, <2>1
  <2>4. QED
    BY <2>2, <2>3
<1>7. index2[0] = index[1] /\ index2[n - 1] = Len(given)
  <2>1. 0 \in 0..(n - 1) /\ n - 1 \in 0..(n - 1) /\ 0 + 1 = 1 /\ (n - 1) + 1 = n
    BY <1>3
  <2>2. QED
    BY <1>1, <1>4, <2>1
<1>8. Counts(index2, index[1], w, given)
  BY <1>3, <1>5, <1>6, <1>7 DEF Counts
<1>9. 1 \in 1..n /\ 1 - 1 = 0 /\ 1 \in 0..n /\ index[0] \in 0..Len(given) /\ index[1] \in 0..Len(given)
  BY <1>1, <1>3
<1>10. CASE waiting[1] \in Registrations
  BY <1>1, <1>2, <1>3, <1>8, <1>9, <1>10
<1>11. CASE waiting[1] \notin Registrations
  <2>1. index[1] = before + 1 /\ waiting[1] = given[index[1]]
    BY <1>1, <1>9, <1>11
  <2>2. before + 1 \in DOMAIN given
    BY <1>1, <1>3, <1>9, <2>1
  <2>3. QED
    BY <1>2, <1>3, <1>8, <1>11, <2>1, <2>2
<1>12. QED
  BY <1>10, <1>11

------------------------------------------------------------------------------
\* The link: which messages and acknowledgements are where.

\* What a step of the session does to the queue and the histories.
LEMMA SessionQueues ==
  ASSUME TypeInv, OverInv, SessionStep
  PROVE  /\ UNCHANGED <<asked, heard, toServer, consumed, outgoing, sender, receiver>>
         /\ \/ UNCHANGED <<queue, accepted>>
            \/ /\ sender # "ended"
               /\ \/ \E m \in Messages : queue' = Append(queue, m) /\ accepted' = Append(accepted, m)
                  \/ \E m \in Registrations : queue' = Append(queue, m) /\ accepted' = accepted
         /\ accepted' # accepted => child' = child /\ stage \notin Over /\ stage' \notin Over
<1>0. UNCHANGED <<toServer, consumed, outgoing, sender, receiver>>
  BY SessionMoves DEF pipeVars
<1>1. CASE Initialize
  <2>1. Request(Handshake) \in Messages
    BY MessageFacts
  <2>2. QED
    BY <1>0, <1>1, <2>1 DEF Initialize, Accept, serverVars, Over
<1>2. ASSUME NEW r \in Requests, MakeRequest(r)
      PROVE  /\ UNCHANGED <<asked, heard>> /\ sender # "ended"
             /\ \E m \in Messages : queue' = Append(queue, m) /\ accepted' = Append(accepted, m)
             /\ child' = child /\ stage \notin Over /\ stage' \notin Over
  <2>1. Request(r) \in Messages
    BY MessageFacts
  <2>2. QED
    BY <1>2, <2>1 DEF MakeRequest, Accept, serverVars, Over
<1>3. ASSUME NEW m \in Methods, Subscribe(m)
      PROVE  /\ UNCHANGED <<asked, heard>> /\ sender # "ended"
             /\ \E n \in Registrations : queue' = Append(queue, n) /\ accepted' = accepted
  <2>1. Registration(m) \in Registrations
    BY MessageFacts
  <2>2. QED
    BY <1>3, <2>1 DEF Subscribe, serverVars
<1>4. CASE SendInitialized
  BY <1>0, <1>4, MessageFacts DEF SendInitialized, Accept, serverVars, Over
<1>5. CASE Refused \/ TimeOut \/ StartupFails \/ Close
  BY <1>0, <1>5 DEF Refused, TimeOut, StartupFails, Close, taskVars
<1>6. QED
  BY <1>0, <1>1, <1>2, <1>3, <1>4, <1>5 DEF SessionStep


\* While nothing is written or read, longer histories disturb nothing on the pipe.
LEMMA PipeStays ==
  ASSUME TypeInv, HistoryTypes, HistoryTypes', accepted' \in Seq(Messages), OnPipeInv, HeardInv,
         UNCHANGED <<toServer, consumed, heard>>,
         \/ accepted' = accepted
         \/ \E m \in Messages : accepted' = Append(accepted, m),
         \/ asked' = asked
         \/ \E a \in Asks : asked' = Append(asked, a)
  PROVE  OnPipeInv' /\ HeardInv'
<1>1. \A i \in DOMAIN accepted : i \in DOMAIN accepted' /\ accepted'[i] = accepted[i]
  <2>1. accepted \in Seq(Messages)
    BY DEF TypeInv, SessionTypes
  <2>2. ASSUME NEW m \in Messages, accepted' = Append(accepted, m)
        PROVE  \A i \in DOMAIN accepted : i \in DOMAIN accepted' /\ accepted'[i] = accepted[i]
    BY <2>1, <2>2, AtTheEnd
  <2>3. QED
    BY <2>2
<1>2. \A i \in DOMAIN asked : i \in DOMAIN asked' /\ asked'[i] = asked[i]
  <2>1. asked \in Seq(Asks)
    BY DEF HistoryTypes
  <2>2. ASSUME NEW a \in Asks, asked' = Append(asked, a)
        PROVE  \A i \in DOMAIN asked : i \in DOMAIN asked' /\ asked'[i] = asked[i]
    BY <2>1, <2>2, AtTheEnd
  <2>3. QED
    BY <2>2
<1>3. HeardInv'
  BY DEF HeardInv
<1>4. OnPipeInv'
  <2>1. ASSUME NEW i \in DOMAIN toServer, toServer[i].part = Chunks
        PROVE  IF toServer[i].frame.kind = "ack"
                 THEN /\ AcksIn(toServer, i) \in DOMAIN asked'
                      /\ toServer[i].frame = Ack(asked'[AcksIn(toServer, i)])
                 ELSE /\ MessagesIn(toServer, i) \in DOMAIN accepted'
                      /\ toServer[i].frame = accepted'[MessagesIn(toServer, i)]
    <3>1. CASE toServer[i].frame.kind = "ack"
      <4>1. /\ AcksIn(toServer, i) \in DOMAIN asked
            /\ toServer[i].frame = Ack(asked[AcksIn(toServer, i)])
        BY <2>1, <3>1 DEF OnPipeInv
      <4>2. asked'[AcksIn(toServer, i)] = asked[AcksIn(toServer, i)] /\ AcksIn(toServer, i) \in DOMAIN asked'
        BY <1>2, <4>1
      <4>3. QED
        BY <3>1, <4>1, <4>2
    <3>2. CASE toServer[i].frame.kind # "ack"
      <4>1. /\ MessagesIn(toServer, i) \in DOMAIN accepted
            /\ toServer[i].frame = accepted[MessagesIn(toServer, i)]
        BY <2>1, <3>2 DEF OnPipeInv
      <4>2. /\ accepted'[MessagesIn(toServer, i)] = accepted[MessagesIn(toServer, i)]
            /\ MessagesIn(toServer, i) \in DOMAIN accepted'
        BY <1>1, <4>1
      <4>3. QED
        BY <3>2, <4>1, <4>2
    <3>3. QED
      BY <3>1, <3>2
  <2>2. QED
    BY <2>1 DEF OnPipeInv
<1>5. QED
  BY <1>3, <1>4

\* What the send task has and what waits for it, when the pipe stands still.
LEMMA SessionKeepsSending ==
  ASSUME TypeInv, SendInv, SessionStep, OverInv
  PROVE  SendInv'
<1>1. queue \in Seq(Messages \cup Registrations) /\ accepted \in Seq(Messages)
  BY DEF TypeInv, TaskTypes, SessionTypes
<1>2. PICK sent : sent = MessagesIn(toServer, Len(toServer))
  OBVIOUS
<1>3. UNCHANGED <<toServer, outgoing, sender>>
  BY SessionQueues
<1>4. sent = MessagesIn(toServer', Len(toServer'))
  BY <1>2, <1>3
<1>5. /\ outgoing["sender"] # None => sent + 1 \in DOMAIN accepted /\ outgoing["sender"] = accepted[sent + 1]
      /\ sender # "ended" =>
           \E index : Counts(index, IF outgoing["sender"] = None THEN sent ELSE sent + 1, queue, accepted)
  BY <1>2 DEF SendInv
<1>6. /\ outgoing["sender"] # None => sent + 1 \in DOMAIN accepted' /\ outgoing["sender"] = accepted'[sent + 1]
      /\ sender # "ended" =>
           \E index : Counts(index, IF outgoing["sender"] = None THEN sent ELSE sent + 1, queue', accepted')
  <2>1. CASE UNCHANGED <<queue, accepted>>
    BY <1>5, <2>1
  <2>2. ASSUME sender # "ended", NEW m \in Messages, queue' = Append(queue, m), accepted' = Append(accepted, m)
        PROVE  /\ outgoing["sender"] # None => sent + 1 \in DOMAIN accepted' /\ outgoing["sender"] = accepted'[sent + 1]
               /\ \E index : Counts(index, IF outgoing["sender"] = None THEN sent ELSE sent + 1, queue', accepted')
    <3>1. \A i \in DOMAIN accepted : i \in DOMAIN accepted' /\ accepted'[i] = accepted[i]
      BY <1>1, <2>2, AtTheEnd
    <3>2. PICK before : before = IF outgoing["sender"] = None THEN sent ELSE sent + 1
      OBVIOUS
    <3>3. PICK index : Counts(index, before, queue, accepted)
      BY <1>5, <2>2, <3>2
    <3>4. \E index2 : Counts(index2, before, Append(queue, m), Append(accepted, m))
      BY <1>1, <3>3, MessageQueued
    <3>5. QED
      BY <1>5, <2>2, <3>1, <3>2, <3>4
  <2>3. ASSUME sender # "ended", NEW m \in Registrations, queue' = Append(queue, m), accepted' = accepted
        PROVE  \E index : Counts(index, IF outgoing["sender"] = None THEN sent ELSE sent + 1, queue', accepted')
    <3>1. PICK before : before = IF outgoing["sender"] = None THEN sent ELSE sent + 1
      OBVIOUS
    <3>2. PICK index : Counts(index, before, queue, accepted)
      BY <1>5, <2>3, <3>1
    <3>3. \E index2 : Counts(index2, before, Append(queue, m), accepted)
      BY <1>1, <3>2, RegistrationQueued
    <3>4. QED
      BY <2>3, <3>1, <3>3
  <2>4. QED
    BY <1>5, <2>1, <2>2, <2>3, SessionQueues
<1>7. QED
  BY <1>3, <1>4, <1>6 DEF SendInv

\* The send task takes a registration or a message off the queue.
LEMMA TakeNextKeepsSending ==
  ASSUME TypeInv, LockInv, SendInv, TakeNext
  PROVE  SendInv'
<1>1. /\ queue \in Seq(Messages \cup Registrations) /\ accepted \in Seq(Messages) /\ queue # <<>>
      /\ outgoing \in [Writers -> Frames \cup {None}] /\ "sender" \in Writers
  BY DEF TypeInv, TaskTypes, SessionTypes, TakeNext, Writers
<1>2. /\ sender = "idle" /\ UNCHANGED <<toServer, accepted>> /\ queue' = Tail(queue)
      /\ IF Head(queue) \in Registrations THEN UNCHANGED <<sender, outgoing>>
         ELSE /\ sender' = "waiting" /\ outgoing' = [outgoing EXCEPT !["sender"] = Head(queue)]
  BY DEF TakeNext
<1>3. outgoing["sender"] = None
  BY <1>1, <1>2 DEF LockInv
<1>4. PICK sent : sent = MessagesIn(toServer, Len(toServer))
  OBVIOUS
<1>5. PICK index : Counts(index, sent, queue, accepted)
  BY <1>2, <1>3, <1>4 DEF SendInv
<1>6. IF Head(queue) \in Registrations
        THEN \E index2 : Counts(index2, sent, Tail(queue), accepted)
        ELSE /\ sent + 1 \in DOMAIN accepted /\ Head(queue) = accepted[sent + 1]
             /\ \E index2 : Counts(index2, sent + 1, Tail(queue), accepted)
  BY <1>1, <1>5, FirstTaken
<1>7. sent = MessagesIn(toServer', Len(toServer'))
  BY <1>2, <1>4
<1>8. CASE Head(queue) \in Registrations
  <2>1. outgoing'["sender"] = None
    BY <1>2, <1>3, <1>8
  <2>2. QED
    BY <1>2, <1>6, <1>7, <1>8, <2>1 DEF SendInv
<1>9. CASE Head(queue) \notin Registrations
  <2>1. Head(queue) \in Messages
    BY <1>1, <1>9, WithoutTheHead
  <2>2. outgoing'["sender"] = Head(queue) /\ Head(queue) # None
    BY <1>1, <1>2, <1>9, <2>1, MessageIsNoRegistration
  <2>3. QED
    BY <1>2, <1>6, <1>7, <1>9, <2>2 DEF SendInv
<1>10. QED
  BY <1>8, <1>9

\* The receive task reads the next ask, and has its acknowledgement to write.
LEMMA ReceiveKeepsLink ==
  ASSUME TypeInv, LockInv, LinkInv, Receive
  PROVE  LinkInv'
<1> DEFINE f == toClient[taken + 1]
<1>1. /\ toServer \in Seq(Chunk) /\ asked \in Seq(Asks) /\ accepted \in Seq(Messages)
      /\ outgoing \in [Writers -> Frames \cup {None}] /\ "receiver" \in Writers /\ "sender" \in Writers
  BY DEF TypeInv, PipeTypes, TaskTypes, SessionTypes, LinkInv, HistoryTypes, Chunk, Writers
<1>2. /\ receiver = "reading" /\ UNCHANGED <<toServer, consumed, heard, accepted, queue, sender>>
      /\ IF f.kind = "ask"
           THEN /\ receiver' = "waiting" /\ outgoing' = [outgoing EXCEPT !["receiver"] = Ack(f.id)]
                /\ asked' = Append(asked, f.id)
           ELSE UNCHANGED <<receiver, outgoing, asked>>
  BY DEF Receive, serverVars
<1>3. f.kind = "ask" => f.id \in Asks
  <2>1. taken < Len(toClient)
    BY DEF Receive
  <2>2. toClient \in Seq(Outputs) /\ taken + 1 \in 1..Len(toClient)
    BY <2>1 DEF TypeInv, PipeTypes
  <2>3. QED
    BY <2>2, OutputFacts
<1>4. outgoing["receiver"] = None
  BY <1>1, <1>2 DEF LockInv
<1>5. Len(asked) = AcksIn(toServer, Len(toServer))
  BY <1>2, <1>4 DEF LinkInv, AckInv
<1> HIDE DEF f
<1>6. HistoryTypes'
  <2>1. asked' \in Seq(Asks)
    <3>1. CASE f.kind = "ask"
      <4>1. asked' = Append(asked, f.id) /\ f.id \in Asks
        BY <1>2, <1>3, <3>1
      <4>2. QED
        BY <1>1, <4>1, AtTheEnd
    <3>2. CASE f.kind # "ask"
      BY <1>1, <1>2, <3>2
    <3>3. QED
      BY <3>1, <3>2
  <2>2. QED
    BY <1>2, <2>1 DEF LinkInv, HistoryTypes
<1>7. OnPipeInv' /\ HeardInv'
  <2>1. asked' = asked \/ \E a \in Asks : asked' = Append(asked, a)
    BY <1>2, <1>3
  <2>2. accepted' = accepted /\ accepted' \in Seq(Messages)
    BY <1>1, <1>2
  <2>3. QED
    BY <1>2, <1>6, <2>1, <2>2, PipeStays DEF LinkInv
<1>8. AckInv'
  <2>1. CASE f.kind = "ask"
    <3>1. Len(asked') = Len(asked) + 1 /\ asked'[Len(asked')] = f.id /\ outgoing'["receiver"] = Ack(f.id)
      BY <1>1, <1>2, <1>3, <2>1, AtTheEnd
    <3>2. Ack(f.id) # None
      BY <1>3, <2>1, MessageIsNoRegistration
    <3>3. QED
      BY <1>2, <1>5, <3>1, <3>2 DEF AckInv
  <2>2. CASE f.kind # "ask"
    BY <1>2, <2>2 DEF LinkInv, AckInv
  <2>3. QED
    BY <2>1, <2>2
<1>9. SendInv'
  <2>1. outgoing'["sender"] = outgoing["sender"]
    BY <1>1, <1>2
  <2>2. QED
    BY <1>2, <2>1 DEF LinkInv, SendInv
<1>10. QED
  BY <1>6, <1>7, <1>8, <1>9 DEF LinkInv

\* A chunk is written: a whole message or acknowledgement is the next one, or none is whole.
LEMMA ChunkKeepsLink ==
  ASSUME TypeInv, LockInv, LinkInv, NEW w \in Writers, WriteChunk(w)
  PROVE  LinkInv'
<1> DEFINE c == [frame |-> outgoing[w], part |-> written + 1]
           n == Len(toServer)
<1>1. /\ toServer \in Seq(Chunk) /\ asked \in Seq(Asks) /\ accepted \in Seq(Messages)
      /\ outgoing \in [Writers -> Frames \cup {None}] /\ "receiver" \in Writers /\ "sender" \in Writers
      /\ consumed \in 0..n /\ n \in Nat
  BY DEF TypeInv, PipeTypes, TaskTypes, SessionTypes, LinkInv, HistoryTypes, Chunk, Writers
<1>2. outgoing[w] \in Frames /\ outgoing[w] # None
  BY Leaving DEF WriteChunk, LockInv, TypeInv, TaskTypes
<1>3. c \in Chunk
  BY <1>2 DEF TypeInv, TaskTypes, Chunk
<1>4. /\ toServer' = Append(toServer, c) /\ UNCHANGED <<consumed, heard, accepted, asked, queue>>
      /\ IF written + 1 = Chunks
           THEN SetTask(w, Idle(w)) /\ outgoing' = [outgoing EXCEPT ![w] = None]
           ELSE SetTask(w, "writing") /\ outgoing' = outgoing
  BY DEF WriteChunk, serverVars, sessionVars
<1>5. (sender' = "ended" <=> sender = "ended") /\ (receiver' = "ended" <=> receiver = "ended")
  <2>1. Holds(w) /\ In(lock, w)
    BY Leaving DEF WriteChunk, LockInv
  <2>2. (w = "sender" => sender # "ended") /\ (w = "receiver" => receiver # "ended")
    BY <2>1 DEF LockInv
  <2>3. QED
    BY <1>4, <2>2 DEF SetTask, Idle
<1>6. c.part = Chunks <=> written + 1 = Chunks
  OBVIOUS
<1>7. c.frame = outgoing[w]
  OBVIOUS
<1> HIDE DEF c
<1>8. /\ Len(toServer') = n + 1 /\ toServer'[n + 1] = c
      /\ \A i \in 1..n : toServer'[i] = toServer[i]
      /\ DOMAIN toServer' = 1..(n + 1) /\ DOMAIN toServer = 1..n
      /\ \A i \in 1..(n + 1) : i = n + 1 \/ i \in 1..n
  BY <1>1, <1>3, <1>4, AtTheEnd
<1>9. \A i \in 0..n : MessagesIn(toServer', i) = MessagesIn(toServer, i) /\ AcksIn(toServer', i) = AcksIn(toServer, i)
  BY <1>1, <1>3, <1>4, CountsBefore
<1>10. /\ MessagesIn(toServer, n) \in Nat /\ AcksIn(toServer, n) \in Nat
       /\ MessagesIn(toServer', n + 1) = IF c.part = Chunks /\ c.frame.kind # "ack"
                                         THEN MessagesIn(toServer, n) + 1 ELSE MessagesIn(toServer, n)
       /\ AcksIn(toServer', n + 1) = IF c.part = Chunks /\ c.frame.kind = "ack"
                                     THEN AcksIn(toServer, n) + 1 ELSE AcksIn(toServer, n)
  <2>1. n + 1 \in Nat \ {0} /\ (n + 1) - 1 = n /\ n \in 0..n
    BY <1>1
  <2>2. PICK pipe : pipe = toServer'
    OBVIOUS
  <2>3. /\ MessagesIn(pipe, n) \in Nat /\ AcksIn(pipe, n) \in Nat
        /\ MessagesIn(pipe, n + 1) = IF pipe[n + 1].part = Chunks /\ pipe[n + 1].frame.kind # "ack"
                                     THEN MessagesIn(pipe, n) + 1 ELSE MessagesIn(pipe, n)
        /\ AcksIn(pipe, n + 1) = IF pipe[n + 1].part = Chunks /\ pipe[n + 1].frame.kind = "ack"
                                 THEN AcksIn(pipe, n) + 1 ELSE AcksIn(pipe, n)
    BY <2>1, OneMoreIn
  <2>4. QED
    BY <1>8, <1>9, <2>1, <2>2, <2>3
<1>11. PICK sent, acked : sent = MessagesIn(toServer, n) /\ acked = AcksIn(toServer, n)
  OBVIOUS
<1>12. /\ outgoing["sender"] # None => sent + 1 \in DOMAIN accepted /\ outgoing["sender"] = accepted[sent + 1]
       /\ sender # "ended" =>
            \E index : Counts(index, IF outgoing["sender"] = None THEN sent ELSE sent + 1, queue, accepted)
  BY <1>11 DEF LinkInv, SendInv
<1>13. /\ outgoing["receiver"] # None =>
            /\ Len(asked) = acked + 1 /\ outgoing["receiver"] = Ack(asked[Len(asked)])
       /\ receiver # "ended" /\ outgoing["receiver"] = None => Len(asked) = acked
  BY <1>11 DEF LinkInv, AckInv
<1>14. /\ w = "sender" => c.frame.kind # "ack" /\ sent + 1 \in DOMAIN accepted /\ c.frame = accepted[sent + 1]
       /\ w = "receiver" => /\ c.frame.kind = "ack" /\ acked + 1 \in DOMAIN asked
                            /\ c.frame = Ack(asked[acked + 1])
  <2>1. CASE w = "sender"
    <3>1. sent + 1 \in DOMAIN accepted /\ c.frame = accepted[sent + 1]
      BY <1>2, <1>7, <1>12, <2>1
    <3>2. accepted[sent + 1] \in Messages
      BY <1>1, <3>1
    <3>3. QED
      BY <2>1, <3>1, <3>2, MessageIsNoRegistration
  <2>2. CASE w = "receiver"
    <3>1. Len(asked) = acked + 1 /\ c.frame = Ack(asked[acked + 1])
      BY <1>2, <1>7, <1>13, <2>2
    <3>2. acked + 1 \in DOMAIN asked /\ asked[acked + 1] \in Asks
      <4>1. acked \in Nat /\ Len(asked) \in Nat /\ DOMAIN asked = 1..Len(asked)
        BY <1>1, <1>10, <1>11
      <4>2. acked + 1 \in DOMAIN asked
        BY <3>1, <4>1
      <4>3. QED
        BY <1>1, <4>2
    <3>3. QED
      BY <2>2, <3>1, <3>2, MessageIsNoRegistration
  <2>3. QED
    BY <2>1, <2>2 DEF Writers
<1> HIDE DEF n
<1>15. HistoryTypes'
  BY <1>4 DEF LinkInv, HistoryTypes
<1>16. HeardInv'
  BY <1>1, <1>4, <1>9 DEF LinkInv, HeardInv
<1>17. OnPipeInv'
  <2>1. ASSUME NEW i \in 1..(n + 1), toServer'[i].part = Chunks
        PROVE  IF toServer'[i].frame.kind = "ack"
                 THEN /\ AcksIn(toServer', i) \in DOMAIN asked
                      /\ toServer'[i].frame = Ack(asked[AcksIn(toServer', i)])
                 ELSE /\ MessagesIn(toServer', i) \in DOMAIN accepted
                      /\ toServer'[i].frame = accepted[MessagesIn(toServer', i)]
    <3>1. CASE i = n + 1
      <4>1. toServer'[i] = c /\ c.part = Chunks
        BY <1>8, <2>1, <3>1
      <4>2. CASE w = "sender"
        BY <1>10, <1>11, <1>14, <3>1, <4>1, <4>2
      <4>3. CASE w = "receiver"
        BY <1>10, <1>11, <1>14, <3>1, <4>1, <4>3
      <4>4. QED
        BY <4>2, <4>3 DEF Writers
    <3>2. CASE i \in 1..n
      <4>1. toServer'[i] = toServer[i] /\ toServer[i].part = Chunks /\ i \in DOMAIN toServer
        BY <1>8, <2>1, <3>2
      <4>2. IF toServer[i].frame.kind = "ack"
              THEN AcksIn(toServer, i) \in DOMAIN asked /\ toServer[i].frame = Ack(asked[AcksIn(toServer, i)])
              ELSE /\ MessagesIn(toServer, i) \in DOMAIN accepted
                   /\ toServer[i].frame = accepted[MessagesIn(toServer, i)]
        BY <4>1 DEF LinkInv, OnPipeInv
      <4>3. i \in 0..n
        BY <1>1, <3>2
      <4>4. QED
        BY <1>9, <4>1, <4>2, <4>3
    <3>3. QED
      BY <1>8, <3>1, <3>2
  <2>2. QED
    BY <1>4, <1>8, <2>1 DEF OnPipeInv
<1>18. CASE c.part = Chunks
  <2>1. /\ outgoing'[w] = None /\ \A v \in Writers : v # w => outgoing'[v] = outgoing[v]
    BY <1>1, <1>4, <1>6, <1>18
  <2>2. CASE w = "sender"
    <3>1. MessagesIn(toServer', n + 1) = sent + 1 /\ AcksIn(toServer', n + 1) = acked
      BY <1>10, <1>11, <1>14, <1>18, <2>2
    <3>2. outgoing'["receiver"] = outgoing["receiver"] /\ outgoing'["sender"] = None
      BY <1>1, <2>1, <2>2
    <3>3. AckInv'
      BY <1>4, <1>5, <1>8, <1>13, <3>1, <3>2 DEF AckInv
    <3>4. SendInv'
      BY <1>2, <1>4, <1>5, <1>8, <1>12, <2>2, <3>1, <3>2 DEF SendInv
    <3>5. QED
      BY <1>15, <1>16, <1>17, <3>3, <3>4 DEF LinkInv
  <2>3. CASE w = "receiver"
    <3>1. MessagesIn(toServer', n + 1) = sent /\ AcksIn(toServer', n + 1) = acked + 1
      BY <1>10, <1>11, <1>14, <1>18, <2>3
    <3>2. outgoing'["receiver"] = None /\ outgoing'["sender"] = outgoing["sender"]
      BY <1>1, <2>1, <2>3
    <3>3. AckInv'
      BY <1>2, <1>4, <1>5, <1>8, <1>13, <2>3, <3>1, <3>2 DEF AckInv
    <3>4. SendInv'
      BY <1>4, <1>5, <1>8, <1>12, <3>1, <3>2 DEF SendInv
    <3>5. QED
      BY <1>15, <1>16, <1>17, <3>3, <3>4 DEF LinkInv
  <2>4. QED
    BY <2>2, <2>3 DEF Writers
<1>19. CASE c.part # Chunks
  <2>1. outgoing' = outgoing /\ MessagesIn(toServer', n + 1) = sent /\ AcksIn(toServer', n + 1) = acked
    BY <1>4, <1>6, <1>10, <1>11, <1>19
  <2>2. AckInv'
    BY <1>4, <1>5, <1>8, <1>13, <2>1 DEF AckInv
  <2>3. SendInv'
    BY <1>4, <1>5, <1>8, <1>12, <2>1 DEF SendInv
  <2>4. QED
    BY <1>15, <1>16, <1>17, <2>2, <2>3 DEF LinkInv
<1>20. QED
  BY <1>18, <1>19

\* A task that ends drops the frame it had.
LEMMA EndingKeepsLink ==
  ASSUME TypeInv, LinkInv, NEW w \in Writers, EndStep(w)
  PROVE  LinkInv'
<1>1. /\ outgoing \in [Writers -> Frames \cup {None}] /\ "receiver" \in Writers /\ "sender" \in Writers
  BY DEF TypeInv, TaskTypes, Writers
<1>2. /\ UNCHANGED <<toServer, consumed, heard, accepted, asked>>
      /\ sender' = IF w = "sender" THEN "ended" ELSE sender
      /\ receiver' = IF w = "receiver" THEN "ended" ELSE receiver
      /\ outgoing' = [outgoing EXCEPT ![w] = None]
      /\ queue' = IF w = "sender" THEN <<>> ELSE queue
  BY DEF EndStep, End, SetTask, sessionVars, serverVars
<1>3. /\ outgoing'[w] = None /\ \A v \in Writers : v # w => outgoing'[v] = outgoing[v]
  BY <1>1, <1>2
<1>4. HistoryTypes' /\ OnPipeInv' /\ HeardInv'
  BY <1>2 DEF LinkInv, HistoryTypes, OnPipeInv, HeardInv
<1>5. AckInv' /\ SendInv'
  <2>1. CASE w = "sender"
    <3>1. outgoing'["sender"] = None /\ outgoing'["receiver"] = outgoing["receiver"]
      BY <1>1, <1>3, <2>1
    <3>2. AckInv'
      BY <1>2, <2>1, <3>1 DEF LinkInv, AckInv
    <3>3. SendInv'
      BY <1>2, <2>1, <3>1 DEF SendInv
    <3>4. QED
      BY <3>2, <3>3
  <2>2. CASE w = "receiver"
    <3>1. outgoing'["receiver"] = None /\ outgoing'["sender"] = outgoing["sender"]
      BY <1>1, <1>3, <2>2
    <3>2. AckInv'
      BY <1>2, <2>2, <3>1 DEF AckInv
    <3>3. SendInv'
      BY <1>2, <2>2, <3>1 DEF LinkInv, SendInv
    <3>4. QED
      BY <3>2, <3>3
  <2>3. QED
    BY <2>1, <2>2 DEF Writers
<1>6. QED
  BY <1>4, <1>5 DEF LinkInv

\* What rust-analyzer reads next, and how that counts.
LEMMA NextHeard ==
  ASSUME TypeInv, LinkInv, ServerReads
  PROVE  LET c == toServer[consumed + 1] IN
         /\ consumed + 1 \in DOMAIN toServer /\ c \in Chunk /\ consumed' = consumed + 1
         /\ UNCHANGED <<toServer, accepted, asked, outgoing, queue, sender, receiver>>
         /\ heard' = IF c.part = Chunks THEN Append(heard, c.frame) ELSE heard
         /\ MessagesOf(heard) \in Nat /\ AcksOf(heard) \in Nat
         /\ MessagesIn(toServer, consumed + 1) = IF c.part = Chunks /\ c.frame.kind # "ack"
                                                 THEN MessagesOf(heard) + 1 ELSE MessagesOf(heard)
         /\ AcksIn(toServer, consumed + 1) = IF c.part = Chunks /\ c.frame.kind = "ack"
                                             THEN AcksOf(heard) + 1 ELSE AcksOf(heard)
<1> DEFINE c == toServer[consumed + 1]
<1>1. /\ consumed < Len(toServer) /\ consumed' = consumed + 1
      /\ UNCHANGED <<toServer, accepted, asked, outgoing, queue, sender, receiver>>
      /\ heard' = IF c.part = Chunks THEN Append(heard, c.frame) ELSE heard
  BY DEF ServerReads, pipeVars, taskVars, sessionVars
<1>2. /\ toServer \in Seq(Chunk) /\ consumed \in 0..Len(toServer)
  BY DEF TypeInv, PipeTypes, Chunk
<1>3. /\ consumed + 1 \in DOMAIN toServer /\ consumed + 1 \in Nat \ {0} /\ (consumed + 1) - 1 = consumed
  BY <1>1, <1>2
<1>4. c \in Chunk
  BY <1>2, <1>3, ElementOfSeq
<1>5. /\ MessagesIn(toServer, consumed) \in Nat /\ AcksIn(toServer, consumed) \in Nat
      /\ MessagesIn(toServer, consumed + 1) = IF c.part = Chunks /\ c.frame.kind # "ack"
                                              THEN MessagesIn(toServer, consumed) + 1
                                              ELSE MessagesIn(toServer, consumed)
      /\ AcksIn(toServer, consumed + 1) = IF c.part = Chunks /\ c.frame.kind = "ack"
                                          THEN AcksIn(toServer, consumed) + 1
                                          ELSE AcksIn(toServer, consumed)
  <2>1. PICK n : n = consumed + 1
    OBVIOUS
  <2>2. n \in Nat \ {0} /\ n - 1 = consumed
    BY <1>3, <2>1
  <2>3. /\ MessagesIn(toServer, n - 1) \in Nat /\ AcksIn(toServer, n - 1) \in Nat
        /\ MessagesIn(toServer, n) = IF toServer[n].part = Chunks /\ toServer[n].frame.kind # "ack"
                                     THEN MessagesIn(toServer, n - 1) + 1 ELSE MessagesIn(toServer, n - 1)
        /\ AcksIn(toServer, n) = IF toServer[n].part = Chunks /\ toServer[n].frame.kind = "ack"
                                 THEN AcksIn(toServer, n - 1) + 1 ELSE AcksIn(toServer, n - 1)
    BY <2>2, OneMoreIn
  <2>4. QED
    BY <2>1, <2>2, <2>3
<1>6. MessagesOf(heard) = MessagesIn(toServer, consumed) /\ AcksOf(heard) = AcksIn(toServer, consumed)
  BY DEF LinkInv, HeardInv
<1> HIDE DEF c
<1>7. QED
  BY <1>1, <1>3, <1>4, <1>5, <1>6 DEF c

LEMMA ReadingKeepsLink ==
  ASSUME TypeInv, LinkInv, ServerReads
  PROVE  LinkInv'
<1> DEFINE c == toServer[consumed + 1]
<1>1. /\ consumed + 1 \in DOMAIN toServer /\ c \in Chunk /\ consumed' = consumed + 1
      /\ UNCHANGED <<toServer, accepted, asked, outgoing, queue, sender, receiver>>
      /\ heard' = IF c.part = Chunks THEN Append(heard, c.frame) ELSE heard
      /\ MessagesOf(heard) \in Nat /\ AcksOf(heard) \in Nat
      /\ MessagesIn(toServer, consumed + 1) = IF c.part = Chunks /\ c.frame.kind # "ack"
                                              THEN MessagesOf(heard) + 1 ELSE MessagesOf(heard)
      /\ AcksIn(toServer, consumed + 1) = IF c.part = Chunks /\ c.frame.kind = "ack"
                                          THEN AcksOf(heard) + 1 ELSE AcksOf(heard)
  BY NextHeard
<1> HIDE DEF c
<1>2. heard \in Seq(Frames) /\ asked \in Seq(Asks)
  BY DEF LinkInv, HistoryTypes
<1>3. c.frame \in Frames
  BY <1>1 DEF Chunk
<1>4. OnPipeInv' /\ AckInv' /\ SendInv'
  BY <1>1 DEF LinkInv, OnPipeInv, AckInv, SendInv
<1>5. CASE c.part = Chunks
  <2>1. heard' = Append(heard, c.frame)
    BY <1>1, <1>5
  <2>2. heard' \in Seq(Frames)
    BY <1>2, <1>3, <2>1, AtTheEnd
  <2>3. PICK more : more = heard'
    OBVIOUS
  <2>4. /\ MessagesOf(more) = IF c.frame.kind # "ack" THEN MessagesOf(heard) + 1 ELSE MessagesOf(heard)
        /\ AcksOf(more) = IF c.frame.kind = "ack" THEN AcksOf(heard) + 1 ELSE AcksOf(heard)
    BY <1>2, <1>3, <2>1, <2>3, OneMoreHeard
  <2>5. MessagesOf(more) = MessagesIn(toServer, consumed + 1) /\ AcksOf(more) = AcksIn(toServer, consumed + 1)
    BY <1>1, <1>5, <2>4
  <2>6. HeardInv'
    BY <1>1, <2>3, <2>5 DEF HeardInv
  <2>7. QED
    BY <1>1, <1>2, <1>4, <2>2, <2>6 DEF LinkInv, HistoryTypes
<1>6. CASE c.part # Chunks
  <2>1. heard' = heard
    BY <1>1, <1>6
  <2>2. HeardInv'
    BY <1>1, <1>6, <2>1 DEF HeardInv
  <2>3. QED
    BY <1>1, <1>2, <1>4, <2>1, <2>2 DEF LinkInv, HistoryTypes
<1>7. QED
  BY <1>5, <1>6

\* Every other step leaves the link alone.
linkVars == <<toServer, consumed, accepted, asked, heard, outgoing, queue, sender, receiver>>

LEMMA LinkStands == ASSUME LinkInv, UNCHANGED linkVars PROVE LinkInv'
BY DEF linkVars, LinkInv, HistoryTypes, OnPipeInv, HeardInv, AckInv, SendInv

LEMMA LinkKept ==
  ASSUME TypeInv, LockInv, OverInv, LinkInv, [Next]_vars, SessionTypes'
  PROVE  LinkInv'
<1>1. CASE SessionStep
  <2>1. /\ UNCHANGED <<asked, heard, toServer, consumed, outgoing, sender, receiver>>
        /\ accepted' = accepted \/ \E m \in Messages : accepted' = Append(accepted, m)
    BY <1>1, SessionQueues
  <2>2. HistoryTypes' /\ accepted' \in Seq(Messages)
    BY <2>1 DEF LinkInv, HistoryTypes, SessionTypes
  <2>3. OnPipeInv' /\ HeardInv'
    BY <2>1, <2>2, PipeStays DEF LinkInv
  <2>4. AckInv'
    BY <2>1 DEF LinkInv, AckInv
  <2>5. SendInv'
    BY <1>1, SessionKeepsSending DEF LinkInv
  <2>6. QED
    BY <2>2, <2>3, <2>4, <2>5 DEF LinkInv
<1>2. CASE \E m \in Methods : Forward(m)
  BY <1>2, LinkStands DEF Forward, linkVars, taskVars, pipeVars, sessionVars, serverVars
<1>3. CASE TakeNext
  <2>1. /\ UNCHANGED <<toServer, consumed, accepted, asked, heard, receiver>>
        /\ outgoing'["receiver"] = outgoing["receiver"]
    <3>1. outgoing \in [Writers -> Frames \cup {None}] /\ "receiver" \in Writers
      BY DEF TypeInv, TaskTypes, Writers
    <3>2. QED
      BY <1>3, <3>1 DEF TakeNext, serverVars
  <2>2. HistoryTypes' /\ OnPipeInv' /\ HeardInv' /\ AckInv'
    BY <2>1 DEF LinkInv, HistoryTypes, OnPipeInv, HeardInv, AckInv
  <2>3. SendInv'
    BY <1>3, TakeNextKeepsSending DEF LinkInv
  <2>4. QED
    BY <2>2, <2>3 DEF LinkInv
<1>4. ASSUME NEW w \in Writers, WriteChunk(w) \/ EndStep(w) PROVE LinkInv'
  BY <1>4, ChunkKeepsLink, EndingKeepsLink
<1>5. CASE Receive
  BY <1>5, ReceiveKeepsLink
<1>6. CASE ServerReads
  BY <1>6, ReadingKeepsLink
<1>7. CASE (\E f \in Said : ServerSays(f)) \/ ServerWrites \/ ServerExits
  BY <1>7, LinkStands DEF ServerSays, ServerWrites, ServerExits, linkVars, taskVars, pipeVars, sessionVars
<1>8. CASE UNCHANGED vars
  BY <1>8, LinkStands DEF vars, linkVars, taskVars, pipeVars, sessionVars, serverVars
<1>9. QED
  BY <1>1, <1>2, <1>3, <1>4, <1>5, <1>6, <1>7, <1>8, Steps DEF ServerStep

------------------------------------------------------------------------------
\* The refinement of MessageLink.

\* When the link is excused, and that this is for good.
Excused == ~patient \/ child = "exited" \/ Closing

LEMMA ExcusedForGood ==
  ASSUME TypeInv, LockInv, OverInv, [Next]_vars
  PROVE  Excused => Excused'
<1>1. Excused => ~patient \/ child = "exited" \/ sender = "ended" \/ receiver = "ended"
  BY DEF Excused, Closing, OverInv
<1>2. ~patient' \/ child' = "exited" \/ sender' = "ended" \/ receiver' = "ended" => Excused'
  BY DEF Excused, Closing
<1>3. child \in {"up", "exited"} /\ child' \in {"up", "exited"}
  BY SessionTypesKept DEF TypeInv, SessionTypes
<1>4. CASE SessionStep
  BY <1>1, <1>2, <1>3, <1>4, SessionMoves
<1>5. CASE \E m \in Methods : Forward(m)
  BY <1>1, <1>2, <1>5 DEF Forward, taskVars, serverVars
<1>6. CASE TakeNext \/ Receive
  <2>1. UNCHANGED <<patient, child>>
    BY <1>6 DEF TakeNext, Receive, serverVars
  <2>2. (sender = "ended" <=> sender' = "ended") /\ (receiver = "ended" <=> receiver' = "ended")
    BY <1>6, TakingAFrame
  <2>3. QED
    BY <1>1, <1>2, <2>1, <2>2
<1>7. ASSUME NEW w \in Writers, WriteChunk(w) PROVE Excused => Excused'
  <2>1. UNCHANGED <<patient, child>>
    BY <1>7 DEF WriteChunk, serverVars
  <2>2. In(lock, w)
    BY <1>7, Leaving DEF WriteChunk, LockInv
  <2>3. (w = "sender" => sender # "ended") /\ (w = "receiver" => receiver # "ended")
    BY <2>2 DEF LockInv
  <2>4. SetTask(w, Idle(w)) \/ SetTask(w, "writing")
    BY <1>7 DEF WriteChunk
  <2>5. (sender = "ended" => sender' = "ended") /\ (receiver = "ended" => receiver' = "ended")
    BY <2>3, <2>4 DEF SetTask
  <2>6. QED
    BY <1>1, <1>2, <2>1, <2>5
<1>8. ASSUME NEW w \in Writers, EndStep(w) PROVE Excused => Excused'
  BY <1>1, <1>2, <1>8 DEF EndStep, End, SetTask, serverVars
<1>9. CASE ServerStep
  BY <1>1, <1>2, <1>9 DEF ServerStep, ServerReads, ServerSays, ServerWrites, ServerExits, taskVars
<1>10. CASE UNCHANGED vars
  BY <1>1, <1>2, <1>10 DEF vars, taskVars, serverVars
<1>11. QED
  BY <1>4, <1>5, <1>6, <1>7, <1>8, <1>9, <1>10, Steps

\* A step that touches no history is a stutter, or gives the link up.
LEMMA LinkRests ==
  ASSUME TypeInv, LockInv, OverInv, [Next]_vars, UNCHANGED <<accepted, asked, heard>>
  PROVE  [Link!Next]_(Link!vars)
<1>1. Excused => Excused'
  BY ExcusedForGood
<1>2. CASE ~Excused /\ Excused'
  <2>1. Link!GiveUp
    BY <1>2 DEF Link!GiveUp, Excused
  <2>2. QED
    BY <2>1 DEF Link!Next
<1>3. CASE Excused <=> Excused'
  <2>1. UNCHANGED Link!vars
    BY <1>3 DEF Link!vars, Excused
  <2>2. QED
    BY <2>1
<1>4. QED
  BY <1>1, <1>2, <1>3

\* What rust-analyzer reads whole is the next message or the next acknowledgement.
LEMMA ReadingArrives ==
  ASSUME TypeInv, LinkInv, ServerReads, heard' # heard
  PROVE  Link!Arrive
<1> DEFINE c == toServer[consumed + 1]
<1>1. /\ consumed + 1 \in DOMAIN toServer
      /\ UNCHANGED <<accepted, asked, sender, receiver>>
      /\ heard' = IF c.part = Chunks THEN Append(heard, c.frame) ELSE heard
      /\ MessagesIn(toServer, consumed + 1) = IF c.part = Chunks /\ c.frame.kind # "ack"
                                              THEN MessagesOf(heard) + 1 ELSE MessagesOf(heard)
      /\ AcksIn(toServer, consumed + 1) = IF c.part = Chunks /\ c.frame.kind = "ack"
                                          THEN AcksOf(heard) + 1 ELSE AcksOf(heard)
  BY NextHeard
<1>2. c.part = Chunks /\ heard' = Append(heard, c.frame)
  BY <1>1
<1>3. IF c.frame.kind = "ack"
        THEN AcksIn(toServer, consumed + 1) \in DOMAIN asked /\ c.frame = Ack(asked[AcksIn(toServer, consumed + 1)])
        ELSE /\ MessagesIn(toServer, consumed + 1) \in DOMAIN accepted
             /\ c.frame = accepted[MessagesIn(toServer, consumed + 1)]
  BY <1>1, <1>2 DEF LinkInv, OnPipeInv
<1> HIDE DEF c
<1>4. Link!NextMessage = MessagesOf(heard) + 1 /\ Link!NextAck = AcksOf(heard) + 1
  <2>1. {i \in DOMAIN heard : Link!IsMessage(heard[i])} = {i \in DOMAIN heard : heard[i].kind # "ack"}
    BY DEF Link!IsMessage, Link!IsAck
  <2>2. {i \in DOMAIN heard : Link!IsAck(heard[i])} = {i \in DOMAIN heard : heard[i].kind = "ack"}
    BY DEF Link!IsAck
  <2>3. QED
    BY <2>1, <2>2, Zenon DEF Link!NextMessage, Link!NextAck, Link!Cardinality, Cardinality, MessagesOf, AcksOf
<1>5. \/ Link!NextMessage \in DOMAIN accepted /\ heard' = Append(heard, accepted[Link!NextMessage])
      \/ Link!NextAck \in DOMAIN asked /\ heard' = Append(heard, Link!Ack(asked[Link!NextAck]))
  <2>1. CASE c.frame.kind = "ack"
    BY <1>1, <1>2, <1>3, <1>4, <2>1 DEF Link!Ack, Ack
  <2>2. CASE c.frame.kind # "ack"
    BY <1>1, <1>2, <1>3, <1>4, <2>2
  <2>3. QED
    BY <2>1, <2>2
<1>6. UNCHANGED <<stage, patient, child>>
  BY DEF ServerReads, sessionVars
<1>7. Excused <=> Excused'
  BY <1>1, <1>6 DEF Excused, Closing
<1>8. QED
  BY <1>1, <1>5, <1>7 DEF Link!Arrive, Excused

LEMMA StepRefinesLink ==
  ASSUME TypeInv, LockInv, OverInv, LinkInv, [Next]_vars
  PROVE  [Link!Next]_(Link!vars)
<1>1. CASE SessionStep
  <2>1. /\ UNCHANGED <<asked, heard, sender, receiver>>
        /\ accepted' = accepted \/ \E m \in Messages : accepted' = Append(accepted, m)
        /\ accepted' # accepted => child' = child /\ stage \notin Over /\ stage' \notin Over
    BY <1>1, SessionQueues
  <2>2. CASE accepted' = accepted
    BY <2>1, <2>2, LinkRests
  <2>3. CASE accepted' # accepted
    <3>1. patient' = patient
      BY <1>1, SessionMoves
    <3>2. Excused <=> Excused'
      BY <2>1, <2>3, <3>1 DEF Excused, Closing
    <3>3. Link!Accept
      BY <2>1, <2>3, <3>2 DEF Link!Accept, Excused
    <3>4. QED
      BY <3>3 DEF Link!Next
  <2>4. QED
    BY <2>2, <2>3
<1>2. CASE \E m \in Methods : Forward(m)
  BY <1>2, LinkRests DEF Forward, taskVars, sessionVars, serverVars
<1>3. CASE TakeNext
  BY <1>3, LinkRests DEF TakeNext, serverVars
<1>4. ASSUME NEW w \in Writers, WriteChunk(w) \/ EndStep(w) PROVE [Link!Next]_(Link!vars)
  BY <1>4, LinkRests DEF WriteChunk, EndStep, End, sessionVars, serverVars
<1>5. CASE Receive
  <2> DEFINE f == toClient[taken + 1]
  <2>1. /\ UNCHANGED <<accepted, heard, sender, child, patient>>
        /\ receiver = "reading"
        /\ IF f.kind = "ask" THEN asked' = Append(asked, f.id) /\ receiver' = "waiting"
           ELSE asked' = asked
        /\ f.kind # "response" => stage' = stage
    BY <1>5 DEF Receive, serverVars
  <2>2. CASE f.kind = "ask"
    <3>1. f.id \in Asks
      <4>1. taken < Len(toClient)
        BY <1>5 DEF Receive
      <4>2. toClient \in Seq(Outputs) /\ taken + 1 \in 1..Len(toClient)
        BY <4>1 DEF TypeInv, PipeTypes
      <4>3. QED
        BY <2>2, <4>2, OutputFacts
    <3>2. Excused <=> Excused'
      BY <2>1, <2>2 DEF Excused, Closing
    <3>3. Link!Ask
      BY <2>1, <2>2, <3>1, <3>2 DEF Link!Ask, Excused
    <3>4. QED
      BY <3>3 DEF Link!Next
  <2>3. CASE f.kind # "ask"
    BY <2>1, <2>3, LinkRests
  <2>4. QED
    BY <2>2, <2>3
<1>6. CASE ServerReads
  <2>1. CASE heard' = heard
    BY <1>6, <2>1, LinkRests DEF ServerReads, taskVars, sessionVars
  <2>2. CASE heard' # heard
    BY <1>6, <2>2, ReadingArrives DEF Link!Next
  <2>3. QED
    BY <2>1, <2>2
<1>7. CASE (\E f \in Said : ServerSays(f)) \/ ServerWrites \/ ServerExits
  BY <1>7, LinkRests DEF ServerSays, ServerWrites, ServerExits, taskVars, sessionVars
<1>8. CASE UNCHANGED vars
  BY <1>8, LinkRests DEF vars, taskVars, sessionVars, serverVars
<1>9. QED
  BY <1>1, <1>2, <1>3, <1>4, <1>5, <1>6, <1>7, <1>8, Steps DEF ServerStep

LEMMA LinkStarts == ASSUME Init PROVE Link!Init
<1>1. accepted = <<>> /\ asked = <<>> /\ heard = <<>> /\ patient \in BOOLEAN
  BY DEF Init
<1>2. (~patient \/ child = "exited" \/ Closing) \in BOOLEAN
  OBVIOUS
<1>3. QED
  BY <1>1, <1>2 DEF Link!Init

LEMMA LinkInitially == ASSUME Init PROVE LinkInv
<1>1. /\ toServer = <<>> /\ consumed = 0 /\ accepted = <<>> /\ asked = <<>> /\ heard = <<>> /\ queue = <<>>
      /\ outgoing = [w \in Writers |-> None]
  BY DEF Init
<1>2. /\ DOMAIN toServer = {} /\ Len(toServer) = 0 /\ DOMAIN heard = {} /\ Len(asked) = 0
      /\ Len(queue) = 0 /\ Len(accepted) = 0
  BY <1>1
<1>3. outgoing["sender"] = None /\ outgoing["receiver"] = None
  BY <1>1 DEF Writers
<1>4. HistoryTypes /\ OnPipeInv
  BY <1>1, <1>2 DEF HistoryTypes, OnPipeInv
<1>5. MessagesIn(toServer, 0) = 0 /\ AcksIn(toServer, 0) = 0
  BY NothingIn
<1>6. HeardInv
  <2>1. {i \in DOMAIN heard : heard[i].kind # "ack"} = {} /\ {i \in DOMAIN heard : heard[i].kind = "ack"} = {}
    BY <1>2
  <2>2. QED
    BY <1>1, <1>5, <2>1, FS_EmptySet, Zenon DEF HeardInv, MessagesOf, AcksOf
<1>7. AckInv
  BY <1>2, <1>3, <1>5 DEF AckInv
<1>8. SendInv
  <2> DEFINE index == [k \in 0..0 |-> 0]
  <2>1. index \in [0..0 -> 0..0] /\ index[0] = 0 /\ \A k \in 1..0 : FALSE
    OBVIOUS
  <2>2. Counts(index, 0, queue, accepted)
    BY <1>2, <2>1 DEF Counts
  <2>3. QED
    BY <1>2, <1>3, <1>5, <2>2 DEF SendInv
<1>9. QED
  BY <1>4, <1>6, <1>7, <1>8 DEF LinkInv

------------------------------------------------------------------------------
\* Every step keeps the invariant.

LEMMA Initially == ASSUME Init PROVE IndInv
<1> USE DEF Init
<1>1. SessionTypes
  BY DEF SessionTypes
<1>2. TaskTypes
  BY DEF TaskTypes
<1>3. PipeTypes
  BY DEF PipeTypes
<1>4. FeedTypes
  BY DEF FeedTypes
<1>5. LockInv
  BY MembersOfLocks DEF LockInv, Locks, Writers
<1>6. OverInv /\ BoundaryInv /\ FramesAreWhole
  BY DEF OverInv, Over, BoundaryInv, FramesAreWhole
<1>7. EarlyInv
  BY MessageFacts DEF EarlyInv, Frames
<1>8. InboxInv
  BY DEF InboxInv
<1>9. NothingEarlyIsLost
  <2> SUFFICES ASSUME NEW x \in Notices, NEW y \in Notices
               PROVE  ~Passed(x) /\ ~Read(x) /\ ~Ahead(x, y) /\ ~ReadBefore(x, y)
    BY DEF NothingEarlyIsLost
  <2>1. Handed(Method[x]) = <<>>
    BY DEF Handed
  <2> QED
    BY <2>1 DEF Passed, Read, Ahead, ReadBefore
<1>10. SaidOnce
  BY DEF SaidOnce
<1> HIDE DEF Init
<1> QED
  BY <1>1, <1>2, <1>3, <1>4, <1>5, <1>6, <1>7, <1>8, <1>9, <1>10, LinkInitially, Zenon
  DEF IndInv, TypeInv, WritersInv, FeedInv

LEMMA StepKeepsInv == ASSUME IndInv, [Next]_vars PROVE IndInv'
<1>1. /\ TypeInv /\ LockInv /\ OverInv /\ BoundaryInv /\ FramesAreWhole
      /\ EarlyInv /\ InboxInv /\ SaidOnce /\ NothingEarlyIsLost /\ LinkInv
  BY Zenon DEF IndInv, WritersInv, FeedInv
<1>2. TypeInv' /\ OverInv' /\ LockInv'
  BY <1>1, TypesKept, OverKept, LockKept, Zenon
<1>3. BoundaryInv' /\ FramesAreWhole'
  BY <1>1, WholeKept, Zenon
<1>4. EarlyInv' /\ InboxInv' /\ SaidOnce' /\ NothingEarlyIsLost'
  BY <1>1, EarlyKept, InboxKept, SaidOnceKept, NothingLostKept, Zenon
<1>5. LinkInv'
  <2>1. SessionTypes'
    BY <1>2, Zenon DEF TypeInv
  <2> QED
    BY <1>1, <2>1, LinkKept, Zenon
<1> QED
  BY <1>2, <1>3, <1>4, <1>5, Zenon DEF IndInv, WritersInv, FeedInv

LEMMA Invariance == Spec => []IndInv
<1>1. Init => IndInv
  BY Initially
<1>2. IndInv /\ [Next]_vars => IndInv'
  BY StepKeepsInv
<1> QED
  BY <1>1, <1>2, PTL DEF Spec

------------------------------------------------------------------------------
\* The theorems.

\* Every variable has its type, and a task is in the mutex exactly while it has a frame.
THEOREM TypeCorrect == Spec => []TypeOK
<1>1. IndInv => TypeOK
  <2> SUFFICES ASSUME IndInv PROVE TypeOK
    OBVIOUS
  <2>1. /\ SessionTypes /\ TaskTypes /\ PipeTypes /\ FeedTypes /\ lock \in Locks
        /\ \A w \in Writers : outgoing[w] # None <=> In(lock, w)
    BY Zenon DEF IndInv, TypeInv, WritersInv, LockInv
  <2>2. lock \in Seq(Writers)
    <3>1. <<>> \in Seq(Writers)
      OBVIOUS
    <3>2. \A v, w \in Writers : <<v>> \in Seq(Writers) /\ <<v, w>> \in Seq(Writers)
      OBVIOUS
    <3>3. "sender" \in Writers /\ "receiver" \in Writers
      BY DEF Writers
    <3> QED
      BY <2>1, <3>1, <3>2, <3>3, Zenon DEF Locks
  <2>3. /\ toClient \in Seq(Said \cup {Response(r) : r \in Requests \cup {Handshake}})
        /\ owed \in Seq(Said \cup {Response(r) : r \in Requests \cup {Handshake}})
    BY <2>1, Zenon DEF PipeTypes, Outputs, Responses
  <2>4. asked \in Seq(Asks) /\ heard \in Seq(Frames)
    BY Zenon DEF IndInv, LinkInv, HistoryTypes
  <2> QED
    BY <2>1, <2>2, <2>3, <2>4, Zenon DEF TypeOK, SessionTypes, TaskTypes, PipeTypes, FeedTypes, In
<1> QED
  BY <1>1, Invariance, PTL

\* Whatever order the two tasks write in, and wherever one of them ends, no frame on the
\* child's stdin is broken into by another.
THEOREM FramesStayWhole == Spec => []FramesAreWhole
<1>1. IndInv => FramesAreWhole
  BY DEF IndInv, WritersInv
<1> QED
  BY <1>1, Invariance, PTL

\* For any number of notifications and any buffer: every notification that the receive
\* task has read is with the hub or on its way to it, in the order read and without a
\* gap, until its method's subscription is found full and dropped, and that takes more
\* notifications than the buffer holds.
THEOREM EarlyNoticesArrive == Spec => []NothingEarlyIsLost
<1>1. IndInv => NothingEarlyIsLost
  BY DEF IndInv, FeedInv
<1> QED
  BY <1>1, Invariance, PTL

\* The transport is a link: whatever is lost when it breaks, the messages rust-analyzer
\* has read are the first ones accepted and the acknowledgements those of the first asks,
\* each whole, once and in order.
THEOREM TransportIsLink == Spec => LinkSafety
<1>1. Init => Link!Init
  BY LinkStarts
<1>2. IndInv /\ [Next]_vars => [Link!Next]_(Link!vars)
  BY StepRefinesLink DEF IndInv, WritersInv
<1> QED
  BY <1>1, <1>2, Invariance, PTL DEF Spec, LinkSafety, Link!SafeSpec
==============================================================================
