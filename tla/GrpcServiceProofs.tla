--------------------------- MODULE GrpcServiceProofs ---------------------------
(***************************************************************************)
(* Proofs about GrpcService, for any number of RPCs and status             *)
(* notifications: every response carries a status, and never one older     *)
(* than what was known when rust-analyzer answered.                        *)
(*                                                                         *)
(* The answer and the status reach a handler on two ways.  The cached      *)
(* version only grows, which is a fact about the hub; that the answer is   *)
(* there before the status is read, and is not given a second time, is one *)
(* about the calls.                                                        *)
(***************************************************************************)
EXTENDS GrpcService, SequenceTheorems, TLAPS

USE GrpcAssumption, FeedAssumption

------------------------------------------------------------------------------
\* The parts of the inductive invariant.

\* What waits in the subscription is newer than what the cache has.
FeedInv ==
  /\ latest[Status] <= sent[Status]
  /\ sent[Status] <= MaxVersion
  /\ \A i \in DOMAIN buffer[Status] :
       latest[Status] < buffer[Status][i].version /\ buffer[Status][i].version <= sent[Status]

\* Calls wait once, and have no answer before their turn.
QueueInv ==
  /\ queue \in Seq(Calls)
  /\ \A i \in DOMAIN queue : outcome[queue[i]] \in {"pending", "abandoned"}
  /\ \A i, j \in DOMAIN queue : queue[i] = queue[j] => i = j

\* A client has heard of a call only if the actor has answered it.
Settled == {"ok", "refused", "error", "closed", "internal"}
OutcomeInv ==
  /\ outcome \in [Calls -> {"unsent", "pending", "abandoned"} \cup Settled]
  /\ \A r \in Rpcs \cap Calls : reply[r] # NoReply => outcome[r] \in Settled

\* No answer is ahead of the cache; RPCs that the actor does not serve have none.
PublishedInv ==
  /\ \A r \in Rpcs : published[r] <= latest[Status]
  /\ \A r \in Versions : published[r] = 0

LocalTypes ==
  /\ up \in BOOLEAN
  /\ statuses \in Seq(ServerStatus) /\ Len(statuses) = sent[Status]
  /\ reply \in [Rpcs -> Replies]
  /\ \A r \in Rpcs : (reply[r].code = "ok") <=> (reply[r].status # "none")
  /\ published \in [Rpcs -> 0..MaxVersion]

ServiceInv ==
  /\ FeedInv
  /\ QueueInv
  /\ OutcomeInv
  /\ PublishedInv
  /\ StatusIsFresh

IndInv == TypeOK /\ ServiceInv

LEMMA TypeParts == TypeOK <=> Hub!TypeOK /\ LocalTypes
BY Zenon DEF TypeOK, LocalTypes

------------------------------------------------------------------------------
\* The hub.

HubStep == Hub!Notify(Status) \/ Hub!Record(Status) \/ Hub!Broadcast \/ Hub!Abort(Status)

LEMMA HubKeepsTypes ==
  ASSUME Hub!TypeOK, FeedInv, HubStep \/ UNCHANGED hubVars
  PROVE  Hub!TypeOK'
<1> USE DEF Hub!TypeOK
<1>1. CASE Hub!Notify(Status)
  <2>1. [topic |-> Status, version |-> sent[Status] + 1] \in Hub!Events
    BY <1>1 DEF Hub!Events, Hub!Notify
  <2>2. CASE listening[Status] /\ Len(buffer[Status]) < 1
    BY <1>1, <2>1, <2>2 DEF Hub!Notify, Hub!hubVars
  <2>3. CASE ~(listening[Status] /\ Len(buffer[Status]) < 1)
    <3>1. /\ sent' = [sent EXCEPT ![Status] = sent[Status] + 1] /\ buffer' = buffer
          /\ listening' = [listening EXCEPT ![Status] = FALSE]
          /\ UNCHANGED <<running, locked, latest, log, reader>>
      BY <1>1, <2>3 DEF Hub!Notify, Hub!hubVars
    <3> QED
      BY <3>1
  <2> QED
    BY <2>2, <2>3
<1>2. CASE Hub!Record(Status)
  <2>1. Head(buffer[Status]) \in Hub!Events /\ Tail(buffer[Status]) \in Seq(Hub!Events)
        /\ Len(Tail(buffer[Status])) <= 1
    BY <1>2 DEF Hub!Record
  <2>2. Head(buffer[Status]).topic = Status /\ Head(buffer[Status]).version \in Nat
    BY <2>1 DEF Hub!Events
  <2> QED
    BY <1>2, <2>1, <2>2 DEF Hub!Record
<1>3. CASE Hub!Broadcast
  BY <1>3 DEF Hub!Broadcast, Hub!sourceVars
<1>4. CASE Hub!Abort(Status)
  BY <1>4 DEF Hub!Abort, Hub!hubVars
<1>5. CASE UNCHANGED hubVars
  BY <1>5 DEF hubVars
<1> QED
  BY <1>1, <1>2, <1>3, <1>4, <1>5 DEF HubStep

\* The cached version never goes back.
LEMMA HubKeepsFeed ==
  ASSUME Hub!TypeOK, FeedInv, HubStep \/ UNCHANGED hubVars
  PROVE  /\ FeedInv'
         /\ latest[Status] \in Nat /\ latest'[Status] \in Nat
         /\ latest[Status] <= latest'[Status]
<1>0. /\ latest \in [{Status} -> Nat] /\ sent \in [{Status} -> Nat]
      /\ buffer \in [{Status} -> Seq(Hub!Events)] /\ Len(buffer[Status]) <= 1
  BY DEF Hub!TypeOK
<1>1. /\ latest[Status] \in Nat /\ sent[Status] \in Nat /\ buffer[Status] \in Seq(Hub!Events)
      /\ DOMAIN buffer[Status] = 1..Len(buffer[Status]) /\ Len(buffer[Status]) \in Nat
  BY <1>0
<1>2. CASE Hub!Notify(Status)
  <2>1. latest' = latest /\ sent'[Status] = sent[Status] + 1 /\ sent[Status] < MaxVersion
    BY <1>0, <1>2 DEF Hub!Notify, Hub!hubVars
  <2>2. CASE listening[Status] /\ Len(buffer[Status]) < 1
    <3> DEFINE e == [topic |-> Status, version |-> sent[Status] + 1]
    <3>1. buffer'[Status] = Append(buffer[Status], e) /\ buffer[Status] = <<>>
      BY <1>0, <1>1, <1>2, <2>2 DEF Hub!Notify
    <3>2. DOMAIN buffer'[Status] = {1} /\ buffer'[Status][1] = e /\ e.version = sent[Status] + 1
      BY <3>1
    <3> QED
      BY <1>1, <2>1, <3>2 DEF FeedInv
  <2>3. CASE ~(listening[Status] /\ Len(buffer[Status]) < 1)
    <3>1. buffer' = buffer
      BY <1>2, <2>3 DEF Hub!Notify
    <3>2. \A i \in DOMAIN buffer[Status] : buffer[Status][i].version \in Nat
      <4>1. \A i \in DOMAIN buffer[Status] : buffer[Status][i] \in Hub!Events
        BY <1>1
      <4> QED
        BY <4>1 DEF Hub!Events
    <3> QED
      BY SMTT(45), <1>1, <2>1, <3>1, <3>2 DEF FeedInv
  <2> QED
    BY <2>2, <2>3
<1>3. CASE Hub!Record(Status)
  <2>1. Len(buffer[Status]) = 1 /\ Head(buffer[Status]) = buffer[Status][1]
        /\ buffer[Status][1] \in Hub!Events /\ 1 \in DOMAIN buffer[Status]
        /\ Tail(buffer[Status]) = <<>>
    BY <1>0, <1>1, <1>3 DEF Hub!Record
  <2>2. buffer[Status][1].topic = Status /\ buffer[Status][1].version \in Nat
    BY <2>1 DEF Hub!Events
  <2>3. /\ sent' = sent /\ buffer'[Status] = <<>>
        /\ latest'[Status] = buffer[Status][1].version
    BY <1>0, <1>3, <2>1, <2>2 DEF Hub!Record
  <2> QED
    BY <1>1, <2>1, <2>2, <2>3 DEF FeedInv
<1>4. CASE Hub!Broadcast \/ Hub!Abort(Status) \/ UNCHANGED hubVars
  <2>1. latest' = latest /\ sent' = sent /\ buffer' = buffer
    BY <1>4 DEF Hub!Broadcast, Hub!Abort, Hub!sourceVars, Hub!hubVars, hubVars
  <2> QED
    BY <1>1, <2>1 DEF FeedInv
<1> QED
  BY <1>2, <1>3, <1>4 DEF HubStep

\* Which of the model's steps are steps of the hub.
LEMMA HubMoves == ASSUME [Next]_vars PROVE HubStep \/ UNCHANGED hubVars
<1> USE DEF HubStep
<1>1. CASE \E p \in ServerStatus : Announce(p)
  BY <1>1, Zenon DEF Announce
<1>2. CASE Publish \/ Abort
  BY <1>2, Zenon DEF Publish, Abort
<1>3. CASE Crash \/ Serve \/ BackendStops
  BY <1>3, Zenon DEF Crash, Serve, BackendStops
<1>4. CASE \E c \in Calls : Begin(c) \/ ClientLeaves(c)
  BY <1>4, Zenon DEF Begin, ClientLeaves
<1>5. CASE \E r \in Rpcs \cap Calls : Respond(r) \/ RespondError(r) \/ RespondLspError(r)
  BY <1>5, Zenon DEF Respond, RespondError, RespondLspError
<1>6. CASE \E r \in Versions : GetVersion(r)
  BY <1>6, Zenon DEF GetVersion
<1>7. CASE UNCHANGED vars
  BY <1>7 DEF vars
<1> QED
  BY <1>1, <1>2, <1>3, <1>4, <1>5, <1>6, <1>7 DEF Next

------------------------------------------------------------------------------
\* What the steps do to the replies.

\* Every RPC but c keeps its reply, and c is told r.
Told(c, r) == reply[c] = NoReply /\ reply' = [reply EXCEPT ![c] = r]

\* r tells a client of the actor's answer, or GetVersion of none.
HandlerStep(r) ==
  \/ r \in Rpcs \cap Calls /\ (Respond(r) \/ RespondError(r) \/ RespondLspError(r))
  \/ r \in Versions /\ GetVersion(r)

ActorStep ==
  \/ Serve
  \/ BackendStops
  \/ \E c \in Calls : Begin(c) \/ ClientLeaves(c)

LEMMA Steps ==
  ASSUME [Next]_vars
  PROVE  \/ \E r \in Rpcs : HandlerStep(r)
         \/ ActorStep /\ UNCHANGED <<reply, hubVars, statuses>>
         \/ UNCHANGED <<backendVars, reply, published>>
<1>1. CASE \E p \in ServerStatus : Announce(p)
  BY <1>1, Zenon DEF Announce
<1>2. CASE Publish \/ Abort \/ Crash
  BY <1>2, Zenon DEF Publish, Abort, Crash
<1>3. CASE Serve
  BY <1>3 DEF Serve, ActorStep
<1>4. CASE BackendStops
  BY <1>4 DEF BackendStops, ActorStep
<1>5. CASE \E c \in Calls : Begin(c) \/ ClientLeaves(c)
  BY <1>5 DEF Begin, ClientLeaves, ActorStep
<1>6. CASE \E r \in Rpcs \cap Calls : Respond(r) \/ RespondError(r) \/ RespondLspError(r)
  BY <1>6 DEF HandlerStep
<1>7. CASE \E r \in Versions : GetVersion(r)
  BY <1>7 DEF HandlerStep, Rpcs
<1>8. CASE UNCHANGED vars
  BY <1>8 DEF vars
<1> QED
  BY <1>1, <1>2, <1>3, <1>4, <1>5, <1>6, <1>7, <1>8 DEF Next

\* The status of a version the cache may have.
LEMMA StatusKnown ==
  ASSUME Hub!TypeOK, FeedInv
  PROVE  /\ Ok \in Replies /\ Ok.code = "ok" /\ Ok.status # "none"
         /\ Ok.version = latest[Status]
<1>1. latest[Status] \in 0..MaxVersion
  BY DEF Hub!TypeOK, FeedInv
<1>2. FromServerStatus(latest[Status]) \in {"indexing", "ready", "error"}
  BY DEF FromServerStatus
<1> QED
  BY <1>1, <1>2 DEF Ok, Replies

\* A handler tells its client Ok, or an error, once the call is settled.
LEMMA HandlerTells ==
  ASSUME NEW r \in Rpcs, HandlerStep(r)
  PROVE  /\ UNCHANGED <<backendVars, hubVars, up, statuses, published>>
         /\ Told(r, Ok) \/ Told(r, Invalid) \/ Told(r, Internal)
         /\ r \in Calls => outcome[r] \in Settled
<1>1. CASE r \in Rpcs \cap Calls /\ Respond(r)
  BY <1>1 DEF Respond, Told, Settled
<1>2. CASE r \in Rpcs \cap Calls /\ RespondError(r)
  BY <1>2 DEF RespondError, Told, Settled
<1>3. CASE r \in Rpcs \cap Calls /\ RespondLspError(r)
  BY <1>3 DEF RespondLspError, Told, Settled
<1>4. CASE r \in Versions /\ GetVersion(r)
  BY <1>4 DEF GetVersion, Told
<1> QED
  BY <1>1, <1>2, <1>3, <1>4 DEF HandlerStep

LEMMA ErrorsSayNothing ==
  ASSUME NEW e \in {Invalid, Internal}
  PROVE  e \in Replies /\ e.code # "ok" /\ e.status = "none"
BY DEF Invalid, Internal, NoReply, Replies

------------------------------------------------------------------------------
\* The calls.

\* The call that is served is the only one whose answer is new, and had none before.
LEMMA ServingAnswersTheHead ==
  ASSUME QueueInv, OutcomeInv, Backend!Serve
  PROVE  /\ Head(queue) \in Calls
         /\ outcome[Head(queue)] \in {"pending", "abandoned"}
         /\ \A c \in Calls : c # Head(queue) => outcome'[c] = outcome[c]
         /\ QueueInv'
         /\ outcome' \in [Calls -> {"unsent", "pending", "abandoned"} \cup Settled]
<1> DEFINE h == Head(queue)
<1>0. /\ queue \in Seq(Calls) /\ queue # <<>> /\ DOMAIN queue = 1..Len(queue)
      /\ Len(queue) \in Nat \ {0} /\ h = queue[1] /\ h \in Calls
  BY DEF QueueInv, Backend!Serve
<1>1. outcome[h] \in {"pending", "abandoned"}
  BY <1>0 DEF QueueInv
<1>2. /\ Tail(queue) \in Seq(Calls) /\ Len(Tail(queue)) = Len(queue) - 1
      /\ DOMAIN Tail(queue) = 1..(Len(queue) - 1)
      /\ \A i \in 1..(Len(queue) - 1) : Tail(queue)[i] = queue[i + 1] /\ i + 1 \in DOMAIN queue
  BY <1>0
<1>3. Kind[h] \in {"request", "forbidden", "shutdown"}
  BY <1>0
<1>4. PICK x \in Backend!Replies(Kind[h]) :
        outcome' = [outcome EXCEPT ![h] = IF outcome[h] = "pending" THEN x ELSE outcome[h]]
  BY <1>0 DEF Backend!Serve
<1>5. x \in Settled
  BY <1>3, <1>4 DEF Backend!Replies, Settled
<1>6. \A c \in Calls : c # h => outcome'[c] = outcome[c]
  BY <1>4 DEF OutcomeInv
<1>7. outcome' \in [Calls -> {"unsent", "pending", "abandoned"} \cup Settled]
  BY <1>0, <1>1, <1>4, <1>5 DEF OutcomeInv
<1>8. queue' = Tail(queue)
  BY DEF Backend!Serve
<1> HIDE DEF h
<1>9. \A i \in 1..(Len(queue) - 1) : queue[i + 1] # h /\ queue[i + 1] \in Calls
  <2> SUFFICES ASSUME NEW i \in 1..(Len(queue) - 1) PROVE queue[i + 1] # h /\ queue[i + 1] \in Calls
    OBVIOUS
  <2>1. i + 1 # 1 /\ i + 1 \in DOMAIN queue /\ 1 \in DOMAIN queue
    BY <1>0
  <2> QED
    BY <1>0, <2>1 DEF QueueInv
<1>10. QueueInv'
  <2>1. \A i \in DOMAIN queue' : outcome'[queue'[i]] \in {"pending", "abandoned"}
    BY <1>2, <1>6, <1>8, <1>9 DEF QueueInv
  <2>2. \A i, j \in DOMAIN queue' : queue'[i] = queue'[j] => i = j
    <3> SUFFICES ASSUME NEW i \in 1..(Len(queue) - 1), NEW j \in 1..(Len(queue) - 1),
                        queue[i + 1] = queue[j + 1]
                 PROVE  i = j
      BY SMTT(30), <1>2, <1>8
    <3>1. i + 1 = j + 1
      BY <1>2 DEF QueueInv
    <3> QED
      BY <1>0, <3>1
  <2> QED
    BY <1>2, <1>8, <2>1, <2>2 DEF QueueInv
<1> QED
  BY <1>0, <1>1, <1>6, <1>7, <1>10 DEF h

\* A call is accepted once, and abandoned or refused without leaving the queue.
LEMMA CallsKeepTheirPlace ==
  ASSUME QueueInv, OutcomeInv, NEW c \in Calls,
         Backend!Accept(c) \/ Backend!Refuse(c) \/ Backend!Abandon(c)
  PROVE  /\ QueueInv'
         /\ outcome' \in [Calls -> {"unsent", "pending", "abandoned"} \cup Settled]
         /\ outcome[c] \in {"unsent", "pending"}
         /\ \A d \in Calls : d # c => outcome'[d] = outcome[d]
<1>0. /\ queue \in Seq(Calls) /\ DOMAIN queue = 1..Len(queue) /\ Len(queue) \in Nat
      /\ \A i \in DOMAIN queue : queue[i] \in Calls
      /\ outcome \in [Calls -> {"unsent", "pending", "abandoned"} \cup Settled]
  BY DEF QueueInv, OutcomeInv
<1>1. Kind[c] # "watched"
  OBVIOUS
<1>2. CASE Backend!Accept(c) /\ alive
  <2>1. outcome' = [outcome EXCEPT ![c] = "pending"] /\ queue' = Append(queue, c)
        /\ outcome[c] = "unsent"
    BY <1>1, <1>2 DEF Backend!Accept
  <2>2. \A i \in DOMAIN queue : queue[i] # c
    BY <2>1 DEF QueueInv
  <2>3. /\ Append(queue, c) \in Seq(Calls)
        /\ DOMAIN Append(queue, c) = 1..(Len(queue) + 1)
        /\ Append(queue, c)[Len(queue) + 1] = c
        /\ \A i \in 1..Len(queue) : Append(queue, c)[i] = queue[i]
        /\ \A i \in 1..(Len(queue) + 1) : i = Len(queue) + 1 \/ i \in 1..Len(queue)
    BY <1>0
  <2>4. /\ \A d \in Calls : d # c => outcome'[d] = outcome[d]
        /\ outcome'[c] = "pending"
    BY <1>0, <2>1
  <2>5. \A i \in DOMAIN queue' : outcome'[queue'[i]] \in {"pending", "abandoned"}
    BY <1>0, <2>1, <2>2, <2>3, <2>4 DEF QueueInv
  <2>6. \A i, j \in DOMAIN queue' : queue'[i] = queue'[j] => i = j
    BY <1>0, <2>1, <2>2, <2>3 DEF QueueInv
  <2>7. outcome' \in [Calls -> {"unsent", "pending", "abandoned"} \cup Settled]
    BY <1>0, <2>1
  <2> QED
    BY <2>1, <2>3, <2>4, <2>5, <2>6, <2>7 DEF QueueInv
<1>3. CASE (Backend!Accept(c) /\ ~alive) \/ Backend!Refuse(c)
  <2>1. /\ queue' = queue /\ outcome[c] = "unsent"
        /\ outcome' = [outcome EXCEPT ![c] = "internal"]
             \/ outcome' = [outcome EXCEPT ![c] = "refused"]
    BY <1>3 DEF Backend!Accept, Backend!Refuse
  <2>2. /\ \A d \in Calls : d # c => outcome'[d] = outcome[d]
        /\ outcome' \in [Calls -> {"unsent", "pending", "abandoned"} \cup Settled]
    BY <1>0, <2>1 DEF Settled
  <2>3. \A i \in DOMAIN queue : queue[i] # c
    BY <2>1 DEF QueueInv
  <2> QED
    BY <1>0, <2>1, <2>2, <2>3 DEF QueueInv
<1>4. CASE Backend!Abandon(c)
  <2>1. /\ queue' = queue /\ outcome[c] = "pending"
        /\ outcome' = [outcome EXCEPT ![c] = "abandoned"]
    BY <1>4 DEF Backend!Abandon
  <2>2. /\ \A d \in Calls : d # c => outcome'[d] = outcome[d]
        /\ outcome'[c] = "abandoned"
        /\ outcome' \in [Calls -> {"unsent", "pending", "abandoned"} \cup Settled]
    BY <1>0, <2>1
  <2> QED
    BY <1>0, <2>1, <2>2 DEF QueueInv
<1> QED
  BY <1>2, <1>3, <1>4

LEMMA StoppingEmpties ==
  ASSUME OutcomeInv, Backend!Stop
  PROVE  /\ QueueInv'
         /\ outcome' \in [Calls -> {"unsent", "pending", "abandoned"} \cup Settled]
         /\ \A c \in Calls : outcome[c] # "pending" => outcome'[c] = outcome[c]
<1>1. queue' = <<>>
      /\ outcome' = [c \in Calls |-> IF outcome[c] = "pending" THEN "internal" ELSE outcome[c]]
  BY DEF Backend!Stop
<1>2. QueueInv'
  BY <1>1 DEF QueueInv
<1> QED
  BY <1>1, <1>2 DEF OutcomeInv, Settled

------------------------------------------------------------------------------
\* Every step keeps the invariant.

LEMMA Initially == ASSUME Init PROVE IndInv
<1> USE DEF Init, Hub!Init, Backend!Init, NoReply
<1>1. Hub!TypeOK
  BY DEF Hub!TypeOK
<1>2. LocalTypes
  BY DEF LocalTypes, Replies
<1>3. FeedInv
  BY DEF FeedInv
<1>4. QueueInv /\ OutcomeInv
  BY DEF QueueInv, OutcomeInv
<1>5. PublishedInv /\ StatusIsFresh
  <2>1. latest[Status] = 0 /\ \A r \in Rpcs : published[r] = 0 /\ reply[r].code = "none"
    OBVIOUS
  <2>2. Versions \subseteq Rpcs
    BY DEF Rpcs
  <2> QED
    BY <2>1, <2>2 DEF PublishedInv, StatusIsFresh
<1> QED
  BY <1>1, <1>2, <1>3, <1>4, <1>5, TypeParts, Zenon DEF IndInv, ServiceInv

LEMMA StepKeepsTypes ==
  ASSUME IndInv, [Next]_vars
  PROVE  TypeOK'
<1>0. Hub!TypeOK /\ LocalTypes /\ FeedInv /\ QueueInv /\ OutcomeInv /\ PublishedInv
  BY TypeParts, Zenon DEF IndInv, ServiceInv
<1>1. Hub!TypeOK'
  BY <1>0, HubMoves, HubKeepsTypes, Zenon
<1>2. latest[Status] \in 0..MaxVersion
  BY <1>0 DEF Hub!TypeOK, FeedInv
<1>3. up' \in BOOLEAN
  BY <1>0 DEF Next, vars, LocalTypes, Announce, Publish, Crash, Serve, BackendStops, Abort, Begin,
       ClientLeaves, Respond, RespondError, RespondLspError, GetVersion
<1>4. statuses' \in Seq(ServerStatus) /\ Len(statuses') = sent'[Status]
  <2>1. ASSUME NEW p \in ServerStatus, Announce(p)
        PROVE  statuses' \in Seq(ServerStatus) /\ Len(statuses') = sent'[Status]
    BY <1>0, <2>1 DEF Announce, Hub!Notify, Hub!TypeOK, LocalTypes
  <2>2. CASE UNCHANGED <<statuses, sent>>
    BY <1>0, <2>2 DEF LocalTypes
  <2>3. CASE Publish \/ Abort
    BY <2>2, <2>3 DEF Publish, Abort, Hub!Record, Hub!Broadcast, Hub!Abort, Hub!sourceVars
  <2>4. CASE Crash \/ Serve \/ BackendStops
    BY <2>2, <2>4 DEF Crash, Serve, BackendStops, hubVars
  <2>5. CASE \E c \in Calls : Begin(c) \/ ClientLeaves(c)
    BY <2>2, <2>5 DEF Begin, ClientLeaves, hubVars
  <2>6. CASE \E r \in Rpcs \cap Calls : Respond(r) \/ RespondError(r) \/ RespondLspError(r)
    BY <2>2, <2>6 DEF Respond, RespondError, RespondLspError, hubVars
  <2>7. CASE \E r \in Versions : GetVersion(r)
    BY <2>2, <2>7 DEF GetVersion, hubVars
  <2>8. CASE UNCHANGED vars
    BY <2>2, <2>8 DEF vars, hubVars
  <2> QED
    BY <2>1, <2>3, <2>4, <2>5, <2>6, <2>7, <2>8 DEF Next
<1>5. /\ reply' \in [Rpcs -> Replies]
      /\ \A r \in Rpcs : (reply'[r].code = "ok") <=> (reply'[r].status # "none")
  <2>1. ASSUME NEW r \in Rpcs, HandlerStep(r)
        PROVE  /\ reply' \in [Rpcs -> Replies]
               /\ \A q \in Rpcs : (reply'[q].code = "ok") <=> (reply'[q].status # "none")
    <3>1. PICK a \in {Ok, Invalid, Internal} : reply' = [reply EXCEPT ![r] = a]
      BY <2>1, HandlerTells DEF Told
    <3>2. a \in Replies /\ ((a.code = "ok") <=> (a.status # "none"))
      BY <1>0, <3>1, StatusKnown, ErrorsSayNothing
    <3> QED
      BY <1>0, <3>1, <3>2 DEF LocalTypes
  <2>2. CASE reply' = reply
    BY <1>0, <2>2 DEF LocalTypes
  <2> QED
    BY <2>1, <2>2, Steps
<1>6. published' \in [Rpcs -> 0..MaxVersion]
  <2>1. CASE published' = published
    BY <1>0, <2>1 DEF LocalTypes
  <2>2. CASE Serve
    BY <1>0, <1>2, <2>2 DEF Serve, LocalTypes
  <2>3. CASE BackendStops \/ \E c \in Calls : Begin(c) \/ ClientLeaves(c)
    BY <2>1, <2>3 DEF BackendStops, Begin, ClientLeaves
  <2>4. CASE \E r \in Rpcs : HandlerStep(r)
    BY <2>1, <2>4, HandlerTells
  <2> QED
    BY <2>1, <2>2, <2>3, <2>4, Steps DEF ActorStep
<1> QED
  <2>1. LocalTypes'
    BY <1>3, <1>4, <1>5, <1>6 DEF LocalTypes
  <2> QED
    BY <1>1, <2>1, Zenon DEF TypeOK, LocalTypes

LEMMA StepKeepsCalls ==
  ASSUME IndInv, [Next]_vars
  PROVE  QueueInv' /\ OutcomeInv'
<1>0. QueueInv /\ OutcomeInv /\ reply \in [Rpcs -> Replies]
  BY TypeParts, Zenon DEF IndInv, ServiceInv, LocalTypes
<1> DEFINE Outcomes == {"unsent", "pending", "abandoned"} \cup Settled
<1>1. ASSUME ActorStep, UNCHANGED <<reply, hubVars, statuses>> PROVE QueueInv' /\ OutcomeInv'
  <2>1. /\ QueueInv'
        /\ outcome' \in [Calls -> Outcomes]
        /\ \A c \in Calls : outcome[c] \in Settled => outcome'[c] = outcome[c]
    <3>1. CASE Serve
      <4>1. Backend!Serve
        BY <3>1 DEF Serve
      <4> QED
        BY <1>0, <4>1, ServingAnswersTheHead DEF Settled
    <3>2. CASE BackendStops
      <4>1. Backend!Stop
        BY <3>2 DEF BackendStops
      <4> QED
        BY <1>0, <4>1, StoppingEmpties DEF Settled
    <3>3. ASSUME NEW c \in Calls, Begin(c) \/ ClientLeaves(c)
          PROVE  /\ QueueInv'
                 /\ outcome' \in [Calls -> Outcomes]
                 /\ \A d \in Calls : outcome[d] \in Settled => outcome'[d] = outcome[d]
      <4>1. Backend!Accept(c) \/ Backend!Refuse(c) \/ Backend!Abandon(c)
        BY <3>3 DEF Begin, ClientLeaves
      <4> QED
        BY <1>0, <4>1, CallsKeepTheirPlace DEF Settled
    <3> QED
      BY <1>1, <3>1, <3>2, <3>3 DEF ActorStep
  <2> QED
    BY <1>0, <1>1, <2>1 DEF OutcomeInv
<1>2. ASSUME NEW r \in Rpcs, HandlerStep(r) PROVE QueueInv' /\ OutcomeInv'
  <2>1. UNCHANGED <<outcome, queue>>
    BY <1>2, HandlerTells DEF backendVars
  <2>2. \A q \in Rpcs : q # r => reply'[q] = reply[q]
    BY <1>0, <1>2, HandlerTells DEF Told
  <2>3. r \in Calls => outcome[r] \in Settled
    BY <1>2, HandlerTells
  <2> QED
    BY <1>0, <2>1, <2>2, <2>3 DEF QueueInv, OutcomeInv
<1>3. CASE UNCHANGED <<backendVars, reply, published>>
  BY <1>0, <1>3 DEF QueueInv, OutcomeInv, backendVars
<1> QED
  BY <1>1, <1>2, <1>3, Steps

LEMMA StepKeepsStatus ==
  ASSUME IndInv, [Next]_vars
  PROVE  FeedInv' /\ PublishedInv' /\ StatusIsFresh'
<1>0. /\ Hub!TypeOK /\ LocalTypes /\ FeedInv /\ QueueInv /\ OutcomeInv /\ PublishedInv
      /\ StatusIsFresh
  BY TypeParts, Zenon DEF IndInv, ServiceInv
<1>1. /\ FeedInv' /\ latest[Status] \in Nat /\ latest'[Status] \in Nat
      /\ latest[Status] <= latest'[Status]
  BY <1>0, HubMoves, HubKeepsFeed, Zenon
<1>2. /\ reply \in [Rpcs -> Replies] /\ published \in [Rpcs -> 0..MaxVersion]
      /\ \A r \in Rpcs : published[r] \in Nat /\ reply[r].version \in Nat
  BY <1>0 DEF LocalTypes, Replies
<1>3. CASE published' = published /\ reply' = reply
  BY <1>0, <1>1, <1>2, <1>3 DEF PublishedInv, StatusIsFresh
<1>4. ASSUME NEW r \in Rpcs, HandlerStep(r) PROVE PublishedInv' /\ StatusIsFresh'
  <2>1. published' = published
    BY <1>4, HandlerTells
  <2>2. PICK a \in {Ok, Invalid, Internal} : reply' = [reply EXCEPT ![r] = a]
    BY <1>4, HandlerTells DEF Told
  <2>3. a.code = "ok" => a.version = latest[Status]
    BY <1>0, <2>2, StatusKnown, ErrorsSayNothing
  <2> QED
    BY <1>0, <1>1, <1>2, <2>1, <2>2, <2>3 DEF PublishedInv, StatusIsFresh
<1>5. CASE Serve
  <2>0. Backend!Serve /\ queue # <<>> /\ reply' = reply /\ latest' = latest
        /\ published' = [r \in Rpcs |-> IF queue # <<>> /\ r = Head(queue)
                                          THEN latest[Status] ELSE published[r]]
    BY <1>5 DEF Serve, Backend!Serve, hubVars
  <2>1. Head(queue) \in Calls /\ outcome[Head(queue)] \in {"pending", "abandoned"}
    BY <1>0, <2>0, ServingAnswersTheHead
  <2>2. Head(queue) \in Rpcs => reply[Head(queue)].code # "ok"
    BY <1>0, <2>1 DEF OutcomeInv, Settled, NoReply
  <2>3. PublishedInv'
    BY <1>0, <1>1, <1>2, <2>0, <2>1 DEF PublishedInv, Rpcs
  <2>4. StatusIsFresh'
    BY <1>0, <1>2, <2>0, <2>2 DEF StatusIsFresh
  <2> QED
    BY <1>1, <2>3, <2>4
<1>6. CASE BackendStops \/ \E c \in Calls : Begin(c) \/ ClientLeaves(c)
  BY <1>3, <1>6 DEF BackendStops, Begin, ClientLeaves
<1> QED
  BY <1>1, <1>3, <1>4, <1>5, <1>6, Steps DEF ActorStep

LEMMA StepKeepsInv == ASSUME IndInv, [Next]_vars PROVE IndInv'
BY StepKeepsTypes, StepKeepsCalls, StepKeepsStatus, Zenon DEF IndInv, ServiceInv

LEMMA Invariance == Spec => []IndInv
<1>1. Init => IndInv
  BY Initially
<1>2. IndInv /\ [Next]_vars => IndInv'
  BY StepKeepsInv
<1> QED
  BY <1>1, <1>2, PTL DEF Spec

------------------------------------------------------------------------------
\* The theorems.

\* Every variable has its type; every response carries a status, and no error does.
THEOREM TypeCorrect == Spec => []TypeOK
<1>1. IndInv => TypeOK
  BY DEF IndInv
<1> QED
  BY <1>1, Invariance, PTL

\* A response is never tagged with a status older than the one published when
\* rust-analyzer answered, however the answer and the status race to the handler.
THEOREM ResponsesAreFresh == Spec => []StatusIsFresh
<1>1. IndInv => StatusIsFresh
  BY DEF IndInv, ServiceInv
<1> QED
  BY <1>1, Invariance, PTL
==============================================================================
