----------------------- MODULE RustAnalyzerActorProofs -----------------------
(***************************************************************************)
(* Proofs about RustAnalyzerActor, for every set of calls, every           *)
(* assignment of kinds to them and every number of search patterns.        *)
(***************************************************************************)
EXTENDS RustAnalyzerActor, SequenceTheorems, TLAPS

USE CallsAssumption, KindAssumption, LeaversAssumption, PatternsAssumption

------------------------------------------------------------------------------
\* Facts about the messages of a call and about sequences.

\* The number of LSP messages of a call is a natural number.
LEMMA StepsNat == \A o \in Owners : Steps(o) \in Nat
  BY DEF Steps, KindOf, Owners, Kinds

\* What is built for a positive step is a message.
LEMMA MessageType == \A o \in Owners, i \in Nat \ {0} : Message(o, i) \in Messages
  BY DEF Message, Messages

\* Writing the oldest queued message does not change what has been handed over.
LEMMA MoveHead ==
  ASSUME NEW S, NEW w \in Seq(S), NEW q \in Seq(S), q # <<>>
  PROVE  Append(w, Head(q)) \o Tail(q) = w \o q
<1>1. Head(q) \in S /\ Tail(q) \in Seq(S) /\ Len(Tail(q)) = Len(q) - 1
      /\ \A i \in 1..Len(Tail(q)) : Tail(q)[i] = q[i + 1]
  BY HeadTailProperties
<1>2. Append(w, Head(q)) \in Seq(S)
  BY <1>1, AppendProperties
<1>3. Append(w, Head(q)) \o Tail(q) \in Seq(S) /\ w \o q \in Seq(S)
  BY <1>1, <1>2, ConcatProperties
<1>4. Len(q) \in Nat \ {0} /\ Len(w) \in Nat
  BY EmptySeq, LenProperties
<1>5. Len(Append(w, Head(q)) \o Tail(q)) = Len(w \o q)
  BY <1>1, <1>2, <1>4, ConcatProperties, AppendProperties
<1>6. \A i \in 1..Len(w \o q) : (Append(w, Head(q)) \o Tail(q))[i] = (w \o q)[i]
  <2> TAKE i \in 1..Len(w \o q)
  <2>1. i \in 1..(Len(w) + Len(q))
    BY ConcatProperties
  <2>2. (w \o q)[i] = IF i <= Len(w) THEN w[i] ELSE q[i - Len(w)]
    BY <2>1, ConcatProperties
  <2>3. (Append(w, Head(q)) \o Tail(q))[i] =
          IF i <= Len(w) + 1 THEN Append(w, Head(q))[i] ELSE Tail(q)[i - (Len(w) + 1)]
    BY <2>1, <1>1, <1>2, <1>4, ConcatProperties, AppendProperties
  <2>4. CASE i <= Len(w)
    BY <2>1, <2>2, <2>3, <2>4, <1>1, <1>4, AppendProperties
  <2>5. CASE i = Len(w) + 1
    BY <2>1, <2>2, <2>3, <2>5, <1>1, <1>4, AppendProperties
  <2>6. CASE i > Len(w) + 1
    BY <2>1, <2>2, <2>3, <2>6, <1>1, <1>4
  <2> QED
    BY <2>1, <2>4, <2>5, <2>6, <1>4
<1> QED
  BY <1>3, <1>5, <1>6, SeqEqual

------------------------------------------------------------------------------
\* Type correctness.

\* Telling a call what became of it keeps the outcomes' type.
LEMMA ToldType ==
  ASSUME outcome \in [Calls -> Outcomes], NEW c, NEW r \in Outcomes
  PROVE  Told(c, r) \in [Calls -> Outcomes]
  BY DEF Told

\* The ways a handler goes on keep the types of what they change.
LEMMA HandlerTypes ==
  ASSUME TypeOK, Proceed \/ Fail \/ (\E v \in {"value", "null", "error"} : Resume(v))
  PROVE  /\ current' \in Owners \cup {None}
         /\ step' \in Nat
         /\ phase' \in Phases
         /\ outcome' \in [Calls -> Outcomes]
<1>1. \A r \in {"ok", "error"} : Finish(r) =>
        /\ current' \in Owners \cup {None}
        /\ step' \in Nat
        /\ phase' \in Phases
        /\ outcome' \in [Calls -> Outcomes]
  BY ToldType DEF Finish, TypeOK, Outcomes, Phases
<1>2. Proceed =>
        /\ current' \in Owners \cup {None}
        /\ step' \in Nat
        /\ phase' \in Phases
        /\ outcome' \in [Calls -> Outcomes]
  BY <1>1 DEF Proceed, TypeOK, Phases
<1>3. Fail =>
        /\ current' \in Owners \cup {None}
        /\ step' \in Nat
        /\ phase' \in Phases
        /\ outcome' \in [Calls -> Outcomes]
  BY <1>1, <1>2 DEF Fail
<1> QED
  BY <1>2, <1>3 DEF Resume

\* How the handler's state and the session's hang together: a handler works for
\* somebody at one of his LSP messages, only a handshake closes the session, and
\* a closed session leaves nothing that could still be written.
HandlerInv ==
  /\ (current = None) <=> (phase \in {"idle", "stopped"})
  /\ current # None =>
       /\ step \in Nat \ {0}
       /\ step <= Steps(current)
       /\ KindOf(current) \notin {"cached", "forbidden"}
       /\ session # "none"
  /\ (session = "closing") <=> (current # None /\ KindOf(current) = "shutdown")
  /\ phase = "reap" => session = "closing"
  /\ phase = "stopped" => session = "none"
  /\ session = "none" => (~connected /\ sendQueue = <<>>)
  /\ \A i \in 1..Len(mailbox) : ~Blocked(mailbox[i])

\* The initial state has the right types.
LEMMA InitTypes == Init => TypeOK
<1> SUFFICES ASSUME Init PROVE TypeOK
  OBVIOUS
<1> USE DEF Init
<1>1. mailbox \in Seq(Calls) /\ arrivals \in Seq(Calls)
  BY EmptySeq
<1>2. sendQueue \in Seq(Messages) /\ wire \in Seq(Messages)
  BY EmptySeq
<1>3. outcome \in [Calls -> Outcomes]
  BY DEF Outcomes
<1> QED
  BY <1>1, <1>2, <1>3 DEF TypeOK, Phases

\* Every step keeps the types.
LEMMA StepTypes == TypeOK /\ HandlerInv /\ [Next]_vars => TypeOK'
<1> SUFFICES ASSUME TypeOK, HandlerInv, [Next]_vars PROVE TypeOK'
  OBVIOUS
<1> USE DEF TypeOK, vars, handlerVars, clientVars, childVars
<1>m. current # None => current \in Owners /\ Message(current, step) \in Messages
  BY MessageType DEF HandlerInv
<1>1. ASSUME NEW c \in Calls, Call(c) PROVE TypeOK'
  <2>1. Append(mailbox, c) \in Seq(Calls) /\ Append(arrivals, c) \in Seq(Calls)
    BY <1>1, AppendProperties
  <2>2. outcome' \in [Calls -> Outcomes]
    BY <1>1 DEF Call, Outcomes
  <2> QED
    BY <1>1, <2>1, <2>2 DEF Call
<1>2. ASSUME NEW c \in Calls, Refuse(c) \/ Abandon(c) PROVE TypeOK'
  BY <1>2 DEF Refuse, Abandon, Outcomes
<1>3. CASE TakeCached \/ TakeClosed
  <2>1. outcome' \in [Calls -> Outcomes]
    BY <1>3, ToldType DEF TakeCached, TakeClosed, Outcomes
  <2>2. mailbox' \in Seq(Calls)
    <3>1. mailbox # <<>> /\ mailbox' = Tail(mailbox)
      BY <1>3 DEF TakeCached, TakeClosed, CanTake
    <3> QED
      BY <3>1, HeadTailProperties
  <2> QED
    BY <1>3, <2>1, <2>2 DEF TakeCached, TakeClosed
<1>4. CASE TakeExchange
  <2>1. Head(mailbox) \in Calls /\ mailbox' \in Seq(Calls)
    <3>1. mailbox # <<>> /\ mailbox' = Tail(mailbox)
      BY <1>4 DEF TakeExchange, CanTake
    <3> QED
      BY <3>1, HeadTailProperties
  <2> QED
    BY <1>4, <2>1 DEF TakeExchange, Begin, Owners, Phases
<1>5. CASE Send
  <2>1. current # None
    BY <1>5 DEF Send, HandlerInv
  <2>2. sendQueue' \in Seq(Messages)
    <3>1. Append(sendQueue, Message(current, step)) \in Seq(Messages)
      BY <1>m, <2>1, AppendProperties
    <3> QED
      BY <1>5, <3>1 DEF Send
  <2>3. CASE Proceed \/ Fail
    BY <1>5, <2>2, <2>3, HandlerTypes DEF Send
  <2>4. CASE ~(Proceed \/ Fail)
    BY <1>5, <2>2, <2>4 DEF Send, Phases
  <2> QED
    BY <2>3, <2>4
<1>6. CASE TimeOut
  <2>1. current # None
    BY <1>6 DEF TimeOut, HandlerInv
  <2> QED
    BY <1>6, <1>m, <2>1, HandlerTypes DEF TimeOut
<1>7. CASE Reap \/ ReapFails
  <2>1. Dropped \in [Calls -> Outcomes]
    BY DEF Dropped, Outcomes
  <2>2. \A r \in {"ok", "error"} : Told(current, r) \in [Calls -> Outcomes]
    BY ToldType DEF Outcomes
  <2>3. <<>> \in Seq(Messages) /\ <<>> \in Seq(Calls)
    BY EmptySeq
  <2>4. PICK r \in {"ok", "error"} : Close(r) /\ child' = "exited" /\ busy' = {}
    BY <1>7 DEF Reap, ReapFails
  <2>5. outcome' \in [Calls -> Outcomes] /\ mailbox' \in Seq(Calls) /\ phase' \in Phases
    BY <2>1, <2>2, <2>3, <2>4 DEF Close, Phases
  <2> QED
    BY <2>3, <2>4, <2>5 DEF Close
<1>8. CASE Stop \/ SignalStop \/ Kill
  <2>1. Dropped \in [Calls -> Outcomes]
    BY DEF Dropped, Outcomes
  <2>2. <<>> \in Seq(Messages) /\ <<>> \in Seq(Calls)
    BY EmptySeq
  <2>3. CASE Stop /\ session = "open"
    BY <2>3 DEF Stop, Begin, Owners, Phases
  <2>4. CASE Stop /\ session # "open"
    BY <2>1, <2>2, <2>4 DEF Stop, Phases
  <2>5. CASE SignalStop
    BY <2>5 DEF SignalStop
  <2>6. CASE Kill
    BY <2>1, <2>2, <2>6 DEF Kill, Phases
  <2> QED
    BY <1>8, <2>3, <2>4, <2>5, <2>6
<1>9. CASE Transmit
  <2>1. Head(sendQueue) \in Messages /\ Tail(sendQueue) \in Seq(Messages)
    BY <1>9 DEF Transmit
  <2> QED
    BY <1>9, <2>1 DEF Transmit
<1>10. ASSUME NEW a \in answers, Receive(a) PROVE TypeOK'
  <2>1. a.value \in {"value", "null", "error"}
    BY <1>10 DEF Answers
  <2>2. CASE phase = "await" /\ a.to = Message(current, step)
    BY <1>10, <2>1, <2>2, HandlerTypes DEF Receive
  <2>3. CASE ~(phase = "await" /\ a.to = Message(current, step))
    BY <1>10, <2>3 DEF Receive
  <2> QED
    BY <2>2, <2>3
<1>11. CASE Disconnect
  <2>1. sendQueue' \in Seq(Messages)
    BY <1>11, EmptySeq DEF Disconnect
  <2>2. CASE phase = "await"
    BY <1>11, <2>1, <2>2, HandlerTypes DEF Disconnect
  <2>3. CASE phase # "await"
    BY <1>11, <2>1, <2>3 DEF Disconnect
  <2> QED
    BY <2>2, <2>3
<1>12. ASSUME NEW m \in busy, NEW v \in AnswerValues(m), Answer(m, v) PROVE TypeOK'
  <2>1. [to |-> m, value |-> v] \in Answers
    BY <1>12 DEF AnswerValues, Answers
  <2> QED
    BY <1>12, <2>1 DEF Answer
<1>13. CASE Exit
  BY <1>13 DEF Exit
<1>14. CASE UNCHANGED vars
  BY <1>14
<1> QED
  BY <1>1, <1>2, <1>3, <1>4, <1>5, <1>6, <1>7, <1>8, <1>9, <1>10, <1>11, <1>12,
     <1>13, <1>14 DEF Next, Handler

------------------------------------------------------------------------------
\* The handler's invariant.

\* A handler that goes on is done, moves to its next LSP message, or has sent the
\* last one of a handshake.
LEMMA HandlerAdvances ==
  ASSUME TypeOK, HandlerInv, current # None,
         Proceed \/ Fail \/ (\E v \in {"value", "null", "error"} : Resume(v))
  PROVE  \/ current' = None /\ step' = 0 /\ phase' = "idle" /\ session # "closing"
         \/ /\ current' = current
            /\ phase' = "send"
            /\ step' = step + 1
            /\ step' <= Steps(current)
         \/ current' = current /\ step' = step /\ phase' = "reap" /\ session = "closing"
<1>1. Steps(current) \in Nat /\ step \in Nat
  BY StepsNat DEF TypeOK
<1>2. CASE Proceed
  BY <1>1, <1>2 DEF Proceed, Finish
<1>3. CASE Fail
  BY <1>1, <1>2, <1>3 DEF Fail, Proceed, Finish
<1> QED
  BY <1>2, <1>3 DEF Resume

\* Going on keeps the handler's invariant when the mailbox and the session stay.
LEMMA AdvanceKeepsInv ==
  ASSUME TypeOK, HandlerInv, current # None, phase # "stopped",
         Proceed \/ Fail \/ (\E v \in {"value", "null", "error"} : Resume(v)),
         session' = session, mailbox' = mailbox,
         session = "none" => (~connected' /\ sendQueue' = <<>>)
  PROVE  HandlerInv'
<1>1. step \in Nat
  BY DEF TypeOK
<1> QED
  BY <1>1, HandlerAdvances DEF HandlerInv, KindOf, Steps, Blocked

LEMMA InitHandler == Init => HandlerInv
  BY DEF Init, HandlerInv

\* Every step keeps the handler's invariant.
LEMMA StepHandler == TypeOK /\ HandlerInv /\ [Next]_vars => HandlerInv'
<1> SUFFICES ASSUME TypeOK, HandlerInv, [Next]_vars PROVE HandlerInv'
  OBVIOUS
<1> USE DEF vars, handlerVars, clientVars, childVars
<1>1. ASSUME NEW c \in Calls, Call(c) PROVE HandlerInv'
  <2>1. CASE phase = "stopped"
    BY <1>1, <2>1 DEF Call, HandlerInv, Steps, KindOf, Blocked
  <2>2. CASE phase # "stopped"
    <3>1. /\ Len(Append(mailbox, c)) = Len(mailbox) + 1
          /\ \A i \in 1..Len(mailbox) : Append(mailbox, c)[i] = mailbox[i]
          /\ Append(mailbox, c)[Len(mailbox) + 1] = c
          /\ Len(mailbox) \in Nat
      BY AppendProperties, LenProperties DEF TypeOK
    <3>2. \A i \in 1..Len(mailbox') : ~Blocked(mailbox'[i])
      BY SMTT(30), <1>1, <2>2, <3>1 DEF Call, HandlerInv, Blocked
    <3> QED
      BY <1>1, <2>2, <3>2 DEF Call, HandlerInv, Steps, KindOf, Blocked
  <2> QED
    BY <2>1, <2>2
<1>2. ASSUME NEW c \in Calls, Refuse(c) \/ Abandon(c) PROVE HandlerInv'
  BY <1>2 DEF Refuse, Abandon, HandlerInv, Steps, KindOf, Blocked
<1>m. ASSUME CanTake, mailbox' = Tail(mailbox)
      PROVE  /\ Head(mailbox) \in Calls
             /\ ~Blocked(Head(mailbox))
             /\ \A i \in 1..Len(mailbox') : ~Blocked(mailbox'[i])
  <2>1. mailbox # <<>> /\ mailbox \in Seq(Calls)
    BY <1>m DEF CanTake, TypeOK
  <2>2. /\ Len(Tail(mailbox)) = Len(mailbox) - 1
        /\ \A i \in 1..Len(Tail(mailbox)) : Tail(mailbox)[i] = mailbox[i + 1]
        /\ Len(mailbox) \in Nat \ {0}
        /\ Head(mailbox) \in Calls
        /\ Head(mailbox) = mailbox[1]
    BY <2>1, HeadTailProperties, EmptySeq
  <2>3. ~Blocked(mailbox[1])
    BY <2>2 DEF HandlerInv
  <2>4. \A i \in 1..Len(Tail(mailbox)) : ~Blocked(Tail(mailbox)[i])
    <3> TAKE i \in 1..Len(Tail(mailbox))
    <3>1. i + 1 \in 1..Len(mailbox)
      BY <2>2
    <3> QED
      BY <3>1, <2>2 DEF HandlerInv, Blocked
  <2> QED
    BY <1>m, <2>2, <2>3, <2>4
<1>3. CASE TakeCached \/ TakeClosed
  BY <1>3, <1>m DEF TakeCached, TakeClosed, HandlerInv, Steps, KindOf, Blocked
<1>4. CASE TakeExchange
  <2>1. /\ Head(mailbox) \in Calls /\ ~Blocked(Head(mailbox))
        /\ \A i \in 1..Len(mailbox') : ~Blocked(mailbox'[i])
    BY <1>4, <1>m DEF TakeExchange
  <2>2. current' = Head(mailbox) /\ current' # None /\ current' # PostStop
    BY <1>4, <2>1 DEF TakeExchange, Begin
  <2>3. KindOf(current') \notin {"cached", "forbidden"} /\ KindOf(current') = Kind[Head(mailbox)]
    BY <1>4, <2>1, <2>2 DEF TakeExchange, KindOf, Blocked
  <2>4. 1 <= Steps(current')
    BY <2>3 DEF Steps
  <2> QED
    BY <1>4, <2>1, <2>2, <2>3, <2>4 DEF TakeExchange, Begin, CanTake, HandlerInv, Steps, KindOf
<1>5. CASE Send
  <2>1. current # None /\ phase = "send" /\ session # "none"
    BY <1>5 DEF Send, HandlerInv
  <2>2. CASE Proceed \/ Fail
    BY <1>5, <2>1, <2>2, AdvanceKeepsInv DEF Send, HandlerInv
  <2>3. CASE ~(Proceed \/ Fail)
    BY <1>5, <2>1, <2>3 DEF Send, HandlerInv, Steps, KindOf, Blocked
  <2> QED
    BY <2>2, <2>3
<1>6. CASE TimeOut
  BY <1>6, AdvanceKeepsInv DEF TimeOut, HandlerInv
<1>7. CASE Reap \/ ReapFails
  <2>1. PICK r \in {"ok", "error"} : Close(r)
    BY <1>7 DEF Reap, ReapFails
  <2>2. CASE current = PostStop
    BY <2>1, <2>2, EmptySeq DEF Close, HandlerInv, Blocked
  <2>3. CASE current # PostStop
    BY <2>1, <2>3 DEF Close, HandlerInv, Blocked
  <2> QED
    BY <2>2, <2>3
<1>8. CASE Stop \/ SignalStop \/ Kill
  <2>1. CASE Stop /\ session = "open"
    BY <2>1 DEF Stop, Begin, HandlerInv, Steps, KindOf, Blocked
  <2>2. CASE Stop /\ session # "open"
    BY <2>2, EmptySeq DEF Stop, HandlerInv, TypeOK, Blocked
  <2>3. CASE SignalStop
    BY <2>3 DEF SignalStop, HandlerInv, Steps, KindOf, Blocked
  <2>4. CASE Kill
    BY <2>4, EmptySeq DEF Kill, HandlerInv, Blocked
  <2> QED
    BY <1>8, <2>1, <2>2, <2>3, <2>4
<1>9. CASE Transmit
  BY <1>9 DEF Transmit, HandlerInv, Steps, KindOf, Blocked
<1>10. ASSUME NEW a \in answers, Receive(a) PROVE HandlerInv'
  <2>1. a.value \in {"value", "null", "error"}
    BY <1>10 DEF Answers, TypeOK
  <2>2. CASE phase = "await" /\ a.to = Message(current, step)
    BY <1>10, <2>1, <2>2, AdvanceKeepsInv DEF Receive, HandlerInv
  <2>3. CASE ~(phase = "await" /\ a.to = Message(current, step))
    BY <1>10, <2>3 DEF Receive, HandlerInv, Steps, KindOf, Blocked
  <2> QED
    BY <2>2, <2>3
<1>11. CASE Disconnect
  <2>1. CASE phase = "await"
    BY <1>11, <2>1, AdvanceKeepsInv DEF Disconnect, HandlerInv
  <2>2. CASE phase # "await"
    BY <1>11, <2>2 DEF Disconnect, HandlerInv, Steps, KindOf, Blocked
  <2> QED
    BY <2>1, <2>2
<1>12. ASSUME NEW m \in busy, NEW v \in AnswerValues(m), Answer(m, v) PROVE HandlerInv'
  BY <1>12 DEF Answer, HandlerInv, Steps, KindOf, Blocked
<1>13. CASE Exit
  BY <1>13 DEF Exit, HandlerInv, Steps, KindOf, Blocked
<1>14. CASE UNCHANGED vars
  BY <1>14 DEF HandlerInv, Steps, KindOf, Blocked
<1> QED
  BY <1>1, <1>2, <1>3, <1>4, <1>5, <1>6, <1>7, <1>8, <1>9, <1>10, <1>11, <1>12,
     <1>13, <1>14 DEF Next, Handler

------------------------------------------------------------------------------
\* What is sent around a shutdown.

\* Before a handshake nothing has been sent on behalf of one; during a handshake
\* only its own `shutdown` has, and once that is sent the next message is `exit`.
SentInv ==
  \A i \in 1..Len(Sent) :
    IsShutdown(Sent[i]) =>
      /\ session # "open"
      /\ session = "closing" => (Sent[i].owner = current /\ (phase = "send" => step = 2))
      /\ KindOf(Sent[i].owner) = "shutdown"

\* Send adds the handler's message to what has been sent.
LEMMA SentGrows ==
  ASSUME TypeOK, HandlerInv, Send, connected
  PROVE  /\ Sent' = Append(Sent, Message(current, step))
         /\ Message(current, step) \in Messages
         /\ Len(Sent') = Len(Sent) + 1 /\ Len(Sent) \in Nat
         /\ Sent'[Len(Sent) + 1] = Message(current, step)
         /\ \A i \in 1..Len(Sent) : Sent'[i] = Sent[i]
<1> DEFINE m == Message(current, step)
<1>1. m \in Messages /\ sendQueue' = Append(sendQueue, m) /\ wire' = wire
  BY MessageType DEF Send, HandlerInv, TypeOK, childVars
<1>2. /\ Append(sendQueue, m) = sendQueue \o <<m>>
      /\ wire \o sendQueue \in Seq(Messages)
      /\ Append(wire \o sendQueue, m) = (wire \o sendQueue) \o <<m>>
      /\ <<m>> \in Seq(Messages)
  <2>1. wire \o sendQueue \in Seq(Messages) /\ sendQueue \in Seq(Messages)
    BY ConcatProperties DEF TypeOK
  <2>2. <<m>> \in Seq(Messages)
    BY <1>1
  <2> QED
    BY <1>1, <2>1, <2>2, AppendIsConcat
<1>3. Sent' = Append(Sent, m) /\ Sent \in Seq(Messages)
  BY SMTT(30), <1>1, <1>2, ConcatAssociative DEF Sent, TypeOK
<1> QED
  BY <1>1, <1>3, AppendProperties, LenProperties

\* The sequence of sent messages only grows by Send, and shrinks to what has been
\* written when the client gives up, for good.
LEMMA SentEvolves ==
  ASSUME TypeOK, HandlerInv, [Next]_vars
  PROVE  \/ Sent' = Sent
         \/ /\ Send
            /\ connected
            /\ Sent' = Append(Sent, Message(current, step))
         \/ Sent' = wire /\ ~connected'
<1> USE DEF TypeOK, vars, handlerVars, clientVars, childVars
<1>1. CASE UNCHANGED <<wire, sendQueue>>
  BY <1>1 DEF Sent
<1>2. CASE Send /\ connected
  BY <1>2, SentGrows
<1>3. CASE Transmit
  BY SMTT(45), <1>3, MoveHead DEF Transmit, Sent
<1>4. CASE wire' = wire /\ sendQueue' = <<>> /\ ~connected'
  BY <1>4, ConcatEmptySeq DEF Sent
<1>5. ASSUME NEW c \in Calls, Call(c) \/ Refuse(c) \/ Abandon(c)
      PROVE  UNCHANGED <<wire, sendQueue>>
  BY <1>5 DEF Call, Refuse, Abandon
<1>6. TakeCached \/ TakeClosed \/ TakeExchange \/ TimeOut \/ Stop \/ SignalStop \/ Exit
      => UNCHANGED <<wire, sendQueue>>
  BY DEF TakeCached, TakeClosed, TakeExchange, TimeOut, Stop, SignalStop, Exit
<1>7. Reap \/ ReapFails \/ Kill \/ Disconnect =>
        wire' = wire /\ sendQueue' = <<>> /\ ~connected'
  BY DEF Reap, ReapFails, Close, Kill, Disconnect
<1>8. ASSUME NEW a \in answers, Receive(a) PROVE UNCHANGED <<wire, sendQueue>>
  BY <1>8 DEF Receive
<1>9. ASSUME NEW m \in busy, NEW v \in AnswerValues(m), Answer(m, v)
      PROVE  UNCHANGED <<wire, sendQueue>>
  BY <1>9 DEF Answer
<1>10. CASE Send /\ ~connected
  BY <1>1, <1>10 DEF Send
<1>11. CASE UNCHANGED vars
  BY <1>1, <1>11
<1> QED
  BY <1>1, <1>2, <1>3, <1>4, <1>5, <1>6, <1>7, <1>8, <1>9, <1>10, <1>11 DEF Next, Handler

\* What is written is the beginning of what is sent.
LEMMA WireIsPrefix ==
  ASSUME TypeOK
  PROVE  /\ Sent \in Seq(Messages)
         /\ Len(wire) \in Nat /\ Len(Sent) \in Nat
         /\ Len(wire) <= Len(Sent)
         /\ \A i \in 1..Len(wire) : Sent[i] = wire[i]
  BY ConcatProperties, LenProperties DEF TypeOK, Sent

\* A session never opens again, and a handshake keeps its owner and comes to its
\* second message, if it sends another one at all.
LEMMA SessionEvolves ==
  ASSUME TypeOK, HandlerInv, [Next]_vars
  PROVE  /\ session' = "open" => session = "open"
         /\ session' = "closing" /\ session # "open" =>
              /\ session = "closing"
              /\ current' = current
              /\ phase' = "send" => step' = 2 \/ (phase = "send" /\ step' = step)
<1> DEFINE Goal ==
      /\ session' = "open" => session = "open"
      /\ session' = "closing" /\ session # "open" =>
           /\ session = "closing"
           /\ current' = current
           /\ phase' = "send" => step' = 2 \/ (phase = "send" /\ step' = step)
<1> USE DEF vars, handlerVars, clientVars, childVars
<1>a. ASSUME session' = session, current # None,
             Proceed \/ Fail \/ (\E v \in {"value", "null", "error"} : Resume(v))
      PROVE  Goal
  <2>1. CASE session = "closing"
    <3>1. KindOf(current) = "shutdown" /\ Steps(current) = 2 /\ step \in Nat \ {0}
      BY <1>a, <2>1 DEF HandlerInv, Steps
    <3> QED
      BY <1>a, <2>1, <3>1, HandlerAdvances
  <2>2. CASE session # "closing"
    BY <1>a, <2>2
  <2> QED
    BY <2>1, <2>2
<1>b. ASSUME session' = session, UNCHANGED <<current, step, phase>> PROVE Goal
  BY <1>b
<1>1. ASSUME NEW c \in Calls, Call(c) \/ Refuse(c) \/ Abandon(c) PROVE Goal
  BY <1>1, <1>b DEF Call, Refuse, Abandon
<1>2. CASE TakeCached \/ TakeClosed \/ SignalStop \/ Transmit \/ Exit
  BY <1>2, <1>b DEF TakeCached, TakeClosed, SignalStop, Transmit, Exit
<1>3. CASE TakeExchange
  BY <1>3 DEF TakeExchange
<1>4. CASE Send
  <2>1. current # None
    BY <1>4 DEF Send, HandlerInv
  <2>2. CASE Proceed \/ Fail
    BY <1>4, <2>1, <2>2, <1>a DEF Send
  <2>3. CASE ~(Proceed \/ Fail)
    BY <1>4, <2>3 DEF Send
  <2> QED
    BY <2>2, <2>3
<1>5. CASE TimeOut
  BY <1>5, <1>a DEF TimeOut, HandlerInv
<1>6. CASE Reap \/ ReapFails \/ Kill
  BY <1>6 DEF Reap, ReapFails, Kill, Close
<1>7. CASE Stop
  BY <1>7 DEF Stop, HandlerInv
<1>8. ASSUME NEW a \in answers, Receive(a) PROVE Goal
  <2>1. a.value \in {"value", "null", "error"}
    BY <1>8 DEF Answers, TypeOK
  <2>2. CASE phase = "await" /\ a.to = Message(current, step)
    BY <1>8, <2>1, <2>2, <1>a DEF Receive, HandlerInv
  <2>3. CASE ~(phase = "await" /\ a.to = Message(current, step))
    BY <1>8, <2>3, <1>b DEF Receive
  <2> QED
    BY <2>2, <2>3
<1>9. CASE Disconnect
  <2>1. CASE phase = "await"
    BY <1>9, <2>1, <1>a DEF Disconnect, HandlerInv
  <2>2. CASE phase # "await"
    BY <1>9, <2>2, <1>b DEF Disconnect
  <2> QED
    BY <2>1, <2>2
<1>10. ASSUME NEW m \in busy, NEW v \in AnswerValues(m), Answer(m, v) PROVE Goal
  BY <1>10, <1>b DEF Answer
<1>11. CASE UNCHANGED vars
  BY <1>11, <1>b
<1> QED
  BY <1>1, <1>2, <1>3, <1>4, <1>5, <1>6, <1>7, <1>8, <1>9, <1>10, <1>11 DEF Next, Handler

\* Every step keeps what is known of the messages around a shutdown.
LEMMA StepSent ==
  ASSUME TypeOK, HandlerInv, SentInv, ShutdownIsLast, [Next]_vars
  PROVE  SentInv' /\ ShutdownIsLast'
<1>a. session # "open" => session' # "open"
  BY SessionEvolves
<1>b. ASSUME NEW i \in 1..Len(Sent), IsShutdown(Sent[i])
      PROVE  /\ session' # "open"
             /\ session' = "closing" =>
                  Sent[i].owner = current' /\ (phase' = "send" => step' = 2)
             /\ KindOf(Sent[i].owner) = "shutdown"
  BY <1>b, SessionEvolves DEF SentInv
<1>1. ASSUME Len(Sent') <= Len(Sent), Len(Sent') \in Nat,
             \A i \in 1..Len(Sent') : Sent'[i] = Sent[i]
      PROVE  SentInv' /\ ShutdownIsLast'
  <2>1. \A i \in 1..Len(Sent') : i \in 1..Len(Sent)
    BY <1>1, WireIsPrefix
  <2>2. SentInv'
    BY <1>1, <1>b, <2>1 DEF SentInv, IsShutdown, KindOf
  <2>3. ShutdownIsLast'
    BY <1>1, <2>1 DEF ShutdownIsLast, IsShutdown, IsExit, KindOf
  <2> QED
    BY <2>2, <2>3
<1>2. CASE Sent' = Sent
  BY <1>1, <1>2, WireIsPrefix
<1>3. CASE Sent' = wire
  BY <1>1, <1>3, WireIsPrefix
<1>4. CASE Send /\ connected /\ Sent' = Append(Sent, Message(current, step))
  <2> DEFINE m == Message(current, step)
  <2>1. current # None /\ current \in Owners /\ m \in Messages
    BY <1>4, MessageType DEF Send, HandlerInv, TypeOK
  <2>2. /\ Len(Sent') = Len(Sent) + 1
        /\ \A i \in 1..Len(Sent) : Sent'[i] = Sent[i]
        /\ Sent'[Len(Sent) + 1] = m
        /\ Len(Sent) \in Nat
    BY <1>4, <2>1, WireIsPrefix, AppendProperties
  <2>3. session # "none"
    BY <1>4 DEF HandlerInv
  <2>4. ASSUME IsShutdown(m)
        PROVE  /\ session' = "closing"
               /\ current' = current
               /\ phase' # "send"
               /\ KindOf(current) = "shutdown"
    <3>1. KindOf(current) = "shutdown" /\ step = 1 /\ session = "closing"
      BY <2>1, <2>4 DEF IsShutdown, Message, HandlerInv
    <3> QED
      BY <1>4, <2>4, <3>1 DEF Send, IsRequest
  <2>5. SentInv'
    <3> SUFFICES ASSUME NEW i \in 1..Len(Sent'), IsShutdown(Sent'[i])
                 PROVE  /\ session' # "open"
                        /\ session' = "closing" =>
                             /\ Sent'[i].owner = current'
                             /\ phase' = "send" => step' = 2
                        /\ KindOf(Sent'[i].owner) = "shutdown"
      BY DEF SentInv, IsShutdown, KindOf
    <3>1. CASE i \in 1..Len(Sent)
      BY <2>2, <3>1, <1>b
    <3>2. CASE i = Len(Sent) + 1
      BY <2>2, <2>4, <3>2 DEF Message
    <3> QED
      BY <2>2, <3>1, <3>2
  <2>6. ShutdownIsLast'
    <3> SUFFICES ASSUME NEW i \in 1..Len(Sent'), NEW j \in 1..Len(Sent'),
                        i < j, IsShutdown(Sent'[i])
                 PROVE  IsExit(Sent'[j]) /\ Sent'[j].owner = Sent'[i].owner
      BY DEF ShutdownIsLast, IsShutdown, IsExit, KindOf
    <3>1. i \in 1..Len(Sent) /\ IsShutdown(Sent[i])
      BY <2>2
    <3>2. CASE j \in 1..Len(Sent)
      BY <2>2, <3>1, <3>2 DEF ShutdownIsLast
    <3>3. CASE j = Len(Sent) + 1
      <4>1. session = "closing" /\ Sent[i].owner = current /\ step = 2
        BY <1>4, <2>3, <3>1 DEF SentInv, Send, TypeOK
      <4>2. KindOf(current) = "shutdown"
        BY <4>1 DEF HandlerInv
      <4> QED
        BY <2>2, <3>1, <3>3, <4>1, <4>2 DEF IsExit, Message
    <3> QED
      BY <2>2, <3>2, <3>3
  <2> QED
    BY <2>5, <2>6
<1> QED
  BY <1>2, <1>3, <1>4, SentEvolves

\* The child never comes back, and whoever ends the session has seen it exit.
LEMMA StepOrphan == NoOrphanChild /\ [Next]_vars => NoOrphanChild'
<1> SUFFICES ASSUME NoOrphanChild, [Next]_vars PROVE NoOrphanChild'
  OBVIOUS
<1> USE DEF NoOrphanChild, vars, handlerVars, clientVars, childVars
<1>1. CASE UNCHANGED <<session, child>>
  BY <1>1
<1>2. ASSUME NEW c \in Calls, Call(c) \/ Refuse(c) \/ Abandon(c) PROVE NoOrphanChild'
  BY <1>2 DEF Call, Refuse, Abandon
<1>3. TakeCached \/ TakeClosed \/ Send \/ TimeOut \/ SignalStop \/ Transmit \/ Disconnect
      => UNCHANGED <<session, child>>
  BY DEF TakeCached, TakeClosed, Send, TimeOut, SignalStop, Transmit, Disconnect
<1>4. TakeExchange \/ Stop => NoOrphanChild'
  BY DEF TakeExchange, Stop
<1>5. Reap \/ ReapFails \/ Kill \/ Exit => NoOrphanChild'
  BY DEF Reap, ReapFails, Kill, Exit
<1>6. ASSUME NEW a \in answers, Receive(a) PROVE NoOrphanChild'
  BY <1>6 DEF Receive
<1>7. ASSUME NEW m \in busy, NEW v \in AnswerValues(m), Answer(m, v) PROVE NoOrphanChild'
  BY <1>7 DEF Answer
<1> QED
  BY <1>1, <1>2, <1>3, <1>4, <1>5, <1>6, <1>7 DEF Next, Handler

------------------------------------------------------------------------------
\* The order of the calls and of the messages of one call.

\* How many calls have been taken out of the mailbox, or dropped with it.
Taken == Len(arrivals) - Len(mailbox)

\* Every call arrives once; the mailbox holds the latest arrivals and the handler works
\* for the one before them ...
MailboxInv ==
  /\ \A a, b \in 1..Len(arrivals) : arrivals[a] = arrivals[b] => a = b
  /\ \A a \in 1..Len(arrivals) : outcome[arrivals[a]] # "unsent"
  /\ Len(mailbox) <= Len(arrivals)
  /\ \A i \in 1..Len(mailbox) : mailbox[i] = arrivals[Taken + i]
  /\ current \in Calls => Taken >= 1 /\ current = arrivals[Taken]

\* ... and whoever had a message sent arrived no later than that.
SendersInv ==
  \A i \in 1..Len(Sent) : Sent[i].owner \in Calls =>
    \E a \in 1..Taken : arrivals[a] = Sent[i].owner

\* While the client lives, the last message sent is the one before the handler's next.
LastInv ==
  connected =>
    /\ phase = "await" => Len(Sent) > 0 /\ Sent[Len(Sent)] = Message(current, step)
    /\ phase = "send" /\ step > 1 =>
         Len(Sent) > 0 /\ Sent[Len(Sent)] = Message(current, step - 1)

\* Nobody who has called is ever one who has not.
LEMMA UnsentNoMore ==
  ASSUME TypeOK, [Next]_vars, NEW c \in Calls, outcome[c] # "unsent"
  PROVE  outcome'[c] # "unsent"
<1> USE DEF TypeOK, vars, handlerVars, clientVars, childVars
<1>1. ASSUME NEW o, NEW r \in Outcomes \ {"unsent"} PROVE Told(o, r)[c] # "unsent"
  BY <1>1 DEF Told
<1>2. Dropped[c] # "unsent"
  BY DEF Dropped
<1>3. ASSUME NEW r \in {"ok", "error"}, Finish(r) PROVE outcome'[c] # "unsent"
  BY <1>1, <1>3 DEF Finish, Outcomes
<1>4. Proceed \/ Fail \/ (\E v \in {"value", "null", "error"} : Resume(v)) => outcome'[c] # "unsent"
  BY <1>3 DEF Proceed, Fail, Resume
<1>5. CASE outcome' = outcome
  BY <1>5
<1>6. ASSUME NEW d \in Calls, Call(d) \/ Refuse(d) \/ Abandon(d) PROVE outcome'[c] # "unsent"
  BY <1>6 DEF Call, Refuse, Abandon
<1>7. CASE TakeCached \/ TakeClosed
  BY <1>1, <1>7 DEF TakeCached, TakeClosed, Outcomes
<1>8. CASE TakeExchange \/ SignalStop \/ Transmit \/ Exit
  BY <1>8 DEF TakeExchange, SignalStop, Transmit, Exit
<1>9. CASE Send
  BY <1>4, <1>9 DEF Send
<1>10. CASE TimeOut
  BY <1>4, <1>10 DEF TimeOut
<1>11. CASE Reap \/ ReapFails
  BY <1>1, <1>2, <1>11 DEF Reap, ReapFails, Close, Outcomes
<1>12. CASE Stop \/ Kill
  BY <1>2, <1>12 DEF Stop, Kill
<1>13. ASSUME NEW a \in answers, Receive(a) PROVE outcome'[c] # "unsent"
  BY <1>4, <1>13 DEF Receive, Answers
<1>14. CASE Disconnect
  BY <1>4, <1>14 DEF Disconnect
<1>15. ASSUME NEW m \in busy, NEW v \in AnswerValues(m), Answer(m, v) PROVE outcome'[c] # "unsent"
  BY <1>15 DEF Answer
<1>16. CASE UNCHANGED vars
  BY <1>16
<1> QED
  BY <1>6, <1>7, <1>8, <1>9, <1>10, <1>11, <1>12, <1>13, <1>14, <1>15, <1>16 DEF Next, Handler

\* A call arrives, the oldest is taken, all are dropped, or the mailbox stays as it is.
LEMMA MailboxEvolves ==
  ASSUME TypeOK, HandlerInv, [Next]_vars
  PROVE  \/ /\ UNCHANGED <<mailbox, arrivals>>
            /\ current' = current \/ current' \notin Calls
         \/ \E c \in Calls :
              /\ outcome[c] = "unsent" /\ outcome'[c] # "unsent"
              /\ mailbox' = Append(mailbox, c)
              /\ arrivals' = Append(arrivals, c)
              /\ current' = current
         \/ /\ mailbox # <<>>
            /\ mailbox' = Tail(mailbox)
            /\ arrivals' = arrivals
            /\ current' = Head(mailbox) \/ current' \notin Calls
         \/ /\ mailbox' = <<>>
            /\ arrivals' = arrivals
            /\ current' \notin Calls
<1> USE DEF vars, handlerVars, clientVars, childVars
<1>a. Proceed \/ Fail \/ (\E v \in {"value", "null", "error"} : Resume(v))
        => current' = current \/ current' \notin Calls
  BY DEF Proceed, Fail, Resume, Finish
<1>1. ASSUME NEW c \in Calls, Call(c)
      PROVE  \/ UNCHANGED <<mailbox, arrivals, current>>
             \/ /\ outcome[c] = "unsent" /\ outcome'[c] # "unsent"
                /\ mailbox' = Append(mailbox, c)
                /\ arrivals' = Append(arrivals, c)
                /\ current' = current
  BY <1>1 DEF Call, TypeOK
<1>2. ASSUME NEW c \in Calls, Refuse(c) \/ Abandon(c)
      PROVE  UNCHANGED <<mailbox, arrivals, current>>
  BY <1>2 DEF Refuse, Abandon
<1>3. CASE TakeCached \/ TakeClosed
  <2>1. phase = "idle" /\ mailbox # <<>> /\ mailbox' = Tail(mailbox) /\ UNCHANGED <<arrivals, current>>
    BY <1>3 DEF TakeCached, TakeClosed, CanTake
  <2> QED
    BY <2>1 DEF HandlerInv
<1>4. CASE TakeExchange
  BY <1>4 DEF TakeExchange, CanTake, Begin
<1>5. CASE SignalStop \/ Transmit \/ Exit
  BY <1>5 DEF SignalStop, Transmit, Exit
<1>6. CASE Send
  BY <1>a, <1>6 DEF Send
<1>7. CASE TimeOut
  BY <1>a, <1>7 DEF TimeOut
<1>8. CASE Reap \/ ReapFails
  BY <1>8 DEF Reap, ReapFails, Close
<1>9. CASE Stop \/ Kill
  <2>1. CASE Stop /\ session = "open"
    BY <2>1 DEF Stop, Begin
  <2>2. CASE Stop /\ session # "open"
    BY <2>2 DEF Stop, HandlerInv
  <2>3. CASE Kill
    BY <2>3 DEF Kill
  <2> QED
    BY <1>9, <2>1, <2>2, <2>3
<1>10. ASSUME NEW a \in answers, Receive(a)
       PROVE  UNCHANGED <<mailbox, arrivals>> /\ (current' = current \/ current' \notin Calls)
  <2>1. a.value \in {"value", "null", "error"}
    BY <1>10 DEF Answers, TypeOK
  <2> QED
    BY <1>a, <1>10, <2>1 DEF Receive
<1>11. CASE Disconnect
  BY <1>a, <1>11 DEF Disconnect
<1>12. ASSUME NEW m \in busy, NEW v \in AnswerValues(m), Answer(m, v)
       PROVE  UNCHANGED <<mailbox, arrivals, current>>
  BY <1>12 DEF Answer
<1>13. CASE UNCHANGED vars
  BY <1>13
<1> QED
  BY <1>1, <1>2, <1>3, <1>4, <1>5, <1>6, <1>7, <1>8, <1>9, <1>10, <1>11, <1>12, <1>13
     DEF Next, Handler

\* Every step keeps the mailbox in line with the arrivals.
LEMMA StepMailbox ==
  ASSUME TypeOK, HandlerInv, MailboxInv, [Next]_vars
  PROVE  /\ MailboxInv'
         /\ Taken \in Nat /\ Taken <= Taken' /\ Taken' \in Nat
         /\ Taken <= Len(arrivals) /\ Len(arrivals) \in Nat
         /\ \A a \in 1..Len(arrivals) : a \in 1..Len(arrivals') /\ arrivals'[a] = arrivals[a]
<1> DEFINE n == Len(arrivals)
           k == Len(mailbox)
<1>1. /\ n \in Nat /\ k \in Nat /\ k <= n /\ Taken = n - k /\ Taken \in Nat /\ Taken <= n
      /\ mailbox \in Seq(Calls) /\ arrivals \in Seq(Calls)
      /\ \A a \in 1..n : arrivals[a] \in Calls
  BY LenProperties, ElementOfSeq DEF TypeOK, MailboxInv, Taken
<1>2. \A a, b \in 1..n : arrivals[a] = arrivals[b] => a = b
  BY DEF MailboxInv
<1>3. \A a \in 1..n : outcome[arrivals[a]] # "unsent" /\ outcome'[arrivals[a]] # "unsent"
  BY <1>1, UnsentNoMore DEF MailboxInv
<1>4. \A i \in 1..k : mailbox[i] = arrivals[Taken + i]
  BY DEF MailboxInv
<1>5. current \in Calls => Taken >= 1 /\ current = arrivals[Taken]
  BY DEF MailboxInv
<1>6. CASE UNCHANGED <<mailbox, arrivals>> /\ (current' = current \/ current' \notin Calls)
  BY <1>1, <1>2, <1>3, <1>4, <1>5, <1>6 DEF MailboxInv, Taken
<1>7. ASSUME NEW c \in Calls, outcome[c] = "unsent", outcome'[c] # "unsent",
             mailbox' = Append(mailbox, c), arrivals' = Append(arrivals, c), current' = current
      PROVE  /\ MailboxInv'
             /\ Taken <= Taken' /\ Taken' \in Nat
             /\ \A a \in 1..n : a \in 1..Len(arrivals') /\ arrivals'[a] = arrivals[a]
  <2>1. /\ Len(arrivals') = n + 1 /\ arrivals'[n + 1] = c /\ \A a \in 1..n : arrivals'[a] = arrivals[a]
        /\ Len(mailbox') = k + 1 /\ mailbox'[k + 1] = c /\ \A i \in 1..k : mailbox'[i] = mailbox[i]
    BY <1>1, <1>7, AppendProperties
  <2>2. Taken' = Taken /\ Taken + (k + 1) = n + 1
    BY <1>1, <2>1 DEF Taken
  <2>3. /\ \A a \in 1..(n + 1) : a \in 1..n \/ a = n + 1
        /\ \A i \in 1..(k + 1) : i \in 1..k \/ i = k + 1
    BY SMTT(30), <1>1
  <2>i. ASSUME NEW i \in 1..k PROVE Taken + i \in 1..n
    BY <1>1
  <2>4. \A a \in 1..n : arrivals[a] # c
    BY <1>3, <1>7
  <2>5. \A a, b \in 1..(n + 1) : arrivals'[a] = arrivals'[b] => a = b
    BY <1>2, <2>1, <2>3, <2>4
  <2>6. \A a \in 1..(n + 1) : outcome'[arrivals'[a]] # "unsent"
    BY <1>3, <1>7, <2>1, <2>3
  <2>7. \A i \in 1..(k + 1) : mailbox'[i] = arrivals'[Taken + i]
    BY <1>4, <2>1, <2>2, <2>3, <2>i
  <2>8. current' \in Calls => Taken >= 1 /\ current' = arrivals'[Taken]
    BY <1>1, <1>5, <1>7, <2>1
  <2>9. k + 1 <= n + 1 /\ \A a \in 1..n : a \in 1..(n + 1)
    BY <1>1
  <2> QED
    BY <1>1, <2>1, <2>2, <2>5, <2>6, <2>7, <2>8, <2>9 DEF MailboxInv
<1>8. ASSUME mailbox # <<>>, mailbox' = Tail(mailbox), arrivals' = arrivals,
             current' = Head(mailbox) \/ current' \notin Calls
      PROVE  MailboxInv' /\ Taken <= Taken' /\ Taken' \in Nat
  <2>1. /\ Len(mailbox') = k - 1 /\ k >= 1 /\ Head(mailbox) = mailbox[1]
        /\ \A i \in 1..(k - 1) : mailbox'[i] = mailbox[i + 1]
    <3>1. k \in Nat \ {0}
      BY <1>1, <1>8, EmptySeq
    <3>2. Head(mailbox) = mailbox[1]
      BY <1>1, <1>8
    <3> QED
      BY <1>1, <1>8, <3>1, <3>2, HeadTailProperties
  <2>2. Taken' = Taken + 1
    BY <1>1, <1>8, <2>1 DEF Taken
  <2>3. \A i \in 1..(k - 1) : i + 1 \in 1..k /\ Taken + (i + 1) = (Taken + 1) + i
    BY <1>1
  <2>4. \A i \in 1..(k - 1) : mailbox'[i] = arrivals[(Taken + 1) + i]
    BY <1>4, <2>1, <2>3
  <2>5. current' \in Calls => current' = arrivals[Taken + 1] /\ Taken + 1 >= 1
    BY <1>1, <1>4, <1>8, <2>1
  <2>6. k - 1 <= n /\ Taken <= Taken + 1 /\ Taken + 1 \in Nat
    BY <1>1
  <2> QED
    BY <1>2, <1>3, <1>8, <2>1, <2>2, <2>4, <2>5, <2>6 DEF MailboxInv
<1>9. ASSUME mailbox' = <<>>, arrivals' = arrivals, current' \notin Calls
      PROVE  MailboxInv' /\ Taken <= Taken' /\ Taken' \in Nat
  <2>1. Len(mailbox') = 0 /\ Taken' = n
    BY <1>1, <1>9, EmptySeq DEF Taken
  <2> QED
    BY SMTT(30), <1>1, <1>2, <1>3, <1>9, <2>1 DEF MailboxInv
<1>10. \/ MailboxInv' /\ Taken <= Taken' /\ Taken' \in Nat /\ arrivals' = arrivals
       \/ /\ MailboxInv' /\ Taken <= Taken' /\ Taken' \in Nat
          /\ \A a \in 1..n : a \in 1..Len(arrivals') /\ arrivals'[a] = arrivals[a]
  BY <1>1, <1>6, <1>7, <1>8, <1>9, MailboxEvolves DEF Taken
<1> QED
  BY <1>1, <1>10

\* What is sent after a step was sent before, or is the handler's message.
LEMMA SentEntries ==
  ASSUME TypeOK, HandlerInv, [Next]_vars
  PROVE  /\ Len(Sent) \in Nat /\ Len(Sent') \in Nat /\ Len(Sent') <= Len(Sent) + 1
         /\ \A i \in 1..Len(Sent') :
              \/ i \in 1..Len(Sent) /\ Sent'[i] = Sent[i]
              \/ /\ i = Len(Sent) + 1 /\ Sent'[i] = Message(current, step)
                 /\ current # None /\ connected /\ phase = "send"
<1>1. CASE Sent' = Sent
  BY <1>1, WireIsPrefix
<1>2. CASE Sent' = wire
  BY <1>2, WireIsPrefix
<1>3. CASE Send /\ connected /\ Sent' = Append(Sent, Message(current, step))
  <2>1. phase = "send" /\ current # None /\ Message(current, step) \in Messages
    BY <1>3, MessageType DEF Send, HandlerInv, TypeOK
  <2>2. /\ Len(Sent') = Len(Sent) + 1
        /\ \A i \in 1..Len(Sent) : Sent'[i] = Sent[i]
        /\ Sent'[Len(Sent) + 1] = Message(current, step)
        /\ Len(Sent) \in Nat
    BY <1>3, <2>1, WireIsPrefix, AppendProperties
  <2>3. \A i \in 1..Len(Sent') : i \in 1..Len(Sent) \/ i = Len(Sent) + 1
    BY <2>2
  <2> QED
    BY <1>3, <2>1, <2>2, <2>3
<1> QED
  BY <1>1, <1>2, <1>3, SentEvolves

\* Every step keeps the messages in the order in which the calls arrived.
LEMMA StepArrival ==
  ASSUME TypeOK, HandlerInv, MailboxInv, SendersInv, ArrivalOrder, TypeOK', [Next]_vars
  PROVE  SendersInv' /\ ArrivalOrder'
<1> DEFINE n == Len(arrivals)
           l == Len(Sent)
<1>1. /\ Taken \in Nat /\ Taken <= Taken' /\ Taken' \in Nat /\ Taken <= n /\ n \in Nat
      /\ \A a \in 1..n : a \in 1..Len(arrivals') /\ arrivals'[a] = arrivals[a]
  BY StepMailbox
<1>2. \A a \in 1..Taken : a \in 1..Taken' /\ a \in 1..n
  BY <1>1
<1>3. /\ \A a, b \in 1..Len(arrivals') : arrivals'[a] = arrivals'[b] => a = b
      /\ \A a \in 1..Len(arrivals') : arrivals'[a] \in Calls
      /\ Len(arrivals') \in Nat
  BY StepMailbox, ElementOfSeq, LenProperties DEF MailboxInv, TypeOK
<1>4. current \in Calls => Taken \in 1..Taken /\ current = arrivals[Taken]
  BY <1>1 DEF MailboxInv
<1>5. ASSUME NEW i \in 1..Len(Sent'), Sent'[i].owner \in Calls
      PROVE  \E a \in 1..Taken : arrivals[a] = Sent'[i].owner
  <2>1. CASE i \in 1..l /\ Sent'[i] = Sent[i]
    BY <1>5, <2>1 DEF SendersInv
  <2>2. CASE Sent'[i] = Message(current, step)
    BY <1>4, <1>5, <2>2 DEF Message
  <2> QED
    BY <2>1, <2>2, SentEntries
<1>6. SendersInv'
  BY <1>1, <1>2, <1>5 DEF SendersInv
<1>7. ASSUME NEW i \in 1..Len(Sent'), NEW j \in 1..Len(Sent'),
             NEW a \in 1..Len(arrivals'), NEW b \in 1..Len(arrivals'),
             i < j, a < b, Sent'[i].owner = arrivals'[b], Sent'[j].owner = arrivals'[a]
      PROVE  FALSE
  <2>1. b \in 1..Taken /\ a \in 1..Taken /\ b \in 1..n /\ a \in 1..n
    <3>1. PICK x \in 1..Taken : arrivals[x] = Sent'[i].owner
      BY <1>3, <1>5, <1>7
    <3>2. PICK y \in 1..Taken : arrivals[y] = Sent'[j].owner
      BY <1>3, <1>5, <1>7
    <3>3. x = b /\ y = a
      BY <1>1, <1>2, <1>3, <1>7, <3>1, <3>2
    <3> QED
      BY <1>2, <3>3
  <2>2. i \in 1..l /\ Sent'[i] = Sent[i]
    BY <1>7, SentEntries
  <2>3. CASE j \in 1..l /\ Sent'[j] = Sent[j]
    BY <1>1, <1>7, <2>1, <2>2, <2>3 DEF ArrivalOrder
  <2>4. CASE Sent'[j] = Message(current, step)
    <3>1. current = arrivals'[a] /\ current \in Calls
      BY <1>3, <1>7, <2>4 DEF Message
    <3>2. a = Taken
      BY <1>1, <1>2, <1>3, <1>4, <3>1
    <3> QED
      BY <1>1, <1>7, <2>1, <3>2
  <2> QED
    BY <2>3, <2>4, SentEntries
<1>8. ArrivalOrder'
  BY <1>7 DEF ArrivalOrder
<1> QED
  BY <1>6, <1>8

\* But for sending, a handler begins with its first message, goes on after the answer to
\* the one it awaits (a handshake after none as well), or has nothing more to send.
LEMMA HandlerEvolves ==
  ASSUME TypeOK, HandlerInv, [Next]_vars, ~Send
  PROVE  /\ connected' => connected
         /\ \/ UNCHANGED <<current, step, phase>>
            \/ phase' \notin {"await", "send"}
            \/ phase' = "send" /\ step' = 1
            \/ /\ phase = "await" /\ phase' = "send" /\ current' = current /\ step' = step + 1
               /\ session = "closing" \/ \E a \in answers : a.to = Message(current, step)
<1> USE DEF vars, handlerVars, clientVars, childVars
<1>a. ASSUME phase = "await",
             Proceed \/ Fail \/ (\E v \in {"value", "null", "error"} : Resume(v))
      PROVE  \/ phase' \notin {"await", "send"}
             \/ phase' = "send" /\ current' = current /\ step' = step + 1
  <2>1. current # None
    BY <1>a DEF HandlerInv
  <2> QED
    BY <1>a, <2>1, HandlerAdvances
<1>b. ASSUME phase = "await", Fail
      PROVE  \/ phase' \notin {"await", "send"}
             \/ phase' = "send" /\ current' = current /\ step' = step + 1 /\ session = "closing"
  BY <1>a, <1>b DEF Fail, Finish
<1>1. ASSUME NEW c \in Calls, Call(c) \/ Refuse(c) \/ Abandon(c)
      PROVE  UNCHANGED <<current, step, phase, connected>>
  BY <1>1 DEF Call, Refuse, Abandon
<1>2. TakeCached \/ TakeClosed \/ SignalStop \/ Transmit \/ Exit
        => UNCHANGED <<current, step, phase, connected>>
  BY DEF TakeCached, TakeClosed, SignalStop, Transmit, Exit
<1>3. TakeExchange => phase' = "send" /\ step' = 1 /\ connected' = connected
  BY DEF TakeExchange, Begin
<1>4. CASE TimeOut
  BY <1>b, <1>4 DEF TimeOut
<1>5. Reap \/ ReapFails \/ Kill => phase' \in {"idle", "stopped"} /\ ~connected'
  BY DEF Reap, ReapFails, Close, Kill
<1>6. Stop => /\ (phase' = "send" /\ step' = 1) \/ phase' = "stopped"
              /\ connected' = connected
  BY DEF Stop, Begin
<1>7. ASSUME NEW a \in answers, Receive(a)
      PROVE  /\ connected' = connected
             /\ \/ UNCHANGED <<current, step, phase>>
                \/ phase' \notin {"await", "send"}
                \/ /\ phase = "await" /\ phase' = "send" /\ current' = current /\ step' = step + 1
                   /\ a.to = Message(current, step)
  <2>1. a.value \in {"value", "null", "error"}
    BY <1>7 DEF Answers, TypeOK
  <2> QED
    BY <1>a, <1>7, <2>1 DEF Receive
<1>8. CASE Disconnect
  BY <1>b, <1>8 DEF Disconnect
<1>9. ASSUME NEW m \in busy, NEW v \in AnswerValues(m), Answer(m, v)
      PROVE  UNCHANGED <<current, step, phase, connected>>
  BY <1>9 DEF Answer
<1>10. CASE UNCHANGED vars
  BY <1>10
<1> QED
  BY <1>1, <1>2, <1>3, <1>4, <1>5, <1>6, <1>7, <1>8, <1>9, <1>10 DEF Next, Handler

\* What Send does to the handler.
LEMMA SendEvolves ==
  ASSUME TypeOK, HandlerInv, Send
  PROVE  /\ connected' = connected
         /\ connected =>
              \/ phase' = "await" /\ UNCHANGED <<current, step, outcome>>
              \/ phase' \notin {"await", "send"}
              \/ phase' = "send" /\ current' = current /\ step' = step + 1
<1>1. current # None
  BY DEF Send, HandlerInv
<1>2. CASE Proceed \/ Fail
  BY <1>1, <1>2, HandlerAdvances DEF Send
<1>3. CASE ~(Proceed \/ Fail)
  BY <1>3 DEF Send
<1> QED
  BY <1>2, <1>3

\* Every step keeps the messages of a call together.
LEMMA StepContiguous ==
  ASSUME TypeOK, HandlerInv, LastInv, CallsAreContiguous, [Next]_vars
  PROVE  LastInv' /\ CallsAreContiguous'
<1> DEFINE l == Len(Sent)
<1>1. step \in Nat /\ l \in Nat /\ Sent \in Seq(Messages)
  BY WireIsPrefix DEF TypeOK
<1>2. LastInv'
  <2>1. CASE Send /\ connected
    <3>4. Len(Sent') > 0 /\ Sent'[Len(Sent')] = Message(current, step)
      BY <1>1, <2>1, SentGrows
    <3>5. CASE phase' = "await" /\ UNCHANGED <<current, step>>
      BY <3>4, <3>5 DEF LastInv, Message
    <3>6. CASE phase' \notin {"await", "send"}
      BY <3>6 DEF LastInv
    <3>7. CASE phase' = "send" /\ current' = current /\ step' = step + 1
      <4>1. step' - 1 = step
        BY <1>1, <3>7
      <4> QED
        BY <3>4, <3>7, <4>1 DEF LastInv, Message
    <3> QED
      BY <2>1, <3>5, <3>6, <3>7, SendEvolves
  <2>2. CASE Send /\ ~connected
    BY <2>2, SendEvolves DEF LastInv
  <2>3. CASE ~Send /\ ~connected'
    BY <2>3 DEF LastInv
  <2>4. CASE ~Send /\ connected'
    <3>1. Sent' = Sent /\ connected
      BY <2>4, SentEvolves, HandlerEvolves
    <3>3. CASE UNCHANGED <<current, step, phase>>
      BY <3>1, <3>3 DEF LastInv, Message
    <3>4. CASE phase' \notin {"await", "send"} \/ (phase' = "send" /\ step' = 1)
      BY <3>4 DEF LastInv
    <3>5. CASE phase = "await" /\ phase' = "send" /\ current' = current /\ step' = step + 1
      <4>1. step' - 1 = step
        BY <1>1, <3>5
      <4> QED
        BY <3>1, <3>5, <4>1 DEF LastInv, Message
    <3> QED
      BY <2>4, <3>3, <3>4, <3>5, HandlerEvolves
  <2> QED
    BY <2>1, <2>2, <2>3, <2>4
<1>3. CallsAreContiguous'
  <2> SUFFICES ASSUME NEW i \in 1..Len(Sent'), Sent'[i].step > 1
               PROVE  i > 1 /\ Sent'[i - 1] = [owner |-> Sent'[i].owner, step |-> Sent'[i].step - 1]
    BY DEF CallsAreContiguous, Message
  <2>1. \A k \in 1..Len(Sent') : k < l + 1 => Sent'[k] = Sent[k]
    BY <1>1, SentEntries
  <2>2. CASE i \in 1..l /\ Sent'[i] = Sent[i]
    <3>1. i > 1 /\ Sent[i - 1] = Message(Sent[i].owner, Sent[i].step - 1)
      BY <2>2 DEF CallsAreContiguous
    <3>2. i - 1 \in 1..Len(Sent') /\ i - 1 < l + 1
      BY <1>1, <2>2, <3>1, SentEntries
    <3> QED
      BY <2>1, <2>2, <3>1, <3>2 DEF Message
  <2>3. CASE i = l + 1 /\ Sent'[i] = Message(current, step) /\ connected /\ phase = "send"
    <3>1. Sent'[i].step = step /\ Sent'[i].owner = current
      BY <2>3 DEF Message
    <3>2. l > 0 /\ Sent[l] = Message(current, step - 1)
      BY <2>3, <3>1 DEF LastInv
    <3>3. i - 1 = l /\ l \in 1..Len(Sent') /\ i > 1
      BY <1>1, <2>3, <3>2, SentEntries
    <3> QED
      BY <1>1, <2>1, <3>1, <3>2, <3>3 DEF Message
  <2> QED
    BY <2>2, <2>3, SentEntries
<1> QED
  BY <1>2, <1>3

------------------------------------------------------------------------------
\* What an answer says about the requests.

Written(m) == \E i \in 1..Len(wire) : wire[i] = m

\* The calls that rust-analyzer answers.
Answered == {"request", "rename", "search"}

\* Only what has been written is worked on and answered, so whoever is at a later message
\* has had the earlier ones written.
AskedInv ==
  /\ \A m \in busy : Written(m)
  /\ \A a \in answers : Written(a.to)
  /\ phase = "await" => IsRequest(Message(current, step))
  /\ current \in Calls /\ Kind[current] \in Answered =>
       \A s \in 1..(step - 1) : Written(Message(current, s))

\* What has been written stays written.
LEMMA WireGrows ==
  ASSUME TypeOK, [Next]_vars
  PROVE  /\ \A m : Written(m) => Written(m)'
         /\ wire' = wire \/ Transmit
         /\ Transmit => \E i \in 1..Len(wire') : wire'[i] = Head(sendQueue)
<1> USE DEF vars, childVars, clientVars
<1>1. wire' = wire => \A m : Written(m) => Written(m)'
  BY DEF Written
<1>2. ASSUME Transmit
      PROVE  (\A m : Written(m) => Written(m)') /\ \E i \in 1..Len(wire') : wire'[i] = Head(sendQueue)
  <2>1. wire' = Append(wire, Head(sendQueue)) /\ Head(sendQueue) \in Messages
    BY <1>2 DEF Transmit, TypeOK
  <2>2. /\ Len(wire) \in Nat /\ Len(wire') = Len(wire) + 1
        /\ wire'[Len(wire) + 1] = Head(sendQueue)
        /\ \A i \in 1..Len(wire) : wire'[i] = wire[i]
    BY <2>1, AppendProperties, LenProperties DEF TypeOK
  <2>3. Len(wire) + 1 \in 1..Len(wire') /\ \A i \in 1..Len(wire) : i \in 1..Len(wire')
    BY <2>2
  <2> QED
    BY <2>2, <2>3 DEF Written
<1>3. ASSUME NEW c \in Calls, Call(c) \/ Refuse(c) \/ Abandon(c) PROVE wire' = wire
  BY <1>3 DEF Call, Refuse, Abandon
<1>4. TakeCached \/ TakeClosed \/ TakeExchange \/ Send \/ TimeOut \/ Stop \/ SignalStop => wire' = wire
  BY DEF TakeCached, TakeClosed, TakeExchange, Send, TimeOut, Stop, SignalStop
<1>5. Reap \/ ReapFails \/ Kill \/ Disconnect \/ Exit => wire' = wire
  BY DEF Reap, ReapFails, Close, Kill, Disconnect, Exit
<1>6. ASSUME NEW a \in answers, Receive(a) PROVE wire' = wire
  BY <1>6 DEF Receive
<1>7. ASSUME NEW m \in busy, NEW v \in AnswerValues(m), Answer(m, v) PROVE wire' = wire
  BY <1>7 DEF Answer
<1> QED
  BY <1>1, <1>2, <1>3, <1>4, <1>5, <1>6, <1>7 DEF Next, Handler

\* Requests are only taken from what was written, and answers from the requests.
LEMMA BusyEvolves ==
  ASSUME TypeOK, [Next]_vars
  PROVE  /\ \A m \in busy' : m \in busy \/ (Transmit /\ m = Head(sendQueue))
         /\ \A a \in answers' : a \in answers \/ a.to \in busy
<1> USE DEF vars, childVars
<1>1. ASSUME NEW c \in Calls, Call(c) \/ Refuse(c) \/ Abandon(c) PROVE UNCHANGED <<busy, answers>>
  BY <1>1 DEF Call, Refuse, Abandon
<1>2. TakeCached \/ TakeClosed \/ TakeExchange \/ Send \/ TimeOut \/ Stop \/ SignalStop \/ Disconnect
        => UNCHANGED <<busy, answers>>
  BY DEF TakeCached, TakeClosed, TakeExchange, Send, TimeOut, Stop, SignalStop, Disconnect
<1>3. Reap \/ ReapFails \/ Kill \/ Exit => busy' = {} /\ answers' = answers
  BY DEF Reap, ReapFails, Close, Kill, Exit
<1>4. CASE Transmit
  BY <1>4 DEF Transmit
<1>5. ASSUME NEW a \in answers, Receive(a) PROVE busy' = busy /\ answers' = answers \ {a}
  BY <1>5 DEF Receive
<1>6. ASSUME NEW m \in busy, NEW v \in AnswerValues(m), Answer(m, v)
      PROVE  busy' = busy \ {m} /\ answers' = answers \cup {[to |-> m, value |-> v]}
  BY <1>6 DEF Answer
<1>7. CASE UNCHANGED vars
  BY <1>7
<1> QED
  BY <1>1, <1>2, <1>3, <1>4, <1>5, <1>6, <1>7 DEF Next, Handler

\* Every step keeps what is known of the requests.
LEMMA StepAsked ==
  ASSUME TypeOK, HandlerInv, AskedInv, TypeOK', HandlerInv', [Next]_vars
  PROVE  AskedInv'
<1>1. \A m : Written(m) => Written(m)'
  BY WireGrows
<1>w. \A m : Written(m) => \E i \in 1..Len(wire') : wire'[i] = m
  BY WireGrows DEF Written
<1>2. \A m \in busy' : Written(m)'
  <2> TAKE m \in busy'
  <2>1. CASE m \in busy
    BY <1>1, <2>1 DEF AskedInv
  <2>2. CASE Transmit /\ m = Head(sendQueue)
    BY <2>2, WireGrows DEF Written
  <2> QED
    BY <2>1, <2>2, BusyEvolves
<1>3. \A a \in answers' : Written(a.to)'
  <2> TAKE a \in answers'
  <2>1. Written(a.to)
    BY BusyEvolves DEF AskedInv
  <2> QED
    BY <1>1, <2>1
<1>4. ASSUME phase' = "await" PROVE IsRequest(Message(current, step))'
  <2>1. CASE Send
    <3>1. phase' = "await" /\ current' = current /\ step' = step /\ IsRequest(Message(current, step))
      <4>1. current # None /\ phase = "send"
        BY <2>1 DEF Send, HandlerInv
      <4>2. ~(Proceed \/ Fail)
        BY <1>4, <4>1, HandlerAdvances
      <4> QED
        BY <2>1, <4>2 DEF Send
    <3> QED
      BY <3>1 DEF IsRequest, IsShutdown, KindOf, Message
  <2>2. CASE ~Send
    <3>1. UNCHANGED <<current, step, phase>>
      BY <1>4, <2>2, HandlerEvolves
    <3> QED
      BY <1>4, <3>1 DEF AskedInv, IsRequest, IsShutdown, KindOf, Message
  <2> QED
    BY <2>1, <2>2
<1>5. ASSUME current' \in Calls, Kind[current'] \in Answered, NEW s \in 1..(step' - 1)
      PROVE  \E i \in 1..Len(wire') : wire'[i] = [owner |-> current', step |-> s]
  <2>0. /\ step' \in Nat \ {0} /\ phase' \in {"send", "await", "reap"} /\ step \in Nat
        /\ (session' = "closing" => Kind[current'] = "shutdown")
    BY <1>5 DEF HandlerInv, KindOf, TypeOK, Phases
  <2>1. CASE Send
    <3>1. current # None /\ phase = "send" /\ session' = session
      BY <2>1 DEF Send, HandlerInv
    <3>2. CASE connected /\ IsRequest(Message(current, step))
      <4>1. current' = current /\ step' = step
        BY <2>1, <3>2 DEF Send
      <4> QED
        BY <1>w, <1>5, <4>1 DEF AskedInv, Message
    <3>3. CASE ~connected \/ ~IsRequest(Message(current, step))
      <4>1. Proceed \/ Fail
        BY <2>1, <3>3 DEF Send
      <4>2. current' = current
        BY <1>5, <3>1, <4>1, HandlerAdvances
      <4>3. IsRequest(Message(current, step))
        BY <1>5, <4>2 DEF IsRequest, Message, KindOf, Answered
      <4>4. Fail
        BY <2>1, <3>3, <4>3 DEF Send
      <4>5. session = "closing"
        BY <1>5, <4>2, <4>4 DEF Fail, Finish
      <4> QED
        BY <1>5, <2>0, <3>1, <4>5 DEF Answered
    <3> QED
      BY <3>2, <3>3
  <2>2. CASE ~Send
    <3>1. CASE UNCHANGED <<current, step, phase>>
      BY <1>w, <1>5, <3>1 DEF AskedInv, Message
    <3>2. CASE phase' \notin {"await", "send"}
      BY <1>5, <2>0, <3>2 DEF HandlerInv, Answered
    <3>3. CASE phase' = "send" /\ step' = 1
      BY <1>5, <3>3
    <3>4. CASE /\ phase = "await" /\ current' = current /\ step' = step + 1
               /\ session = "closing" \/ \E a \in answers : a.to = Message(current, step)
      <4>1. Kind[current] # "shutdown" /\ current # None /\ KindOf(current) = Kind[current]
        BY <1>5, <3>4 DEF Answered, KindOf
      <4>2. Written(Message(current, step))
        BY <3>4, <4>1 DEF AskedInv, HandlerInv
      <4>3. CASE s = step
        <5>1. Written([owner |-> current', step |-> s])
          BY <3>4, <4>2, <4>3 DEF Message
        <5> QED
          BY <1>w, <5>1
      <4>4. CASE s # step
        <5>1. s \in 1..(step - 1)
          BY <2>0, <3>4, <4>4
        <5>2. Written([owner |-> current', step |-> s])
          BY <1>5, <3>4, <5>1 DEF AskedInv, Message
        <5> QED
          BY <1>w, <5>2
      <4> QED
        BY <4>3, <4>4
    <3> QED
      BY <2>2, <3>1, <3>2, <3>3, <3>4, HandlerEvolves
  <2> QED
    BY <2>1, <2>2
<1> QED
  <2>1. current' \in Calls /\ Kind[current'] \in Answered =>
          \A s \in 1..(step' - 1) : \E i \in 1..Len(wire') : wire'[i] = Message(current', s)
    BY <1>5 DEF Message
  <2>2. (current \in Calls /\ Kind[current] \in Answered =>
           \A s \in 1..(step - 1) : Written(Message(current, s)))'
    BY <2>1 DEF Written, Message
  <2> QED
    BY <1>2, <1>3, <1>4, <2>2 DEF AskedInv

\* Who is told "ok" needs nothing of rust-analyzer, has just received the answer to his
\* last request, or has just handed over a notification.
LEMMA OkEvolves ==
  ASSUME TypeOK, HandlerInv, [Next]_vars, NEW c \in Calls, outcome'[c] = "ok", outcome[c] # "ok"
  PROVE  \/ Kind[c] \in {"cached", "shutdown"}
         \/ /\ c = current /\ step = Steps(c) /\ phase = "await"
            /\ \E a \in answers : a.to = Message(c, step)
         \/ c = current /\ step = Steps(c) /\ Send /\ connected /\ Kind[c] \notin Answered
<1> USE DEF TypeOK, vars, handlerVars, clientVars, childVars
<1>1. ASSUME NEW o, NEW r, outcome' = Told(o, r) PROVE o = c /\ r = "ok"
  BY <1>1 DEF Told
<1>2. ASSUME outcome' = Dropped PROVE FALSE
  BY <1>2 DEF Dropped
<1>3. ASSUME Proceed, current # None PROVE c = current /\ step = Steps(c)
  <2>1. Finish("ok") /\ ~(step < Steps(current))
    BY <1>3 DEF Proceed
  <2>2. c = current
    BY <1>1, <2>1 DEF Finish
  <2>3. step <= Steps(current) /\ Steps(current) \in Nat
    BY <1>3, StepsNat DEF HandlerInv
  <2> QED
    BY <2>1, <2>2, <2>3
<1>4. ASSUME Fail PROVE FALSE
  <2>1. CASE session = "closing"
    BY <1>1, <1>4, <2>1 DEF Fail, Proceed, Finish
  <2>2. CASE session # "closing"
    BY <1>1, <1>4, <2>2 DEF Fail, Finish
  <2> QED
    BY <2>1, <2>2
<1>5. ASSUME NEW d \in Calls, Call(d) \/ Refuse(d) \/ Abandon(d) PROVE FALSE
  BY <1>5 DEF Call, Refuse, Abandon
<1>6. CASE TakeCached
  BY <1>1, <1>6 DEF TakeCached
<1>7. CASE TakeClosed
  BY <1>1, <1>7 DEF TakeClosed
<1>8. TakeExchange \/ SignalStop \/ Transmit \/ Exit => FALSE
  BY DEF TakeExchange, SignalStop, Transmit, Exit
<1>9. CASE Send
  <2>1. current # None /\ phase = "send"
    BY <1>9 DEF Send, HandlerInv
  <2>2. connected /\ ~IsRequest(Message(current, step)) /\ Proceed
    BY <1>4, <1>9 DEF Send
  <2>3. c = current /\ step = Steps(c)
    BY <1>3, <2>1, <2>2
  <2>4. Kind[c] \notin Answered
    BY <2>2, <2>3 DEF IsRequest, Message, KindOf, Answered
  <2> QED
    BY <1>9, <2>2, <2>3, <2>4
<1>10. TimeOut => FALSE
  BY <1>4 DEF TimeOut
<1>11. CASE Reap \/ ReapFails
  <2>1. PICK r \in {"ok", "error"} : Close(r) /\ session = "closing"
    BY <1>11 DEF Reap, ReapFails, HandlerInv
  <2>2. c = current
    BY <1>1, <1>2, <2>1 DEF Close
  <2> QED
    BY <2>1, <2>2 DEF HandlerInv, KindOf
<1>12. Stop => FALSE
  BY <1>2 DEF Stop
<1>13. Kill => FALSE
  BY <1>2 DEF Kill
<1>14. ASSUME NEW a \in answers, Receive(a)
       PROVE  /\ c = current /\ step = Steps(c) /\ phase = "await"
              /\ a.to = Message(c, step)
  <2>1. phase = "await" /\ a.to = Message(current, step) /\ Resume(a.value)
    BY <1>14 DEF Receive
  <2>2. Proceed /\ current # None
    BY <1>4, <2>1 DEF Resume, HandlerInv
  <2> QED
    BY <1>3, <2>1, <2>2
<1>15. Disconnect => FALSE
  BY <1>4 DEF Disconnect
<1>16. ASSUME NEW m \in busy, NEW v \in AnswerValues(m), Answer(m, v) PROVE FALSE
  BY <1>16 DEF Answer
<1>17. UNCHANGED vars => FALSE
  OBVIOUS
<1> QED
  BY <1>5, <1>6, <1>7, <1>8, <1>9, <1>10, <1>11, <1>12, <1>13, <1>14, <1>15, <1>16, <1>17
     DEF Next, Handler

\* Every step keeps the promise to the callers that were answered.
LEMMA StepAnswered ==
  ASSUME TypeOK, HandlerInv, AskedInv, AnsweredMeansAsked, [Next]_vars
  PROVE  AnsweredMeansAsked'
<1> SUFFICES ASSUME NEW c \in Calls, outcome'[c] = "ok"
             PROVE  /\ Kind[c] \in Answered =>
                         \A s \in 1..Steps(c) : \E i \in 1..Len(wire') : wire'[i] = Message(c, s)
                    /\ Kind[c] = "notify" =>
                         ~connected' \/ \E i \in 1..Len(Sent') : Sent'[i] = Message(c, 1)
  BY DEF AnsweredMeansAsked, Answered, Steps, Message, KindOf
<1>1. \A m : Written(m) => \E i \in 1..Len(wire') : wire'[i] = m
  BY WireGrows DEF Written
<1>2. connected' => connected
  BY HandlerEvolves, SendEvolves
<1>3. \/ ~connected'
      \/ Sent' = Sent
      \/ /\ Len(Sent') = Len(Sent) + 1 /\ Len(Sent) \in Nat
         /\ Sent'[Len(Sent) + 1] = Message(current, step)
         /\ \A i \in 1..Len(Sent) : Sent'[i] = Sent[i]
  BY SentEvolves, SentGrows
<1>4. CASE outcome[c] = "ok"
  <2>1. Kind[c] \in Answered => \A s \in 1..Steps(c) : Written(Message(c, s))
    BY <1>4 DEF AnsweredMeansAsked, Answered, Written
  <2>2. ASSUME Kind[c] = "notify", connected'
        PROVE  \E i \in 1..Len(Sent') : Sent'[i] = Message(c, 1)
    <3>1. PICK i \in 1..Len(Sent) : Sent[i] = Message(c, 1)
      BY <1>2, <1>4, <2>2 DEF AnsweredMeansAsked
    <3>2. i \in 1..Len(Sent') /\ Sent'[i] = Sent[i]
      BY <1>3, <2>2
    <3> QED
      BY <3>1, <3>2
  <2> QED
    BY <1>1, <2>1, <2>2
<1>5. CASE outcome[c] # "ok"
  <2>1. CASE Kind[c] \in {"cached", "shutdown"}
    BY <2>1 DEF Answered
  <2>2. CASE /\ c = current /\ step = Steps(c) /\ phase = "await"
             /\ \E a \in answers : a.to = Message(c, step)
    <3>1. Written(Message(c, step)) /\ IsRequest(Message(c, step))
      BY <2>2 DEF AskedInv
    <3>2. Kind[c] # "notify"
      BY <3>1 DEF IsRequest, IsShutdown, Message, KindOf
    <3>3. ASSUME Kind[c] \in Answered, NEW s \in 1..Steps(c) PROVE Written(Message(c, s))
      <4>1. CASE s = step
        BY <3>1, <4>1
      <4>2. CASE s # step
        <5>1. s \in 1..(step - 1)
          BY <2>2, <4>2 DEF TypeOK
        <5> QED
          BY <2>2, <3>3, <5>1 DEF AskedInv
      <4> QED
        BY <4>1, <4>2
    <3> QED
      BY <1>1, <3>2, <3>3
  <2>3. CASE c = current /\ step = Steps(c) /\ Send /\ connected /\ Kind[c] \notin Answered
    <3>1. ASSUME Kind[c] = "notify" PROVE step = 1
      BY <2>3, <3>1 DEF Steps, KindOf
    <3>2. \E i \in 1..Len(Sent') : Sent'[i] = Message(current, step)
      BY <2>3, SentGrows
    <3> QED
      BY <2>3, <3>1, <3>2
  <2> QED
    BY <1>5, <2>1, <2>2, <2>3, OkEvolves
<1> QED
  BY <1>4, <1>5

------------------------------------------------------------------------------
\* The inductive invariant and the theorems.

\* The handler, the messages it sends and the calls it serves.
MessagesInv == SentInv /\ LastInv /\ AskedInv
CallsInv == MailboxInv /\ SendersInv

IndInv ==
  /\ TypeOK /\ HandlerInv /\ MessagesInv /\ CallsInv
  /\ ShutdownIsLast /\ CallsAreContiguous /\ ArrivalOrder /\ AnsweredMeansAsked /\ NoOrphanChild

LEMMA InitInv == Init => IndInv
<1> SUFFICES ASSUME Init PROVE IndInv
  OBVIOUS
<1>1. /\ Sent = <<>> /\ Len(Sent) = 0 /\ Len(arrivals) = 0 /\ Len(mailbox) = 0
      /\ arrivals = <<>> /\ mailbox = <<>>
  BY ConcatEmptySeq, EmptySeq DEF Init, Sent
<1>2. MessagesInv
  BY <1>1 DEF MessagesInv, SentInv, LastInv, AskedInv, Init
<1>3. CallsInv
  BY <1>1 DEF CallsInv, MailboxInv, SendersInv, Init
<1>4. ShutdownIsLast /\ CallsAreContiguous /\ ArrivalOrder
  BY <1>1 DEF ShutdownIsLast, CallsAreContiguous, ArrivalOrder
<1>5. AnsweredMeansAsked /\ NoOrphanChild
  BY DEF Init, AnsweredMeansAsked, NoOrphanChild
<1> QED
  BY <1>2, <1>3, <1>4, <1>5, InitTypes, InitHandler DEF IndInv

LEMMA StepInv == IndInv /\ [Next]_vars => IndInv'
<1> SUFFICES ASSUME IndInv, [Next]_vars PROVE IndInv'
  OBVIOUS
<1> USE DEF IndInv, MessagesInv, CallsInv
<1>1. TypeOK' /\ HandlerInv'
  BY StepTypes, StepHandler
<1>2. SentInv' /\ ShutdownIsLast'
  BY StepSent
<1>3. LastInv' /\ CallsAreContiguous'
  BY StepContiguous
<1>4. AskedInv' /\ AnsweredMeansAsked'
  BY <1>1, StepAsked, StepAnswered
<1>5. MailboxInv' /\ SendersInv' /\ ArrivalOrder'
  BY <1>1, StepMailbox, StepArrival
<1> QED
  BY <1>1, <1>2, <1>3, <1>4, <1>5, StepOrphan

LEMMA Inductive == Spec => []IndInv
<1>1. Init => IndInv
  BY InitInv
<1>2. IndInv /\ [Next]_vars => IndInv'
  BY StepInv
<1> QED
  BY <1>1, <1>2, PTL DEF Spec

\* Every variable keeps its type, in every reachable state.
THEOREM TypeCorrect == Spec => []TypeOK
<1>1. IndInv => TypeOK
  BY DEF IndInv
<1> QED
  BY <1>1, Inductive, PTL

\* Nothing is handed to rust-analyzer after a `shutdown` but the `exit` of the same
\* handshake: the session is taken before the handshake starts, and only one is.
THEOREM ShutdownEndsTraffic == Spec => []ShutdownIsLast
<1>1. IndInv => ShutdownIsLast
  BY DEF IndInv
<1> QED
  BY <1>1, Inductive, PTL

\* The messages of a rename, of a multi-pattern search and of a handshake are written
\* one after the other, whatever callers, timeouts and the child do meanwhile
\* (reply_with_session owns the session for the whole call).
THEOREM MessagesAreContiguous == Spec => []CallsAreContiguous
<1>1. IndInv => CallsAreContiguous
  BY DEF IndInv
<1> QED
  BY <1>1, Inductive, PTL

\* A file change queued before a request reaches rust-analyzer before it: messages are
\* written in the order in which the calls entered the mailbox.
THEOREM MessagesFollowArrival == Spec => []ArrivalOrder
<1>1. IndInv => ArrivalOrder
  BY DEF IndInv
<1> QED
  BY <1>1, Inductive, PTL

\* No caller is told "ok" for a request that rust-analyzer has not been sent, however
\* late the answers to requests that timed out arrive.
THEOREM AnswersAreOwn == Spec => []AnsweredMeansAsked
<1>1. IndInv => AnsweredMeansAsked
  BY DEF IndInv
<1> QED
  BY <1>1, Inductive, PTL

\* No way the actor ends leaves a rust-analyzer process behind.
THEOREM ChildNeverOrphaned == Spec => []NoOrphanChild
<1>1. IndInv => NoOrphanChild
  BY DEF IndInv
<1> QED
  BY <1>1, Inductive, PTL

------------------------------------------------------------------------------
\* Refinement. The actor with its mailbox, its JSON-RPC client, its timeouts and its
\* child process implements SerialService: every step of RustAnalyzerActor serves,
\* accepts, refuses or abandons a call, stops the service, or is invisible.

\* The abstract queue and its parts.
Front == IF current \in Calls THEN <<current>> ELSE <<>>
Queue == Front \o mailbox

\* An idle handler's queue is the mailbox.
LEMMA IdleQueue ==
  ASSUME TypeOK, current \notin Calls
  PROVE  Queue = mailbox
  BY ConcatEmptySeq DEF Queue, Front, TypeOK

\* A busy handler's call is the oldest of its queue.
LEMMA BusyQueue ==
  ASSUME TypeOK, current \in Calls
  PROVE  Queue # <<>> /\ Head(Queue) = current /\ Tail(Queue) = mailbox
<1>1. <<current>> \in Seq(Calls) /\ Len(<<current>>) = 1
  OBVIOUS
<1>2. /\ Queue \in Seq(Calls)
      /\ Len(Queue) = 1 + Len(mailbox)
      /\ \A i \in 1..(1 + Len(mailbox)) :
           Queue[i] = IF i <= 1 THEN <<current>>[i] ELSE mailbox[i - 1]
  BY <1>1, ConcatProperties DEF Queue, Front, TypeOK
<1>3. Len(mailbox) \in Nat
  BY LenProperties DEF TypeOK
<1>4. Queue # <<>>
  BY <1>2, <1>3, EmptySeq
<1>5. Head(Queue) = current
  BY <1>2, <1>3, <1>4
<1>6. Len(Tail(Queue)) = Len(mailbox) /\ Tail(Queue) \in Seq(Calls)
      /\ \A i \in 1..Len(mailbox) : Tail(Queue)[i] = mailbox[i]
  BY <1>2, <1>3, <1>4, HeadTailProperties
<1> QED
  BY <1>4, <1>5, <1>6, SeqEqual DEF TypeOK

\* Calls are accepted at the end of the queue, whether the handler is busy or not.
LEMMA QueueAppend ==
  ASSUME TypeOK, NEW c \in Calls
  PROVE  Front \o Append(mailbox, c) = Append(Queue, c)
<1>1. Front \in Seq(Calls) /\ mailbox \in Seq(Calls)
  BY EmptySeq DEF Front, TypeOK
<1>2. /\ Append(mailbox, c) = mailbox \o <<c>>
      /\ Append(Front \o mailbox, c) = (Front \o mailbox) \o <<c>>
      /\ <<c>> \in Seq(Calls)
  BY <1>1, AppendIsConcat, ConcatProperties
<1> QED
  BY <1>1, <1>2, ConcatAssociative DEF Queue

\* A call that starts to be handled stays at the head of the queue.
LEMMA QueueTake ==
  ASSUME TypeOK, mailbox # <<>>
  PROVE  Head(mailbox) \in Calls /\ <<Head(mailbox)>> \o Tail(mailbox) = mailbox
<1>1. /\ Head(mailbox) \in Calls /\ Tail(mailbox) \in Seq(Calls)
      /\ Len(Tail(mailbox)) = Len(mailbox) - 1
      /\ \A i \in 1..Len(Tail(mailbox)) : Tail(mailbox)[i] = mailbox[i + 1]
      /\ Len(mailbox) \in Nat \ {0}
      /\ Head(mailbox) = mailbox[1]
  BY HeadTailProperties, EmptySeq DEF TypeOK
<1>2. <<Head(mailbox)>> \in Seq(Calls) /\ Len(<<Head(mailbox)>>) = 1
  BY <1>1
<1>3. /\ <<Head(mailbox)>> \o Tail(mailbox) \in Seq(Calls)
      /\ Len(<<Head(mailbox)>> \o Tail(mailbox)) = Len(mailbox)
      /\ \A i \in 1..Len(mailbox) : (<<Head(mailbox)>> \o Tail(mailbox))[i] =
           IF i <= 1 THEN <<Head(mailbox)>>[i] ELSE Tail(mailbox)[i - 1]
  BY <1>1, <1>2, ConcatProperties
<1>4. \A i \in 1..Len(mailbox) : (<<Head(mailbox)>> \o Tail(mailbox))[i] = mailbox[i]
  <2> TAKE i \in 1..Len(mailbox)
  <2>1. CASE i = 1
    BY <1>1, <1>3, <2>1
  <2>2. CASE i # 1
    <3>1. i - 1 \in 1..Len(Tail(mailbox))
      BY <1>1, <2>2
    <3> QED
      BY <1>1, <1>3, <2>2, <3>1
  <2> QED
    BY <2>1, <2>2
<1> QED
  BY <1>1, <1>3, <1>4, SeqEqual DEF TypeOK

------------------------------------------------------------------------------
\* The steps.

\* A step that leaves the outcomes, the queue and both flags alone is invisible.
LEMMA Invisible ==
  ASSUME outcome' = outcome, Queue' = Queue,
         (session' = "none") <=> (session = "none"),
         (phase' = "stopped") <=> (phase = "stopped")
  PROVE  UNCHANGED Service!vars
  BY DEF Service!vars, Queue, Front

\* Answering the oldest call is Serve.
LEMMA Serves ==
  ASSUME Queue # <<>>, Queue' = Tail(Queue),
         NEW r \in Service!Replies(Kind[Head(Queue)]),
         outcome' = Told(Head(Queue), r),
         (session' # "none") <=> (session # "none" /\ Kind[Head(Queue)] # "shutdown"),
         (phase' = "stopped") <=> (phase = "stopped")
  PROVE  Service!Serve
  BY DEF Service!Serve, Queue, Front, Told

\* A handler that goes on serves the call it works on or does nothing visible.
LEMMA AdvanceRefines ==
  ASSUME TypeOK, HandlerInv, current # None, phase # "stopped",
         Proceed \/ Fail \/ (\E v \in {"value", "null", "error"} : Resume(v)),
         session' = session, mailbox' = mailbox
  PROVE  Service!Serve \/ UNCHANGED Service!vars
<1>1. ASSUME NEW r \in {"ok", "error"}, Finish(r), session # "closing"
      PROVE  Service!Serve
  <2>1. current \in Calls /\ Kind[current] # "shutdown" /\ session = "open"
    BY <1>1 DEF HandlerInv, KindOf, Owners, TypeOK
  <2>2. Queue # <<>> /\ Head(Queue) = current /\ Tail(Queue) = mailbox
    BY <2>1, BusyQueue
  <2>3. Queue' = mailbox
    <3>1. Front' = <<>> /\ mailbox' = mailbox
      BY <1>1 DEF Finish, Front
    <3> QED
      BY <3>1, ConcatEmptySeq DEF Queue, TypeOK
  <2>4. r \in Service!Replies(Kind[current])
    BY <2>1 DEF Service!Replies
  <2>5. outcome' = Told(current, r) /\ phase' # "stopped"
    BY <1>1 DEF Finish
  <2> QED
    BY <2>1, <2>2, <2>3, <2>4, <2>5, Serves
<1>2. ASSUME outcome' = outcome, current' = current, phase' # "stopped"
      PROVE  UNCHANGED Service!vars
  <2>1. Queue' = Queue
    BY <1>2 DEF Queue, Front
  <2> QED
    BY <1>2, <2>1, Invisible
<1>3. CASE Proceed
  BY <1>1, <1>2, <1>3 DEF Proceed
<1>4. CASE Fail
  BY <1>1, <1>3, <1>4 DEF Fail
<1> QED
  BY <1>3, <1>4 DEF Resume

\* Stopping the actor, or killing it, is Stop.
LEMMA Stops ==
  ASSUME phase # "stopped", phase' = "stopped", session' = "none",
         current' = None, mailbox' = <<>>, outcome' = Dropped
  PROVE  Service!Stop
<1>1. Queue' = <<>>
  <2>1. Front' = <<>>
    BY DEF Front
  <2> QED
    BY <2>1, ConcatEmptySeq, EmptySeq DEF Queue
<1> QED
  BY <1>1 DEF Service!Stop, Queue, Front, Dropped

\* Every step of the actor is a step of the service or invisible to it.
LEMMA StepRefines ==
  ASSUME TypeOK, HandlerInv, [Next]_vars
  PROVE  [Service!Next]_(Service!vars)
<1> USE DEF vars, handlerVars, clientVars, childVars
<1>1. ASSUME NEW c \in Calls, Call(c) PROVE Service!Accept(c)
  <2>1. CASE phase = "stopped"
    BY <1>1, <2>1 DEF Call, Blocked, Service!Accept
  <2>2. CASE phase # "stopped"
    <3>1. Front' = Front /\ mailbox' = Append(mailbox, c)
      BY <1>1, <2>2 DEF Call, Front
    <3>2. Queue' = Append(Queue, c)
      BY <3>1, QueueAppend DEF Queue
    <3> QED
      BY <1>1, <2>2, <3>2 DEF Call, Blocked, Service!Accept, Queue, Front
  <2> QED
    BY <2>1, <2>2
<1>2. ASSUME NEW c \in Calls, Refuse(c) PROVE Service!Refuse(c)
  BY <1>2 DEF Refuse, Blocked, Service!Refuse
<1>3. ASSUME NEW c \in Calls, Abandon(c) PROVE Service!Abandon(c)
  BY <1>3 DEF Abandon, Service!Abandon
<1>m. ASSUME CanTake
      PROVE  /\ current = None /\ mailbox # <<>> /\ phase # "stopped"
             /\ Queue = mailbox /\ session # "closing"
             /\ Head(mailbox) \in Calls
  <2>1. current = None /\ mailbox # <<>> /\ phase # "stopped" /\ session # "closing"
    BY <1>m DEF CanTake, HandlerInv
  <2> QED
    BY <2>1, IdleQueue, QueueTake
<1>4. CASE TakeCached \/ TakeClosed
  <2>1. /\ current = None /\ mailbox # <<>> /\ phase # "stopped"
        /\ Queue = mailbox /\ session # "closing"
        /\ Head(mailbox) \in Calls
    BY <1>4, <1>m DEF TakeCached, TakeClosed
  <2>2. Queue' = Tail(Queue)
    <3>1. Front' = <<>> /\ mailbox' = Tail(mailbox) /\ Tail(mailbox) \in Seq(Calls)
      BY <1>4, <2>1, HeadTailProperties DEF TakeCached, TakeClosed, Front, TypeOK
    <3> QED
      BY <2>1, <3>1, ConcatEmptySeq DEF Queue
  <2>3. CASE TakeCached
    <3> DEFINE r == IF session = "open" THEN "ok" ELSE "default"
    <3>1. r \in Service!Replies(Kind[Head(Queue)]) /\ outcome' = Told(Head(Queue), r)
      BY <2>1, <2>3 DEF TakeCached, Service!Replies, TypeOK
    <3>2. (session' # "none") <=> (session # "none" /\ Kind[Head(Queue)] # "shutdown")
      BY <2>1, <2>3 DEF TakeCached
    <3>3. Service!Serve
      BY <2>1, <2>2, <2>3, <3>1, <3>2, Serves DEF TakeCached
    <3> QED
      BY <3>3 DEF Service!Next
  <2>4. CASE TakeClosed
    <3> DEFINE r == IF Kind[Head(mailbox)] = "shutdown" THEN "ok" ELSE "closed"
    <3>1. r \in Service!Replies(Kind[Head(Queue)]) /\ outcome' = Told(Head(Queue), r)
      BY <2>1, <2>4 DEF TakeClosed, Service!Replies
    <3>2. (session' # "none") <=> (session # "none" /\ Kind[Head(Queue)] # "shutdown")
      BY <2>1, <2>4 DEF TakeClosed
    <3>3. Service!Serve
      BY <2>1, <2>2, <2>4, <3>1, <3>2, Serves DEF TakeClosed
    <3> QED
      BY <3>3 DEF Service!Next
  <2> QED
    BY <1>4, <2>3, <2>4
<1>5. CASE TakeExchange
  <2>1. current = None /\ mailbox # <<>> /\ phase # "stopped" /\ Queue = mailbox
    BY <1>5, <1>m DEF TakeExchange
  <2>2. Queue' = Queue
    <3>1. Front' = <<Head(mailbox)>> /\ mailbox' = Tail(mailbox)
      BY <1>5, <2>1, QueueTake DEF TakeExchange, Begin, Front
    <3> QED
      BY <2>1, <3>1, QueueTake DEF Queue
  <2> QED
    BY <1>5, <2>1, <2>2, Invisible DEF TakeExchange, Begin
<1>6. CASE Send
  <2>1. current # None /\ phase # "stopped"
    BY <1>6 DEF Send, HandlerInv
  <2>2. CASE Proceed \/ Fail
    BY <1>6, <2>1, <2>2, AdvanceRefines DEF Send, Service!Next
  <2>3. CASE ~(Proceed \/ Fail)
    BY <1>6, <2>1, <2>3, Invisible DEF Send, Queue, Front
  <2> QED
    BY <2>2, <2>3
<1>7. CASE TimeOut
  BY <1>7, AdvanceRefines DEF TimeOut, HandlerInv, Service!Next
<1>8. CASE Reap \/ ReapFails
  <2>1. PICK r \in {"ok", "error"} : Close(r)
    BY <1>8 DEF Reap, ReapFails
  <2>2. /\ phase = "reap" /\ session = "closing" /\ current # None
        /\ KindOf(current) = "shutdown"
    BY <1>8 DEF Reap, ReapFails, HandlerInv
  <2>3. CASE current = PostStop
    BY <2>1, <2>2, <2>3, Stops DEF Close, Service!Next
  <2>4. CASE current # PostStop
    <3>1. current \in Calls /\ Kind[current] = "shutdown"
      BY <2>2, <2>4 DEF TypeOK, Owners, KindOf
    <3>2. Queue # <<>> /\ Head(Queue) = current /\ Tail(Queue) = mailbox
      BY <3>1, BusyQueue
    <3>3. Front' = <<>> /\ mailbox' = mailbox
      BY <2>1, <2>4 DEF Close, Front
    <3>4. Queue' = Tail(Queue)
      BY <3>2, <3>3, ConcatEmptySeq DEF Queue, TypeOK
    <3>5. r \in Service!Replies(Kind[Head(Queue)])
      BY <2>2 DEF Service!Replies
    <3>6. /\ outcome' = Told(Head(Queue), r)
          /\ (session' # "none") <=> (session # "none" /\ Kind[Head(Queue)] # "shutdown")
          /\ phase' # "stopped"
      BY <2>1, <2>2, <2>4, <3>1, <3>2 DEF Close
    <3>7. Service!Serve
      BY <2>2, <3>2, <3>4, <3>5, <3>6, Serves
    <3> QED
      BY <3>7 DEF Service!Next
  <2> QED
    BY <2>3, <2>4
<1>9. CASE Stop
  <2>1. current = None /\ phase # "stopped" /\ session # "closing"
    BY <1>9 DEF Stop, HandlerInv
  <2>2. CASE session = "open"
    <3>1. Front' = Front /\ mailbox' = mailbox /\ outcome' = outcome
      BY <1>9, <2>1, <2>2 DEF Stop, Begin, Front
    <3>2. Queue' = Queue
      BY <3>1 DEF Queue
    <3> QED
      BY <1>9, <2>1, <2>2, <3>1, <3>2, Invisible DEF Stop, Begin
  <2>3. CASE session # "open"
    <3>1. session' = "none" /\ current' = None
      BY <1>9, <2>1, <2>3 DEF Stop, TypeOK
    <3> QED
      BY <1>9, <2>1, <2>3, <3>1, Stops DEF Stop, Service!Next
  <2> QED
    BY <2>2, <2>3
<1>10. CASE Kill
  BY <1>10, Stops DEF Kill, Service!Next
<1>11. ASSUME NEW a \in answers, Receive(a) PROVE [Service!Next]_(Service!vars)
  <2>1. a.value \in {"value", "null", "error"}
    BY <1>11 DEF Answers, TypeOK
  <2>2. CASE phase = "await" /\ a.to = Message(current, step)
    BY <1>11, <2>1, <2>2, AdvanceRefines DEF Receive, HandlerInv, Service!Next
  <2>3. CASE ~(phase = "await" /\ a.to = Message(current, step))
    BY <1>11, <2>3, Invisible DEF Receive, Queue, Front
  <2> QED
    BY <2>2, <2>3
<1>12. CASE Disconnect
  <2>1. CASE phase = "await"
    BY <1>12, <2>1, AdvanceRefines DEF Disconnect, HandlerInv, Service!Next
  <2>2. CASE phase # "await"
    BY <1>12, <2>2, Invisible DEF Disconnect, Queue, Front
  <2> QED
    BY <2>1, <2>2
<1>13. ASSUME NEW m \in busy, NEW v \in AnswerValues(m), Answer(m, v)
       PROVE  UNCHANGED Service!vars
  BY <1>13, Invisible DEF Answer, Queue, Front
<1>14. CASE SignalStop \/ Transmit \/ Exit \/ UNCHANGED vars
  BY <1>14, Invisible DEF SignalStop, Transmit, Exit, Queue, Front
<1> QED
  BY <1>1, <1>2, <1>3, <1>4, <1>5, <1>6, <1>7, <1>8, <1>9, <1>10, <1>11, <1>12,
     <1>13, <1>14 DEF Next, Handler, Service!Next

------------------------------------------------------------------------------
\* The actor is a serial service: a call is answered at most once, in its turn,
\* from rust-analyzer only while the session is open, and is never lost.
THEOREM ActorIsSerialService == Spec => ServiceSafety
<1>1. Init => Service!Init
  <2>1. Init => Queue = <<>>
    BY ConcatEmptySeq, EmptySeq DEF Init, Queue, Front
  <2> QED
    BY <2>1 DEF Init, Service!Init, Queue, Front
<1>2. IndInv /\ [Next]_vars => [Service!Next]_(Service!vars)
  BY StepRefines DEF IndInv
<1> QED
  BY <1>1, <1>2, Inductive, PTL DEF Spec, ServiceSafety, Service!SafeSpec
==============================================================================
