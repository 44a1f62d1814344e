---------------------------- MODULE TeeProxyProofs ----------------------------
(***************************************************************************)
(* Proofs about TeeProxy, for any number of messages and notifications:    *)
(* the editor hears of nothing before the answer to its `initialize`, and  *)
(* gets its replies in order, none left out, and all of them if the        *)
(* session ends without an error.                                          *)
(*                                                                         *)
(* The argument is about Stdout, what is written followed by what is       *)
(* queued: only the loop and the events task add to it, at its end; the    *)
(* writer moves items inside it, and drops its tail when it fails.         *)
(***************************************************************************)
EXTENDS TeeProxy, SequenceTheorems, TLAPS

------------------------------------------------------------------------------
\* The parts of the inductive invariant.

\* Replies are those of messages read, in the order of the messages, without a gap.
Ordered(items, ids) ==
  \A i \in DOMAIN items : items[i].kind # "event" =>
    LET id == items[i].id IN
    /\ id \in ids
    /\ \A j \in 1..(i - 1) : items[j].kind # "event" => items[j].id < id
    /\ \A earlier \in ids : earlier < id => \E j \in RepliesTo(items, earlier) : j < i

\* Notifications come after the answer to `initialize`.
Followed(items) ==
  \A i \in DOMAIN items : items[i].kind = "event" =>
    \E j \in 1..(i - 1) : items[j].kind = "initialize"

\* The call that runs is that of the last message, and everything replied to came
\* before it.
CallInv ==
  /\ \A id \in owed : id <= arrived
  /\ step = "calling" =>
       /\ current.kind \in Asking
       /\ current.id = arrived
       /\ current.id \in owed <=> current.kind # "notification"
       /\ RepliesTo(Stdout, current.id) = {}

\* Unless stdout is broken, every request read has its reply on the way, but for the one
\* whose call runs.
CompleteInv ==
  writer # "failed" /\ step # "returned" =>
    \A id \in owed : RepliesTo(Stdout, id) # {} \/ (step = "calling" /\ id = current.id)

\* The stream of notifications is opened after the answer to `initialize` is queued.
StreamInv ==
  events # "none" /\ writer = "running" => \E j \in DOMAIN Stdout : Stdout[j].kind = "initialize"

\* The writer ends with an empty queue, and only once the loop has.
WriterInv ==
  /\ writer # "running" => out = <<>>
  /\ writer = "finished" => step \in {"draining", "stopping", "returned"}
  /\ step = "stopping" => writer # "running" /\ (writer = "failed" => proxied # "ok")

ProxyInv ==
  /\ Ordered(Stdout, owed)
  /\ Followed(Stdout)
  /\ CallInv
  /\ CompleteInv
  /\ StreamInv
  /\ WriterInv

IndInv == TypeOK /\ ProxyInv

------------------------------------------------------------------------------
\* Facts about sequences of items.

LEMMA IdsAreNumbers == \A id \in Ids : id \in Nat
BY MaxAssumption DEF Ids

\* What an item at the end changes.
LEMMA AtTheEnd ==
  ASSUME NEW S, NEW s \in Seq(S), NEW x \in S
  PROVE  /\ Append(s, x) \in Seq(S)
         /\ Len(s) \in Nat /\ DOMAIN s = 1..Len(s)
         /\ DOMAIN Append(s, x) = 1..(Len(s) + 1)
         /\ Append(s, x)[Len(s) + 1] = x
         /\ \A i \in 1..Len(s) : Append(s, x)[i] = s[i]
         /\ \A i \in 1..(Len(s) + 1) : i = Len(s) + 1 \/ i \in 1..Len(s)
OBVIOUS

\* Stdout is written and, after it, out.
LEMMA StdoutParts ==
  ASSUME TypeOK
  PROVE  /\ Stdout \in Seq(Items)
         /\ Len(written) \in Nat /\ DOMAIN written = 1..Len(written)
         /\ DOMAIN Stdout = 1..(Len(written) + Len(out))
         /\ \A i \in 1..Len(written) : i \in DOMAIN Stdout /\ Stdout[i] = written[i]
         /\ out = <<>> => Stdout = written
<1>1. written \in Seq(Items) /\ out \in Seq(Items)
  BY DEF TypeOK
<1> QED
  BY <1>1 DEF Stdout

\* Writing the oldest queued item changes nothing.
LEMMA WritingKeeps ==
  ASSUME NEW S, NEW w \in Seq(S), NEW q \in Seq(S), q # <<>>
  PROVE  Append(w, Head(q)) \o Tail(q) = w \o q
<1> DEFINE a == Append(w, Head(q)) \o Tail(q)
           b == w \o q
<1>1. /\ Head(q) \in S /\ Tail(q) \in Seq(S) /\ Len(q) \in Nat \ {0} /\ Len(w) \in Nat
      /\ Len(Tail(q)) = Len(q) - 1
      /\ Head(q) = q[1] /\ \A i \in 1..(Len(q) - 1) : Tail(q)[i] = q[i + 1]
  OBVIOUS
<1>2. a \in Seq(S) /\ b \in Seq(S)
  BY <1>1
<1>3. Len(a) = Len(w) + Len(q) /\ Len(b) = Len(w) + Len(q)
  BY <1>1
<1>4. ASSUME NEW i \in 1..(Len(w) + Len(q)) PROVE a[i] = b[i]
  <2>1. b[i] = IF i <= Len(w) THEN w[i] ELSE q[i - Len(w)]
    BY <1>1
  <2>2. CASE i <= Len(w)
    BY <1>1, <2>1, <2>2
  <2>3. CASE i = Len(w) + 1
    BY <1>1, <2>1, <2>3
  <2>4. CASE i > Len(w) + 1
    <3>1. a[i] = Tail(q)[i - (Len(w) + 1)] /\ i - (Len(w) + 1) \in 1..(Len(q) - 1)
      BY <1>1, <2>4
    <3>2. Tail(q)[i - (Len(w) + 1)] = q[i - (Len(w) + 1) + 1]
      BY <1>1, <3>1
    <3>3. i - (Len(w) + 1) + 1 = i - Len(w)
      BY <1>1
    <3> QED
      BY <1>1, <2>1, <2>4, <3>1, <3>2, <3>3
  <2> QED
    BY <1>1, <2>2, <2>3, <2>4
<1> HIDE DEF a, b
<1>5. a = b
  BY <1>2, <1>3, <1>4, SeqEqual
<1> QED
  BY <1>5 DEF a, b

\* Queueing an item adds it at the end of Stdout.
LEMMA QueueingAppends ==
  ASSUME NEW S, NEW w \in Seq(S), NEW q \in Seq(S), NEW x \in S
  PROVE  w \o Append(q, x) = Append(w \o q, x)
BY AppendIsConcat, ConcatAssociative, ConcatProperties, AppendProperties

------------------------------------------------------------------------------
\* Replies.

\* A reply to a request newer than all those replied to, when these have all their
\* replies, goes to the end.
LEMMA OrderedAppend ==
  ASSUME NEW s \in Seq(Items), NEW ids \in SUBSET Nat, NEW x \in Items,
         Ordered(s, ids), x.id \in ids,
         \A id \in ids : id <= x.id,
         \A id \in ids : id # x.id => RepliesTo(s, id) # {},
         RepliesTo(s, x.id) = {}
  PROVE  Ordered(Append(s, x), ids)
<1> DEFINE n == Len(s)
           t == Append(s, x)
<1>1. /\ n \in Nat /\ DOMAIN s = 1..n /\ DOMAIN t = 1..(n + 1) /\ t[n + 1] = x
      /\ \A i \in 1..n : t[i] = s[i]
      /\ \A i \in 1..(n + 1) : i = n + 1 \/ i \in 1..n
  BY AtTheEnd
<1> HIDE DEF n, t
<1>2. \A id \in ids : RepliesTo(s, id) \subseteq RepliesTo(t, id)
  BY <1>1 DEF RepliesTo
<1>3. SUFFICES ASSUME NEW i \in 1..(n + 1), t[i].kind # "event"
               PROVE  /\ t[i].id \in ids
                      /\ \A j \in 1..(i - 1) : t[j].kind # "event" => t[j].id < t[i].id
                      /\ \A earlier \in ids : earlier < t[i].id =>
                           \E j \in RepliesTo(t, earlier) : j < i
  BY <1>1 DEF Ordered, t
<1>4. CASE i \in 1..n
  <2>1. \A j \in 1..(i - 1) : j \in 1..n
    BY <1>1, <1>4
  <2>2. /\ s[i].kind # "event" /\ s[i].id = t[i].id
        /\ s[i].id \in ids
        /\ \A j \in 1..(i - 1) : s[j].kind # "event" => s[j].id < s[i].id
        /\ \A earlier \in ids : earlier < s[i].id => \E j \in RepliesTo(s, earlier) : j < i
    BY <1>1, <1>3, <1>4 DEF Ordered
  <2> QED
    BY <1>1, <1>2, <2>1, <2>2
<1>5. CASE i = n + 1
  <2>1. \A j \in 1..(i - 1) : j \in 1..n
    BY <1>1, <1>5
  <2>2. ASSUME NEW j \in 1..n, s[j].kind # "event" PROVE s[j].id < x.id
    <3>1. s[j].id \in ids
      BY <1>1, <2>2 DEF Ordered
    <3>2. s[j].id # x.id
      BY <1>1, <2>2 DEF RepliesTo
    <3>3. s[j].id \in Nat /\ x.id \in Nat /\ s[j].id <= x.id
      BY <3>1
    <3> QED
      BY <3>2, <3>3
  <2>3. ASSUME NEW earlier \in ids, earlier < x.id
        PROVE  \E j \in RepliesTo(t, earlier) : j < i
    <3>1. earlier # x.id
      BY <2>3
    <3>2. PICK j \in RepliesTo(s, earlier) : TRUE
      BY <3>1
    <3>3. j \in 1..n /\ j \in RepliesTo(t, earlier)
      BY <1>1, <1>2, <3>2 DEF RepliesTo
    <3> QED
      BY <1>1, <1>5, <3>3
  <2> QED
    BY <1>1, <1>5, <2>1, <2>2, <2>3
<1> QED
  BY <1>1, <1>4, <1>5

\* A notification at the end is no reply.
LEMMA EventAppend ==
  ASSUME NEW s \in Seq(Items), NEW ids \in SUBSET Nat, NEW x \in Items, x.kind = "event"
  PROVE  /\ \A id \in Nat : RepliesTo(Append(s, x), id) = RepliesTo(s, id)
         /\ Ordered(s, ids) => Ordered(Append(s, x), ids)
<1> DEFINE n == Len(s)
           t == Append(s, x)
<1>1. /\ n \in Nat /\ DOMAIN s = 1..n /\ DOMAIN t = 1..(n + 1) /\ t[n + 1] = x
      /\ \A i \in 1..n : t[i] = s[i]
      /\ \A i \in 1..(n + 1) : i = n + 1 \/ i \in 1..n
      /\ \A i \in 1..n : i \in 1..(n + 1)
  BY AtTheEnd
<1> HIDE DEF n, t
<1>2. \A id \in Nat : RepliesTo(t, id) = RepliesTo(s, id)
  BY <1>1 DEF RepliesTo
<1>3. ASSUME Ordered(s, ids), NEW i \in 1..(n + 1), t[i].kind # "event"
      PROVE  /\ t[i].id \in ids
             /\ \A j \in 1..(i - 1) : t[j].kind # "event" => t[j].id < t[i].id
             /\ \A earlier \in ids : earlier < t[i].id => \E j \in RepliesTo(t, earlier) : j < i
  <2>1. i \in 1..n /\ \A j \in 1..(i - 1) : j \in 1..n
    BY <1>1, <1>3
  <2>2. /\ s[i].kind # "event" /\ s[i].id = t[i].id
        /\ s[i].id \in ids
        /\ \A j \in 1..(i - 1) : s[j].kind # "event" => s[j].id < s[i].id
        /\ \A earlier \in ids : earlier < s[i].id => \E j \in RepliesTo(s, earlier) : j < i
    BY <1>1, <1>3, <2>1 DEF Ordered
  <2> QED
    BY <1>1, <1>2, <2>1, <2>2
<1> QED
  BY <1>1, <1>2, <1>3 DEF Ordered, t

\* A new request is newer than everything replied to.
LEMMA OrderedNew ==
  ASSUME NEW s \in Seq(Items), NEW ids \in SUBSET Nat, NEW new \in Nat,
         Ordered(s, ids), \A id \in ids : id < new
  PROVE  Ordered(s, ids \cup {new}) /\ RepliesTo(s, new) = {}
<1>1. ASSUME NEW i \in DOMAIN s, s[i].kind # "event"
      PROVE  s[i].id \in ids /\ s[i].id < new
  BY <1>1 DEF Ordered
<1>2. RepliesTo(s, new) = {}
  <2> SUFFICES ASSUME NEW i \in DOMAIN s, s[i].kind # "event", s[i].id = new PROVE FALSE
    BY DEF RepliesTo
  <2>1. s[i].id \in Nat /\ s[i].id < new
    BY <1>1
  <2> QED
    BY <2>1
<1>3. Ordered(s, ids \cup {new})
  <2> SUFFICES ASSUME NEW i \in DOMAIN s, s[i].kind # "event"
               PROVE  \A earlier \in ids \cup {new} : earlier < s[i].id =>
                        \E j \in RepliesTo(s, earlier) : j < i
    BY <1>1 DEF Ordered
  <2>1. s[i].id \in Nat /\ s[i].id < new
    BY <1>1
  <2>2. ~(new < s[i].id)
    BY <2>1
  <2> QED
    BY <2>2 DEF Ordered
<1> QED
  BY <1>2, <1>3

\* What holds of Stdout holds of what is written of it.
LEMMA PrefixKeeps ==
  ASSUME NEW s \in Seq(Items), NEW t \in Seq(Items), NEW ids,
         \A i \in DOMAIN t : i \in DOMAIN s /\ t[i] = s[i]
  PROVE  /\ Ordered(s, ids) => Ordered(t, ids)
         /\ Followed(s) => Followed(t)
<1>1. \A i \in DOMAIN t : \A j \in 1..(i - 1) : j \in DOMAIN t
  OBVIOUS
<1>2. \A id \in ids : \A i \in DOMAIN t : \A j \in RepliesTo(s, id) :
        j < i => j \in RepliesTo(t, id)
  <2> SUFFICES ASSUME NEW id \in ids, NEW i \in DOMAIN t, NEW j \in RepliesTo(s, id), j < i
               PROVE  j \in RepliesTo(t, id)
    OBVIOUS
  <2>1. j \in DOMAIN s /\ s[j].kind # "event" /\ s[j].id = id
    BY DEF RepliesTo
  <2>2. j \in 1..(i - 1)
    BY <2>1
  <2>3. j \in DOMAIN t
    BY <1>1, <2>2
  <2> QED
    BY <2>1, <2>3 DEF RepliesTo
<1>3. ASSUME Followed(s) PROVE Followed(t)
  BY <1>1, <1>3 DEF Followed
<1>4. ASSUME Ordered(s, ids), NEW i \in DOMAIN t, t[i].kind # "event"
      PROVE  /\ t[i].id \in ids
             /\ \A j \in 1..(i - 1) : t[j].kind # "event" => t[j].id < t[i].id
             /\ \A earlier \in ids : earlier < t[i].id => \E j \in RepliesTo(t, earlier) : j < i
  <2>1. /\ s[i].id = t[i].id /\ s[i].id \in ids
        /\ \A j \in 1..(i - 1) : s[j].kind # "event" => s[j].id < s[i].id
        /\ \A earlier \in ids : earlier < s[i].id => \E j \in RepliesTo(s, earlier) : j < i
    BY <1>4 DEF Ordered
  <2> QED
    BY <1>1, <1>2, <2>1
<1> QED
  BY <1>3, <1>4 DEF Ordered


------------------------------------------------------------------------------
\* Types.

LEMMA NumberTypes ==
  /\ \A n \in 0..MaxMessages : n \in Ids /\ n \in Nat
  /\ \A n \in 0..MaxMessages : n < MaxMessages => n + 1 \in 0..MaxMessages /\ n + 1 \in Ids
  /\ \A n \in 0..MaxEvents : n < MaxEvents => n + 1 \in 0..MaxEvents /\ n + 1 \in Ids
BY MaxAssumption DEF Ids

LEMMA InitTypes == Init => TypeOK
<1> SUFFICES ASSUME Init PROVE TypeOK
  OBVIOUS
<1>1. arrived \in 0..MaxMessages /\ streamed \in 0..MaxEvents
  BY MaxAssumption DEF Init
<1>2. current \in [kind : Asking \cup {"none"}, id : Ids]
  BY MaxAssumption DEF Init, NoMessage, Ids
<1>3. owed \subseteq Ids /\ out \in Seq(Items) /\ written \in Seq(Items)
  BY DEF Init
<1> QED
  BY <1>1, <1>2, <1>3 DEF Init, TypeOK

\* What is read, and what is answered, is of the right kind.
LEMMA LoopTypes ==
  ASSUME TypeOK, CallInv,
         ReadIgnored \/ ReadShutdown \/ Answered \/ \E kind \in Asking : ReadForwarded(kind)
  PROVE  TypeOK'
<1> USE DEF eventVars, outVars, serverVars, Queued
<1>1. arrived \in 0..MaxMessages /\ out \in Seq(Items) /\ owed \subseteq Ids
  BY DEF TypeOK
<1>2. CASE ReadIgnored
  BY <1>2, NumberTypes DEF ReadIgnored, TypeOK
<1>3. CASE ReadShutdown
  <2>1. arrived' \in 0..MaxMessages /\ arrived' \in Ids
    BY <1>1, <1>3, NumberTypes DEF ReadShutdown
  <2>2. [kind |-> "reply", id |-> arrived'] \in Items
    BY <2>1 DEF Items
  <2>3. out' \in Seq(Items) /\ owed' \subseteq Ids
    BY <1>1, <1>3, <2>1, <2>2 DEF ReadShutdown
  <2>4. UNCHANGED <<step, current, events, streamed, written, writer, server, stop, proxied>>
    BY <1>3 DEF ReadShutdown
  <2> QED
    BY <2>1, <2>3, <2>4 DEF TypeOK
<1>4. ASSUME NEW kind \in Asking, ReadForwarded(kind) PROVE TypeOK'
  <2>1. arrived' \in 0..MaxMessages /\ arrived' \in Ids
    BY <1>1, <1>4, NumberTypes DEF ReadForwarded
  <2>2. owed' \subseteq Ids /\ step' = "calling"
    BY <1>1, <1>4, <2>1 DEF ReadForwarded
  <2>3. current' = [kind |-> kind, id |-> arrived']
    BY <1>4 DEF ReadForwarded
  <2>4. current' \in [kind : Asking \cup {"none"}, id : Ids] /\ current' # NoMessage
    BY <2>1, <2>3 DEF Asking, NoMessage
  <2>5. UNCHANGED <<events, streamed, out, written, writer, server, stop, proxied>>
    BY <1>4 DEF ReadForwarded
  <2> QED
    BY <2>1, <2>2, <2>4, <2>5 DEF TypeOK
<1>5. CASE Answered
  <2>1. current.kind \in Asking /\ current.id \in Ids
    BY <1>5 DEF Answered, CallInv, TypeOK
  <2>2. Reply \in Items
    BY <2>1 DEF Reply, Items
  <2>3. out' \in Seq(Items)
    BY <1>1, <1>5, <2>2 DEF Answered
  <2>4. current' \in [kind : Asking \cup {"none"}, id : Ids]
    BY <1>5, MaxAssumption DEF Answered, NoMessage, Ids
  <2>5. events' \in {"none", "subscribing", "streaming", "ended"} /\ step' = "reading"
    BY <1>5 DEF Answered, TypeOK
  <2>6. UNCHANGED <<arrived, owed, streamed, written, writer, server, stop, proxied>>
    BY <1>5 DEF Answered
  <2> QED
    BY <2>3, <2>4, <2>5, <2>6 DEF TypeOK
<1> QED
  BY <1>2, <1>3, <1>4, <1>5

LEMMA StepTypes ==
  ASSUME TypeOK, CallInv, [Next]_vars
  PROVE  TypeOK'
<1> USE DEF loopVars, eventVars, outVars, serverVars
<1>1. CASE ReadIgnored \/ ReadShutdown \/ Answered \/ \E kind \in Asking : ReadForwarded(kind)
  BY <1>1, LoopTypes
<1>2. CASE Connect \/ AbortEvents \/ Return
  BY <1>2 DEF Connect, AbortEvents, Return, TypeOK
<1>3. CASE JoinWriter \/ \E outcome \in {"ok", "error"} : EditorEnds(outcome)
  <2>1. CASE JoinWriter
    BY <2>1, SMTT(30) DEF JoinWriter, TypeOK
  <2>2. ASSUME NEW outcome \in {"ok", "error"}, EditorEnds(outcome) PROVE TypeOK'
    BY <2>2, SMTT(30) DEF EditorEnds, TypeOK
  <2> QED
    BY <1>3, <2>1, <2>2
<1>4. CASE Subscribed \/ EventsEnd \/ WriterEnds
  BY <1>4 DEF Subscribed, EventsEnd, WriterEnds, TypeOK
<1>9. CASE Server \/ ServerFails
  BY <1>9 DEF Server, ServerBinds, ServerDrains, ServerStops, ServerFails, TypeOK
<1>10. CASE Signal
  BY <1>10 DEF Signal, TypeOK
<1>5. CASE ForwardEvent
  <2>1. streamed' \in 0..MaxEvents /\ streamed' \in Ids
    BY <1>5, NumberTypes DEF ForwardEvent, TypeOK
  <2>2. [kind |-> "event", id |-> streamed'] \in Items
    BY <2>1 DEF Items
  <2>3. out' \in Seq(Items)
    BY <1>5, <2>2 DEF ForwardEvent, Queued, TypeOK
  <2>4. events' \in {"none", "subscribing", "streaming", "ended"}
    BY <1>5 DEF ForwardEvent, TypeOK
  <2>5. UNCHANGED <<step, current, arrived, owed, written, writer, server, stop, proxied>>
    BY <1>5 DEF ForwardEvent
  <2> QED
    BY <2>1, <2>3, <2>4, <2>5 DEF TypeOK
<1>6. CASE Write
  <2>1. out \in Seq(Items) /\ written \in Seq(Items) /\ out # <<>>
    BY <1>6 DEF Write, TypeOK
  <2>2. out' \in Seq(Items) /\ written' \in Seq(Items)
    BY <1>6, <2>1 DEF Write
  <2>3. UNCHANGED <<loopVars, eventVars, writer, serverVars, proxied>>
    BY <1>6 DEF Write
  <2> QED
    BY <2>2, <2>3 DEF TypeOK
<1>7. CASE WriteFails
  BY <1>7 DEF WriteFails, TypeOK
<1>8. CASE UNCHANGED vars
  BY <1>8 DEF vars, TypeOK
<1> QED
  BY <1>1, <1>2, <1>3, <1>4, <1>5, <1>6, <1>7, <1>8, <1>9, <1>10 DEF Next, Loop, Writer

------------------------------------------------------------------------------
\* The inductive invariant.

LEMMA InitInv == Init => IndInv
<1> SUFFICES ASSUME Init PROVE ProxyInv
  BY InitTypes DEF IndInv
<1>1. Stdout = <<>>
  BY DEF Init, Stdout
<1>2. Ordered(Stdout, owed) /\ Followed(Stdout)
  BY <1>1 DEF Ordered, Followed
<1> QED
  BY <1>2 DEF Init, ProxyInv, CallInv, CompleteInv, StreamInv, WriterInv

\* A step that leaves stdout and the requests alone, but for the writer's own moves.
LEMMA QuietInv ==
  ASSUME IndInv, Stdout' = Stdout, owed' = owed, CallInv', WriterInv',
         writer' = writer \/ (writer = "running" /\ writer' = "finished"),
         writer = "running" =>
           /\ events' # "none" => events # "none"
           /\ step = "calling" /\ current.kind # "notification" /\ step' # "returned" =>
                step' = "calling" /\ current' = current,
         step = "returned" => step' = "returned"
  PROVE  ProxyInv'
<1>1. Ordered(Stdout', owed') /\ Followed(Stdout')
  BY DEF IndInv, ProxyInv
<1>2. CompleteInv'
  <2> SUFFICES ASSUME writer' # "failed", step' # "returned", NEW id \in owed'
               PROVE  RepliesTo(Stdout', id) # {} \/ (step' = "calling" /\ id = current'.id)
    BY DEF CompleteInv
  <2>1. RepliesTo(Stdout, id) # {} \/ (step = "calling" /\ id = current.id)
    BY DEF IndInv, ProxyInv, CompleteInv
  <2>2. step = "calling" /\ id = current.id => writer = "running" /\ current.kind # "notification"
    BY DEF IndInv, TypeOK, ProxyInv, CallInv, WriterInv
  <2> QED
    BY <2>1, <2>2
<1>3. StreamInv'
  BY DEF IndInv, ProxyInv, StreamInv
<1> QED
  BY <1>1, <1>2, <1>3 DEF ProxyInv

\* The loop's own steps that queue no reply.
LEMMA LoopInv ==
  ASSUME IndInv,
         \/ Connect \/ ReadIgnored \/ AbortEvents \/ JoinWriter \/ Return
         \/ \E outcome \in {"ok", "error"} : EditorEnds(outcome)
         \/ Answered /\ (current.kind = "notification" \/ writer # "running")
  PROVE  ProxyInv'
<1> USE DEF eventVars, outVars, serverVars, Queued
<1>1. UNCHANGED <<written, out, owed, writer>>
  BY DEF Connect, ReadIgnored, AbortEvents, JoinWriter, Return, EditorEnds, Answered
<1>2. Stdout' = Stdout
  BY <1>1 DEF Stdout
<1>3. /\ arrived' \in {arrived, arrived + 1} /\ arrived \in Nat
      /\ step' = "calling" => step = "calling" /\ arrived' = arrived /\ current' = current
  BY NumberTypes DEF Connect, ReadIgnored, AbortEvents, JoinWriter, Return, EditorEnds, Answered,
                     IndInv, TypeOK
<1>4. CallInv'
  BY <1>1, <1>2, <1>3, IdsAreNumbers DEF IndInv, TypeOK, ProxyInv, CallInv
<1>5. WriterInv'
  BY <1>1 DEF Connect, ReadIgnored, AbortEvents, JoinWriter, Return, EditorEnds, Answered, IndInv,
              TypeOK, ProxyInv, WriterInv
<1>6. writer = "running" =>
        /\ events' # "none" => events # "none"
        /\ step = "calling" /\ current.kind # "notification" /\ step' # "returned" =>
             step' = "calling" /\ current' = current
  BY DEF Connect, ReadIgnored, AbortEvents, JoinWriter, Return, EditorEnds, Answered, IndInv,
         ProxyInv, CallInv, Asking
<1>7. step = "returned" => step' = "returned"
  BY DEF Connect, ReadIgnored, AbortEvents, JoinWriter, Return, EditorEnds, Answered
<1> QED
  BY <1>1, <1>2, <1>4, <1>5, <1>6, <1>7, QuietInv

\* The steps of the others that queue nothing.
LEMMA OthersInv ==
  ASSUME IndInv,
         \/ Subscribed \/ EventsEnd \/ Server \/ ServerFails \/ Signal \/ Write \/ WriterEnds
         \/ UNCHANGED vars
         \/ ForwardEvent /\ writer # "running"
  PROVE  ProxyInv'
<1> USE DEF loopVars, eventVars, outVars, serverVars, Server
<1>1. UNCHANGED <<step, current, arrived, owed, proxied>>
  BY DEF Subscribed, EventsEnd, ServerBinds, ServerDrains, ServerStops, ServerFails, Signal, Write,
         WriterEnds, ForwardEvent, vars
<1>2. \/ UNCHANGED <<written, out>>
      \/ out # <<>> /\ written' = Append(written, Head(out)) /\ out' = Tail(out)
  BY DEF Subscribed, EventsEnd, ServerBinds, ServerDrains, ServerStops, ServerFails, Signal, Write,
         WriterEnds, ForwardEvent, Queued, vars
<1>3. Stdout' = Stdout
  <2>1. written \in Seq(Items) /\ out \in Seq(Items)
    BY DEF IndInv, TypeOK
  <2>2. CASE UNCHANGED <<written, out>>
    BY <2>2 DEF Stdout
  <2>3. CASE out # <<>> /\ written' = Append(written, Head(out)) /\ out' = Tail(out)
    BY <2>1, <2>3, WritingKeeps DEF Stdout
  <2> QED
    BY <1>2, <2>2, <2>3
<1>4. /\ writer' = writer \/ (writer = "running" /\ writer' = "finished" /\ step = "draining")
      /\ writer' # "running" /\ writer = "running" => out' = <<>>
      /\ writer # "running" => out' = out
  BY DEF Subscribed, EventsEnd, ServerBinds, ServerDrains, ServerStops, ServerFails, Signal, Write,
         WriterEnds, ForwardEvent, Queued, vars
<1>5. writer = "running" /\ events' # "none" => events # "none"
  BY DEF Subscribed, EventsEnd, ServerBinds, ServerDrains, ServerStops, ServerFails, Signal, Write,
         WriterEnds, ForwardEvent, vars
<1>6. CallInv'
  BY <1>1, <1>3 DEF IndInv, ProxyInv, CallInv
<1>7. WriterInv'
  BY <1>1, <1>4 DEF IndInv, ProxyInv, WriterInv
<1> QED
  BY <1>1, <1>3, <1>4, <1>5, <1>6, <1>7, QuietInv

\* A new message is newer than all requests.
LEMMA NewMessage ==
  ASSUME IndInv, arrived' = arrived + 1
  PROVE  /\ owed \subseteq Nat /\ arrived' \in Nat
         /\ \A id \in owed : id < arrived'
         /\ Ordered(Stdout, owed \cup {arrived'})
         /\ RepliesTo(Stdout, arrived') = {}
<1>1. owed \subseteq Nat /\ arrived \in Nat /\ arrived' \in Nat
  BY IdsAreNumbers, NumberTypes DEF IndInv, TypeOK
<1>2. \A id \in owed : id < arrived'
  BY <1>1 DEF IndInv, ProxyInv, CallInv
<1>3. Stdout \in Seq(Items) /\ Ordered(Stdout, owed)
  BY StdoutParts DEF IndInv, ProxyInv
<1> QED
  BY <1>1, <1>2, <1>3, OrderedNew

LEMMA ReadForwardedInv ==
  ASSUME IndInv, NEW kind \in Asking, ReadForwarded(kind)
  PROVE  ProxyInv'
<1>1. /\ step = "reading" /\ step' = "calling" /\ arrived' = arrived + 1
      /\ owed' = IF kind \in Requests THEN owed \cup {arrived'} ELSE owed
      /\ current' = [kind |-> kind, id |-> arrived']
      /\ UNCHANGED <<events, out, written, writer, proxied>>
  BY DEF ReadForwarded, eventVars, outVars
<1>2. Stdout' = Stdout
  BY <1>1 DEF Stdout
<1>3. /\ owed \subseteq Nat /\ arrived' \in Nat
      /\ \A id \in owed : id < arrived'
      /\ Ordered(Stdout, owed \cup {arrived'})
      /\ RepliesTo(Stdout, arrived') = {}
  BY <1>1, NewMessage
<1>4. Ordered(Stdout', owed') /\ Followed(Stdout')
  BY <1>1, <1>2, <1>3 DEF IndInv, ProxyInv
<1>5. current'.id = arrived' /\ current'.kind = kind
  BY <1>1
<1>6. CallInv'
  <2>1. \A id \in owed' : id <= arrived'
    BY <1>1, <1>3
  <2>2. current'.id \in owed' <=> kind # "notification"
    BY <1>1, <1>3, <1>5 DEF Asking, Requests
  <2> QED
    BY <1>2, <1>3, <1>5, <2>1, <2>2 DEF CallInv
<1>7. CompleteInv'
  BY <1>1, <1>2, <1>5 DEF IndInv, ProxyInv, CompleteInv
<1>8. StreamInv' /\ WriterInv'
  BY <1>1, <1>2 DEF IndInv, ProxyInv, StreamInv, WriterInv
<1> QED
  BY <1>4, <1>6, <1>7, <1>8 DEF ProxyInv

\* A reply that is queued: to `shutdown`, or to the request whose call has returned.
LEMMA ReplyInv ==
  ASSUME IndInv, writer = "running", NEW x \in Items, x.kind # "event", x.id \in Nat,
         out' = Append(out, x), UNCHANGED <<written, writer, proxied>>,
         owed \subseteq Nat, owed' = owed \cup {x.id},
         \A id \in owed : id <= x.id,
         \A id \in owed : id # x.id => RepliesTo(Stdout, id) # {},
         RepliesTo(Stdout, x.id) = {},
         Ordered(Stdout, owed'),
         x.id <= arrived', arrived' \in Nat,
         events' # "none" => events # "none" \/ x.kind = "initialize",
         step' = "reading"
  PROVE  ProxyInv'
<1> DEFINE s == Stdout
           n == Len(s)
           t == Append(s, x)
<1>1. Stdout' = t
  BY SMTT(45), QueueingAppends DEF Stdout, IndInv, TypeOK
<1>2. s \in Seq(Items)
  BY StdoutParts DEF IndInv
<1>3. /\ n \in Nat /\ DOMAIN s = 1..n /\ DOMAIN t = 1..(n + 1) /\ t[n + 1] = x
      /\ \A i \in 1..n : t[i] = s[i]
      /\ \A i \in 1..(n + 1) : i = n + 1 \/ i \in 1..n
  BY <1>2, AtTheEnd
<1>4. Ordered(t, owed')
  <2>1. owed' \in SUBSET Nat /\ x.id \in owed'
    OBVIOUS
  <2>2. \A id \in owed' : id <= x.id
    OBVIOUS
  <2>3. \A id \in owed' : id # x.id => RepliesTo(s, id) # {}
    OBVIOUS
  <2> HIDE DEF s, t
  <2> QED
    BY <1>2, <2>1, <2>2, <2>3, OrderedAppend DEF s, t
<1>5. Followed(s)
  BY DEF IndInv, ProxyInv
<1> HIDE DEF s, n, t
<1>6. Followed(t)
  <2> SUFFICES ASSUME NEW i \in 1..(n + 1), t[i].kind = "event"
               PROVE  \E j \in 1..(i - 1) : t[j].kind = "initialize"
    BY <1>3 DEF Followed
  <2>1. i \in 1..n
    BY <1>3
  <2>2. PICK j \in 1..(i - 1) : s[j].kind = "initialize"
    BY <1>3, <1>5, <2>1 DEF Followed
  <2>3. j \in 1..n
    BY <1>3, <2>1
  <2> QED
    BY <1>3, <2>2, <2>3
<1>7. CallInv'
  <2>1. \A id \in owed' : id \in Nat /\ id <= arrived'
    OBVIOUS
  <2> QED
    BY <2>1 DEF CallInv
<1>8. CompleteInv'
  <2>1. n + 1 \in RepliesTo(t, x.id)
    BY <1>3 DEF RepliesTo
  <2>2. \A id \in owed : RepliesTo(s, id) \subseteq RepliesTo(t, id)
    BY <1>3 DEF RepliesTo
  <2>3. \A id \in owed' : RepliesTo(t, id) # {}
    BY <2>1, <2>2 DEF s
  <2> QED
    BY <1>1, <2>3 DEF CompleteInv
<1>9. StreamInv'
  <2>1. CASE x.kind = "initialize"
    BY <1>1, <1>3, <2>1 DEF StreamInv
  <2>2. CASE events # "none"
    <3>1. PICK j \in DOMAIN s : s[j].kind = "initialize"
      BY <2>2 DEF IndInv, ProxyInv, StreamInv, s
    <3>2. j \in DOMAIN t /\ t[j].kind = "initialize"
      BY <1>3, <3>1
    <3> QED
      BY <1>1, <3>2 DEF StreamInv
  <2> QED
    BY <2>1, <2>2 DEF StreamInv
<1>10. WriterInv'
  BY DEF WriterInv
<1> QED
  BY <1>1, <1>4, <1>6, <1>7, <1>8, <1>9, <1>10 DEF ProxyInv

LEMMA ReadShutdownInv ==
  ASSUME IndInv, ReadShutdown
  PROVE  ProxyInv'
<1> DEFINE x == [kind |-> "reply", id |-> arrived']
<1>1. /\ step = "reading" /\ step' = "reading" /\ arrived' = arrived + 1
      /\ owed' = owed \cup {arrived'} /\ out' = Queued(x)
      /\ UNCHANGED <<events, written, writer, proxied>>
  BY DEF ReadShutdown, eventVars
<1>2. /\ owed \subseteq Nat /\ arrived' \in Nat
      /\ \A id \in owed : id < arrived'
      /\ Ordered(Stdout, owed \cup {arrived'})
      /\ RepliesTo(Stdout, arrived') = {}
  BY <1>1, NewMessage
<1>3. CASE writer = "running"
  <2>1. arrived' \in Ids
    BY NumberTypes DEF IndInv, TypeOK, ReadShutdown
  <2>2. x \in Items /\ x.kind = "reply" /\ x.id = arrived'
    BY <2>1 DEF Items
  <2>3. \A id \in owed : RepliesTo(Stdout, id) # {}
    BY <1>1, <1>3 DEF IndInv, ProxyInv, CompleteInv
  <2>4. out' = Append(out, x)
    BY <1>1, <1>3 DEF Queued
  <2>5. /\ \A id \in owed : id <= x.id
        /\ owed' = owed \cup {x.id} /\ Ordered(Stdout, owed')
        /\ RepliesTo(Stdout, x.id) = {}
        /\ x.id <= arrived' /\ x.id \in Nat
    BY <1>1, <1>2, <2>2
  <2>6. step' = "reading" /\ UNCHANGED <<events, written, writer, proxied>>
    BY <1>1
  <2> HIDE DEF x
  <2> QED
    BY <1>2, <1>3, <2>2, <2>3, <2>4, <2>5, <2>6, ReplyInv
<1>4. CASE writer # "running"
  <2>1. UNCHANGED <<written, out>>
    BY <1>1, <1>4 DEF Queued
  <2>2. Stdout' = Stdout
    BY <2>1 DEF Stdout
  <2>3. Ordered(Stdout', owed') /\ Followed(Stdout')
    BY <1>1, <1>2, <2>2 DEF IndInv, ProxyInv
  <2>4. writer = "failed"
    BY <1>1, <1>4 DEF IndInv, TypeOK, ProxyInv, WriterInv
  <2>5. CallInv'
    <3>1. \A id \in owed' : id \in Nat /\ id <= arrived'
      BY <1>1, <1>2
    <3> QED
      BY <1>1, <3>1 DEF CallInv
  <2>6. CompleteInv' /\ StreamInv' /\ WriterInv'
    BY <1>1, <2>1, <2>4 DEF IndInv, ProxyInv, CompleteInv, StreamInv, WriterInv
  <2> QED
    BY <2>3, <2>5, <2>6 DEF ProxyInv
<1> QED
  BY <1>3, <1>4

LEMMA AnsweredInv ==
  ASSUME IndInv, Answered, current.kind # "notification", writer = "running"
  PROVE  ProxyInv'
<1> DEFINE x == Reply
<1>1. /\ step = "calling" /\ step' = "reading" /\ out' = Append(out, x)
      /\ events' = IF current.kind = "initialize" /\ events = "none" THEN "subscribing" ELSE events
      /\ UNCHANGED <<arrived, owed, written, writer, proxied>>
  BY DEF Answered, Queued
<1>2. /\ current.kind \in Asking /\ current.id = arrived /\ current.id \in owed
      /\ RepliesTo(Stdout, current.id) = {}
      /\ \A id \in owed : id <= arrived
  BY <1>1 DEF IndInv, ProxyInv, CallInv
<1>3. owed \subseteq Nat /\ arrived \in Nat /\ current.id \in Ids
  BY IdsAreNumbers, NumberTypes DEF IndInv, TypeOK
<1>4. x \in Items /\ x.kind = current.kind /\ x.kind # "event" /\ x.id = arrived
  BY <1>2, <1>3 DEF Reply, Items, Asking
<1>5. \A id \in owed : id # x.id => RepliesTo(Stdout, id) # {}
  BY <1>1, <1>2, <1>4 DEF IndInv, ProxyInv, CompleteInv
<1>6. owed' = owed \cup {x.id} /\ Ordered(Stdout, owed')
  BY <1>1, <1>2, <1>4 DEF IndInv, ProxyInv
<1> HIDE DEF x
<1> QED
  BY <1>1, <1>2, <1>3, <1>4, <1>5, <1>6, ReplyInv

LEMMA ForwardEventInv ==
  ASSUME IndInv, ForwardEvent, writer = "running"
  PROVE  ProxyInv'
<1> DEFINE s == Stdout
           n == Len(s)
           x == [kind |-> "event", id |-> streamed']
           t == Append(s, x)
<1>1. /\ events = "streaming" /\ events' = events /\ out' = Append(out, x)
      /\ UNCHANGED <<step, current, arrived, owed, written, writer, proxied>>
  BY DEF ForwardEvent, Queued, loopVars
<1>2. streamed' \in Ids
  BY NumberTypes DEF ForwardEvent, IndInv, TypeOK
<1>3. x \in Items /\ x.kind = "event"
  BY <1>2 DEF Items
<1> HIDE DEF x
<1>4. Stdout' = t
  BY <1>1, <1>3, QueueingAppends DEF Stdout, IndInv, TypeOK
<1>5. s \in Seq(Items)
  BY StdoutParts DEF IndInv
<1>6. /\ n \in Nat /\ DOMAIN s = 1..n /\ DOMAIN t = 1..(n + 1) /\ t[n + 1] = x
      /\ \A i \in 1..n : t[i] = s[i]
      /\ \A i \in 1..(n + 1) : i = n + 1 \/ i \in 1..n
  BY <1>3, <1>5, AtTheEnd
<1>7. owed \in SUBSET Nat /\ Ordered(s, owed) /\ Followed(s)
  BY IdsAreNumbers DEF IndInv, TypeOK, ProxyInv
<1>8. PICK k \in DOMAIN s : s[k].kind = "initialize"
  BY <1>1 DEF IndInv, ProxyInv, StreamInv
<1>9. \A id \in Nat : RepliesTo(t, id) = RepliesTo(s, id)
  BY <1>3, <1>5, <1>7, EventAppend
<1>10. Ordered(t, owed)
  BY <1>3, <1>5, <1>7, EventAppend
<1>11. CallInv' /\ CompleteInv' /\ WriterInv'
  <2>1. step = "calling" => current.id \in Nat
    BY <1>7, NumberTypes DEF IndInv, TypeOK, ProxyInv, CallInv
  <2>2. CallInv'
    BY <1>1, <1>4, <1>9, <2>1 DEF IndInv, ProxyInv, CallInv
  <2>3. CompleteInv'
    BY <1>1, <1>4, <1>7, <1>9 DEF IndInv, ProxyInv, CompleteInv
  <2>4. WriterInv'
    BY <1>1 DEF IndInv, ProxyInv, WriterInv
  <2> QED
    BY <2>2, <2>3, <2>4
<1> HIDE DEF s, n, t
<1>12. Followed(t)
  <2> SUFFICES ASSUME NEW i \in 1..(n + 1), t[i].kind = "event"
               PROVE  \E j \in 1..(i - 1) : t[j].kind = "initialize"
    BY <1>6 DEF Followed
  <2>1. CASE i = n + 1
    <3>1. k \in 1..(i - 1) /\ t[k].kind = "initialize"
      BY <1>6, <1>8, <2>1
    <3> QED
      BY <3>1
  <2>2. CASE i \in 1..n
    <3>1. PICK j \in 1..(i - 1) : s[j].kind = "initialize"
      BY <1>6, <1>7, <2>2 DEF Followed
    <3>2. j \in 1..n
      BY <1>6, <2>2
    <3> QED
      BY <1>6, <3>1, <3>2
  <2> QED
    BY <1>6, <2>1, <2>2
<1>13. StreamInv'
  <2>1. k \in DOMAIN t /\ t[k].kind = "initialize"
    BY <1>6, <1>8
  <2> QED
    BY <1>4, <2>1 DEF StreamInv
<1> QED
  BY <1>1, <1>4, <1>10, <1>11, <1>12, <1>13 DEF ProxyInv

\* The editor loses what was queued; what was written stays in order.
LEMMA WriteFailsInv ==
  ASSUME IndInv, WriteFails
  PROVE  ProxyInv'
<1>1. /\ writer = "running" /\ writer' = "failed" /\ out' = <<>>
      /\ UNCHANGED <<step, current, arrived, owed, events, written, proxied>>
  BY DEF WriteFails, loopVars, eventVars
<1>2. /\ Stdout \in Seq(Items) /\ written \in Seq(Items)
      /\ \A i \in DOMAIN written : i \in DOMAIN Stdout /\ written[i] = Stdout[i]
  BY StdoutParts DEF IndInv, TypeOK
<1>3. Stdout' = written
  BY <1>1, <1>2 DEF Stdout
<1>4. Ordered(Stdout', owed') /\ Followed(Stdout')
  BY <1>1, <1>2, <1>3, PrefixKeeps DEF IndInv, ProxyInv
<1>5. RepliesTo(written, current.id) \subseteq RepliesTo(Stdout, current.id)
  BY <1>2 DEF RepliesTo
<1>6. CallInv'
  BY <1>1, <1>3, <1>5 DEF IndInv, ProxyInv, CallInv
<1>7. CompleteInv' /\ StreamInv'
  BY <1>1 DEF CompleteInv, StreamInv
<1>8. WriterInv'
  BY <1>1 DEF IndInv, ProxyInv, WriterInv
<1> QED
  BY <1>4, <1>6, <1>7, <1>8 DEF ProxyInv

LEMMA StepInv == IndInv /\ [Next]_vars => IndInv'
<1> SUFFICES ASSUME IndInv, [Next]_vars PROVE ProxyInv'
  BY StepTypes DEF IndInv, ProxyInv
<1>1. CASE \/ Connect \/ ReadIgnored \/ AbortEvents \/ JoinWriter \/ Return
           \/ \E outcome \in {"ok", "error"} : EditorEnds(outcome)
  BY <1>1, LoopInv
<1>2. CASE Answered
  BY <1>2, LoopInv, AnsweredInv
<1>3. CASE \/ Subscribed \/ EventsEnd \/ Server \/ ServerFails \/ Signal \/ Write \/ WriterEnds
           \/ UNCHANGED vars
  BY <1>3, OthersInv
<1>4. CASE ForwardEvent
  BY <1>4, OthersInv, ForwardEventInv
<1> QED
  BY <1>1, <1>2, <1>3, <1>4, ReadForwardedInv, ReadShutdownInv, WriteFailsInv
     DEF Next, Loop, Writer

LEMMA Inductive == Spec => []IndInv
BY InitInv, StepInv, PTL DEF Spec

------------------------------------------------------------------------------
\* The properties.

\* Every variable has its type.
THEOREM TypeCorrect == Spec => []TypeOK
<1>1. IndInv => TypeOK
  BY DEF IndInv
<1> QED
  BY <1>1, Inductive, PTL

\* No notification gets to stdout before the answer to `initialize` (forward_events and
\* the stdin loop of src/tee.rs share one queue).
THEOREM NothingBeforeInitialize == Spec => []EventsFollowInitialize
<1>1. IndInv => EventsFollowInitialize
  BY DEF IndInv, ProxyInv, Followed, EventsFollowInitialize
<1> QED
  BY <1>1, Inductive, PTL

\* Replies are in the order of their requests, one to each and without a gap; and a
\* session that ends without an error has written them all, because proxy_stdio awaits
\* its writer after the loop has dropped its end of the queue.
THEOREM RepliesAreComplete == Spec => []EveryReplyWritten
<1>1. IndInv => EveryReplyWritten
  <2> SUFFICES ASSUME IndInv PROVE EveryReplyWritten
    OBVIOUS
  <2>1. /\ Stdout \in Seq(Items) /\ written \in Seq(Items)
        /\ \A i \in DOMAIN written : i \in DOMAIN Stdout /\ written[i] = Stdout[i]
        /\ out = <<>> => Stdout = written
    BY StdoutParts DEF IndInv, TypeOK
  <2>2. Ordered(written, owed)
    BY <2>1, PrefixKeeps DEF IndInv, ProxyInv
  <2>3. ASSUME step = "stopping", proxied = "ok", NEW id \in owed
        PROVE  RepliesTo(written, id) # {}
    <3>1. writer # "running" /\ writer # "failed" /\ out = <<>>
      BY <2>3 DEF IndInv, ProxyInv, WriterInv
    <3>2. RepliesTo(Stdout, id) # {}
      BY <2>3, <3>1 DEF IndInv, ProxyInv, CompleteInv
    <3> QED
      BY <2>1, <3>1, <3>2
  <2> QED
    BY <2>2, <2>3 DEF Ordered, EveryReplyWritten
<1> QED
  BY <1>1, Inductive, PTL

==============================================================================
