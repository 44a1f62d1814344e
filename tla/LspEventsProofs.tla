--------------------------- MODULE LspEventsProofs ----------------------------
(***************************************************************************)
(* Proofs about LspEvents, for every set of topics, methods and            *)
(* subscribers and every size of the channel and of the subscriptions:     *)
(* what a subscriber gets is never missing, repeated or out of order, and  *)
(* the hub, whose cache and channel are updated one after the other,       *)
(* implements the atomic EventFeed.                                        *)
(***************************************************************************)
EXTENDS LspEvents, SequenceTheorems, TLAPS

USE TopicsAssumption, CapacityAssumption, NoEventAssumption

------------------------------------------------------------------------------
\* The inductive invariant.

Previous(e) == [topic |-> e.topic, version |-> e.version - 1]

Logged(e) == \E i \in 1..Len(log) : log[i] = e

\* Events that a task has taken from its subscription.
Ahead(e) == Logged(e) \/ (locked # NoEvent /\ locked = e)

\* The versions of a topic increase along the log, without a gap.
LogInv ==
  /\ \A i, j \in 1..Len(log) :
       i < j /\ log[i].topic = log[j].topic => log[i].version < log[j].version
  /\ \A i \in 1..Len(log) :
       log[i].version > 1 => \E k \in 1..(i - 1) : log[k] = Previous(log[i])

\* The event that is being published is the next one of its topic.
LockedInv ==
  locked # NoEvent =>
    /\ \A i \in 1..Len(log) : log[i].topic = locked.topic => log[i].version < locked.version
    /\ locked.version > 1 => Logged(Previous(locked))

\* What a task has not taken yet goes on where the log and the lock end.
Entry(m, i) ==
  LET e == buffer[m][i] IN
  /\ MethodOf[e.topic] = m
  /\ e.version <= sent[e.topic]
  /\ \A j \in (i + 1)..Len(buffer[m]) :
       buffer[m][j].topic = e.topic => e.version < buffer[m][j].version
  /\ \A a \in Events : Ahead(a) /\ a.topic = e.topic => a.version < e.version
  /\ e.version > 1 =>
       Ahead(Previous(e)) \/ \E k \in 1..(i - 1) : buffer[m][k] = Previous(e)

BufferInv == \A m \in Methods : \A i \in 1..Len(buffer[m]) : Entry(m, i)

\* Whatever was sent is somewhere on its way while the subscription lasts.
SentInv ==
  /\ \A a \in Events : Ahead(a) => a.version <= sent[a.topic]
  /\ \A t \in Topics : sent[t] > 0 /\ listening[MethodOf[t]] =>
       LET e == [topic |-> t, version |-> sent[t]] IN
       Ahead(e) \/ \E k \in 1..Len(buffer[MethodOf[t]]) : buffer[MethodOf[t]][k] = e

\* Version v of topic t is the newest in the log, or there is none and v is 0.
Newest(t, v) ==
  IF v = 0 THEN \A i \in 1..Len(log) : log[i].topic # t
  ELSE \E i \in 1..Len(log) :
         /\ log[i] = [topic |-> t, version |-> v]
         /\ \A j \in (i + 1)..Len(log) : log[j].topic # t

\* The cache has the newest event of each cached topic, the one that is being
\* published included.
CacheInv ==
  \A t \in Cached :
    \/ locked # NoEvent /\ locked.topic = t /\ latest[t] = locked.version
    \/ (locked # NoEvent => locked.topic # t) /\ Newest(t, latest[t])

\* What reader r has of topic t, or will be given first: version v or a newer one.
Given(r, t, v) ==
  \/ \E i \in 1..Len(r.got) : r.got[i].topic = t /\ r.got[i].version >= v
  \/ \E e \in r.backlog : e.topic = t /\ e.version >= v

\* What it got was in the log, l, before its position.
Position(r, l) ==
  /\ r.next <= Len(l) + 1
  /\ r.state = "new" => r.got = <<>> /\ r.backlog = {} /\ r.next = 1
  /\ \A i \in 1..Len(r.got) : \E k \in 1..(r.next - 1) : l[k] = r.got[i]

\* The rest of its snapshot: one event of each topic, and of no topic that it has.
Pending(r, l) ==
  \A e \in r.backlog :
    /\ e.topic \in Cached
    /\ \E k \in 1..(r.next - 1) : l[k] = e
    /\ \A f \in r.backlog : f.topic = e.topic => f = e
    /\ \A i \in 1..Len(r.got) : r.got[i].topic # e.topic

\* It gets the events of a topic in order, lagging or not.
InOrder(r) ==
  \A i, j \in 1..Len(r.got) :
    i < j /\ r.got[i].topic = r.got[j].topic => r.got[i].version < r.got[j].version

\* While it has not lagged, it gets the events of a topic without a gap ...
NoGap(r) ==
  ~r.lagged => \A i, j \in 1..Len(r.got) :
    i < j /\ r.got[i].topic = r.got[j].topic =>
      \E k \in 1..(j - 1) : r.got[k] = Previous(r.got[j])

\* ... and, before its position, lacks nothing of a cached topic, nor of one of which
\* it got any event.
Complete(r, l) ==
  ~r.lagged => \A k \in 1..(r.next - 1) :
    (l[k].topic \in Cached \/ \E i \in 1..Len(r.got) : r.got[i].topic = l[k].topic)
      => Given(r, l[k].topic, l[k].version)

Reads(r, l) == Position(r, l) /\ Pending(r, l) /\ InOrder(r) /\ NoGap(r) /\ Complete(r, l)
ReaderInv == \A s \in Subscribers : Reads(reader[s], log)

HubInv == LogInv /\ LockedInv /\ BufferInv /\ SentInv /\ CacheInv
IndInv == TypeOK /\ HubInv /\ ReaderInv

------------------------------------------------------------------------------
\* Type correctness.

LEMMA InitTypes == Init => TypeOK
<1> SUFFICES ASSUME Init PROVE TypeOK
  OBVIOUS
<1> USE DEF Init, TypeOK
<1>1. <<>> \in Seq(Events) /\ Len(<<>>) = 0 /\ BufferSize \in Nat
  BY EmptySeq
<1>2. reader \in [Subscribers -> Readers]
  BY <1>1 DEF Readers
<1> QED
  BY <1>1, <1>2

\* An event of the log, or of a subscription, is an event.
LEMMA EventTypes ==
  ASSUME NEW s \in Seq(Events), NEW i \in 1..Len(s)
  PROVE  s[i] \in Events /\ s[i].topic \in Topics /\ s[i].version \in 1..MaxVersion
  BY ElementOfSeq DEF Events

\* The snapshot is made of events, one for each cached topic that has any.
LEMMA SnapshotTypes ==
  ASSUME TypeOK, CacheInv, locked = NoEvent
  PROVE  Snapshot \in SUBSET Events
<1> SUFFICES ASSUME NEW t \in Cached, latest[t] > 0
             PROVE  [topic |-> t, version |-> latest[t]] \in Events
  BY DEF Snapshot
<1>1. latest[t] # 0
  BY DEF TypeOK
<1>2. PICK i \in 1..Len(log) : log[i] = [topic |-> t, version |-> latest[t]]
  BY <1>1 DEF CacheInv, Newest
<1> QED
  BY <1>2, EventTypes DEF TypeOK

\* The update of a reader that is given an event of its snapshot.
LEMMA ReaderUpdate ==
  ASSUME NEW r \in Readers, NEW b, NEW g, NEW q, q = [r EXCEPT !.backlog = b, !.got = g]
  PROVE  q = [state |-> r.state, backlog |-> b, next |-> r.next, got |-> g, lagged |-> r.lagged]
  BY DEF Readers

\* What the steps of a stream do to its reader.
LEMMA ReaderSteps ==
  ASSUME TypeOK, NEW s \in Subscribers
  PROVE  LET r == reader[s] IN
         /\ Subscribe(s) => reader' = [reader EXCEPT ![s] =
              [state |-> "open", backlog |-> Snapshot, next |-> Len(log) + 1,
               got |-> r.got, lagged |-> r.lagged]]
         /\ ReceiveCached(s) => \E e \in r.backlog : reader' = [reader EXCEPT ![s] =
              [state |-> r.state, backlog |-> r.backlog \ {e}, next |-> r.next,
               got |-> Append(r.got, e), lagged |-> r.lagged]]
         /\ ReceiveLive(s) => reader' = [reader EXCEPT ![s] =
              [state |-> r.state, backlog |-> r.backlog, next |-> r.next + 1,
               got |-> Append(r.got, log[r.next]), lagged |-> r.lagged]]
         /\ Skip(s) => reader' = [reader EXCEPT ![s] =
              [state |-> r.state, backlog |-> r.backlog, next |-> Oldest,
               got |-> r.got, lagged |-> TRUE]]
         /\ Leave(s) => reader' = [reader EXCEPT ![s] =
              [state |-> "left", backlog |-> r.backlog, next |-> r.next,
               got |-> r.got, lagged |-> r.lagged]]
<1> USE DEF TypeOK, Readers
<1>1. Subscribe(s) => reader' = [reader EXCEPT ![s] =
        [state |-> "open", backlog |-> Snapshot, next |-> Len(log) + 1,
         got |-> reader[s].got, lagged |-> reader[s].lagged]]
  BY ZenonT(40) DEF Subscribe
<1>2. ASSUME ReceiveCached(s)
      PROVE  \E e \in reader[s].backlog : reader' = [reader EXCEPT ![s] =
        [state |-> reader[s].state, backlog |-> reader[s].backlog \ {e},
         next |-> reader[s].next, got |-> Append(reader[s].got, e),
         lagged |-> reader[s].lagged]]
  <2>1. PICK e \in reader[s].backlog : reader' = [reader EXCEPT ![s] =
          [reader[s] EXCEPT !.backlog = reader[s].backlog \ {e}, !.got = Append(reader[s].got, e)]]
    BY <1>2 DEF ReceiveCached
  <2>2. PICK q : /\ q = [reader[s] EXCEPT !.backlog = reader[s].backlog \ {e},
                                          !.got = Append(reader[s].got, e)]
                 /\ reader' = [reader EXCEPT ![s] = q]
    BY <2>1, Zenon
  <2>3. reader[s] \in Readers
    OBVIOUS
  <2>4. q = [state |-> reader[s].state, backlog |-> reader[s].backlog \ {e},
             next |-> reader[s].next, got |-> Append(reader[s].got, e),
             lagged |-> reader[s].lagged]
    BY <2>2, <2>3, ReaderUpdate, Zenon
  <2> QED
    BY <2>2, <2>4, Zenon
<1>3. ReceiveLive(s) => reader' = [reader EXCEPT ![s] =
        [state |-> reader[s].state, backlog |-> reader[s].backlog,
         next |-> reader[s].next + 1, got |-> Append(reader[s].got, log[reader[s].next]),
         lagged |-> reader[s].lagged]]
  BY ZenonT(40) DEF ReceiveLive
<1>4. Skip(s) => reader' = [reader EXCEPT ![s] =
        [state |-> reader[s].state, backlog |-> reader[s].backlog, next |-> Oldest,
         got |-> reader[s].got, lagged |-> TRUE]]
  BY ZenonT(40) DEF Skip
<1>5. Leave(s) => reader' = [reader EXCEPT ![s] =
        [state |-> "left", backlog |-> reader[s].backlog, next |-> reader[s].next,
         got |-> reader[s].got, lagged |-> reader[s].lagged]]
  BY ZenonT(40) DEF Leave
<1> QED
  BY <1>1, <1>2, <1>3, <1>4, <1>5

\* Every step keeps the types.
LEMMA StepTypes == TypeOK /\ CacheInv /\ [Next]_vars => TypeOK'
<1> SUFFICES ASSUME TypeOK, CacheInv, [Next]_vars PROVE TypeOK'
  OBVIOUS
<1> USE DEF TypeOK, vars, sourceVars, hubVars
<1>1. ASSUME NEW t \in Topics, Notify(t) PROVE TypeOK'
  <2> DEFINE m == MethodOf[t]
             e == [topic |-> t, version |-> sent[t] + 1]
  <2>1. m \in Methods /\ e \in Events /\ sent[t] \in Nat
    BY <1>1 DEF Notify, Events
  <2>2. Append(buffer[m], e) \in Seq(Events) /\ Len(Append(buffer[m], e)) = Len(buffer[m]) + 1
    BY <2>1, AppendProperties
  <2>3. CASE listening[m] /\ Len(buffer[m]) < BufferSize
    <3>1. buffer' = [buffer EXCEPT ![m] = Append(buffer[m], e)] /\ listening' = listening
      BY <1>1, <2>3 DEF Notify
    <3>2. Len(buffer[m]) + 1 <= BufferSize
      BY <2>1, <2>3, LenProperties
    <3>3. \A n \in Methods : buffer'[n] \in Seq(Events) /\ Len(buffer'[n]) <= BufferSize
      BY <2>1, <2>2, <3>1, <3>2
    <3> QED
      BY SMTT(30), <1>1, <2>1, <3>1, <3>3 DEF Notify
  <2>4. CASE ~(listening[m] /\ Len(buffer[m]) < BufferSize)
    <3>1. /\ buffer' = buffer
          /\ listening' = [listening EXCEPT ![m] = FALSE]
          /\ sent' = [sent EXCEPT ![t] = @ + 1]
      BY <1>1, <2>4 DEF Notify
    <3>2. listening' \in [Methods -> BOOLEAN]
      BY <3>1
    <3>3. sent' \in [Topics -> Nat]
      BY <2>1, <3>1
    <3> QED
      BY <1>1, <3>1, <3>2, <3>3 DEF Notify
  <2> QED
    BY <2>3, <2>4
<1>2. ASSUME NEW m \in Methods, Record(m) PROVE TypeOK'
  <2>1. buffer[m] \in Seq(Events) /\ buffer[m] # <<>>
    BY <1>2 DEF Record
  <2>2. /\ Head(buffer[m]) \in Events /\ Tail(buffer[m]) \in Seq(Events)
        /\ Len(Tail(buffer[m])) = Len(buffer[m]) - 1 /\ Len(buffer[m]) \in Nat
    BY <2>1, HeadTailProperties, LenProperties
  <2>3. buffer' \in [Methods -> Seq(Events)] /\ \A n \in Methods : Len(buffer'[n]) <= BufferSize
    <3>1. buffer' = [buffer EXCEPT ![m] = Tail(buffer[m])]
      BY <1>2 DEF Record
    <3>2. Len(buffer[m]) - 1 <= BufferSize
      BY <2>2
    <3> QED
      BY <2>2, <3>1, <3>2
  <2>4. latest' \in [Topics -> Nat]
    <3> DEFINE e == Head(buffer[m])
    <3>1. e.topic \in Topics /\ e.version \in Nat
      BY <2>2 DEF Events
    <3>2. latest' = IF e.topic \in Cached THEN [latest EXCEPT ![e.topic] = e.version] ELSE latest
      BY <1>2 DEF Record
    <3> QED
      BY <3>1, <3>2
  <2> QED
    BY <1>2, <2>2, <2>3, <2>4 DEF Record
<1>3. ASSUME NEW m \in Methods, Abort(m) PROVE TypeOK'
  BY <1>3 DEF Abort
<1>4. CASE Broadcast
  <2>1. locked \in Events
    BY <1>4 DEF Broadcast
  <2> QED
    BY <1>4, <2>1, AppendProperties DEF Broadcast
<1>5. ASSUME NEW s \in Subscribers,
             Subscribe(s) \/ ReceiveCached(s) \/ ReceiveLive(s) \/ Skip(s) \/ Leave(s)
      PROVE  TypeOK'
  <2>1. UNCHANGED <<sourceVars, hubVars>>
    BY <1>5 DEF Subscribe, ReceiveCached, ReceiveLive, Skip, Leave
  <2>2. Len(log) \in Nat
    BY LenProperties
  <2>3. ASSUME NEW e \in Events PROVE Append(reader[s].got, e) \in Seq(Events)
    BY AppendProperties DEF Readers
  <2>4. ASSUME NEW x \in Readers, reader' = [reader EXCEPT ![s] = x] PROVE TypeOK'
    BY <2>1, <2>4
  <2>r. /\ reader[s].state \in {"new", "open", "left"} /\ reader[s].backlog \in SUBSET Events
        /\ reader[s].next \in Nat \ {0} /\ reader[s].got \in Seq(Events)
        /\ reader[s].lagged \in BOOLEAN
    BY DEF Readers
  <2>5. CASE Subscribe(s)
    <3>1. Snapshot \in SUBSET Events
      BY <2>5, SnapshotTypes DEF Subscribe
    <3>2. [state |-> "open", backlog |-> Snapshot, next |-> Len(log) + 1,
           got |-> reader[s].got, lagged |-> reader[s].lagged] \in Readers
      BY <2>2, <2>r, <3>1 DEF Readers
    <3> QED
      BY <2>4, <2>5, <3>2, ReaderSteps
  <2>6. CASE ReceiveCached(s)
    <3>1. PICK e \in reader[s].backlog : reader' = [reader EXCEPT ![s] =
            [state |-> reader[s].state, backlog |-> reader[s].backlog \ {e},
             next |-> reader[s].next, got |-> Append(reader[s].got, e),
             lagged |-> reader[s].lagged]]
      BY <2>6, ReaderSteps
    <3>2. e \in Events /\ reader[s].backlog \ {e} \in SUBSET Events
      BY <2>r
    <3>3. [state |-> reader[s].state, backlog |-> reader[s].backlog \ {e},
           next |-> reader[s].next, got |-> Append(reader[s].got, e),
           lagged |-> reader[s].lagged] \in Readers
      BY <2>3, <2>r, <3>2 DEF Readers
    <3> QED
      BY <2>4, <3>1, <3>3
  <2>7. CASE ReceiveLive(s)
    <3>1. reader[s].next \in 1..Len(log)
      BY <2>2, <2>7, <2>r DEF ReceiveLive
    <3>2. log[reader[s].next] \in Events
      BY <3>1, EventTypes
    <3>3. [state |-> reader[s].state, backlog |-> reader[s].backlog,
           next |-> reader[s].next + 1, got |-> Append(reader[s].got, log[reader[s].next]),
           lagged |-> reader[s].lagged] \in Readers
      BY <2>3, <2>r, <3>2 DEF Readers
    <3> QED
      BY <2>4, <2>7, <3>3, ReaderSteps
  <2>8. CASE Skip(s)
    <3>1. Oldest \in Nat \ {0}
      BY <2>2 DEF Oldest
    <3>2. [state |-> reader[s].state, backlog |-> reader[s].backlog, next |-> Oldest,
           got |-> reader[s].got, lagged |-> TRUE] \in Readers
      BY <2>r, <3>1 DEF Readers
    <3> QED
      BY <2>4, <2>8, <3>2, ReaderSteps
  <2>9. CASE Leave(s)
    <3>1. [state |-> "left", backlog |-> reader[s].backlog, next |-> reader[s].next,
           got |-> reader[s].got, lagged |-> reader[s].lagged] \in Readers
      BY <2>r DEF Readers
    <3> QED
      BY <2>4, <2>9, <3>1, ReaderSteps
  <2> QED
    BY <1>5, <2>5, <2>6, <2>7, <2>8, <2>9
<1>6. CASE UNCHANGED vars
  BY <1>6
<1> QED
  BY <1>1, <1>2, <1>3, <1>4, <1>5, <1>6 DEF Next
------------------------------------------------------------------------------
\* The hub and the tasks that feed it.

\* A step that leaves the log and the lock alone leaves Ahead alone.
LEMMA SameAhead ==
  ASSUME log' = log, locked' = locked
  PROVE  \A e : Ahead(e)' <=> Ahead(e)
  BY DEF Ahead, Logged

\* Whether the cache is right depends on the cache, the lock and the log.
LEMMA SameCache ==
  ASSUME CacheInv, log' = log, locked' = locked, latest' = latest
  PROVE  CacheInv'
<1> SUFFICES ASSUME NEW t \in Cached
             PROVE  \/ locked # NoEvent /\ locked.topic = t /\ latest[t] = locked.version
                    \/ (locked # NoEvent => locked.topic # t) /\ Newest(t, latest[t])'
  BY Zenon DEF CacheInv
<1>1. Newest(t, latest[t])' <=> Newest(t, latest[t])
  BY Zenon DEF Newest
<1> QED
  BY <1>1, Zenon DEF CacheInv

\* What waits for a task depends on the subscriptions, on what was sent and on what the
\* tasks have taken.
LEMMA SameBuffer ==
  ASSUME BufferInv, buffer' = buffer, sent' = sent, \A e : Ahead(e)' <=> Ahead(e)
  PROVE  BufferInv'
<1>1. ASSUME NEW m \in Methods, NEW i \in 1..Len(buffer[m]) PROVE Entry(m, i)'
  <2>1. Entry(m, i)
    BY <1>1 DEF BufferInv
  <2> QED
    BY <2>1, Zenon DEF Entry, Previous
<1> QED
  BY <1>1 DEF BufferInv

\* What is queued for a task is made of events.
LEMMA BufferTypes ==
  ASSUME TypeOK, NEW m \in Methods, NEW i \in 1..Len(buffer[m])
  PROVE  /\ buffer[m][i] \in Events
         /\ buffer[m][i].topic \in Topics
         /\ buffer[m][i].version \in Nat \ {0}
         /\ sent[buffer[m][i].topic] \in Nat
<1>1. buffer[m] \in Seq(Events)
  BY DEF TypeOK
<1>2. buffer[m][i] \in Events
  BY <1>1, ElementOfSeq
<1> QED
  BY SMTT(45), <1>2 DEF TypeOK, Events

\* A new notification is the next one of its topic.
LEMMA NotifyHub ==
  ASSUME TypeOK, HubInv, NEW t \in Topics, Notify(t)
  PROVE  HubInv'
<1> USE DEF TypeOK
<1> DEFINE m == MethodOf[t]
           e == [topic |-> t, version |-> sent[t] + 1]
<1>1. /\ log' = log /\ locked' = locked /\ latest' = latest
      /\ sent' = [sent EXCEPT ![t] = sent[t] + 1]
      /\ m \in Methods /\ e \in Events /\ sent[t] \in Nat
      /\ Len(buffer[m]) \in Nat
  BY SMTT(45), LenProperties DEF Notify, hubVars, Events
<1>2. LogInv' /\ LockedInv' /\ CacheInv'
  <2>1. LogInv'
    BY SMTT(30), <1>1 DEF HubInv, LogInv, Previous
  <2>2. LockedInv'
    BY SMTT(30), <1>1 DEF HubInv, LockedInv, Logged, Previous
  <2>3. CacheInv'
    BY <1>1, SameCache DEF HubInv
  <2> QED
    BY <2>1, <2>2, <2>3
<1>a. \A a : Ahead(a)' <=> Ahead(a)
  BY <1>1, SameAhead
<1>s. /\ \A u \in Topics : sent[u] <= sent'[u]
      /\ sent'[t] = sent[t] + 1
      /\ \A u \in Topics : u # t => sent'[u] = sent[u]
  BY <1>1
<1>3. CASE listening[m] /\ Len(buffer[m]) < BufferSize
  <2>1. /\ buffer' = [buffer EXCEPT ![m] = Append(buffer[m], e)]
        /\ listening' = listening
    BY <1>3 DEF Notify
  <2>2. /\ Len(buffer'[m]) = Len(buffer[m]) + 1
        /\ buffer'[m][Len(buffer[m]) + 1] = e
        /\ \A i \in 1..Len(buffer[m]) : buffer'[m][i] = buffer[m][i]
        /\ \A n \in Methods : n # m => buffer'[n] = buffer[n]
    BY <1>1, <2>1, AppendProperties
  <2>3. ASSUME NEW n \in Methods, NEW i \in 1..Len(buffer'[n])
        PROVE  LET b == buffer'[n][i] IN
               /\ MethodOf[b.topic] = n
               /\ b.version <= sent'[b.topic]
               /\ \A j \in (i + 1)..Len(buffer'[n]) :
                    buffer'[n][j].topic = b.topic => b.version < buffer'[n][j].version
               /\ \A a \in Events : Ahead(a) /\ a.topic = b.topic => a.version < b.version
               /\ b.version > 1 =>
                    Ahead(Previous(b)) \/ \E k \in 1..(i - 1) : buffer'[n][k] = Previous(b)
    <3>1. CASE n # m
      <4>1. buffer'[n] = buffer[n] /\ i \in 1..Len(buffer[n])
        BY <2>2, <2>3, <3>1
      <4>2. /\ sent[buffer[n][i].topic] <= sent'[buffer[n][i].topic]
            /\ sent'[buffer[n][i].topic] \in Nat
            /\ sent[buffer[n][i].topic] \in Nat
            /\ buffer[n][i].version \in Nat
        BY SMTT(45), <1>1, <1>s, <4>1, BufferTypes
      <4>3. Entry(n, i)
        BY <4>1 DEF HubInv, BufferInv
      <4>4. buffer[n][i].version <= sent'[buffer[n][i].topic]
        BY SMTT(45), <4>2, <4>3 DEF Entry
      <4> QED
        BY <4>1, <4>3, <4>4, Zenon DEF Entry
    <3>2. CASE n = m /\ i \in 1..Len(buffer[m])
      <4>1. buffer'[n][i] = buffer[m][i]
        BY <2>2, <3>2
      <4>2. buffer[m][i].topic \in Topics /\ buffer[m][i].version \in Nat
        BY <1>1, <3>2, EventTypes
      <4>3. /\ MethodOf[buffer[m][i].topic] = m
            /\ buffer[m][i].version <= sent[buffer[m][i].topic]
            /\ \A j \in (i + 1)..Len(buffer[m]) :
                 buffer[m][j].topic = buffer[m][i].topic => buffer[m][i].version < buffer[m][j].version
            /\ \A a \in Events : Ahead(a) /\ a.topic = buffer[m][i].topic => a.version < buffer[m][i].version
            /\ buffer[m][i].version > 1 =>
                 \/ Ahead(Previous(buffer[m][i]))
                 \/ \E k \in 1..(i - 1) : buffer[m][k] = Previous(buffer[m][i])
        BY <1>1, <3>2 DEF HubInv, BufferInv, Entry
      <4>4. ASSUME NEW j \in (i + 1)..Len(buffer'[m]), buffer'[m][j].topic = buffer[m][i].topic
            PROVE  buffer[m][i].version < buffer'[m][j].version
        <5>1. CASE j \in 1..Len(buffer[m])
          <6>1. buffer'[m][j] = buffer[m][j]
            BY <2>2, <5>1, Zenon
          <6>2. j \in (i + 1)..Len(buffer[m])
            BY <1>1, <3>2, <4>4, <5>1
          <6> QED
            BY <4>3, <4>4, <6>1, <6>2, Zenon
        <5>2. CASE j = Len(buffer[m]) + 1
          <6>1. buffer'[m][j] = e /\ e.topic = t /\ e.version = sent[t] + 1
            BY <2>2, <5>2
          <6>2. buffer[m][i].topic = t
            BY <4>4, <6>1, Zenon
          <6>3. buffer[m][i].version <= sent[t]
            BY <4>3, <6>2, Zenon
          <6>4. buffer[m][i].version < sent[t] + 1
            BY SMTT(30), <1>1, <4>2, <6>3
          <6> QED
            BY <6>1, <6>4, Zenon
        <5> QED
          BY SMTT(30), <1>1, <2>2, <3>2, <4>4, <5>1, <5>2
      <4>5. \A k \in 1..(i - 1) : buffer'[m][k] = buffer[m][k]
        BY SMTT(30), <1>1, <2>2, <3>2
      <4>6. buffer[m][i].version <= sent'[buffer[m][i].topic]
        <5>1. sent[buffer[m][i].topic] <= sent'[buffer[m][i].topic] /\ sent'[buffer[m][i].topic] \in Nat
          BY SMTT(45), <1>1, <1>s, <4>2
        <5> QED
          <6>1. sent[buffer[m][i].topic] \in Nat
            BY <4>2, Zenon
          <6>2. \A u, v, w \in Nat : u <= v /\ v <= w => u <= w
            OBVIOUS
          <6> QED
            BY <4>2, <4>3, <5>1, <6>1, <6>2, Zenon
      <4>7. \A j \in (i + 1)..Len(buffer'[n]) :
              buffer'[n][j].topic = buffer[m][i].topic => buffer[m][i].version < buffer'[n][j].version
        BY <3>2, <4>4
      <4>8. buffer[m][i].version > 1 =>
              \/ Ahead(Previous(buffer[m][i]))
              \/ \E k \in 1..(i - 1) : buffer'[n][k] = Previous(buffer[m][i])
        BY <3>2, <4>3, <4>5
      <4> QED
        BY <3>2, <4>1, <4>3, <4>6, <4>7, <4>8
    <3>3. CASE n = m /\ i = Len(buffer[m]) + 1
      <4>1. buffer'[n][i] = e /\ e.topic = t /\ e.version = sent[t] + 1
        BY <2>2, <3>3
      <4>2. \A a \in Events : Ahead(a) /\ a.topic = t => a.version < sent[t] + 1
        BY <1>1 DEF HubInv, SentInv, Events
      <4>3. sent[t] + 1 > 1 => Ahead(Previous(e)) \/ \E k \in 1..Len(buffer[m]) : buffer[m][k] = Previous(e)
        <5>1. Previous(e) = [topic |-> t, version |-> sent[t]]
          BY <1>1 DEF Previous
        <5>2. sent[t] > 0 => \/ Ahead([topic |-> t, version |-> sent[t]])
                             \/ \E k \in 1..Len(buffer[m]) : buffer[m][k] = [topic |-> t, version |-> sent[t]]
          BY <1>3 DEF HubInv, SentInv
        <5> QED
          BY <1>1, <5>1, <5>2
      <4>4. \A k \in 1..Len(buffer[m]) : buffer'[n][k] = buffer[m][k]
        BY <2>2, <3>3
      <4>5. /\ Len(buffer'[n]) = i /\ i - 1 = Len(buffer[m]) /\ i \in Nat
            /\ n = m /\ MethodOf[t] = m
            /\ sent[t] + 1 <= sent'[t]
        BY <1>1, <1>s, <2>2, <3>3
      <4>6. (i + 1)..Len(buffer'[n]) = {}
        BY <4>5
      <4>7. e.version > 1 =>
              Ahead(Previous(e)) \/ \E k \in 1..(i - 1) : buffer'[n][k] = Previous(e)
        <5>1. e.version > 1 =>
                Ahead(Previous(e)) \/ \E k \in 1..Len(buffer[m]) : buffer[m][k] = Previous(e)
          BY <4>1, <4>3, Zenon
        <5> HIDE DEF e
        <5> QED
          BY <5>1, <4>4, <4>5, Zenon
      <4>8. MethodOf[e.topic] = n /\ e.version <= sent'[e.topic]
        BY <4>1, <4>5, Zenon
      <4>9. \A a \in Events : Ahead(a) /\ a.topic = e.topic => a.version < e.version
        BY <4>1, <4>2, Zenon
      <4> HIDE DEF e
      <4> QED
        BY <4>1, <4>6, <4>7, <4>8, <4>9, Zenon
    <3>4. n # m \/ (n = m /\ (i \in 1..Len(buffer[m]) \/ i = Len(buffer[m]) + 1))
      BY SMTT(30), <1>1, <2>2, <2>3
    <3> QED
      BY <3>1, <3>2, <3>3, <3>4, Zenon
  <2>4. BufferInv'
    BY ZenonT(40), <1>a, <2>3 DEF BufferInv, Entry, Previous
  <2>5. SentInv'
    <3>1. \A a \in Events : Ahead(a) => a.version <= sent'[a.topic]
      BY <1>1, <1>s DEF HubInv, SentInv, Events
    <3>2. ASSUME NEW u \in Topics, sent'[u] > 0, listening[MethodOf[u]]
          PROVE  LET d == [topic |-> u, version |-> sent'[u]] IN
                 Ahead(d) \/ \E k \in 1..Len(buffer'[MethodOf[u]]) : buffer'[MethodOf[u]][k] = d
      <4>1. CASE u = t
        BY <1>1, <1>s, <2>2, <4>1
      <4>2. CASE u # t
        <5> DEFINE d == [topic |-> u, version |-> sent[u]]
                   n == MethodOf[u]
        <5>1. sent'[u] = sent[u] /\ n \in Methods
          BY <1>s, <4>2
        <5>2. Ahead(d) \/ \E k \in 1..Len(buffer[n]) : buffer[n][k] = d
          BY <3>2, <5>1 DEF HubInv, SentInv
        <5>3. ASSUME NEW k \in 1..Len(buffer[n]), buffer[n][k] = d
              PROVE  k \in 1..Len(buffer'[n]) /\ buffer'[n][k] = d
          <6>1. CASE n = m
            BY SMTT(30), <1>1, <2>2, <5>3, <6>1
          <6>2. CASE n # m
            BY <2>2, <5>1, <5>3, <6>2
          <6> QED
            BY <6>1, <6>2
        <5> QED
          BY <5>1, <5>2, <5>3
      <4> QED
        BY <4>1, <4>2
    <3> QED
      BY <1>a, <2>1, <3>1, <3>2 DEF SentInv
  <2> QED
    BY <1>2, <2>4, <2>5 DEF HubInv
<1>4. CASE ~(listening[m] /\ Len(buffer[m]) < BufferSize)
  <2>1. buffer' = buffer /\ listening' = [listening EXCEPT ![m] = FALSE]
    BY <1>4 DEF Notify
  <2>2. BufferInv'
    <3>1. ASSUME NEW n \in Methods, NEW i \in 1..Len(buffer[n])
          PROVE  buffer[n][i].version <= sent'[buffer[n][i].topic]
      <4>1. buffer[n][i].topic \in Topics /\ buffer[n][i].version \in Nat
        BY <3>1, EventTypes
      <4>2. buffer[n][i].version <= sent[buffer[n][i].topic]
        BY <3>1 DEF HubInv, BufferInv, Entry
      <4>3. sent'[buffer[n][i].topic] \in Nat /\ sent[buffer[n][i].topic] \in Nat
        BY <1>1, <4>1
      <4> QED
        BY SMTT(45), <1>s, <4>1, <4>2, <4>3
    <3> QED
      BY <1>a, <2>1, <3>1 DEF HubInv, BufferInv, Entry, Previous
  <2>3. SentInv'
    <3>1. \A a \in Events : Ahead(a) => a.version <= sent'[a.topic]
      BY <1>1, <1>s DEF HubInv, SentInv, Events
    <3>2. \A u \in Topics : listening'[MethodOf[u]] => listening[MethodOf[u]] /\ u # t
      BY <1>1, <2>1
    <3> QED
      BY <1>a, <1>s, <2>1, <3>1, <3>2 DEF HubInv, SentInv
  <2> QED
    BY <1>2, <2>2, <2>3 DEF HubInv
<1> QED
  BY <1>3, <1>4

\* A task that takes the lock holds the next event of its topic.
LEMMA RecordHub ==
  ASSUME TypeOK, HubInv, NEW m \in Methods, Record(m)
  PROVE  HubInv'
<1> USE DEF TypeOK
<1> DEFINE e == buffer[m][1]
<1>1. /\ log' = log /\ locked = NoEvent /\ sent' = sent /\ listening' = listening
      /\ buffer' = [buffer EXCEPT ![m] = Tail(buffer[m])]
      /\ buffer[m] \in Seq(Events) /\ buffer[m] # <<>>
  BY DEF Record
<1>2. /\ Len(buffer[m]) \in Nat \ {0} /\ Head(buffer[m]) = e /\ e \in Events
      /\ e # NoEvent /\ e.topic \in Topics /\ e.version \in Nat \ {0}
  <2>1. Len(buffer[m]) \in Nat \ {0}
    BY <1>1, EmptySeq
  <2>2. Head(buffer[m]) = e
    BY <1>1
  <2>3. e \in Events
    BY <1>1, <2>1, ElementOfSeq
  <2> QED
    BY SMTT(45), <2>1, <2>2, <2>3 DEF Events
<1>3. /\ locked' = e
      /\ latest' = IF e.topic \in Cached THEN [latest EXCEPT ![e.topic] = e.version] ELSE latest
  BY <1>2 DEF Record
<1>4. /\ Len(buffer'[m]) = Len(buffer[m]) - 1
      /\ \A i \in 1..Len(buffer'[m]) : buffer'[m][i] = buffer[m][i + 1]
      /\ \A n \in Methods : n # m => buffer'[n] = buffer[n]
  BY <1>1, HeadTailProperties
<1>5. /\ \A a : Logged(a)' <=> Logged(a)
      /\ \A a : Ahead(a) <=> Logged(a)
      /\ \A a : Ahead(a)' <=> Ahead(a) \/ a = e
  BY <1>1, <1>2, <1>3 DEF Ahead, Logged
<1>6. Entry(m, 1)
  BY <1>2 DEF HubInv, BufferInv
<1>7. /\ MethodOf[e.topic] = m
      /\ e.version <= sent[e.topic]
      /\ \A j \in 2..Len(buffer[m]) : buffer[m][j].topic = e.topic => e.version < buffer[m][j].version
      /\ \A a \in Events : Ahead(a) /\ a.topic = e.topic => a.version < e.version
      /\ e.version > 1 => Ahead(Previous(e))
  BY <1>6 DEF Entry
<1>8. LogInv'
  BY <1>1 DEF HubInv, LogInv
<1>9. LockedInv'
  <2>1. \A i \in 1..Len(log) : log[i] \in Events /\ Ahead(log[i])
    BY <1>5, ElementOfSeq DEF Logged
  <2> QED
    BY <1>1, <1>3, <1>5, <1>7, <2>1 DEF LockedInv, Previous
<1>10. BufferInv'
  <2> SUFFICES ASSUME NEW n \in Methods, NEW i \in 1..Len(buffer'[n])
               PROVE  Entry(n, i)'
    BY DEF BufferInv
  <2>1. CASE n # m
    <3>1. buffer'[n] = buffer[n] /\ i \in 1..Len(buffer[n])
      BY <1>4, <2>1
    <3>2. Entry(n, i)
      BY <3>1 DEF HubInv, BufferInv
    <3>3. e.topic # buffer[n][i].topic
      BY <1>7, <2>1, <3>2 DEF Entry
    <3> QED
      BY <1>1, <1>5, <3>1, <3>2, <3>3 DEF Entry, Previous
  <2>2. CASE n = m
    <3> DEFINE b == buffer[m][i + 1]
    <3>1. /\ i + 1 \in 2..Len(buffer[m]) /\ i \in Nat \ {0} /\ buffer'[m][i] = b
      <4>1. Len(buffer[m]) \in Nat /\ i \in 1..(Len(buffer[m]) - 1)
        BY <1>4, <2>2, LenProperties
      <4>2. buffer'[m][i] = b
        BY <1>4, <2>2, Zenon
      <4> QED
        BY <4>1, <4>2
    <3>2. Entry(m, i + 1)
      BY <1>2, <3>1 DEF HubInv, BufferInv
    <3>3. /\ MethodOf[b.topic] = m
          /\ b.version <= sent[b.topic]
          /\ \A j \in (i + 2)..Len(buffer[m]) : buffer[m][j].topic = b.topic => b.version < buffer[m][j].version
          /\ \A a \in Events : Ahead(a) /\ a.topic = b.topic => a.version < b.version
          /\ b.version > 1 => Ahead(Previous(b)) \/ \E k \in 1..i : buffer[m][k] = Previous(b)
      BY <3>1, <3>2 DEF Entry
    <3>4. \A j \in (i + 1)..Len(buffer'[m]) : buffer'[m][j].topic = b.topic => b.version < buffer'[m][j].version
      <4> SUFFICES ASSUME NEW j \in (i + 1)..Len(buffer'[m]), buffer'[m][j].topic = b.topic
                   PROVE  b.version < buffer'[m][j].version
        OBVIOUS
      <4>1. j + 1 \in (i + 2)..Len(buffer[m]) /\ buffer'[m][j] = buffer[m][j + 1]
        BY <1>2, <1>4, <3>1
      <4> QED
        BY <3>3, <4>1
    <3>5. \A a \in Events : Ahead(a)' /\ a.topic = b.topic => a.version < b.version
      BY <1>5, <1>7, <3>1, <3>3
    <3>6. ASSUME b.version > 1
          PROVE  Ahead(Previous(b)) \/ Previous(b) = e \/ \E k \in 1..(i - 1) : buffer'[m][k] = Previous(b)
      <4>1. CASE Ahead(Previous(b))
        BY <1>5, <4>1
      <4>2. ASSUME NEW k \in 1..i, buffer[m][k] = Previous(b)
            PROVE  Ahead(Previous(b)) \/ Previous(b) = e \/ \E l \in 1..(i - 1) : buffer'[m][l] = Previous(b)
        <5>1. CASE k = 1
          BY <1>5, <4>2, <5>1
        <5>2. CASE k # 1
          <6>1. k - 1 \in 1..(i - 1) /\ k - 1 \in 1..Len(buffer'[m]) /\ (k - 1) + 1 = k
            BY <1>2, <1>4, <2>2, <5>2
          <6> QED
            BY ZenonT(40), <1>4, <4>2, <6>1
        <5> QED
          BY <5>1, <5>2
      <4> QED
        BY <3>3, <3>6, <4>1, <4>2
    <3>7. PICK x : x = b
      OBVIOUS
    <3>8. x.version > 1 =>
            Ahead(Previous(x))' \/ \E k \in 1..(i - 1) : buffer'[m][k] = Previous(x)
      <4>1. Ahead(Previous(x)) \/ Previous(x) = e => Ahead(Previous(x))'
        BY <1>5, Zenon
      <4> QED
        BY <3>6, <3>7, <4>1, Zenon
    <3>9. n = m /\ buffer'[m][i] = x /\ MethodOf[x.topic] = m /\ x.version <= sent'[x.topic]
      BY <1>1, <2>2, <3>1, <3>3, <3>7, Zenon
    <3>10. \A j \in (i + 1)..Len(buffer'[m]) :
             buffer'[m][j].topic = x.topic => x.version < buffer'[m][j].version
      BY <3>4, <3>7, Zenon
    <3>11. \A a \in Events : Ahead(a)' /\ a.topic = x.topic => a.version < x.version
      BY <3>5, <3>7, Zenon
    <3> QED
      BY <3>8, <3>9, <3>10, <3>11, ZenonT(40) DEF Entry
  <2> QED
    BY <2>1, <2>2
<1>11. SentInv'
  <2>1. \A a \in Events : Ahead(a)' => a.version <= sent[a.topic]
    BY <1>5, <1>7 DEF HubInv, SentInv
  <2>2. ASSUME NEW t \in Topics, sent[t] > 0, listening[MethodOf[t]]
        PROVE  LET d == [topic |-> t, version |-> sent[t]] IN
               Ahead(d) \/ d = e \/ \E k \in 1..Len(buffer'[MethodOf[t]]) : buffer'[MethodOf[t]][k] = d
    <3> DEFINE d == [topic |-> t, version |-> sent[t]]
               n == MethodOf[t]
    <3>1. n \in Methods /\ (Ahead(d) \/ \E k \in 1..Len(buffer[n]) : buffer[n][k] = d)
      BY <2>2 DEF HubInv, SentInv
    <3>2. ASSUME NEW k \in 1..Len(buffer[n]), buffer[n][k] = d
          PROVE  Ahead(d) \/ d = e \/ \E l \in 1..Len(buffer'[n]) : buffer'[n][l] = d
      <4>1. CASE n # m
        BY <1>4, <3>1, <3>2, <4>1
      <4>2. CASE n = m /\ k = 1
        BY <1>5, <3>2, <4>2
      <4>3. CASE n = m /\ k # 1
        <5>1. k \in 1..Len(buffer[m]) /\ buffer[m][k] = d /\ k # 1
          BY <3>2, <4>3
        <5>2. k - 1 \in 1..Len(buffer'[m]) /\ (k - 1) + 1 = k
          BY <1>2, <1>4, <5>1
        <5>3. buffer'[m][k - 1] = d
          BY <1>4, <5>1, <5>2
        <5> QED
          BY <4>3, <5>2, <5>3
      <4> QED
        BY <4>1, <4>2, <4>3
    <3> QED
      BY <1>5, <3>1, <3>2
  <2>3. \A t \in Topics : sent[t] > 0 /\ listening[MethodOf[t]] =>
          (\/ \E j \in 1..Len(log) : log[j] = [topic |-> t, version |-> sent[t]]
           \/ [topic |-> t, version |-> sent[t]] = e
           \/ \E k \in 1..Len(buffer'[MethodOf[t]]) :
                buffer'[MethodOf[t]][k] = [topic |-> t, version |-> sent[t]])
    BY <1>5, <2>2 DEF Logged
  <2>4. \A t \in Topics : sent'[t] > 0 /\ listening'[MethodOf[t]] =>
          (\/ \E j \in 1..Len(log') : log'[j] = [topic |-> t, version |-> sent'[t]]
           \/ locked' # NoEvent /\ locked' = [topic |-> t, version |-> sent'[t]]
           \/ \E k \in 1..Len(buffer'[MethodOf[t]]) :
                buffer'[MethodOf[t]][k] = [topic |-> t, version |-> sent'[t]])
    <3>1. log' = log /\ sent' = sent /\ listening' = listening /\ locked' = e /\ e # NoEvent
      BY <1>1, <1>2, <1>3
    <3> QED
      BY <2>3, <3>1, Zenon
  <2>5. \A a \in Events : Ahead(a)' => a.version <= sent'[a.topic]
    BY <1>1, <2>1
  <2> QED
    BY <1>1, <2>4, <2>5 DEF SentInv, Ahead, Logged
<1>12. CacheInv'
  <2> SUFFICES ASSUME NEW t \in Cached
               PROVE  \/ locked' # NoEvent /\ locked'.topic = t /\ latest'[t] = locked'.version
                      \/ (locked' # NoEvent => locked'.topic # t) /\ Newest(t, latest[t])'
    BY DEF CacheInv
  <2>1. CASE e.topic = t
    BY <1>2, <1>3, <2>1
  <2>2. CASE e.topic # t
    <3>1. latest'[t] = latest[t]
      BY <1>2, <1>3, <2>2
    <3>2. Newest(t, latest[t])
      BY <1>1 DEF HubInv, CacheInv
    <3>3. Newest(t, latest[t])'
      BY <1>1, <3>1, <3>2 DEF Newest
    <3> QED
      BY <1>3, <2>2, <3>3
  <2> QED
    BY <2>1, <2>2
<1> QED
  BY <1>8, <1>9, <1>10, <1>11, <1>12 DEF HubInv

\* The event that was being published becomes the last of the log.
LEMMA BroadcastHub ==
  ASSUME TypeOK, HubInv, Broadcast
  PROVE  HubInv'
<1> USE DEF TypeOK
<1> DEFINE n == Len(log)
           e == locked
<1>1. /\ locked \in Events /\ locked # NoEvent /\ log' = Append(log, locked) /\ locked' = NoEvent
      /\ sent' = sent /\ buffer' = buffer /\ listening' = listening /\ latest' = latest
  BY DEF Broadcast, sourceVars
<1>2. /\ n \in Nat /\ Len(log') = n + 1 /\ log'[n + 1] = e
      /\ \A i \in 1..n : log'[i] = log[i]
  BY <1>1, AppendProperties, LenProperties
<1>r. /\ n + 1 \in 1..(n + 1)
      /\ \A i \in 1..(n + 1) : i = n + 1 \/ i \in 1..n
      /\ \A i \in 1..n : i \in 1..(n + 1) /\ \A k \in 1..(i - 1) : k \in 1..n
  BY <1>2
<1>3. \A a : Ahead(a)' <=> Ahead(a)
  <2>1. ASSUME NEW a PROVE Logged(a)' <=> Logged(a) \/ a = e
    <3>1. Logged(a)' <=> \E i \in 1..(n + 1) : log'[i] = a
      BY <1>2 DEF Logged
    <3> QED
      BY <1>2, <1>r, <3>1 DEF Logged
  <2> QED
    BY <1>1, <2>1 DEF Ahead
<1>4. /\ \A i \in 1..n : log[i].topic = e.topic => log[i].version < e.version
      /\ e.version > 1 => \E k \in 1..n : log[k] = Previous(e)
  BY <1>1 DEF HubInv, LockedInv, Logged
<1>5. LogInv'
  <2>1. ASSUME NEW i \in 1..(n + 1), NEW j \in 1..(n + 1), i < j, log'[i].topic = log'[j].topic
        PROVE  log'[i].version < log'[j].version
    <3>1. i \in 1..n /\ log'[i] = log[i]
      BY <1>2, <2>1
    <3>2. CASE j \in 1..n
      BY <1>2, <2>1, <3>1, <3>2 DEF HubInv, LogInv
    <3>3. CASE j = n + 1
      BY <1>2, <1>4, <2>1, <3>1, <3>3
    <3> QED
      BY <1>2, <3>2, <3>3
  <2>2. ASSUME NEW i \in 1..(n + 1), log'[i].version > 1
        PROVE  \E k \in 1..(i - 1) : log'[k] = Previous(log'[i])
    <3>1. CASE i \in 1..n
      <4>1. PICK k \in 1..(i - 1) : log[k] = Previous(log[i])
        BY <1>2, <2>2, <3>1 DEF HubInv, LogInv
      <4>2. log'[i] = log[i] /\ log'[k] = log[k] /\ k \in 1..(i - 1)
        BY <1>2, <1>r, <3>1
      <4> QED
        BY <4>1, <4>2
    <3>2. CASE i = n + 1
      BY <1>2, <1>4, <2>2, <3>2
    <3> QED
      BY <1>2, <3>1, <3>2
  <2> QED
    BY <1>2, <2>1, <2>2 DEF LogInv, Previous
<1>6. LockedInv'
  BY <1>1 DEF LockedInv
<1>7. BufferInv'
  BY <1>1, <1>3, SameBuffer, Zenon DEF HubInv
<1>8. SentInv'
  BY <1>1, <1>3 DEF HubInv, SentInv
<1>9. CacheInv'
  <2> SUFFICES ASSUME NEW t \in Cached
               PROVE  IF latest[t] = 0 THEN \A i \in 1..(n + 1) : log'[i].topic # t
                      ELSE \E i \in 1..(n + 1) :
                             /\ log'[i] = [topic |-> t, version |-> latest[t]]
                             /\ \A j \in (i + 1)..(n + 1) : log'[j].topic # t
    <3>1. locked' = NoEvent /\ latest' = latest /\ Len(log') = n + 1
      BY <1>1, <1>2
    <3> QED
      BY <3>1 DEF CacheInv, Newest
  <2>0. \/ e.topic = t /\ latest[t] = e.version
        \/ e.topic # t /\ Newest(t, latest[t])
    BY <1>1 DEF HubInv, CacheInv
  <2>1. CASE e.topic = t
    <3>1. latest[t] = e.version /\ e.version \in Nat \ {0}
      BY <1>1, <2>0, <2>1 DEF Events
    <3>2. e = [topic |-> t, version |-> e.version]
      BY <1>1, <2>1 DEF Events
    <3>3. \A j \in (n + 2)..(n + 1) : FALSE
      BY <1>2
    <3> QED
      BY <1>2, <1>r, <3>1, <3>2, <3>3
  <2>2. CASE e.topic # t
    <3>1. CASE latest[t] = 0
      <4>1. \A i \in 1..n : log[i].topic # t
        BY <2>0, <2>2, <3>1 DEF Newest
      <4> QED
        BY <1>2, <1>r, <2>2, <3>1, <4>1
    <3>2. CASE latest[t] # 0
      <4>1. PICK i \in 1..n : /\ log[i] = [topic |-> t, version |-> latest[t]]
                              /\ \A j \in (i + 1)..n : log[j].topic # t
        BY <2>0, <2>2, <3>2 DEF Newest
      <4>2. ASSUME NEW j \in (i + 1)..(n + 1) PROVE log'[j].topic # t
        <5>1. CASE j = n + 1
          BY <1>2, <2>2, <5>1
        <5>2. CASE j # n + 1
          <6>1. j \in (i + 1)..n /\ j \in 1..n
            BY <1>2, <5>2
          <6> QED
            BY <1>2, <4>1, <6>1
        <5> QED
          BY <5>1, <5>2
      <4> QED
        BY <1>2, <3>2, <4>1, <4>2
    <3> QED
      BY <3>1, <3>2
  <2> QED
    BY <2>1, <2>2
<1> QED
  BY <1>5, <1>6, <1>7, <1>8, <1>9 DEF HubInv

\* Every step keeps the invariant of the hub.
LEMMA StepHub ==
  ASSUME TypeOK, HubInv, [Next]_vars
  PROVE  HubInv'
<1>1. ASSUME UNCHANGED <<sent, buffer, listening, hubVars>> PROVE HubInv'
  <2>1. /\ sent' = sent /\ buffer' = buffer /\ listening' = listening
        /\ locked' = locked /\ latest' = latest /\ log' = log
    BY <1>1 DEF hubVars
  <2>2. \A e : Ahead(e)' <=> Ahead(e)
    BY <2>1, SameAhead
  <2>3. LogInv' /\ LockedInv'
    BY <2>1, Zenon DEF HubInv, LogInv, LockedInv, Logged, Previous
  <2>4. BufferInv'
    BY <2>1, <2>2, SameBuffer DEF HubInv
  <2>5. SentInv'
    BY <2>1, <2>2, Zenon DEF HubInv, SentInv
  <2>6. CacheInv'
    BY <2>1, SameCache DEF HubInv
  <2> QED
    BY <2>3, <2>4, <2>5, <2>6 DEF HubInv
<1>2. ASSUME NEW t \in Topics, Notify(t) PROVE HubInv'
  BY <1>2, NotifyHub
<1>3. ASSUME NEW m \in Methods, Record(m) PROVE HubInv'
  BY <1>3, RecordHub
<1>4. ASSUME NEW m \in Methods, Abort(m) PROVE HubInv'
  BY <1>1, <1>4 DEF Abort
<1>5. CASE Broadcast
  BY <1>5, BroadcastHub
<1>6. ASSUME NEW s \in Subscribers,
             Subscribe(s) \/ ReceiveCached(s) \/ ReceiveLive(s) \/ Skip(s) \/ Leave(s)
      PROVE  HubInv'
  BY <1>1, <1>6 DEF Subscribe, ReceiveCached, ReceiveLive, Skip, Leave, sourceVars
<1>7. CASE UNCHANGED vars
  BY <1>1, <1>7 DEF vars, sourceVars
<1> QED
  BY <1>2, <1>3, <1>4, <1>5, <1>6, <1>7 DEF Next
------------------------------------------------------------------------------
\* The streams.

\* What a subscriber has read stays as it is when the log grows.
LEMMA LogGrows ==
  ASSUME NEW r \in Readers, NEW l, NEW m, Len(l) \in Nat, Len(m) \in Nat,
         Len(l) <= Len(m), \A k \in 1..Len(l) : m[k] = l[k], Reads(r, l)
  PROVE  Reads(r, m)
<1>1. r.next \in Nat \ {0} /\ r.next <= Len(l) + 1
  BY DEF Readers, Reads, Position
<1>2. \A k \in 1..(r.next - 1) : m[k] = l[k]
  BY <1>1
<1>3. Position(r, m)
  <2>1. \A i \in 1..Len(r.got) : \E k \in 1..(r.next - 1) : m[k] = r.got[i]
    BY <1>2, Zenon DEF Reads, Position
  <2>2. r.next <= Len(m) + 1
    BY <1>1
  <2> QED
    BY <2>1, <2>2, Zenon DEF Reads, Position
<1>4. Pending(r, m)
  BY <1>2 DEF Reads, Pending
<1>5. Complete(r, m)
  BY <1>2 DEF Reads, Complete
<1> QED
  BY <1>3, <1>4, <1>5 DEF Reads

\* A subscription starts with the newest event of every cached topic.
LEMMA SubscribeReads ==
  ASSUME TypeOK, HubInv, locked = NoEvent, NEW r \in Readers, Reads(r, log), r.state = "new",
         NEW q, q = [state |-> "open", backlog |-> Snapshot, next |-> Len(log) + 1,
                     got |-> r.got, lagged |-> r.lagged]
  PROVE  Reads(q, log)
<1>1. /\ q.state = "open" /\ q.backlog = Snapshot /\ q.next = Len(log) + 1 /\ q.got = <<>>
      /\ Len(log) \in Nat /\ q.next - 1 = Len(log)
  BY LenProperties DEF TypeOK, Reads, Position
<1>2. Len(q.got) = 0
  BY <1>1, EmptySeq
<1>3. \A t \in Cached : t \in Topics /\ latest[t] \in Nat /\ Newest(t, latest[t])
  BY DEF HubInv, CacheInv, TypeOK
<1>4. Position(q, log)
  BY <1>1, <1>2 DEF Position
<1>5. Pending(q, log)
  <2> SUFFICES ASSUME NEW t \in Cached, latest[t] > 0
               PROVE  /\ \E k \in 1..Len(log) : log[k] = [topic |-> t, version |-> latest[t]]
                      /\ \A u \in Cached : u = t =>
                           [topic |-> u, version |-> latest[u]] = [topic |-> t, version |-> latest[t]]
    BY <1>1, <1>2 DEF Pending, Snapshot
  <2> QED
    BY <1>3 DEF Newest
<1>6. ASSUME NEW k \in 1..Len(log), log[k].topic \in Cached
      PROVE  Given(q, log[k].topic, log[k].version)
  <2> DEFINE t == log[k].topic
             e == [topic |-> t, version |-> latest[t]]
  <2>1. latest[t] # 0
    BY <1>3, <1>6 DEF Newest
  <2>2. PICK i \in 1..Len(log) : log[i] = e /\ \A j \in (i + 1)..Len(log) : log[j].topic # t
    BY <1>3, <1>6, <2>1 DEF Newest
  <2>3. e \in Snapshot
    BY <1>3, <1>6, <2>1 DEF Snapshot
  <2>4. k <= i
    BY <1>1, <2>2
  <2>5. log[k].version \in Nat /\ log[i].version \in Nat
    BY EventTypes DEF TypeOK
  <2>6. log[k].version <= log[i].version
    BY <2>2, <2>4, <2>5 DEF HubInv, LogInv
  <2> QED
    BY <1>1, <2>2, <2>3, <2>5, <2>6 DEF Given
<1>7. Complete(q, log)
  BY <1>1, <1>2, <1>6 DEF Complete
<1>8. InOrder(q) /\ NoGap(q)
  BY <1>2 DEF InOrder, NoGap
<1> QED
  BY <1>4, <1>5, <1>7, <1>8 DEF Reads

\* An event that is newer than what a subscriber has of its topic keeps the order.
LEMMA OrderKept ==
  ASSUME NEW g \in Seq(Events), NEW e \in Events, NEW r, r.got = g, InOrder(r),
         \A i \in 1..Len(g) : g[i].topic = e.topic => g[i].version < e.version,
         NEW q, q.got = Append(g, e)
  PROVE  InOrder(q)
<1> DEFINE n == Len(g)
<1>1. /\ n \in Nat /\ Len(Append(g, e)) = n + 1 /\ Append(g, e)[n + 1] = e
      /\ \A i \in 1..n : Append(g, e)[i] = g[i]
  BY AppendProperties, LenProperties
<1>2. \A i, j \in 1..n : i < j /\ g[i].topic = g[j].topic => g[i].version < g[j].version
  BY Zenon DEF InOrder
<1>3. ASSUME NEW i \in 1..(n + 1), NEW j \in 1..(n + 1), i < j,
             Append(g, e)[i].topic = Append(g, e)[j].topic
      PROVE  Append(g, e)[i].version < Append(g, e)[j].version
  <2>1. i \in 1..n /\ (j \in 1..n \/ j = n + 1)
    BY <1>1, <1>3
  <2>2. CASE j \in 1..n
    BY <1>1, <1>2, <1>3, <2>1, <2>2, Zenon
  <2>3. CASE j = n + 1
    BY <1>1, <1>3, <2>1, <2>3, Zenon
  <2> QED
    BY <2>1, <2>2, <2>3
<1> QED
  BY <1>1, <1>3, SMTT(40) DEF InOrder

\* The event of a snapshot is the first that a subscriber gets of its topic.
LEMMA CachedReads ==
  ASSUME TypeOK, NEW r \in Readers, Reads(r, log), r.state = "open", NEW e \in r.backlog,
         NEW q, q.state = r.state, q.backlog = r.backlog \ {e}, q.next = r.next,
         q.got = Append(r.got, e), q.lagged = r.lagged
  PROVE  Reads(q, log)
<1> DEFINE n == Len(r.got)
<1>1. /\ e \in Events /\ r.got \in Seq(Events) /\ r.next \in Nat \ {0}
      /\ q.state = "open" /\ q.next = r.next /\ q.backlog = r.backlog \ {e} /\ q.lagged = r.lagged
  BY DEF Readers
<1>2. /\ n \in Nat /\ Len(q.got) = n + 1 /\ q.got[n + 1] = e
      /\ \A i \in 1..n : q.got[i] = r.got[i]
  BY <1>1, AppendProperties, LenProperties
<1>r. /\ n + 1 \in 1..(n + 1)
      /\ \A i \in 1..(n + 1) : i = n + 1 \/ i \in 1..n
      /\ \A i \in 1..n : i \in 1..(n + 1) /\ \A k \in 1..(i - 1) : k \in 1..n
  BY <1>2
<1>3. /\ e.topic \in Cached
      /\ \E k \in 1..(r.next - 1) : log[k] = e
      /\ \A f \in r.backlog : f.topic = e.topic => f = e
      /\ \A i \in 1..n : r.got[i].topic # e.topic
  BY DEF Reads, Pending
<1>4. Position(q, log)
  <2>1. \A i \in 1..(n + 1) : \E k \in 1..(r.next - 1) : log[k] = q.got[i]
    <3> SUFFICES ASSUME NEW i \in 1..(n + 1) PROVE \E k \in 1..(r.next - 1) : log[k] = q.got[i]
      OBVIOUS
    <3>1. CASE i = n + 1
      BY <1>2, <1>3, <3>1, Zenon
    <3>2. CASE i \in 1..n
      BY <1>2, <3>2, Zenon DEF Reads, Position
    <3> QED
      BY <1>r, <3>1, <3>2, Zenon
  <2>2. q.next <= Len(log) + 1 /\ q.state # "new"
    BY <1>1 DEF Reads, Position
  <2> QED
    BY <1>1, <1>2, <2>1, <2>2, Zenon DEF Position
<1>5. Pending(q, log)
  BY <1>1, <1>2, <1>r, <1>3 DEF Reads, Pending
<1>6. InOrder(q)
  BY <1>1, <1>3, OrderKept DEF Reads
<1>7. NoGap(q)
  <2> SUFFICES ASSUME ~r.lagged, NEW i \in 1..(n + 1), NEW j \in 1..(n + 1),
                      i < j, q.got[i].topic = q.got[j].topic
               PROVE  \E k \in 1..(j - 1) : q.got[k] = Previous(q.got[j])
    <3>1. Len(q.got) = n + 1 /\ q.lagged = r.lagged
      BY <1>1, <1>2
    <3> QED
      BY <3>1, SMTT(40) DEF NoGap
  <2>1. i \in 1..n
    BY <1>2
  <2>2. j \in 1..n
    BY <1>2, <1>r, <1>3, <2>1
  <2>3. PICK k \in 1..(j - 1) : r.got[k] = Previous(r.got[j])
    BY <1>2, <2>1, <2>2 DEF Reads, NoGap
  <2> QED
    BY <1>2, <1>r, <2>2, <2>3
<1>8. Complete(q, log)
  <2> SUFFICES ASSUME ~r.lagged, NEW k \in 1..(r.next - 1),
                      log[k].topic \in Cached \/ \E i \in 1..(n + 1) : q.got[i].topic = log[k].topic
               PROVE  Given(q, log[k].topic, log[k].version)
    BY <1>1, <1>2 DEF Complete
  <2>1. log[k].topic \in Cached \/ \E i \in 1..n : r.got[i].topic = log[k].topic
    BY <1>2, <1>r, <1>3
  <2>2. Given(r, log[k].topic, log[k].version)
    BY <2>1 DEF Reads, Complete
  <2> QED
    BY SMTT(45), <1>1, <1>2, <1>r, <2>2 DEF Given
<1> QED
  BY <1>4, <1>5, <1>6, <1>7, <1>8 DEF Reads

\* A live event is newer than everything a subscriber has of its topic, and the next one
\* if it has any.
LEMMA LiveReads ==
  ASSUME TypeOK, HubInv, NEW r \in Readers, Reads(r, log), r.state = "open", r.backlog = {},
         r.next <= Len(log),
         NEW q, q.state = r.state, q.backlog = r.backlog, q.next = r.next + 1,
         q.got = Append(r.got, log[r.next]), q.lagged = r.lagged
  PROVE  Reads(q, log)
<1> DEFINE n == Len(r.got)
           e == log[r.next]
<1>1. /\ r.next \in 1..Len(log) /\ Len(log) \in Nat /\ r.got \in Seq(Events)
      /\ q.state = "open" /\ q.next = r.next + 1 /\ q.backlog = {} /\ q.lagged = r.lagged
  BY LenProperties DEF Readers, TypeOK
<1>e. e \in Events /\ e.version \in Nat /\ e.topic \in Topics
  BY SMTT(45), <1>1, EventTypes DEF TypeOK
<1>2. /\ n \in Nat /\ Len(q.got) = n + 1 /\ q.got[n + 1] = e
      /\ \A i \in 1..n : q.got[i] = r.got[i] /\ r.got[i] \in Events /\ r.got[i].version \in Nat
  <2>1. n \in Nat /\ Len(q.got) = n + 1 /\ q.got[n + 1] = e /\ \A i \in 1..n : q.got[i] = r.got[i]
    BY <1>1, <1>e, AppendProperties, LenProperties
  <2>2. ASSUME NEW i \in 1..n PROVE r.got[i] \in Events /\ r.got[i].version \in 1..MaxVersion
    BY <1>1, ElementOfSeq, EventTypes
  <2>3. 1..MaxVersion \subseteq Nat
    OBVIOUS
  <2> QED
    BY <2>1, <2>2, <2>3, Zenon
<1>r. /\ n + 1 \in 1..(n + 1)
      /\ \A i \in 1..(n + 1) : i = n + 1 \/ i \in 1..n
      /\ \A i \in 1..n : i \in 1..(n + 1) /\ \A k \in 1..(i - 1) : k \in 1..n
  BY <1>2
<1>k. /\ r.next \in 1..(q.next - 1)
      /\ \A k \in 1..(q.next - 1) : k = r.next \/ k \in 1..(r.next - 1)
      /\ \A k \in 1..(r.next - 1) : k \in 1..(q.next - 1) /\ k \in 1..Len(log) /\ k < r.next
  BY <1>1
<1>3. \A i \in 1..n : r.got[i].topic = e.topic => r.got[i].version < e.version
  <2> SUFFICES ASSUME NEW i \in 1..n, r.got[i].topic = e.topic
               PROVE  r.got[i].version < e.version
    OBVIOUS
  <2>1. PICK k \in 1..(r.next - 1) : log[k] = r.got[i]
    BY Zenon DEF Reads, Position
  <2>2. k \in 1..Len(log) /\ k < r.next
    BY <1>k, <2>1, Zenon
  <2> QED
    BY <1>1, <2>1, <2>2, Zenon DEF HubInv, LogInv
<1>4. Position(q, log)
  <2>1. \A i \in 1..(n + 1) : \E k \in 1..(q.next - 1) : log[k] = q.got[i]
    <3>1. \A i \in 1..n : \E k \in 1..(r.next - 1) : log[k] = r.got[i]
      BY DEF Reads, Position
    <3> SUFFICES ASSUME NEW i \in 1..(n + 1)
                 PROVE  \E k \in 1..(q.next - 1) : log[k] = q.got[i]
      OBVIOUS
    <3>2. CASE i = n + 1
      BY <1>2, <1>k, <3>2, Zenon
    <3>3. CASE i \in 1..n
      <4>1. PICK k \in 1..(r.next - 1) : log[k] = r.got[i]
        BY <3>1, <3>3, Zenon
      <4> QED
        BY <1>2, <1>k, <3>3, <4>1, Zenon
    <3> QED
      BY <1>r, <3>2, <3>3, Zenon
  <2> QED
    BY <1>1, <1>2, <2>1 DEF Position
<1>5. Pending(q, log)
  BY <1>1 DEF Pending
<1>6. InOrder(q)
  BY <1>1, <1>e, <1>3, OrderKept DEF Reads
<1>7. NoGap(q)
  <2> SUFFICES ASSUME ~r.lagged, NEW i \in 1..(n + 1), NEW j \in 1..(n + 1),
                      i < j, q.got[i].topic = q.got[j].topic
               PROVE  \E k \in 1..(j - 1) : q.got[k] = Previous(q.got[j])
    <3>1. Len(q.got) = n + 1 /\ q.lagged = r.lagged
      BY <1>1, <1>2
    <3> QED
      BY SMTT(45), <3>1 DEF NoGap
  <2>1. i \in 1..n
    BY <1>2
  <2>2. CASE j \in 1..n
    <3>1. PICK k \in 1..(j - 1) : r.got[k] = Previous(r.got[j])
      BY <1>2, <2>1, <2>2 DEF Reads, NoGap
    <3> QED
      BY <1>2, <1>r, <2>2, <3>1
  <2>3. CASE j = n + 1
    <3>1. r.got[i].topic = e.topic /\ e.version > 1
      <4>1. r.got[i].version \in 1..MaxVersion
        BY <1>1, <2>1, EventTypes, Zenon
      <4>2. r.got[i].topic = e.topic
        BY <1>2, <2>1, <2>3, Zenon
      <4>3. r.got[i].version < e.version
        BY <1>3, <2>1, <4>2, Zenon
      <4>4. \A u \in 1..MaxVersion, v \in Nat : u < v => v > 1
        OBVIOUS
      <4> QED
        BY <1>e, <4>1, <4>2, <4>3, <4>4, Zenon
    <3>2. PICK k \in 1..(r.next - 1) : log[k] = Previous(e)
      BY <1>1, <3>1 DEF HubInv, LogInv
    <3>3. log[k].topic = e.topic /\ log[k].version = e.version - 1
      BY <3>2 DEF Previous
    <3>4. Given(r, e.topic, e.version - 1)
      BY <2>1, <3>1, <3>3 DEF Reads, Complete
    <3>5. PICK p \in 1..n : r.got[p].topic = e.topic /\ r.got[p].version >= e.version - 1
      BY <3>4 DEF Given
    <3>6. r.got[p].version = e.version - 1
      <4>1. r.got[p].version \in Nat /\ r.got[p].version < e.version
        BY <1>2, <1>3, <3>5
      <4>2. \A x, y \in Nat : x < y /\ x >= y - 1 => x = y - 1
        OBVIOUS
      <4> QED
        BY <1>e, <3>5, <4>1, <4>2, Zenon
    <3>7. r.got[p] = Previous(e)
      BY <1>2, <3>5, <3>6 DEF Previous, Events
    <3> QED
      BY <1>2, <2>3, <3>7
  <2> QED
    BY <1>r, <2>2, <2>3
<1>8. Complete(q, log)
  <2>0. Len(q.got) = n + 1
    BY <1>2
  <2> SUFFICES ASSUME ~r.lagged, NEW k \in 1..(q.next - 1),
                      log[k].topic \in Cached \/ \E i \in 1..Len(q.got) : q.got[i].topic = log[k].topic
               PROVE  \E i \in 1..Len(q.got) : q.got[i].topic = log[k].topic /\ q.got[i].version >= log[k].version
    BY ZenonT(40), <1>1 DEF Complete, Given
  <2>1. CASE k = r.next
    <3>1. /\ n + 1 \in 1..(n + 1) /\ q.got[n + 1] = log[k]
          /\ log[k].version \in Nat
      BY <2>0, <1>2, <1>e, <1>r, <2>1
    <3>2. \A x \in Nat : x >= x
      OBVIOUS
    <3> QED
      BY <2>0, <3>1, <3>2, Zenon
  <2>2. CASE k \in 1..(r.next - 1) /\ log[k].topic = e.topic
    <3>1. log[k].version < e.version /\ log[k].version \in Nat
      <4>1. k \in 1..Len(log) /\ k < r.next
        BY <1>k, <2>2
      <4>2. log[k].version \in Nat
        <5>1. log \in Seq(Events)
          BY DEF TypeOK
        <5>2. log[k].version \in 1..MaxVersion
          BY <4>1, <5>1, EventTypes, Zenon
        <5> QED
          BY <5>2
      <4> QED
        BY <1>1, <2>2, <4>1, <4>2 DEF HubInv, LogInv
    <3>2. e.version >= log[k].version
      BY <1>e, <3>1
    <3>3. n + 1 \in 1..Len(q.got) /\ q.got[n + 1] = e
      BY <2>0, <1>2, <1>r, Zenon
    <3> QED
      BY <2>2, <3>2, <3>3, Zenon
  <2>3. CASE k \in 1..(r.next - 1) /\ log[k].topic # e.topic
    <3>1. log[k].topic \in Cached \/ \E i \in 1..n : r.got[i].topic = log[k].topic
      BY <2>0, <1>2, <1>r, <2>3
    <3>2. Given(r, log[k].topic, log[k].version)
      BY <2>3, <3>1 DEF Reads, Complete
    <3> QED
      BY <2>0, <1>2, <1>r, <3>2 DEF Given
  <2> QED
    BY <1>k, <2>1, <2>2, <2>3
<1> QED
  BY <1>4, <1>5, <1>6, <1>7, <1>8 DEF Reads

\* Skipping what the channel no longer keeps, or leaving, gives a subscriber nothing.
LEMMA SkipReads ==
  ASSUME TypeOK, NEW r \in Readers, Reads(r, log), r.state = "open", r.backlog = {}, r.next < Oldest,
         NEW q, q = [state |-> r.state, backlog |-> r.backlog, next |-> Oldest,
                     got |-> r.got, lagged |-> TRUE]
  PROVE  Reads(q, log)
<1>1. /\ Len(log) \in Nat /\ Oldest \in Nat \ {0} /\ Oldest <= Len(log) + 1 /\ r.next \in Nat
      /\ q.state = "open" /\ q.backlog = {} /\ q.next = Oldest /\ q.got = r.got /\ q.lagged = TRUE
  BY LenProperties DEF TypeOK, Oldest, Readers
<1>2. Position(q, log)
  BY <1>1 DEF Reads, Position
<1> QED
  BY <1>1, <1>2 DEF Reads, Pending, InOrder, NoGap, Complete

LEMMA LeaveReads ==
  ASSUME NEW r \in Readers, Reads(r, log),
         NEW q, q = [state |-> "left", backlog |-> r.backlog, next |-> r.next,
                     got |-> r.got, lagged |-> r.lagged]
  PROVE  Reads(q, log)
<1>1. /\ q.state = "left" /\ q.backlog = r.backlog /\ q.next = r.next /\ q.got = r.got
      /\ q.lagged = r.lagged
  OBVIOUS
<1> QED
  BY <1>1 DEF Reads, Position, Pending, InOrder, NoGap, Complete, Given

\* Every step keeps the invariant of the subscribers.
LEMMA StepReads ==
  ASSUME TypeOK, HubInv, ReaderInv, [Next]_vars
  PROVE  ReaderInv'
<1>0. \A s \in Subscribers : reader[s] \in Readers /\ Reads(reader[s], log)
  BY DEF TypeOK, ReaderInv
<1>1. ASSUME UNCHANGED <<log, reader>> PROVE ReaderInv'
  BY <1>1 DEF ReaderInv
<1>2. ASSUME NEW s \in Subscribers, log' = log, NEW q, Reads(q, log),
             reader' = [reader EXCEPT ![s] = q]
      PROVE  ReaderInv'
  <2>1. \A t \in Subscribers : reader'[t] = IF t = s THEN q ELSE reader[t]
    BY <1>2 DEF TypeOK
  <2> QED
    BY <1>0, <1>2, <2>1 DEF ReaderInv
<1>3. ASSUME NEW t \in Topics, Notify(t) PROVE ReaderInv'
  BY <1>1, <1>3 DEF Notify, hubVars
<1>4. ASSUME NEW m \in Methods, Record(m) \/ Abort(m) PROVE ReaderInv'
  BY <1>1, <1>4 DEF Record, Abort, hubVars
<1>5. CASE Broadcast
  <2>1. log' = Append(log, locked) /\ locked \in Events /\ reader' = reader
    BY <1>5 DEF Broadcast, TypeOK
  <2>2. /\ Len(log) \in Nat /\ Len(log') = Len(log) + 1
        /\ \A k \in 1..Len(log) : log'[k] = log[k]
    BY <2>1, AppendProperties, LenProperties DEF TypeOK
  <2>3. Len(log) <= Len(log') /\ Len(log') \in Nat
    BY <2>2
  <2>4. \A s \in Subscribers : Reads(reader[s], log')
    BY <1>0, <2>2, <2>3, LogGrows
  <2> QED
    BY <2>1, <2>4 DEF ReaderInv
<1>6. ASSUME NEW s \in Subscribers, Subscribe(s) PROVE ReaderInv'
  <2> DEFINE q == [state |-> "open", backlog |-> Snapshot, next |-> Len(log) + 1,
                   got |-> reader[s].got, lagged |-> reader[s].lagged]
  <2>1. reader[s].state = "new" /\ locked = NoEvent /\ log' = log
    BY <1>6 DEF Subscribe, hubVars
  <2>2. reader' = [reader EXCEPT ![s] = q]
    BY <1>6, ReaderSteps
  <2>3. Reads(q, log)
    BY <1>0, <2>1, SubscribeReads
  <2> QED
    BY <1>2, <2>1, <2>2, <2>3
<1>7. ASSUME NEW s \in Subscribers, ReceiveCached(s) PROVE ReaderInv'
  <2>1. reader[s].state = "open" /\ log' = log
    BY <1>7 DEF ReceiveCached, hubVars
  <2>2. PICK e \in reader[s].backlog : reader' = [reader EXCEPT ![s] =
          [state |-> reader[s].state, backlog |-> reader[s].backlog \ {e},
           next |-> reader[s].next, got |-> Append(reader[s].got, e),
           lagged |-> reader[s].lagged]]
    BY <1>7, ReaderSteps
  <2>3. Reads([state |-> reader[s].state, backlog |-> reader[s].backlog \ {e},
               next |-> reader[s].next, got |-> Append(reader[s].got, e),
               lagged |-> reader[s].lagged], log)
    BY <1>0, <2>1, CachedReads
  <2> QED
    BY <1>2, <2>1, <2>2, <2>3
<1>8. ASSUME NEW s \in Subscribers, ReceiveLive(s) PROVE ReaderInv'
  <2> DEFINE q == [state |-> reader[s].state, backlog |-> reader[s].backlog,
                   next |-> reader[s].next + 1, got |-> Append(reader[s].got, log[reader[s].next]),
                   lagged |-> reader[s].lagged]
  <2>1. /\ reader[s].state = "open" /\ reader[s].backlog = {} /\ reader[s].next <= Len(log)
        /\ log' = log
    BY <1>8 DEF ReceiveLive, hubVars
  <2>2. reader' = [reader EXCEPT ![s] = q]
    BY <1>8, ReaderSteps
  <2>3. Reads(q, log)
    BY <1>0, <2>1, LiveReads
  <2> QED
    BY <1>2, <2>1, <2>2, <2>3
<1>9. ASSUME NEW s \in Subscribers, Skip(s) PROVE ReaderInv'
  <2> DEFINE q == [state |-> reader[s].state, backlog |-> reader[s].backlog, next |-> Oldest,
                   got |-> reader[s].got, lagged |-> TRUE]
  <2>1. /\ reader[s].state = "open" /\ reader[s].backlog = {} /\ reader[s].next < Oldest
        /\ log' = log
    BY <1>9 DEF Skip, hubVars
  <2>2. reader' = [reader EXCEPT ![s] = q]
    BY <1>9, ReaderSteps
  <2>3. Reads(q, log)
    BY <1>0, <2>1, SkipReads
  <2> QED
    BY <1>2, <2>1, <2>2, <2>3
<1>10. ASSUME NEW s \in Subscribers, Leave(s) PROVE ReaderInv'
  <2> DEFINE q == [state |-> "left", backlog |-> reader[s].backlog, next |-> reader[s].next,
                   got |-> reader[s].got, lagged |-> reader[s].lagged]
  <2>1. log' = log
    BY <1>10 DEF Leave, hubVars
  <2>2. reader' = [reader EXCEPT ![s] = q]
    BY <1>10, ReaderSteps
  <2>3. Reads(q, log)
    BY <1>0, LeaveReads
  <2> QED
    BY <1>2, <2>1, <2>2, <2>3
<1>11. CASE UNCHANGED vars
  BY <1>1, <1>11 DEF vars, hubVars
<1> QED
  BY <1>3, <1>4, <1>5, <1>6, <1>7, <1>8, <1>9, <1>10, <1>11 DEF Next

------------------------------------------------------------------------------
\* The theorems.

LEMMA InitInv == Init => IndInv
<1> SUFFICES ASSUME Init PROVE IndInv
  OBVIOUS
<1>1. TypeOK
  BY InitTypes
<1>2. /\ log = <<>> /\ locked = NoEvent /\ Len(<<>>) = 0
      /\ \A m \in Methods : buffer[m] = <<>>
      /\ \A t \in Topics : sent[t] = 0 /\ latest[t] = 0
  BY EmptySeq DEF Init
<1>3. \A a : ~Ahead(a)
  BY <1>2 DEF Ahead, Logged
<1>4. LogInv /\ LockedInv
  BY <1>2 DEF LogInv, LockedInv
<1>5. BufferInv /\ SentInv
  BY <1>2, <1>3 DEF BufferInv, SentInv
<1>6. CacheInv
  <2>1. \A t \in Cached : latest[t] = 0
    BY <1>2
  <2>2. \A i \in 1..Len(log) : FALSE
    BY <1>2
  <2>3. \A t \in Cached : Newest(t, 0)
    BY <2>2 DEF Newest
  <2> QED
    BY <1>2, <2>1, <2>3 DEF CacheInv
<1>7. ASSUME NEW s \in Subscribers PROVE Reads(reader[s], log)
  <2>1. reader[s] = [state |-> "new", backlog |-> {}, next |-> 1, got |-> <<>>, lagged |-> FALSE]
    BY DEF Init
  <2> QED
    BY <1>2, <2>1 DEF Reads, Position, Pending, InOrder, NoGap, Complete
<1> QED
  BY <1>1, <1>4, <1>5, <1>6, <1>7 DEF IndInv, HubInv, ReaderInv

LEMMA StepInv == IndInv /\ [Next]_vars => IndInv'
<1> SUFFICES ASSUME IndInv, [Next]_vars PROVE IndInv'
  OBVIOUS
<1>1. TypeOK /\ HubInv /\ ReaderInv /\ CacheInv
  BY DEF IndInv, HubInv
<1> QED
  BY <1>1, StepTypes, StepHub, StepReads DEF IndInv

\* The invariant says what subscribers are promised.
LEMMA NothingMissed == IndInv => NothingMissedOrRepeated
<1> SUFFICES ASSUME IndInv, NEW s \in Subscribers
             PROVE  /\ \A i, j \in DOMAIN reader[s].got : Consecutive(s, i, j) =>
                         IF reader[s].lagged
                           THEN reader[s].got[j].version > reader[s].got[i].version
                           ELSE reader[s].got[j].version = reader[s].got[i].version + 1
                    /\ ~reader[s].lagged => CaughtUpIsCurrent(s)
  BY DEF NothingMissedOrRepeated
<1> DEFINE r == reader[s]
           n == Len(r.got)
<1>1. /\ r \in Readers /\ Reads(r, log) /\ r.got \in Seq(Events) /\ n \in Nat
      /\ DOMAIN r.got = 1..n /\ DOMAIN log = 1..Len(log) /\ Len(log) \in Nat
  BY LenProperties DEF IndInv, TypeOK, ReaderInv, Readers
<1>2. \A i \in 1..n : r.got[i].version \in Nat
  BY <1>1, EventTypes
<1>3. ASSUME NEW i \in 1..n, NEW j \in 1..n, Consecutive(s, i, j)
      PROVE  IF r.lagged THEN r.got[j].version > r.got[i].version
                         ELSE r.got[j].version = r.got[i].version + 1
  <2>1. /\ i < j /\ r.got[i].topic = r.got[j].topic
        /\ \A k \in (i + 1)..(j - 1) : r.got[k].topic # r.got[i].topic
    BY <1>3 DEF Consecutive
  <2>2. r.got[i].version < r.got[j].version
    BY <1>1, <2>1 DEF Reads, InOrder
  <2>3. CASE r.lagged
    BY <1>2, <2>2, <2>3
  <2>4. CASE ~r.lagged
    <3>1. PICK k \in 1..(j - 1) : r.got[k] = Previous(r.got[j])
      BY <1>1, <2>1, <2>4 DEF Reads, NoGap
    <3>2. r.got[k].topic = r.got[i].topic /\ r.got[k].version = r.got[j].version - 1
      BY <2>1, <3>1 DEF Previous
    <3>3. k \in 1..n /\ k <= i
      BY <1>1, <2>1, <3>2
    <3>4. CASE k = i
      BY SMTT(45), <1>2, <2>4, <3>2, <3>4
    <3>5. CASE k < i
      <4>1. r.got[k].version < r.got[i].version
        BY <1>1, <3>2, <3>3, <3>5 DEF Reads, InOrder
      <4> QED
        BY SMTT(30), <1>2, <2>2, <3>2, <3>3, <4>1
    <3> QED
      BY <3>3, <3>4, <3>5
  <2> QED
    BY <2>3, <2>4
<1>4. ASSUME ~r.lagged, r.backlog = {}, r.next > Len(log),
             NEW i \in 1..Len(log), log[i].topic \in Cached
      PROVE  \E j \in 1..n : r.got[j].topic = log[i].topic /\ r.got[j].version >= log[i].version
  <2>1. i \in 1..(r.next - 1)
    BY <1>1, <1>4 DEF Readers
  <2>2. Given(r, log[i].topic, log[i].version)
    BY <1>1, <1>4, <2>1 DEF Reads, Complete
  <2> QED
    BY <1>4, <2>2 DEF Given
<1> QED
  BY <1>1, <1>3, <1>4 DEF CaughtUpIsCurrent

LEMMA Invariance == Spec => []IndInv
<1>1. Init => IndInv
  BY InitInv
<1>2. IndInv /\ [Next]_vars => IndInv'
  BY StepInv
<1> QED
  BY <1>1, <1>2, PTL DEF Spec, SafeSpec

\* The variables of the hub keep their types, for every size of the channel and of the
\* subscriptions.
THEOREM TypeCorrect == Spec => []TypeOK
<1>1. IndInv => TypeOK
  BY DEF IndInv
<1> QED
  BY <1>1, Invariance, PTL

\* `subscribe` never misses or duplicates an update, however many tasks publish while
\* it takes its snapshot (src/lsp_events.rs, LspEvents::subscribe and publish).
THEOREM SubscribersMissNothing == Spec => []NothingMissedOrRepeated
  BY Invariance, NothingMissed, PTL

\* The snapshot of the cache is what compacting the log would give, at every moment when
\* nobody publishes.
LEMMA SnapshotIsCompacted ==
  ASSUME IndInv, locked = NoEvent
  PROVE  Snapshot = Feed!Compacted(log)
<1>1. /\ \A t \in Cached : t \in Topics /\ latest[t] \in Nat /\ Newest(t, latest[t])
      /\ Len(log) \in Nat /\ DOMAIN log = 1..Len(log)
  BY LenProperties DEF IndInv, HubInv, CacheInv, TypeOK
<1>2. \A i \in 1..Len(log) : log[i] \in Events /\ log[i].version \in Nat \ {0}
  BY EventTypes DEF IndInv, TypeOK
<1>3. ASSUME NEW e \in Snapshot PROVE e \in Feed!Compacted(log)
  <2>1. PICK t \in Cached : latest[t] > 0 /\ e = [topic |-> t, version |-> latest[t]]
    BY <1>3 DEF Snapshot
  <2>2. PICK i \in 1..Len(log) : log[i] = e /\ \A j \in (i + 1)..Len(log) : log[j].topic # t
    BY <1>1, <2>1 DEF Newest
  <2>3. log[i].topic \in Cached /\ \A j \in 1..Len(log) : j > i => log[j].topic # log[i].topic
    BY <1>1, <2>1, <2>2
  <2> QED
    BY <1>1, <2>2, <2>3 DEF Feed!Compacted
<1>4. ASSUME NEW e \in Feed!Compacted(log) PROVE e \in Snapshot
  <2>1. PICK i \in 1..Len(log) : /\ e = log[i] /\ log[i].topic \in Cached
                                 /\ \A j \in 1..Len(log) : j > i => log[j].topic # log[i].topic
    BY <1>1, <1>4 DEF Feed!Compacted
  <2> DEFINE t == log[i].topic
  <2>2. latest[t] # 0
    BY <1>1, <2>1 DEF Newest
  <2>3. PICK k \in 1..Len(log) : /\ log[k] = [topic |-> t, version |-> latest[t]]
                                 /\ \A j \in (k + 1)..Len(log) : log[j].topic # t
    BY <1>1, <2>1, <2>2 DEF Newest
  <2>4. k = i
    <3>1. ~(k > i)
      BY <2>1, <2>3
    <3>2. ~(i > k)
      BY <1>1, <2>3
    <3> QED
      BY <3>1, <3>2
  <2>5. latest[t] > 0
    BY <1>1, <2>1, <2>2
  <2> QED
    BY <2>1, <2>3, <2>4, <2>5 DEF Snapshot
<1> QED
  BY <1>3, <1>4

\* Publishing and subscribing are atomic for whoever only sees the streams: every step
\* of the hub, its tasks and its streams is a step of EventFeed, or none.
THEOREM HubImplementsFeed == Spec => FeedSafety
<1>1. Init => Feed!Init
  BY DEF Init, Feed!Init
<1>2. ASSUME IndInv, [Next]_vars PROVE [Feed!Next]_(Feed!vars)
  <2> USE DEF Feed!vars
  <2>1. TypeOK
    BY <1>2 DEF IndInv
  <2>2. ASSUME NEW t \in Topics, Notify(t) PROVE UNCHANGED <<log, reader>>
    BY <2>2 DEF Notify, hubVars
  <2>3. ASSUME NEW m \in Methods, Record(m) \/ Abort(m) PROVE UNCHANGED <<log, reader>>
    BY <2>3 DEF Record, Abort, hubVars
  <2>4. CASE Broadcast
    BY <2>1, <2>4 DEF Broadcast, TypeOK, Feed!Next, Feed!Publish
  <2>5. ASSUME NEW s \in Subscribers, Subscribe(s) PROVE Feed!Subscribe(s)
    <3>1. locked = NoEvent
      BY <2>5 DEF Subscribe
    <3>2. Snapshot = Feed!Compacted(log)
      BY <1>2, <3>1, SnapshotIsCompacted
    <3> QED
      BY <2>5, <3>2 DEF Subscribe, Feed!Subscribe, hubVars
  <2>6. ASSUME NEW s \in Subscribers, ReceiveCached(s) PROVE Feed!ReceiveCached(s)
    BY <2>6, Zenon DEF ReceiveCached, Feed!ReceiveCached, hubVars
  <2>7. Oldest = Feed!Oldest(log)
    BY DEF Oldest, Feed!Oldest
  <2>8. ASSUME NEW s \in Subscribers, ReceiveLive(s) PROVE Feed!ReceiveLive(s)
    BY <2>7, <2>8 DEF ReceiveLive, Feed!ReceiveLive, hubVars
  <2>9. ASSUME NEW s \in Subscribers, Skip(s) PROVE Feed!Skip(s)
    BY <2>7, <2>9 DEF Skip, Feed!Skip, hubVars
  <2>10. ASSUME NEW s \in Subscribers, Leave(s) PROVE Feed!Leave(s)
    BY <2>10 DEF Leave, Feed!Leave, hubVars
  <2>11. CASE UNCHANGED vars
    BY <2>11 DEF vars, hubVars
  <2> QED
    BY <1>2, <2>2, <2>3, <2>4, <2>5, <2>6, <2>8, <2>9, <2>10, <2>11 DEF Next, Feed!Next
<1> QED
  BY <1>1, <1>2, Invariance, PTL DEF Spec, SafeSpec, FeedSafety, Feed!Spec
==============================================================================
