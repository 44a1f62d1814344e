------------------------------ MODULE LspEvents ------------------------------
(***************************************************************************)
(* The hub for rust-analyzer's notifications (src/lsp_events.rs), the      *)
(* tasks that feed it (src/rust_analyzer.rs) and the gRPC streams that     *)
(* read it (RacliGrpc::lsp_events).                                        *)
(*                                                                         *)
(* One task per forwarded method takes notifications out of the JSON-RPC   *)
(* client's bounded subscription and publishes them: it updates the cache  *)
(* and then sends on the broadcast channel, holding the hub's lock.  The   *)
(* tasks, the subscribers and the readers of the status run on several     *)
(* threads.                                                                *)
(***************************************************************************)
EXTENDS Naturals, Sequences

CONSTANTS
  Topics,         \* documents, the server status, window messages
  Cached,         \* topics with a cache_key
  Methods,        \* FORWARDED_METHODS
  MethodOf,       \* MethodOf[t] is the method that carries topic t
  Subscribers,    \* gRPC clients that may call LspEvents, each once
  Capacity,       \* CHANNEL_CAPACITY
  BufferSize,     \* notifications the JSON-RPC client keeps per subscription
  MaxVersion,     \* bound of the model: notifications per topic
  NoEvent

ASSUME TopicsAssumption == Cached \subseteq Topics /\ MethodOf \in [Topics -> Methods]
ASSUME CapacityAssumption == Capacity \in Nat \ {0} /\ BufferSize \in Nat \ {0} /\ MaxVersion \in Nat

\* The notifications of each topic, in order.
Events == [topic : Topics, version : 1..MaxVersion]
ASSUME NoEventAssumption == NoEvent \notin Events

VARIABLES
  sent,       \* sent[t] is the number of notifications written for topic t
  buffer,     \* buffer[m] is the subscription's queue for method m
  listening,  \* listening[m]: the JSON-RPC client still has the subscription of m
  running,    \* running[m]: the task that forwards m still runs
  locked,     \* the event being published by the task that holds the lock, or NoEvent
  latest,     \* latest[t] is the version of topic t in the cache, 0 if there is none
  log,        \* history: every event sent on the channel
  reader      \* what each gRPC stream has been given and will read next

sourceVars == <<sent, buffer, listening, running>>
hubVars == <<locked, latest, log>>
vars == <<sourceVars, hubVars, reader>>

Init ==
  /\ sent = [t \in Topics |-> 0]
  /\ buffer = [m \in Methods |-> <<>>]
  /\ listening = [m \in Methods |-> TRUE]
  /\ running = [m \in Methods |-> TRUE]
  /\ locked = NoEvent
  /\ latest = [t \in Topics |-> 0]
  /\ log = <<>>
  /\ reader = [s \in Subscribers |->
       [state |-> "new", backlog |-> {}, next |-> 1, got |-> <<>>, lagged |-> FALSE]]

------------------------------------------------------------------------------
\* Where notifications come from.

\* rust-analyzer writes a notification; the JSON-RPC client queues it for the
\* subscription, or drops the subscription for good if its queue is full.
Notify(t) ==
  LET m == MethodOf[t] IN
  /\ sent[t] < MaxVersion
  /\ sent' = [sent EXCEPT ![t] = @ + 1]
  /\ IF listening[m] /\ Len(buffer[m]) < BufferSize
       THEN /\ buffer' = [buffer EXCEPT ![m] =
                            Append(@, [topic |-> t, version |-> sent[t] + 1])]
            /\ UNCHANGED listening
       ELSE /\ listening' = [listening EXCEPT ![m] = FALSE]
            /\ UNCHANGED buffer
  /\ UNCHANGED <<running, hubVars, reader>>

\* The session ends: each task is aborted at its next await, never inside publish.
Abort(m) ==
  /\ running[m]
  /\ running' = [running EXCEPT ![m] = FALSE]
  /\ UNCHANGED <<sent, buffer, listening, hubVars, reader>>

------------------------------------------------------------------------------
\* publish: the cache and then the channel, under the lock.

\* Mutant of Record: the task publishes the notification it received last.
RecordNewest(m) ==
  /\ running[m]
  /\ buffer[m] # <<>>
  /\ locked = NoEvent
  /\ LET e == buffer[m][Len(buffer[m])] IN
       /\ locked' = e
       /\ latest' = IF e.topic \in Cached
                      THEN [latest EXCEPT ![e.topic] = e.version] ELSE latest
  /\ buffer' = [buffer EXCEPT ![m] = SubSeq(@, 1, Len(@) - 1)]
  /\ UNCHANGED <<sent, listening, running, log, reader>>

\* Mutant of Record: an event is dropped when the lock is taken (try_lock).
RecordOrDrop(m) ==
  /\ running[m]
  /\ buffer[m] # <<>>
  /\ LET e == Head(buffer[m]) IN
       /\ locked' = IF locked = NoEvent THEN e ELSE locked
       /\ latest' = IF locked = NoEvent /\ e.topic \in Cached
                      THEN [latest EXCEPT ![e.topic] = e.version] ELSE latest
  /\ buffer' = [buffer EXCEPT ![m] = Tail(@)]
  /\ UNCHANGED <<sent, listening, running, log, reader>>

Record(m) ==
  /\ running[m]
  /\ buffer[m] # <<>>
  /\ locked = NoEvent
  /\ LET e == Head(buffer[m]) IN
       /\ locked' = e
       /\ latest' = IF e.topic \in Cached
                      THEN [latest EXCEPT ![e.topic] = e.version] ELSE latest
  /\ buffer' = [buffer EXCEPT ![m] = Tail(@)]
  /\ UNCHANGED <<sent, listening, running, log, reader>>

\* Sending to nobody is no error; the lock is released afterwards.
Broadcast ==
  /\ locked # NoEvent
  /\ log' = Append(log, locked)
  /\ locked' = NoEvent
  /\ UNCHANGED <<sourceVars, latest, reader>>

------------------------------------------------------------------------------
\* The gRPC streams.

\* The cached events, in the order of a hash map.
Snapshot == {[topic |-> t, version |-> latest[t]] : t \in {t \in Cached : latest[t] > 0}}

\* The oldest event the channel still keeps.
Oldest == IF Len(log) > Capacity THEN Len(log) - Capacity + 1 ELSE 1

\* Mutant of Subscribe: the receiver is created without the lock.
SubscribeUnlocked(s) ==
  /\ reader[s].state = "new"
  /\ reader' = [reader EXCEPT ![s] =
       [@ EXCEPT !.state = "open", !.backlog = Snapshot, !.next = Len(log) + 1]]
  /\ UNCHANGED <<sourceVars, hubVars>>

\* Mutant of Subscribe: the receiver starts at the last event sent, not after it.
SubscribeOneEarly(s) ==
  /\ reader[s].state = "new"
  /\ locked = NoEvent
  /\ reader' = [reader EXCEPT ![s] =
       [@ EXCEPT !.state = "open", !.backlog = Snapshot, !.next = Len(log)]]
  /\ UNCHANGED <<sourceVars, hubVars>>

Subscribe(s) ==
  /\ reader[s].state = "new"
  /\ locked = NoEvent
  /\ reader' = [reader EXCEPT ![s] =
       [@ EXCEPT !.state = "open", !.backlog = Snapshot, !.next = Len(log) + 1]]
  /\ UNCHANGED <<sourceVars, hubVars>>

\* The stream chains the snapshot and the live events.
ReceiveCached(s) ==
  /\ reader[s].state = "open"
  /\ \E e \in reader[s].backlog :
       reader' = [reader EXCEPT ![s] =
         [@ EXCEPT !.backlog = reader[s].backlog \ {e},
                   !.got = Append(reader[s].got, e)]]
  /\ UNCHANGED <<sourceVars, hubVars>>

ReceiveLive(s) ==
  /\ reader[s].state = "open"
  /\ reader[s].backlog = {}
  /\ Oldest <= reader[s].next
  /\ reader[s].next <= Len(log)
  /\ reader' = [reader EXCEPT ![s] =
       [@ EXCEPT !.next = reader[s].next + 1,
                 !.got = Append(reader[s].got, log[reader[s].next])]]
  /\ UNCHANGED <<sourceVars, hubVars>>

\* Lagged(n): the receiver goes on at the oldest event kept, the stream drops the error.
Skip(s) ==
  /\ reader[s].state = "open"
  /\ reader[s].backlog = {}
  /\ reader[s].next < Oldest
  /\ reader' = [reader EXCEPT ![s] = [@ EXCEPT !.next = Oldest, !.lagged = TRUE]]
  /\ UNCHANGED <<sourceVars, hubVars>>

\* The client drops its stream.
Leave(s) ==
  /\ reader[s].state = "open"
  /\ reader' = [reader EXCEPT ![s].state = "left"]
  /\ UNCHANGED <<sourceVars, hubVars>>

------------------------------------------------------------------------------
Next ==
  \/ \E t \in Topics : Notify(t)
  \/ \E m \in Methods : Record(m) \/ Abort(m)
  \/ Broadcast
  \/ \E s \in Subscribers :
       Subscribe(s) \/ ReceiveCached(s) \/ ReceiveLive(s) \/ Skip(s) \/ Leave(s)

SafeSpec == Init /\ [][Next]_vars

\* Every forwarding task is polled; no client has to read its stream.
Spec == SafeSpec /\ WF_vars(Broadcast) /\ \A m \in Methods : WF_vars(Record(m))

------------------------------------------------------------------------------
Readers == [state : {"new", "open", "left"}, backlog : SUBSET Events, next : Nat \ {0},
            got : Seq(Events), lagged : BOOLEAN]

\* Every variable has its type, and no subscription outgrows its queue.
TypeOK ==
  /\ sent \in [Topics -> Nat]
  /\ buffer \in [Methods -> Seq(Events)]
  /\ \A m \in Methods : Len(buffer[m]) <= BufferSize
  /\ listening \in [Methods -> BOOLEAN]
  /\ running \in [Methods -> BOOLEAN]
  /\ locked \in Events \cup {NoEvent}
  /\ latest \in [Topics -> Nat]
  /\ log \in Seq(Events)
  /\ reader \in [Subscribers -> Readers]

\* Two events of one topic that a subscriber got one after the other.
Consecutive(s, i, j) ==
  LET got == reader[s].got IN
  /\ i < j
  /\ got[i].topic = got[j].topic
  /\ \A k \in (i + 1)..(j - 1) : got[k].topic # got[i].topic

\* A subscriber that has read all there is, without lagging, has the newest event of
\* every cached topic.
CaughtUpIsCurrent(s) ==
  reader[s].state = "open" /\ reader[s].backlog = {} /\ reader[s].next > Len(log) =>
    \A i \in DOMAIN log : log[i].topic \in Cached =>
      \E j \in DOMAIN reader[s].got :
        /\ reader[s].got[j].topic = log[i].topic
        /\ reader[s].got[j].version >= log[i].version

\* `subscribe` never misses or duplicates a cached update: without lagging, a
\* subscriber gets consecutive versions of every topic up to the newest of each cached
\* one, across the border between its snapshot and the live events, wherever it
\* interleaves with publish.  Not even one that lags is taken back to an older event.
NothingMissedOrRepeated ==
  \A s \in Subscribers :
    /\ \A i, j \in DOMAIN reader[s].got : Consecutive(s, i, j) =>
         IF reader[s].lagged
           THEN reader[s].got[j].version > reader[s].got[i].version
           ELSE reader[s].got[j].version = reader[s].got[i].version + 1
    /\ ~reader[s].lagged => CaughtUpIsCurrent(s)

\* What rust-analyzer says of a cached topic reaches the cache, unless the session
\* ended or the subscription was dropped because the task fell behind.
CacheConverges ==
  \A t \in Cached :
    (sent[t] = MaxVersion) ~>
      (latest[t] = MaxVersion \/ ~running[MethodOf[t]] \/ ~listening[MethodOf[t]])

\* Publishing and subscribing are atomic for everyone who only sees the streams.
Feed == INSTANCE EventFeed
FeedSafety == Feed!Spec
==============================================================================
