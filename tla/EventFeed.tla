------------------------------ MODULE EventFeed ------------------------------
(***************************************************************************)
(* What the notification hub (src/lsp_events.rs) promises a subscriber:    *)
(* there is one log of events; a subscription hands over the newest event  *)
(* of every cached topic and then the log from that very point on, in      *)
(* order.  A subscriber that falls more than Capacity events behind skips  *)
(* to the oldest event still kept.                                         *)
(*                                                                         *)
(* Publishing and subscribing are single steps here.  LspEvents implements *)
(* them with a cache and a broadcast channel updated one after the other.  *)
(***************************************************************************)
EXTENDS Naturals, Sequences

CONSTANTS
  Subscribers,   \* the clients that may subscribe, each once
  Events,        \* every event that may be published
  Cached,        \* the topics whose newest event a new subscriber gets
  Capacity       \* events the channel keeps for a slow subscriber

VARIABLES
  log,      \* every event published, in order
  reader    \* where each subscriber is

vars == <<log, reader>>

\* The newest event of each cached topic of a log.
Compacted(l) ==
  {l[i] : i \in {i \in DOMAIN l :
     /\ l[i].topic \in Cached
     /\ \A j \in DOMAIN l : j > i => l[j].topic # l[i].topic}}

\* The first position of a log that a slow subscriber can still read.
Oldest(l) == IF Len(l) > Capacity THEN Len(l) - Capacity + 1 ELSE 1

Init ==
  /\ log = <<>>
  /\ reader = [s \in Subscribers |->
       [state |-> "new", backlog |-> {}, next |-> 1, got |-> <<>>, lagged |-> FALSE]]

Publish ==
  /\ \E e \in Events : log' = Append(log, e)
  /\ UNCHANGED reader

Subscribe(s) ==
  /\ reader[s].state = "new"
  /\ reader' = [reader EXCEPT ![s] =
       [@ EXCEPT !.state = "open", !.backlog = Compacted(log), !.next = Len(log) + 1]]
  /\ UNCHANGED log

\* The snapshot comes first, in no particular order.
ReceiveCached(s) ==
  /\ reader[s].state = "open"
  /\ \E e \in reader[s].backlog :
       reader' = [reader EXCEPT ![s] =
         [@ EXCEPT !.backlog = reader[s].backlog \ {e},
                   !.got = Append(reader[s].got, e)]]
  /\ UNCHANGED log

ReceiveLive(s) ==
  /\ reader[s].state = "open"
  /\ reader[s].backlog = {}
  /\ Oldest(log) <= reader[s].next
  /\ reader[s].next <= Len(log)
  /\ reader' = [reader EXCEPT ![s] =
       [@ EXCEPT !.next = reader[s].next + 1,
                 !.got = Append(reader[s].got, log[reader[s].next])]]
  /\ UNCHANGED log

Skip(s) ==
  /\ reader[s].state = "open"
  /\ reader[s].backlog = {}
  /\ reader[s].next < Oldest(log)
  /\ reader' = [reader EXCEPT ![s] = [@ EXCEPT !.next = Oldest(log), !.lagged = TRUE]]
  /\ UNCHANGED log

Leave(s) ==
  /\ reader[s].state = "open"
  /\ reader' = [reader EXCEPT ![s].state = "left"]
  /\ UNCHANGED log

Next ==
  \/ Publish
  \/ \E s \in Subscribers :
       Subscribe(s) \/ ReceiveCached(s) \/ ReceiveLive(s) \/ Skip(s) \/ Leave(s)

Spec == Init /\ [][Next]_vars
==============================================================================
