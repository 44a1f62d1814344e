----------------------------- MODULE MessageLink -----------------------------
(***************************************************************************)
(* What racli's LSP transport (src/lsp_client/transport.rs) promises       *)
(* whoever talks to rust-analyzer through it: the messages of the JSON-RPC *)
(* client arrive in the order they were accepted, the acknowledgements of  *)
(* rust-analyzer's own requests in the order of those requests, each of    *)
(* them whole, once, and interleaved in some order.  While the link is not *)
(* excused (rust-analyzer gone, deaf, or the client closed), whatever was  *)
(* accepted does arrive.                                                   *)
(***************************************************************************)
EXTENDS Naturals, Sequences, FiniteSets

CONSTANTS
  Messages,   \* what the client may send
  Asks        \* rust-analyzer's own requests

VARIABLES
  accepted,   \* the client's messages, in the order they were accepted
  asked,      \* rust-analyzer's requests, in the order they were read
  heard,      \* what rust-analyzer has read
  excused     \* the link promises no further delivery

vars == <<accepted, asked, heard, excused>>

Ack(a) == [kind |-> "ack", id |-> a]

IsAck(m) == m.kind = "ack"
IsMessage(m) == ~IsAck(m)

Init ==
  /\ accepted = <<>>
  /\ asked = <<>>
  /\ heard = <<>>
  /\ excused \in BOOLEAN

Accept ==
  /\ \E m \in Messages : accepted' = Append(accepted, m)
  /\ UNCHANGED <<asked, heard, excused>>

Ask ==
  /\ \E a \in Asks : asked' = Append(asked, a)
  /\ UNCHANGED <<accepted, heard, excused>>

\* The next message of either kind arrives.
NextMessage == Cardinality({i \in DOMAIN heard : IsMessage(heard[i])}) + 1
NextAck == Cardinality({i \in DOMAIN heard : IsAck(heard[i])}) + 1

Arrive ==
  /\ \/ NextMessage \in DOMAIN accepted /\ heard' = Append(heard, accepted[NextMessage])
     \/ NextAck \in DOMAIN asked /\ heard' = Append(heard, Ack(asked[NextAck]))
  /\ UNCHANGED <<accepted, asked, excused>>

GiveUp ==
  /\ excused' = TRUE
  /\ UNCHANGED <<accepted, asked, heard>>

Next == Accept \/ Ask \/ Arrive \/ GiveUp

SafeSpec == Init /\ [][Next]_vars

Fairness == WF_vars(~excused /\ Arrive)

Spec == SafeSpec /\ Fairness
==============================================================================
