---------------------------- MODULE SerialService ----------------------------
(***************************************************************************)
(* What racli promises the clients of one rust-analyzer session            *)
(* (src/actors/rust_analyzer.rs): calls are served one at a time in the    *)
(* order they arrive, an answer is given once and never changes, a closed  *)
(* session answers nothing from rust-analyzer, and a call the service can  *)
(* no longer serve is refused instead of being left to hang.               *)
(*                                                                         *)
(* RustAnalyzerActor implements this specification: it hides the mailbox,  *)
(* the JSON-RPC client, the timeouts and the child process.                *)
(***************************************************************************)
EXTENDS Sequences

CONSTANTS
  Calls,     \* every message the clients of the session ever send
  Kind,      \* Kind[c] is what call c asks for
  Leavers    \* calls whose sender may stop waiting

VARIABLES
  outcome,   \* outcome[c] is what the sender of c has been told so far
  queue,     \* calls accepted and not served yet, oldest first
  open,      \* rust-analyzer's session still exists
  alive      \* the service still accepts calls

vars == <<outcome, queue, open, alive>>

Init ==
  /\ outcome = [c \in Calls |-> "unsent"]
  /\ queue = <<>>
  /\ open = TRUE
  /\ alive = TRUE

\* A call enters the queue; a stopped service refuses it at once.
Accept(c) ==
  /\ outcome[c] = "unsent"
  /\ Kind[c] # "forbidden"
  /\ outcome' = [outcome EXCEPT ![c] =
       IF ~alive THEN "internal" ELSE IF Kind[c] = "watched" THEN "cast" ELSE "pending"]
  /\ queue' = IF alive THEN Append(queue, c) ELSE queue
  /\ UNCHANGED <<open, alive>>

\* A client may not stop the session that others share.
Refuse(c) ==
  /\ outcome[c] = "unsent"
  /\ Kind[c] = "forbidden"
  /\ outcome' = [outcome EXCEPT ![c] = "refused"]
  /\ UNCHANGED <<queue, open, alive>>

\* The sender stops waiting; the call itself keeps its place in the queue.
Abandon(c) ==
  /\ c \in Leavers
  /\ outcome[c] = "pending"
  /\ outcome' = [outcome EXCEPT ![c] = "abandoned"]
  /\ UNCHANGED <<queue, open, alive>>

\* What a call may be told, depending on whether the session still exists.
Replies(k) ==
  IF open THEN {"ok", "error"}
  ELSE CASE k = "shutdown" -> {"ok"}
         [] k = "cached" -> {"default"}
         [] OTHER -> {"closed"}

\* The oldest call is answered; the first shutdown closes the session.
Serve ==
  /\ queue # <<>>
  /\ \E r \in Replies(Kind[Head(queue)]) :
       outcome' = [outcome EXCEPT ![Head(queue)] = IF @ = "pending" THEN r ELSE @]
  /\ queue' = Tail(queue)
  /\ open' = (open /\ Kind[Head(queue)] # "shutdown")
  /\ UNCHANGED alive

\* The service goes away: whoever still waits is told so.
Stop ==
  /\ alive
  /\ outcome' = [c \in Calls |-> IF outcome[c] = "pending" THEN "internal" ELSE outcome[c]]
  /\ queue' = <<>>
  /\ open' = FALSE
  /\ alive' = FALSE

Next ==
  \/ \E c \in Calls : Accept(c) \/ Refuse(c) \/ Abandon(c)
  \/ Serve
  \/ Stop

SafeSpec == Init /\ [][Next]_vars

\* Accepted calls do not wait for ever.
Spec == SafeSpec /\ WF_vars(Serve)
==============================================================================
