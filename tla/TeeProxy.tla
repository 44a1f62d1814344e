------------------------------ MODULE TeeProxy ------------------------------
\* The stdio side of `racli tee` (src/tee.rs): the loop that takes the editor's
\* messages one at a time, the task that forwards rust-analyzer's notifications, the
\* writer that owns stdout, and run_tee, which ends with its server or with its editor.
\*
\* The editor keeps to LSP: `initialize` and `shutdown` are requests, `exit` and
\* `initialized` notifications. The gRPC server is seen from outside: it answers,
\* fails, or drains and ends; ActorTree and GrpcService say how. Requests and
\* notifications are told apart by what the loop does with them, and a message is the
\* number it has on stdin.
EXTENDS Naturals, Sequences

CONSTANTS
  MaxMessages,  \* bound: messages the editor sends before it ends
  MaxEvents     \* bound: notifications the server streams

ASSUME MaxAssumption == MaxMessages \in Nat /\ MaxEvents \in Nat

VARIABLES
  step,      \* where run_tee and its stdin loop are
  current,   \* the message whose gRPC call the loop awaits
  arrived,   \* how many messages the loop has read
  owed,      \* the requests the loop has read
  events,    \* the forward_events task
  streamed,  \* how many notifications it has taken from its stream
  out,       \* the queue of the writer
  written,   \* what stdout has got
  writer,    \* the writer task
  server,    \* the server task
  stop,      \* a signal has arrived, or stop_tx was sent
  proxied    \* what the proxy returned

vars == <<step, current, arrived, owed, events, streamed, out, written, writer,
          server, stop, proxied>>
loopVars == <<step, current, arrived, owed>>
eventVars == <<events, streamed>>
outVars == <<out, written, writer>>
serverVars == <<server, stop>>

NoMessage == [kind |-> "none", id |-> 0]
Asking == {"initialize", "request", "notification"}
Requests == {"initialize", "shutdown", "request"}

Init ==
  /\ step = "connecting"
  /\ current = NoMessage
  /\ arrived = 0
  /\ owed = {}
  /\ events = "none"
  /\ streamed = 0
  /\ out = <<>>
  /\ written = <<>>
  /\ writer = "running"
  /\ server = "starting"
  /\ stop = FALSE
  /\ proxied = "none"

\* An unbounded channel takes every item until its receiver is gone.
Queued(item) == IF writer = "running" THEN Append(out, item) ELSE out

------------------------------------------------------------------------------
\* The stdin loop.

\* Until the server has bound its socket every attempt fails and is repeated.
Connect ==
  /\ step = "connecting"
  /\ server = "serving"
  /\ step' = "reading"
  /\ UNCHANGED <<current, arrived, owed, eventVars, outVars, serverVars, proxied>>

\* A message the loop has done with at once: `initialized`, `$/cancelRequest`, an
\* answer to rust-analyzer's requests, or one that is not JSON.
ReadIgnored ==
  /\ step = "reading"
  /\ arrived < MaxMessages
  /\ arrived' = arrived + 1
  /\ UNCHANGED <<step, current, owed, eventVars, outVars, serverVars, proxied>>

\* The editor's `shutdown` is acknowledged here: rust-analyzer is shared.
ReadShutdown ==
  /\ step = "reading"
  /\ arrived < MaxMessages
  /\ arrived' = arrived + 1
  /\ owed' = owed \cup {arrived'}
  /\ out' = Queued([kind |-> "reply", id |-> arrived'])
  /\ UNCHANGED <<step, current, eventVars, written, writer, serverVars, proxied>>

\* Mutant of ReadForwarded: the message is not kept while its call runs.
ReadForgetting(kind) ==
  /\ step = "reading"
  /\ arrived < MaxMessages
  /\ arrived' = arrived + 1
  /\ owed' = IF kind \in Requests THEN owed \cup {arrived'} ELSE owed
  /\ step' = "calling"
  /\ UNCHANGED <<current, eventVars, outVars, serverVars, proxied>>

\* Everything else is a gRPC call, and the next message waits for its answer.
ReadForwarded(kind) ==
  /\ step = "reading"
  /\ arrived < MaxMessages
  /\ arrived' = arrived + 1
  /\ owed' = IF kind \in Requests THEN owed \cup {arrived'} ELSE owed
  /\ current' = [kind |-> kind, id |-> arrived']
  /\ step' = "calling"
  /\ UNCHANGED <<eventVars, outVars, serverVars, proxied>>

Reply == [kind |-> current.kind, id |-> current.id]

\* Mutant of Answered: the event stream is opened before the reply is queued.
AnsweredLate ==
  /\ step = "calling"
  /\ IF current.kind = "initialize" /\ events = "none"
       THEN /\ events' = "subscribing"
            /\ UNCHANGED <<step, current, out>>
       ELSE /\ step' = "reading"
            /\ current' = NoMessage
            /\ out' = IF current.kind = "notification" THEN out ELSE Queued(Reply)
            /\ UNCHANGED events
  /\ UNCHANGED <<arrived, owed, streamed, written, writer, serverVars, proxied>>

\* The call returns, with rust-analyzer's result or error, or with a gRPC status: a
\* request gets a reply in any case. The first `initialize` starts the event stream.
Answered ==
  /\ step = "calling"
  /\ step' = "reading"
  /\ current' = NoMessage
  /\ out' = IF current.kind = "notification" THEN out ELSE Queued(Reply)
  /\ events' = IF current.kind = "initialize" /\ events = "none" THEN "subscribing" ELSE events
  /\ UNCHANGED <<arrived, owed, streamed, written, writer, serverVars, proxied>>

\* `exit` or the end of stdin; or a frame that cannot be read.
EditorEnds(outcome) ==
  /\ step = "reading"
  /\ step' = "aborting"
  /\ proxied' = outcome
  /\ UNCHANGED <<current, arrived, owed, eventVars, outVars, serverVars>>

------------------------------------------------------------------------------
\* The end of proxy_stdio.

\* Mutant of AbortEvents: the task is left to end with its stream.
KeepEvents ==
  /\ step = "aborting"
  /\ step' = "draining"
  /\ UNCHANGED <<current, arrived, owed, eventVars, outVars, serverVars, proxied>>

\* The events task is aborted and awaited, then the loop drops its end of the queue.
AbortEvents ==
  /\ step = "aborting"
  /\ step' = "draining"
  /\ events' = IF events = "none" THEN "none" ELSE "ended"
  /\ UNCHANGED <<current, arrived, owed, streamed, outVars, serverVars, proxied>>

\* Mutant of JoinWriter: proxy_stdio returns without awaiting its writer.
LeaveWriter ==
  /\ step = "draining"
  /\ step' = "stopping"
  /\ stop' = TRUE
  /\ UNCHANGED <<current, arrived, owed, eventVars, outVars, server, proxied>>

\* The writer is awaited, and its error reported; run_tee then stops the server.
JoinWriter ==
  /\ step = "draining"
  /\ writer # "running"
  /\ step' = "stopping"
  /\ stop' = TRUE
  /\ proxied' = IF writer = "failed" THEN "error" ELSE proxied
  /\ UNCHANGED <<current, arrived, owed, eventVars, outVars, server>>

\* run_tee returns when the server has ended: awaited after the proxy, or, in the
\* select, before it, which drops the proxy wherever it is.
Return ==
  /\ step # "returned"
  /\ server \in {"stopped", "failed"}
  /\ step' = "returned"
  /\ UNCHANGED <<current, arrived, owed, eventVars, outVars, serverVars, proxied>>

------------------------------------------------------------------------------
\* The tasks beside it; run_tee's return ends the process and them.

Alive == step # "returned"

Subscribed ==
  /\ Alive
  /\ events = "subscribing"
  /\ server = "serving"
  /\ events' = "streaming"
  /\ UNCHANGED <<loopVars, streamed, outVars, serverVars, proxied>>

\* One notification is forwarded, unless nobody writes any more.
ForwardEvent ==
  /\ Alive
  /\ events = "streaming"
  /\ streamed < MaxEvents
  /\ streamed' = streamed + 1
  /\ events' = IF writer = "running" THEN events ELSE "ended"
  /\ out' = Queued([kind |-> "event", id |-> streamed'])
  /\ UNCHANGED <<loopVars, written, writer, serverVars, proxied>>

\* The subscription fails, or the stream ends with an error: the editor gets no more
\* notifications.
EventsEnd ==
  /\ Alive
  /\ events \in {"subscribing", "streaming"}
  /\ events' = "ended"
  /\ UNCHANGED <<loopVars, streamed, outVars, serverVars, proxied>>

Write ==
  /\ Alive
  /\ writer = "running"
  /\ out # <<>>
  /\ written' = Append(written, Head(out))
  /\ out' = Tail(out)
  /\ UNCHANGED <<loopVars, eventVars, writer, serverVars, proxied>>

\* The editor has closed the other end of stdout.
WriteFails ==
  /\ Alive
  /\ writer = "running"
  /\ out # <<>>
  /\ writer' = "failed"
  /\ out' = <<>>
  /\ UNCHANGED <<loopVars, eventVars, written, serverVars, proxied>>

\* The queue is empty and all its senders are dropped.
WriterEnds ==
  /\ Alive
  /\ writer = "running"
  /\ out = <<>>
  /\ step = "draining"
  /\ events \notin {"subscribing", "streaming"}
  /\ writer' = "finished"
  /\ UNCHANGED <<loopVars, eventVars, out, written, serverVars, proxied>>

------------------------------------------------------------------------------
\* The server task (run_grpc_unix_socket_until_shutdown), from outside.

ServerBinds ==
  /\ server = "starting"
  /\ server' = "serving"
  /\ UNCHANGED <<loopVars, eventVars, outVars, stop, proxied>>

\* rust-analyzer does not start, the socket cannot be bound, or an actor fails; open
\* calls and streams break.
ServerFails ==
  /\ server \in {"starting", "serving", "draining"}
  /\ server' = "failed"
  /\ UNCHANGED <<loopVars, eventVars, outVars, stop, proxied>>

Signal ==
  /\ Alive
  /\ ~stop
  /\ stop' = TRUE
  /\ UNCHANGED <<loopVars, eventVars, outVars, server, proxied>>

ServerDrains ==
  /\ server = "serving"
  /\ stop
  /\ server' = "draining"
  /\ UNCHANGED <<loopVars, eventVars, outVars, stop, proxied>>

\* The drain waits for the event stream; a call it has not accepted does not hold it.
ServerStops ==
  /\ server = "draining"
  /\ events # "streaming"
  /\ server' = "stopped"
  /\ UNCHANGED <<loopVars, eventVars, outVars, stop, proxied>>

------------------------------------------------------------------------------
Loop == Connect \/ Answered \/ AbortEvents \/ JoinWriter \/ Return
Writer == Write \/ WriterEnds
Server == ServerBinds \/ ServerDrains \/ ServerStops

Next ==
  \/ Loop \/ Writer \/ Server
  \/ ReadIgnored \/ ReadShutdown \/ (\E kind \in Asking : ReadForwarded(kind))
  \/ (\E outcome \in {"ok", "error"} : EditorEnds(outcome))
  \/ Subscribed \/ ForwardEvent \/ EventsEnd
  \/ WriteFails \/ ServerFails \/ Signal

\* The loop goes on once its call has returned, every call returns (GrpcService,
\* EveryRpcAnswered), the editor reads what is written, and the server drains. Nothing
\* makes the editor send a message or the server stream one.
Spec ==
  /\ Init /\ [][Next]_vars
  /\ WF_vars(Loop) /\ WF_vars(Writer) /\ WF_vars(Server)

------------------------------------------------------------------------------
Ids == 0..(MaxMessages + MaxEvents)
Items == [kind : Asking \cup {"reply", "event"}, id : Ids]

\* Every variable has its type.
TypeOK ==
  /\ step \in {"connecting", "reading", "calling", "aborting", "draining", "stopping",
               "returned"}
  /\ current \in [kind : Asking \cup {"none"}, id : Ids]
  /\ arrived \in 0..MaxMessages
  /\ owed \subseteq Ids
  /\ events \in {"none", "subscribing", "streaming", "ended"}
  /\ streamed \in 0..MaxEvents
  /\ out \in Seq(Items)
  /\ written \in Seq(Items)
  /\ writer \in {"running", "finished", "failed"}
  /\ server \in {"starting", "serving", "draining", "stopped", "failed"}
  /\ stop \in BOOLEAN
  /\ proxied \in {"none", "ok", "error"}
  /\ step = "calling" => current # NoMessage

\* What stdout has got and what is on its way there.
Stdout == written \o out

\* "Server notifications may only follow the `initialize` response" (src/tee.rs:305):
\* on stdout, whatever the writer, the loop and the events task do in between.
EventsFollowInitialize ==
  \A i \in DOMAIN Stdout : Stdout[i].kind = "event" =>
    \E j \in 1..(i - 1) : Stdout[j].kind = "initialize"

\* Where a sequence of items replies to the message with number id.
RepliesTo(items, id) == {i \in DOMAIN items : items[i].kind # "event" /\ items[i].id = id}

\* The editor gets its replies in the order of its requests, one to each and to nothing
\* else, however they are answered, and when the session ends without an error it has
\* got every one.
EveryReplyWritten ==
  /\ \A i \in DOMAIN written : written[i].kind # "event" =>
       LET id == written[i].id IN
       /\ id \in owed
       /\ \A j \in 1..(i - 1) : written[j].kind # "event" => written[j].id < id
       /\ \A earlier \in owed : earlier < id => \E j \in RepliesTo(written, earlier) : j < i
  /\ step = "stopping" /\ proxied = "ok" => \A id \in owed : RepliesTo(written, id) # {}

\* Once the editor has sent `exit` or closed stdin, or a frame was unreadable, racli
\* tee ends: its own event stream keeps neither its writer nor its server's drain.
EditorEndStops == (step = "aborting") ~> (step = "returned")
==============================================================================
