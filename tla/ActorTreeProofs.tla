--------------------------- MODULE ActorTreeProofs ----------------------------
(***************************************************************************)
(* Proofs about ActorTree, for both front ends and for any requests,       *)
(* streams and file system events: the teardown runs front end first, what *)
(* was accepted is finished unless something panicked, and                 *)
(* run_until_shutdown returns with no rust-analyzer left and with the      *)
(* reason it has.                                                          *)
(*                                                                         *)
(* The actors know little of each other, so the argument is mostly about   *)
(* where they are at the same time: ControlInv says which places go        *)
(* together.  MailInv is about the order in rust-analyzer's mailbox (its   *)
(* shutdown comes after every request and file change), RequestInv and     *)
(* ChangeInv about what became of them.                                    *)
(***************************************************************************)
EXTENDS ActorTree, TLAPS

------------------------------------------------------------------------------
\* The parts of the inductive invariant.

\* The types of the places of the tasks and the actors ...
PlaceTypes ==
  /\ main \in {"spawning", "waiting", "joining", "returned", "exited"}
  /\ root \in {"startBackend", "startFrontend", "undo", "idle", "stopFrontend",
               "stopBackend", "stopped", "failed"}
  /\ backend \in {"startRa", "startWatcher", "info", "undo", "idle", "drain", "stopRa",
                  "stopped", "failed"}
  /\ watcher \in {"none", "idle", "draining", "stopped"}
  /\ ra \in {"none", "open", "closed", "gone"}

\* ... of the front end, the results and the requests to stop ...
ResultTypes ==
  /\ signalled \in BOOLEAN
  /\ asked \in BOOLEAN
  /\ result \in {"none", "ok", "start backend", "start frontend", "frontend", "backend"}
  /\ raResult \in {"ok", "error"}
  /\ frontend \in {"none", "idle", "stopping", "stopped", "failed"}
  /\ server \in {"none", "serving", "draining", "ended"}
  /\ served \in {"ok", "error", "panicked"}

\* ... and of the mailboxes, the requests, streams and changes, and the rest.
DataTypes ==
  /\ rootBox \in Seq({"Shutdown", "FrontendExited"})
  /\ raBox \in Seq(Rpcs \cup Changes \cup {"shutdown"})
  /\ rpc \in [Rpcs -> {"new", "inflight", "answered", "closed", "cut"}]
  /\ stream \in [Streams -> {"new", "open", "left"}]
  /\ change \in [Changes -> {"new", "ignored", "queued", "sent", "delivered", "lost"}]
  /\ panicked \subseteq {"ra", "backend", "frontend", "server"}
  /\ host \in [kind : Kinds, stdin : {"silent", "ready", "spent", "gone"}]

\* Where the root is says where the front end is; a root that is done has a result, and
\* its backend is down.
RootInv ==
  /\ Returned => root \in {"stopped", "failed"}
  /\ root \in {"stopped", "failed"} => result # "none" /\ backend \in {"stopped", "failed"}
  /\ root \in {"startBackend", "startFrontend", "undo", "failed"} => frontend = "none"
  /\ root \in {"stopBackend", "stopped"} => frontend \in {"stopped", "failed"}

\* The front end and its serve task, and the error the root has to report.
FrontendInv ==
  /\ frontend = "none" => server = "none" /\ served = "ok"
  /\ frontend = "stopped" => server = "ended"
  /\ frontend = "failed" => "frontend" \in panicked
  /\ root = "stopped" /\ served # "ok" /\ "frontend" \notin panicked => result = "frontend"

\* The supervisor: shut down only when the root has asked for it, or by a failure.
BackendInv ==
  /\ backend \in {"startRa", "startWatcher", "info", "undo"} => root = "startBackend"
  /\ asked => root \in {"undo", "failed", "stopBackend", "stopped"}
  /\ backend \in {"drain", "stopRa", "stopped"} => asked
  /\ backend = "failed" /\ panicked = {} => root \in {"startBackend", "failed"}

\* The children of the supervisor are there while it runs, unless one has panicked.
ChildrenInv ==
  /\ backend \in {"startWatcher", "info", "undo", "idle", "drain", "stopRa"} =>
       RaAlive \/ (ra = "gone" /\ panicked # {})
  /\ backend \in {"startRa", "stopped", "failed"} => ~RaAlive
  /\ watcher \in {"idle", "draining"} => backend \in {"info", "idle", "drain"}
  /\ ra = "closed" => backend \in {"undo", "stopRa"}

ControlInv == RootInv /\ FrontendInv /\ BackendInv /\ ChildrenInv

\* File changes, and requests unless something has panicked, are sent to rust-analyzer
\* before its shutdown.
ComesFirst(m) == m \in Changes \/ (m \in Rpcs /\ panicked = {})

\* The shutdown of rust-analyzer is the supervisor's last message, and nothing that
\* comes first comes after it.
MailInv ==
  /\ ~RaAlive => raBox = <<>>
  /\ \A i \in DOMAIN raBox : raBox[i] = "shutdown" => backend \in {"undo", "stopRa"}
  /\ \A i, j \in DOMAIN raBox : raBox[i] = "shutdown" /\ i < j => ~ComesFirst(raBox[j])
  /\ ra = "closed" => \A i \in DOMAIN raBox : ~ComesFirst(raBox[i])

\* A request in flight waits in rust-analyzer's mailbox, and only a panic closes it.
RequestInv ==
  /\ server = "none" => \A r \in Rpcs : rpc[r] # "inflight"
  /\ \A r \in Rpcs :
       /\ rpc[r] = "inflight" => \E i \in DOMAIN raBox : raBox[i] = r
       /\ rpc[r] = "closed" => panicked # {}
       /\ rpc[r] = "cut" => Mcp /\ server = "ended"

\* rust-analyzer is to hear of a change: it is one to a watched file.
Telling(c) ==
  Event[c].kind # "metadata" /\ [watched |-> TRUE, noise |-> FALSE] \in Event[c].paths

\* What is on its way is to be told, and what was sent waits in the mailbox.
ChangeInv ==
  /\ \A c \in Changes :
       /\ change[c] \in {"queued", "sent", "delivered"} => Telling(c)
       /\ change[c] = "ignored" => ~Telling(c)
       /\ change[c] = "lost" => panicked # {}
       /\ change[c] = "sent" => \E i \in DOMAIN raBox : raBox[i] = c
  /\ \A i \in DOMAIN raBox : raBox[i] \in Changes => Telling(raBox[i])

IndInv ==
  /\ PlaceTypes /\ ResultTypes /\ DataTypes
  /\ ControlInv /\ MailInv /\ RequestInv /\ ChangeInv

------------------------------------------------------------------------------
\* Types.

LEMMA StepPlaceTypes ==
  ASSUME PlaceTypes, [Next]_vars
  PROVE  PlaceTypes'
<1> USE DEF PlaceTypes, rootVars, watcherVars, raVars, frontendVars
<1>1. CASE Main
  BY <1>1 DEF Main, MainSpawned, MainSignalled, MainReturns, ProcessEnds
<1>2. CASE Root
  BY <1>2 DEF Root, RootHasBackend, FrontendStarts, FrontendStartFails, RootUndone,
              RootHandles, RootSupervises, RootStopsFrontend, RootStopsBackend, Outcome
<1>3. CASE Backend
  BY <1>3 DEF Backend, RaStarts, WatcherStarts, WatcherStartFails, BackendStarts,
              BackendDrains, BackendStopsRa, BackendStops
<1>4. CASE Watcher
  BY <1>4 DEF Watcher, WatcherStops, WatcherForwards
<1>5. CASE Frontend
  BY <1>5 DEF Frontend, FrontendStops, ServerDrains, ServiceEnds, FrontendStopped
<1>6. CASE Signal \/ RaServes \/ ServerFails \/ HostGreets \/ HostWrites \/ HostLeaves
  BY <1>6 DEF Signal, RaServes, ServerFails, HostGreets, HostWrites, HostLeaves
<1>7. ASSUME NEW c \in Changes, FileChanges(c) PROVE PlaceTypes'
  BY <1>7 DEF FileChanges
<1>8. ASSUME NEW r \in Rpcs, RpcArrives(r) PROVE PlaceTypes'
  BY <1>8 DEF RpcArrives
<1>9. ASSUME NEW s \in Streams, StreamOpens(s) \/ StreamLeaves(s) PROVE PlaceTypes'
  BY <1>9 DEF StreamOpens, StreamLeaves
<1>10. CASE RaPanics \/ BackendPanics \/ FrontendPanics \/ ServerPanics
  BY <1>10 DEF RaPanics, BackendPanics, FrontendPanics, ServerPanics
<1>11. CASE UNCHANGED vars
  BY <1>11 DEF vars
<1> QED
  BY <1>1, <1>2, <1>3, <1>4, <1>5, <1>6, <1>7, <1>8, <1>9, <1>10, <1>11 DEF Next

LEMMA StepResultTypes ==
  ASSUME ResultTypes, [Next]_vars
  PROVE  ResultTypes'
<1> USE DEF ResultTypes, rootVars, watcherVars, raVars, frontendVars
<1>1. CASE Main
  BY <1>1 DEF Main, MainSpawned, MainSignalled, MainReturns, ProcessEnds
<1>2. CASE Root
  BY <1>2 DEF Root, RootHasBackend, FrontendStarts, FrontendStartFails, RootUndone,
              RootHandles, RootSupervises, RootStopsFrontend, RootStopsBackend, Outcome
<1>3. CASE Backend
  BY <1>3 DEF Backend, RaStarts, WatcherStarts, WatcherStartFails, BackendStarts,
              BackendDrains, BackendStopsRa, BackendStops
<1>4. CASE Watcher
  BY <1>4 DEF Watcher, WatcherStops, WatcherForwards
<1>5. CASE Frontend
  BY <1>5 DEF Frontend, FrontendStops, ServerDrains, ServiceEnds, FrontendStopped
<1>6. CASE Signal \/ RaServes \/ ServerFails \/ HostGreets \/ HostWrites \/ HostLeaves
  BY <1>6 DEF Signal, RaServes, ServerFails, HostGreets, HostWrites, HostLeaves
<1>7. ASSUME NEW c \in Changes, FileChanges(c) PROVE ResultTypes'
  BY <1>7, ZenonT(40) DEF FileChanges
<1>8. ASSUME NEW r \in Rpcs, RpcArrives(r) PROVE ResultTypes'
  BY <1>8 DEF RpcArrives
<1>9. ASSUME NEW s \in Streams, StreamOpens(s) \/ StreamLeaves(s) PROVE ResultTypes'
  BY <1>9 DEF StreamOpens, StreamLeaves
<1>10. CASE RaPanics \/ BackendPanics \/ FrontendPanics \/ ServerPanics
  <2>1. CASE RaPanics
    BY <2>1, ZenonT(40) DEF RaPanics
  <2>2. CASE BackendPanics
    BY <2>2, ZenonT(40) DEF BackendPanics
  <2>3. CASE FrontendPanics
    BY <2>3, ZenonT(40) DEF FrontendPanics
  <2>4. CASE ServerPanics
    BY <2>4, ZenonT(40) DEF ServerPanics
  <2> QED
    BY <1>10, <2>1, <2>2, <2>3, <2>4
<1>11. CASE UNCHANGED vars
  BY <1>11, ZenonT(40) DEF vars
<1> QED
  BY <1>1, <1>2, <1>3, <1>4, <1>5, <1>6, <1>7, <1>8, <1>9, <1>10, <1>11 DEF Next

LEMMA StepDataTypes ==
  ASSUME DataTypes, [Next]_vars
  PROVE  DataTypes'
<1> USE DEF rootVars, watcherVars, raVars, frontendVars
<1>a. rootBox \in Seq({"Shutdown", "FrontendExited"})
  BY DEF DataTypes
<1>b. raBox \in Seq(Rpcs \cup Changes \cup {"shutdown"})
  BY DEF DataTypes
<1>1. CASE Main
  <2>1. rootBox' \in Seq({"Shutdown", "FrontendExited"})
    BY <1>a, <1>1 DEF Main, MainSpawned, MainSignalled, MainReturns, ProcessEnds, TellRoot
  <2>2. rpc' \in [Rpcs -> {"new", "inflight", "answered", "closed", "cut"}]
    BY <1>1 DEF DataTypes, Main, MainSpawned, MainSignalled, MainReturns, ProcessEnds, CutOff
  <2>3. UNCHANGED <<raBox, stream, change, panicked, host>>
    BY <1>1 DEF Main, MainSpawned, MainSignalled, MainReturns, ProcessEnds
  <2> QED
    BY <2>1, <2>2, <2>3 DEF DataTypes
<1>2. CASE RootHandles \/ RootSupervises
  <2>1. rootBox' \in Seq({"Shutdown", "FrontendExited"})
    BY <1>a, <1>2 DEF RootHandles, RootSupervises, TellRoot
  <2>2. UNCHANGED <<raBox, rpc, stream, change, panicked, host>>
    BY <1>2 DEF RootHandles, RootSupervises
  <2> QED
    BY <2>1, <2>2 DEF DataTypes
<1>3. CASE \/ RootHasBackend \/ FrontendStarts \/ FrontendStartFails \/ RootUndone
           \/ RootStopsFrontend \/ RootStopsBackend
  BY <1>3 DEF DataTypes, RootHasBackend, FrontendStarts, FrontendStartFails, RootUndone,
              RootStopsFrontend, RootStopsBackend
<1>4. CASE RaStarts \/ WatcherStarts \/ BackendStarts \/ BackendDrains \/ WatcherStops
  <2>1. change' \in [Changes -> {"new", "ignored", "queued", "sent", "delivered", "lost"}]
    BY <1>4 DEF DataTypes, RaStarts, WatcherStarts, BackendStarts, BackendDrains, WatcherStops
  <2>2. UNCHANGED <<rootBox, raBox, rpc, stream, panicked, host>>
    BY <1>4 DEF RaStarts, WatcherStarts, BackendStarts, BackendDrains, WatcherStops
  <2> QED
    BY <2>1, <2>2 DEF DataTypes
<1>5. CASE WatcherStartFails \/ BackendStopsRa
  <2>1. raBox' \in Seq(Rpcs \cup Changes \cup {"shutdown"})
    BY SMTT(30), <1>b, <1>5 DEF WatcherStartFails, BackendStopsRa
  <2>2. UNCHANGED <<rootBox, rpc, stream, change, panicked, host>>
    BY <1>5 DEF WatcherStartFails, BackendStopsRa
  <2> QED
    BY <2>1, <2>2 DEF DataTypes
<1>6. CASE BackendStops \/ RaPanics
  <2>1. rpc' \in [Rpcs -> {"new", "inflight", "answered", "closed", "cut"}]
    BY <1>6 DEF DataTypes, BackendStops, RaPanics, DropRpcs
  <2>2. change' \in [Changes -> {"new", "ignored", "queued", "sent", "delivered", "lost"}]
    BY <1>6 DEF DataTypes, BackendStops, RaPanics, DropChanges
  <2>3. /\ raBox' = <<>> /\ panicked' \in {panicked, panicked \cup {"ra"}}
        /\ UNCHANGED <<rootBox, stream, host>>
    BY <1>6 DEF BackendStops, RaPanics
  <2> QED
    BY <2>1, <2>2, <2>3 DEF DataTypes
<1>7. CASE BackendPanics
  <2>1. rpc' \in [Rpcs -> {"new", "inflight", "answered", "closed", "cut"}]
    BY <1>7 DEF DataTypes, BackendPanics, DropRpcs
  <2>2. change' \in [Changes -> {"new", "ignored", "queued", "sent", "delivered", "lost"}]
    BY <1>7 DEF DataTypes, BackendPanics
  <2>3. /\ raBox' = <<>> /\ panicked' = panicked \cup {"backend"}
        /\ UNCHANGED <<rootBox, stream, host>>
    BY <1>7 DEF BackendPanics
  <2> QED
    BY <2>1, <2>2, <2>3 DEF DataTypes
<1>8. ASSUME NEW c \in Changes, FileChanges(c) \/ WatcherForwards(c) PROVE DataTypes'
  <2>1. PICK p \in {"ignored", "queued", "sent", "lost"} : change' = [change EXCEPT ![c] = p]
    BY <1>8 DEF FileChanges, WatcherForwards
  <2>2. raBox' = raBox \/ raBox' = Append(raBox, c)
    BY <1>8 DEF FileChanges, WatcherForwards
  <2>3. UNCHANGED <<rootBox, rpc, stream, panicked, host>>
    BY <1>8 DEF FileChanges, WatcherForwards
  <2>4. change' \in [Changes -> {"new", "ignored", "queued", "sent", "delivered", "lost"}]
    BY <2>1 DEF DataTypes
  <2>5. raBox' \in Seq(Rpcs \cup Changes \cup {"shutdown"})
    BY <1>b, <2>2
  <2> QED
    BY <2>3, <2>4, <2>5 DEF DataTypes
<1>9. CASE RaServes
  BY <1>9 DEF DataTypes, RaServes
<1>10. CASE Frontend \/ ServerFails \/ FrontendPanics \/ ServerPanics
  <2>1. rootBox' \in Seq({"Shutdown", "FrontendExited"})
    BY SMTT(30), <1>a, <1>10
       DEF Frontend, FrontendStops, ServerDrains, ServiceEnds, FrontendStopped,
           ServerFails, FrontendPanics, ServerPanics, TellRoot
  <2>2. rpc' \in [Rpcs -> {"new", "inflight", "answered", "closed", "cut"}]
    BY <1>10 DEF DataTypes, Frontend, FrontendStops, ServerDrains, ServiceEnds,
                 FrontendStopped, ServerFails, FrontendPanics, ServerPanics, CutOff
  <2>3. CASE Frontend \/ ServerFails \/ FrontendPanics
    <3>1. /\ panicked' \in {panicked, panicked \cup {"frontend"}}
          /\ UNCHANGED <<raBox, stream, change, host>>
      BY <2>3 DEF Frontend, FrontendStops, ServerDrains, ServiceEnds, FrontendStopped, ServerFails,
                  FrontendPanics
    <3> QED
      BY <2>1, <2>2, <3>1 DEF DataTypes
  <2>4. CASE ServerPanics
    <3>1. /\ panicked' = panicked \cup {"server"}
          /\ UNCHANGED <<raBox, stream, change, host>>
      BY <2>4 DEF ServerPanics
    <3> QED
      BY <2>1, <2>2, <3>1 DEF DataTypes
  <2> QED
    BY <1>10, <2>3, <2>4
<1>11. CASE Signal \/ HostGreets \/ HostWrites \/ HostLeaves
  BY <1>11 DEF DataTypes, Signal, HostGreets, HostWrites, HostLeaves
<1>12. ASSUME NEW r \in Rpcs, RpcArrives(r) PROVE DataTypes'
  BY <1>12 DEF DataTypes, RpcArrives
<1>13. ASSUME NEW s \in Streams, StreamOpens(s) \/ StreamLeaves(s) PROVE DataTypes'
  BY <1>13 DEF DataTypes, StreamOpens, StreamLeaves
<1>14. CASE UNCHANGED vars
  BY <1>14 DEF DataTypes, vars
<1> QED
  BY <1>1, <1>2, <1>3, <1>4, <1>5, <1>6, <1>7, <1>8, <1>9, <1>10, <1>11, <1>12, <1>13, <1>14
     DEF Next, Root, Backend, Watcher

------------------------------------------------------------------------------
\* Where the actors are.

LEMMA StepRoot ==
  ASSUME PlaceTypes, DataTypes, ControlInv, MailInv, [Next]_vars
  PROVE  RootInv' /\ FrontendInv'
<1> USE DEF ControlInv, RootInv, FrontendInv, BackendInv, ChildrenInv, RaAlive, Returned,
            rootVars, watcherVars, raVars, frontendVars
<1>1. CASE Main
  BY <1>1 DEF Main, MainSpawned, MainSignalled, MainReturns, ProcessEnds
<1>2. CASE Root
  BY <1>2 DEF Root, RootHasBackend, FrontendStarts, FrontendStartFails, RootUndone,
              RootHandles, RootSupervises, RootStopsFrontend, RootStopsBackend, Outcome
<1>3. CASE Backend
  BY <1>3 DEF Backend, RaStarts, WatcherStarts, WatcherStartFails, BackendStarts,
              BackendDrains, BackendStopsRa, BackendStops
<1>4. CASE Watcher
  BY <1>4 DEF Watcher, WatcherStops, WatcherForwards
<1>5. CASE Frontend
  BY <1>5 DEF Frontend, FrontendStops, ServerDrains, ServiceEnds, FrontendStopped
<1>6. CASE Signal \/ RaServes \/ ServerFails \/ HostGreets \/ HostWrites \/ HostLeaves
  BY <1>6 DEF Signal, RaServes, ServerFails, HostGreets, HostWrites, HostLeaves
<1>7. ASSUME NEW c \in Changes, FileChanges(c) PROVE RootInv' /\ FrontendInv'
  BY <1>7 DEF FileChanges
<1>8. ASSUME NEW r \in Rpcs, RpcArrives(r) PROVE RootInv' /\ FrontendInv'
  BY <1>8 DEF RpcArrives
<1>9. ASSUME NEW s \in Streams, StreamOpens(s) \/ StreamLeaves(s) PROVE RootInv' /\ FrontendInv'
  BY <1>9 DEF StreamOpens, StreamLeaves
<1>10. CASE RaPanics \/ BackendPanics \/ FrontendPanics \/ ServerPanics
  BY <1>10 DEF RaPanics, BackendPanics, FrontendPanics, ServerPanics
<1>11. CASE UNCHANGED vars
  BY <1>11 DEF vars
<1> QED
  BY <1>1, <1>2, <1>3, <1>4, <1>5, <1>6, <1>7, <1>8, <1>9, <1>10, <1>11 DEF Next

LEMMA StepBackend ==
  ASSUME PlaceTypes, DataTypes, ControlInv, MailInv, [Next]_vars
  PROVE  BackendInv' /\ ChildrenInv'
<1> USE DEF ControlInv, RootInv, FrontendInv, BackendInv, ChildrenInv, RaAlive, Returned,
            rootVars, watcherVars, raVars, frontendVars
<1>1. CASE Main
  BY <1>1 DEF Main, MainSpawned, MainSignalled, MainReturns, ProcessEnds
<1>2. CASE Root
  <2>1. CASE RootHandles \/ RootSupervises
    BY <2>1 DEF RootHandles, RootSupervises
  <2>2. CASE FrontendStarts \/ FrontendStartFails
    BY <2>2 DEF FrontendStarts, FrontendStartFails
  <2>3. CASE RootStopsFrontend \/ RootStopsBackend
    BY <2>3 DEF RootStopsFrontend, RootStopsBackend
  <2>4. CASE RootHasBackend
    BY <2>4 DEF RootHasBackend
  <2>5. CASE RootUndone
    BY <2>5 DEF RootUndone
  <2> QED
    BY <1>2, <2>1, <2>2, <2>3, <2>4, <2>5 DEF Root
<1>3. CASE Backend
  BY <1>3 DEF Backend, RaStarts, WatcherStarts, WatcherStartFails, BackendStarts,
              BackendDrains, BackendStopsRa, BackendStops
<1>4. CASE Watcher
  BY <1>4 DEF Watcher, WatcherStops, WatcherForwards
<1>5. CASE Frontend
  BY <1>5 DEF Frontend, FrontendStops, ServerDrains, ServiceEnds, FrontendStopped
<1>6. CASE Signal \/ ServerFails \/ HostGreets \/ HostWrites \/ HostLeaves
  BY <1>6 DEF Signal, ServerFails, HostGreets, HostWrites, HostLeaves
<1>7. ASSUME NEW c \in Changes, FileChanges(c) PROVE BackendInv' /\ ChildrenInv'
  BY <1>7 DEF FileChanges
<1>8. ASSUME NEW r \in Rpcs, RpcArrives(r) PROVE BackendInv' /\ ChildrenInv'
  BY <1>8 DEF RpcArrives
<1>9. ASSUME NEW s \in Streams, StreamOpens(s) \/ StreamLeaves(s) PROVE BackendInv' /\ ChildrenInv'
  BY <1>9 DEF StreamOpens, StreamLeaves
<1>10. CASE RaPanics \/ BackendPanics \/ FrontendPanics \/ ServerPanics
  <2>1. CASE RaPanics
    BY <2>1 DEF RaPanics
  <2>2. CASE BackendPanics
    BY <2>2 DEF BackendPanics
  <2>3. CASE FrontendPanics
    BY <2>3 DEF FrontendPanics
  <2>4. CASE ServerPanics
    BY <2>4 DEF ServerPanics
  <2> QED
    BY <1>10, <2>1, <2>2, <2>3, <2>4
<1>11. CASE UNCHANGED vars
  BY <1>11 DEF vars
<1>12. CASE RaServes
  BY <1>12 DEF RaServes, MailInv, DataTypes
<1> QED
  BY <1>1, <1>2, <1>3, <1>4, <1>5, <1>6, <1>7, <1>8, <1>9, <1>10, <1>11, <1>12 DEF Next

------------------------------------------------------------------------------
\* rust-analyzer's mailbox.

\* The watcher forwards an event just if it is to be told.
LEMMA WatcherFilters ==
  ASSUME NEW c \in Changes
  PROVE  /\ IsRelevant(Event[c]) <=> Telling(c)
         /\ LspChanges(Event[c]) = {} <=> ~Telling(c)
<1> DEFINE e == Event[c]
<1>1. e.kind \in EventKinds /\ e.paths \subseteq Paths
  BY EventAssumption
<1>2. ChangeType(e.kind) # "none" <=> e.kind # "metadata"
  BY <1>1 DEF ChangeType, EventKinds
<1>3. ASSUME NEW p \in e.paths
      PROVE  IsWatched(p) <=> p = [watched |-> TRUE, noise |-> FALSE]
  BY <1>1 DEF IsWatched, Paths
<1>4. (\E p \in e.paths : IsWatched(p)) <=> [watched |-> TRUE, noise |-> FALSE] \in e.paths
  BY <1>3
<1>5. IsRelevant(e) <=> Telling(c)
  BY <1>2, <1>4 DEF IsRelevant, Telling
<1>6. LspChanges(e) = {} <=> ~IsRelevant(e)
  BY DEF LspChanges, IsRelevant
<1> QED
  BY <1>5, <1>6

\* What a step does to the mailbox: it is left alone, dropped, served, or gets a message
\* that somebody sends.
MailMoves ==
  \/ UNCHANGED <<ra, raBox>>
  \/ ~RaAlive /\ ra' = "open" /\ raBox' = raBox
  \/ ra' = "gone" /\ raBox' = <<>> /\ \A c \in Changes : change'[c] # "sent"
  \/ RaServes
  \/ /\ RaAlive /\ ra' = ra
     /\ \/ raBox' = Append(raBox, "shutdown") /\ backend' \in {"undo", "stopRa"}
        \/ \E r \in Rpcs : server = "serving" /\ raBox' = Append(raBox, r)
        \/ /\ watcher \in {"idle", "draining"}
           /\ \E c \in Changes : Telling(c) /\ raBox' = Append(raBox, c)

LEMMA MailEvolves ==
  ASSUME ChildrenInv, [Next]_vars
  PROVE  MailMoves
<1> USE DEF rootVars, watcherVars, raVars, frontendVars
<1>1. CASE RaServes
  BY <1>1 DEF MailMoves
<1>2. CASE RaPanics \/ BackendPanics \/ BackendStops
  BY <1>2 DEF MailMoves, RaPanics, BackendPanics, BackendStops, DropChanges
<1>3. CASE RaStarts
  BY <1>3 DEF MailMoves, RaStarts, ChildrenInv
<1>4. CASE WatcherStartFails \/ BackendStopsRa
  BY <1>4 DEF MailMoves, WatcherStartFails, BackendStopsRa
<1>5. ASSUME NEW c \in Changes, WatcherForwards(c) PROVE MailMoves
  BY <1>5, WatcherFilters DEF MailMoves, WatcherForwards
<1>6. ASSUME NEW r \in Rpcs, RpcArrives(r) PROVE MailMoves
  BY <1>6 DEF MailMoves, RpcArrives
<1>7. CASE Main \/ Root
  BY <1>7 DEF MailMoves, Main, MainSpawned, MainSignalled, MainReturns, ProcessEnds, Root,
              RootHasBackend, FrontendStarts, FrontendStartFails, RootUndone, RootHandles, RootSupervises,
              RootStopsFrontend, RootStopsBackend
<1>8. CASE WatcherStarts \/ BackendStarts \/ BackendDrains \/ WatcherStops
  BY <1>8 DEF MailMoves, WatcherStarts, BackendStarts, BackendDrains, WatcherStops
<1>9. CASE Frontend \/ ServerFails \/ FrontendPanics \/ ServerPanics
  BY <1>9 DEF MailMoves, Frontend, FrontendStops, ServerDrains, ServiceEnds, FrontendStopped,
              ServerFails, FrontendPanics, ServerPanics
<1>10. CASE Signal \/ HostGreets \/ HostWrites \/ HostLeaves \/ \E c \in Changes : FileChanges(c)
  BY <1>10 DEF MailMoves, Signal, HostGreets, HostWrites, HostLeaves, FileChanges
<1>11. CASE \E s \in Streams : StreamOpens(s) \/ StreamLeaves(s)
  BY <1>11 DEF MailMoves, StreamOpens, StreamLeaves
<1>12. CASE UNCHANGED vars
  BY <1>12 DEF MailMoves, vars
<1> QED
  BY <1>1, <1>2, <1>3, <1>4, <1>5, <1>6, <1>7, <1>8, <1>9, <1>10, <1>11, <1>12
     DEF Next, Backend, Watcher

\* The supervisor that has sent its last message stays where it is until the mailbox
\* is dropped.
LEMMA LastMessage ==
  ASSUME [Next]_vars, backend \in {"undo", "stopRa"}
  PROVE  backend' = backend \/ raBox' = <<>>
<1> USE DEF rootVars, watcherVars, raVars, frontendVars
<1>1. CASE Main \/ Root
  BY <1>1 DEF Main, MainSpawned, MainSignalled, MainReturns, ProcessEnds, Root, RootHasBackend,
              FrontendStarts, FrontendStartFails, RootUndone, RootHandles, RootSupervises,
              RootStopsFrontend, RootStopsBackend
<1>2. CASE Backend \/ Watcher
  BY <1>2 DEF Backend, RaStarts, WatcherStarts, WatcherStartFails, BackendStarts,
              BackendDrains, BackendStopsRa, BackendStops, Watcher, WatcherStops, WatcherForwards
<1>3. CASE Frontend \/ ServerFails \/ RaServes
  BY <1>3 DEF Frontend, FrontendStops, ServerDrains, ServiceEnds, FrontendStopped,
              ServerFails, RaServes
<1>4. CASE \/ Signal \/ HostGreets \/ HostWrites \/ HostLeaves
           \/ \E c \in Changes : FileChanges(c)
           \/ \E r \in Rpcs : RpcArrives(r)
           \/ \E s \in Streams : StreamOpens(s) \/ StreamLeaves(s)
  BY <1>4 DEF Signal, HostGreets, HostWrites, HostLeaves, FileChanges, RpcArrives, StreamOpens,
              StreamLeaves
<1>5. CASE RaPanics \/ BackendPanics \/ FrontendPanics \/ ServerPanics
  BY <1>5 DEF RaPanics, BackendPanics, FrontendPanics, ServerPanics
<1>6. CASE UNCHANGED vars
  BY <1>6 DEF vars
<1> QED
  BY <1>1, <1>2, <1>3, <1>4, <1>5, <1>6 DEF Next

\* A panic is not forgotten.
LEMMA PanicsStay ==
  ASSUME [Next]_vars
  PROVE  panicked' = {} => panicked = {}
<1> USE DEF rootVars, watcherVars, raVars, frontendVars
<1>1. CASE Main \/ Root
  BY <1>1 DEF Main, MainSpawned, MainSignalled, MainReturns, ProcessEnds, Root, RootHasBackend,
              FrontendStarts, FrontendStartFails, RootUndone, RootHandles, RootSupervises,
              RootStopsFrontend, RootStopsBackend
<1>2. CASE Backend \/ Watcher
  BY <1>2 DEF Backend, RaStarts, WatcherStarts, WatcherStartFails, BackendStarts,
              BackendDrains, BackendStopsRa, BackendStops, Watcher, WatcherStops, WatcherForwards
<1>3. CASE Frontend \/ ServerFails \/ RaServes
  BY <1>3 DEF Frontend, FrontendStops, ServerDrains, ServiceEnds, FrontendStopped,
              ServerFails, RaServes
<1>4. CASE RaPanics \/ BackendPanics \/ FrontendPanics \/ ServerPanics
  BY <1>4 DEF RaPanics, BackendPanics, FrontendPanics, ServerPanics
<1>5. CASE \/ Signal \/ HostGreets \/ HostWrites \/ HostLeaves
           \/ \E c \in Changes : FileChanges(c)
           \/ \E r \in Rpcs : RpcArrives(r)
           \/ \E s \in Streams : StreamOpens(s) \/ StreamLeaves(s)
  BY <1>5 DEF Signal, HostGreets, HostWrites, HostLeaves, FileChanges, RpcArrives, StreamOpens,
              StreamLeaves
<1>6. CASE UNCHANGED vars
  BY <1>6 DEF vars
<1> QED
  BY <1>1, <1>2, <1>3, <1>4, <1>5, <1>6 DEF Next

\* Once rust-analyzer is to be shut down, or is gone without a panic, the serve task takes
\* no request any more.
LEMMA NotServing ==
  ASSUME PlaceTypes, ControlInv, panicked = {},
         backend \in {"undo", "stopRa"} \/ ~RaAlive
  PROVE  server # "serving"
<1>1. backend \in {"startRa", "undo", "stopRa", "stopped", "failed"}
  BY DEF PlaceTypes, ControlInv, ChildrenInv
<1>2. frontend \in {"none", "stopped"}
  BY <1>1 DEF ControlInv, RootInv, FrontendInv, BackendInv
<1> QED
  BY <1>2 DEF ControlInv, FrontendInv

RaMessages == Rpcs \cup Changes \cup {"shutdown"}

LEMMA StepMail ==
  ASSUME PlaceTypes, DataTypes, ControlInv, MailInv, [Next]_vars
  PROVE  MailInv'
<1> USE TreeAssumption
<1>1. raBox \in Seq(RaMessages)
  BY DEF DataTypes, RaMessages
<1>2. \A i \in DOMAIN raBox : raBox[i] = "shutdown" =>
        backend' \in {"undo", "stopRa"} \/ raBox' = <<>>
  BY LastMessage DEF MailInv
<1>0. ASSUME NEW m, ComesFirst(m)' PROVE ComesFirst(m)
  BY <1>0, PanicsStay DEF ComesFirst
<1>3. CASE UNCHANGED <<ra, raBox>> \/ (~RaAlive /\ ra' = "open" /\ raBox' = raBox)
  BY <1>0, <1>2, <1>3 DEF MailInv, RaAlive
<1>4. CASE ra' = "gone" /\ raBox' = <<>>
  BY <1>4 DEF MailInv, RaAlive
<1>5. CASE RaServes
  <2>1. /\ RaAlive /\ raBox # <<>> /\ raBox' = Tail(raBox)
        /\ \/ Head(raBox) = "shutdown" /\ ra' = "closed"
           \/ Head(raBox) # "shutdown" /\ ra' = ra
        /\ backend' = backend
    BY <1>5 DEF RaServes
  <2>2. /\ DOMAIN raBox = 1..Len(raBox) /\ DOMAIN raBox' = 1..(Len(raBox) - 1)
        /\ \A i \in DOMAIN raBox' : i + 1 \in DOMAIN raBox /\ raBox'[i] = raBox[i + 1]
        /\ 1 \in DOMAIN raBox /\ raBox[1] = Head(raBox)
    BY <1>1, <2>1
  <2>3. \A i \in DOMAIN raBox' : raBox'[i] = "shutdown" => backend' \in {"undo", "stopRa"}
    BY <2>1, <2>2 DEF MailInv
  <2>4. ASSUME NEW i \in DOMAIN raBox', NEW j \in DOMAIN raBox', raBox'[i] = "shutdown", i < j
        PROVE  ~ComesFirst(raBox[j + 1])
    <3>1. i + 1 < j + 1
      BY <2>2, <2>4
    <3> QED
      BY <2>2, <2>4, <3>1 DEF MailInv
  <2>5. ASSUME ra' = "closed", NEW i \in DOMAIN raBox' PROVE ~ComesFirst(raBox[i + 1])
    <3>1. 1 < i + 1
      BY <2>2
    <3> QED
      BY <2>1, <2>2, <2>5, <3>1 DEF MailInv
  <2>6. RaAlive'
    BY <2>1 DEF RaAlive
  <2> QED
    BY <1>0, <2>2, <2>3, <2>4, <2>5, <2>6 DEF MailInv
<1>6. ASSUME NEW m \in RaMessages, RaAlive, ra' = ra, raBox' = Append(raBox, m),
             m = "shutdown" => backend' \in {"undo", "stopRa"},
             m \in Changes => watcher \in {"idle", "draining"},
             m \in Rpcs => server = "serving"
      PROVE  MailInv'
  <2> DEFINE n == Len(raBox)
  <2>1. /\ n \in Nat /\ DOMAIN raBox = 1..n /\ DOMAIN raBox' = 1..(n + 1)
        /\ raBox'[n + 1] = m
        /\ \A i \in 1..n : raBox'[i] = raBox[i]
    BY <1>1, <1>6
  <2>2. \A i \in 1..(n + 1) : i = n + 1 \/ i \in 1..n
    BY <2>1
  <2>3. raBox' # <<>>
    BY <2>1
  <2>4. ComesFirst(m) =>
          /\ ra # "closed"
          /\ \A i \in DOMAIN raBox : raBox[i] # "shutdown"
    <3>1. ComesFirst(m) => backend \notin {"undo", "stopRa"}
      BY <1>6, NotServing DEF ComesFirst, ControlInv, ChildrenInv
    <3> QED
      BY <3>1 DEF ControlInv, ChildrenInv, MailInv
  <2>5. \A i \in DOMAIN raBox' : raBox'[i] = "shutdown" => backend' \in {"undo", "stopRa"}
    BY <1>2, <1>6, <2>1, <2>2, <2>3
  <2>6. \A i, j \in DOMAIN raBox' : raBox'[i] = "shutdown" /\ i < j => ~ComesFirst(raBox'[j])
    <3> SUFFICES ASSUME NEW i \in 1..(n + 1), NEW j \in 1..(n + 1), raBox'[i] = "shutdown", i < j
                 PROVE  ~ComesFirst(raBox'[j])
      BY <2>1
    <3>1. i \in 1..n
      BY <2>1
    <3>2. CASE j = n + 1
      BY <2>1, <2>4, <3>1, <3>2
    <3>3. CASE j \in 1..n
      BY <2>1, <3>1, <3>3 DEF MailInv
    <3> QED
      BY <2>2, <3>2, <3>3
  <2>7. ra' = "closed" => \A i \in DOMAIN raBox' : ~ComesFirst(raBox'[i])
    BY <1>6, <2>1, <2>2, <2>4 DEF MailInv
  <2>8. RaAlive'
    BY <1>6 DEF RaAlive
  <2> QED
    BY <1>0, <2>5, <2>6, <2>7, <2>8 DEF MailInv
<1>7. MailMoves
  BY MailEvolves DEF ControlInv
<1> QED
  BY <1>3, <1>4, <1>5, <1>6, <1>7 DEF MailMoves, RaMessages

------------------------------------------------------------------------------
\* What became of the requests.

LEMMA StepRequest ==
  ASSUME PlaceTypes, DataTypes, ControlInv, MailInv, RequestInv, [Next]_vars
  PROVE  RequestInv'
<1> USE DEF rootVars, watcherVars, raVars, frontendVars
<1>0. raBox \in Seq(RaMessages)
  BY DEF DataTypes, RaMessages
<1>1. CASE RaPanics \/ BackendPanics
  <2>1. \A r \in Rpcs : rpc'[r] = IF rpc[r] = "inflight" THEN "closed" ELSE rpc[r]
    BY <1>1 DEF RaPanics, BackendPanics, DropRpcs
  <2>2. panicked' # {} /\ UNCHANGED <<server, host>>
    BY <1>1 DEF RaPanics, BackendPanics
  <2> QED
    BY <2>1, <2>2 DEF RequestInv, Mcp
<1>2. CASE BackendStops
  <2>1. /\ \A r \in Rpcs : rpc'[r] = IF rpc[r] = "inflight" THEN "closed" ELSE rpc[r]
        /\ backend \in {"undo", "stopRa"} /\ ra \in {"closed", "gone"}
        /\ UNCHANGED <<server, panicked, host>>
    BY <1>2 DEF BackendStops, DropRpcs
  <2>2. CASE ra = "gone"
    BY <2>1, <2>2 DEF RequestInv, Mcp, ControlInv, ChildrenInv, RaAlive
  <2>3. CASE ra = "closed"
    <3>1. ASSUME NEW r \in Rpcs, rpc[r] = "inflight" PROVE panicked # {}
      BY <2>3, <3>1 DEF RequestInv, MailInv, ComesFirst
    <3> QED
      BY <2>1, <3>1 DEF RequestInv, Mcp
  <2> QED
    BY <2>1, <2>2, <2>3
<1>3. CASE RaServes
  <2>1. /\ RaAlive /\ raBox # <<>> /\ raBox' = Tail(raBox)
        /\ \A r \in Rpcs : rpc'[r] =
             IF r # Head(raBox) \/ rpc[r] # "inflight" THEN rpc[r]
             ELSE IF ra = "open" THEN "answered" ELSE "closed"
        /\ UNCHANGED <<server, panicked, host>>
    BY <1>3 DEF RaServes
  <2>2. /\ 1 \in DOMAIN raBox /\ Head(raBox) = raBox[1]
        /\ \A i \in DOMAIN raBox : i = 1 \/ (i - 1 \in DOMAIN raBox' /\ raBox'[i - 1] = raBox[i])
    BY <1>0, <2>1
  <2>3. ASSUME NEW r \in Rpcs, rpc'[r] = "inflight" PROVE \E i \in DOMAIN raBox' : raBox'[i] = r
    <3>1. rpc[r] = "inflight" /\ r # raBox[1]
      BY <2>1, <2>2, <2>3
    <3> QED
      BY <2>2, <3>1 DEF RequestInv
  <2>4. ra # "open" => Head(raBox) \notin Rpcs \/ panicked # {}
    BY <2>1, <2>2 DEF RaAlive, MailInv, ComesFirst
  <2>5. \A r \in Rpcs : rpc'[r] = "closed" => panicked' # {}
    BY <2>1, <2>4 DEF RequestInv
  <2> QED
    BY <2>1, <2>3, <2>5 DEF RequestInv, Mcp
<1>4. ASSUME NEW q \in Rpcs, RpcArrives(q) PROVE RequestInv'
  <2>1. \A r \in Rpcs :
          rpc'[r] = IF r # q THEN rpc[r] ELSE IF RaAlive THEN "inflight" ELSE "closed"
    BY <1>4 DEF RpcArrives, DataTypes
  <2>2. server = "serving" /\ UNCHANGED <<server, panicked, host>>
    BY <1>4 DEF RpcArrives
  <2>3. ~RaAlive => panicked # {}
    BY <2>2, NotServing
  <2>4. raBox' = IF RaAlive THEN Append(raBox, q) ELSE raBox
    BY <1>4 DEF RpcArrives
  <2>5. /\ RaAlive => Len(raBox) + 1 \in DOMAIN raBox' /\ raBox'[Len(raBox) + 1] = q
        /\ \A i \in DOMAIN raBox : i \in DOMAIN raBox' /\ raBox'[i] = raBox[i]
    BY <1>0, <2>4 DEF RaMessages
  <2>6. ASSUME NEW r \in Rpcs, rpc'[r] = "inflight" PROVE \E i \in DOMAIN raBox' : raBox'[i] = r
    <3>1. CASE r = q
      BY <2>1, <2>5, <2>6, <3>1
    <3>2. CASE r # q
      BY <2>1, <2>5, <2>6, <3>2 DEF RequestInv
    <3> QED
      BY <3>1, <3>2
  <2> QED
    BY <2>1, <2>2, <2>3, <2>6 DEF RequestInv, Mcp
<1>5. CASE MainReturns \/ ServerDrains \/ ServiceEnds \/ ServerFails \/ ServerPanics
  <2>1. /\ \A r \in Rpcs : rpc'[r] = IF Mcp /\ rpc[r] = "inflight" THEN "cut" ELSE rpc[r]
        /\ server' = IF server = "none" THEN "none" ELSE "ended"
        /\ UNCHANGED <<raBox, host>>
    BY <1>5 DEF MainReturns, ServerDrains, ServiceEnds, ServerFails, ServerPanics, CutOff
  <2> QED
    BY <2>1, PanicsStay DEF RequestInv, Mcp
<1>6. CASE FrontendStarts
  <2>1. /\ root = "startFrontend" /\ server' = "serving"
        /\ UNCHANGED <<rpc, raBox, panicked, host>>
    BY <1>6 DEF FrontendStarts
  <2>2. server = "none"
    BY <2>1 DEF ControlInv, RootInv, FrontendInv
  <2> QED
    BY <2>1, <2>2 DEF RequestInv
<1>7. CASE FrontendStops \/ FrontendStopped \/ FrontendPanics
  BY <1>7, PanicsStay DEF FrontendStops, FrontendStopped, FrontendPanics, RequestInv, Mcp
<1>8. CASE HostGreets \/ HostWrites \/ HostLeaves
  <2>1. host'.kind = host.kind /\ UNCHANGED <<server, rpc, raBox, panicked>>
    BY <1>8 DEF HostGreets, HostWrites, HostLeaves, DataTypes
  <2> QED
    BY <2>1 DEF RequestInv, Mcp
<1>9. ASSUME UNCHANGED <<server, rpc, panicked, host>>,
             \/ UNCHANGED raBox
             \/ \E m \in RaMessages : raBox' = Append(raBox, m)
      PROVE  RequestInv'
  <2>1. \A i \in DOMAIN raBox : i \in DOMAIN raBox' /\ raBox'[i] = raBox[i]
    BY <1>0, <1>9
  <2> QED
    BY <1>9, <2>1 DEF RequestInv, Mcp
<1>10. CASE \/ MainSpawned \/ MainSignalled \/ ProcessEnds \/ RootHasBackend
            \/ FrontendStartFails \/ RootUndone \/ RootHandles \/ RootSupervises
            \/ RootStopsFrontend \/ RootStopsBackend
  BY <1>9, <1>10 DEF MainSpawned, MainSignalled, ProcessEnds, RootHasBackend,
                     FrontendStartFails, RootUndone, RootHandles, RootSupervises,
                     RootStopsFrontend, RootStopsBackend
<1>11. CASE \/ RaStarts \/ WatcherStarts \/ WatcherStartFails \/ BackendStarts \/ BackendDrains
            \/ BackendStopsRa \/ Watcher
  BY <1>9, <1>11 DEF RaStarts, WatcherStarts, WatcherStartFails, BackendStarts, BackendDrains,
                     BackendStopsRa, Watcher, WatcherStops, WatcherForwards, RaMessages
<1>12. CASE \/ Signal
            \/ \E c \in Changes : FileChanges(c)
            \/ \E s \in Streams : StreamOpens(s) \/ StreamLeaves(s)
  BY <1>9, <1>12 DEF Signal, FileChanges, StreamOpens, StreamLeaves
<1>13. CASE UNCHANGED vars
  BY <1>9, <1>13 DEF vars
<1> QED
  BY <1>1, <1>2, <1>3, <1>4, <1>5, <1>6, <1>7, <1>8, <1>10, <1>11, <1>12, <1>13
     DEF Next, Main, Root, Backend, Frontend

------------------------------------------------------------------------------
\* What became of the file changes.

\* What a step does to a change: it goes on, or is lost to a panic.
ChangeMoves(c) ==
  \/ change'[c] = change[c]
  \/ change[c] = "new" /\ change'[c] = IF Telling(c) THEN "queued" ELSE "ignored"
  \/ /\ change[c] = "queued" /\ change'[c] = "sent"
     /\ RaAlive /\ raBox' = Append(raBox, c)
  \/ RaServes /\ change'[c] = "delivered" /\ c = Head(raBox) /\ ra = "open"
  \/ change'[c] = "lost" /\ panicked' # {}

LEMMA ChangesEvolve ==
  ASSUME PlaceTypes, DataTypes, ControlInv, MailInv, ChangeInv, [Next]_vars
  PROVE  \A c \in Changes : ChangeMoves(c)
<1> USE DEF rootVars, watcherVars, raVars, frontendVars, ChangeMoves
<1>0. raBox \in Seq(RaMessages)
  BY DEF DataTypes, RaMessages
<1>1. CASE BackendPanics
  BY <1>1 DEF BackendPanics
<1>2. CASE RaPanics
  BY <1>2 DEF RaPanics, DropChanges
<1>3. CASE BackendStops
  <2>1. /\ \A c \in Changes : change'[c] = IF change[c] = "sent" THEN "lost" ELSE change[c]
        /\ ra \in {"closed", "gone"} /\ backend \in {"undo", "stopRa"} /\ panicked' = panicked
    BY <1>3 DEF BackendStops, DropChanges
  <2>2. CASE ra = "gone"
    BY <2>1, <2>2 DEF ControlInv, ChildrenInv, RaAlive
  <2>3. CASE ra = "closed"
    <3>1. \A c \in Changes : change[c] # "sent"
      BY <2>3 DEF MailInv, ChangeInv, ComesFirst
    <3> QED
      BY <2>1, <3>1
  <2> QED
    BY <2>1, <2>2, <2>3
<1>4. CASE BackendStarts
  <2>1. /\ \A c \in Changes :
             change'[c] = IF ~RaAlive /\ change[c] = "queued" THEN "lost" ELSE change[c]
        /\ backend = "info" /\ panicked' = panicked
    BY <1>4 DEF BackendStarts
  <2>2. ~RaAlive => panicked # {}
    BY <2>1 DEF ControlInv, ChildrenInv
  <2> QED
    BY <2>1, <2>2
<1>5. CASE RaServes
  <2>1. /\ \A c \in Changes : change'[c] =
             IF c # Head(raBox) THEN change[c] ELSE IF ra = "open" THEN "delivered" ELSE "lost"
        /\ raBox # <<>> /\ RaAlive /\ panicked' = panicked
    BY <1>5 DEF RaServes
  <2>2. 1 \in DOMAIN raBox /\ Head(raBox) = raBox[1]
    BY <1>0, <2>1
  <2>3. ra # "open" => Head(raBox) \notin Changes
    BY <2>1, <2>2 DEF RaAlive, MailInv, ComesFirst
  <2> QED
    BY <1>5, <2>1, <2>3
<1>6. ASSUME NEW d \in Changes, FileChanges(d)
      PROVE  panicked' = panicked /\ \A c \in Changes : ChangeMoves(c)
  BY <1>6, WatcherFilters DEF FileChanges, DataTypes
<1>7. ASSUME NEW d \in Changes, WatcherForwards(d)
      PROVE  panicked' = panicked /\ \A c \in Changes : ChangeMoves(c)
  <2>1. Telling(d)
    BY <1>7 DEF WatcherForwards, ChangeInv
  <2>2. /\ change[d] = "queued" /\ panicked' = panicked
        /\ change' = [change EXCEPT ![d] = IF RaAlive THEN "sent" ELSE "lost"]
        /\ RaAlive => raBox' = Append(raBox, d)
    BY <1>7, <2>1, WatcherFilters DEF WatcherForwards
  <2>3. ~RaAlive => panicked # {}
    BY <1>7 DEF WatcherForwards, ControlInv, ChildrenInv
  <2> QED
    BY <2>2, <2>3 DEF DataTypes
<1>8. CASE Main \/ Root
  BY <1>8 DEF Main, MainSpawned, MainSignalled, MainReturns, ProcessEnds, Root, RootHasBackend,
              FrontendStarts, FrontendStartFails, RootUndone, RootHandles, RootSupervises,
              RootStopsFrontend, RootStopsBackend
<1>9. CASE \/ RaStarts \/ WatcherStarts \/ WatcherStartFails \/ BackendDrains
           \/ BackendStopsRa \/ WatcherStops
  BY <1>9 DEF RaStarts, WatcherStarts, WatcherStartFails, BackendDrains, BackendStopsRa,
              WatcherStops
<1>10. CASE Frontend \/ ServerFails \/ FrontendPanics \/ ServerPanics
  BY <1>10 DEF Frontend, FrontendStops, ServerDrains, ServiceEnds, FrontendStopped,
               ServerFails, FrontendPanics, ServerPanics
<1>11. CASE \/ Signal \/ HostGreets \/ HostWrites \/ HostLeaves
            \/ \E r \in Rpcs : RpcArrives(r)
            \/ \E s \in Streams : StreamOpens(s) \/ StreamLeaves(s)
  BY <1>11 DEF Signal, HostGreets, HostWrites, HostLeaves, RpcArrives, StreamOpens, StreamLeaves
<1>12. CASE UNCHANGED vars
  BY <1>12 DEF vars
<1> QED
  BY <1>1, <1>2, <1>3, <1>4, <1>5, <1>6, <1>7, <1>8, <1>9, <1>10, <1>11, <1>12
     DEF Next, Backend, Watcher

LEMMA StepChange ==
  ASSUME PlaceTypes, DataTypes, ControlInv, MailInv, ChangeInv, [Next]_vars
  PROVE  ChangeInv'
<1> USE TreeAssumption
<1>1. raBox \in Seq(RaMessages)
  BY DEF DataTypes, RaMessages
<1>2. \A c \in Changes : ChangeMoves(c)
  BY ChangesEvolve
<1>3. panicked # {} => panicked' # {}
  BY PanicsStay
<1>4. ASSUME NEW c \in Changes
      PROVE  /\ change'[c] \in {"queued", "sent", "delivered"} => Telling(c)
             /\ change'[c] = "ignored" => ~Telling(c)
             /\ change'[c] = "lost" => panicked' # {}
  <2>1. ChangeMoves(c)
    BY <1>2
  <2>2. c = Head(raBox) /\ RaServes => Telling(c)
    <3> SUFFICES ASSUME c = Head(raBox), raBox # <<>> PROVE Telling(c)
      BY DEF RaServes
    <3>1. 1 \in DOMAIN raBox /\ raBox[1] = c
      BY <1>1
    <3> QED
      BY <3>1 DEF ChangeInv
  <2> QED
    BY <1>3, <2>1, <2>2 DEF ChangeMoves, ChangeInv
<1>5. MailMoves
  BY MailEvolves DEF ControlInv
<1>6. \A i \in DOMAIN raBox' : raBox'[i] \in Changes => Telling(raBox'[i])
  <2>1. CASE raBox' = raBox
    BY <2>1 DEF ChangeInv
  <2>2. CASE raBox' = <<>>
    BY <2>2
  <2>3. CASE RaServes
    <3>1. raBox # <<>> /\ raBox' = Tail(raBox)
      BY <2>3 DEF RaServes
    <3>2. \A i \in DOMAIN raBox' : i + 1 \in DOMAIN raBox /\ raBox'[i] = raBox[i + 1]
      BY <1>1, <3>1
    <3> QED
      BY <3>2 DEF ChangeInv
  <2>4. ASSUME NEW m \in RaMessages, raBox' = Append(raBox, m), m \in Changes => Telling(m)
        PROVE  \A i \in DOMAIN raBox' : raBox'[i] \in Changes => Telling(raBox'[i])
    <3>1. \A i \in DOMAIN raBox' : raBox'[i] = m \/ (i \in DOMAIN raBox /\ raBox'[i] = raBox[i])
      BY <1>1, <2>4
    <3> QED
      BY <2>4, <3>1 DEF ChangeInv
  <2> QED
    BY <1>5, <2>1, <2>2, <2>3, <2>4 DEF MailMoves, RaMessages
<1>7. ASSUME NEW c \in Changes, change'[c] = "sent"
      PROVE  \E i \in DOMAIN raBox' : raBox'[i] = c
  <2>1. \/ change[c] = "sent"
        \/ raBox' = Append(raBox, c)
    BY <1>2, <1>7 DEF ChangeMoves
  <2>2. CASE raBox' = Append(raBox, c)
    <3>1. Len(raBox) + 1 \in DOMAIN raBox' /\ raBox'[Len(raBox) + 1] = c
      BY <1>1, <2>2 DEF RaMessages
    <3> QED
      BY <3>1
  <2>3. CASE change[c] = "sent"
    <3>1. PICK i \in DOMAIN raBox : raBox[i] = c
      BY <2>3 DEF ChangeInv
    <3>2. CASE raBox' = raBox
      BY <3>1, <3>2
    <3>3. CASE \E m \in RaMessages : raBox' = Append(raBox, m)
      <4>1. i \in DOMAIN raBox' /\ raBox'[i] = raBox[i]
        BY <1>1, <3>3
      <4> QED
        BY <3>1, <4>1
    <3>4. CASE RaServes
      <4>1. raBox # <<>> /\ raBox' = Tail(raBox) /\ c # Head(raBox)
        BY <1>7, <3>4 DEF RaServes
      <4>2. i # 1 /\ i - 1 \in DOMAIN raBox' /\ raBox'[i - 1] = raBox[i]
        BY <1>1, <3>1, <4>1
      <4> QED
        BY <3>1, <4>2
    <3> QED
      BY <1>5, <1>7, <3>2, <3>3, <3>4 DEF MailMoves, RaMessages
  <2> QED
    BY <2>1, <2>2, <2>3
<1> QED
  BY <1>4, <1>6, <1>7 DEF ChangeInv

------------------------------------------------------------------------------
\* The inductive invariant.

LEMMA InitInv == Init => IndInv
<1> SUFFICES ASSUME Init PROVE IndInv
  OBVIOUS
<1>1. PlaceTypes /\ ControlInv
  BY DEF Init, PlaceTypes, ControlInv, RootInv, FrontendInv, BackendInv, ChildrenInv, RaAlive,
         Returned
<1>2. ResultTypes
  BY DEF Init, ResultTypes
<1>3. DataTypes
  BY DEF Init, DataTypes
<1>4. MailInv
  BY DEF Init, MailInv, RaAlive
<1>5. RequestInv /\ ChangeInv
  BY DEF Init, RequestInv, ChangeInv
<1> QED
  BY <1>1, <1>2, <1>3, <1>4, <1>5 DEF IndInv

LEMMA StepInv == IndInv /\ [Next]_vars => IndInv'
BY StepPlaceTypes, StepResultTypes, StepDataTypes, StepRoot, StepBackend, StepMail, StepRequest,
   StepChange DEF IndInv, ControlInv

LEMMA Inductive == Spec => []IndInv
BY InitInv, StepInv, PTL DEF Spec

------------------------------------------------------------------------------
\* The properties.

\* Every variable has its type, and run_until_shutdown never returns without a result.
THEOREM TypeCorrect == Spec => []TypeOK
<1>1. IndInv => TypeOK
  <2> SUFFICES ASSUME IndInv PROVE TypeOK
    OBVIOUS
  <2>1. Returned => result # "none"
    BY DEF IndInv, ControlInv, RootInv
  <2> QED
    BY <2>1, Zenon DEF IndInv, PlaceTypes, ResultTypes, DataTypes, TypeOK
<1> QED
  BY <1>1, Inductive, PTL

\* rust-analyzer is asked to shut down only when no front end serves any more and the
\* file watcher has stopped, whatever fails or panics on the way (RootActor's handler,
\* BackendSupervisor's Shutdown and its failing pre_start).
THEOREM TeardownIsOrdered == Spec => []TeardownInOrder
<1>1. IndInv => TeardownInOrder
  <2> SUFFICES ASSUME IndInv, ra = "closed" \/ \E i \in DOMAIN raBox : raBox[i] = "shutdown"
               PROVE  frontend \notin {"idle", "stopping"} /\ watcher \notin {"idle", "draining"}
    BY DEF TeardownInOrder
  <2>1. backend \in {"undo", "stopRa"}
    BY DEF IndInv, ControlInv, ChildrenInv, MailInv
  <2>2. watcher \notin {"idle", "draining"}
    BY <2>1 DEF IndInv, ControlInv, ChildrenInv
  <2>3. root \in {"startBackend", "undo", "failed", "stopBackend", "stopped"}
    BY <2>1 DEF IndInv, ControlInv, BackendInv
  <2> QED
    BY <2>2, <2>3 DEF IndInv, ControlInv, RootInv
<1> QED
  BY <1>1, Inductive, PTL

\* What racli has accepted it finishes as long as nothing panicked: a request is answered
\* by a live session, also one whose server fails, and rust-analyzer hears of every
\* change to a watched file that was seen, and of no other, before its own shutdown.
THEOREM AcceptedIsFinished == Spec => []AcceptedWorkFinishes
<1>1. IndInv => AcceptedWorkFinishes
  BY DEF IndInv, RequestInv, ChangeInv, Telling, AcceptedWorkFinishes
<1> QED
  BY <1>1, Inductive, PTL

\* run_until_shutdown never returns, nor reports a failed start, with a rust-analyzer
\* actor left, and a serve task that failed or panicked is what it reports, whatever else
\* went wrong.
THEOREM ExitsClean == Spec => []ExitIsClean
<1>1. IndInv => ExitIsClean
  <2> SUFFICES ASSUME IndInv, Returned
               PROVE  /\ ra \in {"none", "gone"}
                      /\ (served # "ok" /\ "frontend" \notin panicked) => result = "frontend"
    BY DEF ExitIsClean
  <2>1. root \in {"stopped", "failed"} /\ backend \in {"stopped", "failed"}
    BY DEF IndInv, ControlInv, RootInv
  <2>2. ra \in {"none", "gone"}
    BY <2>1 DEF IndInv, ControlInv, ChildrenInv, RaAlive, PlaceTypes
  <2>3. root = "failed" => served = "ok"
    BY DEF IndInv, ControlInv, RootInv, FrontendInv
  <2> QED
    BY <2>1, <2>2, <2>3 DEF IndInv, ControlInv, FrontendInv
<1> QED
  BY <1>1, Inductive, PTL


==============================================================================
