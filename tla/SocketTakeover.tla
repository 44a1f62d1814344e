---------------------------- MODULE SocketTakeover ----------------------------
(***************************************************************************)
(* Several racli processes over one Unix socket path: `racli server`       *)
(* (src/grpc_server.rs), `racli tee` (src/tee.rs) and the gRPC front end   *)
(* that binds the path and removes it (src/actors/frontend.rs).            *)
(*                                                                         *)
(* Nothing but the file system coordinates them.  A new process removes    *)
(* whatever is at the path, starts its rust-analyzer and binds; an old one *)
(* stops at any time and removes the path if it still is its own, which it *)
(* tells by the inode number; a crash leaves the file behind.              *)
(***************************************************************************)
EXTENDS Naturals

CONSTANTS
  Instances,   \* the racli processes, each started once
  Tees,        \* those that are `racli tee`
  ByHand,      \* those whose stdin is a terminal
  None

ASSUME InstancesAssumption == Tees \subseteq Instances /\ ByHand \subseteq Instances
ASSUME NoneAssumption == None \notin Instances

VARIABLES
  phase,       \* how far each process has come
  path,        \* the process that bound the file at the path, None if there is none
  inode,       \* the inode of the socket each process bound, named after the first
               \* process that got it
  identity,    \* socket_identity: the inode each process took for its own
  proxied,     \* the process a tee's stdio session goes to, None before it connects
  successors   \* history: the processes that bound the path while one was serving

vars == <<phase, path, inode, identity, proxied, successors>>

Listening == {"bound", "serving", "draining"}
Running == {"tee", "server", "starting", "closed", "unlinking"} \cup Listening

Init ==
  /\ phase = [i \in Instances |-> "off"]
  /\ path = None
  /\ inode = [i \in Instances |-> None]
  /\ identity = [i \in Instances |-> None]
  /\ proxied = [i \in Instances |-> None]
  /\ successors = [i \in Instances |-> {}]

Goto(i, p) == phase' = [phase EXCEPT ![i] = p]

\* A connection attempt reaches a process only through the path.
Reachable == path # None /\ phase[path] \in Listening

\* A new socket gets an inode of its own or one that is free again: an inode is in use
\* as long as the path or an open listener refers to it.
FreeInodes(i) ==
  ({i} \cup {inode[j] : j \in Instances})
    \ ({None} \cup {inode[j] : j \in {j \in Instances : path = j \/ phase[j] \in Listening}})

\* The file at the path, as (device, inode).
FileIdentity == IF path = None THEN None ELSE inode[path]

------------------------------------------------------------------------------
\* Starting.

\* Started by hand, racli does not take over a server that answers GetVersion;
\* editors start it with piped stdin.
Launch(i) ==
  /\ phase[i] = "off"
  /\ IF i \in ByHand /\ Reachable /\ phase[path] # "draining"
       THEN Goto(i, "refused")
       ELSE Goto(i, IF i \in Tees THEN "tee" ELSE "server")
  /\ UNCHANGED <<path, inode, identity, proxied, successors>>

\* Mutant of TeeRemoves: the tee claims the path before its server has bound it.
TeeBinds(i) ==
  /\ phase[i] = "tee"
  /\ path' = i
  /\ Goto(i, "server")
  /\ UNCHANGED <<inode, identity, proxied, successors>>

\* run_tee removes the path and spawns the server task.
TeeRemoves(i) ==
  /\ phase[i] = "tee"
  /\ path' = None
  /\ Goto(i, "server")
  /\ UNCHANGED <<inode, identity, proxied, successors>>

\* The server removes the path and starts rust-analyzer.
ServerRemoves(i) ==
  /\ phase[i] = "server"
  /\ path' = None
  /\ Goto(i, "starting")
  /\ UNCHANGED <<inode, identity, proxied, successors>>

\* rust-analyzer does not start.
StartFails(i) ==
  /\ phase[i] = "starting"
  /\ Goto(i, "no backend")
  /\ UNCHANGED <<path, inode, identity, proxied, successors>>

Bind(i) ==
  /\ phase[i] = "starting"
  /\ path = None
  /\ \E n \in FreeInodes(i) : inode' = [inode EXCEPT ![i] = n]
  /\ path' = i
  /\ successors' = [j \in Instances |->
       IF phase[j] \in {"serving", "draining"} THEN successors[j] \cup {i} ELSE successors[j]]
  /\ Goto(i, "bound")
  /\ UNCHANGED <<identity, proxied>>

\* Mutant of BindFails: the socket is removed on a failed start, too.
BindFailsAndRemoves(i) ==
  /\ phase[i] = "starting"
  /\ path # None
  /\ path' = None
  /\ Goto(i, "address in use")
  /\ UNCHANGED <<inode, identity, proxied, successors>>

\* Another process has bound the path since this one removed it.
BindFails(i) ==
  /\ phase[i] = "starting"
  /\ path # None
  /\ Goto(i, "address in use")
  /\ UNCHANGED <<path, inode, identity, proxied, successors>>

\* Mutant of ReadIdentity: the identity is not kept.
ForgetIdentity(i) ==
  /\ phase[i] = "bound"
  /\ Goto(i, "serving")
  /\ UNCHANGED <<path, inode, identity, proxied, successors>>

\* The identity is read from the path after the bind.
ReadIdentity(i) ==
  /\ phase[i] = "bound"
  /\ identity' = [identity EXCEPT ![i] = FileIdentity]
  /\ Goto(i, "serving")
  /\ UNCHANGED <<path, inode, proxied, successors>>

\* Mutant of Connect: one attempt, made once the own server is up, is all there is.
ConnectToOwn(t) ==
  /\ t \in Tees
  /\ proxied[t] = None
  /\ phase[t] = "serving"
  /\ path = t
  /\ proxied' = [proxied EXCEPT ![t] = t]
  /\ UNCHANGED <<phase, path, inode, identity, successors>>

\* From the spawn of the server task on, the tee's proxy tries to connect to the
\* path, again and again until it succeeds or the server task ends.
Connect(t) ==
  /\ t \in Tees
  /\ proxied[t] = None
  /\ phase[t] \in Running \ {"tee"}
  /\ Reachable
  /\ proxied' = [proxied EXCEPT ![t] = path]
  /\ UNCHANGED <<phase, path, inode, identity, successors>>

------------------------------------------------------------------------------
\* Stopping.

\* A signal, the editor's exit or a failing server.
Stop(i) ==
  /\ phase[i] = "serving"
  /\ Goto(i, "draining")
  /\ UNCHANGED <<path, inode, identity, proxied, successors>>

\* The serve task ends, and its listener with it.
Close(i) ==
  /\ phase[i] = "draining"
  /\ Goto(i, "closed")
  /\ UNCHANGED <<path, inode, identity, proxied, successors>>

\* Mutant of CheckIdentity: the path is removed whatever it is.
NoCheck(i) ==
  /\ phase[i] = "closed"
  /\ Goto(i, "unlinking")
  /\ UNCHANGED <<path, inode, identity, proxied, successors>>

\* post_stop compares the identity of the path with the one it read ...
CheckIdentity(i) ==
  /\ phase[i] = "closed"
  /\ Goto(i, IF identity[i] # None /\ FileIdentity = identity[i] THEN "unlinking" ELSE "exited")
  /\ UNCHANGED <<path, inode, identity, proxied, successors>>

\* ... and removes it.
Unlink(i) ==
  /\ phase[i] = "unlinking"
  /\ path' = None
  /\ Goto(i, "exited")
  /\ UNCHANGED <<inode, identity, proxied, successors>>

\* SIGKILL: the listener is closed, the file stays.
Crash(i) ==
  /\ phase[i] \in Running
  /\ Goto(i, "crashed")
  /\ UNCHANGED <<path, inode, identity, proxied, successors>>

------------------------------------------------------------------------------
Run(i) ==
  \/ TeeRemoves(i) \/ ServerRemoves(i) \/ Bind(i) \/ BindFails(i) \/ ReadIdentity(i)
  \/ Close(i) \/ CheckIdentity(i) \/ Unlink(i)

Next ==
  \E i \in Instances : Launch(i) \/ Run(i) \/ Connect(i) \/ StartFails(i) \/ Stop(i) \/ Crash(i)

\* A process that has started goes on, and a tee retries; nobody has to start, stop,
\* fail or crash.
Spec ==
  /\ Init /\ [][Next]_vars
  /\ \A i \in Instances : WF_vars(Run(i)) /\ WF_vars(Connect(i))

------------------------------------------------------------------------------
Phases == Running \cup {"off", "refused", "no backend", "address in use", "exited", "crashed"}

\* Every variable has its type.
TypeOK ==
  /\ phase \in [Instances -> Phases]
  /\ path \in Instances \cup {None}
  /\ inode \in [Instances -> Instances \cup {None}]
  /\ identity \in [Instances -> Instances \cup {None}]
  /\ proxied \in [Instances -> Instances \cup {None}]
  /\ successors \in [Instances -> SUBSET Instances]
  /\ path # None => inode[path] # None

\* However many processes start at once, each removing the path and some failing to
\* bind it: once all are through, clients find a server that serves (a failed bind
\* leaves the path to whoever has it, run_grpc_unix_socket_until_shutdown).
StartersLeaveAServer ==
  /\ \A i \in Instances : phase[i] \in {"off", "refused", "address in use", "serving"}
  /\ \E i \in Instances : phase[i] = "serving"
  => path # None /\ phase[path] = "serving"

\* Processes that stopped, crashed or never got a rust-analyzer.
Disturbed == \E i \in Instances :
  phase[i] \in {"no backend", "draining", "closed", "unlinking", "exited", "crashed"}

\* A tee whose server is up gets its editor a server, its own or another one's, even if
\* a process that starts removes the path before the tee has connected.
TeeConnects ==
  \A t \in Tees : (phase[t] = "serving") ~> (proxied[t] # None \/ Disturbed)

\* "The old server must not delete the new server's socket" (tests/server.rs:57): one
\* that knows its own socket never removes that of a process which bound the path
\* while it was still serving.
SuccessorKept ==
  [][\A i \in Instances :
       phase[i] = "unlinking" /\ phase'[i] = "exited" /\ identity[i] = inode[i]
         => path \notin successors[i]]_vars

\* A process that stops in order leaves no socket of its own behind, whoever removed
\* and bound the path meanwhile.
NoStaleSocket == \A i \in Instances : phase[i] = "exited" => path # i

\* src/tee.rs:103: removing the path "guarantees our first connect attempt can't reach
\* another process's socket before our server task has run".
FirstConnectIsOwn == \A t \in Tees : phase[t] = "server" => proxied[t] = None
==============================================================================
