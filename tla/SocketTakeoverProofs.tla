------------------------- MODULE SocketTakeoverProofs -------------------------
(***************************************************************************)
(* Proofs about SocketTakeover, for every number of racli processes and    *)
(* whichever of them are tees or started by hand: starters leave a server  *)
(* behind, a process that stops in order leaves no socket of its own, and  *)
(* it removes none of a successor's.                                       *)
(*                                                                         *)
(* None of the three is inductive.  What they rest on: a process binds at  *)
(* most once, so a socket's inode never changes; while a process listens,  *)
(* nobody else gets its inode; and the identity read after the bind is the *)
(* own one as long as the path is.                                         *)
(***************************************************************************)
EXTENDS SocketTakeover, TLAPS

------------------------------------------------------------------------------
\* The parts of the inductive invariant.

\* The phases of a process that has bound the path, unless it crashed before.
HasBound == {"closed", "unlinking", "exited", "crashed"} \cup Listening

\* The phases in which the identity is known.
Identified == {"serving", "draining", "closed", "unlinking"}

\* The file at the path is the socket of a process that has bound it.
PathBound == path # None => phase[path] \in HasBound

\* The path is free only if nobody has tried to bind it yet, or somebody has removed it
\* and is not done, or will never serve.
PathFree ==
  path = None =>
    \/ \A i \in Instances : phase[i] \in {"off", "refused", "tee"}
    \/ \E i \in Instances :
         phase[i] \in {"server", "starting", "no backend", "exited", "crashed"}

\* A process whose socket still is at the path knows it for its own.
OwnIdentity ==
  path # None /\ phase[path] \in Identified => identity[path] = inode[path]

\* A successor has bound the path, once and for all, and got another inode.
SuccessorsDiffer ==
  \A i \in Instances : \A j \in successors[i] :
    /\ phase[i] \in HasBound
    /\ phase[j] \in HasBound
    /\ inode[j] # inode[i]

\* One that is about to remove the path, knowing its own socket, does not find a
\* successor's there.
UnlinksNoSuccessor ==
  \A i \in Instances :
    phase[i] = "unlinking" /\ identity[i] = inode[i] => path \notin successors[i]

TakeoverInv ==
  /\ PathBound
  /\ PathFree
  /\ OwnIdentity
  /\ SuccessorsDiffer
  /\ UnlinksNoSuccessor
  /\ NoStaleSocket

IndInv == TypeOK /\ TakeoverInv

------------------------------------------------------------------------------
\* Types.

LEMMA InitTypes == Init => TypeOK
BY NoneAssumption DEF Init, TypeOK, Phases, Running, Listening

LEMMA GotoTypes ==
  ASSUME TypeOK, NEW i \in Instances, NEW p \in Phases, Goto(i, p)
  PROVE  phase' \in [Instances -> Phases]
BY DEF TypeOK, Goto

\* A new inode is named after a process and not in use.
LEMMA FreshInode ==
  ASSUME TypeOK, NEW i \in Instances, NEW n \in FreeInodes(i)
  PROVE  /\ n \in Instances
         /\ \A j \in Instances : phase[j] \in Listening => n # inode[j]
BY NoneAssumption DEF TypeOK, FreeInodes

LEMMA StepTypes == TypeOK /\ [Next]_vars => TypeOK'
<1> SUFFICES ASSUME TypeOK, [Next]_vars PROVE TypeOK'
  OBVIOUS
<1> USE NoneAssumption, InstancesAssumption
<1>1. ASSUME NEW i \in Instances, Launch(i) PROVE TypeOK'
  BY <1>1 DEF Launch, TypeOK, Goto, Phases, Running
<1>2. ASSUME NEW i \in Instances, TeeRemoves(i) \/ ServerRemoves(i) \/ Unlink(i)
      PROVE  TypeOK'
  BY ZenonT(60), <1>2 DEF TeeRemoves, ServerRemoves, Unlink, TypeOK, Goto, Phases, Running
<1>3. ASSUME NEW i \in Instances, Bind(i) PROVE TypeOK'
  <2>1. PICK n \in FreeInodes(i) : inode' = [inode EXCEPT ![i] = n]
    BY <1>3 DEF Bind
  <2>2. n \in Instances
    BY FreshInode
  <2>3. successors' \in [Instances -> SUBSET Instances]
    BY <1>3 DEF Bind, TypeOK
  <2>4. phase' \in [Instances -> Phases]
    BY <1>3, GotoTypes DEF Bind, Phases, Running, Listening
  <2>5. path' = i /\ identity' = identity /\ proxied' = proxied
    BY <1>3 DEF Bind
  <2> QED
    BY <2>1, <2>2, <2>3, <2>4, <2>5 DEF TypeOK
<1>4. ASSUME NEW i \in Instances, ReadIdentity(i) PROVE TypeOK'
  BY <1>4 DEF ReadIdentity, FileIdentity, TypeOK, Goto, Phases, Running, Listening
<1>5. ASSUME NEW i \in Instances, Connect(i) PROVE TypeOK'
  BY <1>5 DEF Connect, Reachable, TypeOK
<1>6. ASSUME NEW i \in Instances,
             StartFails(i) \/ BindFails(i) \/ Stop(i) \/ Close(i) \/ CheckIdentity(i) \/ Crash(i)
      PROVE  TypeOK'
  BY ZenonT(60), <1>6 DEF StartFails, BindFails, Stop, Close, CheckIdentity, Crash, TypeOK, Goto, Phases,
              Running, Listening
<1>7. CASE UNCHANGED vars
  BY <1>7 DEF vars, TypeOK
<1> QED
  BY <1>1, <1>2, <1>3, <1>4, <1>5, <1>6, <1>7 DEF Next, Run

\* Every variable has its type.
THEOREM TypeCorrect == Spec => []TypeOK
BY InitTypes, StepTypes, PTL DEF Spec

------------------------------------------------------------------------------
\* The inductive invariant: the steps that leave every socket where it is.

LEMMA InitInv == Init => IndInv
<1> SUFFICES ASSUME Init PROVE TakeoverInv
  BY InitTypes DEF IndInv
<1> QED
  BY NoneAssumption DEF Init, TakeoverInv, PathBound, PathFree, OwnIdentity, SuccessorsDiffer,
                        UnlinksNoSuccessor, NoStaleSocket, HasBound, Listening

\* A process that has not bound the path is not the one at the path, and nobody's
\* successor.
LEMMA Unbound ==
  ASSUME IndInv, NEW i \in Instances, phase[i] \notin HasBound
  PROVE  path # i /\ successors[i] = {} /\ \A j \in Instances : i \notin successors[j]
BY NoneAssumption DEF IndInv, TypeOK, TakeoverInv, PathBound, SuccessorsDiffer

LEMMA LaunchInv ==
  ASSUME IndInv, NEW i \in Instances, Launch(i)
  PROVE  TakeoverInv'
<1> USE NoneAssumption DEF IndInv, TypeOK, TakeoverInv
<1>1. PICK p \in {"refused", "tee", "server"} : phase' = [phase EXCEPT ![i] = p]
  BY DEF Launch, Goto
<1>2. phase[i] = "off" /\ UNCHANGED <<path, inode, identity, successors>>
  BY DEF Launch
<1>3. path # i /\ successors[i] = {} /\ \A j \in Instances : i \notin successors[j]
  BY <1>2, Unbound DEF HasBound, Listening
<1>4. PathBound'
  BY <1>1, <1>2, <1>3 DEF PathBound
<1>5. PathFree'
  BY <1>1, <1>2 DEF PathFree
<1>6. OwnIdentity'
  BY <1>1, <1>2, <1>3 DEF OwnIdentity, Identified
<1>7. SuccessorsDiffer'
  BY <1>1, <1>2, <1>3 DEF SuccessorsDiffer
<1>8. UnlinksNoSuccessor'
  BY <1>1, <1>2 DEF UnlinksNoSuccessor
<1>9. NoStaleSocket'
  BY <1>1, <1>2 DEF NoStaleSocket
<1> QED
  BY <1>4, <1>5, <1>6, <1>7, <1>8, <1>9

\* A start that fails, at rust-analyzer or at the bind.
LEMMA FailInv ==
  ASSUME IndInv, NEW i \in Instances, StartFails(i) \/ BindFails(i)
  PROVE  TakeoverInv'
<1> USE NoneAssumption DEF IndInv, TypeOK, TakeoverInv
<1>1. PICK p \in {"no backend", "address in use"} :
        phase' = [phase EXCEPT ![i] = p] /\ (p = "address in use" => path # None)
  BY DEF StartFails, BindFails, Goto
<1>2. phase[i] = "starting" /\ UNCHANGED <<path, inode, identity, successors>>
  BY DEF StartFails, BindFails
<1>3. path # i /\ successors[i] = {} /\ \A j \in Instances : i \notin successors[j]
  BY <1>2, Unbound DEF HasBound, Listening
<1>4. PathBound'
  BY <1>1, <1>2, <1>3 DEF PathBound
<1>5. PathFree'
  BY <1>1, <1>2 DEF PathFree
<1>6. OwnIdentity'
  BY <1>1, <1>2, <1>3 DEF OwnIdentity, Identified
<1>7. SuccessorsDiffer'
  BY ZenonT(60), <1>1, <1>2, <1>3 DEF SuccessorsDiffer
<1>8. UnlinksNoSuccessor'
  BY <1>1, <1>2 DEF UnlinksNoSuccessor
<1>9. NoStaleSocket'
  BY <1>1, <1>2 DEF NoStaleSocket
<1> QED
  BY <1>4, <1>5, <1>6, <1>7, <1>8, <1>9

\* Stop and Close change only how far a process that serves has come.
LEMMA StopInv ==
  ASSUME IndInv, NEW i \in Instances, Stop(i) \/ Close(i)
  PROVE  TakeoverInv'
<1> USE NoneAssumption DEF IndInv, TypeOK, TakeoverInv
<1>1. PICK p \in {"draining", "closed"} : phase' = [phase EXCEPT ![i] = p]
  BY DEF Stop, Close, Goto
<1>2. phase[i] \in {"serving", "draining"} /\ UNCHANGED <<path, inode, identity, successors>>
  BY DEF Stop, Close
<1>4. PathBound'
  BY <1>1, <1>2 DEF PathBound, HasBound, Listening
<1>5. PathFree'
  BY <1>1, <1>2 DEF PathFree
<1>6. OwnIdentity'
  BY <1>1, <1>2 DEF OwnIdentity, Identified
<1>7. SuccessorsDiffer'
  BY <1>1, <1>2 DEF SuccessorsDiffer, HasBound, Listening
<1>8. UnlinksNoSuccessor'
  BY <1>1, <1>2 DEF UnlinksNoSuccessor
<1>9. NoStaleSocket'
  BY <1>1, <1>2 DEF NoStaleSocket
<1> QED
  BY <1>4, <1>5, <1>6, <1>7, <1>8, <1>9

\* A crash leaves the file where it is: nobody listens behind it, which none of the
\* invariant's parts excludes.
LEMMA CrashInv ==
  ASSUME IndInv, NEW i \in Instances, Crash(i)
  PROVE  TakeoverInv'
<1> USE NoneAssumption DEF IndInv, TypeOK, TakeoverInv
<1>1. phase' = [phase EXCEPT ![i] = "crashed"] /\ UNCHANGED <<path, inode, identity, successors>>
  BY DEF Crash, Goto
<1>2. PathBound'
  BY <1>1 DEF PathBound, HasBound
<1>3. PathFree'
  BY <1>1 DEF PathFree
<1>4. OwnIdentity'
  BY <1>1 DEF OwnIdentity, Identified
<1>5. SuccessorsDiffer'
  BY <1>1 DEF SuccessorsDiffer, HasBound
<1>6. UnlinksNoSuccessor'
  BY <1>1 DEF UnlinksNoSuccessor
<1>7. NoStaleSocket'
  BY <1>1 DEF NoStaleSocket
<1> QED
  BY <1>2, <1>3, <1>4, <1>5, <1>6, <1>7

------------------------------------------------------------------------------
\* The inductive invariant: the steps that remove, bind or identify a socket.

\* A process that starts removes whatever is at the path.
LEMMA RemoveInv ==
  ASSUME IndInv, NEW i \in Instances, TeeRemoves(i) \/ ServerRemoves(i)
  PROVE  TakeoverInv'
<1> USE NoneAssumption DEF IndInv, TypeOK, TakeoverInv
<1>1. PICK p \in {"server", "starting"} : phase' = [phase EXCEPT ![i] = p]
  BY DEF TeeRemoves, ServerRemoves, Goto
<1>2. phase[i] \in {"tee", "server"} /\ path' = None /\ UNCHANGED <<inode, identity, successors>>
  BY DEF TeeRemoves, ServerRemoves
<1>3. successors[i] = {} /\ \A j \in Instances : i \notin successors[j]
  BY <1>2, Unbound DEF HasBound, Listening
<1>4. PathBound' /\ OwnIdentity' /\ NoStaleSocket'
  BY <1>2 DEF PathBound, OwnIdentity, NoStaleSocket
<1>5. PathFree'
  BY <1>1 DEF PathFree
<1>6. SuccessorsDiffer'
  BY <1>1, <1>2, <1>3 DEF SuccessorsDiffer
<1>7. UnlinksNoSuccessor'
  BY <1>2 DEF UnlinksNoSuccessor
<1> QED
  BY <1>4, <1>5, <1>6, <1>7

LEMMA UnlinkInv ==
  ASSUME IndInv, NEW i \in Instances, Unlink(i)
  PROVE  TakeoverInv'
<1> USE NoneAssumption DEF IndInv, TypeOK, TakeoverInv
<1>1. /\ phase' = [phase EXCEPT ![i] = "exited"]
      /\ path' = None
      /\ UNCHANGED <<inode, identity, successors>>
  BY DEF Unlink, Goto
<1>2. PathBound' /\ OwnIdentity' /\ NoStaleSocket'
  BY <1>1 DEF PathBound, OwnIdentity, NoStaleSocket
<1>3. PathFree'
  BY <1>1 DEF PathFree
<1>4. SuccessorsDiffer'
  BY <1>1 DEF SuccessorsDiffer, HasBound
<1>5. UnlinksNoSuccessor'
  BY <1>1 DEF UnlinksNoSuccessor
<1> QED
  BY <1>2, <1>3, <1>4, <1>5

\* The one that binds becomes the successor of those that serve: its inode is none of
\* theirs, for they listen.  One about to remove the path has no new successor.
LEMMA BindInv ==
  ASSUME IndInv, NEW i \in Instances, Bind(i)
  PROVE  TakeoverInv'
<1> USE NoneAssumption DEF IndInv, TypeOK, TakeoverInv
<1>1. /\ phase[i] = "starting"
      /\ phase' = [phase EXCEPT ![i] = "bound"]
      /\ path' = i
      /\ identity' = identity
  BY DEF Bind, Goto
<1>2. PICK n \in FreeInodes(i) : inode' = [inode EXCEPT ![i] = n]
  BY DEF Bind
<1>3. \A j \in Instances : phase[j] \in Listening => n # inode[j]
  BY FreshInode
<1>4. \A j \in Instances :
        successors'[j] = IF phase[j] \in {"serving", "draining"} THEN successors[j] \cup {i}
                         ELSE successors[j]
  BY DEF Bind
<1>5. successors[i] = {} /\ \A j \in Instances : i \notin successors[j]
  BY <1>1, Unbound DEF HasBound, Listening
<1>6. PathBound' /\ PathFree' /\ OwnIdentity'
  BY <1>1 DEF PathBound, PathFree, OwnIdentity, HasBound, Listening, Identified
<1>7. SuccessorsDiffer'
  <2> SUFFICES ASSUME NEW j \in Instances, NEW k \in successors'[j]
               PROVE  phase'[j] \in HasBound /\ phase'[k] \in HasBound /\ inode'[k] # inode'[j]
    BY DEF SuccessorsDiffer
  <2>1. j # i /\ inode'[j] = inode[j] /\ phase'[j] = phase[j]
    BY <1>1, <1>2, <1>4, <1>5
  <2>2. CASE k = i
    BY <1>1, <1>2, <1>3, <1>4, <1>5, <2>1, <2>2 DEF HasBound, Listening
  <2>3. CASE k # i
    <3>1. k \in successors[j] /\ k \in Instances
      <4>1. successors'[j] \subseteq successors[j] \cup {i}
        BY <1>4
      <4>2. k \in successors[j]
        BY <2>3, <4>1, Zenon
      <4>3. successors[j] \subseteq Instances
        OBVIOUS
      <4> QED
        BY <4>2, <4>3, Zenon
    <3> QED
      BY <1>1, <1>2, <2>1, <2>3, <3>1 DEF SuccessorsDiffer
  <2> QED
    BY <2>2, <2>3
<1>8. UnlinksNoSuccessor'
  BY <1>1, <1>2, <1>4, <1>5 DEF UnlinksNoSuccessor
<1>9. NoStaleSocket'
  BY <1>1 DEF NoStaleSocket
<1> QED
  BY <1>6, <1>7, <1>8, <1>9

\* Whatever is at the path when the identity is read: if it is the own socket now, the
\* identity is right, and if it is not, it never will be again.
LEMMA ReadIdentityInv ==
  ASSUME IndInv, NEW i \in Instances, ReadIdentity(i)
  PROVE  TakeoverInv'
<1> USE NoneAssumption DEF IndInv, TypeOK, TakeoverInv
<1>1. /\ phase[i] = "bound"
      /\ phase' = [phase EXCEPT ![i] = "serving"]
      /\ identity' = [identity EXCEPT ![i] = FileIdentity]
      /\ UNCHANGED <<path, inode, successors>>
  BY DEF ReadIdentity, Goto
<1>2. PathBound'
  BY <1>1 DEF PathBound, HasBound, Listening
<1>3. PathFree'
  BY <1>1 DEF PathFree
<1>4. OwnIdentity'
  BY <1>1 DEF OwnIdentity, Identified, FileIdentity
<1>5. SuccessorsDiffer'
  BY <1>1 DEF SuccessorsDiffer, HasBound, Listening
<1>6. UnlinksNoSuccessor'
  BY <1>1 DEF UnlinksNoSuccessor
<1>7. NoStaleSocket'
  BY <1>1 DEF NoStaleSocket
<1> QED
  BY <1>2, <1>3, <1>4, <1>5, <1>6, <1>7

\* Leaving without removing anything means that the path is another's; going on to
\* remove it means that the file has the own inode, which no successor's has.
LEMMA CheckIdentityInv ==
  ASSUME IndInv, NEW i \in Instances, CheckIdentity(i)
  PROVE  TakeoverInv'
<1> USE NoneAssumption DEF IndInv, TypeOK, TakeoverInv
<1> DEFINE mine == identity[i] # None /\ FileIdentity = identity[i]
<1>1. PICK p \in {"unlinking", "exited"} :
        /\ phase' = [phase EXCEPT ![i] = p]
        /\ p = "unlinking" <=> mine
  BY DEF CheckIdentity, Goto
<1>2. phase[i] = "closed" /\ UNCHANGED <<path, inode, identity, successors>>
  BY DEF CheckIdentity
<1>3. path = i => mine
  BY <1>2 DEF OwnIdentity, Identified, FileIdentity
<1>4. mine /\ identity[i] = inode[i] => path \notin successors[i]
  BY DEF SuccessorsDiffer, FileIdentity
<1>5. PathBound'
  BY <1>1, <1>2 DEF PathBound, HasBound
<1>6. PathFree'
  BY <1>1, <1>2 DEF PathFree
<1>7. OwnIdentity'
  BY <1>1, <1>2 DEF OwnIdentity, Identified
<1>8. SuccessorsDiffer'
  BY <1>1, <1>2 DEF SuccessorsDiffer, HasBound
<1>9. UnlinksNoSuccessor'
  BY <1>1, <1>2, <1>4 DEF UnlinksNoSuccessor
<1>10. NoStaleSocket'
  BY <1>1, <1>2, <1>3 DEF NoStaleSocket
<1> QED
  BY <1>5, <1>6, <1>7, <1>8, <1>9, <1>10

LEMMA StepInv == IndInv /\ [Next]_vars => IndInv'
<1> SUFFICES ASSUME IndInv, [Next]_vars PROVE TakeoverInv'
  BY StepTypes DEF IndInv
<1>1. ASSUME NEW i \in Instances, Run(i) PROVE TakeoverInv'
  BY <1>1, RemoveInv, BindInv, FailInv, ReadIdentityInv, StopInv, CheckIdentityInv, UnlinkInv
     DEF Run
<1>2. ASSUME NEW i \in Instances, Connect(i) PROVE TakeoverInv'
  BY <1>2 DEF Connect, IndInv, TakeoverInv, PathBound, PathFree, OwnIdentity, SuccessorsDiffer,
              UnlinksNoSuccessor, NoStaleSocket
<1>3. CASE UNCHANGED vars
  BY <1>3 DEF vars, IndInv, TakeoverInv, PathBound, PathFree, OwnIdentity, SuccessorsDiffer,
              UnlinksNoSuccessor, NoStaleSocket
<1> QED
  BY <1>1, <1>2, <1>3, LaunchInv, FailInv, StopInv, CrashInv DEF Next

LEMMA Inductive == Spec => []IndInv
BY InitInv, StepInv, PTL DEF Spec

------------------------------------------------------------------------------
\* The properties.

LEMMA ServerLeft == IndInv => StartersLeaveAServer
<1> SUFFICES ASSUME IndInv,
                    \A i \in Instances : phase[i] \in {"off", "refused", "address in use", "serving"},
                    \E i \in Instances : phase[i] = "serving"
             PROVE  path # None /\ phase[path] = "serving"
  BY DEF StartersLeaveAServer
<1>1. path # None
  BY DEF IndInv, TakeoverInv, PathFree
<1>2. path \in Instances /\ phase[path] \in HasBound
  BY <1>1 DEF IndInv, TypeOK, TakeoverInv, PathBound
<1> QED
  BY <1>1, <1>2 DEF HasBound, Listening

\* However many processes start at once, each removing the path and some failing to
\* bind it (remove_file and bind in run_grpc_unix_socket_until_shutdown): once all are
\* through, the path leads to a server that serves.
THEOREM StartersLeaveServing == Spec => []StartersLeaveAServer
BY Inductive, ServerLeft, PTL

\* A process that stops in order leaves no socket of its own behind: the identity check
\* of post_stop never takes the own socket for another's.
THEOREM NothingStaleLeft == Spec => []NoStaleSocket
<1>1. IndInv => NoStaleSocket
  BY DEF IndInv, TakeoverInv
<1> QED
  BY <1>1, Inductive, PTL

LEMMA StepKeepsSuccessor ==
  ASSUME IndInv, [Next]_vars, NEW i \in Instances,
         phase[i] = "unlinking", identity[i] = inode[i]
  PROVE  path \notin successors[i]
BY DEF IndInv, TakeoverInv, UnlinksNoSuccessor

\* post_stop's check and removal are two steps, and others bind in between; even so, a
\* process that knows its own socket removes none that was bound while it was serving.
THEOREM SuccessorsAreKept == Spec => SuccessorKept
<1>1. IndInv /\ [Next]_vars =>
        [\A i \in Instances :
           phase[i] = "unlinking" /\ phase'[i] = "exited" /\ identity[i] = inode[i]
             => path \notin successors[i]]_vars
  BY StepKeepsSuccessor
<1> QED
  BY <1>1, Inductive, PTL DEF Spec, SuccessorKept

==============================================================================
