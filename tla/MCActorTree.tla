------------------------------ MODULE MCActorTree ------------------------------
(***************************************************************************)
(* ActorTree with a source file that is edited along with a build product, *)
(* one that is only touched, and a file below target that is removed.      *)
(***************************************************************************)
EXTENDS ActorTree

CONSTANTS edit, touch, clean

Source == [watched |-> TRUE, noise |-> FALSE]
Built == [watched |-> TRUE, noise |-> TRUE]

MCEvent ==
  [c \in Changes |->
     CASE c = edit -> [kind |-> "modify", paths |-> {Source, Built}]
       [] c = touch -> [kind |-> "metadata", paths |-> {Source}]
       [] OTHER -> [kind |-> "remove", paths |-> {Built}]]
==============================================================================
