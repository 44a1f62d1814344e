-------------------------- MODULE CallHierarchyWalk --------------------------
\* The depth-limited walk behind `racli call-hierarchy` (src/call_hierarchy.rs): LSP
\* gives one level of callers or callees per request, so the walk asks for one item
\* after the other, depth first, and remembers in `visited` what it has met.
\*
\* An item is its visit key (URI and selection range). rust-analyzer may answer
\* anything: the files can change between two requests, so no fixed call graph is
\* assumed.
EXTENDS Integers, Sequences, FiniteSets, SequencesExt

CONSTANTS
  Items,       \* call hierarchy items
  NoItem,
  MaxDepth,    \* bound: --depth
  Answers      \* what a request may list: sequences of items

ASSUME WalkAssumption ==
  /\ NoItem \notin Items
  /\ MaxDepth \in Nat
  /\ Answers \subseteq Seq(Items)

VARIABLES
  walk,      \* "off", "preparing", "walking", "done" or "no item"
  depth,     \* --depth
  direction, \* --direction: the sides to walk, in order
  side,      \* the one being walked
  root,      \* the first item that prepareCallHierarchy found
  asking,    \* the item whose calls are awaited, with the depth that remains for it
  stack,     \* the callers of `walk`: the steps each has left, and its depth
  visited,   \* the keys met on this side
  asked,     \* history: items whose calls were requested on this side
  first,     \* history: the level at which each item was met first
  shallow    \* history: the least level at which each item was met

sideVars == <<asking, stack, visited, asked, first, shallow>>
walkVars == <<walk, depth, direction, side, root, sideVars>>

NotAsking == [item |-> NoItem, remaining |-> 0]
Directions == {<<"incoming">>, <<"outgoing">>, <<"incoming", "outgoing">>}

\* What one direction starts with: the root is visited and its calls are asked for,
\* unless --depth is 0 (`walk` then returns at once).
StartSide(item) ==
  /\ visited' = {item}
  /\ asked' = <<>>
  /\ first' = [i \in Items |-> 0]
  /\ shallow' = [i \in Items |-> 0]
  /\ stack' = <<>>
  /\ asking' = IF depth = 0 THEN NotAsking ELSE [item |-> item, remaining |-> depth]

WalkInit(depths, directions) ==
  /\ walk = "off"
  /\ depth \in depths
  /\ direction \in directions
  /\ side = 1
  /\ root = NoItem
  /\ asking = NotAsking
  /\ stack = <<>>
  /\ visited = {}
  /\ asked = <<>>
  /\ first = [i \in Items |-> 0]
  /\ shallow = [i \in Items |-> 0]

------------------------------------------------------------------------------
BeginWalk ==
  /\ walk = "off"
  /\ walk' = "preparing"
  /\ UNCHANGED <<depth, direction, side, root, sideVars>>

\* What a walk leaves behind: nothing but the command's arguments.
LeaveWalk ==
  /\ walk' = "off"
  /\ side' = 1
  /\ root' = NoItem
  /\ asking' = NotAsking
  /\ stack' = <<>>
  /\ visited' = {}
  /\ asked' = <<>>
  /\ first' = [i \in Items |-> 0]
  /\ shallow' = [i \in Items |-> 0]
  /\ UNCHANGED <<depth, direction>>

\* prepareCallHierarchy: the first candidate is walked, the others are only named.
Prepared(item) ==
  /\ walk = "preparing"
  /\ root' = item
  /\ IF item = NoItem
       THEN /\ walk' = "no item"
            /\ UNCHANGED sideVars
       ELSE /\ walk' = "walking"
            /\ StartSide(item)
  /\ UNCHANGED <<depth, direction, side>>

\* The level of a step: the root's calls are level 1.
Level(remaining) == depth - remaining + 1

\* incomingCalls or outgoingCalls has been answered; a failed call is reported and
\* lists nothing.
CallsAnswered(steps) ==
  /\ walk = "walking"
  /\ asking # NotAsking
  /\ asked' = Append(asked, asking.item)
  /\ stack' = Append(stack, [steps |-> steps, remaining |-> asking.remaining])
  /\ asking' = NotAsking
  /\ UNCHANGED <<walk, depth, direction, side, root, visited, first, shallow>>

Top == Last(stack)

\* A step met at some level, for the properties.
Meet(item) ==
  LET level == Level(Top.remaining) IN
  /\ first' = [first EXCEPT ![item] = IF @ # 0 \/ item = root THEN @ ELSE level]
  /\ shallow' = [shallow EXCEPT ![item] = IF @ = 0 \/ level < @ THEN level ELSE @]

\* Mutant of Visit: a step at the limit is expanded too.
VisitPastLimit ==
  /\ walk = "walking"
  /\ asking = NotAsking
  /\ stack # <<>>
  /\ Top.steps # <<>>
  /\ LET item == Head(Top.steps) IN
       /\ visited' = visited \cup {item}
       /\ Meet(item)
       /\ asking' = IF item \notin visited /\ Top.remaining > 0
                      THEN [item |-> item, remaining |-> Top.remaining - 1]
                      ELSE NotAsking
  /\ stack' = [stack EXCEPT ![Len(stack)].steps = Tail(@)]
  /\ UNCHANGED <<walk, depth, direction, side, root, asked>>

\* The next step of the innermost walk is listed, and expanded if it is new and a
\* level remains.
Visit ==
  /\ walk = "walking"
  /\ asking = NotAsking
  /\ stack # <<>>
  /\ Top.steps # <<>>
  /\ LET item == Head(Top.steps) IN
       /\ visited' = visited \cup {item}
       /\ Meet(item)
       /\ asking' = IF item \notin visited /\ Top.remaining > 1
                      THEN [item |-> item, remaining |-> Top.remaining - 1]
                      ELSE NotAsking
  /\ stack' = [stack EXCEPT ![Len(stack)].steps = Tail(@)]
  /\ UNCHANGED <<walk, depth, direction, side, root, asked>>

\* The innermost walk returns its nodes.
Unwind ==
  /\ walk = "walking"
  /\ asking = NotAsking
  /\ stack # <<>>
  /\ Top.steps = <<>>
  /\ stack' = Front(stack)
  /\ UNCHANGED <<walk, depth, direction, side, root, asking, visited, asked, first, shallow>>

SideDone == walk = "walking" /\ asking = NotAsking /\ stack = <<>>

\* Mutant of NextSide: one visited set for both directions.
NextSideSeen ==
  /\ SideDone
  /\ IF side < Len(direction)
       THEN /\ side' = side + 1
            /\ asked' = <<>>
            /\ first' = [i \in Items |-> 0]
            /\ shallow' = [i \in Items |-> 0]
            /\ asking' = IF depth = 0 THEN NotAsking ELSE [item |-> root, remaining |-> depth]
            /\ UNCHANGED <<walk, stack, visited>>
       ELSE /\ walk' = "done"
            /\ UNCHANGED <<side, sideVars>>
  /\ UNCHANGED <<depth, direction, root>>

\* Each direction starts with a visited set of its own.
NextSide ==
  /\ SideDone
  /\ IF side < Len(direction)
       THEN /\ side' = side + 1
            /\ StartSide(root)
            /\ UNCHANGED walk
       ELSE /\ walk' = "done"
            /\ UNCHANGED <<side, sideVars>>
  /\ UNCHANGED <<depth, direction, root>>

WalkNext ==
  \/ \E item \in Items \cup {NoItem} : Prepared(item)
  \/ \E steps \in Answers : CallsAnswered(steps)
  \/ Visit \/ Unwind \/ NextSide

------------------------------------------------------------------------------
Frames == [steps : Seq(Items), remaining : 1..MaxDepth]

WalkTypeOK ==
  /\ walk \in {"off", "preparing", "walking", "done", "no item"}
  /\ depth \in 0..MaxDepth
  /\ direction \in Directions
  /\ side \in DOMAIN direction
  /\ root \in Items \cup {NoItem}
  /\ asking \in [item : Items \cup {NoItem}, remaining : 0..MaxDepth]
  /\ stack \in Seq(Frames)
  /\ visited \subseteq Items
  /\ asked \in Seq(Items)
  /\ first \in [Items -> 0..MaxDepth]
  /\ shallow \in [Items -> 0..MaxDepth]

Asked == ToSet(asked) \cup {asking.item}

\* Whatever cycles and diamonds the answers have, the calls of an item are requested at
\* most once per direction; and when a side is done, an item that was met and whose own
\* calls were not asked for was first met at the depth limit: nothing else (a cycle, the
\* other direction, a failed call) keeps the walk from following an item.
OnlyDepthLimits ==
  /\ IsInjective(asked)
  /\ SideDone => \A i \in Items : first[i] # 0 /\ i \notin Asked => first[i] = depth

\* README.md:108: the callers and callees "to the depth you choose": an item listed
\* above the limit is followed, so that what lies within the depth is in the tree.
DepthReached ==
  SideDone => \A i \in Items : shallow[i] \in 1..(depth - 1) => i \in Asked
==============================================================================
