------------------------------ MODULE Commands ------------------------------
\* One client command, from its arguments to what it prints or, as a tool of `racli mcp`,
\* returns: search, find-references (find-implementations has the same shape),
\* find-definition with its details, rename, call-hierarchy and document-symbols. It asks
\* its backend one call at a time, over the socket or, in `racli mcp`, in process
\* (src/racli_backend.rs), and gives each step 60 seconds. A tool runs the command and
\* turns its output into a result (src/mcp.rs).
EXTENDS SymbolTargets, CallHierarchyWalk, SearchMerge, RenameEdits

CONSTANTS
  MaxDetails,  \* bound: hovers and outlines to fetch for one definition
  WalkGiven    \* bound: the names and positions that are combined with every depth and direction

ASSUME CommandAssumption == MaxDetails \in Nat /\ WalkGiven \subseteq Given

VARIABLES
  front,    \* "cli" or "mcp"
  command,  \* what is run
  outcome,  \* "running", "ok", "usage" or "failed"
  todo,     \* the targets it has still to run
  results,  \* how many targets it has results of
  details,  \* calls left for the hover and the source of the definition it has found
  printed,  \* standard output has something besides results: "(empty ...)", "no item"
  noted,    \* standard error has something
  answered, \* mark_answered
  result    \* what the tool returns

commandVars == <<front, command, outcome, todo, results, details, printed, noted, answered, result>>
vars == <<commandVars, lookupVars, walkVars, searchVars, renameVars>>

PositionKinds == {"references", "definition", "rename", "call-hierarchy"}
Kinds == PositionKinds \cup {"search", "document-symbols"}
NoResult == [error |-> FALSE, blocks |-> <<>>]

Init ==
  /\ front \in {"cli", "mcp"}
  /\ command \in Kinds
  /\ outcome = "running"
  /\ todo = <<>>
  /\ results = 0
  /\ details = 0
  /\ printed = FALSE
  /\ noted = FALSE
  /\ answered = FALSE
  /\ result = NoResult
  \* Arguments that a command does not have are fixed; a rename takes one name.
  /\ LookupInit(IF command = "rename" THEN {a \in Given : Len(a.names) <= 1}
                ELSE IF command = "call-hierarchy" THEN WalkGiven
                ELSE IF command \in PositionKinds THEN Given ELSE {Nothing})
  /\ IF command = "call-hierarchy" THEN WalkInit(0..MaxDepth, Directions)
                                   ELSE WalkInit({0}, {<<"incoming">>})
  /\ IF command = "search" THEN SearchInit(Queries, BOOLEAN) ELSE SearchInit({<<>>}, {FALSE})
  /\ RenameInit

Running == outcome = "running"

------------------------------------------------------------------------------
\* How a command ends.

\* status_warning, with the status when the result is built. (`Unknown` is a client's
\* word for a response without a status: RacliCore never has it.)
Warning(status) == IF status = "ready" THEN <<>> ELSE <<"warning">>

Block(name, there) == IF there THEN <<name>> ELSE <<>>

\* command_result and rejected_result.
ToolResult(how, status) ==
  IF how = "usage" THEN [error |-> TRUE, blocks |-> <<"reason">>]
  ELSE IF how = "failed" THEN [error |-> TRUE, blocks |-> <<"internal error">>]
  ELSE [error |-> ~answered, blocks |-> <<"stdout">> \o Block("stderr", noted) \o Warning(status)]

\* print_cli, or the tool's result.
End(how) ==
  /\ outcome' = how
  /\ \E status \in {"ready", "indexing", "error"} :
       result' = IF front = "mcp" THEN ToolResult(how, status) ELSE NoResult
  /\ UNCHANGED <<front, command, todo, results, details, printed, noted, answered>>

------------------------------------------------------------------------------
\* search and document-symbols.

SearchStep ==
  /\ Running
  /\ command = "search"
  /\ BeginSearch \/ SearchNext
  /\ IF search' = "written"
       THEN /\ answered' = TRUE
            /\ results' = 1
            /\ printed' = TRUE
            /\ noted' = truncated
            /\ UNCHANGED <<front, command, outcome, todo, details, result>>
       ELSE UNCHANGED commandVars
  /\ UNCHANGED <<lookupVars, walkVars, renameVars>>

\* A failed search and mixed shapes are errors.
SearchEnds ==
  /\ Running
  /\ search \in {"mixed", "failed"}
  /\ End("failed")
  /\ UNCHANGED <<lookupVars, walkVars, searchVars, renameVars>>

\* run_document_symbols: a path that cannot be resolved is noted, and nothing is asked.
OutlineFile(exists) ==
  /\ Running
  /\ command = "document-symbols"
  /\ ~answered /\ ~noted
  /\ answered' = exists
  /\ noted' = ~exists
  /\ results' = IF exists THEN 1 ELSE 0
  /\ UNCHANGED <<front, command, outcome, todo, details, printed, result>>
  /\ UNCHANGED <<lookupVars, walkVars, searchVars, renameVars>>

OutlineFails ==
  /\ Running
  /\ command = "document-symbols"
  /\ ~answered /\ ~noted
  /\ End("failed")
  /\ UNCHANGED <<lookupVars, walkVars, searchVars, renameVars>>

------------------------------------------------------------------------------
\* The commands that run from names and positions.

Rejects(a) == IF front = "mcp" THEN ToolRejects(a) ELSE ClapRejects(a)

Position == Running /\ command \in PositionKinds

\* clap's checks, or the tool's; then the command begins.
Parse ==
  /\ Position
  /\ lookup = "off"
  /\ IF Rejects(given)
       THEN /\ End("usage")
            /\ UNCHANGED lookupVars
       ELSE /\ BeginLookup
            /\ UNCHANGED commandVars
  /\ UNCHANGED <<walkVars, searchVars, renameVars>>

LookupStep ==
  /\ Position
  /\ LookupNext
  /\ UNCHANGED <<commandVars, walkVars, searchVars, renameVars>>

\* command_targets: the notes go to standard error, the targets to the command.
TakeTargets ==
  /\ Position
  /\ Give
  /\ todo' = targets
  /\ noted' = (notes # <<>>)
  /\ UNCHANGED <<front, command, outcome, results, details, printed, answered, result>>
  /\ UNCHANGED <<walkVars, searchVars, renameVars>>

LookupEnds ==
  /\ Position
  /\ lookup \in {"rejected", "failed"}
  /\ End(IF lookup = "rejected" THEN "usage" ELSE "failed")
  /\ UNCHANGED <<lookupVars, walkVars, searchVars, renameVars>>

\* Targets are run in turn; a definition's details come before the next one.
Ready == Position /\ lookup = "taken" /\ details = 0
HasTarget == Ready /\ todo # <<>>

\* A target has a result.
Answer ==
  /\ results' = results + 1
  /\ answered' = TRUE
  /\ todo' = Tail(todo)
  /\ UNCHANGED <<front, command, outcome, printed, noted, result>>

\* One call for the target. An answer without any location is a result as well.
AnswerReferences ==
  /\ HasTarget
  /\ command = "references"
  /\ Answer
  /\ UNCHANGED <<details, lookupVars, walkVars, searchVars, renameVars>>

\* A rename needs exactly one target. It has run when it has a report.
RenameRefused ==
  /\ Ready
  /\ command = "rename"
  /\ results = 0 /\ Len(todo) # 1
  /\ End(IF todo = <<>> THEN "failed" ELSE "usage")
  /\ UNCHANGED <<lookupVars, walkVars, searchVars, renameVars>>

\* Edits that RacliCore can report, or file operations, which it refuses.
AnswerRename(answer) ==
  /\ HasTarget
  /\ command = "rename"
  /\ Len(todo) = 1
  /\ Reported(answer)
  /\ IF HasFileOperation(answer) THEN End("failed") ELSE Answer /\ UNCHANGED details
  /\ UNCHANGED <<lookupVars, walkVars, searchVars>>

\* find_definition; its locations may have a hover and a source to fetch.
AnswerDefinition(calls) ==
  /\ HasTarget
  /\ command = "definition"
  /\ Answer
  /\ details' = calls
  /\ UNCHANGED <<lookupVars, walkVars, searchVars, renameVars>>

\* A detail that fails is noted beside its location and stops nothing.
AnswerDetail(fails) ==
  /\ Running
  /\ details > 0
  /\ details' = details - 1
  /\ noted' = (noted \/ fails)
  /\ UNCHANGED <<front, command, outcome, todo, results, printed, answered, result>>
  /\ UNCHANGED <<lookupVars, walkVars, searchVars, renameVars>>

\* A target's call fails, or it takes more than 60 seconds, a whole walk included: the
\* command fails, and what it has found so far is not printed.
TargetFails ==
  /\ HasTarget
  /\ command = "rename" => Len(todo) = 1
  /\ command = "call-hierarchy" => walk \in {"preparing", "walking"}
  /\ LeaveWalk
  /\ End("failed")
  /\ UNCHANGED <<lookupVars, searchVars, renameVars>>

WalkStep ==
  /\ HasTarget
  /\ command = "call-hierarchy"
  /\ BeginWalk \/ WalkNext
  /\ UNCHANGED <<commandVars, lookupVars, searchVars, renameVars>>

\* A tree is a result, with notes of calls that failed and of other candidates.
WalkEnds(hasNotes) ==
  /\ HasTarget
  /\ walk = "done"
  /\ LeaveWalk
  /\ results' = results + 1
  /\ answered' = TRUE
  /\ todo' = Tail(todo)
  /\ noted' = (noted \/ hasNotes)
  /\ UNCHANGED <<front, command, outcome, details, printed, result>>
  /\ UNCHANGED <<lookupVars, searchVars, renameVars>>

\* Without an item the command says so: on standard error for a symbol, else in its output.
NoItemThere ==
  /\ HasTarget
  /\ walk = "no item"
  /\ LeaveWalk
  /\ todo' = Tail(todo)
  /\ IF Head(todo).label = None /\ Head(todo).place = None
       THEN printed' = TRUE /\ UNCHANGED noted
       ELSE noted' = TRUE /\ UNCHANGED printed
  /\ UNCHANGED <<front, command, outcome, results, details, answered, result>>
  /\ UNCHANGED <<lookupVars, searchVars, renameVars>>

\* Every target has been run, or the one call been answered: the output is complete.
Complete ==
  \/ Ready /\ todo = <<>> /\ (command = "rename" => results = 1)
  \/ command = "search" /\ search = "written"
  \/ command = "document-symbols" /\ (answered \/ noted)

Finish ==
  /\ Running
  /\ Complete
  /\ End("ok")
  /\ UNCHANGED <<lookupVars, walkVars, searchVars, renameVars>>

\* A command that has ended stays as it is.
Over == ~Running /\ UNCHANGED vars

------------------------------------------------------------------------------
Next ==
  \/ SearchStep \/ SearchEnds
  \/ (\E exists \in BOOLEAN : OutlineFile(exists)) \/ OutlineFails
  \/ Parse \/ LookupStep \/ TakeTargets \/ LookupEnds
  \/ AnswerReferences
  \/ RenameRefused \/ (\E answer \in WorkspaceEdits : AnswerRename(answer))
  \/ (\E calls \in 0..MaxDetails : AnswerDefinition(calls))
  \/ (\E fails \in BOOLEAN : AnswerDetail(fails))
  \/ TargetFails
  \/ WalkStep \/ (\E hasNotes \in BOOLEAN : WalkEnds(hasNotes)) \/ NoItemThere
  \/ Finish \/ Over

Spec == Init /\ [][Next]_vars

------------------------------------------------------------------------------
\* Every variable has its type.
TypeOK ==
  /\ front \in {"cli", "mcp"}
  /\ command \in Kinds
  /\ outcome \in {"running", "ok", "usage", "failed"}
  /\ todo \in Seq([label : Symbols \cup {None}, place : Places \cup {None}])
  /\ results \in Nat
  /\ details \in 0..MaxDetails
  /\ {printed, noted, answered} \subseteq BOOLEAN
  /\ result.error \in BOOLEAN
  /\ ToSet(result.blocks) \subseteq {"stdout", "stderr", "warning", "reason", "internal error"}
  /\ LookupTypeOK /\ WalkTypeOK /\ SearchTypeOK /\ RenameTypeOK

\* The arguments a tool takes are those its command line takes: what the tool lets through
\* passes clap's checks and classify's, which never get to word an error in options the
\* tool does not have, nor a line 0 to subtract from (symbol.rs:199); and what the tool
\* refuses the command line refuses.
ToolTakesWhatCommandTakes ==
  front = "mcp" /\ command \in PositionKinds =>
    /\ lookup \notin {"off", "taken"} =>
         /\ ~ClapRejects(given) /\ lookup # "rejected"
         /\ \A i \in DOMAIN specs : specs[i].kind = "position" => specs[i].line \in Nat /\ specs[i].character \in Nat
    /\ lookup = "off" /\ outcome = "usage" => ClapRejects(given) \/ ClassifyRejects(given)

\* No command ends silently: whatever is skipped, filtered, unknown or without an item on
\* the way is printed, or something was found. A tool's result carries the command's notes,
\* and it is an error exactly if no name or position found anything (ADR 006, decision 5).
NothingIsSwallowed ==
  outcome = "ok" =>
    /\ results > 0 \/ printed \/ noted
    /\ front = "mcp" =>
         /\ result.error = (results = 0)
         /\ noted = (\E i \in DOMAIN result.blocks : result.blocks[i] = "stderr")

\* A tool of `racli mcp` is its command (ADR 006, decision 1): it takes the same arguments,
\* and nothing the command says is lost on the way to its result.
ToolIsItsCommand == ToolTakesWhatCommandTakes /\ NothingIsSwallowed

\* ADR 006, decision 5: the message for a name or a position that finds nothing "goes in
\* the second text block. If no name or position found anything, the result has `isError:
\* true`, so the caller sees the call failed and reads why."
CallerReadsWhy ==
  front = "mcp" /\ outcome # "running" /\ lookup = "taken" /\ todo = <<>> /\ results = 0 =>
    result.error /\ (noted => \E i \in DOMAIN result.blocks : result.blocks[i] = "stderr")
==============================================================================
