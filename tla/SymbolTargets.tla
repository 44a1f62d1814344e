---------------------------- MODULE SymbolTargets ----------------------------
\* From the names and the position a command is given to the definitions it runs on
\* (src/symbol.rs): names in argument order, each searched in the workspace and then in
\* its dependencies, a qualified one also by its last segment; then the position, which
\* gets a label when names were given.
\*
\* A symbol is an entry of rust-analyzer's index. Every search may list any symbols of
\* its scope (the search is fuzzy, and the files can change between two searches).
\* Suggestions of a "not found" message are left out: they are wording.
EXTENDS CommandArguments, FiniteSets, SequencesExt, Filters

CONSTANTS
  Symbols,
  NameOf,       \* a symbol's name
  ContainerOf,  \* the item that contains it, or None
  PlaceOf,      \* its URI and range, or None if the entry has no range
  Workspace,    \* the symbols of the workspace; the others are of its dependencies
  Kept,         \* the symbols that pass --kind and --glob
  LocalPlaces,  \* the places whose URI is a local file
  Lists         \* what a search may list: sequences of symbols

ASSUME SymbolAssumption ==
  /\ None \notin Symbols
  /\ Workspace \subseteq Symbols /\ Kept \subseteq Symbols
  /\ DOMAIN NameOf = Symbols /\ DOMAIN ContainerOf = Symbols /\ DOMAIN PlaceOf = Symbols
  /\ Lists \subseteq Seq(Symbols)
  /\ None \notin LocalPlaces

VARIABLES
  given,    \* the arguments, until the targets are found
  specs,    \* the names and the position
  at,       \* the one being looked up
  lookup,   \* the call awaited, or how the lookup ended
  scope,    \* the scope searched
  cut,      \* the name's search in this scope was cut to the limit
  anyCut,   \* some search for this name was
  hidden,   \* definitions were found that --kind and --glob leave out
  pointed,  \* the definition the position refers to
  targets,  \* where the command will run, each with its label
  seen,     \* the places found so far
  notes,    \* what is reported and does not stop the others
  wasCut    \* history: the names for which a search was cut

lookupVars == <<given, specs, at, lookup, scope, cut, anyCut, hidden, pointed, targets, seen, notes,
                wasCut>>

Places == {PlaceOf[s] : s \in Symbols} \ {None}
Names == {NameOf[s] : s \in Symbols}
InScope == IF scope = "workspace" THEN Workspace ELSE Symbols
Answerable == {list \in Lists : ToSet(list) \subseteq InScope}
NoPoint == [place |-> None, name |-> None]
Current == specs[at]
Grouped == \E i \in DOMAIN specs : specs[i].kind = "name"

\* The symbols that pass --kind and --glob.
Passing == IF given.filter = "none" THEN Symbols ELSE Kept

LookupInit(arguments) ==
  /\ given \in arguments
  /\ specs = <<>>
  /\ at = 0
  /\ lookup = "off"
  /\ scope = "workspace"
  /\ cut = FALSE
  /\ anyCut = FALSE
  /\ hidden = FALSE
  /\ pointed = NoPoint
  /\ targets = <<>>
  /\ seen = {}
  /\ notes = <<>>
  /\ wasCut = {}

\* Go on with the next name or with the position, or be done.
ProceedIn(list) ==
  /\ at' = at + 1
  /\ lookup' = IF at = Len(list) THEN "found"
               ELSE IF list[at + 1].kind = "name" THEN "search" ELSE "file"
  /\ scope' = "workspace"
  /\ cut' = FALSE /\ anyCut' = FALSE /\ hidden' = FALSE
  /\ pointed' = NoPoint
  /\ UNCHANGED given

Proceed == ProceedIn(specs) /\ UNCHANGED specs

BeginLookup ==
  /\ lookup = "off"
  /\ lookup' = "classify"
  /\ UNCHANGED <<given, specs, at, scope, cut, anyCut, hidden, pointed, targets, seen, notes, wasCut>>

Classify ==
  /\ lookup = "classify"
  /\ IF ~ClassifyRejects(given)
       THEN /\ specs' = SpecsOf(given)
            /\ ProceedIn(SpecsOf(given))
       ELSE /\ lookup' = "rejected"
            /\ UNCHANGED <<given, specs, at, scope, cut, anyCut, hidden, pointed>>
  /\ UNCHANGED <<targets, seen, notes, wasCut>>

------------------------------------------------------------------------------
\* What a search response holds.

\* all_symbols: entries with a range, one per place, in rust-analyzer's order.
AllSymbols(list) ==
  FoldLeft(LAMBDA unique, s :
             IF PlaceOf[s] = None \/ \E i \in DOMAIN unique : PlaceOf[unique[i]] = PlaceOf[s]
             THEN unique ELSE Append(unique, s),
           <<>>, list)

ExactMatches(list, name) == Those(AllSymbols(list), {s \in Symbols : NameOf[s] = name})

InContainer(list) == Those(list, {s \in Symbols : ContainerOf[s] = Current.container})

------------------------------------------------------------------------------
\* Names.

Note(what, truncated) == [spec |-> at, what |-> what, truncated |-> truncated]

\* One definition of a name: skipped if it was found before, reported if its file is
\* not local, else a target.
AddMatch(found, s) ==
  IF PlaceOf[s] \in found.seen THEN found
  ELSE IF PlaceOf[s] \notin LocalPlaces
    THEN [found EXCEPT !.seen = @ \cup {PlaceOf[s]},
                       !.notes = Append(@, Note("not local", FALSE))]
    ELSE [found EXCEPT !.seen = @ \cup {PlaceOf[s]},
                       !.targets = Append(@, [label |-> s, place |-> PlaceOf[s]])]

AddMatches(kept, truncated) ==
  LET before == [seen |-> seen, targets |-> targets,
                 notes |-> IF truncated THEN Append(notes, Note("truncated", TRUE)) ELSE notes]
      after == FoldLeft(AddMatch, before, kept)
  IN /\ seen' = after.seen
     /\ targets' = after.targets
     /\ notes' = after.notes

\* Mutant of Conclude: only the last scope's cut-off is reported.
ConcludeLastCut(found, truncated) ==
  LET kept == Those(found, Passing) IN
  IF kept # <<>>
    THEN AddMatches(kept, truncated) /\ Proceed
  ELSE IF scope = "workspace"
    THEN /\ scope' = "all"
         /\ lookup' = "search"
         /\ cut' = FALSE
         /\ anyCut' = (anyCut \/ truncated)
         /\ hidden' = (hidden \/ found # <<>>)
         /\ UNCHANGED <<given, specs, at, pointed, targets, seen, notes>>
    ELSE /\ notes' = Append(notes, Note(IF hidden \/ found # <<>> THEN "filtered" ELSE "unknown",
                                        truncated))
         /\ Proceed
         /\ UNCHANGED <<targets, seen>>

\* The end of a scope: definitions that pass the filter are taken, else the wider scope
\* is searched, and after it the name is reported.
Conclude(found, truncated) ==
  LET kept == Those(found, Passing) IN
  IF kept # <<>>
    THEN AddMatches(kept, truncated) /\ Proceed
  ELSE IF scope = "workspace"
    THEN /\ scope' = "all"
         /\ lookup' = "search"
         /\ cut' = FALSE
         /\ anyCut' = (anyCut \/ truncated)
         /\ hidden' = (hidden \/ found # <<>>)
         /\ UNCHANGED <<given, specs, at, pointed, targets, seen, notes>>
    ELSE /\ notes' = Append(notes, Note(IF hidden \/ found # <<>> THEN "filtered" ELSE "unknown",
                                        anyCut \/ truncated))
         /\ Proceed
         /\ UNCHANGED <<targets, seen>>

\* The search for the whole name. rust-analyzer does not resolve `Type::member`: a
\* qualified name that has no match is searched by its last segment.
Searched(list, truncated) ==
  /\ lookup = "search"
  /\ wasCut' = IF truncated THEN wasCut \cup {at} ELSE wasCut
  /\ LET found == ExactMatches(list, Current.leaf) IN
       IF found = <<>> /\ Current.container # None
         THEN /\ lookup' = "leaf"
              /\ cut' = truncated
              /\ UNCHANGED <<given, specs, at, scope, anyCut, hidden, pointed, targets, seen, notes>>
         ELSE Conclude(found, truncated)

LeafSearched(list, truncated) ==
  /\ lookup = "leaf"
  /\ wasCut' = IF truncated THEN wasCut \cup {at} ELSE wasCut
  /\ Conclude(InContainer(ExactMatches(list, Current.leaf)), cut \/ truncated)

------------------------------------------------------------------------------
\* The position.

Report(what) ==
  /\ notes' = Append(notes, Note(what, FALSE))
  /\ Proceed
  /\ UNCHANGED <<targets, seen>>

\* A file that cannot be found is an error of this target only. Without names the
\* position needs no label.
FileResolved(exists) ==
  /\ lookup = "file"
  /\ UNCHANGED wasCut
  /\ IF ~exists THEN Report("no file")
     ELSE IF Grouped
       THEN /\ lookup' = "definition"
            /\ UNCHANGED <<given, specs, at, scope, cut, anyCut, hidden, pointed, targets, seen, notes>>
       ELSE /\ targets' = Append(targets, [label |-> None, place |-> None])
            /\ Proceed
            /\ UNCHANGED <<seen, notes>>

\* find_definition's first location with a range; None stands for no such location.
DefinitionFound(place) ==
  /\ lookup = "definition"
  /\ UNCHANGED wasCut
  /\ IF place \notin LocalPlaces THEN Report("no symbol")
     ELSE /\ lookup' = "outline"
          /\ pointed' = [place |-> place, name |-> None]
          /\ UNCHANGED <<given, specs, at, scope, cut, anyCut, hidden, targets, seen, notes>>

\* The outline symbol at that range, or None.
OutlineFound(name) ==
  /\ lookup = "outline"
  /\ UNCHANGED wasCut
  /\ IF name = None THEN Report("no symbol")
     ELSE /\ lookup' = "label"
          /\ pointed' = [pointed EXCEPT !.name = name]
          /\ UNCHANGED <<given, specs, at, scope, cut, anyCut, hidden, targets, seen, notes>>

\* The position is a target of its own unless a name has found its definition.
AddPointed(label) ==
  /\ targets' = IF pointed.place \in seen THEN targets
                ELSE Append(targets, [label |-> label, place |-> pointed.place])
  /\ seen' = seen \cup {pointed.place}
  /\ Proceed
  /\ UNCHANGED notes

\* It is labelled as a search for its name would, or else from the outline.
Labelled(list) ==
  /\ lookup = "label"
  /\ UNCHANGED wasCut
  /\ LET found == Those(ExactMatches(list, pointed.name), {s \in Symbols : PlaceOf[s] = pointed.place}) IN
       IF found # <<>> THEN AddPointed(Head(found))
       ELSE IF scope = "workspace"
         THEN /\ scope' = "all"
              /\ UNCHANGED <<given, specs, at, lookup, cut, anyCut, hidden, pointed, targets, seen, notes>>
         ELSE AddPointed(None)

\* The command takes the targets and prints the notes; nothing reads the arguments again.
Give ==
  /\ lookup = "found"
  /\ lookup' = "taken"
  /\ given' = Nothing
  /\ specs' = <<>>
  /\ at' = 0
  /\ targets' = <<>>
  /\ seen' = {}
  /\ notes' = <<>>
  /\ wasCut' = {}
  /\ UNCHANGED <<scope, cut, anyCut, hidden, pointed>>

------------------------------------------------------------------------------
Awaited == {"search", "leaf", "definition", "outline", "label"}

\* A backend call fails, 60 seconds have passed, or, before the first spec, the current
\* directory cannot be read: the whole command fails.
LookupFails ==
  /\ lookup \in Awaited \/ (lookup = "file" /\ at = 1)
  /\ lookup' = "failed"
  /\ UNCHANGED <<given, specs, at, scope, cut, anyCut, hidden, pointed, targets, seen, notes, wasCut>>

LookupNext ==
  \/ Classify
  \/ \E list \in Answerable, truncated \in BOOLEAN :
       Searched(list, truncated) \/ LeafSearched(list, truncated)
  \/ \E exists \in BOOLEAN : FileResolved(exists)
  \/ \E place \in Places \cup {None} : DefinitionFound(place)
  \/ \E name \in Names \cup {None} : OutlineFound(name)
  \/ \E list \in Answerable : Labelled(list)
  \/ LookupFails

------------------------------------------------------------------------------
LookupTypeOK ==
  /\ given \in Given \cup {Nothing}
  /\ specs \in {<<>>} \cup {SpecsOf(a) : a \in Given}
  /\ at \in 0..(Len(specs) + 1)
  /\ lookup \in Awaited \cup {"off", "classify", "file", "found", "taken", "rejected", "failed"}
  /\ scope \in {"workspace", "all"}
  /\ {cut, anyCut, hidden} \subseteq BOOLEAN
  /\ pointed \in [place : Places \cup {None}, name : Names \cup {None}]
  /\ targets \in Seq([label : Symbols \cup {None}, place : Places \cup {None}])
  /\ seen \subseteq Places
  /\ notes \in Seq([spec : DOMAIN specs, truncated : BOOLEAN,
                    what : {"truncated", "not local", "filtered", "unknown", "no file", "no symbol"}])
  /\ wasCut \subseteq DOMAIN specs

Noted(i) == \E n \in DOMAIN notes : notes[n].spec = i

\* No name and no position vanishes, and no definition is run twice. Each spec looked up
\* has a definition that was found for it or before it, or a note of its own, which says if
\* any of its searches was cut ("so the name may exist after all", src/symbol.rs:139);
\* every place found has become a target unless it is not local; and "a definition found
\* twice, by two names or by a name and the position, is run once" (src/symbol.rs:270),
\* across searches of different scopes.
TargetsAccounted == lookup # "taken" =>
  /\ \A i \in DOMAIN specs : i < at =>
       \/ Noted(i)
       \/ specs[i].kind = "name" /\ \E s \in Symbols : NameOf[s] = specs[i].leaf /\ PlaceOf[s] \in seen
       \/ specs[i].kind = "position" /\ targets # <<>>
  /\ \A n \in DOMAIN notes : notes[n].what \in {"filtered", "unknown"} =>
       notes[n].truncated = (notes[n].spec \in wasCut)
  /\ \A p \in seen : p \notin LocalPlaces \/ \E i \in DOMAIN targets : targets[i].place = p
  /\ Grouped => \A i, j \in DOMAIN targets : targets[i].place = targets[j].place => i = j
==============================================================================
