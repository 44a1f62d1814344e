-------------------------- MODULE CommandArguments --------------------------
\* The names, the position and the filters of a position command, and the checks they
\* pass: clap's and then classify's for the command line (src/find_references.rs,
\* src/symbol.rs), targets' and then classify's for an MCP tool (src/mcp/params.rs).
\*
\* A name is a Rust path (of kind "name") or is not ("invalid"); a filter is absent,
\* --kind or a --glob ("kind"), or a glob that does not parse.
EXTENDS Integers, Sequences

CONSTANTS
  None,
  Given  \* what a command can be given: names, the parts of a position, a filter

ASSUME GivenAssumption ==
  /\ None \notin Nat
  /\ \A a \in Given :
       /\ DOMAIN a = {"names", "path", "line", "character", "filter"}
       /\ a.names \in Seq({a.names[i] : i \in DOMAIN a.names})
       /\ \A i \in DOMAIN a.names : a.names[i].kind \in {"name", "invalid"}
       /\ a.path \in BOOLEAN
       /\ {a.line, a.character} \subseteq Nat \cup {None}

Nothing == [names |-> <<>>, path |-> FALSE, line |-> None, character |-> None, filter |-> "none"]

HasInvalidName(a) == \E i \in DOMAIN a.names : a.names[i].kind = "invalid"
HasPosition(a) == a.path /\ a.line # None /\ a.character # None
HasPart(a) == a.path \/ a.line # None \/ a.character # None

------------------------------------------------------------------------------
\* clap: parse_one_based, parse_glob, required_unless_present and requires_all.
ClapRejects(a) ==
  \/ 0 \in {a.line, a.character}
  \/ a.filter = "bad glob"
  \/ a.names = <<>> /\ ~a.path
  \/ a.path /\ None \in {a.line, a.character}

\* classify.
ClassifyRejects(a) ==
  \/ HasInvalidName(a)
  \/ HasPart(a) /\ ~HasPosition(a)
  \/ a.names = <<>> /\ a.filter # "none"

\* Mutant of ToolRejects: part of a position is taken for no position.
ToolRejectsNoPart(a) ==
  \/ 0 \in {a.line, a.character}
  \/ a.names = <<>> /\ (~HasPosition(a) \/ a.filter # "none")
  \/ HasInvalidName(a)
  \/ a.filter = "bad glob"

\* targets, the checks of a tool.
ToolRejects(a) ==
  \/ 0 \in {a.line, a.character}
  \/ HasPart(a) /\ ~HasPosition(a)
  \/ a.names = <<>> /\ (~HasPosition(a) \/ a.filter # "none")
  \/ HasInvalidName(a)
  \/ a.filter = "bad glob"

\* What classify makes of them: the names, then the position, 0-based.
SpecsOf(a) ==
  a.names \o IF HasPosition(a)
               THEN <<[kind |-> "position", line |-> a.line - 1, character |-> a.character - 1]>>
               ELSE <<>>
==============================================================================
