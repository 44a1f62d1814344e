----------------------------- MODULE RenameEdits -----------------------------
\* The edits of a rename on their way from rust-analyzer's WorkspaceEdit to the report:
\* workspace_edit_to_files (src/lsp_map.rs) groups and sorts them, write_rename_text
\* (src/rename.rs) puts the text they replace beside each.
\*
\* A character takes one or two UTF-16 units, and LSP counts in units. An edit is its
\* range; what it inserts is the same everywhere.
EXTENDS Naturals, Sequences, FiniteSets, SequencesExt, Filters

CONSTANTS
  Disk,           \* for each URI, numbered in their order, its file's lines, or Unreadable
  Unreadable,
  Units,          \* a character's width
  WorkspaceEdits, \* what rust-analyzer may answer
  FileOperation,  \* an entry of documentChanges that creates, renames or deletes a file
  Ellipsis

Uris == DOMAIN Disk
Lines == Seq(DOMAIN Units)
Ranges == [start : Nat \X Nat, end : Nat \X Nat]

ASSUME RenameAssumption ==
  /\ Disk \in Seq(Seq(Lines) \cup {Unreadable})
  /\ Units \in [DOMAIN Units -> Nat \ {0}]
  /\ \A answer \in WorkspaceEdits :
       /\ answer.documents \in Seq([uri : Uris, edits : Seq(Ranges)] \cup {FileOperation})
       /\ DOMAIN answer.changes \subseteq Uris
       /\ \A uri \in DOMAIN answer.changes : answer.changes[uri] \in Seq(Ranges)

VARIABLES
  edit,    \* history: rust-analyzer's answer, or Unreadable
  report   \* the lines written, one per edit

renameVars == <<edit, report>>

RenameInit == edit = Unreadable /\ report = <<>>

------------------------------------------------------------------------------
\* workspace_edit_to_files.

HasFileOperation(answer) == \E i \in DOMAIN answer.documents : answer.documents[i] = FileOperation

StartsBefore(e, f) == e.start[1] < f.start[1] \/ (e.start[1] = f.start[1] /\ e.start[2] < f.start[2])

\* sort_by_key, which is stable: an edit's place is after those that start before it, and
\* after those that start where it does and were there first.
Sorted(edits) ==
  LET precedes(i, j) == \/ StartsBefore(edits[i], edits[j])
                        \/ ~StartsBefore(edits[j], edits[i]) /\ i < j
      before(j) == {i \in DOMAIN edits : precedes(i, j)}
  IN [n \in DOMAIN edits |-> edits[CHOOSE j \in DOMAIN edits : Cardinality(before(j)) = n - 1]]

\* A document's edits, those of `changes` before those of `documentChanges`.
EditsOf(answer, uri) ==
  Sorted(FoldLeft(LAMBDA edits, d : IF d.uri = uri THEN edits \o d.edits ELSE edits,
                  IF uri \in DOMAIN answer.changes THEN answer.changes[uri] ELSE <<>>,
                  answer.documents))

Files(answer) ==
  LET named == DOMAIN answer.changes \cup {d.uri : d \in ToSet(answer.documents)}
      uris == Those([n \in DOMAIN Disk |-> n], named)
  IN [n \in DOMAIN uris |-> [uri |-> uris[n], edits |-> EditsOf(answer, uris[n])]]

------------------------------------------------------------------------------
\* write_rename_text.

\* Mutant of Slice: offsets count characters.
SliceByCharacters(line, from, to) ==
  IF to <= Len(line) \/ to = from THEN SubSeq(line, from + 1, IF to < Len(line) THEN to ELSE Len(line))
  ELSE Ellipsis

\* utf16_slice: the characters that start from offset `from` on and before `to`, if the
\* line is that long.
Slice(line, from, to) ==
  LET walk == FoldLeft(LAMBDA acc, c :
                         IF acc.units >= to THEN acc
                         ELSE [units |-> acc.units + Units[c],
                               text |-> IF acc.units >= from THEN Append(acc.text, c) ELSE acc.text],
                       [units |-> 0, text |-> <<>>], line)
  IN IF walk.units >= to \/ from = to THEN walk.text ELSE Ellipsis

\* replaced_text, with SourceLines::lines.
Replaced(uri, e) ==
  IF \/ e.start[1] # e.end[1]
     \/ Disk[uri] = Unreadable
     \/ e.start[1] >= Len(Disk[uri])
    THEN Ellipsis
    ELSE Slice(Disk[uri][e.start[1] + 1], e.start[2], e.end[2])

RowsOf(file) ==
  [m \in DOMAIN file.edits |->
    [uri |-> file.uri, edit |-> file.edits[m], old |-> Replaced(file.uri, file.edits[m])]]

ReportOf(files) == FoldLeft(LAMBDA rows, file : rows \o RowsOf(file), <<>>, files)

\* rust-analyzer's answer is reported, unless it is a file operation.
Reported(answer) ==
  /\ edit' = answer
  /\ report' = IF HasFileOperation(answer) THEN <<>> ELSE ReportOf(Files(answer))

------------------------------------------------------------------------------
\* Where in a line a character starts, in UTF-16 units; the end of the line is after its
\* last character.
OffsetOf(line, i) == FoldLeft(LAMBDA n, c : n + Units[c], 0, SubSeq(line, 1, i - 1))

Occurrences(e, edits) == Cardinality({i \in DOMAIN edits : edits[i] = e})

\* How often an answer has the edit e of a document, in both its shapes.
Times(answer, uri, e) ==
  FoldLeft(LAMBDA n, d : IF d.uri = uri THEN n + Occurrences(e, d.edits) ELSE n,
           IF uri \in DOMAIN answer.changes THEN Occurrences(e, answer.changes[uri]) ELSE 0,
           answer.documents)

EditsIn(answer) ==
  UNION ({ToSet(answer.changes[uri]) : uri \in DOMAIN answer.changes}
         \cup {ToSet(d.edits) : d \in ToSet(answer.documents)})

\* The text a report must show: what is on the disk between the two offsets, when both are
\* at a character of one line.
Shows(uri, e, old) ==
  IF e.start[1] # e.end[1] \/ Disk[uri] = Unreadable \/ e.start[1] >= Len(Disk[uri])
    THEN old = Ellipsis
    ELSE LET line == Disk[uri][e.start[1] + 1]
             ends == 1..(Len(line) + 1)
         IN /\ \A i, j \in ends :
                 i <= j /\ OffsetOf(line, i) = e.start[2] /\ OffsetOf(line, j) = e.end[2]
                   => old = SubSeq(line, i, j - 1)
            /\ e.end[2] > OffsetOf(line, Len(line) + 1) /\ e.start[2] < e.end[2] => old = Ellipsis

\* A rename's report has every edit of both shapes of the answer exactly as often as the
\* answer has it (lsp_map.rs:85), documents in order and a document's edits by position,
\* each with the text it replaces, though rust-analyzer counts UTF-16 units and the report
\* characters (rename.rs:190).
RenameReport ==
  edit # Unreadable /\ ~HasFileOperation(edit) =>
    /\ \A uri \in Uris, e \in EditsIn(edit) :
         Times(edit, uri, e) = Cardinality({n \in DOMAIN report : report[n].uri = uri /\ report[n].edit = e})
    /\ \A n \in DOMAIN report : report[n].edit \in EditsIn(edit) /\ Shows(report[n].uri, report[n].edit, report[n].old)
    /\ \A m, n \in DOMAIN report : m < n =>
         \/ report[m].uri < report[n].uri
         \/ report[m].uri = report[n].uri /\ ~StartsBefore(report[n].edit, report[m].edit)

RenameTypeOK ==
  /\ edit \in WorkspaceEdits \cup {Unreadable}
  /\ \A n \in DOMAIN report : report[n].uri \in Uris
==============================================================================
