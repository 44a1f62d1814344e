----------------------------- MODULE SearchMerge -----------------------------
\* A search of several patterns (src/server.rs): the query is split on unescaped `|`,
\* one workspace/symbol runs per pattern, each answer is cut to the server's limit, and
\* the lists are merged.
\*
\* A query is a sequence of the characters that matter: the pipe, the backslash, the
\* blank, `::` and one other character. A symbol's entry has a range or not: serde reads a
\* list as `Flat` if every entry has one, and so an empty list too, else as `Nested`.
EXTENDS Naturals, Sequences, FiniteSets, SequencesExt, Filters

CONSTANTS
  Queries,   \* sequences of "pipe", "backslash", "blank", "colons" and "char"
  Entries,   \* what rust-analyzer may list
  NamedAs,   \* an entry's name
  KeyOf,     \* an entry's name, kind, URI and range: what dedup compares
  Ranged,    \* the entries that have a range
  Replies,   \* what rust-analyzer may answer: sequences of entries, or Null
  Null,
  Limit      \* --symbol-search-limit; rust-analyzer is asked for one more

Characters == {"pipe", "backslash", "blank", "colons", "char"}

ASSUME MergeAssumption ==
  /\ Queries \subseteq Seq(Characters)
  /\ NamedAs \in [Entries -> Seq(Characters)]
  /\ DOMAIN KeyOf = Entries /\ Ranged \subseteq Entries
  /\ \A d, e \in Entries : KeyOf[d] = KeyOf[e] => NamedAs[d] = NamedAs[e]
  /\ Replies \subseteq Seq(Entries) \cup {Null} /\ Null \notin Seq(Entries)
  /\ Limit \in Nat \ {0}

VARIABLES
  query,     \* what the client asked for
  exact,     \* with --exact
  segments,  \* the patterns that are still to be searched
  search,    \* "off", "split", "searching", "merged", "mixed", "failed" or "written"
  shape,     \* "empty", "flat" or "nested": the merge state
  items,     \* the symbols merged so far
  truncated, \* some answer was cut
  got        \* history: rust-analyzer's answers

searchVars == <<query, exact, segments, search, shape, items, truncated, got>>

------------------------------------------------------------------------------
\* split_search_query_into_segments.

\* One character: a backslash waits for the next one, and makes a pipe literal.
Step(state, c) ==
  LET current == IF state.escape /\ c # "pipe" THEN Append(state.current, "backslash")
                 ELSE state.current
  IN CASE c = "backslash" -> [state EXCEPT !.current = current, !.escape = TRUE]
       [] c = "pipe" /\ ~state.escape ->
            [state EXCEPT !.done = Append(@, state.current), !.current = <<>>]
       [] OTHER -> [state EXCEPT !.current = Append(current, c), !.escape = FALSE]

Trimmed(segment) ==
  LET dense == {i \in DOMAIN segment : segment[i] # "blank"} IN
  IF dense = {} THEN <<>>
  ELSE SubSeq(segment, CHOOSE i \in dense : \A j \in dense : i <= j,
                       CHOOSE i \in dense : \A j \in dense : j <= i)

Split(q) ==
  LET end == FoldLeft(Step, [done |-> <<>>, current |-> <<>>, escape |-> FALSE], q)
      last == IF end.escape THEN Append(end.current, "backslash") ELSE end.current
      all == Append(end.done, last)
      trimmed == [i \in DOMAIN all |-> Trimmed(all[i])]
      kept == Those(trimmed, ToSet(trimmed) \ {<<>>})
  IN IF kept = <<>> THEN <<<<>>>> ELSE kept

------------------------------------------------------------------------------
\* workspace_symbol and the merge.

\* cut_to_limit.
Cut(reply) == IF reply # Null /\ Len(reply) > Limit THEN SubSeq(reply, 1, Limit) ELSE reply
IsCut(reply) == reply # Null /\ Len(reply) > Limit

ShapeOf(list) == IF ToSet(list) \subseteq Ranged THEN "flat" ELSE "nested"

\* Mutant of Deduped: an entry is only compared with the one before it.
DedupedNeighbours(list, more) ==
  FoldLeft(LAMBDA acc, e : IF acc # <<>> /\ KeyOf[Last(acc)] = KeyOf[e] THEN acc ELSE Append(acc, e),
           list, more)

\* extend_deduped: the first entry with a key stays.
Deduped(list, more) ==
  FoldLeft(LAMBDA acc, e :
             IF \E i \in DOMAIN acc : KeyOf[acc[i]] = KeyOf[e] THEN acc ELSE Append(acc, e),
           list, more)

SearchInit(patterns, flags) ==
  /\ query \in patterns
  /\ exact \in flags
  /\ segments = <<>>
  /\ search = "off"
  /\ shape = "empty"
  /\ items = <<>>
  /\ truncated = FALSE
  /\ got = <<>>

BeginSearch ==
  /\ search = "off"
  /\ search' = "split"
  /\ UNCHANGED <<query, exact, segments, shape, items, truncated, got>>

SplitQuery ==
  /\ search = "split"
  /\ segments' = Split(query)
  /\ search' = "searching"
  /\ UNCHANGED <<query, exact, shape, items, truncated, got>>

\* A query of one pattern: its answer is passed on as it is.
SingleAnswered(reply) ==
  /\ search = "searching"
  /\ Len(segments) = 1 /\ got = <<>>
  /\ got' = <<reply>>
  /\ truncated' = IsCut(reply)
  /\ items' = IF reply = Null THEN <<>> ELSE Cut(reply)
  /\ segments' = <<>>
  /\ search' = "merged"
  /\ UNCHANGED <<query, exact, shape>>

\* One of several patterns is answered: lists of one shape are merged, the other shape
\* fails the search.
SegmentAnswered(reply) ==
  LET list == Cut(reply) IN
  /\ search = "searching"
  /\ Len(segments) + Len(got) > 1
  /\ got' = Append(got, reply)
  /\ truncated' = (truncated \/ IsCut(reply))
  /\ segments' = Tail(segments)
  /\ IF list = Null
       THEN /\ UNCHANGED <<shape, items>>
            /\ search' = IF Len(segments) = 1 THEN "merged" ELSE "searching"
     ELSE IF shape \in {"empty", ShapeOf(list)}
       THEN /\ shape' = ShapeOf(list)
            /\ items' = Deduped(items, list)
            /\ search' = IF Len(segments) = 1 THEN "merged" ELSE "searching"
       ELSE /\ search' = "mixed"
            /\ UNCHANGED <<shape, items>>
  /\ UNCHANGED <<query, exact>>

\* rust-analyzer fails or times out.
SearchFails ==
  /\ search = "searching"
  /\ search' = "failed"
  /\ UNCHANGED <<query, exact, segments, shape, items, truncated, got>>

\* keep_exact_names: the names are the patterns' last segments, from the query again.
LastSegment(pattern) ==
  LET colons == {0} \cup {i \in DOMAIN pattern : pattern[i] = "colons"}
  IN SubSeq(pattern, 1 + CHOOSE i \in colons : \A j \in colons : j <= i, Len(pattern))

Exact(list) ==
  LET names == {LastSegment(p) : p \in ToSet(Split(query))}
  IN Those(list, {e \in Entries : NamedAs[e] \in names})

\* run_search writes what was merged.
WriteSearch ==
  /\ search = "merged"
  /\ search' = "written"
  /\ items' = IF exact THEN Exact(items) ELSE items
  /\ UNCHANGED <<query, exact, segments, shape, truncated, got>>

SearchNext ==
  \/ SplitQuery \/ SearchFails \/ WriteSearch
  \/ \E reply \in Replies : SingleAnswered(reply) \/ SegmentAnswered(reply)

------------------------------------------------------------------------------
\* What the search promises, stated without the code's loops.

\* Unescaped pipes: those without a backslash right before them.
Bars(q) == {i \in DOMAIN q : q[i] = "pipe" /\ (i = 1 \/ q[i - 1] # "backslash")}

\* The members of a set of numbers up to n + 1, in their order.
InOrder(set, n) == Those([i \in 1..(n + 2) |-> i - 1], set)

\* The characters of a query at some of its positions.
Chars(q, positions) ==
  LET order == InOrder(positions, Len(q)) IN [n \in DOMAIN order |-> q[order[n]]]

\* The pieces between them, without the backslashes that escape a pipe.
Piece(q, from, to) ==
  Chars(q, {i \in from..to : ~(q[i] = "backslash" /\ i < to /\ q[i + 1] = "pipe")})

ReferenceSegments(q) ==
  LET bars == InOrder(Bars(q) \cup {0, Len(q) + 1}, Len(q))
      pieces == [n \in 1..(Len(bars) - 1) |-> Trimmed(Piece(q, bars[n] + 1, bars[n + 1] - 1))]
      kept == Those(pieces, ToSet(pieces) \ {<<>>})
  IN IF kept = <<>> THEN <<<<>>>> ELSE kept

\* Every query is split where an unescaped pipe is, into its non-blank patterns.
SplitIsReference ==
  search = "searching" /\ got = <<>> => segments = ReferenceSegments(query)

\* What rust-analyzer listed, within the limit.
Listed == {p \in (DOMAIN got) \X (1..Limit) : got[p[1]] # Null /\ p[2] \in DOMAIN Cut(got[p[1]])}
EntryAt(p) == got[p[1]][p[2]]
Before(p, r) == p[1] < r[1] \/ (p[1] = r[1] /\ p[2] < r[2])

\* The names an exact search keeps: one that a pattern is, or ends with after colons.
Wanted(name) == \E p \in ToSet(ReferenceSegments(query)) :
  /\ Len(name) <= Len(p)
  /\ \A i \in DOMAIN name : name[i] = p[Len(p) - Len(name) + i] /\ name[i] # "colons"
  /\ Len(name) < Len(p) => p[Len(p) - Len(name)] = "colons"

\* A query is split where an unescaped pipe is (split_search_query_into_segments), and
\* its patterns together give every symbol once, in the order in which they list it
\* first, and `truncated` if any of their answers had more than the limit; --exact leaves
\* the ones that have a pattern's name, whichever pattern listed them.
SearchIsReference ==
  LET kept == {p \in Listed : search = "written" /\ exact => Wanted(NamedAs[EntryAt(p)])} IN
  /\ SplitIsReference
  /\ search \in {"merged", "written"} =>
    /\ truncated = \E n \in DOMAIN got : got[n] # Null /\ Len(got[n]) > Limit
    /\ {KeyOf[items[i]] : i \in DOMAIN items} = {KeyOf[EntryAt(p)] : p \in kept}
    /\ Len(got) > 1 =>
         \A i, j \in DOMAIN items : i < j =>
           \E p \in Listed : /\ KeyOf[EntryAt(p)] = KeyOf[items[i]]
                             /\ \A r \in Listed : KeyOf[EntryAt(r)] = KeyOf[items[j]] => Before(p, r)

SearchTypeOK ==
  /\ query \in Queries \cup {<<>>}
  /\ exact \in BOOLEAN
  /\ search \in {"off", "split", "searching", "merged", "mixed", "failed", "written"}
  /\ shape \in {"empty", "flat", "nested"}
  /\ items \in Seq(Entries)
  /\ truncated \in BOOLEAN
  /\ \A n \in DOMAIN got : got[n] \in Replies
==============================================================================
