----------------------------- MODULE MCCommands -----------------------------
\* Small instances for Commands.
EXTENDS Commands

CONSTANTS ws, dup, dep, ext, bare,  \* symbols
          p1, p2, p3,               \* places
          T,                        \* a container
          a, b, c,                  \* call hierarchy items
          e1, e2, e3, k1, k2        \* entries of a workspace/symbol answer, and keys

\* ws and dep are both named "f": in the workspace and in a dependency. dup is T::g at
\* the same place as ws (an alias), ext is another T::g, not in a local file and not
\* kept by the filter, bare has no range.
MCSymbols == {ws, dup, dep, ext, bare}
MCNameOf == (ws :> "f") @@ (dep :> "f") @@ (dup :> "g") @@ (ext :> "g") @@ (bare :> "g")
MCContainerOf == (ws :> None) @@ (dep :> None) @@ (dup :> T) @@ (ext :> T) @@ (bare :> T)
MCPlaceOf == (ws :> p1) @@ (dup :> p1) @@ (dep :> p2) @@ (ext :> p3) @@ (bare :> None)
MCWorkspace == {ws, dup}
MCKept == {ws, dup, dep, ext}
MCLocalPlaces == {p1, p2}
MCLists == {<<>>, <<ws>>, <<dup>>, <<ws, dup>>, <<dep, ext>>, <<bare, dup>>, <<ext, ws, dep>>}

F == [kind |-> "name", leaf |-> "f", container |-> None]
TG == [kind |-> "name", leaf |-> "g", container |-> T]
Bad == [kind |-> "invalid"]
Numbers == {None, 0, 1}
\* Every combination of parts and filters with no name, a name, and a name that is none;
\* more names with a complete position or without one.
MCGiven ==
  [names : {<<>>, <<F>>, <<Bad>>, <<F, Bad>>}, path : BOOLEAN, line : Numbers, character : Numbers,
   filter : {"none", "kind", "bad glob"}]
  \cup [names : {<<TG>>, <<F, TG>>, <<TG, F>>}, path : {FALSE}, line : {None}, character : {None},
        filter : {"none", "kind"}]
  \cup [names : {<<TG, F>>}, path : {TRUE}, line : {1}, character : {1}, filter : {"kind"}]

\* The call hierarchy: a name, two names, a name and a position, a position.
MCWalkGiven ==
  {x \in MCGiven : /\ x.names \in {<<>>, <<F>>, <<F, TG>>}
                   /\ x.filter = "none"
                   /\ {x.line, x.character} \in {{None}, {1}}
                   /\ x.path = (x.line = 1)}

MCItems == {a, b, c}
MCAnswers == {<<>>, <<b>>, <<c>>, <<a, b>>, <<b, c>>, <<c, b>>, <<c, a>>}

\* e1 and e2 are the same symbol, e3 has no range.
MCEntries == {e1, e2, e3}
MCKeyOf == (e1 :> k1) @@ (e2 :> k1) @@ (e3 :> k2)
MCNamedAs == (e1 :> <<"char">>) @@ (e2 :> <<"char">>) @@ (e3 :> <<"char", "char">>)
MCRanged == {e1, e2}
MCReplies == {Null, <<>>, <<e1>>, <<e3>>, <<e1, e2>>, <<e3, e1>>, <<e1, e3, e2>>}
Marks == {"pipe", "backslash", "blank", "char"}
MCQueries == UNION {[1..n -> Marks] : n \in 0..4} \cup
             {<<"char", "pipe", "char", "pipe", "char">>,
              <<"char", "colons", "char">>, <<"char", "colons">>,
              <<"char", "colons", "char", "char", "pipe", "backslash", "pipe">>}

\* Two files. The characters are one unit wide, but for "pair", a surrogate pair.
MCUnits == [mark \in {"x", "y", "pair"} |-> IF mark = "pair" THEN 2 ELSE 1]
MCDisk == <<<<<<"x", "pair", "y">>, <<"pair", "y", "x">>>>, Unreadable>>
Edit(line, from, last, to) == [start |-> <<line, from>>, end |-> <<last, to>>]
Changes(edits) == [changes |-> edits, documents |-> <<>>]
OneLine == {<<from, to>> \in (0..5) \X (0..5) : from <= to}
MCWorkspaceEdits ==
  {Changes(1 :> <<Edit(1, r[1], 1, r[2]), Edit(0, 0, 0, 1)>>) : r \in OneLine} \cup
  {Changes(<<>>),
   Changes(1 :> <<Edit(0, 1, 1, 1), Edit(2, 0, 2, 1)>> @@ 2 :> <<Edit(0, 0, 0, 1)>>),
   [changes |-> (2 :> <<Edit(1, 0, 1, 1), Edit(0, 3, 0, 4)>>),
    documents |-> <<[uri |-> 2, edits |-> <<Edit(0, 3, 0, 4), Edit(0, 1, 0, 3)>>],
                    [uri |-> 1, edits |-> <<Edit(1, 2, 1, 3), Edit(1, 0, 1, 2)>>],
                    [uri |-> 2, edits |-> <<Edit(0, 0, 0, 1)>>]>>],
   [changes |-> (1 :> <<Edit(0, 0, 0, 1)>>),
    documents |-> <<[uri |-> 1, edits |-> <<Edit(1, 0, 1, 2)>>], FileOperation>>]}
==============================================================================
