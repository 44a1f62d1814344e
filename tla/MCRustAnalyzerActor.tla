------------------------- MODULE MCRustAnalyzerActor -------------------------
(***************************************************************************)
(* RustAnalyzerActor with a call of each kind.  All of them together are   *)
(* more interleavings than TLC can enumerate, so every behaviour takes its *)
(* calls from one of a few workloads.                                      *)
(***************************************************************************)
EXTENDS RustAnalyzerActor

CONSTANTS rename, search, request, notify, watched, cached, forbidden, shutdown, shutdown2

MCKind ==
  [c \in Calls |->
     CASE c = rename -> "rename"
       [] c = search -> "search"
       [] c = request -> "request"
       [] c = notify -> "notify"
       [] c = watched -> "watched"
       [] c = cached -> "cached"
       [] c = forbidden -> "forbidden"
       [] OTHER -> "shutdown"]

\* Late answers and refusals; changes that come between requests; a call queued
\* behind a Shutdown, and a second Shutdown; an editor's notification.
Workloads ==
  { {rename, request, forbidden, shutdown},
    {rename, watched, cached},
    {search, watched, shutdown},
    {cached, shutdown, shutdown2},
    {request, watched, notify, forbidden} }

\* As a state constraint this cuts off steps of Call only, for which no fairness is
\* assumed: what is left are the behaviours in which the other callers never call.
OneWorkload ==
  \E w \in Workloads : \A c \in Calls : outcome[c] # "unsent" => c \in w
==============================================================================
