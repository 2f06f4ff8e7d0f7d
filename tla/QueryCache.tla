----------------------------- MODULE QueryCache -----------------------------
(***************************************************************************)
(* One query of the browser's cache (TanStack Query), as the dashboard     *)
(* uses it: what is fetched stays fresh for ever, a failed fetch is tried  *)
(* once more, and invalidating a query that is on screen fetches it anew.  *)
(*                                                                         *)
(* `fetch' is idle, asked (the API has not read its state yet) or answered *)
(* (it has, and `answer' is on its way).                                   *)
(***************************************************************************)
EXTENDS Naturals

Nothing == <<>>
NewQuery == [loaded |-> FALSE, data |-> Nothing, fetch |-> "asked", answer |-> Nothing, tries |-> 0]

NotFetching(q) == q.fetch = "idle"
Fetching(q) == [q EXCEPT !.fetch = "asked", !.answer = Nothing, !.tries = 0]
\* Mutant: a fetch under way is good enough.
InvalidatedIdle(q) == IF NotFetching(q) THEN Fetching(q) ELSE q
\* A fetch under way is dropped for a new one, unless it is the first.
Invalidated(q) == IF q.loaded \/ NotFetching(q) THEN Fetching(q) ELSE q
AnsweredWith(q, value) == [q EXCEPT !.fetch = "answered", !.answer = value]
Arrived(q) ==
  [q EXCEPT !.loaded = TRUE, !.data = q.answer, !.fetch = "idle", !.answer = Nothing]
\* retry: 1.
Failed(q) ==
  IF q.tries = 0 THEN [q EXCEPT !.fetch = "asked", !.answer = Nothing, !.tries = 1]
  ELSE [q EXCEPT !.fetch = "idle", !.answer = Nothing]
\* setQueryData: an answer on its way is not stopped by it.
Updated(q, value) == [q EXCEPT !.data = value]
=============================================================================
