------------------------------- MODULE MCDiffs -------------------------------
(* Diffs of two files, one of which has a blank in its path and one a         *)
(* directory "b" at its start.                                                *)
EXTENDS Diffs

Paths == {<<"f1">>, <<"x", "_", "f2">>, <<"b/", "f3">>}

(* What a line of a diff says: a declaration, the same words the other way    *)
(* round, a comment, an increment, nothing.                                   *)
Contents == {<<"fn", "_", "a">>, <<"a", "_", "fn">>, <<"-", "-", "_", "b">>, <<"+", "+", "a">>, << >>}
==============================================================================
