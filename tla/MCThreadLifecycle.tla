-------------------------- MODULE MCThreadLifecycle --------------------------
(* Instances of ThreadLifecycle for TLC: the calls are model values and may *)
(* be renamed freely within each kind.                                      *)
EXTENDS ThreadLifecycle, TLC

Symmetry == Permutations(Turns) \cup Permutations(Answers) \cup Permutations(Cancels)
=============================================================================
