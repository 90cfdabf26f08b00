---------------------------- MODULE MCTaskRuns ----------------------------
(* Model values and symmetry for TLC. *)
EXTENDS TaskRuns, TLC

CONSTANTS api, h1, h2, w1, w2, db, t1

Symmetry == Permutations(Handler) \union Permutations(Consumers)
=============================================================================
