-------------------------- MODULE MCApprovedSubmit --------------------------
(***************************************************************************)
(* Instances of ApprovedSubmit for TLC.                                    *)
(***************************************************************************)
EXTENDS ApprovedSubmit, TLC

CONSTANTS api, bot, w1, w2, cli, db, a1, a2, r1, r2

\* Two requests about one application.
TwoForOne == r1 :> a1 @@ r2 :> a1

\* One request about each of two applications.
OneForEach == r1 :> a1 @@ r2 :> a2

\* One request about one application.
JustOne == r1 :> a1

Symmetry == Permutations(Consumers)
=============================================================================
