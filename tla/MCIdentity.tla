----------------------------- MODULE MCIdentity -----------------------------
(* A small instance of Identity for TLC.                                     *)
EXTENDS Identity, TLC

CONSTANTS t1, t2, f1, f2, k1, s1, x1, ann

TwoTabs == (f1 :> t1) @@ (f2 :> t2)

\* A tab and its flow go together.
Swap == (f1 :> f2) @@ (f2 :> f1) @@ (t1 :> t2) @@ (t2 :> t1)

Symmetry == Permutations(AttemptKeys) \cup Permutations(ServerIds) \cup {Swap}
=============================================================================
