---------------------------- MODULE MCPlaySync ----------------------------
(* Small instances of PlaySync for TLC.                                      *)
EXTENDS PlaySync, TLC

CONSTANTS t1, t2, d1, u1, f1, f2, k1, k2, k3, s1, s2, s3

\* A step and a bonus; the bonus as two published versions price it.
Step     == [kind |-> "step", coins |-> 1]
Bonus(n) == [kind |-> "bonus", coins |-> n]
PlayFacts   == {Step, Bonus(5)}
PricedFacts == {Bonus(5), Bonus(7)}

\* One player; two tabs of one device, or one tab with two calls under way.
OneDevice  == [t \in Tabs |-> d1]
FlowPerTab == [f \in Flows |-> IF f = f1 THEN t1 ELSE t2]
OneTab     == [f \in Flows |-> t1]
OnePlayer  == [d \in Devices |-> u1]

Symmetry == Permutations(AttemptKeys) \cup Permutations(ServerIds)
=============================================================================
