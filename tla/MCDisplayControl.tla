--------------------------- MODULE MCDisplayControl ---------------------------
(* Instances of DisplayControl for TLC: one row of two tiles each.         *)
EXTENDS DisplayControl

OneRow == [i \in 0 .. 1 |-> 1]
TwoColumns == [i \in 0 .. 1 |-> 2]
Scenario(n, multi, sources, user, bound) ==
  [instances |-> n, multiUri |-> multi, configured |-> sources,
   attended |-> user, messages |-> bound]
AllScenarios ==
  {Scenario(1, TRUE, 0 .. 2, FALSE, 0), Scenario(1, TRUE, {1}, TRUE, 1),
   Scenario(2, FALSE, {1}, TRUE, 0)}
=============================================================================
