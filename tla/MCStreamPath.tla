----------------------------- MODULE MCStreamPath -----------------------------
(* Instances of StreamPath for TLC.                                        *)
EXTENDS StreamPath

\* Three groups with the ids 11, 12, 13 (unique, as the parser demands);
\* each operates on the primary (1), on one of the others, or on nothing (9).
Ids == [e \in Engines |-> 10 + e]
All == [e \in Engines |-> TRUE]
GieConfig(enable, on) == [enable |-> enable, uid |-> Ids, on |-> on]
\* No enabled groups on a cycle.
Ranked(c) ==
  \E rank \in [Engines -> Engines] : \A e, f \in Engines :
    c.enable[e] /\ c.enable[f] /\ c.on[e] = Ids[f] => rank[f] < rank[e]
AllConfigs ==
  {c \in {GieConfig(en, on) : en \in [Engines -> BOOLEAN],
          on \in [Engines -> {1, 9} \cup {Ids[e] : e \in Engines}]} :
     Ranked(c)}

\* The trees frames flow through: one parent with two children (a tee inside);
\* two roots, the second with an only child (a direct link).
RunTrees == {GieConfig(All, on) : on \in {<<1, 11, 11>>, <<1, 1, 12>>}}
OneRoot == {GieConfig(All, <<1>>)}

\* The second unit is listed and operates on another engine than the primary.
OnePrimary == {[enable |-> [u \in Units |-> TRUE], primary |-> [u \in Units |-> u = 1]]}
=============================================================================
