----------------------------- MODULE MCInstances -----------------------------
(* Instances with model values for its players and managers. *)
EXTENDS Instances, TLC

CONSTANTS p1, p2, p3, m1, m2

Symmetric == Permutations(Managers) \cup Permutations(Travellers)

\* One instance and two groups, but of the raids that are persistent at once
\* two instances and one group.
Ones == [k \in Kinds |-> IF k = "raidAtOnce" THEN 2 ELSE 1]
Twos == [k \in Kinds |-> IF k = "raidAtOnce" THEN 1 ELSE 2]
=============================================================================
