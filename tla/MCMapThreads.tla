----------------------------- MODULE MCMapThreads -----------------------------
(***************************************************************************)
(* MapThreads for TLC: of two players one logs in on the continent and one *)
(* in an instance.                                                         *)
(***************************************************************************)
EXTENDS MapThreads

CONSTANTS s1, s2, m1

MCLogin == [s \in Accounts |-> IF s = s1 THEN m1 ELSE Home]
===============================================================================
