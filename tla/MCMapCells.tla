------------------------------ MODULE MCMapCells ------------------------------
(***************************************************************************)
(* A row of four cells.  Positions are the cells' middles: what is two    *)
(* cells off stays in range but does not come into it.  One spawn stays    *)
(* at the row's end, the other walks between two cells.                    *)
(***************************************************************************)
EXTENDS MapCells, TLC

CONSTANTS homebody, wanderer

MCSpawnAt(s) == IF s = homebody THEN 0 ELSE 2
MCPath(s) == IF s = homebody THEN {0} ELSE {2, 3}

Alike == Permutations(Players)

=============================================================================
