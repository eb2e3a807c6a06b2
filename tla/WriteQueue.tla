------------------------------ MODULE WriteQueue ------------------------------
(***************************************************************************)
(* What Database::Execute promises its callers: a query is accepted at     *)
(* once and applied later, once at most, in the order of acceptance; while *)
(* the database closes, in any order.  Waiting callers have theirs applied *)
(* without acceptance.                                                     *)
(***************************************************************************)
EXTENDS Naturals, Sequences

CONSTANT Queries

VARIABLES
    accepted,   \* the queries Execute took, in order
    applied,    \* the queries the database ran, in order
    closing

Applied == {applied[i] : i \in 1..Len(applied)}
Accepted == {accepted[i] : i \in 1..Len(accepted)}

Init == accepted = <<>> /\ applied = <<>> /\ closing = FALSE

Accept(q) ==
    /\ q \notin Accepted \cup Applied
    /\ accepted' = Append(accepted, q)
    /\ UNCHANGED <<applied, closing>>

\* The first query that waits.
Apply ==
    /\ ~closing
    /\ \E i \in 1..Len(accepted) :
          /\ accepted[i] \notin Applied
          /\ \A j \in 1..(i - 1) : accepted[j] \in Applied
          /\ applied' = Append(applied, accepted[i])
    /\ UNCHANGED <<accepted, closing>>

ApplyClosing ==
    /\ closing
    /\ \E q \in Accepted \ Applied : applied' = Append(applied, q)
    /\ UNCHANGED <<accepted, closing>>

ApplyNow(q) ==
    /\ q \notin Accepted \cup Applied
    /\ applied' = Append(applied, q)
    /\ UNCHANGED <<accepted, closing>>

Close == closing' = TRUE /\ UNCHANGED <<accepted, applied>>

Next ==
    \/ \E q \in Queries : Accept(q) \/ ApplyNow(q)
    \/ Apply \/ ApplyClosing \/ Close

Spec == Init /\ [][Next]_<<accepted, applied, closing>>
===============================================================================
