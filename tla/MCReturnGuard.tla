--------------------------- MODULE MCReturnGuard ---------------------------
(* Instances of ReturnGuard for TLC: one payment of 3 and requests of 1,    *)
(* behind either gateway.                                                   *)
EXTENDS ReturnGuard, FiniteSetsExt, TLC

CONSTANTS p1

Sums == [rs \in SUBSET Requests |-> MapThenSumSet(LAMBDA r : AmountOf[r], rs)]
OnePayment == [r \in Requests |-> p1]
Small == [r \in Requests |-> 1]
CapturedThree == [p \in Payments |-> 3]
NoUpload == {}

\* Processes are interchangeable, and tickets are fresh names.
Symmetry == Permutations(Workers) \cup Permutations(Tickets)
=============================================================================
