------------------------- MODULE MCRefundExecution -------------------------
(* Instances of RefundExecution for TLC: two or three requests on one       *)
(* payment, because a Razorpay adapter serves exactly one payment.          *)
EXTENDS RefundExecution, FiniteSetsExt, TLC

CONSTANTS r1, p1

Sums == [rs \in SUBSET Requests |-> MapThenSumSet(LAMBDA r : AmountOf[r], rs)]

OnePayment == [r \in Requests |-> p1]

\* Any request fits the payment alone, two fit only if r1 is one of them.
Contending == [r \in Requests |-> IF r = r1 THEN 1 ELSE 2]
CapturedThree == [p \in Payments |-> 3]

\* Two requests of 1: with 3 captured both fit even if each is counted once
\* by the gateway and once by the local ledger; with 1 captured each asks for
\* the whole payment.
Small == [r \in Requests |-> 1]
CapturedOne == [p \in Payments |-> 1]

NoUpload == {}
\* The snapshot the dashboard sends with every golden workflow: the payment
\* as captured, with nothing refunded.
FullUpload == {[valid |-> TRUE, refundable |-> 1]}

\* Requests of one size on one payment are interchangeable, and so are the
\* processes; for safety runs on OnePayment and Small.
Symmetry == Permutations(Requests) \cup Permutations(Workers)
=============================================================================
