---------------------------- MODULE RefundEscrow ----------------------------
(***************************************************************************)
(* What the reservation ledger promises, with no handler, table or message *)
(* in it: a refund is held against what its payment captured, its money    *)
(* moves only while it is held, and it is paid or returned once, after the *)
(* money has moved or because it has not.                                  *)
(***************************************************************************)
EXTENDS Integers

CONSTANTS Requests, Payments, PaymentOf, Total, Captured

VARIABLES promise,   \* "open", "held", then "paid" or "returned"
          moved      \* the gateway has taken the refund

Committed(p) ==
    {r \in Requests : PaymentOf[r] = p /\ promise[r] \in {"held", "paid"}}

Init ==
    /\ promise = [r \in Requests |-> "open"]
    /\ moved = [r \in Requests |-> FALSE]

Hold(r) ==
    /\ promise[r] = "open"
    /\ Total[Committed(PaymentOf[r]) \cup {r}] <= Captured[PaymentOf[r]]
    /\ promise' = [promise EXCEPT ![r] = "held"]
    /\ moved' = moved

\* The gateway takes the money, or gives up on a refund it had taken.
Move(r) ==
    /\ promise[r] = "held"
    /\ moved' = [moved EXCEPT ![r] = ~@]
    /\ promise' = promise

Settle(r) ==
    /\ promise[r] = "held"
    /\ promise' = [promise EXCEPT ![r] = IF moved[r] THEN "paid" ELSE "returned"]
    /\ moved' = moved

Next == \E r \in Requests : Hold(r) \/ Move(r) \/ Settle(r)

Spec == Init /\ [][Next]_<<promise, moved>>
=============================================================================
