---------------------------- MODULE ReturnGuard ----------------------------
(***************************************************************************)
(* The whole service: the cases of CaseWorkflow and the money path of      *)
(* RefundExecution on one refund_cases table, one payment_snapshots table  *)
(* and the same processes.  A process runs one handler at a time, of       *)
(* either kind, and a crash ends it and may bring back another bundle.     *)
(***************************************************************************)
EXTENDS Integers

CONSTANTS Requests, Workers, Tickets, NoRequest, NoTicket, MaxCrashes,
          Payments, PaymentOf, AmountOf, Total, Captured, Uploads,
          AuthoritativeBalance, RequiresWebhook, LosesReplies, MaxAborts

ASSUME NothingAssumption == NoRequest \notin Requests /\ NoTicket \notin Tickets
ASSUME CrashAssumption == MaxCrashes \in Nat

VARIABLES caseState,
          integrity, stageA, posterior, verification, rulings, audit, healthy, job, crashes,
          snapshot, ledger, attached, execution, webhookSeen,
          gatewayRefund, dispatches, lost, task, aborts

flowVars == <<integrity, stageA, posterior, verification, rulings, audit, healthy, job, crashes>>
moneyVars == <<snapshot, ledger, attached, execution, webhookSeen,
               gatewayRefund, dispatches, lost, task, aborts>>
vars == <<caseState, flowVars, moneyVars>>

Flow == INSTANCE CaseWorkflow
Money == INSTANCE RefundExecution

ASSUME MoneyAssumption ==
    /\ Money!AmountAssumption /\ Money!TotalAssumption
    /\ Money!GatewayAssumption /\ Money!BoundAssumption

Init == Flow!Init /\ Money!Init

\* The two ends where the halves meet: a snapshot may come with the case, and
\* score asks the recorded balance.
RegisterCase(w, r) == Flow!Register(w, r) /\ Money!Register(w, r)
ScoreCase(w, r) == Flow!ScoreBegin(w, r, Money!Eligible(r)) /\ UNCHANGED moneyVars

CaseStep(w) ==
    /\ Money!At(w, "idle")
    /\ \/ \E r \in Requests : RegisterCase(w, r) \/ ScoreCase(w, r)
       \/ (Flow!Review(w) \/ Flow!Continue(w)) /\ UNCHANGED moneyVars

RefundStep(w) ==
    /\ Flow!Free(w)
    /\ \/ \E r \in Requests :
            Money!ExecuteBegin(w, r) \/ \E e \in Money!EventTypes : Money!WebhookBegin(w, r, e)
       \/ Money!ExecuteStep(w) \/ Money!WebhookStep(w)
    /\ UNCHANGED flowVars

Crash(w) ==
    /\ Flow!Restart(w)
    /\ IF Money!At(w, "idle") THEN UNCHANGED moneyVars ELSE Money!Abort(w)

Gateway == \E r \in Requests : Money!GatewayResolves(r) /\ UNCHANGED flowVars

Next == (\E w \in Workers : CaseStep(w) \/ RefundStep(w) \/ Crash(w)) \/ Gateway

Spec == Init /\ [][Next]_vars

-----------------------------------------------------------------------------
(* Properties.                                                              *)

ApprovalOnRecord(r) ==
    \/ "AUTO_APPROVE" \in {stageA[r], posterior[r]}
    \/ "APPROVED" \in rulings[r]

\* Nothing reaches the gateway without an approving decision committed before
\* it, whatever stale steps of other handlers write into the state column
\* execute looks at.
MoneyNeedsApproval ==
    \A r \in Requests : dispatches[r] > 0 => ApprovalOnRecord(r)

\* POLICY_CARD.md: what was ineligible, sent to review or inconsistent needs a
\* named human, up to the call of the gateway and with any crash on the way.
HumanBeforeMoney ==
    \A r \in Requests :
        /\ dispatches[r] > 0
        /\ \/ integrity[r] = "ineligible"
           \/ stageA[r] = "MANUAL_REVIEW"
           \/ \E t \in Flow!TicketsOf(r) : verification[t].result = "inconsistent"
        => "APPROVED" \in rulings[r]

\* README: duplicate-effect prevention, now with every way a case can be
\* approved, again after a refund included.
AtMostOneDispatch == Money!AtMostOneDispatch

\* ARCHITECTURE.md: "Bundle/hash/schema failures degrade health and block
\* money movement": no request is sent to the gateway by a process without a
\* trusted bundle.
UnhealthyMovesNoMoney ==
    [][\A w \in Workers : \A r \in Requests :
         ~healthy[w] /\ task[w].request = r => dispatches'[r] = dispatches[r]]_vars

\* A refunded case is never taken up again, for one process: an execute that
\* died before it recorded anything leaves the closing to the webhook, and then
\* no second execute, late event, operator, customer or scoring moves the case,
\* though set_state looks at no state and execute finds no execution to return.
RefundedStaysRefunded ==
    [][\A r \in Requests : caseState[r] = "REFUNDED" => caseState'[r] = "REFUNDED"]_vars

\* RefundExecution models approval as one step: the system refines it.  Every
\* state before an approval is RECEIVED there, the failed-safe end of an
\* unscored case included.
RefundState(r) ==
    IF \/ caseState[r] \in Flow!Approved \cup Flow!MoneyStates
       \/ caseState[r] = "FAILED_SAFE" /\ ApprovalOnRecord(r)
      THEN caseState[r]
    ELSE IF caseState[r] = "ABSENT" THEN "ABSENT" ELSE "RECEIVED"

Refund == INSTANCE RefundExecution
            WITH caseState <- [r \in Requests |-> RefundState(r)]

\* What RefundExecution shows of the money path holds of the whole service.
ImplementsRefundExecution == Refund!Spec
=============================================================================
