-------------------------- MODULE RefundExecution --------------------------
(***************************************************************************)
(* The money path of ReturnGuard: POST .../execute                         *)
(* (ReturnGuardService.execute), the signed webhook                        *)
(* (api.razorpay_webhook, ReturnGuardService.reconcile_refund_webhook),    *)
(* the SQLite tables they share and the refund gateway behind them.        *)
(*                                                                         *)
(* Every repository call commits on its own, so a handler is a sequence of *)
(* atomic steps.  Workers are the server processes: one Worker is the      *)
(* deployed service (scripts/run_api.py starts a single event loop and no  *)
(* handler awaits between two repository calls, so its handlers never      *)
(* interleave); several Workers are several processes on one database, as  *)
(* in tests/unit/test_payment_integrity.py.  Abort(w) is a handler that    *)
(* ends between two steps: a crash, or an exception nothing catches.       *)
(* The audit events of this path are appended and never read back by it;   *)
(* they are left out.                                                      *)
(***************************************************************************)
EXTENDS Integers

CONSTANTS
    Requests,             \* refund_request_id
    Payments,             \* payment_id
    Workers,              \* processes running the API
    NoRequest,            \* the request of an idle worker
    PaymentOf,            \* the payment a request refunds
    AmountOf,             \* requested_amount_paise
    Total,                \* SUM(amount_paise) over a set of requests
    Captured,             \* what the gateway captured for a payment
    Uploads,              \* snapshots a client may send with a new case
    AuthoritativeBalance, \* gateway.authoritative_balance
    RequiresWebhook,      \* gateway.requires_webhook_confirmation
    LosesReplies,         \* the gateway is across a network: a reply may not come back
    MaxAborts             \* bound: handlers cut short

\* A row of payment_snapshots: does it pass the identity, status and
\* currency checks of evaluate_payment_integrity, and what is left of it.
Snapshot == [valid : BOOLEAN, refundable : Nat]

ASSUME WorkersAssumption == NoRequest \notin Requests
ASSUME AmountAssumption ==
    /\ PaymentOf \in [Requests -> Payments]
    /\ AmountOf \in [Requests -> Nat \ {0}]
    /\ Captured \in [Payments -> Nat]
    /\ Uploads \subseteq Snapshot
\* What makes Total a sum: it is defined on every set of requests, agrees with
\* AmountOf on one request and adds up over disjoint sets.
ASSUME TotalAssumption ==
    /\ Total \in [SUBSET Requests -> Nat]
    /\ \A r \in Requests : Total[{r}] = AmountOf[r]
    /\ \A S, T \in SUBSET Requests :
         S \cap T = {} => Total[S \cup T] = Total[S] + Total[T]
ASSUME GatewayAssumption ==
    /\ AuthoritativeBalance \in BOOLEAN
    /\ RequiresWebhook \in BOOLEAN
    /\ LosesReplies \in BOOLEAN
ASSUME BoundAssumption == MaxAborts \in Nat

VARIABLES
    caseState,      \* refund_cases.state
    snapshot,       \* payment_snapshots
    ledger,         \* refund_ledger.status, "none" when there is no row
    attached,       \* refund_ledger.razorpay_refund_id is not NULL
    execution,      \* executions.status, "none" when there is no row
    webhookSeen,    \* webhook_events: the events already recorded
    gatewayRefund,  \* the refund as the gateway knows it
    dispatches,     \* history: calls of gateway.refund made for a request
    lost,           \* history: requests whose refund was taken and whose reply was lost
    task,           \* what each worker is doing
    aborts          \* what MaxAborts bounds

dbVars == <<caseState, snapshot, ledger, attached, execution, webhookSeen>>
gatewayVars == <<gatewayRefund, dispatches, lost>>
vars == <<dbVars, gatewayVars, task, aborts>>

CaseStates == {"ABSENT", "RECEIVED", "AUTO_APPROVE", "APPROVED",
               "REFUND_PROCESSING", "REFUNDED", "FAILED_SAFE"}
Approved == {"AUTO_APPROVE", "APPROVED"}
ActiveStatuses == {"reserved", "processing"}
TerminalStatuses == {"succeeded", "failed"}
EventTypes == {"refund.created", "refund.processed", "refund.failed"}

\* The steps of execute up to its last one, of the two failure tails, and of
\* the webhook handler.
ExecuteSteps == {"refresh", "store", "check", "reserve", "mark", "announce",
                 "refund", "attach", "finalize", "record", "publish"}
FailureSteps == {"release", "failSafe"}
WebhookSteps == {"lookup", "settle", "update", "close"}
Steps == {"idle"} \cup ExecuteSteps \cup FailureSteps \cup WebhookSteps

Idle == [step |-> "idle", request |-> NoRequest,
         event |-> "refund.created", reading |-> 0]
Tasks == [step : Steps, request : Requests \cup {NoRequest},
          event : EventTypes, reading : Nat]

TypeOK ==
    /\ caseState \in [Requests -> CaseStates]
    /\ snapshot \in [Payments -> Snapshot]
    /\ ledger \in [Requests -> {"none"} \cup ActiveStatuses \cup TerminalStatuses]
    /\ attached \in [Requests -> BOOLEAN]
    /\ execution \in [Requests -> {"none", "REFUND_PROCESSING", "REFUNDED", "FAILED_SAFE"}]
    /\ webhookSeen \subseteq Requests \X EventTypes
    /\ gatewayRefund \in [Requests -> {"none", "pending", "processed", "failed"}]
    /\ dispatches \in [Requests -> Nat]
    /\ task \in [Workers -> Tasks]
    /\ \A w \in Workers : task[w].step # "idle" => task[w].request \in Requests
    /\ lost \subseteq Requests
    /\ aborts \in 0 .. MaxAborts

-----------------------------------------------------------------------------
(* Reading the tables and the gateway.                                      *)

RequestsOf(p) == {r \in Requests : PaymentOf[r] = p}
Balance(r) == snapshot[PaymentOf[r]].refundable

\* evaluate_payment_integrity: a missing row, a mismatch and a status other
\* than captured are not valid.  It also refuses an amount that is not
\* positive, before anything is reserved: the API takes such a request, but it
\* moves no money and is no member of Requests.
Eligible(r) ==
    /\ snapshot[PaymentOf[r]].valid
    /\ AmountOf[r] <= Balance(r)

ActiveOf(p) == {r \in RequestsOf(p) : ledger[r] \in ActiveStatuses}

\* What the gateway has left of payment p when it counts the refunds rs.
Remaining(p, rs) == Captured[p] - Total[rs]
AcceptedBy(p) == {r \in RequestsOf(p) : gatewayRefund[r] \in {"pending", "processed"}}
PendingAt(p) == {r \in RequestsOf(p) : gatewayRefund[r] = "pending"}

-----------------------------------------------------------------------------
(* Moving a worker along its handler.                                       *)

At(w, s) == task[w].step = s
Goto(w, s) == task' = [task EXCEPT ![w].step = s]
Return(w) == task' = [task EXCEPT ![w] = Idle]
Begin(w, s, r, e) ==
    /\ At(w, "idle")
    /\ task' = [task EXCEPT ![w] = [step |-> s, request |-> r, event |-> e, reading |-> 0]]
SetState(w, s) == caseState' = [caseState EXCEPT ![task[w].request] = s]

Init ==
    /\ caseState = [r \in Requests |-> "ABSENT"]
    /\ \E known \in SUBSET Payments :
         snapshot = [p \in Payments |-> IF p \in known
                                        THEN [valid |-> TRUE, refundable |-> Captured[p]]
                                        ELSE [valid |-> FALSE, refundable |-> 0]]
    /\ ledger = [r \in Requests |-> "none"]
    /\ attached = [r \in Requests |-> FALSE]
    /\ execution = [r \in Requests |-> "none"]
    /\ webhookSeen = {}
    /\ gatewayRefund = [r \in Requests |-> "none"]
    /\ dispatches = [r \in Requests |-> 0]
    /\ lost = {}
    /\ task = [w \in Workers |-> Idle]
    /\ aborts = 0

-----------------------------------------------------------------------------
(* How a request gets here: registration and approval.                      *)

\* register_case, with or without a client snapshot to upsert: two commits in
\* one step.  Between them the uploaded balance is there and the case is not;
\* without uploads, as in every run and in every theorem about balances, there
\* is one commit only.
Register(w, r) ==
    /\ At(w, "idle")
    /\ caseState[r] = "ABSENT"
    /\ caseState' = [caseState EXCEPT ![r] = "RECEIVED"]
    /\ \/ snapshot' = snapshot
       \/ \E s \in Uploads : snapshot' = [snapshot EXCEPT ![PaymentOf[r]] = s]
    /\ UNCHANGED <<ledger, attached, execution, webhookSeen, gatewayVars, task, aborts>>

\* score or complete_verification approves.  The balance it was judged by may
\* be long gone: CaseWorkflow has the steps in between.
AutoApproves(w, r) ==
    /\ At(w, "idle")
    /\ caseState[r] = "RECEIVED"
    /\ caseState' = [caseState EXCEPT ![r] = "AUTO_APPROVE"]
    /\ UNCHANGED <<snapshot, ledger, attached, execution, webhookSeen, gatewayVars, task, aborts>>

\* operator_decision: a named operator approves what went to review.
OperatorApproves(w, r) ==
    /\ At(w, "idle")
    /\ caseState[r] = "RECEIVED"
    /\ caseState' = [caseState EXCEPT ![r] = "APPROVED"]
    /\ UNCHANGED <<snapshot, ledger, attached, execution, webhookSeen, gatewayVars, task, aborts>>

-----------------------------------------------------------------------------
(* POST /refund-requests/{id}/execute.                                      *)

\* Mutant: execute without the approval guard.
ExecuteBeginUnapproved(w, r) ==
    /\ execution[r] = "none"
    /\ caseState[r] # "ABSENT"
    /\ Begin(w, IF AuthoritativeBalance THEN "refresh" ELSE "check", r, "refund.created")
    /\ UNCHANGED <<dbVars, gatewayVars, aborts>>

ExecuteBegin(w, r) ==
    /\ execution[r] = "none"
    /\ caseState[r] \in Approved
    /\ Begin(w, IF AuthoritativeBalance THEN "refresh" ELSE "check", r, "refund.created")
    /\ UNCHANGED <<dbVars, gatewayVars, aborts>>

\* gateway.payment_snapshot: whether amount_refunded already counts a refund
\* the gateway has accepted but not processed is the gateway's affair.
Refresh(w) ==
    /\ At(w, "refresh")
    /\ LET p == PaymentOf[task[w].request] IN
       \E counted \in SUBSET PendingAt(p), b \in 0 .. Captured[p] :
          /\ b = Remaining(p, (AcceptedBy(p) \ PendingAt(p)) \cup counted)
          /\ task' = [task EXCEPT ![w].step = "store", ![w].reading = b]
    /\ UNCHANGED <<dbVars, gatewayVars, aborts>>

RefreshFails(w) ==
    /\ At(w, "refresh")
    /\ Goto(w, "failSafe")
    /\ UNCHANGED <<dbVars, gatewayVars, aborts>>

\* upsert_payment_snapshot with what the gateway answered: the balance, and a
\* status and currency of the gateway's own, which may no longer be valid.
Store(w) ==
    /\ At(w, "store")
    /\ \E v \in BOOLEAN :
          snapshot' = [snapshot EXCEPT ![PaymentOf[task[w].request]] =
                         [valid |-> v, refundable |-> task[w].reading]]
    /\ task' = [task EXCEPT ![w].step = "check", ![w].reading = 0]
    /\ UNCHANGED <<caseState, ledger, attached, execution, webhookSeen, gatewayVars, aborts>>

Check(w) ==
    /\ At(w, "check")
    /\ IF Eligible(task[w].request) THEN Goto(w, "reserve") ELSE Return(w)
    /\ UNCHANGED <<dbVars, gatewayVars, aborts>>

\* Mutants of reserve_refund: it forgets the other reservations, counts only
\* those not yet dispatched, or takes a failed row for a fresh start.
CanReserveAlone(r) == ledger[r] = "none" /\ AmountOf[r] <= Balance(r)
CanReserveUndispatched(r) ==
    /\ ledger[r] = "none"
    /\ AmountOf[r] <= Balance(r)
         - Total[{q \in ActiveOf(PaymentOf[r]) : ledger[q] = "reserved"}]
CanReserveAgain(r) ==
    /\ ledger[r] \in {"none", "failed"}
    /\ AmountOf[r] <= Balance(r) - Total[ActiveOf(PaymentOf[r])]

\* reserve_refund: the UNIQUE request and key, then the balance less the
\* other active reservations, in one immediate transaction.
CanReserve(r) ==
    /\ ledger[r] = "none"
    /\ AmountOf[r] <= Balance(r) - Total[ActiveOf(PaymentOf[r])]

Reserve(w) ==
    /\ At(w, "reserve")
    /\ LET r == task[w].request IN
       IF CanReserve(r)
         THEN ledger' = [ledger EXCEPT ![r] = "reserved"] /\ Goto(w, "mark")
         ELSE ledger' = ledger /\ Return(w)
    /\ UNCHANGED <<caseState, snapshot, attached, execution, webhookSeen, gatewayVars, aborts>>

\* mark_refund_processing.
Mark(w) ==
    /\ At(w, "mark")
    /\ LET r == task[w].request IN
       ledger' = [ledger EXCEPT ![r] = IF @ = "reserved" THEN "processing" ELSE @]
    /\ Goto(w, "announce")
    /\ UNCHANGED <<caseState, snapshot, attached, execution, webhookSeen, gatewayVars, aborts>>

Announce(w) ==
    /\ At(w, "announce")
    /\ SetState(w, "REFUND_PROCESSING")
    /\ Goto(w, "refund")
    /\ UNCHANGED <<snapshot, ledger, attached, execution, webhookSeen, gatewayVars, aborts>>

\* The gateway takes the refund.  The idempotency key is a hash of the
\* request, so a repeated key has no second effect; Razorpay refuses more
\* than is left of the payment, the mock adapter refuses nothing.
GatewayTakes(r) ==
    /\ AuthoritativeBalance =>
         AmountOf[r] <= Remaining(PaymentOf[r], AcceptedBy(PaymentOf[r]) \ {r})
    /\ gatewayRefund' = [gatewayRefund EXCEPT ![r] =
         IF @ # "none" THEN @ ELSE IF RequiresWebhook THEN "pending" ELSE "processed"]

CountDispatch(w) ==
    dispatches' = [dispatches EXCEPT ![task[w].request] = @ + 1]

\* Mutant: a refund the gateway only reports as pending is taken for refused.
RefundAcceptedAsRefused(w) ==
    /\ At(w, "refund")
    /\ GatewayTakes(task[w].request)
    /\ CountDispatch(w)
    /\ Goto(w, "release")
    /\ UNCHANGED <<dbVars, aborts, lost>>

RefundAccepted(w) ==
    /\ At(w, "refund")
    /\ GatewayTakes(task[w].request)
    /\ CountDispatch(w)
    /\ Goto(w, "attach")
    /\ UNCHANGED <<dbVars, aborts, lost>>

\* gateway.refund raises: the gateway refused, was unreachable, or took the
\* refund and its reply never came back: execute cannot tell which.
RefundRejected(w) ==
    /\ At(w, "refund")
    /\ CountDispatch(w)
    /\ Goto(w, "release")
    /\ UNCHANGED <<dbVars, gatewayRefund, aborts, lost>>

RefundReplyLost(w) ==
    /\ At(w, "refund")
    /\ LosesReplies
    /\ lost' = lost \cup {task[w].request}
    /\ GatewayTakes(task[w].request)
    /\ CountDispatch(w)
    /\ Goto(w, "release")
    /\ UNCHANGED <<dbVars, aborts>>

\* Mutant: only a row that was never dispatched is released.
ReleaseRowUndispatched(r) ==
    ledger' = [ledger EXCEPT ![r] = IF @ = "reserved" THEN "failed" ELSE @]

\* release_refund, then FAILED_SAFE.  The same last step ends a refresh that
\* failed.
ReleaseRow(r) ==
    ledger' = [ledger EXCEPT ![r] = IF @ \in ActiveStatuses THEN "failed" ELSE @]

Release(w) ==
    /\ At(w, "release")
    /\ ReleaseRow(task[w].request)
    /\ Goto(w, "failSafe")
    /\ UNCHANGED <<caseState, snapshot, attached, execution, webhookSeen, gatewayVars, aborts>>

FailSafe(w) ==
    /\ At(w, "failSafe")
    /\ SetState(w, "FAILED_SAFE")
    /\ Return(w)
    /\ UNCHANGED <<snapshot, ledger, attached, execution, webhookSeen, gatewayVars, aborts>>

\* attach_gateway_refund raises unless the row is processing and unlinked.
Attach(w) ==
    /\ At(w, "attach")
    /\ LET r == task[w].request IN
       IF ledger[r] = "processing" /\ ~attached[r]
         THEN /\ attached' = [attached EXCEPT ![r] = TRUE]
              /\ Goto(w, IF RequiresWebhook THEN "record" ELSE "finalize")
         ELSE attached' = attached /\ Return(w)
    /\ UNCHANGED <<caseState, snapshot, ledger, execution, webhookSeen, gatewayVars, aborts>>

\* Mutant: the balance is not looked at again.
CanFinalizeAnyBalance(r) == ledger[r] \in ActiveStatuses

\* finalize_refund: one transaction that needs an active row and a balance
\* that still covers it, moves both, and links the row to the refund.
CanFinalize(r) == ledger[r] \in ActiveStatuses /\ AmountOf[r] <= Balance(r)

FinalizeRow(r) ==
    /\ ledger' = [ledger EXCEPT ![r] = "succeeded"]
    /\ attached' = [attached EXCEPT ![r] = TRUE]
    /\ snapshot' = [snapshot EXCEPT ![PaymentOf[r]].refundable = @ - AmountOf[r]]

Finalize(w) ==
    /\ At(w, "finalize")
    /\ LET r == task[w].request IN
       IF CanFinalize(r)
         THEN FinalizeRow(r) /\ Goto(w, "record")
         ELSE UNCHANGED <<ledger, attached, snapshot>> /\ Return(w)
    /\ UNCHANGED <<caseState, execution, webhookSeen, gatewayVars, aborts>>

\* Mutant: a dispatch is reported as a refund whatever the gateway promises.
DispatchStatusFinal == "REFUNDED"

DispatchStatus == IF RequiresWebhook THEN "REFUND_PROCESSING" ELSE "REFUNDED"

\* add_execution: the request is the primary key.
Record(w) ==
    /\ At(w, "record")
    /\ LET r == task[w].request IN
       IF execution[r] = "none"
         THEN execution' = [execution EXCEPT ![r] = DispatchStatus] /\ Goto(w, "publish")
         ELSE execution' = execution /\ Return(w)
    /\ UNCHANGED <<caseState, snapshot, ledger, attached, webhookSeen, gatewayVars, aborts>>

Publish(w) ==
    /\ At(w, "publish")
    /\ SetState(w, DispatchStatus)
    /\ Return(w)
    /\ UNCHANGED <<snapshot, ledger, attached, execution, webhookSeen, gatewayVars, aborts>>

-----------------------------------------------------------------------------
(* The gateway and its webhooks.                                            *)

\* A pending refund is eventually processed or failed.
GatewayResolves(r) ==
    /\ gatewayRefund[r] = "pending"
    /\ \E s \in {"processed", "failed"} :
          gatewayRefund' = [gatewayRefund EXCEPT ![r] = s]
    /\ UNCHANGED <<dbVars, dispatches, lost, task, aborts>>

\* The events the gateway has signed for r.  It sends each one again until it
\* is acknowledged, in any order; a copy whose event_id is already recorded
\* changes nothing (DUPLICATE), so only the first delivery is a step.
Signed(r) ==
    CASE gatewayRefund[r] = "none"      -> {}
      [] gatewayRefund[r] = "pending"   -> {"refund.created"}
      [] gatewayRefund[r] = "processed" -> {"refund.created", "refund.processed"}
      [] gatewayRefund[r] = "failed"    -> {"refund.created", "refund.failed"}

\* record_webhook, which commits before the event is reconciled.
WebhookBegin(w, r, e) ==
    /\ RequiresWebhook
    /\ e \in Signed(r)
    /\ <<r, e>> \notin webhookSeen
    /\ Begin(w, "lookup", r, e)
    /\ webhookSeen' = webhookSeen \cup {<<r, e>>}
    /\ UNCHANGED <<caseState, snapshot, ledger, attached, execution, gatewayVars, aborts>>

\* reconcile_refund_webhook: an unknown gateway id is UNMATCHED, a settled row
\* and an event that settles nothing are left alone.
Lookup(w) ==
    /\ At(w, "lookup")
    /\ LET r == task[w].request IN
       IF /\ attached[r]
          /\ ledger[r] \notin TerminalStatuses
          /\ task[w].event # "refund.created"
         THEN Goto(w, "settle")
         ELSE Return(w)
    /\ UNCHANGED <<dbVars, gatewayVars, aborts>>

Settle(w) ==
    /\ At(w, "settle")
    /\ LET r == task[w].request IN
       IF task[w].event = "refund.failed"
         THEN ReleaseRow(r) /\ Goto(w, "update") /\ UNCHANGED <<attached, snapshot>>
       ELSE IF CanFinalize(r)
         THEN FinalizeRow(r) /\ Goto(w, "update")
         ELSE Return(w) /\ UNCHANGED <<ledger, attached, snapshot>>
    /\ UNCHANGED <<caseState, execution, webhookSeen, gatewayVars, aborts>>

SettledStatus(w) ==
    IF task[w].event = "refund.failed" THEN "FAILED_SAFE" ELSE "REFUNDED"

\* Mutant: update_execution_status is not called.
UpdateNothing(w) ==
    /\ At(w, "update")
    /\ Goto(w, "close")
    /\ UNCHANGED <<dbVars, gatewayVars, aborts>>

\* update_execution_status: an UPDATE that may match no row.
Update(w) ==
    /\ At(w, "update")
    /\ execution' = [execution EXCEPT ![task[w].request] =
                       IF @ = "none" THEN @ ELSE SettledStatus(w)]
    /\ Goto(w, "close")
    /\ UNCHANGED <<caseState, snapshot, ledger, attached, webhookSeen, gatewayVars, aborts>>

\* Mutant: the case is not moved when its refund is settled.
CloseSilently(w) ==
    /\ At(w, "close")
    /\ Return(w)
    /\ UNCHANGED <<dbVars, gatewayVars, aborts>>

Close(w) ==
    /\ At(w, "close")
    /\ SetState(w, SettledStatus(w))
    /\ Return(w)
    /\ UNCHANGED <<snapshot, ledger, attached, execution, webhookSeen, gatewayVars, aborts>>

-----------------------------------------------------------------------------
Abort(w) ==
    /\ ~At(w, "idle")
    /\ aborts < MaxAborts
    /\ aborts' = aborts + 1
    /\ Return(w)
    /\ UNCHANGED <<dbVars, gatewayVars>>

ExecuteStep(w) ==
    \/ Refresh(w) \/ RefreshFails(w) \/ Store(w) \/ Check(w)
    \/ Reserve(w) \/ Mark(w) \/ Announce(w)
    \/ RefundAccepted(w) \/ RefundRejected(w) \/ RefundReplyLost(w)
    \/ Release(w) \/ FailSafe(w)
    \/ Attach(w) \/ Finalize(w) \/ Record(w) \/ Publish(w)

WebhookStep(w) == Lookup(w) \/ Settle(w) \/ Update(w) \/ Close(w)

Next ==
    \/ \E w \in Workers, r \in Requests :
         \/ Register(w, r) \/ AutoApproves(w, r) \/ OperatorApproves(w, r)
         \/ ExecuteBegin(w, r)
         \/ \E e \in EventTypes : WebhookBegin(w, r, e)
    \/ \E w \in Workers : ExecuteStep(w) \/ WebhookStep(w) \/ Abort(w)
    \/ \E r \in Requests : GatewayResolves(r)

Spec == Init /\ [][Next]_vars

\* A handler that has started runs on (no step waits: the HTTP client gives
\* up after 15 s), the gateway resolves what it accepted, and the server gets
\* round to an event that is delivered again and again, whatever else it does.
Fairness ==
    /\ \A w \in Workers : WF_vars(ExecuteStep(w) \/ WebhookStep(w))
    /\ \A r \in Requests : WF_vars(GatewayResolves(r))
    /\ \A r \in Requests : \A e \in EventTypes :
         SF_vars(\E w \in Workers : WebhookBegin(w, r, e))

FairSpec == Spec /\ Fairness

-----------------------------------------------------------------------------
(* Properties.                                                              *)

\* No request is sent to the gateway twice, however execute is retried, cut
\* short or run by several processes at once: the refund_ledger row that
\* reserve_refund refuses to repeat outlives every outcome, the failed one
\* included (README: duplicate-effect prevention).
AtMostOneDispatch == \A r \in Requests : dispatches[r] <= 1

\* Whatever any of the three tables reports as a success, the gateway did
\* process: no crash, retry or event order invents a refund.
SuccessIsReal ==
    \A r \in Requests :
        \/ ledger[r] = "succeeded"
        \/ execution[r] = "REFUNDED"
        \/ caseState[r] = "REFUNDED"
        => gatewayRefund[r] = "processed"

\* The refunds the gateway holds never add up to more than it captured, with
\* an adapter that checks no balance itself: reserve_refund alone must see
\* to it.
NoOverRefund ==
    \A p \in Payments : Total[AcceptedBy(p)] <= Captured[p]

\* What is reserved on a payment is still there: the recorded balance covers
\* all active reservations together, so a dispatched refund can be finalized.
ReservationsAreCovered ==
    \A p \in Payments : Total[ActiveOf(p)] <= snapshot[p].refundable

\* A settled ledger row is never reopened: a failed request is not retried,
\* a succeeded one is not released (reserve_refund, finalize_refund and
\* release_refund all test the status they leave).
SettledStaysSettled ==
    [][\A r \in Requests :
         ledger[r] \in TerminalStatuses => ledger'[r] = ledger[r]]_vars

InHandler(r) == \E w \in Workers : task[w].request = r

\* Between handlers the case, its ledger row and its execution tell one
\* story, though three commits write them.
RecordsAgreeAtRest ==
    \A r \in Requests : ~InHandler(r) =>
        CASE ledger[r] = "none" -> /\ execution[r] = "none"
                                   /\ caseState[r] \notin {"REFUND_PROCESSING", "REFUNDED"}
          [] ledger[r] = "reserved" -> FALSE
          [] ledger[r] = "processing" -> /\ attached[r]
                                         /\ execution[r] = "REFUND_PROCESSING"
                                         /\ caseState[r] = "REFUND_PROCESSING"
          [] ledger[r] = "succeeded" -> execution[r] = "REFUNDED" /\ caseState[r] = "REFUNDED"
          [] ledger[r] = "failed" -> /\ execution[r] \in {"none", "FAILED_SAFE"}
                                     /\ caseState[r] = "FAILED_SAFE"

\* ARCHITECTURE.md: signed webhook reconciliation finalizes or releases
\* reservations.  Once the deciding event is recorded and its handler is
\* done, the reservation is settled the way the event says.
ReconciliationSettles ==
    \A r \in Requests : ~InHandler(r) =>
        /\ <<r, "refund.processed">> \in webhookSeen => ledger[r] = "succeeded"
        /\ <<r, "refund.failed">> \in webhookSeen => ledger[r] = "failed"

\* What the tables hold of a refund the gateway never answered for: the row it
\* was released from, linked to nothing, and a success nowhere (service.py:
\* "Refund gateway failed; no success was recorded").
NoSuccessRecorded(r) ==
    /\ ledger[r] \in {"processing", "failed"} /\ ~attached[r]
    /\ execution[r] = "none"
    /\ caseState[r] # "REFUNDED"

\* The money the gateway keeps stays reserved or paid in the ledger, wherever
\* execute dies after it.  There is one exception: a refund whose reply was
\* lost is released here though it is paid there (a timeout counts as a
\* failure), and then no late event, retry or other process reports a success.
TakenIsBooked ==
    \A r \in Requests : gatewayRefund[r] \in {"pending", "processed"} =>
        IF r \in lost THEN NoSuccessRecorded(r) ELSE ledger[r] \in {"processing", "succeeded"}

\* The ledger seen as an escrow: an active row is held, a settled one paid or
\* returned, and the money has moved once the gateway keeps the refund.
PromiseOf == [none |-> "open", reserved |-> "held", processing |-> "held",
              succeeded |-> "paid", failed |-> "returned"]
Promise == [r \in Requests |-> PromiseOf[ledger[r]]]
Taken == [r \in Requests |-> gatewayRefund[r] \in {"pending", "processed"}]

Escrow == INSTANCE RefundEscrow WITH promise <- Promise, moved <- Taken

\* Reservations promise what RefundEscrow says, through every interleaving
\* and crash, with a gateway that checks no balance and answers.
ImplementsEscrow == Escrow!Spec

\* Every refund the gateway takes ends in a final status the customer can
\* see, and in the right one.
AcceptedIsSettled ==
    \A r \in Requests :
        gatewayRefund[r] = "pending" ~>
            \/ gatewayRefund[r] = "processed" /\ ledger[r] = "succeeded"
                 /\ execution[r] = "REFUNDED" /\ caseState[r] = "REFUNDED"
            \/ gatewayRefund[r] = "failed" /\ ledger[r] = "failed"
                 /\ execution[r] = "FAILED_SAFE" /\ caseState[r] = "FAILED_SAFE"
=============================================================================
