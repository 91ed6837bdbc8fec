----------------------- MODULE RefundExecutionProofs -----------------------
(* Theorems about RefundExecution for every set of requests, payments and   *)
(* workers, every amount and every kind of gateway.                         *)
EXTENDS RefundExecution, TLAPS

(* TypeOK in two parts: the workers' tasks and everything else.             *)

TaskOK ==
    /\ task \in [Workers -> Tasks]
    /\ \A w \in Workers : task[w].step # "idle" => task[w].request \in Requests

TablesOK ==
    /\ caseState \in [Requests -> CaseStates]
    /\ snapshot \in [Payments -> Snapshot]
    /\ ledger \in [Requests -> {"none"} \cup ActiveStatuses \cup TerminalStatuses]
    /\ attached \in [Requests -> BOOLEAN]
    /\ execution \in [Requests -> {"none", "REFUND_PROCESSING", "REFUNDED", "FAILED_SAFE"}]
    /\ webhookSeen \subseteq Requests \X EventTypes
    /\ gatewayRefund \in [Requests -> {"none", "pending", "processed", "failed"}]
    /\ dispatches \in [Requests -> Nat]
    /\ lost \subseteq Requests
    /\ aborts \in 0 .. MaxAborts

LEMMA TypeParts == TypeOK <=> TaskOK /\ TablesOK
BY DEF TypeOK, TaskOK, TablesOK

LEMMA IdleIsTask == Idle \in Tasks
BY DEF Idle, Tasks, Steps, EventTypes

\* Moving a worker along, ending its handler and starting one keep every
\* task a task.
LEMMA GotoTyped ==
    ASSUME TaskOK, NEW w \in Workers, ~At(w, "idle"), NEW s \in Steps, Goto(w, s)
    PROVE  TaskOK'
BY DEF TaskOK, Tasks, Goto, At

LEMMA ReturnTyped ==
    ASSUME TaskOK, NEW w \in Workers, Return(w)
    PROVE  TaskOK'
<1>1. Idle.step = "idle"
  BY DEF Idle
<1> QED BY <1>1, IdleIsTask DEF TaskOK, Return

LEMMA BeginTyped ==
    ASSUME TaskOK, NEW w \in Workers, NEW s \in Steps, NEW r \in Requests,
           NEW e \in EventTypes, Begin(w, s, r, e)
    PROVE  TaskOK'
BY DEF TaskOK, Tasks, Begin

\* A worker in a handler works on a request.
LEMMA BusyOnRequest ==
    ASSUME TypeOK, NEW w \in Workers, ~At(w, "idle")
    PROVE  /\ task[w].request \in Requests
           /\ PaymentOf[task[w].request] \in Payments
           /\ AmountOf[task[w].request] \in Nat \ {0}
           /\ task[w].reading \in Nat
BY AmountAssumption DEF TypeOK, At, Tasks

\* A finalized row leaves a balance that is still a natural number.
LEMMA FinalizeTyped ==
    ASSUME TypeOK, NEW r \in Requests, CanFinalize(r), FinalizeRow(r)
    PROVE  /\ snapshot' \in [Payments -> Snapshot]
           /\ ledger' \in [Requests -> {"none"} \cup ActiveStatuses \cup TerminalStatuses]
           /\ attached' \in [Requests -> BOOLEAN]
<1> DEFINE p == PaymentOf[r]
<1>1. p \in Payments /\ AmountOf[r] \in Nat
  BY AmountAssumption
<1>2. snapshot[p] \in Snapshot
  BY <1>1 DEF TypeOK
<1>3. snapshot[p].refundable - AmountOf[r] \in Nat
  BY <1>1, <1>2 DEF CanFinalize, Balance, Snapshot
<1>4. [snapshot[p] EXCEPT !.refundable = @ - AmountOf[r]] \in Snapshot
  BY <1>2, <1>3 DEF Snapshot
<1>5. snapshot' = [snapshot EXCEPT ![p] = [snapshot[p] EXCEPT !.refundable = @ - AmountOf[r]]]
  BY <1>1 DEF FinalizeRow, TypeOK
<1>6. snapshot' \in [Payments -> Snapshot]
  BY <1>1, <1>4, <1>5 DEF TypeOK
<1> QED BY <1>6 DEF FinalizeRow, TypeOK, TerminalStatuses

LEMMA ExecuteStepTyped ==
    ASSUME TypeOK, NEW w \in Workers, ExecuteStep(w)
    PROVE  TypeOK'
<1> DEFINE r == task[w].request
<1>0. TaskOK /\ TablesOK
  BY TypeParts
<1> USE DEF ExecuteSteps, FailureSteps, Steps
<1>1. CASE Refresh(w)
  <2>1. ~At(w, "idle") /\ r \in Requests
    BY <1>1, BusyOnRequest DEF Refresh, At
  <2>2. TaskOK'
    <3>1. PICK b \in 0 .. Captured[PaymentOf[r]] :
             task' = [task EXCEPT ![w].step = "store", ![w].reading = b]
      BY <1>1 DEF Refresh
    <3>2. b \in Nat
      BY <2>1, AmountAssumption
    <3> QED BY <1>0, <2>1, <3>1, <3>2 DEF TaskOK, Tasks
  <2>3. TablesOK'
    BY <1>0, <1>1, <2>1 DEF Refresh, TablesOK, dbVars, gatewayVars
  <2> QED BY <2>2, <2>3 DEF TypeOK, TaskOK, TablesOK
<1>2. CASE RefreshFails(w)
  <2>1. ~At(w, "idle") /\ r \in Requests
    BY <1>2, BusyOnRequest DEF RefreshFails, At
  <2>2. TaskOK'
    BY <1>0, <1>2, <2>1, GotoTyped DEF RefreshFails
  <2>3. TablesOK'
    BY <1>0, <1>2, <2>1 DEF RefreshFails, TablesOK, dbVars, gatewayVars
  <2> QED BY <2>2, <2>3 DEF TypeOK, TaskOK, TablesOK
<1>3. CASE Store(w)
  <2>1. ~At(w, "idle") /\ r \in Requests
    BY <1>3, BusyOnRequest DEF Store, At
  <2>2. TaskOK'
    <3>1. task' = [task EXCEPT ![w].step = "check", ![w].reading = 0]
      BY <1>3 DEF Store
    <3> QED BY <1>0, <2>1, <3>1 DEF TaskOK, Tasks, At
  <2>3. TablesOK'
    <3>1. PICK v \in BOOLEAN :
             snapshot' = [snapshot EXCEPT ![PaymentOf[r]] = [valid |-> v, refundable |-> task[w].reading]]
      BY <1>3 DEF Store
    <3>2. [valid |-> v, refundable |-> task[w].reading] \in Snapshot
      BY <2>1, BusyOnRequest DEF Snapshot
    <3>3. snapshot' \in [Payments -> Snapshot]
      BY <1>0, <3>1, <3>2 DEF TablesOK
    <3> QED BY <1>0, <1>3, <3>3 DEF Store, TablesOK, dbVars, gatewayVars
  <2> QED BY <2>2, <2>3 DEF TypeOK, TaskOK, TablesOK
<1>4. CASE Check(w)
  <2>1. ~At(w, "idle") /\ r \in Requests
    BY <1>4, BusyOnRequest DEF Check, At
  <2>2. TaskOK'
    BY <1>0, <1>4, <2>1, GotoTyped, ReturnTyped DEF Check
  <2>3. TablesOK'
    BY <1>0, <1>4, <2>1 DEF Check, TablesOK, dbVars, gatewayVars
  <2> QED BY <2>2, <2>3 DEF TypeOK, TaskOK, TablesOK
<1>5. CASE Reserve(w)
  <2>1. ~At(w, "idle") /\ r \in Requests
    BY <1>5, BusyOnRequest DEF Reserve, At
  <2>2. TaskOK'
    BY <1>0, <1>5, <2>1, GotoTyped, ReturnTyped DEF Reserve
  <2>3. TablesOK'
    BY <1>0, <1>5, <2>1 DEF Reserve, TablesOK, dbVars, gatewayVars, ActiveStatuses
  <2> QED BY <2>2, <2>3 DEF TypeOK, TaskOK, TablesOK
<1>6. CASE Mark(w)
  <2>1. ~At(w, "idle") /\ r \in Requests
    BY <1>6, BusyOnRequest DEF Mark, At
  <2>2. TaskOK'
    BY <1>0, <1>6, <2>1, GotoTyped DEF Mark
  <2>3. TablesOK'
    BY <1>0, <1>6, <2>1 DEF Mark, TablesOK, dbVars, gatewayVars, ActiveStatuses
  <2> QED BY <2>2, <2>3 DEF TypeOK, TaskOK, TablesOK
<1>7. CASE Announce(w)
  <2>1. ~At(w, "idle") /\ r \in Requests
    BY <1>7, BusyOnRequest DEF Announce, At
  <2>2. TaskOK'
    BY <1>0, <1>7, <2>1, GotoTyped DEF Announce
  <2>3. TablesOK'
    BY <1>0, <1>7, <2>1 DEF Announce, TablesOK, dbVars, gatewayVars, SetState, CaseStates
  <2> QED BY <2>2, <2>3 DEF TypeOK, TaskOK, TablesOK
<1>8. CASE RefundAccepted(w)
  <2>1. ~At(w, "idle") /\ r \in Requests
    BY <1>8, BusyOnRequest DEF RefundAccepted, At
  <2>2. TaskOK'
    BY <1>0, <1>8, <2>1, GotoTyped DEF RefundAccepted
  <2>3. TablesOK'
    BY <1>0, <1>8, <2>1 DEF RefundAccepted, TablesOK, dbVars, gatewayVars, GatewayTakes, CountDispatch
  <2> QED BY <2>2, <2>3 DEF TypeOK, TaskOK, TablesOK
<1>9. CASE RefundRejected(w)
  <2>1. ~At(w, "idle") /\ r \in Requests
    BY <1>9, BusyOnRequest DEF RefundRejected, At
  <2>2. TaskOK'
    BY <1>0, <1>9, <2>1, GotoTyped DEF RefundRejected
  <2>3. TablesOK'
    BY <1>0, <1>9, <2>1 DEF RefundRejected, TablesOK, dbVars, gatewayVars, CountDispatch
  <2> QED BY <2>2, <2>3 DEF TypeOK, TaskOK, TablesOK
<1>10. CASE RefundReplyLost(w)
  <2>1. ~At(w, "idle") /\ r \in Requests
    BY <1>10, BusyOnRequest DEF RefundReplyLost, At
  <2>2. TaskOK'
    BY <1>0, <1>10, <2>1, GotoTyped DEF RefundReplyLost
  <2>3. TablesOK'
    BY <1>0, <1>10, <2>1 DEF RefundReplyLost, TablesOK, dbVars, gatewayVars, GatewayTakes, CountDispatch
  <2> QED BY <2>2, <2>3 DEF TypeOK, TaskOK, TablesOK
<1>11. CASE Release(w)
  <2>1. ~At(w, "idle") /\ r \in Requests
    BY <1>11, BusyOnRequest DEF Release, At
  <2>2. TaskOK'
    BY <1>0, <1>11, <2>1, GotoTyped DEF Release
  <2>3. TablesOK'
    BY <1>0, <1>11, <2>1 DEF Release, TablesOK, dbVars, gatewayVars, ReleaseRow, TerminalStatuses
  <2> QED BY <2>2, <2>3 DEF TypeOK, TaskOK, TablesOK
<1>12. CASE FailSafe(w)
  <2>1. ~At(w, "idle") /\ r \in Requests
    BY <1>12, BusyOnRequest DEF FailSafe, At
  <2>2. TaskOK'
    BY <1>0, <1>12, <2>1, ReturnTyped DEF FailSafe
  <2>3. TablesOK'
    BY <1>0, <1>12, <2>1 DEF FailSafe, TablesOK, dbVars, gatewayVars, SetState, CaseStates
  <2> QED BY <2>2, <2>3 DEF TypeOK, TaskOK, TablesOK
<1>13. CASE Attach(w)
  <2>1. ~At(w, "idle") /\ r \in Requests
    BY <1>13, BusyOnRequest DEF Attach, At
  <2>2. TaskOK'
    BY <1>0, <1>13, <2>1, GotoTyped, ReturnTyped DEF Attach
  <2>3. TablesOK'
    BY <1>0, <1>13, <2>1 DEF Attach, TablesOK, dbVars, gatewayVars
  <2> QED BY <2>2, <2>3 DEF TypeOK, TaskOK, TablesOK
<1>14. CASE Finalize(w)
  <2>1. ~At(w, "idle") /\ r \in Requests
    BY <1>14, BusyOnRequest DEF Finalize, At
  <2>2. TaskOK'
    BY <1>0, <1>14, <2>1, GotoTyped, ReturnTyped DEF Finalize
  <2>3. CASE CanFinalize(r)
    <3>1. FinalizeRow(r)
      BY <1>14, <2>3 DEF Finalize
    <3>2. TablesOK'
      BY <1>0, <1>14, <2>1, <2>3, <3>1, FinalizeTyped DEF Finalize, TablesOK, gatewayVars
    <3> QED BY <2>2, <3>2 DEF TypeOK, TaskOK, TablesOK
  <2>4. CASE ~CanFinalize(r)
    <3>1. TablesOK'
      BY <1>0, <1>14, <2>4 DEF Finalize, TablesOK, gatewayVars
    <3> QED BY <2>2, <3>1 DEF TypeOK, TaskOK, TablesOK
  <2> QED BY <2>3, <2>4
<1>15. CASE Record(w)
  <2>1. ~At(w, "idle") /\ r \in Requests
    BY <1>15, BusyOnRequest DEF Record, At
  <2>2. TaskOK'
    BY <1>0, <1>15, <2>1, GotoTyped, ReturnTyped DEF Record
  <2>3. TablesOK'
    BY <1>0, <1>15, <2>1 DEF Record, TablesOK, dbVars, gatewayVars, DispatchStatus
  <2> QED BY <2>2, <2>3 DEF TypeOK, TaskOK, TablesOK
<1>16. CASE Publish(w)
  <2>1. ~At(w, "idle") /\ r \in Requests
    BY <1>16, BusyOnRequest DEF Publish, At
  <2>2. TaskOK'
    BY <1>0, <1>16, <2>1, ReturnTyped DEF Publish
  <2>3. TablesOK'
    BY <1>0, <1>16, <2>1 DEF Publish, TablesOK, dbVars, gatewayVars, SetState, CaseStates, DispatchStatus
  <2> QED BY <2>2, <2>3 DEF TypeOK, TaskOK, TablesOK
<1> QED BY <1>1, <1>2, <1>3, <1>4, <1>5, <1>6, <1>7, <1>8, <1>9, <1>10, <1>11, <1>12, <1>13, <1>14, <1>15, <1>16 DEF ExecuteStep

LEMMA WebhookStepTyped ==
    ASSUME TypeOK, NEW w \in Workers, WebhookStep(w)
    PROVE  TypeOK'
<1> DEFINE r == task[w].request
<1>0. TaskOK /\ TablesOK
  BY TypeParts
<1> USE DEF WebhookSteps, Steps
<1>1. CASE Lookup(w)
  <2>1. ~At(w, "idle") /\ r \in Requests
    BY <1>1, BusyOnRequest DEF Lookup, At
  <2>2. TaskOK'
    BY <1>0, <1>1, <2>1, GotoTyped, ReturnTyped DEF Lookup
  <2>3. TablesOK'
    BY <1>0, <1>1, <2>1 DEF Lookup, TablesOK, dbVars, gatewayVars
  <2> QED BY <2>2, <2>3 DEF TypeOK, TaskOK, TablesOK
<1>2. CASE Settle(w)
  <2>1. ~At(w, "idle") /\ r \in Requests
    BY <1>2, BusyOnRequest DEF Settle, At
  <2>2. TaskOK'
    BY <1>0, <1>2, <2>1, GotoTyped, ReturnTyped DEF Settle
  <2>3. CASE task[w].event = "refund.failed"
    <3>1. TablesOK'
      BY <1>0, <1>2, <2>1, <2>3 DEF Settle, ReleaseRow, TablesOK, gatewayVars, TerminalStatuses
    <3> QED BY <2>2, <3>1 DEF TypeOK, TaskOK, TablesOK
  <2>4. CASE task[w].event # "refund.failed" /\ CanFinalize(r)
    <3>1. FinalizeRow(r)
      BY <1>2, <2>4 DEF Settle
    <3>2. TablesOK'
      BY <1>0, <1>2, <2>1, <2>4, <3>1, FinalizeTyped DEF Settle, TablesOK, gatewayVars
    <3> QED BY <2>2, <3>2 DEF TypeOK, TaskOK, TablesOK
  <2>5. CASE task[w].event # "refund.failed" /\ ~CanFinalize(r)
    <3>1. TablesOK'
      BY <1>0, <1>2, <2>5 DEF Settle, TablesOK, gatewayVars
    <3> QED BY <2>2, <3>1 DEF TypeOK, TaskOK, TablesOK
  <2> QED BY <2>3, <2>4, <2>5
<1>3. CASE Update(w)
  <2>1. ~At(w, "idle") /\ r \in Requests
    BY <1>3, BusyOnRequest DEF Update, At
  <2>2. TaskOK'
    BY <1>0, <1>3, <2>1, GotoTyped DEF Update
  <2>3. TablesOK'
    BY <1>0, <1>3, <2>1 DEF Update, SettledStatus, TablesOK, gatewayVars
  <2> QED BY <2>2, <2>3 DEF TypeOK, TaskOK, TablesOK
<1>4. CASE Close(w)
  <2>1. ~At(w, "idle") /\ r \in Requests
    BY <1>4, BusyOnRequest DEF Close, At
  <2>2. TaskOK'
    BY <1>0, <1>4, <2>1, ReturnTyped DEF Close
  <2>3. TablesOK'
    BY <1>0, <1>4, <2>1 DEF Close, SetState, SettledStatus, CaseStates, TablesOK, gatewayVars
  <2> QED BY <2>2, <2>3 DEF TypeOK, TaskOK, TablesOK
<1> QED BY <1>1, <1>2, <1>3, <1>4 DEF WebhookStep

\* The steps that start a handler, and the ones taken outside any.
LEMMA EntryTyped ==
    ASSUME TypeOK, NEW w \in Workers, NEW r \in Requests,
           \/ Register(w, r) \/ AutoApproves(w, r) \/ OperatorApproves(w, r)
           \/ ExecuteBegin(w, r)
           \/ \E e \in EventTypes : WebhookBegin(w, r, e)
    PROVE  TypeOK'
<1>0. TaskOK /\ TablesOK
  BY TypeParts
<1>1. CASE Register(w, r)
  <2>1. snapshot' \in [Payments -> Snapshot]
    BY <1>0, <1>1, AmountAssumption DEF Register, TablesOK
  <2> QED BY <1>0, <1>1, <2>1 DEF Register, TypeOK, TaskOK, TablesOK, CaseStates, gatewayVars
<1>2. CASE AutoApproves(w, r)
  BY <1>0, <1>2 DEF AutoApproves, TypeOK, TaskOK, TablesOK, CaseStates, gatewayVars
<1>3. CASE OperatorApproves(w, r)
  BY <1>0, <1>3 DEF OperatorApproves, TypeOK, TaskOK, TablesOK, CaseStates, gatewayVars
<1>4. CASE ExecuteBegin(w, r)
  <2>1. "refund.created" \in EventTypes /\ "refresh" \in Steps /\ "check" \in Steps
    BY DEF EventTypes, Steps, ExecuteSteps
  <2>2. TaskOK'
    BY <1>0, <1>4, <2>1, BeginTyped DEF ExecuteBegin
  <2> QED BY <1>0, <1>4, <2>2 DEF ExecuteBegin, TypeOK, TaskOK, TablesOK, dbVars, gatewayVars
<1>5. ASSUME NEW e \in EventTypes, WebhookBegin(w, r, e)
      PROVE  TypeOK'
  <2>1. "lookup" \in Steps
    BY DEF Steps, WebhookSteps
  <2>2. TaskOK'
    BY <1>0, <1>5, <2>1, BeginTyped DEF WebhookBegin
  <2> QED BY <1>0, <1>5, <2>2 DEF WebhookBegin, TypeOK, TaskOK, TablesOK, gatewayVars
<1> QED BY <1>1, <1>2, <1>3, <1>4, <1>5

\* TypeOK is inductive.
LEMMA StepTyped ==
    ASSUME TypeOK, [Next]_vars
    PROVE  TypeOK'
<1>0. TaskOK /\ TablesOK
  BY TypeParts
<1>1. ASSUME NEW w \in Workers, Abort(w)
      PROVE  TypeOK'
  <2>1. TaskOK'
    BY <1>0, <1>1, ReturnTyped DEF Abort
  <2>2. TablesOK'
    BY <1>0, <1>1, BoundAssumption DEF Abort, TablesOK, dbVars, gatewayVars
  <2> QED BY <2>1, <2>2 DEF TypeOK, TaskOK, TablesOK
<1>2. ASSUME NEW r \in Requests, GatewayResolves(r)
      PROVE  TypeOK'
  BY <1>0, <1>2 DEF GatewayResolves, TypeOK, TaskOK, TablesOK, dbVars
<1>3. CASE UNCHANGED vars
  BY <1>3 DEF TypeOK, vars, dbVars, gatewayVars
<1> QED BY <1>1, <1>2, <1>3, ExecuteStepTyped, WebhookStepTyped, EntryTyped DEF Next

LEMMA InitTyped == Init => TypeOK
<1> SUFFICES ASSUME Init PROVE TypeOK
  OBVIOUS
<1>1. snapshot \in [Payments -> Snapshot]
  BY AmountAssumption DEF Init, Snapshot
<1> QED BY <1>1, IdleIsTask, BoundAssumption
        DEF Init, TypeOK, Idle, CaseStates, EventTypes

\* Every variable keeps its type: in particular no balance goes below zero,
\* the CHECK of payment_snapshots, whatever refresh and webhook interleave.
THEOREM TypeCorrect == Spec => []TypeOK
<1>1. Init => TypeOK
  BY InitTyped
<1>2. TypeOK /\ [Next]_vars => TypeOK'
  BY StepTyped
<1> QED BY <1>1, <1>2, PTL DEF Spec

-----------------------------------------------------------------------------
(* The inductive invariant.  Ownership: the worker that inserted a ledger   *)
(* row is alone on its way to the gateway, on an active row nobody has      *)
(* dispatched.  Truth: what the gateway did is behind every step that is    *)
(* about to report it.  Neither is inductive alone: a webhook cannot settle *)
(* a row under its owner because no event exists before the dispatch.       *)

Before(w) == task[w].step \in {"mark", "announce", "refund"}
Owns(w) == Before(w) \/ task[w].step = "release"

Ownership ==
    /\ \A w \in Workers : Before(w) =>
         /\ ledger[task[w].request] \in ActiveStatuses
         /\ dispatches[task[w].request] = 0
         /\ gatewayRefund[task[w].request] = "none"
    /\ \A w \in Workers : Owns(w) => ledger[task[w].request] # "none"
    /\ \A v, w \in Workers :
         Owns(v) /\ Owns(w) /\ task[v].request = task[w].request => v = w
    /\ \A r \in Requests :
         ledger[r] = "none" => dispatches[r] = 0 /\ gatewayRefund[r] = "none"
    /\ AtMostOneDispatch

Truth ==
    /\ \A r \in Requests :
         ~RequiresWebhook => gatewayRefund[r] \in {"none", "processed"}
    /\ \A w \in Workers : task[w].step \in {"attach", "finalize", "record", "publish"} =>
         /\ gatewayRefund[task[w].request] # "none"
         /\ task[w].step = "finalize" => ~RequiresWebhook
    /\ \A w \in Workers : task[w].step \in WebhookSteps =>
         /\ task[w].event = "refund.processed" => gatewayRefund[task[w].request] = "processed"
         /\ task[w].event = "refund.failed" => gatewayRefund[task[w].request] = "failed"
         /\ task[w].step # "lookup" => task[w].event # "refund.created"
    /\ SuccessIsReal

IInv == TypeOK /\ Ownership /\ Truth

\* What moving a worker changes: its own step, and no other worker.
LEMMA Moved ==
    ASSUME TaskOK, NEW w \in Workers, NEW s, Goto(w, s)
    PROVE  /\ task'[w].step = s
           /\ task'[w].request = task[w].request
           /\ task'[w].event = task[w].event
           /\ \A v \in Workers : v # w => task'[v] = task[v]
BY DEF TaskOK, Tasks, Goto

LEMMA Ended ==
    ASSUME TaskOK, NEW w \in Workers, Return(w)
    PROVE  /\ task'[w].step = "idle"
           /\ \A v \in Workers : v # w => task'[v] = task[v]
BY DEF TaskOK, Return, Idle

LEMMA Begun ==
    ASSUME TaskOK, NEW w \in Workers, NEW s, NEW r, NEW e, Begin(w, s, r, e)
    PROVE  /\ task'[w].step = s
           /\ task'[w].request = r
           /\ task'[w].event = e
           /\ \A v \in Workers : v # w => task'[v] = task[v]
BY DEF TaskOK, Begin

\* A worker that only moves between steps that own and report nothing keeps
\* the invariant.
LEMMA QuietMove ==
    ASSUME IInv, NEW w \in Workers,
           UNCHANGED <<caseState, ledger, execution, gatewayRefund, dispatches>>,
           task'[w].step \in {"idle", "refresh", "store", "check", "reserve", "failSafe"},
           \A v \in Workers : v # w => task'[v] = task[v]
    PROVE  Ownership' /\ Truth'
<1>1. Ownership'
  BY DEF IInv, Ownership, AtMostOneDispatch, Before, Owns
<1>2. Truth'
  BY DEF IInv, Truth, SuccessIsReal, WebhookSteps
<1> QED BY <1>1, <1>2

LEMMA ExecuteStepKeeps ==
    ASSUME IInv, NEW w \in Workers, ExecuteStep(w)
    PROVE  Ownership' /\ Truth'
<1> DEFINE r == task[w].request
<1>0. TypeOK /\ TaskOK /\ TablesOK /\ Ownership /\ Truth
  BY TypeParts DEF IInv
<1> USE DEF At, TablesOK, dbVars, gatewayVars
<1>1. CASE Refresh(w)
  <2>1. PICK b : task' = [task EXCEPT ![w].step = "store", ![w].reading = b]
    BY <1>1 DEF Refresh
  <2>2. /\ task'[w].step = "store"
        /\ \A v \in Workers : v # w => task'[v] = task[v]
    BY <1>0, <2>1 DEF TaskOK, Tasks
  <2> QED BY <1>1, <2>2, QuietMove DEF Refresh
<1>2. CASE RefreshFails(w)
  BY <1>0, <1>2, Moved, QuietMove DEF RefreshFails
<1>3. CASE Store(w)
  <2>1. /\ task'[w].step = "check"
        /\ \A v \in Workers : v # w => task'[v] = task[v]
    BY <1>0, <1>3 DEF Store, TaskOK, Tasks
  <2> QED BY <1>3, <2>1, QuietMove DEF Store
<1>4. CASE Check(w)
  BY <1>0, <1>4, Moved, Ended, QuietMove DEF Check
<1>5. CASE Reserve(w)
  <2>1. ~At(w, "idle") /\ r \in Requests
    BY <1>0, <1>5, BusyOnRequest DEF Reserve
  <2>2. CASE CanReserve(r)
    <3>1. /\ ledger[r] = "none" /\ ledger' = [ledger EXCEPT ![r] = "reserved"]
          /\ UNCHANGED <<caseState, execution, gatewayRefund, dispatches>>
          /\ Goto(w, "mark")
      BY <1>5, <2>2 DEF Reserve, CanReserve
    <3>2. Ownership'
      BY <1>0, <2>1, <3>1, Moved DEF Ownership, AtMostOneDispatch, Before, Owns, ActiveStatuses
    <3>3. Truth'
      BY <1>0, <2>1, <3>1, Moved DEF Truth, SuccessIsReal, WebhookSteps
    <3> QED BY <3>2, <3>3
  <2>3. CASE ~CanReserve(r)
    BY <1>0, <1>5, <2>3, Ended, QuietMove DEF Reserve
  <2> QED BY <2>2, <2>3
<1>6. CASE Mark(w)
  <2>1. ~At(w, "idle") /\ r \in Requests
    BY <1>0, <1>6, BusyOnRequest DEF Mark
  <2>2. Ownership'
    BY <1>0, <1>6, <2>1, Moved DEF Mark, Ownership, AtMostOneDispatch, Before, Owns, ActiveStatuses
  <2>3. Truth'
    BY <1>0, <1>6, <2>1, Moved DEF Mark, Truth, SuccessIsReal, WebhookSteps
  <2> QED BY <2>2, <2>3
<1>7. CASE Announce(w)
  <2>1. ~At(w, "idle") /\ r \in Requests
    BY <1>0, <1>7, BusyOnRequest DEF Announce
  <2>2. Ownership'
    BY <1>0, <1>7, <2>1, Moved DEF Announce, SetState, Ownership, AtMostOneDispatch, Before, Owns, ActiveStatuses
  <2>3. Truth'
    BY <1>0, <1>7, <2>1, Moved DEF Announce, SetState, Truth, SuccessIsReal, WebhookSteps
  <2> QED BY <2>2, <2>3
<1>8. CASE RefundAccepted(w)
  <2>1. ~At(w, "idle") /\ r \in Requests
    BY <1>0, <1>8, BusyOnRequest DEF RefundAccepted
  <2>2. Ownership'
    BY <1>0, <1>8, <2>1, Moved DEF RefundAccepted, GatewayTakes, CountDispatch, Ownership, AtMostOneDispatch, Before, Owns, ActiveStatuses
  <2>3. Truth'
    BY <1>0, <1>8, <2>1, Moved DEF RefundAccepted, GatewayTakes, CountDispatch, Truth, SuccessIsReal, WebhookSteps
  <2> QED BY <2>2, <2>3
<1>9. CASE RefundRejected(w)
  <2>1. ~At(w, "idle") /\ r \in Requests
    BY <1>0, <1>9, BusyOnRequest DEF RefundRejected
  <2>2. Ownership'
    BY <1>0, <1>9, <2>1, Moved DEF RefundRejected, CountDispatch, Ownership, AtMostOneDispatch, Before, Owns, ActiveStatuses
  <2>3. Truth'
    BY <1>0, <1>9, <2>1, Moved DEF RefundRejected, CountDispatch, Truth, SuccessIsReal, WebhookSteps
  <2> QED BY <2>2, <2>3
<1>10. CASE RefundReplyLost(w)
  <2>1. ~At(w, "idle") /\ r \in Requests
    BY <1>0, <1>10, BusyOnRequest DEF RefundReplyLost
  <2>2. Ownership'
    BY <1>0, <1>10, <2>1, Moved DEF RefundReplyLost, GatewayTakes, CountDispatch, Ownership, AtMostOneDispatch, Before, Owns, ActiveStatuses
  <2>3. Truth'
    BY <1>0, <1>10, <2>1, Moved DEF RefundReplyLost, GatewayTakes, CountDispatch, Truth, SuccessIsReal, WebhookSteps
  <2> QED BY <2>2, <2>3
<1>11. CASE Release(w)
  <2>1. ~At(w, "idle") /\ r \in Requests
    BY <1>0, <1>11, BusyOnRequest DEF Release
  <2>2. Ownership'
    BY <1>0, <1>11, <2>1, Moved DEF Release, ReleaseRow, Ownership, AtMostOneDispatch, Before, Owns, ActiveStatuses
  <2>3. Truth'
    BY <1>0, <1>11, <2>1, Moved DEF Release, ReleaseRow, Truth, SuccessIsReal, WebhookSteps
  <2> QED BY <2>2, <2>3
<1>12. CASE FailSafe(w)
  <2>1. ~At(w, "idle") /\ r \in Requests
    BY <1>0, <1>12, BusyOnRequest DEF FailSafe
  <2>2. Ownership'
    BY <1>0, <1>12, <2>1, Ended DEF FailSafe, SetState, Ownership, AtMostOneDispatch, Before, Owns, ActiveStatuses
  <2>3. Truth'
    BY <1>0, <1>12, <2>1, Ended DEF FailSafe, SetState, Truth, SuccessIsReal, WebhookSteps
  <2> QED BY <2>2, <2>3
<1>13. CASE Attach(w)
  <2>1. ~At(w, "idle") /\ r \in Requests
    BY <1>0, <1>13, BusyOnRequest DEF Attach
  <2>2. Ownership'
    BY <1>0, <1>13, <2>1, Moved, Ended DEF Attach, Ownership, AtMostOneDispatch, Before, Owns, ActiveStatuses
  <2>3. Truth'
    BY <1>0, <1>13, <2>1, Moved, Ended DEF Attach, Truth, SuccessIsReal, WebhookSteps
  <2> QED BY <2>2, <2>3
<1>14. CASE Finalize(w)
  <2>1. r \in Requests /\ gatewayRefund[r] = "processed"
    BY <1>0, <1>14, BusyOnRequest DEF Finalize, Truth
  <2>2. CASE CanFinalize(r)
    <3>1. /\ ledger' = [ledger EXCEPT ![r] = "succeeded"]
          /\ UNCHANGED <<caseState, execution, gatewayRefund, dispatches>>
          /\ Goto(w, "record")
      BY <1>14, <2>2 DEF Finalize, FinalizeRow
    <3>2. Ownership'
      BY <1>0, <1>14, <2>1, <3>1, Moved DEF Finalize, Ownership, AtMostOneDispatch, Before, Owns
    <3>3. Truth'
      BY <1>0, <1>14, <2>1, <3>1, Moved DEF Finalize, Truth, SuccessIsReal, WebhookSteps
    <3> QED BY <3>2, <3>3
  <2>3. CASE ~CanFinalize(r)
    BY <1>0, <1>14, <2>3, Ended, QuietMove DEF Finalize
  <2> QED BY <2>2, <2>3
<1>15. CASE Record(w)
  <2>1. ~At(w, "idle") /\ r \in Requests
    BY <1>0, <1>15, BusyOnRequest DEF Record
  <2>2. Ownership'
    BY <1>0, <1>15, <2>1, Moved, Ended DEF Record, DispatchStatus, Ownership, AtMostOneDispatch, Before, Owns, ActiveStatuses
  <2>3. Truth'
    BY <1>0, <1>15, <2>1, Moved, Ended DEF Record, DispatchStatus, Truth, SuccessIsReal, WebhookSteps
  <2> QED BY <2>2, <2>3
<1>16. CASE Publish(w)
  <2>1. ~At(w, "idle") /\ r \in Requests
    BY <1>0, <1>16, BusyOnRequest DEF Publish
  <2>2. Ownership'
    BY <1>0, <1>16, <2>1, Ended DEF Publish, SetState, DispatchStatus, Ownership, AtMostOneDispatch, Before, Owns, ActiveStatuses
  <2>3. Truth'
    BY <1>0, <1>16, <2>1, Ended DEF Publish, SetState, DispatchStatus, Truth, SuccessIsReal, WebhookSteps
  <2> QED BY <2>2, <2>3
<1> QED BY <1>1, <1>2, <1>3, <1>4, <1>5, <1>6, <1>7, <1>8, <1>9, <1>10, <1>11, <1>12, <1>13, <1>14, <1>15, <1>16 DEF ExecuteStep

LEMMA WebhookStepKeeps ==
    ASSUME IInv, NEW w \in Workers, WebhookStep(w)
    PROVE  Ownership' /\ Truth'
<1> DEFINE r == task[w].request
<1>0. TypeOK /\ TaskOK /\ TablesOK /\ Ownership /\ Truth
  BY TypeParts DEF IInv
<1> USE DEF At, TablesOK, dbVars, gatewayVars
<1>1. CASE Lookup(w)
  <2>1. CASE Return(w)
    BY <1>0, <1>1, <2>1, Ended, QuietMove DEF Lookup
  <2>2. CASE ~Return(w)
    <3>1. /\ r \in Requests /\ task[w].event # "refund.created"
          /\ Goto(w, "settle")
          /\ UNCHANGED <<caseState, ledger, execution, gatewayRefund, dispatches>>
      BY <1>0, <1>1, <2>2, BusyOnRequest DEF Lookup
    <3>2. Ownership'
      BY <1>0, <1>1, <3>1, Moved DEF Lookup, Ownership, AtMostOneDispatch, Before, Owns
    <3>3. Truth'
      BY <1>0, <1>1, <3>1, Moved DEF Lookup, Truth, SuccessIsReal, WebhookSteps
    <3> QED BY <3>2, <3>3
  <2> QED BY <2>1, <2>2
<1>2. CASE Settle(w)
  <2>1. /\ r \in Requests
        /\ task[w].event \in {"refund.processed", "refund.failed"}
        /\ gatewayRefund[r] = IF task[w].event = "refund.failed" THEN "failed" ELSE "processed"
    BY <1>0, <1>2, BusyOnRequest DEF Settle, Truth, WebhookSteps, TaskOK, Tasks, EventTypes
  <2>2. CASE task[w].event = "refund.failed"
    <3>1. /\ ReleaseRow(r) /\ Goto(w, "update")
          /\ UNCHANGED <<caseState, execution, gatewayRefund, dispatches>>
      BY <1>2, <2>2 DEF Settle
    <3>2. Ownership'
      BY <1>0, <1>2, <2>1, <2>2, <3>1, Moved
         DEF Settle, ReleaseRow, Ownership, AtMostOneDispatch, Before, Owns, ActiveStatuses
    <3>3. Truth'
      BY <1>0, <1>2, <2>1, <2>2, <3>1, Moved
         DEF Settle, ReleaseRow, Truth, SuccessIsReal, WebhookSteps
    <3> QED BY <3>2, <3>3
  <2>3. CASE task[w].event # "refund.failed" /\ CanFinalize(r)
    <3>1. /\ ledger' = [ledger EXCEPT ![r] = "succeeded"] /\ Goto(w, "update")
          /\ UNCHANGED <<caseState, execution, gatewayRefund, dispatches>>
      BY <1>2, <2>3 DEF Settle, FinalizeRow
    <3>2. Ownership'
      BY <1>0, <1>2, <2>1, <2>3, <3>1, Moved DEF Settle, Ownership, AtMostOneDispatch, Before, Owns
    <3>3. Truth'
      BY <1>0, <1>2, <2>1, <2>3, <3>1, Moved DEF Settle, Truth, SuccessIsReal, WebhookSteps
    <3> QED BY <3>2, <3>3
  <2>4. CASE task[w].event # "refund.failed" /\ ~CanFinalize(r)
    BY <1>0, <1>2, <2>4, Ended, QuietMove DEF Settle
  <2> QED BY <2>2, <2>3, <2>4
<1>3. CASE Update(w)
  <2>1. r \in Requests /\ task[w].event \in EventTypes
    BY <1>0, <1>3, BusyOnRequest DEF Update, TaskOK, Tasks
  <2>2. Ownership'
    BY <1>0, <1>3, <2>1, Moved DEF Update, Ownership, AtMostOneDispatch, Before, Owns
  <2>3. Truth'
    BY <1>0, <1>3, <2>1, Moved
       DEF Update, SettledStatus, Truth, SuccessIsReal, WebhookSteps, EventTypes
  <2> QED BY <2>2, <2>3
<1>4. CASE Close(w)
  <2>1. r \in Requests /\ task[w].event \in EventTypes
    BY <1>0, <1>4, BusyOnRequest DEF Close, TaskOK, Tasks
  <2>2. Ownership'
    BY <1>0, <1>4, <2>1, Ended DEF Close, Ownership, AtMostOneDispatch, Before, Owns
  <2>3. Truth'
    BY <1>0, <1>4, <2>1, Ended
       DEF Close, SetState, SettledStatus, Truth, SuccessIsReal, WebhookSteps, EventTypes
  <2> QED BY <2>2, <2>3
<1> QED BY <1>1, <1>2, <1>3, <1>4 DEF WebhookStep

LEMMA EntryKeeps ==
    ASSUME IInv, NEW w \in Workers, NEW r \in Requests,
           \/ Register(w, r) \/ AutoApproves(w, r) \/ OperatorApproves(w, r)
           \/ ExecuteBegin(w, r)
           \/ \E e \in EventTypes : WebhookBegin(w, r, e)
    PROVE  Ownership' /\ Truth'
<1>0. TypeOK /\ TaskOK /\ TablesOK /\ Ownership /\ Truth
  BY TypeParts DEF IInv
<1> USE DEF TablesOK, dbVars, gatewayVars
<1>1. CASE Register(w, r) \/ AutoApproves(w, r) \/ OperatorApproves(w, r)
  <2>1. /\ UNCHANGED <<ledger, execution, gatewayRefund, dispatches, task>>
        /\ \A q \in Requests : caseState'[q] = "REFUNDED" => caseState[q] = "REFUNDED"
    BY <1>0, <1>1 DEF Register, AutoApproves, OperatorApproves
  <2>2. Ownership'
    BY <1>0, <2>1 DEF Ownership, AtMostOneDispatch, Before, Owns
  <2>3. Truth'
    BY <1>0, <2>1 DEF Truth, SuccessIsReal
  <2> QED BY <2>2, <2>3
<1>2. CASE ExecuteBegin(w, r)
  BY <1>0, <1>2, Begun, QuietMove DEF ExecuteBegin
<1>3. ASSUME NEW e \in EventTypes, WebhookBegin(w, r, e)
      PROVE  Ownership' /\ Truth'
  <2>1. /\ task'[w].step = "lookup" /\ task'[w].request = r /\ task'[w].event = e
        /\ \A v \in Workers : v # w => task'[v] = task[v]
        /\ UNCHANGED <<caseState, ledger, execution, gatewayRefund, dispatches>>
    BY <1>0, <1>3, Begun DEF WebhookBegin
  <2>2. /\ e = "refund.processed" => gatewayRefund[r] = "processed"
        /\ e = "refund.failed" => gatewayRefund[r] = "failed"
    BY <1>0, <1>3 DEF WebhookBegin, Signed
  <2>3. Ownership'
    BY <1>0, <2>1 DEF Ownership, AtMostOneDispatch, Before, Owns
  <2>4. Truth'
    BY <1>0, <2>1, <2>2 DEF Truth, SuccessIsReal, WebhookSteps
  <2> QED BY <2>3, <2>4
<1> QED BY <1>1, <1>2, <1>3

LEMMA StepKeeps ==
    ASSUME IInv, [Next]_vars
    PROVE  IInv'
<1>0. TypeOK /\ TaskOK /\ TablesOK /\ Ownership /\ Truth
  BY TypeParts DEF IInv
<1>1. TypeOK'
  BY <1>0, StepTyped
<1>2. ASSUME NEW w \in Workers, Abort(w)
      PROVE  Ownership' /\ Truth'
  BY <1>0, <1>2, Ended, QuietMove DEF Abort, dbVars, gatewayVars
<1>3. ASSUME NEW r \in Requests, GatewayResolves(r)
      PROVE  Ownership' /\ Truth'
  <2>1. Ownership'
    BY <1>0, <1>3 DEF GatewayResolves, TablesOK, dbVars, Ownership, AtMostOneDispatch, Before, Owns
  <2>2. Truth'
    BY <1>0, <1>3 DEF GatewayResolves, TablesOK, dbVars, Truth, SuccessIsReal
  <2> QED BY <2>1, <2>2
<1>4. ASSUME UNCHANGED vars
      PROVE  Ownership' /\ Truth'
  <2>1. Ownership'
    BY <1>0, <1>4 DEF vars, dbVars, gatewayVars, Ownership, AtMostOneDispatch, Before, Owns
  <2>2. Truth'
    BY <1>0, <1>4 DEF vars, dbVars, gatewayVars, Truth, SuccessIsReal
  <2> QED BY <2>1, <2>2
<1>5. Ownership' /\ Truth'
  BY <1>2, <1>3, <1>4, ExecuteStepKeeps, WebhookStepKeeps, EntryKeeps DEF Next
<1> QED BY <1>1, <1>5 DEF IInv

LEMMA InitHolds == Init => IInv
<1> SUFFICES ASSUME Init PROVE IInv
  OBVIOUS
<1>1. \A w \in Workers : task[w].step = "idle"
  BY DEF Init, Idle
<1>2. Ownership
  BY <1>1 DEF Init, Ownership, AtMostOneDispatch, Before, Owns
<1>3. Truth
  BY <1>1 DEF Init, Truth, SuccessIsReal, WebhookSteps
<1> QED BY <1>2, <1>3, InitTyped DEF IInv

\* Somebody else moves cases: to any state, but none of them to REFUNDED.
CasesMove ==
    /\ caseState' \in [Requests -> CaseStates]
    /\ \A r \in Requests : caseState'[r] = "REFUNDED" => caseState[r] = "REFUNDED"
    /\ UNCHANGED <<snapshot, ledger, attached, execution, webhookSeen, gatewayVars, task, aborts>>

\* The money path in company.  What holds here rests on nothing the other
\* handlers do to a case, beyond that they report no refund.
OpenSpec == Init /\ [][Next \/ CasesMove]_vars

\* The money path on its own is the case where nobody else writes.
LEMMA SpecIsOpen == Spec => OpenSpec
<1>1. [Next]_vars => [Next \/ CasesMove]_vars
  OBVIOUS
<1> QED BY <1>1, PTL DEF Spec, OpenSpec

\* Another writer of case states touches nothing the invariant rests on.
LEMMA CasesMoveKeeps ==
    ASSUME IInv, CasesMove
    PROVE  IInv'
<1>0. TaskOK /\ TablesOK /\ Ownership /\ Truth
  BY TypeParts DEF IInv
<1> USE DEF CasesMove, gatewayVars
<1>1. TaskOK' /\ TablesOK'
  BY <1>0 DEF TaskOK, TablesOK
<1>2. Ownership'
  BY <1>0 DEF Ownership, AtMostOneDispatch, Before, Owns
<1>3. Truth'
  BY <1>0 DEF Truth, SuccessIsReal
<1>4. TypeOK'
  BY <1>1 DEF TypeOK, TaskOK, TablesOK
<1> QED BY <1>2, <1>3, <1>4 DEF IInv

\* The invariant holds whoever else writes case states.
LEMMA OpenInvariance == OpenSpec => []IInv
<1>1. Init => IInv
  BY InitHolds
<1>2. IInv /\ [Next \/ CasesMove]_vars => IInv'
  BY StepKeeps, CasesMoveKeeps
<1> QED BY <1>1, <1>2, PTL DEF OpenSpec

\* The strengthening is inductive: the invariant the safety theorems are
\* read off.
THEOREM Invariance == Spec => []IInv
BY OpenInvariance, SpecIsOpen, PTL

\* So no request is dispatched twice,
LEMMA OpenDispatch == OpenSpec => []AtMostOneDispatch
<1>1. IInv => AtMostOneDispatch
  BY DEF IInv, Ownership
<1> QED BY <1>1, OpenInvariance, PTL

\* no table reports a refund that was not processed,
LEMMA OpenSuccess == OpenSpec => []SuccessIsReal
<1>1. IInv => SuccessIsReal
  BY DEF IInv, Truth
<1> QED BY <1>1, OpenInvariance, PTL

\* However many processes execute, retry, crash or lose the gateway's reply,
\* a request reaches the gateway at most once.
THEOREM DispatchedOnce == Spec => []AtMostOneDispatch
BY OpenDispatch, SpecIsOpen, PTL

\* No table ever reports a refund the gateway has not processed.
THEOREM SuccessesAreReal == Spec => []SuccessIsReal
BY OpenSuccess, SpecIsOpen, PTL

\* a settled row stays settled,
LEMMA OpenSettles == OpenSpec => SettledStaysSettled
<1>1. ASSUME TypeOK, [Next \/ CasesMove]_vars, NEW r \in Requests, ledger[r] \in TerminalStatuses
      PROVE  ledger'[r] = ledger[r]
  <2>0. ledger \in [Requests -> {"none"} \cup ActiveStatuses \cup TerminalStatuses]
    BY <1>1 DEF TypeOK
  <2>1. ledger[r] \notin ActiveStatuses /\ ledger[r] # "none"
    BY <1>1 DEF ActiveStatuses, TerminalStatuses
  <2> USE DEF dbVars, gatewayVars
  <2>2. ASSUME NEW w \in Workers, ExecuteStep(w)
        PROVE  ledger'[r] = ledger[r]
    BY <2>0, <2>1, <2>2
       DEF ExecuteStep, Refresh, RefreshFails, Store, Check, Reserve, CanReserve, Mark,
           Announce, RefundAccepted, RefundRejected, RefundReplyLost, Release, ReleaseRow,
           FailSafe, Attach, Finalize, FinalizeRow, CanFinalize, Record, Publish, ActiveStatuses
  <2>3. ASSUME NEW w \in Workers, WebhookStep(w)
        PROVE  ledger'[r] = ledger[r]
    BY <2>0, <2>1, <2>3
       DEF WebhookStep, Lookup, Settle, ReleaseRow, FinalizeRow, CanFinalize, Update, Close
  <2>4. CASE UNCHANGED vars
    BY <2>4 DEF vars
  <2>5. CASE CasesMove
    BY <2>5 DEF CasesMove
  <2> QED BY <1>1, <2>2, <2>3, <2>4, <2>5
          DEF Next, Register, AutoApproves, OperatorApproves, ExecuteBegin, WebhookBegin,
              Abort, GatewayResolves
<1>2. IInv /\ [Next \/ CasesMove]_vars =>
        [\A r \in Requests : ledger[r] \in TerminalStatuses => ledger'[r] = ledger[r]]_vars
  BY <1>1 DEF IInv
<1> QED BY <1>2, OpenInvariance, PTL DEF OpenSpec, SettledStaysSettled

\* A settled ledger row keeps its status for ever.
THEOREM SettledIsFinal == Spec => SettledStaysSettled
BY OpenSettles, SpecIsOpen, PTL

-----------------------------------------------------------------------------
(* What the ledger knows of the gateway's money.  The invariant adds where  *)
(* the workers are: a row is processing before its refund is sent, linked   *)
(* before an event touches it, and given back only by a worker the gateway  *)
(* refused or never answered.                                               *)

BookedRow(r) ==
    /\ attached[r] \/ execution[r] # "none" => gatewayRefund[r] # "none"
    /\ r \in lost => gatewayRefund[r] # "none" /\ NoSuccessRecorded(r)
    /\ gatewayRefund[r] \in {"pending", "processed"} /\ r \notin lost =>
         ledger[r] \in {"processing", "succeeded"}

Booked(w) ==
    /\ task[w].step \in {"announce", "refund"} => ledger[task[w].request] = "processing"
    /\ task[w].step = "release" =>
         gatewayRefund[task[w].request] = "none" \/ task[w].request \in lost
    /\ task[w].step \in {"attach", "finalize", "record", "publish"} => task[w].request \notin lost
    /\ task[w].step \in {"settle", "update", "close"} => attached[task[w].request]

Booking ==
    /\ LosesReplies \/ lost = {}
    /\ \A r \in Requests : BookedRow(r)
    /\ \A w \in Workers : Booked(w)

LEMMA BookingShows == Booking => TakenIsBooked
BY DEF Booking, BookedRow, TakenIsBooked

\* A worker that only moves to where nothing is asked of it.
LEMMA BookingStays ==
    ASSUME IInv, Booking, NEW w \in Workers,
           UNCHANGED <<ledger, attached, gatewayRefund, lost>>,
           \A r \in Requests : execution'[r] # "none" => execution[r] # "none",
           \A r \in lost : caseState'[r] # "REFUNDED",
           task'[w].step \in {"idle", "refresh", "store", "check", "reserve", "failSafe", "lookup"},
           \A v \in Workers : v # w => task'[v] = task[v]
    PROVE  Booking'
<1>1. \A r \in Requests : BookedRow(r)'
  BY DEF Booking, BookedRow, NoSuccessRecorded
<1>2. \A v \in Workers : Booked(v)'
  BY DEF Booking, Booked
<1> QED BY <1>1, <1>2 DEF Booking

\* A worker that touches one row: what it finds of the others stays.
LEMMA BookingOfOne ==
    ASSUME IInv, Booking, NEW w \in Workers, NEW r \in Requests, BookedRow(r)', Booked(w)',
           LosesReplies \/ lost' = lost,
           \A q \in Requests \ {r} :
              /\ ledger'[q] = ledger[q] /\ attached'[q] = attached[q]
              /\ execution'[q] = execution[q] /\ caseState'[q] = caseState[q]
              /\ gatewayRefund'[q] = gatewayRefund[q]
              /\ q \in lost' <=> q \in lost,
           \A v \in Workers : v # w =>
              task'[v] = task[v] /\ (task[v].step # "idle" /\ task[v].request = r => Booked(v)')
    PROVE  Booking'
<1>1. ASSUME NEW q \in Requests PROVE BookedRow(q)'
  <2>1. CASE q = r
    BY <2>1
  <2>2. CASE q # r
    BY <2>2 DEF Booking, BookedRow, NoSuccessRecorded
  <2> QED BY <2>1, <2>2
<1>2. ASSUME NEW v \in Workers PROVE Booked(v)'
  <2>1. CASE v = w \/ (task[v].step # "idle" /\ task[v].request = r)
    BY <2>1
  <2>2. CASE v # w /\ task[v].step # "idle" /\ task[v].request # r
    <3>1. task[v].request \in Requests \ {r} /\ task'[v] = task[v]
      BY <2>2 DEF IInv, TypeOK
    <3> QED BY <3>1 DEF Booking, Booked
  <2>3. CASE v # w /\ task[v].step = "idle"
    BY <2>3 DEF Booked
  <2> QED BY <2>1, <2>2, <2>3
<1> QED BY <1>1, <1>2 DEF Booking

\* The calls of the gateway, answered or not.
LEMMA RefundBooked ==
    ASSUME IInv, Booking, NEW w \in Workers,
           RefundAccepted(w) \/ RefundRejected(w) \/ RefundReplyLost(w)
    PROVE  Booking'
<1>0. TypeOK /\ TaskOK /\ TablesOK /\ Ownership /\ Truth
  BY TypeParts DEF IInv
<1>r. PICK r : r = task[w].request
  OBVIOUS
<1> USE DEF At, TablesOK, dbVars, gatewayVars
<1>1. /\ r \in Requests /\ task[w].step = "refund"
      /\ gatewayRefund[r] = "none" /\ ledger[r] = "processing"
      /\ ~attached[r] /\ r \notin lost /\ execution[r] = "none"
      /\ UNCHANGED <<ledger, attached, execution, caseState>>
  BY <1>0, <1>r, BusyOnRequest
     DEF RefundAccepted, RefundRejected, RefundReplyLost, Ownership, Before,
         Booking, Booked, BookedRow
<1>2. caseState[r] # "REFUNDED"
  BY <1>0, <1>1 DEF Truth, SuccessIsReal
<1>3. \A v \in Workers : v # w =>
         /\ task'[v] = task[v]
         /\ task[v].request = r =>
              task[v].step \notin {"attach", "finalize", "record", "publish", "release",
                                   "announce", "refund", "settle", "update", "close"}
  BY <1>0, <1>1, <1>r, Moved
     DEF RefundAccepted, RefundRejected, RefundReplyLost, Ownership, Truth, Owns, Before,
         Booking, Booked
<1>4. \A v \in Workers : v # w /\ task[v].request = r => Booked(v)'
  BY <1>3 DEF Booked
<1>5. CASE RefundAccepted(w)
  <2>1. task'[w].step = "attach" /\ task'[w].request = r
    BY <1>0, <1>r, <1>5, Moved DEF RefundAccepted
  <2>2. /\ gatewayRefund'[r] # "none" /\ UNCHANGED lost
        /\ \A q \in Requests \ {r} : gatewayRefund'[q] = gatewayRefund[q]
    BY <1>0, <1>1, <1>r, <1>5 DEF RefundAccepted, GatewayTakes
  <2>3. BookedRow(r)' /\ Booked(w)'
    BY <1>1, <2>1, <2>2 DEF BookedRow, Booked
  <2> QED BY <1>1, <1>3, <1>4, <2>2, <2>3, BookingOfOne
<1>6. CASE RefundRejected(w)
  <2>1. task'[w].step = "release" /\ task'[w].request = r /\ UNCHANGED <<gatewayRefund, lost>>
    BY <1>0, <1>r, <1>6, Moved DEF RefundRejected
  <2>2. BookedRow(r)' /\ Booked(w)'
    BY <1>1, <2>1 DEF BookedRow, Booked
  <2> QED BY <1>1, <1>3, <1>4, <2>1, <2>2, BookingOfOne
<1>7. CASE RefundReplyLost(w)
  <2>1. task'[w].step = "release" /\ task'[w].request = r /\ LosesReplies
    BY <1>0, <1>r, <1>7, Moved DEF RefundReplyLost
  <2>2. /\ gatewayRefund'[r] # "none" /\ lost' = lost \cup {r}
        /\ \A q \in Requests \ {r} : gatewayRefund'[q] = gatewayRefund[q]
    BY <1>0, <1>1, <1>r, <1>7 DEF RefundReplyLost, GatewayTakes
  <2>3. BookedRow(r)' /\ Booked(w)'
    BY <1>1, <1>2, <2>1, <2>2 DEF BookedRow, Booked, NoSuccessRecorded
  <2> QED BY <1>1, <1>3, <1>4, <2>1, <2>2, <2>3, BookingOfOne
<1> QED BY <1>5, <1>6, <1>7

LEMMA ExecuteBooked ==
    ASSUME IInv, Booking, NEW w \in Workers, ExecuteStep(w)
    PROVE  Booking'
<1>0. TypeOK /\ TaskOK /\ TablesOK /\ Ownership /\ Truth
  BY TypeParts DEF IInv
<1>r. PICK r : r = task[w].request
  OBVIOUS
<1> USE DEF At, TablesOK, dbVars, gatewayVars
<1>l. \A q \in lost : q \in Requests /\ caseState[q] # "REFUNDED"
  BY <1>0 DEF Booking, BookedRow, NoSuccessRecorded
<1>1. CASE Refresh(w) \/ Store(w)
  <2>1. /\ task'[w].step \in {"store", "check"}
        /\ \A v \in Workers : v # w => task'[v] = task[v]
    <3>1. CASE Refresh(w)
      <4>1. PICK b : task' = [task EXCEPT ![w].step = "store", ![w].reading = b]
        BY <3>1 DEF Refresh
      <4> QED BY <1>0, <4>1 DEF TaskOK, Tasks
    <3>2. CASE Store(w)
      BY <1>0, <3>2 DEF Store, TaskOK, Tasks
    <3> QED BY <1>1, <3>1, <3>2
  <2> QED BY <1>1, <1>l, <2>1, BookingStays DEF Refresh, Store
<1>2. CASE \/ RefreshFails(w) \/ Check(w) \/ FailSafe(w) \/ Publish(w)
           \/ Reserve(w) /\ ~CanReserve(r)
           \/ Finalize(w) /\ ~CanFinalize(r)
           \/ Attach(w) /\ ~(ledger[r] = "processing" /\ ~attached[r])
           \/ Record(w) /\ execution[r] # "none"
  <2>1. /\ task'[w].step \in {"idle", "failSafe", "reserve"}
        /\ \A v \in Workers : v # w => task'[v] = task[v]
    <3>1. Return(w) \/ Goto(w, "failSafe") \/ Goto(w, "reserve")
      BY <1>r, <1>2
         DEF RefreshFails, Check, FailSafe, Publish, Reserve, Finalize, Attach, Record
    <3> QED BY <1>0, <3>1, Moved, Ended
  <2>2. UNCHANGED <<ledger, attached, gatewayRefund, lost, execution>>
    BY <1>r, <1>2 DEF RefreshFails, Check, FailSafe, Publish, Reserve, Finalize, Attach, Record
  <2>3. \A q \in lost : caseState'[q] # "REFUNDED"
    <3>1. CASE Publish(w)
      <4>1. r \notin lost
        BY <1>r, <3>1 DEF Publish, Booking, Booked
      <4> QED BY <1>0, <1>l, <1>r, <3>1, <4>1 DEF Publish, SetState
    <3>2. CASE FailSafe(w)
      BY <1>0, <1>l, <1>r, <3>2 DEF FailSafe, SetState
    <3>3. CASE UNCHANGED caseState
      BY <1>l, <3>3
    <3> QED BY <1>2, <3>1, <3>2, <3>3 DEF RefreshFails, Check, Reserve, Attach, Finalize, Record
  <2> QED BY <2>1, <2>2, <2>3, BookingStays
<1>3. CASE Reserve(w) /\ CanReserve(r)
  <2>1. /\ r \in Requests /\ ledger[r] = "none" /\ ledger' = [ledger EXCEPT ![r] = "reserved"]
        /\ UNCHANGED <<caseState, execution, attached, gatewayRefund, lost>>
        /\ Goto(w, "mark")
    BY <1>0, <1>3, <1>r, BusyOnRequest DEF Reserve, CanReserve
  <2>2. task'[w].step = "mark" /\ \A v \in Workers : v # w => task'[v] = task[v]
    BY <1>0, <2>1, Moved
  <2>3. gatewayRefund[r] = "none"
    BY <1>0, <2>1 DEF Ownership
  <2>4. BookedRow(r)' /\ Booked(w)'
    BY <2>1, <2>2, <2>3 DEF Booking, BookedRow, Booked
  <2>5. \A v \in Workers : v # w /\ task[v].request = r => Booked(v)'
    BY <2>1, <2>2 DEF Booking, Booked
  <2> QED BY <1>0, <2>1, <2>2, <2>4, <2>5, BookingOfOne
<1>4. CASE Mark(w)
  <2>1. /\ r \in Requests /\ ledger[r] \in ActiveStatuses /\ gatewayRefund[r] = "none"
        /\ UNCHANGED <<caseState, execution, attached, gatewayRefund, lost>>
        /\ Goto(w, "announce")
    BY <1>0, <1>4, <1>r, BusyOnRequest DEF Mark, Ownership, Before
  <2>2. ledger'[r] = "processing" /\ \A q \in Requests \ {r} : ledger'[q] = ledger[q]
    BY <1>0, <1>4, <1>r, <2>1 DEF Mark, ActiveStatuses
  <2>3. /\ task'[w].step = "announce" /\ task'[w].request = r
        /\ \A v \in Workers : v # w => task'[v] = task[v]
    BY <1>0, <1>r, <2>1, Moved
  <2>4. BookedRow(r)' /\ Booked(w)'
    BY <2>1, <2>2, <2>3 DEF Booking, BookedRow, Booked
  <2>5. \A v \in Workers : v # w /\ task[v].request = r => Booked(v)'
    BY <2>1, <2>2, <2>3 DEF Booking, Booked
  <2> QED BY <2>1, <2>2, <2>3, <2>4, <2>5, BookingOfOne
<1>5. CASE Announce(w)
  <2>1. /\ r \in Requests /\ ledger[r] = "processing"
        /\ UNCHANGED <<ledger, execution, attached, gatewayRefund, lost>>
        /\ Goto(w, "refund") /\ caseState' = [caseState EXCEPT ![r] = "REFUND_PROCESSING"]
    BY <1>0, <1>5, <1>r, BusyOnRequest DEF Announce, SetState, Booking, Booked
  <2>2. /\ task'[w].step = "refund" /\ task'[w].request = r
        /\ \A v \in Workers : v # w => task'[v] = task[v]
    BY <1>0, <1>r, <2>1, Moved
  <2>3. caseState'[r] # "REFUNDED" /\ \A q \in Requests \ {r} : caseState'[q] = caseState[q]
    BY <1>0, <2>1
  <2>4. BookedRow(r)' /\ Booked(w)'
    BY <2>1, <2>2, <2>3 DEF Booking, BookedRow, Booked, NoSuccessRecorded
  <2>5. \A v \in Workers : v # w /\ task[v].request = r => Booked(v)'
    BY <2>1, <2>2 DEF Booking, Booked
  <2> QED BY <2>1, <2>2, <2>3, <2>4, <2>5, BookingOfOne
<1>6. CASE Release(w)
  <2>1. /\ r \in Requests /\ ReleaseRow(r) /\ Goto(w, "failSafe")
        /\ gatewayRefund[r] = "none" \/ r \in lost
        /\ UNCHANGED <<caseState, execution, attached, gatewayRefund, lost>>
    BY <1>0, <1>6, <1>r, BusyOnRequest DEF Release, Booking, Booked
  <2>2. /\ ledger'[r] \in {ledger[r], "failed"}
        /\ \A q \in Requests \ {r} : ledger'[q] = ledger[q]
    BY <1>0, <2>1 DEF ReleaseRow
  <2>3. /\ task'[w].step = "failSafe"
        /\ \A v \in Workers : v # w => task'[v] = task[v]
    BY <1>0, <2>1, Moved
  <2>4. BookedRow(r)' /\ Booked(w)'
    BY <2>1, <2>2, <2>3 DEF Booking, BookedRow, Booked, NoSuccessRecorded
  <2>5. \A v \in Workers : v # w /\ task[v].request = r => task[v].step \notin {"announce", "refund"}
    BY <1>0, <1>6, <1>r DEF Release, Ownership, Owns, Before
  <2>6. \A v \in Workers : v # w /\ task[v].request = r => Booked(v)'
    BY <2>1, <2>3, <2>5 DEF Booking, Booked
  <2> QED BY <2>1, <2>2, <2>3, <2>4, <2>6, BookingOfOne
<1>7. CASE Attach(w) /\ ledger[r] = "processing" /\ ~attached[r]
  <2>1. /\ r \in Requests /\ attached' = [attached EXCEPT ![r] = TRUE]
        /\ Goto(w, "record") \/ Goto(w, "finalize")
        /\ UNCHANGED <<caseState, execution, ledger, gatewayRefund, lost>>
        /\ r \notin lost /\ gatewayRefund[r] # "none"
    BY <1>0, <1>7, <1>r, BusyOnRequest DEF Attach, Booking, Booked, Truth
  <2>2. /\ task'[w].step \in {"record", "finalize"} /\ task'[w].request = r
        /\ \A v \in Workers : v # w => task'[v] = task[v]
    BY <1>0, <1>r, <2>1, Moved
  <2>3. attached'[r] /\ \A q \in Requests \ {r} : attached'[q] = attached[q]
    BY <1>0, <2>1
  <2>4. BookedRow(r)' /\ Booked(w)'
    BY <2>1, <2>2, <2>3 DEF Booking, BookedRow, Booked
  <2>5. \A v \in Workers : v # w /\ task[v].request = r => Booked(v)'
    BY <2>1, <2>2, <2>3 DEF Booking, Booked
  <2> QED BY <2>1, <2>2, <2>3, <2>4, <2>5, BookingOfOne
<1>8. CASE Finalize(w) /\ CanFinalize(r)
  <2>1. /\ r \in Requests /\ Goto(w, "record")
        /\ ledger' = [ledger EXCEPT ![r] = "succeeded"]
        /\ attached' = [attached EXCEPT ![r] = TRUE]
        /\ UNCHANGED <<caseState, execution, gatewayRefund, lost>>
        /\ r \notin lost /\ gatewayRefund[r] # "none"
    BY <1>0, <1>8, <1>r, BusyOnRequest DEF Finalize, FinalizeRow, Booking, Booked, Truth
  <2>2. /\ task'[w].step = "record" /\ task'[w].request = r
        /\ \A v \in Workers : v # w => task'[v] = task[v]
    BY <1>0, <1>r, <2>1, Moved
  <2>3. /\ ledger'[r] = "succeeded" /\ attached'[r]
        /\ \A q \in Requests \ {r} : ledger'[q] = ledger[q] /\ attached'[q] = attached[q]
    BY <1>0, <2>1
  <2>4. BookedRow(r)' /\ Booked(w)'
    BY <2>1, <2>2, <2>3 DEF BookedRow, Booked
  <2>5. \A v \in Workers : task[v].request = r => task[v].step \notin {"announce", "refund"}
    BY <1>0, <2>1 DEF Ownership, Before
  <2>6. \A v \in Workers : v # w /\ task[v].request = r => Booked(v)'
    BY <2>1, <2>2, <2>3, <2>5 DEF Booking, Booked
  <2> QED BY <2>1, <2>2, <2>3, <2>4, <2>6, BookingOfOne
<1>9. CASE Record(w) /\ execution[r] = "none"
  <2>1. /\ r \in Requests /\ Goto(w, "publish")
        /\ execution' = [execution EXCEPT ![r] = DispatchStatus]
        /\ UNCHANGED <<caseState, attached, ledger, gatewayRefund, lost>>
        /\ r \notin lost /\ gatewayRefund[r] # "none"
    BY <1>0, <1>9, <1>r, BusyOnRequest DEF Record, Booking, Booked, Truth
  <2>2. /\ task'[w].step = "publish" /\ task'[w].request = r
        /\ \A v \in Workers : v # w => task'[v] = task[v]
    BY <1>0, <1>r, <2>1, Moved
  <2>3. BookedRow(r)' /\ Booked(w)'
    BY <2>1, <2>2 DEF Booking, BookedRow, Booked
  <2>4. \A v \in Workers : v # w /\ task[v].request = r => Booked(v)'
    BY <2>1, <2>2 DEF Booking, Booked
  <2>5. \A q \in Requests \ {r} : execution'[q] = execution[q]
    BY <1>0, <2>1
  <2> QED BY <2>1, <2>2, <2>3, <2>4, <2>5, BookingOfOne
<1>10. ASSUME RefundAccepted(w) \/ RefundRejected(w) \/ RefundReplyLost(w) PROVE Booking'
  BY <1>10, RefundBooked
<1>11. (Reserve(w) \/ Finalize(w)) => Booking'
  BY <1>2, <1>3, <1>8
<1>12. (Attach(w) \/ Record(w)) => Booking'
  BY <1>2, <1>7, <1>9
<1> QED BY <1>1, <1>2, <1>4, <1>5, <1>6, <1>10, <1>11, <1>12 DEF ExecuteStep

LEMMA WebhookBooked ==
    ASSUME IInv, Booking, NEW w \in Workers, WebhookStep(w)
    PROVE  Booking'
<1>0. TypeOK /\ TaskOK /\ TablesOK /\ Ownership /\ Truth
  BY TypeParts DEF IInv
<1>r. PICK r : r = task[w].request
  OBVIOUS
<1> USE DEF At, TablesOK, dbVars, gatewayVars
<1>1. CASE Lookup(w)
  <2>1. /\ Return(w) \/ (attached[r] /\ Goto(w, "settle"))
        /\ UNCHANGED <<caseState, execution, attached, ledger, gatewayRefund, lost>>
    BY <1>1, <1>r DEF Lookup
  <2>2. /\ \/ task'[w].step = "idle"
           \/ attached[r] /\ task'[w].step = "settle" /\ task'[w].request = r
        /\ \A v \in Workers : v # w => task'[v] = task[v]
    BY <1>0, <1>r, <2>1, Moved, Ended
  <2>3. \A q \in Requests : BookedRow(q)'
    BY <2>1 DEF Booking, BookedRow, NoSuccessRecorded
  <2>4. \A v \in Workers : Booked(v)'
    BY <2>1, <2>2 DEF Booking, Booked
  <2> QED BY <2>1, <2>3, <2>4 DEF Booking
<1>2. CASE Settle(w)
  <2>1. /\ r \in Requests /\ attached[r] /\ gatewayRefund[r] # "none" /\ r \notin lost
        /\ UNCHANGED <<caseState, execution, gatewayRefund, lost>>
        /\ task[w].event = "refund.failed" => gatewayRefund[r] = "failed"
    BY <1>0, <1>2, <1>r, BusyOnRequest
       DEF Settle, Booking, Booked, BookedRow, NoSuccessRecorded, Truth, WebhookSteps
  <2>2. /\ \/ ledger'[r] = ledger[r] /\ task'[w].step = "idle"
           \/ /\ task'[w].step = "update" /\ task'[w].request = r
              /\ ledger'[r] = "succeeded" \/ gatewayRefund[r] = "failed"
        /\ attached'[r]
        /\ \A q \in Requests \ {r} : ledger'[q] = ledger[q] /\ attached'[q] = attached[q]
        /\ \A v \in Workers : v # w => task'[v] = task[v]
    <3>1. CASE Return(w) /\ UNCHANGED <<ledger, attached>>
      BY <1>0, <2>1, <3>1, Ended
    <3>2. CASE Goto(w, "update") /\ FinalizeRow(r)
      BY <1>0, <1>r, <2>1, <3>2, Moved DEF FinalizeRow
    <3>3. CASE Goto(w, "update") /\ ReleaseRow(r) /\ UNCHANGED attached /\ gatewayRefund[r] = "failed"
      BY <1>0, <1>r, <2>1, <3>3, Moved DEF ReleaseRow
    <3> QED BY <1>2, <1>r, <2>1, <3>1, <3>2, <3>3 DEF Settle
  <2>3. BookedRow(r)' /\ Booked(w)'
    BY <2>1, <2>2 DEF Booking, BookedRow, Booked
  <2>4. \A v \in Workers : task[v].request = r => task[v].step \notin {"announce", "refund"}
    BY <1>0, <2>1 DEF Ownership, Before
  <2>5. \A v \in Workers : v # w /\ task[v].request = r => Booked(v)'
    BY <2>1, <2>2, <2>4 DEF Booking, Booked
  <2> QED BY <2>1, <2>2, <2>3, <2>5, BookingOfOne
<1>3. CASE Update(w)
  <2>1. /\ r \in Requests /\ attached[r]
        /\ UNCHANGED <<caseState, attached, ledger, gatewayRefund, lost>>
        /\ Goto(w, "close")
        /\ \A q \in Requests \ {r} : execution'[q] = execution[q]
    BY <1>0, <1>3, <1>r, BusyOnRequest DEF Update, Booking, Booked
  <2>2. /\ task'[w].step = "close" /\ task'[w].request = r
        /\ \A v \in Workers : v # w => task'[v] = task[v]
    BY <1>0, <1>r, <2>1, Moved
  <2>3. BookedRow(r)' /\ Booked(w)'
    BY <2>1, <2>2 DEF Booking, BookedRow, Booked, NoSuccessRecorded
  <2>4. \A v \in Workers : v # w /\ task[v].request = r => Booked(v)'
    BY <2>1, <2>2 DEF Booking, Booked
  <2> QED BY <2>1, <2>2, <2>3, <2>4, BookingOfOne
<1>4. CASE Close(w)
  <2>1. /\ r \in Requests /\ attached[r]
        /\ caseState' = [caseState EXCEPT ![r] = SettledStatus(w)]
        /\ UNCHANGED <<execution, attached, ledger, gatewayRefund, lost>>
        /\ Return(w)
    BY <1>0, <1>4, <1>r, BusyOnRequest DEF Close, SetState, Booking, Booked
  <2>2. \A q \in lost : caseState'[q] # "REFUNDED"
    BY <1>0, <2>1 DEF Booking, BookedRow, NoSuccessRecorded
  <2>3. task'[w].step = "idle" /\ \A v \in Workers : v # w => task'[v] = task[v]
    BY <1>0, <2>1, Ended
  <2> QED BY <2>1, <2>2, <2>3, BookingStays
<1> QED BY <1>1, <1>2, <1>3, <1>4 DEF WebhookStep

LEMMA StepBooked ==
    ASSUME IInv, Booking, [Next \/ CasesMove]_vars
    PROVE  Booking'
<1>0. TypeOK /\ TaskOK /\ TablesOK /\ Ownership /\ Truth
  BY TypeParts DEF IInv
<1> USE DEF TablesOK, dbVars, gatewayVars
<1>l. \A q \in lost : q \in Requests /\ caseState[q] # "REFUNDED"
  BY <1>0 DEF Booking, BookedRow, NoSuccessRecorded
<1>c. ASSUME UNCHANGED <<execution, attached, ledger, gatewayRefund, lost, task>>,
             \A q \in Requests : caseState'[q] = "REFUNDED" => caseState[q] = "REFUNDED"
      PROVE  Booking'
  <2>1. \A q \in Requests : BookedRow(q)'
    BY <1>c DEF Booking, BookedRow, NoSuccessRecorded
  <2>2. \A v \in Workers : Booked(v)'
    BY <1>c DEF Booking, Booked
  <2> QED BY <1>c, <2>1, <2>2 DEF Booking
<1>1. ASSUME NEW w \in Workers, NEW r \in Requests,
             \/ Register(w, r) \/ AutoApproves(w, r) \/ OperatorApproves(w, r)
      PROVE  Booking'
  <2>1. /\ UNCHANGED <<execution, attached, ledger, gatewayRefund, lost, task>>
        /\ \A q \in Requests : caseState'[q] = "REFUNDED" => caseState[q] = "REFUNDED"
    BY <1>0, <1>1 DEF Register, AutoApproves, OperatorApproves
  <2> QED BY <1>c, <2>1
<1>2. ASSUME NEW w \in Workers, NEW r \in Requests,
             ExecuteBegin(w, r) \/ \E e \in EventTypes : WebhookBegin(w, r, e)
      PROVE  Booking'
  <2>1. UNCHANGED <<caseState, execution, attached, ledger, gatewayRefund, lost>>
    BY <1>2 DEF ExecuteBegin, WebhookBegin
  <2>2. /\ task'[w].step \in {"refresh", "check", "lookup"}
        /\ \A v \in Workers : v # w => task'[v] = task[v]
    BY <1>0, <1>2, Begun DEF ExecuteBegin, WebhookBegin
  <2> QED BY <1>l, <2>1, <2>2, BookingStays
<1>3. ASSUME NEW w \in Workers, Abort(w)
      PROVE  Booking'
  <2>1. UNCHANGED <<caseState, execution, attached, ledger, gatewayRefund, lost>>
    BY <1>3 DEF Abort
  <2>2. task'[w].step = "idle" /\ \A v \in Workers : v # w => task'[v] = task[v]
    BY <1>0, <1>3, Ended DEF Abort
  <2> QED BY <1>l, <2>1, <2>2, BookingStays
<1>4. ASSUME NEW r \in Requests, GatewayResolves(r)
      PROVE  Booking'
  <2>1. /\ UNCHANGED <<caseState, execution, attached, ledger, lost, task>>
        /\ gatewayRefund[r] = "pending" /\ gatewayRefund'[r] # "none"
        /\ \A q \in Requests \ {r} : gatewayRefund'[q] = gatewayRefund[q]
    BY <1>0, <1>4 DEF GatewayResolves
  <2>2. \A q \in Requests : BookedRow(q)'
    BY <2>1 DEF Booking, BookedRow, NoSuccessRecorded
  <2>3. ASSUME NEW w \in Workers PROVE Booked(w)'
    <3>1. task[w].step = "release" => task[w].request \in Requests
      BY <1>0 DEF TaskOK
    <3> QED BY <2>1, <3>1 DEF Booking, Booked
  <2> QED BY <2>1, <2>2, <2>3 DEF Booking
<1>5. CASE CasesMove
  BY <1>5, <1>c DEF CasesMove
<1>6. CASE UNCHANGED vars
  BY <1>6, <1>c DEF vars
<1> QED BY <1>1, <1>2, <1>3, <1>4, <1>5, <1>6, ExecuteBooked, WebhookBooked DEF Next

\* and what the gateway keeps is booked, or known to be lost.
LEMMA OpenBooking == OpenSpec => []Booking
<1>1. Init => Booking
  BY DEF Init, Idle, Booking, BookedRow, Booked
<1>2. IInv /\ Booking /\ [Next \/ CasesMove]_vars => Booking'
  BY StepBooked
<1> QED BY <1>1, <1>2, OpenInvariance, PTL DEF OpenSpec

\* The money the gateway keeps is reserved or paid in the ledger, with any
\* number of processes and crashes, unless the reply that said so was lost;
\* and then nothing ever reports the refund as a success.
THEOREM TakenMoneyIsBooked == Spec => []TakenIsBooked
<1> QED BY BookingShows, OpenBooking, SpecIsOpen, PTL

\* A gateway that always answers leaves a released row without a refund.
EveryReply == ~LosesReplies

ReleasedMeansNoMoney ==
    \A r \in Requests : ledger[r] = "failed" => gatewayRefund[r] \in {"none", "failed"}

\* Then a worker that releases has moved no money either.
ReleaseIsHonest ==
    /\ \A w \in Workers : task[w].step = "release" => gatewayRefund[task[w].request] = "none"
    /\ ReleasedMeansNoMoney

LEMMA OpenReleases == EveryReply /\ OpenSpec => []ReleaseIsHonest
<1>1. EveryReply /\ IInv /\ Booking => ReleaseIsHonest
  BY DEF EveryReply, IInv, TypeOK, Booking, BookedRow, Booked, ReleaseIsHonest, ReleasedMeansNoMoney
<1>2. EveryReply => []EveryReply
  <2>1. EveryReply => EveryReply'
    BY DEF EveryReply
  <2> QED BY <2>1, PTL
<1> QED BY <1>1, <1>2, OpenInvariance, OpenBooking, PTL

-----------------------------------------------------------------------------
(* When one process serves every handler.                                   *)

OneProcess == \A v, w \in Workers : v = w

\* The case an execute works on was approved when it began and is not yet
\* refunded; the event a webhook settles by is the gateway's.
NotYetRefunded ==
    \A w \in Workers :
        task[w].step \in ExecuteSteps \cup FailureSteps => caseState[task[w].request] # "REFUNDED"

LEMMA WorkerFinal ==
    ASSUME OneProcess, IInv, NotYetRefunded, NEW w \in Workers,
           ExecuteStep(w) \/ WebhookStep(w) \/ Abort(w)
    PROVE  /\ NotYetRefunded'
           /\ \A r \in Requests : caseState[r] = "REFUNDED" => caseState'[r] = "REFUNDED"
<1>0. TypeOK /\ TaskOK /\ TablesOK /\ Truth /\ \A v \in Workers : v = w
  BY TypeParts DEF IInv, OneProcess
<1> USE DEF At, TablesOK, NotYetRefunded, dbVars, gatewayVars
<1>1. CASE UNCHANGED caseState /\ task'[w].request = task[w].request
           /\ (task[w].step \in WebhookSteps => task'[w].step \notin ExecuteSteps \cup FailureSteps)
           /\ task[w].step # "idle"
  BY <1>0, <1>1, BusyOnRequest DEF TaskOK, Tasks, Steps, ExecuteSteps, FailureSteps, WebhookSteps
<1>2. CASE UNCHANGED caseState /\ task'[w].step = "idle"
  BY <1>0, <1>2 DEF ExecuteSteps, FailureSteps
<1>3. CASE Announce(w) \/ FailSafe(w) \/ Publish(w)
  <2>1. caseState[task[w].request] # "REFUNDED" /\ task[w].request \in Requests
    BY <1>0, <1>3, BusyOnRequest DEF Announce, FailSafe, Publish, ExecuteSteps, FailureSteps
  <2>2. CASE Announce(w)
    BY <1>0, <2>1, <2>2, Moved DEF Announce, SetState
  <2>3. CASE FailSafe(w) \/ Publish(w)
    BY <1>0, <2>1, <2>3, Ended DEF FailSafe, Publish, SetState, ExecuteSteps, FailureSteps
  <2> QED BY <1>3, <2>2, <2>3
<1>4. CASE Close(w)
  <2>1. /\ task[w].request \in Requests
        /\ caseState[task[w].request] = "REFUNDED" => SettledStatus(w) = "REFUNDED"
    BY <1>0, <1>4, BusyOnRequest DEF Close, Truth, SuccessIsReal, WebhookSteps, SettledStatus
  <2> QED BY <1>0, <1>4, <2>1, Ended DEF Close, SetState, ExecuteSteps, FailureSteps
<1>5. CASE Refresh(w) \/ Store(w)
  <2>1. /\ task'[w].request = task[w].request /\ task[w].step # "idle"
        /\ task[w].step \notin WebhookSteps /\ UNCHANGED caseState
    <3>1. CASE Refresh(w)
      <4>1. PICK b : task' = [task EXCEPT ![w].step = "store", ![w].reading = b]
        BY <3>1 DEF Refresh
      <4> QED BY <1>0, <3>1, <4>1 DEF TaskOK, Tasks, Refresh, WebhookSteps
    <3>2. CASE Store(w)
      BY <1>0, <3>2 DEF Store, TaskOK, Tasks, WebhookSteps
    <3> QED BY <1>5, <3>1, <3>2
  <2> QED BY <1>1, <2>1
<1>6. CASE \/ RefreshFails(w) \/ Check(w) \/ Reserve(w) \/ Mark(w)
           \/ RefundAccepted(w) \/ RefundRejected(w) \/ RefundReplyLost(w) \/ Release(w)
           \/ Attach(w) \/ Finalize(w) \/ Record(w) \/ Abort(w)
  <2>1. UNCHANGED caseState /\ task[w].step # "idle"
    BY <1>6 DEF RefreshFails, Check, Reserve, Mark, RefundAccepted, RefundRejected,
       RefundReplyLost, Release, Attach, Finalize, Record, Abort
  <2>2. (task[w].step \notin WebhookSteps /\ \E s : Goto(w, s)) \/ Return(w)
    BY <1>6 DEF RefreshFails, Check, Reserve, Mark, RefundAccepted, RefundRejected,
       RefundReplyLost, Release, Attach, Finalize, Record, Abort, WebhookSteps
  <2> QED BY <1>0, <1>1, <1>2, <2>1, <2>2, Moved, Ended
<1>7. CASE Lookup(w) \/ Settle(w) \/ Update(w)
  <2>1. UNCHANGED caseState /\ task[w].step # "idle"
    BY <1>7 DEF Lookup, Settle, Update
  <2>2. Goto(w, "settle") \/ Goto(w, "update") \/ Goto(w, "close") \/ Return(w)
    BY <1>7 DEF Lookup, Settle, Update
  <2> QED BY <1>0, <1>1, <1>2, <2>1, <2>2, Moved, Ended DEF ExecuteSteps, FailureSteps
<1> QED BY <1>3, <1>4, <1>5, <1>6, <1>7 DEF ExecuteStep, WebhookStep

LEMMA OtherFinal ==
    ASSUME OneProcess, IInv, NotYetRefunded,
           \/ \E w \in Workers, r \in Requests :
                \/ Register(w, r) \/ AutoApproves(w, r) \/ OperatorApproves(w, r)
                \/ ExecuteBegin(w, r)
                \/ \E e \in EventTypes : WebhookBegin(w, r, e)
           \/ \E r \in Requests : GatewayResolves(r)
           \/ UNCHANGED vars
    PROVE  /\ NotYetRefunded'
           /\ \A r \in Requests : caseState[r] = "REFUNDED" => caseState'[r] = "REFUNDED"
<1>0. TypeOK /\ TaskOK /\ TablesOK
  BY TypeParts DEF IInv
<1> USE DEF At, TablesOK, NotYetRefunded, dbVars, gatewayVars
<1>1. ASSUME NEW w \in Workers, NEW r \in Requests,
             Register(w, r) \/ AutoApproves(w, r) \/ OperatorApproves(w, r)
      PROVE  /\ NotYetRefunded'
             /\ \A q \in Requests : caseState[q] = "REFUNDED" => caseState'[q] = "REFUNDED"
  <2>1. At(w, "idle") /\ task' = task /\ \A v \in Workers : v = w
    BY <1>1 DEF Register, AutoApproves, OperatorApproves, OneProcess
  <2> QED BY <1>0, <1>1, <2>1
          DEF Register, AutoApproves, OperatorApproves, ExecuteSteps, FailureSteps
<1>2. ASSUME NEW w \in Workers, NEW r \in Requests, ExecuteBegin(w, r)
      PROVE  NotYetRefunded' /\ caseState' = caseState
  BY <1>0, <1>2, Begun DEF ExecuteBegin, Approved, OneProcess
<1>3. ASSUME NEW w \in Workers, NEW r \in Requests, NEW e \in EventTypes, WebhookBegin(w, r, e)
      PROVE  NotYetRefunded' /\ caseState' = caseState
  BY <1>0, <1>3, Begun DEF WebhookBegin, ExecuteSteps, FailureSteps, OneProcess
<1>4. CASE (\E r \in Requests : GatewayResolves(r)) \/ UNCHANGED vars
  BY <1>4 DEF GatewayResolves, vars
<1> QED BY <1>1, <1>2, <1>3, <1>4

\* A step that moves no refunded case.
KeepsRefunded == \A r \in Requests : caseState[r] = "REFUNDED" => caseState'[r] = "REFUNDED"

\* With one process a refunded case stays refunded, wherever handlers were cut
\* short and replies lost: no failed refresh and no second event moves it.
THEOREM RefundedIsFinal == OneProcess /\ Spec => [][KeepsRefunded]_vars
<1>1. Init => NotYetRefunded
  BY DEF Init, NotYetRefunded, Idle, ExecuteSteps, FailureSteps
<1>2. OneProcess /\ IInv /\ NotYetRefunded /\ [Next]_vars => NotYetRefunded' /\ [KeepsRefunded]_vars
  BY WorkerFinal, OtherFinal DEF Next, KeepsRefunded
<1>3. OneProcess => []OneProcess
  <2>1. OneProcess => OneProcess'
    BY DEF OneProcess
  <2> QED BY <2>1, PTL
<1> QED BY <1>1, <1>2, <1>3, Invariance, PTL DEF Spec
=============================================================================
