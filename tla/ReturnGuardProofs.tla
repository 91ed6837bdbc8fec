------------------------- MODULE ReturnGuardProofs -------------------------
(* Theorems about the whole service, for every set of requests, payments   *)
(* and tickets, either gateway and any number of crashes; where one         *)
(* process is needed the theorem says so.  What CaseWorkflowProofs shows of *)
(* the steps before money moves is used through an instance of it.          *)
EXTENDS ReturnGuard, TLAPS

Facts == INSTANCE CaseWorkflowProofs

LEMMA PaymentsAreKnown ==
    PaymentOf \in [Requests -> Payments] /\ Captured \in [Payments -> Nat]
BY MoneyAssumption DEF Money!AmountAssumption

LEMMA FactsApply == Facts!NothingAssumption /\ Facts!CrashAssumption
BY NothingAssumption, CrashAssumption DEF Facts!NothingAssumption, Facts!CrashAssumption

-----------------------------------------------------------------------------
(* The two halves of a step.                                                *)

LEMMA CaseHalf ==
    ASSUME NEW w \in Workers
    PROVE  /\ Flow!Continue(w) => Facts!Continue(w)
           /\ Flow!Review(w) => Facts!Review(w)
           /\ Flow!Restart(w) => Facts!Restart(w)
           /\ \A r \in Requests : Flow!Register(w, r) => Facts!Register(w, r)
           /\ \A r \in Requests : \A e : Flow!ScoreBegin(w, r, e) => Facts!ScoreBegin(w, r, e)
<1> USE DEF Flow!At, Facts!At, Flow!Free, Facts!Free, Flow!Goto, Facts!Goto, Flow!Aim, Facts!Aim,
            Flow!Return, Facts!Return, Flow!Idle, Facts!Idle, Flow!Start, Facts!Start,
            Flow!recordVars, Facts!recordVars
<1>1. Flow!Continue(w) => Facts!Continue(w)
  BY DEF Flow!Continue, Facts!Continue, Flow!RecordIntegrity, Facts!RecordIntegrity,
         Flow!Decide, Facts!Decide, Flow!Open, Facts!Open, Flow!Close, Facts!Close,
         Flow!Rule, Facts!Rule, Flow!SetState, Facts!SetState, Flow!Audit, Facts!Audit,
         Flow!ActiveFor, Facts!ActiveFor, Flow!TicketsOf, Facts!TicketsOf,
         Flow!IntermediateOf, Facts!IntermediateOf, Flow!Intermediate, Facts!Intermediate,
         Flow!PosteriorActions, Facts!PosteriorActions, Flow!Actions, Facts!Actions,
         Flow!Results, Facts!Results
<1>2. Flow!Review(w) => Facts!Review(w)
  BY DEF Flow!Review, Facts!Review, Flow!VerifyBegin, Facts!VerifyBegin,
         Flow!RuleBegin, Facts!RuleBegin, Flow!CompleteBegin, Facts!CompleteBegin,
         Flow!IntermediateOf, Facts!IntermediateOf, Flow!Rulings, Facts!Rulings,
         Flow!Results, Facts!Results
<1>3. Flow!Restart(w) => Facts!Restart(w)
  BY DEF Flow!Restart, Facts!Restart
<1>4. \A r \in Requests : Flow!Register(w, r) => Facts!Register(w, r)
  BY DEF Flow!Register, Facts!Register
<1>5. \A r \in Requests : \A e : Flow!ScoreBegin(w, r, e) => Facts!ScoreBegin(w, r, e)
  BY DEF Flow!ScoreBegin, Facts!ScoreBegin
<1> QED BY <1>1, <1>2, <1>3, <1>4, <1>5

\* What CaseWorkflow sees of a money step: perhaps a state nobody approved in.
MoneyHalf ==
    /\ UNCHANGED flowVars
    /\ caseState' \in [Requests -> Facts!States]
    /\ \A r \in Requests :
         caseState'[r] \in {caseState[r], "REFUND_PROCESSING", "REFUNDED", "FAILED_SAFE"}

\* A refund handler is typed, and has passed the approval guard.
Tasks == [step : Money!Steps, request : Requests \cup {NoRequest},
          event : Money!EventTypes, reading : Nat]

TaskInv ==
    /\ task \in [Workers -> Tasks]
    /\ \A w \in Workers : task[w].step # "idle" => task[w].request \in Requests
    /\ \A w \in Workers : task[w].step \in Money!ExecuteSteps => ApprovalOnRecord(task[w].request)
    /\ dispatches \in [Requests -> Nat]

\* How a handler moves: it ends, or goes on with its request, and never from a
\* webhook or a failure back into the part that dispatches.
TaskMoves(w) ==
    \E j \in Tasks :
        /\ task' = [task EXCEPT ![w] = j]
        /\ \/ j.step = "idle"
           \/ /\ j.request = task[w].request /\ task[w].step # "idle"
              /\ j.step \in Money!ExecuteSteps => task[w].step \in Money!ExecuteSteps

\* A call of the gateway is made by a handler at "refund".
Dispatches(w) ==
    \/ UNCHANGED dispatches
    \/ /\ task[w].step = "refund"
       /\ dispatches' = [dispatches EXCEPT ![task[w].request] = @ + 1]

LEMMA GotoMoves ==
    ASSUME TaskInv, NEW w \in Workers, NEW s \in Money!Steps, Money!Goto(w, s),
           task[w].step # "idle",
           s \in Money!ExecuteSteps => task[w].step \in Money!ExecuteSteps
    PROVE  TaskMoves(w)
<1> DEFINE j == [task[w] EXCEPT !.step = s]
<1>1. task' = [task EXCEPT ![w] = j] /\ task[w] \in Tasks
  BY DEF Money!Goto, TaskInv
<1>2. j \in Tasks /\ j.step = s /\ j.request = task[w].request
  BY <1>1 DEF Tasks
<1> HIDE DEF j
<1> QED BY <1>1, <1>2 DEF TaskMoves

LEMMA ReturnMoves ==
    ASSUME TaskInv, NEW w \in Workers, Money!Return(w)
    PROVE  TaskMoves(w)
<1>1. Money!Idle \in Tasks /\ Money!Idle.step = "idle"
  BY DEF Money!Idle, Tasks, Money!Steps, Money!EventTypes
<1> QED BY <1>1 DEF Money!Return, TaskMoves

\* The steps that write the case state write one nobody approved in.
LEMMA StateWritten ==
    ASSUME Facts!TypeInv, TaskInv, NEW w \in Workers, task[w].step # "idle",
           NEW s \in {"REFUND_PROCESSING", "REFUNDED", "FAILED_SAFE"},
           UNCHANGED caseState \/ Money!SetState(w, s), UNCHANGED flowVars
    PROVE  MoneyHalf
<1>1. s \in Facts!States /\ caseState \in [Requests -> Facts!States] /\ task[w].request \in Requests
  BY DEF Facts!States, Facts!MoneyStates, Facts!TypeInv, Facts!TypeOK, TaskInv
<1> QED BY <1>1 DEF MoneyHalf, Money!SetState

LEMMA ExecuteMoves ==
    ASSUME Facts!TypeInv, TaskInv, NEW w \in Workers, Money!ExecuteStep(w), UNCHANGED flowVars
    PROVE  TaskMoves(w) /\ Dispatches(w) /\ MoneyHalf
<1> USE DEF Money!At, Money!dbVars, Money!gatewayVars, Money!Steps, Money!ExecuteSteps,
            Money!FailureSteps
<1>1. CASE Money!Refresh(w) \/ Money!Store(w)
  <2> PICK s \in {"store", "check"}, n \in Nat :
         /\ task' = [task EXCEPT ![w].step = s, ![w].reading = n]
         /\ task[w].step \in {"refresh", "store"}
    <3>1. CASE Money!Refresh(w)
      <4>1. PaymentOf[task[w].request] \in Payments
        BY <3>1, PaymentsAreKnown DEF Money!Refresh, TaskInv
      <4>2. \A b \in 0 .. Captured[PaymentOf[task[w].request]] : b \in Nat
        BY <4>1, PaymentsAreKnown
      <4> QED BY <3>1, <4>2 DEF Money!Refresh
    <3>2. CASE Money!Store(w)
      BY <3>2 DEF Money!Store
    <3> QED BY <1>1, <3>1, <3>2
  <2> DEFINE j == [task[w] EXCEPT !.step = s, !.reading = n]
  <2>1. task' = [task EXCEPT ![w] = j] /\ task[w] \in Tasks
    BY DEF TaskInv
  <2>2. j \in Tasks /\ j.step = s /\ j.request = task[w].request
    BY <2>1 DEF Tasks
  <2> HIDE DEF j
  <2>3. UNCHANGED <<caseState, dispatches>>
    BY <1>1 DEF Money!Refresh, Money!Store
  <2>4. task[w].step # "idle"
    OBVIOUS
  <2> QED BY <2>1, <2>2, <2>3, <2>4, StateWritten DEF TaskMoves, Dispatches
<1>2. CASE \/ Money!RefreshFails(w) \/ Money!Check(w) \/ Money!Reserve(w) \/ Money!Mark(w)
           \/ Money!Release(w) \/ Money!Attach(w) \/ Money!Finalize(w) \/ Money!Record(w)
  <2>1. /\ task[w].step \in Money!ExecuteSteps \cup Money!FailureSteps
        /\ UNCHANGED <<caseState, dispatches>>
        /\ \/ Money!Return(w)
           \/ \E s \in Money!Steps :
                Money!Goto(w, s) /\ (s \in Money!ExecuteSteps => task[w].step \in Money!ExecuteSteps)
    BY <1>2 DEF Money!RefreshFails, Money!Check, Money!Reserve, Money!Mark, Money!Release,
                Money!Attach, Money!Finalize, Money!Record
  <2> QED BY <2>1, ReturnMoves, GotoMoves, StateWritten DEF Dispatches
<1>3. CASE Money!RefundAccepted(w) \/ Money!RefundRejected(w) \/ Money!RefundReplyLost(w)
  <2>1. /\ task[w].step = "refund" /\ UNCHANGED caseState
        /\ Money!Goto(w, "attach") \/ Money!Goto(w, "release")
        /\ dispatches' = [dispatches EXCEPT ![task[w].request] = @ + 1]
    BY <1>3 DEF Money!RefundAccepted, Money!RefundRejected, Money!RefundReplyLost, Money!CountDispatch
  <2> QED BY <2>1, GotoMoves, StateWritten DEF Dispatches
<1>4. CASE Money!Announce(w) \/ Money!FailSafe(w) \/ Money!Publish(w)
  <2>1. /\ task[w].step \in Money!ExecuteSteps \cup Money!FailureSteps
        /\ UNCHANGED dispatches
        /\ \E s \in {"REFUND_PROCESSING", "REFUNDED", "FAILED_SAFE"} : Money!SetState(w, s)
        /\ \/ Money!Return(w)
           \/ task[w].step = "announce" /\ Money!Goto(w, "refund")
    BY <1>4 DEF Money!Announce, Money!FailSafe, Money!Publish, Money!DispatchStatus
  <2> QED BY <2>1, ReturnMoves, GotoMoves, StateWritten DEF Dispatches
<1> QED BY <1>1, <1>2, <1>3, <1>4 DEF Money!ExecuteStep

LEMMA WebhookMoves ==
    ASSUME Facts!TypeInv, TaskInv, NEW w \in Workers, Money!WebhookStep(w), UNCHANGED flowVars
    PROVE  TaskMoves(w) /\ Dispatches(w) /\ MoneyHalf
<1> USE DEF Money!At, Money!dbVars, Money!gatewayVars, Money!Steps, Money!ExecuteSteps,
            Money!WebhookSteps
<1>1. /\ task[w].step \in Money!WebhookSteps /\ UNCHANGED dispatches
      /\ \/ Money!Return(w)
         \/ \E s \in {"settle", "update", "close"} : Money!Goto(w, s)
  BY DEF Money!WebhookStep, Money!Lookup, Money!Settle, Money!Update, Money!Close
<1>2. \/ UNCHANGED caseState
      \/ \E s \in {"REFUNDED", "FAILED_SAFE"} : Money!SetState(w, s)
  BY DEF Money!WebhookStep, Money!Lookup, Money!Settle, Money!Update, Money!Close,
         Money!SettledStatus
<1> QED BY <1>1, <1>2, ReturnMoves, GotoMoves, StateWritten DEF Dispatches

-----------------------------------------------------------------------------
(* The halves together.                                                     *)

CaseHalfStep == [Facts!Next]_(Facts!vars)

\* A step of one half is a stutter, or next to one, of the other.
TaskStutters == UNCHANGED <<task, dispatches>>

LEMMA CaseStepHalves ==
    ASSUME NEW w \in Workers, CaseStep(w)
    PROVE  CaseHalfStep /\ TaskStutters
<1>1. ASSUME NEW r \in Requests, RegisterCase(w, r) PROVE CaseHalfStep /\ TaskStutters
  BY <1>1, CaseHalf DEF RegisterCase, CaseHalfStep, TaskStutters, Facts!Next, Money!Register,
                        Money!gatewayVars
<1>2. ASSUME NEW r \in Requests, ScoreCase(w, r) PROVE CaseHalfStep /\ TaskStutters
  <2>1. Facts!ScoreBegin(w, r, Money!Eligible(r)) /\ UNCHANGED moneyVars
    BY <1>2, CaseHalf DEF ScoreCase
  <2>2. Facts!ScoreBegin(w, r, TRUE) \/ Facts!ScoreBegin(w, r, FALSE)
    <3>1. CASE Money!Eligible(r)
      BY <2>1, <3>1 DEF Facts!ScoreBegin
    <3>2. CASE ~Money!Eligible(r)
      BY <2>1, <3>2 DEF Facts!ScoreBegin
    <3> QED BY <3>1, <3>2
  <2> QED BY <2>1, <2>2 DEF CaseHalfStep, TaskStutters, Facts!Next, moneyVars
<1>3. CASE (Flow!Review(w) \/ Flow!Continue(w)) /\ UNCHANGED moneyVars
  BY <1>3, CaseHalf DEF CaseHalfStep, TaskStutters, Facts!Next, moneyVars
<1> QED BY <1>1, <1>2, <1>3 DEF CaseStep

LEMMA BeginHalves ==
    ASSUME Facts!ApprovalInv, TaskInv, NEW w \in Workers, NEW r \in Requests, UNCHANGED flowVars,
           Money!ExecuteBegin(w, r) \/ \E e \in Money!EventTypes : Money!WebhookBegin(w, r, e)
    PROVE  MoneyHalf /\ TaskInv' /\ UNCHANGED dispatches
<1>1. UNCHANGED <<caseState, dispatches>>
  BY DEF Money!ExecuteBegin, Money!WebhookBegin, Money!dbVars, Money!gatewayVars
<1>2. MoneyHalf
  BY <1>1 DEF MoneyHalf, Facts!ApprovalInv, Facts!TypeInv, Facts!TypeOK
<1>3. PICK s \in Money!Steps, e \in Money!EventTypes :
         /\ task' = [task EXCEPT ![w] = [step |-> s, request |-> r, event |-> e, reading |-> 0]]
         /\ s \in Money!ExecuteSteps => ApprovalOnRecord(r)
  <2>1. CASE Money!ExecuteBegin(w, r)
    <3>1. caseState[r] \in Money!Approved
      BY <2>1 DEF Money!ExecuteBegin
    <3>2. ApprovalOnRecord(r)
      BY <3>1 DEF Money!Approved, Facts!ApprovalInv, Facts!RowsAgree, ApprovalOnRecord
    <3> QED BY <2>1, <3>2 DEF Money!ExecuteBegin, Money!Begin, Money!Steps, Money!ExecuteSteps,
                              Money!EventTypes
  <2>2. ASSUME NEW e \in Money!EventTypes, Money!WebhookBegin(w, r, e)
        PROVE  /\ task' = [task EXCEPT ![w] = [step |-> "lookup", request |-> r, event |-> e,
                                               reading |-> 0]]
               /\ "lookup" \in Money!Steps \ Money!ExecuteSteps
    BY <2>2 DEF Money!WebhookBegin, Money!Begin, Money!Steps, Money!ExecuteSteps,
                Money!WebhookSteps
  <2> QED BY <2>1, <2>2
<1> DEFINE j == [step |-> s, request |-> r, event |-> e, reading |-> 0]
<1>4. j \in Tasks /\ j.step = s /\ j.request = r
  BY DEF Tasks
<1>5. task' = [task EXCEPT ![w] = j]
  BY <1>3
<1> HIDE DEF j
<1>6. task' \in [Workers -> Tasks] /\ task'[w] = j /\ \A u \in Workers \ {w} : task'[u] = task[u]
  BY <1>4, <1>5 DEF TaskInv
<1>7. \A u \in Workers : (task[u].step \in Money!ExecuteSteps => ApprovalOnRecord(task[u].request))'
  BY <1>3, <1>4, <1>6 DEF TaskInv, ApprovalOnRecord, flowVars
<1> QED BY <1>1, <1>2, <1>4, <1>6, <1>7 DEF TaskInv

\* Decisions and rulings are only added.
LEMMA RecordsStay ==
    ASSUME Facts!TypeInv, CaseHalfStep \/ UNCHANGED flowVars
    PROVE  \A r \in Requests : ApprovalOnRecord(r) => ApprovalOnRecord(r)'
<1> USE DEF ApprovalOnRecord
<1>1. CASE UNCHANGED <<stageA, posterior, rulings>>
  BY <1>1
<1>2. ASSUME NEW w \in Workers, Facts!Decide(w)
      PROVE  \A r \in Requests : ApprovalOnRecord(r) => ApprovalOnRecord(r)'
  BY <1>2 DEF Facts!Decide, Facts!TypeInv, Facts!TypeOK
<1>3. ASSUME NEW w \in Workers, Facts!Rule(w)
      PROVE  \A r \in Requests : ApprovalOnRecord(r) => ApprovalOnRecord(r)'
  BY <1>3 DEF Facts!Rule, Facts!TypeInv, Facts!TypeOK
<1>4. ASSUME CaseHalfStep, ~(\E w \in Workers : Facts!Decide(w) \/ Facts!Rule(w))
      PROVE  UNCHANGED <<stageA, posterior, rulings>>
  BY <1>4 DEF CaseHalfStep, Facts!Next, Facts!vars, Facts!recordVars, Facts!Register,
              Facts!ScoreBegin, Facts!Review, Facts!VerifyBegin, Facts!RuleBegin,
              Facts!CompleteBegin, Facts!Continue, Facts!RecordIntegrity, Facts!Open,
              Facts!Close, Facts!SetState, Facts!Audit, Facts!Restart
<1> QED BY <1>1, <1>2, <1>3, <1>4 DEF flowVars

\* Money steps leave the rows of a case and its handlers alone.
LEMMA MoneyKeepsCases ==
    ASSUME Facts!ApprovalInv, MoneyHalf
    PROVE  Facts!ApprovalInv'
<1> USE DEF MoneyHalf, flowVars, Facts!ApprovalInv
<1>1. Facts!TypeInv'
  BY DEF Facts!TypeInv, Facts!TypeOK, Facts!Loaded, Facts!TicketsAreCases
<1>2. Facts!RowsAgree'
  BY DEF Facts!RowsAgree
<1>3. Facts!TicketsAgree' /\ Facts!Grounds'
  BY DEF Facts!TicketsAgree, Facts!Grounds
<1> QED BY <1>1, <1>2, <1>3

LEMMA TaskStays ==
    ASSUME TaskInv, NEW w \in Workers, TaskMoves(w), Dispatches(w),
           \A r \in Requests : ApprovalOnRecord(r) => ApprovalOnRecord(r)'
    PROVE  TaskInv'
<1>1. PICK j \in Tasks :
        /\ task' = [task EXCEPT ![w] = j]
        /\ \/ j.step = "idle"
           \/ /\ j.request = task[w].request /\ task[w].step # "idle"
              /\ j.step \in Money!ExecuteSteps => task[w].step \in Money!ExecuteSteps
  BY DEF TaskMoves
<1>2. task' \in [Workers -> Tasks] /\ task'[w] = j /\ \A u \in Workers \ {w} : task'[u] = task[u]
  BY <1>1 DEF TaskInv
<1>3. \A u \in Workers : task'[u].step # "idle" => task'[u].request \in Requests
  BY <1>1, <1>2 DEF TaskInv
<1>4. \A u \in Workers : (task[u].step \in Money!ExecuteSteps => ApprovalOnRecord(task[u].request))'
  <2>1. "idle" \notin Money!ExecuteSteps
    BY DEF Money!ExecuteSteps
  <2>2. \A u \in Workers : task'[u].step \in Money!ExecuteSteps =>
          task[u].step \in Money!ExecuteSteps /\ task'[u].request = task[u].request
    BY <1>1, <1>2, <2>1
  <2> QED BY <1>3, <2>1, <2>2 DEF TaskInv, ApprovalOnRecord
<1>5. dispatches' \in [Requests -> Nat]
  BY DEF Dispatches, TaskInv
<1> QED BY <1>2, <1>3, <1>4, <1>5 DEF TaskInv

\* What every step of the service is: one of CaseWorkflow, or a money step of
\* a process that runs no other handler; and a call of the gateway is made by a
\* handler that passed the guard.
LEMMA Halves ==
    ASSUME Facts!ApprovalInv, TaskInv, [Next]_vars
    PROVE  /\ CaseHalfStep \/ \E w \in Workers : Flow!Free(w) /\ MoneyHalf
           /\ TaskInv'
           /\ UNCHANGED dispatches \/ \E w \in Workers : Dispatches(w)
<1>0. Facts!TypeInv
  BY DEF Facts!ApprovalInv
<1>1. ASSUME CaseHalfStep, TaskStutters
      PROVE  TaskInv' /\ UNCHANGED dispatches
  <2>1. \A r \in Requests : ApprovalOnRecord(r) => ApprovalOnRecord(r)'
    BY <1>0, <1>1, RecordsStay
  <2>2. "idle" \notin Money!ExecuteSteps
    BY DEF Money!ExecuteSteps
  <2> QED BY <1>1, <2>1, <2>2 DEF TaskInv, TaskStutters, ApprovalOnRecord
<1>2. ASSUME NEW w \in Workers, CaseStep(w)
      PROVE  CaseHalfStep /\ TaskInv' /\ UNCHANGED dispatches
  BY <1>1, <1>2, CaseStepHalves
<1>3. ASSUME NEW w \in Workers, RefundStep(w)
      PROVE  MoneyHalf /\ TaskInv' /\ Dispatches(w)
  <2>0. UNCHANGED flowVars
    BY <1>3 DEF RefundStep
  <2>1. CASE \E r \in Requests :
               Money!ExecuteBegin(w, r) \/ \E e \in Money!EventTypes : Money!WebhookBegin(w, r, e)
    BY <2>0, <2>1, BeginHalves DEF Dispatches
  <2>2. CASE Money!ExecuteStep(w) \/ Money!WebhookStep(w)
    <3>1. TaskMoves(w) /\ Dispatches(w) /\ MoneyHalf
      BY <1>0, <2>0, <2>2, ExecuteMoves, WebhookMoves
    <3> QED BY <1>0, <2>0, <3>1, RecordsStay, TaskStays
  <2> QED BY <1>3, <2>1, <2>2 DEF RefundStep
<1>4. ASSUME NEW w \in Workers, Crash(w)
      PROVE  CaseHalfStep /\ TaskInv' /\ UNCHANGED dispatches
  <2>1. CaseHalfStep
    BY <1>4, CaseHalf DEF Crash, CaseHalfStep, Facts!Next
  <2>2. CASE UNCHANGED moneyVars
    BY <1>1, <2>1, <2>2 DEF moneyVars, TaskStutters
  <2>3. CASE Money!Abort(w)
    <3>1. TaskMoves(w) /\ UNCHANGED dispatches
      BY <2>3, ReturnMoves DEF Money!Abort, Money!gatewayVars
    <3> QED BY <1>0, <2>1, <3>1, RecordsStay, TaskStays DEF Dispatches
  <2> QED BY <1>4, <2>1, <2>2, <2>3 DEF Crash
<1>5. CASE Gateway \/ UNCHANGED vars
  <2>1. UNCHANGED <<caseState, flowVars>> /\ TaskStutters
    BY <1>5 DEF Gateway, Money!GatewayResolves, Money!dbVars, vars, moneyVars, TaskStutters
  <2>2. CaseHalfStep
    BY <2>1 DEF CaseHalfStep, Facts!vars, Facts!recordVars, flowVars
  <2> QED BY <1>1, <2>1, <2>2
<1>6. \A w \in Workers : RefundStep(w) => Flow!Free(w)
  BY DEF RefundStep
<1> QED BY <1>2, <1>3, <1>4, <1>5, <1>6 DEF Next

-----------------------------------------------------------------------------
(* An approval before money, with any number of processes.                  *)

GuardInv == Facts!ApprovalInv /\ TaskInv /\ MoneyNeedsApproval

LEMMA StepGuard == GuardInv /\ [Next]_vars => GuardInv'
<1> SUFFICES ASSUME GuardInv, [Next]_vars PROVE GuardInv'
  OBVIOUS
<1>0. Facts!ApprovalInv /\ Facts!TypeInv /\ TaskInv /\ MoneyNeedsApproval
  BY DEF GuardInv, Facts!ApprovalInv
<1>1. Facts!ApprovalInv'
  BY <1>0, Halves, FactsApply, MoneyKeepsCases, Facts!StepApproval DEF CaseHalfStep
<1>2. TaskInv'
  BY <1>0, Halves
<1>3. \A r \in Requests : ApprovalOnRecord(r) => ApprovalOnRecord(r)'
  BY <1>0, Halves, RecordsStay DEF MoneyHalf
<1>4. \A r \in Requests : dispatches'[r] > 0 => ApprovalOnRecord(r)
  <2>1. CASE UNCHANGED dispatches
    BY <1>0, <2>1 DEF MoneyNeedsApproval
  <2>2. ASSUME NEW w \in Workers, task[w].step = "refund",
               dispatches' = [dispatches EXCEPT ![task[w].request] = @ + 1]
        PROVE  \A r \in Requests : dispatches'[r] > 0 => ApprovalOnRecord(r)
    <3>1. ApprovalOnRecord(task[w].request) /\ task[w].request \in Requests
      BY <1>0, <2>2 DEF TaskInv, Money!ExecuteSteps
    <3> QED BY <1>0, <2>2, <3>1 DEF MoneyNeedsApproval, TaskInv
  <2> QED BY <1>0, <2>1, <2>2, Halves DEF Dispatches
<1> QED BY <1>1, <1>2, <1>3, <1>4 DEF GuardInv, MoneyNeedsApproval

LEMMA InitGuard == Init => GuardInv
<1> SUFFICES ASSUME Init PROVE GuardInv
  OBVIOUS
<1>1. Facts!Init
  BY DEF Init, Flow!Init, Facts!Init, Flow!NoTicketRow, Facts!NoTicketRow, Flow!Idle, Facts!Idle
<1>2. Facts!ApprovalInv
  BY <1>1, FactsApply, Facts!InitApproval
<1>3. TaskInv /\ MoneyNeedsApproval
  BY DEF Init, Money!Init, Money!Idle, TaskInv, Tasks, Money!Steps, Money!ExecuteSteps,
         Money!EventTypes, MoneyNeedsApproval
<1> QED BY <1>2, <1>3 DEF GuardInv

LEMMA GuardInvariance == Spec => []GuardInv
BY InitGuard, StepGuard, PTL DEF Spec

\* No request reaches the gateway without an approving decision on record,
\* with any number of processes that overwrite each other's states.
THEOREM ApprovalBeforeMoney == Spec => []MoneyNeedsApproval
<1>1. GuardInv => MoneyNeedsApproval
  BY DEF GuardInv
<1> QED BY <1>1, GuardInvariance, PTL

-----------------------------------------------------------------------------
(* A human before money in adverse cases, with one process.                 *)

OneProcess == \A u, v \in Workers : u = v

LEMMA MoneyKeepsSolo ==
    ASSUME OneProcess, Facts!SoloInv, NEW w \in Workers, Flow!Free(w), MoneyHalf
    PROVE  Facts!SoloInv'
<1>1. Facts!ApprovalInv /\ Facts!TypeOK
  BY DEF Facts!SoloInv, Facts!ApprovalInv, Facts!TypeInv
<1>2. job[w].step = "idle" /\ job[w].ticket = NoTicket /\ job' = job
  BY <1>1 DEF Flow!Free, Flow!At, Facts!ApprovalInv, Facts!TypeInv, Facts!Loaded, Facts!Carries,
              MoneyHalf, flowVars
<1>3. Facts!InStep(job'[w], caseState', verification')
  BY <1>2 DEF Facts!InStep
<1>4. UNCHANGED <<verification, posterior>>
  BY DEF MoneyHalf, flowVars
<1>5. \A r \in Requests : caseState'[r] = "VERIFY" => caseState[r] = "VERIFY"
  BY DEF MoneyHalf
<1>6. Facts!OneProcess
  BY DEF OneProcess, Facts!OneProcess
<1>7. Facts!AllInStep' /\ Facts!AtMostOneVerifier'
  BY <1>3, <1>4, <1>5, <1>6, FactsApply, Facts!SameTickets
<1> QED BY <1>1, <1>7, MoneyKeepsCases DEF Facts!SoloInv

SoloInv == Facts!SoloInv /\ GuardInv

LEMMA SoloInvariance == OneProcess /\ Spec => []SoloInv
<1>1. OneProcess => Facts!OneProcess
  BY DEF OneProcess, Facts!OneProcess
<1>2. Init => Facts!SoloInv
  <2> SUFFICES ASSUME Init PROVE Facts!SoloInv
    OBVIOUS
  <2>1. Facts!Init
    BY DEF Init, Flow!Init, Facts!Init, Flow!NoTicketRow, Facts!NoTicketRow, Flow!Idle, Facts!Idle
  <2> QED BY <2>1, FactsApply, Facts!InitApproval, Facts!InitSolo DEF Facts!SoloInv
<1>3. OneProcess /\ Facts!SoloInv /\ GuardInv /\ [Next]_vars => Facts!SoloInv'
  BY <1>1, Halves, FactsApply, Facts!StepSolo, MoneyKeepsSolo DEF GuardInv, CaseHalfStep
<1>4. OneProcess => []OneProcess
  <2>1. OneProcess => OneProcess'
    BY DEF OneProcess
  <2> QED BY <2>1, PTL
<1> QED BY <1>2, <1>3, <1>4, GuardInvariance, PTL DEF Spec, SoloInv

\* In the deployed service the gateway is asked for the refund of an ineligible
\* payment, of a case sent to review or of inconsistent evidence only after a
\* named operator approved it, whatever handlers were cut short.
THEOREM HumanFirst == OneProcess /\ Spec => []HumanBeforeMoney
<1>1. SoloInv => HumanBeforeMoney
  <2> SUFFICES ASSUME SoloInv, NEW r \in Requests, dispatches[r] > 0,
                      \/ integrity[r] = "ineligible"
                      \/ stageA[r] = "MANUAL_REVIEW"
                      \/ \E t \in Flow!TicketsOf(r) : verification[t].result = "inconsistent",
                      "APPROVED" \notin rulings[r]
               PROVE  FALSE
    BY DEF HumanBeforeMoney
  <2>1. "AUTO_APPROVE" \in {stageA[r], posterior[r]}
    BY DEF SoloInv, GuardInv, MoneyNeedsApproval, ApprovalOnRecord
  <2>2. integrity[r] = "eligible" /\ stageA[r] # "MANUAL_REVIEW"
    BY <2>1 DEF SoloInv, Facts!SoloInv, Facts!ApprovalInv, Facts!RowsAgree
  <2>3. PICK t \in Tickets : verification[t].request = r /\ verification[t].result = "inconsistent"
    BY <2>2 DEF Flow!TicketsOf
  <2>4. stageA[r] = "VERIFY"
    BY <2>3, NothingAssumption DEF SoloInv, Facts!SoloInv, Facts!ApprovalInv, Facts!TicketsAgree
  <2>5. posterior[r] = "AUTO_APPROVE"
    BY <2>1, <2>4
  <2>6. posterior[r] \in Facts!Deserved(verification[t])
    <3>1. Facts!RowInStep(verification[t], caseState, posterior)
      BY DEF SoloInv, Facts!SoloInv, Facts!AllInStep
    <3> QED BY <2>3, <2>5, <3>1, NothingAssumption DEF Facts!RowInStep
  <2> QED BY <2>3, <2>5, <2>6
          DEF Facts!Deserved, Facts!PosteriorActions, Facts!IntermediateOf
<1> QED BY <1>1, SoloInvariance, PTL

-----------------------------------------------------------------------------
(* The service implements RefundExecution, with one process.                *)

Before == {"RECEIVED", "VERIFY", "VERIFYING", "RETURN_FIRST", "MANUAL_REVIEW",
           "VERIFIED_CLEAR", "VERIFIED_INCONSISTENT", "INCONCLUSIVE", "REJECTED_BY_OPERATOR"}
Settling == {"AUTO_APPROVE", "APPROVED", "REFUND_PROCESSING", "REFUNDED", "FAILED_SAFE"}

\* Where the case of a handler is at each of its steps.
Placed(w) ==
    LET j == job[w]  state == caseState[job[w].request] IN
    /\ j.step = "integrity" => state = "RECEIVED"
    /\ j.step = "decide" /\ j.ticket = NoTicket => state = "RECEIVED"
    /\ j.step = "decide" /\ j.ticket # NoTicket => state \in Facts!Intermediate
    /\ j.step = "close" => state = "VERIFYING"
    /\ j.step = "rule" => state \in {"MANUAL_REVIEW", "VERIFIED_INCONSISTENT"}
    /\ j.step = "setState" =>
         /\ state \in Before
         /\ j.target \in (Before \ {"RECEIVED"}) \cup {"AUTO_APPROVE", "APPROVED", "FAILED_SAFE"}
         /\ state = "VERIFYING" => j.target \in Facts!Intermediate
         /\ j.target = "FAILED_SAFE" => ~ApprovalOnRecord(j.request)

CasePlaces ==
    /\ \A w \in Workers : Placed(w)
    /\ \A r \in Requests : caseState[r] \in {"ABSENT", "RECEIVED"} => rulings[r] = {}
    /\ \A t \in Tickets : verification[t].status = "ACTIVE" /\ verification[t].known =>
         caseState[verification[t].request] = "VERIFYING"

\* Money moves for approved cases only.
MoneyTouched(r) ==
    gatewayRefund[r] # "none" \/ \E w \in Workers : task[w].step # "idle" /\ task[w].request = r

MoneyPlaces ==
    /\ gatewayRefund \in [Requests -> {"none", "pending", "processed", "failed"}]
    /\ \A r \in Requests : MoneyTouched(r) => caseState[r] \in Settling /\ ApprovalOnRecord(r)

LEMMA BeginPlaces ==
    ASSUME OneProcess, Facts!SoloInv, CasePlaces, NEW w \in Workers,
           \/ \E r \in Requests :
                Facts!Register(w, r) \/ \E e \in BOOLEAN : Facts!ScoreBegin(w, r, e)
           \/ Facts!Review(w)
    PROVE  CasePlaces'
<1>0. Facts!TypeOK /\ Facts!TicketsAreCases /\ \A v \in Workers : v = w
  BY DEF Facts!SoloInv, Facts!ApprovalInv, Facts!TypeInv, OneProcess
<1> USE DEF Facts!Start, Facts!TypeOK, Facts!recordVars
<1>1. ASSUME NEW r \in Requests, Facts!Register(w, r) PROVE CasePlaces'
  <2>1. job'[w].step = "audit"
    BY <1>0, <1>1 DEF Facts!Register
  <2>2. Placed(w)'
    BY <2>1 DEF Placed
  <2> QED BY <1>0, <1>1, <2>2 DEF CasePlaces, Facts!Register, Facts!TicketsAreCases
<1>2. ASSUME NEW r \in Requests, NEW e \in BOOLEAN, Facts!ScoreBegin(w, r, e) PROVE CasePlaces'
  <2>1. job'[w].step = "integrity" /\ job'[w].request = r
    BY <1>0, <1>2 DEF Facts!ScoreBegin
  <2>2. Placed(w)'
    BY <1>2, <2>1 DEF Placed, Facts!ScoreBegin
  <2> QED BY <1>0, <1>2, <2>2 DEF CasePlaces, Facts!ScoreBegin
<1>3. ASSUME NEW r \in Requests, Facts!VerifyBegin(w, r) PROVE CasePlaces'
  <2>1. job'[w].step = "open"
    BY <1>0, <1>3 DEF Facts!VerifyBegin
  <2>2. Placed(w)'
    BY <2>1 DEF Placed
  <2> QED BY <1>0, <1>3, <2>2 DEF CasePlaces, Facts!VerifyBegin
<1>4. ASSUME NEW r \in Requests, NEW ruling \in Facts!Rulings, Facts!RuleBegin(w, r, ruling)
      PROVE  CasePlaces'
  <2>1. job'[w].step = "rule" /\ job'[w].request = r
    BY <1>0, <1>4 DEF Facts!RuleBegin
  <2>2. Placed(w)'
    BY <1>4, <2>1 DEF Placed, Facts!RuleBegin
  <2> QED BY <1>0, <1>4, <2>2 DEF CasePlaces, Facts!RuleBegin
<1>5. ASSUME NEW t \in Tickets, NEW result \in Facts!Results, Facts!CompleteBegin(w, t, result)
      PROVE  CasePlaces'
  <2>1. job'[w].step = "close" /\ job'[w].request = verification[t].request
    BY <1>0, <1>5 DEF Facts!CompleteBegin
  <2>2. Placed(w)'
    BY <1>5, <2>1 DEF Placed, Facts!CompleteBegin, CasePlaces
  <2> QED BY <1>0, <1>5, <2>2 DEF CasePlaces, Facts!CompleteBegin
<1> QED BY <1>1, <1>2, <1>3, <1>4, <1>5 DEF Facts!Review

LEMMA ContinuePlaces ==
    ASSUME OneProcess, Facts!SoloInv, CasePlaces, NEW w \in Workers, Facts!Continue(w)
    PROVE  CasePlaces'
<1> DEFINE j == job[w]
           r == j.request
<1>0. /\ Facts!TypeOK /\ Facts!RowsAgree /\ j \in Facts!Jobs /\ Facts!Carries(j)
      /\ Facts!InStep(j, caseState, verification) /\ Placed(w)
      /\ \A v \in Workers : v = w
  BY DEF Facts!SoloInv, Facts!ApprovalInv, Facts!TypeInv, Facts!TypeOK, Facts!Loaded,
         Facts!AllInStep, CasePlaces, OneProcess
<1>a. r \in Requests
  BY <1>0 DEF Facts!Continue, Facts!RecordIntegrity, Facts!Decide, Facts!Open, Facts!Close,
              Facts!Rule, Facts!SetState, Facts!Audit, Facts!At, Facts!Carries
<1>b. Facts!Return(w) => Placed(w)'
  BY <1>0 DEF Facts!Return, Facts!Idle, Facts!TypeOK, Placed
<1>c. Facts!Goto(w, "setState") =>
        /\ job'[w].step = "setState" /\ job'[w].target = j.target /\ job'[w].request = r
        /\ job'[w].ticket = j.ticket
  BY <1>0 DEF Facts!Goto, Facts!TypeOK, Facts!Jobs
<1> USE DEF Facts!At
<1>1. CASE Facts!RecordIntegrity(w)
  <2>1. j.step = "integrity" /\ j.ticket = NoTicket /\ caseState[r] = "RECEIVED"
    BY <1>0, <1>1 DEF Facts!RecordIntegrity, Placed, Facts!Carries
  <2>2. UNCHANGED <<caseState, stageA, posterior, verification, rulings>>
    BY <1>1 DEF Facts!RecordIntegrity
  <2>3. Placed(w)'
    <3>1. ASSUME NEW s \in {"setState", "decide"}, NEW a \in Facts!Actions \cup {"FAILED_SAFE"},
                 s = "setState" => a \in {"MANUAL_REVIEW", "FAILED_SAFE"},
                 integrity[r] = "none", Facts!Aim(w, s, a)
          PROVE  Placed(w)'
      <4>1. job'[w].step = s /\ job'[w].target = a /\ job'[w].request = r /\ job'[w].ticket = NoTicket
        BY <1>0, <2>1, <3>1 DEF Facts!Aim, Facts!TypeOK, Facts!Jobs
      <4>2. ~ApprovalOnRecord(r)
        BY <1>0, <1>a, <2>1, <3>1 DEF CasePlaces, Facts!RowsAgree, ApprovalOnRecord, Facts!TypeOK
      <4>3. ~ApprovalOnRecord(job[w].request)'
        BY <2>2, <4>1, <4>2 DEF ApprovalOnRecord
      <4>4. caseState'[job'[w].request] = "RECEIVED"
        BY <2>1, <2>2, <4>1
      <4> QED BY <3>1, <4>1, <4>3, <4>4 DEF Placed, Before
    <3>2. \/ Facts!Return(w)
          \/ integrity[r] = "none" /\ Facts!Aim(w, "setState", "MANUAL_REVIEW")
          \/ integrity[r] = "none" /\ Facts!Aim(w, "setState", "FAILED_SAFE")
          \/ integrity[r] = "none" /\ \E a \in Facts!Actions : Facts!Aim(w, "decide", a)
      BY <1>1 DEF Facts!RecordIntegrity
    <3>3. "MANUAL_REVIEW" \in Facts!Actions
      BY DEF Facts!Actions
    <3> QED BY <1>b, <3>1, <3>2, <3>3
  <2> QED BY <1>0, <2>2, <2>3 DEF CasePlaces
<1>2. CASE Facts!Decide(w)
  <2>1. /\ j.step = "decide" /\ j.target \in Facts!Actions /\ caseState[r] \in Before \ {"VERIFYING"}
        /\ UNCHANGED <<caseState, verification, rulings>>
    BY <1>0, <1>2 DEF Facts!Decide, Placed, Facts!Carries, Before, Facts!Intermediate
  <2>2. Placed(w)'
    <3>1. CASE Facts!Goto(w, "setState")
      BY <1>c, <2>1, <3>1 DEF Placed, Facts!Actions, Before
    <3> QED BY <1>2, <1>b, <3>1 DEF Facts!Decide
  <2> QED BY <1>0, <2>1, <2>2 DEF CasePlaces
<1>3. CASE Facts!Open(w)
  <2>1. /\ j.step = "open" /\ j.target = "VERIFYING" /\ caseState[r] = "VERIFY"
        /\ UNCHANGED <<caseState, stageA, posterior, rulings>>
    BY <1>0, <1>3 DEF Facts!Open, Facts!Carries, Facts!InStep
  <2>2. CASE Facts!Return(w) /\ UNCHANGED verification
    BY <1>0, <1>b, <2>1, <2>2 DEF CasePlaces
  <2>3. ASSUME NEW t \in Tickets, verification[t].status = "none",
               verification' = [verification EXCEPT ![t].request = r, ![t].status = "ACTIVE"],
               job' = [job EXCEPT ![w].step = "setState", ![w].ticket = t]
        PROVE  CasePlaces'
    <3>1. job'[w].step = "setState" /\ job'[w].target = "VERIFYING" /\ job'[w].request = r
      BY <1>0, <2>1, <2>3 DEF Facts!TypeOK, Facts!Jobs
    <3>2. Placed(w)'
      BY <2>1, <3>1 DEF Placed, Before
    <3>3. /\ verification'[t].known = verification[t].known /\ ~verification[t].known
          /\ \A u \in Tickets \ {t} : verification'[u] = verification[u]
      BY <1>0, <2>3 DEF Facts!TypeOK, Facts!SoloInv, Facts!AllInStep, Facts!RowInStep
    <3> QED BY <1>0, <2>1, <3>2, <3>3 DEF CasePlaces
  <2> QED BY <1>3, <2>2, <2>3 DEF Facts!Open
<1>4. CASE Facts!Close(w)
  <2>1. /\ j.step = "close" /\ j.ticket \in Tickets /\ j.target \in Facts!Intermediate
        /\ caseState[r] = "VERIFYING" /\ UNCHANGED <<caseState, stageA, posterior, rulings>>
    BY <1>0, <1>4 DEF Facts!Close, Facts!Carries, Placed
  <2>2. Placed(w)'
    <3>1. CASE Facts!Goto(w, "setState")
      BY <1>c, <2>1, <3>1 DEF Placed, Before, Facts!Intermediate
    <3> QED BY <1>4, <1>b, <3>1 DEF Facts!Close
  <2>3. \A t \in Tickets : verification'[t] = verification[t] \/ verification'[t].status = "COMPLETE"
    BY <1>0, <1>4, <2>1 DEF Facts!Close, Facts!TypeOK
  <2> QED BY <1>0, <2>1, <2>2, <2>3 DEF CasePlaces
<1>5. CASE Facts!Rule(w)
  <2>1. /\ j.step = "rule" /\ j.target \in Facts!Rulings
        /\ caseState[r] \in {"MANUAL_REVIEW", "VERIFIED_INCONSISTENT"}
        /\ UNCHANGED <<caseState, verification>>
    BY <1>0, <1>5 DEF Facts!Rule, Facts!Carries, Placed
  <2>2. Placed(w)'
    BY <1>5, <1>c, <2>1 DEF Facts!Rule, Placed, Before, Facts!Rulings
  <2>3. \A q \in Requests : q # r => rulings'[q] = rulings[q]
    BY <1>0, <1>5 DEF Facts!Rule, Facts!TypeOK
  <2> QED BY <1>0, <2>1, <2>2, <2>3 DEF CasePlaces
<1>6. CASE Facts!SetState(w)
  <2>1. /\ j.step = "setState" /\ caseState' = [caseState EXCEPT ![r] = j.target]
        /\ UNCHANGED <<stageA, posterior, rulings, verification>>
    BY <1>6 DEF Facts!SetState, Facts!recordVars
  <2>2. job'[w].step = "audit"
    BY <1>0, <1>6 DEF Facts!SetState, Facts!Goto, Facts!TypeOK, Facts!Jobs
  <2>3. Placed(w)'
    BY <2>2 DEF Placed
  <2>4. ASSUME NEW t \in Tickets, verification[t].status = "ACTIVE", verification[t].known
        PROVE  caseState'[verification[t].request] = "VERIFYING"
    <3>1. caseState[verification[t].request] = "VERIFYING"
      BY <2>4 DEF CasePlaces
    <3>2. CASE verification[t].request = r
      <4>1. j.target \in Facts!Intermediate
        BY <1>0, <2>1, <3>1, <3>2 DEF Placed
      <4>2. /\ j.ticket # NoTicket /\ j.ticket \in Tickets /\ verification[j.ticket].request = r
            /\ verification[j.ticket].status = "COMPLETE"
        BY <1>0, <2>1, <4>1 DEF Facts!InStep, Facts!SoloInv, Facts!ApprovalInv, Facts!Grounds,
                                Facts!Grounded
      <4>3. t = j.ticket
        BY <1>a, <3>2, <4>2 DEF Facts!SoloInv, Facts!AtMostOneVerifier, Facts!TicketsOf
      <4> QED BY <2>4, <4>2, <4>3
    <3> QED BY <1>0, <2>1, <3>1, <3>2 DEF Facts!TypeOK
  <2>5. j.target \notin {"ABSENT", "RECEIVED"}
    BY <1>0, <2>1 DEF Placed, Before
  <2> QED BY <1>0, <1>a, <2>1, <2>3, <2>4, <2>5 DEF CasePlaces, Facts!TypeOK
<1>7. CASE Facts!Audit(w)
  <2>1. /\ j.step = "audit" /\ caseState[r] = j.target
        /\ UNCHANGED <<caseState, stageA, posterior, rulings>>
    BY <1>0, <1>7 DEF Facts!Audit, Facts!InStep
  <2>2. Placed(w)'
    <3>1. ASSUME NEW a, j.target \in Facts!Intermediate,
                 job' = [job EXCEPT ![w].step = "decide", ![w].seen = j.target, ![w].target = a]
          PROVE  Placed(w)'
      <4>1. job'[w].step = "decide" /\ job'[w].request = r /\ job'[w].ticket = j.ticket
        BY <1>0, <3>1 DEF Facts!TypeOK, Facts!Jobs
      <4>2. j.ticket # NoTicket
        BY <2>1, <3>1 DEF Facts!SoloInv, Facts!ApprovalInv, Facts!Grounds, Facts!Grounded
      <4> QED BY <2>1, <3>1, <4>1, <4>2 DEF Placed
    <3> QED BY <1>7, <1>b, <3>1 DEF Facts!Audit
  <2>3. ASSUME NEW t \in Tickets, verification'[t].status = "ACTIVE", verification'[t].known
        PROVE  caseState'[verification'[t].request] = "VERIFYING"
    <3>1. CASE verification'[t] = verification[t]
      BY <2>1, <2>3, <3>1 DEF CasePlaces
    <3>2. CASE verification'[t] # verification[t]
      <4>1. /\ t = j.ticket /\ j.target = "VERIFYING"
            /\ verification'[t].request = verification[t].request
        BY <1>0, <1>7, <3>2 DEF Facts!Audit, Facts!TypeOK
      <4>2. verification[t].request = r
        BY <1>0, <4>1, NothingAssumption DEF Facts!InStep
      <4> QED BY <2>1, <4>1, <4>2
    <3> QED BY <3>1, <3>2
  <2> QED BY <1>0, <2>1, <2>2, <2>3 DEF CasePlaces
<1> QED BY <1>1, <1>2, <1>3, <1>4, <1>5, <1>6, <1>7 DEF Facts!Continue

LEMMA MoneyEffects ==
    ASSUME NEW w \in Workers, Money!ExecuteStep(w) \/ Money!WebhookStep(w)
    PROVE  /\ task[w].step # "idle"
           /\ \/ UNCHANGED caseState
              \/ \E s \in {"REFUND_PROCESSING", "REFUNDED", "FAILED_SAFE"} : Money!SetState(w, s)
           /\ \/ UNCHANGED gatewayRefund
              \/ \E g \in {"none", "pending", "processed", "failed", gatewayRefund[task[w].request]} :
                   gatewayRefund' = [gatewayRefund EXCEPT ![task[w].request] = g]
<1> USE DEF Money!At, Money!dbVars, Money!gatewayVars
<1>1. CASE \/ Money!Refresh(w) \/ Money!RefreshFails(w) \/ Money!Store(w) \/ Money!Check(w)
           \/ Money!Reserve(w) \/ Money!Mark(w) \/ Money!Release(w) \/ Money!Attach(w)
           \/ Money!Finalize(w) \/ Money!Record(w) \/ Money!Lookup(w) \/ Money!Settle(w)
           \/ Money!Update(w)
  BY <1>1 DEF Money!Refresh, Money!RefreshFails, Money!Store, Money!Check, Money!Reserve,
              Money!Mark, Money!Release, Money!Attach, Money!Finalize, Money!Record,
              Money!Lookup, Money!Settle, Money!Update
<1>2. CASE Money!Announce(w) \/ Money!FailSafe(w) \/ Money!Publish(w) \/ Money!Close(w)
  BY <1>2 DEF Money!Announce, Money!FailSafe, Money!Publish, Money!Close, Money!DispatchStatus,
              Money!SettledStatus
<1>3. CASE Money!RefundAccepted(w) \/ Money!RefundRejected(w) \/ Money!RefundReplyLost(w)
  BY <1>3 DEF Money!RefundAccepted, Money!RefundRejected, Money!RefundReplyLost,
              Money!GatewayTakes
<1> QED BY <1>1, <1>2, <1>3 DEF Money!ExecuteStep, Money!WebhookStep

ServiceInv == SoloInv /\ CasePlaces /\ MoneyPlaces

LEMMA RefundPlaces ==
    ASSUME OneProcess, ServiceInv, NEW w \in Workers, RefundStep(w)
    PROVE  CasePlaces' /\ MoneyPlaces'
<1>0. /\ Facts!TypeOK /\ Facts!TypeInv /\ Facts!RowsAgree /\ TaskInv /\ CasePlaces /\ MoneyPlaces
      /\ UNCHANGED flowVars
      /\ \A v \in Workers : v = w
  BY DEF ServiceInv, SoloInv, GuardInv, Facts!SoloInv, Facts!ApprovalInv, Facts!TypeInv,
         RefundStep, OneProcess
<1>a. Placed(w)'
  BY <1>0 DEF RefundStep, Flow!Free, Flow!At, Placed, flowVars
<1>b. \A r \in Requests : ApprovalOnRecord(r)' <=> ApprovalOnRecord(r)
  BY <1>0 DEF flowVars, ApprovalOnRecord
<1>c. ASSUME UNCHANGED caseState PROVE CasePlaces'
  BY <1>0, <1>a, <1>c DEF CasePlaces, flowVars
<1>1. ASSUME NEW r \in Requests, Money!ExecuteBegin(w, r) PROVE CasePlaces' /\ MoneyPlaces'
  <2>1. UNCHANGED <<caseState, gatewayRefund>> /\ caseState[r] \in {"AUTO_APPROVE", "APPROVED"}
    BY <1>1 DEF Money!ExecuteBegin, Money!dbVars, Money!gatewayVars, Money!Approved
  <2>2. task'[w].request = r
    BY <1>0, <1>1 DEF Money!ExecuteBegin, Money!Begin, TaskInv
  <2>3. caseState[r] \in Settling /\ ApprovalOnRecord(r)
    BY <1>0, <2>1 DEF Facts!RowsAgree, ApprovalOnRecord, Settling
  <2>4. \A q \in Requests : MoneyTouched(q)' => MoneyTouched(q) \/ q = r
    BY <1>0, <2>1, <2>2 DEF MoneyTouched
  <2> QED BY <1>0, <1>b, <1>c, <2>1, <2>3, <2>4 DEF MoneyPlaces
<1>2. ASSUME NEW r \in Requests, NEW e \in Money!EventTypes, Money!WebhookBegin(w, r, e)
      PROVE  CasePlaces' /\ MoneyPlaces'
  <2>1. UNCHANGED <<caseState, gatewayRefund>> /\ gatewayRefund[r] # "none"
    BY <1>2 DEF Money!WebhookBegin, Money!gatewayVars, Money!Signed
  <2>2. task'[w].request = r
    BY <1>0, <1>2 DEF Money!WebhookBegin, Money!Begin, TaskInv
  <2>4. \A q \in Requests : MoneyTouched(q)' => MoneyTouched(q)
    BY <1>0, <2>1, <2>2 DEF MoneyTouched
  <2> QED BY <1>0, <1>b, <1>c, <2>1, <2>4 DEF MoneyPlaces
<1>3. CASE Money!ExecuteStep(w) \/ Money!WebhookStep(w)
  <2> DEFINE x == task[w].request
  <2>1. /\ task[w].step # "idle" /\ x \in Requests /\ TaskMoves(w)
        /\ MoneyTouched(x) /\ caseState[x] \in Settling
    BY <1>0, <1>3, MoneyEffects, ExecuteMoves, WebhookMoves
       DEF TaskInv, MoneyTouched, MoneyPlaces
  <2>2. \A q \in Requests : caseState'[q] = caseState[q]
                            \/ (q = x /\ caseState'[q] \in {"REFUND_PROCESSING", "REFUNDED", "FAILED_SAFE"})
    BY <1>0, <1>3, <2>1, MoneyEffects DEF Money!SetState, Facts!TypeOK
  <2>3. \A q \in Requests : q # x => gatewayRefund'[q] = gatewayRefund[q]
    BY <1>0, <1>3, MoneyEffects DEF MoneyPlaces
  <2>4. task'[w].step = "idle" \/ task'[w].request = x
    BY <1>0, <2>1 DEF TaskMoves, TaskInv
  <2>5. \A q \in Requests : MoneyTouched(q)' => MoneyTouched(q)
    BY <1>0, <2>1, <2>3, <2>4 DEF MoneyTouched
  <2>6. gatewayRefund' \in [Requests -> {"none", "pending", "processed", "failed"}]
    BY <1>0, <1>3, <2>1, MoneyEffects DEF MoneyPlaces
  <2>7. MoneyPlaces'
    BY <1>0, <1>b, <2>2, <2>5, <2>6 DEF MoneyPlaces, Settling
  <2>8. ASSUME NEW t \in Tickets, verification[t].status = "ACTIVE", verification[t].known
        PROVE  caseState'[verification[t].request] = "VERIFYING"
    <3>1. caseState[verification[t].request] = "VERIFYING"
      BY <1>0, <2>8 DEF CasePlaces
    <3>2. verification[t].request \in Requests
      BY <1>0, <2>8 DEF Facts!TypeInv, Facts!TicketsAreCases
    <3> QED BY <2>1, <2>2, <3>1, <3>2 DEF Settling
  <2>9. CasePlaces'
    BY <1>0, <1>a, <2>2, <2>8 DEF CasePlaces, flowVars
  <2> QED BY <2>7, <2>9
<1> QED BY <1>1, <1>2, <1>3 DEF RefundStep

-----------------------------------------------------------------------------
(* The states RefundExecution sees.                                         *)

Mapped == [r \in Requests |-> RefundState(r)]

LEMMA MappedStays ==
    ASSUME UNCHANGED caseState,
           \A r \in Requests :
             caseState[r] = "FAILED_SAFE" => (ApprovalOnRecord(r)' <=> ApprovalOnRecord(r))
    PROVE  UNCHANGED Mapped
<1>1. ASSUME NEW r \in Requests PROVE RefundState(r)' = RefundState(r)
  BY DEF RefundState, Flow!Approved, Flow!MoneyStates
<1> QED BY <1>1 DEF Mapped

\* A step that leaves the tables of the money path and the mapped states alone.
LEMMA Stutters ==
    ASSUME UNCHANGED moneyVars, UNCHANGED Mapped
    PROVE  UNCHANGED Refund!vars
BY DEF Refund!vars, Refund!dbVars, Refund!gatewayVars, moneyVars, Mapped

\* The state a case is given, and how RefundExecution reads it.
LEMMA MappedMoves ==
    ASSUME NEW r \in Requests, NEW s, caseState' = [caseState EXCEPT ![r] = s],
           caseState \in [Requests -> Facts!States],
           \A q \in Requests : ApprovalOnRecord(q)' <=> ApprovalOnRecord(q)
    PROVE  /\ s \in Settling /\ (s = "FAILED_SAFE" => ApprovalOnRecord(r)) =>
                Mapped' = [Mapped EXCEPT ![r] = s]
           /\ s \in Before \/ (s = "FAILED_SAFE" /\ ~ApprovalOnRecord(r)) =>
                Mapped' = [Mapped EXCEPT ![r] = "RECEIVED"]
<1>1. caseState'[r] = s /\ \A q \in Requests \ {r} : caseState'[q] = caseState[q]
  OBVIOUS
<1>2. /\ s \in Settling /\ (s = "FAILED_SAFE" => ApprovalOnRecord(r)) => RefundState(r)' = s
      /\ s \in Before \/ (s = "FAILED_SAFE" /\ ~ApprovalOnRecord(r)) => RefundState(r)' = "RECEIVED"
  BY <1>1 DEF RefundState, Flow!Approved, Flow!MoneyStates, Settling, Before
<1>3. \A q \in Requests \ {r} : RefundState(q)' = RefundState(q)
  BY <1>1 DEF RefundState, Flow!Approved, Flow!MoneyStates
<1> QED BY <1>2, <1>3 DEF Mapped

\* The mapped states follow the real ones, in the steps that write a state.
Follows(w) ==
    /\ UNCHANGED caseState => UNCHANGED Mapped
    /\ \A s \in {"REFUND_PROCESSING", "REFUNDED", "FAILED_SAFE"} :
         Money!SetState(w, s) => Mapped' = [Mapped EXCEPT ![task[w].request] = s]

LEMMA HandlersFollow ==
    ASSUME ServiceInv, NEW w \in Workers, UNCHANGED flowVars, task[w].step # "idle"
    PROVE  Follows(w)
<1>1. \A q \in Requests : ApprovalOnRecord(q)' <=> ApprovalOnRecord(q)
  BY DEF flowVars, ApprovalOnRecord
<1>2. caseState \in [Requests -> Facts!States] /\ task[w].request \in Requests
  BY DEF ServiceInv, SoloInv, GuardInv, TaskInv, Facts!SoloInv, Facts!ApprovalInv, Facts!TypeInv,
         Facts!TypeOK
<1>3. ApprovalOnRecord(task[w].request)
  BY <1>2 DEF ServiceInv, MoneyPlaces, MoneyTouched
<1>4. UNCHANGED caseState => UNCHANGED Mapped
  BY <1>1, MappedStays
<1>5. ASSUME NEW s \in {"REFUND_PROCESSING", "REFUNDED", "FAILED_SAFE"}, Money!SetState(w, s)
      PROVE  Mapped' = [Mapped EXCEPT ![task[w].request] = s]
  BY <1>1, <1>2, <1>3, <1>5, MappedMoves DEF Money!SetState, Settling
<1> QED BY <1>4, <1>5 DEF Follows

LEMMA ExecuteMaps ==
    ASSUME NEW w \in Workers, Money!ExecuteStep(w), Follows(w)
    PROVE  Refund!ExecuteStep(w)
<1> USE DEF Money!At, Refund!At, Money!Goto, Refund!Goto, Money!Return, Refund!Return,
            Money!Idle, Refund!Idle, Money!dbVars, Refund!dbVars, Money!gatewayVars,
            Refund!gatewayVars
<1>a. UNCHANGED caseState => UNCHANGED [r \in Requests |-> RefundState(r)]
  BY DEF Follows, Mapped
<1>1. Money!Refresh(w) => Refund!Refresh(w)
  BY <1>a DEF Money!Refresh, Refund!Refresh, Money!PendingAt, Refund!PendingAt, Money!AcceptedBy,
         Refund!AcceptedBy, Money!RequestsOf, Refund!RequestsOf, Money!Remaining, Refund!Remaining
<1>2. /\ Money!RefreshFails(w) => Refund!RefreshFails(w)
      /\ Money!Store(w) => Refund!Store(w)
      /\ Money!Mark(w) => Refund!Mark(w)
  BY <1>a DEF Money!RefreshFails, Refund!RefreshFails, Money!Store, Refund!Store, Money!Mark, Refund!Mark
<1>3. /\ Money!Check(w) => Refund!Check(w)
      /\ Money!Reserve(w) => Refund!Reserve(w)
  BY <1>a DEF Money!Check, Refund!Check, Money!Reserve, Refund!Reserve, Money!Eligible, Refund!Eligible,
         Money!Balance, Refund!Balance, Money!CanReserve, Refund!CanReserve, Money!ActiveOf,
         Refund!ActiveOf, Money!ActiveStatuses, Refund!ActiveStatuses, Money!RequestsOf,
         Refund!RequestsOf
<1>4. /\ Money!RefundAccepted(w) => Refund!RefundAccepted(w)
      /\ Money!RefundRejected(w) => Refund!RefundRejected(w)
      /\ Money!RefundReplyLost(w) => Refund!RefundReplyLost(w)
  BY <1>a DEF Money!RefundAccepted, Refund!RefundAccepted, Money!RefundRejected,
         Refund!RefundRejected, Money!RefundReplyLost, Refund!RefundReplyLost,
         Money!GatewayTakes, Refund!GatewayTakes, Money!CountDispatch, Refund!CountDispatch,
         Money!AcceptedBy, Refund!AcceptedBy, Money!RequestsOf, Refund!RequestsOf,
         Money!Remaining, Refund!Remaining
<1>5. /\ Money!Release(w) => Refund!Release(w)
      /\ Money!Attach(w) => Refund!Attach(w)
      /\ Money!Finalize(w) => Refund!Finalize(w)
      /\ Money!Record(w) => Refund!Record(w)
  BY <1>a DEF Money!Release, Refund!Release, Money!ReleaseRow, Refund!ReleaseRow, Money!Attach,
         Refund!Attach, Money!Finalize, Refund!Finalize, Money!CanFinalize, Refund!CanFinalize,
         Money!FinalizeRow, Refund!FinalizeRow, Money!Record, Refund!Record, Money!Balance,
         Refund!Balance, Money!ActiveStatuses, Refund!ActiveStatuses, Money!DispatchStatus,
         Refund!DispatchStatus
<1>6. /\ Money!Announce(w) => Refund!Announce(w)
      /\ Money!FailSafe(w) => Refund!FailSafe(w)
      /\ Money!Publish(w) => Refund!Publish(w)
  BY DEF Money!Announce, Refund!Announce, Money!FailSafe, Refund!FailSafe, Money!Publish,
         Refund!Publish, Money!DispatchStatus, Refund!DispatchStatus, Follows, Mapped,
         Refund!SetState
<1> QED BY <1>1, <1>2, <1>3, <1>4, <1>5, <1>6 DEF Money!ExecuteStep, Refund!ExecuteStep

LEMMA WebhookMaps ==
    ASSUME NEW w \in Workers, Money!WebhookStep(w), Follows(w)
    PROVE  Refund!WebhookStep(w)
<1> USE DEF Money!At, Refund!At, Money!Goto, Refund!Goto, Money!Return, Refund!Return,
            Money!Idle, Refund!Idle, Money!dbVars, Refund!dbVars, Money!gatewayVars,
            Refund!gatewayVars
<1>a. UNCHANGED caseState => UNCHANGED [r \in Requests |-> RefundState(r)]
  BY DEF Follows, Mapped
<1>1. Money!Lookup(w) => Refund!Lookup(w)
  BY <1>a DEF Money!Lookup, Refund!Lookup, Money!TerminalStatuses, Refund!TerminalStatuses
<1>2. Money!Settle(w) => Refund!Settle(w)
  BY <1>a DEF Money!Settle, Refund!Settle, Money!ReleaseRow, Refund!ReleaseRow, Money!CanFinalize,
              Refund!CanFinalize, Money!FinalizeRow, Refund!FinalizeRow, Money!Balance,
              Refund!Balance, Money!ActiveStatuses, Refund!ActiveStatuses
<1>3. Money!Update(w) => Refund!Update(w)
  BY <1>a DEF Money!Update, Refund!Update, Money!SettledStatus, Refund!SettledStatus
<1>4. Money!Close(w) => Refund!Close(w)
  BY DEF Money!Close, Refund!Close, Money!SettledStatus, Refund!SettledStatus, Follows, Mapped,
         Refund!SetState
<1> QED BY <1>1, <1>2, <1>3, <1>4 DEF Money!WebhookStep, Refund!WebhookStep

\* The steps that start and end a handler, and the gateway's own.
LEMMA EntryMaps ==
    ASSUME UNCHANGED caseState => UNCHANGED Mapped
    PROVE  /\ \A w \in Workers : \A r \in Requests :
                /\ Money!ExecuteBegin(w, r) => Refund!ExecuteBegin(w, r)
                /\ \A e \in Money!EventTypes : Money!WebhookBegin(w, r, e) => Refund!WebhookBegin(w, r, e)
           /\ \A w \in Workers : Money!Abort(w) => Refund!Abort(w)
           /\ \A r \in Requests : Money!GatewayResolves(r) => Refund!GatewayResolves(r)
<1> USE DEF Money!At, Refund!At, Money!Return, Refund!Return, Money!Begin, Refund!Begin,
            Money!Idle, Refund!Idle, Money!dbVars, Refund!dbVars, Money!gatewayVars,
            Refund!gatewayVars
<1>a. UNCHANGED caseState => UNCHANGED [r \in Requests |-> RefundState(r)]
  BY DEF Mapped
<1>1. ASSUME NEW w \in Workers, NEW r \in Requests, Money!ExecuteBegin(w, r)
      PROVE  Refund!ExecuteBegin(w, r)
  <2>1. RefundState(r) \in Refund!Approved
    BY <1>1 DEF Money!ExecuteBegin, Money!Approved, Refund!Approved, RefundState, Flow!Approved
  <2> QED BY <1>1, <1>a, <2>1 DEF Money!ExecuteBegin, Refund!ExecuteBegin
<1>2. ASSUME NEW w \in Workers, NEW r \in Requests, NEW e \in Money!EventTypes,
             Money!WebhookBegin(w, r, e)
      PROVE  Refund!WebhookBegin(w, r, e)
  BY <1>2, <1>a DEF Money!WebhookBegin, Refund!WebhookBegin, Money!Signed, Refund!Signed
<1>3. ASSUME NEW w \in Workers, Money!Abort(w) PROVE Refund!Abort(w)
  BY <1>3, <1>a DEF Money!Abort, Refund!Abort
<1>4. ASSUME NEW r \in Requests, Money!GatewayResolves(r) PROVE Refund!GatewayResolves(r)
  BY <1>4, <1>a DEF Money!GatewayResolves, Refund!GatewayResolves
<1> QED BY <1>1, <1>2, <1>3, <1>4

\* What the handlers of CaseWorkflow write: a state only where the case is
\* before its approval, and no record of a case that failed safe.
LEMMA CaseWrites ==
    ASSUME OneProcess, ServiceInv, NEW w \in Workers, Facts!Continue(w)
    PROVE  /\ \/ UNCHANGED caseState
              \/ Facts!SetState(w)
           /\ \A r \in Requests :
                caseState[r] \in {"FAILED_SAFE"} => (ApprovalOnRecord(r)' <=> ApprovalOnRecord(r))
<1>0. /\ Facts!TypeOK /\ job[w] \in Facts!Jobs /\ Facts!Carries(job[w]) /\ Placed(w)
  BY DEF ServiceInv, SoloInv, Facts!SoloInv, Facts!ApprovalInv, Facts!TypeInv, Facts!TypeOK,
         Facts!Loaded, CasePlaces
<1> USE DEF Facts!At
<1>1. CASE \/ Facts!RecordIntegrity(w) \/ Facts!Open(w) \/ Facts!Close(w) \/ Facts!Audit(w)
           \/ Facts!SetState(w)
  <2>1. UNCHANGED <<stageA, posterior, rulings>>
    BY <1>1 DEF Facts!RecordIntegrity, Facts!Open, Facts!Close, Facts!Audit, Facts!SetState,
                Facts!recordVars
  <2>2. UNCHANGED caseState \/ Facts!SetState(w)
    BY <1>1 DEF Facts!RecordIntegrity, Facts!Open, Facts!Close, Facts!Audit
  <2> QED BY <2>1, <2>2 DEF ApprovalOnRecord
<1>2. CASE Facts!Decide(w)
  <2>1. caseState[job[w].request] # "FAILED_SAFE"
    BY <1>0, <1>2 DEF Facts!Decide, Placed, Facts!Intermediate
  <2>2. \A q \in Requests : q # job[w].request => stageA'[q] = stageA[q] /\ posterior'[q] = posterior[q]
    BY <1>0, <1>2 DEF Facts!Decide, Facts!TypeOK
  <2> QED BY <1>2, <2>1, <2>2 DEF Facts!Decide, ApprovalOnRecord
<1>3. CASE Facts!Rule(w)
  <2>1. caseState[job[w].request] # "FAILED_SAFE"
    BY <1>0, <1>3 DEF Facts!Rule, Placed
  <2>2. \A q \in Requests : q # job[w].request => rulings'[q] = rulings[q]
    BY <1>0, <1>3 DEF Facts!Rule, Facts!TypeOK
  <2> QED BY <1>3, <2>1, <2>2 DEF Facts!Rule, ApprovalOnRecord
<1> QED BY <1>1, <1>2, <1>3 DEF Facts!Continue

\* A case step keeps the places, moves a state only before the approval, and
\* is a step of RefundExecution or a stutter.
LEMMA CaseStepMaps ==
    ASSUME OneProcess, ServiceInv, NEW w \in Workers, CaseStep(w)
    PROVE  CasePlaces' /\ MoneyPlaces' /\ [Refund!Next]_(Refund!vars)
<1>0. /\ Facts!TypeOK /\ Facts!TypeInv /\ Facts!SoloInv /\ CasePlaces /\ MoneyPlaces
      /\ caseState \in [Requests -> Facts!States]
  BY DEF ServiceInv, SoloInv, Facts!SoloInv, Facts!ApprovalInv, Facts!TypeInv, Facts!TypeOK
<1>1. \A r \in Requests : ApprovalOnRecord(r) => ApprovalOnRecord(r)'
  BY <1>0, CaseStepHalves, RecordsStay
<1>2. ASSUME UNCHANGED <<gatewayRefund, task>>,
             \A r \in Requests : caseState[r] \in Settling => caseState'[r] = caseState[r]
      PROVE  MoneyPlaces'
  <2>1. \A r \in Requests : MoneyTouched(r)' => MoneyTouched(r)
    BY <1>2 DEF MoneyTouched
  <2> QED BY <1>0, <1>1, <1>2, <2>1 DEF MoneyPlaces
<1>3. ASSUME NEW r \in Requests, RegisterCase(w, r)
      PROVE  CasePlaces' /\ MoneyPlaces' /\ [Refund!Next]_(Refund!vars)
  <2>1. Facts!Register(w, r)
    BY <1>3, CaseHalf DEF RegisterCase
  <2>2. CasePlaces'
    BY <1>0, <2>1, BeginPlaces
  <2>3. /\ caseState[r] = "ABSENT" /\ caseState' = [caseState EXCEPT ![r] = "RECEIVED"]
        /\ UNCHANGED <<stageA, posterior, rulings>>
    BY <2>1 DEF Facts!Register, Facts!recordVars
  <2>4. MoneyPlaces'
    BY <1>0, <1>2, <1>3, <2>3 DEF RegisterCase, Money!Register, Money!gatewayVars, Settling
  <2>5. Mapped' = [Mapped EXCEPT ![r] = "RECEIVED"]
    <3>1. \A q \in Requests : ApprovalOnRecord(q)' <=> ApprovalOnRecord(q)
      BY <2>3 DEF ApprovalOnRecord
    <3> QED BY <1>0, <2>3, <3>1, MappedMoves DEF Before
  <2>6. RefundState(r) = "ABSENT"
    BY <2>3 DEF RefundState, Flow!Approved, Flow!MoneyStates
  <2>7. Refund!Register(w, r)
    BY <1>3, <2>5, <2>6 DEF RegisterCase, Money!Register, Refund!Register, Mapped, Money!At,
                            Refund!At, Money!gatewayVars, Refund!gatewayVars
  <2> QED BY <2>2, <2>4, <2>7 DEF Refund!Next
<1>4. ASSUME UNCHANGED moneyVars, UNCHANGED caseState,
             \A r \in Requests :
                caseState[r] = "FAILED_SAFE" => (ApprovalOnRecord(r)' <=> ApprovalOnRecord(r))
      PROVE  MoneyPlaces' /\ [Refund!Next]_(Refund!vars)
  BY <1>2, <1>4, MappedStays, Stutters DEF moneyVars
<1>5. ASSUME NEW r \in Requests, ScoreCase(w, r)
      PROVE  CasePlaces' /\ MoneyPlaces' /\ [Refund!Next]_(Refund!vars)
  <2>1. Facts!ScoreBegin(w, r, Money!Eligible(r))
    BY <1>5, CaseHalf DEF ScoreCase
  <2>2. \E e \in BOOLEAN : Facts!ScoreBegin(w, r, e)
    <3>1. CASE Money!Eligible(r)
      BY <2>1, <3>1 DEF Facts!ScoreBegin
    <3>2. CASE ~Money!Eligible(r)
      BY <2>1, <3>2 DEF Facts!ScoreBegin
    <3> QED BY <3>1, <3>2
  <2>3. CasePlaces'
    BY <1>0, <2>2, BeginPlaces
  <2>4. UNCHANGED caseState /\ UNCHANGED <<stageA, posterior, rulings>>
    BY <2>1 DEF Facts!ScoreBegin, Facts!recordVars
  <2> QED BY <1>4, <1>5, <2>3, <2>4 DEF ScoreCase, ApprovalOnRecord
<1>6. CASE Flow!Review(w) /\ UNCHANGED moneyVars
  <2>1. Facts!Review(w)
    BY <1>6, CaseHalf
  <2>2. CasePlaces'
    BY <1>0, <2>1, BeginPlaces
  <2>3. UNCHANGED caseState /\ UNCHANGED <<stageA, posterior, rulings>>
    BY <2>1 DEF Facts!Review, Facts!VerifyBegin, Facts!RuleBegin, Facts!CompleteBegin,
                Facts!recordVars
  <2> QED BY <1>4, <1>6, <2>2, <2>3 DEF ApprovalOnRecord
<1>7. CASE Flow!Continue(w) /\ UNCHANGED moneyVars
  <2>1. Facts!Continue(w)
    BY <1>7, CaseHalf
  <2>2. CasePlaces'
    BY <1>0, <2>1, ContinuePlaces
  <2>3. CASE UNCHANGED caseState
    BY <1>4, <1>7, <2>1, <2>2, <2>3, CaseWrites
  <2>4. CASE Facts!SetState(w)
    <3> DEFINE r == job[w].request
               s == job[w].target
    <3>1. /\ job[w].step = "setState" /\ caseState' = [caseState EXCEPT ![r] = s]
          /\ UNCHANGED <<stageA, posterior, rulings>>
      BY <2>4 DEF Facts!SetState, Facts!At, Facts!recordVars
    <3>2. r \in Requests
      BY <1>0, <3>1 DEF Facts!TypeInv, Facts!Loaded, Facts!Carries
    <3>3. /\ caseState[r] \in Before
          /\ s \in (Before \ {"RECEIVED"}) \cup {"AUTO_APPROVE", "APPROVED", "FAILED_SAFE"}
          /\ s = "FAILED_SAFE" => ~ApprovalOnRecord(r)
      BY <1>0, <3>1 DEF CasePlaces, Placed
    <3> HIDE DEF r, s
    <3>4. RefundState(r) = "RECEIVED"
      BY <3>3 DEF RefundState, Before, Flow!Approved, Flow!MoneyStates
    <3>5. \A q \in Requests : ApprovalOnRecord(q)' <=> ApprovalOnRecord(q)
      BY <3>1 DEF ApprovalOnRecord
    <3>6. MoneyPlaces'
      BY <1>0, <1>2, <1>7, <3>1, <3>3 DEF moneyVars, Before, Settling
    <3>7. Money!At(w, "idle")
      BY DEF CaseStep
    <3>8. CASE s = "AUTO_APPROVE"
      <4>0. caseState' = [caseState EXCEPT ![r] = "AUTO_APPROVE"]
        BY <3>1, <3>8
      <4>1. Mapped' = [Mapped EXCEPT ![r] = "AUTO_APPROVE"]
        BY <1>0, <3>2, <3>5, <4>0, MappedMoves DEF Settling
      <4>2. Refund!AutoApproves(w, r)
        BY <1>7, <3>2, <3>4, <3>7, <4>1 DEF Refund!AutoApproves, Mapped, Money!At, Refund!At, moneyVars,
                               Refund!gatewayVars
      <4> QED BY <2>2, <3>2, <3>6, <4>2 DEF Refund!Next
    <3>9. CASE s = "APPROVED"
      <4>0. caseState' = [caseState EXCEPT ![r] = "APPROVED"]
        BY <3>1, <3>9
      <4>1. Mapped' = [Mapped EXCEPT ![r] = "APPROVED"]
        BY <1>0, <3>2, <3>5, <4>0, MappedMoves DEF Settling
      <4>2. Refund!OperatorApproves(w, r)
        BY <1>7, <3>2, <3>4, <3>7, <4>1 DEF Refund!OperatorApproves, Mapped, Money!At, Refund!At, moneyVars,
                               Refund!gatewayVars
      <4> QED BY <2>2, <3>2, <3>6, <4>2 DEF Refund!Next
    <3>10. CASE s \notin {"AUTO_APPROVE", "APPROVED"}
      <4>1. Mapped' = [Mapped EXCEPT ![r] = "RECEIVED"]
        BY <1>0, <3>1, <3>2, <3>3, <3>5, <3>10, MappedMoves
      <4>2. UNCHANGED Mapped
        BY <3>2, <3>4, <4>1 DEF Mapped
      <4> QED BY <1>7, <2>2, <3>6, <4>2, Stutters
    <3> QED BY <3>8, <3>9, <3>10
  <2> QED BY <2>1, <2>3, <2>4, CaseWrites
<1> QED BY <1>3, <1>5, <1>6, <1>7 DEF CaseStep

LEMMA RefundStepMaps ==
    ASSUME OneProcess, ServiceInv, NEW w \in Workers, RefundStep(w)
    PROVE  Refund!Next
<1>1. UNCHANGED flowVars
  BY DEF RefundStep
<1>2. CASE Money!ExecuteStep(w) \/ Money!WebhookStep(w)
  <2>1. Follows(w)
    BY <1>1, <1>2, MoneyEffects, HandlersFollow
  <2> QED BY <1>2, <2>1, ExecuteMaps, WebhookMaps DEF Refund!Next
<1>3. UNCHANGED caseState => UNCHANGED Mapped
  BY <1>1, MappedStays DEF flowVars, ApprovalOnRecord
<1>4. CASE \E r \in Requests :
             Money!ExecuteBegin(w, r) \/ \E e \in Money!EventTypes : Money!WebhookBegin(w, r, e)
  BY <1>3, <1>4, EntryMaps DEF Refund!Next, Money!EventTypes, Refund!EventTypes
<1> QED BY <1>2, <1>4 DEF RefundStep

LEMMA RestMaps ==
    ASSUME OneProcess, ServiceInv, (\E w \in Workers : Crash(w)) \/ Gateway \/ UNCHANGED vars
    PROVE  CasePlaces' /\ MoneyPlaces' /\ [Refund!Next]_(Refund!vars)
<1>0. CasePlaces /\ MoneyPlaces /\ TaskInv /\ Facts!TypeOK
  BY DEF ServiceInv, SoloInv, GuardInv, Facts!SoloInv, Facts!ApprovalInv, Facts!TypeInv
<1>1. /\ UNCHANGED <<caseState, stageA, posterior, rulings, verification>>
      /\ UNCHANGED job \/ \E w \in Workers : job' = [job EXCEPT ![w] = Facts!Idle]
  <2>1. CASE Gateway \/ UNCHANGED vars
    BY <2>1 DEF Gateway, Money!GatewayResolves, Money!dbVars, flowVars, vars
  <2>2. ASSUME NEW w \in Workers, Crash(w)
        PROVE  /\ UNCHANGED <<caseState, stageA, posterior, rulings, verification>>
               /\ job' = [job EXCEPT ![w] = Facts!Idle]
    BY <2>2, CaseHalf DEF Crash, Facts!Restart, Facts!Return, Facts!recordVars
  <2> QED BY <2>1, <2>2
<1>2. CasePlaces'
  BY <1>0, <1>1 DEF CasePlaces, Placed, Facts!Idle, Facts!TypeOK, ApprovalOnRecord
<1>3. \A r \in Requests : ApprovalOnRecord(r)' <=> ApprovalOnRecord(r)
  BY <1>1 DEF ApprovalOnRecord
<1>4. UNCHANGED Mapped
  BY <1>1, <1>3, MappedStays
<1>5. CASE UNCHANGED moneyVars
  <2>1. \A r \in Requests : MoneyTouched(r)' <=> MoneyTouched(r)
    BY <1>5 DEF moneyVars, MoneyTouched
  <2>2. MoneyPlaces'
    BY <1>0, <1>1, <1>3, <1>5, <2>1 DEF MoneyPlaces, moneyVars
  <2> QED BY <1>2, <1>4, <1>5, <2>2, Stutters
<1>6. ASSUME NEW w \in Workers, Money!Abort(w)
      PROVE  MoneyPlaces' /\ Refund!Next
  <2>1. gatewayRefund' = gatewayRefund /\ task' = [task EXCEPT ![w] = Money!Idle]
    BY <1>6 DEF Money!Abort, Money!gatewayVars, Money!Return
  <2>2. \A r \in Requests : MoneyTouched(r)' => MoneyTouched(r)
    BY <1>0, <2>1 DEF MoneyTouched, Money!Idle, TaskInv
  <2>3. MoneyPlaces'
    BY <1>0, <1>1, <1>3, <2>1, <2>2 DEF MoneyPlaces
  <2> QED BY <1>4, <1>6, <2>3, EntryMaps DEF Refund!Next
<1>7. ASSUME NEW r \in Requests, Money!GatewayResolves(r)
      PROVE  MoneyPlaces' /\ Refund!Next
  <2>1. PICK g \in {"processed", "failed"} :
          /\ gatewayRefund[r] = "pending" /\ gatewayRefund' = [gatewayRefund EXCEPT ![r] = g]
          /\ task' = task
    BY <1>7 DEF Money!GatewayResolves
  <2>2. \A q \in Requests : MoneyTouched(q)' => MoneyTouched(q)
    BY <1>0, <2>1 DEF MoneyTouched, MoneyPlaces
  <2>3. gatewayRefund' \in [Requests -> {"none", "pending", "processed", "failed"}]
    BY <1>0, <2>1 DEF MoneyPlaces
  <2>4. MoneyPlaces'
    BY <1>0, <1>1, <1>3, <2>2, <2>3 DEF MoneyPlaces
  <2> QED BY <1>4, <1>7, <2>4, EntryMaps DEF Refund!Next
<1> QED BY <1>2, <1>5, <1>6, <1>7 DEF Crash, Gateway, vars

\* The deployed service, whatever its cases go through and however it is cut
\* short, does to the money what RefundExecution does.
THEOREM ServiceRefines == OneProcess /\ Spec => ImplementsRefundExecution
<1>1. Init => CasePlaces /\ MoneyPlaces /\ Refund!Init
  <2> SUFFICES ASSUME Init PROVE CasePlaces /\ MoneyPlaces /\ Refund!Init
    OBVIOUS
  <2>1. CasePlaces /\ MoneyPlaces
    BY DEF Init, Flow!Init, Money!Init, Flow!Idle, Money!Idle, Flow!NoTicketRow, CasePlaces, Placed,
           MoneyPlaces, MoneyTouched
  <2>2. [r \in Requests |-> RefundState(r)] = [r \in Requests |-> "ABSENT"]
    BY DEF Init, Flow!Init, RefundState, Flow!Approved, Flow!MoneyStates
  <2>3. Refund!Init
    BY <2>2 DEF Init, Money!Init, Refund!Init, Money!Idle, Refund!Idle
  <2> QED BY <2>1, <2>3
<1>2. OneProcess /\ ServiceInv /\ [Next]_vars =>
        CasePlaces' /\ MoneyPlaces' /\ [Refund!Next]_(Refund!vars)
  BY CaseStepMaps, RefundPlaces, RefundStepMaps, RestMaps DEF Next
<1>3. OneProcess => []OneProcess
  <2>1. OneProcess => OneProcess'
    BY DEF OneProcess
  <2> QED BY <2>1, PTL
<1>4. OneProcess /\ Spec => [](CasePlaces /\ MoneyPlaces)
  <2>1. SoloInv /\ CasePlaces /\ MoneyPlaces => ServiceInv
    BY DEF ServiceInv
  <2> QED BY <1>1, <1>2, <1>3, <2>1, SoloInvariance, PTL DEF Spec
<1>5. SoloInv /\ CasePlaces /\ MoneyPlaces => ServiceInv
  BY DEF ServiceInv
<1>6. OneProcess /\ Spec => Refund!Spec
  BY <1>1, <1>2, <1>3, <1>4, <1>5, SoloInvariance, PTL DEF Spec, Refund!Spec
<1> QED BY <1>6 DEF ImplementsRefundExecution

-----------------------------------------------------------------------------
(* The money of the whole service, with any number of processes.  With more *)
(* than one the service does not refine RefundExecution: a stale handler    *)
(* writes a state over a case whose money has moved.  It is the money path  *)
(* in the company of other writers, Ledger!OpenSpec, all the same.          *)

\* What RefundExecution knows of a case: the states it has a name for.
LedgerState(r) == IF caseState[r] \in Money!CaseStates THEN caseState[r] ELSE "RECEIVED"
LedgerStates == [r \in Requests |-> LedgerState(r)]

Ledger == INSTANCE RefundMoneyProofs WITH caseState <- [r \in Requests |-> LedgerState(r)]

LEMMA LedgerApplies ==
    /\ Ledger!WorkersAssumption /\ Ledger!AmountAssumption /\ Ledger!TotalAssumption
    /\ Ledger!GatewayAssumption /\ Ledger!BoundAssumption
BY NothingAssumption, MoneyAssumption
   DEF Money!AmountAssumption, Money!TotalAssumption, Money!GatewayAssumption,
       Money!BoundAssumption, Money!Snapshot, Ledger!WorkersAssumption, Ledger!AmountAssumption,
       Ledger!TotalAssumption, Ledger!GatewayAssumption, Ledger!BoundAssumption, Ledger!Snapshot

\* The states follow, whatever is written by whom.
LEMMA LedgerFollows ==
    /\ UNCHANGED caseState => UNCHANGED LedgerStates
    /\ \A r \in Requests : \A s \in Money!CaseStates :
         caseState' = [caseState EXCEPT ![r] = s] /\ caseState \in [Requests -> Facts!States] =>
             LedgerStates' = [LedgerStates EXCEPT ![r] = s]
<1>1. ASSUME UNCHANGED caseState PROVE UNCHANGED LedgerStates
  BY <1>1 DEF LedgerStates, LedgerState
<1>2. ASSUME NEW r \in Requests, NEW s \in Money!CaseStates,
             caseState' = [caseState EXCEPT ![r] = s], caseState \in [Requests -> Facts!States]
      PROVE  LedgerStates' = [LedgerStates EXCEPT ![r] = s]
  <2>1. caseState'[r] = s /\ \A q \in Requests \ {r} : caseState'[q] = caseState[q]
    BY <1>2
  <2>2. LedgerState(r)' = s /\ \A q \in Requests \ {r} : LedgerState(q)' = LedgerState(q)
    BY <2>1 DEF LedgerState
  <2> QED BY <2>2 DEF LedgerStates
<1> QED BY <1>1, <1>2

\* The states follow a step of a refund handler.
Written(w) ==
    /\ UNCHANGED caseState => UNCHANGED LedgerStates
    /\ \A s \in {"REFUND_PROCESSING", "REFUNDED", "FAILED_SAFE"} :
         Money!SetState(w, s) => LedgerStates' = [LedgerStates EXCEPT ![task[w].request] = s]

LEMMA HandlersWrite ==
    ASSUME GuardInv, NEW w \in Workers, task[w].step # "idle"
    PROVE  Written(w)
<1>1. caseState \in [Requests -> Facts!States] /\ task[w].request \in Requests
  BY DEF GuardInv, TaskInv, Facts!ApprovalInv, Facts!TypeInv, Facts!TypeOK
<1>2. \A s \in {"REFUND_PROCESSING", "REFUNDED", "FAILED_SAFE"} : s \in Money!CaseStates
  BY DEF Money!CaseStates
<1> QED BY <1>1, <1>2, LedgerFollows DEF Written, Money!SetState

LEMMA LedgerExecutes ==
    ASSUME NEW w \in Workers, Money!ExecuteStep(w), Written(w)
    PROVE  Ledger!ExecuteStep(w)
<1> USE DEF Money!At, Ledger!At, Money!Goto, Ledger!Goto, Money!Return, Ledger!Return,
            Money!Idle, Ledger!Idle, Money!dbVars, Ledger!dbVars, Money!gatewayVars,
            Ledger!gatewayVars
<1>a. UNCHANGED caseState => UNCHANGED [r \in Requests |-> LedgerState(r)]
  BY DEF Written, LedgerStates
<1>1. Money!Refresh(w) => Ledger!Refresh(w)
  BY <1>a DEF Money!Refresh, Ledger!Refresh, Money!PendingAt, Ledger!PendingAt, Money!AcceptedBy,
         Ledger!AcceptedBy, Money!RequestsOf, Ledger!RequestsOf, Money!Remaining, Ledger!Remaining
<1>2. /\ Money!RefreshFails(w) => Ledger!RefreshFails(w)
      /\ Money!Store(w) => Ledger!Store(w)
      /\ Money!Mark(w) => Ledger!Mark(w)
  BY <1>a DEF Money!RefreshFails, Ledger!RefreshFails, Money!Store, Ledger!Store, Money!Mark, Ledger!Mark
<1>3. /\ Money!Check(w) => Ledger!Check(w)
      /\ Money!Reserve(w) => Ledger!Reserve(w)
  BY <1>a DEF Money!Check, Ledger!Check, Money!Reserve, Ledger!Reserve, Money!Eligible, Ledger!Eligible,
         Money!Balance, Ledger!Balance, Money!CanReserve, Ledger!CanReserve, Money!ActiveOf,
         Ledger!ActiveOf, Money!ActiveStatuses, Ledger!ActiveStatuses, Money!RequestsOf,
         Ledger!RequestsOf
<1>4. /\ Money!RefundAccepted(w) => Ledger!RefundAccepted(w)
      /\ Money!RefundRejected(w) => Ledger!RefundRejected(w)
      /\ Money!RefundReplyLost(w) => Ledger!RefundReplyLost(w)
  BY <1>a DEF Money!RefundAccepted, Ledger!RefundAccepted, Money!RefundRejected,
         Ledger!RefundRejected, Money!RefundReplyLost, Ledger!RefundReplyLost,
         Money!GatewayTakes, Ledger!GatewayTakes, Money!CountDispatch, Ledger!CountDispatch,
         Money!AcceptedBy, Ledger!AcceptedBy, Money!RequestsOf, Ledger!RequestsOf,
         Money!Remaining, Ledger!Remaining
<1>5. /\ Money!Release(w) => Ledger!Release(w)
      /\ Money!Attach(w) => Ledger!Attach(w)
      /\ Money!Finalize(w) => Ledger!Finalize(w)
      /\ Money!Record(w) => Ledger!Record(w)
  BY <1>a DEF Money!Release, Ledger!Release, Money!ReleaseRow, Ledger!ReleaseRow, Money!Attach,
         Ledger!Attach, Money!Finalize, Ledger!Finalize, Money!CanFinalize, Ledger!CanFinalize,
         Money!FinalizeRow, Ledger!FinalizeRow, Money!Record, Ledger!Record, Money!Balance,
         Ledger!Balance, Money!ActiveStatuses, Ledger!ActiveStatuses, Money!DispatchStatus,
         Ledger!DispatchStatus
<1>6. /\ Money!Announce(w) => Ledger!Announce(w)
      /\ Money!FailSafe(w) => Ledger!FailSafe(w)
      /\ Money!Publish(w) => Ledger!Publish(w)
  BY DEF Money!Announce, Ledger!Announce, Money!FailSafe, Ledger!FailSafe, Money!Publish,
         Ledger!Publish, Money!DispatchStatus, Ledger!DispatchStatus, Written, LedgerStates,
         Ledger!SetState
<1> QED BY <1>1, <1>2, <1>3, <1>4, <1>5, <1>6 DEF Money!ExecuteStep, Ledger!ExecuteStep

LEMMA LedgerHears ==
    ASSUME NEW w \in Workers, Money!WebhookStep(w), Written(w)
    PROVE  Ledger!WebhookStep(w)
<1> USE DEF Money!At, Ledger!At, Money!Goto, Ledger!Goto, Money!Return, Ledger!Return,
            Money!Idle, Ledger!Idle, Money!dbVars, Ledger!dbVars, Money!gatewayVars,
            Ledger!gatewayVars
<1>a. UNCHANGED caseState => UNCHANGED [r \in Requests |-> LedgerState(r)]
  BY DEF Written, LedgerStates
<1>1. Money!Lookup(w) => Ledger!Lookup(w)
  BY <1>a DEF Money!Lookup, Ledger!Lookup, Money!TerminalStatuses, Ledger!TerminalStatuses
<1>2. Money!Settle(w) => Ledger!Settle(w)
  BY <1>a DEF Money!Settle, Ledger!Settle, Money!ReleaseRow, Ledger!ReleaseRow, Money!CanFinalize,
              Ledger!CanFinalize, Money!FinalizeRow, Ledger!FinalizeRow, Money!Balance,
              Ledger!Balance, Money!ActiveStatuses, Ledger!ActiveStatuses
<1>3. Money!Update(w) => Ledger!Update(w)
  BY <1>a DEF Money!Update, Ledger!Update, Money!SettledStatus, Ledger!SettledStatus
<1>4. Money!Close(w) => Ledger!Close(w)
  BY DEF Money!Close, Ledger!Close, Money!SettledStatus, Ledger!SettledStatus, Written, LedgerStates,
         Ledger!SetState
<1> QED BY <1>1, <1>2, <1>3, <1>4 DEF Money!WebhookStep, Ledger!WebhookStep

LEMMA LedgerBegins ==
    ASSUME UNCHANGED caseState => UNCHANGED LedgerStates
    PROVE  /\ \A w \in Workers : \A r \in Requests :
                /\ Money!ExecuteBegin(w, r) => Ledger!ExecuteBegin(w, r)
                /\ \A e \in Money!EventTypes : Money!WebhookBegin(w, r, e) => Ledger!WebhookBegin(w, r, e)
           /\ \A w \in Workers : Money!Abort(w) => Ledger!Abort(w)
           /\ \A r \in Requests : Money!GatewayResolves(r) => Ledger!GatewayResolves(r)
<1> USE DEF Money!At, Ledger!At, Money!Return, Ledger!Return, Money!Begin, Ledger!Begin,
            Money!Idle, Ledger!Idle, Money!dbVars, Ledger!dbVars, Money!gatewayVars,
            Ledger!gatewayVars
<1>a. UNCHANGED caseState => UNCHANGED [r \in Requests |-> LedgerState(r)]
  BY DEF LedgerStates
<1>1. ASSUME NEW w \in Workers, NEW r \in Requests, Money!ExecuteBegin(w, r)
      PROVE  Ledger!ExecuteBegin(w, r)
  <2>1. LedgerState(r) \in Ledger!Approved
    BY <1>1 DEF Money!ExecuteBegin, Money!Approved, Ledger!Approved, LedgerState, Money!CaseStates
  <2> QED BY <1>1, <1>a, <2>1 DEF Money!ExecuteBegin, Ledger!ExecuteBegin
<1>2. ASSUME NEW w \in Workers, NEW r \in Requests, NEW e \in Money!EventTypes,
             Money!WebhookBegin(w, r, e)
      PROVE  Ledger!WebhookBegin(w, r, e)
  BY <1>2, <1>a DEF Money!WebhookBegin, Ledger!WebhookBegin, Money!Signed, Ledger!Signed
<1>3. ASSUME NEW w \in Workers, Money!Abort(w) PROVE Ledger!Abort(w)
  BY <1>3, <1>a DEF Money!Abort, Ledger!Abort
<1>4. ASSUME NEW r \in Requests, Money!GatewayResolves(r) PROVE Ledger!GatewayResolves(r)
  BY <1>4, <1>a DEF Money!GatewayResolves, Ledger!GatewayResolves
<1> QED BY <1>1, <1>2, <1>3, <1>4

\* What the handlers of CaseWorkflow write is never a refund.
LEMMA NoCaseRefunds ==
    ASSUME Facts!TypeInv, CaseHalfStep
    PROVE  \A r \in Requests : caseState'[r] = "REFUNDED" => caseState[r] = "REFUNDED"
<1>0. /\ caseState \in [Requests -> Facts!States]
      /\ \A w \in Workers : job[w].step = "setState" => job[w].target # "REFUNDED"
  BY DEF Facts!TypeInv, Facts!TypeOK, Facts!Loaded, Facts!Carries, Facts!MoneyStates
<1>1. ASSUME NEW w \in Workers, Facts!SetState(w)
      PROVE  \A r \in Requests : caseState'[r] = "REFUNDED" => caseState[r] = "REFUNDED"
  BY <1>0, <1>1 DEF Facts!SetState, Facts!At
<1>2. ASSUME NEW w \in Workers, NEW r \in Requests, Facts!Register(w, r)
      PROVE  \A q \in Requests : caseState'[q] = "REFUNDED" => caseState[q] = "REFUNDED"
  BY <1>0, <1>2 DEF Facts!Register
<1>3. ASSUME CaseHalfStep, ~(\E w \in Workers : Facts!SetState(w)),
             ~(\E w \in Workers, r \in Requests : Facts!Register(w, r))
      PROVE  UNCHANGED caseState
  BY <1>3 DEF CaseHalfStep, Facts!Next, Facts!vars, Facts!ScoreBegin, Facts!Review,
              Facts!VerifyBegin, Facts!RuleBegin, Facts!CompleteBegin, Facts!Continue,
              Facts!RecordIntegrity, Facts!Decide, Facts!Open, Facts!Close, Facts!Rule,
              Facts!Audit, Facts!Restart
<1> QED BY <1>1, <1>2, <1>3

\* A step that leaves the money tables alone is somebody else's.
LEMMA CasesMoveOn ==
    ASSUME UNCHANGED moneyVars,
           \A r \in Requests : caseState'[r] = "REFUNDED" => caseState[r] = "REFUNDED"
    PROVE  Ledger!CasesMove
<1>1. \A r \in Requests : LedgerState(r)' \in Money!CaseStates
  BY DEF LedgerState, Money!CaseStates
<1>2. [r \in Requests |-> LedgerState(r)]' \in [Requests -> Ledger!CaseStates]
  BY <1>1 DEF Money!CaseStates, Ledger!CaseStates
<1>3. \A r \in Requests : LedgerState(r)' = "REFUNDED" => LedgerState(r) = "REFUNDED"
  BY DEF LedgerState, Money!CaseStates
<1> QED BY <1>2, <1>3 DEF Ledger!CasesMove, Ledger!gatewayVars, moneyVars

OpenStep == [Ledger!Next \/ Ledger!CasesMove]_(Ledger!vars)

LEMMA CaseStepOpens ==
    ASSUME Facts!TypeInv, NEW w \in Workers, CaseStep(w)
    PROVE  OpenStep
<1>0. \A r \in Requests : caseState'[r] = "REFUNDED" => caseState[r] = "REFUNDED"
  BY CaseStepHalves, NoCaseRefunds
<1>1. ASSUME NEW r \in Requests, RegisterCase(w, r)
      PROVE  OpenStep
  <2>1. /\ caseState[r] = "ABSENT" /\ caseState' = [caseState EXCEPT ![r] = "RECEIVED"]
        /\ caseState \in [Requests -> Facts!States]
    BY <1>1 DEF RegisterCase, Money!Register, Facts!TypeInv, Facts!TypeOK
  <2>2. LedgerStates' = [LedgerStates EXCEPT ![r] = "RECEIVED"]
    BY <2>1, LedgerFollows DEF Money!CaseStates
  <2>3. LedgerState(r) = "ABSENT"
    BY <2>1 DEF LedgerState, Money!CaseStates
  <2>4. Ledger!Register(w, r)
    BY <1>1, <2>2, <2>3 DEF RegisterCase, Money!Register, Ledger!Register, LedgerStates, Money!At,
                            Ledger!At, Money!gatewayVars, Ledger!gatewayVars
  <2> QED BY <2>4 DEF OpenStep, Ledger!Next
<1>2. CASE UNCHANGED moneyVars
  BY <1>0, <1>2, CasesMoveOn DEF OpenStep
<1> QED BY <1>1, <1>2 DEF CaseStep, ScoreCase

LEMMA RefundStepOpens ==
    ASSUME GuardInv, NEW w \in Workers, RefundStep(w)
    PROVE  OpenStep
<1>1. CASE Money!ExecuteStep(w) \/ Money!WebhookStep(w)
  <2>1. task[w].step # "idle"
    BY <1>1 DEF Money!ExecuteStep, Money!WebhookStep, Money!At, Money!Refresh, Money!RefreshFails,
                Money!Store, Money!Check, Money!Reserve, Money!Mark, Money!Announce,
                Money!RefundAccepted, Money!RefundRejected, Money!RefundReplyLost, Money!Release,
                Money!FailSafe, Money!Attach, Money!Finalize, Money!Record, Money!Publish,
                Money!Lookup, Money!Settle, Money!Update, Money!Close
  <2> QED BY <1>1, <2>1, HandlersWrite, LedgerExecutes, LedgerHears DEF OpenStep, Ledger!Next
<1>2. CASE \E r \in Requests :
             Money!ExecuteBegin(w, r) \/ \E e \in Money!EventTypes : Money!WebhookBegin(w, r, e)
  BY <1>2, LedgerFollows, LedgerBegins DEF OpenStep, Ledger!Next, Money!EventTypes,
                                           Ledger!EventTypes
<1> QED BY <1>1, <1>2 DEF RefundStep

LEMMA RestOpens ==
    ASSUME Facts!TypeInv, (\E w \in Workers : Crash(w)) \/ Gateway \/ UNCHANGED vars
    PROVE  OpenStep
<1>1. ASSUME NEW w \in Workers, Crash(w)
      PROVE  OpenStep
  <2>1. UNCHANGED caseState
    BY <1>1 DEF Crash, Flow!Restart
  <2>2. CASE UNCHANGED moneyVars
    BY <2>1, <2>2, CasesMoveOn DEF OpenStep
  <2>3. CASE Money!Abort(w)
    BY <2>1, <2>3, LedgerFollows, LedgerBegins DEF OpenStep, Ledger!Next
  <2> QED BY <1>1, <2>2, <2>3 DEF Crash
<1>2. CASE Gateway
  BY <1>2, LedgerFollows, LedgerBegins DEF Gateway, OpenStep, Ledger!Next
<1>3. CASE UNCHANGED vars
  BY <1>3, CasesMoveOn DEF vars, OpenStep
<1> QED BY <1>1, <1>2, <1>3

\* Whatever the cases go through, however many processes overwrite each
\* other's states and wherever they are cut short, every step of the service is
\* a step of the money path or leaves its tables alone and refunds no case.
THEOREM ServiceKeepsLedger == Spec => Ledger!OpenSpec
<1>1. Init => Ledger!Init
  <2> SUFFICES ASSUME Init PROVE Ledger!Init
    OBVIOUS
  <2>1. [r \in Requests |-> LedgerState(r)] = [r \in Requests |-> "ABSENT"]
    BY DEF Init, Flow!Init, LedgerState, Money!CaseStates
  <2> QED BY <2>1 DEF Init, Money!Init, Ledger!Init, Money!Idle, Ledger!Idle
<1>2. GuardInv /\ [Next]_vars => [Ledger!Next \/ Ledger!CasesMove]_(Ledger!vars)
  BY CaseStepOpens, RefundStepOpens, RestOpens DEF Next, GuardInv, Facts!ApprovalInv, OpenStep
<1> QED BY <1>1, <1>2, GuardInvariance, PTL DEF Spec, Ledger!OpenSpec

\* No request reaches the gateway twice, with any number of processes that score,
\* verify, review and refund side by side and take approved cases up again.
THEOREM ServiceDispatchesOnce == Spec => []AtMostOneDispatch
<1>1. Ledger!OpenSpec => []Ledger!AtMostOneDispatch
  BY LedgerApplies, Ledger!OpenDispatch
<1>2. Ledger!AtMostOneDispatch => AtMostOneDispatch
  BY DEF Ledger!AtMostOneDispatch, AtMostOneDispatch, Money!AtMostOneDispatch
<1> QED BY <1>1, <1>2, ServiceKeepsLedger, PTL

\* Nor does any table of the service report a refund the gateway has not
\* processed, whichever handler wrote last.
THEOREM ServiceSuccessIsReal == Spec => []Money!SuccessIsReal
<1>1. Ledger!OpenSpec => []Ledger!SuccessIsReal
  BY LedgerApplies, Ledger!OpenSuccess
<1>2. Ledger!SuccessIsReal => Money!SuccessIsReal
  BY DEF Ledger!SuccessIsReal, Money!SuccessIsReal, LedgerState, Money!CaseStates
<1> QED BY <1>1, <1>2, ServiceKeepsLedger, PTL

\* A settled ledger row of the service is never reopened.
THEOREM ServiceSettlesOnce == Spec => Money!SettledStaysSettled
<1>1. Ledger!OpenSpec => Ledger!SettledStaysSettled
  BY LedgerApplies, Ledger!OpenSettles
<1>2. [\A r \in Requests : ledger[r] \in Ledger!TerminalStatuses => ledger'[r] = ledger[r]]_(Ledger!vars)
        => [\A r \in Requests : ledger[r] \in Money!TerminalStatuses => ledger'[r] = ledger[r]]_(Money!vars)
  BY DEF Ledger!vars, Ledger!dbVars, Ledger!TerminalStatuses, Money!TerminalStatuses
<1> QED BY <1>1, <1>2, ServiceKeepsLedger, PTL
        DEF Ledger!SettledStaysSettled, Money!SettledStaysSettled

\* The money the gateway keeps is reserved or paid in the ledger of the service,
\* unless the reply that said so was lost; and then no handler, of a case or of
\* its refund, ever reports that refund as a success.
THEOREM ServiceBooksWhatIsTaken == Spec => []Money!TakenIsBooked
<1>1. Ledger!OpenSpec => []Ledger!TakenIsBooked
  <2>1. Ledger!OpenSpec => []Ledger!Booking
    BY LedgerApplies, Ledger!OpenBooking
  <2>2. Ledger!Booking => Ledger!TakenIsBooked
    BY LedgerApplies, Ledger!BookingShows
  <2> QED BY <2>1, <2>2, PTL
<1>2. Ledger!TakenIsBooked => Money!TakenIsBooked
  <2>1. \A r \in Requests : LedgerState(r) # "REFUNDED" => caseState[r] # "REFUNDED"
    BY DEF LedgerState, Money!CaseStates
  <2> QED BY <2>1 DEF Ledger!TakenIsBooked, Money!TakenIsBooked, Ledger!NoSuccessRecorded,
                      Money!NoSuccessRecorded
<1> QED BY <1>1, <1>2, ServiceKeepsLedger, PTL

\* The recorded balance of the service covers its active reservations.
THEOREM ServiceCoversReservations ==
    ASSUME Uploads = {}, ~AuthoritativeBalance
    PROVE  Spec => []Money!ReservationsAreCovered
<1>1. Ledger!OwnBalance
  BY DEF Ledger!OwnBalance
<1>2. Ledger!OwnBalance /\ Ledger!OpenSpec => []Ledger!MoneyInv
  BY LedgerApplies, Ledger!OpenMoney
<1>3. Ledger!MoneyInv => Money!ReservationsAreCovered
  BY DEF Ledger!MoneyInv, Ledger!Money, Ledger!ReservationsAreCovered,
         Money!ReservationsAreCovered, Ledger!ActiveOf, Money!ActiveOf, Ledger!RequestsOf,
         Money!RequestsOf, Ledger!ActiveStatuses, Money!ActiveStatuses
<1> QED BY <1>1, <1>2, <1>3, ServiceKeepsLedger, PTL

\* The refunds of a payment stay within what was captured, though neither the
\* gateway nor any case handler looks at more than the recorded balance.
THEOREM ServiceNeverOverRefunds ==
    ASSUME Uploads = {}, ~AuthoritativeBalance, ~LosesReplies
    PROVE  Spec => []Money!NoOverRefund
<1>1. Ledger!OwnBalance /\ Ledger!EveryReply
  BY DEF Ledger!OwnBalance, Ledger!EveryReply
<1>2. Ledger!OwnBalance /\ Ledger!EveryReply /\ Ledger!OpenSpec => []Ledger!NoOverRefund
  BY LedgerApplies, Ledger!OpenRefunds
<1>3. Ledger!NoOverRefund => Money!NoOverRefund
  BY DEF Ledger!NoOverRefund, Money!NoOverRefund, Ledger!AcceptedBy, Money!AcceptedBy,
         Ledger!RequestsOf, Money!RequestsOf
<1> QED BY <1>1, <1>2, <1>3, ServiceKeepsLedger, PTL

\* And the reservations of the whole service keep the promise of RefundEscrow.
THEOREM ServiceKeepsEscrow ==
    ASSUME Uploads = {}, ~AuthoritativeBalance, ~LosesReplies
    PROVE  Spec => Money!ImplementsEscrow
<1>1. Ledger!OwnBalance /\ Ledger!EveryReply
  BY DEF Ledger!OwnBalance, Ledger!EveryReply
<1>2. Ledger!OwnBalance /\ Ledger!EveryReply /\ Ledger!OpenSpec => Ledger!ImplementsEscrow
  BY LedgerApplies, Ledger!OpenEscrow
<1>3. Ledger!Escrow!Init => Money!Escrow!Init
  BY DEF Ledger!Escrow!Init, Money!Escrow!Init, Ledger!Promise, Money!Promise,
         Ledger!PromiseOf, Money!PromiseOf, Ledger!Taken, Money!Taken
<1>4. [Ledger!Escrow!Next]_<<Ledger!Promise, Ledger!Taken>>
        => [Money!Escrow!Next]_<<Money!Promise, Money!Taken>>
  BY DEF Ledger!Escrow!Next, Money!Escrow!Next, Ledger!Promise, Money!Promise,
         Ledger!PromiseOf, Money!PromiseOf, Ledger!Taken, Money!Taken,
         Ledger!Escrow!Hold, Money!Escrow!Hold, Ledger!Escrow!Move, Money!Escrow!Move,
         Ledger!Escrow!Settle, Money!Escrow!Settle,
         Ledger!Escrow!Committed, Money!Escrow!Committed
<1> QED BY <1>1, <1>2, <1>3, <1>4, ServiceKeepsLedger, PTL
        DEF Ledger!ImplementsEscrow, Money!ImplementsEscrow,
            Ledger!Escrow!Spec, Money!Escrow!Spec

-----------------------------------------------------------------------------
(* One process: what RefundMoneyProofs shows of the records of a refund, on *)
(* the cases as RefundExecution sees them.                                  *)

Records == INSTANCE RefundMoneyProofs WITH caseState <- [r \in Requests |-> RefundState(r)]

LEMMA RecordsApply ==
    /\ Records!WorkersAssumption /\ Records!AmountAssumption /\ Records!TotalAssumption
    /\ Records!GatewayAssumption /\ Records!BoundAssumption
BY NothingAssumption, MoneyAssumption
   DEF Money!AmountAssumption, Money!TotalAssumption, Money!GatewayAssumption,
       Money!BoundAssumption, Money!Snapshot, Records!WorkersAssumption,
       Records!AmountAssumption, Records!TotalAssumption, Records!GatewayAssumption,
       Records!BoundAssumption, Records!Snapshot

\* The states of a case whose money has moved are seen as they are.
LEMMA MoneyStatesAreSeen ==
    ASSUME NEW r \in Requests
    PROVE  /\ \A s \in {"REFUND_PROCESSING", "REFUNDED"} : RefundState(r) = s <=> caseState[r] = s
           /\ RefundState(r) = "FAILED_SAFE" => caseState[r] = "FAILED_SAFE"
BY DEF RefundState, Flow!MoneyStates

\* Both instances of RefundExecution are the same one.
LEMMA RecordsSteps ==
    /\ Refund!Init => Records!Init
    /\ [Refund!Next]_(Refund!vars) => [Records!Next]_(Records!vars)
<1> USE DEF Refund!At, Records!At, Refund!Goto, Records!Goto, Refund!Return, Records!Return,
            Refund!Idle, Records!Idle, Refund!dbVars, Records!dbVars,
            Refund!gatewayVars, Records!gatewayVars, Refund!vars, Records!vars
<1>1. ASSUME NEW w \in Workers
      PROVE  /\ Refund!Refresh(w) => Records!Refresh(w)
             /\ Refund!RefreshFails(w) => Records!RefreshFails(w)
             /\ Refund!Store(w) => Records!Store(w)
             /\ Refund!Mark(w) => Records!Mark(w)
  BY DEF Refund!Refresh, Records!Refresh, Refund!RefreshFails, Records!RefreshFails,
         Refund!Store, Records!Store, Refund!Mark, Records!Mark, Refund!PendingAt,
         Records!PendingAt, Refund!AcceptedBy, Records!AcceptedBy,
         Refund!RequestsOf, Records!RequestsOf, Refund!Remaining, Records!Remaining
<1>2. ASSUME NEW w \in Workers
      PROVE  /\ Refund!Check(w) => Records!Check(w)
             /\ Refund!Reserve(w) => Records!Reserve(w)
  BY DEF Refund!Check, Records!Check, Refund!Reserve, Records!Reserve,
         Refund!Eligible, Records!Eligible, Refund!Balance, Records!Balance,
         Refund!CanReserve, Records!CanReserve, Refund!ActiveOf, Records!ActiveOf,
         Refund!ActiveStatuses, Records!ActiveStatuses, Refund!RequestsOf,
         Records!RequestsOf
<1>3. ASSUME NEW w \in Workers
      PROVE  /\ Refund!RefundAccepted(w) => Records!RefundAccepted(w)
             /\ Refund!RefundRejected(w) => Records!RefundRejected(w)
             /\ Refund!RefundReplyLost(w) => Records!RefundReplyLost(w)
  BY DEF Refund!RefundAccepted, Records!RefundAccepted, Refund!RefundRejected,
         Records!RefundRejected, Refund!RefundReplyLost, Records!RefundReplyLost,
         Refund!GatewayTakes, Records!GatewayTakes, Refund!CountDispatch,
         Records!CountDispatch, Refund!AcceptedBy, Records!AcceptedBy,
         Refund!RequestsOf, Records!RequestsOf, Refund!Remaining, Records!Remaining
<1>4. ASSUME NEW w \in Workers
      PROVE  /\ Refund!Release(w) => Records!Release(w)
             /\ Refund!Attach(w) => Records!Attach(w)
             /\ Refund!Finalize(w) => Records!Finalize(w)
             /\ Refund!Record(w) => Records!Record(w)
  BY DEF Refund!Release, Records!Release, Refund!Attach, Records!Attach,
         Refund!Finalize, Records!Finalize, Refund!Record, Records!Record,
         Refund!ReleaseRow, Records!ReleaseRow, Refund!CanFinalize,
         Records!CanFinalize, Refund!FinalizeRow, Records!FinalizeRow,
         Refund!Balance, Records!Balance, Refund!ActiveStatuses,
         Records!ActiveStatuses, Refund!DispatchStatus, Records!DispatchStatus
<1>5. ASSUME NEW w \in Workers
      PROVE  /\ Refund!Announce(w) => Records!Announce(w)
             /\ Refund!FailSafe(w) => Records!FailSafe(w)
             /\ Refund!Publish(w) => Records!Publish(w)
  BY DEF Refund!Announce, Records!Announce, Refund!FailSafe, Records!FailSafe,
         Refund!Publish, Records!Publish, Refund!SetState, Records!SetState,
         Refund!DispatchStatus, Records!DispatchStatus
<1>6. ASSUME NEW w \in Workers
      PROVE  /\ Refund!Lookup(w) => Records!Lookup(w)
             /\ Refund!Settle(w) => Records!Settle(w)
             /\ Refund!Update(w) => Records!Update(w)
             /\ Refund!Close(w) => Records!Close(w)
  BY DEF Refund!Lookup, Records!Lookup, Refund!Settle, Records!Settle,
         Refund!Update, Records!Update, Refund!Close, Records!Close,
         Refund!TerminalStatuses, Records!TerminalStatuses, Refund!ReleaseRow,
         Records!ReleaseRow, Refund!CanFinalize, Records!CanFinalize,
         Refund!FinalizeRow, Records!FinalizeRow, Refund!Balance, Records!Balance,
         Refund!ActiveStatuses, Records!ActiveStatuses, Refund!SettledStatus,
         Records!SettledStatus, Refund!SetState, Records!SetState
<1>7. ASSUME NEW w \in Workers, NEW r \in Requests
      PROVE  /\ Refund!Register(w, r) => Records!Register(w, r)
             /\ Refund!AutoApproves(w, r) => Records!AutoApproves(w, r)
             /\ Refund!OperatorApproves(w, r) => Records!OperatorApproves(w, r)
             /\ Refund!ExecuteBegin(w, r) => Records!ExecuteBegin(w, r)
             /\ \A e \in Refund!EventTypes : Refund!WebhookBegin(w, r, e) => Records!WebhookBegin(w, r, e)
  BY DEF Refund!Register, Records!Register, Refund!AutoApproves, Records!AutoApproves,
         Refund!OperatorApproves, Records!OperatorApproves, Refund!ExecuteBegin,
         Records!ExecuteBegin, Refund!WebhookBegin, Records!WebhookBegin,
         Refund!Begin, Records!Begin, Refund!Approved,
         Records!Approved, Refund!Signed, Records!Signed, Refund!EventTypes,
         Records!EventTypes
<1>8. Refund!Init => Records!Init
  BY DEF Refund!Init, Records!Init
<1>9. ASSUME Refund!Next PROVE Records!Next
  <2>1. ASSUME NEW w \in Workers PROVE Refund!ExecuteStep(w) => Records!ExecuteStep(w)
    BY <1>1, <1>2, <1>3, <1>4, <1>5 DEF Refund!ExecuteStep, Records!ExecuteStep
  <2>2. ASSUME NEW w \in Workers PROVE Refund!WebhookStep(w) => Records!WebhookStep(w)
    BY <1>6 DEF Refund!WebhookStep, Records!WebhookStep
  <2>3. Refund!EventTypes = Records!EventTypes
    BY DEF Refund!EventTypes, Records!EventTypes
  <2>4. CASE \E w \in Workers, r \in Requests :
               \/ Refund!Register(w, r) \/ Refund!AutoApproves(w, r) \/ Refund!OperatorApproves(w, r)
               \/ Refund!ExecuteBegin(w, r)
               \/ \E e \in Refund!EventTypes : Refund!WebhookBegin(w, r, e)
    BY <1>7, <2>3, <2>4 DEF Records!Next
  <2>5. CASE \E w \in Workers : Refund!ExecuteStep(w) \/ Refund!WebhookStep(w) \/ Refund!Abort(w)
    <3> PICK w \in Workers : Refund!ExecuteStep(w) \/ Refund!WebhookStep(w) \/ Refund!Abort(w)
      BY <2>5
    <3>1. Refund!Abort(w) => Records!Abort(w)
      BY DEF Refund!Abort, Records!Abort
    <3> QED BY <2>1, <2>2, <3>1 DEF Records!Next
  <2>6. CASE \E r \in Requests : Refund!GatewayResolves(r)
    <3> PICK r \in Requests : Refund!GatewayResolves(r)
      BY <2>6
    <3>1. Records!GatewayResolves(r)
      BY DEF Refund!GatewayResolves, Records!GatewayResolves
    <3> QED BY <3>1 DEF Records!Next
  <2> QED BY <1>9, <2>4, <2>5, <2>6 DEF Refund!Next
<1>10. [Refund!Next]_(Refund!vars) => [Records!Next]_(Records!vars)
  BY <1>9
<1> QED BY <1>8, <1>10

\* The records of RefundExecution are those of the service.
LEMMA RecordsOfService == OneProcess /\ Spec => Records!OneProcess /\ Records!Spec
<1>1. OneProcess => Records!OneProcess
  BY DEF OneProcess, Records!OneProcess
<1> QED BY <1>1, ServiceRefines, RecordsSteps, PTL
        DEF ImplementsRefundExecution, Refund!Spec, Records!Spec

\* A refunded case of the service stays refunded: no late write of a score, a
\* ruling, a verification or an execute, and no second event, moves it.
THEOREM ServiceRefundsAreFinal == OneProcess /\ Spec => RefundedStaysRefunded
<1>1. Records!OneProcess /\ Records!Spec => [][Records!KeepsRefunded]_(Records!vars)
  BY RecordsApply, Records!RefundedIsFinal
<1>2. [Records!KeepsRefunded]_(Records!vars)
        => [\A r \in Requests : caseState[r] = "REFUNDED" => caseState'[r] = "REFUNDED"]_vars
  <2>1. \A r \in Requests : RefundState(r) = "REFUNDED" <=> caseState[r] = "REFUNDED"
    BY MoneyStatesAreSeen
  <2>2. \A r \in Requests : RefundState(r)' = "REFUNDED" <=> caseState'[r] = "REFUNDED"
    BY DEF RefundState, Flow!MoneyStates
  <2>3. UNCHANGED Records!vars => \A r \in Requests : RefundState(r)' = RefundState(r)
    BY DEF Records!vars, Records!dbVars
  <2> QED BY <2>1, <2>2, <2>3 DEF Records!KeepsRefunded
<1> QED BY <1>1, <1>2, RecordsOfService, PTL DEF RefundedStaysRefunded

\* Between handlers the case, its ledger row and its execution agree, though
\* case handlers write the same states.
THEOREM ServiceRecordsAgree ==
    ASSUME Uploads = {}, Records!Roomy, MaxAborts = 0
    PROVE  OneProcess /\ Spec => []Money!RecordsAgreeAtRest
<1>1. Records!OneProcess /\ Records!Spec => []Records!RecordsAgreeAtRest
  BY RecordsApply, Records!RoomyRecordsAgree
<1>2. Records!OneProcess /\ Records!Spec => []Records!TypeOK
  BY RecordsApply, Records!TypeCorrect, PTL
<1>3. Records!TypeOK /\ Records!RecordsAgreeAtRest => Money!RecordsAgreeAtRest
  <2> SUFFICES ASSUME Records!TypeOK, Records!RecordsAgreeAtRest,
                      NEW r \in Requests, ~Money!InHandler(r)
               PROVE  /\ ledger[r] = "none" =>
                           /\ execution[r] = "none"
                           /\ caseState[r] \notin {"REFUND_PROCESSING", "REFUNDED"}
                      /\ ledger[r] # "reserved"
                      /\ ledger[r] = "processing" =>
                           /\ attached[r]
                           /\ execution[r] = "REFUND_PROCESSING"
                           /\ caseState[r] = "REFUND_PROCESSING"
                      /\ ledger[r] = "succeeded" => execution[r] = "REFUNDED" /\ caseState[r] = "REFUNDED"
                      /\ ledger[r] = "failed" =>
                           execution[r] \in {"none", "FAILED_SAFE"} /\ caseState[r] = "FAILED_SAFE"
    <3>1. Records!TypeOK => ledger \in [Requests -> {"none", "reserved", "processing", "succeeded", "failed"}]
      BY DEF Records!TypeOK, Records!ActiveStatuses, Records!TerminalStatuses
    <3> QED BY <3>1 DEF Money!RecordsAgreeAtRest
  <2>1. ~Records!InHandler(r)
    BY DEF Money!InHandler, Records!InHandler
  <2>2. [q \in Requests |-> RefundState(q)][r] = RefundState(r)
    OBVIOUS
  <2> QED BY <2>1, <2>2, MoneyStatesAreSeen DEF Records!RecordsAgreeAtRest
<1> QED BY <1>1, <1>2, <1>3, RecordsOfService, PTL

\* And a deciding event whose handler is done has settled its reservation.
THEOREM ServiceReconciles ==
    ASSUME Uploads = {}, Records!Roomy, MaxAborts = 0, ~LosesReplies
    PROVE  OneProcess /\ Spec => []Money!ReconciliationSettles
<1>1. Records!OneProcess /\ Records!Spec => []Records!ReconciliationSettles
  BY RecordsApply, Records!RoomyReconciles
<1>2. Records!ReconciliationSettles => Money!ReconciliationSettles
  BY DEF Records!ReconciliationSettles, Money!ReconciliationSettles, Records!InHandler,
         Money!InHandler
<1> QED BY <1>1, <1>2, RecordsOfService, PTL

=============================================================================
