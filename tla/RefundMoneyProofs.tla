------------------------- MODULE RefundMoneyProofs -------------------------
(* Balances and records, for every number of requests and payments.  With   *)
(* an adapter that checks no balance (the mock, or a test gateway confirmed *)
(* by webhook) the reservation of RefundExecution is all that keeps refunds *)
(* within what was captured: it does, for every number of processes and     *)
(* crashes, when no client snapshot overwrites the recorded balance and the *)
(* gateway always answers, and the ledger is the escrow of RefundEscrow.  A *)
(* reply that is lost breaks the link between row and money, which is what  *)
(* TakenIsBooked of RefundExecutionProofs says and bounds.  For one         *)
(* process, where the balance covers the reservations, the records agree at *)
(* rest and a deciding event settles; with the deployed gateway that takes  *)
(* a payment with room for refunds that are counted twice.                  *)
EXTENDS RefundExecutionProofs

SucceededOf(p) == {r \in RequestsOf(p) : ledger[r] = "succeeded"}

Money ==
    /\ ReservationsAreCovered
    /\ \A p \in Payments :
         snapshot[p].refundable + Total[SucceededOf(p)] <= Captured[p]

NoRefresh == \A w \in Workers : task[w].step \notin {"refresh", "store"}

MoneyInv == Money /\ NoRefresh

LEMMA TotalIsNat ==
    ASSUME NEW S \in SUBSET Requests
    PROVE  Total[S] \in Nat
BY TotalAssumption

LEMMA TotalIsAdditive ==
    ASSUME NEW S \in SUBSET Requests, NEW T \in SUBSET Requests, S \cap T = {}
    PROVE  Total[S \cup T] = Total[S] + Total[T]
BY TotalAssumption

LEMMA TotalIsMonotone ==
    ASSUME NEW T \in SUBSET Requests, NEW S \in SUBSET T
    PROVE  Total[S] <= Total[T]
<1>1. S \in SUBSET Requests /\ (T \ S) \in SUBSET Requests /\ S \cap (T \ S) = {}
  OBVIOUS
<1>2. S \cup (T \ S) = T
  OBVIOUS
<1>3. Total[S \cup (T \ S)] = Total[S] + Total[T \ S]
  BY <1>1, TotalIsAdditive, Zenon
<1>4. Total[T] = Total[S] + Total[T \ S]
  BY <1>2, <1>3, Zenon
<1>5. Total[S] \in Nat /\ Total[T \ S] \in Nat
  BY <1>1, TotalIsNat, Zenon
<1> QED BY <1>4, <1>5

LEMMA TotalAddsOne ==
    ASSUME NEW S \in SUBSET Requests, NEW r \in Requests, r \notin S
    PROVE  Total[S \cup {r}] = Total[S] + AmountOf[r]
<1>1. S \cap {r} = {} /\ {r} \in SUBSET Requests
  OBVIOUS
<1>2. Total[S \cup {r}] = Total[S] + Total[{r}]
  BY <1>1, TotalIsAdditive, Zenon
<1>3. Total[{r}] = AmountOf[r]
  BY TotalAssumption, Zenon
<1> QED BY <1>2, <1>3

LEMMA BalanceIsNat ==
    ASSUME TypeOK, NEW p \in Payments
    PROVE  /\ snapshot[p].refundable \in Nat
           /\ Captured[p] \in Nat
           /\ ActiveOf(p) \in SUBSET Requests
           /\ SucceededOf(p) \in SUBSET Requests
           /\ Total[ActiveOf(p)] \in Nat
           /\ Total[SucceededOf(p)] \in Nat
<1>1. ActiveOf(p) \in SUBSET Requests /\ SucceededOf(p) \in SUBSET Requests
  BY DEF ActiveOf, SucceededOf, RequestsOf
<1> QED BY <1>1, TotalIsNat, AmountAssumption DEF TypeOK, Snapshot

\* The four ways a step may touch reservations and balances.
LEMMA SameMoney ==
    ASSUME Money, snapshot' = snapshot,
           \A r \in Requests : ledger'[r] = ledger[r]
    PROVE  Money'
<1>1. \A p \in Payments : ActiveOf(p)' = ActiveOf(p) /\ SucceededOf(p)' = SucceededOf(p)
  BY DEF ActiveOf, SucceededOf, RequestsOf
<1> QED BY <1>1 DEF Money, ReservationsAreCovered

LEMMA MarkMoney ==
    ASSUME TypeOK, Money, snapshot' = snapshot, NEW r \in Requests,
           ledger' = [ledger EXCEPT ![r] = IF @ = "reserved" THEN "processing" ELSE @]
    PROVE  Money'
<1>1. \A p \in Payments : ActiveOf(p)' = ActiveOf(p) /\ SucceededOf(p)' = SucceededOf(p)
  BY DEF TypeOK, ActiveOf, SucceededOf, RequestsOf, ActiveStatuses
<1> QED BY <1>1 DEF Money, ReservationsAreCovered

LEMMA ReserveMoney ==
    ASSUME TypeOK, Money, snapshot' = snapshot, NEW r \in Requests, CanReserve(r),
           ledger' = [ledger EXCEPT ![r] = "reserved"]
    PROVE  Money'
<1> DEFINE q == PaymentOf[r]
<1>1. q \in Payments /\ AmountOf[r] \in Nat
  BY AmountAssumption
<1>2. ledger[r] = "none" /\ AmountOf[r] <= snapshot[q].refundable - Total[ActiveOf(q)]
  BY DEF CanReserve, Balance
<1>3. \A p \in Payments : SucceededOf(p)' = SucceededOf(p)
  BY <1>2 DEF TypeOK, SucceededOf, RequestsOf
<1>4. \A p \in Payments : p # q => ActiveOf(p)' = ActiveOf(p)
  BY <1>2 DEF TypeOK, ActiveOf, RequestsOf
<1>5. ActiveOf(q)' = ActiveOf(q) \cup {r} /\ r \notin ActiveOf(q)
  BY <1>2 DEF TypeOK, ActiveOf, RequestsOf, ActiveStatuses
<1>6. Total[ActiveOf(q)'] = Total[ActiveOf(q)] + AmountOf[r]
  BY <1>1, <1>5, BalanceIsNat, TotalAddsOne
<1>7. Total[ActiveOf(q)'] <= snapshot[q].refundable
  BY <1>1, <1>2, <1>6, BalanceIsNat
<1> QED BY <1>3, <1>4, <1>7 DEF Money, ReservationsAreCovered

LEMMA ReleaseMoney ==
    ASSUME TypeOK, Money, snapshot' = snapshot, NEW r \in Requests, ReleaseRow(r)
    PROVE  Money'
<1>1. \A p \in Payments : ActiveOf(p)' \in SUBSET ActiveOf(p)
  BY DEF TypeOK, ReleaseRow, ActiveOf, RequestsOf, ActiveStatuses
<1>2. \A p \in Payments : SucceededOf(p)' = SucceededOf(p)
  BY DEF TypeOK, ReleaseRow, SucceededOf, RequestsOf, ActiveStatuses
<1>3. ASSUME NEW p \in Payments
      PROVE  Total[ActiveOf(p)'] <= snapshot[p].refundable
  <2>1. Total[ActiveOf(p)'] <= Total[ActiveOf(p)] /\ Total[ActiveOf(p)'] \in Nat
    BY <1>1, BalanceIsNat, TotalIsMonotone, TotalIsNat
  <2>2. Total[ActiveOf(p)] <= snapshot[p].refundable
    BY DEF Money, ReservationsAreCovered
  <2> QED BY <2>1, <2>2, BalanceIsNat
<1> QED BY <1>2, <1>3 DEF Money, ReservationsAreCovered

LEMMA FinalizeMoney ==
    ASSUME TypeOK, Money, NEW r \in Requests, CanFinalize(r), FinalizeRow(r)
    PROVE  Money'
<1> DEFINE q == PaymentOf[r]
<1>1. q \in Payments /\ AmountOf[r] \in Nat
  BY AmountAssumption
<1>2. snapshot[q] \in Snapshot
  BY <1>1 DEF TypeOK
<1>3. snapshot'[q].refundable = snapshot[q].refundable - AmountOf[r]
  BY <1>1, <1>2 DEF FinalizeRow, TypeOK, Snapshot
<1>4. \A p \in Payments : p # q => snapshot'[p] = snapshot[p]
  BY DEF FinalizeRow, TypeOK
<1>5. ledger[r] \in ActiveStatuses /\ ledger' = [ledger EXCEPT ![r] = "succeeded"]
  BY DEF CanFinalize, FinalizeRow
<1>6. \A p \in Payments : p # q => ActiveOf(p)' = ActiveOf(p) /\ SucceededOf(p)' = SucceededOf(p)
  BY <1>5 DEF TypeOK, ActiveOf, SucceededOf, RequestsOf
<1>7. /\ ActiveOf(q) = ActiveOf(q)' \cup {r} /\ r \notin ActiveOf(q)'
      /\ SucceededOf(q)' = SucceededOf(q) \cup {r} /\ r \notin SucceededOf(q)
  BY <1>5 DEF TypeOK, ActiveOf, SucceededOf, RequestsOf, ActiveStatuses
<1>8. ActiveOf(q)' \in SUBSET Requests
  BY <1>1, <1>7, BalanceIsNat
<1>9. /\ Total[ActiveOf(q)] = Total[ActiveOf(q)'] + AmountOf[r]
      /\ Total[SucceededOf(q)'] = Total[SucceededOf(q)] + AmountOf[r]
      /\ Total[ActiveOf(q)'] \in Nat
  BY <1>1, <1>7, <1>8, BalanceIsNat, TotalAddsOne, TotalIsNat
<1>10. /\ Total[ActiveOf(q)] <= snapshot[q].refundable
       /\ snapshot[q].refundable + Total[SucceededOf(q)] <= Captured[q]
  BY <1>1 DEF Money, ReservationsAreCovered
<1>11. /\ Total[ActiveOf(q)'] <= snapshot'[q].refundable
       /\ snapshot'[q].refundable + Total[SucceededOf(q)'] <= Captured[q]
  BY <1>1, <1>3, <1>9, <1>10, BalanceIsNat
<1> QED BY <1>4, <1>6, <1>11 DEF Money, ReservationsAreCovered

\* No worker ever refreshes a balance: execute goes straight to the check.
LEMMA NoRefreshKeeps ==
    ASSUME ~AuthoritativeBalance, TypeOK, NoRefresh, [Next \/ CasesMove]_vars
    PROVE  NoRefresh'
<1>0. TaskOK
  BY TypeParts
<1> USE DEF NoRefresh
<1>1. ASSUME NEW w \in Workers, ExecuteStep(w) \/ WebhookStep(w) \/ Abort(w)
      PROVE  NoRefresh'
  <2>1. ~Refresh(w) /\ ~RefreshFails(w) /\ ~Store(w)
    BY DEF Refresh, RefreshFails, Store, At
  <2>2. /\ task'[w].step \notin {"refresh", "store"}
        /\ \A v \in Workers : v # w => task'[v] = task[v]
    BY <1>0, <1>1, <2>1, Moved, Ended
       DEF ExecuteStep, WebhookStep, Check, Reserve, Mark, Announce, RefundAccepted,
           RefundRejected, RefundReplyLost, Release, FailSafe, Attach, Finalize, Record,
           Publish, Lookup, Settle, Update, Close, Abort
  <2> QED BY <2>2
<1>2. ASSUME NEW w \in Workers, NEW r \in Requests,
             \/ Register(w, r) \/ AutoApproves(w, r) \/ OperatorApproves(w, r)
             \/ ExecuteBegin(w, r)
             \/ \E e \in EventTypes : WebhookBegin(w, r, e)
      PROVE  NoRefresh'
  <2>1. CASE Register(w, r) \/ AutoApproves(w, r) \/ OperatorApproves(w, r)
    BY <2>1 DEF Register, AutoApproves, OperatorApproves
  <2>2. CASE ExecuteBegin(w, r)
    BY <1>0, <2>2, Begun DEF ExecuteBegin
  <2>3. CASE \E e \in EventTypes : WebhookBegin(w, r, e)
    BY <1>0, <2>3, Begun DEF WebhookBegin
  <2> QED BY <1>2, <2>1, <2>2, <2>3
<1>3. ASSUME (\E r \in Requests : GatewayResolves(r)) \/ CasesMove \/ UNCHANGED vars
      PROVE  NoRefresh'
  BY <1>3 DEF GatewayResolves, CasesMove, vars
<1> QED BY <1>1, <1>2, <1>3 DEF Next

\* Every step keeps reservations covered and balances within the capture.
LEMMA MoneyKeeps ==
    ASSUME Uploads = {}, TypeOK, Money, NoRefresh, [Next \/ CasesMove]_vars
    PROVE  Money'
<1>1. ASSUME NEW w \in Workers, ExecuteStep(w) \/ WebhookStep(w) \/ Abort(w)
      PROVE  Money'
  <2> DEFINE r == task[w].request
  <2>0. ~At(w, "idle") => r \in Requests
    BY BusyOnRequest
  <2>1. ~Refresh(w) /\ ~Store(w)
    BY DEF NoRefresh, Refresh, Store, At
  <2>2. CASE \/ RefreshFails(w) \/ Check(w) \/ Announce(w) \/ RefundAccepted(w)
             \/ RefundRejected(w) \/ RefundReplyLost(w) \/ FailSafe(w) \/ Attach(w)
             \/ Record(w) \/ Publish(w) \/ Lookup(w) \/ Update(w) \/ Close(w) \/ Abort(w)
    <3>1. snapshot' = snapshot /\ ledger' = ledger
      BY <2>2 DEF RefreshFails, Check, Announce, RefundAccepted, RefundRejected,
         RefundReplyLost, FailSafe, Attach, Record, Publish, Lookup, Update, Close, Abort, dbVars
    <3> QED BY <3>1, SameMoney
  <2>3. CASE Reserve(w)
    <3>1. r \in Requests /\ snapshot' = snapshot
      BY <2>0, <2>3 DEF Reserve, At
    <3>2. CASE CanReserve(r)
      <4>1. ledger' = [ledger EXCEPT ![r] = "reserved"]
        BY <2>3, <3>2 DEF Reserve
      <4> QED BY <3>1, <3>2, <4>1, ReserveMoney
    <3>3. CASE ~CanReserve(r)
      <4>1. ledger' = ledger
        BY <2>3, <3>3 DEF Reserve
      <4> QED BY <3>1, <4>1, SameMoney
    <3> QED BY <3>2, <3>3
  <2>4. CASE Mark(w)
    <3>1. /\ r \in Requests /\ snapshot' = snapshot
          /\ ledger' = [ledger EXCEPT ![r] = IF @ = "reserved" THEN "processing" ELSE @]
      BY <2>0, <2>4 DEF Mark, At
    <3> QED BY <3>1, MarkMoney
  <2>5. CASE Release(w)
    <3>1. r \in Requests /\ snapshot' = snapshot /\ ReleaseRow(r)
      BY <2>0, <2>5 DEF Release, At
    <3> QED BY <3>1, ReleaseMoney
  <2>6. CASE Finalize(w) \/ Settle(w)
    <3>1. r \in Requests
      BY <2>0, <2>6 DEF Finalize, Settle, At
    <3>2. \/ CanFinalize(r) /\ FinalizeRow(r)
          \/ snapshot' = snapshot /\ ReleaseRow(r)
          \/ snapshot' = snapshot /\ ledger' = ledger
      BY <2>6 DEF Finalize, Settle
    <3> QED BY <3>1, <3>2, FinalizeMoney, ReleaseMoney, SameMoney
  <2> QED BY <1>1, <2>1, <2>2, <2>3, <2>4, <2>5, <2>6 DEF ExecuteStep, WebhookStep
<1>2. ASSUME NEW w \in Workers, NEW r \in Requests,
             \/ Register(w, r) \/ AutoApproves(w, r) \/ OperatorApproves(w, r)
             \/ ExecuteBegin(w, r)
             \/ \E e \in EventTypes : WebhookBegin(w, r, e)
      PROVE  Money'
  <2>1. snapshot' = snapshot /\ ledger' = ledger
    BY <1>2 DEF Register, AutoApproves, OperatorApproves, ExecuteBegin, WebhookBegin, dbVars
  <2> QED BY <2>1, SameMoney
<1>3. ASSUME (\E r \in Requests : GatewayResolves(r)) \/ CasesMove \/ UNCHANGED vars
      PROVE  Money'
  <2>1. snapshot' = snapshot /\ ledger' = ledger
    BY <1>3 DEF GatewayResolves, CasesMove, vars, dbVars
  <2> QED BY <2>1, SameMoney
<1> QED BY <1>1, <1>2, <1>3 DEF Next

LEMMA InitMoney == Init => MoneyInv
<1> SUFFICES ASSUME Init PROVE MoneyInv
  OBVIOUS
<1>1. Total[{}] = 0
  <2>1. {} \in SUBSET Requests /\ {} \cap {} = {} /\ {} \cup {} = {}
    OBVIOUS
  <2>2. Total[{} \cup {}] = Total[{}] + Total[{}]
    BY <2>1, TotalIsAdditive, Zenon
  <2>3. Total[{}] = Total[{}] + Total[{}]
    BY <2>1, <2>2, Zenon
  <2>4. Total[{}] \in Nat
    BY <2>1, TotalIsNat, Zenon
  <2>5. \A n \in Nat : n = n + n => n = 0
    OBVIOUS
  <2> QED BY <2>3, <2>4, <2>5, Zenon
<1>2. ASSUME NEW p \in Payments
      PROVE  /\ ActiveOf(p) = {} /\ SucceededOf(p) = {}
             /\ snapshot[p].refundable \in 0 .. Captured[p]
  <2>1. ActiveOf(p) = {} /\ SucceededOf(p) = {}
    BY DEF Init, ActiveOf, SucceededOf, RequestsOf, ActiveStatuses
  <2>2. snapshot[p].refundable \in 0 .. Captured[p]
    BY AmountAssumption DEF Init
  <2> QED BY <2>1, <2>2
<1>3. \A p \in Payments :
        /\ Total[ActiveOf(p)] = 0 /\ Total[SucceededOf(p)] = 0
        /\ snapshot[p].refundable \in 0 .. Captured[p]
        /\ Captured[p] \in Nat
  BY <1>1, <1>2, AmountAssumption
<1>4. Money
  BY <1>3 DEF Money, ReservationsAreCovered
<1>5. NoRefresh
  BY DEF Init, Idle, NoRefresh
<1> QED BY <1>4, <1>5 DEF MoneyInv

\* The gateway checks no balance and no client uploads one.
OwnBalance == Uploads = {} /\ ~AuthoritativeBalance

\* Hypotheses on constants hold forever.
LEMMA ConstantsStay ==
    /\ OwnBalance => []OwnBalance
    /\ EveryReply => []EveryReply
<1>1. (OwnBalance => OwnBalance') /\ (EveryReply => EveryReply')
  BY DEF OwnBalance, EveryReply
<1> QED BY <1>1, PTL

\* Conservation holds whoever else writes case states.
LEMMA OpenMoney == OwnBalance /\ OpenSpec => []MoneyInv
<1>1. Init => MoneyInv
  BY InitMoney
<1>2. OwnBalance /\ IInv /\ MoneyInv /\ [Next \/ CasesMove]_vars => MoneyInv'
  BY MoneyKeeps, NoRefreshKeeps DEF MoneyInv, IInv, OwnBalance
<1> QED BY <1>1, <1>2, ConstantsStay, OpenInvariance, PTL DEF OpenSpec

\* The gateway took what active and paid rows hold, hence within the capture.
LEMMA AcceptedFits ==
    ASSUME IInv, MoneyInv, ReleasedMeansNoMoney, NEW p \in Payments
    PROVE  Total[AcceptedBy(p)] <= Captured[p]
<1>0. TypeOK /\ Ownership /\ Money
  BY DEF IInv, MoneyInv
<1>1. AcceptedBy(p) \in SUBSET (ActiveOf(p) \cup SucceededOf(p))
  BY <1>0 DEF TypeOK, Ownership, ReleasedMeansNoMoney, AcceptedBy, ActiveOf,
     SucceededOf, RequestsOf, ActiveStatuses, TerminalStatuses
<1>2. /\ ActiveOf(p) \cap SucceededOf(p) = {}
      /\ ActiveOf(p) \cup SucceededOf(p) \in SUBSET Requests
      /\ AcceptedBy(p) \in SUBSET Requests
  BY DEF AcceptedBy, ActiveOf, SucceededOf, RequestsOf, ActiveStatuses
<1>3. Total[ActiveOf(p) \cup SucceededOf(p)] = Total[ActiveOf(p)] + Total[SucceededOf(p)]
  BY <1>0, <1>2, BalanceIsNat, TotalIsAdditive
<1>4. Total[AcceptedBy(p)] <= Total[ActiveOf(p) \cup SucceededOf(p)]
  BY <1>1, <1>2, TotalIsMonotone
<1>5. /\ Total[ActiveOf(p)] <= snapshot[p].refundable
      /\ snapshot[p].refundable + Total[SucceededOf(p)] <= Captured[p]
  BY <1>0 DEF Money, ReservationsAreCovered
<1>6. Total[AcceptedBy(p)] \in Nat
  BY <1>2, TotalIsNat
<1> QED BY <1>0, <1>3, <1>4, <1>5, <1>6, BalanceIsNat

\* However many processes reserve at once and wherever they crash, the
\* recorded balance covers every active reservation.
THEOREM ReservationsHold ==
    ASSUME Uploads = {}, ~AuthoritativeBalance
    PROVE  Spec => []ReservationsAreCovered
<1>1. OwnBalance
  BY DEF OwnBalance
<1>2. MoneyInv => ReservationsAreCovered
  BY DEF MoneyInv, Money
<1> QED BY <1>1, <1>2, OpenMoney, SpecIsOpen, PTL

\* So the refunds of a payment stay within what was captured,
LEMMA OpenRefunds == OwnBalance /\ EveryReply /\ OpenSpec => []NoOverRefund
<1>1. EveryReply /\ OpenSpec => []ReleaseIsHonest
  BY OpenReleases
<1>2. IInv /\ MoneyInv /\ ReleaseIsHonest => NoOverRefund
  BY AcceptedFits DEF NoOverRefund, ReleaseIsHonest
<1> QED BY <1>1, <1>2, OpenMoney, OpenInvariance, PTL

\* And the refunds the gateway holds never exceed what it captured, though
\* the gateway checks nothing: every accepted refund is an active or a
\* succeeded row, and the reservations leave room for both.
THEOREM NeverOverRefunded ==
    ASSUME Uploads = {}, ~AuthoritativeBalance, ~LosesReplies
    PROVE  Spec => []NoOverRefund
<1>1. OwnBalance /\ EveryReply
  BY DEF OwnBalance, EveryReply
<1> QED BY <1>1, OpenRefunds, SpecIsOpen, PTL

-----------------------------------------------------------------------------
(* The escrow of RefundEscrow: Reserve holds, the gateway's own steps move  *)
(* money, and Release, Finalize and the webhook's Settle settle.            *)

EscrowInv == IInv /\ MoneyInv /\ ReleaseIsHonest

\* The escrow's variables, its commitments included, in the ledger's terms.
LEMMA PromiseReads ==
    ASSUME TypeOK, NEW r \in Requests
    PROVE  /\ Promise[r] = "open" <=> ledger[r] = "none"
           /\ Promise[r] = "held" <=> ledger[r] \in ActiveStatuses
           /\ Promise[r] = "paid" <=> ledger[r] = "succeeded"
           /\ Promise[r] = "returned" <=> ledger[r] = "failed"
           /\ Promise[r] \in {"open", "held", "paid", "returned"}
<1>1. ledger[r] \in {"none", "reserved", "processing", "succeeded", "failed"}
  BY DEF TypeOK, ActiveStatuses, TerminalStatuses
<1>2. Promise[r] = PromiseOf[ledger[r]]
  BY DEF Promise
<1> QED BY <1>1, <1>2 DEF PromiseOf, ActiveStatuses

LEMMA CommittedIs ==
    ASSUME TypeOK, NEW p \in Payments
    PROVE  Escrow!Committed(p) = ActiveOf(p) \cup SucceededOf(p)
<1>1. Escrow!Committed(p) = {r \in Requests : PaymentOf[r] = p /\ Promise[r] \in {"held", "paid"}}
  BY DEF Escrow!Committed, Promise, PromiseOf
<1> QED BY <1>1, PromiseReads DEF ActiveOf, SucceededOf, RequestsOf

LEMMA TakenReads ==
    ASSUME NEW r \in Requests
    PROVE  Taken[r] <=> gatewayRefund[r] \in {"pending", "processed"}
BY DEF Taken

\* What one changed row, or one changed refund, does to the escrow.
LEMMA RowMoves ==
    ASSUME TypeOK, NEW r \in Requests, NEW s \in DOMAIN PromiseOf,
           ledger' = [ledger EXCEPT ![r] = s]
    PROVE  Promise' = [Promise EXCEPT ![r] = PromiseOf[s]]
BY DEF TypeOK, Promise

LEMMA RefundMoves ==
    ASSUME TypeOK, NEW r \in Requests, NEW s,
           gatewayRefund' = [gatewayRefund EXCEPT ![r] = s]
    PROVE  Taken' = [Taken EXCEPT ![r] = s \in {"pending", "processed"}]
BY DEF TypeOK, Taken

LEMMA HoldStep ==
    ASSUME EscrowInv, NEW r \in Requests, CanReserve(r),
           ledger' = [ledger EXCEPT ![r] = "reserved"], gatewayRefund' = gatewayRefund
    PROVE  Escrow!Hold(r)
<1> DEFINE q == PaymentOf[r]
<1>0. TypeOK /\ Money
  BY DEF EscrowInv, IInv, MoneyInv
<1>1. q \in Payments /\ AmountOf[r] \in Nat
  BY AmountAssumption
<1>2. ledger[r] = "none" /\ AmountOf[r] <= snapshot[q].refundable - Total[ActiveOf(q)]
  BY DEF CanReserve, Balance
<1>3. Promise[r] = "open"
  BY <1>0, <1>2, PromiseReads
<1>4. Promise' = [Promise EXCEPT ![r] = "held"]
  BY <1>0, RowMoves DEF PromiseOf
<1>5. Taken' = Taken
  BY DEF Taken
<1>6. Total[Escrow!Committed(q) \cup {r}] <= Captured[q]
  <2>1. Escrow!Committed(q) = ActiveOf(q) \cup SucceededOf(q)
    BY <1>0, <1>1, CommittedIs
  <2>2. /\ ActiveOf(q) \in SUBSET Requests /\ SucceededOf(q) \in SUBSET Requests
        /\ ActiveOf(q) \cap SucceededOf(q) = {}
        /\ r \notin ActiveOf(q) \cup SucceededOf(q)
    BY <1>2 DEF ActiveOf, SucceededOf, RequestsOf, ActiveStatuses
  <2>3. Total[ActiveOf(q) \cup SucceededOf(q)] = Total[ActiveOf(q)] + Total[SucceededOf(q)]
    BY <2>2, TotalIsAdditive
  <2>4. Total[(ActiveOf(q) \cup SucceededOf(q)) \cup {r}]
          = Total[ActiveOf(q) \cup SucceededOf(q)] + AmountOf[r]
    BY <2>2, TotalAddsOne
  <2>5. snapshot[q].refundable + Total[SucceededOf(q)] <= Captured[q]
    BY <1>0, <1>1 DEF Money
  <2> QED BY <1>0, <1>1, <1>2, <2>1, <2>3, <2>4, <2>5, BalanceIsNat
<1> QED BY <1>3, <1>4, <1>5, <1>6 DEF Escrow!Hold

LEMMA SettleStep ==
    ASSUME EscrowInv, NEW r \in Requests, NEW s \in TerminalStatuses,
           ledger[r] \in ActiveStatuses,
           s = "succeeded" <=> gatewayRefund[r] \in {"pending", "processed"},
           ledger' = [ledger EXCEPT ![r] = s], gatewayRefund' = gatewayRefund
    PROVE  Escrow!Settle(r)
<1>0. TypeOK
  BY DEF EscrowInv, IInv
<1>1. Promise[r] = "held"
  BY <1>0, PromiseReads
<1>2. PromiseOf[s] = IF Taken[r] THEN "paid" ELSE "returned"
  BY TakenReads DEF PromiseOf, TerminalStatuses
<1>3. Promise' = [Promise EXCEPT ![r] = PromiseOf[s]]
  BY <1>0, RowMoves DEF PromiseOf, TerminalStatuses
<1>4. Taken' = Taken
  BY DEF Taken
<1> QED BY <1>1, <1>2, <1>3, <1>4 DEF Escrow!Settle

LEMMA MoveStep ==
    ASSUME EscrowInv, NEW r \in Requests, ledger[r] \in ActiveStatuses, ledger' = ledger,
           NEW s \in {"none", "pending", "processed", "failed"},
           gatewayRefund' = [gatewayRefund EXCEPT ![r] = s]
    PROVE  Escrow!Move(r) \/ UNCHANGED <<Promise, Taken>>
<1>0. TypeOK
  BY DEF EscrowInv, IInv
<1>1. Promise[r] = "held" /\ Promise' = Promise
  BY <1>0, PromiseReads DEF Promise
<1>2. Taken' = [Taken EXCEPT ![r] = s \in {"pending", "processed"}]
  BY <1>0, RefundMoves
<1>3. CASE Taken[r] = (s \in {"pending", "processed"})
  <2>1. Taken' = Taken
    BY <1>2, <1>3 DEF Taken
  <2> QED BY <1>1, <2>1
<1>4. CASE Taken[r] # (s \in {"pending", "processed"})
  <2>0. Taken[r] \in BOOLEAN
    BY DEF Taken
  <2>2. (s \in {"pending", "processed"}) = (~Taken[r])
    BY <1>4, <2>0
  <2>1. Taken' = [Taken EXCEPT ![r] = ~Taken[r]]
    BY <1>2, <2>2, Zenon
  <2> QED BY <1>1, <2>1 DEF Escrow!Move
<1> QED BY <1>3, <1>4

\* Every step of a worker in a handler is a step of the escrow, or none.
LEMMA HandlerStep ==
    ASSUME ~LosesReplies, EscrowInv, NEW w \in Workers,
           ExecuteStep(w) \/ WebhookStep(w) \/ Abort(w)
    PROVE  \/ \E r \in Requests : Escrow!Hold(r) \/ Escrow!Move(r) \/ Escrow!Settle(r)
           \/ UNCHANGED <<Promise, Taken>>
<1> DEFINE r == task[w].request
<1>0. TypeOK /\ TaskOK /\ Ownership /\ Truth /\ ReleaseIsHonest /\ NoRefresh
  BY TypeParts DEF EscrowInv, IInv, MoneyInv
<1>r. ~At(w, "idle") => r \in Requests
  BY <1>0, BusyOnRequest
<1>1. CASE \/ Refresh(w) \/ RefreshFails(w) \/ Store(w) \/ Check(w) \/ Announce(w)
           \/ RefundRejected(w) \/ FailSafe(w) \/ Attach(w) \/ Record(w) \/ Publish(w)
           \/ Lookup(w) \/ Update(w) \/ Close(w) \/ Abort(w)
  <2>1. ledger' = ledger /\ gatewayRefund' = gatewayRefund
    BY <1>1 DEF Refresh, RefreshFails, Store, Check, Announce, RefundRejected, FailSafe,
       Attach, Record, Publish, Lookup, Update, Close, Abort, dbVars, gatewayVars
  <2> QED BY <2>1 DEF Promise, Taken
<1>2. CASE Reserve(w)
  <2>1. r \in Requests /\ gatewayRefund' = gatewayRefund
    BY <1>r, <1>2 DEF Reserve, At, gatewayVars
  <2>2. CASE CanReserve(r)
    BY <1>2, <2>1, <2>2, HoldStep DEF Reserve
  <2>3. CASE ~CanReserve(r)
    <3>1. ledger' = ledger
      BY <1>2, <2>3 DEF Reserve
    <3> QED BY <2>1, <3>1 DEF Promise, Taken
  <2> QED BY <2>2, <2>3
<1>3. CASE Mark(w)
  <2>1. /\ r \in Requests /\ gatewayRefund' = gatewayRefund
        /\ ledger' = [ledger EXCEPT ![r] = IF @ = "reserved" THEN "processing" ELSE @]
    BY <1>r, <1>3 DEF Mark, At, gatewayVars
  <2>2. \A q \in Requests : PromiseOf[ledger'[q]] = PromiseOf[ledger[q]]
    BY <1>0, <2>1 DEF TypeOK, PromiseOf
  <2> QED BY <2>1, <2>2 DEF Promise, Taken
<1>4. CASE RefundAccepted(w)
  <2>1. r \in Requests /\ ledger[r] \in ActiveStatuses /\ gatewayRefund[r] = "none"
    BY <1>0, <1>r, <1>4 DEF RefundAccepted, At, Ownership, Before
  <2>2. ledger' = ledger
    BY <1>4 DEF RefundAccepted, dbVars
  <2>3. PICK s \in {"pending", "processed"} :
          gatewayRefund' = [gatewayRefund EXCEPT ![r] = s]
    BY <1>4, <2>1 DEF RefundAccepted, GatewayTakes
  <2> QED BY <2>1, <2>2, <2>3, MoveStep
<1>5. CASE RefundReplyLost(w)
  BY <1>5 DEF RefundReplyLost
<1>6. CASE Release(w)
  <2>1. r \in Requests /\ gatewayRefund[r] = "none" /\ gatewayRefund' = gatewayRefund
    BY <1>0, <1>r, <1>6 DEF Release, At, ReleaseIsHonest, gatewayVars
  <2>2. ledger' = [ledger EXCEPT ![r] = IF @ \in ActiveStatuses THEN "failed" ELSE @]
    BY <1>6 DEF Release, ReleaseRow
  <2>3. CASE ledger[r] \in ActiveStatuses
    BY <2>1, <2>2, <2>3, SettleStep DEF TerminalStatuses
  <2>4. CASE ledger[r] \notin ActiveStatuses
    <3>1. ledger' = ledger
      BY <1>0, <2>2, <2>4 DEF TypeOK
    <3> QED BY <2>1, <3>1 DEF Promise, Taken
  <2> QED BY <2>3, <2>4
<1>7. CASE Finalize(w)
  <2>1. r \in Requests /\ gatewayRefund[r] = "processed" /\ gatewayRefund' = gatewayRefund
    BY <1>0, <1>r, <1>7 DEF Finalize, At, Truth, gatewayVars
  <2>2. CASE CanFinalize(r)
    <3>1. ledger[r] \in ActiveStatuses /\ ledger' = [ledger EXCEPT ![r] = "succeeded"]
      BY <1>7, <2>2 DEF Finalize, CanFinalize, FinalizeRow
    <3> QED BY <2>1, <3>1, SettleStep DEF TerminalStatuses
  <2>3. CASE ~CanFinalize(r)
    <3>1. ledger' = ledger
      BY <1>7, <2>3 DEF Finalize
    <3> QED BY <2>1, <3>1 DEF Promise, Taken
  <2> QED BY <2>2, <2>3
<1>8. CASE Settle(w)
  <2>1. r \in Requests /\ gatewayRefund' = gatewayRefund
    BY <1>r, <1>8 DEF Settle, At, gatewayVars
  <2>2. /\ task[w].event \in {"refund.processed", "refund.failed"}
        /\ gatewayRefund[r] = IF task[w].event = "refund.failed" THEN "failed" ELSE "processed"
    BY <1>0, <1>8, <2>1 DEF Settle, At, Truth, WebhookSteps, TaskOK, Tasks, EventTypes
  <2>3. CASE task[w].event = "refund.failed"
    <3>1. ledger' = [ledger EXCEPT ![r] = IF @ \in ActiveStatuses THEN "failed" ELSE @]
      BY <1>8, <2>3 DEF Settle, ReleaseRow
    <3>2. CASE ledger[r] \in ActiveStatuses
      BY <2>1, <2>2, <2>3, <3>1, <3>2, SettleStep DEF TerminalStatuses
    <3>3. CASE ledger[r] \notin ActiveStatuses
      <4>1. ledger' = ledger
        BY <1>0, <3>1, <3>3 DEF TypeOK
      <4> QED BY <2>1, <4>1 DEF Promise, Taken
    <3> QED BY <3>2, <3>3
  <2>4. CASE task[w].event # "refund.failed" /\ CanFinalize(r)
    <3>1. ledger[r] \in ActiveStatuses /\ ledger' = [ledger EXCEPT ![r] = "succeeded"]
      BY <1>8, <2>4 DEF Settle, CanFinalize, FinalizeRow
    <3> QED BY <2>1, <2>2, <2>4, <3>1, SettleStep DEF TerminalStatuses
  <2>5. CASE task[w].event # "refund.failed" /\ ~CanFinalize(r)
    <3>1. ledger' = ledger
      BY <1>8, <2>5 DEF Settle
    <3> QED BY <2>1, <3>1 DEF Promise, Taken
  <2> QED BY <2>3, <2>4, <2>5
<1> QED BY <1>1, <1>2, <1>3, <1>4, <1>5, <1>6, <1>7, <1>8 DEF ExecuteStep, WebhookStep

LEMMA EscrowStep ==
    ASSUME ~LosesReplies, EscrowInv, [Next \/ CasesMove]_vars
    PROVE  [Escrow!Next]_<<Promise, Taken>>
<1>0. TypeOK /\ Ownership /\ Truth /\ ReleasedMeansNoMoney
  BY DEF EscrowInv, IInv, ReleaseIsHonest
<1>1. ASSUME NEW w \in Workers, NEW r \in Requests,
             \/ Register(w, r) \/ AutoApproves(w, r) \/ OperatorApproves(w, r)
             \/ ExecuteBegin(w, r)
             \/ \E e \in EventTypes : WebhookBegin(w, r, e)
      PROVE  UNCHANGED <<Promise, Taken>>
  <2>1. ledger' = ledger /\ gatewayRefund' = gatewayRefund
    BY <1>1 DEF Register, AutoApproves, OperatorApproves, ExecuteBegin, WebhookBegin, dbVars,
       gatewayVars
  <2> QED BY <2>1 DEF Promise, Taken
<1>2. ASSUME NEW r \in Requests, GatewayResolves(r)
      PROVE  Escrow!Move(r) \/ UNCHANGED <<Promise, Taken>>
  <2>1. ledger' = ledger /\ gatewayRefund[r] = "pending"
    BY <1>2 DEF GatewayResolves, dbVars
  <2>2. PICK s \in {"processed", "failed"} :
          gatewayRefund' = [gatewayRefund EXCEPT ![r] = s]
    BY <1>2 DEF GatewayResolves
  <2>3. ledger[r] \in ActiveStatuses
    BY <1>0, <2>1 DEF TypeOK, Ownership, Truth, SuccessIsReal, ReleasedMeansNoMoney,
       ActiveStatuses, TerminalStatuses
  <2> QED BY <2>1, <2>2, <2>3, MoveStep
<1>3. CASE UNCHANGED vars \/ CasesMove
  BY <1>3 DEF vars, dbVars, gatewayVars, CasesMove, Promise, Taken
<1> QED BY <1>1, <1>2, <1>3, HandlerStep DEF Next, Escrow!Next

\* No row and no refund is an escrow with every promise open.
LEMMA EscrowInit == Init => Escrow!Init
<1> SUFFICES ASSUME Init PROVE Escrow!Init
  OBVIOUS
<1>1. ledger = [r \in Requests |-> "none"] /\ gatewayRefund = [r \in Requests |-> "none"]
  BY DEF Init
<1>2. \A r \in Requests : PromiseOf[ledger[r]] = "open"
  BY <1>1 DEF PromiseOf
<1>3. \A r \in Requests : ~(gatewayRefund[r] \in {"pending", "processed"})
  <2>1. "none" \notin {"pending", "processed"}
    OBVIOUS
  <2>2. \A r \in Requests : gatewayRefund[r] = "none"
    BY <1>1
  <2> QED BY <2>1, <2>2
<1>4. Promise = [r \in Requests |-> "open"]
  BY <1>2, Zenon DEF Promise
<1>5. Taken = [r \in Requests |-> FALSE]
  <2>1. Taken \in [Requests -> BOOLEAN]
    BY DEF Taken
  <2>2. \A r \in Requests : ~Taken[r]
    BY <1>3, TakenReads
  <2>3. \A r \in Requests : Taken[r] \in BOOLEAN
    BY <2>1
  <2>4. \A r \in Requests : Taken[r] = FALSE
    BY <2>2, <2>3
  <2> QED BY <2>1, <2>4
<1> QED BY <1>4, <1>5 DEF Escrow!Init

\* and the reservations keep the promise of RefundEscrow.
LEMMA OpenEscrow == OwnBalance /\ EveryReply /\ OpenSpec => ImplementsEscrow
<1>1. EveryReply /\ OpenSpec => []ReleaseIsHonest
  BY OpenReleases
<1>2. EveryReply /\ IInv /\ MoneyInv /\ ReleaseIsHonest /\ [Next \/ CasesMove]_vars =>
        [Escrow!Next]_<<Promise, Taken>>
  BY EscrowStep DEF EscrowInv, EveryReply
<1>3. Init => Escrow!Init
  BY EscrowInit
<1> QED BY <1>1, <1>2, <1>3, ConstantsStay, OpenMoney, OpenInvariance, PTL
        DEF OpenSpec, ImplementsEscrow, Escrow!Spec

\* The reservation ledger keeps the promise of RefundEscrow: money moves only
\* while it is held against what the payment captured, and a refund is paid
\* or returned once, by what the gateway did.
THEOREM KeepsEscrow ==
    ASSUME Uploads = {}, ~AuthoritativeBalance, ~LosesReplies
    PROVE  Spec => ImplementsEscrow
<1>1. OwnBalance /\ EveryReply
  BY DEF OwnBalance, EveryReply
<1> QED BY <1>1, OpenEscrow, SpecIsOpen, PTL

-----------------------------------------------------------------------------
(* The records of a request, one process and no handler cut short: at rest  *)
(* they agree, and a handler leaves them as its step says.                  *)

\* Case, ledger and execution tell one story (RecordsAgreeAtRest).
Agrees(r) ==
    CASE ledger[r] = "none" -> /\ execution[r] = "none"
                               /\ caseState[r] \notin {"REFUND_PROCESSING", "REFUNDED"}
      [] ledger[r] = "reserved" -> FALSE
      [] ledger[r] = "processing" -> /\ attached[r]
                                     /\ execution[r] = "REFUND_PROCESSING"
                                     /\ caseState[r] = "REFUND_PROCESSING"
      [] ledger[r] = "succeeded" -> execution[r] = "REFUNDED" /\ caseState[r] = "REFUNDED"
      [] ledger[r] = "failed" -> /\ execution[r] \in {"none", "FAILED_SAFE"}
                                 /\ caseState[r] = "FAILED_SAFE"

SettledAs(e) == IF e = "refund.failed" THEN "failed" ELSE "succeeded"

\* The records of handler j's request, by the step it is about to take.
Told(j) ==
    LET r == j.request IN
    /\ j.step \in {"refresh", "store", "check", "reserve"} =>
         caseState[r] \in Approved /\ ledger[r] = "none"
    /\ j.step = "mark" => ledger[r] = "reserved" /\ ~attached[r]
    /\ j.step \in {"announce", "refund", "attach"} => ledger[r] = "processing" /\ ~attached[r]
    /\ j.step \in {"refund", "attach", "finalize", "record", "publish"} =>
         caseState[r] = "REFUND_PROCESSING"
    /\ j.step = "finalize" => ledger[r] = "processing" /\ ~RequiresWebhook
    /\ j.step \in {"record", "publish"} =>
         IF RequiresWebhook THEN ledger[r] = "processing" /\ attached[r] ELSE ledger[r] = "succeeded"
    /\ j.step \in (ExecuteSteps \cup FailureSteps) \ {"publish"} => execution[r] = "none"
    /\ j.step = "publish" => execution[r] = DispatchStatus
    /\ j.step = "release" => ledger[r] = "processing"
    /\ j.step = "failSafe" => ledger[r] \in {"none", "failed"}
    /\ j.step = "lookup" => Agrees(r)
    /\ j.step = "settle" => ledger[r] = "processing" /\ Agrees(r)
    /\ j.step \in {"update", "close"} => ledger[r] = SettledAs(j.event)
    /\ j.step = "update" => execution[r] = "REFUND_PROCESSING"
    /\ j.step = "close" => execution[r] = IF j.event = "refund.failed" THEN "FAILED_SAFE" ELSE "REFUNDED"

Records ==
    /\ \A r \in Requests : ~InHandler(r) => Agrees(r)
    /\ \A w \in Workers : task[w].step # "idle" => Told(task[w])
    /\ \A w \in Workers : task[w].step = "idle" => task[w].request = NoRequest
    /\ \A r \in Requests : ledger[r] = "none" => ~attached[r]

\* A step of the one process that leaves the other requests alone.
LEMMA RecordsFollow ==
    ASSUME OneProcess, Records, NEW w \in Workers, NEW r \in Requests,
           \A q \in Requests \ {r} :
              /\ caseState'[q] = caseState[q] /\ ledger'[q] = ledger[q]
              /\ attached'[q] = attached[q] /\ execution'[q] = execution[q]
              /\ q # task[w].request,
           \/ task'[w].step = "idle" /\ task'[w].request = NoRequest /\ Agrees(r)'
           \/ task'[w].step # "idle" /\ task'[w].request = r /\ Told(task[w])',
           ledger'[r] = "none" => ~attached'[r]
    PROVE  Records'
<1>1. \A v \in Workers : v = w
  BY DEF OneProcess
<1>2. ASSUME NEW q \in Requests, ~InHandler(q)'
      PROVE  Agrees(q)'
  <2>1. CASE q = r
    BY <1>1, <1>2, <2>1 DEF InHandler
  <2>2. CASE q # r
    <3>1. Agrees(q)
      BY <1>1, <2>2 DEF Records, InHandler
    <3> QED BY <2>2, <3>1 DEF Agrees
  <2> QED BY <2>1, <2>2
<1>3. (\A v \in Workers : task[v].step # "idle" => Told(task[v]))'
  BY <1>1
<1>4. (\A v \in Workers : task[v].step = "idle" => task[v].request = NoRequest)'
  BY <1>1
<1>5. (\A q \in Requests : ledger[q] = "none" => ~attached[q])'
  BY DEF Records
<1> QED BY <1>2, <1>3, <1>4, <1>5 DEF Records

\* A covered reservation can be finalized.
LEMMA CoveredFinalizes ==
    ASSUME TypeOK, ReservationsAreCovered, NEW r \in Requests, ledger[r] \in ActiveStatuses
    PROVE  CanFinalize(r)
<1> DEFINE p == PaymentOf[r]
<1>1. p \in Payments /\ AmountOf[r] \in Nat
  BY AmountAssumption
<1>2. {r} \in SUBSET ActiveOf(p) /\ ActiveOf(p) \in SUBSET Requests
  BY DEF ActiveOf, RequestsOf
<1>3. Total[{r}] <= Total[ActiveOf(p)] /\ Total[{r}] = AmountOf[r]
  BY <1>2, TotalIsMonotone, TotalAssumption
<1>4. Total[ActiveOf(p)] <= snapshot[p].refundable
  BY <1>1 DEF ReservationsAreCovered
<1> QED BY <1>1, <1>3, <1>4, BalanceIsNat DEF CanFinalize, Balance

LEMMA WorkerRecords ==
    ASSUME OneProcess, IInv, Records, ReservationsAreCovered, NEW w \in Workers,
           ExecuteStep(w) \/ WebhookStep(w)
    PROVE  Records'
<1>0. TypeOK /\ TaskOK /\ TablesOK /\ Ownership /\ Truth /\ \A v \in Workers : v = w
  BY TypeParts DEF IInv, OneProcess
<1>j. PICK j : j = task[w]
  OBVIOUS
<1> DEFINE r == j.request
<1>1. ~At(w, "idle") /\ r \in Requests /\ Told(j) /\ j.event \in EventTypes
      /\ r # NoRequest /\ j.step = task[w].step
  <2>1. ~At(w, "idle")
    BY DEF ExecuteStep, Refresh, RefreshFails, Store, Check, Reserve, Mark, Announce,
           RefundAccepted, RefundRejected, RefundReplyLost, Release, FailSafe, Attach, Finalize,
           Record, Publish, WebhookStep, Lookup, Settle, Update, Close, At
  <2> QED BY <1>0, <1>j, <2>1, BusyOnRequest, WorkersAssumption
          DEF Records, At, TaskOK, Tasks
<1> USE DEF At, TablesOK, dbVars, gatewayVars
<1>2. \A s : Goto(w, s) => task'[w].step = s /\ task'[w].request = r /\ task'[w].event = j.event
  BY <1>0, <1>j, Moved
<1>3. Return(w) => task'[w].step = "idle" /\ task'[w].request = NoRequest
  BY <1>0 DEF Return, Idle, TaskOK
\* What is to be shown, step by step.
<1>4. ASSUME \A q \in Requests \ {r} :
                /\ caseState'[q] = caseState[q] /\ ledger'[q] = ledger[q]
                /\ attached'[q] = attached[q] /\ execution'[q] = execution[q],
             \/ task'[w].step = "idle" /\ task'[w].request = NoRequest /\ Agrees(r)'
             \/ task'[w].step # "idle" /\ task'[w].request = r /\ Told(task[w])',
             ledger'[r] = "none" => ~attached'[r]
      PROVE  Records'
  BY <1>1, <1>4, <1>j, RecordsFollow, Zenon
<1>5. ledger[r] = "none" => ~attached[r]
  BY <1>1 DEF Records
<1> DEFINE Same == UNCHANGED <<caseState, ledger, attached, execution>>
<1>6. CASE Refresh(w) \/ Store(w)
  <2>1. /\ task'[w].step \in {"store", "check"} /\ task'[w].request = r
        /\ j.step \in {"refresh", "store"} /\ Same
    <3>1. CASE Refresh(w)
      <4>1. PICK b : task' = [task EXCEPT ![w].step = "store", ![w].reading = b]
        BY <3>1 DEF Refresh
      <4> QED BY <1>0, <1>j, <3>1, <4>1 DEF TaskOK, Tasks, Refresh
    <3>2. CASE Store(w)
      BY <1>0, <1>j, <3>2 DEF Store, TaskOK, Tasks
    <3> QED BY <1>6, <3>1, <3>2
  <2>2. Told(task[w])'
    BY <1>1, <2>1 DEF Told, ExecuteSteps, FailureSteps
  <2> QED BY <1>4, <1>5, <2>1, <2>2
<1>7. CASE RefreshFails(w) \/ Check(w)
  <2>1. /\ Goto(w, "failSafe") \/ Goto(w, "reserve") \/ Return(w)
        /\ j.step \in {"refresh", "check"} /\ Same
    BY <1>7, <1>j DEF RefreshFails, Check
  <2>2. Agrees(r)'
    BY <1>1, <2>1 DEF Told, Agrees, Approved, ExecuteSteps
  <2>3. task'[w].step # "idle" => Told(task[w])'
    BY <1>1, <1>2, <1>3, <2>1 DEF Told, ExecuteSteps, FailureSteps
  <2> QED BY <1>2, <1>3, <1>4, <1>5, <2>1, <2>2, <2>3
<1>8. CASE Reserve(w)
  <2>1. /\ j.step = "reserve" /\ UNCHANGED <<caseState, attached, execution>>
        /\ \/ ledger' = [ledger EXCEPT ![r] = "reserved"] /\ Goto(w, "mark")
           \/ ledger' = ledger /\ Return(w)
    BY <1>8, <1>j DEF Reserve
  <2>2. CASE Return(w)
    <3>1. Same
      BY <1>2, <1>3, <2>1, <2>2
    <3>2. Agrees(r)'
      BY <1>1, <2>1, <3>1 DEF Told, Agrees, Approved, ExecuteSteps
    <3> QED BY <1>3, <1>4, <1>5, <2>2, <3>1, <3>2
  <2>3. CASE Goto(w, "mark")
    <3>1. ledger' = [ledger EXCEPT ![r] = "reserved"]
      BY <1>2, <1>3, <2>1, <2>3
    <3>2. ledger'[r] = "reserved" /\ ~attached[r] /\ \A q \in Requests \ {r} : ledger'[q] = ledger[q]
      BY <1>0, <1>1, <1>5, <2>1, <3>1 DEF Told
    <3>3. Told(task[w])'
      BY <1>1, <1>2, <2>1, <2>3, <3>2 DEF Told, ExecuteSteps, FailureSteps
    <3> QED BY <1>2, <1>4, <2>1, <2>3, <3>2, <3>3
  <2> QED BY <2>1, <2>2, <2>3
<1>9. CASE Mark(w)
  <2>1. /\ j.step = "mark" /\ Goto(w, "announce") /\ UNCHANGED <<caseState, attached, execution>>
        /\ ledger'[r] = "processing" /\ \A q \in Requests \ {r} : ledger'[q] = ledger[q]
    BY <1>0, <1>1, <1>9, <1>j DEF Mark, Told
  <2>2. Told(task[w])'
    BY <1>1, <1>2, <2>1 DEF Told, ExecuteSteps, FailureSteps
  <2> QED BY <1>2, <1>4, <2>1, <2>2
<1>10. CASE Announce(w)
  <2>1. /\ j.step = "announce" /\ Goto(w, "refund") /\ UNCHANGED <<ledger, attached, execution>>
        /\ caseState'[r] = "REFUND_PROCESSING"
        /\ \A q \in Requests \ {r} : caseState'[q] = caseState[q]
    BY <1>0, <1>1, <1>10, <1>j DEF Announce, SetState
  <2>2. Told(task[w])'
    BY <1>1, <1>2, <2>1 DEF Told, ExecuteSteps, FailureSteps
  <2> QED BY <1>2, <1>4, <1>5, <2>1, <2>2
<1>11. CASE RefundAccepted(w) \/ RefundRejected(w) \/ RefundReplyLost(w)
  <2>1. j.step = "refund" /\ (Goto(w, "attach") \/ Goto(w, "release")) /\ Same
    BY <1>11, <1>j DEF RefundAccepted, RefundRejected, RefundReplyLost
  <2>2. Told(task[w])'
    BY <1>1, <1>2, <2>1 DEF Told, ExecuteSteps, FailureSteps
  <2> QED BY <1>2, <1>4, <1>5, <2>1, <2>2
<1>12. CASE Release(w)
  <2>1. /\ j.step = "release" /\ Goto(w, "failSafe") /\ UNCHANGED <<caseState, attached, execution>>
        /\ ledger'[r] = "failed" /\ \A q \in Requests \ {r} : ledger'[q] = ledger[q]
    BY <1>0, <1>1, <1>12, <1>j DEF Release, ReleaseRow, Told, ActiveStatuses
  <2>2. Told(task[w])'
    BY <1>1, <1>2, <2>1 DEF Told, ExecuteSteps, FailureSteps
  <2> QED BY <1>2, <1>4, <2>1, <2>2
<1>13. CASE FailSafe(w)
  <2>1. /\ j.step = "failSafe" /\ Return(w) /\ UNCHANGED <<ledger, attached, execution>>
        /\ caseState'[r] = "FAILED_SAFE"
        /\ \A q \in Requests \ {r} : caseState'[q] = caseState[q]
    BY <1>0, <1>1, <1>13, <1>j DEF FailSafe, SetState
  <2>2. Agrees(r)'
    BY <1>1, <2>1 DEF Told, Agrees, ExecuteSteps, FailureSteps
  <2> QED BY <1>3, <1>4, <1>5, <2>1, <2>2
<1>14. CASE Attach(w)
  <2>1. /\ j.step = "attach" /\ ledger[r] = "processing" /\ ~attached[r]
        /\ UNCHANGED <<caseState, ledger, execution>>
    BY <1>1, <1>14, <1>j DEF Attach, Told
  <2>2. /\ attached'[r] /\ \A q \in Requests \ {r} : attached'[q] = attached[q]
        /\ Goto(w, IF RequiresWebhook THEN "record" ELSE "finalize")
    BY <1>0, <1>1, <1>14, <1>j, <2>1 DEF Attach
  <2>3. Told(task[w])'
    BY <1>1, <1>2, <2>1, <2>2 DEF Told, ExecuteSteps, FailureSteps
  <2> QED BY <1>2, <1>4, <2>1, <2>2, <2>3
<1>15. CASE Finalize(w)
  <2>1. j.step = "finalize" /\ ledger[r] = "processing" /\ CanFinalize(r)
    BY <1>0, <1>1, <1>15, <1>j, CoveredFinalizes DEF Finalize, Told, ActiveStatuses
  <2>2. FinalizeRow(r) /\ Goto(w, "record") /\ UNCHANGED <<caseState, execution>>
    BY <1>15, <1>j, <2>1 DEF Finalize
  <2>3. /\ ledger'[r] = "succeeded" /\ attached'[r]
        /\ \A q \in Requests \ {r} : ledger'[q] = ledger[q] /\ attached'[q] = attached[q]
    BY <1>0, <1>1, <2>2 DEF FinalizeRow
  <2>4. Told(task[w])'
    BY <1>1, <1>2, <2>1, <2>2, <2>3 DEF Told, ExecuteSteps, FailureSteps
  <2> QED BY <1>2, <1>4, <2>2, <2>3, <2>4
<1>16. CASE Record(w)
  <2>1. j.step = "record" /\ execution[r] = "none" /\ UNCHANGED <<caseState, ledger, attached>>
    BY <1>1, <1>16, <1>j DEF Record, Told, ExecuteSteps
  <2>2. /\ execution'[r] = DispatchStatus /\ Goto(w, "publish")
        /\ \A q \in Requests \ {r} : execution'[q] = execution[q]
    BY <1>0, <1>1, <1>16, <1>j, <2>1 DEF Record
  <2>3. Told(task[w])'
    BY <1>1, <1>2, <2>1, <2>2 DEF Told, ExecuteSteps, FailureSteps, DispatchStatus
  <2> QED BY <1>2, <1>4, <1>5, <2>1, <2>2, <2>3
<1>17. CASE Publish(w)
  <2>1. /\ j.step = "publish" /\ Return(w) /\ UNCHANGED <<ledger, attached, execution>>
        /\ caseState'[r] = DispatchStatus
        /\ \A q \in Requests \ {r} : caseState'[q] = caseState[q]
    BY <1>0, <1>1, <1>17, <1>j DEF Publish, SetState
  <2>2. Agrees(r)'
    BY <1>1, <2>1, GatewayAssumption DEF Told, Agrees, DispatchStatus
  <2> QED BY <1>3, <1>4, <1>5, <2>1, <2>2
<1>18. CASE Lookup(w)
  <2>1. /\ j.step = "lookup" /\ Agrees(r) /\ Same
        /\ \/ /\ attached[r] /\ ledger[r] \notin TerminalStatuses
              /\ Goto(w, "settle")
           \/ Return(w)
    BY <1>1, <1>18, <1>j DEF Lookup, Told
  <2>2. Agrees(r)'
    BY <2>1 DEF Agrees
  <2>3. attached[r] /\ ledger[r] \notin TerminalStatuses => ledger[r] = "processing"
    BY <1>0, <1>1, <1>5, <2>1 DEF Agrees, ActiveStatuses, TerminalStatuses
  <2>4. CASE Goto(w, "settle") /\ attached[r] /\ ledger[r] \notin TerminalStatuses
    <3>1. Told(task[w])'
      BY <1>2, <2>1, <2>2, <2>3, <2>4 DEF Told, ExecuteSteps, FailureSteps
    <3> QED BY <1>2, <1>4, <1>5, <2>1, <2>4, <3>1
  <2>5. CASE Return(w)
    BY <1>3, <1>4, <1>5, <2>1, <2>2, <2>5
  <2> QED BY <2>1, <2>4, <2>5
<1>19. CASE Settle(w)
  <2>1. /\ j.step = "settle" /\ ledger[r] = "processing" /\ Agrees(r) /\ CanFinalize(r)
        /\ UNCHANGED <<caseState, execution>>
    BY <1>0, <1>1, <1>19, <1>j, CoveredFinalizes DEF Settle, Told, ActiveStatuses
  <2>2. /\ Goto(w, "update")
        /\ IF j.event = "refund.failed" THEN ReleaseRow(r) /\ UNCHANGED attached ELSE FinalizeRow(r)
    BY <1>19, <1>j, <2>1 DEF Settle
  <2>3. /\ ledger'[r] = SettledAs(j.event)
        /\ \A q \in Requests \ {r} : ledger'[q] = ledger[q] /\ attached'[q] = attached[q]
    BY <1>0, <1>1, <2>1, <2>2 DEF ReleaseRow, FinalizeRow, SettledAs, ActiveStatuses
  <2>4. execution[r] = "REFUND_PROCESSING" /\ ledger'[r] # "none"
    BY <2>1, <2>3 DEF Agrees, SettledAs
  <2>5. Told(task[w])'
    BY <1>2, <2>1, <2>2, <2>3, <2>4 DEF Told, ExecuteSteps, FailureSteps, SettledAs
  <2> QED BY <1>2, <1>4, <2>1, <2>2, <2>3, <2>4, <2>5
<1>20. CASE Update(w)
  <2>1. /\ j.step = "update" /\ Goto(w, "close") /\ UNCHANGED <<caseState, ledger, attached>>
        /\ execution'[r] = IF j.event = "refund.failed" THEN "FAILED_SAFE" ELSE "REFUNDED"
        /\ \A q \in Requests \ {r} : execution'[q] = execution[q]
    BY <1>0, <1>1, <1>20, <1>j DEF Update, SettledStatus, Told
  <2>2. Told(task[w])'
    BY <1>1, <1>2, <2>1 DEF Told, ExecuteSteps, FailureSteps, SettledAs
  <2> QED BY <1>2, <1>4, <1>5, <2>1, <2>2
<1>21. CASE Close(w)
  <2>1. /\ j.step = "close" /\ Return(w) /\ UNCHANGED <<ledger, attached, execution>>
        /\ caseState'[r] = IF j.event = "refund.failed" THEN "FAILED_SAFE" ELSE "REFUNDED"
        /\ \A q \in Requests \ {r} : caseState'[q] = caseState[q]
    BY <1>0, <1>1, <1>21, <1>j DEF Close, SetState, SettledStatus
  <2>2. Agrees(r)'
    BY <1>1, <2>1 DEF Told, Agrees, SettledAs
  <2> QED BY <1>3, <1>4, <1>5, <2>1, <2>2
<1> QED BY <1>6, <1>7, <1>8, <1>9, <1>10, <1>11, <1>12, <1>13, <1>14, <1>15, <1>16, <1>17,
           <1>18, <1>19, <1>20, <1>21 DEF ExecuteStep, WebhookStep

LEMMA StepRecords ==
    ASSUME MaxAborts = 0, OneProcess, IInv, Records, ReservationsAreCovered, [Next]_vars
    PROVE  Records'
<1>0. TypeOK /\ TaskOK /\ TablesOK
  BY TypeParts DEF IInv
<1>1. ASSUME NEW w \in Workers, At(w, "idle"), NEW r \in Requests
      PROVE  Agrees(r) /\ task[w].request = NoRequest /\ r # NoRequest
  BY <1>1, WorkersAssumption DEF OneProcess, Records, At, InHandler
<1>2. ASSUME NEW w \in Workers, NEW r \in Requests,
             Register(w, r) \/ AutoApproves(w, r) \/ OperatorApproves(w, r)
      PROVE  Records'
  <2>1. /\ At(w, "idle") /\ UNCHANGED <<ledger, attached, execution, task>>
        /\ caseState[r] \in {"ABSENT", "RECEIVED"}
        /\ caseState'[r] \in {"RECEIVED", "AUTO_APPROVE", "APPROVED"}
        /\ \A q \in Requests \ {r} : caseState'[q] = caseState[q]
    BY <1>0, <1>2 DEF Register, AutoApproves, OperatorApproves, TablesOK
  <2>2. Agrees(r)'
    BY <1>1, <2>1 DEF Agrees
  <2>3. ledger'[r] = "none" => ~attached'[r]
    BY <2>1 DEF Records
  <2> QED BY <1>1, <2>1, <2>2, <2>3, RecordsFollow DEF At
<1>3. ASSUME NEW w \in Workers, NEW r \in Requests, ExecuteBegin(w, r)
      PROVE  Records'
  <2>1. /\ At(w, "idle") /\ UNCHANGED <<caseState, ledger, attached, execution>>
        /\ task'[w].step \in {"refresh", "check"} /\ task'[w].request = r
        /\ execution[r] = "none" /\ caseState[r] \in Approved
    BY <1>0, <1>3, Begun DEF ExecuteBegin, Begin, dbVars
  <2>2. ledger[r] = "none"
    BY <1>0, <1>1, <2>1 DEF Agrees, Approved, TablesOK, ActiveStatuses, TerminalStatuses
  <2>3. Told(task[w])'
    BY <2>1, <2>2 DEF Told, ExecuteSteps, FailureSteps
  <2>4. ledger'[r] = "none" => ~attached'[r]
    BY <2>1 DEF Records
  <2> QED BY <1>1, <2>1, <2>3, <2>4, RecordsFollow
<1>4. ASSUME NEW w \in Workers, NEW r \in Requests, NEW e \in EventTypes, WebhookBegin(w, r, e)
      PROVE  Records'
  <2>1. /\ At(w, "idle") /\ UNCHANGED <<caseState, ledger, attached, execution>>
        /\ task'[w].step = "lookup" /\ task'[w].request = r
    BY <1>0, <1>4, Begun DEF WebhookBegin, Begin
  <2>2. Told(task[w])'
    BY <1>1, <2>1 DEF Told, ExecuteSteps, FailureSteps, Agrees
  <2>3. ledger'[r] = "none" => ~attached'[r]
    BY <2>1 DEF Records
  <2> QED BY <1>1, <2>1, <2>2, <2>3, RecordsFollow
<1>5. CASE (\E r \in Requests : GatewayResolves(r)) \/ UNCHANGED vars
  <2>1. UNCHANGED <<caseState, ledger, attached, execution, task>>
    BY <1>5 DEF GatewayResolves, vars, dbVars
  <2>2. /\ \A r \in Requests : (InHandler(r)' <=> InHandler(r)) /\ (Agrees(r)' <=> Agrees(r))
        /\ \A w \in Workers : Told(task[w])' <=> Told(task[w])
    BY <2>1 DEF InHandler, Agrees, Told
  <2> QED BY <2>1, <2>2 DEF Records
<1>6. ASSUME NEW w \in Workers, Abort(w)
      PROVE  FALSE
  BY <1>0, <1>6 DEF Abort, TypeOK, IInv
<1> QED BY <1>2, <1>3, <1>4, <1>5, <1>6, WorkerRecords DEF Next

LEMMA InitRecords == Init => Records
BY WorkersAssumption DEF Init, Records, Agrees, Idle, InHandler

LEMMA RecordsAgree == Records => RecordsAgreeAtRest
<1> SUFFICES ASSUME Records, NEW r \in Requests, ~InHandler(r)
             PROVE  Agrees(r)
  BY DEF RecordsAgreeAtRest, Agrees
<1> QED BY DEF Records

\* One process and no handler cut short: as long as the recorded balance covers
\* the reservations, the case, the ledger and the execution of a request agree
\* whenever no handler works on it.
THEOREM CoveredRecordsAgree ==
    ASSUME MaxAborts = 0
    PROVE  OneProcess /\ Spec /\ []ReservationsAreCovered => []RecordsAgreeAtRest
<1>1. OneProcess /\ IInv /\ Records /\ ReservationsAreCovered /\ [Next]_vars => Records'
  BY StepRecords
<1>2. OneProcess => []OneProcess
  <2>1. OneProcess => OneProcess'
    BY DEF OneProcess
  <2> QED BY <2>1, PTL
<1> QED BY <1>1, <1>2, InitRecords, RecordsAgree, Invariance, PTL DEF Spec

\* A recorded deciding event that has not settled its reservation yet is in
\* the hands of the webhook handler, before its write.
Decisive == {"refund.processed", "refund.failed"}
Deciding(r) ==
    \E w \in Workers : /\ task[w].request = r /\ task[w].step \in {"lookup", "settle"}
                       /\ task[w].event \in Decisive
Heard ==
    /\ \A r \in Requests :
         /\ <<r, "refund.processed">> \in webhookSeen => gatewayRefund[r] = "processed"
         /\ <<r, "refund.failed">> \in webhookSeen => gatewayRefund[r] = "failed"
    /\ \A r \in Requests : \A e \in Decisive :
         <<r, e>> \in webhookSeen /\ ledger[r] \in ActiveStatuses => Deciding(r)

\* The steps that neither hear an event nor decide by one.
LEMMA HeardFollows ==
    ASSUME IInv, Heard, UNCHANGED webhookSeen,
           \A r \in Requests :
              /\ gatewayRefund[r] \in {"processed", "failed"} => gatewayRefund'[r] = gatewayRefund[r]
              /\ ledger'[r] \in ActiveStatuses => ledger[r] \in ActiveStatuses \cup {"none"}
              /\ Deciding(r) /\ ledger'[r] \in ActiveStatuses => Deciding(r)'
    PROVE  Heard'
<1>1. ASSUME NEW r \in Requests, NEW e \in Decisive, <<r, e>> \in webhookSeen,
             ledger'[r] \in ActiveStatuses
      PROVE  Deciding(r)'
  <2>1. gatewayRefund[r] # "none"
    BY <1>1 DEF Heard, Decisive
  <2>2. ledger[r] \in ActiveStatuses
    BY <1>1, <2>1 DEF IInv, Ownership
  <2> QED BY <1>1, <2>2 DEF Heard
<1> QED BY <1>1 DEF Heard

LEMMA StepHeard ==
    ASSUME MaxAborts = 0, IInv, Records, ReservationsAreCovered, Heard, [Next]_vars
    PROVE  Heard'
<1>0. TypeOK /\ TaskOK /\ TablesOK /\ Ownership /\ Truth
  BY TypeParts DEF IInv
<1> USE DEF At, TablesOK, dbVars, gatewayVars
<1>1. ASSUME NEW w \in Workers, ExecuteStep(w)
      PROVE  Heard'
  <2>1. task[w].step \notin {"lookup", "settle"} /\ \A v \in Workers : v # w => task'[v] = task[v]
    <3>1. CASE Refresh(w) \/ Store(w)
      <4>1. CASE Refresh(w)
        <5>1. PICK b : task' = [task EXCEPT ![w].step = "store", ![w].reading = b]
          BY <4>1 DEF Refresh
        <5> QED BY <1>0, <4>1, <5>1 DEF TaskOK, Tasks, Refresh
      <4>2. CASE Store(w)
        BY <1>0, <4>2 DEF Store, TaskOK, Tasks
      <4> QED BY <3>1, <4>1, <4>2
    <3>2. CASE ~(Refresh(w) \/ Store(w))
      <4>1. task[w].step \notin {"lookup", "settle"} /\ ((\E s : Goto(w, s)) \/ Return(w))
        BY <1>1, <3>2
           DEF ExecuteStep, RefreshFails, Check, Reserve, Mark, Announce, RefundAccepted,
               RefundRejected, RefundReplyLost, Release, FailSafe, Attach, Finalize, Record, Publish
      <4> QED BY <1>0, <4>1, Moved, Ended
    <3> QED BY <3>1, <3>2
  <2>2. \A r \in Requests : Deciding(r) => Deciding(r)'
    BY <2>1 DEF Deciding
  <2>3. UNCHANGED webhookSeen
    BY <1>1 DEF ExecuteStep, Refresh, RefreshFails, Store, Check, Reserve, Mark, Announce,
       RefundAccepted, RefundRejected, RefundReplyLost, Release, FailSafe, Attach, Finalize,
       Record, Publish
  <2>4. \A r \in Requests :
          gatewayRefund[r] \in {"processed", "failed"} => gatewayRefund'[r] = gatewayRefund[r]
    <3>1. CASE RefundAccepted(w) \/ RefundReplyLost(w)
      BY <1>0, <3>1, BusyOnRequest DEF RefundAccepted, RefundReplyLost, GatewayTakes
    <3>2. CASE ~(RefundAccepted(w) \/ RefundReplyLost(w))
      BY <1>1, <3>2
         DEF ExecuteStep, Refresh, RefreshFails, Store, Check, Reserve, Mark, Announce,
             RefundRejected, Release, FailSafe, Attach, Finalize, Record, Publish
    <3> QED BY <3>1, <3>2
  <2>5. \A r \in Requests :
          ledger'[r] \in ActiveStatuses => ledger[r] \in ActiveStatuses \cup {"none"}
    <3>1. CASE Reserve(w) \/ Mark(w) \/ Release(w) \/ Finalize(w)
      BY <1>0, <3>1, BusyOnRequest
         DEF Reserve, CanReserve, Mark, Release, ReleaseRow, Finalize, FinalizeRow, ActiveStatuses
    <3>2. CASE ~(Reserve(w) \/ Mark(w) \/ Release(w) \/ Finalize(w))
      BY <1>1, <3>2
         DEF ExecuteStep, Refresh, RefreshFails, Store, Check, Announce, RefundAccepted,
             RefundRejected, RefundReplyLost, FailSafe, Attach, Record, Publish
    <3> QED BY <3>1, <3>2
  <2> QED BY <2>2, <2>3, <2>4, <2>5, HeardFollows
<1>2. ASSUME NEW w \in Workers, WebhookStep(w)
      PROVE  Heard'
  <2>1. /\ UNCHANGED <<webhookSeen, gatewayRefund>> /\ task[w].step # "idle"
        /\ task[w].request \in Requests /\ Told(task[w])
        /\ \A v \in Workers : v # w => task'[v] = task[v]
    <3>1. UNCHANGED <<webhookSeen, gatewayRefund>> /\ task[w].step # "idle"
      BY <1>2 DEF WebhookStep, Lookup, Settle, Update, Close
    <3>2. Return(w) \/ Goto(w, "settle") \/ Goto(w, "update") \/ Goto(w, "close")
      BY <1>2 DEF WebhookStep, Lookup, Settle, Update, Close
    <3> QED BY <1>0, <3>1, <3>2, BusyOnRequest, Moved, Ended DEF Records
  <2>2. CASE Lookup(w)
    <3>1. /\ ledger' = ledger /\ task[w].step = "lookup" /\ Agrees(task[w].request)
          /\ \/ Goto(w, "settle")
             \/ ledger[task[w].request] \in TerminalStatuses
             \/ ~attached[task[w].request]
             \/ task[w].event = "refund.created"
      BY <2>1, <2>2 DEF Lookup, Told
    <3>2. CASE Goto(w, "settle")
      <4>1. \A r \in Requests : Deciding(r) => Deciding(r)'
        BY <1>0, <2>1, <3>2, Moved DEF Deciding
      <4> QED BY <2>1, <3>1, <4>1, HeardFollows
    <3>3. CASE \/ ledger[task[w].request] \in TerminalStatuses \/ ~attached[task[w].request]
               \/ task[w].event = "refund.created"
      <4>1. ledger[task[w].request] \notin ActiveStatuses \/ task[w].event \notin Decisive
        BY <3>1, <3>3 DEF Agrees, ActiveStatuses, TerminalStatuses, Decisive
      <4>2. \A r \in Requests : Deciding(r) /\ ledger[r] \in ActiveStatuses => Deciding(r)'
        BY <2>1, <4>1 DEF Deciding
      <4> QED BY <2>1, <3>1, <4>2, HeardFollows
    <3> QED BY <3>1, <3>2, <3>3
  <2>3. CASE Settle(w)
    <3>1. ledger[task[w].request] = "processing" /\ CanFinalize(task[w].request)
      BY <1>0, <2>1, <2>3, CoveredFinalizes DEF Settle, Told, ActiveStatuses
    <3>2. /\ ledger'[task[w].request] \in TerminalStatuses
          /\ \A r \in Requests \ {task[w].request} : ledger'[r] = ledger[r]
      BY <1>0, <2>1, <2>3, <3>1
         DEF Settle, ReleaseRow, FinalizeRow, ActiveStatuses, TerminalStatuses
    <3>3. \A r \in Requests : Deciding(r) /\ ledger'[r] \in ActiveStatuses => Deciding(r)'
      BY <2>1, <3>2 DEF Deciding, ActiveStatuses, TerminalStatuses
    <3> QED BY <2>1, <3>2, <3>3, HeardFollows DEF ActiveStatuses, TerminalStatuses
  <2>4. CASE Update(w) \/ Close(w)
    <3>1. ledger' = ledger /\ task[w].step \notin {"lookup", "settle"}
      BY <2>4 DEF Update, Close
    <3>2. \A r \in Requests : Deciding(r) => Deciding(r)'
      BY <2>1, <3>1 DEF Deciding
    <3> QED BY <2>1, <3>1, <3>2, HeardFollows
  <2> QED BY <1>2, <2>2, <2>3, <2>4 DEF WebhookStep
<1>3. ASSUME NEW w \in Workers, NEW r \in Requests, NEW e \in EventTypes, WebhookBegin(w, r, e)
      PROVE  Heard'
  <2>1. /\ UNCHANGED <<ledger, gatewayRefund>> /\ webhookSeen' = webhookSeen \cup {<<r, e>>}
        /\ e \in Signed(r) /\ task[w].step = "idle"
        /\ task'[w].step = "lookup" /\ task'[w].request = r /\ task'[w].event = e
        /\ \A v \in Workers : v # w => task'[v] = task[v]
    <3>1. Begin(w, "lookup", r, e) /\ \A v \in Workers : v # w => task'[v] = task[v]
      BY <1>0, <1>3, Begun DEF WebhookBegin
    <3>2. task[w].step = "idle"
      BY <3>1 DEF Begin
    <3>3. task'[w].step = "lookup" /\ task'[w].request = r /\ task'[w].event = e
      BY <1>0, <3>1, Begun
    <3> QED BY <1>3, <3>1, <3>2, <3>3 DEF WebhookBegin
  <2>2. /\ e = "refund.processed" => gatewayRefund[r] = "processed"
        /\ e = "refund.failed" => gatewayRefund[r] = "failed"
    BY <1>0, <2>1 DEF Signed
  <2>3. \A q \in Requests : Deciding(q) => Deciding(q)'
    BY <2>1 DEF Deciding
  <2>4. e \in Decisive => Deciding(r)'
    BY <2>1 DEF Deciding
  <2>5. \A q \in Requests : \A d \in EventTypes :
          <<q, d>> \in webhookSeen' => <<q, d>> \in webhookSeen \/ (q = r /\ d = e)
    BY <2>1
  <2>6. \A q \in Requests :
          /\ <<q, "refund.processed">> \in webhookSeen' => gatewayRefund'[q] = "processed"
          /\ <<q, "refund.failed">> \in webhookSeen' => gatewayRefund'[q] = "failed"
    BY <2>1, <2>2, <2>5 DEF Heard, EventTypes
  <2>7. ASSUME NEW q \in Requests, NEW d \in Decisive, <<q, d>> \in webhookSeen',
               ledger'[q] \in ActiveStatuses
        PROVE  Deciding(q)'
    BY <2>1, <2>3, <2>4, <2>5, <2>7 DEF Heard, Decisive, EventTypes
  <2> QED BY <2>6, <2>7 DEF Heard
<1>4. ASSUME NEW w \in Workers, NEW r \in Requests,
             \/ Register(w, r) \/ AutoApproves(w, r) \/ OperatorApproves(w, r) \/ ExecuteBegin(w, r)
      PROVE  Heard'
  <2>1. UNCHANGED <<ledger, gatewayRefund, webhookSeen>>
    BY <1>4 DEF Register, AutoApproves, OperatorApproves, ExecuteBegin
  <2>2. \A v \in Workers : task[v].step # "idle" => task'[v] = task[v]
    <3>1. CASE ExecuteBegin(w, r)
      BY <1>0, <3>1, Begun DEF ExecuteBegin, Begin
    <3>2. CASE Register(w, r) \/ AutoApproves(w, r) \/ OperatorApproves(w, r)
      BY <3>2 DEF Register, AutoApproves, OperatorApproves
    <3> QED BY <1>4, <3>1, <3>2
  <2>3. \A q \in Requests : Deciding(q) => Deciding(q)'
    BY <2>2 DEF Deciding
  <2> QED BY <2>1, <2>3, HeardFollows
<1>5. ASSUME NEW r \in Requests, GatewayResolves(r)
      PROVE  Heard'
  <2>1. /\ UNCHANGED <<ledger, webhookSeen, task>>
        /\ \A q \in Requests :
             gatewayRefund[q] \in {"processed", "failed"} => gatewayRefund'[q] = gatewayRefund[q]
    BY <1>0, <1>5 DEF GatewayResolves
  <2>2. \A q \in Requests : Deciding(q) => Deciding(q)'
    BY <2>1 DEF Deciding
  <2> QED BY <2>1, <2>2, HeardFollows
<1>6. CASE UNCHANGED vars
  BY <1>6 DEF vars, Heard, Deciding
<1>7. ASSUME NEW w \in Workers, Abort(w)
      PROVE  FALSE
  BY <1>0, <1>7 DEF Abort, TypeOK
<1> QED BY <1>1, <1>2, <1>3, <1>4, <1>5, <1>6, <1>7 DEF Next

LEMMA HeardSettles ==
    ASSUME IInv, Heard, ReleasedMeansNoMoney
    PROVE  ReconciliationSettles
<1> SUFFICES ASSUME NEW r \in Requests, ~InHandler(r)
             PROVE  /\ <<r, "refund.processed">> \in webhookSeen => ledger[r] = "succeeded"
                    /\ <<r, "refund.failed">> \in webhookSeen => ledger[r] = "failed"
  BY DEF ReconciliationSettles
<1>1. ~Deciding(r)
  BY DEF InHandler, Deciding
<1>2. ASSUME NEW e \in Decisive, <<r, e>> \in webhookSeen
      PROVE  ledger[r] \in TerminalStatuses
  <2>1. ledger[r] \notin ActiveStatuses
    BY <1>1, <1>2 DEF Heard
  <2>2. ledger[r] # "none"
    BY <1>2 DEF Heard, Decisive, IInv, Ownership
  <2> QED BY <2>1, <2>2 DEF IInv, TypeOK
<1> QED BY <1>2 DEF Heard, Decisive, TerminalStatuses, IInv, Truth, SuccessIsReal, ReleasedMeansNoMoney

\* Under the same conditions, with a gateway that always answers, what the deciding event
\* says is what the ledger says once its handler is done.
THEOREM CoveredReconciles ==
    ASSUME MaxAborts = 0, ~LosesReplies
    PROVE  OneProcess /\ Spec /\ []ReservationsAreCovered => []ReconciliationSettles
<1>1. OneProcess /\ IInv /\ Records /\ ReservationsAreCovered /\ [Next]_vars => Records'
  BY StepRecords
<1>2. IInv /\ Records /\ ReservationsAreCovered /\ Heard /\ [Next]_vars => Heard'
  BY StepHeard
<1>3. Init => Heard
  BY DEF Init, Heard
<1>4. IInv /\ Heard /\ ReleasedMeansNoMoney => ReconciliationSettles
  BY HeardSettles
<1>5. OneProcess => []OneProcess
  <2>1. OneProcess => OneProcess'
    BY DEF OneProcess
  <2> QED BY <2>1, PTL
<1>6. Spec => []ReleasedMeansNoMoney
  <2>1. EveryReply
    BY DEF EveryReply
  <2>2. ReleaseIsHonest => ReleasedMeansNoMoney
    BY DEF ReleaseIsHonest
  <2> QED BY <2>1, <2>2, OpenReleases, SpecIsOpen, PTL
<1> QED BY <1>1, <1>2, <1>3, <1>4, <1>5, <1>6, InitRecords, Invariance, PTL DEF Spec

-----------------------------------------------------------------------------
(* With a gateway that reports its own balance a refund may be counted      *)
(* twice, by the balance it reports while the refund is pending and by the  *)
(* local row when it is finalized.  A payment with room for that keeps its  *)
(* reservations covered.                                                    *)

Roomy ==
    \A r \in Requests :
        Total[RequestsOf(PaymentOf[r])] + Total[RequestsOf(PaymentOf[r])]
            <= Captured[PaymentOf[r]] + AmountOf[r]

\* What is recorded as left of p, and what was paid, cover all its requests.
Fits(p) == Total[RequestsOf(p)] <= snapshot[p].refundable + Total[SucceededOf(p)]

Room ==
    /\ \A p \in Payments : snapshot[p].valid => Fits(p)
    /\ \A r \in Requests : ledger[r] # "none" => Fits(PaymentOf[r])
    /\ \A w \in Workers : task[w].step = "store" =>
         Total[RequestsOf(PaymentOf[task[w].request])] <= task[w].reading
    /\ \A w \in Workers : task[w].step = "reserve" => Fits(PaymentOf[task[w].request])

LEMMA TotalOfNone == Total[{}] = 0
<1>1. {} \in SUBSET Requests /\ {} \cap {} = {} /\ {} \cup {} = {}
  OBVIOUS
<1>2. Total[{} \cup {}] = Total[{}] + Total[{}]
  BY <1>1, TotalIsAdditive, Zenon
<1>3. Total[{}] = Total[{}] + Total[{}]
  BY <1>1, <1>2, Zenon
<1> QED BY <1>1, <1>3, TotalIsNat

LEMMA RequestsTotal ==
    ASSUME NEW p \in Payments
    PROVE  /\ RequestsOf(p) \in SUBSET Requests
           /\ Total[RequestsOf(p)] \in Nat /\ Captured[p] \in Nat
           /\ \A r \in RequestsOf(p) : AmountOf[r] \in Nat /\ AmountOf[r] <= Total[RequestsOf(p)]
<1>1. RequestsOf(p) \in SUBSET Requests
  BY DEF RequestsOf
<1>2. ASSUME NEW r \in RequestsOf(p)
      PROVE  AmountOf[r] \in Nat /\ AmountOf[r] <= Total[RequestsOf(p)]
  <2>1. {r} \in SUBSET RequestsOf(p) /\ r \in Requests
    BY <1>1
  <2>2. Total[{r}] <= Total[RequestsOf(p)]
    BY <1>1, <2>1, TotalIsMonotone
  <2> QED BY <2>1, <2>2, TotalAssumption, AmountAssumption
<1> QED BY <1>1, <1>2, TotalIsNat, AmountAssumption

LEMMA RoomCovers ==
    ASSUME TypeOK, Room
    PROVE  ReservationsAreCovered
<1> SUFFICES ASSUME NEW p \in Payments
             PROVE  Total[ActiveOf(p)] <= snapshot[p].refundable
  BY DEF ReservationsAreCovered
<1>1. CASE ActiveOf(p) = {}
  BY <1>1, TotalOfNone, BalanceIsNat
<1>2. CASE ActiveOf(p) # {}
  <2>1. Fits(p)
    BY <1>2 DEF Room, ActiveOf, RequestsOf, ActiveStatuses
  <2>2. Total[RequestsOf(p)] <= snapshot[p].refundable + Total[SucceededOf(p)]
    BY <2>1 DEF Fits
  <2>3. /\ ActiveOf(p) \cap SucceededOf(p) = {}
        /\ (ActiveOf(p) \cup SucceededOf(p)) \in SUBSET RequestsOf(p)
    BY DEF ActiveOf, SucceededOf, RequestsOf, ActiveStatuses
  <2>4. Total[ActiveOf(p) \cup SucceededOf(p)] = Total[ActiveOf(p)] + Total[SucceededOf(p)]
    BY <2>3, BalanceIsNat, TotalIsAdditive
  <2>5. Total[ActiveOf(p) \cup SucceededOf(p)] <= Total[RequestsOf(p)]
    BY <2>3, RequestsTotal, TotalIsMonotone
  <2> QED BY <2>2, <2>4, <2>5, BalanceIsNat, RequestsTotal
<1> QED BY <1>1, <1>2

LEMMA InitRoom ==
    ASSUME Roomy, Init
    PROVE  Room
<1>1. ASSUME NEW p \in Payments
      PROVE  Total[RequestsOf(p)] <= Captured[p]
  <2>1. CASE RequestsOf(p) = {}
    BY <2>1, TotalOfNone, RequestsTotal
  <2>2. ASSUME NEW r \in RequestsOf(p) PROVE Total[RequestsOf(p)] <= Captured[p]
    <3>1. r \in Requests /\ PaymentOf[r] = p
      BY DEF RequestsOf
    <3>2. Total[RequestsOf(p)] + Total[RequestsOf(p)] <= Captured[p] + AmountOf[r]
      BY <3>1 DEF Roomy
    <3> QED BY <3>2, RequestsTotal
  <2> QED BY <2>1, <2>2
<1>2. ASSUME NEW p \in Payments, snapshot[p].valid
      PROVE  Total[RequestsOf(p)] <= snapshot[p].refundable + Total[SucceededOf(p)]
  <2>1. snapshot[p].refundable = Captured[p]
    BY <1>2 DEF Init
  <2>2. SucceededOf(p) \in SUBSET Requests
    BY DEF SucceededOf, RequestsOf
  <2> QED BY <1>1, <2>1, <2>2, TotalIsNat, RequestsTotal
<1> QED BY <1>2 DEF Init, Room, Fits, Idle

\* A step that leaves the balances and adds no success.
LEMMA RoomStays ==
    ASSUME TypeOK, Room, UNCHANGED snapshot,
           \A r \in Requests :
              /\ ledger'[r] = "succeeded" <=> ledger[r] = "succeeded"
              /\ ledger'[r] # "none" => Fits(PaymentOf[r]),
           \A w \in Workers :
              \/ task'[w].step \notin {"store", "reserve"}
              \/ task'[w] = task[w]
              \/ /\ task'[w].step = "store"
                 /\ Total[RequestsOf(PaymentOf[task'[w].request])] <= task'[w].reading
              \/ /\ task'[w].step = "reserve"
                 /\ Fits(PaymentOf[task'[w].request])
    PROVE  Room'
<1>1. ASSUME NEW p
      PROVE  Fits(p)' <=> Fits(p)
  <2>1. SucceededOf(p)' = SucceededOf(p) /\ RequestsOf(p)' = RequestsOf(p)
    BY DEF SucceededOf, RequestsOf
  <2> QED BY <2>1 DEF Fits
<1>2. \A p \in Payments : snapshot'[p].valid => Fits(p)'
  BY <1>1 DEF Room
<1>3. \A r \in Requests : ledger'[r] # "none" => Fits(PaymentOf[r])'
  BY <1>1
<1>4. (\A w \in Workers : task[w].step = "store" =>
         Total[RequestsOf(PaymentOf[task[w].request])] <= task[w].reading)'
  BY DEF Room, RequestsOf
<1>5. ASSUME NEW w \in Workers, task'[w].step = "reserve"
      PROVE  Fits(PaymentOf[task[w].request])'
  <2>1. Fits(PaymentOf[task'[w].request])
    BY <1>5 DEF Room
  <2> QED BY <2>1, <1>1
<1> QED BY <1>2, <1>3, <1>4, <1>5 DEF Room

\* What is finalized leaves the balance and joins the successes.
LEMMA RoomFinalize ==
    ASSUME TypeOK, Room, NEW r \in Requests, CanFinalize(r), FinalizeRow(r),
           \A w \in Workers : task'[w].step \notin {"store", "reserve"} \/ task'[w] = task[w]
    PROVE  Room'
<1> DEFINE q == PaymentOf[r]
<1>1. q \in Payments /\ AmountOf[r] \in Nat /\ ledger[r] \in ActiveStatuses
  BY AmountAssumption DEF CanFinalize
<1>2. /\ ledger'[r] = "succeeded"
      /\ \A s \in Requests \ {r} : ledger'[s] = ledger[s]
      /\ ledger[r] \notin {"none", "succeeded"}
  BY <1>1 DEF FinalizeRow, TypeOK, ActiveStatuses
<1>3. /\ snapshot'[q].refundable = snapshot[q].refundable - AmountOf[r]
      /\ \A p \in Payments : snapshot'[p].valid = snapshot[p].valid
      /\ \A p \in Payments \ {q} : snapshot'[p] = snapshot[p]
  BY <1>1 DEF FinalizeRow, TypeOK, Snapshot
<1>4. \A p \in Payments \ {q} : SucceededOf(p)' = SucceededOf(p)
  BY <1>2 DEF SucceededOf, RequestsOf
<1>5. SucceededOf(q)' = SucceededOf(q) \cup {r} /\ r \notin SucceededOf(q)
  BY <1>2 DEF SucceededOf, RequestsOf
<1>6. Total[SucceededOf(q)'] = Total[SucceededOf(q)] + AmountOf[r]
  BY <1>1, <1>5, BalanceIsNat, TotalAddsOne
<1>7. \A p \in Payments : RequestsOf(p)' = RequestsOf(p)
  BY DEF RequestsOf
<1>8. ASSUME NEW p \in Payments, Fits(p)
      PROVE  Fits(p)'
  <2>1. Total[RequestsOf(p)] <= snapshot[p].refundable + Total[SucceededOf(p)]
    BY <1>8 DEF Fits
  <2>2. CASE p = q
    BY <1>1, <1>3, <1>6, <1>7, <2>1, <2>2, BalanceIsNat, RequestsTotal DEF Fits
  <2>3. CASE p # q
    BY <1>3, <1>4, <1>7, <2>1, <2>3 DEF Fits
  <2> QED BY <2>2, <2>3
<1>9. \A p \in Payments : snapshot'[p].valid => Fits(p)'
  BY <1>3, <1>8 DEF Room
<1>10. ASSUME NEW s \in Requests, ledger'[s] # "none"
       PROVE  Fits(PaymentOf[s])'
  <2>1. PaymentOf[s] \in Payments
    BY AmountAssumption
  <2>2. ledger[s] # "none"
    BY <1>2, <1>10
  <2> QED BY <1>8, <2>1, <2>2 DEF Room
<1>11. (\A w \in Workers : task[w].step = "store" =>
         Total[RequestsOf(PaymentOf[task[w].request])] <= task[w].reading)'
  BY DEF Room, RequestsOf
<1>12. ASSUME NEW w \in Workers, task'[w].step = "reserve"
       PROVE  Fits(PaymentOf[task[w].request])'
  <2>1. task'[w] = task[w] /\ task[w].step = "reserve"
    BY <1>12
  <2>2. PaymentOf[task[w].request] \in Payments
    BY <2>1, AmountAssumption DEF TypeOK
  <2>3. Fits(PaymentOf[task[w].request])
    BY <2>1 DEF Room
  <2>4. PICK p \in Payments : p = PaymentOf[task[w].request]
    BY <2>2
  <2>5. Fits(p)'
    BY <1>8, <2>3, <2>4
  <2> QED BY <2>1, <2>4, <2>5
<1> QED BY <1>9, <1>10, <1>11, <1>12 DEF Room

LEMMA RefreshRoom ==
    ASSUME Roomy, IInv, Records, Room, NEW w \in Workers, Refresh(w)
    PROVE  Room'
<1>0. TypeOK /\ TaskOK /\ Ownership
  BY TypeParts DEF IInv
<1>j. PICK r : r = task[w].request
  OBVIOUS
<1> DEFINE p == PaymentOf[r]
<1>1. r \in Requests /\ p \in Payments /\ ledger[r] = "none" /\ gatewayRefund[r] = "none"
  <2>1. task[w].step = "refresh"
    BY DEF Refresh, At
  <2>2. r \in Requests /\ p \in Payments
    BY <1>0, <1>j, <2>1, BusyOnRequest DEF At
  <2>3. ledger[r] = "none"
    BY <1>j, <2>1 DEF Records, Told
  <2> QED BY <1>0, <2>2, <2>3 DEF Ownership
<1>2. PICK counted \in SUBSET PendingAt(p), b \in 0 .. Captured[p] :
         /\ b = Remaining(p, (AcceptedBy(p) \ PendingAt(p)) \cup counted)
         /\ task' = [task EXCEPT ![w].step = "store", ![w].reading = b]
  BY <1>j DEF Refresh
<1> DEFINE S == (AcceptedBy(p) \ PendingAt(p)) \cup counted
<1>3. S \cup {r} \in SUBSET RequestsOf(p) /\ S \in SUBSET Requests /\ r \notin S
  BY <1>1 DEF AcceptedBy, PendingAt, RequestsOf
<1>4. Total[S] + AmountOf[r] <= Total[RequestsOf(p)]
  <2>1. Total[S \cup {r}] = Total[S] + AmountOf[r]
    BY <1>1, <1>3, TotalAddsOne
  <2>2. Total[S \cup {r}] <= Total[RequestsOf(p)]
    BY <1>1, <1>3, RequestsTotal, TotalIsMonotone
  <2> QED BY <2>1, <2>2
<1>5. b = Captured[p] - Total[S]
  BY <1>2 DEF Remaining
<1>6. Total[RequestsOf(p)] + Total[RequestsOf(p)] <= Captured[p] + AmountOf[r]
  BY <1>1 DEF Roomy
<1>7. AmountOf[r] \in Nat /\ Total[S] \in Nat
  BY <1>1, <1>3, AmountAssumption, TotalIsNat
<1> HIDE DEF S
<1>8. Total[RequestsOf(p)] <= b
  BY <1>1, <1>4, <1>5, <1>6, <1>7, RequestsTotal
<1>9. /\ task'[w].step = "store" /\ task'[w].request = r /\ task'[w].reading = b
      /\ \A v \in Workers : v # w => task'[v] = task[v]
  BY <1>0, <1>2, <1>j DEF TaskOK, Tasks
<1> QED BY <1>0, <1>8, <1>9, RoomStays DEF Room, Refresh, dbVars

LEMMA StoreRoom ==
    ASSUME IInv, Room, NEW w \in Workers, Store(w)
    PROVE  Room'
<1>0. TypeOK /\ TaskOK
  BY TypeParts DEF IInv
<1>j. PICK j : j = task[w]
  OBVIOUS
<1> DEFINE q == PaymentOf[j.request]
<1>1. q \in Payments /\ j.reading \in Nat /\ Total[RequestsOf(q)] <= j.reading
  BY <1>0, <1>j, BusyOnRequest DEF Store, At, Room
<1>2. /\ snapshot'[q].refundable = j.reading
      /\ \A p \in Payments \ {q} : snapshot'[p] = snapshot[p]
      /\ ledger' = ledger
  BY <1>0, <1>1, <1>j DEF Store, TypeOK
<1>3. \A p \in Payments : RequestsOf(p)' = RequestsOf(p) /\ SucceededOf(p)' = SucceededOf(p)
  BY <1>2 DEF RequestsOf, SucceededOf
<1>4. Fits(q)'
  BY <1>0, <1>1, <1>2, <1>3, BalanceIsNat, RequestsTotal DEF Fits
<1>5. ASSUME NEW p \in Payments, Fits(p)
      PROVE  Fits(p)'
  <2>1. CASE p = q
    BY <1>4, <2>1
  <2>2. CASE p # q
    BY <1>2, <1>3, <1>5, <2>2 DEF Fits
  <2> QED BY <2>1, <2>2
<1>6. ASSUME NEW p \in Payments, snapshot'[p].valid
      PROVE  Fits(p)'
  <2>1. CASE p = q
    BY <1>4, <2>1
  <2>2. CASE p # q
    BY <1>2, <1>5, <1>6, <2>2 DEF Room
  <2> QED BY <2>1, <2>2
<1>7. \A v \in Workers : task'[v].step \in {"store", "reserve"} => task'[v] = task[v] /\ v # w
  BY <1>0 DEF Store, TaskOK, Tasks
<1>8. ASSUME NEW r \in Requests, ledger'[r] # "none"
      PROVE  Fits(PaymentOf[r])'
  <2>1. PaymentOf[r] \in Payments /\ Fits(PaymentOf[r])
    BY <1>2, <1>8, AmountAssumption DEF Room
  <2> QED BY <1>5, <2>1
<1>9. ASSUME NEW v \in Workers, task'[v].step = "reserve"
      PROVE  Fits(PaymentOf[task[v].request])'
  <2>1. task'[v] = task[v] /\ task[v].step = "reserve"
    BY <1>7, <1>9
  <2>2. PICK p \in Payments : p = PaymentOf[task[v].request]
    BY <1>0, <2>1, AmountAssumption DEF TypeOK
  <2>3. Fits(p)
    BY <2>1, <2>2 DEF Room
  <2>4. Fits(p)'
    BY <1>5, <2>3
  <2> QED BY <2>1, <2>2, <2>4
<1>10. (\A v \in Workers : task[v].step = "store" =>
         Total[RequestsOf(PaymentOf[task[v].request])] <= task[v].reading)'
  BY <1>7 DEF Room, RequestsOf
<1> QED BY <1>6, <1>8, <1>9, <1>10 DEF Room

LEMMA StepRoom ==
    ASSUME Uploads = {}, Roomy, IInv, Records, Room, [Next]_vars
    PROVE  Room'
<1>0. TypeOK /\ TaskOK /\ TablesOK
  BY TypeParts DEF IInv
<1> USE DEF At, TablesOK, dbVars, gatewayVars
<1>1. ASSUME NEW w \in Workers, Refresh(w) \/ Store(w)
      PROVE  Room'
  BY <1>1, RefreshRoom, StoreRoom
<1>2. ASSUME NEW w \in Workers, Check(w)
      PROVE  Room'
  <2>1. CASE Eligible(task[w].request)
    <3>1. task'[w].step = "reserve" /\ task'[w].request = task[w].request
      BY <1>0, <1>2, <2>1, Moved DEF Check
    <3>2. \A v \in Workers : v # w => task'[v] = task[v]
      BY <1>0, <1>2, <2>1, Moved DEF Check
    <3>3. task[w].request \in Requests
      BY <1>0, <1>2, BusyOnRequest DEF Check
    <3>4. Fits(PaymentOf[task[w].request])
      BY <2>1, <3>3, AmountAssumption DEF Eligible, Room
    <3> QED BY <1>0, <1>2, <2>1, <3>1, <3>2, <3>4, RoomStays DEF Check, Room
  <2>2. CASE ~Eligible(task[w].request)
    BY <1>0, <1>2, <2>2, Ended, RoomStays DEF Check, Room
  <2> QED BY <2>1, <2>2
<1>3. ASSUME NEW w \in Workers,
             \/ RefreshFails(w) \/ Reserve(w) \/ Mark(w) \/ Announce(w)
             \/ RefundAccepted(w) \/ RefundRejected(w) \/ RefundReplyLost(w)
             \/ Release(w) \/ FailSafe(w) \/ Attach(w) \/ Record(w) \/ Publish(w)
             \/ Lookup(w) \/ Update(w) \/ Close(w) \/ Abort(w)
      PROVE  Room'
  <2>1. UNCHANGED snapshot /\ task[w].step # "idle"
    BY <1>3 DEF RefreshFails, Reserve, Mark, Announce, RefundAccepted, RefundRejected,
       RefundReplyLost, Release, FailSafe, Attach, Record, Publish, Lookup, Update, Close, Abort
  <2>2. /\ task'[w].step \notin {"store", "reserve"}
        /\ \A v \in Workers : v # w => task'[v] = task[v]
    <3>1. \/ Goto(w, "failSafe") \/ Goto(w, "mark") \/ Goto(w, "announce") \/ Goto(w, "refund")
          \/ Goto(w, "attach") \/ Goto(w, "release") \/ Goto(w, "record") \/ Goto(w, "finalize")
          \/ Goto(w, "publish") \/ Goto(w, "settle") \/ Goto(w, "close") \/ Return(w)
      BY <1>3 DEF RefreshFails, Reserve, Mark, Announce, RefundAccepted, RefundRejected,
         RefundReplyLost, Release, FailSafe, Attach, Record, Publish, Lookup, Update, Close, Abort
    <3> QED BY <1>0, <3>1, Moved, Ended
  <2>3. \A r \in Requests :
          /\ ledger'[r] = "succeeded" <=> ledger[r] = "succeeded"
          /\ ledger'[r] # "none" => Fits(PaymentOf[r])
    <3>1. task[w].request \in Requests
      BY <1>0, <2>1, BusyOnRequest
    <3>2. CASE Reserve(w) \/ Mark(w) \/ Release(w)
      BY <1>0, <3>1, <3>2
         DEF Reserve, CanReserve, Mark, Release, ReleaseRow, ActiveStatuses, Room
    <3>3. CASE ledger' = ledger
      BY <3>3 DEF Room
    <3> QED BY <1>3, <3>2, <3>3
            DEF RefreshFails, Announce, RefundAccepted, RefundRejected, RefundReplyLost, FailSafe,
                Attach, Record, Publish, Lookup, Update, Close, Abort
  <2> QED BY <1>0, <2>1, <2>2, <2>3, RoomStays
<1>4. ASSUME NEW w \in Workers, Finalize(w) \/ Settle(w)
      PROVE  Room'
  <2>1. task[w].request \in Requests
    BY <1>0, <1>4, BusyOnRequest DEF Finalize, Settle
  <2>2. /\ task'[w].step \notin {"store", "reserve"}
        /\ \A v \in Workers : v # w => task'[v] = task[v]
    <3>1. Goto(w, "record") \/ Goto(w, "update") \/ Return(w)
      BY <1>4 DEF Finalize, Settle
    <3> QED BY <1>0, <3>1, Moved, Ended
  <2>3. CASE CanFinalize(task[w].request) /\ FinalizeRow(task[w].request)
    BY <1>0, <2>1, <2>2, <2>3, RoomFinalize
  <2>4. CASE UNCHANGED snapshot /\ (ReleaseRow(task[w].request) \/ ledger' = ledger)
    <3>1. \A r \in Requests :
            /\ ledger'[r] = "succeeded" <=> ledger[r] = "succeeded"
            /\ ledger'[r] # "none" => Fits(PaymentOf[r])
      BY <1>0, <2>1, <2>4 DEF ReleaseRow, ActiveStatuses, Room
    <3> QED BY <1>0, <2>2, <2>4, <3>1, RoomStays
  <2> QED BY <1>4, <2>3, <2>4 DEF Finalize, Settle
<1>5. ASSUME NEW w \in Workers, NEW r \in Requests,
             \/ Register(w, r) \/ AutoApproves(w, r) \/ OperatorApproves(w, r)
             \/ ExecuteBegin(w, r)
             \/ \E e \in EventTypes : WebhookBegin(w, r, e)
      PROVE  Room'
  <2>1. UNCHANGED <<snapshot, ledger>>
    BY <1>5 DEF Register, AutoApproves, OperatorApproves, ExecuteBegin, WebhookBegin
  <2>2. \A v \in Workers : task'[v].step \notin {"store", "reserve"} \/ task'[v] = task[v]
    <3>1. CASE Register(w, r) \/ AutoApproves(w, r) \/ OperatorApproves(w, r)
      BY <3>1 DEF Register, AutoApproves, OperatorApproves
    <3>2. CASE ExecuteBegin(w, r)
      BY <1>0, <3>2, Begun DEF ExecuteBegin
    <3>3. CASE \E e \in EventTypes : WebhookBegin(w, r, e)
      BY <1>0, <3>3, Begun DEF WebhookBegin
    <3> QED BY <1>5, <3>1, <3>2, <3>3
  <2> QED BY <1>0, <2>1, <2>2, RoomStays DEF Room
<1>6. CASE (\E r \in Requests : GatewayResolves(r)) \/ UNCHANGED vars
  <2>1. UNCHANGED <<snapshot, ledger, task>>
    BY <1>6 DEF GatewayResolves, vars
  <2> QED BY <1>0, <2>1, RoomStays DEF Room
<1> QED BY <1>1, <1>2, <1>3, <1>4, <1>5, <1>6 DEF Next, ExecuteStep, WebhookStep

\* The deployed gateway and one process: a payment with room for its refunds
\* counted twice keeps every reservation covered, so that at rest the records
\* agree and a deciding event has settled what it decides.
THEOREM RoomyRecordsAgree ==
    ASSUME Uploads = {}, Roomy, MaxAborts = 0
    PROVE  OneProcess /\ Spec => []RecordsAgreeAtRest
<1>1. OneProcess /\ IInv /\ Records /\ Room /\ [Next]_vars => Records' /\ Room'
  BY StepRecords, StepRoom, RoomCovers DEF IInv
<1>2. OneProcess => []OneProcess
  <2>1. OneProcess => OneProcess'
    BY DEF OneProcess
  <2> QED BY <2>1, PTL
<1>3. Init => Records /\ Room
  BY InitRecords, InitRoom
<1> QED BY <1>1, <1>2, <1>3, RecordsAgree, Invariance, PTL DEF Spec

\* And under the same conditions, with a gateway that always answers, a
\* deciding event whose handler is done has settled its reservation the way it
\* says.
THEOREM RoomyReconciles ==
    ASSUME Uploads = {}, Roomy, MaxAborts = 0, ~LosesReplies
    PROVE  OneProcess /\ Spec => []ReconciliationSettles
<1>1. OneProcess /\ IInv /\ Records /\ Room /\ [Next]_vars => Records' /\ Room'
  BY StepRecords, StepRoom, RoomCovers DEF IInv
<1>2. IInv /\ Room => ReservationsAreCovered
  BY RoomCovers DEF IInv
<1>3. OneProcess => []OneProcess
  <2>1. OneProcess => OneProcess'
    BY DEF OneProcess
  <2> QED BY <2>1, PTL
<1>4. Init => Records /\ Room
  BY InitRecords, InitRoom
<1>5. Spec /\ []ReservationsAreCovered /\ OneProcess => []ReconciliationSettles
  BY CoveredReconciles
<1> QED BY <1>1, <1>2, <1>3, <1>4, <1>5, Invariance, PTL DEF Spec
=============================================================================
