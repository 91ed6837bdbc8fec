------------------------- MODULE CaseWorkflowProofs -------------------------
(* Theorems about CaseWorkflow for every set of requests and tickets, any   *)
(* number of processes and of restarts; where one process is needed the     *)
(* theorem says so.                                                         *)
EXTENDS CaseWorkflow, TLAPS

\* What a handler in flight carries.
Carries(j) ==
    /\ j.step # "idle" => j.request \in Requests
    /\ j.step = "idle" => j.ticket = NoTicket
    /\ j.step = "integrity" => j.target \in {"eligible", "ineligible"}
    /\ j.step \in {"integrity", "open", "rule"} => j.ticket = NoTicket
    /\ j.step = "open" => j.target = "VERIFYING"
    /\ j.step = "decide" => /\ j.target \in Actions
                            /\ j.ticket # NoTicket => j.target # "VERIFY"
    /\ j.step = "close" => j.target \in Intermediate /\ j.ticket \in Tickets
    /\ j.step = "rule" => j.target \in Rulings
    /\ j.step \in {"setState", "audit"} => /\ j.target \in States \ MoneyStates
                                           /\ j.target = "VERIFYING" => j.ticket \in Tickets

Loaded == \A w \in Workers : Carries(job[w])

TicketsAreCases ==
    \A t \in Tickets : verification[t].status # "none" => verification[t].request \in Requests

TypeInv == TypeOK /\ Loaded /\ TicketsAreCases

-----------------------------------------------------------------------------
(* Types.                                                                   *)

LEMMA IdleTyped ==
    Idle \in Jobs /\ Idle.step = "idle" /\ Idle.request = NoRequest /\ Idle.ticket = NoTicket
BY DEF Idle, Jobs, Steps, States

LEMMA InitTyped == Init => TypeInv
<1> SUFFICES ASSUME Init PROVE TypeInv
  OBVIOUS
<1>1. job \in [Workers -> Jobs] /\ crashes \in 0 .. MaxCrashes
  BY IdleTyped, CrashAssumption DEF Init
<1>2. verification \in [Tickets -> [request : Requests \cup {NoRequest}, result : Results,
                                    status : {"none", "ACTIVE", "COMPLETE"}, known : BOOLEAN]]
  BY DEF Init, NoTicketRow, Results
<1>3. TypeOK
  BY <1>1, <1>2 DEF Init, TypeOK, States, Actions
<1>4. Loaded
  BY IdleTyped DEF Init, Loaded, Carries
<1>5. TicketsAreCases
  BY DEF Init, TicketsAreCases, NoTicketRow
<1> QED BY <1>3, <1>4, <1>5 DEF TypeInv

LEMMA BeginTyped ==
    ASSUME TypeInv, NEW w \in Workers, NEW r \in Requests,
           \/ Register(w, r)
           \/ \E eligible \in BOOLEAN : ScoreBegin(w, r, eligible)
           \/ VerifyBegin(w, r)
           \/ \E ruling \in Rulings : RuleBegin(w, r, ruling)
    PROVE  TypeInv'
<1> USE DEF TypeInv, TypeOK, Loaded, Carries, TicketsAreCases, Start, Free, At, Jobs, Steps, recordVars
<1>1. CASE Register(w, r)
  BY <1>1 DEF Register, States, MoneyStates
<1>2. CASE \E eligible \in BOOLEAN : ScoreBegin(w, r, eligible)
  BY <1>2 DEF ScoreBegin
<1>3. CASE VerifyBegin(w, r)
  BY <1>3 DEF VerifyBegin, States
<1>4. CASE \E ruling \in Rulings : RuleBegin(w, r, ruling)
  BY <1>4 DEF RuleBegin, States
<1> QED BY <1>1, <1>2, <1>3, <1>4

LEMMA CompleteTyped ==
    ASSUME TypeInv, NEW w \in Workers, NEW t \in Tickets, NEW result \in Results,
           CompleteBegin(w, t, result)
    PROVE  TypeInv'
<1>1. IntermediateOf(result) \in Intermediate /\ Intermediate \subseteq States
  BY DEF IntermediateOf, Results, Intermediate, States
<1>2. verification[t].request \in Requests
  BY DEF TypeInv, TypeOK, TicketsAreCases, CompleteBegin
<1> QED BY <1>1, <1>2 DEF TypeInv, TypeOK, Loaded, Carries, TicketsAreCases, CompleteBegin, Start, Free,
                          At, Jobs, Steps, recordVars

\* A step changes the job of its worker and nobody else's.
LEMMA JobTyped ==
    ASSUME TypeInv, NEW w \in Workers, NEW j \in Jobs, Carries(j),
           job' = [job EXCEPT ![w] = j]
    PROVE  job' \in [Workers -> Jobs] /\ Loaded'
BY DEF TypeInv, TypeOK, Loaded

VerificationRows == [request : Requests \cup {NoRequest}, result : Results,
                     status : {"none", "ACTIVE", "COMPLETE"}, known : BOOLEAN]

LEMMA VerificationTyped ==
    ASSUME TypeInv, NEW t \in Tickets, NEW row \in VerificationRows,
           row.status # "none" => row.request \in Requests,
           verification' = [verification EXCEPT ![t] = row]
    PROVE  verification' \in [Tickets -> VerificationRows] /\ TicketsAreCases'
BY DEF TypeInv, TypeOK, TicketsAreCases, VerificationRows

LEMMA ContinueTyped ==
    ASSUME TypeInv, NEW w \in Workers, Continue(w)
    PROVE  TypeInv'
<1> DEFINE r == job[w].request
           state == job[w].target
<1>0. job[w] \in Jobs /\ Carries(job[w]) /\ Idle \in Jobs /\ Carries(Idle)
  BY IdleTyped DEF TypeInv, TypeOK, Loaded, Carries
<1>1. CASE RecordIntegrity(w)
  <2>1. integrity' \in [Requests -> {"none", "eligible", "ineligible"}]
    BY <1>0, <1>1 DEF RecordIntegrity, TypeInv, TypeOK, Carries, At
  <2>2. PICK j \in Jobs : Carries(j) /\ job' = [job EXCEPT ![w] = j]
    <3>1. CASE Return(w)
      BY <1>0, <3>1 DEF Return
    <3>2. ASSUME NEW s \in {"setState", "decide"}, NEW a \in Actions \cup {"FAILED_SAFE"},
                 s = "decide" => a \in Actions, Aim(w, s, a)
          PROVE  \E j \in Jobs : Carries(j) /\ job' = [job EXCEPT ![w] = j]
      <4> DEFINE j == [job[w] EXCEPT !.step = s, !.target = a]
      <4>1. job' = [job EXCEPT ![w] = j]
        BY <3>2 DEF Aim
      <4>2. j \in Jobs
        BY <1>0 DEF Jobs, Steps, States, Actions
      <4>3. Carries(j)
        BY <1>0, <1>1, <3>2 DEF Carries, RecordIntegrity, At, Jobs, States, Actions, MoneyStates
      <4> QED BY <4>1, <4>2, <4>3
    <3> QED BY <1>1, <3>1, <3>2 DEF RecordIntegrity, Actions
  <2> QED BY <1>1, <2>1, <2>2, JobTyped DEF RecordIntegrity, TypeInv, TypeOK, TicketsAreCases
<1>2. CASE Decide(w)
  <2>1. /\ stageA' \in [Requests -> {"none"} \cup Actions]
        /\ posterior' \in [Requests -> {"none"} \cup (Actions \ {"VERIFY"})]
    BY <1>0, <1>2 DEF Decide, TypeInv, TypeOK, Carries, At
  <2> DEFINE j == [job[w] EXCEPT !.step = "setState"]
  <2>2. j \in Jobs /\ Carries(j)
    BY <1>0, <1>2 DEF Decide, Jobs, Steps, Carries, At, States, Actions, MoneyStates
  <2>3. job' = [job EXCEPT ![w] = j] \/ job' = [job EXCEPT ![w] = Idle]
    BY <1>2 DEF Decide, Goto, Return
  <2>4. job' \in [Workers -> Jobs] /\ Loaded'
    BY <1>0, <2>2, <2>3, JobTyped
  <2> QED BY <1>2, <2>1, <2>4 DEF Decide, TypeInv, TypeOK, TicketsAreCases
<1>3. CASE Open(w)
  <2>1. CASE Return(w) /\ verification' = verification
    <3>1. job' \in [Workers -> Jobs] /\ Loaded'
      BY <1>0, <2>1, JobTyped DEF Return
    <3> QED BY <1>3, <2>1, <3>1 DEF Open, TypeInv, TypeOK, TicketsAreCases
  <2>2. ASSUME NEW t \in Tickets,
               verification' = [verification EXCEPT ![t].request = r, ![t].status = "ACTIVE"],
               job' = [job EXCEPT ![w].step = "setState", ![w].ticket = t]
        PROVE  TypeInv'
    <3> DEFINE j == [job[w] EXCEPT !.step = "setState", !.ticket = t]
    <3>1. j \in Jobs /\ Carries(j)
      BY <1>0, <1>3 DEF Open, Jobs, Steps, Carries, At, States, MoneyStates
    <3>2. job' \in [Workers -> Jobs] /\ Loaded'
      BY <2>2, <3>1, JobTyped
    <3>3. r \in Requests
      BY <1>0, <1>3 DEF Open, Carries, At
    <3>4. verification' \in [Tickets -> VerificationRows] /\ TicketsAreCases'
      <4> DEFINE row == [verification[t] EXCEPT !.request = r, !.status = "ACTIVE"]
      <4>1. row \in VerificationRows /\ row.request = r
        BY <3>3 DEF TypeInv, TypeOK, VerificationRows
      <4>2. verification' = [verification EXCEPT ![t] = row]
        BY <2>2
      <4> QED BY <3>3, <4>1, <4>2, VerificationTyped
    <3> QED BY <1>3, <3>2, <3>4 DEF Open, TypeInv, TypeOK, VerificationRows
  <2> QED BY <1>3, <2>1, <2>2 DEF Open
<1>4. CASE Close(w)
  <2> DEFINE t == job[w].ticket
             x == CHOOSE x \in Results : IntermediateOf(x) = job[w].target
  <2>1. x \in Results
    <3>1. \E y \in Results : IntermediateOf(y) = job[w].target
      BY <1>0, <1>4 DEF Close, At, Carries, Intermediate, IntermediateOf, Results
    <3> QED BY <3>1
  <2>2. verification' \in [Tickets -> VerificationRows] /\ TicketsAreCases'
    <3>1. t \in Tickets
      BY <1>0, <1>4 DEF Close, At, Carries
    <3>2. verification[t] \in VerificationRows
      BY <3>1 DEF TypeInv, TypeOK, VerificationRows
    <3>3. verification' = IF verification[t].status # "ACTIVE" THEN verification
                          ELSE [verification EXCEPT ![t].status = "COMPLETE", ![t].result = x]
      BY <1>4 DEF Close
    <3> HIDE DEF x
    <3> DEFINE row == [verification[t] EXCEPT !.status = "COMPLETE", !.result = x]
    <3>4. CASE verification[t].status # "ACTIVE"
      BY <3>3, <3>4 DEF TypeInv, TypeOK, TicketsAreCases, VerificationRows
    <3>5. CASE verification[t].status = "ACTIVE"
      <4>1. verification' = [verification EXCEPT ![t] = row]
        BY <3>3, <3>5
      <4>2. row \in VerificationRows /\ row.request = verification[t].request
        BY <2>1, <3>2 DEF VerificationRows
      <4>3. row.request \in Requests
        BY <3>1, <3>5, <4>2 DEF TypeInv, TicketsAreCases
      <4> QED BY <3>1, <4>1, <4>2, <4>3, VerificationTyped
    <3> QED BY <3>4, <3>5
  <2> DEFINE j == [job[w] EXCEPT !.step = "setState"]
  <2>3. j \in Jobs /\ Carries(j)
    BY <1>0, <1>4 DEF Close, Jobs, Steps, Carries, At, States, Intermediate, MoneyStates
  <2>4. job' = [job EXCEPT ![w] = j] \/ job' = [job EXCEPT ![w] = Idle]
    BY <1>4 DEF Close, Goto, Return
  <2>5. job' \in [Workers -> Jobs] /\ Loaded'
    BY <1>0, <2>3, <2>4, JobTyped
  <2> QED BY <1>4, <2>2, <2>5 DEF Close, TypeInv, TypeOK, VerificationRows
<1>5. CASE Rule(w)
  <2> DEFINE j == [job[w] EXCEPT !.step = "setState"]
  <2>1. j \in Jobs /\ Carries(j)
    BY <1>0, <1>5 DEF Rule, Jobs, Steps, Carries, At, States, Rulings, MoneyStates
  <2>2. job' \in [Workers -> Jobs] /\ Loaded'
    BY <1>5, <2>1, JobTyped DEF Rule, Goto
  <2>3. rulings' \in [Requests -> SUBSET Rulings]
    BY <1>0, <1>5 DEF Rule, At, Carries, TypeInv, TypeOK
  <2> QED BY <1>5, <2>2, <2>3 DEF Rule, TypeInv, TypeOK, TicketsAreCases
<1>6. CASE SetState(w)
  <2> DEFINE j == [job[w] EXCEPT !.step = "audit"]
  <2>1. j \in Jobs /\ Carries(j)
    BY <1>0, <1>6 DEF SetState, Jobs, Steps, Carries, At
  <2>2. job' \in [Workers -> Jobs] /\ Loaded'
    BY <1>6, <2>1, JobTyped DEF SetState, Goto
  <2>3. caseState' \in [Requests -> States]
    BY <1>0, <1>6 DEF SetState, At, Carries, TypeInv, TypeOK
  <2> QED BY <1>6, <2>2, <2>3 DEF SetState, TypeInv, TypeOK, TicketsAreCases, recordVars
<1>7. CASE Audit(w)
  <2>1. r \in Requests /\ state \in States /\ job[w].seen \in States
    BY <1>0, <1>7 DEF Audit, At, Carries, Jobs
  <2>2. audit' \in [Requests -> [before : States, after : States]]
    BY <1>7, <2>1 DEF Audit, TypeInv, TypeOK
  <2>3. verification' \in [Tickets -> VerificationRows] /\ TicketsAreCases'
    <3> DEFINE t == job[w].ticket
               row == [verification[t] EXCEPT !.known = TRUE]
    <3>1. CASE state # "VERIFYING"
      BY <1>7, <3>1 DEF Audit, TypeInv, TypeOK, TicketsAreCases, VerificationRows
    <3>2. CASE state = "VERIFYING"
      <4>1. t \in Tickets
        BY <1>0, <1>7, <3>2 DEF Audit, At, Carries
      <4>2. row \in VerificationRows
        <5>1. verification[t] \in VerificationRows
          BY <4>1 DEF TypeInv, TypeOK, VerificationRows
        <5> QED BY <5>1 DEF VerificationRows
      <4>3. row.status # "none" => row.request \in Requests
        BY <4>1 DEF TypeInv, TypeOK, TicketsAreCases
      <4>4. verification' = [verification EXCEPT ![t] = row]
        BY <1>7, <3>2 DEF Audit
      <4> QED BY <4>1, <4>2, <4>3, <4>4, VerificationTyped
    <3> QED BY <3>1, <3>2
  <2>4. job' \in [Workers -> Jobs] /\ Loaded'
    <3>1. CASE state \in Intermediate
      <4>1. PICK a \in PosteriorActions(state) :
                   job' = [job EXCEPT ![w].step = "decide", ![w].seen = state, ![w].target = a]
        BY <1>7, <3>1 DEF Audit
      <4>2. a \in Actions \ {"VERIFY"}
        BY <3>1, <4>1 DEF PosteriorActions, Intermediate, Actions
      <4> DEFINE j == [job[w] EXCEPT !.step = "decide", !.seen = state, !.target = a]
      <4>3. j \in Jobs
        BY <1>0, <2>1, <4>2 DEF Jobs, Steps, States
      <4>4. /\ j.step = "decide" /\ j.request \in Requests /\ j.target \in Actions
            /\ j.target # "VERIFY"
        BY <1>0, <2>1, <4>2 DEF Jobs
      <4>5. Carries(j)
        BY <4>4 DEF Carries
      <4>6. job' = [job EXCEPT ![w] = j]
        BY <4>1
      <4> HIDE DEF j
      <4> QED BY <4>3, <4>5, <4>6, JobTyped
    <3>2. CASE state \notin Intermediate
      BY <1>0, <1>7, <3>2, JobTyped DEF Audit, Return
    <3> QED BY <3>1, <3>2
  <2> QED BY <1>7, <2>2, <2>3, <2>4 DEF Audit, TypeInv, TypeOK, VerificationRows
<1> QED BY <1>1, <1>2, <1>3, <1>4, <1>5, <1>6, <1>7 DEF Continue

LEMMA RestartTyped ==
    ASSUME TypeInv, NEW w \in Workers, Restart(w)
    PROVE  TypeInv'
BY IdleTyped, CrashAssumption
   DEF TypeInv, TypeOK, Loaded, Carries, TicketsAreCases, Restart, Return, At, recordVars

LEMMA StepTyped == TypeInv /\ [Next]_vars => TypeInv'
<1> SUFFICES ASSUME TypeInv, [Next]_vars PROVE TypeInv'
  OBVIOUS
<1>1. CASE UNCHANGED vars
  BY <1>1 DEF TypeInv, TypeOK, Loaded, TicketsAreCases, vars, recordVars, Carries
<1>2. ASSUME NEW w \in Workers, NEW r \in Requests,
             Register(w, r) \/ \E eligible \in BOOLEAN : ScoreBegin(w, r, eligible)
      PROVE  TypeInv'
  BY <1>2, BeginTyped
<1>3. ASSUME NEW w \in Workers, Review(w) PROVE TypeInv'
  BY <1>3, BeginTyped, CompleteTyped DEF Review
<1> QED BY <1>1, <1>2, <1>3, ContinueTyped, RestartTyped DEF Next

\* Every table and every handler keeps its type.
THEOREM Typed == Spec => []TypeOK
<1>1. TypeInv => TypeOK
  BY DEF TypeInv
<1> QED BY <1>1, InitTyped, StepTyped, PTL DEF Spec

-----------------------------------------------------------------------------
(* What an approval rests on, with any number of processes.                 *)

\* The rows of a case agree, whatever state a stale handler wrote last.
RowsAgree ==
    \A r \in Requests :
        /\ stageA[r] # "none" => integrity[r] = "eligible"
        /\ posterior[r] # "none" => stageA[r] = "VERIFY"
        /\ caseState[r] = "VERIFY" => stageA[r] = "VERIFY"
        /\ caseState[r] = "AUTO_APPROVE" => "AUTO_APPROVE" \in {stageA[r], posterior[r]}
        /\ caseState[r] = "APPROVED" => "APPROVED" \in rulings[r]

TicketsAgree ==
    \A t \in Tickets :
        /\ verification[t].status = "none" => verification[t].request = NoRequest
        /\ verification[t].request # NoRequest => stageA[verification[t].request] = "VERIFY"

\* A handler writes only states its rows account for.
Grounded(j, eligibility, first, second, ruled) ==
    /\ j.step = "decide" /\ j.ticket = NoTicket => eligibility[j.request] = "eligible"
    /\ j.step = "open" \/ j.ticket # NoTicket => first[j.request] = "VERIFY"
    /\ j.step \in {"setState", "audit"} /\ j.target \in Intermediate => j.ticket # NoTicket
    /\ j.step = "setState" =>
          /\ j.target = "VERIFY" => first[j.request] = "VERIFY"
          /\ j.target = "AUTO_APPROVE" =>
                 "AUTO_APPROVE" \in {first[j.request], second[j.request]}
          /\ j.target = "APPROVED" => "APPROVED" \in ruled[j.request]

Grounds == \A w \in Workers : Grounded(job[w], integrity, stageA, posterior, rulings)

ApprovalInv == TypeInv /\ RowsAgree /\ TicketsAgree /\ Grounds

\* No approval without a decision on record, and none by the policy alone of a
\* case that was ineligible or that scoring sent to review.
ApprovalHasGrounds ==
    \A r \in Requests : caseState[r] \in Approved =>
        \/ "APPROVED" \in rulings[r]
        \/ /\ "AUTO_APPROVE" \in {stageA[r], posterior[r]}
           /\ integrity[r] = "eligible" /\ stageA[r] # "MANUAL_REVIEW"

LEMMA InitApproval == Init => ApprovalInv
BY InitTyped DEF Init, ApprovalInv, RowsAgree, TicketsAgree, Grounds, Grounded, Idle, NoTicketRow, Intermediate

LEMMA BeginApproval ==
    ASSUME ApprovalInv, NEW w \in Workers,
           \/ \E r \in Requests :
                Register(w, r) \/ \E eligible \in BOOLEAN : ScoreBegin(w, r, eligible)
           \/ Review(w)
    PROVE  RowsAgree' /\ TicketsAgree' /\ Grounds'
<1> USE DEF ApprovalInv, TypeInv, TypeOK, Loaded, Start, Free, At, Jobs, recordVars, Grounded
<1>1. ASSUME NEW r \in Requests, Register(w, r)
      PROVE  RowsAgree' /\ TicketsAgree' /\ Grounds'
  BY <1>1 DEF Register, RowsAgree, TicketsAgree, Grounds, Intermediate
<1>2. ASSUME NEW r \in Requests, NEW eligible \in BOOLEAN, ScoreBegin(w, r, eligible)
      PROVE  RowsAgree' /\ TicketsAgree' /\ Grounds'
  BY <1>2 DEF ScoreBegin, RowsAgree, TicketsAgree, Grounds
<1>3. ASSUME NEW r \in Requests, VerifyBegin(w, r)
      PROVE  RowsAgree' /\ TicketsAgree' /\ Grounds'
  BY <1>3 DEF VerifyBegin, RowsAgree, TicketsAgree, Grounds
<1>4. ASSUME NEW r \in Requests, NEW ruling \in Rulings, RuleBegin(w, r, ruling)
      PROVE  RowsAgree' /\ TicketsAgree' /\ Grounds'
  BY <1>4 DEF RuleBegin, RowsAgree, TicketsAgree, Grounds
<1>5. ASSUME NEW t \in Tickets, NEW result \in Results, CompleteBegin(w, t, result)
      PROVE  RowsAgree' /\ TicketsAgree' /\ Grounds'
  <2>1. verification[t].request \in Requests
    BY <1>5 DEF CompleteBegin, TicketsAreCases
  <2> QED BY <1>5, <2>1, NothingAssumption
          DEF CompleteBegin, RowsAgree, TicketsAgree, Grounds, TicketsAreCases
<1> QED BY <1>1, <1>2, <1>3, <1>4, <1>5 DEF Review

\* Rows are only added, so the grounds of the other handlers stay.
LEMMA GroundsStay ==
    ASSUME TypeInv, Grounds, NEW w \in Workers,
           \A v \in Workers \ {w} : job'[v] = job[v],
           Grounded(job'[w], integrity', stageA', posterior', rulings'),
           \A r \in Requests :
              /\ integrity[r] = "eligible" => integrity'[r] = "eligible"
              /\ stageA[r] # "none" => stageA'[r] = stageA[r]
              /\ posterior[r] # "none" => posterior'[r] = posterior[r]
              /\ rulings[r] \subseteq rulings'[r]
    PROVE  Grounds'
<1> SUFFICES ASSUME NEW v \in Workers \ {w}
             PROVE  Grounded(job[v], integrity', stageA', posterior', rulings')
  BY DEF Grounds
<1>1. Grounded(job[v], integrity, stageA, posterior, rulings) /\ Carries(job[v])
  BY DEF Grounds, TypeInv, Loaded
<1>2. job[v].step # "idle" \/ job[v].ticket # NoTicket => job[v].request \in Requests
  BY <1>1 DEF Carries
<1> QED BY <1>1, <1>2 DEF Grounded

LEMMA ContinueApproval ==
    ASSUME ApprovalInv, NEW w \in Workers, Continue(w)
    PROVE  RowsAgree' /\ TicketsAgree' /\ Grounds'
<1> DEFINE j == job[w]
           r == j.request
           kept == [j EXCEPT !.step = "setState"]
<1>0. /\ j \in Jobs /\ Carries(j) /\ Grounded(j, integrity, stageA, posterior, rulings)
      /\ TypeOK
  BY DEF ApprovalInv, TypeInv, TypeOK, Loaded, Grounds
<1>a. \A v \in Workers \ {w} : job'[v] = job[v]
  BY <1>0 DEF Continue, RecordIntegrity, Decide, Open, Close, Rule, SetState, Audit, Goto, Aim, Return,
              TypeOK
<1>b. Grounded(Idle, integrity', stageA', posterior', rulings')
  BY DEF Grounded, Idle
<1>c. Return(w) => job'[w] = Idle
  BY <1>0 DEF Return, TypeOK
<1>d. Goto(w, "setState") => job'[w] = kept
  BY <1>0 DEF Goto, TypeOK
<1>e. /\ kept.step = "setState" /\ kept.request = r /\ kept.ticket = j.ticket
      /\ kept.target = j.target
  BY <1>0 DEF Jobs
<1> HIDE DEF kept
<1> USE DEF ApprovalInv
<1>1. CASE RecordIntegrity(w)
  <2>1. r \in Requests /\ j.ticket = NoTicket /\ j.target \in {"eligible", "ineligible"}
    BY <1>0, <1>1 DEF RecordIntegrity, At, Carries
  <2>2. \A q \in Requests : integrity[q] = "eligible" => integrity'[q] = "eligible"
    BY <1>0, <1>1, <2>1 DEF RecordIntegrity, TypeOK
  <2>3. RowsAgree'
    BY <1>1, <2>2 DEF RecordIntegrity, RowsAgree
  <2>4. Grounded(job'[w], integrity', stageA', posterior', rulings')
    <3>1. CASE Return(w)
      BY <1>b, <1>c, <3>1
    <3>2. ASSUME NEW s \in {"setState", "decide"}, NEW a \in Actions \cup {"FAILED_SAFE"},
                 s = "setState" => a \in {"MANUAL_REVIEW", "FAILED_SAFE"},
                 s = "decide" => integrity'[r] = "eligible",
                 Aim(w, s, a)
          PROVE  Grounded(job'[w], integrity', stageA', posterior', rulings')
      <4> DEFINE k == [j EXCEPT !.step = s, !.target = a]
      <4>1. job'[w] = k
        BY <1>0, <3>2 DEF Aim, TypeOK
      <4>2. k.step = s /\ k.target = a /\ k.ticket = NoTicket /\ k.request = r
        BY <1>0, <2>1 DEF Jobs
      <4> HIDE DEF k
      <4> QED BY <3>2, <4>1, <4>2 DEF Grounded, Intermediate, Actions
    <3>3. integrity'[r] = "eligible" \/ Return(w) \/ j.target = "ineligible"
      BY <1>0, <1>1, <2>1 DEF RecordIntegrity, TypeOK
    <3> QED BY <1>1, <2>1, <3>1, <3>2, <3>3 DEF RecordIntegrity, Actions
  <2>5. Grounds'
    BY <1>1, <1>a, <2>2, <2>4, GroundsStay DEF RecordIntegrity
  <2> QED BY <1>1, <2>3, <2>5 DEF RecordIntegrity, TicketsAgree
<1>2. CASE Decide(w)
  <2>1. r \in Requests /\ j.target \in Actions
    BY <1>0, <1>2 DEF Decide, At, Carries
  <2>2. \A q \in Requests : /\ stageA[q] # "none" => stageA'[q] = stageA[q]
                            /\ posterior[q] # "none" => posterior'[q] = posterior[q]
                            /\ stageA'[q] # stageA[q] => q = r /\ j.ticket = NoTicket
                            /\ posterior'[q] # posterior[q] => q = r /\ j.ticket # NoTicket
    BY <1>0, <1>2, <2>1 DEF Decide, TypeOK
  <2>3. /\ j.ticket = NoTicket => integrity[r] = "eligible"
        /\ j.ticket # NoTicket => stageA[r] = "VERIFY"
    BY <1>0, <1>2 DEF Decide, At, Grounded
  <2>4. RowsAgree'
    <3> SUFFICES ASSUME NEW q \in Requests
                 PROVE  /\ stageA'[q] # "none" => integrity[q] = "eligible"
                        /\ posterior'[q] # "none" => stageA'[q] = "VERIFY"
                        /\ caseState[q] = "VERIFY" => stageA'[q] = "VERIFY"
                        /\ caseState[q] = "AUTO_APPROVE" =>
                               "AUTO_APPROVE" \in {stageA'[q], posterior'[q]}
                        /\ caseState[q] = "APPROVED" => "APPROVED" \in rulings[q]
      BY <1>2 DEF Decide, RowsAgree
    <3> QED BY <2>2, <2>3 DEF RowsAgree
  <2>5. \A t \in Tickets : verification[t].request \in Requests \cup {NoRequest}
    BY <1>0 DEF TypeOK
  <2>6. TicketsAgree'
    BY <1>2, <2>2, <2>5 DEF Decide, TicketsAgree
  <2>7. Grounded(job'[w], integrity', stageA', posterior', rulings')
    <3>1. CASE Return(w)
      BY <1>b, <1>c, <3>1
    <3>2. CASE ~ Return(w)
      <4>1. /\ job'[w] = kept
            /\ j.ticket = NoTicket => stageA'[r] = j.target
            /\ j.ticket # NoTicket => posterior'[r] = j.target
        BY <1>0, <1>2, <1>d, <2>1, <3>2 DEF Decide, TypeOK
      <4>2. j.ticket # NoTicket => stageA'[r] = "VERIFY" /\ j.target # "VERIFY"
        BY <1>0, <1>2, <2>1, <2>2, <2>3 DEF Decide, At, Carries
      <4> QED BY <1>e, <2>1, <4>1, <4>2 DEF Grounded, Actions, Intermediate
    <3> QED BY <3>1, <3>2
  <2>8. Grounds'
    BY <1>2, <1>a, <2>2, <2>7, GroundsStay DEF Decide
  <2> QED BY <2>4, <2>6, <2>8
<1>3. CASE Open(w)
  <2>1. r \in Requests /\ stageA[r] = "VERIFY" /\ j.target = "VERIFYING"
    BY <1>0, <1>3 DEF Open, At, Carries, Grounded
  <2>2. CASE Return(w) /\ verification' = verification
    <3>1. Grounds'
      BY <1>3, <1>a, <1>b, <1>c, <2>2, GroundsStay DEF Open
    <3> QED BY <1>3, <2>2, <3>1 DEF Open, RowsAgree, TicketsAgree
  <2>3. ASSUME NEW t \in Tickets,
               verification' = [verification EXCEPT ![t].request = r, ![t].status = "ACTIVE"],
               job' = [job EXCEPT ![w].step = "setState", ![w].ticket = t]
        PROVE  RowsAgree' /\ TicketsAgree' /\ Grounds'
    <3> DEFINE k == [j EXCEPT !.step = "setState", !.ticket = t]
    <3>1. job'[w] = k
      BY <1>0, <2>3 DEF TypeOK
    <3>2. k.step = "setState" /\ k.target = "VERIFYING" /\ k.ticket = t /\ k.request = r
      BY <1>0, <2>1 DEF Jobs
    <3> HIDE DEF k
    <3>3. Grounded(job'[w], integrity', stageA', posterior', rulings')
      BY <1>3, <2>1, <3>1, <3>2 DEF Open, Grounded, Intermediate
    <3>4. Grounds'
      BY <1>3, <1>a, <3>3, GroundsStay DEF Open
    <3> DEFINE row == [verification[t] EXCEPT !.request = r, !.status = "ACTIVE"]
    <3>5. verification[t] \in VerificationRows
      BY <1>0 DEF TypeOK, VerificationRows
    <3>6. row.request = r /\ row.status = "ACTIVE"
      BY <3>5 DEF VerificationRows
    <3>7. verification'[t] = row /\ \A u \in Tickets \ {t} : verification'[u] = verification[u]
      BY <1>0, <2>3 DEF TypeOK
    <3> HIDE DEF row
    <3>8. TicketsAgree'
      BY <1>3, <2>1, <3>6, <3>7 DEF Open, TicketsAgree
    <3> QED BY <1>3, <3>4, <3>8 DEF Open, RowsAgree
  <2> QED BY <1>3, <2>2, <2>3 DEF Open
<1>4. CASE Close(w)
  <2>1. j.ticket \in Tickets /\ j.ticket # NoTicket
    BY <1>0, <1>4, NothingAssumption DEF Close, At, Carries
  <2>2. \A t \in Tickets : /\ verification'[t].request = verification[t].request
                           /\ verification'[t].status = "none" => verification[t].status = "none"
    BY <1>0, <1>4 DEF Close, TypeOK
  <2>3. Grounded(job'[w], integrity', stageA', posterior', rulings')
    <3>1. Grounded(kept, integrity, stageA, posterior, rulings)
      BY <1>0, <1>4, <1>e, <2>1 DEF Close, At, Carries, Grounded, Intermediate
    <3>2. job'[w] \in {kept, Idle}
      BY <1>4, <1>c, <1>d DEF Close
    <3> QED BY <1>4, <1>b, <3>1, <3>2 DEF Close
  <2>4. Grounds'
    BY <1>4, <1>a, <2>3, GroundsStay DEF Close
  <2>5. RowsAgree'
    BY <1>4 DEF Close, RowsAgree
  <2>6. TicketsAgree'
    BY <1>4, <2>2 DEF Close, TicketsAgree
  <2> QED BY <2>4, <2>5, <2>6
<1>5. CASE Rule(w)
  <2>1. r \in Requests /\ j.target \in Rulings /\ j.ticket = NoTicket
    BY <1>0, <1>5 DEF Rule, At, Carries
  <2>2. \A q \in Requests : rulings[q] \subseteq rulings'[q]
    BY <1>0, <1>5 DEF Rule, TypeOK
  <2>3. j.target \in rulings'[r]
    BY <1>0, <1>5, <2>1 DEF Rule, TypeOK
  <2>4. Grounded(job'[w], integrity', stageA', posterior', rulings')
    <3>1. job'[w] = kept
      BY <1>5, <1>d DEF Rule
    <3> QED BY <1>e, <2>1, <2>3, <3>1 DEF Grounded, Rulings, Intermediate
  <2>5. Grounds'
    BY <1>5, <1>a, <2>2, <2>4, GroundsStay DEF Rule
  <2>6. RowsAgree'
    BY <1>5, <2>2 DEF Rule, RowsAgree
  <2>7. TicketsAgree'
    BY <1>5 DEF Rule, TicketsAgree
  <2> QED BY <2>5, <2>6, <2>7
<1>6. CASE SetState(w)
  <2>1. r \in Requests /\ j.step = "setState"
    BY <1>0, <1>6 DEF SetState, At, Carries
  <2>2. /\ caseState'[r] = j.target
        /\ \A q \in Requests \ {r} : caseState'[q] = caseState[q]
    BY <1>0, <1>6, <2>1 DEF SetState, TypeOK
  <2>3. RowsAgree'
    BY <1>0, <1>6, <2>1, <2>2 DEF SetState, RowsAgree, Grounded, recordVars
  <2> DEFINE k == [j EXCEPT !.step = "audit"]
  <2>4. job'[w] = k
    BY <1>0, <1>6 DEF SetState, Goto, TypeOK
  <2>5. k.step = "audit" /\ k.request = r /\ k.ticket = j.ticket /\ k.target = j.target
    BY <1>0 DEF Jobs
  <2> HIDE DEF k
  <2>6. Grounded(job'[w], integrity', stageA', posterior', rulings')
    BY <1>0, <1>6, <2>1, <2>4, <2>5 DEF SetState, Grounded, recordVars
  <2>7. Grounds'
    BY <1>6, <1>a, <2>6, GroundsStay DEF SetState, recordVars
  <2> QED BY <1>6, <2>3, <2>7 DEF SetState, TicketsAgree, recordVars
<1>7. CASE Audit(w)
  <2>1. r \in Requests /\ j.step = "audit"
    BY <1>0, <1>7 DEF Audit, At, Carries
  <2>2. \A t \in Tickets : /\ verification'[t].request = verification[t].request
                           /\ verification'[t].status = verification[t].status
    BY <1>0, <1>7 DEF Audit, TypeOK
  <2>3. Grounded(job'[w], integrity', stageA', posterior', rulings')
    <3>1. CASE Return(w)
      BY <1>b, <1>c, <3>1
    <3>2. ASSUME j.target \in Intermediate, NEW a \in PosteriorActions(j.target),
                 job' = [job EXCEPT ![w].step = "decide", ![w].seen = j.target, ![w].target = a]
          PROVE  Grounded(job'[w], integrity', stageA', posterior', rulings')
      <4> DEFINE k == [j EXCEPT !.step = "decide", !.seen = j.target, !.target = a]
      <4>1. job'[w] = k
        BY <1>0, <3>2 DEF TypeOK
      <4>2. k.step = "decide" /\ k.request = r /\ k.ticket = j.ticket
        BY <1>0 DEF Jobs
      <4> HIDE DEF k
      <4>3. j.ticket # NoTicket /\ stageA[r] = "VERIFY"
        BY <1>0, <2>1, <3>2 DEF Grounded
      <4> QED BY <1>7, <4>1, <4>2, <4>3 DEF Audit, Grounded
    <3> QED BY <1>7, <3>1, <3>2 DEF Audit
  <2>4. Grounds'
    BY <1>7, <1>a, <2>3, GroundsStay DEF Audit
  <2>5. RowsAgree'
    BY <1>7 DEF Audit, RowsAgree
  <2>6. TicketsAgree'
    BY <1>7, <2>2 DEF Audit, TicketsAgree
  <2> QED BY <2>4, <2>5, <2>6
<1> QED BY <1>1, <1>2, <1>3, <1>4, <1>5, <1>6, <1>7 DEF Continue

LEMMA StepApproval == ApprovalInv /\ [Next]_vars => ApprovalInv'
<1> SUFFICES ASSUME ApprovalInv, [Next]_vars PROVE ApprovalInv'
  OBVIOUS
<1>1. TypeInv'
  BY StepTyped DEF ApprovalInv
<1>2. CASE UNCHANGED vars
  BY <1>1, <1>2 DEF ApprovalInv, RowsAgree, TicketsAgree, Grounds, Grounded, vars, recordVars
<1>3. ASSUME NEW w \in Workers, Restart(w) PROVE ApprovalInv'
  BY <1>1, <1>3 DEF ApprovalInv, TypeInv, TypeOK, RowsAgree, TicketsAgree, Grounds, Grounded, Restart, Return,
                    Idle, recordVars
<1> QED BY <1>1, <1>2, <1>3, BeginApproval, ContinueApproval DEF ApprovalInv, Next

\* Whatever processes and restarts, an approval has its decision on record.
THEOREM ApprovalGrounds == Spec => []ApprovalHasGrounds
<1>1. ApprovalInv => ApprovalHasGrounds
  BY DEF ApprovalInv, RowsAgree, ApprovalHasGrounds, Approved
<1> QED BY <1>1, InitApproval, StepApproval, PTL DEF Spec

-----------------------------------------------------------------------------
(* One process: what a handler read is still so when it writes.             *)

OneProcess == \A u, v \in Workers : u = v

\* The posterior actions a completed verification leaves open.
Deserved(row) == PosteriorActions(IntermediateOf(row.result))

\* What a handler on its way knows of the case and of its ticket.
InStep(j, states, rows) ==
    /\ j.step = "open" => states[j.request] = "VERIFY"
    /\ j.step = "audit" => states[j.request] = j.target
    /\ j.ticket # NoTicket => j.ticket \in Tickets /\ rows[j.ticket].request = j.request
    /\ j.step = "close" => rows[j.ticket].status = "ACTIVE" /\ rows[j.ticket].known
    /\ j.step = "setState" /\ j.target = "VERIFY" => \A t \in Tickets : rows[t].request # j.request
    /\ j.step \in {"setState", "audit"} /\ j.target \in Intermediate =>
           rows[j.ticket].status = "COMPLETE" /\ IntermediateOf(rows[j.ticket].result) = j.target
    /\ j.step = "decide" /\ j.ticket # NoTicket =>
           rows[j.ticket].status = "COMPLETE" /\ j.target \in Deserved(rows[j.ticket])

\* A ticket can be completed once its case is past VERIFY, and the posterior
\* decision is one its result leaves open.
RowInStep(row, states, second) ==
    /\ row.status = "none" => ~row.known
    /\ row.request # NoRequest /\ states[row.request] = "VERIFY" => row.status = "ACTIVE" /\ ~row.known
    /\ row.request # NoRequest /\ second[row.request] # "none" =>
           row.status = "COMPLETE" /\ second[row.request] \in Deserved(row)

AllInStep ==
    /\ \A w \in Workers : InStep(job[w], caseState, verification)
    /\ \A t \in Tickets : RowInStep(verification[t], caseState, posterior)
    /\ \A r \in Requests : posterior[r] # "none" => TicketsOf(r) # {}

SoloInv == ApprovalInv /\ AllInStep /\ AtMostOneVerifier

LEMMA InitSolo == Init => AllInStep /\ AtMostOneVerifier
BY NothingAssumption
   DEF Init, AllInStep, InStep, RowInStep, AtMostOneVerifier, TicketsOf, Idle, NoTicketRow

LEMMA IdleInStep == \A states, rows : InStep(Idle, states, rows)
BY DEF InStep, Idle

\* Where no ticket and no posterior decision is written, all that remains to be
\* shown is the handler's new place, and no new case to verify.
LEMMA SameTickets ==
    ASSUME OneProcess, SoloInv, NEW w \in Workers,
           InStep(job'[w], caseState', verification'),
           UNCHANGED <<verification, posterior>>,
           \A r \in Requests : caseState'[r] = "VERIFY" /\ caseState[r] # "VERIFY" =>
              \A t \in Tickets : verification[t].request # r
    PROVE  AllInStep' /\ AtMostOneVerifier'
<1>1. \A v \in Workers : InStep(job'[v], caseState', verification')
  BY DEF OneProcess
<1>2. ASSUME NEW t \in Tickets PROVE RowInStep(verification[t], caseState', posterior)
  <2>1. verification[t].request \in Requests \cup {NoRequest}
    BY DEF SoloInv, ApprovalInv, TypeInv, TypeOK
  <2>2. RowInStep(verification[t], caseState, posterior)
    BY DEF SoloInv, AllInStep
  <2> QED BY <2>1, <2>2 DEF RowInStep
<1> QED BY <1>1, <1>2 DEF AllInStep, SoloInv, AtMostOneVerifier, TicketsOf

LEMMA BeginSolo ==
    ASSUME OneProcess, SoloInv, NEW w \in Workers,
           \/ \E r \in Requests :
                Register(w, r) \/ \E eligible \in BOOLEAN : ScoreBegin(w, r, eligible)
           \/ Review(w)
    PROVE  AllInStep' /\ AtMostOneVerifier'
<1>0. TypeOK /\ NoTicket \notin Tickets
  BY NothingAssumption DEF SoloInv, ApprovalInv, TypeInv
<1> DEFINE Begun(s, r, t, target) == [step |-> s, request |-> r, ticket |-> t,
                                      seen |-> caseState[r], target |-> target]
<1>1. ASSUME NEW s \in {"integrity", "open", "rule", "audit"}, NEW r \in Requests, NEW target,
             Start(w, s, r, NoTicket, target),
             s = "open" => caseState'[r] = "VERIFY",
             s = "audit" => caseState'[r] = target /\ target \notin Intermediate,
             UNCHANGED <<verification, posterior>>,
             \A q \in Requests : caseState'[q] = "VERIFY" => caseState[q] = "VERIFY"
      PROVE  AllInStep' /\ AtMostOneVerifier'
  <2>1. job'[w] = Begun(s, r, NoTicket, target)
    BY <1>0, <1>1 DEF Start, TypeOK
  <2>2. InStep(job'[w], caseState', verification')
    BY <1>1, <2>1 DEF InStep
  <2> QED BY <1>1, <2>2, SameTickets
<1>2. ASSUME NEW r \in Requests, Register(w, r) PROVE AllInStep' /\ AtMostOneVerifier'
  <2>1. /\ caseState'[r] = "RECEIVED"
        /\ \A q \in Requests : caseState'[q] = "VERIFY" => caseState[q] = "VERIFY"
    BY <1>0, <1>2 DEF Register, TypeOK
  <2> QED BY <1>1, <1>2, <2>1 DEF Register, recordVars, Intermediate
<1>3. ASSUME NEW r \in Requests, NEW eligible \in BOOLEAN, ScoreBegin(w, r, eligible)
      PROVE  AllInStep' /\ AtMostOneVerifier'
  BY <1>1, <1>3 DEF ScoreBegin, recordVars
<1>4. ASSUME NEW r \in Requests, VerifyBegin(w, r) PROVE AllInStep' /\ AtMostOneVerifier'
  BY <1>1, <1>4 DEF VerifyBegin, recordVars
<1>5. ASSUME NEW r \in Requests, NEW ruling \in Rulings, RuleBegin(w, r, ruling)
      PROVE  AllInStep' /\ AtMostOneVerifier'
  BY <1>1, <1>5 DEF RuleBegin, recordVars
<1>6. ASSUME NEW t \in Tickets, NEW result \in Results, CompleteBegin(w, t, result)
      PROVE  AllInStep' /\ AtMostOneVerifier'
  <2>1. job'[w] = Begun("close", verification[t].request, t, IntermediateOf(result))
    BY <1>0, <1>6 DEF CompleteBegin, Start, TypeOK
  <2>2. UNCHANGED <<caseState, verification, posterior>>
    BY <1>6 DEF CompleteBegin, recordVars
  <2>3. InStep(job'[w], caseState', verification')
    BY <1>6, <2>1, <2>2 DEF CompleteBegin, InStep
  <2> QED BY <2>2, <2>3, SameTickets
<1> QED BY <1>2, <1>3, <1>4, <1>5, <1>6 DEF Review

LEMMA ContinueSolo ==
    ASSUME OneProcess, SoloInv, NEW w \in Workers, Continue(w)
    PROVE  AllInStep' /\ AtMostOneVerifier'
<1> DEFINE j == job[w]
           r == j.request
           kept == [j EXCEPT !.step = "setState"]
<1>0. /\ j \in Jobs /\ Carries(j) /\ Grounded(j, integrity, stageA, posterior, rulings)
      /\ InStep(j, caseState, verification)
      /\ TypeOK /\ TicketsAgree /\ RowsAgree /\ AllInStep /\ TicketsAreCases /\ AtMostOneVerifier
  BY DEF SoloInv, ApprovalInv, TypeInv, Loaded, Grounds, AllInStep, TypeOK
<1>c. Return(w) => job'[w] = Idle
  BY <1>0 DEF Return, TypeOK
<1>d. Goto(w, "setState") => job'[w] = kept
  BY <1>0 DEF Goto, TypeOK
<1>e. /\ kept.step = "setState" /\ kept.request = r /\ kept.ticket = j.ticket
      /\ kept.target = j.target
  BY <1>0 DEF Jobs
<1>f. \A t \in Tickets : verification[t] \in VerificationRows
  BY <1>0 DEF TypeOK, VerificationRows
<1>g. \A v \in Workers : v = w
  BY DEF OneProcess
<1> HIDE DEF kept
<1>1. CASE RecordIntegrity(w)
  <2>1. j.ticket = NoTicket
    BY <1>0, <1>1 DEF RecordIntegrity, At, Carries
  <2>2. InStep(job'[w], caseState', verification')
    <3>1. CASE Return(w)
      BY <1>c, <3>1, IdleInStep
    <3>2. ASSUME NEW s \in {"setState", "decide"}, NEW a,
                 s = "setState" => a \in {"MANUAL_REVIEW", "FAILED_SAFE"}, Aim(w, s, a)
          PROVE  InStep(job'[w], caseState', verification')
      <4> DEFINE k == [j EXCEPT !.step = s, !.target = a]
      <4>1. job'[w] = k
        BY <1>0, <3>2 DEF Aim, TypeOK
      <4>2. k.step = s /\ k.target = a /\ k.ticket = NoTicket
        BY <1>0, <2>1 DEF Jobs
      <4> HIDE DEF k
      <4> QED BY <3>2, <4>1, <4>2 DEF InStep, Intermediate
    <3> QED BY <1>1, <3>1, <3>2 DEF RecordIntegrity
  <2> QED BY <1>1, <2>2, SameTickets DEF RecordIntegrity
<1>2. CASE Decide(w)
  <2>0. r \in Requests /\ j.target \in Actions /\ UNCHANGED <<verification, caseState>>
    BY <1>0, <1>2 DEF Decide, At, Carries
  <2>1. CASE j.ticket = NoTicket
    <3>1. UNCHANGED posterior
      BY <1>2, <2>1 DEF Decide
    <3>2. Return(w) \/ (Goto(w, "setState") /\ stageA[r] = "none")
      BY <1>2, <2>1 DEF Decide
    <3>3. stageA[r] = "none" => \A t \in Tickets : verification[t].request # r
      BY <1>0, <2>0, NothingAssumption DEF TicketsAgree
    <3>4. InStep(kept, caseState, verification) \/ Return(w)
      BY <1>e, <2>0, <2>1, <3>2, <3>3 DEF InStep, Intermediate, Actions
    <3>5. InStep(job'[w], caseState', verification')
      BY <1>c, <1>d, <2>0, <3>2, <3>4, IdleInStep
    <3> QED BY <2>0, <3>1, <3>5, SameTickets
  <2>2. CASE j.ticket # NoTicket
    <3> DEFINE t0 == j.ticket
    <3>1. /\ t0 \in Tickets /\ verification[t0].request = r /\ verification[t0].status = "COMPLETE"
          /\ j.target \in Deserved(verification[t0]) /\ j.target # "VERIFY"
      BY <1>0, <1>2, <2>2 DEF Decide, At, InStep, Carries
    <3>2. /\ job'[w] \in {kept, Idle}
          /\ \A q \in Requests \ {r} : posterior'[q] = posterior[q]
          /\ posterior'[r] \in {posterior[r], j.target}
          /\ posterior'[r] # posterior[r] => posterior'[r] = j.target
      BY <1>0, <1>2, <1>c, <1>d, <2>0, <2>2 DEF Decide, TypeOK
    <3>3. InStep(kept, caseState, verification)
      BY <1>e, <2>0, <3>1 DEF InStep, Intermediate, Actions
    <3>4. \A v \in Workers : InStep(job'[v], caseState', verification')
      BY <1>g, <2>0, <3>2, <3>3, IdleInStep
    <3>5. ASSUME NEW t \in Tickets PROVE RowInStep(verification[t], caseState, posterior')
      <4>1. RowInStep(verification[t], caseState, posterior)
        BY <1>0 DEF AllInStep
      <4>2. CASE verification[t].request = r
        <5>1. t = t0
          BY <1>0, <2>0, <3>1, <4>2 DEF AtMostOneVerifier, TicketsOf
        <5> QED BY <3>1, <3>2, <4>1, <5>1 DEF RowInStep
      <4>3. CASE verification[t].request # r
        <5>1. verification[t].request \in Requests \cup {NoRequest}
          BY <1>f DEF VerificationRows
        <5> QED BY <3>2, <4>1, <4>3, <5>1 DEF RowInStep
      <4> QED BY <4>2, <4>3
    <3>6. \A q \in Requests : posterior'[q] # "none" => TicketsOf(q)' # {}
      BY <1>0, <2>0, <3>1, <3>2 DEF AllInStep, TicketsOf
    <3>7. AtMostOneVerifier'
      BY <1>0, <2>0 DEF AtMostOneVerifier, TicketsOf
    <3> QED BY <2>0, <3>4, <3>5, <3>6, <3>7 DEF AllInStep
  <2> QED BY <2>1, <2>2
<1>3. CASE Open(w)
  <2>1. r \in Requests /\ j.target = "VERIFYING" /\ caseState[r] = "VERIFY"
    BY <1>0, <1>3 DEF Open, At, Carries, InStep
  <2>2. CASE Return(w) /\ verification' = verification
    BY <1>3, <1>c, <2>2, IdleInStep, SameTickets DEF Open
  <2>3. ASSUME ActiveFor(r) = {}, NEW t \in Tickets, verification[t].status = "none",
               verification' = [verification EXCEPT ![t].request = r, ![t].status = "ACTIVE"],
               job' = [job EXCEPT ![w].step = "setState", ![w].ticket = t]
        PROVE  AllInStep' /\ AtMostOneVerifier'
    <3>0. UNCHANGED <<caseState, posterior>>
      BY <1>3 DEF Open
    <3>1. \A u \in Tickets : verification[u].request # r
      <4> SUFFICES ASSUME NEW u \in Tickets, verification[u].request = r PROVE FALSE
        OBVIOUS
      <4>1. RowInStep(verification[u], caseState, posterior)
        BY <1>0 DEF AllInStep
      <4>2. verification[u].status = "ACTIVE"
        BY <2>1, <4>1, NothingAssumption DEF RowInStep
      <4> QED BY <2>3, <4>2 DEF ActiveFor, TicketsOf
    <3>2. posterior[r] = "none"
      BY <1>0, <2>1, <3>1 DEF AllInStep, TicketsOf
    <3> DEFINE k == [j EXCEPT !.step = "setState", !.ticket = t]
               row == [verification[t] EXCEPT !.request = r, !.status = "ACTIVE"]
    <3>3. job'[w] = k
      BY <1>0, <2>3 DEF TypeOK
    <3>4. k.step = "setState" /\ k.target = "VERIFYING" /\ k.ticket = t /\ k.request = r
      BY <1>0, <2>1 DEF Jobs
    <3>5. row.request = r /\ row.status = "ACTIVE" /\ row.known = verification[t].known
      BY <1>f DEF VerificationRows
    <3>6. verification'[t] = row /\ \A u \in Tickets \ {t} : verification'[u] = verification[u]
      BY <1>0, <2>3 DEF TypeOK
    <3> HIDE DEF k, row
    <3>7. InStep(job'[w], caseState', verification')
      BY <2>3, <3>3, <3>4, <3>5, <3>6 DEF InStep, Intermediate
    <3>8. RowInStep(row, caseState', posterior')
      <4>1. ~verification[t].known
        BY <1>0, <2>3 DEF AllInStep, RowInStep
      <4> QED BY <3>0, <3>2, <3>5, <4>1 DEF RowInStep
    <3>9. \A u \in Tickets : RowInStep(verification'[u], caseState', posterior')
      BY <1>0, <3>0, <3>6, <3>8 DEF AllInStep
    <3>10. \A q \in Requests : posterior'[q] # "none" => TicketsOf(q)' # {}
      <4> SUFFICES ASSUME NEW q \in Requests, posterior[q] # "none" PROVE TicketsOf(q)' # {}
        BY <3>0
      <4>1. PICK u \in Tickets : verification[u].request = q
        BY <1>0 DEF AllInStep, TicketsOf
      <4>2. u # t
        BY <1>0, <2>3, <4>1, NothingAssumption DEF TicketsAgree
      <4> QED BY <3>6, <4>1, <4>2 DEF TicketsOf
    <3>11. AtMostOneVerifier'
      <4> SUFFICES ASSUME NEW q \in Requests, NEW u \in Tickets, NEW v \in Tickets,
                          verification'[u].request = q, verification'[v].request = q
                   PROVE  u = v
        BY DEF AtMostOneVerifier, TicketsOf
      <4> QED BY <1>0, <3>1, <3>5, <3>6 DEF AtMostOneVerifier, TicketsOf
    <3> QED BY <1>g, <3>7, <3>9, <3>10, <3>11 DEF AllInStep
  <2> QED BY <1>3, <2>2, <2>3 DEF Open
<1>4. CASE Close(w)
  <2> DEFINE t == j.ticket
             x == CHOOSE y \in Results : IntermediateOf(y) = job[w].target
             row == [verification[t] EXCEPT !.status = "COMPLETE", !.result = x]
  <2>0. UNCHANGED <<caseState, posterior>>
    BY <1>4 DEF Close
  <2>1. /\ t \in Tickets /\ t # NoTicket /\ j.target \in Intermediate
        /\ verification[t].request = r /\ verification[t].status = "ACTIVE" /\ verification[t].known
    BY <1>0, <1>4, NothingAssumption DEF Close, At, Carries, InStep
  <2>2. IntermediateOf(x) = j.target
    <3>1. \E y \in Results : IntermediateOf(y) = job[w].target
      BY <2>1 DEF Intermediate, IntermediateOf, Results
    <3> QED BY <3>1
  <2>3. verification' = [verification EXCEPT ![t].status = "COMPLETE", ![t].result = x]
    BY <1>4, <2>1 DEF Close
  <2> HIDE DEF x
  <2>4. verification'[t] = row /\ \A u \in Tickets \ {t} : verification'[u] = verification[u]
    BY <1>0, <2>1, <2>3 DEF TypeOK
  <2>5. row.request = r /\ row.status = "COMPLETE" /\ row.result = x
    BY <1>f, <2>1 DEF VerificationRows
  <2> HIDE DEF row
  <2>6. InStep(kept, caseState', verification')
    BY <1>e, <2>1, <2>2, <2>4, <2>5 DEF InStep, Intermediate
  <2>7. \A v \in Workers : InStep(job'[v], caseState', verification')
    BY <1>4, <1>c, <1>d, <1>g, <2>6, IdleInStep DEF Close
  <2>8. RowInStep(row, caseState', posterior')
    <3>1. RowInStep(verification[t], caseState, posterior)
      BY <1>0, <2>1 DEF AllInStep
    <3> QED BY <2>0, <2>1, <2>5, <3>1 DEF RowInStep
  <2>9. \A u \in Tickets : RowInStep(verification'[u], caseState', posterior')
    BY <1>0, <2>0, <2>4, <2>8 DEF AllInStep
  <2>10. \A u \in Tickets : verification'[u].request = verification[u].request
    BY <2>1, <2>4, <2>5
  <2> QED BY <1>0, <2>0, <2>7, <2>9, <2>10 DEF AllInStep, AtMostOneVerifier, TicketsOf
<1>5. CASE Rule(w)
  <2>1. InStep(job'[w], caseState', verification')
    <3>1. j.target \in Rulings /\ j.ticket = NoTicket
      BY <1>0, <1>5 DEF Rule, At, Carries
    <3>2. job'[w] = kept
      BY <1>5, <1>d DEF Rule
    <3> QED BY <1>e, <3>1, <3>2 DEF InStep, Rulings, Intermediate
  <2> QED BY <1>5, <2>1, SameTickets DEF Rule
<1>6. CASE SetState(w)
  <2> DEFINE k == [j EXCEPT !.step = "audit"]
  <2>1. r \in Requests /\ j.step = "setState"
    BY <1>0, <1>6 DEF SetState, At, Carries
  <2>2. /\ caseState'[r] = j.target
        /\ \A q \in Requests \ {r} : caseState'[q] = caseState[q]
        /\ UNCHANGED <<verification, posterior>>
    BY <1>0, <1>6, <2>1 DEF SetState, TypeOK, recordVars
  <2>3. job'[w] = k
    BY <1>0, <1>6 DEF SetState, Goto, TypeOK
  <2>4. k.step = "audit" /\ k.request = r /\ k.ticket = j.ticket /\ k.target = j.target
    BY <1>0 DEF Jobs
  <2> HIDE DEF k
  <2>5. InStep(job'[w], caseState', verification')
    BY <1>0, <2>1, <2>2, <2>3, <2>4 DEF InStep
  <2>6. \A q \in Requests : caseState'[q] = "VERIFY" /\ caseState[q] # "VERIFY" =>
            \A t \in Tickets : verification[t].request # q
    BY <1>0, <2>1, <2>2 DEF InStep
  <2> QED BY <2>2, <2>5, <2>6, SameTickets
<1>7. CASE Audit(w)
  <2>0. UNCHANGED <<caseState, posterior>> /\ j.step = "audit" /\ r \in Requests
    BY <1>0, <1>7 DEF Audit, At, Carries
  <2>1. CASE j.target = "VERIFYING"
    <3> DEFINE t == j.ticket
               row == [verification[t] EXCEPT !.known = TRUE]
    <3>1. t \in Tickets /\ verification[t].request = r /\ caseState[r] = "VERIFYING"
      BY <1>0, <2>0, <2>1, NothingAssumption DEF Carries, InStep
    <3>2. job'[w] = Idle
      BY <1>7, <1>c, <2>1 DEF Audit, Intermediate
    <3>3. verification' = [verification EXCEPT ![t].known = TRUE]
      BY <1>7, <2>1 DEF Audit
    <3>4. verification'[t] = row /\ \A u \in Tickets \ {t} : verification'[u] = verification[u]
      BY <1>0, <3>1, <3>3 DEF TypeOK
    <3>5. row.request = r /\ row.status = verification[t].status /\ row.result = verification[t].result
      BY <1>f, <3>1 DEF VerificationRows
    <3> HIDE DEF row
    <3>6. RowInStep(row, caseState', posterior')
      <4>1. RowInStep(verification[t], caseState, posterior)
        BY <1>0, <3>1 DEF AllInStep
      <4>2. verification[t].status # "none"
        BY <1>0, <2>0, <3>1, NothingAssumption DEF TicketsAgree
      <4> QED BY <2>0, <3>1, <3>5, <4>1, <4>2 DEF RowInStep, Deserved
    <3>7. \A u \in Tickets : RowInStep(verification'[u], caseState', posterior')
      BY <1>0, <2>0, <3>4, <3>6 DEF AllInStep
    <3>8. \A u \in Tickets : verification'[u].request = verification[u].request
      BY <3>1, <3>4, <3>5
    <3>9. \A v \in Workers : InStep(job'[v], caseState', verification')
      BY <1>g, <3>2, IdleInStep
    <3> QED BY <1>0, <2>0, <3>7, <3>8, <3>9 DEF AllInStep, AtMostOneVerifier, TicketsOf
  <2>2. CASE j.target # "VERIFYING"
    <3>1. UNCHANGED verification
      BY <1>7, <2>2 DEF Audit
    <3>2. InStep(job'[w], caseState', verification')
      <4>1. CASE Return(w)
        BY <1>c, <4>1, IdleInStep
      <4>2. ASSUME j.target \in Intermediate, NEW a \in PosteriorActions(j.target),
                   job' = [job EXCEPT ![w].step = "decide", ![w].seen = j.target, ![w].target = a]
            PROVE  InStep(job'[w], caseState', verification')
        <5> DEFINE k == [j EXCEPT !.step = "decide", !.seen = j.target, !.target = a]
        <5>1. job'[w] = k
          BY <1>0, <4>2 DEF TypeOK
        <5>2. k.step = "decide" /\ k.request = r /\ k.ticket = j.ticket /\ k.target = a
          BY <1>0 DEF Jobs
        <5> HIDE DEF k
        <5>3. /\ verification[j.ticket].status = "COMPLETE"
              /\ IntermediateOf(verification[j.ticket].result) = j.target
              /\ j.ticket # NoTicket => j.ticket \in Tickets /\ verification[j.ticket].request = r
          BY <1>0, <2>0, <4>2 DEF InStep
        <5>4. a \in Deserved(verification[j.ticket])
          BY <4>2, <5>3 DEF Deserved
        <5> QED BY <3>1, <5>1, <5>2, <5>3, <5>4 DEF InStep
      <4> QED BY <1>7, <4>1, <4>2 DEF Audit
    <3> QED BY <2>0, <3>1, <3>2, SameTickets
  <2> QED BY <2>1, <2>2
<1> QED BY <1>1, <1>2, <1>3, <1>4, <1>5, <1>6, <1>7 DEF Continue

LEMMA StepSolo == OneProcess /\ SoloInv /\ [Next]_vars => SoloInv'
<1> SUFFICES ASSUME OneProcess, SoloInv, [Next]_vars PROVE AllInStep' /\ AtMostOneVerifier'
  BY StepApproval DEF SoloInv
<1>1. CASE UNCHANGED vars
  BY <1>1 DEF SoloInv, AllInStep, AtMostOneVerifier, TicketsOf, vars, recordVars
<1>2. ASSUME NEW w \in Workers, Restart(w) PROVE AllInStep' /\ AtMostOneVerifier'
  <2>1. job'[w] = Idle /\ UNCHANGED <<caseState, verification, posterior>>
    BY <1>2 DEF Restart, Return, recordVars, SoloInv, ApprovalInv, TypeInv, TypeOK
  <2> QED BY <2>1, IdleInStep, SameTickets
<1> QED BY <1>1, <1>2, BeginSolo, ContinueSolo DEF Next

LEMMA SoloInvariance == OneProcess /\ Spec => []SoloInv
<1>1. Init => SoloInv
  BY InitApproval, InitSolo DEF SoloInv
<1>2. OneProcess => []OneProcess
  <2>1. OneProcess => OneProcess'
    BY DEF OneProcess
  <2> QED BY <2>1, PTL
<1> QED BY <1>1, <1>2, StepSolo, PTL DEF Spec

\* In the deployed service a case is verified at most once, however often a
\* handler was cut short and whatever was asked again afterwards.
THEOREM OneVerifier == OneProcess /\ Spec => []AtMostOneVerifier
<1>1. SoloInv => AtMostOneVerifier
  BY DEF SoloInv
<1> QED BY <1>1, SoloInvariance, PTL

\* In the deployed service no adverse case is approved without an operator's
\* approval on record, wherever a handler was cut short.
THEOREM HumanForAdverse == OneProcess /\ Spec => []AdverseNeedsHuman
<1>1. SoloInv => AdverseNeedsHuman
  <2> SUFFICES ASSUME SoloInv, NEW r \in Requests, caseState[r] \in Approved,
                      \/ integrity[r] = "ineligible"
                      \/ stageA[r] = "MANUAL_REVIEW"
                      \/ \E t \in TicketsOf(r) : verification[t].result = "inconsistent",
                      "APPROVED" \notin rulings[r]
               PROVE  FALSE
    BY DEF AdverseNeedsHuman
  <2>1. /\ "AUTO_APPROVE" \in {stageA[r], posterior[r]}
        /\ integrity[r] = "eligible" /\ stageA[r] # "MANUAL_REVIEW"
    BY DEF SoloInv, ApprovalInv, RowsAgree, Approved
  <2>2. PICK t \in Tickets : verification[t].request = r /\ verification[t].result = "inconsistent"
    BY <2>1 DEF TicketsOf
  <2>3. stageA[r] = "VERIFY"
    BY <2>2, NothingAssumption DEF SoloInv, ApprovalInv, TicketsAgree
  <2>4. posterior[r] = "AUTO_APPROVE"
    BY <2>1, <2>3
  <2>5. posterior[r] \in Deserved(verification[t])
    <3>1. RowInStep(verification[t], caseState, posterior)
      BY DEF SoloInv, AllInStep
    <3> QED BY <2>2, <2>4, <3>1, NothingAssumption DEF RowInStep
  <2> QED BY <2>2, <2>4, <2>5 DEF Deserved, PosteriorActions, IntermediateOf
<1> QED BY <1>1, SoloInvariance, PTL

-----------------------------------------------------------------------------
(* One process, and nothing cut short: where a case is at each step of the  *)
(* handler that works on it, and what its records say when none does.       *)

\* The records of a case account for state s.
Explained(r, s) ==
    /\ s \in {"ABSENT", "RECEIVED"} => integrity[r] = "none" /\ stageA[r] = "none"
    /\ s \in {"VERIFY", "VERIFYING"} \cup Intermediate =>
         stageA[r] = "VERIFY" /\ posterior[r] = "none" /\ rulings[r] = {}
    /\ s = "VERIFY" => \A t \in Tickets : verification[t].request # r
    /\ s = "VERIFYING" =>
         \E t \in Tickets : verification[t].request = r /\ verification[t].status = "ACTIVE"
    /\ stageA[r] = "VERIFY" /\ posterior[r] = "none" => rulings[r] = {}
    /\ rulings[r] # {} => rulings[r] = {s}
    /\ rulings[r] = {} /\ posterior[r] # "none" => s = posterior[r]
    /\ rulings[r] = {} /\ posterior[r] = "none" /\ stageA[r] # "none" =>
         s \in {stageA[r], "VERIFYING"} \cup Intermediate
    /\ rulings[r] = {} /\ posterior[r] = "none" /\ stageA[r] = "none" =>
         s \in {"ABSENT", "RECEIVED", "MANUAL_REVIEW", "FAILED_SAFE"}

Rested(r) ==
    /\ Explained(r, caseState[r])
    /\ audit[r].after = caseState[r]
    /\ caseState[r] \notin Intermediate
    /\ caseState[r] = "VERIFYING" =>
         \E t \in Tickets : /\ verification[t].request = r
                            /\ verification[t].status = "ACTIVE" /\ verification[t].known

\* The case of handler j, by the step it is about to take.
Placed(j) ==
    LET r == j.request IN
    /\ j.seen = audit[r].after
    /\ j.step = "integrity" => caseState[r] = "RECEIVED" /\ Explained(r, "RECEIVED")
    /\ j.step = "decide" =>
         /\ \A w \in Workers : healthy[w]
         /\ j.ticket = NoTicket => stageA[r] = "none" /\ rulings[r] = {}
         /\ j.ticket # NoTicket => stageA[r] = "VERIFY" /\ posterior[r] = "none" /\ rulings[r] = {}
    /\ j.step = "open" => Explained(r, "VERIFY")
    /\ j.step = "close" => Explained(r, "VERIFYING")
    /\ j.step = "rule" => Explained(r, "MANUAL_REVIEW")
    /\ j.step \in {"setState", "audit"} =>
         /\ Explained(r, j.target)
         /\ j.target = "VERIFYING" => verification[j.ticket].status = "ACTIVE"

Trail ==
    crashes = 0 =>
        /\ \A r \in Requests : AtRest(r) => Rested(r)
        /\ \A w \in Workers : job[w].step # "idle" => Placed(job[w])
        /\ \A w \in Workers : job[w].step = "idle" => job[w].request = NoRequest
        /\ \A r \in Requests, w \in Workers : stageA[r] # "none" => healthy[w]

LEMMA InitTrail == Init => Trail
BY IdleTyped, NothingAssumption
   DEF Init, Trail, Rested, Explained, Intermediate, NoTicketRow

\* Only the case at hand and its tickets change.
Touches(r) ==
    /\ \A q \in Requests \ {r} :
         /\ caseState'[q] = caseState[q] /\ integrity'[q] = integrity[q]
         /\ stageA'[q] = stageA[q] /\ posterior'[q] = posterior[q]
         /\ rulings'[q] = rulings[q] /\ audit'[q] = audit[q]
    /\ \A t \in Tickets : \/ verification'[t] = verification[t]
                          \/ /\ verification[t].request \in {r, NoRequest}
                             /\ verification'[t].request = r

\* What is left to show of a step is the case it works on.
LEMMA TrailFollows ==
    ASSUME OneProcess, Trail, NEW w \in Workers, NEW r \in Requests, Touches(r),
           UNCHANGED <<healthy, crashes>>, crashes = 0,
           job[w].request \in {r, NoRequest},
           stageA'[r] # "none" /\ stageA[r] = "none" => healthy[w],
           \/ job'[w].step = "idle" /\ job'[w].request = NoRequest /\ Rested(r)'
           \/ job'[w].step # "idle" /\ job'[w].request = r /\ Placed(job[w])'
    PROVE  Trail'
<1>1. \A v \in Workers : v = w
  BY DEF OneProcess
<1>2. ASSUME NEW q \in Requests \ {r}
      PROVE  Rested(q)'
  <2>1. Rested(q)
    BY <1>1, NothingAssumption DEF Trail, AtRest
  <2>2. \A t \in Tickets : verification'[t].request = q \/ verification[t].request = q
                             => verification'[t] = verification[t]
    BY NothingAssumption DEF Touches
  <2> QED BY <2>1, <2>2 DEF Touches, Rested, Explained
<1>3. \A q \in Requests : AtRest(q)' => Rested(q)'
  BY <1>1, <1>2 DEF AtRest
<1>4. \A v \in Workers : job'[v].step # "idle" => Placed(job[v])'
  BY <1>1
<1>5. \A v \in Workers : job'[v].step = "idle" => job'[v].request = NoRequest
  BY <1>1
<1>6. \A q \in Requests, v \in Workers : stageA'[q] # "none" => healthy'[v]
  BY <1>1 DEF Trail, Touches
<1> QED BY <1>3, <1>4, <1>5, <1>6 DEF Trail

TrailInv == SoloInv /\ Trail

\* An idle process leaves every case at rest.
LEMMA AllAtRest ==
    ASSUME OneProcess, TrailInv, crashes = 0, NEW w \in Workers, job[w].step = "idle",
           NEW r \in Requests
    PROVE  Rested(r) /\ job[w].request = NoRequest
BY NothingAssumption DEF OneProcess, TrailInv, Trail, AtRest

LEMMA BeginTrail ==
    ASSUME OneProcess, TrailInv, NEW w \in Workers,
           \/ \E r \in Requests :
                Register(w, r) \/ \E eligible \in BOOLEAN : ScoreBegin(w, r, eligible)
           \/ Review(w)
    PROVE  Trail'
<1>0. TypeOK /\ RowsAgree /\ TicketsAgree /\ NoRequest \notin Requests /\ NoTicket \notin Tickets
  BY NothingAssumption DEF TrailInv, SoloInv, ApprovalInv, TypeInv
<1> SUFFICES ASSUME crashes = 0 PROVE Trail'
  <2>1. crashes' = crashes
    BY DEF Register, ScoreBegin, Review, VerifyBegin, RuleBegin, CompleteBegin
  <2> QED BY <2>1 DEF Trail
<1> DEFINE Begun(s, r, t, target) == [step |-> s, request |-> r, ticket |-> t,
                                      seen |-> caseState[r], target |-> target]
\* A handler that only reads finds the case at rest, where its records say.
<1>1. ASSUME NEW s \in {"integrity", "open", "rule", "close"}, NEW r \in Requests, NEW t, NEW target,
             Start(w, s, r, t, target),
             UNCHANGED <<caseState, recordVars, audit, healthy, crashes>>,
             s = "integrity" => caseState[r] = "RECEIVED",
             s = "open" => caseState[r] = "VERIFY",
             s = "rule" => caseState[r] = "MANUAL_REVIEW",
             s = "close" => caseState[r] = "VERIFYING"
      PROVE  Trail'
  <2>1. job'[w] = Begun(s, r, t, target) /\ job[w].step = "idle"
    BY <1>0, <1>1 DEF Start, Free, At, TypeOK
  <2>2. Rested(r) /\ job[w].request = NoRequest
    BY <2>1, AllAtRest
  <2>3. Placed(job[w])'
    BY <1>1, <2>1, <2>2 DEF Placed, Rested, Explained, recordVars
  <2>4. Touches(r)
    BY <1>1 DEF Touches, recordVars
  <2>5. job'[w].step # "idle" /\ job'[w].request = r
    BY <2>1
  <2> QED BY <1>1, <2>2, <2>3, <2>4, <2>5, TrailFollows DEF TrailInv, recordVars
<1>2. ASSUME NEW r \in Requests, Register(w, r) PROVE Trail'
  <2>1. job'[w] = Begun("audit", r, NoTicket, "RECEIVED") /\ job[w].step = "idle"
    BY <1>0, <1>2 DEF Register, Start, Free, At, TypeOK
  <2>2. Rested(r) /\ job[w].request = NoRequest /\ caseState[r] = "ABSENT"
    BY <1>2, <2>1, AllAtRest DEF Register
  <2>3. rulings[r] = {} /\ posterior[r] = "none" /\ stageA[r] = "none" /\ integrity[r] = "none"
    BY <1>0, <2>2 DEF Rested, Explained, RowsAgree, TypeOK, Rulings
  <2>4. Explained(r, "RECEIVED")'
    BY <1>2, <2>3 DEF Explained, Register, recordVars, Intermediate
  <2>5. Placed(job[w])'
    BY <1>2, <2>1, <2>2, <2>4 DEF Placed, Rested, Register
  <2>6. Touches(r)
    BY <1>0, <1>2 DEF Touches, Register, recordVars, TypeOK
  <2>7. job'[w].step # "idle" /\ job'[w].request = r
    BY <2>1
  <2> QED BY <1>2, <2>2, <2>5, <2>6, <2>7, TrailFollows DEF TrailInv, Register, recordVars
<1>3. ASSUME NEW r \in Requests, NEW eligible \in BOOLEAN, ScoreBegin(w, r, eligible)
      PROVE  Trail'
  BY <1>1, <1>3 DEF ScoreBegin
<1>4. ASSUME NEW r \in Requests, VerifyBegin(w, r) PROVE Trail'
  BY <1>1, <1>4 DEF VerifyBegin
<1>5. ASSUME NEW r \in Requests, NEW ruling \in Rulings, RuleBegin(w, r, ruling)
      PROVE  Trail'
  <2>1. Rested(r)
    BY <1>5, AllAtRest DEF RuleBegin, Start, Free, At
  <2>2. caseState[r] = "MANUAL_REVIEW"
    BY <1>5, <2>1 DEF RuleBegin, Rested, Intermediate
  <2> QED BY <1>1, <1>5, <2>2 DEF RuleBegin
<1>6. ASSUME NEW t \in Tickets, NEW result \in Results, CompleteBegin(w, t, result)
      PROVE  Trail'
  <2> DEFINE r == verification[t].request
  <2>1. r \in Requests /\ stageA[r] = "VERIFY"
    <3>1. verification[t].status = "ACTIVE"
      BY <1>6 DEF CompleteBegin
    <3> QED BY <1>0, <3>1 DEF TicketsAgree, TrailInv, SoloInv, ApprovalInv, TypeInv, TicketsAreCases
  <2>2. Rested(r)
    BY <1>6, <2>1, AllAtRest DEF CompleteBegin, Start, Free, At
  <2>3. posterior[r] = "none"
    BY <1>6, <2>1, <1>0 DEF CompleteBegin, TrailInv, SoloInv, AllInStep, RowInStep
  <2>4. caseState[r] = "VERIFYING"
    BY <2>1, <2>2, <2>3 DEF Rested, Explained
  <2> HIDE DEF r
  <2>5. Start(w, "close", r, t, IntermediateOf(result))
    BY <1>6 DEF CompleteBegin, r
  <2> QED BY <1>1, <1>6, <2>1, <2>4, <2>5 DEF CompleteBegin
<1> QED BY <1>2, <1>3, <1>4, <1>5, <1>6 DEF Review

LEMMA ContinueTrail ==
    ASSUME OneProcess, TrailInv, NEW w \in Workers, Continue(w)
    PROVE  Trail'
<1>0. /\ TypeInv /\ TypeOK /\ RowsAgree /\ TicketsAgree
      /\ Carries(job[w]) /\ Grounded(job[w], integrity, stageA, posterior, rulings)
      /\ InStep(job[w], caseState, verification)
      /\ NoRequest \notin Requests /\ NoTicket \notin Tickets
  BY NothingAssumption DEF TrailInv, SoloInv, ApprovalInv, TypeInv, Loaded, Grounds, AllInStep
<1>j. PICK j : j = job[w]
  OBVIOUS
<1> DEFINE r == j.request
<1> USE <1>j
<1>1. job[w].step # "idle" /\ r \in Requests /\ UNCHANGED <<healthy, crashes>>
  BY <1>0 DEF Continue, RecordIntegrity, Decide, Open, Close, Rule, SetState, Audit, At, Carries
<1> SUFFICES ASSUME crashes = 0 PROVE Trail'
  BY <1>1 DEF Trail
<1>2. Placed(j)
  BY <1>1 DEF TrailInv, Trail
<1>3. job \in [Workers -> Jobs] /\ j \in Jobs
  BY <1>0 DEF TypeOK
<1>4. ASSUME Touches(r), stageA'[r] # "none" /\ stageA[r] = "none" => healthy[w],
             \/ job'[w] = Idle /\ Rested(r)'
             \/ job'[w].step # "idle" /\ job'[w].request = r /\ Placed(job[w])'
      PROVE  Trail'
  BY <1>1, <1>4, IdleTyped, TrailFollows DEF TrailInv
<1>5. CASE RecordIntegrity(w)
  <2>1. /\ j.step = "integrity" /\ j.ticket = NoTicket /\ Explained(r, "RECEIVED")
        /\ integrity[r] = "none" /\ stageA[r] = "none" /\ posterior[r] = "none" /\ rulings[r] = {}
    <3>1. j.step = "integrity"
      BY <1>5 DEF RecordIntegrity, At
    <3>2. Explained(r, "RECEIVED") /\ j.ticket = NoTicket
      BY <1>0, <1>2, <3>1 DEF Placed, Carries
    <3> QED BY <1>0, <1>1, <3>1, <3>2 DEF Explained, RowsAgree, TypeOK, Rulings
  <2>2. Touches(r) /\ UNCHANGED <<caseState, stageA, posterior, verification, rulings, audit>>
    BY <1>0, <1>5 DEF RecordIntegrity, Touches, TypeOK
  <2>3. \/ \E s \in {"MANUAL_REVIEW", "FAILED_SAFE"} :
             job'[w] = [j EXCEPT !.step = "setState", !.target = s]
        \/ healthy[w] /\ \E a \in Actions : job'[w] = [j EXCEPT !.step = "decide", !.target = a]
    BY <1>3, <1>5, <2>1 DEF RecordIntegrity, Aim
  <2>4. CASE \E s \in {"MANUAL_REVIEW", "FAILED_SAFE"} :
               job'[w] = [j EXCEPT !.step = "setState", !.target = s]
    <3>1. PICK s \in {"MANUAL_REVIEW", "FAILED_SAFE"} :
            job'[w] = [j EXCEPT !.step = "setState", !.target = s]
      BY <2>4
    <3>2. /\ job'[w].step = "setState" /\ job'[w].request = r /\ job'[w].target = s
          /\ job'[w].seen = j.seen
      BY <1>3, <3>1 DEF Jobs
    <3>3. Explained(r, s)'
      BY <2>1, <2>2 DEF Explained, Intermediate
    <3>4. Placed(job[w])'
      BY <1>2, <2>2, <3>2, <3>3 DEF Placed
    <3> QED BY <1>4, <2>1, <2>2, <3>2, <3>4
  <2>5. CASE healthy[w] /\ \E a \in Actions : job'[w] = [j EXCEPT !.step = "decide", !.target = a]
    <3>1. /\ job'[w].step = "decide" /\ job'[w].request = r /\ job'[w].ticket = NoTicket
          /\ job'[w].seen = j.seen
      BY <1>3, <2>1, <2>5 DEF Jobs
    <3>2. \A v \in Workers : healthy'[v]
      BY <1>1, <2>5 DEF OneProcess
    <3>3. Placed(job[w])'
      BY <1>2, <2>1, <2>2, <3>1, <3>2 DEF Placed
    <3> QED BY <1>4, <2>1, <2>2, <3>1, <3>3
  <2> QED BY <2>3, <2>4, <2>5
<1>6. CASE Decide(w)
  <2>1. /\ j.step = "decide" /\ \A v \in Workers : healthy[v]
        /\ j.ticket = NoTicket => stageA[r] = "none" /\ rulings[r] = {}
        /\ j.ticket # NoTicket => stageA[r] = "VERIFY" /\ posterior[r] = "none" /\ rulings[r] = {}
    BY <1>2, <1>6 DEF Decide, At, Placed
  <2>2. Touches(r) /\ UNCHANGED <<caseState, integrity, verification, rulings, audit>>
    BY <1>0, <1>6 DEF Decide, Touches, TypeOK
  <2>3. /\ job'[w] = [j EXCEPT !.step = "setState"] /\ j.target \in Actions
        /\ IF j.ticket = NoTicket THEN stageA'[r] = j.target /\ posterior'[r] = posterior[r]
                                  ELSE stageA'[r] = stageA[r] /\ posterior'[r] = j.target
    BY <1>0, <1>1, <1>3, <1>6, <2>1 DEF Decide, Goto, Carries, TypeOK
  <2>4. /\ job'[w].step = "setState" /\ job'[w].request = r /\ job'[w].target = j.target
        /\ job'[w].seen = j.seen /\ job'[w].ticket = j.ticket
    BY <1>3, <2>3 DEF Jobs
  <2>5. Explained(r, j.target)'
    <3>1. CASE j.ticket = NoTicket
      <4>1. posterior[r] = "none" /\ \A t \in Tickets : verification[t].request # r
        BY <1>0, <1>1, <2>1, <3>1 DEF RowsAgree, TicketsAgree
      <4> QED BY <2>1, <2>2, <2>3, <3>1, <4>1 DEF Explained, Actions, Intermediate
    <3>2. CASE j.ticket # NoTicket
      <4>1. j.target # "VERIFY"
        BY <1>0, <2>1, <3>2 DEF Carries
      <4> QED BY <2>1, <2>2, <2>3, <3>2, <4>1 DEF Explained, Actions, Intermediate
    <3> QED BY <3>1, <3>2
  <2>6. Placed(job[w])'
    <3>1. j.target # "VERIFYING"
      BY <2>3 DEF Actions
    <3> QED BY <1>2, <2>2, <2>4, <2>5, <3>1 DEF Placed
  <2> QED BY <1>4, <2>1, <2>2, <2>4, <2>6
<1>7. CASE Open(w)
  <2>1. j.step = "open" /\ Explained(r, "VERIFY") /\ j.target = "VERIFYING"
    BY <1>0, <1>2, <1>7 DEF Open, At, Placed, Carries
  <2>2. PICK t \in Tickets :
          /\ verification[t].status = "none"
          /\ verification' = [verification EXCEPT ![t].request = r, ![t].status = "ACTIVE"]
          /\ job' = [job EXCEPT ![w].step = "setState", ![w].ticket = t]
    BY <1>7, <2>1 DEF Open, Explained, ActiveFor, TicketsOf
  <2>3. /\ verification[t].request = NoRequest
        /\ verification'[t].request = r /\ verification'[t].status = "ACTIVE"
        /\ \A u \in Tickets \ {t} : verification'[u] = verification[u]
    BY <1>0, <2>2 DEF TicketsAgree, TypeOK
  <2>4. Touches(r) /\ UNCHANGED <<caseState, integrity, stageA, posterior, rulings, audit>>
    BY <1>7, <2>3 DEF Open, Touches
  <2>5. /\ job'[w].step = "setState" /\ job'[w].request = r /\ job'[w].target = "VERIFYING"
        /\ job'[w].seen = j.seen /\ job'[w].ticket = t
    BY <1>3, <2>1, <2>2 DEF Jobs
  <2>6. Explained(r, "VERIFYING")'
    BY <2>1, <2>3, <2>4 DEF Explained, Intermediate
  <2>7. Placed(job[w])'
    BY <1>2, <2>3, <2>4, <2>5, <2>6 DEF Placed
  <2> QED BY <1>4, <2>4, <2>5, <2>7
<1>8. CASE Close(w)
  <2>1. /\ j.step = "close" /\ Explained(r, "VERIFYING")
        /\ j.target \in Intermediate /\ j.ticket \in Tickets /\ verification[j.ticket].request = r
    BY <1>0, <1>2, <1>8 DEF Close, At, Placed, Carries, InStep
  <2>2. healthy[w]
    BY <1>1, <2>1 DEF TrailInv, Trail, Explained
  <2>3. /\ verification[j.ticket] # verification'[j.ticket] => verification'[j.ticket].request = r
        /\ \A u \in Tickets \ {j.ticket} : verification'[u] = verification[u]
    BY <1>0, <1>8, <2>1 DEF Close, TypeOK
  <2>4. Touches(r) /\ UNCHANGED <<caseState, integrity, stageA, posterior, rulings, audit>>
    BY <1>8, <2>1, <2>3 DEF Close, Touches
  <2>5. /\ job'[w].step = "setState" /\ job'[w].request = r /\ job'[w].target = j.target
        /\ job'[w].seen = j.seen
    BY <1>3, <1>8, <2>2 DEF Close, Goto, Jobs
  <2>6. Explained(r, j.target)'
    BY <2>1, <2>4 DEF Explained, Intermediate
  <2>7. Placed(job[w])'
    BY <1>2, <2>1, <2>4, <2>5, <2>6 DEF Placed, Intermediate
  <2> QED BY <1>4, <2>4, <2>5, <2>7
<1>9. CASE Rule(w)
  <2>1. j.step = "rule" /\ Explained(r, "MANUAL_REVIEW") /\ j.target \in Rulings
    BY <1>0, <1>2, <1>9 DEF Rule, At, Placed, Carries
  <2>2. rulings[r] = {} /\ ~(stageA[r] = "VERIFY" /\ posterior[r] = "none")
    BY <1>0, <1>1, <2>1 DEF Explained, TypeOK, Rulings, Intermediate
  <2>3. Touches(r) /\ UNCHANGED <<caseState, integrity, stageA, posterior, verification, audit>>
    BY <1>0, <1>9 DEF Rule, Touches, TypeOK
  <2>4. rulings'[r] = {j.target}
    BY <1>0, <1>1, <1>9, <2>2 DEF Rule, TypeOK
  <2>5. /\ job'[w].step = "setState" /\ job'[w].request = r /\ job'[w].target = j.target
        /\ job'[w].seen = j.seen
    BY <1>3, <1>9 DEF Rule, Goto, Jobs
  <2>6. Explained(r, j.target)'
    BY <2>1, <2>2, <2>3, <2>4 DEF Explained, Intermediate, Rulings
  <2>7. Placed(job[w])'
    BY <1>2, <2>1, <2>3, <2>5, <2>6 DEF Placed, Rulings
  <2> QED BY <1>4, <2>3, <2>5, <2>7
<1>10. CASE SetState(w)
  <2>1. /\ j.step = "setState" /\ Explained(r, j.target)
        /\ j.target = "VERIFYING" => verification[j.ticket].status = "ACTIVE"
    BY <1>2, <1>10 DEF SetState, At, Placed
  <2>2. Touches(r) /\ UNCHANGED <<integrity, stageA, posterior, verification, rulings, audit>>
    BY <1>0, <1>10 DEF SetState, Touches, TypeOK, recordVars
  <2>3. /\ job'[w].step = "audit" /\ job'[w].request = r /\ job'[w].target = j.target
        /\ job'[w].seen = j.seen /\ job'[w].ticket = j.ticket
    BY <1>3, <1>10 DEF SetState, Goto, Jobs
  <2>4. Explained(r, j.target)'
    BY <2>1, <2>2 DEF Explained
  <2>5. Placed(job[w])'
    BY <1>2, <2>1, <2>2, <2>3, <2>4 DEF Placed
  <2> QED BY <1>4, <2>2, <2>3, <2>5
<1>11. CASE Audit(w)
  <2>1. /\ j.step = "audit" /\ Explained(r, j.target) /\ caseState[r] = j.target
        /\ j.target = "VERIFYING" => verification[j.ticket].status = "ACTIVE"
    BY <1>0, <1>2, <1>11 DEF Audit, At, Placed, InStep
  <2>2. /\ UNCHANGED <<caseState, integrity, stageA, posterior, rulings>>
        /\ audit'[r].after = j.target
        /\ \A q \in Requests \ {r} : audit'[q] = audit[q]
    BY <1>0, <1>1, <1>11 DEF Audit, TypeOK
  <2>3. j.target = "VERIFYING" =>
          j.ticket \in Tickets /\ verification[j.ticket].request = r
    BY <1>0, <2>1 DEF Carries, InStep
  <2>4. \A t \in Tickets :
          /\ verification'[t].request = verification[t].request
          /\ verification'[t].status = verification[t].status
          /\ verification'[t] # verification[t] => verification[t].request = r
          /\ j.target = "VERIFYING" /\ t = j.ticket => verification'[t].known
    BY <1>0, <1>11, <2>3 DEF Audit, TypeOK
  <2>5. Touches(r)
    BY <2>2, <2>4 DEF Touches
  <2>6. Explained(r, j.target)'
    BY <2>1, <2>2, <2>4 DEF Explained
  <2>7. CASE j.target \in Intermediate
    <3>1. PICK a \in PosteriorActions(j.target) :
            job' = [job EXCEPT ![w].step = "decide", ![w].seen = j.target, ![w].target = a]
      BY <1>11, <2>7 DEF Audit
    <3>2. /\ job'[w].step = "decide" /\ job'[w].request = r /\ job'[w].seen = j.target
          /\ job'[w].ticket = j.ticket
      BY <1>3, <3>1 DEF Jobs
    <3>3. /\ j.ticket # NoTicket /\ stageA[r] = "VERIFY" /\ posterior[r] = "none"
          /\ rulings[r] = {}
      BY <1>0, <2>1, <2>7 DEF Grounded, Explained
    <3>4. \A v \in Workers : healthy'[v]
      BY <1>1, <3>3 DEF TrailInv, Trail
    <3>5. Placed(job[w])'
      BY <2>2, <3>2, <3>3, <3>4 DEF Placed
    <3> QED BY <1>4, <2>2, <2>5, <3>2, <3>5
  <2>8. CASE j.target \notin Intermediate
    <3>1. job'[w] = Idle
      BY <1>3, <1>11, <2>8 DEF Audit, Return
    <3>2. Rested(r)'
      BY <2>1, <2>2, <2>3, <2>4, <2>6, <2>8 DEF Rested
    <3> QED BY <1>4, <2>2, <2>5, <3>1, <3>2
  <2> QED BY <2>7, <2>8
<1> QED BY <1>5, <1>6, <1>7, <1>8, <1>9, <1>10, <1>11 DEF Continue

LEMMA StepTrail == OneProcess /\ TrailInv /\ [Next]_vars => TrailInv'
<1> SUFFICES ASSUME OneProcess, TrailInv, [Next]_vars PROVE Trail'
  BY StepSolo DEF TrailInv
<1>1. CASE UNCHANGED vars
  <2>1. \A r \in Requests : Rested(r)' <=> Rested(r)
    BY <1>1 DEF Rested, Explained, vars, recordVars
  <2>2. \A w \in Workers : Placed(job[w])' <=> Placed(job[w])
    BY <1>1 DEF Placed, Explained, vars, recordVars
  <2> QED BY <1>1, <2>1, <2>2 DEF TrailInv, Trail, AtRest, vars, recordVars
<1>2. ASSUME NEW w \in Workers, Restart(w) PROVE Trail'
  BY <1>2 DEF Restart, Trail, TrailInv, SoloInv, ApprovalInv, TypeInv, TypeOK
<1> QED BY <1>1, <1>2, BeginTrail, ContinueTrail DEF Next

LEMMA TrailInvariance == OneProcess /\ Spec => []TrailInv
<1>1. Init => TrailInv
  BY InitApproval, InitSolo, InitTrail DEF SoloInv, TrailInv
<1>2. OneProcess => []OneProcess
  <2>1. OneProcess => OneProcess'
    BY DEF OneProcess
  <2> QED BY <2>1, PTL
<1> QED BY <1>1, <1>2, StepTrail, PTL DEF Spec

\* In the deployed service, while nothing is cut short, the records and the
\* audit trail of a case at rest account for its state.
THEOREM StatesExplained == OneProcess /\ Spec => []StateIsExplained
<1>1. TrailInv => StateIsExplained
  <2> SUFFICES ASSUME TrailInv, NEW r \in Requests, AtRest(r), crashes = 0
               PROVE  /\ audit[r].after = caseState[r]
                      /\ CASE rulings[r] # {} -> rulings[r] = {caseState[r]}
                           [] rulings[r] = {} /\ posterior[r] # "none" ->
                                caseState[r] = posterior[r]
                           [] rulings[r] = {} /\ posterior[r] = "none" /\ stageA[r] # "none" ->
                                caseState[r] \in {stageA[r], "VERIFYING"}
                           [] OTHER ->
                                caseState[r] \in {"ABSENT", "RECEIVED", "MANUAL_REVIEW",
                                                  "FAILED_SAFE"}
    BY DEF StateIsExplained
  <2>1. Rested(r)
    BY DEF TrailInv, Trail
  <2> QED BY <2>1 DEF Rested, Explained
<1> QED BY <1>1, TrailInvariance, PTL

\* In the deployed service, while nothing is cut short, no case waits for a
\* call that can only fail.
THEOREM NothingStuck == OneProcess /\ Spec => []NoDeadEnd
<1>1. TrailInv => NoDeadEnd
  <2> SUFFICES ASSUME TrailInv, NEW r \in Requests, AtRest(r), crashes = 0
               PROVE  /\ caseState[r] = "RECEIVED" => integrity[r] = "none"
                      /\ caseState[r] = "VERIFY" => TicketsOf(r) = {}
                      /\ caseState[r] = "VERIFYING" => \E t \in ActiveFor(r) : verification[t].known
                      /\ caseState[r] \notin Intermediate
    BY DEF NoDeadEnd
  <2>1. Rested(r)
    BY DEF TrailInv, Trail
  <2> QED BY <2>1 DEF Rested, Explained, TicketsOf, ActiveFor
<1> QED BY <1>1, TrailInvariance, PTL

\* In the deployed service, while nothing is cut short, each audit event starts
\* from the state the one before it reached.
THEOREM TrailIsAPath == OneProcess /\ Spec => AuditIsAPath
<1>1. TrailInv /\ [Next]_vars =>
        [\A r \in Requests :
           crashes = 0 /\ audit'[r] # audit[r] => audit'[r].before = audit[r].after]_vars
  <2> SUFFICES ASSUME TrailInv, Next, NEW r \in Requests, crashes = 0, audit'[r] # audit[r]
               PROVE  audit'[r].before = audit[r].after
    OBVIOUS
  <2>1. PICK w \in Workers : Audit(w)
    BY DEF Next, Register, ScoreBegin, Review, VerifyBegin, RuleBegin, CompleteBegin, Restart,
           Continue, RecordIntegrity, Decide, Open, Close, Rule, SetState
  <2>2. TypeOK /\ Placed(job[w])
    BY <2>1 DEF Audit, At, TrailInv, Trail, SoloInv, ApprovalInv, TypeInv
  <2>3. r = job[w].request /\ audit'[r].before = job[w].seen
    BY <2>1, <2>2 DEF Audit, TypeOK
  <2> QED BY <2>2, <2>3 DEF Placed
<1> QED BY <1>1, TrailInvariance, PTL DEF Spec, AuditIsAPath
=============================================================================
