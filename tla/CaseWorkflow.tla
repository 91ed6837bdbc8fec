--------------------------- MODULE CaseWorkflow ---------------------------
(***************************************************************************)
(* The life of a refund case before money moves: register_case, score,     *)
(* request_verification, complete_verification and operator_decision of    *)
(* ReturnGuardService, over the case, decision, verification, operator and *)
(* audit tables of SQLiteRepository.                                       *)
(*                                                                         *)
(* As in RefundExecution every repository call is a step of its own, one   *)
(* Worker is the deployed service and several are several processes on one *)
(* database.  Probabilities are abstracted to the action the frozen policy *)
(* picks, and a refund's balance check to its verdict.                     *)
(***************************************************************************)
EXTENDS Naturals

CONSTANTS
    Requests,    \* refund_request_id
    Workers,     \* processes running the API
    Tickets,     \* verification_id, fresh uuids
    NoRequest, NoTicket,
    MaxCrashes   \* bound: restarts, and exceptions nothing catches

ASSUME NothingAssumption == NoRequest \notin Requests /\ NoTicket \notin Tickets
ASSUME CrashAssumption == MaxCrashes \in Nat

VARIABLES
    caseState,     \* refund_cases.state
    integrity,     \* integrity_decisions, one row per request
    stageA,        \* decisions, stage pre_verification: the action
    posterior,     \* decisions, stage post_verification: the action
    verification,  \* verifications
    rulings,       \* operator_decisions: the outcomes on record
    audit,         \* audit_events: the latest event's before and after state
    healthy,       \* runtime.healthy of each process
    job,           \* what each worker is doing
    crashes        \* what MaxCrashes counts

recordVars == <<integrity, stageA, posterior, verification, rulings>>
vars == <<caseState, recordVars, audit, healthy, job, crashes>>

Actions == {"AUTO_APPROVE", "VERIFY", "RETURN_FIRST", "MANUAL_REVIEW"}
Results == {"consistent", "inconsistent", "inconclusive"}
Intermediate == {"VERIFIED_CLEAR", "VERIFIED_INCONSISTENT", "INCONCLUSIVE"}
Rulings == {"APPROVED", "REJECTED_BY_OPERATOR"}
MoneyStates == {"REFUND_PROCESSING", "REFUNDED"}
States == {"ABSENT", "RECEIVED", "VERIFYING", "FAILED_SAFE"}
            \cup Actions \cup Intermediate \cup Rulings \cup MoneyStates
Approved == {"AUTO_APPROVE", "APPROVED"}

NoTicketRow == [request |-> NoRequest, status |-> "none", result |-> "inconclusive", known |-> FALSE]
Idle == [step |-> "idle", request |-> NoRequest, ticket |-> NoTicket,
         seen |-> "ABSENT", target |-> "ABSENT"]
Steps == {"idle", "integrity", "decide", "open", "close", "rule", "setState", "audit"}
Jobs == [step : Steps, request : Requests \cup {NoRequest},
         ticket : Tickets \cup {NoTicket}, seen : States,
         target : States \cup {"eligible", "ineligible"}]

TypeOK ==
    /\ caseState \in [Requests -> States]
    /\ integrity \in [Requests -> {"none", "eligible", "ineligible"}]
    /\ stageA \in [Requests -> {"none"} \cup Actions]
    /\ posterior \in [Requests -> {"none"} \cup (Actions \ {"VERIFY"})]
    /\ verification \in [Tickets -> [request : Requests \cup {NoRequest}, result : Results,
                                     status : {"none", "ACTIVE", "COMPLETE"}, known : BOOLEAN]]
    /\ rulings \in [Requests -> SUBSET Rulings]
    /\ audit \in [Requests -> [before : States, after : States]]
    /\ healthy \in [Workers -> BOOLEAN]
    /\ job \in [Workers -> Jobs]
    /\ crashes \in 0 .. MaxCrashes

TicketsOf(r) == {t \in Tickets : verification[t].request = r}
ActiveFor(r) == {t \in TicketsOf(r) : verification[t].status = "ACTIVE"}

-----------------------------------------------------------------------------
(* Moving a worker along its handler.                                       *)

At(w, s) == job[w].step = s
Free(w) == At(w, "idle")
Goto(w, s) == job' = [job EXCEPT ![w].step = s]
Aim(w, s, state) == job' = [job EXCEPT ![w].step = s, ![w].target = state]
Return(w) == job' = [job EXCEPT ![w] = Idle]

\* A handler that starts has read the case row: it keeps the state it saw.
Start(w, s, r, t, target) ==
    /\ Free(w)
    /\ job' = [job EXCEPT ![w] = [step |-> s, request |-> r, ticket |-> t,
                                  seen |-> caseState[r], target |-> target]]

Init ==
    /\ caseState = [r \in Requests |-> "ABSENT"]
    /\ integrity = [r \in Requests |-> "none"]
    /\ stageA = [r \in Requests |-> "none"]
    /\ posterior = [r \in Requests |-> "none"]
    /\ verification = [t \in Tickets |-> NoTicketRow]
    /\ rulings = [r \in Requests |-> {}]
    /\ audit = [r \in Requests |-> [before |-> "ABSENT", after |-> "ABSENT"]]
    /\ healthy \in [Workers -> BOOLEAN]
    /\ job = [w \in Workers |-> Idle]
    /\ crashes = 0

-----------------------------------------------------------------------------
\* register_case: the row, then its audit event.
Register(w, r) ==
    /\ caseState[r] = "ABSENT"
    /\ Start(w, "audit", r, NoTicket, "RECEIVED")
    /\ caseState' = [caseState EXCEPT ![r] = "RECEIVED"]
    /\ UNCHANGED <<recordVars, audit, healthy, crashes>>

\* score reads the case and judges the payment before it writes anything.
ScoreBegin(w, r, eligible) ==
    /\ caseState[r] = "RECEIVED"
    /\ Start(w, "integrity", r, NoTicket, IF eligible THEN "eligible" ELSE "ineligible")
    /\ UNCHANGED <<caseState, recordVars, audit, healthy, crashes>>

\* add_integrity_decision, once per request: a second one raises.  An
\* ineligible payment goes to review unscored, an untrusted bundle fails
\* safe, and otherwise the policy picks an action.
RecordIntegrity(w) ==
    /\ At(w, "integrity")
    /\ LET r == job[w].request  verdict == job[w].target IN
       IF integrity[r] # "none"
         THEN Return(w) /\ integrity' = integrity
         ELSE /\ integrity' = [integrity EXCEPT ![r] = verdict]
              /\ \/ verdict = "ineligible" /\ Aim(w, "setState", "MANUAL_REVIEW")
                 \/ verdict = "eligible" /\ ~healthy[w] /\ Aim(w, "setState", "FAILED_SAFE")
                 \/ /\ verdict = "eligible" /\ healthy[w]
                    /\ \E a \in Actions : Aim(w, "decide", a)
    /\ UNCHANGED <<caseState, stageA, posterior, verification, rulings, audit, healthy, crashes>>

\* add_decision, once per request and stage: a second one raises.  A handler
\* that carries a ticket decides after a verification.
Decide(w) ==
    /\ At(w, "decide")
    /\ LET r == job[w].request
           last == job[w].ticket # NoTicket
           taken == IF last THEN posterior[r] # "none" ELSE stageA[r] # "none" IN
       /\ IF taken THEN Return(w) ELSE Goto(w, "setState")
       /\ stageA' = IF taken \/ last THEN stageA ELSE [stageA EXCEPT ![r] = job[w].target]
       /\ posterior' = IF taken \/ ~last THEN posterior
                                         ELSE [posterior EXCEPT ![r] = job[w].target]
    /\ UNCHANGED <<caseState, integrity, verification, rulings, audit, healthy, crashes>>

-----------------------------------------------------------------------------
\* request_verification reads the state, then inserts the ACTIVE row unless
\* the partial unique index finds another one.
VerifyBegin(w, r) ==
    /\ caseState[r] = "VERIFY"
    /\ Start(w, "open", r, NoTicket, "VERIFYING")
    /\ UNCHANGED <<caseState, recordVars, audit, healthy, crashes>>

\* Mutant: verifications without the partial unique index.
OpenAlways(w) ==
    /\ At(w, "open")
    /\ \E t \in Tickets :
         /\ verification[t].status = "none"
         /\ verification' = [verification EXCEPT ![t].request = job[w].request,
                                                 ![t].status = "ACTIVE"]
         /\ job' = [job EXCEPT ![w].step = "setState", ![w].ticket = t]
    /\ UNCHANGED <<caseState, integrity, stageA, posterior, rulings, audit, healthy, crashes>>

Open(w) ==
    /\ At(w, "open")
    /\ LET r == job[w].request IN
       \/ /\ ActiveFor(r) # {}
          /\ Return(w) /\ verification' = verification
       \/ /\ ActiveFor(r) = {}
          /\ \E t \in Tickets :
               /\ verification[t].status = "none"
               /\ verification' = [verification EXCEPT ![t].request = r, ![t].status = "ACTIVE"]
               /\ job' = [job EXCEPT ![w].step = "setState", ![w].ticket = t]
    /\ UNCHANGED <<caseState, integrity, stageA, posterior, rulings, audit, healthy, crashes>>

\* complete_verification, by a client that learnt the id from the answer or
\* from the audit trail; expired evidence is treated as inconclusive.
IntermediateOf(result) ==
    CASE result = "consistent"   -> "VERIFIED_CLEAR"
      [] result = "inconsistent" -> "VERIFIED_INCONSISTENT"
      [] result = "inconclusive" -> "INCONCLUSIVE"

CompleteBegin(w, t, result) ==
    /\ verification[t].status = "ACTIVE" /\ verification[t].known
    /\ Start(w, "close", verification[t].request, t, IntermediateOf(result))
    /\ UNCHANGED <<caseState, recordVars, audit, healthy, crashes>>

\* The UPDATE applies to an ACTIVE row and nobody looks whether it did; then
\* posterior_action reads the bundle, which an unhealthy process lacks.
Close(w) ==
    /\ At(w, "close")
    /\ LET t == job[w].ticket IN
       verification' = IF verification[t].status # "ACTIVE" THEN verification ELSE
         [verification EXCEPT ![t].status = "COMPLETE",
            ![t].result = CHOOSE x \in Results : IntermediateOf(x) = job[w].target]
    /\ IF healthy[w] THEN Goto(w, "setState") ELSE Return(w)
    /\ UNCHANGED <<caseState, integrity, stageA, posterior, rulings, audit, healthy, crashes>>

\* Mutants: VERIFY is not turned into approval, and the frozen policy decides
\* on inconsistent evidence as well.
PosteriorActionsUnmapped(state) ==
    CASE state = "VERIFIED_CLEAR"        -> Actions
      [] state = "VERIFIED_INCONSISTENT" -> {"MANUAL_REVIEW"}
      [] state = "INCONCLUSIVE"          -> {"RETURN_FIRST"}
PosteriorActionsOfPolicy(state) ==
    IF state = "INCONCLUSIVE" THEN {"RETURN_FIRST"} ELSE Actions \ {"VERIFY"}

\* The posterior action: a clear case takes the policy's, with VERIFY turned
\* into approval; the others are fixed.
PosteriorActions(state) ==
    CASE state = "VERIFIED_CLEAR"        -> Actions \ {"VERIFY"}
      [] state = "VERIFIED_INCONSISTENT" -> {"MANUAL_REVIEW"}
      [] state = "INCONCLUSIVE"          -> {"RETURN_FIRST"}

-----------------------------------------------------------------------------
\* Mutant: an operator may decide on a case in any state.
RuleBeginAnytime(w, r, ruling) ==
    /\ caseState[r] # "ABSENT"
    /\ Start(w, "rule", r, NoTicket, ruling)
    /\ UNCHANGED <<caseState, recordVars, audit, healthy, crashes>>

\* operator_decision, by a named operator with a reason.
RuleBegin(w, r, ruling) ==
    /\ caseState[r] \in {"MANUAL_REVIEW", "VERIFIED_INCONSISTENT"}
    /\ Start(w, "rule", r, NoTicket, ruling)
    /\ UNCHANGED <<caseState, recordVars, audit, healthy, crashes>>

Rule(w) ==
    /\ At(w, "rule")
    /\ rulings' = [rulings EXCEPT ![job[w].request] = @ \cup {job[w].target}]
    /\ Goto(w, "setState")
    /\ UNCHANGED <<caseState, integrity, stageA, posterior, verification, audit, healthy, crashes>>

-----------------------------------------------------------------------------
\* set_state overwrites whatever is there; the audit event names the state
\* the handler saw.  An audited intermediate state is followed by the
\* posterior decision, and an audited verification request is answered.
SetState(w) ==
    /\ At(w, "setState")
    /\ caseState' = [caseState EXCEPT ![job[w].request] = job[w].target]
    /\ Goto(w, "audit")
    /\ UNCHANGED <<recordVars, audit, healthy, crashes>>

\* Mutants: the second event names the state the handler started from, or the
\* handler answers before the posterior decision.
AuditStale(w) ==
    /\ At(w, "audit")
    /\ LET r == job[w].request  state == job[w].target IN
       /\ audit' = [audit EXCEPT ![r] = [before |-> job[w].seen, after |-> state]]
       /\ IF state \in Intermediate
            THEN \E a \in PosteriorActions(state) : Aim(w, "decide", a)
            ELSE Return(w)
       /\ verification' = IF state # "VERIFYING" THEN verification
            ELSE [verification EXCEPT ![job[w].ticket].known = TRUE]
    /\ UNCHANGED <<caseState, integrity, stageA, posterior, rulings, healthy, crashes>>
AuditAndAnswer(w) ==
    /\ At(w, "audit")
    /\ LET r == job[w].request  state == job[w].target IN
       /\ audit' = [audit EXCEPT ![r] = [before |-> job[w].seen, after |-> state]]
       /\ Return(w)
       /\ verification' = IF state # "VERIFYING" THEN verification
            ELSE [verification EXCEPT ![job[w].ticket].known = TRUE]
    /\ UNCHANGED <<caseState, integrity, stageA, posterior, rulings, healthy, crashes>>

Audit(w) ==
    /\ At(w, "audit")
    /\ LET r == job[w].request  t == job[w].ticket  state == job[w].target IN
       /\ audit' = [audit EXCEPT ![r] = [before |-> job[w].seen, after |-> state]]
       /\ IF state \in Intermediate
            THEN \E a \in PosteriorActions(state) :
                   job' = [job EXCEPT ![w].step = "decide", ![w].seen = state, ![w].target = a]
            ELSE Return(w)
       /\ verification' = IF state # "VERIFYING" THEN verification
                                                 ELSE [verification EXCEPT ![t].known = TRUE]
    /\ UNCHANGED <<caseState, integrity, stageA, posterior, rulings, healthy, crashes>>

\* A process dies, or a handler ends in an exception, and the bundle may be
\* another one when it is back.
Restart(w) ==
    /\ crashes < MaxCrashes
    /\ crashes' = crashes + 1
    /\ \E h \in BOOLEAN : healthy' = [healthy EXCEPT ![w] = h]
    /\ Return(w)
    /\ UNCHANGED <<caseState, recordVars, audit>>

Continue(w) ==
    \/ RecordIntegrity(w) \/ Decide(w) \/ Open(w) \/ Close(w) \/ Rule(w)
    \/ SetState(w) \/ Audit(w)

\* Calls that concern this module only; the payment has a say in the others.
Review(w) ==
    \/ \E r \in Requests :
         VerifyBegin(w, r) \/ \E ruling \in Rulings : RuleBegin(w, r, ruling)
    \/ \E t \in Tickets, result \in Results : CompleteBegin(w, t, result)

Next ==
    \E w \in Workers :
        \/ \E r \in Requests :
             Register(w, r) \/ \E eligible \in BOOLEAN : ScoreBegin(w, r, eligible)
        \/ Review(w) \/ Continue(w) \/ Restart(w)

Spec == Init /\ [][Next]_vars

-----------------------------------------------------------------------------
(* Properties.                                                              *)

\* README: "named human review".  A case whose payment failed the integrity
\* check, that scoring sent to review, or whose evidence was inconsistent is
\* approved only with an operator's approval on record, wherever a handler
\* was cut short.
AdverseNeedsHuman ==
    \A r \in Requests :
        /\ caseState[r] \in Approved
        /\ \/ integrity[r] = "ineligible"
           \/ stageA[r] = "MANUAL_REVIEW"
           \/ \E t \in TicketsOf(r) : verification[t].result = "inconsistent"
        => "APPROVED" \in rulings[r]

\* ARCHITECTURE.md: "at most one structured verifier" per request, the
\* completed ones included.
AtMostOneVerifier == \A r \in Requests : \A s, t \in TicketsOf(r) : s = t

\* As long as nothing was cut short, the audit trail is a path: each event
\* starts from the state the previous one reached, so the trail replays the
\* life of the case.
AuditIsAPath ==
    [][\A r \in Requests :
         crashes = 0 /\ audit'[r] # audit[r] => audit'[r].before = audit[r].after]_vars

AtRest(r) == \A w \in Workers : job[w].request # r

\* Between handlers, none of them cut short, the case is where its records
\* say it is, and the trail ends there.
StateIsExplained ==
    \A r \in Requests : AtRest(r) /\ crashes = 0 =>
        /\ audit[r].after = caseState[r]
        /\ CASE rulings[r] # {} -> rulings[r] = {caseState[r]}
             [] rulings[r] = {} /\ posterior[r] # "none" -> caseState[r] = posterior[r]
             [] rulings[r] = {} /\ posterior[r] = "none" /\ stageA[r] # "none" ->
                  caseState[r] \in {stageA[r], "VERIFYING"}
             [] OTHER -> caseState[r] \in {"ABSENT", "RECEIVED", "MANUAL_REVIEW", "FAILED_SAFE"}

\* No case waits for a call that can only fail, unless a handler was cut
\* short: a received one can be scored, one to verify can be verified, one
\* being verified has a ticket to complete.
NoDeadEnd ==
    \A r \in Requests : AtRest(r) /\ crashes = 0 =>
        /\ caseState[r] = "RECEIVED" => integrity[r] = "none"
        /\ caseState[r] = "VERIFY" => TicketsOf(r) = {}
        /\ caseState[r] = "VERIFYING" => \E t \in ActiveFor(r) : verification[t].known
        /\ caseState[r] \notin Intermediate
=============================================================================
