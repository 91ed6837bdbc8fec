# ReturnGuard: specification and proofs

ReturnGuard decides refund requests (a risk score, at most one structured
verification, a named operator where needed) and executes the approved ones
through a refund gateway. This directory holds TLA+ models of the service, the
TLC runs that check them on small instances, and theorems TLAPS proves for
every instance.

## 1. Inventory of the system

| Part | Where | State | Operations |
|---|---|---|---|
| HTTP API | `backend/api.py` | none of its own; one process, one event loop, handlers that never await between two repository calls | one route per operation; `razorpay_webhook` |
| Service | `backend/service.py` | none | `register_case`, `score`, `request_verification`, `complete_verification`, `operator_decision`, `execute`, `reconcile_refund_webhook` |
| Repository | `backend/repository.py` | SQLite: `refund_cases`, `payment_snapshots`, `refund_ledger`, `decisions`, `integrity_decisions`, `verifications`, `operator_decisions`, `executions`, `audit_events`, `webhook_events`, `evaluation_runs` | one method per statement, **each commits on its own** |
| Gateways | `backend/gateway.py`, `backend/razorpay.py` | mock: effects by key; Razorpay: the payment and its refunds | `payment_snapshot`, `refund`, signed webhooks |
| Bundle runtime | `backend/runtime.py`, `models/bundle.py` | is the bundle trusted, the model, the policy contract, likelihoods | `score`, `posterior_action`, `validate_bundle` |
| Rules | `backend/payment_integrity.py`, `verification/order_integrity.py`, `verification/bayesian.py`, `policy/*`, `v2/policy.py` | pure functions | payment eligibility, order integrity, Bayesian update, cost policy, contract selection |
| Features | `features/*`, `v2/features.py`, `data/splitter.py` | pure functions over tables | point-in-time features, leakage guard, chronological split |
| v1 benchmark | `data/final_lock.py`, `models/training.py`, `policy/selection.py`, `evaluation/final.py`, `freeze.py`, `results.py`, `integrity.py`, `publication.py`, `scripts/preflight.py` | files under `artifacts/` and `evidence/` | seal, train, select, export, freeze, open once, upgrade, correct, publish, preflight |
| v2 benchmark | `v2/generator.py`, `v2/training.py`, `v2/policy.py`, `v2/final.py`, `scripts/freeze_v2.py` | files under `artifacts/v2` | generate, prepare, train, select, freeze, open once |
| Model arithmetic, generators, report numbers, dashboard, configuration | `models/*`, `data/*`, `evaluation/*`, `dashboard/app.py`, `scripts/*` | none shared | batch arithmetic and an HTTP client |

(Paths are under `src/src/returnguard/`, except `scripts/`.)

**How they interact.** A request enters through the API, the service reads and
writes the repository one commit at a time, asks the runtime for an action, and
`execute` calls the gateway synchronously. The gateway answers later with signed
webhooks, which it repeats until they are acknowledged. Two rows are shared by
many requests: a payment's snapshot (its refundable balance) and, through the
sum of active reservations, its ledger rows.

**What is hard.** (1) A handler is a series of commits, so a crash, or an
exception nothing catches, leaves a prefix of them. (2) In one process handlers
are atomic against each other; the repository, however, is written for several
processes (`BEGIN IMMEDIATE`, unique indexes), and
`tests/unit/test_payment_integrity.py` runs reservations from two connections.
Models therefore have a set of `Workers`: one is the deployed service
(`scripts/run_api.py`), two are two processes. (3) The gateway may refuse, fail,
or take the refund and lose the reply. (4) Webhooks are duplicated, late and
unordered, and the payment's balance at the gateway may or may not already count
a pending refund. (5) States written by one handler are overwritten by another,
as `set_state` tests nothing. (6) The benchmarks are commands run by hand that
overwrite or refuse to overwrite each other's files, and any of them may die
between two writes or run beside another one. (7) A feature row must be the same
whether it is computed while training, in the final replay or in service, and the
order that decides it has ties. (8) The policy is a comparison of costs and
thresholds with equalities on every side.

`PROJECT.json` lists each of these at its line ("hazards") with the property
that covers it.

**What makes each part correct.** Money path: no second dispatch of a request,
no success the gateway did not give, refunds within what was captured, every
reservation covered and eventually settled, three tables that agree. Case
workflow: no approval of an adverse case without an operator, at most one
verification, a gapless audit trail, no case that is stuck. Service: no money
without a recorded approval. Rules: a total order of checks, monotone in risk
and amount. Features: nothing from after the cutoff. Final evaluation: opened
once, across crashes, and what is published is what was evaluated.

## 2. Modules

| Module | Models | Proofs |
|---|---|---|
| `RefundExecution` | `execute`, the webhook, their tables and the gateway | `RefundExecutionProofs`, `RefundMoneyProofs` |
| `RefundEscrow` | what the reservation ledger promises, with no handlers | in `RefundMoneyProofs` |
| `CaseWorkflow` | register, score, request and complete verification, operator decision, audit | `CaseWorkflowProofs` |
| `ReturnGuard` | both halves on shared tables and processes | `ReturnGuardProofs` |
| `PolicySelection` | likelihoods, contract search and what the contract decides, v1 and v2 | `PolicySelectionProofs` |
| `FeatureReplay` | chronological split and both point-in-time replay engines | `FeatureReplayProofs` |
| `BenchmarkPipeline` | the v2 benchmark from generation to the one final opening | `BenchmarkPipelineProofs` |
| `LegacyBenchmark` | the v1 benchmark, its one opening and the publication of its results | `LegacyBenchmarkProofs` |
| `MC*` | constants and symmetry for TLC | |

### RefundExecution

One action per repository call or gateway call, in the order of the code:
`ExecuteBegin` (existing execution, approval guard), `Refresh` / `RefreshFails`,
`Store`, `Check`, `Reserve`, `Mark`, `Announce`, `RefundAccepted` /
`RefundRejected` / `RefundReplyLost`, then `Attach`, `Finalize` (only without
webhook confirmation), `Record`, `Publish`, or on failure `Release`, `FailSafe`.
The webhook is `WebhookBegin` (`record_webhook`), `Lookup`, `Settle`, `Update`,
`Close`. `task[w]` is the program counter and the locals of the handler that
process `w` runs. `Abort` ends it anywhere. Three constants are the adapter:
`AuthoritativeBalance`, `RequiresWebhook` (both TRUE for Razorpay, both FALSE
for the mock) and `LosesReplies`: is there a network on which the answer to
`gateway.refund` can be lost after the gateway took the refund. `lost` is a history
variable, the requests that happened to; no action reads it.

Data is abstracted to what the properties tell apart. A snapshot is a verdict
(`valid`: identity, status and currency match) and a balance; a refreshed one gets
either verdict, since `razorpay.py:48` and `:63` take status and currency from the
gateway's answer. `Register` is one step where the code has two commits, the
uploaded snapshot and the case; no run uploads one, and the theorems about balances
assume none. `Total` is the `SUM` over ledger rows, a constant function on sets of requests, characterised
by `TotalAssumption` so that proofs can use it; TLC gets the real sum from
`MCRefundExecution`. `attached` says a row has its `razorpay_refund_id`.
Razorpay is external: `gatewayRefund` is the refund it keeps, `Signed` the events
it has signed, `Refresh` reads a balance that counts an arbitrary part of the
pending refunds, because the adapter's `amount_refunded` does not say. The ledger
status `released` is never written by the code and does not occur. Audit events
of this path, response bodies and timestamps are left out.

### CaseWorkflow

`Register`, `ScoreBegin` (reads), `RecordIntegrity` (`add_integrity_decision`,
then one of three ways on), `Decide` (`add_decision`), `VerifyBegin` / `Open`,
`CompleteBegin` / `Close`, `RuleBegin` / `Rule`, and the two steps that end every
handler, `SetState` and `Audit`. A job keeps the case state its handler read
(`seen`), which is what the audit event names. Scores are abstracted to the
action the policy picks (any), evidence to its result, expired evidence to
inconclusive, which the code treats alike. `healthy[w]` is `runtime.healthy`,
fixed for the life of a process. A verification id is `known` once its audit
event is written: the answer and the trail are the only ways to learn it. The
states `SCORED` and `HELD` are never written. `Restart` is a crash, or an
uncaught exception (`runtime.score` on bad features, for instance).

### ReturnGuard

INSTANCEs both on one `caseState`, one snapshot table and one set of processes.
They meet in registration (`RegisterCase`), in scoring (`ScoreCase` uses
`Eligible` of the money path), in `caseState`, and in `Crash`, which ends
whichever handler the process runs. Its assumptions are those of the two halves
that proofs need: `NothingAssumption` (a missing value is no request and no
ticket), `CrashAssumption`, and `MoneyAssumption`, which is what `RefundExecution`
assumes of amounts, sums, payments and bounds.

### PolicySelection

One behaviour is one policy, from selection to use. `Estimate` turns the
verifier's counts into smoothed likelihood ratios and fails if they point the
wrong way (`DirectionsAreValid`); `Try` takes one contract of the quantile grid,
prices it on the `policy_selection` rows and keeps it if it is within both limits
and strictly cheaper; `Choose` writes `policy.json` or raises. After `Deploy` the
contract decides cases: `ScoreCase` is stage A, `Verify` the verifier's answer,
which for v1 is `Integrity` of any set of faults (with the early returns of
`verify_order_integrity`) and for v2 a column of the data, `NextCase` the next.
`After` is the posterior rule of the two evaluations, `Served` that of the service,
which overrides v1's.

Probabilities, thresholds and ratios are fractions compared exactly; costs are
integers in one unit. The code computes in floating point: two costs that are
equal here may differ in the last bit there. Scores are multiples of `1/Scale`
that `predict_proba` can return (`Scores`: clipped to `1/Edge` and `1 - 1/Edge`,
the bound `bayesian_update` clips its prior and, in v1, its posterior to). The
cost of a contract and the size of a support are sums over rows and counts.
`choose_action`, the comparison policies and the explanations decide nothing and
are left out.

### FeatureReplay

One behaviour is one benchmark, v1 or v2: `Init` has the requests and their
`Split`, `StartDevelopment` / `StartFinal` begin a replay, `Replay(i)` computes
the row of the next request and then enters it into the histories, `Finish` ends
the replay, `OpenTruth` is the merge of the final truth without which the final
partition is not replayed. A count is the set of what it counts, so that a
property can name the event that reached a row. The engines mature outcomes
differently (v1 from a heap per customer that only that customer's requests look
at, v2 from one heap) and have different rows. `Rank` is the sort of the split:
time in v2, ISO text in v1, where `isoformat` leaves out a zero fraction
(`TextBefore`). `kept` are the development rows the model is fitted to.
Left out: v1's transaction events (`prior_cancellation_count`), amounts and other
aggregates, `build_serving_feature`, and the arithmetic on the counts.

### LegacyBenchmark

The v1 commands as writes of files that any command may be cut short between
(`Die`): `Builders` seal, generate, clean, train, fit baselines, select, export
and freeze; `Evaluators` run `evaluate_final_once`; `Publishers` upgrade the
results lock, publish, correct and submit. Unlike those of v2 these commands
overwrite. A file is what it was made from; `openings` and `first` are history.
`PreflightPasses` is what `scripts/preflight.py` compares. The generator is
seeded, so data sets are all equal and only their presence matters. Left out: the
bundle's `final_test_state` entry, the effect of the policy on disk on the
corrected transition bands, and torn writes of a single file.

### BenchmarkPipeline

The commands of the offline benchmark, run by hand in terminals: `Builders` run
generation, preparation, training, policy selection and the freeze,
`Evaluators` the final evaluation. State is the files under `artifacts/v2`. A
file is what it was made from (a model is the feature table and configuration
it was trained with), which is what a hash of it would tell apart; the numeric
work between reading and writing is left out. Every write another command can
see is a step, and `Die` ends a command between two of them. `configs/v2` is one
version, changed by `Edit`. A command that raises at a guard has no step, except
where it has written something by then (`Audit`, `Freeze`, `MakeOutput`).
Left out: the robustness reports, the corrections and evidence published after
the opening, and torn writes of a single file.

The code makes development stages unrepeatable by refusing to start when their
*last* file exists (`selection.json`, `policy.json`, `freeze_manifest.json`), and
makes the opening unrepeatable twice over: by `mkdir` without `exist_ok` and by
marking the manifest before the truth is read. Neither the freeze nor the
evaluator compares the hash of one file with another's. `EvaluatesFrozen` and
`FreezeIsCoherent` say how far the refusals make up for that. They do not for
three things, which are therefore not claimed: the evaluator loads whatever
`configs/v2` holds when it runs, although the freeze records its hash; a feature
table rebuilt after training is frozen beside a model trained on the previous
one; and after a command died, the frozen policy may be of a model that was
replaced, or the audit of a table that was.

### Abstract specifications

`RefundEscrow` (Hold, Move, Settle): money moves only while it is held, holds
never exceed what was captured, and a hold is paid or returned by what the
gateway did. `RefundExecution` implements it through `Promise` and `Taken`
(`ImplementsEscrow`: checked, and proved). `ReturnGuard` implements
`RefundExecution` (`ImplementsRefundExecution`: checked, and proved for one
process): in that module approval is one step, in the service it is scoring,
verification and review.

## 3. Runs

Deadlock checking is off everywhere: when every request is finished and no
event is left, the service really has nothing to do, and so have the offline
commands when all files are written.

| Run | Instance | Shows |
|---|---|---|
| `RefundMockTwoProcesses` | mock, 3 requests of 1, 2, 2 on a payment of 3, 2 processes, 1 crash | escrow, no over-refund, reservations covered |
| `RefundRazorpayTwoProcesses` | Razorpay, 2 requests, 2 processes, 1 crash, replies lost | one dispatch, successes real, settled stays settled, what the gateway keeps is on the books or known to be lost |
| `RefundRazorpayDeployed` | Razorpay, 2 requests, 1 process, fair | tables agree, events settle, liveness |
| `CaseRestarts` | 1 case, 1 process, 3 restarts | adverse needs human, one verifier; and while nothing was cut short: records explain the state, audit path, no dead end |
| `ServiceRefinement` | 1 case, 1 process, 2 crashes, replies lost, Razorpay | refinement of the money path; a human before money in adverse cases; a refunded case stays refunded |
| `ServiceTwoProcesses` | 1 case, 2 processes, mock | money needs an approval on record |
| `PolicyInUse` | v1 and v2, 3 rows, 4 contracts, up to 2 faults | the search finds the first cheapest contract within the limits; only clean evidence approves; evidence beats the score |
| `FeaturesPointInTime` | v1 and v2, 4 requests, 1 or 2 customers, 3 instants | a row is a function of what precedes it in replay order; the final replay reproduces the development rows; partitions follow time |
| `BenchmarkOpening` | 1 builder, 2 evaluators, 2 configurations (one leaky), 2 deaths | truth opened once, results final and of the frozen model and policy, freeze coherent while nothing died |
| `LegacyResults` | 1 builder, 2 evaluators, 1 publisher, 2 configurations, 1 death, 1 edit or clean-up | truth opened once, of a freeze made blind; the original results are kept; a passing preflight is of one run |

**Bounds.** `MaxAborts` / `MaxCrashes` and `MaxEdits` bound the only counters.
Replies may be lost without a bound, as a request is dispatched once. Two requests
are enough for two handlers on one balance, three for a balance that two of them exhaust in either order; one payment is enough,
as payments share nothing (and one Razorpay adapter serves exactly one). Cases
share no row before money moves, so one case shows every interleaving of its
handlers. Tickets: two or three, one more than a correct run uses. Two evaluators
race for one directory; two deaths end two tries. In `PolicyInUse` three rows give
every order of label, score and amount a quantile or a capacity can tell apart,
costs are the deployed ones in units of 500 paise, and two faults are enough
because `Integrity` asks for one missing fact or one inconsistency beside another.
In `FeaturesPointInTime` four requests put one into each partition; the instants
4, 5 and 7 with `Second = 2` are two in one second, of which one is whole, and one
that is a fraction of the next, and let requests and outcomes tie; one table has a
claim v2 refuses. In `LegacyResults` one death stops any command anywhere and
`MaxEdits` counts configuration edits and clean-ups together. Symmetry (requests
of one size, processes, tickets, evaluators, configurations) is used in safety
runs only.

**With a condition.** `StateIsExplained`, `NoDeadEnd`, `AuditIsAPath` and
`FreezeIsCoherent` are stated for `crashes = 0`: the code gives no more, as a
handler that dies between two commits leaves exactly the disagreement they
exclude (a RECEIVED case with a decision, a VERIFY case with an open
verification, a state the trail does not mention). `DevelopmentRowsStable` and
the finer half of `PartitionsFollowTime` are stated for v1 tables in which text
order is time order (`TextIsTime`): otherwise a request on a whole second is cut
into a later partition than one half a second after it.

**A lost reply.** When `gateway.refund` times out after the gateway took the refund,
`execute` releases the reservation (`service.py:298`): failed here, paid there.
The code has no remedy, and no property says it has. `TakenIsBooked` states
what does hold, with two processes, a crash and lost replies: everything the
gateway keeps is an active or succeeded row, except after a lost reply; and such a refund is never
linked, recorded or reported as a success afterwards, whatever event, retry or
process comes (its events are UNMATCHED). Accordingly `NoOverRefund` and
`ImplementsEscrow` are about gateways that answer (`LosesReplies = FALSE`), since a
released reservation is room for another request.

**Runs that fail** state what the repository says of itself and are violated by
what the code does; each is a finding in `PROJECT.json`:

| Run | What happens |
|---|---|
| `RefundSharedPayment` | the refreshed balance already counts the pending refund, `finalize_refund` subtracts it again, raises, and the recorded event is gone |
| `ServiceUnhealthy` | `execute` does not ask whether the bundle is trusted |

Three more conditions of the money path are documented by what the passing runs
leave out. Each can be reproduced by changing the constants of a run as named:

- a crash between `record_webhook` and the reconciliation makes the redelivery a
  DUPLICATE: `RecordsAgreeAtRest` and `ReconciliationSettles` each fail in
  `RefundRazorpayDeployed` with `MaxAborts = 1`;
- a timeout after the gateway took the refund releases the reservation:
  `ReconciliationSettles` and `AcceptedIsSettled` each fail there with
  `LosesReplies = TRUE`;
- a stale snapshot uploaded with a second case restores spent balance, for an
  adapter without authoritative balance: `NoOverRefund` fails in
  `RefundMockTwoProcesses` with `AmountOf <- Small`, `Captured <- CapturedOne`
  and `Uploads <- FullUpload`.

The first two and `RefundSharedPayment` happen in the deployed configuration. That
is why `RefundRazorpayDeployed` uses a payment that covers its requests even when
each is counted twice (3 for two requests of 1), a gateway that answers and no crash.

Three properties hold for the deployed single process and not for two processes
on one database, and are checked with one: `RefundedStaysRefunded` (in
`ServiceRefinement`, where `execute` may die after the refund is linked, the webhook
closes the case and the client repeats `execute`; with two processes `execute`
writes REFUND_PROCESSING over a REFUNDED the webhook set meanwhile,
`service.py:318`, or FAILED_SAFE when its refresh fails, `service.py:257`),
`AtMostOneVerifier` (a second verification is opened from a state read before the
first was completed, `service.py:148`), and
`AdverseNeedsHuman` (of two completions of one verification the one whose UPDATE
closed nothing still moves the case, `service.py:175`).

**Fairness** (`FairSpec`, for `AcceptedIsSettled` only). Weak for a handler that
has started: its steps do not wait on anyone, and the HTTP client gives up after
15 s, which is the failure branch. Weak for the gateway resolving a refund it
accepted. Strong for the delivery of each event, since Razorpay repeats an event
until it is acknowledged, so a busy server gets round to it. Nothing is assumed
of clients: nobody has to approve or execute anything.

**Differences between documents and code** met while modelling. They are either
about things no property here can state without the arithmetic that was
abstracted, or stated above as a limit of a property:

- `ARCHITECTURE.md:39` says technical failures use a likelihood ratio of 1.0. In
  v1 an unavailable verifier is INCONCLUSIVE (`order_integrity.py:32`), whose
  ratio is estimated within 4/5 and 5/4; v2 does use 1. The service is not
  affected, as it sends every inconclusive case to RETURN_FIRST; in the offline
  evaluation of v1 a ratio below 1 can approve such a case.
- `POLICY_CARD.md:23` asks for a named human for inconsistent cases; v2's
  evaluation ends them in RETURN_FIRST (`After`). The service, which serves v1,
  asks for one.
- `ARCHITECTURE.md:27` promises strict event cutoffs for v2 features; the
  denominator of the peer rate is every order of `orders.csv`, later ones
  included (`v2/features.py:155`, `catalogue` in `RowV2`). It is one number for
  all rows of a table, and `RowsArePointInTime` says nothing of it.
- `configs/features.yaml` and `configs/v2/features.yaml` give the cutoff rule
  `requested_at < decision_time`. Both engines walk the requests in the order of
  (time, id) and count what they have walked past, and so a same-instant request
  of a lower id as well (`features/engine.py:57-65,102`, `v2/features.py:146-151`).
  `RowsArePointInTime` states what the engines do, with the two parts named: `Past` is the
  configurations' rule, `Tied` what the code adds to it. The instance has ties, so
  with `Earlier` as `Past` alone the run would fail. The maturity rule,
  `outcome_available_at < decision_time`, is kept to the letter.
- `ARCHITECTURE.md:33` says the evaluator loads only frozen artifacts. v1 loads
  the model and the policy that are on disk (`evaluation/final.py:78`), v2 the
  configuration that is on disk (`v2/final.py:120`); for v2's model and policy it
  holds, and is proved for one builder (`FrozenIsEvaluated`).

Other things the models show of the code: with the deployed costs RETURN_FIRST is
never cheaper than VERIFY for any score (`Middle`); a score on both the
approve and the review threshold is approved in v1 and reviewed in v2; v1 prices and limits
the actions of stage A, v2 the final ones.

## 4. Proofs

Assumptions on the constants: `AmountAssumption` (amounts are positive: `api.py:33`
takes any integer, but `evaluate_payment_integrity` refuses one that is not positive,
`payment_integrity.py:33`, before scoring and again before any reservation, so such a
request moves no money and is no member of `Requests`), `TotalAssumption` (a sum over
disjoint sets adds up), `WorkersAssumption`, `GatewayAssumption`,
`BoundAssumption`, `NothingAssumption`, `MoneyAssumption` (the first ones again, for
the service), and the
`AbsentAssumption` of the two benchmarks (no file is different from any file).
`PolicySelection` assumes what the configuration, the estimator and the data
loaders give it: costs are natural numbers, the smoothing constant is positive and
the salvage rate at most 100% (`CostsAssumption`), quantiles lie in 0 to 1000
thousandths (`GridAssumption`), a frame is a non-empty sequence of rows in order of
score with positive amounts (`FramesAssumption`, `AmountsAssumption`), supports are
counts (`SupportsAssumption`), the clipping bound is below one
(`ScaleAssumption`), and `None` is no contract, result or table of ratios
(`NoneAssumption`). Nothing is assumed of the number of rows, contracts, requests,
payments, processes, tickets, configurations or deaths. Where a theorem needs one
process, one publisher or a relation between costs, the hypothesis is in its
statement (`OneProcess`, `OnePublisher`, `VerifyingIsCheaper`).

`RefundExecutionProofs`
: `TypeCorrect`, `DispatchedOnce`, `SuccessesAreReal`, `SettledIsFinal`,
  `TakenMoneyIsBooked`, all for any number of processes, crashes and lost replies.
  `AtMostOneDispatch` is not inductive: nothing in it says why a second
  `execute` fails. The invariant `IInv` adds *ownership* (a worker between
  `Reserve` and `Publish` is the only one there for its request, its row is
  active or was settled by a webhook, and a row that is not there was never
  dispatched) and *truth* (what a handler at each step, and each table, may say
  given what the gateway keeps). `StepKeeps` goes action by action.
  These results hold of `OpenSpec` too, the money path beside somebody else who
  writes case states: `CasesMove` changes them at will, but refunds no case and
  touches no money table. That is the form in which the service uses them.
  `TakenMoneyIsBooked` needs `Booking`: a refund the gateway keeps is on the way to its
  row in the handler that asked for it, linked, or lost, and a lost one is past every
  step that could link or record it.
  `RefundedIsFinal`, for one process: the case of an `execute` in flight was
  approved when it began, so its late writes never meet a refunded case.

`RefundMoneyProofs`
: `ReservationsHold`, `NeverOverRefunded`, for a gateway that checks no balance
  (`~AuthoritativeBalance`) and no uploads (with either they are false, see
  section 3), the second one where it always answers (`~LosesReplies`). The invariant `Money` is conservation: recorded balance plus
  succeeded refunds never exceed what was captured, and the balance covers the
  active reservations. The step lemmas are arithmetic over `Total`, with one
  lemma for adding and one for removing a request from a set.
  `KeepsEscrow`: under the same assumptions every step maps to `Hold`, `Move`,
  `Settle` or a stutter. The key step is `Reserve`: what `reserve_refund` sums is
  only the active rows, and `Money` is what makes that enough for `Hold`, which
  counts the paid ones too. These results hold of `OpenSpec` as well (`OpenMoney`,
  `OpenRefunds`, `OpenEscrow`).
  `RoomyRecordsAgree` and `RoomyReconciles` are about the deployed gateway and one
  process in which no handler is cut short. `Records` says how case, ledger and
  execution stand by the step of the handler at work, `Heard` that a recorded
  deciding event which has not settled its row is still in its handler. Both
  rest on a finalization that cannot fail, and so on a covered balance
  (`CoveredRecordsAgree`, `CoveredReconciles` take just that). With an authoritative
  balance that is not a matter of course: `Room` derives it from `Roomy`, a capture of
  at least twice the refunds less the smallest, because each refund but the last
  can be counted by the gateway while pending and again by its row. (`RoomyReconciles`
  also takes `~LosesReplies`: an event of a lost refund settles nothing.)
  `RefundRazorpayDeployed` is the smallest such instance and `RefundSharedPayment`
  what happens without.

`CaseWorkflowProofs`
: For any number of processes: `Typed`, and `ApprovalGrounds` (an approved case
  has an operator's approval on record, or the policy's approval and a passed
  integrity check). `ApprovalInv` carries, for each handler, what it has
  already written and what its next write rests on (`Grounded`). For one process:
  `OneVerifier` and `HumanForAdverse`. Neither is inductive: a verification is
  opened from a state that was read, so `AllInStep` relates each handler's
  place, the case state, the open verifications and the posterior decision.
  With two processes both are false (section 3). `StatesExplained`,
  `NothingStuck` and `TrailIsAPath` hold of the runs in which nothing was cut
  short. Their invariant `Trail` says that a case no handler works on is
  accounted for by its records and its last audit event (`Rested`), and where the
  case of a handler is by the step it is about to take (`Placed`): the handler
  writes the records first, then the state, then the event, so that between two of
  these writes they disagree in a known way.

`ReturnGuardProofs`
: `ApprovalBeforeMoney` for any number of processes, and for one process
  `HumanFirst` and `ServiceRefines`. `CaseHalf` shows that a step of the service
  is, seen from the case tables, a step of `CaseWorkflow`, and `Facts` takes that
  module's lemmas over. `ServiceRefines` needs to know that a scoring,
  verification or review never writes over a case whose money has moved:
  `CasePlaces` says where a case is at each step of its handler, `MoneyPlaces` that
  the money tables are touched only for cases that were approved, and each handler
  step then maps to an approval, a registration, a step of the money path or a
  stutter. `ServiceRefines` carries what is
  proved of one process over to the service, with the states read as
  `RefundState` reads them, which shows those of a moved refund as they are:
  `ServiceRefundsAreFinal`, `ServiceRecordsAgree`, `ServiceReconciles`.
  With several processes the refinement fails: two operators' rulings on one case can
  cross, so that REJECTED_BY_OPERATOR is written over APPROVED. The money tables do not depend on that:
  `ServiceKeepsLedger` shows for any number of processes that every step of the
  service is a step of the money path or a `CasesMove`, on case states of which
  `LedgerState` keeps those the money path names and reads every other as
  RECEIVED. It rests on `CaseWorkflowProofs`: no case handler ever carries
  REFUND_PROCESSING or REFUNDED as its target (`Carries`). From it follow, for any
  number of processes, `ServiceDispatchesOnce`, `ServiceSuccessIsReal`,
  `ServiceSettlesOnce`, `ServiceBooksWhatIsTaken`, and, under the hypotheses of the money
  path, `ServiceCoversReservations`, `ServiceNeverOverRefunds` and `ServiceKeepsEscrow`.

`PolicySelectionProofs`
: `TypeCorrect`, `BestSelected`, `EvidenceDecides` and `CleanEvidence`, whatever
  the costs, the grid, the rows, the supports and the combination of faults. The
  invariant of the first three is `SelectionInv`. Its first part, `SearchTyped`,
  types the search and records that the ratios in use are positive and point the way
  `DirectionsAreValid` tested. `ServedTyped` says where the case being decided
  stands: no second verification. `BestInv` says that `best` is the cheapest
  feasible contract among those tried, the first one where costs tie, and absent
  only if none was feasible; `OneMore` is the step from `tried` to `tried + 1` and
  needs `Steady`, that nothing a candidate depends on changes during the search.
  `TypeOK` needs the cost of a contract to be a number, that is, a sum over rows:
  `SumExists` and `SumType` show by induction on the size of a finite set
  (`NatSetInduction`) that `SumFunction` is defined and natural.
  `EvidenceDecides` is arithmetic over fractions: `PosteriorMoves` (a ratio of at
  most one cannot raise a score, one of at least one cannot lower it, clipping
  included), `OddsKeepsOrder`, and `MiddleIsLinear` (RETURN_FIRST less VERIFY is
  linear in the score). Adverse evidence therefore leaves a challenged score above
  the approval threshold. Consistent evidence lowers it, and it then must not end in
  RETURN_FIRST: `LowerIsVerified` shows this where verifying a legitimate customer
  costs no more than returning first, the hypothesis `VerifyingIsCheaper`.
  The deployed costs satisfy it (70 against 115 rupees,
  `configs/policy.yaml`; `MCPolicySelection` checks it of the costs the run uses), and
  with a dearer verification a lowered score can turn VERIFY into RETURN_FIRST.
  `CleanEvidence` has an invariant of its own. Its lemmas say that `Integrity` is
  consistent exactly if there is no fault, and that `Served` approves only then.

`FeatureReplayProofs`
: `ReplayTyped`, `PointInTime`, `DevelopmentReproduced`, `TimeOrdersPartitions`,
  for any tables, windows, clock and number of requests. `ReplayInv` says that the
  claims entered so far are a prefix of the replay order, that the heap and the
  matured outcomes divide them, and that each row is `Row` of the past and the
  matured part of its request. In v1 a heap is drained by its own customer's
  requests only; `NextMatured` shows that what a row reads is nevertheless
  what had matured. The results on the split come from one fact: `Rank`
  counts what sorts before a request, so it is strictly monotone in the order.

`BenchmarkPipelineProofs`
: `TypeCorrect`, `TruthIsOpenedOnce`, `OpeningIsRecorded`, `ResultsStay`, for any
  number of builders, evaluators, configurations and deaths, and
  `FrozenIsEvaluated` for one builder. `OpenedOnce` needs `OneOpener` (the
  process past `mkdir` is alone), `InOrder` (mark, open, write, each once) and
  `SealedOnce` (no generator seals again what was opened). `EvaluatesFrozen`
  needs `StillAsFrozen`: after a freeze no command that writes the model or the
  policy runs or can start, which is where one builder is used, since two
  trainings side by side both find no `selection.json`. `FreezeCoheres`, for one
  builder and no command that died: `Coherent` says by the running command which
  files belong together, and a dead `prepare` or `train` is what breaks it.

`LegacyBenchmarkProofs`
: `TruthOpenedOnce`, `FrozenBlind`, `FrozenReproduces` for any number of
  everything; `FilesAreTyped`, `OriginalStays`, `PassOfOneRun` for one publisher.
  The seal says nothing here (it is renewed by generating again): what keeps the
  truth closed is the directory made by `mkdir`, so `OpenInv` counts openings by
  it, has at most one evaluator past it, and says that what that evaluator carries
  was frozen blind. `LocksInv` lists the states an interrupted upgrade leaves the
  two locks in. With two publishers the lock that was set aside can be
  overwritten by a second upgrade (`results.py:49-50`).

Model-checked only: `AcceptedIsSettled`, since TLAPS proves neither liveness under
fairness nor anything about `ENABLED`. Every other property of a passing run is
stated by a theorem, some under the hypotheses named above.

## 5. Not modelled

- **Dashboard**: a client of the HTTP API; what it can send is what the handlers
  are modelled for.
- **Configuration, CLI and scripts**: loading, wiring and printing. What a
  command does is modelled with the component it calls.
- **Model arithmetic**: fitting, calibration, explanations, metrics, slices and
  robustness numbers. They are numeric and share no state; which files they read
  and write, and in which order, is modelled.
- **Generators and UCI ingestion**: random draws and a workbook reader. Their
  sealing, redaction and order of files is in the two benchmarks, the tables they
  can produce are inputs of `FeatureReplay`.
- **Reason codes and audit events of the money path**: text for reports. No branch
  reads them.
- **Evaluation endpoints, health and metrics routes**: reads, and a table
  (`evaluation_runs`) nothing else reads.
- **A crash of `select_policy` that leaves old likelihoods beside a new contract**
  (`policy/selection.py:205`): `made` in `LegacyBenchmark` says which of these files
  exist and not which run they are of.
- **Two upgrades of the results lock at once**: one publisher is modelled by TLC
  and named in the theorems.

## 6. Plan

Done, in this order: the money path and its escrow; the case workflow; the service
and its refinement; both benchmarks with their one opening; the policy; the
feature replays; and the proofs of section 4.

Left: `Total` as a defined sum, so that `TotalAssumption` becomes a lemma (as
`PolicySelectionProofs` does for its sums); what a dead `prepare`, `train` or
`select_policy` leaves behind as runs of a file rather than its existence
(`policy/selection.py:205`); and the reason codes of `payment_integrity.py` as an
order of checks, should a client ever branch on them.
