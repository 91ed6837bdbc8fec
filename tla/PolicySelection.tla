-------------------------- MODULE PolicySelection --------------------------
(***************************************************************************)
(* The decision policy of the two benchmarks, from selection to use: the   *)
(* verifier's likelihood ratios are estimated, the grid of thresholds is   *)
(* searched on the policy_selection rows for the cheapest contract within  *)
(* the limits, and the contract then decides cases, once on the score and  *)
(* once more on the verifier's answer.                                     *)
(*                                                                         *)
(* A probability, a threshold and a likelihood ratio are fractions <<n, d>> *)
(* with d > 0, compared exactly; the code computes in floating point.      *)
(* Costs are integers: paise times a constant, the same for all costs.     *)
(***************************************************************************)
EXTENDS Integers, Sequences, FiniteSets, FiniteSetsExt

CONSTANTS
    Costs,     \* the costs, rates and limits of configs/policy.yaml and configs/v2/policy.yaml
    Grid,      \* per lane the pairs of quantiles tried, in order, in thousandths
    Scale,     \* scores are fractions of Scale
    Edge,      \* scores and priors are clipped to 1/Edge and 1 - 1/Edge
    Frames,    \* per lane the policy_selection rows, sorted by score
    Supports,  \* per lane how often the verifier gave each result
    Amounts,   \* amounts requested of the deployed policy
    MaxFaults, \* bound: faults the verifier finds in one case
    None       \* no contract, no case

Lanes == {"v1", "v2"}
Actions == {"AUTO_APPROVE", "VERIFY", "RETURN_FIRST", "MANUAL_REVIEW"}

\* What verify_order_integrity can object to.
Unknowns == {"expired", "no_verifier", "no_order", "no_delivery_status", "no_evidence"}
Inconsistencies == {"mismatch", "not_captured", "over_balance", "over_quantity", "bad_token"}
Faults == Unknowns \cup Inconsistencies

Results(lane) ==
    IF lane = "v1" THEN {"consistent", "inconsistent", "inconclusive", "expired"}
    ELSE {"consistent", "inconsistent", "evidence_inconclusive", "verifier_unavailable",
          "verifier_timeout"}
Technical == {"verifier_unavailable", "verifier_timeout"}

CostNames == {"verification", "review", "verificationFriction", "reviewFriction", "delay",
              "logistics", "loss", "salvage", "residual", "maxReview", "maxDelay", "alpha"}

ASSUME CostsAssumption == /\ Costs \in [CostNames -> Nat]
                          /\ Costs.alpha > 0 /\ Costs.salvage <= 100
ASSUME GridAssumption ==
    \A lane \in Lanes : Grid[lane] \in Seq((0 .. 1000) \X (0 .. 1000))
ASSUME ScaleAssumption == Scale \in Nat \ {0} /\ Edge \in Nat /\ Edge > 1

\* predict_proba of either benchmark returns clipped probabilities.
Scores == {score \in 0 .. Scale : Scale <= score * Edge /\ score * Edge <= (Edge - 1) * Scale}
Rows(lane) == [score : Scores, amount : Nat \ {0}, abuse : BOOLEAN, result : Results(lane)]

ASSUME AmountsAssumption == Amounts \subseteq Nat \ {0}
ASSUME FramesAssumption ==
    \A lane \in Lanes : \A frame \in Frames[lane] :
        /\ frame \in Seq(Rows(lane)) /\ frame # <<>>
        /\ \A i, j \in DOMAIN frame : i < j => frame[i].score <= frame[j].score
ASSUME SupportsAssumption ==
    \A lane \in Lanes : Supports[lane] \subseteq [{"abuse", "legitimate"} -> [Results(lane) -> Nat]]

Fractions == {x \in Nat \X Nat : x[2] > 0}
Contracts == [low : Fractions, high : Fractions, cutoff : Nat]

\* None is no contract, no outcome of the search, no result and no table of ratios.
ASSUME NoneAssumption ==
    /\ None \notin Contracts /\ None \notin [cost : Nat, contract : Contracts]
    /\ \A lane \in Lanes : None \notin Results(lane) /\ None \notin [Results(lane) -> Fractions]

VARIABLES
    lane,       \* which benchmark
    phase,      \* "estimate", "search", "chosen", "failed", "deployed"
    support,    \* verifier results on train and calibration, by label
    frame,      \* the policy_selection rows
    ratios,     \* the likelihood ratio of each result
    tried,      \* how many contracts of the grid were tried
    best,       \* the cheapest so far: its cost and contract
    contract,   \* the contract selected
    served      \* the case being decided

selectionVars == <<support, frame, tried, best>>
vars == <<lane, phase, selectionVars, ratios, contract, served>>

Leq(x, y) == x[1] * y[2] <= y[1] * x[2]

-----------------------------------------------------------------------------
(* Likelihood ratios.                                                       *)

Clip(x, low, high) == IF Leq(x, low) THEN low ELSE IF Leq(high, x) THEN high ELSE x
Odds(x) == Clip(x, <<1, Edge>>, <<Edge - 1, Edge>>)

\* Results whose ratio comes from counts; v2 fixes those of technical failures.
Estimated == IF lane = "v1" THEN Results(lane) ELSE Results(lane) \ Technical

\* Laplace smoothing; the rows of technical results are in both denominators.
Empirical(r) ==
    LET Smooth(count) == count + Costs.alpha
        All(label) == SumFunction(support[label]) + Costs.alpha * Cardinality(Estimated)
    IN  <<Smooth(support["abuse"][r]) * All("legitimate"),
          Smooth(support["legitimate"][r]) * All("abuse")>>

Ratio(r) ==
    CASE r \in Technical \cup {"expired"} -> <<1, 1>>
      [] r = "inconclusive" -> Clip(Empirical(r), <<4, 5>>, <<5, 4>>)
      [] OTHER -> Empirical(r)

\* Evidence must move the risk the way its name says.
DirectionsAreValid ==
    /\ ~Leq(<<1, 1>>, Empirical("consistent"))
    /\ ~Leq(Empirical("inconsistent"), <<1, 1>>)
    /\ lane = "v2" => /\ Leq(<<1, 2>>, Empirical("evidence_inconclusive"))
                      /\ Leq(Empirical("evidence_inconclusive"), <<2, 1>>)

\* bayesian_update and posterior_probability: v2 does not clip the outcome.
Posterior(p, ratio) ==
    LET prior == Odds(p)
        up == prior[1] * ratio[1]
        posterior == <<up, up + (prior[2] - prior[1]) * ratio[2]>>
    IN  IF lane = "v1" THEN Odds(posterior) ELSE posterior

-----------------------------------------------------------------------------
(* What a contract [low, high, cutoff] decides.                             *)

\* VERIFY unless RETURN_FIRST is expected to cost less.
Middle(p, amount) ==
    LET exposure == p[1] * amount * (100 + Costs.loss)
        legitimate == p[2] - p[1]
        Cost(fixed, friction, lost) ==
            10000 * (p[2] * fixed + legitimate * friction) + exposure * lost
    IN  IF Cost(Costs.verification, Costs.verificationFriction, Costs.residual)
             <= Cost(Costs.logistics, Costs.delay, 100 - Costs.salvage)
        THEN "VERIFY" ELSE "RETURN_FIRST"

\* v1 approves first and reviews large amounts; v2 reviews first.
Stage(c, p, amount) ==
    IF lane = "v1"
    THEN CASE Leq(p, c.low) -> "AUTO_APPROVE"
           [] ~Leq(p, c.low) /\ Leq(c.high, p) /\ amount >= c.cutoff -> "MANUAL_REVIEW"
           [] OTHER -> Middle(p, amount)
    ELSE CASE Leq(c.high, p) -> "MANUAL_REVIEW"
           [] ~Leq(c.high, p) /\ Leq(c.low, p) -> "VERIFY"
           [] OTHER -> "AUTO_APPROVE"

\* Mutant: the contract is applied to the posterior and left at that.
AfterAgain(c, p, amount, r) == Stage(c, Posterior(p, ratios[r]), amount)

\* What a verified case comes to, in selection and in the final evaluation: v1
\* applies the contract to the posterior, v2 goes by the result alone.
After(c, p, amount, r) ==
    IF lane = "v1"
    THEN LET again == Stage(c, Posterior(p, ratios[r]), amount)
         IN  CASE again # "VERIFY" -> again
               [] again = "VERIFY" /\ r = "consistent" -> "AUTO_APPROVE"
               [] OTHER -> "RETURN_FIRST"
    ELSE CASE r = "consistent" -> "AUTO_APPROVE"
           [] r = "inconsistent" -> "RETURN_FIRST"
           [] OTHER -> "MANUAL_REVIEW"

\* Mutant: the service follows the posterior whatever the result.
ServedPosterior(c, p, amount, r) == After(c, p, amount, r)

\* The service puts its own rule over that of v1; v2 is not served.
Served(c, p, amount, r) ==
    CASE lane = "v1" /\ r = "inconsistent" -> "MANUAL_REVIEW"
      [] lane = "v1" /\ r \in {"inconclusive", "expired"} -> "RETURN_FIRST"
      [] OTHER -> After(c, p, amount, r)

\* verify_order_integrity: a missing fact hides the inconsistencies found before it.
Integrity(faults) ==
    CASE "no_verifier" \in faults -> "inconclusive"
      [] "no_verifier" \notin faults /\ "expired" \in faults -> "expired"
      [] faults \cap {"no_verifier", "expired"} = {} /\ faults \cap Unknowns # {} -> "inconclusive"
      [] faults \cap Unknowns = {} /\ faults # {} -> "inconsistent"
      [] OTHER -> "consistent"

-----------------------------------------------------------------------------
(* The search.                                                              *)

Score(i) == <<frame[i].score, Scale>>

\* np.quantile with linear interpolation, q in thousandths.
Quantile(q) ==
    LET at == (Len(frame) - 1) * q
        low == frame[at \div 1000 + 1].score
        high == frame[IF at % 1000 = 0 THEN at \div 1000 + 1 ELSE at \div 1000 + 2].score
    IN  <<1000 * low + (at % 1000) * (high - low), 1000 * Scale>>

\* The smallest amount reviewed, when more rows are eligible than capacity holds.
Cutoff(high) ==
    LET eligible == {i \in DOMAIN frame : Leq(high, Score(i))}
        share == (Costs.maxReview * Len(frame)) \div 1000
        capacity == IF share < 1 THEN 1 ELSE share
        AtLeast(a) == Cardinality({i \in eligible : frame[i].amount >= a})
    IN  IF Cardinality(eligible) <= capacity THEN 0
        ELSE Max({a \in {frame[i].amount : i \in eligible} : AtLeast(a) >= capacity})

Candidate(k) ==
    LET high == Quantile(Grid[lane][k][2])
    IN  [low |-> Quantile(Grid[lane][k][1]), high |-> high,
         cutoff |-> IF lane = "v1" THEN Cutoff(high) ELSE 0]

StageOf(c, i) == Stage(c, Score(i), frame[i].amount)
FinalOf(c, i) ==
    IF StageOf(c, i) = "VERIFY" THEN After(c, Score(i), frame[i].amount, frame[i].result)
    ELSE StageOf(c, i)

Exposure(i) == 100 * frame[i].amount * (100 + Costs.loss)

\* _realized_cost: v1 prices the actions of stage A.
RealizedCost(c) ==
    LET Cost == [i \in DOMAIN frame |->
          LET abuse == frame[i].abuse
          IN  CASE StageOf(c, i) = "AUTO_APPROVE" -> IF abuse THEN Exposure(i) ELSE 0
                [] StageOf(c, i) = "VERIFY" ->
                     10000 * (Costs.verification + IF abuse THEN 0 ELSE Costs.verificationFriction)
                [] StageOf(c, i) = "RETURN_FIRST" ->
                     10000 * Costs.logistics
                       + IF abuse THEN frame[i].amount * (100 + Costs.loss) * (100 - Costs.salvage)
                         ELSE 10000 * Costs.delay
                [] OTHER -> 10000 * (Costs.review + IF abuse THEN 0 ELSE Costs.reviewFriction)]
    IN  SumFunction(Cost)

\* policy_metrics: v2 prices the final actions and every challenge.
ModeledCost(c) ==
    LET Cost == [i \in DOMAIN frame |->
          LET abuse == frame[i].abuse
              challenged == StageOf(c, i) # "AUTO_APPROVE"
              reviewed == FinalOf(c, i) = "MANUAL_REVIEW"
          IN  (IF abuse /\ FinalOf(c, i) = "AUTO_APPROVE" THEN Exposure(i) ELSE 0)
                + 10000 * ((IF challenged THEN Costs.verification ELSE 0)
                  + (IF reviewed THEN Costs.review ELSE 0)
                  + (IF ~abuse /\ challenged THEN Costs.verificationFriction ELSE 0)
                  + (IF ~abuse /\ reviewed THEN Costs.reviewFriction + Costs.delay ELSE 0)
                  + (IF FinalOf(c, i) = "RETURN_FIRST" THEN Costs.logistics ELSE 0))]
    IN  SumFunction(Cost)

CostOf(c) == IF lane = "v1" THEN RealizedCost(c) ELSE ModeledCost(c)

\* The limits on reviews and on legitimate customers held up.  A rate over no
\* legitimate row is NaN, and NaN is within no limit.
Feasible(c) ==
    LET Action(i) == IF lane = "v1" THEN StageOf(c, i) ELSE FinalOf(c, i)
        reviewed == {i \in DOMAIN frame : Action(i) = "MANUAL_REVIEW"}
        legitimate == {i \in DOMAIN frame : ~frame[i].abuse}
        heldUp == {i \in legitimate : StageOf(c, i) # "AUTO_APPROVE"}
    IN  /\ 1000 * Cardinality(reviewed) <= Costs.maxReview * Len(frame)
        /\ legitimate # {}
        /\ 1000 * Cardinality(heldUp) <= Costs.maxDelay * Cardinality(legitimate)

-----------------------------------------------------------------------------
Init ==
    /\ lane \in Lanes
    /\ phase = "estimate"
    /\ support \in Supports[lane]
    /\ frame \in Frames[lane]
    /\ ratios = None /\ tried = 0 /\ best = None /\ contract = None
    /\ served = None

\* Mutant: directions are not checked.
EstimateUnchecked ==
    /\ phase = "estimate"
    /\ ratios' = [r \in Results(lane) |-> Ratio(r)]
    /\ phase' = "search"
    /\ UNCHANGED <<lane, selectionVars, contract, served>>

Estimate ==
    /\ phase = "estimate"
    /\ IF DirectionsAreValid
       THEN ratios' = [r \in Results(lane) |-> Ratio(r)] /\ phase' = "search"
       ELSE UNCHANGED ratios /\ phase' = "failed"
    /\ UNCHANGED <<lane, selectionVars, contract, served>>

\* Mutant: of equally cheap contracts the last is kept.
TryLast ==
    /\ phase = "search" /\ tried < Len(Grid[lane])
    /\ tried' = tried + 1
    /\ LET c == Candidate(tried + 1)
       IN  best' = IF Feasible(c) /\ (best # None => CostOf(c) <= best.cost)
                   THEN [cost |-> CostOf(c), contract |-> c] ELSE best
    /\ UNCHANGED <<lane, phase, support, frame, ratios, contract, served>>

\* One contract of the grid.
Try ==
    /\ phase = "search" /\ tried < Len(Grid[lane])
    /\ tried' = tried + 1
    /\ LET c == Candidate(tried + 1)
       IN  best' = IF Feasible(c) /\ (best # None => CostOf(c) < best.cost)
                   THEN [cost |-> CostOf(c), contract |-> c] ELSE best
    /\ UNCHANGED <<lane, phase, support, frame, ratios, contract, served>>

Choose ==
    /\ phase = "search" /\ tried = Len(Grid[lane])
    /\ phase' = IF best = None THEN "failed" ELSE "chosen"
    /\ contract' = IF best = None THEN None ELSE best.contract
    /\ UNCHANGED <<lane, selectionVars, ratios, served>>

\* policy.json and the likelihoods are all that is left of the selection.
Deploy ==
    /\ phase = "chosen"
    /\ phase' = "deployed"
    /\ frame' = <<>> /\ support' = None /\ tried' = 0 /\ best' = None
    /\ UNCHANGED <<lane, ratios, contract, served>>

ScoreCase(score, amount) ==
    /\ phase = "deployed" /\ served = None
    /\ LET stage == Stage(contract, <<score, Scale>>, amount)
       IN  served' = [score |-> score, amount |-> amount, stage |-> stage,
                      faults |-> {}, result |-> None, final |-> stage]
    /\ UNCHANGED <<lane, phase, selectionVars, ratios, contract>>

\* The verifier's answer to a case that was sent to it.
Complete(faults, result) ==
    /\ served # None /\ served.stage = "VERIFY" /\ served.result = None
    /\ served' = [served EXCEPT !.faults = faults, !.result = result,
                                !.final = Served(contract, <<served.score, Scale>>,
                                                 served.amount, result)]
    /\ UNCHANGED <<lane, phase, selectionVars, ratios, contract>>

\* v1 verifies the facts; in v2 the result is a column of the data.
Verify ==
    \/ /\ lane = "v1"
       /\ \E faults \in SUBSET Faults : 
            Cardinality(faults) <= MaxFaults /\ Complete(faults, Integrity(faults))
    \/ /\ lane = "v2"
       /\ \E result \in Results("v2") : Complete({}, result)

NextCase ==
    /\ served # None
    /\ served' = None
    /\ UNCHANGED <<lane, phase, selectionVars, ratios, contract>>

Next ==
    \/ Estimate \/ Try \/ Choose \/ Deploy \/ Verify \/ NextCase
    \/ \E score \in Scores, amount \in Amounts : ScoreCase(score, amount)

Spec == Init /\ [][Next]_vars

-----------------------------------------------------------------------------
(* Properties.                                                              *)

Cases == [score : Scores, amount : Amounts, stage : Actions, faults : SUBSET Faults,
          result : (UNION {Results(l) : l \in Lanes}) \cup {None}, final : Actions]

\* Types; and a verified case is decided: no second verification.
TypeOK ==
    /\ lane \in Lanes
    /\ phase \in {"estimate", "search", "chosen", "failed", "deployed"}
    /\ ratios = None \/ \A r \in Results(lane) : ratios[r][1] > 0 /\ ratios[r][2] > 0
    /\ tried \in 0 .. Len(Grid[lane])
    /\ \A c \in ({contract} \cup IF best = None THEN {} ELSE {best.contract}) \ {None} :
         c \in Contracts
    /\ phase \in {"chosen", "deployed"} <=> contract # None
    /\ served # None => /\ served \in Cases
                        /\ served.result # None => served.final # "VERIFY"

\* The search ends with the first of the cheapest contracts of the whole grid
\* within both limits, and with none exactly when the grid holds none.
SelectionIsBest ==
    LET Within == {k \in DOMAIN Grid[lane] : Feasible(Candidate(k))}
        Cheapest == {k \in Within : \A j \in Within : CostOf(Candidate(k)) <= CostOf(Candidate(j))}
    IN  /\ phase = "chosen" => /\ Cheapest # {}
                               /\ contract = Candidate(Min(Cheapest))
        /\ phase = "failed" /\ ratios # None => Within = {}

\* A challenged case is approved without a human only if the verifier found
\* nothing at all, whatever the score, the contract and the estimated ratios.
OnlyCleanEvidenceApproves ==
    served # None /\ served.stage = "VERIFY" /\ served.final = "AUTO_APPROVE" =>
        served.faults = {} /\ served.result = "consistent"

\* Verifying a legitimate customer costs no more than a return first, as under
\* the costs of configs/policy.yaml.
VerifyingIsCheaper ==
    Costs.verification + Costs.verificationFriction <= Costs.logistics + Costs.delay

\* Under such costs the evidence decides, not the score.  Consistent
\* evidence clears a challenged case: the lowered score can neither reach a
\* review nor come out cheaper as a return.  And neither evaluation approves one
\* on adverse evidence or a technical failure, although v1 has no rule for them
\* and goes by the score it comes to.
EvidencePrevails ==
    served # None /\ served.stage = "VERIFY" =>
        /\ served.result = "consistent" => served.final = "AUTO_APPROVE"
        /\ \A r \in Results(lane) \cap ({"inconsistent", "expired"} \cup Technical) :
             After(contract, <<served.score, Scale>>, served.amount, r) # "AUTO_APPROVE"
=============================================================================
