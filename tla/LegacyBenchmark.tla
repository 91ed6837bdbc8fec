-------------------------- MODULE LegacyBenchmark --------------------------
(***************************************************************************)
(* The v1 benchmark and its published results: the commands that generate  *)
(* and seal the data, train, select the policy, export the bundle, freeze, *)
(* evaluate the final truth once, upgrade the results lock, correct its    *)
(* metrics and publish them.                                               *)
(*                                                                         *)
(* Unlike those of v2 the commands overwrite what they wrote before.  The  *)
(* state is the files; a file is what it was made from.  The generator is  *)
(* seeded, so all data sets are equal and only their presence matters.  A  *)
(* command may die between any two of its writes.                          *)
(***************************************************************************)
EXTENDS Naturals

CONSTANTS
    Builders,     \* terminals that generate, train, select, export and freeze
    Evaluators,   \* terminals running evaluate_final
    Publishers,   \* terminals running finalize_results, publish and correct
    Configs,      \* contents of configs/model.yaml
    Absent,       \* no such file
    MaxCrashes,   \* bound: commands that die halfway
    MaxEdits      \* bound: edits of the configuration, and clean-ups

Terminals == Builders \cup Evaluators \cup Publishers

ASSUME RolesAssumption ==
    /\ Builders \cap Evaluators = {} /\ Builders \cap Publishers = {}
    /\ Evaluators \cap Publishers = {}

Models == Configs \cup {Absent}
Files == [model : Configs, golden : Configs]
Freezes == [model : Configs, bundle : Files, blind : BOOLEAN]
CaseSets == [model : Configs, freeze : Freezes]
Results == [schema : {1, 2}, cases : CaseSets]

ASSUME AbsentAssumption == Absent \notin Configs /\ Absent \notin CaseSets /\ Absent \notin Results
ASSUME BoundsAssumption == MaxCrashes \in Nat /\ MaxEdits \in Nat

VARIABLES
    config,       \* the configuration
    data,         \* artifacts/data_uci: "none", "tables", "published" (with metadata)
    lock,         \* manifest.json beside the final truth: "none", "SEALED", "OPENED"
    model,        \* model_pipeline.joblib: the configuration it was trained with
    predictions,  \* development_predictions.parquet: the model they are of
    made,         \* which other files of training, baselines and selection exist
    bundle,       \* model_bundle: its files, and the files its manifest hashes
    freeze,       \* freeze_manifest.json
    openedDir,    \* does final_results/opened_data exist
    cases,        \* final_case_results.parquet
    results,      \* final_results/results.lock.json
    preserved,    \* final_results/results.v1.lock.json
    public,       \* results.lock.json of the repository
    audit, transitions, \* evidence/v1_case_audit.csv, v1_policy_transitions.csv
    correction,   \* results.metric_integrity.v1.1.json
    submission,   \* submission_manifest.json
    openings,     \* how often the final truth was merged into the data
    first,        \* the first evaluation ever written to a results lock
    job,          \* the command each terminal runs, and its locals
    crashes, edits \* what the bounds count

dataVars == <<data, lock>>
trainVars == <<model, predictions, made>>
buildVars == <<config, dataVars, trainVars, bundle, freeze, edits>>
finalVars == <<openedDir, cases, results, openings, first>>
publicVars == <<public, audit, transitions, correction, submission>>
others == <<finalVars, preserved, publicVars, crashes>>
vars == <<buildVars, finalVars, preserved, publicVars, job, crashes>>

Idle == [step |-> "idle", read |-> Absent]
At(t, s) == job[t].step = s
Goto(t, s) == job' = [job EXCEPT ![t].step = s]
Return(t) == job' = [job EXCEPT ![t] = Idle]
Start(t, s, read) == At(t, "idle") /\ job' = [job EXCEPT ![t] = [step |-> s, read |-> read]]

Init ==
    /\ config \in Configs
    /\ data = "none" /\ lock = "none"
    /\ model = Absent /\ predictions = Absent /\ made = {}
    /\ bundle = [files |-> Absent, manifest |-> Absent]
    /\ freeze = Absent
    /\ openedDir = FALSE /\ cases = Absent /\ results = Absent /\ preserved = Absent
    /\ public = Absent /\ audit = Absent /\ transitions = Absent
    /\ correction = Absent /\ submission = Absent
    /\ openings = 0 /\ first = Absent
    /\ job = [t \in Terminals |-> Idle]
    /\ crashes = 0 /\ edits = 0

-----------------------------------------------------------------------------
(* generate_benchmark: directories may exist; the manifest is sealed anew.  *)

Seal(t) ==
    /\ Start(t, "tables", Absent)
    /\ lock' = "SEALED"
    /\ UNCHANGED <<config, data, trainVars, bundle, freeze, edits, others>>

Tables(t) ==
    /\ At(t, "tables")
    /\ data' = IF data = "published" THEN data ELSE "tables"
    /\ Goto(t, "metadata")
    /\ UNCHANGED <<config, lock, trainVars, bundle, freeze, edits, others>>

Metadata(t) ==
    /\ At(t, "metadata")
    /\ data' = "published"
    /\ Return(t)
    /\ UNCHANGED <<config, lock, trainVars, bundle, freeze, edits, others>>

\* clean_artifacts: everything that can be generated, and no result.
Clean(t) ==
    /\ At(t, "idle")
    /\ edits < MaxEdits
    /\ edits' = edits + 1
    /\ data' = "none" /\ lock' = "none" /\ made' = made \ {"rules", "baselines"}
    /\ UNCHANGED <<config, model, predictions, bundle, freeze, job, others>>

-----------------------------------------------------------------------------
(* Training, baselines, policy selection and robustness.                    *)

Make(file) ==
    /\ made' = made \cup {file}
    /\ UNCHANGED <<config, dataVars, model, predictions, bundle, freeze, edits, others>>

Dump(t) ==
    /\ data # "none"
    /\ model' = config
    /\ Start(t, "predictions", config)
    /\ UNCHANGED <<config, dataVars, predictions, made, bundle, freeze, edits, others>>

Predictions(t) ==
    /\ At(t, "predictions")
    /\ predictions' = job[t].read
    /\ Goto(t, "metrics")
    /\ UNCHANGED <<config, dataVars, model, made, bundle, freeze, edits, others>>

Metrics(t) == At(t, "metrics") /\ Make("training metrics") /\ Return(t)

BaselinePredictions(t) == data # "none" /\ Make("rules") /\ Start(t, "fit", Absent)

BaselineFit(t) == At(t, "fit") /\ Make("baselines") /\ Return(t)

\* select_policy: the contract, the likelihoods, the report.
SelectPolicy(t) ==
    /\ data # "none" /\ model # Absent /\ "rules" \in made
    /\ Make("policy")
    /\ Start(t, "likelihoods", Absent)

Likelihoods(t) == At(t, "likelihoods") /\ Make("likelihoods") /\ Goto(t, "selection")

SelectionReport(t) == At(t, "selection") /\ Make("selection") /\ Return(t)

Robustness(t) ==
    /\ At(t, "idle")
    /\ data # "none" /\ model # Absent /\ "policy" \in made
    /\ Make("robustness") /\ UNCHANGED job

-----------------------------------------------------------------------------
(* The bundle and the freeze.                                               *)

\* The files are hashed as written, and the model reproduces its golden
\* predictions; two models trained differently predict differently.
BundleIsValid ==
    /\ bundle.manifest # Absent /\ bundle.manifest = bundle.files
    /\ bundle.files.golden = bundle.files.model

\* export_bundle: the files, then the manifest; it validates at the end, too
\* late to undo anything.
ExportFiles(t) ==
    /\ data # "none"
    /\ {"training metrics", "policy", "likelihoods", "selection", "robustness"} \subseteq made
    /\ bundle' = [bundle EXCEPT !.files = [model |-> model, golden |-> predictions]]
    /\ Start(t, "manifest", Absent)
    /\ UNCHANGED <<config, dataVars, trainVars, freeze, edits, others>>

ExportManifest(t) ==
    /\ At(t, "manifest")
    /\ bundle' = [bundle EXCEPT !.manifest = bundle.files]
    /\ Return(t)
    /\ UNCHANGED <<config, dataVars, trainVars, freeze, edits, others>>

\* Mutant: only the hashes of the bundle are checked.
FreezeHashed(t) ==
    /\ At(t, "idle")
    /\ data = "published" /\ lock = "SEALED"
    /\ bundle.manifest # Absent /\ bundle.manifest = bundle.files
    /\ freeze' = [model |-> model, bundle |-> bundle.manifest, blind |-> openings = 0]
    /\ UNCHANGED <<config, dataVars, trainVars, bundle, edits, job, others>>

\* freeze_pre_final; "blind" records whether the final truth was still unread.
FreezePreFinal(t) ==
    /\ At(t, "idle")
    /\ data = "published" /\ lock = "SEALED" /\ BundleIsValid
    /\ freeze' = [model |-> model, bundle |-> bundle.manifest, blind |-> openings = 0]
    /\ UNCHANGED <<config, dataVars, trainVars, bundle, edits, job, others>>

-----------------------------------------------------------------------------
(* evaluate_final_once.                                                     *)

EvaluateBegin(t) ==
    /\ results = Absent /\ freeze # Absent /\ lock = "SEALED"
    /\ Start(t, "open", freeze)
    /\ UNCHANGED <<buildVars, finalVars, preserved, publicVars, crashes>>

\* Mutant: the directory may exist.
OpenDataAgain(t) ==
    /\ At(t, "open")
    /\ openedDir' = TRUE
    /\ openings' = openings + 1
    /\ IF data # "none" THEN Goto(t, "score") ELSE Return(t)
    /\ UNCHANGED <<buildVars, cases, results, first, preserved, publicVars, crashes>>

\* mkdir without exist_ok: at most one evaluator gets past it, ever.
OpenData(t) ==
    /\ At(t, "open")
    /\ IF openedDir
       THEN Return(t) /\ UNCHANGED <<openedDir, openings>>
       ELSE /\ openedDir' = TRUE
            /\ openings' = openings + 1
            /\ IF data # "none" THEN Goto(t, "score") ELSE Return(t)
    /\ UNCHANGED <<buildVars, cases, results, first, preserved, publicVars, crashes>>

\* The model, the policy and the baselines are those on disk by now.
Score(t) ==
    /\ At(t, "score")
    /\ IF model # Absent /\ {"policy", "likelihoods", "baselines"} \subseteq made
       THEN /\ cases' = [model |-> model, freeze |-> job[t].read]
            /\ job' = [job EXCEPT ![t] = [step |-> "lock", read |-> cases']]
       ELSE Return(t) /\ UNCHANGED cases
    /\ UNCHANGED <<buildVars, openedDir, results, openings, first, preserved, publicVars, crashes>>

ResultsLock(t) ==
    /\ At(t, "lock")
    /\ results' = [schema |-> 1, cases |-> job[t].read]
    /\ first' = IF first = Absent THEN job[t].read ELSE first
    /\ Goto(t, "mark")
    /\ UNCHANGED <<buildVars, openedDir, cases, openings, preserved, publicVars, crashes>>

\* The manifest is written back, if its directory is still there.
MarkOpened(t) ==
    /\ At(t, "mark")
    /\ lock' = IF lock = "none" THEN "none" ELSE "OPENED"
    /\ Return(t)
    /\ UNCHANGED <<config, data, trainVars, bundle, freeze, edits, finalVars,
                   preserved, publicVars, crashes>>

-----------------------------------------------------------------------------
(* upgrade_results_lock: the lock of schema 1 is set aside, then replaced.  *)

\* Mutant: every upgrade sets the lock it finds aside.
UpgradeBeginMoves(t) ==
    /\ results # Absent /\ results.cases = cases
    /\ Start(t, "move", results)
    /\ UNCHANGED <<buildVars, finalVars, preserved, publicVars, crashes>>

UpgradeBegin(t) ==
    /\ ~(preserved # Absent /\ results # Absent)
    /\ LET source == IF preserved # Absent THEN preserved ELSE results
       IN  /\ source # Absent /\ source.cases = cases
           /\ Start(t, IF preserved # Absent THEN "upgrade" ELSE "move", source)
    /\ UNCHANGED <<buildVars, finalVars, preserved, publicVars, crashes>>

Move(t) ==
    /\ At(t, "move")
    /\ preserved' = results /\ results' = Absent
    /\ Goto(t, "upgrade")
    /\ UNCHANGED <<buildVars, openedDir, cases, openings, first, publicVars, crashes>>

Upgrade(t) ==
    /\ At(t, "upgrade")
    /\ results' = [schema |-> 2, cases |-> job[t].read.cases]
    /\ Return(t)
    /\ UNCHANGED <<buildVars, openedDir, cases, openings, first, preserved, publicVars, crashes>>

-----------------------------------------------------------------------------
(* publish_evidence, build_metric_integrity_correction and preflight.       *)

Publish(t) ==
    /\ results # Absent
    /\ public' = results
    /\ Start(t, "submit", Absent)
    /\ UNCHANGED <<buildVars, finalVars, preserved, audit, transitions, correction, submission,
                   crashes>>

Submit(t) ==
    /\ At(t, "submit")
    /\ submission' = [results |-> public, correction |-> correction, audit |-> audit,
                      transitions |-> transitions, bundle |-> bundle.manifest]
    /\ Return(t)
    /\ UNCHANGED <<buildVars, finalVars, preserved, public, audit, transitions, correction,
                   crashes>>

Audit(t) ==
    /\ public # Absent /\ preserved # Absent /\ cases # Absent /\ openedDir
    /\ public.cases = cases
    /\ audit' = cases
    /\ Start(t, "transitions", Absent)
    /\ UNCHANGED <<buildVars, finalVars, preserved, public, transitions, correction, submission,
                   crashes>>

\* Mutant: a lock without a policy section is corrected too.
TransitionsAnyLock(t) ==
    /\ At(t, "transitions")
    /\ IF "policy" \notin made
       THEN Return(t) /\ UNCHANGED transitions
       ELSE transitions' = cases /\ Goto(t, "correct")
    /\ UNCHANGED <<buildVars, finalVars, preserved, public, audit, correction, submission,
                   crashes>>

\* The bands are those of the policy on disk.  A lock of schema 1 has no policy
\* section: the command fails with both tables already replaced.
Transitions(t) ==
    /\ At(t, "transitions")
    /\ IF "policy" \notin made
       THEN Return(t) /\ UNCHANGED transitions
       ELSE /\ transitions' = cases
            /\ IF public.schema = 2 THEN Goto(t, "correct") ELSE Return(t)
    /\ UNCHANGED <<buildVars, finalVars, preserved, public, audit, correction, submission,
                   crashes>>

Correct(t) ==
    /\ At(t, "correct")
    /\ correction' = [results |-> public, preserved |-> preserved, audit |-> audit,
                      transitions |-> transitions]
    /\ Return(t)
    /\ UNCHANGED <<buildVars, finalVars, preserved, public, audit, transitions, submission,
                   crashes>>

\* What scripts/preflight.py compares; it writes nothing.
PreflightPasses ==
    /\ public # Absent /\ public.schema = 2
    /\ submission # Absent /\ correction # Absent
    /\ submission.results = public
    /\ submission.correction = correction
    /\ audit = correction.audit /\ transitions = correction.transitions
    /\ submission.audit = audit /\ submission.transitions = transitions
    /\ data # "none" /\ BundleIsValid
    /\ submission.bundle = bundle.manifest

-----------------------------------------------------------------------------
Die(t) ==
    /\ crashes < MaxCrashes /\ ~At(t, "idle")
    /\ crashes' = crashes + 1
    /\ Return(t)
    /\ UNCHANGED <<buildVars, finalVars, preserved, publicVars>>

Edit ==
    /\ edits < MaxEdits
    /\ edits' = edits + 1
    /\ config' \in Configs \ {config}
    /\ UNCHANGED <<dataVars, trainVars, bundle, freeze, finalVars, preserved,
                   publicVars, job, crashes>>

Next ==
    \/ Edit
    \/ \E t \in Terminals : Die(t)
    \/ \E t \in Builders :
         \/ Seal(t) \/ Tables(t) \/ Metadata(t) \/ Clean(t)
         \/ Dump(t) \/ Predictions(t) \/ Metrics(t)
         \/ BaselinePredictions(t) \/ BaselineFit(t)
         \/ SelectPolicy(t) \/ Likelihoods(t) \/ SelectionReport(t) \/ Robustness(t)
         \/ ExportFiles(t) \/ ExportManifest(t) \/ FreezePreFinal(t)
    \/ \E t \in Evaluators :
         EvaluateBegin(t) \/ OpenData(t) \/ Score(t) \/ ResultsLock(t) \/ MarkOpened(t)
    \/ \E t \in Publishers :
         \/ UpgradeBegin(t) \/ Move(t) \/ Upgrade(t)
         \/ Publish(t) \/ Submit(t) \/ Audit(t) \/ Transitions(t) \/ Correct(t)

Spec == Init /\ [][Next]_vars

-----------------------------------------------------------------------------
(* Properties.                                                              *)

\* Types; a lock that was set aside is of schema 1, one that is published of either.
TypeOK ==
    /\ config \in Configs /\ data \in {"none", "tables", "published"}
    /\ lock \in {"none", "SEALED", "OPENED"}
    /\ model \in Models /\ predictions \in Models
    /\ bundle.files # Absent => bundle.files \in Files
    /\ bundle.manifest # Absent => bundle.manifest \in Files
    /\ freeze # Absent => freeze \in Freezes
    /\ cases # Absent => cases \in CaseSets
    /\ results # Absent => results \in Results
    /\ public # Absent => public \in Results
    /\ preserved # Absent => preserved \in Results /\ preserved.schema = 1

\* The final truth is merged and evaluated at most once, although generating
\* the data again seals the manifest again, an upgrade takes results.lock.json
\* away for a while and an evaluator that died leaves everything sealed.
OpenedAtMostOnce == openings <= 1

\* What was evaluated had been frozen before the final truth was merged into any
\* data.  (The evaluator reads the truth file just before the mkdir that decides
\* who may merge it; what it read and did not merge reached nothing.)
EvaluatedFreezeIsBlind == cases # Absent => cases.freeze.blind

\* The first evaluation stays on disk: in results.lock.json until it is set
\* aside and under its own name ever after, whoever dies in between.
OriginalIsKept ==
    first # Absent =>
        LET original == [schema |-> 1, cases |-> first]
        IN  original \in {results, preserved} /\ cases = first

\* A bundle on record in a freeze reproduces its predictions, even if training
\* died between the model and the predictions it exports them from.
FrozenBundleReproduces == freeze # Absent => freeze.bundle.golden = freeze.bundle.model

\* When preflight passes the correction is of the very lock that is published,
\* though no check compares the two, and both are of the one evaluation.
PassIsOneRun ==
    PreflightPasses => /\ correction.results = public
                       /\ correction.audit = first /\ correction.preserved.cases = first
=============================================================================
