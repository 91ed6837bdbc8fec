------------------------- MODULE BenchmarkPipeline -------------------------
(***************************************************************************)
(* The v2 offline benchmark: the commands that generate the data and seal  *)
(* the final truth, build and audit the features, train, select the        *)
(* policy, freeze, and open the final truth once.                          *)
(*                                                                         *)
(* The state is the files under artifacts/v2.  A file is what it was made  *)
(* from: the configuration, the feature table, the model it read.  Every   *)
(* write that another command can observe is a step, because a command may *)
(* die between two of them and files are all that survives it.  A single   *)
(* file is written whole.                                                  *)
(***************************************************************************)
EXTENDS Naturals

CONSTANTS
    Builders,     \* terminals running the development and freeze commands
    Evaluators,   \* terminals running evaluate_v2_final
    Configs,      \* contents configs/v2 can have
    Leaky,        \* those whose features fail the shortcut audit
    Absent,       \* no such file
    MaxCrashes    \* bound: commands that die halfway

ASSUME LeakyAssumption == Leaky \subseteq Configs
ASSUME TerminalsAssumption == Builders \cap Evaluators = {}
ASSUME CrashAssumption == MaxCrashes \in Nat

VARIABLES
    config,     \* configs/v2, edited by hand between commands
    data,       \* how far data/ got: "none", "dirs", "tables", "published"
    lock,       \* locked_final/manifest.json: its state
    features,   \* development/features.parquet
    audit,      \* development/shortcut_audit.json
    model,      \* training/model.joblib
    selected,   \* does training/selection.json exist
    policy,     \* policy/policy.json
    freeze,     \* freeze_manifest.json: what its hashes are of
    signed,     \* does freeze_manifest.json.sha256 exist
    outputDir,  \* does final_results/ exist
    results,    \* final_results/results.lock.json
    opened,     \* how often the final truth was read
    job,        \* the command each terminal runs, and its locals
    crashes     \* what MaxCrashes counts

dataVars == <<data, lock>>
devVars == <<features, audit, model, selected, policy>>
freezeVars == <<freeze, signed>>
finalVars == <<outputDir, results, opened>>
vars == <<config, dataVars, devVars, freezeVars, finalVars, job, crashes>>

Terminals == Builders \cup Evaluators
Audits == [features : Configs, passed : BOOLEAN]
Models == [features : Configs, config : Configs]
Policies == [model : Models, features : Configs, config : Configs]
Freezes == [features : Configs, audit : Audits, model : Models, policy : Policies,
            config : Configs]
Evaluations == [model : Models, policy : Policies, config : Configs]

ASSUME AbsentAssumption ==
    Absent \notin Configs \cup Audits \cup Models \cup Policies \cup Freezes \cup Evaluations

Idle == [step |-> "idle", config |-> Absent, model |-> Absent, policy |-> Absent]
Steps == {"idle", "seal", "tables", "metadata", "audit", "dump", "select",
          "policy", "freeze", "sign", "mkdir", "mark", "open", "write"}
Jobs == [step : Steps, config : Configs \cup {Absent}, model : Models \cup {Absent},
         policy : Policies \cup {Absent}]

TypeOK ==
    /\ config \in Configs
    /\ data \in {"none", "dirs", "tables", "published"}
    /\ lock \in {"none", "SEALED", "OPENED_ONCE"}
    /\ features \in Configs \cup {Absent}
    /\ audit \in Audits \cup {Absent}
    /\ model \in Models \cup {Absent}
    /\ selected \in BOOLEAN
    /\ policy \in Policies \cup {Absent}
    /\ freeze \in Freezes \cup {Absent}
    /\ signed \in BOOLEAN
    /\ outputDir \in BOOLEAN
    /\ results \in Evaluations \cup {Absent}
    /\ opened \in Nat
    /\ job \in [Terminals -> Jobs]
    /\ crashes \in 0 .. MaxCrashes

Init ==
    /\ config \in Configs
    /\ data = "none" /\ lock = "none"
    /\ features = Absent /\ audit = Absent
    /\ model = Absent /\ selected = FALSE /\ policy = Absent
    /\ freeze = Absent /\ signed = FALSE
    /\ outputDir = FALSE /\ results = Absent /\ opened = 0
    /\ job = [t \in Terminals |-> Idle]
    /\ crashes = 0

At(t, s) == job[t].step = s
Goto(t, s) == job' = [job EXCEPT ![t].step = s]
Return(t) == job' = [job EXCEPT ![t] = Idle]
\* A command loads its configuration and inputs when it starts.
Start(t, s, m, p) ==
    /\ At(t, "idle")
    /\ job' = [job EXCEPT ![t] = [step |-> s, config |-> config, model |-> m, policy |-> p]]

-----------------------------------------------------------------------------
(* generate_v2: directories, sealed truth, tables, metadata, each once.     *)

\* mkdir has no exist_ok: directories a dead run left behind stop the next.
GenerateBegin(t) ==
    /\ data = "none" /\ lock = "none"
    /\ data' = "dirs"
    /\ Start(t, "seal", Absent, Absent)
    /\ UNCHANGED <<config, lock, devVars, freezeVars, finalVars, crashes>>

Seal(t) ==
    /\ At(t, "seal")
    /\ lock' = "SEALED"
    /\ Goto(t, "tables")
    /\ UNCHANGED <<config, data, devVars, freezeVars, finalVars, crashes>>

\* The tables, as one write.  What reads them needs payment_snapshots.csv, so a
\* prepare may in fact begin one write earlier, before integrity_cases.csv.
Tables(t) ==
    /\ At(t, "tables")
    /\ data' = "tables"
    /\ Goto(t, "metadata")
    /\ UNCHANGED <<config, lock, devVars, freezeVars, finalVars, crashes>>

Metadata(t) ==
    /\ At(t, "metadata")
    /\ data' = "published"
    /\ Return(t)
    /\ UNCHANGED <<config, lock, devVars, freezeVars, finalVars, crashes>>

-----------------------------------------------------------------------------
(* prepare_v2_development: the feature table, then its audit.  May be       *)
(* repeated at any time, and overwrites both.                               *)

PrepareBegin(t) ==
    /\ data \in {"tables", "published"}
    /\ features' = config
    /\ Start(t, "audit", Absent, Absent)
    /\ UNCHANGED <<config, dataVars, audit, model, selected, policy, freezeVars, finalVars,
                   crashes>>

\* Mutant: the audit is written only when it passes.
AuditPassing(t) ==
    /\ At(t, "audit")
    /\ audit' = IF job[t].config \in Leaky THEN audit
                ELSE [features |-> job[t].config, passed |-> TRUE]
    /\ Return(t)
    /\ UNCHANGED <<config, dataVars, features, model, selected, policy, freezeVars, finalVars,
                   crashes>>

\* The report is written before a failed audit raises.
Audit(t) ==
    /\ At(t, "audit")
    /\ audit' = [features |-> job[t].config, passed |-> job[t].config \notin Leaky]
    /\ Return(t)
    /\ UNCHANGED <<config, dataVars, features, model, selected, policy, freezeVars, finalVars,
                   crashes>>

-----------------------------------------------------------------------------
(* train_v2 and select_policy.                                              *)

\* Refused once selection.json exists, which is the last file it writes.
TrainBegin(t) ==
    /\ ~selected
    /\ features # Absent
    /\ Start(t, "dump", [features |-> features, config |-> config], Absent)
    /\ UNCHANGED <<config, dataVars, devVars, freezeVars, finalVars, crashes>>

DumpModel(t) ==
    /\ At(t, "dump")
    /\ model' = job[t].model
    /\ Goto(t, "select")
    /\ UNCHANGED <<config, dataVars, features, audit, selected, policy, freezeVars, finalVars,
                   crashes>>

RecordSelection(t) ==
    /\ At(t, "select")
    /\ selected' = TRUE
    /\ Return(t)
    /\ UNCHANGED <<config, dataVars, features, audit, model, policy, freezeVars, finalVars,
                   crashes>>

\* Mutant: thresholds picked before there is a model.
SelectBeginEarly(t) ==
    /\ policy = Absent
    /\ features # Absent
    /\ Start(t, "policy", Absent, [model |-> model, features |-> features, config |-> config])
    /\ UNCHANGED <<config, dataVars, devVars, freezeVars, finalVars, crashes>>

\* Reads model.joblib, not selection.json, and writes policy.json at its end.
SelectBegin(t) ==
    /\ policy = Absent
    /\ model # Absent /\ features # Absent
    /\ Start(t, "policy", Absent, [model |-> model, features |-> features, config |-> config])
    /\ UNCHANGED <<config, dataVars, devVars, freezeVars, finalVars, crashes>>

SelectPolicy(t) ==
    /\ At(t, "policy")
    /\ policy' = job[t].policy
    /\ Return(t)
    /\ UNCHANGED <<config, dataVars, features, audit, model, selected, freezeVars, finalVars,
                   crashes>>

-----------------------------------------------------------------------------
(* freeze_v2: the gates, the manifest of hashes, the hash of the manifest.  *)

FreezeBegin(t) ==
    /\ freeze = Absent
    /\ lock = "SEALED"
    /\ audit # Absent /\ policy # Absent
    /\ audit.passed
    /\ data \in {"tables", "published"}
    /\ Start(t, "freeze", Absent, Absent)
    /\ UNCHANGED <<config, dataVars, devVars, freezeVars, finalVars, crashes>>

\* Mutant: a manifest without the selection report.
CanHashUnselected == data = "published" /\ features # Absent /\ model # Absent

\* A file that is missing when it is hashed fails the command.
CanHash == data = "published" /\ features # Absent /\ model # Absent /\ selected

Freeze(t) ==
    /\ At(t, "freeze")
    /\ IF CanHash
         THEN /\ freeze' = [features |-> features, audit |-> audit, model |-> model,
                            policy |-> policy, config |-> config]
              /\ Goto(t, "sign")
         ELSE freeze' = freeze /\ Return(t)
    /\ UNCHANGED <<config, dataVars, devVars, signed, finalVars, crashes>>

Sign(t) ==
    /\ At(t, "sign")
    /\ signed' = TRUE
    /\ Return(t)
    /\ UNCHANGED <<config, dataVars, devVars, freeze, finalVars, crashes>>

-----------------------------------------------------------------------------
(* open_and_evaluate_final.                                                 *)

\* Every check comes first: no results, a seal never opened, a signed freeze.
EvaluateBegin(t) ==
    /\ results = Absent
    /\ lock = "SEALED"
    /\ freeze # Absent /\ signed
    /\ model # Absent /\ policy # Absent
    /\ Start(t, "mkdir", model, policy)
    /\ UNCHANGED <<config, dataVars, devVars, freezeVars, finalVars, crashes>>

\* Mutant: mkdir(exist_ok=True).
MakeOutputAgain(t) ==
    /\ At(t, "mkdir")
    /\ outputDir' = TRUE
    /\ Goto(t, "mark")
    /\ UNCHANGED <<config, dataVars, devVars, freezeVars, results, opened, crashes>>

\* mkdir(exist_ok=False) is where a second evaluator, or a second try, ends.
MakeOutput(t) ==
    /\ At(t, "mkdir")
    /\ outputDir' = TRUE
    /\ IF outputDir THEN Return(t) ELSE Goto(t, "mark")
    /\ UNCHANGED <<config, dataVars, devVars, freezeVars, results, opened, crashes>>

\* OPENED_ONCE is written before the truth is read.
Mark(t) ==
    /\ At(t, "mark")
    /\ lock' = "OPENED_ONCE"
    /\ Goto(t, "open")
    /\ UNCHANGED <<config, data, devVars, freezeVars, finalVars, crashes>>

OpenTruth(t) ==
    /\ At(t, "open")
    /\ opened' = opened + 1
    /\ Goto(t, "write")
    /\ UNCHANGED <<config, dataVars, devVars, freezeVars, outputDir, results, crashes>>

\* The results are taken to be of what was loaded at the start.  The code looks
\* at the disk again on the way: at configs/v2/features.yaml for the cold-start
\* comparison, and at the model and the policy for the hashes it writes down.
\* No property depends on either.
WriteResults(t) ==
    /\ At(t, "write")
    /\ results' = [model |-> job[t].model, policy |-> job[t].policy, config |-> job[t].config]
    /\ Return(t)
    /\ UNCHANGED <<config, dataVars, devVars, freezeVars, outputDir, opened, crashes>>

-----------------------------------------------------------------------------
(* The person at the terminal edits a configuration file; a command dies.   *)

Edit(c) ==
    /\ config' = c
    /\ UNCHANGED <<dataVars, devVars, freezeVars, finalVars, job, crashes>>

Die(t) ==
    /\ ~At(t, "idle")
    /\ crashes < MaxCrashes
    /\ crashes' = crashes + 1
    /\ Return(t)
    /\ UNCHANGED <<config, dataVars, devVars, freezeVars, finalVars>>

Build(t) ==
    \/ GenerateBegin(t) \/ Seal(t) \/ Tables(t) \/ Metadata(t)
    \/ PrepareBegin(t) \/ Audit(t)
    \/ TrainBegin(t) \/ DumpModel(t) \/ RecordSelection(t)
    \/ SelectBegin(t) \/ SelectPolicy(t)
    \/ FreezeBegin(t) \/ Freeze(t) \/ Sign(t)

Evaluate(t) ==
    \/ EvaluateBegin(t) \/ MakeOutput(t) \/ Mark(t) \/ OpenTruth(t) \/ WriteResults(t)

Next ==
    \/ \E t \in Builders : Build(t)
    \/ \E t \in Evaluators : Evaluate(t)
    \/ \E t \in Terminals : Die(t)
    \/ \E c \in Configs : Edit(c)

Spec == Init /\ [][Next]_vars

-----------------------------------------------------------------------------
\* The final truth is read at most once, whatever dies and however many
\* evaluators are started: a directory that can be made once, and a manifest
\* that says OPENED_ONCE, stand in the way of the second reading.
OpenedOnce == opened <= 1

\* Whoever finds the truth read finds it on record, even if the evaluator died:
\* the manifest is marked before the truth is opened, and results exist only
\* after both.
OpeningIsOnRecord ==
    /\ opened > 0 => lock = "OPENED_ONCE"
    /\ results # Absent => opened > 0

\* With one builder, no model and no policy but those the freeze hashed are
\* ever evaluated, although the evaluator compares neither with the freeze:
\* after a freeze training and policy selection are refused.
EvaluatesFrozen ==
    results # Absent =>
        results.model = freeze.model /\ results.policy = freeze.policy

\* As long as no command dies, the frozen policy was selected for the frozen
\* model and the frozen audit is about the frozen features: each is several
\* files of different commands, and the freeze compares none with another.
FreezeIsCoherent ==
    crashes = 0 /\ freeze # Absent =>
        /\ freeze.policy.model = freeze.model
        /\ freeze.audit.features = freeze.features
        /\ freeze.features \notin Leaky

\* The results are written once and never again.
ResultsAreFinal == [][results # Absent => results' = results]_results
=============================================================================
