----------------------- MODULE LegacyBenchmarkProofs -----------------------
(* Theorems about LegacyBenchmark for every set of configurations, builders *)
(* and evaluators and any number of deaths and edits; those about the       *)
(* published results are for one publisher.                                 *)
EXTENDS LegacyBenchmark, TLAPS

OnePublisher == \A u, v \in Publishers : u = v

BuildStep(t) ==
    \/ Seal(t) \/ Tables(t) \/ Metadata(t) \/ Clean(t)
    \/ Dump(t) \/ Predictions(t) \/ Metrics(t)
    \/ BaselinePredictions(t) \/ BaselineFit(t)
    \/ SelectPolicy(t) \/ Likelihoods(t) \/ SelectionReport(t) \/ Robustness(t)
    \/ ExportFiles(t) \/ ExportManifest(t) \/ FreezePreFinal(t)

EvaluateStep(t) == EvaluateBegin(t) \/ OpenData(t) \/ Score(t) \/ ResultsLock(t) \/ MarkOpened(t)

PublishStep(t) ==
    \/ UpgradeBegin(t) \/ Move(t) \/ Upgrade(t)
    \/ Publish(t) \/ Submit(t) \/ Audit(t) \/ Transitions(t) \/ Correct(t)

LEMMA NextCases ==
    ASSUME Next
    PROVE  \/ Edit
           \/ \E t \in Terminals : Die(t)
           \/ \E t \in Builders : BuildStep(t)
           \/ \E t \in Evaluators : EvaluateStep(t)
           \/ \E t \in Publishers : PublishStep(t)
BY DEF Next, BuildStep, EvaluateStep, PublishStep

-----------------------------------------------------------------------------
(* What the commands carry.                                                 *)

Reads == Configs \cup Freezes \cup CaseSets \cup Results \cup {Absent}
Steps == {"idle", "tables", "metadata", "predictions", "metrics", "fit", "likelihoods",
          "selection", "manifest", "open", "score", "lock", "mark", "move", "upgrade",
          "submit", "transitions", "correct"}
Jobs == [step : Steps, read : Reads]

Loaded(j) ==
    /\ j.step = "predictions" => j.read \in Configs
    /\ j.step \in {"open", "score"} => j.read \in Freezes
    /\ j.step = "lock" => j.read \in CaseSets
    /\ j.step \in {"move", "upgrade"} => j.read \in Results

JobInv == job \in [Terminals -> Jobs] /\ \A t \in Terminals : Loaded(job[t])

LEMMA IdleTyped == Idle \in Jobs /\ Idle.step = "idle" /\ Loaded(Idle)
BY DEF Idle, Jobs, Steps, Reads, Loaded

\* A step moves one terminal.
OnlyMoves(t) == \A u \in Terminals \ {t} : job'[u] = job[u]

LEMMA ReturnJob ==
    ASSUME JobInv, NEW t \in Terminals, Return(t)
    PROVE  JobInv' /\ job'[t].step = "idle" /\ OnlyMoves(t)
BY IdleTyped DEF JobInv, Return, OnlyMoves

LEMMA StartJob ==
    ASSUME JobInv, NEW t \in Terminals, NEW s \in Steps, NEW read \in Reads,
           Loaded([step |-> s, read |-> read]), Start(t, s, read)
    PROVE  /\ JobInv' /\ OnlyMoves(t)
           /\ job'[t].step = s /\ job'[t].read = read
<1> DEFINE j == [step |-> s, read |-> read]
<1>1. job' = [job EXCEPT ![t] = j] /\ j \in Jobs
  BY DEF Start, Jobs
<1> QED BY <1>1 DEF JobInv, OnlyMoves

LEMMA GotoJob ==
    ASSUME JobInv, NEW t \in Terminals, NEW s \in Steps, Goto(t, s),
           Loaded([step |-> s, read |-> job[t].read])
    PROVE  /\ JobInv' /\ OnlyMoves(t)
           /\ job'[t].step = s /\ job'[t].read = job[t].read
<1> DEFINE j == [job[t] EXCEPT !.step = s]
<1>1. job' = [job EXCEPT ![t] = j]
  BY DEF Goto
<1>2. job[t] \in Jobs
  BY DEF JobInv
<1>3. j \in Jobs /\ j.step = s /\ j.read = job[t].read
  BY <1>2 DEF Jobs
<1> HIDE DEF j
<1>4. Loaded(j)
  BY <1>3 DEF Loaded
<1> QED BY <1>1, <1>3, <1>4 DEF JobInv, OnlyMoves

\* Steps that carry nothing anybody reads later.
Plain == {"tables", "metadata", "metrics", "fit", "likelihoods", "selection", "manifest",
          "mark", "submit", "transitions", "correct"}

LEMMA PlainJob ==
    ASSUME JobInv, NEW t \in Terminals, NEW s \in Plain,
           Goto(t, s) \/ Start(t, s, Absent)
    PROVE  JobInv' /\ OnlyMoves(t) /\ job'[t].step = s
<1>1. s \in Steps /\ Absent \in Reads /\ \A r : Loaded([step |-> s, read |-> r])
  BY DEF Plain, Steps, Reads, Loaded
<1> QED BY <1>1, GotoJob, StartJob

-----------------------------------------------------------------------------
(* Files.                                                                   *)

FilesTyped ==
    /\ config \in Configs /\ data \in {"none", "tables", "published"}
    /\ lock \in {"none", "SEALED", "OPENED"}
    /\ model \in Models /\ predictions \in Models
    /\ bundle \in [files : Files \cup {Absent}, manifest : Files \cup {Absent}]
    /\ freeze # Absent => freeze \in Freezes
    /\ cases # Absent => cases \in CaseSets
    /\ results # Absent => results \in Results
    /\ public # Absent => public \in Results
    /\ preserved # Absent => preserved \in Results

\* Training writes its files in one order and nobody removes them.
Built ==
    /\ predictions # Absent => model # Absent
    /\ "training metrics" \in made => predictions # Absent
    /\ bundle.files # Absent \/ bundle.manifest # Absent => model # Absent
    /\ \A t \in Terminals : /\ job[t].step = "predictions" => model # Absent
                            /\ job[t].step = "metrics" => predictions # Absent

TypeInv == JobInv /\ FilesTyped /\ Built

LEMMA InitTyped == Init => TypeInv
<1> SUFFICES ASSUME Init PROVE TypeInv
  OBVIOUS
<1>1. JobInv
  BY IdleTyped DEF Init, JobInv
<1>2. FilesTyped
  BY DEF Init, FilesTyped, Models
<1>3. Built
  BY IdleTyped DEF Init, Built
<1> QED BY <1>1, <1>2, <1>3 DEF TypeInv

\* A command that leaves training alone and moves elsewhere.
LEMMA SameBuilt ==
    ASSUME Built, NEW t \in Terminals, OnlyMoves(t),
           job'[t].step \notin {"predictions", "metrics"},
           UNCHANGED <<model, predictions, bundle>>,
           "training metrics" \in made' => "training metrics" \in made
    PROVE  Built'
BY DEF Built, OnlyMoves

LEMMA BuildTyped ==
    ASSUME TypeInv, NEW t \in Builders, BuildStep(t)
    PROVE  TypeInv' /\ OnlyMoves(t)
<1>0. t \in Terminals /\ JobInv /\ FilesTyped /\ Built
  BY DEF Terminals, TypeInv
<1>1. CASE Seal(t) \/ Tables(t) \/ Metadata(t)
  <2>1. /\ JobInv' /\ OnlyMoves(t)
        /\ job'[t].step \notin {"predictions", "metrics"}
    BY <1>0, <1>1, PlainJob, ReturnJob DEF Seal, Tables, Metadata, Plain
  <2>2. FilesTyped'
    BY <1>0, <1>1 DEF Seal, Tables, Metadata, FilesTyped, trainVars, others, finalVars, publicVars
  <2>3. Built'
    BY <1>0, <1>1, <2>1, SameBuilt DEF Seal, Tables, Metadata, trainVars
  <2> QED BY <2>1, <2>2, <2>3 DEF TypeInv
<1>2. CASE Clean(t) \/ Robustness(t)
  <2>1. JobInv' /\ OnlyMoves(t) /\ job'[t].step \notin {"predictions", "metrics"}
    BY <1>0, <1>2 DEF Clean, Robustness, JobInv, OnlyMoves, At
  <2>2. FilesTyped'
    BY <1>0, <1>2 DEF Clean, Robustness, Make, FilesTyped, dataVars, others, finalVars, publicVars
  <2>3. Built'
    BY <1>0, <1>2, <2>1, SameBuilt DEF Clean, Robustness, Make
  <2> QED BY <2>1, <2>2, <2>3 DEF TypeInv
<1>3. CASE Dump(t)
  <2>1. config \in Reads /\ Loaded([step |-> "predictions", read |-> config])
    BY <1>0 DEF FilesTyped, Reads, Loaded
  <2>2. JobInv' /\ OnlyMoves(t) /\ job'[t].step = "predictions"
    BY <1>0, <1>3, <2>1, StartJob DEF Dump, Steps
  <2>3. FilesTyped'
    BY <1>0, <1>3 DEF Dump, FilesTyped, Models, dataVars, others, finalVars, publicVars
  <2>4. model' # Absent
    BY <1>0, <1>3, AbsentAssumption DEF Dump, FilesTyped
  <2>5. Built'
    BY <1>0, <1>3, <2>2, <2>4 DEF Dump, Built, OnlyMoves
  <2> QED BY <2>2, <2>3, <2>5 DEF TypeInv
<1>4. CASE Predictions(t)
  <2>1. JobInv' /\ OnlyMoves(t) /\ job'[t].step = "metrics"
    BY <1>0, <1>4, PlainJob DEF Predictions, Plain
  <2>2. job[t].read \in Configs /\ model # Absent
    BY <1>0, <1>4 DEF Predictions, JobInv, Loaded, Built, At
  <2>3. FilesTyped'
    BY <1>0, <1>4, <2>2 DEF Predictions, FilesTyped, Models, dataVars, others, finalVars, publicVars
  <2>4. Built'
    BY <1>0, <1>4, <2>1, <2>2, AbsentAssumption DEF Predictions, Built, OnlyMoves
  <2> QED BY <2>1, <2>3, <2>4 DEF TypeInv
<1>5. CASE Metrics(t)
  <2>1. JobInv' /\ OnlyMoves(t) /\ job'[t].step = "idle"
    BY <1>0, <1>5, ReturnJob DEF Metrics
  <2>2. FilesTyped'
    BY <1>0, <1>5 DEF Metrics, Make, FilesTyped, dataVars, others, finalVars, publicVars
  <2>3. Built'
    BY <1>0, <1>5, <2>1 DEF Metrics, Make, Built, OnlyMoves, At
  <2> QED BY <2>1, <2>2, <2>3 DEF TypeInv
<1>6. CASE \/ BaselinePredictions(t) \/ BaselineFit(t)
           \/ SelectPolicy(t) \/ Likelihoods(t) \/ SelectionReport(t)
  <2>1. /\ JobInv' /\ OnlyMoves(t)
        /\ job'[t].step \notin {"predictions", "metrics"}
    BY <1>0, <1>6, PlainJob, ReturnJob
       DEF BaselinePredictions, BaselineFit, SelectPolicy, Likelihoods, SelectionReport, Plain
  <2>2. \E file \in {"rules", "baselines", "policy", "likelihoods", "selection"} : Make(file)
    BY <1>6 DEF BaselinePredictions, BaselineFit, SelectPolicy, Likelihoods, SelectionReport
  <2>3. FilesTyped'
    BY <1>0, <2>2 DEF Make, FilesTyped, dataVars, others, finalVars, publicVars
  <2>4. Built'
    BY <1>0, <2>1, <2>2, SameBuilt DEF Make
  <2> QED BY <2>1, <2>3, <2>4 DEF TypeInv
<1>7. CASE ExportFiles(t)
  <2>1. JobInv' /\ OnlyMoves(t) /\ job'[t].step = "manifest"
    BY <1>0, <1>7, PlainJob DEF ExportFiles, Plain
  <2>2. model \in Configs /\ predictions \in Configs /\ model # Absent
    BY <1>0, <1>7, AbsentAssumption DEF ExportFiles, FilesTyped, Built, Models
  <2> DEFINE b == [model |-> model, golden |-> predictions]
  <2>3. b \in Files /\ bundle' = [bundle EXCEPT !.files = b]
    BY <1>7, <2>2 DEF ExportFiles, Files
  <2> HIDE DEF b
  <2>4. FilesTyped'
    BY <1>0, <1>7, <2>3 DEF ExportFiles, FilesTyped, dataVars, trainVars, others, finalVars, publicVars
  <2>5. Built'
    BY <1>0, <1>7, <2>1, <2>2 DEF ExportFiles, Built, OnlyMoves, trainVars
  <2> QED BY <2>1, <2>4, <2>5 DEF TypeInv
<1>8. CASE ExportManifest(t)
  <2>1. JobInv' /\ OnlyMoves(t) /\ job'[t].step = "idle"
    BY <1>0, <1>8, ReturnJob DEF ExportManifest
  <2>2. FilesTyped'
    BY <1>0, <1>8 DEF ExportManifest, FilesTyped, dataVars, trainVars, others, finalVars, publicVars
  <2>3. /\ bundle'.files = bundle.files /\ bundle'.manifest = bundle.files
    BY <1>0, <1>8 DEF ExportManifest, FilesTyped
  <2>4. Built'
    BY <1>0, <1>8, <2>1, <2>3 DEF ExportManifest, Built, OnlyMoves, trainVars
  <2> QED BY <2>1, <2>2, <2>4 DEF TypeInv
<1>9. CASE FreezePreFinal(t)
  <2>1. JobInv' /\ OnlyMoves(t) /\ job'[t].step = "idle"
    BY <1>0, <1>9 DEF FreezePreFinal, JobInv, OnlyMoves, At
  <2>2. model \in Configs /\ bundle.manifest \in Files
    BY <1>0, <1>9 DEF FreezePreFinal, BundleIsValid, FilesTyped, Built, Models
  <2>3. freeze' \in Freezes
    BY <1>9, <2>2 DEF FreezePreFinal, Freezes
  <2>4. FilesTyped'
    BY <1>0, <1>9, <2>3 DEF FreezePreFinal, FilesTyped, dataVars, trainVars, others, finalVars, publicVars
  <2>5. Built'
    BY <1>0, <1>9, <2>1, SameBuilt DEF FreezePreFinal, trainVars
  <2> QED BY <2>1, <2>4, <2>5 DEF TypeInv
<1> QED BY <1>1, <1>2, <1>3, <1>4, <1>5, <1>6, <1>7, <1>8, <1>9 DEF BuildStep

LEMMA EvaluateTyped ==
    ASSUME TypeInv, NEW t \in Evaluators, EvaluateStep(t)
    PROVE  TypeInv' /\ OnlyMoves(t) /\ job'[t].step \notin {"predictions", "metrics"}
<1>0. t \in Terminals /\ JobInv /\ FilesTyped /\ Built
  BY DEF Terminals, TypeInv
<1> USE DEF buildVars, dataVars, trainVars, finalVars, publicVars
<1>1. CASE EvaluateBegin(t)
  <2>1. freeze \in Reads /\ Loaded([step |-> "open", read |-> freeze])
    BY <1>0, <1>1 DEF EvaluateBegin, FilesTyped, Reads, Loaded
  <2>2. JobInv' /\ OnlyMoves(t) /\ job'[t].step = "open"
    BY <1>0, <1>1, <2>1, StartJob DEF EvaluateBegin, Steps
  <2> QED BY <1>0, <1>1, <2>2, SameBuilt DEF EvaluateBegin, FilesTyped, TypeInv
<1>2. CASE OpenData(t)
  <2>1. JobInv' /\ OnlyMoves(t) /\ job'[t].step \in {"idle", "score"}
    <3>1. Loaded([step |-> "score", read |-> job[t].read])
      BY <1>0, <1>2 DEF OpenData, At, JobInv, Loaded
    <3> QED BY <1>0, <1>2, <3>1, ReturnJob, GotoJob DEF OpenData, Steps
  <2> QED BY <1>0, <1>2, <2>1, SameBuilt DEF OpenData, FilesTyped, TypeInv
<1>3. CASE Score(t)
  <2>1. CASE Return(t) /\ UNCHANGED cases
    <3>1. JobInv' /\ OnlyMoves(t) /\ job'[t].step = "idle"
      BY <1>0, <2>1, ReturnJob
    <3> QED BY <1>0, <1>3, <2>1, <3>1, SameBuilt DEF Score, FilesTyped, TypeInv
  <2>2. CASE /\ model # Absent
             /\ cases' = [model |-> model, freeze |-> job[t].read]
             /\ job' = [job EXCEPT ![t] = [step |-> "lock", read |-> cases']]
    <3>1. job[t].read \in Freezes
      BY <1>0, <1>3 DEF Score, At, JobInv, Loaded
    <3>2. cases' \in CaseSets
      BY <1>0, <2>2, <3>1 DEF FilesTyped, Models, CaseSets
    <3> DEFINE j == [step |-> "lock", read |-> cases']
    <3>3. j \in Jobs /\ j.step = "lock" /\ Loaded(j)
      BY <3>2 DEF Jobs, Steps, Reads, Loaded
    <3>4. job' = [job EXCEPT ![t] = j]
      BY <2>2
    <3> HIDE DEF j
    <3>5. JobInv' /\ OnlyMoves(t) /\ job'[t].step = "lock"
      BY <1>0, <3>3, <3>4 DEF JobInv, OnlyMoves
    <3> QED BY <1>0, <1>3, <3>2, <3>5, SameBuilt DEF Score, FilesTyped, TypeInv
  <2> QED BY <1>3, <2>1, <2>2 DEF Score
<1>4. CASE ResultsLock(t)
  <2>1. JobInv' /\ OnlyMoves(t) /\ job'[t].step = "mark"
    BY <1>0, <1>4, PlainJob DEF ResultsLock, Plain
  <2>2. results' \in Results
    BY <1>0, <1>4 DEF ResultsLock, At, JobInv, Loaded, Results
  <2> QED BY <1>0, <1>4, <2>1, <2>2, SameBuilt DEF ResultsLock, FilesTyped, TypeInv
<1>5. CASE MarkOpened(t)
  <2>1. JobInv' /\ OnlyMoves(t) /\ job'[t].step = "idle"
    BY <1>0, <1>5, ReturnJob DEF MarkOpened
  <2> QED BY <1>0, <1>5, <2>1, SameBuilt DEF MarkOpened, FilesTyped, TypeInv
<1> QED BY <1>1, <1>2, <1>3, <1>4, <1>5 DEF EvaluateStep

LEMMA PublishTyped ==
    ASSUME TypeInv, NEW t \in Publishers, PublishStep(t)
    PROVE  /\ TypeInv' /\ OnlyMoves(t)
           /\ UNCHANGED <<config, data, lock, trainVars, bundle, freeze, openedDir, cases, openings, first>>
<1>0. t \in Terminals /\ JobInv /\ FilesTyped /\ Built
  BY DEF Terminals, TypeInv
<1>a. UNCHANGED <<config, data, lock, trainVars, bundle, freeze, openedDir, cases, openings, first>>
  BY DEF PublishStep, UpgradeBegin, Move, Upgrade, Publish, Submit, Audit, Transitions, Correct,
         buildVars, dataVars, finalVars
<1> USE DEF publicVars
<1>1. CASE UpgradeBegin(t)
  <2> DEFINE source == IF preserved # Absent THEN preserved ELSE results
             s == IF preserved # Absent THEN "upgrade" ELSE "move"
  <2>1. /\ source \in Results /\ source \in Reads
        /\ s \in Steps /\ Loaded([step |-> s, read |-> source])
    BY <1>0, <1>1 DEF UpgradeBegin, FilesTyped, Reads, Steps, Loaded
  <2>2. Start(t, s, source)
    BY <1>1 DEF UpgradeBegin
  <2>3. s \in {"upgrade", "move"}
    OBVIOUS
  <2> HIDE DEF s, source
  <2>4. JobInv' /\ OnlyMoves(t) /\ job'[t].step = s
    BY <1>0, <2>1, <2>2, StartJob
  <2> QED BY <1>0, <1>1, <1>a, <2>3, <2>4, SameBuilt
          DEF UpgradeBegin, FilesTyped, TypeInv, finalVars, trainVars
<1>2. CASE Move(t)
  <2>1. JobInv' /\ OnlyMoves(t) /\ job'[t].step = "upgrade"
    <3>1. Loaded([step |-> "upgrade", read |-> job[t].read])
      BY <1>0, <1>2 DEF Move, At, JobInv, Loaded
    <3> QED BY <1>0, <1>2, <3>1, GotoJob DEF Move, Steps
  <2> QED BY <1>0, <1>2, <1>a, <2>1, SameBuilt DEF Move, FilesTyped, TypeInv, trainVars
<1>3. CASE Upgrade(t)
  <2>1. JobInv' /\ OnlyMoves(t) /\ job'[t].step = "idle"
    BY <1>0, <1>3, ReturnJob DEF Upgrade
  <2>2. results' \in Results
    BY <1>0, <1>3 DEF Upgrade, At, JobInv, Loaded, Results
  <2> QED BY <1>0, <1>3, <1>a, <2>1, <2>2, SameBuilt DEF Upgrade, FilesTyped, TypeInv, trainVars
<1>4. CASE Publish(t)
  <2>1. JobInv' /\ OnlyMoves(t) /\ job'[t].step = "submit"
    BY <1>0, <1>4, PlainJob DEF Publish, Plain
  <2> QED BY <1>0, <1>4, <1>a, <2>1, SameBuilt DEF Publish, FilesTyped, TypeInv, finalVars, trainVars
<1>5. CASE Submit(t) \/ Audit(t) \/ Transitions(t) \/ Correct(t)
  <2>1. JobInv' /\ OnlyMoves(t) /\ job'[t].step \in {"idle", "transitions", "correct"}
    BY <1>0, <1>5, PlainJob, ReturnJob DEF Submit, Audit, Transitions, Correct, Plain
  <2>2. UNCHANGED <<results, preserved, public, cases, openedDir, openings, first>>
    BY <1>5 DEF Submit, Audit, Transitions, Correct, finalVars
  <2>3. Built'
    BY <1>0, <1>a, <2>1, SameBuilt DEF trainVars
  <2>4. FilesTyped'
    BY <1>0, <1>a, <2>2 DEF FilesTyped, trainVars
  <2> QED BY <1>a, <2>1, <2>2, <2>3, <2>4 DEF TypeInv
<1> QED BY <1>a, <1>1, <1>2, <1>3, <1>4, <1>5 DEF PublishStep

LEMMA OtherTyped ==
    ASSUME TypeInv, Edit \/ (\E t \in Terminals : Die(t)) \/ UNCHANGED vars
    PROVE  TypeInv'
<1>0. JobInv /\ FilesTyped /\ Built
  BY DEF TypeInv
<1> USE DEF buildVars, dataVars, trainVars, finalVars, publicVars
<1>1. CASE Edit
  BY <1>0, <1>1 DEF Edit, TypeInv, JobInv, FilesTyped, Built
<1>2. ASSUME NEW t \in Terminals, Die(t) PROVE TypeInv'
  <2>1. JobInv' /\ OnlyMoves(t) /\ job'[t].step = "idle"
    BY <1>0, <1>2, ReturnJob DEF Die
  <2> QED BY <1>0, <1>2, <2>1, SameBuilt DEF Die, TypeInv, FilesTyped
<1>3. CASE UNCHANGED vars
  BY <1>0, <1>3 DEF vars, TypeInv, JobInv, FilesTyped, Built
<1> QED BY <1>1, <1>2, <1>3

-----------------------------------------------------------------------------
(* The one opening.                                                         *)

OpenInv ==
    /\ openedDir \in BOOLEAN /\ openings = IF openedDir THEN 1 ELSE 0
    /\ ~openedDir =>
         /\ freeze # Absent => freeze.blind
         /\ cases = Absent /\ first = Absent
         /\ \A t \in Evaluators : /\ job[t].step = "open" => job[t].read.blind
                                  /\ job[t].step \notin {"score", "lock"}
    /\ \A t, u \in Evaluators :
         job[t].step \in {"score", "lock"} /\ job[u].step \in {"score", "lock"} => t = u
    /\ \A t \in Evaluators :
         /\ job[t].step = "score" => job[t].read.blind /\ cases = Absent
         /\ job[t].step = "lock" => cases = job[t].read
         /\ job[t].step \in {"score", "lock"} => first = Absent
    /\ cases # Absent => cases.freeze.blind
    /\ first # Absent => cases = first

\* Commands that are no evaluation leave it alone; a freeze written before the
\* opening is blind.
LEMMA OpenStays ==
    ASSUME OpenInv, UNCHANGED finalVars,
           UNCHANGED freeze \/ freeze'.blind = (openings = 0),
           \A t \in Evaluators : job'[t] = job[t] \/ job'[t].step = "idle"
    PROVE  OpenInv'
BY DEF OpenInv, finalVars

LEMMA BuildOpen ==
    ASSUME TypeInv, OpenInv, NEW t \in Builders, BuildStep(t)
    PROVE  OpenInv'
<1>1. \A u \in Evaluators : job'[u] = job[u]
  BY BuildTyped, RolesAssumption DEF OnlyMoves, Terminals
<1>2. UNCHANGED finalVars
  BY DEF BuildStep, Seal, Tables, Metadata, Clean, Dump, Predictions, Metrics, Make,
         BaselinePredictions, BaselineFit, SelectPolicy, Likelihoods, SelectionReport, Robustness,
         ExportFiles, ExportManifest, FreezePreFinal, others
<1>3. UNCHANGED freeze \/ freeze'.blind = (openings = 0)
  <2>1. CASE FreezePreFinal(t)
    <3>1. freeze' = [model |-> model, bundle |-> bundle.manifest, blind |-> openings = 0]
      BY <2>1 DEF FreezePreFinal
    <3> QED BY <3>1, Zenon
  <2>2. CASE ExportFiles(t)
    <3>1. UNCHANGED freeze
      BY <2>2, Zenon DEF ExportFiles
    <3> QED BY <3>1
  <2>3. CASE ~FreezePreFinal(t) /\ ~ExportFiles(t)
    BY <2>3 DEF BuildStep, Seal, Tables, Metadata, Clean, Dump, Predictions, Metrics, Make,
            BaselinePredictions, BaselineFit, SelectPolicy, Likelihoods, SelectionReport,
            Robustness, ExportManifest
  <2> QED BY <2>1, <2>2, <2>3
<1> QED BY <1>1, <1>2, <1>3, OpenStays

LEMMA EvaluateOpen ==
    ASSUME TypeInv, OpenInv, NEW t \in Evaluators, EvaluateStep(t)
    PROVE  OpenInv'
<1>0. t \in Terminals /\ JobInv /\ FilesTyped
  BY DEF Terminals, TypeInv
<1>a. \A u \in Evaluators \ {t} : job'[u] = job[u]
  BY EvaluateTyped DEF OnlyMoves, Terminals
<1> USE DEF finalVars, buildVars
<1>1. CASE EvaluateBegin(t)
  <2>1. job'[t].step = "open" /\ job'[t].read = freeze /\ freeze # Absent
    BY <1>0, <1>1 DEF EvaluateBegin, Start, JobInv
  <2> QED BY <1>1, <1>a, <2>1 DEF EvaluateBegin, OpenInv
<1>2. CASE OpenData(t)
  <2>0. /\ job[t].step = "open"
        /\ UNCHANGED <<freeze, cases, first>>
    BY <1>2 DEF OpenData, At
  <2>1. CASE openedDir
    <3>1. job'[t].step = "idle" /\ UNCHANGED <<openedDir, openings>>
      BY <1>0, <1>2, <2>1, ReturnJob DEF OpenData
    <3> QED BY <1>a, <2>0, <2>1, <3>1 DEF OpenInv
  <2>2. CASE ~openedDir
    <3>1. /\ job'[t].step = "idle" \/ (job'[t].step = "score" /\ job'[t].read = job[t].read)
          /\ openedDir' = TRUE /\ openings' = 1
      <4>1. Loaded([step |-> "score", read |-> job[t].read])
        BY <1>0, <2>0 DEF JobInv, Loaded
      <4>2. openedDir' = TRUE /\ openings' = 1 /\ (Goto(t, "score") \/ Return(t))
        BY <1>2, <2>2 DEF OpenData, OpenInv
      <4> QED BY <1>0, <4>1, <4>2, ReturnJob, GotoJob DEF Steps
    <3>2. /\ job[t].read.blind /\ cases = Absent /\ first = Absent
          /\ \A u \in Evaluators : job[u].step \notin {"score", "lock"}
      BY <2>0, <2>2 DEF OpenInv
    <3> QED BY <1>a, <2>0, <3>1, <3>2 DEF OpenInv
  <2> QED BY <2>1, <2>2
<1>3. CASE Score(t)
  <2>0. /\ job[t].step = "score" /\ UNCHANGED <<openedDir, openings, first, freeze>>
        /\ openedDir /\ first = Absent /\ cases = Absent /\ job[t].read.blind
    BY <1>3 DEF Score, At, OpenInv
  <2>1. CASE Return(t) /\ UNCHANGED cases
    <3>1. job'[t].step = "idle"
      BY <1>0, <2>1, ReturnJob
    <3> QED BY <1>a, <2>0, <2>1, <3>1 DEF OpenInv
  <2>2. CASE /\ cases' = [model |-> model, freeze |-> job[t].read]
             /\ job' = [job EXCEPT ![t] = [step |-> "lock", read |-> cases']]
    <3>1. job'[t].step = "lock" /\ job'[t].read = cases' /\ cases'.freeze = job[t].read
      BY <1>0, <2>2 DEF JobInv
    <3> QED BY <1>a, <2>0, <3>1 DEF OpenInv
  <2> QED BY <1>3, <2>1, <2>2 DEF Score
<1>4. CASE ResultsLock(t)
  <2>1. /\ job[t].step = "lock" /\ job'[t].step = "mark"
        /\ UNCHANGED <<openedDir, openings, cases, freeze>>
        /\ openedDir /\ first = Absent /\ first' = job[t].read /\ cases = job[t].read
    BY <1>0, <1>4, PlainJob DEF ResultsLock, At, Plain, OpenInv
  <2> QED BY <1>a, <2>1 DEF OpenInv
<1>5. CASE MarkOpened(t)
  <2>1. job'[t].step = "idle"
    BY <1>0, <1>5, ReturnJob DEF MarkOpened
  <2> QED BY <1>5, <1>a, <2>1, OpenStays DEF MarkOpened
<1> QED BY <1>1, <1>2, <1>3, <1>4, <1>5 DEF EvaluateStep

BaseInv == TypeInv /\ OpenInv

LEMMA StepBase == BaseInv /\ [Next]_vars => BaseInv'
<1> SUFFICES ASSUME BaseInv, [Next]_vars PROVE BaseInv'
  OBVIOUS
<1> USE DEF BaseInv
<1>1. CASE \E t \in Builders : BuildStep(t)
  BY <1>1, BuildTyped, BuildOpen
<1>2. CASE \E t \in Evaluators : EvaluateStep(t)
  BY <1>2, EvaluateTyped, EvaluateOpen
<1>3. ASSUME NEW t \in Publishers, PublishStep(t) PROVE BaseInv'
  <2>1. \A u \in Evaluators : job'[u] = job[u]
    BY <1>3, PublishTyped, RolesAssumption DEF OnlyMoves, Terminals
  <2> QED BY <1>3, <2>1, PublishTyped DEF OpenInv
<1>4. CASE Edit \/ (\E t \in Terminals : Die(t)) \/ UNCHANGED vars
  <2>1. UNCHANGED <<finalVars, freeze>>
    BY <1>4 DEF Edit, Die, vars, buildVars, finalVars
  <2>2. \A u \in Evaluators : job'[u] = job[u] \/ job'[u].step = "idle"
    BY <1>4, ReturnJob DEF Edit, Die, vars, OnlyMoves, Terminals, TypeInv
  <2> QED BY <1>4, <2>1, <2>2, OtherTyped, OpenStays
<1> QED BY <1>1, <1>2, <1>3, <1>4, NextCases

LEMMA BaseInvariance == Spec => []BaseInv
<1>1. Init => BaseInv
  <2> SUFFICES ASSUME Init PROVE BaseInv
    OBVIOUS
  <2>1. \A t \in Evaluators : job[t].step = "idle"
    BY DEF Init, Idle, Terminals
  <2>2. OpenInv
    BY <2>1 DEF Init, OpenInv
  <2> QED BY <2>2, InitTyped DEF BaseInv
<1> QED BY <1>1, StepBase, PTL DEF Spec

\* The final truth is merged and evaluated at most once, whoever generates,
\* cleans, trains or publishes in between and wherever a command dies.
THEOREM TruthOpenedOnce == Spec => []OpenedAtMostOnce
<1>1. BaseInv => OpenedAtMostOnce
  BY DEF BaseInv, OpenInv, OpenedAtMostOnce
<1> QED BY <1>1, BaseInvariance, PTL

\* What was evaluated had been frozen before anybody read the final truth.
THEOREM FrozenBlind == Spec => []EvaluatedFreezeIsBlind
<1>1. BaseInv => EvaluatedFreezeIsBlind
  BY DEF BaseInv, OpenInv, EvaluatedFreezeIsBlind
<1> QED BY <1>1, BaseInvariance, PTL

\* A frozen bundle reproduces its predictions, wherever training died.
THEOREM FrozenReproduces == Spec => []FrozenBundleReproduces
<1>1. Init => FrozenBundleReproduces
  BY DEF Init, FrozenBundleReproduces
<1>2. BaseInv /\ FrozenBundleReproduces /\ [Next]_vars => FrozenBundleReproduces'
  <2> SUFFICES ASSUME BaseInv, FrozenBundleReproduces, [Next]_vars
               PROVE  FrozenBundleReproduces'
    OBVIOUS
  <2>1. ASSUME NEW t \in Builders, FreezePreFinal(t) PROVE FrozenBundleReproduces'
    BY <2>1 DEF FreezePreFinal, BundleIsValid, FrozenBundleReproduces
  <2>2. ASSUME NEW t \in Builders, BuildStep(t), ~FreezePreFinal(t) PROVE UNCHANGED freeze
    <3>1. CASE ExportFiles(t)
      BY <3>1, Zenon DEF ExportFiles
    <3>2. CASE ~ExportFiles(t)
      BY <2>2, <3>2 DEF BuildStep, Seal, Tables, Metadata, Clean, Dump, Predictions, Metrics,
              Make, BaselinePredictions, BaselineFit, SelectPolicy, Likelihoods,
              SelectionReport, Robustness, ExportManifest
    <3> QED BY <3>1, <3>2
  <2>3. ASSUME NEW t \in Evaluators, EvaluateStep(t) PROVE UNCHANGED freeze
    BY <2>3 DEF EvaluateStep, EvaluateBegin, OpenData, Score, ResultsLock, MarkOpened, buildVars
  <2>4. ASSUME NEW t \in Publishers, PublishStep(t) PROVE UNCHANGED freeze
    BY <2>4, PublishTyped DEF BaseInv
  <2>5. CASE Edit \/ (\E t \in Terminals : Die(t)) \/ UNCHANGED vars
    BY <2>5 DEF Edit, Die, vars, buildVars, FrozenBundleReproduces
  <2> QED BY <2>1, <2>2, <2>3, <2>4, <2>5, NextCases DEF FrozenBundleReproduces
<1> QED BY <1>1, <1>2, BaseInvariance, PTL DEF Spec

-----------------------------------------------------------------------------
(* The published results, with one publisher.                               *)

Original == [schema |-> 1, cases |-> first]
Second == [schema |-> 2, cases |-> first]

LocksInv ==
    /\ first = Absent => results = Absent /\ preserved = Absent /\ public = Absent
                          /\ correction = Absent
    /\ first # Absent => \/ preserved = Absent /\ results = Original
                         \/ preserved = Original /\ results \in {Absent, Second}
    /\ public # Absent => public \in {Original, Second}
    /\ correction # Absent => /\ correction.results = Second /\ correction.audit = first
                              /\ correction.preserved = Original

Publishing(t) ==
    /\ job[t].step = "move" => preserved = Absent /\ results # Absent /\ job[t].read = results
    /\ job[t].step = "upgrade" => preserved # Absent /\ job[t].read = preserved
    /\ job[t].step \in {"transitions", "correct"} =>
         public # Absent /\ preserved # Absent /\ audit = first
    /\ job[t].step = "correct" => public.schema = 2

PublicInv == LocksInv /\ \A t \in Publishers : Publishing(t)

LEMMA LocksAre == /\ Original.schema = 1 /\ Original.cases = first
                  /\ Second.schema = 2 /\ Second.cases = first
BY DEF Original, Second

\* Steps that touch no lock.
LEMMA PublicStays ==
    ASSUME PublicInv, UNCHANGED <<results, preserved, public, audit, correction, first>>,
           \A t \in Publishers : job'[t] = job[t] \/ job'[t].step = "idle"
    PROVE  PublicInv'
BY DEF PublicInv, LocksInv, Publishing, Original, Second

\* The first results lock is written before anybody can publish anything.
LEMMA FirstLock ==
    ASSUME BaseInv, PublicInv, NEW t \in Evaluators, ResultsLock(t)
    PROVE  PublicInv'
<1>0. t \in Terminals /\ JobInv /\ first = Absent
  BY DEF BaseInv, TypeInv, OpenInv, ResultsLock, At, Terminals
<1>1. first' # Absent
  BY <1>0, AbsentAssumption DEF ResultsLock, At, JobInv, Loaded
<1>2. results' = Original'
  BY <1>0 DEF ResultsLock, Original
<1>3. UNCHANGED <<preserved, public, audit, correction>> /\ preserved = Absent /\ results = Absent
      /\ public = Absent /\ correction = Absent
  BY <1>0 DEF ResultsLock, publicVars, PublicInv, LocksInv
<1>4. \A u \in Publishers : job'[u] = job[u]
  BY EvaluateTyped, RolesAssumption DEF EvaluateStep, OnlyMoves, Terminals, BaseInv
<1> QED BY <1>1, <1>2, <1>3, <1>4 DEF PublicInv, LocksInv, Publishing

LEMMA PublishPublic ==
    ASSUME OnePublisher, BaseInv, PublicInv, NEW t \in Publishers, PublishStep(t)
    PROVE  PublicInv'
<1>0. /\ t \in Terminals /\ JobInv /\ FilesTyped /\ \A u \in Publishers : u = t
      /\ UNCHANGED <<first, cases>> /\ LocksInv /\ Publishing(t)
      /\ (first # Absent => cases = first)
  BY PublishTyped DEF BaseInv, TypeInv, OpenInv, PublicInv, Terminals, OnePublisher
<1> USE DEF publicVars, finalVars
<1>1. CASE UpgradeBegin(t)
  <2> DEFINE source == IF preserved # Absent THEN preserved ELSE results
             s == IF preserved # Absent THEN "upgrade" ELSE "move"
  <2>1. job'[t].step = s /\ job'[t].read = source /\ source # Absent
    BY <1>0, <1>1 DEF UpgradeBegin, Start, JobInv
  <2>2. UNCHANGED <<results, preserved, public, audit, correction>>
    BY <1>1 DEF UpgradeBegin
  <2>3. Publishing(t)'
    BY <2>1, <2>2 DEF Publishing
  <2> QED BY <1>0, <2>2, <2>3 DEF PublicInv, LocksInv, Original, Second
<1>2. CASE Move(t)
  <2>1. /\ preserved = Absent /\ results # Absent /\ preserved' = results /\ results' = Absent
        /\ UNCHANGED <<public, audit, correction>>
    BY <1>0, <1>2 DEF Move, At, Publishing
  <2>2. first # Absent /\ results = Original
    <3>1. first # Absent
      BY <1>0, <2>1 DEF LocksInv
    <3>2. Original # Absent
      BY <1>0, <3>1, AbsentAssumption DEF FilesTyped, Original, Results
    <3> QED BY <1>0, <2>1, <3>1, <3>2 DEF LocksInv
  <2>3. job'[t].step = "upgrade" /\ job'[t].read = job[t].read
    <3>1. Loaded([step |-> "upgrade", read |-> job[t].read])
      BY <1>0, <1>2 DEF Move, At, JobInv, Loaded
    <3> QED BY <1>0, <1>2, <3>1, GotoJob DEF Move, Steps
  <2>4. job[t].read = results
    BY <1>0, <1>2 DEF Move, At, Publishing
  <2>5. Publishing(t)'
    BY <2>1, <2>2, <2>3, <2>4 DEF Publishing
  <2>6. LocksInv'
    BY <1>0, <2>1, <2>2 DEF LocksInv, Original, Second
  <2> QED BY <1>0, <2>5, <2>6 DEF PublicInv
<1>3. CASE Upgrade(t)
  <2>1. /\ preserved # Absent /\ job[t].read = preserved
        /\ results' = [schema |-> 2, cases |-> job[t].read.cases]
        /\ UNCHANGED <<preserved, public, audit, correction>>
    BY <1>0, <1>3 DEF Upgrade, At, Publishing
  <2>2. first # Absent /\ preserved = Original
    BY <1>0, <2>1 DEF LocksInv
  <2>3. results' = Second
    BY <2>1, <2>2, LocksAre DEF Second
  <2>4. job'[t].step = "idle"
    BY <1>0, <1>3, ReturnJob DEF Upgrade
  <2>5. LocksInv'
    BY <1>0, <2>1, <2>2, <2>3 DEF LocksInv, Original, Second
  <2> QED BY <1>0, <2>4, <2>5 DEF PublicInv, Publishing
<1>4. CASE Publish(t)
  <2>1. /\ results # Absent /\ public' = results
        /\ UNCHANGED <<results, preserved, audit, correction>>
    BY <1>4 DEF Publish
  <2>2. job'[t].step = "submit"
    BY <1>0, <1>4, PlainJob DEF Publish, Plain
  <2>3. LocksInv'
    BY <1>0, <2>1 DEF LocksInv, Original, Second
  <2> QED BY <1>0, <2>2, <2>3 DEF PublicInv, Publishing
<1>5. CASE Submit(t)
  <2>1. job'[t].step = "idle" /\ UNCHANGED <<results, preserved, public, audit, correction>>
    BY <1>0, <1>5, ReturnJob DEF Submit
  <2> QED BY <1>0, <2>1, PublicStays
<1>6. CASE Audit(t)
  <2>1. /\ public # Absent /\ preserved # Absent /\ audit' = cases
        /\ UNCHANGED <<results, preserved, public, correction>>
    BY <1>6 DEF Audit
  <2>2. audit' = first
    BY <1>0, <2>1 DEF LocksInv
  <2>3. job'[t].step = "transitions"
    BY <1>0, <1>6, PlainJob DEF Audit, Plain
  <2>4. Publishing(t)' /\ LocksInv'
    BY <1>0, <2>1, <2>2, <2>3 DEF Publishing, LocksInv, Original, Second
  <2> QED BY <1>0, <2>4 DEF PublicInv
<1>7. CASE Transitions(t)
  <2>1. /\ UNCHANGED <<results, preserved, public, audit, correction>>
        /\ public # Absent /\ preserved # Absent /\ audit = first
    BY <1>0, <1>7 DEF Transitions, At, Publishing
  <2>2. job'[t].step = "idle" \/ (job'[t].step = "correct" /\ public.schema = 2)
    BY <1>0, <1>7, PlainJob, ReturnJob DEF Transitions, Plain
  <2>3. Publishing(t)' /\ LocksInv'
    BY <1>0, <2>1, <2>2 DEF Publishing, LocksInv, Original, Second
  <2> QED BY <1>0, <2>3 DEF PublicInv
<1>8. CASE Correct(t)
  <2>1. /\ public # Absent /\ preserved # Absent /\ audit = first /\ public.schema = 2
        /\ UNCHANGED <<results, preserved, public, audit>>
    BY <1>0, <1>8 DEF Correct, At, Publishing
  <2>2. /\ correction'.results = public /\ correction'.preserved = preserved
        /\ correction'.audit = audit
    BY <1>8 DEF Correct
  <2>3. first # Absent /\ preserved = Original /\ public = Second
    BY <1>0, <2>1, LocksAre DEF LocksInv
  <2>4. job'[t].step = "idle"
    BY <1>0, <1>8, ReturnJob DEF Correct
  <2>5. LocksInv'
    BY <1>0, <2>1, <2>2, <2>3 DEF LocksInv, Original, Second
  <2> QED BY <1>0, <2>4, <2>5 DEF PublicInv, Publishing
<1> QED BY <1>1, <1>2, <1>3, <1>4, <1>5, <1>6, <1>7, <1>8 DEF PublishStep

LEMMA StepPublic == OnePublisher /\ BaseInv /\ PublicInv /\ [Next]_vars => PublicInv'
<1> SUFFICES ASSUME OnePublisher, BaseInv, PublicInv, [Next]_vars PROVE PublicInv'
  OBVIOUS
<1>1. ASSUME NEW t \in Builders, BuildStep(t) PROVE PublicInv'
  <2>1. \A u \in Publishers : job'[u] = job[u]
    BY <1>1, BuildTyped, RolesAssumption DEF OnlyMoves, Terminals, BaseInv
  <2>2. UNCHANGED others
    BY <1>1, Zenon DEF BuildStep, Seal, Tables, Metadata, Clean, Dump, Predictions, Metrics, Make,
           BaselinePredictions, BaselineFit, SelectPolicy, Likelihoods, SelectionReport,
           Robustness, ExportFiles, ExportManifest, FreezePreFinal
  <2>3. UNCHANGED <<results, preserved, public, audit, correction, first>>
    BY <2>2 DEF others, finalVars, publicVars
  <2> QED BY <2>1, <2>3, PublicStays
<1>2. ASSUME NEW t \in Evaluators, EvaluateStep(t) PROVE PublicInv'
  <2>1. \A u \in Publishers : job'[u] = job[u]
    BY <1>2, EvaluateTyped, RolesAssumption DEF OnlyMoves, Terminals, BaseInv
  <2>2. CASE ResultsLock(t)
    BY <2>2, FirstLock
  <2>3. CASE ~ResultsLock(t)
    <3>1. UNCHANGED <<results, preserved, public, audit, correction, first>>
      BY <1>2, <2>3 DEF EvaluateStep, EvaluateBegin, OpenData, Score, MarkOpened,
                        finalVars, publicVars
    <3> QED BY <2>1, <3>1, PublicStays
  <2> QED BY <2>2, <2>3
<1>3. ASSUME NEW t \in Publishers, PublishStep(t) PROVE PublicInv'
  BY <1>3, PublishPublic
<1>4. CASE Edit \/ (\E t \in Terminals : Die(t)) \/ UNCHANGED vars
  <2>1. UNCHANGED <<results, preserved, public, audit, correction, first>>
    BY <1>4 DEF Edit, Die, vars, finalVars, publicVars
  <2>2. \A u \in Publishers : job'[u] = job[u] \/ job'[u].step = "idle"
    BY <1>4, ReturnJob DEF Edit, Die, vars, OnlyMoves, Terminals, TypeInv, BaseInv
  <2> QED BY <2>1, <2>2, PublicStays
<1> QED BY <1>1, <1>2, <1>3, <1>4, NextCases

LEMMA PublicInvariance == OnePublisher /\ Spec => [](BaseInv /\ PublicInv)
<1>1. Init => PublicInv
  BY DEF Init, PublicInv, LocksInv, Publishing, Idle, Terminals
<1>2. OnePublisher => []OnePublisher
  <2>1. OnePublisher => OnePublisher'
    BY DEF OnePublisher
  <2> QED BY <2>1, PTL
<1> QED BY <1>1, <1>2, StepPublic, BaseInvariance, PTL DEF Spec

\* With one publisher the files have their types and a lock set aside is of
\* schema 1, which is what the upgrade of an interrupted upgrade relies on.
THEOREM FilesAreTyped == OnePublisher /\ Spec => []TypeOK
<1>1. BaseInv /\ PublicInv => TypeOK
  BY LocksAre DEF BaseInv, PublicInv, TypeInv, FilesTyped, LocksInv, TypeOK
<1> QED BY <1>1, PublicInvariance, PTL

\* With one publisher the first evaluation is never lost, whatever died.
THEOREM OriginalStays == OnePublisher /\ Spec => []OriginalIsKept
<1>1. BaseInv /\ PublicInv => OriginalIsKept
  BY DEF BaseInv, OpenInv, PublicInv, LocksInv, OriginalIsKept, Original
<1> QED BY <1>1, PublicInvariance, PTL

\* With one publisher, what passes preflight was corrected from the lock it
\* publishes and both from the one evaluation.
THEOREM PassOfOneRun == OnePublisher /\ Spec => []PassIsOneRun
<1>1. BaseInv /\ PublicInv => PassIsOneRun
  BY LocksAre DEF PublicInv, LocksInv, PassIsOneRun, PreflightPasses
<1> QED BY <1>1, PublicInvariance, PTL
=============================================================================
