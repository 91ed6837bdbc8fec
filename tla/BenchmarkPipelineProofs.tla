------------------------------- MODULE BenchmarkPipelineProofs -------------------------------
(* Theorems about BenchmarkPipeline for every set of terminals and of      *)
(* configurations, and every number of commands that die.                  *)
EXTENDS BenchmarkPipeline, TLAPS

Generating == {"seal", "tables", "metadata"}
Opening == {"mark", "open", "write"}

\* What a command in flight has loaded, and what a freeze in flight relies on.
Loaded ==
    \A t \in Terminals :
        /\ ~At(t, "idle") => job[t].config \in Configs
        /\ At(t, "dump") => job[t].model \in Models
        /\ At(t, "policy") => job[t].policy \in Policies
        /\ At(t, "freeze") => audit \in Audits /\ policy \in Policies
        /\ job[t].step \in {"mkdir"} \cup Opening =>
               job[t].model \in Models /\ job[t].policy \in Policies

TypeInv == TypeOK /\ Loaded

\* The seal is set once, by one generator, before anything is opened.
SealedOnce ==
    /\ lock # "none" => data # "none"
    /\ \A t \in Terminals :
          /\ job[t].step \in Generating => data # "none"
          /\ At(t, "seal") => lock = "none"
          /\ job[t].step \in {"mkdir"} \cup Opening => lock # "none"
    /\ \A s, t \in Terminals :
          job[s].step \in Generating /\ job[t].step \in Generating => s = t

\* Whoever made the output directory is alone with the truth.
OneOpener ==
    /\ ~outputDir => opened = 0 /\ results = Absent
    /\ \A t \in Terminals : job[t].step \in Opening => outputDir
    /\ \A s, t \in Terminals :
          job[s].step \in Opening /\ job[t].step \in Opening => s = t

\* Mark, open and write happen in this order, each once.
InOrder ==
    /\ \A t \in Terminals :
          /\ job[t].step \in {"mark", "open"} => opened = 0
          /\ job[t].step \in Opening => results = Absent
          /\ At(t, "open") => lock = "OPENED_ONCE"
          /\ At(t, "write") => opened = 1
    /\ opened \in {0, 1}
    /\ opened = 1 => lock = "OPENED_ONCE"
    /\ results # Absent => opened = 1

OnceInv == SealedOnce /\ OneOpener /\ InOrder
Inv == TypeInv /\ OnceInv

LEMMA InitTyped == Init => TypeInv
<1> SUFFICES ASSUME Init PROVE TypeInv
  OBVIOUS
<1>1. Idle \in Jobs
  BY DEF Idle, Jobs, Steps
<1>2. job \in [Terminals -> Jobs] /\ crashes \in 0 .. MaxCrashes
  BY <1>1, CrashAssumption DEF Init
<1>3. TypeOK
  BY <1>2 DEF Init, TypeOK
<1>4. Loaded
  BY DEF Init, Loaded, At, Idle, Opening
<1> QED BY <1>3, <1>4 DEF TypeInv

LEMMA BuildTyped ==
    ASSUME TypeInv, NEW t \in Builders, Build(t)
    PROVE  TypeInv'
<1>0. t \in Terminals
  BY DEF Terminals
<1> USE <1>0, AbsentAssumption
        DEF TypeInv, TypeOK, Loaded, Opening, Jobs, Steps, At, Goto, Return, Start, Idle,
            dataVars, devVars, freezeVars, finalVars
<1>1. CASE GenerateBegin(t)
  BY <1>1 DEF GenerateBegin
<1>2. CASE Seal(t)
  BY <1>2 DEF Seal
<1>3. CASE Tables(t)
  BY <1>3 DEF Tables
<1>4. CASE Metadata(t)
  BY <1>4 DEF Metadata
<1>5. CASE PrepareBegin(t)
  BY <1>5 DEF PrepareBegin
<1>6. CASE Audit(t)
  BY <1>6 DEF Audit, Audits
<1>7. CASE TrainBegin(t)
  BY <1>7 DEF TrainBegin, Models
<1>8. CASE DumpModel(t)
  BY <1>8 DEF DumpModel
<1>9. CASE RecordSelection(t)
  BY <1>9 DEF RecordSelection
<1>10. CASE SelectBegin(t)
  BY <1>10 DEF SelectBegin, Policies
<1>11. CASE SelectPolicy(t)
  BY <1>11 DEF SelectPolicy
<1>12. CASE FreezeBegin(t)
  BY <1>12 DEF FreezeBegin
<1>13. CASE Freeze(t)
  BY <1>13 DEF Freeze, CanHash, Freezes
<1>14. CASE Sign(t)
  BY <1>14 DEF Sign
<1> QED BY <1>1, <1>2, <1>3, <1>4, <1>5, <1>6, <1>7, <1>8, <1>9, <1>10, <1>11, <1>12, <1>13, <1>14 DEF Build

LEMMA EvaluateTyped ==
    ASSUME TypeInv, NEW t \in Evaluators, Evaluate(t)
    PROVE  TypeInv'
<1>0. t \in Terminals
  BY DEF Terminals
<1> USE <1>0, AbsentAssumption
        DEF TypeInv, TypeOK, Loaded, Opening, Jobs, Steps, At, Goto, Return, Start, Idle,
            dataVars, devVars, freezeVars, finalVars
<1>1. CASE EvaluateBegin(t)
  BY <1>1 DEF EvaluateBegin
<1>2. CASE MakeOutput(t)
  BY <1>2 DEF MakeOutput
<1>3. CASE Mark(t)
  BY <1>3 DEF Mark
<1>4. CASE OpenTruth(t)
  BY <1>4 DEF OpenTruth
<1>5. CASE WriteResults(t)
  BY <1>5 DEF WriteResults, Evaluations
<1> QED BY <1>1, <1>2, <1>3, <1>4, <1>5 DEF Evaluate

\* Dying drops what was in hand; editing and stuttering change no file made.
LEMMA OtherTyped ==
    ASSUME TypeInv,
           (\E t \in Terminals : Die(t)) \/ (\E c \in Configs : Edit(c)) \/ UNCHANGED vars
    PROVE  TypeInv'
<1> USE DEF TypeInv, TypeOK, Loaded
<1>1. CASE \E t \in Terminals : Die(t)
  <2>1. PICK t \in Terminals : Die(t)
    BY <1>1
  <2>2. Idle \in Jobs /\ Idle.step = "idle"
    BY DEF Idle, Jobs, Steps
  <2>3. job' \in [Terminals -> Jobs] /\ job'[t] = Idle
        /\ \A u \in Terminals \ {t} : job'[u] = job[u]
    BY <2>1, <2>2 DEF Die, Return
  <2>4. crashes' \in 0 .. MaxCrashes
    BY <2>1, CrashAssumption DEF Die
  <2> QED BY <2>1, <2>2, <2>3, <2>4
          DEF Die, At, Opening, dataVars, devVars, freezeVars, finalVars
<1>2. CASE \E c \in Configs : Edit(c)
  BY <1>2 DEF Edit, At, dataVars, devVars, freezeVars, finalVars
<1>3. CASE UNCHANGED vars
  BY <1>3 DEF vars, At, dataVars, devVars, freezeVars, finalVars
<1> QED BY <1>1, <1>2, <1>3

(* One opening.                                                             *)

LEMMA InitOnce == Init => OnceInv
BY DEF Init, OnceInv, SealedOnce, OneOpener, InOrder, At, Idle, Generating, Opening

LEMMA BuildOnce ==
    ASSUME TypeOK, OnceInv, NEW t \in Builders, Build(t)
    PROVE  OnceInv'
<1>0. t \in Terminals
  BY DEF Terminals
<1> USE <1>0
        DEF OnceInv, SealedOnce, OneOpener, InOrder, TypeOK, Generating, Opening, Jobs,
            At, Goto, Return, Start, Idle, dataVars, devVars, freezeVars, finalVars
<1>1. CASE GenerateBegin(t)
  BY <1>1 DEF GenerateBegin
<1>2. CASE Seal(t)
  BY <1>2 DEF Seal
<1>3. CASE Tables(t)
  BY <1>3 DEF Tables
<1>4. CASE Metadata(t)
  BY <1>4 DEF Metadata
<1>5. CASE PrepareBegin(t)
  BY <1>5 DEF PrepareBegin
<1>6. CASE Audit(t)
  BY <1>6 DEF Audit
<1>7. CASE TrainBegin(t)
  BY <1>7 DEF TrainBegin
<1>8. CASE DumpModel(t)
  BY <1>8 DEF DumpModel
<1>9. CASE RecordSelection(t)
  BY <1>9 DEF RecordSelection
<1>10. CASE SelectBegin(t)
  BY <1>10 DEF SelectBegin
<1>11. CASE SelectPolicy(t)
  BY <1>11 DEF SelectPolicy
<1>12. CASE FreezeBegin(t)
  BY <1>12 DEF FreezeBegin
<1>13. CASE Freeze(t)
  BY <1>13 DEF Freeze
<1>14. CASE Sign(t)
  BY <1>14 DEF Sign
<1> QED BY <1>1, <1>2, <1>3, <1>4, <1>5, <1>6, <1>7, <1>8, <1>9, <1>10, <1>11, <1>12, <1>13, <1>14 DEF Build

LEMMA EvaluateOnce ==
    ASSUME TypeOK, OnceInv, NEW t \in Evaluators, Evaluate(t)
    PROVE  OnceInv'
<1>0. t \in Terminals
  BY DEF Terminals
<1> USE <1>0, AbsentAssumption
        DEF OnceInv, SealedOnce, OneOpener, InOrder, TypeOK, Generating, Opening, Jobs,
            At, Goto, Return, Start, Idle, dataVars, devVars, freezeVars, finalVars
<1>1. CASE EvaluateBegin(t)
  BY <1>1 DEF EvaluateBegin
<1>2. CASE MakeOutput(t)
  BY <1>2 DEF MakeOutput
<1>3. CASE Mark(t)
  BY <1>3 DEF Mark
<1>4. CASE OpenTruth(t)
  BY <1>4 DEF OpenTruth
<1>5. CASE WriteResults(t)
  BY <1>5 DEF WriteResults
<1> QED BY <1>1, <1>2, <1>3, <1>4, <1>5 DEF Evaluate

LEMMA OtherOnce ==
    ASSUME TypeOK, OnceInv,
           (\E t \in Terminals : Die(t)) \/ (\E c \in Configs : Edit(c)) \/ UNCHANGED vars
    PROVE  OnceInv'
<1> USE DEF OnceInv, SealedOnce, OneOpener, InOrder, Generating, Opening, At,
            dataVars, devVars, freezeVars, finalVars
<1>1. CASE \E t \in Terminals : Die(t)
  BY <1>1 DEF Die, Return, Idle, TypeOK
<1>2. CASE \E c \in Configs : Edit(c)
  BY <1>2 DEF Edit
<1>3. CASE UNCHANGED vars
  BY <1>3 DEF vars
<1> QED BY <1>1, <1>2, <1>3

LEMMA StepKeeps ==
    ASSUME Inv, [Next]_vars
    PROVE  Inv'
<1> USE DEF Inv
<1>1. CASE \E t \in Builders : Build(t)
  BY <1>1, BuildTyped, BuildOnce DEF TypeInv
<1>2. CASE \E t \in Evaluators : Evaluate(t)
  BY <1>2, EvaluateTyped, EvaluateOnce DEF TypeInv
<1>3. CASE (\E t \in Terminals : Die(t)) \/ (\E c \in Configs : Edit(c)) \/ UNCHANGED vars
  BY <1>3, OtherTyped, OtherOnce DEF TypeInv
<1> QED BY <1>1, <1>2, <1>3 DEF Next

\* The inductive invariant: types, one seal, one opener, and the order of
\* marking, opening and writing.
THEOREM Invariance == Spec => []Inv
<1>1. Init => Inv
  BY InitTyped, InitOnce DEF Inv
<1>2. Inv /\ [Next]_vars => Inv'
  BY StepKeeps
<1> QED BY <1>1, <1>2, PTL DEF Spec

\* Every file is absent or made of what it should be made of.
THEOREM TypeCorrect == Spec => []TypeOK
<1>1. Inv => TypeOK
  BY DEF Inv, TypeInv
<1> QED BY <1>1, Invariance, PTL

\* The final truth is read at most once, for any number of evaluators started
\* at any time and any number of commands that die.
THEOREM TruthIsOpenedOnce == Spec => []OpenedOnce
<1>1. Inv => OpenedOnce
  BY DEF Inv, OnceInv, InOrder, OpenedOnce
<1> QED BY <1>1, Invariance, PTL

\* A truth that was read is on record as opened, and results only exist after.
THEOREM OpeningIsRecorded == Spec => []OpeningIsOnRecord
<1>1. Inv => OpeningIsOnRecord
  BY DEF Inv, OnceInv, InOrder, OpeningIsOnRecord
<1> QED BY <1>1, Invariance, PTL

\* Only an evaluator that finds no results writes any.
LEMMA ResultsWritten ==
    ASSUME Inv, [Next]_vars, results # Absent
    PROVE  results' = results
<1> USE DEF devVars, freezeVars, finalVars, dataVars
<1>1. CASE \E t \in Builders : Build(t)
  BY <1>1 DEF Build, GenerateBegin, Seal, Tables, Metadata, PrepareBegin, Audit, TrainBegin,
              DumpModel, RecordSelection, SelectBegin, SelectPolicy, FreezeBegin, Freeze, Sign
<1>2. CASE \E t \in Evaluators : Evaluate(t)
  <2>1. PICK t \in Evaluators : Evaluate(t)
    BY <1>2
  <2>2. ~WriteResults(t)
    BY DEF WriteResults, Inv, OnceInv, InOrder, At, Opening, Terminals
  <2> QED BY <2>1, <2>2 DEF Evaluate, EvaluateBegin, MakeOutput, Mark, OpenTruth
<1>3. CASE (\E t \in Terminals : Die(t)) \/ (\E c \in Configs : Edit(c)) \/ UNCHANGED vars
  BY <1>3 DEF Die, Edit, vars
<1> QED BY <1>1, <1>2, <1>3 DEF Next

\* The results are written once and never again.
THEOREM ResultsStay == Spec => ResultsAreFinal
<1>1. Inv /\ [Next]_vars => [results # Absent => results' = results]_results
  BY ResultsWritten
<1> QED BY <1>1, Invariance, PTL DEF Spec, ResultsAreFinal

-----------------------------------------------------------------------------
(* What is evaluated is what was frozen.                                    *)

OneBuilder == \A s, t \in Builders : s = t

\* Builders build and evaluators evaluate.
Places ==
    /\ \A t \in Builders : job[t].step \notin {"mkdir"} \cup Opening
    /\ \A t \in Evaluators : job[t].step \in {"idle", "mkdir"} \cup Opening

\* After the freeze nothing that could change the model or the policy runs,
\* or can be started.
StillAsFrozen ==
    freeze # Absent =>
        /\ selected /\ policy # Absent
        /\ model = freeze.model /\ policy = freeze.policy
        /\ \A t \in Builders : job[t].step \notin {"dump", "select", "policy", "freeze"}

\* Evaluators hold, and results are of, the frozen model and policy.
InHand ==
    /\ \A t \in Evaluators :
          job[t].step \in {"mkdir"} \cup Opening =>
              /\ freeze # Absent
              /\ job[t].model = freeze.model /\ job[t].policy = freeze.policy
    /\ results # Absent =>
          /\ freeze # Absent
          /\ results.model = freeze.model /\ results.policy = freeze.policy

FrozenInv == Places /\ StillAsFrozen /\ InHand

LEMMA BuildFrozen ==
    ASSUME OneBuilder, TypeInv, FrozenInv, NEW t \in Builders, Build(t)
    PROVE  FrozenInv'
<1>0. t \in Terminals
  BY DEF Terminals
<1> USE <1>0, TerminalsAssumption, AbsentAssumption
        DEF OneBuilder, FrozenInv, Places, StillAsFrozen, InHand, TypeInv, TypeOK, Loaded, Opening, Jobs,
            At, Goto, Return, Start, Idle, dataVars, devVars, freezeVars, finalVars
<1>1. CASE GenerateBegin(t)
  BY <1>1 DEF GenerateBegin
<1>2. CASE Seal(t)
  BY <1>2 DEF Seal
<1>3. CASE Tables(t)
  BY <1>3 DEF Tables
<1>4. CASE Metadata(t)
  BY <1>4 DEF Metadata
<1>5. CASE PrepareBegin(t)
  BY <1>5 DEF PrepareBegin
<1>6. CASE Audit(t)
  BY <1>6 DEF Audit
<1>7. CASE TrainBegin(t)
  BY <1>7 DEF TrainBegin
<1>8. CASE DumpModel(t)
  BY <1>8 DEF DumpModel
<1>9. CASE RecordSelection(t)
  BY <1>9 DEF RecordSelection
<1>10. CASE SelectBegin(t)
  BY <1>10 DEF SelectBegin
<1>11. CASE SelectPolicy(t)
  BY <1>11 DEF SelectPolicy
<1>12. CASE FreezeBegin(t)
  BY <1>12 DEF FreezeBegin
<1>13. CASE Freeze(t)
  <2>1. CASE ~CanHash
    <3>1. /\ job'[t].step = "idle" /\ \A u \in Terminals \ {t} : job'[u] = job[u]
          /\ UNCHANGED <<freeze, model, policy, selected, results>>
      BY <1>13, <2>1 DEF Freeze
    <3> QED BY <3>1 DEF Terminals
  <2>2. CASE CanHash
    <3>1. freeze = Absent => results = Absent /\ \A u \in Evaluators : At(u, "idle")
      OBVIOUS
    <3>2. policy # Absent /\ selected
      BY <1>13, <2>2 DEF Freeze, CanHash
    <3>3. freeze'.model = model /\ freeze'.policy = policy /\ freeze' \in Freezes
      BY <1>13, <2>2 DEF Freeze, CanHash, Freezes
    <3>4. job'[t].step = "sign" /\ \A u \in Terminals \ {t} : job'[u] = job[u]
      BY <1>13, <2>2 DEF Freeze
    <3>5. freeze = Absent
      BY <1>13 DEF Freeze
    <3>6. StillAsFrozen'
      BY <1>13, <3>2, <3>3, <3>4 DEF Freeze, Terminals
    <3>7. InHand' /\ Places'
      BY <1>13, <3>1, <3>3, <3>4, <3>5 DEF Freeze, Terminals
    <3> QED BY <3>6, <3>7
  <2> QED BY <2>1, <2>2
<1>14. CASE Sign(t)
  BY <1>14 DEF Sign
<1> QED BY <1>1, <1>2, <1>3, <1>4, <1>5, <1>6, <1>7, <1>8, <1>9, <1>10, <1>11, <1>12, <1>13, <1>14 DEF Build

LEMMA EvaluateFrozen ==
    ASSUME TypeInv, FrozenInv, NEW t \in Evaluators, Evaluate(t)
    PROVE  FrozenInv'
<1>0. t \in Terminals
  BY DEF Terminals
<1> USE <1>0, TerminalsAssumption, AbsentAssumption
        DEF FrozenInv, Places, StillAsFrozen, InHand, TypeInv, TypeOK, Loaded, Opening, Jobs,
            At, Goto, Return, Start, Idle, dataVars, devVars, freezeVars, finalVars
<1>1. CASE EvaluateBegin(t)
  <2>1. /\ job'[t].step = "mkdir" /\ job'[t].model = model /\ job'[t].policy = policy
        /\ \A u \in Terminals \ {t} : job'[u] = job[u]
    BY <1>1 DEF EvaluateBegin
  <2>2. freeze # Absent /\ UNCHANGED <<freeze, model, policy, selected, results>>
    BY <1>1 DEF EvaluateBegin
  <2>3. Places'
    BY <2>1 DEF Terminals
  <2>4. StillAsFrozen'
    BY <2>1, <2>2 DEF Terminals
  <2>5. InHand'
    BY <2>1, <2>2 DEF Terminals
  <2> QED BY <2>3, <2>4, <2>5
<1>2. CASE MakeOutput(t)
  <2>1. /\ job'[t] = Idle \/ job'[t] = [job[t] EXCEPT !.step = "mark"]
        /\ \A u \in Terminals \ {t} : job'[u] = job[u]
        /\ At(t, "mkdir")
        /\ UNCHANGED <<freeze, model, policy, selected, results>>
    BY <1>2 DEF MakeOutput
  <2> QED BY <2>1 DEF Terminals
<1>3. CASE Mark(t)
  BY <1>3 DEF Mark
<1>4. CASE OpenTruth(t)
  BY <1>4 DEF OpenTruth
<1>5. CASE WriteResults(t)
  BY <1>5 DEF WriteResults
<1> QED BY <1>1, <1>2, <1>3, <1>4, <1>5 DEF Evaluate

LEMMA OtherFrozen ==
    ASSUME TypeOK, FrozenInv,
           (\E t \in Terminals : Die(t)) \/ (\E c \in Configs : Edit(c)) \/ UNCHANGED vars
    PROVE  FrozenInv'
<1> USE DEF FrozenInv, Places, StillAsFrozen, InHand, Opening,
            dataVars, devVars, freezeVars, finalVars
<1>1. CASE \E t \in Terminals : Die(t)
  BY <1>1 DEF Die, Return, Idle, TypeOK, Terminals
<1>2. CASE \E c \in Configs : Edit(c)
  BY <1>2 DEF Edit
<1>3. CASE UNCHANGED vars
  BY <1>3 DEF vars
<1> QED BY <1>1, <1>2, <1>3

\* With one builder, only the frozen model and the frozen policy are ever
\* evaluated, although the evaluator compares no hash.
THEOREM FrozenIsEvaluated == OneBuilder /\ Spec => []EvaluatesFrozen
<1>1. Init => FrozenInv
  BY DEF Init, FrozenInv, Places, StillAsFrozen, InHand, Idle, Opening, Terminals
<1>2. OneBuilder /\ Inv /\ FrozenInv /\ [Next]_vars => FrozenInv'
  <2> SUFFICES ASSUME OneBuilder, Inv, FrozenInv, [Next]_vars PROVE FrozenInv'
    OBVIOUS
  <2> USE DEF Inv, TypeInv
  <2>1. CASE \E t \in Builders : Build(t)
    BY <2>1, BuildFrozen
  <2>2. CASE \E t \in Evaluators : Evaluate(t)
    BY <2>2, EvaluateFrozen
  <2>3. CASE (\E t \in Terminals : Die(t)) \/ (\E c \in Configs : Edit(c)) \/ UNCHANGED vars
    BY <2>3, OtherFrozen
  <2> QED BY <2>1, <2>2, <2>3 DEF Next
<1>3. FrozenInv => EvaluatesFrozen
  BY DEF FrozenInv, InHand, EvaluatesFrozen
<1>4. OneBuilder => []OneBuilder
  <2>1. OneBuilder => OneBuilder'
    BY DEF OneBuilder
  <2> QED BY <2>1, PTL
<1> QED BY <1>1, <1>2, <1>3, <1>4, Invariance, PTL DEF Spec

-----------------------------------------------------------------------------
(* What is frozen fits together, as long as no command dies.                *)

\* The files of the different commands as the one builder leaves them, by the
\* command that runs.
Coherent ==
    crashes = 0 =>
        /\ policy # Absent => selected /\ policy.model = model
        /\ audit # Absent /\ audit.passed => audit.features \notin Leaky
        /\ \A t \in Builders :
              /\ model # Absent /\ ~At(t, "select") => selected
              /\ At(t, "dump") => ~selected
              /\ At(t, "policy") => selected /\ job[t].policy.model = model
              /\ audit # Absent /\ ~At(t, "audit") => audit.features = features
              /\ At(t, "audit") => job[t].config = features
              /\ At(t, "freeze") => audit.passed

CoherentInv == TypeInv /\ Coherent /\ FreezeIsCoherent

LEMMA BuildCoherent ==
    ASSUME OneBuilder, CoherentInv, NEW t \in Builders, Build(t)
    PROVE  (Coherent /\ FreezeIsCoherent)'
<1>0. t \in Terminals
  BY DEF Terminals
<1>a. crashes' = crashes
  BY DEF Build, GenerateBegin, Seal, Tables, Metadata, PrepareBegin, Audit, TrainBegin, DumpModel,
         RecordSelection, SelectBegin, SelectPolicy, FreezeBegin, Freeze, Sign
<1> SUFFICES ASSUME crashes = 0 PROVE (Coherent /\ FreezeIsCoherent)'
  BY <1>a DEF Coherent, FreezeIsCoherent
<1>b. \A u \in Builders : u = t
  BY DEF OneBuilder
<1>c. job \in [Terminals -> Jobs]
  BY DEF CoherentInv, TypeInv, TypeOK
<1> USE <1>0, <1>a, <1>b, AbsentAssumption
        DEF CoherentInv, Coherent, FreezeIsCoherent, TypeInv, TypeOK, Loaded, Jobs, At, Goto,
            Return, Start, Idle, dataVars, devVars, freezeVars, finalVars
<1>1. CASE GenerateBegin(t) \/ Seal(t) \/ Tables(t) \/ Metadata(t)
  BY <1>1 DEF GenerateBegin, Seal, Tables, Metadata
<1>2. CASE PrepareBegin(t)
  BY <1>2 DEF PrepareBegin
<1>3. CASE Audit(t)
  BY <1>3 DEF Audit, Audits
<1>4. CASE TrainBegin(t)
  BY <1>4 DEF TrainBegin
<1>5. CASE DumpModel(t)
  BY <1>5 DEF DumpModel
<1>6. CASE RecordSelection(t)
  BY <1>6 DEF RecordSelection
<1>7. CASE SelectBegin(t)
  BY <1>7 DEF SelectBegin
<1>8. CASE SelectPolicy(t)
  BY <1>8 DEF SelectPolicy
<1>9. CASE FreezeBegin(t)
  BY <1>9 DEF FreezeBegin
<1>10. CASE Freeze(t)
  BY <1>10 DEF Freeze, CanHash
<1>11. CASE Sign(t)
  BY <1>11 DEF Sign
<1> QED BY <1>1, <1>2, <1>3, <1>4, <1>5, <1>6, <1>7, <1>8, <1>9, <1>10, <1>11 DEF Build

LEMMA OtherCoherent ==
    ASSUME CoherentInv,
           \/ \E t \in Evaluators : Evaluate(t)
           \/ \E t \in Terminals : Die(t)
           \/ \E c \in Configs : Edit(c)
           \/ UNCHANGED vars
    PROVE  (Coherent /\ FreezeIsCoherent)'
<1>1. CASE \E t \in Terminals : Die(t)
  BY <1>1 DEF Die, Coherent, FreezeIsCoherent, CoherentInv, TypeInv, TypeOK
<1>2. CASE \E t \in Evaluators : Evaluate(t)
  <2>1. /\ \A u \in Builders : job'[u] = job[u]
        /\ UNCHANGED <<devVars, freeze, crashes>>
    BY <1>2, TerminalsAssumption
       DEF Evaluate, EvaluateBegin, MakeOutput, Mark, OpenTruth, WriteResults, Start, Goto, Return,
           CoherentInv, TypeInv, TypeOK, Terminals, dataVars, devVars, freezeVars, finalVars
  <2> QED BY <2>1 DEF CoherentInv, Coherent, FreezeIsCoherent, At, devVars
<1>3. CASE (\E c \in Configs : Edit(c)) \/ UNCHANGED vars
  BY <1>3 DEF Edit, vars, CoherentInv, Coherent, FreezeIsCoherent, At, devVars, freezeVars
<1> QED BY <1>1, <1>2, <1>3

\* With one builder, while no command dies, a freeze holds a policy selected for
\* its model and a passed audit of its features, although it compares no file
\* with another.
THEOREM FreezeCoheres == OneBuilder /\ Spec => []FreezeIsCoherent
<1>1. Init => Coherent /\ FreezeIsCoherent
  BY DEF Init, Coherent, FreezeIsCoherent, At, Idle, Terminals
<1>2. OneBuilder /\ Inv /\ Coherent /\ FreezeIsCoherent /\ [Next]_vars
        => (Coherent /\ FreezeIsCoherent)'
  <2> SUFFICES ASSUME OneBuilder, CoherentInv, [Next]_vars
               PROVE  (Coherent /\ FreezeIsCoherent)'
    BY DEF Inv, CoherentInv
  <2> QED BY BuildCoherent, OtherCoherent DEF Next
<1>3. OneBuilder => []OneBuilder
  <2>1. OneBuilder => OneBuilder'
    BY DEF OneBuilder
  <2> QED BY <2>1, PTL
<1> QED BY <1>1, <1>2, <1>3, Invariance, PTL DEF Spec
=============================================================================
