------------------------ MODULE ExperimentRunsProofs ------------------------
(* Proofs about ExperimentRuns and the modules it is made of, for every       *)
(* number of shards, batches, epochs, runs and executions.                    *)
EXTENDS ExperimentRuns, FilterProofs, FiniteSetTheorems, TLAPS

-----------------------------------------------------------------------------
(* A frozen model is never touched.                                         *)

Frozen == model.state = "whole" /\ IsV3(model.extra)

\* Models and updates are records with these fields.
ModelShape == DOMAIN model = {"state", "version", "dim", "extra", "mtime"}
UpdateShape == DOMAIN update = {"pc", "expected", "dim", "pending"}

\* An update that trains has found a model that is not frozen, and one that
\* writes has truncated it: nobody else writes while an update runs.
FrozenInv ==
    /\ ModelShape /\ UpdateShape
    /\ update.pc = "training" => ~Frozen
    /\ update.pc \in {"model_open", "model_new"} => model.state = "torn"

LEMMA FrozenStarts == RunsInit => FrozenInv
  BY DEF RunsInit, FeedbackInit, ServingInit, Idle, FrozenInv, ModelShape, UpdateShape

\* What a step may do to the model and to the update, as far as the invariant
\* is concerned.
Harmless == FrozenInv' /\ (Frozen => model' = model)

LEMMA NewUpdate ==
    ASSUME NEW e, NEW d, NEW samples, NEW flush
    PROVE  LET u == run_update(e, d, samples, flush)
           IN /\ DOMAIN u = {"pc", "expected", "dim", "pending"}
              /\ u.pc \in {"idle", "buffering", "training"}
              /\ u.pc = "training" => ~Frozen
  BY DEF run_update, Idle, Refuses, Frozen

\* A new update, or none, on an unchanged model.
LEMMA UpdateBegins ==
    ASSUME FrozenInv, model' = model,
           \/ update' = update
           \/ update' = Idle
           \/ \E e, d, samples, flush : update' = run_update(e, d, samples, flush)
    PROVE  Harmless
<1>1. CASE update' = update
  BY <1>1 DEF Harmless, FrozenInv, ModelShape, UpdateShape, Frozen
<1>2. CASE update' = Idle
  BY <1>2 DEF Harmless, FrozenInv, ModelShape, UpdateShape, Frozen, Idle
<1>3. ASSUME NEW e, NEW d, NEW samples, NEW flush, update' = run_update(e, d, samples, flush)
      PROVE  Harmless
  <2>1. /\ DOMAIN update' = {"pc", "expected", "dim", "pending"}
        /\ update'.pc \in {"idle", "buffering", "training"}
        /\ update'.pc = "training" => ~Frozen
    BY <1>3, NewUpdate, Zenon
  <2> QED
    BY <2>1 DEF Harmless, FrozenInv, ModelShape, UpdateShape, Frozen
<1> QED
  BY <1>1, <1>2, <1>3

\* The writes of an update.
LEMMA UpdateWrites == ASSUME FrozenInv, UpdateStep PROVE Harmless
<1>1. CASE OpenBuffer
  BY <1>1 DEF OpenBuffer, Harmless, FrozenInv, ModelShape, UpdateShape, Frozen, Idle
<1>2. CASE WriteBuffer
  BY <1>2 DEF WriteBuffer, Harmless, FrozenInv, ModelShape, UpdateShape, Frozen, Idle
<1>3. CASE OpenModel
  BY <1>3 DEF OpenModel, Harmless, FrozenInv, ModelShape, UpdateShape, Frozen
<1>4. CASE WriteModel
  BY <1>4 DEF WriteModel, Harmless, FrozenInv, ModelShape, UpdateShape, Frozen, Saved
<1>5. CASE ClearBuffer
  BY <1>5 DEF ClearBuffer, Harmless, FrozenInv, ModelShape, UpdateShape, Frozen, Idle
<1> QED
  BY <1>1, <1>2, <1>3, <1>4, <1>5 DEF UpdateStep

\* The inference server makes a model only where there is none.
LEMMA ServerInits ==
    ASSUME FrozenInv, NEW e, NEW init, update.pc = "idle", update' = update,
           model' = infer_items(e, init).model
    PROVE  Harmless
<1>1. \/ model' = model
      \/ model.state = "absent" /\ model' = Saved(DimOf(e), e)
  BY Zenon DEF infer_items, get_agent
<1>2. CASE model' = model
  BY <1>2, UpdateBegins
<1>3. CASE model.state = "absent" /\ model' = Saved(DimOf(e), e)
  BY <1>3 DEF Harmless, FrozenInv, ModelShape, UpdateShape, Frozen, Saved
<1> QED
  BY <1>1, <1>2, <1>3

LEMMA FeedbackHarmless == ASSUME FrozenInv, FeedbackStep PROVE Harmless
<1>1. CASE PlaceByModel
  <2>1. \/ model' = infer_items(loaded.kind, loaded.train).model
        \/ model' = model
    BY <1>1, Zenon DEF PlaceByModel, Stopped, fileVars
  <2>2. update.pc = "idle" /\ update' = update
    BY <1>1 DEF PlaceByModel, Stopped, Idling
  <2> QED
    BY <2>1, <2>2, ServerInits, UpdateBegins
<1>2. CASE PlaceNothing
  BY <1>2, UpdateBegins DEF PlaceNothing, servingVars
<1>3. CASE PlaceByHeuristic
  BY <1>3, UpdateBegins DEF PlaceByHeuristic, Stopped, fileVars
<1>4. ASSUME NEW s, NEW e, NEW ids, NEW effective, NEW flush,
             HandleBlockInfo(s, e, ids, effective, flush)
      PROVE  Harmless
  <2>1. model' = model
    BY <1>4 DEF HandleBlockInfo, fileVars
  <2>2. \/ update' = update
        \/ \E entry : Reward(e, entry, flush)
    BY <1>4, Zenon DEF HandleBlockInfo
  <2>3. ASSUME NEW entry, Reward(e, entry, flush)
        PROVE  \/ update' = update \/ update' = Idle
               \/ \E k, d, samples, f : update' = run_update(k, d, samples, f)
    BY <2>3, Zenon DEF Reward
  <2> QED
    BY <2>1, <2>2, <2>3, UpdateBegins
<1>5. CASE UpdateStep
  BY <1>5, UpdateWrites
<1>6. CASE UpdateDies
  BY <1>6, UpdateBegins DEF UpdateDies
<1> QED
  BY <1>1, <1>2, <1>3, <1>4, <1>5, <1>6, Zenon DEF FeedbackStep

LEMMA RunHarmless == ASSUME FrozenInv, [RunsNext]_vars PROVE Harmless
<1>1. ASSUME NEW r, PrepareRun(r) \/ PrepareBaseline(r) PROVE Harmless
  BY <1>1, UpdateBegins DEF PrepareRun, PrepareBaseline, Configure, servingVars
<1>2. ASSUME NEW ok, FinishPrepare(ok) PROVE Harmless
  BY <1>2, UpdateBegins DEF FinishPrepare, servingVars
<1>3. CASE StartRun
  BY <1>3, UpdateBegins DEF StartRun, StartSupervisor, fileVars
<1>4. CASE EmulatorStep
  <2>1. CASE FeedbackStep
    BY <2>1, FeedbackHarmless
  <2>2. CASE SupervisorStops
    BY <2>2, UpdateBegins DEF SupervisorStops, Stopped, fileVars
  <2> QED
    BY <1>4, <2>1, <2>2 DEF EmulatorStep
<1>5. ASSUME NEW r, ArchiveRun(r) PROVE Harmless
  BY <1>5, UpdateBegins DEF ArchiveRun, servingVars
<1>6. ASSUME NEW passed, FinishFinalize(passed) PROVE Harmless
  BY <1>6, UpdateBegins DEF FinishFinalize, servingVars
<1>7. ASSUME NEW trial, EditParams(trial) PROVE Harmless
  BY <1>7, UpdateBegins DEF EditParams, servingVars
<1>8. CASE CleanIO
  BY <1>8, UpdateBegins DEF CleanIO, servingVars
<1>9. CASE UseTools
  <2>1. ASSUME NEW dim, NEW flush, HandUpdate(dim, flush) PROVE Harmless
    <3>1. model' = model /\ \E e, d, samples, f : update' = run_update(e, d, samples, f)
      BY <2>1, Zenon DEF HandUpdate, fileVars
    <3> QED
      BY <3>1, UpdateBegins
  <2>2. CASE HandInfer
    BY <2>2 DEF HandInfer, InferBatch, Harmless, FrozenInv, ModelShape, UpdateShape,
                Frozen, Saved
  <2> QED
    BY <1>9, <2>1, <2>2 DEF UseTools
<1>10. CASE UNCHANGED vars
  BY <1>10, UpdateBegins DEF vars, servingVars
<1> QED
  BY <1>1, <1>2, <1>3, <1>4, <1>5, <1>6, <1>7, <1>8, <1>9, <1>10, Zenon DEF RunsNext

\* Whatever is trained, served, restarted or run by hand, a checkpoint of
\* mechanism v3 stays as it is (run_update, load_agent, get_agent).
THEOREM FrozenModelStays == RunsSpec => FrozenModelKept
<1>1. RunsInit => FrozenInv
  BY FrozenStarts
<1>2. FrozenInv /\ [RunsNext]_vars => FrozenInv'
  BY RunHarmless DEF Harmless
<1>3. FrozenInv /\ [RunsNext]_vars
        => [model.state = "whole" /\ IsV3(model.extra) => model' = model]_<<servingVars, feedbackVars>>
  BY RunHarmless DEF Harmless, Frozen
<1> QED
  BY <1>1, <1>2, <1>3, PTL DEF RunsSpec, FrozenModelKept

-----------------------------------------------------------------------------
(* A complete run is its own.                                               *)

RunRecord == [stage : {"none", "configured", "prepared"}, snapshot : Params \cup {None},
              archive : (SUBSET (1 .. MaxExecutions)) \cup {None}, complete : BOOLEAN]

RunTypes ==
    /\ params \in Params
    /\ runs \in [Run -> RunRecord]
    /\ execution \in 0 .. MaxExecutions
    /\ executed \in [1 .. MaxExecutions -> Params \cup {None}]
    /\ \A x \in 1 .. execution : executed[x] \in Params
    /\ spring_io \subseteq 1 .. execution
    /\ done \subseteq 1 .. execution

Archive(r) == IF runs[r].archive = None THEN {} ELSE runs[r].archive

\* The emulator runs with the parameters in the file, and writes records.
Emulator ==
    /\ loaded # None => loaded = params /\ execution \in 1 .. MaxExecutions
                         /\ executed[execution] = params
    /\ springTxBatchSeq # 0 => loaded # None /\ execution \in spring_io

\* The parameters in the file are those of the run they name.
Parameters ==
    /\ \A r \in Run : params.run = r => runs[r].stage # "none" /\ runs[r].snapshot = params
    /\ \A r \in Run : runs[r].stage = "none" =>
         \A x \in 1 .. execution : executed[x].run # r

\* The records of a run are in spring_io as long as the file names the run, and
\* then in its archive.
Records ==
    /\ params.run \in Run => \A x \in spring_io : executed[x] = params
    /\ \A r \in Run : \A x \in Archive(r) :
         /\ x \in 1 .. execution /\ x \notin spring_io
         /\ executed[x] = runs[r].snapshot
         /\ loaded # None => x # execution
    /\ \A r \in Run : params.run = r =>
         \A x \in done : executed[x].run = r => x \in spring_io \cup Archive(r)

\* A finalization keeps everybody else away.
Finalizing ==
    tool.name = "finalize" =>
        /\ tool.run \in Run /\ params.run = tool.run
        /\ loaded = None /\ spring_io = {} /\ runs[tool.run].archive # None

Completed ==
    \A r \in Run : runs[r].complete => runs[r].archive # None /\ Archive(r) \cap done # {}

RunInv == RunTypes /\ Emulator /\ Parameters /\ Records /\ Finalizing /\ Completed

watched == <<params, runs, tool, executed, done, loaded, execution, springTxBatchSeq, spring_io>>

LEMMA NoRunFits == NoRun \in RunRecord
<1>1. None \in Params \cup {None} /\ None \in (SUBSET (1 .. MaxExecutions)) \cup {None}
  OBVIOUS
<1> DEFINE P == Params \cup {None}
           A == (SUBSET (1 .. MaxExecutions)) \cup {None}
<1> HIDE DEF P, A
<1>2. [stage |-> "none", snapshot |-> None, archive |-> None, complete |-> FALSE]
        \in [stage : {"none", "configured", "prepared"}, snapshot : P, archive : A, complete : BOOLEAN]
  BY <1>1 DEF P, A
<1> QED
  BY <1>2, Zenon DEF NoRun, RunRecord, P, A

LEMMA RunStarts == RunsInit => RunInv
<1> SUFFICES ASSUME RunsInit PROVE RunInv
  OBVIOUS
<1>1. /\ params \in Trials /\ runs = [r \in Run |-> NoRun] /\ tool = NoTool
      /\ executed = [x \in 1 .. MaxExecutions |-> None] /\ done = {}
      /\ loaded = None /\ execution = 0 /\ springTxBatchSeq = 0 /\ spring_io = {}
  BY DEF RunsInit, FeedbackInit
<1>2. params \in Params /\ params.run = None
  BY <1>1, RunAssumption DEF Params
<1>3. NoRun \in RunRecord /\ NoRun.archive = None
  BY NoRunFits DEF NoRun
<1>4. RunTypes
  BY <1>1, <1>2, <1>3, FeedbackAssumption DEF RunTypes
<1>5. Emulator /\ Parameters
  BY <1>1, <1>2, RunAssumption DEF Emulator, Parameters
<1>6. Records
  BY <1>1, <1>2, <1>3, RunAssumption DEF Records, Archive
<1>7. Finalizing /\ Completed
  BY <1>1, RunAssumption DEF Finalizing, Completed, NoTool, NoRun
<1> QED
  BY <1>4, <1>5, <1>6, <1>7 DEF RunInv

LEMMA RunStutters == ASSUME RunInv, UNCHANGED watched PROVE RunInv'
  BY DEF RunInv, RunTypes, Emulator, Parameters, Records, Finalizing, Completed, Archive, watched

\* A script prepares a run.
LEMMA RunConfigures ==
    ASSUME RunInv, NEW r \in Run, NEW name, NEW config, name # "finalize",
           config \in Params, config.run = r, Configure(name, r, config)
    PROVE  RunInv'
<1> DEFINE new == [NoRun EXCEPT !.stage = "configured", !.snapshot = config]
<1>1. /\ loaded = None /\ spring_io = {} /\ runs[r].stage = "none"
      /\ params' = config /\ runs' = [runs EXCEPT ![r] = new]
      /\ tool' = [name |-> name, run |-> r]
      /\ UNCHANGED <<executed, done, loaded, execution, springTxBatchSeq, spring_io>>
  BY DEF Configure, running_block_emulator_processes, ensure_clean_runtime_directory,
         feedbackVars, memoryVars
<1>2. /\ new \in RunRecord /\ new.stage = "configured" /\ new.snapshot = config
      /\ new.archive = None /\ new.complete = FALSE
  BY NoRunFits DEF NoRun, RunRecord
<1> HIDE DEF new
<1>3. runs'[r] = new /\ \A q \in Run \ {r} : runs'[q] = runs[q]
  BY <1>1 DEF RunInv, RunTypes
<1>4. RunTypes'
  BY <1>1, <1>2 DEF RunInv, RunTypes
<1>5. Emulator'
  BY <1>1 DEF RunInv, Emulator
<1>6. Parameters'
  BY <1>1, <1>2, <1>3 DEF RunInv, Parameters
<1>7. Records'
  <2>1. \A q \in Run : Archive(q)' \subseteq Archive(q)
    BY <1>2, <1>3 DEF Archive
  <2>2. \A x \in done : executed[x].run # r
    BY <1>1 DEF RunInv, Parameters, RunTypes
  <2>3. \A q \in Run : \A x \in Archive(q)' :
          /\ x \in Archive(q) /\ runs'[q].snapshot = runs[q].snapshot
    BY <1>2, <1>3 DEF Archive
  <2> QED
    BY <1>1, <2>2, <2>3 DEF RunInv, Records
<1>8. Finalizing' /\ Completed'
  BY <1>1, <1>2, <1>3 DEF RunInv, Finalizing, Completed, Archive
<1> QED
  BY <1>4, <1>5, <1>6, <1>7, <1>8 DEF RunInv

LEMMA RunPrepares == ASSUME RunInv, NEW r \in Run, PrepareRun(r) \/ PrepareBaseline(r) PROVE RunInv'
<1>1. ASSUME NEW config, config = [run |-> r, kind |-> RunKind[r], train |-> FALSE]
      PROVE  config \in Params /\ config.run = r
  BY <1>1, RunAssumption DEF Params
<1> QED
  BY <1>1, RunConfigures DEF PrepareRun, PrepareBaseline, build_proposed_config,
                             build_baseline_config

\* The end of a preparation changes a stage only.
LEMMA RunPrepared == ASSUME RunInv, NEW ok \in BOOLEAN, FinishPrepare(ok) PROVE RunInv'
<1>1. PICK stage \in {"configured", "prepared"} : runs' = [runs EXCEPT ![tool.run].stage = stage]
  BY DEF FinishPrepare
<1>2. /\ tool' = NoTool
      /\ UNCHANGED <<params, executed, done, loaded, execution, springTxBatchSeq, spring_io>>
  BY DEF FinishPrepare, feedbackVars, memoryVars
<1>3. \A q \in Run : /\ runs'[q].snapshot = runs[q].snapshot /\ runs'[q].archive = runs[q].archive
                     /\ runs'[q].complete = runs[q].complete
                     /\ runs'[q].stage = runs[q].stage \/ runs'[q].stage # "none"
  BY <1>1 DEF RunInv, RunTypes, RunRecord
<1>4. RunTypes'
  BY <1>1, <1>2 DEF RunInv, RunTypes, RunRecord
<1>5. Emulator' /\ Parameters'
  BY <1>2, <1>3 DEF RunInv, Emulator, Parameters
<1>6. \A q \in Run : Archive(q)' = Archive(q)
  BY <1>3 DEF Archive
<1>7. Records'
  BY <1>2, <1>3, <1>6 DEF RunInv, Records
<1>8. Finalizing' /\ Completed'
  BY <1>2, <1>3, <1>6, RunAssumption DEF RunInv, Finalizing, Completed, NoTool
<1> QED
  BY <1>4, <1>5, <1>7, <1>8 DEF RunInv

\* The emulator starts, with the parameters in the file.
LEMMA RunBegins == ASSUME RunInv, StartRun PROVE RunInv'
<1>1. /\ loaded = None /\ loaded' = params /\ execution < MaxExecutions
      /\ execution' = execution + 1 /\ springTxBatchSeq' = 0
      /\ executed' = [executed EXCEPT ![execution + 1] = params]
      /\ tool = NoTool
      /\ UNCHANGED <<params, runs, tool, done, spring_io>>
  BY DEF StartRun, StartSupervisor, NoMemory
<1>2. execution \in 0 .. MaxExecutions /\ MaxExecutions \in Nat
  BY FeedbackAssumption DEF RunInv, RunTypes
<1>3. /\ execution' \in 1 .. MaxExecutions /\ execution' \notin 1 .. execution
      /\ 1 .. execution' = (1 .. execution) \cup {execution'}
      /\ 1 .. execution \subseteq 1 .. MaxExecutions
  BY <1>1, <1>2
<1>4. executed'[execution'] = params /\ \A x \in 1 .. execution : executed'[x] = executed[x]
  BY <1>1, <1>3 DEF RunInv, RunTypes
<1>5. RunTypes'
  <2>1. /\ params' \in Params /\ runs' \in [Run -> RunRecord]
        /\ executed' \in [1 .. MaxExecutions -> Params \cup {None}]
    BY <1>1, <1>3 DEF RunInv, RunTypes
  <2>2. \A x \in 1 .. execution' : executed'[x] \in Params
    BY <1>3, <1>4 DEF RunInv, RunTypes
  <2>3. execution' \in 0 .. MaxExecutions
    BY <1>1, <1>2
  <2>4. spring_io' \subseteq 1 .. execution' /\ done' \subseteq 1 .. execution'
    BY <1>1, <1>3 DEF RunInv, RunTypes
  <2> QED
    BY <2>1, <2>2, <2>3, <2>4 DEF RunTypes
<1>6. Emulator'
  BY <1>1, <1>3, <1>4 DEF Emulator
<1>7. Parameters'
  <2>1. \A r \in Run : params'.run = r => runs'[r].stage # "none" /\ runs'[r].snapshot = params'
    BY <1>1 DEF RunInv, Parameters
  <2>2. ASSUME NEW r \in Run, runs'[r].stage = "none", NEW x \in 1 .. execution'
        PROVE  executed'[x].run # r
    <3>1. runs[r].stage = "none" /\ params.run # r
      BY <1>1, <2>1, <2>2
    <3>2. CASE x = execution'
      BY <1>4, <3>1, <3>2
    <3>3. CASE x \in 1 .. execution
      BY <1>4, <3>1, <3>3 DEF RunInv, Parameters
    <3> QED
      BY <1>3, <3>2, <3>3
  <2> QED
    BY <2>1, <2>2 DEF Parameters
<1>8. Records'
  <2>1. \A r \in Run : Archive(r)' = Archive(r)
    BY <1>1 DEF Archive
  <2>2. \A x \in spring_io \cup done : executed'[x] = executed[x]
    BY <1>4 DEF RunInv, RunTypes
  <2>3. params'.run \in Run => \A x \in spring_io' : executed'[x] = params'
    BY <1>1, <2>2 DEF RunInv, Records
  <2>4. ASSUME NEW r \in Run, NEW x \in Archive(r)'
        PROVE  /\ x \in 1 .. execution' /\ x \notin spring_io'
               /\ executed'[x] = runs'[r].snapshot /\ x # execution'
    <3>1. x \in 1 .. execution /\ x \notin spring_io /\ executed[x] = runs[r].snapshot
      BY <2>1 DEF RunInv, Records
    <3> QED
      BY <1>1, <1>3, <1>4, <3>1
  <2>5. \A r \in Run : params'.run = r =>
          \A x \in done' : executed'[x].run = r => x \in spring_io' \cup Archive(r)'
    BY <1>1, <2>1, <2>2 DEF RunInv, Records
  <2> QED
    BY <2>3, <2>4, <2>5 DEF Records
<1>9. Finalizing' /\ Completed'
  BY <1>1, RunAssumption DEF RunInv, Finalizing, Completed, Archive, NoTool
<1> QED
  BY <1>5, <1>6, <1>7, <1>8, <1>9 DEF RunInv

\* What a step of the emulator does to its records: it stops, it goes on, or it
\* is an update that runs.
LEMMA EmulatorShapes ==
    ASSUME FeedbackStep \/ SupervisorStops
    PROVE  /\ execution' = execution
           /\ \/ /\ loaded' = None /\ springTxBatchSeq' = 0 /\ spring_io' = spring_io
              \/ /\ loaded # None /\ loaded' = loaded
                 /\ \/ spring_io' = spring_io \cup {execution}
                    \/ spring_io' = spring_io /\ (springTxBatchSeq' # 0 => springTxBatchSeq # 0)
              \/ UNCHANGED <<loaded, spring_io, springTxBatchSeq>>
<1>1. ASSUME Stopped
      PROVE  /\ execution' = execution /\ loaded' = None /\ springTxBatchSeq' = 0
             /\ spring_io' = spring_io
  BY <1>1 DEF Stopped, NoMemory
<1>2. CASE SupervisorStops
  BY <1>1, <1>2 DEF SupervisorStops
<1>3. CASE PlaceByModel
  <2>1. CASE Stopped
    BY <1>1, <2>1
  <2>2. CASE ~Stopped
    <3>1. /\ loaded # None /\ loaded' = loaded /\ execution' = execution
          /\ spring_io' = spring_io \cup {execution}
      BY <1>3, <2>2, Zenon DEF PlaceByModel
    <3> QED
      BY <3>1
  <2> QED
    BY <2>1, <2>2
<1>4. CASE PlaceNothing
  <2>1. /\ loaded # None /\ loaded' = loaded /\ execution' = execution
        /\ spring_io' = spring_io /\ springTxBatchSeq # 0
    BY <1>4, FeedbackAssumption DEF PlaceNothing
  <2> QED
    BY <2>1
<1>5. CASE PlaceByHeuristic
  <2>1. CASE Stopped
    BY <1>1, <2>1
  <2>2. CASE ~Stopped
    <3>1. /\ loaded # None /\ loaded' = loaded /\ execution' = execution
          /\ spring_io' = spring_io \cup {execution}
      BY <1>5, <2>2, Zenon DEF PlaceByHeuristic
    <3> QED
      BY <3>1
  <2> QED
    BY <2>1, <2>2
<1>6. ASSUME NEW s, NEW e, NEW ids, NEW effective, NEW flush,
             HandleBlockInfo(s, e, ids, effective, flush)
      PROVE  /\ loaded # None /\ loaded' = loaded /\ execution' = execution
             /\ springTxBatchSeq' = springTxBatchSeq
             /\ spring_io' = spring_io \/ spring_io' = spring_io \cup {execution}
  <2>1. /\ loaded # None /\ loaded' = loaded /\ execution' = execution
        /\ springTxBatchSeq' = springTxBatchSeq
    BY <1>6, Zenon DEF HandleBlockInfo
  <2>2. \/ spring_io' = spring_io
        \/ \E entry : Reward(e, entry, flush)
    BY <1>6, Zenon DEF HandleBlockInfo
  <2>3. ASSUME NEW entry, Reward(e, entry, flush)
        PROVE  spring_io' = spring_io \/ spring_io' = spring_io \cup {execution}
    BY <2>3, Zenon DEF Reward
  <2> QED
    BY <2>1, <2>2, <2>3
<1>7. CASE UNCHANGED feedbackVars
  BY <1>7 DEF feedbackVars, memoryVars
<1> QED
  BY <1>2, <1>3, <1>4, <1>5, <1>6, <1>7, Zenon DEF FeedbackStep

LEMMA RunEmulates == ASSUME RunInv, EmulatorStep PROVE RunInv'
<1>1. /\ UNCHANGED <<params, runs, tool, executed>>
      /\ execution' = execution
  BY EmulatorShapes DEF EmulatorStep
<1>2. /\ loaded' # None => loaded # None /\ loaded' = loaded
      /\ \/ spring_io' = spring_io
         \/ /\ loaded # None /\ loaded' = loaded
            /\ spring_io' = spring_io \cup {execution}
      /\ springTxBatchSeq' # 0 => loaded' # None /\ execution \in spring_io'
  BY EmulatorShapes DEF EmulatorStep, RunInv, Emulator
<1>3. \/ done' = done
      \/ loaded # None /\ done' = done \cup {execution} /\ execution \in spring_io'
  BY <1>2, FeedbackAssumption DEF EmulatorStep
<1>4. loaded # None => execution \in 1 .. execution /\ executed[execution] = params
  BY FeedbackAssumption DEF RunInv, Emulator
<1>5. RunTypes'
  BY <1>1, <1>2, <1>3, <1>4 DEF RunInv, RunTypes
<1>6. Emulator'
  BY <1>1, <1>2 DEF RunInv, Emulator
<1>7. Parameters'
  BY <1>1 DEF RunInv, Parameters
<1>8. \A r \in Run : Archive(r)' = Archive(r)
  BY <1>1 DEF Archive
<1>9. Records'
  <2>1. params'.run \in Run => \A x \in spring_io' : executed'[x] = params'
    BY <1>1, <1>2, <1>4 DEF RunInv, Records
  <2>2. \A r \in Run : \A x \in Archive(r)' :
          /\ x \in 1 .. execution' /\ x \notin spring_io'
          /\ executed'[x] = runs'[r].snapshot
          /\ loaded' # None => x # execution'
    BY <1>1, <1>2, <1>8 DEF RunInv, Records
  <2>3. \A r \in Run : params'.run = r =>
          \A x \in done' : executed'[x].run = r => x \in spring_io' \cup Archive(r)'
    BY <1>1, <1>2, <1>3, <1>8 DEF RunInv, Records
  <2> QED
    BY <2>1, <2>2, <2>3 DEF Records
<1>10. Finalizing' /\ Completed'
  <2>1. done \subseteq done'
    BY <1>3
  <2>2. tool.name = "finalize" => loaded' = None /\ spring_io' = {}
    BY <1>2 DEF RunInv, Finalizing
  <2> QED
    BY <1>1, <1>8, <2>1, <2>2 DEF RunInv, Finalizing, Completed
<1> QED
  BY <1>5, <1>6, <1>7, <1>9, <1>10 DEF RunInv

\* The records go to the run directory.
LEMMA RunArchives == ASSUME RunInv, NEW r \in Run, ArchiveRun(r) PROVE RunInv'
<1>1. /\ loaded = None /\ params.run = r /\ params = runs[r].snapshot
      /\ tool' = [name |-> "finalize", run |-> r]
      /\ UNCHANGED <<params, executed, done, loaded, execution, springTxBatchSeq>>
  BY DEF ArchiveRun, BelongsTo, running_block_emulator_processes, memoryVars
<1>2. CASE runs[r].archive = None /\ runs' = [runs EXCEPT ![r].archive = spring_io] /\ spring_io' = {}
  <2>1. /\ runs'[r] = [runs[r] EXCEPT !.archive = spring_io]
        /\ \A q \in Run \ {r} : runs'[q] = runs[q]
    BY <1>2 DEF RunInv, RunTypes
  <2>2. spring_io \in SUBSET (1 .. MaxExecutions) /\ spring_io # None
    BY RunAssumption, FeedbackAssumption DEF RunInv, RunTypes
  <2>3. runs[r] \in RunRecord
    BY DEF RunInv, RunTypes
  <2>4. /\ runs'[r] \in RunRecord /\ runs'[r].archive = spring_io
        /\ runs'[r].snapshot = runs[r].snapshot /\ runs'[r].complete = runs[r].complete
        /\ runs'[r].stage = runs[r].stage
    BY <2>1, <2>2, <2>3 DEF RunRecord
  <2>5. Archive(r)' = spring_io /\ Archive(r) = {} /\ \A q \in Run \ {r} : Archive(q)' = Archive(q)
    BY <1>2, <2>1, <2>2, <2>4 DEF Archive
  <2>6. RunTypes'
    BY <1>1, <1>2, <2>1, <2>4 DEF RunInv, RunTypes
  <2>7. Emulator'
    BY <1>1 DEF RunInv, Emulator
  <2>8. Parameters'
    <3>1. \A q \in Run : runs'[q].stage = runs[q].stage /\ runs'[q].snapshot = runs[q].snapshot
      BY <2>1, <2>4
    <3> QED
      BY <1>1, <3>1 DEF RunInv, Parameters
  <2>9. Records'
    <3>1. ASSUME NEW q \in Run, NEW x \in Archive(q)'
          PROVE  x \in 1 .. execution /\ executed[x] = runs'[q].snapshot
      <4>1. CASE q = r
        BY <1>1, <2>4, <2>5, <4>1, <3>1 DEF RunInv, Records, RunTypes
      <4>2. CASE q # r
        BY <2>1, <2>5, <4>2, <3>1 DEF RunInv, Records
      <4> QED
        BY <4>1, <4>2
    <3>2. \A x \in done : executed[x].run = r => x \in Archive(r)'
      BY <1>1, <2>5 DEF RunInv, Records
    <3> QED
      BY <1>1, <1>2, <3>1, <3>2 DEF Records
  <2>10. Finalizing' /\ Completed'
    BY <1>1, <1>2, <2>1, <2>2, <2>4, <2>5 DEF RunInv, Finalizing, Completed
  <2> QED
    BY <2>6, <2>7, <2>8, <2>9, <2>10 DEF RunInv
<1>3. CASE runs[r].archive # None /\ spring_io = {} /\ UNCHANGED <<runs, spring_io>>
  <2>1. Finalizing'
    BY <1>1, <1>3 DEF Finalizing
  <2> QED
    BY <1>1, <1>3, <2>1 DEF RunInv, RunTypes, Emulator, Parameters, Records, Completed, Archive
<1> QED
  BY <1>2, <1>3 DEF ArchiveRun

\* A run is marked complete.
LEMMA RunFinishes == ASSUME RunInv, NEW passed \in BOOLEAN, FinishFinalize(passed) PROVE RunInv'
<1> DEFINE r == tool.run
<1>1. /\ r \in Run /\ params.run = r /\ loaded = None /\ spring_io = {} /\ runs[r].archive # None
      /\ passed => \E x \in done : executed[x].run = r
      /\ runs' = [runs EXCEPT ![r].complete = @ \/ passed]
      /\ tool' = NoTool
      /\ UNCHANGED <<params, executed, done, loaded, execution, springTxBatchSeq, spring_io>>
  BY DEF FinishFinalize, validate_analysis_integrity, RunInv, Finalizing, feedbackVars, memoryVars
<1> HIDE DEF r
<1>2. runs[r] \in RunRecord
  BY <1>1 DEF RunInv, RunTypes
<1>3. /\ runs'[r] = [runs[r] EXCEPT !.complete = @ \/ passed]
      /\ \A q \in Run \ {r} : runs'[q] = runs[q]
  BY <1>1 DEF RunInv, RunTypes
<1>4. /\ runs'[r] \in RunRecord /\ runs'[r].stage = runs[r].stage
      /\ runs'[r].snapshot = runs[r].snapshot /\ runs'[r].archive = runs[r].archive
      /\ runs'[r].complete => runs[r].complete \/ passed
  BY <1>2, <1>3 DEF RunRecord
<1>5. \A q \in Run : Archive(q)' = Archive(q) /\ runs'[q].snapshot = runs[q].snapshot
  BY <1>3, <1>4 DEF Archive
<1>6. RunTypes'
  BY <1>1, <1>3, <1>4 DEF RunInv, RunTypes
<1>7. Emulator'
  BY <1>1 DEF RunInv, Emulator
<1>8. Parameters'
  BY <1>1, <1>3, <1>4 DEF RunInv, Parameters
<1>9. Records'
  BY <1>1, <1>5 DEF RunInv, Records
<1>10. Finalizing'
  BY <1>1, RunAssumption DEF Finalizing, NoTool
<1>11. Completed'
  <2>1. passed => Archive(r) \cap done # {}
    BY <1>1 DEF RunInv, Records
  <2> QED
    BY <1>1, <1>3, <1>4, <1>5, <2>1 DEF RunInv, Completed
<1> QED
  BY <1>6, <1>7, <1>8, <1>9, <1>10, <1>11 DEF RunInv

\* The user edits the parameters, or throws records of a trial away.
LEMMA RunEdits == ASSUME RunInv, NEW trial \in Trials, EditParams(trial) PROVE RunInv'
<1>1. /\ params' \in Params /\ params'.run \notin Run /\ loaded = None /\ tool = NoTool
      /\ UNCHANGED <<runs, tool, executed, done, loaded, execution, springTxBatchSeq, spring_io>>
  BY RunAssumption DEF EditParams, Params, feedbackVars, memoryVars
<1>2. Finalizing'
  BY <1>1, RunAssumption DEF Finalizing, NoTool
<1>3. Parameters'
  BY <1>1 DEF RunInv, Parameters
<1> QED
  BY <1>1, <1>2, <1>3 DEF RunInv, RunTypes, Emulator, Records, Completed, Archive

LEMMA RunCleans == ASSUME RunInv, CleanIO PROVE RunInv'
<1>1. /\ params.run \notin Run /\ loaded = None /\ tool = NoTool /\ spring_io' = {}
      /\ UNCHANGED <<params, runs, tool, executed, done, loaded, execution, springTxBatchSeq>>
  BY RunAssumption DEF CleanIO, runVars, memoryVars
<1>2. Finalizing'
  BY <1>1, RunAssumption DEF Finalizing, NoTool
<1> QED
  BY <1>1, <1>2 DEF RunInv, RunTypes, Emulator, Parameters, Records, Completed, Archive

LEMMA RunSteps == ASSUME RunInv, [RunsNext]_vars PROVE RunInv'
<1>1. CASE UseTools
  <2>1. UNCHANGED <<runVars, feedbackVars>>
    BY <1>1, Zenon DEF UseTools, HandUpdate, HandInfer
  <2> QED
    BY <2>1, RunStutters DEF watched, runVars, feedbackVars, memoryVars
<1>2. CASE UNCHANGED vars
  BY <1>2, RunStutters DEF vars, watched, runVars, feedbackVars, memoryVars
<1> QED
  BY <1>1, <1>2, RunPrepares, RunPrepared, RunBegins, RunEmulates, RunArchives, RunFinishes,
     RunEdits, RunCleans, Zenon DEF RunsNext

\* The records of a complete run are its own, whatever was edited, restarted,
\* killed, trained or archived in between (main of prepare_block_run,
\* archive_spring_io, ensure_run_root and validate_analysis_integrity).
THEOREM CompleteRunsAreTrue == RunsSpec => []CompleteIsTrue
<1>1. RunsInit => RunInv
  BY RunStarts
<1>2. RunInv /\ [RunsNext]_vars => RunInv'
  BY RunSteps
<1>3. RunInv => CompleteIsTrue
  BY DEF RunInv, Records, Completed, Archive, CompleteIsTrue
<1> QED
  BY <1>1, <1>2, <1>3, PTL DEF RunsSpec

-----------------------------------------------------------------------------
(* The newest model serves.                                                 *)

\* The cached agent is not newer than the file; one that has the time of the
\* file is what the file holds, and was checked against its configuration.
CacheInv ==
    /\ springTxBatchSeq \in Nat
    /\ model.mtime \in Nat
    /\ cache # None =>
         /\ cache.mtime \in Nat /\ cache.mtime <= model.mtime
         /\ cache.mtime = model.mtime =>
              /\ model.state = "whole" /\ cache.version = model.version
              /\ Matches(model.extra, cache.expected)

\* A batch that a model has decided was decided by the one in the file.
Newest ==
    springTxBatchSeq' > springTxBatchSeq /\ served' # None =>
        /\ model'.state = "whole" /\ served' = model'.version
        /\ Matches(model'.extra, loaded.kind)

LEMMA CacheStarts == RunsInit => CacheInv
  BY DEF RunsInit, FeedbackInit, ServingInit, CacheInv

\* Steps that leave the file alone or give it a new time, and keep the cache or
\* lose it.
LEMMA CacheStays ==
    ASSUME CacheInv, cache' \in {cache, None},
           model' = model \/ model'.mtime = model.mtime + 1,
           springTxBatchSeq' \in Nat
    PROVE  CacheInv'
  BY DEF CacheInv, Matches

\* No batch is decided, or by a heuristic.
Unserved == springTxBatchSeq' \in {springTxBatchSeq, 0} \/ served' = None

LEMMA UnservedIsNewest == ASSUME CacheInv, Unserved PROVE Newest
  BY DEF CacheInv, Unserved, Newest

\* What the inference server answers with.
LEMMA AgentIsNewest ==
    ASSUME CacheInv, NEW e, NEW init, NEW answer, answer = infer_items(e, init),
           model' = answer.model, cache' = answer.cache, springTxBatchSeq' \in Nat
    PROVE  /\ CacheInv'
           /\ answer.version # None =>
                /\ model'.state = "whole" /\ answer.version = model'.version
                /\ Matches(model'.extra, e)
<1> DEFINE agent  == get_agent(e, init)
           fresh  == Saved(DimOf(e), e)
           New(m) == [expected |-> e, version |-> m.version, mtime |-> m.mtime]
<1>1. answer.version = agent.version /\ model' = agent.model /\ cache' = agent.cache
  BY Zenon DEF infer_items
<1>2. \/ /\ Hit(e) /\ agent = [version |-> cache.version, model |-> model, cache |-> cache]
      \/ agent = [version |-> fresh.version, model |-> fresh, cache |-> New(fresh)]
      \/ /\ Loadable(e)
         /\ agent = [version |-> model.version, model |-> model, cache |-> New(model)]
      \/ agent = [version |-> None, model |-> model, cache |-> cache]
  BY Zenon DEF get_agent
<1>3. /\ fresh.state = "whole" /\ fresh.mtime = model.mtime + 1 /\ fresh.extra = e
      /\ Matches(fresh.extra, e)
  BY DEF Saved, Matches, IsV3
<1> HIDE DEF agent, fresh
<1>4. CASE Hit(e) /\ agent = [version |-> cache.version, model |-> model, cache |-> cache]
  <2>1. answer.version = cache.version /\ model' = model /\ cache' = cache
    BY <1>1, <1>4
  <2>2. CacheInv'
    BY <2>1, CacheStays
  <2> QED
    BY <1>4, <2>1, <2>2 DEF Hit, CacheInv, Matches
<1>5. CASE agent = [version |-> fresh.version, model |-> fresh, cache |-> New(fresh)]
  <2>1. /\ answer.version = fresh.version /\ model' = fresh /\ cache'.expected = e
        /\ cache'.version = fresh.version /\ cache'.mtime = fresh.mtime
    BY <1>1, <1>5
  <2> QED
    BY <1>3, <2>1 DEF CacheInv, Matches
<1>6. CASE /\ Loadable(e)
           /\ agent = [version |-> model.version, model |-> model, cache |-> New(model)]
  <2>1. /\ answer.version = model.version /\ model' = model /\ cache'.expected = e
        /\ cache'.version = model.version /\ cache'.mtime = model.mtime
    BY <1>1, <1>6
  <2> QED
    BY <1>6, <2>1 DEF CacheInv, Matches, Loadable
<1>7. CASE agent = [version |-> None, model |-> model, cache |-> cache]
  <2>1. answer.version = None /\ model' = model /\ cache' = cache
    BY <1>1, <1>7
  <2> QED
    BY <2>1, CacheStays
<1> QED
  BY <1>2, <1>4, <1>5, <1>6, <1>7

\* Every write of an update gives the model a new time.
LEMMA UpdateTimes ==
    ASSUME FrozenInv, UpdateStep
    PROVE  cache' = cache /\ (model' = model \/ model'.mtime = model.mtime + 1)
<1>1. CASE OpenBuffer \/ WriteBuffer \/ ClearBuffer
  BY <1>1 DEF OpenBuffer, WriteBuffer, ClearBuffer
<1>2. CASE OpenModel
  BY <1>2 DEF OpenModel, FrozenInv, ModelShape
<1>3. CASE WriteModel
  BY <1>3 DEF WriteModel, Saved
<1> QED
  BY <1>1, <1>2, <1>3 DEF UpdateStep

\* A supervisor that starts or ends has no agent.
LEMMA MemoryLost == ASSUME NoMemory PROVE springTxBatchSeq' = 0 /\ served' = None /\ cache' = None
  BY DEF NoMemory

LEMMA FeedbackServes ==
    ASSUME CacheInv, FrozenInv, FeedbackStep \/ SupervisorStops
    PROVE  CacheInv' /\ Newest
<1>1. ASSUME Stopped PROVE CacheInv' /\ Newest
  <2>1. NoMemory /\ model' = model
    BY <1>1 DEF Stopped, fileVars
  <2> QED
    BY <2>1, MemoryLost, CacheStays, UnservedIsNewest DEF Unserved
<1>2. CASE PlaceByModel
  <2> DEFINE answer == infer_items(loaded.kind, loaded.train)
  <2>1. CASE Stopped
    BY <1>1, <2>1
  <2>2. CASE ~Stopped
    <3>1. /\ model' = answer.model /\ cache' = answer.cache /\ served' = answer.version
          /\ springTxBatchSeq' = springTxBatchSeq + 1
      BY <1>2, <2>2, Zenon DEF PlaceByModel
    <3>2. springTxBatchSeq' \in Nat
      BY <3>1 DEF CacheInv
    <3> HIDE DEF answer
    <3>3. /\ CacheInv'
          /\ answer.version # None =>
               /\ model'.state = "whole" /\ answer.version = model'.version
               /\ Matches(model'.extra, loaded.kind)
      BY <3>1, <3>2, AgentIsNewest, Zenon DEF answer
    <3> QED
      BY <3>1, <3>3 DEF Newest
  <2> QED
    BY <2>1, <2>2
<1>3. CASE PlaceNothing
  <2>1. /\ model' = model /\ cache' = cache /\ served' = None
        /\ springTxBatchSeq' = springTxBatchSeq + 1
    BY <1>3 DEF PlaceNothing, servingVars
  <2> QED
    BY <2>1, CacheStays, UnservedIsNewest DEF Unserved, CacheInv
<1>4. CASE PlaceByHeuristic
  <2>1. CASE Stopped
    BY <1>1, <2>1
  <2>2. CASE ~Stopped
    <3>1. /\ model' = model /\ cache' = None /\ served' = None
          /\ springTxBatchSeq' = springTxBatchSeq + 1
      BY <1>4, <2>2 DEF PlaceByHeuristic, fileVars
    <3> QED
      BY <3>1, CacheStays, UnservedIsNewest DEF Unserved, CacheInv
  <2> QED
    BY <2>1, <2>2
<1>5. ASSUME NEW s, NEW e, NEW ids, NEW effective, NEW flush,
             HandleBlockInfo(s, e, ids, effective, flush)
      PROVE  CacheInv' /\ Newest
  <2>1. model' = model /\ cache' = cache /\ springTxBatchSeq' = springTxBatchSeq
    BY <1>5, Zenon DEF HandleBlockInfo, fileVars
  <2> QED
    BY <2>1, CacheStays, UnservedIsNewest DEF Unserved, CacheInv
<1>6. CASE (UpdateStep \/ UpdateDies) /\ UNCHANGED feedbackVars
  <2>1. cache' = cache /\ (model' = model \/ model'.mtime = model.mtime + 1)
    BY <1>6, UpdateTimes DEF UpdateDies
  <2>2. springTxBatchSeq' = springTxBatchSeq
    BY <1>6 DEF feedbackVars, memoryVars
  <2> QED
    BY <2>1, <2>2, CacheStays, UnservedIsNewest DEF Unserved, CacheInv
<1>7. CASE SupervisorStops
  BY <1>1, <1>7 DEF SupervisorStops
<1> QED
  BY <1>2, <1>3, <1>4, <1>5, <1>6, <1>7, Zenon DEF FeedbackStep

LEMMA RunServes == ASSUME CacheInv, FrozenInv, [RunsNext]_vars PROVE CacheInv' /\ Newest
<1> DEFINE Quiet == /\ cache' = cache
                    /\ model' = model \/ model'.mtime = model.mtime + 1
                    /\ springTxBatchSeq' = springTxBatchSeq
<1>1. ASSUME Quiet PROVE CacheInv' /\ Newest
  BY <1>1, CacheStays, UnservedIsNewest DEF Unserved, CacheInv
<1>2. ASSUME NEW r, PrepareRun(r) \/ PrepareBaseline(r) PROVE Quiet
  BY <1>2 DEF PrepareRun, PrepareBaseline, Configure, servingVars, feedbackVars, memoryVars
<1>3. ASSUME NEW ok, FinishPrepare(ok) PROVE Quiet
  BY <1>3 DEF FinishPrepare, servingVars, feedbackVars, memoryVars
<1>4. CASE StartRun
  <2>1. NoMemory /\ model' = model
    BY <1>4 DEF StartRun, StartSupervisor, fileVars
  <2> QED
    BY <2>1, MemoryLost, CacheStays, UnservedIsNewest DEF Unserved
<1>5. CASE EmulatorStep
  BY <1>5, FeedbackServes DEF EmulatorStep
<1>6. ASSUME NEW r, ArchiveRun(r) PROVE Quiet
  BY <1>6 DEF ArchiveRun, servingVars, memoryVars
<1>7. ASSUME NEW passed, FinishFinalize(passed) PROVE Quiet
  BY <1>7 DEF FinishFinalize, servingVars, feedbackVars, memoryVars
<1>8. ASSUME NEW trial, EditParams(trial) PROVE Quiet
  BY <1>8 DEF EditParams, servingVars, feedbackVars, memoryVars
<1>9. ASSUME CleanIO PROVE Quiet
  BY <1>9 DEF CleanIO, servingVars, memoryVars
<1>10. ASSUME UseTools PROVE Quiet
  <2>1. ASSUME NEW dim, NEW flush, HandUpdate(dim, flush) PROVE Quiet
    BY <2>1 DEF HandUpdate, fileVars, feedbackVars, memoryVars
  <2>2. CASE HandInfer
    BY <2>2 DEF HandInfer, InferBatch, Saved, feedbackVars, memoryVars
  <2> QED
    BY <1>10, <2>1, <2>2, Zenon DEF UseTools
<1>11. ASSUME UNCHANGED vars PROVE Quiet
  BY <1>11 DEF vars, servingVars, feedbackVars, memoryVars
<1> HIDE DEF Quiet
<1> QED
  BY <1>1, <1>2, <1>3, <1>4, <1>5, <1>6, <1>7, <1>8, <1>9, <1>10, <1>11, Zenon DEF RunsNext

\* Every batch that a model decides is decided by the newest model and by one
\* of the configuration of the execution, through updates, deaths of updates,
\* restarts, resets and training by hand (get_agent, run_update, load_agent).
THEOREM NewestModelServes == RunsSpec => ServesNewest
<1>1. RunsInit => CacheInv /\ FrozenInv
  BY CacheStarts, FrozenStarts
<1>2. CacheInv /\ FrozenInv /\ [RunsNext]_vars => (CacheInv /\ FrozenInv)'
  BY RunServes, RunHarmless DEF Harmless
<1>3. CacheInv /\ FrozenInv /\ [RunsNext]_vars
        => [springTxBatchSeq' > springTxBatchSeq /\ served' # None =>
              /\ model'.state = "whole" /\ served' = model'.version
              /\ Matches(model'.extra, loaded.kind)]_<<servingVars, feedbackVars>>
  BY RunServes DEF Newest
<1> QED
  BY <1>1, <1>2, <1>3, PTL DEF RunsSpec, ServesNewest

-----------------------------------------------------------------------------
(* Types.                                                                   *)

Batch == [id : 1 .. NumBatches, count : 0 .. springMaxTrainFeedbackMatches, first : Nat]
UpdateRecord == [pc : {"idle", "buffering", "buffer_open", "training", "model_open",
                       "model_new", "model_saved"},
                 expected : Expected, dim : Nat, pending : Seq(Sample)]

\* Items without two of the same name, but for the names in X.
Unique(s, X) == \A i, j \in DOMAIN s : s[i].id \notin X /\ s[i].id = s[j].id => i = j

\* A filter keeps names apart, and so do filters at different positions.
LEMMA KeptUnique ==
    ASSUME NEW S, NEW s \in Seq(S), NEW X, Unique(s, X), NEW P
    PROVE  Unique(Kept(s, P), X)
<1>1. PICK t : t = Kept(s, P)
  OBVIOUS
<1>2. t \in Seq(S) /\ DOMAIN t \subseteq Nat
  BY <1>1, KeptItems
<1>3. ASSUME NEW i \in DOMAIN t, NEW j \in DOMAIN t, i < j, t[i].id \notin X
      PROVE  t[i].id # t[j].id
  <2>1. PICK p, q \in P \cap DOMAIN s : p < q /\ t[i] = s[p] /\ t[j] = s[q]
    BY <1>1, <1>3, KeptInOrder
  <2>2. p # q
    BY <2>1, DOMAIN s \subseteq Nat
  <2> QED
    BY <1>3, <2>1, <2>2, Zenon DEF Unique
<1>4. \A i, j \in Nat : i < j \/ j < i \/ i = j
  OBVIOUS
<1> QED
  BY <1>1, <1>2, <1>3, <1>4, Zenon DEF Unique

LEMMA KeptApart ==
    ASSUME NEW S, NEW s \in Seq(S), Unique(s, {}), NEW P, NEW Q, P \cap Q = {},
           NEW i \in DOMAIN Kept(s, P), NEW j \in DOMAIN Kept(s, Q)
    PROVE  Kept(s, P)[i].id # Kept(s, Q)[j].id
<1>1. PICK p \in P \cap DOMAIN s : Kept(s, P)[i] = s[p]
  BY KeptItems
<1>2. PICK q \in Q \cap DOMAIN s : Kept(s, Q)[j] = s[q]
  BY KeptItems
<1>3. p # q
  OBVIOUS
<1> QED
  BY <1>1, <1>2, <1>3, Zenon DEF Unique

\* Counting a report leaves a batch its name.
LEMMA MatchedType ==
    ASSUME NEW b \in Batch, NEW e \in Nat, NEW targets
    PROVE  Matched(b, e, targets) \in Batch /\ Matched(b, e, targets).id = b.id
<1>1. b.count + 1 \in Nat /\ b.id \in 1 .. NumBatches /\ b.first \in Nat
  BY FeedbackAssumption DEF Batch
<1>2. CASE b.id \in targets /\ b.count < springMaxTrainFeedbackMatches
  <2>1. Matched(b, e, targets) =
          [b EXCEPT !.count = @ + 1, !.first = IF b.count = 0 THEN e ELSE @]
    BY <1>2, Zenon DEF Matched
  <2>2. b.count + 1 \in 0 .. springMaxTrainFeedbackMatches
    BY <1>1, <1>2, FeedbackAssumption DEF Batch
  <2>3. (IF b.count = 0 THEN e ELSE b.first) \in Nat
    BY <1>1
  <2> QED
    BY <2>1, <2>2, <2>3 DEF Batch
<1>3. CASE ~(b.id \in targets /\ b.count < springMaxTrainFeedbackMatches)
  BY <1>3, Zenon DEF Matched
<1> QED
  BY <1>2, <1>3

\* The batches that wait, by their names: x and y are the positions of the two
\* in the list.
NamedAfter(s, x) == s.id = springPendingTrainBatches[x].id
Untrained(x) == springPendingTrainBatches[x].id \notin springTrainedBatchIDs

\* What is ready for training and what is kept are batches that waited, and the
\* two have none in common.
LEMMA InputIs ==
    ASSUME springPendingTrainBatches \in Seq(Batch), NEW e \in Nat, NEW ids, NEW flush,
           NEW input, input = springBuildOnlineUpdateInput(e, ids, flush)
    PROVE  /\ input.ready \in Seq(Batch) /\ input.kept \in Seq(Batch)
           /\ \A i \in DOMAIN input.ready : \E x \in DOMAIN springPendingTrainBatches :
                 Untrained(x) /\ NamedAfter(input.ready[i], x)
           /\ \A i \in DOMAIN input.kept : \E x \in DOMAIN springPendingTrainBatches :
                 Untrained(x) /\ NamedAfter(input.kept[i], x)
           /\ Unique(springPendingTrainBatches, {}) =>
                /\ Unique(input.ready, {}) /\ Unique(input.kept, {})
                /\ \A i \in DOMAIN input.ready, j \in DOMAIN input.kept :
                     input.ready[i].id # input.kept[j].id
<1> DEFINE pb      == springPendingTrainBatches
           O       == {i \in DOMAIN pb : pb[i].id \notin springTrainedBatchIDs}
           open    == Kept(pb, O)
           targets == ids \ springTrainedBatchIDs
           matched == [i \in DOMAIN open |-> Matched(open[i], e, targets)]
           R       == {i \in DOMAIN matched : springBatchReadyForTraining(matched[i], e, flush)}
           K       == {i \in DOMAIN matched \ R : ~Expired(matched[i], e)}
<1>1. input.ready = Kept(matched, R) /\ input.kept = Kept(matched, K)
  BY Zenon DEF springBuildOnlineUpdateInput
<1>2. /\ open \in Seq(Batch)
      /\ \A i \in DOMAIN open : \E x \in O \cap DOMAIN pb : open[i] = pb[x]
  <2> HIDE DEF O
  <2> QED
    BY KeptItems
<1>3. Unique(pb, {}) => Unique(open, {})
  BY KeptUnique
<1>4. R \cap K = {}
  OBVIOUS
<1> HIDE DEF open, targets, R, K
<1>5. ASSUME NEW i \in DOMAIN open
      PROVE  matched[i] \in Batch /\ matched[i].id = open[i].id
  <2>1. open[i] \in Batch
    BY <1>2
  <2> QED
    BY <2>1, MatchedType
<1>6. matched \in Seq(Batch) /\ DOMAIN matched = DOMAIN open
  <2>1. DOMAIN open = 1 .. Len(open) /\ Len(open) \in Nat
    BY <1>2
  <2>2. matched \in [1 .. Len(open) -> Batch]
    BY <1>5, <2>1
  <2> QED
    BY <2>1, <2>2
<1>7. Unique(pb, {}) => Unique(matched, {})
  <2>1. \A i \in DOMAIN open : matched[i].id = open[i].id
    BY <1>5
  <2> HIDE DEF matched
  <2> QED
    BY <1>3, <1>6, <2>1, Zenon DEF Unique
<1>8. \A i \in DOMAIN matched : \E x \in DOMAIN pb : Untrained(x) /\ NamedAfter(matched[i], x)
  <2> TAKE i \in DOMAIN matched
  <2>1. PICK x \in O \cap DOMAIN pb : open[i] = pb[x]
    BY <1>2, <1>6
  <2> QED
    BY <1>5, <1>6, <2>1 DEF Untrained, NamedAfter
<1> HIDE DEF matched
<1>9. ASSUME NEW P
      PROVE  /\ Kept(matched, P) \in Seq(Batch)
             /\ \A i \in DOMAIN Kept(matched, P) : \E x \in DOMAIN pb :
                    Untrained(x) /\ NamedAfter(Kept(matched, P)[i], x)
             /\ Unique(pb, {}) => Unique(Kept(matched, P), {})
  <2>1. /\ Kept(matched, P) \in Seq(Batch)
        /\ \A i \in DOMAIN Kept(matched, P) : \E p \in P \cap DOMAIN matched :
             Kept(matched, P)[i] = matched[p]
    BY <1>6, KeptItems
  <2>2. \A i \in DOMAIN Kept(matched, P) : \E x \in DOMAIN pb :
           Untrained(x) /\ NamedAfter(Kept(matched, P)[i], x)
    BY <1>8, <2>1, Zenon
  <2>3. Unique(pb, {}) => Unique(Kept(matched, P), {})
    BY <1>6, <1>7, KeptUnique
  <2> QED
    BY <2>1, <2>2, <2>3
<1>10. Unique(pb, {}) => \A i \in DOMAIN input.ready, j \in DOMAIN input.kept :
           input.ready[i].id # input.kept[j].id
  <2> SUFFICES ASSUME Unique(pb, {}), NEW i \in DOMAIN Kept(matched, R),
                      NEW j \in DOMAIN Kept(matched, K)
               PROVE  Kept(matched, R)[i].id # Kept(matched, K)[j].id
    BY <1>1
  <2> QED
    BY <1>4, <1>6, <1>7, KeptApart
<1> QED
  BY <1>1, <1>9, <1>10, Zenon

\* A new update holds samples of the file and of the caller.
LEMMA LoadsSamples ==
    ASSUME ServingTypeOK, NEW k \in Expected, NEW d
    PROVE  LoadPending(k, d) \in Seq(Sample)
<1> DEFINE file == buffers[k]
           P == {i \in DOMAIN file.samples : file.samples[i].dim = d}
<1>1. file.samples \in Seq(Sample)
  BY DEF ServingTypeOK, SampleFile
<1>2. LoadPending(k, d) = IF file.state = "whole" /\ file.dim = d
                          THEN Kept(file.samples, P) ELSE <<>>
  BY Zenon DEF LoadPending
<1> HIDE DEF file, P
<1>3. Kept(file.samples, P) \in Seq(Sample)
  BY <1>1, KeptItems
<1> QED
  BY <1>2, <1>3

LEMMA ValidSamples ==
    ASSUME NEW samples \in Seq(Sample), NEW d
    PROVE  build_buffer_from_update(samples, d) \in Seq(Sample)
<1> DEFINE P == {i \in DOMAIN samples : samples[i].dim = d}
<1>1. build_buffer_from_update(samples, d) = Kept(samples, P)
  BY Zenon DEF build_buffer_from_update
<1> HIDE DEF P
<1> QED
  BY <1>1, KeptItems

LEMMA IdleType == Idle \in UpdateRecord
  BY DEF Idle, UpdateRecord, Expected

LEMMA UpdateType ==
    ASSUME ServingTypeOK, NEW k \in Expected, NEW d \in Nat, NEW samples \in Seq(Sample),
           NEW flush
    PROVE  run_update(k, d, samples, flush) \in UpdateRecord
<1> DEFINE valid     == build_buffer_from_update(samples, d)
           pending   == LoadPending(k, d) \o valid
           threshold == IF flush THEN MIN_FLUSH_BATCH_SIZE ELSE BATCH_SIZE
           pc        == IF valid = <<>> \/ Len(pending) < threshold
                        THEN "buffering" ELSE "training"
<1>1. run_update(k, d, samples, flush) =
        IF Refuses(k) THEN Idle
        ELSE [pc |-> pc, expected |-> k, dim |-> d, pending |-> pending]
  BY Zenon DEF run_update
<1>2. pending \in Seq(Sample)
  BY LoadsSamples, ValidSamples
<1>3. pc \in {"buffering", "training"}
  OBVIOUS
<1> HIDE DEF pending, pc
<1>4. [pc |-> pc, expected |-> k, dim |-> d, pending |-> pending] \in UpdateRecord
  BY <1>2, <1>3 DEF UpdateRecord
<1> QED
  BY <1>1, <1>4, IdleType, Zenon

\* Variables of the supervisor that RunTypes does not speak of.
MemoryTypes ==
    /\ springTxBatchSeq \in 0 .. NumBatches
    /\ springPendingTrainBatches \in Seq(Batch)
    /\ springTrainedBatchIDs \subseteq 1 .. NumBatches
    /\ springRewardedEpoch \subseteq Epoch
    /\ springEpochFeedback \in [Epoch -> [from : SUBSET Shard,
            ids : SUBSET (1 .. NumBatches), effective : BOOLEAN]]
    /\ known \subseteq SampleId

VariableTypes == ServingTypeOK /\ MemoryTypes

LEMMA AllTypes == ASSUME RunInv, VariableTypes PROVE TypeOK
<1>1. loaded \in Params \cup {None}
  BY DEF RunInv, RunTypes, Emulator
<1>2. execution \in 0 .. MaxExecutions /\ MaxExecutions \in Nat
  BY FeedbackAssumption DEF RunInv, RunTypes
<1>3. spring_io \subseteq 1 .. MaxExecutions /\ done \subseteq 1 .. MaxExecutions
  BY <1>2 DEF RunInv, RunTypes
<1>4. FeedbackTypeOK
  BY <1>2, <1>3 DEF FeedbackTypeOK, VariableTypes, MemoryTypes, Batch
<1> QED
  BY <1>1, <1>3, <1>4 DEF TypeOK, RunInv, RunTypes, RunRecord

NoReportsRecord == [from : SUBSET Shard, ids : SUBSET (1 .. NumBatches), effective : BOOLEAN]

LEMMA NoReportsType == NoReports \in NoReportsRecord
  BY DEF NoReports, NoReportsRecord

LEMMA TypesStart == RunsInit => VariableTypes
<1> SUFFICES ASSUME RunsInit PROVE VariableTypes
  OBVIOUS
<1>1. model \in Model
  <2>1. CASE model = [state |-> "absent", version |-> 0, dim |-> 0, extra |-> None, mtime |-> 0]
    BY <2>1 DEF Model, Expected
  <2>2. ASSUME NEW k \in Kind,
               model = [state |-> "whole", version |-> 1, dim |-> Dim[k], extra |-> k, mtime |-> 1]
        PROVE  model \in Model
    BY <2>2, ServingAssumption DEF Model, Expected
  <2> QED
    BY <2>1, <2>2 DEF RunsInit, FeedbackInit, ServingInit
<1>2. NoFile \in SampleFile
  BY DEF NoFile, SampleFile
<1>3. buffers \in [Expected -> SampleFile] /\ cache = None /\ update = Idle
  BY <1>2 DEF RunsInit, FeedbackInit, ServingInit
<1>4. used \in [SampleId -> Nat] /\ interrupted \in Nat
  BY DEF RunsInit, FeedbackInit, ServingInit
<1>5. ServingTypeOK
  BY <1>1, <1>3, <1>4, IdleType DEF ServingTypeOK, UpdateRecord
<1>6. springEpochFeedback \in [Epoch -> NoReportsRecord]
  BY NoReportsType DEF RunsInit, FeedbackInit
<1>7. springPendingTrainBatches \in Seq(Batch)
  BY DEF RunsInit, FeedbackInit
<1>8. /\ springTxBatchSeq = 0 /\ springTrainedBatchIDs = {} /\ springRewardedEpoch = {}
      /\ known = {}
  BY DEF RunsInit, FeedbackInit
<1> QED
  BY <1>5, <1>6, <1>7, <1>8, FeedbackAssumption DEF VariableTypes, MemoryTypes, NoReportsRecord

\* A supervisor that starts or ends.
LEMMA MemoryTyped == ASSUME VariableTypes, NoMemory, known' = known PROVE MemoryTypes'
<1>1. springEpochFeedback' \in [Epoch -> NoReportsRecord]
  BY NoReportsType DEF NoMemory
<1>2. springPendingTrainBatches' \in Seq(Batch)
  BY DEF NoMemory
<1> QED
  BY <1>1, <1>2, FeedbackAssumption DEF VariableTypes, MemoryTypes, NoMemory, NoReportsRecord

\* The writes of an update.
LEMMA WritesTyped == ASSUME ServingTypeOK, UpdateStep \/ UpdateDies PROVE ServingTypeOK'
<1>1. NoFile \in SampleFile /\ [NoFile EXCEPT !.state = "torn"] \in SampleFile
  <2>1. NoFile \in SampleFile
    BY DEF NoFile, SampleFile
  <2> QED
    BY <2>1 DEF SampleFile
<1>2. /\ update \in UpdateRecord /\ Idle \in UpdateRecord /\ update.expected \in Expected
      /\ update.dim \in Nat /\ update.pending \in Seq(Sample)
  BY IdleType DEF ServingTypeOK, UpdateRecord
<1>3. CASE OpenBuffer
  <2>1. update' \in UpdateRecord
    BY <1>2, <1>3 DEF OpenBuffer, UpdateRecord
  <2>2. buffers' \in [Expected -> SampleFile]
    <3>1. \E f \in SampleFile : buffers' = [buffers EXCEPT ![update.expected] = f]
      BY <1>1, <1>3, Zenon DEF OpenBuffer
    <3> QED
      BY <1>2, <3>1 DEF ServingTypeOK
  <2> QED
    BY <1>3, <2>1, <2>2 DEF OpenBuffer, ServingTypeOK, UpdateRecord
<1>4. CASE WriteBuffer
  <2>1. [state |-> "whole", dim |-> update.dim, samples |-> update.pending] \in SampleFile
    BY <1>2 DEF SampleFile
  <2>2. buffers' \in [Expected -> SampleFile]
    BY <1>2, <1>4, <2>1 DEF WriteBuffer, ServingTypeOK
  <2> QED
    BY <1>2, <1>4, <2>2 DEF WriteBuffer, ServingTypeOK, UpdateRecord
<1>5. CASE OpenModel
  <2>1. update' \in UpdateRecord
    BY <1>2, <1>5 DEF OpenModel, UpdateRecord
  <2>2. model' = [model EXCEPT !.state = "torn", !.mtime = @ + 1] /\ model \in Model
    BY <1>5 DEF OpenModel, ServingTypeOK
  <2>3. model.mtime + 1 \in Nat
    BY <2>2 DEF Model
  <2>4. model' \in Model
    BY <2>2, <2>3 DEF Model
  <2> QED
    BY <1>5, <2>1, <2>4 DEF OpenModel, ServingTypeOK, UpdateRecord
<1>6. CASE WriteModel
  <2>1. update' \in UpdateRecord
    BY <1>2, <1>6 DEF WriteModel, UpdateRecord
  <2>2. \E extra \in Expected : model' = Saved(update.dim, extra)
    <3>1. None \in Expected /\ model.extra \in Expected
      BY DEF Expected, ServingTypeOK, Model
    <3> QED
      BY <1>2, <1>6, <3>1, Zenon DEF WriteModel
  <2>3. model' \in Model
    BY <1>2, <2>2 DEF Saved, Model, ServingTypeOK
  <2>4. ASSUME NEW i PROVE Count(update.pending, i) \in Nat
    <3>1. DOMAIN update.pending = 1 .. Len(update.pending) /\ Len(update.pending) \in Nat
      BY <1>2
    <3>2. IsFiniteSet(DOMAIN update.pending)
      BY <3>1, FS_Interval
    <3>3. IsFiniteSet({k \in DOMAIN update.pending : update.pending[k].id = i})
      BY <3>2, FS_Subset
    <3> QED
      BY <3>3, FS_CardinalityType DEF Count
  <2>5. used' \in [SampleId -> Nat]
    BY <1>6, <2>4 DEF WriteModel, ServingTypeOK
  <2> QED
    BY <1>6, <2>1, <2>3, <2>5 DEF WriteModel, ServingTypeOK, UpdateRecord
<1>7. CASE ClearBuffer
  <2>1. buffers' \in [Expected -> SampleFile]
    BY <1>1, <1>2, <1>7 DEF ClearBuffer, ServingTypeOK
  <2> QED
    BY <1>2, <1>7, <2>1 DEF ClearBuffer, ServingTypeOK, UpdateRecord
<1>8. CASE UpdateDies
  BY <1>2, <1>8 DEF UpdateDies, ServingTypeOK, UpdateRecord
<1> QED
  BY <1>3, <1>4, <1>5, <1>6, <1>7, <1>8 DEF UpdateStep

\* What the inference server leaves.
LEMMA AgentTyped ==
    ASSUME ServingTypeOK, NEW e \in Expected, NEW init
    PROVE  /\ infer_items(e, init).model \in Model
           /\ \/ infer_items(e, init).cache = None
              \/ infer_items(e, init).cache \in [expected : Expected, version : Nat, mtime : Nat]
<1> DEFINE agent  == get_agent(e, init)
           fresh  == Saved(DimOf(e), e)
           New(m) == [expected |-> e, version |-> m.version, mtime |-> m.mtime]
<1>1. infer_items(e, init).model = agent.model /\ infer_items(e, init).cache = agent.cache
  BY Zenon DEF infer_items
<1>2. \/ agent.model = model /\ agent.cache = cache
      \/ agent.model = fresh /\ agent.cache = New(fresh)
      \/ agent.model = model /\ agent.cache = New(model)
  BY Zenon DEF get_agent
<1>3. model \in Model /\ DimOf(e) \in Nat
  BY ServingAssumption DEF ServingTypeOK, DimOf, Expected
<1>4. fresh \in Model
  BY <1>3 DEF Saved, Model
<1> HIDE DEF agent, fresh
<1>5. \A m \in Model : New(m) \in [expected : Expected, version : Nat, mtime : Nat]
  BY DEF Model
<1> QED
  BY <1>1, <1>2, <1>3, <1>4, <1>5 DEF ServingTypeOK

\* An epoch is rewarded: nothing is trained, or the batches that are ready are.
SamplesOf(ready) == [i \in DOMAIN ready |-> [id |-> <<execution, ready[i].id>>,
                                             dim |-> Dim[loaded.kind]]]
Trains(e, ids, flush, input) ==
    /\ loaded.train
    /\ input = springBuildOnlineUpdateInput(e, ids, flush)
    /\ springPendingTrainBatches' = input.kept
    /\ springTrainedBatchIDs' = springTrainedBatchIDs \cup {b.id : b \in Range(input.ready)}
    /\ \/ update' = Idle
       \/ update' = run_update(loaded.kind, Dim[loaded.kind], SamplesOf(input.ready), flush)

LEMMA RewardIs ==
    ASSUME NEW e, NEW entry, NEW flush, Reward(e, entry, flush)
    PROVE  \/ UNCHANGED <<springPendingTrainBatches, springTrainedBatchIDs, update>>
           \/ \E input : Trains(e, entry.ids, flush, input)
<1>1. CASE ~entry.effective \/ ~loaded.train
  BY <1>1, Zenon DEF Reward
<1>2. CASE ~(~entry.effective \/ ~loaded.train)
  <2>1. Trains(e, entry.ids, flush, springBuildOnlineUpdateInput(e, entry.ids, flush))
    BY <1>2, Zenon DEF Reward, Trains, SamplesOf
  <2> QED
    BY <2>1
<1> QED
  BY <1>1, <1>2

LEMMA ReportIs ==
    ASSUME NEW s, NEW e, NEW ids, NEW effective, NEW flush,
           HandleBlockInfo(s, e, ids, effective, flush)
    PROVE  /\ loaded # None /\ update.pc = "idle"
           /\ UNCHANGED <<model, buffers, cache, used, interrupted, loaded, execution,
                          springTxBatchSeq, served, known>>
           /\ \/ UNCHANGED <<springPendingTrainBatches, springTrainedBatchIDs, update>>
              \/ \E x, input : Trains(e, x, flush, input)
<1>1. /\ loaded # None /\ update.pc = "idle"
      /\ UNCHANGED <<model, buffers, cache, used, interrupted, loaded, execution,
                     springTxBatchSeq, served, known>>
  BY DEF HandleBlockInfo, Idling, fileVars
<1>2. \/ UNCHANGED <<springPendingTrainBatches, springTrainedBatchIDs, update>>
      \/ \E entry : Reward(e, entry, flush)
  BY Zenon DEF HandleBlockInfo
<1> QED
  BY <1>1, <1>2, RewardIs, Zenon

\* The samples of the batches that are ready.
LEMMA SamplesType ==
    ASSUME RunInv, loaded # None, NEW ready \in Seq(Batch)
    PROVE  SamplesOf(ready) \in Seq(Sample) /\ loaded.kind \in Kind /\ Dim[loaded.kind] \in Nat
<1>1. loaded.kind \in Kind /\ execution \in 1 .. MaxExecutions
  BY DEF RunInv, RunTypes, Emulator, Params
<1>2. Dim[loaded.kind] \in Nat
  BY <1>1, ServingAssumption
<1>3. ASSUME NEW i \in DOMAIN ready
      PROVE  [id |-> <<execution, ready[i].id>>, dim |-> Dim[loaded.kind]] \in Sample
  <2>1. ready[i] \in Batch
    OBVIOUS
  <2>2. ready[i].id \in 1 .. NumBatches
    BY <2>1 DEF Batch
  <2>3. <<execution, ready[i].id>> \in SampleId
    BY <1>1, <2>2, FeedbackAssumption
  <2> QED
    BY <1>2, <2>3 DEF Sample
<1>4. DOMAIN ready = 1 .. Len(ready) /\ Len(ready) \in Nat
  OBVIOUS
<1>5. SamplesOf(ready) \in [1 .. Len(ready) -> Sample]
  BY <1>3, <1>4 DEF SamplesOf
<1> QED
  BY <1>1, <1>2, <1>4, <1>5

LEMMA TrainsTyped ==
    ASSUME RunInv, VariableTypes, loaded # None,
           NEW e \in Epoch, NEW ids, NEW flush, NEW input, Trains(e, ids, flush, input)
    PROVE  /\ springPendingTrainBatches' \in Seq(Batch)
           /\ springTrainedBatchIDs' \subseteq 1 .. NumBatches
           /\ update' \in UpdateRecord
<1>1. e \in Nat /\ springPendingTrainBatches \in Seq(Batch)
  BY FeedbackAssumption DEF VariableTypes, MemoryTypes
<1>2. input.ready \in Seq(Batch) /\ input.kept \in Seq(Batch)
  BY <1>1, InputIs DEF Trains
<1>3. springPendingTrainBatches' \in Seq(Batch)
  BY <1>2 DEF Trains
<1>4. springTrainedBatchIDs' \subseteq 1 .. NumBatches
  <2>1. \A b \in Range(input.ready) : b \in Batch
    BY <1>2 DEF Range
  <2>2. \A b \in Range(input.ready) : b.id \in 1 .. NumBatches
    BY <2>1 DEF Batch
  <2> QED
    BY <2>2 DEF Trains, VariableTypes, MemoryTypes
<1>5. update' \in UpdateRecord
  <2>1. SamplesOf(input.ready) \in Seq(Sample) /\ loaded.kind \in Expected /\ Dim[loaded.kind] \in Nat
    BY <1>2, SamplesType DEF Expected
  <2>2. run_update(loaded.kind, Dim[loaded.kind], SamplesOf(input.ready), flush) \in UpdateRecord
    BY <2>1, UpdateType DEF VariableTypes
  <2> QED
    BY <2>2, IdleType, Zenon DEF Trains
<1> QED
  BY <1>3, <1>4, <1>5

\* The reports of an epoch.
LEMMA ReportsTyped ==
    ASSUME RunInv, VariableTypes, NEW s \in Shard, NEW e \in Epoch,
           NEW ids \in SUBSET (1 .. springTxBatchSeq), NEW effective \in BOOLEAN, NEW flush,
           HandleBlockInfo(s, e, ids, effective, flush)
    PROVE  /\ springRewardedEpoch' \subseteq Epoch
           /\ springEpochFeedback' \in [Epoch -> NoReportsRecord]
<1> DEFINE old   == springEpochFeedback[e]
           entry == [from |-> old.from \cup {s},
                     ids |-> IF loaded.train THEN old.ids \cup ids ELSE {},
                     effective |-> old.effective \/ effective]
<1>1. \/ Reward(e, entry, flush)
      \/ /\ springEpochFeedback' = [springEpochFeedback EXCEPT ![e] = entry]
         /\ UNCHANGED springRewardedEpoch
  BY Zenon DEF HandleBlockInfo
<1>2. springEpochFeedback \in [Epoch -> NoReportsRecord] /\ springRewardedEpoch \subseteq Epoch
  BY DEF VariableTypes, MemoryTypes, NoReportsRecord
<1>3. entry \in NoReportsRecord
  <2>1. old \in NoReportsRecord
    BY <1>2
  <2>2. ids \subseteq 1 .. NumBatches
    BY FeedbackAssumption DEF VariableTypes, MemoryTypes
  <2>3. /\ old.from \cup {s} \in SUBSET Shard
        /\ (IF loaded.train THEN old.ids \cup ids ELSE {}) \in SUBSET (1 .. NumBatches)
    BY <2>1, <2>2 DEF NoReportsRecord
  <2>4. (old.effective \/ effective) \in BOOLEAN
    BY Zenon
  <2> HIDE DEF old
  <2> QED
    BY <2>3, <2>4 DEF NoReportsRecord
<1> HIDE DEF entry
<1>4. CASE Reward(e, entry, flush)
  <2>1. /\ springEpochFeedback' = [x \in Epoch |->
             IF x = e \/ x < e - KeepEpochs THEN NoReports ELSE springEpochFeedback[x]]
        /\ springRewardedEpoch' = {x \in springRewardedEpoch \cup {e} : x >= e - KeepEpochs}
    BY <1>4, Zenon DEF Reward
  <2> QED
    BY <1>2, <2>1, NoReportsType
<1> QED
  BY <1>1, <1>2, <1>3, <1>4

memory == <<springTxBatchSeq, springPendingTrainBatches, springTrainedBatchIDs,
            springEpochFeedback, springRewardedEpoch, known>>

LEMMA MemoryKept == ASSUME VariableTypes, UNCHANGED memory PROVE MemoryTypes'
  BY DEF VariableTypes, MemoryTypes, memory

LEMMA ServingKept == ASSUME VariableTypes, UNCHANGED servingVars PROVE ServingTypeOK'
  BY DEF VariableTypes, ServingTypeOK, servingVars

LEMMA StoppedTyped == ASSUME VariableTypes, Stopped PROVE VariableTypes'
<1>1. MemoryTypes'
  BY MemoryTyped DEF Stopped
<1>2. ServingTypeOK'
  BY DEF Stopped, NoMemory, fileVars, VariableTypes, ServingTypeOK
<1> QED
  BY <1>1, <1>2 DEF VariableTypes

LEMMA PlacesTyped == ASSUME RunInv, VariableTypes, PlaceByModel PROVE VariableTypes'
<1>1. CASE Stopped
  BY <1>1, StoppedTyped
<1>2. CASE ~Stopped
  <2> DEFINE answer == infer_items(loaded.kind, loaded.train)
  <2>1. /\ model' = answer.model /\ cache' = answer.cache
        /\ springTxBatchSeq < NumBatches /\ springTxBatchSeq' = springTxBatchSeq + 1
        /\ loaded # None
        /\ UNCHANGED <<buffers, update, used, interrupted, springTrainedBatchIDs,
                       springEpochFeedback, springRewardedEpoch>>
    BY <1>2, Zenon DEF PlaceByModel
  <2>2. \/ UNCHANGED <<springPendingTrainBatches, known>>
        \/ /\ springPendingTrainBatches' = Enqueued
           /\ known' = known \cup {<<execution, springTxBatchSeq + 1>>}
    BY <1>2, Zenon DEF PlaceByModel
  <2>3. loaded.kind \in Expected /\ execution \in 1 .. MaxExecutions
    BY <2>1 DEF RunInv, RunTypes, Emulator, Params, Expected
  <2>4. /\ answer.model \in Model
        /\ answer.cache = None \/ answer.cache \in [expected : Expected, version : Nat, mtime : Nat]
    BY <2>3, AgentTyped DEF VariableTypes
  <2> HIDE DEF answer
  <2>5. ServingTypeOK'
    BY <2>1, <2>4 DEF VariableTypes, ServingTypeOK
  <2>6. springTxBatchSeq + 1 \in 1 .. NumBatches
    BY <2>1, FeedbackAssumption DEF VariableTypes, MemoryTypes
  <2>7. <<execution, springTxBatchSeq + 1>> \in SampleId
    BY <2>3, <2>6, FeedbackAssumption
  <2>8. Enqueued \in Seq(Batch)
    <3>1. 0 \in 0 .. springMaxTrainFeedbackMatches
      BY FeedbackAssumption
    <3>2. [id |-> springTxBatchSeq + 1, count |-> 0, first |-> 0] \in Batch
      BY <2>6, <3>1 DEF Batch
    <3> QED
      BY <3>2 DEF Enqueued, VariableTypes, MemoryTypes
  <2>9. MemoryTypes'
    BY <2>1, <2>2, <2>6, <2>7, <2>8, FeedbackAssumption DEF VariableTypes, MemoryTypes
  <2> QED
    BY <2>5, <2>9 DEF VariableTypes
<1> QED
  BY <1>1, <1>2

LEMMA FeedbackTyped ==
    ASSUME RunInv, VariableTypes, FeedbackStep \/ SupervisorStops PROVE VariableTypes'
<1>1. CASE PlaceByModel
  BY <1>1, PlacesTyped
<1>2. CASE PlaceNothing
  <2>1. /\ springTxBatchSeq' = springTxBatchSeq + 1 /\ springTxBatchSeq \in 1 .. NumBatches - 1
        /\ UNCHANGED <<servingVars, springPendingTrainBatches, springTrainedBatchIDs,
                       springEpochFeedback, springRewardedEpoch, known>>
    BY <1>2 DEF PlaceNothing
  <2>2. MemoryTypes'
    BY <2>1, FeedbackAssumption DEF VariableTypes, MemoryTypes
  <2> QED
    BY <2>1, <2>2, ServingKept DEF VariableTypes
<1>3. CASE PlaceByHeuristic
  <2>1. CASE Stopped
    BY <2>1, StoppedTyped
  <2>2. CASE ~Stopped
    <3>1. /\ springTxBatchSeq' = springTxBatchSeq + 1 /\ springTxBatchSeq < NumBatches
          /\ cache' = None
          /\ UNCHANGED <<fileVars, update, used, interrupted, springPendingTrainBatches,
                         springTrainedBatchIDs, springEpochFeedback, springRewardedEpoch, known>>
      BY <1>3, <2>2, Zenon DEF PlaceByHeuristic
    <3>2. MemoryTypes'
      BY <3>1, FeedbackAssumption DEF VariableTypes, MemoryTypes
    <3>3. ServingTypeOK'
      BY <3>1 DEF VariableTypes, ServingTypeOK, fileVars
    <3> QED
      BY <3>2, <3>3 DEF VariableTypes
  <2> QED
    BY <2>1, <2>2
<1>4. ASSUME NEW s \in Shard, NEW e \in Epoch, NEW ids \in SUBSET (1 .. springTxBatchSeq),
             NEW effective \in BOOLEAN, NEW flush \in BOOLEAN,
             HandleBlockInfo(s, e, ids, effective, flush)
      PROVE  VariableTypes'
  <2>1. /\ loaded # None
        /\ UNCHANGED <<model, buffers, cache, used, interrupted, springTxBatchSeq, known>>
        /\ \/ UNCHANGED <<springPendingTrainBatches, springTrainedBatchIDs, update>>
           \/ \E x, input : Trains(e, x, flush, input)
    BY <1>4, ReportIs, Zenon
  <2>2. /\ springPendingTrainBatches' \in Seq(Batch)
        /\ springTrainedBatchIDs' \subseteq 1 .. NumBatches
        /\ update' \in UpdateRecord
    <3>1. CASE UNCHANGED <<springPendingTrainBatches, springTrainedBatchIDs, update>>
      BY <3>1 DEF VariableTypes, MemoryTypes, ServingTypeOK, UpdateRecord
    <3>2. ASSUME NEW x, NEW input, Trains(e, x, flush, input)
          PROVE  /\ springPendingTrainBatches' \in Seq(Batch)
                 /\ springTrainedBatchIDs' \subseteq 1 .. NumBatches
                 /\ update' \in UpdateRecord
      BY <2>1, <3>2, TrainsTyped
    <3> QED
      BY <2>1, <3>1, <3>2
  <2>3. /\ springRewardedEpoch' \subseteq Epoch
        /\ springEpochFeedback' \in [Epoch -> NoReportsRecord]
    BY <1>4, ReportsTyped
  <2>4. MemoryTypes'
    BY <2>1, <2>2, <2>3 DEF VariableTypes, MemoryTypes, NoReportsRecord
  <2>5. ServingTypeOK'
    BY <2>1, <2>2 DEF VariableTypes, ServingTypeOK, UpdateRecord
  <2> QED
    BY <2>4, <2>5 DEF VariableTypes
<1>5. CASE (UpdateStep \/ UpdateDies) /\ UNCHANGED feedbackVars
  <2>1. UNCHANGED memory
    BY <1>5 DEF feedbackVars, memoryVars, memory
  <2> QED
    BY <1>5, <2>1, WritesTyped, MemoryKept DEF VariableTypes
<1>6. CASE SupervisorStops
  BY <1>6, StoppedTyped DEF SupervisorStops
<1> QED
  BY <1>1, <1>2, <1>3, <1>4, <1>5, <1>6, Zenon DEF FeedbackStep

LEMMA ToolsTyped == ASSUME VariableTypes, UseTools PROVE VariableTypes'
<1>1. ASSUME NEW d \in HandDim, NEW flush \in BOOLEAN, HandUpdate(d, flush) PROVE VariableTypes'
  <2>1. d \in Nat /\ None \in Expected
    BY RunAssumption DEF Expected
  <2>2. <<[id |-> None, dim |-> d]>> \in Seq(Sample)
    BY <2>1 DEF Sample
  <2>3. run_update(None, d, <<[id |-> None, dim |-> d]>>, flush) \in UpdateRecord
    BY <2>1, <2>2, UpdateType DEF VariableTypes
  <2>4. update' \in UpdateRecord /\ UNCHANGED <<fileVars, cache, used, interrupted, feedbackVars>>
    BY <1>1, <2>3, Zenon DEF HandUpdate
  <2>5. ServingTypeOK'
    BY <2>4 DEF VariableTypes, ServingTypeOK, UpdateRecord, fileVars
  <2>6. UNCHANGED memory
    BY <2>4 DEF feedbackVars, memoryVars, memory
  <2> QED
    BY <2>5, <2>6, MemoryKept DEF VariableTypes
<1>2. CASE HandInfer
  <2>1. model' = Saved(LegacyDim, None) /\ UNCHANGED <<buffers, cache, update, used, interrupted>>
    BY <1>2 DEF HandInfer, InferBatch
  <2>2. model' \in Model
    BY <2>1, ServingAssumption DEF Saved, Model, Expected, VariableTypes, ServingTypeOK
  <2>3. UNCHANGED memory
    BY <1>2 DEF HandInfer, feedbackVars, memoryVars, memory
  <2>4. ServingTypeOK'
    BY <2>1, <2>2 DEF VariableTypes, ServingTypeOK
  <2> QED
    BY <2>3, <2>4, MemoryKept DEF VariableTypes
<1> QED
  BY <1>1, <1>2, Zenon DEF UseTools

LEMMA TypesStay == ASSUME RunInv, VariableTypes, [RunsNext]_vars PROVE VariableTypes'
<1> DEFINE Quiet == UNCHANGED <<servingVars, memory>>
<1>1. ASSUME Quiet PROVE VariableTypes'
  BY <1>1, MemoryKept, ServingKept DEF VariableTypes
<1>2. ASSUME NEW r, PrepareRun(r) \/ PrepareBaseline(r) PROVE Quiet
  BY <1>2 DEF PrepareRun, PrepareBaseline, Configure, feedbackVars, memoryVars, memory
<1>3. ASSUME NEW ok, FinishPrepare(ok) PROVE Quiet
  BY <1>3 DEF FinishPrepare, feedbackVars, memoryVars, memory
<1>4. CASE StartRun
  <2>1. /\ NoMemory /\ known' = known
        /\ UNCHANGED <<fileVars, update, used, interrupted>>
    BY <1>4 DEF StartRun, StartSupervisor
  <2>2. ServingTypeOK'
    BY <2>1 DEF NoMemory, fileVars, VariableTypes, ServingTypeOK
  <2> QED
    BY <2>1, <2>2, MemoryTyped DEF VariableTypes
<1>5. CASE EmulatorStep
  BY <1>5, FeedbackTyped DEF EmulatorStep
<1>6. ASSUME NEW r, ArchiveRun(r) PROVE Quiet
  BY <1>6 DEF ArchiveRun, memoryVars, memory
<1>7. ASSUME NEW passed, FinishFinalize(passed) PROVE Quiet
  BY <1>7 DEF FinishFinalize, feedbackVars, memoryVars, memory
<1>8. ASSUME NEW trial, EditParams(trial) PROVE Quiet
  BY <1>8 DEF EditParams, feedbackVars, memoryVars, memory
<1>9. ASSUME CleanIO PROVE Quiet
  BY <1>9 DEF CleanIO, memoryVars, memory
<1>10. CASE UseTools
  BY <1>10, ToolsTyped
<1>11. ASSUME UNCHANGED vars PROVE Quiet
  BY <1>11 DEF vars, feedbackVars, memoryVars, memory
<1> HIDE DEF Quiet
<1> QED
  BY <1>1, <1>2, <1>3, <1>4, <1>5, <1>6, <1>7, <1>8, <1>9, <1>10, <1>11, Zenon DEF RunsNext

\* The types of serving, feedback and experiments, for any number of shards,
\* batches, runs and executions: an update holds samples of known dimensions, and a
\* batch never counts more reports than springMaxTrainFeedbackMatches.
THEOREM ExperimentsAreTyped == RunsSpec => []TypeOK
<1>1. RunsInit => RunInv /\ VariableTypes
  BY RunStarts, TypesStart
<1>2. RunInv /\ VariableTypes /\ [RunsNext]_vars => (RunInv /\ VariableTypes)'
  BY RunSteps, TypesStay
<1>3. RunInv /\ VariableTypes => TypeOK
  BY AllTypes
<1> QED
  BY <1>1, <1>2, <1>3, PTL DEF RunsSpec

-----------------------------------------------------------------------------
(* Samples: the supervisor, the sample files and the updates are a ledger.    *)

\* A sample of configuration k is from an execution with that configuration; if
\* that one still runs, its batch counts as trained.
HeldOne(k, sample) ==
    sample.id # None =>
        /\ k \in Kind /\ sample.dim = Dim[k]
        /\ sample.id[1] <= execution /\ executed[sample.id[1]].kind = k
        /\ loaded # None /\ sample.id[1] = execution =>
             sample.id[2] \in springTrainedBatchIDs

\* No two of them are of the same decision.
Held(k, samples) ==
    Unique(samples, {None}) /\ \A i \in DOMAIN samples : HeldOne(k, samples[i])

HeldInFile(k) ==
    /\ Held(k, buffers[k].samples)
    /\ buffers[k].samples # <<>> =>
         buffers[k].state = "whole" /\ (k \in Kind => buffers[k].dim = Dim[k])
HeldInFiles == \A k \in Expected : HeldInFile(k)

\* An update holds all the samples of its file.
HeldInUpdate ==
    /\ Held(update.expected, update.pending)
    /\ update.pc = "idle" => update.pending = <<>>
    /\ update.pc # "idle" =>
         /\ update.expected \in Kind => update.dim = Dim[update.expected]
         /\ Ids(buffers[update.expected].samples) \subseteq Ids(update.pending)

\* Batches that wait were placed by this supervisor and are not trained.
HeldBySupervisor ==
    /\ loaded = None => springPendingTrainBatches = <<>>
    /\ Unique(springPendingTrainBatches, {})
    /\ \A i \in DOMAIN springPendingTrainBatches :
         /\ springPendingTrainBatches[i].id \notin springTrainedBatchIDs
         /\ springPendingTrainBatches[i].id <= springTxBatchSeq
    /\ \A b \in springTrainedBatchIDs : b <= springTxBatchSeq

\* A sample is collected in its execution, when its batch is placed.
Collected ==
    \A i \in known : /\ i[1] <= execution
                     /\ loaded # None /\ i[1] = execution => i[2] <= springTxBatchSeq

SampleInv == HeldInFiles /\ HeldInUpdate /\ HeldBySupervisor /\ Collected

LEMMA IdsAre ==
    ASSUME NEW samples
    PROVE  Ids(samples) = {samples[i].id : i \in DOMAIN samples} \ {None}
  BY DEF Ids, Range

LEMMA NoIds == Ids(<<>>) = {}
<1>1. DOMAIN <<>> = {}
  OBVIOUS
<1> QED
  BY <1>1, IdsAre

LEMMA SampleNames ==
    ASSUME NEW samples \in Seq(Sample), NEW i \in DOMAIN samples
    PROVE  /\ samples[i] \in Sample
           /\ samples[i].id # None => samples[i].id \in SampleId
<1>1. samples[i] \in Sample
  OBVIOUS
<1> QED
  BY <1>1 DEF Sample

LEMMA Pairs ==
    ASSUME NEW x \in SampleId
    PROVE  x[1] \in 1 .. MaxExecutions /\ x[2] \in 1 .. NumBatches /\ x = <<x[1], x[2]>>
  BY FeedbackAssumption

\* What no step takes back: the parameters of executions, and that a batch of the
\* execution that runs counts as trained.
Grown ==
    /\ execution' \in Nat /\ execution' >= execution
    /\ \A x \in 1 .. execution : executed'[x] = executed[x]
    /\ \/ loaded' = None
       \/ execution' > execution
       \/ /\ loaded' = loaded /\ execution' = execution
          /\ springTrainedBatchIDs \subseteq springTrainedBatchIDs'

LEMMA FeedbackGrows ==
    ASSUME FeedbackStep \/ SupervisorStops
    PROVE  \/ loaded' = None
           \/ loaded' = loaded /\ springTrainedBatchIDs \subseteq springTrainedBatchIDs'
<1>1. ASSUME Stopped PROVE loaded' = None
  BY <1>1 DEF Stopped
<1>2. CASE PlaceByModel
  <2>1. CASE ~Stopped
    <3>1. loaded' = loaded /\ springTrainedBatchIDs' = springTrainedBatchIDs
      BY <1>2, <2>1, Zenon DEF PlaceByModel
    <3> QED
      BY <3>1
  <2> QED
    BY <1>1, <2>1
<1>3. CASE PlaceNothing
  BY <1>3 DEF PlaceNothing
<1>4. CASE PlaceByHeuristic
  <2>1. CASE ~Stopped
    <3>1. loaded' = loaded /\ springTrainedBatchIDs' = springTrainedBatchIDs
      BY <1>4, <2>1, Zenon DEF PlaceByHeuristic
    <3> QED
      BY <3>1
  <2> QED
    BY <1>1, <2>1
<1>5. ASSUME NEW s, NEW e, NEW ids, NEW effective, NEW flush,
             HandleBlockInfo(s, e, ids, effective, flush)
      PROVE  loaded' = loaded /\ springTrainedBatchIDs \subseteq springTrainedBatchIDs'
  <2>1. /\ loaded' = loaded
        /\ \/ UNCHANGED <<springPendingTrainBatches, springTrainedBatchIDs, update>>
           \/ \E x, input : Trains(e, x, flush, input)
    BY <1>5, ReportIs, Zenon
  <2> QED
    BY <2>1 DEF Trains
<1>6. CASE UNCHANGED feedbackVars
  BY <1>6 DEF feedbackVars, memoryVars
<1>7. CASE SupervisorStops
  BY <1>1, <1>7 DEF SupervisorStops
<1> QED
  BY <1>2, <1>3, <1>4, <1>5, <1>6, <1>7, Zenon DEF FeedbackStep

LEMMA RunsGrow == ASSUME RunInv, [RunsNext]_vars PROVE Grown
<1> DEFINE Quiet == UNCHANGED <<execution, executed, loaded, springTrainedBatchIDs>>
<1>0. execution \in 0 .. MaxExecutions /\ MaxExecutions \in Nat
  BY FeedbackAssumption DEF RunInv, RunTypes
<1>1. ASSUME Quiet PROVE Grown
  BY <1>0, <1>1 DEF Grown
<1>2. ASSUME NEW r, PrepareRun(r) \/ PrepareBaseline(r) PROVE Quiet
  BY <1>2 DEF PrepareRun, PrepareBaseline, Configure, feedbackVars, memoryVars
<1>3. ASSUME NEW ok, FinishPrepare(ok) PROVE Quiet
  BY <1>3 DEF FinishPrepare, feedbackVars, memoryVars
<1>4. CASE StartRun
  <2>1. execution' = execution + 1 /\ executed' = [executed EXCEPT ![execution'] = params]
    BY <1>4 DEF StartRun, StartSupervisor
  <2> QED
    BY <1>0, <2>1 DEF Grown, RunInv, RunTypes
<1>5. CASE EmulatorStep
  <2>1. execution' = execution /\ executed' = executed
    BY <1>5, EmulatorShapes DEF EmulatorStep
  <2>2. \/ loaded' = None
        \/ loaded' = loaded /\ springTrainedBatchIDs \subseteq springTrainedBatchIDs'
    BY <1>5, FeedbackGrows DEF EmulatorStep
  <2> QED
    BY <1>0, <2>1, <2>2 DEF Grown
<1>6. ASSUME NEW r, ArchiveRun(r) PROVE Quiet
  BY <1>6 DEF ArchiveRun, memoryVars
<1>7. ASSUME NEW passed, FinishFinalize(passed) PROVE Quiet
  BY <1>7 DEF FinishFinalize, feedbackVars, memoryVars
<1>8. ASSUME NEW trial, EditParams(trial) PROVE Quiet
  BY <1>8 DEF EditParams, feedbackVars, memoryVars
<1>9. ASSUME CleanIO PROVE Quiet
  BY <1>9 DEF CleanIO, memoryVars, runVars
<1>10. ASSUME UseTools PROVE Quiet
  <2>1. UNCHANGED <<runVars, feedbackVars>>
    BY <1>10, Zenon DEF UseTools, HandUpdate, HandInfer
  <2> QED
    BY <2>1 DEF runVars, feedbackVars, memoryVars
<1>11. ASSUME UNCHANGED vars PROVE Quiet
  BY <1>11 DEF vars, feedbackVars, memoryVars, runVars
<1> HIDE DEF Quiet
<1> QED
  BY <1>1, <1>2, <1>3, <1>4, <1>5, <1>6, <1>7, <1>8, <1>9, <1>10, <1>11, Zenon DEF RunsNext

\* Samples stay held.
LEMMA HeldStays ==
    ASSUME RunInv, Grown, NEW k, NEW samples \in Seq(Sample), Held(k, samples)
    PROVE  Held(k, samples)'
<1>1. execution \in 0 .. MaxExecutions /\ execution' >= execution /\ MaxExecutions \in Nat
  BY FeedbackAssumption DEF RunInv, RunTypes, Grown
<1>2. ASSUME NEW i \in DOMAIN samples, samples[i].id # None
      PROVE  HeldOne(k, samples[i])'
  <2>1. PICK x : x = samples[i].id
    OBVIOUS
  <2>2. x \in SampleId /\ x[1] \in 1 .. MaxExecutions
    BY <1>2, <2>1, SampleNames, Pairs
  <2>3. /\ k \in Kind /\ samples[i].dim = Dim[k] /\ x[1] <= execution
        /\ executed[x[1]].kind = k
        /\ loaded # None /\ x[1] = execution => x[2] \in springTrainedBatchIDs
    BY <1>2, <2>1 DEF Held, HeldOne
  <2>4. executed'[x[1]] = executed[x[1]]
    BY <1>1, <2>2, <2>3 DEF Grown
  <2>5. x[1] <= execution' /\ (execution' > execution => x[1] # execution')
    BY <1>1, <2>2, <2>3 DEF Grown
  <2>6. loaded' # None /\ x[1] = execution' => x[2] \in springTrainedBatchIDs'
    BY <2>3, <2>5 DEF Grown
  <2> QED
    BY <2>1, <2>3, <2>4, <2>5, <2>6 DEF HeldOne
<1>3. Unique(samples, {None})
  BY DEF Held
<1>4. ASSUME NEW i \in DOMAIN samples, samples[i].id = None PROVE HeldOne(k, samples[i])'
  BY <1>4 DEF HeldOne
<1> QED
  BY <1>2, <1>3, <1>4, Zenon DEF Held

\* The steps, as far as samples are concerned: nothing happens to them, a
\* supervisor starts or stops, a batch is enqueued, batches are handed over, an
\* update writes or dies, or is run by hand.
held == <<buffers, update, used, interrupted>>

Rests == /\ UNCHANGED <<held, execution, loaded, springPendingTrainBatches,
                        springTrainedBatchIDs, known>>
         /\ springTxBatchSeq' = springTxBatchSeq \/ springTxBatchSeq' = springTxBatchSeq + 1
Starts == /\ loaded = None /\ Idling /\ NoMemory
          /\ execution' = execution + 1 /\ UNCHANGED <<held, known>>
Stops == /\ Idling /\ NoMemory
         /\ loaded' = None /\ UNCHANGED <<held, execution, known>>
Collects == /\ loaded # None /\ Idling
            /\ springTxBatchSeq < NumBatches /\ springTxBatchSeq' = springTxBatchSeq + 1
            /\ springPendingTrainBatches' = Enqueued
            /\ known' = known \cup {<<execution, springTxBatchSeq + 1>>}
            /\ UNCHANGED <<held, execution, loaded, springTrainedBatchIDs>>
HandsOver(e, ids, flush, input) ==
    /\ loaded # None /\ Idling
    /\ Trains(e, ids, flush, input)
    /\ UNCHANGED <<buffers, used, interrupted, execution, loaded, springTxBatchSeq, known>>
Writes == (UpdateStep \/ UpdateDies) /\ UNCHANGED feedbackVars

LEMMA StopShape == ASSUME Idling, Stopped PROVE Stops
  BY DEF Stopped, Stops, held, fileVars

LEMMA FeedbackShapes ==
    ASSUME FeedbackStep \/ SupervisorStops
    PROVE  \/ Rests \/ Stops \/ Collects \/ Writes
           \/ \E e \in Epoch : \E ids, flush, input : HandsOver(e, ids, flush, input)
<1>1. CASE PlaceByModel
  <2>1. loaded # None /\ Idling
    BY <1>1 DEF PlaceByModel
  <2>2. CASE Stopped
    BY <2>1, <2>2, StopShape
  <2>3. CASE ~Stopped
    <3>1. /\ springTxBatchSeq < NumBatches /\ springTxBatchSeq' = springTxBatchSeq + 1
          /\ UNCHANGED <<buffers, update, used, interrupted, loaded, execution,
                         springTrainedBatchIDs>>
          /\ \/ UNCHANGED <<springPendingTrainBatches, known>>
             \/ /\ springPendingTrainBatches' = Enqueued
                /\ known' = known \cup {<<execution, springTxBatchSeq + 1>>}
      BY <1>1, <2>3, Zenon DEF PlaceByModel
    <3> QED
      BY <2>1, <3>1 DEF Rests, Collects, held
  <2> QED
    BY <2>2, <2>3
<1>2. CASE PlaceNothing
  BY <1>2 DEF PlaceNothing, servingVars, Rests, held
<1>3. CASE PlaceByHeuristic
  <2>1. Idling
    BY <1>3 DEF PlaceByHeuristic
  <2>2. CASE Stopped
    BY <2>1, <2>2, StopShape
  <2>3. CASE ~Stopped
    <3>1. /\ springTxBatchSeq' = springTxBatchSeq + 1
          /\ UNCHANGED <<fileVars, update, used, interrupted, loaded, execution,
                         springPendingTrainBatches, springTrainedBatchIDs, known>>
      BY <1>3, <2>3, Zenon DEF PlaceByHeuristic
    <3> QED
      BY <3>1 DEF Rests, held, fileVars
  <2> QED
    BY <2>2, <2>3
<1>4. ASSUME NEW s \in Shard, NEW e \in Epoch, NEW ids \in SUBSET (1 .. springTxBatchSeq),
             NEW effective \in BOOLEAN, NEW flush \in BOOLEAN,
             HandleBlockInfo(s, e, ids, effective, flush)
      PROVE  Rests \/ \E x, input : HandsOver(e, x, flush, input)
  <2>1. /\ loaded # None /\ Idling
        /\ UNCHANGED <<buffers, used, interrupted, loaded, execution, springTxBatchSeq, known>>
        /\ \/ UNCHANGED <<springPendingTrainBatches, springTrainedBatchIDs, update>>
           \/ \E x, input : Trains(e, x, flush, input)
    BY <1>4, ReportIs, Zenon DEF Idling
  <2>2. CASE UNCHANGED <<springPendingTrainBatches, springTrainedBatchIDs, update>>
    BY <2>1, <2>2 DEF Rests, held
  <2>3. ASSUME NEW x, NEW input, Trains(e, x, flush, input)
        PROVE  HandsOver(e, x, flush, input)
    BY <2>1, <2>3, Zenon DEF HandsOver
  <2> QED
    BY <2>1, <2>2, <2>3, Zenon
<1>5. CASE (UpdateStep \/ UpdateDies) /\ UNCHANGED feedbackVars
  BY <1>5 DEF Writes
<1>6. CASE SupervisorStops
  BY <1>6, StopShape DEF SupervisorStops
<1> QED
  BY <1>1, <1>2, <1>3, <1>4, <1>5, <1>6, Zenon DEF FeedbackStep

LEMMA StepShapes ==
    ASSUME [RunsNext]_vars
    PROVE  \/ Rests \/ Starts \/ Stops \/ Collects \/ Writes
           \/ \E e \in Epoch : \E ids, flush, input : HandsOver(e, ids, flush, input)
           \/ \E d \in HandDim, flush \in BOOLEAN : HandUpdate(d, flush)
<1>2. ASSUME NEW r, PrepareRun(r) \/ PrepareBaseline(r) PROVE Rests
  BY <1>2 DEF PrepareRun, PrepareBaseline, Configure, feedbackVars, memoryVars, servingVars,
              Rests, held
<1>3. ASSUME NEW ok, FinishPrepare(ok) PROVE Rests
  BY <1>3 DEF FinishPrepare, feedbackVars, memoryVars, servingVars, Rests, held
<1>4. ASSUME StartRun PROVE Starts
  BY <1>4 DEF StartRun, StartSupervisor, Starts, held, fileVars
<1>5. ASSUME EmulatorStep PROVE FeedbackStep \/ SupervisorStops
  BY <1>5 DEF EmulatorStep
<1>6. ASSUME NEW r, ArchiveRun(r) PROVE Rests
  BY <1>6 DEF ArchiveRun, memoryVars, servingVars, Rests, held
<1>7. ASSUME NEW passed, FinishFinalize(passed) PROVE Rests
  BY <1>7 DEF FinishFinalize, feedbackVars, memoryVars, servingVars, Rests, held
<1>8. ASSUME NEW trial, EditParams(trial) PROVE Rests
  BY <1>8 DEF EditParams, feedbackVars, memoryVars, servingVars, Rests, held
<1>9. ASSUME CleanIO PROVE Rests
  BY <1>9 DEF CleanIO, memoryVars, servingVars, Rests, held
<1>10. ASSUME UseTools
       PROVE  Rests \/ \E d \in HandDim, flush \in BOOLEAN : HandUpdate(d, flush)
  <2>1. ASSUME HandInfer PROVE Rests
    BY <2>1 DEF HandInfer, InferBatch, feedbackVars, memoryVars, Rests, held
  <2> QED
    BY <1>10, <2>1, Zenon DEF UseTools
<1>11. ASSUME UNCHANGED vars PROVE Rests
  BY <1>11 DEF vars, feedbackVars, memoryVars, servingVars, Rests, held
<1> QED
  BY <1>2, <1>3, <1>4, <1>5, <1>6, <1>7, <1>8, <1>9, <1>10, <1>11, FeedbackShapes, Zenon
     DEF RunsNext

\* Filters and concatenations of held samples.
LEMMA HeldKept ==
    ASSUME NEW k, NEW s \in Seq(Sample), Held(k, s)', NEW P
    PROVE  /\ Kept(s, P) \in Seq(Sample)
           /\ Held(k, Kept(s, P))'
           /\ Ids(Kept(s, P)) \subseteq Ids(s)
<1>1. PICK t : t = Kept(s, P)
  OBVIOUS
<1>2. t \in Seq(Sample) /\ \A i \in DOMAIN t : \E p \in P \cap DOMAIN s : t[i] = s[p]
  BY <1>1, KeptItems
<1>3. Unique(s, {None}) /\ \A p \in DOMAIN s : HeldOne(k, s[p])'
  BY Zenon DEF Held
<1>4. Unique(t, {None})
  BY <1>1, <1>3, KeptUnique
<1>5. \A i \in DOMAIN t : HeldOne(k, t[i])'
  BY <1>2, <1>3, Zenon
<1>6. Held(k, t)'
  BY <1>4, <1>5, Zenon DEF Held
<1>7. Ids(t) \subseteq Ids(s)
  BY <1>2, IdsAre
<1> QED
  BY <1>1, <1>2, <1>6, <1>7

LEMMA IdsAppended ==
    ASSUME NEW s \in Seq(Sample), NEW t \in Seq(Sample)
    PROVE  /\ s \o t \in Seq(Sample)
           /\ Ids(s \o t) = Ids(s) \cup Ids(t)
           /\ \A i \in DOMAIN (s \o t) :
                \/ i \in DOMAIN s /\ (s \o t)[i] = s[i]
                \/ \E j \in DOMAIN t : i = Len(s) + j /\ (s \o t)[i] = t[j]
<1>1. /\ s \o t \in Seq(Sample) /\ DOMAIN (s \o t) = 1 .. Len(s) + Len(t)
      /\ DOMAIN s = 1 .. Len(s) /\ DOMAIN t = 1 .. Len(t) /\ Len(s) \in Nat /\ Len(t) \in Nat
  OBVIOUS
<1>2. \A i \in DOMAIN s : i \in DOMAIN (s \o t) /\ (s \o t)[i] = s[i]
  OBVIOUS
<1>3. \A j \in DOMAIN t : Len(s) + j \in DOMAIN (s \o t) /\ (s \o t)[Len(s) + j] = t[j]
  OBVIOUS
<1>4. ASSUME NEW i \in DOMAIN (s \o t)
      PROVE  \/ i \in DOMAIN s /\ (s \o t)[i] = s[i]
             \/ \E j \in DOMAIN t : i = Len(s) + j /\ (s \o t)[i] = t[j]
  <2>1. CASE i <= Len(s)
    BY <1>1, <1>2, <2>1
  <2>2. CASE i > Len(s)
    <3>1. i - Len(s) \in DOMAIN t /\ i = Len(s) + (i - Len(s))
      BY <1>1, <2>2
    <3> QED
      BY <1>3, <3>1
  <2> QED
    BY <1>1, <2>1, <2>2
<1> DEFINE u == s \o t
<1> HIDE DEF u
<1>5. ASSUME NEW x \in Ids(u) PROVE x \in Ids(s) \cup Ids(t)
  <2>1. PICK i \in DOMAIN u : x = u[i].id /\ x # None
    BY IdsAre, Zenon
  <2>2. CASE i \in DOMAIN s /\ u[i] = s[i]
    BY <2>1, <2>2, IdsAre
  <2>3. ASSUME NEW j \in DOMAIN t, u[i] = t[j] PROVE x \in Ids(t)
    BY <2>1, <2>3, IdsAre
  <2> QED
    BY <1>4, <2>2, <2>3, Zenon DEF u
<1>6. Ids(s) \subseteq Ids(u)
  BY <1>2, IdsAre DEF u
<1>7. Ids(t) \subseteq Ids(u)
  BY <1>3, IdsAre DEF u
<1> QED
  BY <1>1, <1>4, <1>5, <1>6, <1>7 DEF u

LEMMA HeldAppended ==
    ASSUME NEW k, NEW s \in Seq(Sample), NEW t \in Seq(Sample), Held(k, s)', Held(k, t)',
           Ids(s) \cap Ids(t) = {}
    PROVE  Held(k, s \o t)'
<1>1. PICK u : u = s \o t
  OBVIOUS
<1>2. \A i \in DOMAIN u : \/ i \in DOMAIN s /\ u[i] = s[i]
                          \/ \E j \in DOMAIN t : i = Len(s) + j /\ u[i] = t[j]
  BY <1>1, IdsAppended
<1>3. /\ Unique(s, {None}) /\ Unique(t, {None})
      /\ \A i \in DOMAIN s : HeldOne(k, s[i])'
      /\ \A i \in DOMAIN t : HeldOne(k, t[i])'
  BY Zenon DEF Held
<1>4. \A i \in DOMAIN u : HeldOne(k, u[i])'
  BY <1>2, <1>3, Zenon
<1>5. \A i \in DOMAIN s, j \in DOMAIN t : s[i].id # None => s[i].id # t[j].id
  BY IdsAre
<1>6. ASSUME NEW i \in DOMAIN u, NEW j \in DOMAIN u, u[i].id # None, u[i].id = u[j].id
      PROVE  i = j
  <2>1. CASE i \in DOMAIN s /\ u[i] = s[i]
    <3>1. j \in DOMAIN s /\ u[j] = s[j]
      BY <1>2, <1>5, <1>6, <2>1, Zenon
    <3> QED
      BY <1>3, <1>6, <2>1, <3>1 DEF Unique
  <2>2. ASSUME NEW m \in DOMAIN t, i = Len(s) + m, u[i] = t[m] PROVE i = j
    <3>1. PICK n \in DOMAIN t : j = Len(s) + n /\ u[j] = t[n]
      BY <1>2, <1>5, <1>6, <2>2, Zenon
    <3> QED
      BY <1>3, <1>6, <2>2, <3>1 DEF Unique
  <2> QED
    BY <1>2, <2>1, <2>2
<1>7. Unique(u, {None})
  BY <1>6 DEF Unique
<1>8. Held(k, u)'
  BY <1>4, <1>7, Zenon DEF Held
<1> QED
  BY <1>1, <1>8

LEMMA HeldNothing == ASSUME NEW k PROVE Held(k, <<>>)'
<1>1. DOMAIN <<>> = {}
  OBVIOUS
<1> QED
  BY <1>1, Zenon DEF Held, Unique

LEMMA HeldIds ==
    ASSUME NEW k, NEW s \in Seq(Sample), Held(k, s), NEW x \in Ids(s)
    PROVE  /\ x \in SampleId /\ k \in Kind
           /\ x[1] <= execution /\ executed[x[1]].kind = k
           /\ loaded # None /\ x[1] = execution => x[2] \in springTrainedBatchIDs
<1>1. PICK i \in DOMAIN s : x = s[i].id /\ x # None
  BY IdsAre, Zenon
<1>2. HeldOne(k, s[i])
  BY Zenon DEF Held
<1> QED
  BY <1>1, <1>2, SampleNames, Zenon DEF HeldOne

-----------------------------------------------------------------------------
(* A new update takes all the samples of its file.                          *)

LEMMA FileTypes ==
    ASSUME VariableTypes, NEW k \in Expected
    PROVE  buffers[k] \in SampleFile /\ buffers[k].samples \in Seq(Sample)
  BY DEF VariableTypes, ServingTypeOK, SampleFile

LEMMA LoadsAll ==
    ASSUME VariableTypes, HeldInFiles, NEW k \in Expected, NEW d, k \in Kind => d = Dim[k]
    PROVE  /\ Ids(LoadPending(k, d)) = Ids(buffers[k].samples)
           /\ \/ LoadPending(k, d) = <<>>
              \/ \E P : LoadPending(k, d) = Kept(buffers[k].samples, P)
<1> DEFINE file == buffers[k]
           P == {i \in DOMAIN file.samples : file.samples[i].dim = d}
<1>1. PICK s : s = file.samples
  OBVIOUS
<1>2. PICK Q : Q = P
  OBVIOUS
<1>3. s \in Seq(Sample)
  BY <1>1, FileTypes
<1>4. HeldInFile(k)
  BY DEF HeldInFiles
<1>5. \A i \in DOMAIN s : s[i].id # None => i \in Q
  BY <1>1, <1>2, <1>4 DEF HeldInFile, Held, HeldOne
<1>6. LoadPending(k, d) = IF file.state = "whole" /\ file.dim = d THEN Kept(s, Q) ELSE <<>>
  BY <1>1, <1>2, Zenon DEF LoadPending
<1>7. PICK t : t = Kept(s, Q)
  OBVIOUS
<1>8. /\ \A i \in DOMAIN t : \E p \in Q \cap DOMAIN s : t[i] = s[p]
      /\ \A p \in Q \cap DOMAIN s : \E i \in DOMAIN t : t[i] = s[p]
  BY <1>3, <1>7, KeptItems
<1>9. Ids(t) = Ids(s)
  <2>1. Ids(t) \subseteq Ids(s)
    BY <1>8, IdsAre
  <2>2. ASSUME NEW x \in Ids(s) PROVE x \in Ids(t)
    <3>1. PICK p \in DOMAIN s : x = s[p].id /\ x # None
      BY IdsAre, Zenon
    <3>2. PICK i \in DOMAIN t : t[i] = s[p]
      BY <1>5, <1>8, <3>1
    <3> QED
      BY <3>1, <3>2, IdsAre
  <2> QED
    BY <2>1, <2>2
<1>10. CASE file.state = "whole" /\ file.dim = d
  <2>1. LoadPending(k, d) = t
    BY <1>6, <1>7, <1>10
  <2> QED
    BY <1>1, <1>7, <1>9, <2>1, Zenon
<1>11. CASE ~(file.state = "whole" /\ file.dim = d)
  <2>1. LoadPending(k, d) = <<>>
    BY <1>6, <1>11
  <2>2. Ids(s) = {}
    <3>1. CASE s = <<>>
      BY <3>1, NoIds
    <3>2. CASE k \notin Kind
      <4>1. \A i \in DOMAIN s : s[i].id = None
        BY <1>1, <1>4, <3>2 DEF HeldInFile, Held, HeldOne
      <4> QED
        BY <4>1, IdsAre
    <3> QED
      BY <1>1, <1>4, <1>11, <3>1, <3>2 DEF HeldInFile
  <2> QED
    BY <1>1, <2>1, <2>2, NoIds
<1> QED
  BY <1>10, <1>11

\* What a new update holds, from a file of configuration k and from its caller.
NewHeld(u, k, d, samples) ==
    /\ u.pc # "idle" /\ u.pc # "model_saved" /\ u.expected = k /\ u.dim = d
    /\ Ids(buffers[k].samples) \subseteq Ids(u.pending)
    /\ Ids(u.pending) \subseteq Ids(buffers[k].samples) \cup Ids(samples)

LEMMA UpdateHolds ==
    ASSUME RunInv, VariableTypes, HeldInFiles, Grown, NEW k \in Expected, NEW d,
           k \in Kind => d = Dim[k], NEW samples \in Seq(Sample), Held(k, samples)',
           Ids(samples) \cap Ids(buffers[k].samples) = {}, NEW flush, NEW u,
           u = run_update(k, d, samples, flush)
    PROVE  u = Idle \/ (NewHeld(u, k, d, samples) /\ Held(k, u.pending)')
<1> DEFINE valid     == build_buffer_from_update(samples, d)
           V         == {i \in DOMAIN samples : samples[i].dim = d}
           old       == LoadPending(k, d)
           pending   == old \o valid
           threshold == IF flush THEN MIN_FLUSH_BATCH_SIZE ELSE BATCH_SIZE
           pc        == IF valid = <<>> \/ Len(pending) < threshold
                        THEN "buffering" ELSE "training"
<1>1. \/ u = Idle
      \/ u = [pc |-> pc, expected |-> k, dim |-> d, pending |-> pending]
  BY Zenon DEF run_update
<1>2. pc \in {"buffering", "training"}
  OBVIOUS
<1>3. PICK s : s = buffers[k].samples
  OBVIOUS
<1>4. s \in Seq(Sample) /\ Held(k, s)
  BY <1>3, FileTypes DEF HeldInFiles, HeldInFile
<1>5. Held(k, s)'
  BY <1>4, HeldStays
<1>6. PICK o : o = old
  OBVIOUS
<1>7. o \in Seq(Sample) /\ Ids(o) = Ids(s)
  BY <1>3, <1>6, LoadsAll, LoadsSamples DEF VariableTypes
<1>8. Held(k, o)'
  <2>1. o = <<>> \/ \E P : o = Kept(s, P)
    BY <1>3, <1>6, LoadsAll, Zenon
  <2>2. ASSUME NEW P, o = Kept(s, P) PROVE Held(k, o)'
    BY <1>4, <1>5, <2>2, HeldKept
  <2>3. CASE o = <<>>
    BY <2>3, HeldNothing
  <2> QED
    BY <2>1, <2>2, <2>3
<1>9. PICK v : v = valid
  OBVIOUS
<1>10. v \in Seq(Sample) /\ Held(k, v)' /\ Ids(v) \subseteq Ids(samples)
  <2>1. PICK P : P = V
    OBVIOUS
  <2>2. v = Kept(samples, P)
    BY <1>9, <2>1, Zenon DEF build_buffer_from_update
  <2> QED
    BY <2>2, HeldKept
<1>11. Ids(o) \cap Ids(v) = {}
  BY <1>3, <1>7, <1>10
<1>12. PICK w : w = o \o v
  OBVIOUS
<1>13. Held(k, w)' /\ Ids(w) = Ids(o) \cup Ids(v)
  BY <1>7, <1>8, <1>10, <1>11, <1>12, HeldAppended, IdsAppended
<1>14. pending = w
  BY <1>6, <1>9, <1>12
<1> HIDE DEF pc, pending
<1>15. CASE u = [pc |-> pc, expected |-> k, dim |-> d, pending |-> pending]
  <2>1. u.pc = pc /\ u.expected = k /\ u.dim = d /\ u.pending = w
    BY <1>14, <1>15
  <2> QED
    BY <1>2, <1>3, <1>7, <1>10, <1>13, <2>1 DEF NewHeld
<1> QED
  BY <1>1, <1>15

-----------------------------------------------------------------------------
(* Samples stay where the invariant says.                                     *)

LEMMA SamplesStart == RunsInit => SampleInv
<1> SUFFICES ASSUME RunsInit PROVE SampleInv
  OBVIOUS
<1>1. /\ buffers = [k \in Expected |-> NoFile] /\ update = Idle /\ loaded = None
      /\ springPendingTrainBatches = <<>> /\ springTrainedBatchIDs = {} /\ known = {}
  BY DEF RunsInit, FeedbackInit, ServingInit
<1>2. \A k : Held(k, <<>>)
  <2>1. DOMAIN <<>> = {}
    OBVIOUS
  <2> QED
    BY <2>1, Zenon DEF Held, Unique
<1>3. HeldInFiles
  <2>1. ASSUME NEW k \in Expected PROVE buffers[k].samples = <<>>
    BY <1>1 DEF NoFile
  <2> QED
    BY <1>2, <2>1, Zenon DEF HeldInFiles, HeldInFile
<1>4. HeldInUpdate
  <2>1. update.pc = "idle" /\ update.pending = <<>>
    BY <1>1 DEF Idle
  <2> QED
    BY <1>2, <2>1, Zenon DEF HeldInUpdate
<1>5. HeldBySupervisor
  <2>1. DOMAIN <<>> = {}
    OBVIOUS
  <2> QED
    BY <1>1, <2>1 DEF HeldBySupervisor, Unique
<1> QED
  BY <1>1, <1>3, <1>4, <1>5 DEF SampleInv, Collected

\* A file that is left alone, and one without samples.
LEMMA FileStays ==
    ASSUME RunInv, VariableTypes, Grown, HeldInFiles, NEW k \in Expected,
           buffers'[k] = buffers[k] \/ buffers'[k].samples = <<>>
    PROVE  HeldInFile(k)'
<1>1. CASE buffers'[k] = buffers[k]
  <2>1. PICK s : s = buffers[k].samples
    OBVIOUS
  <2>2. s \in Seq(Sample) /\ Held(k, s)
    BY <2>1, FileTypes DEF HeldInFiles, HeldInFile
  <2>3. Held(k, s)'
    BY <2>2, HeldStays
  <2>4. /\ buffers'[k].samples = s
        /\ s # <<>> => buffers'[k].state = "whole" /\ (k \in Kind => buffers'[k].dim = Dim[k])
    BY <1>1, <2>1 DEF HeldInFiles, HeldInFile
  <2> QED
    BY <2>3, <2>4, Zenon DEF HeldInFile
<1>2. CASE buffers'[k].samples = <<>>
  BY <1>2, HeldNothing, Zenon DEF HeldInFile
<1> QED
  BY <1>1, <1>2

LEMMA FilesStay ==
    ASSUME RunInv, VariableTypes, Grown, HeldInFiles, buffers' = buffers PROVE HeldInFiles'
  BY FileStays, Zenon DEF HeldInFiles

\* An update that goes on with its samples, and one that has ended.
LEMMA UpdateStays ==
    ASSUME RunInv, VariableTypes, Grown, HeldInUpdate,
           update'.pending = update.pending, update'.expected = update.expected,
           update'.dim = update.dim, update'.pc = "idle" <=> update.pc = "idle",
           Ids(buffers'[update.expected].samples) \subseteq Ids(buffers[update.expected].samples)
    PROVE  HeldInUpdate'
<1>1. PICK s : s = update.pending
  OBVIOUS
<1>2. PICK k : k = update.expected
  OBVIOUS
<1>3. s \in Seq(Sample) /\ Held(k, s)
  BY <1>1, <1>2 DEF VariableTypes, ServingTypeOK, HeldInUpdate
<1>4. Held(k, s)'
  BY <1>3, HeldStays
<1>5. /\ update.pc = "idle" => s = <<>>
      /\ update.pc # "idle" => /\ k \in Kind => update.dim = Dim[k]
                               /\ Ids(buffers[k].samples) \subseteq Ids(s)
  BY <1>1, <1>2 DEF HeldInUpdate
<1>6. Ids(buffers'[k].samples) \subseteq Ids(buffers[k].samples)
  BY <1>2
<1>7. update'.pc # "idle" => Ids(buffers'[k].samples) \subseteq Ids(s)
  BY <1>5, <1>6
<1> QED
  BY <1>1, <1>2, <1>4, <1>5, <1>7, Zenon DEF HeldInUpdate

LEMMA NoUpdate == ASSUME update' = Idle PROVE HeldInUpdate'
<1>1. update'.pc = "idle" /\ update'.pending = <<>>
  BY DEF Idle
<1> QED
  BY <1>1, HeldNothing, Zenon DEF HeldInUpdate

\* The writes of an update.
LEMMA WritesHold ==
    ASSUME RunInv, VariableTypes, Grown, HeldInFiles, HeldInUpdate, UpdateStep \/ UpdateDies
    PROVE  HeldInFiles' /\ HeldInUpdate'
<1> DEFINE e == update.expected
<1>1. /\ buffers \in [Expected -> SampleFile] /\ e \in Expected
      /\ DOMAIN update = {"pc", "expected", "dim", "pending"}
  BY DEF VariableTypes, ServingTypeOK
<1>2. CASE UpdateDies
  BY <1>2, FilesStay, NoUpdate DEF UpdateDies
<1>3. CASE OpenBuffer \/ ClearBuffer
  <2>1. PICK f : f.samples = <<>> /\ buffers' = [buffers EXCEPT ![e] = f]
    <3>1. NoFile.samples = <<>> /\ [NoFile EXCEPT !.state = "torn"].samples = <<>>
      BY DEF NoFile
    <3> QED
      BY <1>3, <3>1, Zenon DEF OpenBuffer, ClearBuffer
  <2>2. \A k \in Expected : buffers'[k] = buffers[k] \/ buffers'[k].samples = <<>>
    BY <1>1, <2>1
  <2>3. HeldInFiles'
    BY <2>2, FileStays, Zenon DEF HeldInFiles
  <2>4. CASE update' = Idle
    BY <2>3, <2>4, NoUpdate
  <2>5. CASE update.pc = "buffering" /\ update' = [update EXCEPT !.pc = "buffer_open"]
    <3>1. /\ update'.pending = update.pending /\ update'.expected = update.expected
          /\ update'.dim = update.dim /\ update'.pc # "idle" /\ update.pc # "idle"
      BY <1>1, <2>5
    <3>2. Ids(buffers'[e].samples) = {}
      BY <1>1, <2>1, NoIds
    <3> QED
      BY <2>3, <3>1, <3>2, UpdateStays
  <2> QED
    BY <1>3, <2>4, <2>5, Zenon DEF OpenBuffer, ClearBuffer
<1>4. CASE WriteBuffer
  <2>1. /\ update.pc = "buffer_open" /\ update' = Idle
        /\ buffers' = [buffers EXCEPT ![e] =
                         [state |-> "whole", dim |-> update.dim, samples |-> update.pending]]
    BY <1>4 DEF WriteBuffer
  <2>2. PICK s : s = update.pending
    OBVIOUS
  <2>3. PICK k : k = e
    OBVIOUS
  <2>4. s \in Seq(Sample) /\ Held(k, s) /\ (k \in Kind => update.dim = Dim[k])
    BY <2>1, <2>2, <2>3 DEF VariableTypes, ServingTypeOK, HeldInUpdate
  <2>5. Held(k, s)'
    BY <2>4, HeldStays
  <2>6. buffers'[k].samples = s /\ buffers'[k].state = "whole" /\ buffers'[k].dim = update.dim
    BY <1>1, <2>1, <2>2, <2>3
  <2>7. HeldInFile(k)'
    BY <2>4, <2>5, <2>6, Zenon DEF HeldInFile
  <2>8. \A x \in Expected : x # k => buffers'[x] = buffers[x]
    BY <1>1, <2>1, <2>3
  <2>9. HeldInFiles'
    BY <2>7, <2>8, FileStays, Zenon DEF HeldInFiles
  <2> QED
    BY <2>1, <2>9, NoUpdate
<1>5. CASE OpenModel \/ WriteModel
  <2>1. /\ update.pc # "idle" /\ buffers' = buffers
        /\ \E pc : pc # "idle" /\ update' = [update EXCEPT !.pc = pc]
    BY <1>5 DEF OpenModel, WriteModel
  <2>2. /\ update'.pending = update.pending /\ update'.expected = update.expected
        /\ update'.dim = update.dim /\ update'.pc # "idle"
    BY <1>1, <2>1
  <2> QED
    BY <2>1, <2>2, FilesStay, UpdateStays
<1> QED
  BY <1>2, <1>3, <1>4, <1>5 DEF UpdateStep

\* Batches that are ready are handed over once: they count as trained, and are in
\* no file.
LEMMA ReadyAre ==
    ASSUME RunInv, VariableTypes, SampleInv, Grown, NEW e \in Epoch, NEW ids, NEW flush,
           NEW input, HandsOver(e, ids, flush, input),
           NEW k, k = loaded.kind, NEW s, s = SamplesOf(input.ready)
    PROVE  /\ s \in Seq(Sample) /\ Held(k, s)'
           /\ Ids(s) = {<<execution, b.id>> : b \in Range(input.ready)}
           /\ \A f \in Expected : Ids(s) \cap Ids(buffers[f].samples) = {}
<1>1. PICK r : r = input.ready
  OBVIOUS
<1>2. s = SamplesOf(r)
  BY <1>1
<1>3. k = loaded.kind
  OBVIOUS
<1>4. PICK x : x = execution
  OBVIOUS
<1>5. /\ loaded # None /\ loaded' = loaded /\ execution' = x
      /\ input = springBuildOnlineUpdateInput(e, ids, flush)
      /\ springTrainedBatchIDs' = springTrainedBatchIDs \cup {b.id : b \in Range(r)}
  BY <1>1, <1>4 DEF HandsOver, Trains
<1>6. /\ e \in Nat /\ springPendingTrainBatches \in Seq(Batch)
      /\ Unique(springPendingTrainBatches, {})
  BY FeedbackAssumption DEF VariableTypes, MemoryTypes, SampleInv, HeldBySupervisor
<1>7. /\ r \in Seq(Batch) /\ Unique(r, {})
      /\ \A i \in DOMAIN r : \E y \in DOMAIN springPendingTrainBatches :
            Untrained(y) /\ NamedAfter(r[i], y)
  BY <1>1, <1>5, <1>6, InputIs
<1>8. s \in Seq(Sample) /\ k \in Kind
  BY <1>2, <1>3, <1>5, <1>7, SamplesType
<1>9. /\ DOMAIN s = DOMAIN r
      /\ \A i \in DOMAIN r : s[i].id = <<x, r[i].id>> /\ s[i].dim = Dim[k]
  BY <1>2, <1>3, <1>4 DEF SamplesOf
<1>10. x \in 1 .. MaxExecutions /\ executed[x].kind = k
  BY <1>3, <1>4, <1>5 DEF RunInv, Emulator
<1>11. executed'[x].kind = k
  BY <1>4, <1>10 DEF Grown
<1>12. \A i \in DOMAIN r : s[i].id \in SampleId /\ s[i].id # None
  <2>1. ASSUME NEW i \in DOMAIN r PROVE <<x, r[i].id>> \in SampleId
    <3>1. r[i] \in Batch
      BY <1>7
    <3> QED
      BY <1>10, <3>1, FeedbackAssumption DEF Batch
  <2> QED
    BY <1>9, <2>1, FeedbackAssumption
<1>13. \A i \in DOMAIN s : HeldOne(k, s[i])'
  <2>1. ASSUME NEW i \in DOMAIN r PROVE HeldOne(k, s[i])'
    <3>1. s[i].id[1] = x /\ s[i].id[2] = r[i].id
      BY <1>9
    <3>2. r[i].id \in springTrainedBatchIDs'
      BY <1>5 DEF Range
    <3>3. s[i].id[1] <= execution'
      BY <1>5, <1>10, <3>1
    <3> QED
      BY <1>8, <1>9, <1>11, <3>1, <3>2, <3>3 DEF HeldOne
  <2> QED
    BY <1>9, <2>1
<1>14. Unique(s, {None})
  BY <1>7, <1>9 DEF Unique
<1>15. Held(k, s)'
  BY <1>13, <1>14, Zenon DEF Held
<1>16. Ids(s) = {<<x, b.id>> : b \in Range(r)}
  <2>1. Ids(s) = {s[i].id : i \in DOMAIN s} \ {None}
    BY IdsAre
  <2>2. ASSUME NEW y \in Ids(s) PROVE y \in {<<x, b.id>> : b \in Range(r)}
    <3>1. PICK i \in DOMAIN s : y = s[i].id
      BY <2>1
    <3>2. i \in DOMAIN r /\ y = <<x, r[i].id>>
      BY <1>9, <3>1
    <3>3. r[i] \in Range(r)
      BY <3>2 DEF Range
    <3> QED
      BY <3>2, <3>3
  <2>3. ASSUME NEW b \in Range(r) PROVE <<x, b.id>> \in Ids(s)
    <3>1. PICK i \in DOMAIN r : b = r[i]
      BY DEF Range
    <3>2. i \in DOMAIN s /\ s[i].id = <<x, b.id>> /\ s[i].id # None
      BY <1>9, <1>12, <3>1
    <3> QED
      BY <2>1, <3>2
  <2> QED
    BY <2>2, <2>3
<1>17. ASSUME NEW f \in Expected, NEW y \in Ids(s), y \in Ids(buffers[f].samples) PROVE FALSE
  <2>1. PICK i \in DOMAIN r : y = <<x, r[i].id>>
    BY <1>16 DEF Range
  <2>2. r[i].id \notin springTrainedBatchIDs
    BY <1>7 DEF Untrained, NamedAfter
  <2>3. PICK t : t = buffers[f].samples
    OBVIOUS
  <2>4. t \in Seq(Sample) /\ Held(f, t)
    BY <2>3, FileTypes DEF SampleInv, HeldInFiles, HeldInFile
  <2>5. loaded # None /\ y[1] = execution => y[2] \in springTrainedBatchIDs
    BY <1>17, <2>3, <2>4, HeldIds, Zenon
  <2> QED
    BY <1>4, <1>5, <2>1, <2>2, <2>5
<1> QED
  BY <1>1, <1>4, <1>8, <1>15, <1>16, <1>17

\* A batch that is handed over leaves a supervisor that waits for the others.
LEMMA HandsOverHolds ==
    ASSUME RunInv, VariableTypes, SampleInv, Grown, NEW e \in Epoch, NEW ids, NEW flush,
           NEW input, HandsOver(e, ids, flush, input)
    PROVE  SampleInv'
<1>1. /\ buffers' = buffers /\ loaded # None /\ loaded' = loaded /\ execution' = execution
      /\ springTxBatchSeq' = springTxBatchSeq /\ known' = known
      /\ input = springBuildOnlineUpdateInput(e, ids, flush)
      /\ springPendingTrainBatches' = input.kept
      /\ springTrainedBatchIDs' = springTrainedBatchIDs \cup {b.id : b \in Range(input.ready)}
      /\ \/ update' = Idle
         \/ update' = run_update(loaded.kind, Dim[loaded.kind], SamplesOf(input.ready), flush)
  BY DEF HandsOver, Trains
<1>2. HeldInFiles'
  BY <1>1, FilesStay DEF SampleInv
<1>3. HeldInUpdate'
  <2>1. PICK k : k = loaded.kind
    OBVIOUS
  <2>2. PICK s : s = SamplesOf(input.ready)
    OBVIOUS
  <2>3. PICK u : u = update'
    OBVIOUS
  <2>4. k \in Kind /\ k \in Expected
    BY <1>1, <2>1 DEF RunInv, RunTypes, Emulator, Params, Expected
  <2>5. /\ s \in Seq(Sample) /\ Ids(s) \cap Ids(buffers[k].samples) = {}
        /\ Held(k, s)'
    BY <1>1, <2>1, <2>2, <2>4, ReadyAre
  <2>6. ASSUME u = run_update(k, Dim[k], s, flush)
        PROVE  u = Idle \/ (NewHeld(u, k, Dim[k], s) /\ Held(k, u.pending)')
    BY <2>4, <2>5, <2>6, UpdateHolds DEF SampleInv
  <2>7. u = Idle \/ (NewHeld(u, k, Dim[k], s) /\ Held(k, u.pending)')
    BY <1>1, <2>1, <2>2, <2>3, <2>6
  <2>8. CASE NewHeld(u, k, Dim[k], s) /\ Held(k, u.pending)'
    <3>1. PICK p : p = u.pending
      OBVIOUS
    <3>2. /\ update'.pc # "idle" /\ update'.expected = k /\ update'.dim = Dim[k]
          /\ update'.pending = p /\ Ids(buffers'[k].samples) \subseteq Ids(p)
      BY <1>1, <2>3, <2>8, <3>1 DEF NewHeld
    <3>3. Held(k, p)'
      BY <2>8, <3>1
    <3> QED
      BY <3>2, <3>3, Zenon DEF HeldInUpdate
  <2> QED
    BY <2>3, <2>7, <2>8, NoUpdate
<1>4. HeldBySupervisor'
  <2>1. PICK r : r = input.ready
    OBVIOUS
  <2>2. PICK w : w = input.kept
    OBVIOUS
  <2>3. /\ e \in Nat /\ springPendingTrainBatches \in Seq(Batch)
        /\ Unique(springPendingTrainBatches, {})
        /\ \A i \in DOMAIN springPendingTrainBatches :
             springPendingTrainBatches[i].id <= springTxBatchSeq
        /\ \A b \in springTrainedBatchIDs : b <= springTxBatchSeq
    BY FeedbackAssumption DEF VariableTypes, MemoryTypes, SampleInv, HeldBySupervisor
  <2>4. /\ Unique(w, {})
        /\ \A i \in DOMAIN w : \E y \in DOMAIN springPendingTrainBatches :
             Untrained(y) /\ NamedAfter(w[i], y)
        /\ \A i \in DOMAIN r : \E y \in DOMAIN springPendingTrainBatches :
             Untrained(y) /\ NamedAfter(r[i], y)
        /\ \A i \in DOMAIN r, j \in DOMAIN w : r[i].id # w[j].id
    BY <1>1, <2>1, <2>2, <2>3, InputIs
  <2>5. \A b \in springTrainedBatchIDs' : b <= springTxBatchSeq
    <3>1. \A i \in DOMAIN r : r[i].id <= springTxBatchSeq
      BY <2>3, <2>4 DEF NamedAfter
    <3> QED
      BY <1>1, <2>1, <2>3, <3>1 DEF Range
  <2>6. ASSUME NEW i \in DOMAIN w
        PROVE  w[i].id \notin springTrainedBatchIDs' /\ w[i].id <= springTxBatchSeq
    <3>1. w[i].id \notin springTrainedBatchIDs /\ w[i].id <= springTxBatchSeq
      BY <2>3, <2>4 DEF NamedAfter, Untrained
    <3>2. \A b \in Range(r) : b.id # w[i].id
      BY <2>4 DEF Range
    <3> QED
      BY <1>1, <2>1, <3>1, <3>2
  <2> QED
    BY <1>1, <2>2, <2>4, <2>5, <2>6 DEF HeldBySupervisor
<1>5. Collected'
  BY <1>1 DEF SampleInv, Collected
<1> QED
  BY <1>2, <1>3, <1>4, <1>5 DEF SampleInv

\* The steps of the supervisor that hand nothing over.
LEMMA SupervisorHolds ==
    ASSUME RunInv, VariableTypes, SampleInv, Grown, Rests \/ Starts \/ Stops \/ Collects
    PROVE  SampleInv'
<1>0. /\ execution \in 0 .. MaxExecutions /\ springTxBatchSeq \in 0 .. NumBatches
      /\ MaxExecutions \in Nat /\ NumBatches \in Nat /\ known \subseteq SampleId
      /\ springPendingTrainBatches \in Seq(Batch) /\ springTrainedBatchIDs \subseteq Nat
  BY FeedbackAssumption DEF RunInv, RunTypes, VariableTypes, MemoryTypes
<1>1. UNCHANGED <<buffers, update>>
  BY DEF Rests, Starts, Stops, Collects, held
<1>2. HeldInFiles' /\ HeldInUpdate'
  BY <1>1, FilesStay, UpdateStays DEF SampleInv
<1>3. \A i \in known : i[1] \in Nat /\ i[2] \in Nat /\ i[1] <= execution
  BY <1>0, Pairs DEF SampleInv, Collected
<1>4. ASSUME NEW i \in DOMAIN springPendingTrainBatches
      PROVE  springPendingTrainBatches[i].id \in Nat
  <2>1. springPendingTrainBatches[i] \in Batch
    BY <1>0
  <2> QED
    BY <2>1, FeedbackAssumption DEF Batch
<1>5. ASSUME NoMemory PROVE HeldBySupervisor'
  <2>1. springPendingTrainBatches' = <<>> /\ springTrainedBatchIDs' = {} /\ DOMAIN <<>> = {}
    BY <1>5 DEF NoMemory
  <2> QED
    BY <2>1 DEF HeldBySupervisor, Unique
<1>6. CASE Rests
  <2>1. UNCHANGED <<loaded, springPendingTrainBatches, springTrainedBatchIDs>>
    BY <1>6 DEF Rests
  <2>2. springTxBatchSeq' \in Nat /\ springTxBatchSeq' >= springTxBatchSeq
    BY <1>0, <1>6 DEF Rests
  <2>3. \A i \in DOMAIN springPendingTrainBatches :
          springPendingTrainBatches[i].id <= springTxBatchSeq'
    BY <1>0, <1>4, <2>2 DEF SampleInv, HeldBySupervisor
  <2>4. \A b \in springTrainedBatchIDs : b <= springTxBatchSeq'
    BY <1>0, <2>2 DEF SampleInv, HeldBySupervisor
  <2>5. HeldBySupervisor'
    BY <2>1, <2>3, <2>4 DEF SampleInv, HeldBySupervisor, Unique
  <2>6. Collected'
    BY <1>0, <1>3, <1>6 DEF Rests, SampleInv, Collected
  <2> QED
    BY <1>2, <2>5, <2>6 DEF SampleInv
<1>7. CASE Starts
  <2>1. Collected'
    BY <1>0, <1>3, <1>7 DEF Starts, Collected
  <2> QED
    BY <1>2, <1>5, <1>7, <2>1 DEF SampleInv, Starts
<1>8. CASE Stops
  <2>1. Collected'
    BY <1>3, <1>8 DEF Stops, Collected
  <2> QED
    BY <1>2, <1>5, <1>8, <2>1 DEF SampleInv, Stops
<1>9. CASE Collects
  <2> DEFINE pb  == springPendingTrainBatches
             new == [id |-> springTxBatchSeq + 1, count |-> 0, first |-> 0]
  <2>1. /\ loaded # None /\ loaded' = loaded /\ execution' = execution
        /\ springTrainedBatchIDs' = springTrainedBatchIDs
        /\ springTxBatchSeq' = springTxBatchSeq + 1
        /\ springPendingTrainBatches' = Append(pb, new)
        /\ known' = known \cup {<<execution, springTxBatchSeq + 1>>}
    BY <1>9 DEF Collects, Enqueued
  <2>2. Collected'
    BY <1>0, <1>3, <2>1 DEF SampleInv, Collected
  <2>3. /\ Unique(pb, {})
        /\ \A i \in DOMAIN pb : /\ pb[i].id \notin springTrainedBatchIDs
                                /\ pb[i].id <= springTxBatchSeq
        /\ \A b \in springTrainedBatchIDs : b <= springTxBatchSeq
    BY DEF SampleInv, HeldBySupervisor
  <2>4. PICK q : q = springPendingTrainBatches'
    OBVIOUS
  <2>5. PICK n : n = Len(pb) + 1
    OBVIOUS
  <2>6. /\ DOMAIN q = DOMAIN pb \cup {n} /\ n \notin DOMAIN pb
        /\ q[n] = new /\ \A i \in DOMAIN pb : q[i] = pb[i]
    <3>1. Len(pb) \in Nat /\ DOMAIN pb = 1 .. Len(pb)
      BY <1>0
    <3>2. q = Append(pb, new)
      BY <2>1, <2>4
    <3> QED
      BY <1>0, <2>5, <3>1, <3>2
  <2>7. q[n].id = springTxBatchSeq + 1
    BY <2>6
  <2>8. \A i \in DOMAIN pb : pb[i].id \in Nat
    BY <1>4
  <2> HIDE DEF pb, new
  <2>9. \A i \in DOMAIN q : q[i].id <= springTxBatchSeq + 1
    BY <1>0, <2>3, <2>6, <2>7, <2>8
  <2>10. \A i \in DOMAIN q : q[i].id \notin springTrainedBatchIDs
    BY <1>0, <2>3, <2>6, <2>7
  <2>11. Unique(q, {})
    <3>1. \A i \in DOMAIN pb : q[i].id # q[n].id
      BY <1>0, <2>3, <2>6, <2>7, <2>8
    <3> QED
      BY <2>3, <2>6, <3>1 DEF Unique
  <2>12. \A b \in springTrainedBatchIDs : b <= springTxBatchSeq + 1
    BY <1>0, <2>3
  <2>13. HeldBySupervisor'
    BY <2>1, <2>4, <2>9, <2>10, <2>11, <2>12 DEF HeldBySupervisor
  <2> QED
    BY <1>2, <2>2, <2>13 DEF SampleInv
<1> QED
  BY <1>6, <1>7, <1>8, <1>9

\* An update of a user holds no decision of the supervisor.
LEMMA HandUpdateHolds ==
    ASSUME RunInv, VariableTypes, SampleInv, Grown, NEW d \in HandDim, NEW flush,
           HandUpdate(d, flush), NEW u, u = update'
    PROVE  u = Idle \/ (NewHeld(u, None, d, <<>>) /\ Held(None, u.pending)')
<1>1. PICK s : s = <<[id |-> None, dim |-> d]>>
  OBVIOUS
<1>2. d \in Nat /\ None \in Expected /\ None \notin Kind
  BY RunAssumption, ServingAssumption DEF Expected
<1>3. /\ s \in Seq(Sample) /\ DOMAIN s = {1} /\ s[1].id = None
  BY <1>1, <1>2 DEF Sample
<1>4. Held(None, s)'
  BY <1>3, Zenon DEF Held, HeldOne, Unique
<1>5. Ids(s) = {}
  BY <1>3, IdsAre
<1>6. u = run_update(None, d, s, flush)
  BY <1>1 DEF HandUpdate
<1>7. u = Idle \/ (NewHeld(u, None, d, s) /\ Held(None, u.pending)')
  BY <1>2, <1>3, <1>4, <1>5, <1>6, UpdateHolds DEF SampleInv
<1> QED
  BY <1>5, <1>7, NoIds DEF NewHeld

LEMMA SamplesStay ==
    ASSUME RunInv, VariableTypes, SampleInv, [RunsNext]_vars PROVE SampleInv'
<1>1. Grown
  BY RunsGrow
<1>2. CASE Rests \/ Starts \/ Stops \/ Collects
  BY <1>1, <1>2, SupervisorHolds
<1>3. ASSUME Writes PROVE SampleInv'
  <2>1. HeldInFiles' /\ HeldInUpdate'
    BY <1>1, <1>3, WritesHold DEF Writes, SampleInv
  <2>2. HeldBySupervisor' /\ Collected'
    BY <1>3 DEF Writes, feedbackVars, memoryVars, SampleInv, HeldBySupervisor, Collected, Unique
  <2> QED
    BY <2>1, <2>2 DEF SampleInv
<1>4. ASSUME NEW e \in Epoch, NEW ids, NEW flush, NEW input, HandsOver(e, ids, flush, input)
      PROVE  SampleInv'
  BY <1>1, <1>4, HandsOverHolds
<1>5. ASSUME NEW d \in HandDim, NEW flush, HandUpdate(d, flush) PROVE SampleInv'
  <2>1. UNCHANGED <<buffers, feedbackVars>>
    BY <1>5 DEF HandUpdate, fileVars
  <2>2. HeldBySupervisor' /\ Collected'
    BY <2>1 DEF feedbackVars, memoryVars, SampleInv, HeldBySupervisor, Collected, Unique
  <2>3. HeldInFiles'
    BY <1>1, <2>1, FilesStay DEF SampleInv
  <2>4. PICK u : u = update'
    OBVIOUS
  <2>5. u = Idle \/ (NewHeld(u, None, d, <<>>) /\ Held(None, u.pending)')
    BY <1>1, <1>5, <2>4, HandUpdateHolds
  <2>6. CASE NewHeld(u, None, d, <<>>) /\ Held(None, u.pending)'
    <3>1. PICK p : p = u.pending
      OBVIOUS
    <3>2. /\ update'.pc # "idle" /\ update'.expected = None /\ update'.pending = p
          /\ Ids(buffers'[None].samples) \subseteq Ids(p)
      BY <2>1, <2>4, <2>6, <3>1 DEF NewHeld
    <3>3. Held(None, p)' /\ None \notin Kind
      BY <2>6, <3>1, ServingAssumption
    <3>4. HeldInUpdate'
      BY <3>2, <3>3, Zenon DEF HeldInUpdate
    <3> QED
      BY <2>2, <2>3, <3>4 DEF SampleInv
  <2> QED
    BY <2>2, <2>3, <2>4, <2>5, <2>6, NoUpdate DEF SampleInv
<1> QED
  BY <1>2, <1>3, <1>4, <1>5, StepShapes, Zenon

-----------------------------------------------------------------------------
(* The ledger.                                                              *)

\* The ledger as the state has it: InFlight is left out of the updates that count.
Waiting == {<<execution, b.id>> : b \in Range(springPendingTrainBatches)}
Buffered == (UNION {Ids(buffers[k].samples) : k \in Expected}) \cup Ids(update.pending)
Counted == [i \in SampleId |-> used[i] - IF i \in InFlight THEN 1 ELSE 0]

LEMMA LedgerRests ==
    ASSUME UNCHANGED <<known, Waiting, Buffered, Counted, interrupted>>
    PROVE  UNCHANGED Ledger!ledgerVars
  BY Zenon DEF Ledger!ledgerVars, Waiting, Buffered, Counted

LEMMA LedgerCollects ==
    ASSUME NEW i \in SampleId, i \notin known, known' = known \cup {i},
           Waiting' = Waiting \cup {i}, UNCHANGED <<Buffered, Counted, interrupted>>
    PROVE  Ledger!LedgerNext
<1>1. Ledger!Collect(i)
  BY Zenon DEF Ledger!Collect, Waiting, Buffered, Counted
<1> QED
  BY <1>1, Zenon DEF Ledger!LedgerNext

LEMMA LedgerTransfers ==
    ASSUME NEW H \in SUBSET Waiting, NEW L \in SUBSET (Waiting \cup Buffered),
           Waiting' = Waiting \ (H \cup L), Buffered' = (Buffered \cup H) \ L,
           UNCHANGED <<known, Counted, interrupted>>
    PROVE  Ledger!LedgerNext
<1>1. Ledger!Transfer(H, L)
  BY Zenon DEF Ledger!Transfer, Waiting, Buffered, Counted
<1> QED
  BY <1>1, Zenon DEF Ledger!LedgerNext, Waiting, Buffered

LEMMA LedgerUpdates ==
    ASSUME NEW B \in SUBSET Buffered,
           Counted' = [i \in SampleId |-> IF i \in B THEN Counted[i] + 1 ELSE Counted[i]],
           Buffered' = Buffered \ B, UNCHANGED <<known, Waiting, interrupted>>
    PROVE  Ledger!LedgerNext
<1>1. Ledger!Update(B)
  BY Zenon DEF Ledger!Update, Ledger!UsedUp, Waiting, Buffered, Counted
<1> QED
  BY <1>1, Zenon DEF Ledger!LedgerNext, Buffered

LEMMA LedgerIsCut ==
    ASSUME NEW B \in SUBSET Buffered, NEW left \in SUBSET B,
           Counted' = [i \in SampleId |-> IF i \in B THEN Counted[i] + 1 ELSE Counted[i]],
           Buffered' = (Buffered \ B) \cup left, interrupted' = interrupted + 1,
           UNCHANGED <<known, Waiting>>
    PROVE  Ledger!LedgerNext
<1>1. Ledger!CutShort(B, left)
  BY Zenon DEF Ledger!CutShort, Ledger!UsedUp, Waiting, Buffered, Counted
<1> QED
  BY <1>1, Zenon DEF Ledger!LedgerNext, Buffered

\* One file apart from the others.
Files(b, K) == UNION {Ids(b[k].samples) : k \in K}

LEMMA Split ==
    ASSUME NEW b, NEW K, NEW e \in K
    PROVE  Files(b, K) = Files(b, K \ {e}) \cup Ids(b[e].samples)
  BY DEF Files

LEMMA BufferedIs ==
    /\ Buffered = Files(buffers, Expected) \cup Ids(update.pending)
    /\ Buffered' = Files(buffers', Expected) \cup Ids(update'.pending)
  BY Zenon DEF Buffered, Files

\* Decisions are in one file only, or of the update of their configuration.
LEMMA FilesApart ==
    ASSUME VariableTypes, SampleInv, update.pc # "idle"
    PROVE  Files(buffers, Expected \ {update.expected}) \cap Ids(update.pending) = {}
<1> SUFFICES ASSUME NEW k \in Expected, k # update.expected, NEW x \in Ids(buffers[k].samples),
                    x \in Ids(update.pending)
             PROVE  FALSE
  BY DEF Files
<1>1. PICK s : s = buffers[k].samples
  OBVIOUS
<1>2. s \in Seq(Sample) /\ Held(k, s)
  BY <1>1, FileTypes DEF SampleInv, HeldInFiles, HeldInFile
<1>3. PICK t : t = update.pending
  OBVIOUS
<1>4. t \in Seq(Sample) /\ Held(update.expected, t)
  BY <1>3 DEF SampleInv, HeldInUpdate, VariableTypes, ServingTypeOK
<1>5. executed[x[1]].kind = k
  BY <1>1, <1>2, HeldIds, Zenon
<1>6. executed[x[1]].kind = update.expected
  BY <1>3, <1>4, HeldIds, Zenon
<1> QED
  BY <1>5, <1>6

\* No decision both waits and is buffered.
LEMMA WaitingApart == ASSUME VariableTypes, SampleInv PROVE Waiting \cap Buffered = {}
<1> SUFFICES ASSUME NEW x \in Waiting, x \in Buffered PROVE FALSE
  OBVIOUS
<1>1. PICK i \in DOMAIN springPendingTrainBatches :
        x = <<execution, springPendingTrainBatches[i].id>>
  BY DEF Waiting, Range
<1>2. loaded # None /\ springPendingTrainBatches[i].id \notin springTrainedBatchIDs
  <2>1. DOMAIN <<>> = {}
    OBVIOUS
  <2> QED
    BY <2>1 DEF SampleInv, HeldBySupervisor
<1>3. ASSUME NEW k, NEW s \in Seq(Sample), Held(k, s), x \in Ids(s) PROVE FALSE
  <2>1. loaded # None /\ x[1] = execution => x[2] \in springTrainedBatchIDs
    BY <1>3, HeldIds, Zenon
  <2> QED
    BY <1>1, <1>2, <2>1
<1>4. ASSUME NEW k \in Expected, x \in Ids(buffers[k].samples) PROVE FALSE
  <2>1. PICK s : s = buffers[k].samples
    OBVIOUS
  <2>2. s \in Seq(Sample) /\ Held(k, s)
    BY <2>1, FileTypes DEF SampleInv, HeldInFiles, HeldInFile
  <2> QED
    BY <1>3, <1>4, <2>1, <2>2
<1>5. x \notin Ids(update.pending)
  <2>1. PICK s : s = update.pending
    OBVIOUS
  <2>2. s \in Seq(Sample) /\ Held(update.expected, s)
    BY <2>1 DEF SampleInv, HeldInUpdate, VariableTypes, ServingTypeOK
  <2> QED
    BY <1>3, <2>1, <2>2
<1>6. x \in Ids(update.pending) \/ \E k \in Expected : x \in Ids(buffers[k].samples)
  BY BufferedIs DEF Files
<1> QED
  BY <1>4, <1>5, <1>6

\* An update counts every decision it holds once.
LEMMA CountIs ==
    ASSUME VariableTypes, SampleInv, NEW i \in SampleId
    PROVE  Count(update.pending, i) = IF i \in Ids(update.pending) THEN 1 ELSE 0
<1>1. PICK s : s = update.pending
  OBVIOUS
<1>2. Unique(s, {None}) /\ i # None
  BY <1>1, FeedbackAssumption DEF SampleInv, HeldInUpdate, Held
<1>3. PICK S : S = {k \in DOMAIN s : s[k].id = i}
  OBVIOUS
<1>4. Count(s, i) = Cardinality(S)
  BY <1>3 DEF Count
<1>5. CASE i \in Ids(s)
  <2>1. PICK k \in DOMAIN s : s[k].id = i
    BY <1>5, IdsAre
  <2>2. S = {k}
    BY <1>2, <1>3, <2>1 DEF Unique
  <2> QED
    BY <1>1, <1>4, <1>5, <2>2, FS_Singleton
<1>6. CASE i \notin Ids(s)
  <2>1. S = {}
    BY <1>2, <1>3, <1>6, IdsAre
  <2> QED
    BY <1>1, <1>4, <1>6, <2>1, FS_EmptySet
<1> QED
  BY <1>5, <1>6

LEMMA NoneWaits == ASSUME springPendingTrainBatches = <<>> PROVE Waiting = {}
<1>1. Range(<<>>) = {}
  BY DEF Range
<1> QED
  BY <1>1 DEF Waiting

LEMMA NoneWaitsThen == ASSUME springPendingTrainBatches' = <<>> PROVE Waiting' = {}
<1>1. Range(<<>>) = {}
  BY DEF Range
<1> QED
  BY <1>1 DEF Waiting

LEMMA CountStays ==
    ASSUME used' = used, update.pc # "model_saved", update'.pc # "model_saved"
    PROVE  Counted' = Counted
<1>1. InFlight = {} /\ InFlight' = {}
  BY DEF InFlight
<1> QED
  BY <1>1 DEF Counted

LedgerStep == Ledger!LedgerNext \/ UNCHANGED Ledger!ledgerVars

\* The steps of the supervisor: what waits is lost with it.
LEMMA SupervisorLedger ==
    ASSUME RunInv, VariableTypes, SampleInv, Rests \/ Starts \/ Stops \/ Collects
    PROVE  LedgerStep
<1>1. UNCHANGED <<buffers, update, used, interrupted>>
  BY DEF Rests, Starts, Stops, Collects, held
<1>2. UNCHANGED <<Buffered, Counted>>
  BY <1>1 DEF Buffered, Counted, InFlight
<1>3. CASE Rests
  <2>1. Waiting' = Waiting /\ known' = known
    BY <1>3 DEF Rests, Waiting
  <2> QED
    BY <1>1, <1>2, <2>1, LedgerRests DEF LedgerStep
<1>4. CASE Starts
  <2>1. Waiting = {} /\ Waiting' = {} /\ known' = known
    BY <1>4, NoneWaits, NoneWaitsThen DEF Starts, NoMemory, SampleInv, HeldBySupervisor
  <2> QED
    BY <1>1, <1>2, <2>1, LedgerRests DEF LedgerStep
<1>5. CASE Stops
  <2>1. Waiting' = {} /\ known' = known
    BY <1>5, NoneWaitsThen DEF Stops, NoMemory
  <2>2. Waiting \cap Buffered = {}
    BY WaitingApart
  <2>3. PICK L : L = Waiting
    OBVIOUS
  <2>4. PICK H : H = {}
    OBVIOUS
  <2>5. /\ H \in SUBSET Waiting /\ L \in SUBSET (Waiting \cup Buffered)
        /\ Waiting' = Waiting \ (H \cup L) /\ Buffered' = (Buffered \cup H) \ L
    BY <1>2, <2>1, <2>2, <2>3, <2>4
  <2> QED
    BY <1>1, <1>2, <2>1, <2>5, LedgerTransfers DEF LedgerStep
<1>6. CASE Collects
  <2>1. /\ loaded # None /\ springTxBatchSeq < NumBatches /\ execution' = execution
        /\ springPendingTrainBatches' = Enqueued
        /\ known' = known \cup {<<execution, springTxBatchSeq + 1>>}
    BY <1>6 DEF Collects
  <2>2. /\ springTxBatchSeq \in 0 .. NumBatches /\ NumBatches \in Nat
        /\ execution \in 1 .. MaxExecutions /\ springPendingTrainBatches \in Seq(Batch)
    BY <2>1, FeedbackAssumption DEF VariableTypes, MemoryTypes, RunInv, Emulator
  <2>3. PICK i : i = <<execution, springTxBatchSeq + 1>>
    OBVIOUS
  <2>4. i \in SampleId /\ i[1] = execution /\ i[2] = springTxBatchSeq + 1
    BY <2>1, <2>2, <2>3, FeedbackAssumption
  <2>5. i \notin known
    BY <2>1, <2>2, <2>4 DEF SampleInv, Collected
  <2>6. Waiting' = Waiting \cup {i}
    <3> DEFINE new == [id |-> springTxBatchSeq + 1, count |-> 0, first |-> 0]
    <3>1. Range(Append(springPendingTrainBatches, new)) =
            Range(springPendingTrainBatches) \cup {new}
      <4>1. PICK pb : pb = springPendingTrainBatches
        OBVIOUS
      <4>2. PICK q : q = Append(pb, new)
        OBVIOUS
      <4>3. pb \in Seq(Batch) /\ Len(pb) \in Nat /\ DOMAIN pb = 1 .. Len(pb)
        BY <2>2, <4>1
      <4>4. DOMAIN q = 1 .. Len(pb) + 1
        BY <4>2, <4>3
      <4>5. q[Len(pb) + 1] = new /\ \A j \in DOMAIN pb : q[j] = pb[j]
        BY <4>2, <4>3
      <4>6. DOMAIN q = DOMAIN pb \cup {Len(pb) + 1}
        BY <4>3, <4>4
      <4>7. Range(q) = Range(pb) \cup {new}
        BY <4>5, <4>6 DEF Range
      <4> QED
        BY <4>1, <4>2, <4>7
    <3>2. new.id = springTxBatchSeq + 1
      OBVIOUS
    <3>3. springPendingTrainBatches' = Append(springPendingTrainBatches, new)
      BY <2>1 DEF Enqueued
    <3> HIDE DEF new
    <3> QED
      BY <2>1, <2>3, <3>1, <3>2, <3>3 DEF Waiting
  <2> QED
    BY <1>1, <1>2, <2>1, <2>3, <2>4, <2>5, <2>6, LedgerCollects DEF LedgerStep
<1> QED
  BY <1>3, <1>4, <1>5, <1>6

\* Samples that an update takes are handed over; those that no longer wait and
\* were not taken are lost.
LEMMA HandsOverLedger ==
    ASSUME RunInv, VariableTypes, SampleInv, Grown, NEW e \in Epoch, NEW ids, NEW flush,
           NEW input, HandsOver(e, ids, flush, input)
    PROVE  LedgerStep
<1>1. /\ buffers' = buffers /\ used' = used /\ interrupted' = interrupted /\ known' = known
      /\ execution' = execution /\ update.pc = "idle" /\ loaded # None
      /\ input = springBuildOnlineUpdateInput(e, ids, flush)
      /\ springPendingTrainBatches' = input.kept
      /\ \/ update' = Idle
         \/ update' = run_update(loaded.kind, Dim[loaded.kind], SamplesOf(input.ready), flush)
  BY DEF HandsOver, Trains, Idling
<1>2. PICK k : k = loaded.kind
  OBVIOUS
<1>3. PICK s : s = SamplesOf(input.ready)
  OBVIOUS
<1>4. PICK u : u = update'
  OBVIOUS
<1>5. k \in Kind /\ k \in Expected
  BY <1>1, <1>2 DEF RunInv, RunTypes, Emulator, Params, Expected
<1>6. /\ s \in Seq(Sample) /\ Held(k, s)' /\ Ids(s) \cap Ids(buffers[k].samples) = {}
      /\ Ids(s) = {<<execution, b.id>> : b \in Range(input.ready)}
  BY <1>2, <1>3, <1>5, ReadyAre
<1>7. u = Idle \/ NewHeld(u, k, Dim[k], s)
  <2>1. ASSUME u = run_update(k, Dim[k], s, flush)
        PROVE  u = Idle \/ (NewHeld(u, k, Dim[k], s) /\ Held(k, u.pending)')
    BY <1>5, <1>6, <2>1, UpdateHolds DEF SampleInv
  <2> QED
    BY <1>1, <1>2, <1>3, <1>4, <2>1
<1>8. u.pc # "model_saved" /\ Ids(u.pending) \subseteq Ids(buffers[k].samples) \cup Ids(s)
  <2>1. CASE u = Idle
    BY <2>1, NoIds DEF Idle
  <2> QED
    BY <1>7, <2>1 DEF NewHeld
<1>9. Counted' = Counted
  BY <1>1, <1>4, <1>8, CountStays
<1>10. Buffered \subseteq Buffered' /\ Buffered' \subseteq Buffered \cup Ids(s)
  <2>1. update.pending = <<>>
    BY <1>1 DEF SampleInv, HeldInUpdate
  <2>2. Buffered = Files(buffers, Expected) /\ Buffered' = Files(buffers, Expected) \cup Ids(u.pending)
    BY <1>1, <1>4, <2>1, BufferedIs, NoIds
  <2>3. Ids(buffers[k].samples) \subseteq Files(buffers, Expected)
    BY <1>5 DEF Files
  <2> QED
    BY <1>8, <2>2, <2>3
<1>11. /\ Ids(s) \subseteq Waiting /\ Waiting' \subseteq Waiting /\ Waiting' \cap Ids(s) = {}
  <2>1. PICK r : r = input.ready
    OBVIOUS
  <2>2. PICK w : w = input.kept
    OBVIOUS
  <2>3. PICK pb : pb = springPendingTrainBatches
    OBVIOUS
  <2>4. e \in Nat /\ pb \in Seq(Batch) /\ Unique(pb, {})
    BY <2>3, FeedbackAssumption DEF VariableTypes, MemoryTypes, SampleInv, HeldBySupervisor
  <2>5. /\ \A i \in DOMAIN r : \E x \in DOMAIN pb : r[i].id = pb[x].id
        /\ \A i \in DOMAIN w : \E x \in DOMAIN pb : w[i].id = pb[x].id
        /\ \A i \in DOMAIN r, j \in DOMAIN w : r[i].id # w[j].id
    <3>1. /\ \A i \in DOMAIN r : \E x \in DOMAIN springPendingTrainBatches :
               Untrained(x) /\ NamedAfter(r[i], x)
          /\ \A i \in DOMAIN w : \E x \in DOMAIN springPendingTrainBatches :
               Untrained(x) /\ NamedAfter(w[i], x)
          /\ \A i \in DOMAIN r, j \in DOMAIN w : r[i].id # w[j].id
      BY <1>1, <2>1, <2>2, <2>3, <2>4, InputIs
    <3> QED
      BY <2>3, <3>1 DEF NamedAfter
  <2>6. PICK x : x = execution
    OBVIOUS
  <2>7. /\ Waiting = {<<x, pb[i].id>> : i \in DOMAIN pb}
        /\ Waiting' = {<<x, w[i].id>> : i \in DOMAIN w}
        /\ Ids(s) = {<<x, r[i].id>> : i \in DOMAIN r}
    BY <1>1, <1>6, <2>1, <2>2, <2>3, <2>6 DEF Waiting, Range
  <2> QED
    BY <2>5, <2>7
<1>12. Waiting \cap Buffered = {}
  BY WaitingApart
<1>13. PICK H : H = Buffered' \ Buffered
  OBVIOUS
<1>14. PICK L : L = Waiting \ (Waiting' \cup H)
  OBVIOUS
<1>15. /\ H \in SUBSET Waiting /\ L \in SUBSET (Waiting \cup Buffered)
       /\ Waiting' = Waiting \ (H \cup L)
  BY <1>10, <1>11, <1>13, <1>14
<1>16. Buffered' = (Buffered \cup H) \ L
  BY <1>10, <1>12, <1>13, <1>14
<1> QED
  BY <1>1, <1>9, <1>15, <1>16, LedgerTransfers DEF LedgerStep

\* An update by hand takes no sample of the supervisor.
LEMMA HandUpdateLedger ==
    ASSUME RunInv, VariableTypes, SampleInv, Grown, NEW d \in HandDim, NEW flush,
           HandUpdate(d, flush)
    PROVE  LedgerStep
<1>1. /\ update.pc = "idle" /\ update.pending = <<>>
      /\ buffers' = buffers /\ used' = used /\ interrupted' = interrupted /\ known' = known
      /\ execution' = execution /\ springPendingTrainBatches' = springPendingTrainBatches
  BY DEF HandUpdate, Idling, fileVars, feedbackVars, memoryVars, SampleInv, HeldInUpdate
<1>2. PICK u : u = update'
  OBVIOUS
<1>3. u = Idle \/ NewHeld(u, None, d, <<>>)
  BY <1>2, HandUpdateHolds
<1>4. u.pc # "model_saved" /\ Ids(u.pending) \subseteq Ids(buffers[None].samples)
  <2>1. CASE u = Idle
    BY <2>1, NoIds DEF Idle
  <2> QED
    BY <1>3, <2>1, NoIds DEF NewHeld
<1>5. Counted' = Counted
  BY <1>1, <1>2, <1>4, CountStays
<1>6. Buffered' = Buffered
  <2>1. None \in Expected
    BY DEF Expected
  <2>2. Ids(buffers[None].samples) \subseteq Files(buffers, Expected)
    BY <2>1 DEF Files
  <2> QED
    BY <1>1, <1>2, <1>4, <2>2, BufferedIs, NoIds
<1>7. Waiting' = Waiting
  BY <1>1 DEF Waiting
<1> QED
  BY <1>1, <1>5, <1>6, <1>7, LedgerRests DEF LedgerStep

\* The writes of an update: its samples stay buffered until they are removed, or
\* until it dies.
LEMMA WritesLedger ==
    ASSUME VariableTypes, SampleInv, Writes PROVE LedgerStep
<1> DEFINE e == update.expected
           O == Files(buffers, Expected \ {e})
           F == Ids(buffers[e].samples)
           P == Ids(update.pending)
<1>1. /\ buffers \in [Expected -> SampleFile] /\ e \in Expected /\ update.pc # "idle"
      /\ DOMAIN update = {"pc", "expected", "dim", "pending"}
      /\ used \in [SampleId -> Nat]
  <2>1. update.pc # "idle"
    BY DEF Writes, UpdateStep, UpdateDies, OpenBuffer, WriteBuffer, OpenModel, WriteModel,
           ClearBuffer
  <2> QED
    BY <2>1 DEF VariableTypes, ServingTypeOK
<1>2. F \subseteq P /\ O \cap P = {}
  BY <1>1, FilesApart DEF SampleInv, HeldInUpdate
<1>3. Buffered = O \cup F \cup P
  BY <1>1, BufferedIs, Split
<1>4. Waiting' = Waiting /\ known' = known /\ Waiting \cap Buffered = {}
  BY WaitingApart DEF Writes, feedbackVars, memoryVars, Waiting
<1>5. \A b : buffers' = [buffers EXCEPT ![e] = b] =>
               Files(buffers', Expected) = O \cup Ids(b.samples)
  <2> SUFFICES ASSUME NEW b, buffers' = [buffers EXCEPT ![e] = b]
               PROVE  Files(buffers', Expected) = O \cup Ids(b.samples)
    OBVIOUS
  <2>1. PICK B : B = buffers'
    OBVIOUS
  <2>2. B[e] = b /\ \A k \in Expected \ {e} : B[k] = buffers[k]
    BY <1>1, <2>1
  <2>3. Files(B, Expected \ {e}) = O
    BY <2>2 DEF Files
  <2>4. PICK f : f = e
    OBVIOUS
  <2>5. Files(B, Expected) = Files(B, Expected \ {f}) \cup Ids(B[f].samples)
    BY <1>1, <2>4, Split
  <2> QED
    BY <2>1, <2>2, <2>3, <2>4, <2>5
<1>6. PICK p : p = P
  OBVIOUS
<1>7. PICK o : o = O
  OBVIOUS
<1> HIDE DEF O, F, P
<1>8. CASE OpenBuffer
  <2>1. PICK b : /\ b.samples = <<>> /\ buffers' = [buffers EXCEPT ![e] = b]
                 /\ \/ update' = Idle /\ update.pending = <<>>
                    \/ update' = [update EXCEPT !.pc = "buffer_open"]
    <3>1. NoFile.samples = <<>> /\ [NoFile EXCEPT !.state = "torn"].samples = <<>>
      BY DEF NoFile
    <3> QED
      BY <1>8, <3>1, Zenon DEF OpenBuffer
  <2>2. update'.pc # "model_saved" /\ update'.pending = update.pending
    BY <1>1, <2>1 DEF Idle
  <2>3. Buffered' = O \cup P
    BY <1>5, <2>1, <2>2, BufferedIs, NoIds DEF P
  <2>4. update.pc # "model_saved" /\ used' = used /\ interrupted' = interrupted
    BY <1>8 DEF OpenBuffer
  <2> QED
    BY <1>2, <1>3, <1>4, <2>2, <2>3, <2>4, CountStays, LedgerRests DEF LedgerStep
<1>9. CASE WriteBuffer
  <2>1. /\ update.pc # "model_saved" /\ used' = used /\ interrupted' = interrupted
        /\ buffers' = [buffers EXCEPT ![e] =
             [state |-> "whole", dim |-> update.dim, samples |-> update.pending]]
        /\ update'.pc # "model_saved" /\ update'.pending = <<>>
    BY <1>9 DEF WriteBuffer, Idle
  <2>2. Buffered' = O \cup P
    <3>1. PICK b : b = [state |-> "whole", dim |-> update.dim, samples |-> update.pending]
      OBVIOUS
    <3>2. b.samples = update.pending
      BY <3>1
    <3>3. Files(buffers', Expected) = O \cup Ids(b.samples)
      BY <1>5, <2>1, <3>1
    <3> QED
      BY <2>1, <3>2, <3>3, BufferedIs, NoIds DEF P
  <2> QED
    BY <1>2, <1>3, <1>4, <2>1, <2>2, CountStays, LedgerRests DEF LedgerStep
<1>10. CASE OpenModel
  <2>1. /\ update.pc # "model_saved" /\ used' = used /\ interrupted' = interrupted
        /\ buffers' = buffers
        /\ \E pc : pc # "model_saved" /\ update' = [update EXCEPT !.pc = pc]
    BY <1>10 DEF OpenModel
  <2>2. update'.pending = update.pending /\ update'.pc # "model_saved"
    BY <1>1, <2>1
  <2>3. Buffered' = Buffered
    BY <2>1, <2>2, BufferedIs
  <2> QED
    BY <1>4, <2>1, <2>2, <2>3, CountStays, LedgerRests DEF LedgerStep
<1>11. CASE WriteModel
  <2>1. /\ update.pc # "model_saved" /\ interrupted' = interrupted /\ buffers' = buffers
        /\ used' = [i \in SampleId |-> used[i] + Count(update.pending, i)]
        /\ update' = [update EXCEPT !.pc = "model_saved"]
    BY <1>11 DEF WriteModel
  <2>2. update'.pending = update.pending /\ update'.pc = "model_saved"
    BY <1>1, <2>1
  <2>3. Buffered' = Buffered
    BY <2>1, <2>2, BufferedIs
  <2>4. InFlight = {} /\ InFlight' = p
    BY <1>6, <2>1, <2>2 DEF InFlight, P
  <2>5. ASSUME NEW i \in SampleId
        PROVE  used'[i] - (IF i \in p THEN 1 ELSE 0) = used[i]
    <3>1. Count(update.pending, i) = IF i \in p THEN 1 ELSE 0
      BY <1>6, CountIs DEF P
    <3>2. used'[i] = used[i] + Count(update.pending, i) /\ used[i] \in Nat
      BY <1>1, <2>1
    <3> QED
      BY <3>1, <3>2
  <2>6. \A i \in SampleId : used[i] - 0 = used[i]
    BY <1>1
  <2>7. Counted' = Counted
    <3>1. Counted' = [i \in SampleId |-> used'[i] - IF i \in p THEN 1 ELSE 0]
      BY <2>4, Zenon DEF Counted
    <3>2. Counted = [i \in SampleId |-> used[i] - IF i \in {} THEN 1 ELSE 0]
      BY <2>4, Zenon DEF Counted
    <3>3. Counted = [i \in SampleId |-> used[i]]
      BY <1>1, <3>2
    <3> QED
      BY <2>5, <3>1, <3>3
  <2> QED
    BY <1>4, <2>1, <2>3, <2>7, LedgerRests DEF LedgerStep
<1>12. ASSUME update.pc = "model_saved", update' = Idle, used' = used
       PROVE  Counted' = [i \in SampleId |-> IF i \in p THEN Counted[i] + 1 ELSE Counted[i]]
  <2>1. InFlight = p /\ InFlight' = {}
    BY <1>6, <1>12 DEF InFlight, P, Idle
  <2>2. Counted' = [i \in SampleId |-> used[i] - IF i \in {} THEN 1 ELSE 0]
    BY <1>12, <2>1, Zenon DEF Counted
  <2>3. \A i \in SampleId : Counted[i] = used[i] - IF i \in p THEN 1 ELSE 0
    BY <2>1 DEF Counted
  <2>4. \A i \in SampleId : used[i] = IF i \in p THEN Counted[i] + 1 ELSE Counted[i]
    BY <1>1, <2>3
  <2>5. \A i \in SampleId : used[i] - (IF i \in {} THEN 1 ELSE 0) = used[i]
    BY <1>1
  <2> QED
    BY <2>2, <2>4, <2>5
<1>13. CASE ClearBuffer
  <2>1. /\ update.pc = "model_saved" /\ update' = Idle /\ used' = used
        /\ interrupted' = interrupted /\ buffers' = [buffers EXCEPT ![e] = NoFile]
    BY <1>13 DEF ClearBuffer
  <2>2. Buffered' = O
    <3>1. Files(buffers', Expected) = O \cup Ids(NoFile.samples)
      BY <1>5, <2>1, Zenon
    <3>2. NoFile.samples = <<>> /\ update'.pending = <<>>
      BY <2>1 DEF NoFile, Idle
    <3> QED
      BY <3>1, <3>2, BufferedIs, NoIds
  <2>3. p \in SUBSET Buffered /\ Buffered' = Buffered \ p
    BY <1>2, <1>3, <1>6, <2>2
  <2> QED
    BY <1>4, <1>12, <2>1, <2>3, LedgerUpdates DEF LedgerStep
<1>14. CASE UpdateDies
  <2>1. /\ update' = Idle /\ used' = used /\ buffers' = buffers
        /\ interrupted' = IF update.pc = "model_saved" THEN interrupted + 1 ELSE interrupted
    BY <1>14 DEF UpdateDies
  <2>2. Buffered' = O \cup F
    BY <1>1, <2>1, BufferedIs, Split, NoIds DEF O, F, Idle
  <2>3. CASE update.pc = "model_saved"
    <3>1. PICK left : left = F
      OBVIOUS
    <3>2. /\ p \in SUBSET Buffered /\ left \in SUBSET p
          /\ Buffered' = (Buffered \ p) \cup left /\ interrupted' = interrupted + 1
      BY <1>2, <1>3, <1>6, <2>1, <2>2, <2>3, <3>1
    <3> QED
      BY <1>4, <1>12, <2>1, <2>3, <3>2, LedgerIsCut DEF LedgerStep
  <2>4. CASE update.pc # "model_saved"
    <3>1. Counted' = Counted /\ interrupted' = interrupted
      BY <2>1, <2>4, CountStays DEF Idle
    <3>2. PICK L : L = Buffered \ Buffered'
      OBVIOUS
    <3>3. PICK H : H = {}
      OBVIOUS
    <3>4. /\ H \in SUBSET Waiting /\ L \in SUBSET (Waiting \cup Buffered)
          /\ Waiting' = Waiting \ (H \cup L) /\ Buffered' = (Buffered \cup H) \ L
      BY <1>3, <1>4, <2>2, <3>2, <3>3
    <3> QED
      BY <1>4, <3>1, <3>4, LedgerTransfers DEF LedgerStep
  <2> QED
    BY <2>3, <2>4
<1> QED
  BY <1>8, <1>9, <1>10, <1>11, <1>13, <1>14 DEF Writes, UpdateStep

LEMMA LedgerStarts == RunsInit => Ledger!LedgerInit
<1> SUFFICES ASSUME RunsInit PROVE Ledger!LedgerInit
  OBVIOUS
<1>1. /\ buffers = [k \in Expected |-> NoFile] /\ update = Idle /\ known = {}
      /\ springPendingTrainBatches = <<>> /\ interrupted = 0
      /\ used = [i \in SampleId |-> 0]
  BY DEF RunsInit, FeedbackInit, ServingInit
<1>2. Waiting = {}
  BY <1>1, NoneWaits
<1>3. Buffered = {}
  <2>1. \A k \in Expected : Ids(buffers[k].samples) = {}
    BY <1>1, NoIds DEF NoFile
  <2>2. Files(buffers, Expected) = {}
    BY <2>1 DEF Files
  <2>3. update.pending = <<>>
    BY <1>1 DEF Idle
  <2> QED
    BY <2>2, <2>3, NoIds, BufferedIs
<1>4. Counted = [i \in SampleId |-> 0]
  <2>1. InFlight = {}
    BY <1>1 DEF InFlight, Idle
  <2>2. Counted = [i \in SampleId |-> used[i] - IF i \in {} THEN 1 ELSE 0]
    BY <2>1, Zenon DEF Counted
  <2> QED
    BY <1>1, <2>2
<1> QED
  BY <1>1, <1>2, <1>3, <1>4, Zenon DEF Ledger!LedgerInit, Waiting, Buffered, Counted

LEMMA LedgerSteps ==
    ASSUME RunInv, VariableTypes, SampleInv, [RunsNext]_vars PROVE LedgerStep
<1>1. Grown
  BY RunsGrow
<1>2. ASSUME NEW e \in Epoch, NEW ids, NEW flush, NEW input, HandsOver(e, ids, flush, input)
      PROVE  LedgerStep
  BY <1>1, <1>2, HandsOverLedger
<1>3. ASSUME NEW d \in HandDim, NEW flush, HandUpdate(d, flush) PROVE LedgerStep
  BY <1>1, <1>3, HandUpdateLedger
<1> QED
  BY <1>2, <1>3, SupervisorLedger, WritesLedger, StepShapes, Zenon

\* Online training keeps the promise of SampleLedger, for any number of shards,
\* batches, executions and configurations: a decision is handed to an update once,
\* and is learnt from once unless an update died between saving its model and
\* removing its samples (HandleBlockInfo, run_update).
THEOREM TrainingIsALedger == RunsSpec => ImplementsLedger
<1>1. RunsInit => RunInv /\ VariableTypes /\ SampleInv
  BY RunStarts, TypesStart, SamplesStart
<1>2. RunInv /\ VariableTypes /\ SampleInv /\ [RunsNext]_vars
        => (RunInv /\ VariableTypes /\ SampleInv)'
  BY RunSteps, TypesStay, SamplesStay
<1>3. RunInv /\ VariableTypes /\ SampleInv /\ [RunsNext]_vars
        => [Ledger!LedgerNext]_(Ledger!ledgerVars)
  BY LedgerSteps DEF LedgerStep
<1>4. RunsInit => Ledger!LedgerInit
  BY LedgerStarts
<1> QED
  BY <1>1, <1>2, <1>3, <1>4, PTL DEF RunsSpec, ImplementsLedger, Ledger!LedgerSpec

=============================================================================
