--------------------------- MODULE ExperimentRuns ---------------------------
(* Experiments on the chain: prepare_block_run.py and prepare_baseline_run.py *)
(* set up a run directory and the one parameter file, the emulator is started *)
(* by hand with that file, and finalize_exp8_block_run.py archives its        *)
(* records, checks them and marks the run complete.  In between the user may  *)
(* edit the parameters, restart or kill the emulator, train online, and use   *)
(* the tools by hand, one thing at a time.                                    *)
EXTENDS OnlineFeedback

CONSTANTS
    Run,
    RunKind,        \* the configuration of the model of each run
    Trials,         \* parameters that the user writes by hand
    HandDim         \* state dimensions of samples that the user trains by hand

ASSUME RunAssumption ==
    /\ RunKind \in [Run -> Kind]
    /\ Trials \subseteq [run : {None}, kind : Kind, train : BOOLEAN]
    /\ HandDim \subseteq Nat
    /\ None \notin Run /\ None # "finalize"
    /\ \A A \in SUBSET (1 .. MaxExecutions) : A # None

VARIABLES
    params,         \* paramsConfig.json
    runs,           \* the run directories
    tool,           \* the script that is working, and on which run
    executed,       \* the parameters of each execution
    done            \* executions that have sent all their transactions

runVars == <<params, runs, tool, executed, done>>
vars == <<servingVars, feedbackVars, runVars>>

Params == [run : Run \cup {None}, kind : Kind, train : BOOLEAN]
NoRun == [stage |-> "none", snapshot |-> None, archive |-> None, complete |-> FALSE]
NoTool == [name |-> None, run |-> None]

\* Wrong variant of running_block_emulator_processes: nothing is found.
no_processes == FALSE

\* The process list of Windows, where the emulator runs.
running_block_emulator_processes == loaded # None

-----------------------------------------------------------------------------
(* Preparation.                                                             *)

\* build_proposed_config and build_baseline_config: both overwrite the
\* parameters that matter here, online training among them.
build_proposed_config(r) == [run |-> r, kind |-> RunKind[r], train |-> FALSE]
build_baseline_config(r) == [run |-> r, kind |-> RunKind[r], train |-> FALSE]

\* ensure_clean_runtime_directory
ensure_clean_runtime_directory == spring_io = {}

\* What both scripts do up to the snapshot: with no emulator, an empty spring_io,
\* a model file and a new run directory, the configuration is written.
Configure(name, r, config) ==
    /\ tool = NoTool
    /\ ~running_block_emulator_processes
    /\ ensure_clean_runtime_directory
    /\ model.state # "absent"
    /\ runs[r].stage = "none"
    /\ params' = config
    /\ runs' = [runs EXCEPT ![r] = [NoRun EXCEPT !.stage = "configured",
                                                 !.snapshot = config]]
    /\ tool' = [name |-> name, run |-> r]
    /\ UNCHANGED <<servingVars, feedbackVars, executed, done>>

\* main of prepare_block_run and of prepare_baseline_run, for the baseline that
\* has a model: a run of the proposed scheme, and one of the original.
PrepareRun(r) == Configure("prepare", r, build_proposed_config(r))
PrepareBaseline(r) == Configure("prepare_baseline", r, build_baseline_config(r))

\* The workload profile, the manifest and at last run_context.json; a window or
\* a file that does not fit is an error, and the directory is left half done.
FinishPrepare(ok) ==
    /\ tool.name \in {"prepare", "prepare_baseline"}
    /\ runs' = [runs EXCEPT ![tool.run].stage = IF ok THEN "prepared" ELSE "configured"]
    /\ tool' = NoTool
    /\ UNCHANGED <<servingVars, feedbackVars, params, executed, done>>

-----------------------------------------------------------------------------
(* Execution.                                                               *)

\* The emulator reads the parameters at its start.
StartRun ==
    /\ tool = NoTool
    /\ StartSupervisor(params)
    /\ executed' = [executed EXCEPT ![execution'] = params]
    /\ UNCHANGED <<params, runs, tool, done>>

\* A step of the emulator and its processes.
EmulatorStep ==
    /\ FeedbackStep \/ SupervisorStops
    /\ done' = IF springTxBatchSeq' = NumBatches THEN done \cup {execution} ELSE done
    /\ UNCHANGED <<params, runs, tool, executed>>

-----------------------------------------------------------------------------
(* Finalization.                                                            *)

\* ensure_run_root and the comparison with the snapshot.
BelongsTo(r) ==
    /\ runs[r].stage = "prepared"
    /\ params.run = r
    /\ params = runs[r].snapshot

\* main of finalize_exp8_block_run up to archive_spring_io: records are moved
\* into the run directory, and never mixed with archived ones.
ArchiveRun(r) ==
    /\ tool = NoTool
    /\ BelongsTo(r)
    /\ ~running_block_emulator_processes
    /\ \/ runs[r].archive = None
          /\ runs' = [runs EXCEPT ![r].archive = spring_io]
          /\ spring_io' = {}
       \/ runs[r].archive # None /\ spring_io = {}
          /\ UNCHANGED <<runs, spring_io>>
    /\ tool' = [name |-> "finalize", run |-> r]
    /\ UNCHANGED <<servingVars, loaded, execution, memoryVars, served, known, params,
                   executed, done>>

\* require_executed_state_test and validate_analysis_integrity: the results in
\* the run directory must hold every transaction, which takes an execution of
\* this run that has sent everything.
validate_analysis_integrity(r) == \E x \in done : executed[x].run = r

\* The final state is tested and the records are analysed; both may fail all
\* the same.  A failure leaves an earlier mark as it is.
FinishFinalize(passed) ==
    /\ tool.name = "finalize"
    /\ passed => validate_analysis_integrity(tool.run)
    /\ runs' = [runs EXCEPT ![tool.run].complete = @ \/ passed]
    /\ tool' = NoTool
    /\ UNCHANGED <<servingVars, feedbackVars, params, executed, done>>

-----------------------------------------------------------------------------
(* The user.                                                                *)

\* The parameters are edited, for online training or a trial of a model, which
\* keeps its results outside of the run directories.  A running emulator does
\* not read them again.
EditParams(trial) ==
    /\ tool = NoTool
    /\ loaded = None /\ Idling
    /\ params' = trial
    /\ UNCHANGED <<servingVars, feedbackVars, runs, tool, executed, done>>

\* The records of such a trial are thrown away.
CleanIO ==
    /\ tool = NoTool
    /\ loaded = None /\ Idling /\ params.run = None
    /\ spring_io' = {}
    /\ UNCHANGED <<servingVars, loaded, execution, memoryVars, served, known, runVars>>

UseTools ==
    /\ tool = NoTool
    /\ (\E dim \in HandDim, flush \in BOOLEAN : HandUpdate(dim, flush)) \/ HandInfer
    /\ UNCHANGED runVars

RunsInit ==
    /\ FeedbackInit
    /\ params \in Trials
    /\ runs = [r \in Run |-> NoRun]
    /\ tool = NoTool
    /\ executed = [x \in 1 .. MaxExecutions |-> None]
    /\ done = {}

RunsNext ==
    \/ \E r \in Run : PrepareRun(r) \/ PrepareBaseline(r)
    \/ \E ok \in BOOLEAN : FinishPrepare(ok)
    \/ StartRun
    \/ EmulatorStep
    \/ \E r \in Run : ArchiveRun(r)
    \/ \E passed \in BOOLEAN : FinishFinalize(passed)
    \/ \E trial \in Trials : EditParams(trial)
    \/ CleanIO
    \/ UseTools

RunsSpec == RunsInit /\ [][RunsNext]_vars

-----------------------------------------------------------------------------
(* Properties.                                                              *)

TypeOK ==
    /\ FeedbackTypeOK
    /\ loaded \in Params \cup {None}
    /\ params \in Params
    /\ runs \in [Run -> [stage : {"none", "configured", "prepared"},
                         snapshot : Params \cup {None},
                         archive : (SUBSET (1 .. MaxExecutions)) \cup {None},
                         complete : BOOLEAN]]
    /\ executed \in [1 .. MaxExecutions -> Params \cup {None}]
    /\ done \subseteq 1 .. MaxExecutions

\* A complete run is what it says: its archive holds records of executions with
\* the parameters of its snapshot and of no other, all the records of these,
\* and one of them has sent all its transactions; restarts, edited parameters
\* and records of other runs do not get into it (prepare, ensure_run_root,
\* archive_spring_io).
CompleteIsTrue ==
    \A r \in Run : runs[r].complete =>
        /\ \A x \in runs[r].archive : /\ executed[x] = runs[r].snapshot
                                      /\ x \notin spring_io
        /\ runs[r].archive \cap done # {}

=============================================================================
