--------------------------- MODULE OnlineFeedback ---------------------------
(* The supervisor's side of the policy: it asks the inference server where to *)
(* put the new addresses of a batch, keeps the decisions of the batch until   *)
(* enough block reports about it have come in, and then hands them to         *)
(* update_online.py (committee_relay.go, spring_train.go, spring_call.go).    *)
(*                                                                            *)
(* Placement and block reports take springLock, and the update is called with *)
(* the lock held, so nothing else happens in the supervisor while it runs;    *)
(* the processes may die all the same.  The decisions of a batch are one      *)
(* sample, <<execution, batch>>.                                              *)
EXTENDS PolicyServing

CONSTANTS
    Shard,
    NumBatches,                     \* batches of an execution
    Epoch,                          \* epochs that are reported
    springPendingFeedbackTTL,
    springFeedbackAggregateWindow,
    springMaxTrainFeedbackMatches,
    KeepEpochs,                     \* epochs that are remembered, 10 in the code
    MaxExecutions

ASSUME FeedbackAssumption ==
    /\ Shard # {} /\ Epoch \subseteq Nat
    /\ NumBatches \in Nat \ {0} /\ KeepEpochs \in Nat /\ MaxExecutions \in Nat
    /\ {springPendingFeedbackTTL, springFeedbackAggregateWindow,
        springMaxTrainFeedbackMatches} \subseteq Nat \ {0}
    /\ SampleId = (1 .. MaxExecutions) \X (1 .. NumBatches) /\ None \notin SampleId

VARIABLES
    loaded,         \* configuration of the running supervisor, or None
    execution,      \* number of the last execution
    springTxBatchSeq,
    springPendingTrainBatches,
    springTrainedBatchIDs,
    springEpochFeedback,
    springRewardedEpoch,
    spring_io,      \* executions with records in the directory spring_io
    served,         \* history: the version that decided the last batch, or None
    known           \* history: samples collected so far

memoryVars == <<springTxBatchSeq, springPendingTrainBatches, springTrainedBatchIDs,
                springEpochFeedback, springRewardedEpoch>>
feedbackVars == <<loaded, execution, memoryVars, spring_io, served, known>>

Idling == update.pc = "idle"
NoReports == [from |-> {}, ids |-> {}, effective |-> FALSE]

-----------------------------------------------------------------------------
(* Start and end of the supervisor.                                         *)

\* The state of a new supervisor, and of one that is not there.
NoMemory ==
    /\ springTxBatchSeq' = 0
    /\ springPendingTrainBatches' = <<>>
    /\ springTrainedBatchIDs' = {}
    /\ springEpochFeedback' = [e \in Epoch |-> NoReports]
    /\ springRewardedEpoch' = {}
    /\ served' = None
    /\ cache' = None

\* v3 is not started with online training (ReadConfigFile).
StartSupervisor(config) ==
    /\ loaded = None
    /\ Idling
    /\ execution < MaxExecutions
    /\ ~(IsV3(config.kind) /\ config.train)
    /\ loaded' = config
    /\ execution' = execution + 1
    /\ NoMemory
    /\ UNCHANGED <<fileVars, update, used, interrupted, spring_io, known>>

\* The supervisor has finished, is killed, or panics; its inference server ends
\* with it.
Stopped ==
    /\ loaded' = None
    /\ NoMemory
    /\ UNCHANGED <<fileVars, update, used, interrupted, execution, spring_io, known>>
SupervisorStops == loaded # None /\ Idling /\ Stopped

-----------------------------------------------------------------------------
(* Placement of a batch.                                                    *)

\* Wrong variant of Enqueued: the number of the next batch.
EnqueuedNext == Append(springPendingTrainBatches,
                       [id |-> springTxBatchSeq + 2, count |-> 0, first |-> 0])

\* springEnqueueTrainActionsLocked
Enqueued == Append(springPendingTrainBatches,
                   [id |-> springTxBatchSeq + 1, count |-> 0, first |-> 0])

\* springPreparePlacement, for a batch whose new addresses are decided by the
\* model, for one without new addresses (never the first one: a new supervisor
\* knows no address), and for one where the inference server has died.  A model
\* that is not there, or not the expected one, is a panic; a dead server is one
\* for v3 only, otherwise a heuristic decides and nothing is learnt from it.
PlaceByModel ==
    /\ loaded # None /\ Idling
    /\ springTxBatchSeq < NumBatches
    /\ LET answer == infer_items(loaded.kind, loaded.train)
       IN IF answer.source = "error" THEN Stopped
          ELSE /\ model' = answer.model
               /\ cache' = answer.cache
               /\ served' = answer.version
               /\ springTxBatchSeq' = springTxBatchSeq + 1
               /\ spring_io' = spring_io \cup {execution}
               /\ IF loaded.train
                  THEN /\ springPendingTrainBatches' = Enqueued
                       /\ known' = known \cup {<<execution, springTxBatchSeq + 1>>}
                  ELSE UNCHANGED <<springPendingTrainBatches, known>>
               /\ UNCHANGED <<buffers, update, used, interrupted, loaded, execution,
                              springTrainedBatchIDs, springEpochFeedback,
                              springRewardedEpoch>>
PlaceNothing ==
    /\ loaded # None /\ Idling
    /\ springTxBatchSeq \in 1 .. NumBatches - 1
    /\ springTxBatchSeq' = springTxBatchSeq + 1
    /\ served' = None
    /\ UNCHANGED <<servingVars, loaded, execution, springPendingTrainBatches,
                   springTrainedBatchIDs, springEpochFeedback, springRewardedEpoch,
                   spring_io, known>>
PlaceByHeuristic ==
    /\ loaded # None /\ Idling
    /\ springTxBatchSeq < NumBatches
    /\ IF IsV3(loaded.kind) THEN Stopped
       ELSE /\ springTxBatchSeq' = springTxBatchSeq + 1
            /\ served' = None
            /\ cache' = None
            /\ spring_io' = spring_io \cup {execution}
            /\ UNCHANGED <<fileVars, update, used, interrupted, loaded, execution,
                           springPendingTrainBatches, springTrainedBatchIDs,
                           springEpochFeedback, springRewardedEpoch, known>>

-----------------------------------------------------------------------------
(* Block reports.                                                           *)

\* A batch counts the epochs that report its transactions, up to a limit.
Matched(batch, e, targets) ==
    IF batch.id \in targets /\ batch.count < springMaxTrainFeedbackMatches
    THEN [batch EXCEPT !.count = @ + 1, !.first = IF batch.count = 0 THEN e ELSE @]
    ELSE batch

springBatchReadyForTraining(batch, e, flush) ==
    /\ batch.count > 0
    /\ \/ flush
       \/ batch.count >= springMaxTrainFeedbackMatches
       \/ e - batch.first >= springFeedbackAggregateWindow

\* springPrunePendingTrainBatchesLocked: without reports, the age of a batch is
\* the epoch less the number of the batch.
Expired(batch, e) ==
    \/ batch.count > 0
       /\ e - batch.first > springPendingFeedbackTTL + springFeedbackAggregateWindow
    \/ batch.count = 0 /\ e - batch.id > springPendingFeedbackTTL

\* springBuildOnlineUpdateInputLocked: the batches that are ready, and those
\* that wait on.
springBuildOnlineUpdateInput(e, ids, flush) ==
    LET targets == ids \ springTrainedBatchIDs
        open    == Kept(springPendingTrainBatches,
                        {i \in DOMAIN springPendingTrainBatches :
                            springPendingTrainBatches[i].id \notin springTrainedBatchIDs})
        matched == [i \in DOMAIN open |-> Matched(open[i], e, targets)]
        Ready   == {i \in DOMAIN matched : springBatchReadyForTraining(matched[i], e, flush)}
    IN [ready |-> Kept(matched, Ready),
        kept  |-> Kept(matched, {i \in DOMAIN matched \ Ready : ~Expired(matched[i], e)})]

\* The reward of an epoch is known.  Batches that are ready count as trained
\* before the update runs.
Reward(e, entry, flush) ==
    /\ springEpochFeedback' = [x \in Epoch |->
            IF x = e \/ x < e - KeepEpochs THEN NoReports ELSE springEpochFeedback[x]]
    /\ springRewardedEpoch' = {x \in springRewardedEpoch \cup {e} : x >= e - KeepEpochs}
    /\ spring_io' = IF entry.effective THEN spring_io \cup {execution} ELSE spring_io
    /\ IF ~entry.effective \/ ~loaded.train
       THEN UNCHANGED <<springPendingTrainBatches, springTrainedBatchIDs, update>>
       ELSE LET input   == springBuildOnlineUpdateInput(e, entry.ids, flush)
                samples == [i \in DOMAIN input.ready |->
                              [id |-> <<execution, input.ready[i].id>>,
                               dim |-> Dim[loaded.kind]]]
            IN /\ springPendingTrainBatches' = input.kept
               /\ springTrainedBatchIDs' =
                    springTrainedBatchIDs \cup {b.id : b \in Range(input.ready)}
               /\ update' = IF samples = <<>> THEN Idle
                            ELSE run_update(loaded.kind, Dim[loaded.kind], samples, flush)

\* HandleBlockInfo: the report of a shard about an epoch, with the batches of
\* its transactions, which only training looks at; effective if any of them is
\* a first stage.  flush is set when the data have been read to their end,
\* which is before the last batch is placed.
HandleBlockInfo(s, e, ids, effective, flush) ==
    /\ loaded # None /\ Idling
    /\ e \notin springRewardedEpoch
    /\ s \notin springEpochFeedback[e].from
    /\ ids # {} => effective
    /\ springTxBatchSeq = NumBatches => flush
    /\ flush => springTxBatchSeq >= NumBatches - 1
    /\ LET old   == springEpochFeedback[e]
           entry == [from |-> old.from \cup {s},
                     ids |-> IF loaded.train THEN old.ids \cup ids ELSE {},
                     effective |-> old.effective \/ effective]
       IN IF entry.from = Shard THEN Reward(e, entry, flush)
          ELSE /\ springEpochFeedback' = [springEpochFeedback EXCEPT ![e] = entry]
               /\ UNCHANGED <<springRewardedEpoch, spring_io, springPendingTrainBatches,
                              springTrainedBatchIDs, update>>
    /\ UNCHANGED <<fileVars, cache, used, interrupted, loaded, execution,
                   springTxBatchSeq, served, known>>

FeedbackStep ==
    \/ PlaceByModel \/ PlaceNothing \/ PlaceByHeuristic
    \/ \E s \in Shard, e \in Epoch, ids \in SUBSET (1 .. springTxBatchSeq),
          effective \in BOOLEAN, flush \in BOOLEAN :
            HandleBlockInfo(s, e, ids, effective, flush)
    \/ (UpdateStep \/ UpdateDies) /\ UNCHANGED feedbackVars

\* A user runs update_online.py by hand, on samples without configuration, or
\* infer_batch.py, when nothing else runs.
HandUpdate(dim, flush) ==
    /\ loaded = None /\ Idling
    /\ update' = run_update(None, dim, <<[id |-> None, dim |-> dim]>>, flush)
    /\ UNCHANGED <<fileVars, cache, used, interrupted, feedbackVars>>
HandInfer == loaded = None /\ InferBatch /\ UNCHANGED feedbackVars

FeedbackInit ==
    /\ ServingInit
    /\ loaded = None /\ execution = 0
    /\ springTxBatchSeq = 0 /\ springPendingTrainBatches = <<>>
    /\ springTrainedBatchIDs = {} /\ springRewardedEpoch = {}
    /\ springEpochFeedback = [e \in Epoch |-> NoReports]
    /\ spring_io = {} /\ served = None /\ known = {}

FeedbackTypeOK ==
    /\ ServingTypeOK
    /\ execution \in 0 .. MaxExecutions
    /\ springTxBatchSeq \in 0 .. NumBatches
    /\ springPendingTrainBatches \in Seq([id : 1 .. NumBatches,
            count : 0 .. springMaxTrainFeedbackMatches, first : Nat])
    /\ springTrainedBatchIDs \subseteq 1 .. NumBatches
    /\ springRewardedEpoch \subseteq Epoch
    /\ springEpochFeedback \in [Epoch -> [from : SUBSET Shard,
            ids : SUBSET (1 .. NumBatches), effective : BOOLEAN]]
    /\ spring_io \subseteq 1 .. MaxExecutions
    /\ known \subseteq SampleId

-----------------------------------------------------------------------------
(* Properties.                                                              *)

\* A batch is decided by the newest model and by one of its configuration,
\* whatever updates, restarts and tools came in between: the cached agent is
\* never older than the file (get_agent, springCallPythonOnlineUpdate).
ServesNewest ==
    [][springTxBatchSeq' > springTxBatchSeq /\ served' # None =>
         /\ model'.state = "whole" /\ served' = model'.version
         /\ Matches(model'.extra, loaded.kind)]_<<servingVars, feedbackVars>>

\* A checkpoint of mechanism v3 is frozen: no update, no reset of a model that
\* does not fit, and no tool changes or damages the file (run_update,
\* load_agent, get_agent).
FrozenModelKept ==
    [][model.state = "whole" /\ IsV3(model.extra) => model' = model]_<<servingVars, feedbackVars>>

\* The samples of the supervisor, the sample files and the update process,
\* taken together, are a ledger.  An update counts when its samples have been
\* removed, or when it dies in between.
Ids(samples) == {x.id : x \in Range(samples)} \ {None}
InFlight == IF update.pc = "model_saved" THEN Ids(update.pending) ELSE {}
Ledger == INSTANCE SampleLedger WITH
    waiting  <- {<<execution, b.id>> : b \in Range(springPendingTrainBatches)},
    buffered <- (UNION {Ids(buffers[k].samples) : k \in Expected}) \cup Ids(update.pending),
    used     <- [i \in SampleId |-> used[i] - IF i \in InFlight THEN 1 ELSE 0]

\* Every decision is learnt from at most once, except after an update that died
\* between saving the model and removing its samples: it never comes back after
\* it was handed over, whatever order the reports come in and whichever
\* process dies at whichever write (HandleBlockInfo, run_update).
ImplementsLedger == Ledger!LedgerSpec

=============================================================================
