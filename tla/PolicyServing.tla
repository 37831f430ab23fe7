--------------------------- MODULE PolicyServing ---------------------------
(* The policy model of spring_lite as the processes around it see it: a       *)
(* checkpoint file, files of samples that wait for the next update, the agent *)
(* cached by infer_server.py, the update process update_online.py, which may  *)
(* die between any two of its writes, and the older tool infer_batch.py.      *)
(*                                                                            *)
(* A checkpoint is its version, the dimension of its states and the           *)
(* configuration that its extra data name.  torch.save and the writing of a   *)
(* sample file truncate the file first, so a process that dies leaves a torn  *)
(* file; the fresh models of infer_server and infer_batch are saved in one    *)
(* step.                                                                      *)
EXTENDS Integers, Sequences, FiniteSets, SequencesExt, Filters

CONSTANTS
    Kind,           \* configurations that a checkpoint can be expected to have
    Dim,            \* the state dimension of each
    Mechanism,      \* its mechanism_version, "legacy" or "v3"
    LegacyDim,      \* state_dim of the tools that know no configuration
    SampleId,
    BATCH_SIZE, MIN_FLUSH_BATCH_SIZE,
    None

ASSUME ServingAssumption ==
    /\ Dim \in [Kind -> Nat] /\ LegacyDim \in Nat
    /\ Mechanism \in [Kind -> {"legacy", "v3"}]
    /\ BATCH_SIZE \in Nat \ {0} /\ MIN_FLUSH_BATCH_SIZE \in Nat \ {0}
    /\ None \notin Kind

VARIABLES
    model,          \* the checkpoint file
    buffers,        \* sample files: one for each configuration, one for None
    cache,          \* AgentCache of the inference server
    update,         \* the update process
    used,           \* history: updates that each sample was part of
    interrupted     \* history: updates that died with samples used and kept

fileVars == <<model, buffers>>
servingVars == <<model, buffers, cache, update, used, interrupted>>

\* A sample; those that a user feeds to an update by hand have no identity.
Sample == [id : SampleId \cup {None}, dim : Nat]
Expected == Kind \cup {None}
Model == [state : {"absent", "torn", "whole"}, version : Nat, dim : Nat,
          extra : Expected, mtime : Nat]
SampleFile == [state : {"absent", "torn", "whole"}, dim : Nat, samples : Seq(Sample)]
NoFile == [state |-> "absent", dim |-> 0, samples |-> <<>>]
Idle == [pc |-> "idle", expected |-> None, dim |-> 0, pending |-> <<>>]

-----------------------------------------------------------------------------
(* Checkpoints and the inference server.                                    *)

\* agent.save: a new version in the file, which has a new time.
Saved(dim, extra) ==
    [state |-> "whole", version |-> model.version + 1, dim |-> dim, extra |-> extra,
     mtime |-> model.mtime + 1]

IsV3(extra) == extra # None /\ Mechanism[extra] = "v3"

\* checkpoint_config_mismatches: every expected item must be there, and the
\* mechanisms must agree.
Matches(extra, expected) ==
    IF expected = None THEN ~IsV3(extra) ELSE extra = expected

DimOf(expected) == IF expected = None THEN LegacyDim ELSE Dim[expected]

\* A checkpoint that can be loaded for the expected configuration.
Loadable(expected) ==
    /\ model.state = "whole"
    /\ model.dim = DimOf(expected)
    /\ Matches(model.extra, expected)

\* Wrong variant of Hit: the time of the file is not looked at.
HitAnyTime(expected) == cache # None /\ cache.expected = expected

\* The agent in memory is used as long as the file has not changed.
Hit(expected) ==
    /\ cache # None
    /\ cache.expected = expected
    /\ model.state # "absent" /\ cache.mtime = model.mtime

\* get_agent: the version that serves, None if there is none, with the
\* checkpoint and the cache that it leaves.
get_agent(expected, allow_model_init) ==
    LET Cached(m) == [expected |-> expected, version |-> m.version, mtime |-> m.mtime]
        fresh     == Saved(DimOf(expected), expected)
    IN IF Hit(expected)
       THEN [version |-> cache.version, model |-> model, cache |-> cache]
       ELSE IF model.state = "absent" /\ allow_model_init
       THEN [version |-> fresh.version, model |-> fresh, cache |-> Cached(fresh)]
       ELSE IF Loadable(expected)
       THEN [version |-> model.version, model |-> model, cache |-> Cached(model)]
       ELSE [version |-> None, model |-> model, cache |-> cache]

\* infer_items: the agent answers for every item; without one, a request that
\* expects a configuration is an error, and a heuristic answers any other.
infer_items(expected, allow_model_init) ==
    LET agent == get_agent(expected, allow_model_init)
    IN [source |-> IF agent.version # None THEN "python_ppo"
                   ELSE IF expected # None THEN "error" ELSE "heuristic",
        version |-> agent.version, model |-> agent.model, cache |-> agent.cache]

\* load_agent of infer_batch.py: a missing model and one with other dimensions
\* are replaced; a torn one and one of v3 are refused.
InferBatch ==
    /\ update.pc = "idle"
    /\ \/ model.state = "absent"
       \/ model.state = "whole" /\ ~IsV3(model.extra) /\ model.dim # LegacyDim
    /\ model' = Saved(LegacyDim, None)
    /\ UNCHANGED <<buffers, cache, update, used, interrupted>>

-----------------------------------------------------------------------------
(* update_online.py.                                                        *)

\* Wrong variant of Refuses: the version in the checkpoint is not looked at.
RefusesOwn(expected) ==
    \/ IsV3(expected)
    \/ model.state = "torn"
    \/ expected # None /\ model.state = "whole" /\ ~Loadable(expected)

\* run_update raises an error before it has changed anything: for v3, for a
\* checkpoint that cannot be read, and, when the caller expects one, for any
\* other configuration.
Refuses(expected) ==
    \/ IsV3(expected)
    \/ model.state = "torn"
    \/ model.state = "whole" /\ IsV3(model.extra)
    \/ expected # None /\ model.state = "whole" /\ ~Loadable(expected)

\* load_pending_buffer: a torn file and one of other dimensions count as empty.
LoadPending(expected, dim) ==
    LET file == buffers[expected]
    IN IF file.state = "whole" /\ file.dim = dim
       THEN Kept(file.samples, {i \in DOMAIN file.samples : file.samples[i].dim = dim})
       ELSE <<>>

\* build_buffer_from_update: actions of other dimensions are skipped.
build_buffer_from_update(samples, dim) ==
    Kept(samples, {i \in DOMAIN samples : samples[i].dim = dim})

\* run_update up to its first write: the valid new samples are appended to the
\* pending ones, and there are enough of them for an update or not.
run_update(expected, dim, samples, flush) ==
    LET valid     == build_buffer_from_update(samples, dim)
        pending   == LoadPending(expected, dim) \o valid
        threshold == IF flush THEN MIN_FLUSH_BATCH_SIZE ELSE BATCH_SIZE
    IN IF Refuses(expected) THEN Idle
       ELSE [pc |-> IF valid = <<>> \/ Len(pending) < threshold
                    THEN "buffering" ELSE "training",
             expected |-> expected, dim |-> dim, pending |-> pending]

\* save_pending_buffer, with samples: the file is truncated, then written;
\* without samples: the file is removed.
OpenBuffer ==
    /\ update.pc = "buffering"
    /\ IF update.pending = <<>>
       THEN /\ buffers' = [buffers EXCEPT ![update.expected] = NoFile]
            /\ update' = Idle
       ELSE /\ buffers' = [buffers EXCEPT ![update.expected] = [NoFile EXCEPT !.state = "torn"]]
            /\ update' = [update EXCEPT !.pc = "buffer_open"]
    /\ UNCHANGED <<model, cache, used, interrupted>>
WriteBuffer ==
    /\ update.pc = "buffer_open"
    /\ buffers' = [buffers EXCEPT ![update.expected] =
                      [state |-> "whole", dim |-> update.dim, samples |-> update.pending]]
    /\ update' = Idle
    /\ UNCHANGED <<model, cache, used, interrupted>>

\* agent.save: the checkpoint is truncated, then written.  A checkpoint of
\* other dimensions was replaced by a new model (build_agent).
Count(samples, i) == Cardinality({k \in DOMAIN samples : samples[k].id = i})
OpenModel ==
    /\ update.pc = "training"
    /\ update' = [update EXCEPT !.pc = IF model.state = "whole" /\ model.dim = update.dim
                                       THEN "model_open" ELSE "model_new"]
    /\ model' = [model EXCEPT !.state = "torn", !.mtime = @ + 1]
    /\ UNCHANGED <<buffers, cache, used, interrupted>>
WriteModel ==
    /\ update.pc \in {"model_open", "model_new"}
    /\ model' = Saved(update.dim,
                      IF update.expected # None THEN update.expected
                      ELSE IF update.pc = "model_open" THEN model.extra ELSE None)
    /\ used' = [i \in SampleId |-> used[i] + Count(update.pending, i)]
    /\ update' = [update EXCEPT !.pc = "model_saved"]
    /\ UNCHANGED <<buffers, cache, interrupted>>

\* Wrong variant of ClearBuffer: the samples are kept for the next update.
KeepBuffer ==
    /\ update.pc = "model_saved"
    /\ update' = Idle
    /\ UNCHANGED <<model, buffers, cache, used, interrupted>>

\* The samples of a finished update are removed.
ClearBuffer ==
    /\ update.pc = "model_saved"
    /\ buffers' = [buffers EXCEPT ![update.expected] = NoFile]
    /\ update' = Idle
    /\ UNCHANGED <<model, cache, used, interrupted>>

\* The process dies, and leaves the files as they are.
UpdateDies ==
    /\ update.pc # "idle"
    /\ update' = Idle
    /\ interrupted' = IF update.pc = "model_saved" THEN interrupted + 1 ELSE interrupted
    /\ UNCHANGED <<model, buffers, cache, used>>

UpdateStep == OpenBuffer \/ WriteBuffer \/ OpenModel \/ WriteModel \/ ClearBuffer

ServingInit ==
    /\ model \in {[state |-> "absent", version |-> 0, dim |-> 0, extra |-> None, mtime |-> 0]}
         \cup {[state |-> "whole", version |-> 1, dim |-> Dim[k], extra |-> k, mtime |-> 1] :
                    k \in Kind}
    /\ buffers = [k \in Expected |-> NoFile]
    /\ cache = None
    /\ update = Idle
    /\ used = [i \in SampleId |-> 0]
    /\ interrupted = 0

ServingTypeOK ==
    /\ model \in Model
    /\ buffers \in [Expected -> SampleFile]
    /\ cache = None \/ cache \in [expected : Expected, version : Nat, mtime : Nat]
    /\ update \in [pc : {"idle", "buffering", "buffer_open", "training", "model_open",
                         "model_new", "model_saved"},
                   expected : Expected, dim : Nat, pending : Seq(Sample)]
    /\ used \in [SampleId -> Nat]
    /\ interrupted \in Nat

=============================================================================
