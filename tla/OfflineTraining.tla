-------------------------- MODULE OfflineTraining --------------------------
(* The offline programs of spring_lite around the environment: train()        *)
(* collects placement decisions, updates the agent and validates it after the *)
(* epochs (train_offline.py, continuous_rollout.py, ppo.py);                  *)
(* select_pareto_checkpoint.py picks one of the checkpoints; evaluate() runs  *)
(* it, or another policy, over a test window (eval_offline.py).               *)
(*                                                                            *)
(* The networks are abstracted to versions: an update makes a new one, and    *)
(* the metrics of a validation are a function of the version, unknown until   *)
(* it is measured.  Rewards are kept as credits: whose batch, and to which    *)
(* power of gamma.                                                            *)
EXTENDS TxWindows, Filters

CONSTANTS
    Jobs,               \* command lines to explore
    Epochs,
    BatchSize,          \* decisions that make an update
    RolloutBatches,     \* and batches, with mechanism v3
    SaveEveryUpdates,
    EvalEveryEpochs,
    Metrics,            \* possible results of a validation
    MinActive, MaxHotspot, MaxDeficit,  \* guardrails, the last one in percent
    None

\* A command line: environment, data, training, validation and test windows.
Job == [settings : Config, keep_placement : BOOLEAN, disable_best : BOOLEAN,
        epoch_dir : BOOLEAN, data : Dataset, start : Nat, max : Nat,
        vstart : Nat, vmax : Nat, tstart : Nat, tmax : Nat]

\* Checkpoint files: the model, the last one, those of epochs, the selected one.
Path == {<<"model", 0>>, <<"last", 0>>, <<"output", 0>>}
        \cup ({"epoch"} \X (1 .. Epochs))

\* A validation record: after an epoch (event 1) or after the last one.
ValidationRecord == [event : {0, 1}, epoch : Nat, m : Metrics, path : Path \cup {None}]

ASSUME TrainingAssumption ==
    /\ Jobs \subseteq Job
    /\ {Epochs, BatchSize, RolloutBatches, EvalEveryEpochs} \subseteq Nat \ {0}
    /\ SaveEveryUpdates \in Nat
    /\ Metrics \subseteq [score : Int, cross : Nat, hot : Nat, active : Nat, cost : Nat]
    /\ MinActive \in Nat /\ MaxHotspot \in Nat /\ MaxDeficit \in Nat
    /\ None \notin Int /\ None \notin Path /\ None \notin ValidationRecord

VARIABLES
    args,           \* the job
    phase,
    epoch,
    validation_txs,
    version,        \* the agent, by its number of updates
    buffer,         \* samples collected and not yet trained
    pending,        \* v3: the last sample waits for the next decision
    elapsed,        \* v3: batches since that sample
    batches,        \* v3: batches since the last update
    metrics,        \* validation results, by version
    records,        \* validation_records
    best_score,
    files,          \* checkpoint files and the versions in them
    policy,         \* the policy under evaluation
    decisions,      \* history: decisions and the versions that took them
    trained         \* history: samples in the order of training

rolloutVars == <<version, buffer, pending, elapsed, batches, trained>>
checkVars == <<metrics, records, best_score, files>>
trainVars == <<args, phase, epoch, validation_txs, rolloutVars, checkVars, policy,
               decisions>>
vars == <<envVars, trainVars>>

V3 == args.settings.version = "v3"

-----------------------------------------------------------------------------
(* Start.                                                                   *)

\* Wrong variant of validate_args: v3 may keep the placement over epochs.
validate_args_keep(job) ==
    /\ job.settings.version = "v3" =>
         /\ job.settings.identity = "iot_v2" /\ job.settings.iot
         /\ job.settings.backlog = 0
    /\ job.epoch_dir => ~job.disable_best

\* validate_args of mechanism.py, and of train().
validate_args(job) ==
    /\ job.settings.version = "v3" =>
         /\ job.settings.identity = "iot_v2" /\ job.settings.iot
         /\ job.settings.backlog = 0
         /\ ~job.keep_placement
    /\ job.epoch_dir => ~job.disable_best

\* The data of a job is good for training.
Prepared(job) ==
    /\ validate_args(job)
    /\ LoadWindow(job.settings.identity, job.data, job.start, job.max).ok
    /\ job.disable_best \/
         /\ ~data_windows_overlap(job.start, job.max, job.vstart, job.vmax)
         /\ LoadWindow(job.settings.identity, job.data, job.vstart, job.vmax).ok

\* train() up to its loop: the windows are loaded and the first epoch begins in
\* a reset environment, or train() raises an error.
StartTraining ==
    /\ phase = "start"
    /\ IF Prepared(args)
       THEN /\ phase' = "train"
            /\ epoch' = 1
            /\ validation_txs' =
                 IF args.disable_best THEN <<>>
                 ELSE LoadWindow(args.settings.identity, args.data, args.vstart, args.vmax).txs
            /\ NewPass(args.settings,
                       LoadWindow(args.settings.identity, args.data, args.start, args.max).txs,
                       TRUE)
       ELSE phase' = "refused" /\ UNCHANGED <<epoch, validation_txs, envVars>>
    /\ UNCHANGED <<args, rolloutVars, checkVars, policy, decisions>>

-----------------------------------------------------------------------------
(* Collecting samples.                                                      *)

\* A sample: its decision, the clock of its batch, the rewards of batches it
\* carries, the state its value is bootstrapped from ("next" decision, its
\* "own" next state, or "end"), the power of gamma to get there, and (history)
\* the version that it improved.
Sample == [id : Nat \X Address, batch : Nat, sampled : BOOLEAN,
           credits : Seq([batch : Nat, power : Nat]),
           next : {"next", "own", "end"}, gap : Nat, by : Nat \cup {None}]

\* Samples with the version that they improve.
Trained(samples) == [i \in DOMAIN samples |-> [samples[i] EXCEPT !.by = version]]

\* PPOAgent.update: the agent is a new one, unless there is nothing to learn.
update(samples) == IF samples = <<>> THEN version ELSE version + 1

\* Wrong variant of UpdateAgent: the buffer is not cleared.
UpdateAndKeep(samples) ==
    /\ version' = update(samples)
    /\ trained' = trained \o Trained(samples)
    /\ buffer' = samples

\* agent.update, then buffer.clear.
UpdateAgent(samples) ==
    /\ version' = update(samples)
    /\ trained' = trained \o Trained(samples)
    /\ buffer' = <<>>

\* Wrong variant of Settled: the discount of one batch, whatever has passed.
SettledByOne == [buffer EXCEPT ![Len(buffer)].next = "next", ![Len(buffer)].gap = 1]

\* The last sample, with the real next state and the batches in between.
Settled == [buffer EXCEPT ![Len(buffer)].next = "next",
                          ![Len(buffer)].gap = elapsed]

\* before_decision: the next decision settles the last sample, and an update
\* that is due happens before the policy is asked.
before_decision ==
    IF ~pending THEN UNCHANGED rolloutVars
    ELSE /\ pending' = FALSE
         /\ IF Len(buffer) >= BatchSize /\ batches >= RolloutBatches
            THEN UpdateAgent(Settled) /\ batches' = 0
            ELSE buffer' = Settled /\ UNCHANGED <<version, trained, batches>>
         /\ UNCHANGED elapsed

\* The candidate shards of the next address.
NextMask ==
    build_candidate_action_mask(NextPair[1], build_sender_pos(NextPair[1], NextPair[2]))

\* Wrong variant of sample_agent_policy: the logits are not masked.
sample_any(mask) == Shard

\* sample_agent_policy: the logits are masked, so any candidate may come.
sample_agent_policy(mask) == mask

TrainBeginBatch == phase = "train" /\ BeginBatch /\ UNCHANGED trainVars

\* _place_address with training_policy.
TrainPlace(output) ==
    /\ phase = "train"
    /\ Place(output)
    /\ output \in sample_agent_policy(NextMask)
    /\ IF V3 THEN before_decision ELSE UNCHANGED rolloutVars
    /\ decisions' = Append(decisions, [id |-> <<epoch, NextPair[1]>>,
                                       version |-> version'])
    /\ UNCHANGED <<args, phase, epoch, validation_txs, checkVars, policy>>

\* The samples of the batch, of which those in paid carry its reward: every one is
\* bootstrapped from the next decision but the last one.
BatchSamples(paid, gap, last) ==
    [i \in DOMAIN actions |->
        [id |-> <<epoch, actions[i].address>>, batch |-> batch_id,
         sampled |-> actions[i].sampled,
         credits |-> IF i \in paid THEN <<[batch |-> batch_id, power |-> 0]>> ELSE <<>>,
         next |-> IF i < Len(actions) THEN "next" ELSE last, gap |-> gap, by |-> None]]

\* add_actions_to_buffer: every action carries the reward of its batch, and
\* the batch ends the episode.
add_actions_to_buffer ==
    BatchSamples(DOMAIN actions, 1, "end")

\* Wrong variant of NextElapsed: a batch without decisions stops the clock.
SameElapsed == elapsed

\* The clock of a batch without decisions.
NextElapsed == elapsed + 1

\* add_batch: the reward of the batch goes to its last decision, or, discounted
\* by the batches in between, to the last decision before it.  Without one,
\* add_batch raises an error.
add_batch ==
    IF actions = <<>>
    THEN IF ~pending THEN phase' = "stranded" /\ UNCHANGED <<buffer, pending, elapsed, batches>>
         ELSE /\ buffer' = [buffer EXCEPT ![Len(buffer)].credits =
                                Append(@, [batch |-> batch_id, power |-> elapsed])]
              /\ elapsed' = NextElapsed
              /\ batches' = batches + 1
              /\ UNCHANGED <<phase, pending>>
    ELSE /\ buffer' = buffer \o BatchSamples({Len(actions)}, 0, "own")
         /\ pending' = TRUE /\ elapsed' = 1
         /\ batches' = batches + 1
         /\ UNCHANGED phase

\* A periodic save: to the model itself only if there is no best one.
PeriodicSave(v) ==
    IF SaveEveryUpdates > 0 /\ v % SaveEveryUpdates = 0
    THEN files' = [files EXCEPT ![<<IF args.disable_best THEN "model" ELSE "last", 0>>] = v]
    ELSE UNCHANGED files

\* The end of run_batch, its samples, and an update that is due.
TrainEndBatch ==
    /\ phase = "train"
    /\ EndBatch
    /\ IF V3 THEN add_batch /\ UNCHANGED <<version, trained, files>>
       ELSE LET all == buffer \o add_actions_to_buffer
            IN /\ IF Len(all) >= BatchSize
                  THEN UpdateAgent(all) /\ PeriodicSave(version')
                  ELSE buffer' = all /\ UNCHANGED <<version, trained, files>>
               /\ UNCHANGED <<phase, pending, elapsed, batches>>
    /\ UNCHANGED <<args, epoch, validation_txs, metrics, records, best_score,
                   policy, decisions>>

\* finish: the window ends the trajectory and the rest is trained.
FinishEpoch ==
    /\ phase = "train"
    /\ step = "idle"
    /\ cursor = Len(txs)
    /\ phase' = "validate"
    /\ IF V3 /\ buffer # <<>>
       THEN /\ UpdateAgent([buffer EXCEPT ![Len(buffer)].next = "end",
                                          ![Len(buffer)].gap = 0])
            /\ batches' = 0
       ELSE UNCHANGED <<version, trained, buffer, batches>>
    /\ pending' = IF V3 THEN FALSE ELSE pending
    /\ UNCHANGED <<envVars, args, epoch, validation_txs, elapsed, checkVars, policy,
                   decisions>>

-----------------------------------------------------------------------------
(* Validation and checkpoints.                                              *)

\* evaluate_agent_argmax and validation_score: a fresh environment and the
\* deterministic policy, so the same agent gets the same result again.
Measure(v, m) ==
    /\ v \in DOMAIN metrics => m = metrics[v]
    /\ metrics' = [w \in DOMAIN metrics \cup {v} |-> IF w = v THEN m ELSE metrics[w]]

\* Wrong variant of Better: the last one of equals is the best.
BetterOrEqual(score) == best_score = None \/ score >= best_score

\* A score that makes a new best model.
Better(score) == best_score = None \/ score > best_score

\* A validation record of version v, whose checkpoint goes to path, and the
\* best model.
Record(event, v, m, path) ==
    /\ Measure(v, m)
    /\ records' = Append(records, [event |-> event, epoch |-> epoch, m |-> m, path |-> path])
    /\ best_score' = IF Better(m.score) THEN m.score ELSE best_score
    /\ files' = [f \in Path |-> IF f = path \/ (f = <<"model", 0>> /\ Better(m.score))
                               THEN v ELSE files[f]]

\* The validation after an epoch, if one is due.
Validate(m) ==
    /\ phase = "validate"
    /\ phase' = "epoch_done"
    /\ IF ~args.disable_best /\ epoch % EvalEveryEpochs = 0
       THEN Record(1, version, m, IF args.epoch_dir THEN <<"epoch", epoch>> ELSE None)
       ELSE UNCHANGED checkVars
    /\ UNCHANGED <<envVars, args, epoch, validation_txs, rolloutVars, policy, decisions>>

\* The next epoch, in a reset environment unless the placement is kept.
NextEpoch ==
    /\ phase = "epoch_done"
    /\ epoch < Epochs
    /\ epoch' = epoch + 1
    /\ phase' = "train"
    /\ NewPass(config, txs, ~args.keep_placement)
    /\ UNCHANGED <<args, validation_txs, rolloutVars, checkVars, policy, decisions>>

\* After the last epoch: an update with the remaining samples, the final
\* validation and the last model.
FinishTraining(m) ==
    /\ phase = "epoch_done"
    /\ epoch = Epochs
    /\ phase' = "trained"
    /\ IF buffer # <<>> THEN UpdateAgent(buffer)
       ELSE UNCHANGED <<version, trained, buffer>>
    /\ IF args.disable_best
       THEN /\ files' = [files EXCEPT ![<<"model", 0>>] = version']
            /\ UNCHANGED <<metrics, records, best_score>>
       ELSE Record(0, version', m, <<"last", 0>>)
    /\ UNCHANGED <<envVars, args, epoch, validation_txs, pending, elapsed, batches,
                   policy, decisions>>

\* Wrong variant of checkpoint_dominates: more active shards count as worse.
dominates_inactive(l, r) ==
    /\ l.cross <= r.cross /\ l.hot <= r.hot /\ l.active <= r.active
    /\ l.cross < r.cross \/ l.hot < r.hot \/ l.active < r.active

\* checkpoint_dominates
checkpoint_dominates(l, r) ==
    /\ l.cross <= r.cross /\ l.hot <= r.hot /\ l.active >= r.active
    /\ V3 => l.cost <= r.cost
    /\ \/ l.cross < r.cross \/ l.hot < r.hot \/ l.active > r.active
       \/ V3 /\ l.cost < r.cost

\* checkpoint_pareto_frontier, which the manifest holds.
checkpoint_pareto_frontier ==
    Kept(records, {i \in DOMAIN records :
        \A k \in DOMAIN records : ~checkpoint_dominates(records[k].m, records[i].m)})

\* active_deficit_ratio, times the threshold.
active_deficit(r) == IF r.m.active < MinActive THEN MinActive - r.m.active ELSE 0

\* eligible_candidates and fallback_candidates: the cap on hotspots is hard.
Eligible(r) == r.m.active >= MinActive /\ r.m.hot <= MaxHotspot
Tolerable(r) == /\ r.m.hot <= MaxHotspot
                /\ active_deficit(r) * 100 <= MaxDeficit * MinActive

\* strict_sort_key and fallback_sort_key, with the scores of v3.
strict_sort_key(r) ==
    (IF V3 THEN <<-r.m.score>> ELSE <<>>)
    \o <<r.m.cross, r.m.hot, -r.m.active, r.epoch, r.event>>
fallback_sort_key(r) ==
    <<active_deficit(r)>>
    \o IF V3 THEN strict_sort_key(r) ELSE <<r.m.cross, r.m.hot, r.epoch, r.event>>

LexLess(k, l) == \E i \in DOMAIN k : /\ k[i] < l[i]
                                    /\ \A j \in 1 .. i - 1 : k[j] = l[j]
First(candidates, keys) ==
    candidates[CHOOSE i \in DOMAIN keys : \A j \in DOMAIN keys :
        ~LexLess(keys[j], keys[i]) /\ (j < i => LexLess(keys[i], keys[j]))]

\* select_candidate_decision: the eligible candidates, for want of them the
\* tolerable ones; None is an error.
select_candidate ==
    LET front   == checkpoint_pareto_frontier
        strict  == Kept(front, {i \in DOMAIN front : Eligible(front[i])})
        relaxed == Kept(front, {i \in DOMAIN front : Tolerable(front[i])})
    IN IF strict # <<>> THEN First(strict, [i \in DOMAIN strict |-> strict_sort_key(strict[i])])
       ELSE IF relaxed # <<>> THEN First(relaxed, [i \in DOMAIN relaxed |-> fallback_sort_key(relaxed[i])])
       ELSE None

\* main of select_pareto_checkpoint: the checkpoint is copied.
SelectCheckpoint ==
    /\ phase = "trained"
    /\ args.epoch_dir
    /\ IF select_candidate = None THEN phase' = "rejected" /\ UNCHANGED files
       ELSE /\ phase' = "selected"
            /\ files' = [files EXCEPT ![<<"output", 0>>] = files[select_candidate.path]]
    /\ UNCHANGED <<envVars, args, epoch, validation_txs, rolloutVars, metrics, records,
                   best_score, policy, decisions>>

-----------------------------------------------------------------------------
(* Evaluation.                                                              *)

\* The placed-address heuristic of iot_v2, times 1000 * known.
heuristic_scores(a, pos) ==
    LET known == SumOver(pos)
        scale == IF known = 0 THEN 1 ELSE known
    IN [s \in Shard |->
            1000 * 1000 * pos[s] - 1000 * scale * shard_load[s]
            + IF s # addr2shard[a] THEN 0 ELSE IF known = 0 THEN 1000 ELSE scale]

\* make_policy.  The older heuristic sums logarithms of loads: any candidate.
PolicyOutputs ==
    LET a   == NextPair[1]
        pos == build_sender_pos(a, NextPair[2])
    IN CASE policy = "ppo"    -> NextMask
         [] policy = "hash"   -> {addr2shard[a]}
         [] policy = "random" -> Shard
         [] policy = "candidate_only" ->
                {best_allowed_action(candidate_scores(a, pos), NextMask)}
         [] policy = "heuristic" ->
                IF RealAccounts THEN {best_allowed_action(heuristic_scores(a, pos), Shard)}
                ELSE NextMask

Policies == {"ppo", "heuristic", "hash", "random", "candidate_only"}

\* load_eval_transactions
load_eval_transactions ==
    LoadWindow(args.settings.identity, args.data, args.tstart, args.tmax)

\* load_agent: the ppo policy needs the checkpoint.  It has the configuration
\* of the job, which trained it.
load_agent(p) ==
    p = "ppo" => files[<<IF args.epoch_dir THEN "output" ELSE "model", 0>>] # None

\* evaluate() up to its loop: the test window, a new environment, without
\* candidate filter for the hash and random policies.
StartEvaluation(p) ==
    /\ phase = "selected" \/ (phase = "trained" /\ ~args.epoch_dir)
    /\ policy' = p
    /\ LET window == load_eval_transactions
           filter == p \notin {"hash", "random"}
           settings == [args.settings EXCEPT !.top_k = IF filter THEN @ ELSE 0,
                                             !.guard = IF filter THEN @ ELSE 0]
       IN IF window.ok /\ load_agent(p)
          THEN phase' = "evaluate" /\ NewPass(settings, window.txs, TRUE)
          ELSE phase' = "refused" /\ UNCHANGED envVars
    /\ UNCHANGED <<args, epoch, validation_txs, rolloutVars, checkVars, decisions>>

\* The loop of evaluate(), and its result.
EvaluateStep ==
    /\ phase = "evaluate"
    /\ \/ BeginBatch
       \/ \E output \in Shard : Place(output) /\ output \in PolicyOutputs
       \/ EndBatch
    /\ UNCHANGED trainVars
FinishEvaluation ==
    /\ phase = "evaluate"
    /\ step = "idle" /\ cursor = Len(txs)
    /\ phase' = "done"
    /\ UNCHANGED <<envVars, args, epoch, validation_txs, rolloutVars, checkVars,
                   policy, decisions>>

-----------------------------------------------------------------------------

TrainingInit ==
    /\ args \in Jobs
    /\ EnvInit /\ config = args.settings /\ txs = <<>>
    /\ phase = "start" /\ epoch = 0
    /\ validation_txs = <<>>
    /\ version = 0 /\ buffer = <<>> /\ trained = <<>> /\ decisions = <<>>
    /\ pending = FALSE /\ elapsed = 0 /\ batches = 0
    /\ metrics = <<>> /\ records = <<>> /\ best_score = None
    /\ files = [f \in Path |-> None]
    /\ policy = "ppo"

TrainingNext ==
    \/ StartTraining
    \/ TrainBeginBatch
    \/ \E output \in Shard : TrainPlace(output)
    \/ TrainEndBatch
    \/ FinishEpoch
    \/ \E m \in Metrics : Validate(m)
    \/ NextEpoch
    \/ \E m \in Metrics : FinishTraining(m)
    \/ SelectCheckpoint
    \/ \E p \in Policies : StartEvaluation(p)
    \/ EvaluateStep
    \/ FinishEvaluation

TrainingSpec == TrainingInit /\ [][TrainingNext]_vars

-----------------------------------------------------------------------------
(* Properties.                                                              *)

TypeOK ==
    /\ EnvTypeOK
    /\ args \in Jobs
    /\ phase \in {"start", "refused", "train", "stranded", "validate", "epoch_done",
                  "trained", "selected", "rejected", "evaluate", "done"}
    /\ epoch \in 0 .. Epochs
    /\ version \in Nat /\ elapsed \in Nat /\ batches \in Nat
    /\ pending \in BOOLEAN
    /\ \A i \in DOMAIN buffer : buffer[i] \in Sample
    /\ files \in [Path -> Nat \cup {None}]

\* Every decision is trained exactly once and in order, through updates in the
\* middle of an epoch, at its end and after the last one, with nothing lost in
\* between (add_batch, before_decision, finish, train).
Ids(samples) == [i \in DOMAIN samples |-> samples[i].id]
EverySampleOnce ==
    LET placing == IF phase = "train" /\ step = "place" THEN Len(actions) ELSE 0
    IN /\ Ids(trained) \o Ids(buffer)
            = Ids(SubSeq(decisions, 1, Len(decisions) - placing))
       /\ phase = "trained" => buffer = <<>>

\* The agent is updated only with decisions that it took itself since its last
\* update, and that it really sampled: no decision of an older version, none
\* that the capacity guard put in its place with a made-up probability
\* (training_policy, before_decision, _safe_policy_output).
OnPolicy ==
    /\ \A i \in DOMAIN trained : /\ trained[i].by = decisions[i].version
                                 /\ trained[i].sampled
    /\ \A i \in DOMAIN buffer : decisions[Len(trained) + i].version = version

\* The batches executed so far in an epoch.
Executed(e) == IF e = epoch THEN IF step = "place" THEN 1 .. batch_id - 1 ELSE 1 .. batch_id
               ELSE 1 .. (Len(txs) + TxBatchSize - 1) \div TxBatchSize

\* Mechanism v3 discounts by executed batches: the reward of every batch is
\* credited exactly once, to the power of the batches since the decision that
\* carries it; a trained decision is bootstrapped from the next one, to the
\* power of the batches between the two, and only the last decision of an
\* epoch ends the trajectory (add_batch, before_decision, finish).
BatchClock ==
    V3 /\ phase \in {"train", "validate", "epoch_done", "trained"} =>
    LET all == trained \o [i \in DOMAIN buffer |-> buffer[i]]
        Of(e, b) == {x \in (1 .. Len(all)) \X (1 .. Len(txs)) :
                        LET sample == all[x[1]]
                        IN /\ x[2] <= Len(sample.credits) /\ sample.id[1] = e
                           /\ sample.credits[x[2]].batch = b}
    IN /\ \A e \in 1 .. epoch : \A b \in Executed(e) : Cardinality(Of(e, b)) = 1
       /\ \A i \in DOMAIN all : \A k \in DOMAIN all[i].credits :
             all[i].credits[k].power = all[i].credits[k].batch - all[i].batch
       /\ \A i \in DOMAIN trained :
             IF i < Len(all) /\ all[i + 1].id[1] = all[i].id[1]
             THEN /\ all[i].next = "next"
                  /\ all[i].gap = all[i + 1].batch - all[i].batch
             ELSE all[i].next = "end" \/ (i = Len(trained) /\ phase = "train")

\* No reward is left without a decision to carry it: add_batch never raises
\* its error (validate_args, reset, add_batch).
NoStrandedReward == phase # "stranded"

\* The training and the test windows are exactly the requested transactions,
\* each with its own row of the companion file, and training and validation
\* share none (load_iot_transactions, load_rows, data_windows_overlap).
Chain == Kept(args.data.chain, {k \in DOMAIN args.data.chain : args.data.chain[k].valid})
WindowAligned ==
    LET start == IF phase \in {"evaluate", "done"} THEN args.tstart ELSE args.start
        scene(k) == args.data.scene[start + k]
    IN /\ \A k \in DOMAIN txs :
            IF args.settings.identity = "iot"
            THEN /\ scene(k).tx_index = start + k - 1
                 /\ txs[k].sender = scene(k).to /\ txs[k].recipient = scene(k).from
            ELSE /\ txs[k].sender = Chain[start + k].sender
                 /\ txs[k].recipient = Chain[start + k].recipient
       /\ phase = "train" =>
            (args.start .. args.start + Len(txs) - 1)
            \cap (args.vstart .. args.vstart + Len(validation_txs) - 1) = {}

\* The model file always holds the first of the best validated versions, and
\* every checkpoint of the manifest the version that was measured: periodic
\* saves, later epochs and the final validation do not disturb them
\* (train, checkpoint_manifest_view).
CheckpointsTrue ==
    /\ \A k \in DOMAIN records :
         /\ records[k].path # None => metrics[files[records[k].path]] = records[k].m
         /\ (/\ \A j \in DOMAIN records : records[j].m.score <= records[k].m.score
             /\ \A j \in 1 .. k - 1 : records[j].m.score < records[k].m.score)
            => /\ files[<<"model", 0>>] \in DOMAIN metrics
               /\ metrics[files[<<"model", 0>>]] = records[k].m
    /\ phase = "trained" /\ args.disable_best => files[<<"model", 0>>] = version

\* The guardrails decide as if they were applied to all checkpoints, though
\* only the frontier is looked at: if any checkpoint satisfies them, so does
\* the selected one, and by the older ranking none of those crosses shards
\* less; the hotspot cap is never relaxed, and nothing is rejected that could
\* be selected (checkpoint_pareto_frontier, select_candidate_decision).
SelectionSound ==
    /\ phase = "selected" =>
         LET chosen == [m |-> metrics[files[<<"output", 0>>]]]
         IN /\ Tolerable(chosen)
            /\ \A k \in DOMAIN records : Eligible(records[k]) =>
                 /\ Eligible(chosen)
                 /\ V3 \/ chosen.m.cross <= records[k].m.cross
    /\ phase = "rejected" => \A k \in DOMAIN records : ~Tolerable(records[k])

=============================================================================
