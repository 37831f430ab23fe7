----------------------------- MODULE MCTraining -----------------------------
(* Small instances of OfflineTraining: two shards and four addresses.         *)
EXTENDS OfflineTraining

MCAddress == {"a", "b", "c", "d"}
MCHash == [x \in Address |-> IF x \in {"a", "c"} THEN 0 ELSE 1]

\* Four transfers and one more: the third batch of one brings nothing new.
Row(ok, s, r) == [valid |-> ok, sender |-> s, recipient |-> r]
Scene(i, f, t, A) == [tx_index |-> i, from |-> f, to |-> t, anchors |-> A]
GoodChain == <<Row(TRUE, "a", "b"), Row(TRUE, "b", "a"), Row(TRUE, "a", "c"),
               Row(TRUE, "c", "b"), Row(TRUE, "d", "a"), Row(TRUE, "b", "d")>>
GapChain == <<Row(TRUE, "a", "b"), Row(FALSE, "d", "d")>> \o SubSeq(GoodChain, 2, 6)
Scenes(offset) == [i \in 1 .. 6 |->
    Scene(offset + i - 1, GoodChain[i].sender, GoodChain[i].recipient, {})]
Anchors == [Scenes(0) EXCEPT ![3].anchors = {"d"}]
Shifted == [Scenes(0) EXCEPT ![4].tx_index = 7]

V2Data  == [chain |-> GoodChain, scene |-> Scenes(5), offset |-> 5]
IotData == [chain |-> GapChain, scene |-> Anchors, offset |-> 0]
BadData == [chain |-> GapChain, scene |-> Shifted, offset |-> 0]

\* Settings and jobs: [windows] are first and number of the training,
\* validation and test windows.
Env(identity, iot, mode, backlog, guard, top_k, v, batch) ==
    [identity |-> identity, iot |-> iot, mode |-> mode, backlog |-> backlog,
     guard |-> guard, top_k |-> top_k, version |-> v, batch |-> batch]
JobOf(env, keep, nobest, dir, data, w) ==
    [settings |-> env, keep_placement |-> keep, disable_best |-> nobest,
     epoch_dir |-> dir, data |-> data, start |-> w[1], max |-> w[2],
     vstart |-> w[3], vmax |-> w[4], tstart |-> w[5], tmax |-> w[6]]

MCJobs == {
    JobOf(Env("iot_v2", TRUE, 1, 0, 1, 1, "v3", 1), FALSE, FALSE, TRUE, V2Data, <<0, 4, 4, 1, 4, 2>>),
    JobOf(Env("iot_v2", TRUE, 0, 0, 0, 0, "v3", 1), FALSE, FALSE, TRUE, V2Data, <<0, 4, 5, 0, 2, 0>>),
    JobOf(Env("iot_v2", TRUE, 0, 0, 0, 0, "v3", 1), TRUE, FALSE, TRUE, V2Data, <<0, 4, 4, 1, 4, 2>>),
    JobOf(Env("raw", FALSE, 0, 1, 1, 0, "legacy", 2), TRUE, FALSE, TRUE, IotData, <<0, 4, 4, 2, 3, 3>>),
    JobOf(Env("raw", FALSE, 0, 1, 1, 0, "legacy", 1), FALSE, TRUE, FALSE, IotData, <<1, 3, 0, 0, 0, 0>>),
    JobOf(Env("iot", TRUE, 1, 1, 1, 1, "legacy", 1), FALSE, FALSE, TRUE, IotData, <<1, 3, 0, 1, 4, 2>>),
    JobOf(Env("iot", TRUE, 1, 1, 1, 1, "legacy", 1), FALSE, FALSE, TRUE, BadData, <<0, 4, 4, 1, 4, 2>>),
    JobOf(Env("raw", FALSE, 1, 0, 0, 1, "legacy", 1), FALSE, FALSE, FALSE, V2Data, <<1, 0, 0, 1, 0, 0>>),
    JobOf(Env("raw", FALSE, 1, 0, 0, 1, "legacy", 1), FALSE, FALSE, FALSE, V2Data, <<2, 2, 0, 0, 4, 2>>)}

\* A model within the guardrails, one with a bounded deficit of active shards,
\* one with a hotspot, and one that is worse than the first.
M(score, cross, hot, active) ==
    [score |-> score, cross |-> cross, hot |-> hot, active |-> active, cost |-> cross]
MCMetrics == {M(1, 2, 1, 20), M(2, 1, 1, 19), M(2, 0, 3, 20), M(0, 3, 1, 21), M(1, 4, 2, 10)}

=============================================================================
