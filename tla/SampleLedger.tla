---------------------------- MODULE SampleLedger ----------------------------
(* What online training promises about its samples, whatever processes and    *)
(* files lie in between: a sample waits until it is handed over, is handed    *)
(* over once, and takes part in one update; only an update that is cut short  *)
(* after it saved its model may leave samples for another one.  Samples may   *)
(* be lost at any time.                                                       *)
EXTENDS Naturals

CONSTANT SampleId

VARIABLES
    known,          \* samples collected so far
    waiting,        \* samples that are not handed over
    buffered,       \* samples handed over and not used up
    used,           \* how many updates each sample was part of
    interrupted     \* how many updates were cut short

ledgerVars == <<known, waiting, buffered, used, interrupted>>

LedgerInit ==
    /\ known = {} /\ waiting = {} /\ buffered = {}
    /\ used = [i \in SampleId |-> 0]
    /\ interrupted = 0

Collect(i) ==
    /\ i \notin known
    /\ known' = known \cup {i}
    /\ waiting' = waiting \cup {i}
    /\ UNCHANGED <<buffered, used, interrupted>>

\* Samples are handed over, and samples are lost.
Transfer(H, L) ==
    /\ waiting' = waiting \ (H \cup L)
    /\ buffered' = (buffered \cup H) \ L
    /\ UNCHANGED <<known, used, interrupted>>

\* An update with the samples B, which are used up.
UsedUp(B) == used' = [i \in SampleId |-> IF i \in B THEN used[i] + 1 ELSE used[i]]
Update(B) ==
    /\ UsedUp(B)
    /\ buffered' = buffered \ B
    /\ UNCHANGED <<known, waiting, interrupted>>

\* An update with the samples B that is cut short, so that some are left.
CutShort(B, left) ==
    /\ UsedUp(B)
    /\ buffered' = (buffered \ B) \cup left
    /\ interrupted' = interrupted + 1
    /\ UNCHANGED <<known, waiting>>

LedgerNext ==
    \/ \E i \in SampleId : Collect(i)
    \/ \E H \in SUBSET waiting, L \in SUBSET (waiting \cup buffered) : Transfer(H, L)
    \/ \E B \in SUBSET buffered : Update(B)
    \/ \E B \in SUBSET buffered : \E left \in SUBSET B : CutShort(B, left)

LedgerSpec == LedgerInit /\ [][LedgerNext]_ledgerVars

\* A sample is part of one update, and of one more for every update that was
\* cut short; a sample that waits was part of none, and one that is buffered
\* of an earlier one only if an update was cut short (run_update).
UsedOnce ==
    /\ \A i \in SampleId : used[i] <= 1 + interrupted
    /\ \A i \in waiting : used[i] = 0 /\ i \notin buffered
    /\ \A i \in buffered : used[i] <= interrupted

=============================================================================
