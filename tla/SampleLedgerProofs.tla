------------------------- MODULE SampleLedgerProofs -------------------------
(* The ledger keeps its promise: no sample is used more often than once and   *)
(* once more for every update that was cut short.                             *)
EXTENDS SampleLedger, TLAPS

LedgerTypeOK ==
    /\ known \subseteq SampleId
    /\ waiting \subseteq known
    /\ buffered \subseteq known
    /\ used \in [SampleId -> Nat]
    /\ interrupted \in Nat

\* The inductive invariant: what was never collected was never used either, so
\* a sample enters the ledger unused.
LedgerInv ==
    /\ LedgerTypeOK
    /\ \A i \in SampleId \ known : used[i] = 0
    /\ UsedOnce

LEMMA LedgerStarts == LedgerInit => LedgerInv
  BY DEF LedgerInit, LedgerInv, LedgerTypeOK, UsedOnce

\* A new sample waits, unused.
LEMMA CollectKeeps ==
    ASSUME LedgerInv, NEW i \in SampleId, Collect(i)
    PROVE  LedgerInv'
  BY DEF LedgerInv, LedgerTypeOK, UsedOnce, Collect

\* What is handed over was unused, and leaves those that wait.
LEMMA TransferKeeps ==
    ASSUME LedgerInv, NEW H \in SUBSET waiting, NEW L \in SUBSET (waiting \cup buffered),
           Transfer(H, L)
    PROVE  LedgerInv'
<1>1. LedgerTypeOK' /\ \A i \in SampleId \ known' : used'[i] = 0
  BY DEF LedgerInv, LedgerTypeOK, Transfer
<1>2. UsedOnce'
  BY DEF LedgerInv, LedgerTypeOK, UsedOnce, Transfer
<1> QED
  BY <1>1, <1>2 DEF LedgerInv

\* An update counts once for buffered samples, of which none waits.
LEMMA UseCounts ==
    ASSUME LedgerInv, NEW B \in SUBSET buffered, UsedUp(B)
    PROVE  /\ used' \in [SampleId -> Nat]
           /\ \A i \in SampleId : used'[i] <= used[i] + 1
           /\ \A i \in SampleId \ B : used'[i] = used[i]
  BY DEF LedgerInv, LedgerTypeOK, UsedUp

LEMMA UpdateKeeps ==
    ASSUME LedgerInv, NEW B \in SUBSET buffered, Update(B)
    PROVE  LedgerInv'
<1>1. UsedUp(B)
  BY DEF Update
<1>2. /\ used' \in [SampleId -> Nat]
      /\ \A i \in SampleId : used'[i] <= used[i] + 1
      /\ \A i \in SampleId \ B : used'[i] = used[i]
  BY <1>1, UseCounts
<1>3. LedgerTypeOK' /\ \A i \in SampleId \ known' : used'[i] = 0
  BY <1>2 DEF LedgerInv, LedgerTypeOK, Update
<1>4. \A i \in SampleId : used'[i] <= 1 + interrupted'
  BY <1>2 DEF LedgerInv, LedgerTypeOK, UsedOnce, Update
<1>5. \A i \in waiting' : used'[i] = 0 /\ i \notin buffered'
  BY <1>2 DEF LedgerInv, LedgerTypeOK, UsedOnce, Update
<1>6. \A i \in buffered' : used'[i] <= interrupted'
  BY <1>2 DEF LedgerInv, LedgerTypeOK, UsedOnce, Update
<1> QED
  BY <1>3, <1>4, <1>5, <1>6 DEF LedgerInv, UsedOnce

\* A sample that an interrupted update leaves is paid for by its counter.
LEMMA CutShortKeeps ==
    ASSUME LedgerInv, NEW B \in SUBSET buffered, NEW left \in SUBSET B, CutShort(B, left)
    PROVE  LedgerInv'
<1>1. UsedUp(B)
  BY DEF CutShort
<1>2. /\ used' \in [SampleId -> Nat]
      /\ \A i \in SampleId : used'[i] <= used[i] + 1
      /\ \A i \in SampleId \ B : used'[i] = used[i]
  BY <1>1, UseCounts
<1>3. LedgerTypeOK' /\ \A i \in SampleId \ known' : used'[i] = 0
  BY <1>2 DEF LedgerInv, LedgerTypeOK, CutShort
<1>4. \A i \in SampleId : used'[i] <= 1 + interrupted'
  BY <1>2 DEF LedgerInv, LedgerTypeOK, UsedOnce, CutShort
<1>5. \A i \in waiting' : used'[i] = 0 /\ i \notin buffered'
  BY <1>2 DEF LedgerInv, LedgerTypeOK, UsedOnce, CutShort
<1>6. \A i \in buffered' : used'[i] <= interrupted'
  BY <1>2 DEF LedgerInv, LedgerTypeOK, UsedOnce, CutShort
<1> QED
  BY <1>3, <1>4, <1>5, <1>6 DEF LedgerInv, UsedOnce

\* Every specification that implements the ledger uses a sample once, and once
\* more for every update that was cut short (HandleBlockInfo, run_update).
THEOREM SamplesUsedOnce == LedgerSpec => []UsedOnce
<1>1. LedgerInit => LedgerInv
  BY LedgerStarts
<1>2. LedgerInv /\ [LedgerNext]_ledgerVars => LedgerInv'
  <2> SUFFICES ASSUME LedgerInv, [LedgerNext]_ledgerVars PROVE LedgerInv'
    OBVIOUS
  <2>1. ASSUME NEW i \in SampleId, Collect(i) PROVE LedgerInv'
    BY <2>1, CollectKeeps
  <2>2. ASSUME NEW H \in SUBSET waiting, NEW L \in SUBSET (waiting \cup buffered),
               Transfer(H, L)
        PROVE  LedgerInv'
    BY <2>2, TransferKeeps
  <2>3. ASSUME NEW B \in SUBSET buffered, Update(B) PROVE LedgerInv'
    BY <2>3, UpdateKeeps
  <2>4. ASSUME NEW B \in SUBSET buffered, NEW left \in SUBSET B, CutShort(B, left)
        PROVE  LedgerInv'
    BY <2>4, CutShortKeeps
  <2>5. CASE UNCHANGED ledgerVars
    BY <2>5 DEF ledgerVars, LedgerInv, LedgerTypeOK, UsedOnce
  <2> QED
    BY <2>1, <2>2, <2>3, <2>4, <2>5 DEF LedgerNext
<1>3. LedgerInv => UsedOnce
  BY DEF LedgerInv
<1> QED
  BY <1>1, <1>2, <1>3, PTL DEF LedgerSpec

=============================================================================
