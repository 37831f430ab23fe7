------------------------ MODULE PbftConsensusProofs ------------------------
(***************************************************************************)
(* Proofs about PbftConsensus for every number of nodes and every bound.   *)
(***************************************************************************)
EXTENDS PbftConsensus, FiniteSetTheorems, TLAPS

-----------------------------------------------------------------------------
(* Facts about the operators.                                              *)

\* The constructors build messages.
LEMMA MessageTypes ==
    /\ \A t \in Live, s \in SeqNo, d \in Digest : PrePrepareMsg(t, s, d) \in Message
    /\ \A t \in Live, s \in SeqNo, d \in Digest, n \in Node :
         PrepareMsg(t, s, d, n) \in Message /\ CommitMsg(t, s, d, n) \in Message
    /\ \A t \in Live, v \in Node, s \in SeqNo, n \in Node :
         ViewChangeMsg(t, v, s, n) \in Message /\ NewViewMsg(t, v, s, n) \in Message
    /\ \A t \in Live, lo \in SeqNo, hi \in SeqNo, n \in Node :
         RequestOldMsg(t, lo, hi, n) \in Message
    /\ \A t \in Live, lo \in SeqNo, hi \in SeqNo, rs \in Seq(Digest) :
         SendOldMsg(t, lo, hi, rs) \in Message
  BY DEF Message, PrePrepareMsg, PrepareMsg, CommitMsg, ViewChangeMsg,
         NewViewMsg, RequestOldMsg, SendOldMsg

\* The fields of a message by its type.
LEMMA MessageFields ==
    ASSUME NEW m \in Message
    PROVE  /\ m.type \in MessageType
           /\ m.to \in Live
           /\ m.type \in Tracked => m.seqID \in SeqNo /\ m.digest \in Digest
           /\ m.type \in {"Prepare", "Commit"} => m.from \in Node
           /\ m.type \in {"ViewChange", "NewView"} =>
                m.nextView \in Node /\ m.seqID \in SeqNo /\ m.from \in Node
           /\ m.type = "RequestOld" =>
                m.start \in SeqNo /\ m.end \in SeqNo /\ m.from \in Node
           /\ m.type = "SendOld" =>
                m.start \in SeqNo /\ m.end \in SeqNo /\ m.reqs \in Seq(Digest)
  BY DEF Message, Tracked, MessageType

\* A vote added to the vote map of a node.
LEMMA AddElement ==
    ASSUME NEW S, NEW f \in [Node -> SUBSET S], NEW n \in Node, NEW x \in S
    PROVE  [f EXCEPT ![n] = @ \cup {x}] \in [Node -> SUBSET S]
  OBVIOUS

\* Nodes and quorums are numbers.
LEMMA NodeFacts ==
    /\ Node \subseteq Nat
    /\ 0 \in Node
    /\ Live \subseteq Node
    /\ malicious_nums \in Nat
    /\ Quorum \in Nat
    /\ \A type : Reach(type) \subseteq Live
    /\ \A v \in Node : (v + 1) % N \in Node
  BY ConstantsAssumption DEF Node, Live, malicious_nums, Quorum, Reach

\* What a broadcast puts on the network are messages.
LEMMA Broadcasts ==
    /\ \A s \in SeqNo, d \in Digest :
         {PrePrepareMsg(t, s, d) : t \in Reach("PrePrepare")} \subseteq Message
    /\ \A s \in SeqNo, d \in Digest, n \in Node :
         /\ {PrepareMsg(t, s, d, n) : t \in Reach("Prepare")} \subseteq Message
         /\ {CommitMsg(t, s, d, n) : t \in Reach("Commit")} \subseteq Message
    /\ \A v \in Node, s \in SeqNo, n \in Node :
         /\ {ViewChangeMsg(t, v, s, n) : t \in Reach("ViewChange")}
              \subseteq Message
         /\ {NewViewMsg(t, v, s, n) : t \in Reach("NewView")} \subseteq Message
    /\ \A v \in Node, lo \in SeqNo, hi \in SeqNo, n \in Node :
         {RequestOldMsg(t, lo, hi, n) : t \in {v} \cap Reach("RequestOld")}
           \subseteq Message
  <1>1. \A type : Reach(type) \subseteq Live
    BY DEF Reach
  <1>2. QED
    BY <1>1, MessageTypes

\* A handler that can run is a handler, of a node that runs.
LEMMA RunnableHandler ==
    ASSUME TypeOK, NEW n \in Node, NEW h \in Runnable(n)
    PROVE  /\ h \in Handler
           /\ Rest(n, h) \subseteq Message
           /\ Rest(n, h) \subseteq net
  <1>1. h \in woken[n] \cup Started(n)
    BY DEF Runnable
  <1>2. woken[n] \subseteq Handler /\ net \subseteq Message /\ view[n] \in Node
    BY DEF TypeOK
  <1>3. h \in Handler
    BY <1>1, <1>2 DEF Started, Handler
  <1>4. QED
    BY <1>2, <1>3 DEF Rest

-----------------------------------------------------------------------------
(* Type correctness.                                                       *)

LEMMA TypeInit == Init => TypeOK
  BY NodeFacts, ConstantsAssumption DEF Init, TypeOK, SeqNo, Digest

\* The answer to a request for old blocks is a message.
LEMMA AnswerType ==
    ASSUME TypeOK, NEW n \in Node, NEW m \in net, RequestOldAnswered(n, m)
    PROVE  net' \subseteq Message
  <1>1. m.start \in SeqNo /\ m.end \in SeqNo /\ m.from \in Live
    BY MessageFields DEF RequestOldAnswered, Delivered, Reach, TypeOK
  <1>2. PICK last \in m.start .. m.end :
          /\ \A s \in m.start .. last : Held(n, s) # {}
          /\ net' = (net \ {m}) \cup
               {SendOldMsg(m.from, m.start, last,
                           [i \in 1 .. last - m.start + 1 |->
                              CHOOSE d \in Held(n, m.start + i - 1) : TRUE])}
    BY DEF RequestOldAnswered
  <1> DEFINE pick(i) == CHOOSE d \in Held(n, m.start + i - 1) : TRUE
             reqs == [i \in 1 .. last - m.start + 1 |-> pick(i)]
  <1>3. last \in SeqNo /\ last - m.start + 1 \in Nat
    BY <1>1, <1>2 DEF SeqNo
  <1>4. ASSUME NEW i \in 1 .. last - m.start + 1 PROVE pick(i) \in Digest
    <2>1. m.start + i - 1 \in m.start .. last
      BY <1>1, <1>3 DEF SeqNo
    <2>2. Held(n, m.start + i - 1) # {}
      BY <1>2, <2>1
    <2>3. Held(n, m.start + i - 1) \subseteq Digest
      BY DEF Held, Stored, TypeOK
    <2> QED
      BY <2>2, <2>3
  <1> HIDE DEF pick
  <1>5. reqs \in Seq(Digest)
    BY <1>3, <1>4
  <1>6. SendOldMsg(m.from, m.start, last, reqs) \in Message
    BY <1>1, <1>3, <1>5, MessageTypes
  <1> QED
    BY <1>2, <1>6 DEF pick, TypeOK

\* A call of AddBlock names its caller and a chain of requests.
LEMMA AddCallType ==
    ASSUME TypeOK, NEW n \in Node, NEW d \in Digest,
           NEW f \in {"handleCommit", "handleSendOldSeq"}
    PROVE  AddBlockCall(n, f, d) \in AddCall
  <1>1. chain[n] \in Seq(Digest)
    BY DEF TypeOK
  <1>2. Append(chain[n], d) \in Seq(Digest) /\ Append(chain[n], d) # << >>
    BY <1>1
  <1> QED
    BY <1>2 DEF AddBlockCall, AddCall

\* A stored block changes neither the caller nor the head of its call.
LEMMA StoredCall ==
    ASSUME TypeOK, NEW n \in Node, NEW a \in adding[n]
    PROVE  /\ [a EXCEPT !.stored = TRUE] \in AddCall
           /\ [a EXCEPT !.stored = TRUE].by = a.by
           /\ [a EXCEPT !.stored = TRUE].head = a.head
  <1>1. a \in AddCall
    BY DEF TypeOK
  <1>2. \A b \in AddCall : /\ [b EXCEPT !.stored = TRUE] \in AddCall
                           /\ [b EXCEPT !.stored = TRUE].by = b.by
                           /\ [b EXCEPT !.stored = TRUE].head = b.head
    <2> TAKE b \in AddCall
    <2>1. \A X : [b EXCEPT !.stored = TRUE] \in
                 [by : {"handleCommit", "handleSendOldSeq"}, head : X,
                  stored : BOOLEAN] <=> b.head \in X
      BY DEF AddCall
    <2> QED
      BY <2>1 DEF AddCall
  <1> QED
    BY <1>1, <1>2

\* The answer that a node handles.
LEMMA RecoveryFields ==
    ASSUME TypeOK, NEW n \in Node, NEW r \in recovering[n]
    PROVE  /\ r \in Recovery
           /\ r.msg \in Message /\ r.msg.type = "SendOld"
           /\ r.msg.start \in SeqNo /\ r.msg.end \in SeqNo
           /\ r.msg.reqs \in Seq(Digest)
           /\ r.added \in Nat
  <1>1. r \in Recovery
    BY DEF TypeOK
  <1>2. r.msg \in Message /\ r.msg.type = "SendOld" /\ r.added \in Nat
    BY <1>1 DEF Recovery
  <1> QED
    BY <1>1, <1>2, MessageFields

\* The handler of an answer moves on with the same answer.
LEMMA MovesType ==
    ASSUME TypeOK, NEW n \in Node, NEW r \in recovering[n],
           NEW stage \in RecoveryStage, RecoveryMoves(n, r, stage)
    PROVE  recovering' \in [Node -> SUBSET Recovery]
  <1>1. [r EXCEPT !.stage = stage] \in Recovery
    BY RecoveryFields DEF Recovery
  <1> QED
    BY <1>1 DEF RecoveryMoves, TypeOK

\* Requests of an answer are filed under sequence numbers.
LEMMA FiledType ==
    ASSUME TypeOK, NEW n \in Node, NEW r \in recovering[n], FileRequests(n, r)
    PROVE  /\ height2Digest' \in [Node -> SUBSET (SeqNo \X Digest)]
           /\ requestPool' \in [Node -> SUBSET Digest]
           /\ isReply' \in [Node -> SUBSET Digest]
  <1> DEFINE m == r.msg
             filed == {<<HeightOf(m, i), m.reqs[i]>> : i \in 1 .. Len(m.reqs)}
             got == {m.reqs[i] : i \in 1 .. Len(m.reqs)}
             h2d == {p \in height2Digest[n] : p[1] \notin m.start .. m.end}
                      \cup filed
  <1>1. m.start \in SeqNo /\ m.reqs \in Seq(Digest)
    BY RecoveryFields
  <1>2. filed \subseteq SeqNo \X Digest
    <2>1. ASSUME NEW i \in 1 .. Len(m.reqs)
          PROVE  HeightOf(m, i) \in SeqNo /\ m.reqs[i] \in Digest
      BY <1>1 DEF SeqNo, HeightOf
    <2> QED
      BY <2>1
  <1>3. h2d \in SUBSET (SeqNo \X Digest)
    BY <1>2 DEF TypeOK
  <1>4. height2Digest' = [height2Digest EXCEPT ![n] = h2d]
    BY DEF FileRequests
  <1>5. got \subseteq Digest
    BY <1>1
  <1>6. /\ requestPool' = [requestPool EXCEPT ![n] = @ \cup got]
        /\ isReply' = [isReply EXCEPT ![n] = @ \cup got]
    BY DEF FileRequests
  <1> HIDE DEF h2d, got
  <1> QED
    BY <1>3, <1>4, <1>5, <1>6 DEF TypeOK

\* What is sent at the end of a recovery: prepares of requests of the pool.
LEMMA InstalledSends ==
    ASSUME TypeOK, NEW n \in Node, NEW r, SendOldInstalled(n, r)
    PROVE  \E valid \in SUBSET requestPool[n] :
              net' = net \cup {PrepareMsg(t, sequenceID[n], d, n) :
                                 t \in Reach("Prepare") \ {n}, d \in valid}
  <1> DEFINE valid == {d \in Held(n, sequenceID[n]) : IsValidBlock(n, d)}
  <1>1. net' = net \cup {PrepareMsg(t, sequenceID[n], d, n) :
                           t \in Reach("Prepare") \ {n}, d \in valid}
    BY DEF SendOldInstalled
  <1>2. valid \in SUBSET requestPool[n]
    BY DEF Held, Stored
  <1> HIDE DEF valid
  <1> QED
    BY <1>1, <1>2

LEMMA TypeNext == TypeOK /\ [Next]_vars => TypeOK'
  <1> SUFFICES ASSUME TypeOK, [Next]_vars PROVE TypeOK'
    OBVIOUS
  <1>1. ASSUME NEW n \in Node, BeginRound(n)
        PROVE  TypeOK'
    <2>1. UNCHANGED <<committing, recovering, adding, executed,
          view, sequenceID, pbftStage, requestPool, height2Digest,
          cntPrepareConfirm, cntCommitConfirm, isCommitBordcast, isReply,
          viewChangeMap, newViewMap, sequenceLock, askForLock, chain, storing,
          waiting, woken, askBlocked, fatal, net, minted, parentOf, timeouts,
          newViews>>
      BY <1>1 DEF BeginRound, nodeVars, applying, voteMaps, handlers,
         blockVars, counters
    <2>2. proposers' \in [Node -> Nat]
      BY <1>1 DEF BeginRound, TypeOK
    <2> QED
      BY <2>1, <2>2 DEF TypeOK
  <1>2. ASSUME NEW n \in Node, Propose(n)
        PROVE  TypeOK'
    <2>1. UNCHANGED <<committing, recovering, adding, executed,
          view, sequenceID, pbftStage, cntPrepareConfirm,
          cntCommitConfirm, isCommitBordcast, isReply, viewChangeMap,
          newViewMap, askForLock, chain, waiting, woken, askBlocked, fatal,
          timeouts, newViews>>
      BY <1>2 DEF Propose, SetHeight, nodeVars, applying, voteMaps, handlers,
         blockVars, counters
    <2>2. minted + 1 \in Digest /\ minted + 1 \in 0 .. MaxBlocks
      BY <1>2, ConstantsAssumption DEF Propose, TypeOK, Digest
    <2>3. HeadOf(chain[n]) \in 0 .. MaxBlocks
      BY ConstantsAssumption DEF HeadOf, TypeOK, Digest
    <2>4. sequenceID[n] \in SeqNo
      BY DEF TypeOK
    <2>5. minted' \in 0 .. MaxBlocks
      BY <1>2, <2>2, <2>3, <2>4 DEF Propose, TypeOK
    <2>6. parentOf' \in [Digest -> 0 .. MaxBlocks]
      BY <1>2, <2>2, <2>3, <2>4 DEF Propose, TypeOK
    <2>7. requestPool' \in [Node -> SUBSET Digest]
      BY <1>2, <2>2, <2>3, <2>4 DEF Propose, TypeOK
    <2>8. height2Digest' \in [Node -> SUBSET (SeqNo \X Digest)]
      BY <1>2, <2>2, <2>3, <2>4 DEF Propose, SetHeight, TypeOK
    <2>9. net' \subseteq Message
      BY <1>2, Broadcasts, <2>2, <2>3, <2>4 DEF Propose, TypeOK
    <2>10. sequenceLock' \in [Node -> BOOLEAN]
      BY <1>2, <2>2, <2>3, <2>4 DEF Propose, SetHeight, TypeOK
    <2>11. proposers' \in [Node -> Nat]
      BY <1>2, <2>2, <2>3, <2>4 DEF Propose, SetHeight, TypeOK
    <2>12. storing' \in [Node -> Nat]
      BY <1>2, <2>2, <2>3, <2>4 DEF Propose, SetHeight, TypeOK
    <2> QED
      BY <2>1, <2>5, <2>6, <2>7, <2>8, <2>9, <2>10, <2>11, <2>12 DEF TypeOK
  <1>3. ASSUME NEW n \in Node, StoreStage(n)
        PROVE  TypeOK'
    <2>1. UNCHANGED <<committing, recovering, adding, executed,
          view, sequenceID, requestPool, height2Digest,
          cntPrepareConfirm, cntCommitConfirm, isCommitBordcast, isReply,
          viewChangeMap, newViewMap, sequenceLock, askForLock, chain,
          proposers, waiting, woken, askBlocked, fatal, net, minted, parentOf,
          timeouts, newViews>>
      BY <1>3 DEF StoreStage, nodeVars, applying, voteMaps, handlers,
         blockVars, counters
    <2>2. storing' \in [Node -> Nat]
      BY <1>3 DEF StoreStage, TypeOK
    <2>3. pbftStage' \in [Node -> SeqNo]
      BY <1>3 DEF StoreStage, TypeOK, SeqNo
    <2> QED
      BY <2>1, <2>2, <2>3 DEF TypeOK
  <1>4. ASSUME NEW n \in Node, viewChangePropose(n)
        PROVE  TypeOK'
    <2>1. UNCHANGED <<committing, recovering, adding, executed,
          view, sequenceID, requestPool, height2Digest,
          cntPrepareConfirm, cntCommitConfirm, isCommitBordcast, isReply,
          viewChangeMap, newViewMap, sequenceLock, askForLock, chain,
          proposers, storing, waiting, woken, askBlocked, fatal, minted,
          parentOf, newViews>>
      BY <1>4 DEF viewChangePropose, NextView, nodeVars, applying, voteMaps,
         handlers, blockVars, counters
    <2>2. NextView(n) \in Node /\ sequenceID[n] \in SeqNo
      BY NodeFacts DEF NextView, TypeOK
    <2>3. timeouts' \in 0 .. MaxTimeouts
      BY <1>4, ConstantsAssumption, <2>2 DEF viewChangePropose, TypeOK
    <2>4. pbftStage' \in [Node -> SeqNo]
      BY <1>4, <2>2 DEF viewChangePropose, NextView, TypeOK, SeqNo
    <2>5. net' \subseteq Message
      BY <1>4, Broadcasts, <2>2 DEF viewChangePropose, TypeOK
    <2> QED
      BY <2>1, <2>3, <2>4, <2>5 DEF TypeOK
  <1>5. ASSUME NEW n \in Node, NEW h \in Runnable(n), Park(n, h)
        PROVE  TypeOK'
    <2>1. UNCHANGED <<committing, recovering, adding, executed,
          view, sequenceID, pbftStage, requestPool, height2Digest,
          cntPrepareConfirm, cntCommitConfirm, isCommitBordcast, isReply,
          viewChangeMap, newViewMap, sequenceLock, askForLock, chain,
          proposers, storing, askBlocked, fatal, minted, parentOf, timeouts,
          newViews>>
      BY <1>5 DEF Park, nodeVars, applying, voteMaps, handlers, blockVars,
         counters
    <2>2. h \in Handler /\ Rest(n, h) \subseteq Message
      BY RunnableHandler
    <2>3. woken' \in [Node -> SUBSET Handler]
      BY <1>5, <2>2 DEF Park, TypeOK
    <2>4. waiting' \in [Node -> SUBSET Handler]
      BY <1>5, <2>2 DEF Park, TypeOK
    <2>5. net' \subseteq Message
      BY <1>5, <2>2 DEF Park, TypeOK
    <2> QED
      BY <2>1, <2>3, <2>4, <2>5 DEF TypeOK
  <1>6. ASSUME NEW n \in Node, NEW h \in Runnable(n), Discard(n, h)
        PROVE  TypeOK'
    <2>1. UNCHANGED <<committing, recovering, adding, executed,
          view, sequenceID, pbftStage, requestPool, height2Digest,
          cntPrepareConfirm, cntCommitConfirm, isCommitBordcast, isReply,
          viewChangeMap, newViewMap, sequenceLock, askForLock, chain,
          proposers, storing, askBlocked, fatal, minted, parentOf, timeouts,
          newViews>>
      BY <1>6 DEF Discard, Return, nodeVars, applying, voteMaps, handlers,
         blockVars, counters
    <2>2. h \in Handler /\ Rest(n, h) \subseteq Message
      BY RunnableHandler
    <2>3. net' \subseteq Message
      BY <1>6, <2>2 DEF Discard, Return, TypeOK
    <2>4. woken' \in [Node -> SUBSET Handler]
      BY <1>6, <2>2 DEF Discard, Return, TypeOK
    <2>5. waiting' \in [Node -> SUBSET Handler]
      BY <1>6, <2>2 DEF Discard, Return, TypeOK
    <2> QED
      BY <2>1, <2>3, <2>4, <2>5 DEF TypeOK
  <1>7. ASSUME NEW n \in Node, NEW h \in Runnable(n), handlePrePrepare(n, h)
        PROVE  TypeOK'
    <2>1. UNCHANGED <<committing, recovering, adding, executed,
          view, sequenceID, cntPrepareConfirm, cntCommitConfirm,
          isCommitBordcast, isReply, viewChangeMap, newViewMap, sequenceLock,
          askForLock, chain, proposers, storing, askBlocked, fatal, minted,
          parentOf, timeouts, newViews>>
      BY <1>7 DEF handlePrePrepare, Return, SetHeight, nodeVars, applying,
         voteMaps, handlers, blockVars, counters
    <2>2. h \in Handler /\ Rest(n, h) \subseteq Message
      BY RunnableHandler
    <2>3. h.msg.seqID \in SeqNo /\ h.msg.digest \in Digest
      BY <2>2, MessageFields DEF Handler
    <2>4. requestPool' \in [Node -> SUBSET Digest]
      BY <1>7, <2>2, <2>3 DEF handlePrePrepare, Return, SetHeight, TypeOK
    <2>5. height2Digest' \in [Node -> SUBSET (SeqNo \X Digest)]
      BY <1>7, <2>2, <2>3 DEF handlePrePrepare, Return, SetHeight, TypeOK
    <2>6. net' \subseteq Message
      <3>1. PICK sent : sent = {PrepareMsg(t, h.msg.seqID, h.msg.digest, n) :
                                  t \in Reach("Prepare")}
        OBVIOUS
      <3>2. net' \subseteq Rest(n, h) \cup sent
        BY <1>7, <3>1 DEF handlePrePrepare
      <3>3. sent \subseteq Message
        BY <2>3, <3>1, Broadcasts
      <3> QED
        BY <2>2, <3>2, <3>3
    <2>7. pbftStage' \in [Node -> SeqNo]
      BY <1>7, <2>2, <2>3 DEF handlePrePrepare, Return, SetHeight, TypeOK,
            SeqNo
    <2>8. woken' \in [Node -> SUBSET Handler]
      BY <1>7, <2>2, <2>3 DEF handlePrePrepare, Return, SetHeight, TypeOK
    <2>9. waiting' \in [Node -> SUBSET Handler]
      BY <1>7, <2>2, <2>3 DEF handlePrePrepare, Return, SetHeight, TypeOK
    <2> QED
      BY <2>1, <2>4, <2>5, <2>6, <2>7, <2>8, <2>9 DEF TypeOK
  <1>8. ASSUME NEW n \in Node, NEW h \in Runnable(n), handlePrepare(n, h)
        PROVE  TypeOK'
    <2>1. UNCHANGED <<committing, recovering, adding, executed,
          view, sequenceID, requestPool, height2Digest,
          cntCommitConfirm, isReply, viewChangeMap, newViewMap, sequenceLock,
          askForLock, chain, proposers, storing, askBlocked, fatal, minted,
          parentOf, timeouts, newViews>>
      BY <1>8 DEF handlePrepare, Return, nodeVars, applying, voteMaps,
         handlers, blockVars, counters
    <2>2. h \in Handler /\ Rest(n, h) \subseteq Message
      BY RunnableHandler
    <2>3. h.msg.seqID \in SeqNo /\ h.msg.digest \in Digest
      BY <2>2, MessageFields DEF Handler
    <2>4. h.msg.from \in Node
      BY <1>8, <2>2, MessageFields DEF handlePrepare, Proceeds, Handler
    <2>5. cntPrepareConfirm' \in [Node -> SUBSET (Digest \X Node)]
      BY <1>8, <2>2, <2>3, <2>4 DEF handlePrepare, Return, TypeOK
    <2>6. isCommitBordcast' \in [Node -> SUBSET Digest]
      BY <1>8, <2>2, <2>3, <2>4 DEF handlePrepare, Return, TypeOK
    <2>7. net' \subseteq Message
      <3>1. PICK sent : sent = {CommitMsg(t, h.msg.seqID, h.msg.digest, n) :
                                  t \in Reach("Commit")}
        OBVIOUS
      <3>2. net' \subseteq Rest(n, h) \cup sent
        BY <1>8, <3>1 DEF handlePrepare
      <3>3. sent \subseteq Message
        BY <2>3, <3>1, Broadcasts
      <3> QED
        BY <2>2, <3>2, <3>3
    <2>8. pbftStage' \in [Node -> SeqNo]
      BY <1>8, <2>2, <2>3, <2>4 DEF handlePrepare, Return, TypeOK, SeqNo
    <2>r. Return(n, h)
      BY <1>8 DEF handlePrepare
    <2>9. woken' \in [Node -> SUBSET Handler]
      BY <2>2, <2>r DEF Return, TypeOK
    <2>10. waiting' \in [Node -> SUBSET Handler]
      BY <2>2, <2>r DEF Return, TypeOK
    <2> QED
      BY <2>1, <2>5, <2>6, <2>7, <2>8, <2>9, <2>10 DEF TypeOK
  <1>9. ASSUME NEW n \in Node, NEW h \in Runnable(n), CommitVoteOnly(n, h)
        PROVE  TypeOK'
    <2>1. UNCHANGED <<committing, recovering, adding, executed,
          view, sequenceID, pbftStage, requestPool, height2Digest,
          cntPrepareConfirm, isCommitBordcast, isReply, viewChangeMap,
          newViewMap, sequenceLock, askForLock, chain, proposers, storing,
          askBlocked, fatal, minted, parentOf, timeouts, newViews>>
      BY <1>9 DEF CommitVoteOnly, Return, AddCommitVote, WithVote, nodeVars,
         applying, voteMaps, handlers, blockVars, counters
    <2>2. h \in Handler /\ Rest(n, h) \subseteq Message
      BY RunnableHandler
    <2>3. h.msg.seqID \in SeqNo /\ h.msg.digest \in Digest
      BY <2>2, MessageFields DEF Handler
    <2>4. h.msg.from \in Node
      BY <1>9, <2>2, MessageFields DEF CommitVoteOnly, Proceeds, Handler
    <2>5. cntCommitConfirm' \in [Node -> SUBSET (Digest \X Node)]
      BY <1>9, <2>2, <2>3, <2>4 DEF CommitVoteOnly, Return, AddCommitVote,
            WithVote, TypeOK
    <2>6. net' \subseteq Message
      BY <1>9, <2>2, <2>3, <2>4 DEF CommitVoteOnly, Return, AddCommitVote,
            WithVote, TypeOK
    <2>7. woken' \in [Node -> SUBSET Handler]
      BY <1>9, <2>2, <2>3, <2>4 DEF CommitVoteOnly, Return, AddCommitVote,
            WithVote, TypeOK
    <2>8. waiting' \in [Node -> SUBSET Handler]
      BY <1>9, <2>2, <2>3, <2>4 DEF CommitVoteOnly, Return, AddCommitVote,
            WithVote, TypeOK
    <2> QED
      BY <2>1, <2>5, <2>6, <2>7, <2>8 DEF TypeOK
  <1>10. ASSUME NEW n \in Node, NEW h \in Runnable(n), CommitBlock(n, h)
        PROVE  TypeOK'
    <2>1. UNCHANGED <<view, sequenceID, pbftStage, requestPool, height2Digest,
          cntPrepareConfirm, isCommitBordcast, isReply, viewChangeMap,
          newViewMap, sequenceLock, askForLock, chain, proposers, storing,
          waiting, askBlocked, recovering, executed, fatal, minted, parentOf,
          timeouts, newViews>>
      BY <1>10 DEF CommitBlock, voteMaps, blockVars, counters
    <2>2. h \in Handler /\ Rest(n, h) \subseteq Message
      BY RunnableHandler
    <2>3. h.msg.digest \in Digest /\ h.msg.from \in Node
      BY <1>10, <2>2, MessageFields DEF CommitBlock, Proceeds, Handler
    <2>4. cntCommitConfirm' \in [Node -> SUBSET (Digest \X Node)]
      BY <1>10, <2>3 DEF CommitBlock, AddCommitVote, WithVote, TypeOK
    <2>5. adding' \in [Node -> SUBSET AddCall]
      <3>1. PICK a : a = AddBlockCall(n, "handleCommit", h.msg.digest)
        OBVIOUS
      <3>2. a \in AddCall
        BY <2>3, <3>1, AddCallType
      <3>3. adding' = [adding EXCEPT ![n] = @ \cup {a}]
        BY <1>10, <3>1 DEF CommitBlock
      <3> QED
        BY <3>2, <3>3 DEF TypeOK
    <2>6. committing' \in [Node -> SUBSET Handler]
      BY <1>10, <2>2 DEF CommitBlock, TypeOK
    <2>7. woken' \in [Node -> SUBSET Handler] /\ net' \subseteq Message
      BY <1>10, <2>2 DEF CommitBlock, TypeOK
    <2> QED
      BY <2>1, <2>4, <2>5, <2>6, <2>7 DEF TypeOK
  <1>11. ASSUME NEW n \in Node, NEW h \in Runnable(n), CommitAsk(n, h)
        PROVE  TypeOK'
    <2>1. UNCHANGED <<committing, recovering, adding, executed,
          view, sequenceID, requestPool, height2Digest,
          cntPrepareConfirm, isCommitBordcast, isReply, viewChangeMap,
          newViewMap, chain, proposers, storing, askBlocked, minted, parentOf,
          timeouts, newViews>>
      BY <1>11 DEF CommitAsk, Return, AddCommitVote, WithVote, AskForOld,
         EndRound, nodeVars, applying, voteMaps, handlers, blockVars, counters
    <2>2. h \in Handler /\ Rest(n, h) \subseteq Message
      BY RunnableHandler
    <2>3. h.msg.seqID \in SeqNo /\ h.msg.digest \in Digest
      BY <2>2, MessageFields DEF Handler
    <2>4. h.msg.from \in Node
      BY <1>11, <2>2, MessageFields DEF CommitAsk, Proceeds, Handler
    <2>5. Height(n) + 1 \in SeqNo /\ view[n] \in Node
      BY DEF Height, SeqNo, TypeOK
    <2>6. cntCommitConfirm' \in [Node -> SUBSET (Digest \X Node)]
      BY <1>11, <2>2, <2>3, <2>4, <2>5 DEF CommitAsk, Return, AddCommitVote,
            WithVote, AskForOld, EndRound, TypeOK
    <2>7. askForLock' \in [Node -> BOOLEAN]
      BY <1>11, <2>2, <2>3, <2>4, <2>5 DEF CommitAsk, Return, AddCommitVote,
            WithVote, AskForOld, EndRound, TypeOK
    <2>8. net' \subseteq Message
      BY <1>11, Broadcasts, <2>2, <2>3, <2>4, <2>5 DEF CommitAsk, AskForOld,
            LastAsked, TypeOK
    <2>9. pbftStage' \in [Node -> SeqNo]
      BY <1>11, <2>2, <2>3, <2>4, <2>5 DEF CommitAsk, Return, AddCommitVote,
            WithVote, AskForOld, EndRound, TypeOK, SeqNo
    <2>10. sequenceLock' \in [Node -> BOOLEAN]
      BY <1>11, <2>2, <2>3, <2>4, <2>5 DEF CommitAsk, Return, AddCommitVote,
            WithVote, AskForOld, EndRound, TypeOK
    <2>11. fatal' \subseteq Node
      BY <1>11, <2>2, <2>3, <2>4, <2>5 DEF CommitAsk, Return, AddCommitVote,
            WithVote, AskForOld, EndRound, TypeOK
    <2>12. woken' \in [Node -> SUBSET Handler]
      BY <1>11, <2>2, <2>3, <2>4, <2>5 DEF CommitAsk, Return, AddCommitVote,
            WithVote, AskForOld, EndRound, TypeOK
    <2>13. waiting' \in [Node -> SUBSET Handler]
      BY <1>11, <2>2, <2>3, <2>4, <2>5 DEF CommitAsk, Return, AddCommitVote,
            WithVote, AskForOld, EndRound, TypeOK
    <2> QED
      BY <2>1, <2>6, <2>7, <2>8, <2>9, <2>10, <2>11, <2>12, <2>13 DEF TypeOK
  <1>12. ASSUME NEW n \in Node, NEW h \in Runnable(n), CommitAskBlocks(n, h)
        PROVE  TypeOK'
    <2>1. UNCHANGED <<committing, recovering, adding, executed,
          view, sequenceID, pbftStage, requestPool, height2Digest,
          cntPrepareConfirm, isCommitBordcast, isReply, viewChangeMap,
          newViewMap, sequenceLock, askForLock, chain, proposers, storing,
          waiting, fatal, minted, parentOf, timeouts, newViews>>
      BY <1>12 DEF CommitAskBlocks, AddCommitVote, WithVote, nodeVars,
         applying, voteMaps, handlers, blockVars, counters
    <2>2. h \in Handler /\ Rest(n, h) \subseteq Message
      BY RunnableHandler
    <2>3. h.msg.seqID \in SeqNo /\ h.msg.digest \in Digest
      BY <2>2, MessageFields DEF Handler
    <2>4. h.msg.from \in Node
      BY <1>12, <2>2, MessageFields DEF CommitAskBlocks, Proceeds, Handler
    <2>5. cntCommitConfirm' \in [Node -> SUBSET (Digest \X Node)]
      BY <1>12, <2>2, <2>3, <2>4 DEF CommitAskBlocks, AddCommitVote, WithVote,
            TypeOK
    <2>6. woken' \in [Node -> SUBSET Handler]
      BY <1>12, <2>2, <2>3, <2>4 DEF CommitAskBlocks, AddCommitVote, WithVote,
            TypeOK
    <2>7. net' \subseteq Message
      BY <1>12, <2>2, <2>3, <2>4 DEF CommitAskBlocks, AddCommitVote, WithVote,
            TypeOK
    <2>8. askBlocked' \in [Node -> SUBSET Handler]
      BY <1>12, <2>2, <2>3, <2>4 DEF CommitAskBlocks, AddCommitVote, WithVote,
            TypeOK
    <2> QED
      BY <2>1, <2>5, <2>6, <2>7, <2>8 DEF TypeOK
  <1>13. ASSUME NEW n \in Node, NEW h \in askBlocked[n], CommitAskResumes(n, h)
        PROVE  TypeOK'
    <2>1. UNCHANGED <<committing, recovering, adding, executed,
          view, sequenceID, requestPool, height2Digest,
          cntPrepareConfirm, cntCommitConfirm, isCommitBordcast, isReply,
          viewChangeMap, newViewMap, chain, proposers, storing, minted,
          parentOf, timeouts, newViews>>
      BY <1>13 DEF CommitAskResumes, Return, AskForOld, EndRound, nodeVars,
         applying, voteMaps, handlers, blockVars, counters
    <2>2. h \in Handler
      BY DEF TypeOK
    <2>3. h.msg.seqID \in SeqNo /\ h.msg.digest \in Digest
      BY <2>2, MessageFields DEF Handler
    <2>4. Height(n) + 1 \in SeqNo /\ view[n] \in Node
      BY DEF Height, SeqNo, TypeOK
    <2>5. askForLock' \in [Node -> BOOLEAN]
      BY <1>13, <2>2, <2>3, <2>4 DEF CommitAskResumes, Return, AskForOld,
            EndRound, TypeOK
    <2>6. net' \subseteq Message
      BY <1>13, Broadcasts, <2>2, <2>3, <2>4 DEF CommitAskResumes, AskForOld,
            LastAsked, TypeOK
    <2>7. pbftStage' \in [Node -> SeqNo]
      BY <1>13, <2>2, <2>3, <2>4 DEF CommitAskResumes, Return, AskForOld,
            EndRound, TypeOK, SeqNo
    <2>8. sequenceLock' \in [Node -> BOOLEAN]
      BY <1>13, <2>2, <2>3, <2>4 DEF CommitAskResumes, Return, AskForOld,
            EndRound, TypeOK
    <2>9. fatal' \subseteq Node
      BY <1>13, <2>2, <2>3, <2>4 DEF CommitAskResumes, Return, AskForOld,
            EndRound, TypeOK
    <2>10. askBlocked' \in [Node -> SUBSET Handler]
      BY <1>13, <2>2, <2>3, <2>4 DEF CommitAskResumes, Return, AskForOld,
            EndRound, TypeOK
    <2>11. woken' \in [Node -> SUBSET Handler]
      BY <1>13, <2>2, <2>3, <2>4 DEF CommitAskResumes, Return, AskForOld,
            EndRound, TypeOK
    <2>12. waiting' \in [Node -> SUBSET Handler]
      BY <1>13, <2>2, <2>3, <2>4 DEF CommitAskResumes, Return, AskForOld,
            EndRound, TypeOK
    <2> QED
      BY <2>1, <2>5, <2>6, <2>7, <2>8, <2>9, <2>10, <2>11, <2>12 DEF TypeOK
  <1>14. ASSUME NEW n \in Node, NEW m \in net, RequestOldUnanswered(n, m)
        PROVE  TypeOK'
    <2>1. UNCHANGED <<committing, recovering, adding, executed,
          view, sequenceID, pbftStage, requestPool, height2Digest,
          cntPrepareConfirm, cntCommitConfirm, isCommitBordcast, isReply,
          viewChangeMap, newViewMap, sequenceLock, askForLock, chain,
          proposers, storing, waiting, woken, askBlocked, fatal, minted,
          parentOf, timeouts, newViews>>
      BY <1>14 DEF RequestOldUnanswered, nodeVars, applying, voteMaps,
         handlers, blockVars, counters
    <2>2. net' \subseteq Message
      BY <1>14 DEF RequestOldUnanswered, TypeOK
    <2> QED
      BY <2>1, <2>2 DEF TypeOK
  <1>15. ASSUME NEW n \in Node, NEW m \in net, RequestOldAnswered(n, m)
        PROVE  TypeOK'
    <2>1. UNCHANGED <<committing, recovering, adding, executed,
          view, sequenceID, pbftStage, requestPool, height2Digest,
          cntPrepareConfirm, cntCommitConfirm, isCommitBordcast, isReply,
          viewChangeMap, newViewMap, sequenceLock, askForLock, chain,
          proposers, storing, waiting, woken, askBlocked, fatal, minted,
          parentOf, timeouts, newViews>>
      BY <1>15 DEF RequestOldAnswered, nodeVars, applying, voteMaps, handlers,
            blockVars, counters
    <2>2. m.start \in SeqNo /\ m.end \in SeqNo /\ m.from \in Node
      BY <1>15, MessageFields DEF RequestOldAnswered, Delivered, TypeOK
    <2>3. net' \subseteq Message
      BY <1>15, AnswerType
    <2> QED
      BY <2>1, <2>3 DEF TypeOK
  <1>16. ASSUME NEW n \in Node, NEW m \in net, SendOldArrives(n, m)
        PROVE  TypeOK'
    <2>1. UNCHANGED <<view, sequenceID, pbftStage, requestPool, height2Digest,
          cntPrepareConfirm, cntCommitConfirm, isCommitBordcast, isReply,
          viewChangeMap, newViewMap, sequenceLock, askForLock, chain,
          proposers, storing, waiting, woken, askBlocked, committing, adding,
          executed, fatal, minted, parentOf, timeouts, newViews>>
      BY <1>16 DEF SendOldArrives, nodeVars, voteMaps, handlers, blockVars,
            counters
    <2>2. [msg |-> m, stage |-> "adding", added |-> 0] \in Recovery
      BY <1>16 DEF SendOldArrives, Delivered, Recovery, RecoveryStage, TypeOK
    <2>3. recovering' \in [Node -> SUBSET Recovery] /\ net' \subseteq Message
      BY <1>16, <2>2 DEF SendOldArrives, TypeOK
    <2> QED
      BY <2>1, <2>3 DEF TypeOK
  <1>18. ASSUME NEW n \in Node, NEW m \in net, handleViewChangeMsg(n, m)
        PROVE  TypeOK'
    <2>1. UNCHANGED <<committing, recovering, adding, executed,
          view, sequenceID, pbftStage, requestPool, height2Digest,
          cntPrepareConfirm, cntCommitConfirm, isCommitBordcast, isReply,
          newViewMap, sequenceLock, askForLock, chain, proposers, storing,
          waiting, woken, askBlocked, fatal, minted, parentOf, timeouts,
          newViews>>
      BY <1>18 DEF handleViewChangeMsg, NextView, nodeVars, applying, voteMaps,
            handlers, blockVars, counters
    <2>2. m.nextView \in Node /\ m.seqID \in SeqNo /\ m.from \in Node
      BY <1>18, MessageFields DEF handleViewChangeMsg, Delivered, TypeOK
    <2>3. NextView(n) \in Node /\ sequenceID[n] \in SeqNo
      BY NodeFacts DEF NextView, TypeOK
    <2>v. /\ viewChangeMap \in [Node -> SUBSET (Node \X SeqNo \X Node)]
          /\ <<m.nextView, m.seqID, m.from>> \in Node \X SeqNo \X Node
      BY <2>2 DEF TypeOK
    <2>w. viewChangeMap' = [viewChangeMap EXCEPT
                            ![n] = @ \cup {<<m.nextView, m.seqID, m.from>>}]
      BY <1>18 DEF handleViewChangeMsg
    <2>4. viewChangeMap' \in [Node -> SUBSET (Node \X SeqNo \X Node)]
      BY <2>v, <2>w, AddElement
    <2>5. net' \subseteq Message
      BY <1>18, Broadcasts, <2>2, <2>3 DEF handleViewChangeMsg, TypeOK
    <2> QED
      BY <2>1, <2>4, <2>5 DEF TypeOK
  <1>19. ASSUME NEW n \in Node, NEW m \in net, NewViewVote(n, m)
        PROVE  TypeOK'
    <2>1. UNCHANGED <<committing, recovering, adding, executed,
          view, sequenceID, pbftStage, requestPool, height2Digest,
          cntPrepareConfirm, cntCommitConfirm, isCommitBordcast, isReply,
          viewChangeMap, sequenceLock, askForLock, chain, proposers, storing,
          waiting, woken, askBlocked, fatal, minted, parentOf, timeouts,
          newViews>>
      BY <1>19 DEF NewViewVote, AddNewViewVote, nodeVars, applying, voteMaps,
         handlers, blockVars, counters
    <2>2. m.nextView \in Node /\ m.seqID \in SeqNo /\ m.from \in Node
      BY <1>19, MessageFields DEF NewViewVote, Delivered, TypeOK
    <2>v. /\ newViewMap \in [Node -> SUBSET (Node \X SeqNo \X Node)]
          /\ <<m.nextView, m.seqID, m.from>> \in Node \X SeqNo \X Node
      BY <2>2 DEF TypeOK
    <2>w. newViewMap' = [newViewMap EXCEPT
                            ![n] = @ \cup {<<m.nextView, m.seqID, m.from>>}]
      BY <1>19 DEF NewViewVote, AddNewViewVote
    <2>3. newViewMap' \in [Node -> SUBSET (Node \X SeqNo \X Node)]
      BY <2>v, <2>w, AddElement
    <2>4. net' \subseteq Message
      BY <1>19, <2>2 DEF NewViewVote, AddNewViewVote, TypeOK
    <2> QED
      BY <2>1, <2>3, <2>4 DEF TypeOK
  <1>20. ASSUME NEW n \in Node, NEW m \in net, EnterNewView(n, m)
        PROVE  TypeOK'
    <2>1. UNCHANGED <<committing, recovering, adding, executed,
          requestPool, height2Digest, cntPrepareConfirm,
          cntCommitConfirm, isCommitBordcast, isReply, viewChangeMap,
          sequenceLock, askForLock, chain, proposers, storing, waiting, woken,
          askBlocked, fatal, minted, parentOf, timeouts>>
      BY <1>20 DEF EnterNewView, AddNewViewVote, nodeVars, applying, voteMaps,
         handlers, blockVars, counters
    <2>2. m.nextView \in Node /\ m.seqID \in SeqNo /\ m.from \in Node
      BY <1>20, MessageFields DEF EnterNewView, Delivered, TypeOK
    <2>v. /\ newViewMap \in [Node -> SUBSET (Node \X SeqNo \X Node)]
          /\ <<m.nextView, m.seqID, m.from>> \in Node \X SeqNo \X Node
      BY <2>2 DEF TypeOK
    <2>w. newViewMap' = [newViewMap EXCEPT
                            ![n] = @ \cup {<<m.nextView, m.seqID, m.from>>}]
      BY <1>20 DEF EnterNewView, AddNewViewVote
    <2>3. newViewMap' \in [Node -> SUBSET (Node \X SeqNo \X Node)]
      BY <2>v, <2>w, AddElement
    <2>4. view' \in [Node -> Node]
      BY <1>20, <2>2 DEF EnterNewView, AddNewViewVote, TypeOK
    <2>5. sequenceID' \in [Node -> SeqNo]
      BY <1>20, <2>2 DEF EnterNewView, AddNewViewVote, TypeOK, SeqNo
    <2>6. pbftStage' \in [Node -> SeqNo]
      BY <1>20, <2>2 DEF EnterNewView, AddNewViewVote, TypeOK, SeqNo
    <2>7. net' \subseteq Message
      BY <1>20, <2>2 DEF EnterNewView, AddNewViewVote, TypeOK
    <2>8. newViews' \in 0 .. MaxNewViews
      BY <1>20, ConstantsAssumption, <2>2 DEF EnterNewView, TypeOK
    <2> QED
      BY <2>1, <2>3, <2>4, <2>5, <2>6, <2>7, <2>8 DEF TypeOK
  <1>21. ASSUME NEW n \in Node, StoreBlock(n)
        PROVE  TypeOK'
    <2>1. UNCHANGED <<view, sequenceID, pbftStage, requestPool, height2Digest,
          cntPrepareConfirm, cntCommitConfirm, isCommitBordcast, isReply,
          viewChangeMap, newViewMap, sequenceLock, askForLock, chain,
          proposers, storing, waiting, woken, askBlocked, committing,
          recovering, fatal, net, minted, parentOf, timeouts, newViews>>
      BY <1>21 DEF StoreBlock, nodeVars, voteMaps, handlers, blockVars,
            counters
    <2>2. PICK a \in adding[n] :
            /\ executed' = [executed EXCEPT ![n] = @ \cup {HeadOf(a.head)}]
            /\ adding' = [adding EXCEPT
                            ![n] = (@ \ {a}) \cup {[a EXCEPT !.stored = TRUE]}]
      BY <1>21 DEF StoreBlock
    <2>3. a.head \in Seq(Digest) /\ a.head # << >>
      BY DEF TypeOK, AddCall
    <2>4. HeadOf(a.head) \in Digest
      BY <2>3 DEF HeadOf
    <2>5. [a EXCEPT !.stored = TRUE] \in AddCall
      BY StoredCall
    <2>6. executed' \in [Node -> SUBSET Digest]
      BY <2>2, <2>4 DEF TypeOK
    <2>7. adding' \in [Node -> SUBSET AddCall]
      BY <2>2, <2>5 DEF TypeOK
    <2> QED
      BY <2>1, <2>6, <2>7 DEF TypeOK
  <1>17. ASSUME NEW n \in Node, MoveHead(n)
         PROVE  TypeOK'
    <2>1. UNCHANGED <<view, sequenceID, pbftStage, requestPool, height2Digest,
          cntPrepareConfirm, cntCommitConfirm, isCommitBordcast, isReply,
          viewChangeMap, newViewMap, sequenceLock, askForLock, proposers,
          storing, waiting, woken, askBlocked, committing, recovering,
          executed, fatal, net, minted, parentOf, timeouts, newViews>>
      BY <1>17 DEF MoveHead, nodeVars, voteMaps, handlers, blockVars, counters
    <2>2. PICK a \in adding[n] : /\ chain' = [chain EXCEPT ![n] = a.head]
                                 /\ adding' = [adding EXCEPT ![n] = @ \ {a}]
      BY <1>17 DEF MoveHead
    <2>3. a.head \in Seq(Digest)
      BY DEF TypeOK, AddCall
    <2>4. chain' \in [Node -> Seq(Digest)]
      BY <2>2, <2>3 DEF TypeOK
    <2>5. adding' \in [Node -> SUBSET AddCall]
      BY <2>2 DEF TypeOK
    <2> QED
      BY <2>1, <2>4, <2>5 DEF TypeOK
  <1>22. ASSUME NEW n \in Node, CommitEnds(n)
        PROVE  TypeOK'
    <2>1. UNCHANGED <<view, requestPool, height2Digest, cntPrepareConfirm,
          cntCommitConfirm, isCommitBordcast, viewChangeMap, newViewMap,
          askForLock, chain, proposers, storing, askBlocked, recovering,
          adding, executed, net, minted, parentOf, timeouts, newViews>>
      BY <1>22 DEF CommitEnds, voteMaps, blockVars, counters
    <2>2. PICK h \in committing[n] :
            /\ isReply' = [isReply EXCEPT ![n] = @ \cup {h.msg.digest}]
            /\ Return(n, h)
      BY <1>22 DEF CommitEnds
    <2>3. h.msg.digest \in Digest
      BY MessageFields DEF Handler, TypeOK
    <2>4. isReply' \in [Node -> SUBSET Digest]
      BY <2>2, <2>3 DEF TypeOK
    <2>5. /\ woken' \in [Node -> SUBSET Handler]
          /\ waiting' \in [Node -> SUBSET Handler]
      BY <2>2 DEF Return, TypeOK
    <2>6. NextSequence(n) \in SeqNo
      BY DEF NextSequence, SeqNo, TypeOK
    <2>7. sequenceID' \in [Node -> SeqNo]
      BY <1>22, <2>6 DEF CommitEnds, TypeOK
    <2>8. committing' \in [Node -> SUBSET Handler]
      BY <1>22 DEF CommitEnds, TypeOK
    <2>9. /\ pbftStage' \in [Node -> SeqNo]
          /\ sequenceLock' \in [Node -> BOOLEAN]
          /\ fatal' \subseteq Node
      BY <1>22 DEF CommitEnds, EndRound, TypeOK, SeqNo
    <2> QED
      BY <2>1, <2>4, <2>5, <2>7, <2>8, <2>9 DEF TypeOK
  <1>23. ASSUME NEW n \in Node, NEW r \in recovering[n], RecoverBlock(n, r)
        PROVE  TypeOK'
    <2>1. UNCHANGED <<view, sequenceID, pbftStage, requestPool, height2Digest,
          cntPrepareConfirm, cntCommitConfirm, isCommitBordcast, isReply,
          viewChangeMap, newViewMap, sequenceLock, askForLock, chain,
          proposers, storing, waiting, woken, askBlocked, committing, executed,
          fatal, net, minted, parentOf, timeouts, newViews>>
      BY <1>23 DEF RecoverBlock, nodeVars, voteMaps, handlers, blockVars,
            counters
    <2>2. r.msg.reqs \in Seq(Digest) /\ r.added \in Nat /\ r \in Recovery
      BY RecoveryFields
    <2>3. r.msg.reqs[r.added + 1] \in Digest
      BY <1>23, <2>2 DEF RecoverBlock
    <2>4. adding' \in [Node -> SUBSET AddCall]
      <3>1. PICK a : a = AddBlockCall(n, "handleSendOldSeq",
                                      r.msg.reqs[r.added + 1])
        OBVIOUS
      <3>2. a \in AddCall
        BY <2>3, <3>1, AddCallType
      <3>3. adding' = [adding EXCEPT ![n] = @ \cup {a}]
        BY <1>23, <3>1 DEF RecoverBlock
      <3> QED
        BY <3>2, <3>3 DEF TypeOK
    <2>5. [r EXCEPT !.added = @ + 1] \in Recovery
      BY <2>2 DEF Recovery
    <2>6. recovering' \in [Node -> SUBSET Recovery]
      BY <1>23, <2>5 DEF RecoverBlock, TypeOK
    <2> QED
      BY <2>1, <2>4, <2>6 DEF TypeOK
  <1>24. ASSUME NEW n \in Node, NEW r \in recovering[n], RejectBlock(n, r)
        PROVE  TypeOK'
    <2>1. UNCHANGED <<view, sequenceID, pbftStage, requestPool, height2Digest,
          cntPrepareConfirm, cntCommitConfirm, isCommitBordcast, isReply,
          viewChangeMap, newViewMap, sequenceLock, askForLock, chain,
          proposers, storing, waiting, woken, askBlocked, committing, adding,
          executed, fatal, net, minted, parentOf, timeouts, newViews>>
      BY <1>24 DEF RejectBlock, nodeVars, voteMaps, handlers, blockVars,
            counters
    <2>2. recovering' \in [Node -> SUBSET Recovery]
      BY <1>24, MovesType DEF RejectBlock, RecoveryStage
    <2> QED
      BY <2>1, <2>2 DEF TypeOK
  <1>25. ASSUME NEW n \in Node, NEW r \in recovering[n], SendOldRejected(n, r)
        PROVE  TypeOK'
    <2>1. UNCHANGED <<view, pbftStage, requestPool, height2Digest,
          cntPrepareConfirm, cntCommitConfirm, isCommitBordcast, isReply,
          viewChangeMap, newViewMap, sequenceLock, chain, proposers, storing,
          waiting, woken, askBlocked, committing, adding, executed, fatal, net,
          minted, parentOf, timeouts, newViews>>
      BY <1>25 DEF SendOldRejected, nodeVars, voteMaps, handlers, blockVars,
            counters
    <2>2. Height(n) + 1 \in SeqNo
      BY DEF Height, SeqNo, TypeOK
    <2>3. /\ sequenceID' \in [Node -> SeqNo]
          /\ askForLock' \in [Node -> BOOLEAN]
          /\ recovering' \in [Node -> SUBSET Recovery]
      BY <1>25, <2>2 DEF SendOldRejected, TypeOK
    <2> QED
      BY <2>1, <2>3 DEF TypeOK
  <1>26. ASSUME NEW n \in Node, NEW r \in recovering[n], FileRequests(n, r)
        PROVE  TypeOK'
    <2>1. UNCHANGED <<view, sequenceID, pbftStage, cntPrepareConfirm,
          cntCommitConfirm, isCommitBordcast, viewChangeMap, newViewMap,
          sequenceLock, askForLock, chain, proposers, storing, waiting, woken,
          askBlocked, committing, adding, executed, fatal, net, minted,
          parentOf, timeouts, newViews>>
      BY <1>26 DEF FileRequests, voteMaps, handlers, blockVars, counters
    <2>2. /\ height2Digest' \in [Node -> SUBSET (SeqNo \X Digest)]
          /\ requestPool' \in [Node -> SUBSET Digest]
          /\ isReply' \in [Node -> SUBSET Digest]
      BY <1>26, FiledType
    <2>3. recovering' \in [Node -> SUBSET Recovery]
      BY <1>26, MovesType DEF FileRequests, RecoveryStage
    <2> QED
      BY <2>1, <2>2, <2>3 DEF TypeOK
  <1>27. ASSUME NEW n \in Node, NEW r \in recovering[n], SetSequence(n, r)
        PROVE  TypeOK'
    <2>1. UNCHANGED <<view, pbftStage, requestPool, height2Digest,
          cntPrepareConfirm, cntCommitConfirm, isCommitBordcast, isReply,
          viewChangeMap, newViewMap, sequenceLock, askForLock, chain,
          proposers, storing, waiting, woken, askBlocked, committing, adding,
          executed, fatal, net, minted, parentOf, timeouts, newViews>>
      BY <1>27 DEF SetSequence, nodeVars, voteMaps, handlers, blockVars,
            counters
    <2>2. r.msg.end + 1 \in SeqNo
      BY RecoveryFields DEF SeqNo
    <2>3. sequenceID' \in [Node -> SeqNo]
      BY <1>27, <2>2 DEF SetSequence, TypeOK
    <2>4. recovering' \in [Node -> SUBSET Recovery]
      BY <1>27, MovesType DEF SetSequence, RecoveryStage
    <2> QED
      BY <2>1, <2>3, <2>4 DEF TypeOK
  <1>28. ASSUME NEW n \in Node, NEW r \in recovering[n], SendOldInstalled(n, r)
        PROVE  TypeOK'
    <2>1. UNCHANGED <<view, sequenceID, pbftStage, requestPool, height2Digest,
          cntPrepareConfirm, cntCommitConfirm, isCommitBordcast, isReply,
          viewChangeMap, newViewMap, sequenceLock, chain, proposers, storing,
          waiting, woken, askBlocked, committing, adding, executed, fatal,
          minted, parentOf, timeouts, newViews>>
      BY <1>28 DEF SendOldInstalled, nodeVars, voteMaps, handlers, blockVars,
            counters
    <2>2. PICK valid \in SUBSET requestPool[n] :
            net' = net \cup {PrepareMsg(t, sequenceID[n], d, n) :
                               t \in Reach("Prepare") \ {n}, d \in valid}
      BY <1>28, InstalledSends
    <2>3. /\ sequenceID[n] \in SeqNo
          /\ valid \subseteq Digest
          /\ Reach("Prepare") \subseteq Live
      BY DEF TypeOK, Reach
    <2>4. net' \subseteq Message
      BY <2>2, <2>3, MessageTypes DEF TypeOK
    <2>5. /\ askForLock' \in [Node -> BOOLEAN]
          /\ recovering' \in [Node -> SUBSET Recovery]
      BY <1>28 DEF SendOldInstalled, TypeOK
    <2> QED
      BY <2>1, <2>4, <2>5 DEF TypeOK
  <1>29. CASE UNCHANGED vars
    BY <1>29 DEF vars, nodeVars, voteMaps, handlers, applying, blockVars,
              counters, TypeOK
  <1> QED
    BY <1>1, <1>2, <1>3, <1>4, <1>5, <1>6, <1>7, <1>8, <1>9, <1>10, <1>11,
          <1>12, <1>13, <1>14, <1>15, <1>16, <1>17, <1>18, <1>19, <1>20, <1>21,
          <1>22, <1>23, <1>24, <1>25, <1>26, <1>27, <1>28, <1>29
          DEF Next, Step, Handle, ResumeAsk, Deliver, Recover

\* Every variable of the protocol keeps its type, for every number of nodes,
\* every set of failing dials and every bound.
THEOREM TypeCorrect == Spec => []TypeOK
  BY TypeInit, TypeNext, PTL DEF Spec

-----------------------------------------------------------------------------
(* What a step does to the messages, to the handlers and to the votes.     *)

\* The fields of what the constructors build.
LEMMA MessageParts ==
    /\ \A t, s, d : PrePrepareMsg(t, s, d).type = "PrePrepare"
    /\ \A t, s, d, n : /\ PrepareMsg(t, s, d, n).type = "Prepare"
                       /\ PrepareMsg(t, s, d, n).digest = d
                       /\ PrepareMsg(t, s, d, n).from = n
    /\ \A t, s, d, n : /\ CommitMsg(t, s, d, n).type = "Commit"
                       /\ CommitMsg(t, s, d, n).digest = d
                       /\ CommitMsg(t, s, d, n).from = n
    /\ \A t, v, s, n : /\ ViewChangeMsg(t, v, s, n).type = "ViewChange"
                       /\ ViewChangeMsg(t, v, s, n).seqID = s
                       /\ ViewChangeMsg(t, v, s, n).from = n
    /\ \A t, v, s, n : NewViewMsg(t, v, s, n).type = "NewView"
    /\ \A t, lo, hi, n : /\ RequestOldMsg(t, lo, hi, n).type = "RequestOld"
                         /\ RequestOldMsg(t, lo, hi, n).end = hi
                         /\ RequestOldMsg(t, lo, hi, n).from = n
    /\ \A t, lo, hi, rs : /\ SendOldMsg(t, lo, hi, rs).type = "SendOld"
                          /\ SendOldMsg(t, lo, hi, rs).to = t
                          /\ SendOldMsg(t, lo, hi, rs).end = hi
  BY DEF PrePrepareMsg, PrepareMsg, CommitMsg, ViewChangeMsg, NewViewMsg,
         RequestOldMsg, SendOldMsg

\* The pools, the commits broadcast and the votes to leave a view only grow.
LEMMA NodesKeep ==
    ASSUME TypeOK, [Next]_vars
    PROVE  \A k \in Node : /\ requestPool[k] \subseteq requestPool'[k]
                           /\ isCommitBordcast[k] \subseteq isCommitBordcast'[k]
                           /\ viewChangeMap[k] \subseteq viewChangeMap'[k]
  <1> DEFINE Kept == UNCHANGED <<requestPool, isCommitBordcast, viewChangeMap>>
             Grown == \A k \in Node :
                        /\ requestPool[k] \subseteq requestPool'[k]
                        /\ isCommitBordcast[k] \subseteq isCommitBordcast'[k]
                        /\ viewChangeMap[k] \subseteq viewChangeMap'[k]
  <1>0. Kept => Grown
    OBVIOUS
  <1>1. ASSUME NEW n \in Node,
               BeginRound(n) \/ StoreStage(n) \/ viewChangePropose(n)
        PROVE  Kept
    BY <1>1 DEF BeginRound, StoreStage, viewChangePropose, nodeVars, voteMaps
  <1>2. ASSUME NEW n \in Node, Propose(n)
        PROVE  Grown
    BY <1>2 DEF Propose, voteMaps, TypeOK
  <1>3. ASSUME NEW n \in Node, NEW h, Park(n, h) \/ Discard(n, h)
        PROVE  Kept
    BY <1>3 DEF Park, Discard, nodeVars, voteMaps
  <1>4. ASSUME NEW n \in Node, NEW h, handlePrePrepare(n, h)
        PROVE  Grown
    BY <1>4 DEF handlePrePrepare, voteMaps, TypeOK
  <1>5. ASSUME NEW n \in Node, NEW h, handlePrepare(n, h)
        PROVE  Grown
    BY <1>5 DEF handlePrepare, voteMaps, TypeOK
  <1>6. ASSUME NEW n \in Node, NEW h,
               CommitVoteOnly(n, h) \/ CommitBlock(n, h) \/ CommitAsk(n, h)
                 \/ CommitAskBlocks(n, h) \/ CommitAskResumes(n, h)
        PROVE  Kept
    BY <1>6 DEF CommitVoteOnly, CommitBlock, CommitAsk, CommitAskBlocks,
       CommitAskResumes, nodeVars, voteMaps
  <1>7. ASSUME NEW n \in Node, NEW m,
               RequestOldUnanswered(n, m) \/ RequestOldAnswered(n, m)
                 \/ SendOldArrives(n, m) \/ NewViewVote(n, m)
                 \/ EnterNewView(n, m)
        PROVE  Kept
    BY <1>7 DEF RequestOldUnanswered, RequestOldAnswered, SendOldArrives,
       NewViewVote, EnterNewView, nodeVars, voteMaps
  <1>8. ASSUME NEW n \in Node, NEW x, FileRequests(n, x)
        PROVE  Grown
    BY <1>8 DEF FileRequests, voteMaps, TypeOK
  <1>9. ASSUME NEW n \in Node, NEW m, handleViewChangeMsg(n, m)
        PROVE  Grown
    BY <1>9 DEF handleViewChangeMsg, nodeVars, TypeOK
  <1>10. ASSUME UNCHANGED vars
         PROVE  Kept
    BY <1>10 DEF vars, nodeVars, voteMaps
  <1>12. ASSUME NEW n \in Node, NEW x,
                StoreBlock(n) \/ MoveHead(n) \/ CommitEnds(n) \/ RecoverBlock(n, x)
                  \/ RejectBlock(n, x) \/ SendOldRejected(n, x)
                  \/ SetSequence(n, x) \/ SendOldInstalled(n, x)
         PROVE  Kept
    BY <1>12 DEF StoreBlock, MoveHead, CommitEnds, RecoverBlock, RejectBlock,
       SendOldRejected, SetSequence, SendOldInstalled, nodeVars, voteMaps
  <1> HIDE DEF Kept, Grown
  <1>11. Grown
    BY <1>0, <1>1, <1>2, <1>3, <1>4, <1>5, <1>6, <1>7, <1>8, <1>9, <1>10,
       <1>12 DEF Next, Step, Handle, ResumeAsk, Deliver, Recover
  <1> QED
    BY <1>11 DEF Grown

\* A message that handler h of node n brings into the node.
Brought(n, h) == h.msg \in net \/ h \in waiting[n] \cup woken[n] \cup askBlocked[n]

LEMMA RunnableBrought ==
    ASSUME NEW n \in Node, NEW h \in Runnable(n)
    PROVE  /\ Brought(n, h)
           /\ Rest(n, h) \subseteq net
           /\ h \in woken[n] \/ h.msg \in net
  BY DEF Runnable, Started, Brought, Rest

\* A step starts handlers only with messages of the network.
LEMMA HandlersBrought ==
    ASSUME TypeOK, [Next]_vars, NEW k \in Node,
           NEW x \in waiting'[k] \cup woken'[k] \cup askBlocked'[k]
    PROVE  Brought(k, x)
  <1> DEFINE Kept == UNCHANGED <<waiting, woken, askBlocked>>
  <1>0. Kept => Brought(k, x)
    BY DEF Brought
  <1>1. ASSUME NEW n \in Node,
               BeginRound(n) \/ Propose(n) \/ StoreStage(n)
                 \/ viewChangePropose(n)
        PROVE  Kept
    BY <1>1 DEF BeginRound, Propose, StoreStage, viewChangePropose, handlers
  <1>2. ASSUME NEW n \in Node, NEW h \in Runnable(n), Park(n, h)
        PROVE  Brought(k, x)
    BY <1>2, RunnableBrought DEF Park, Brought, TypeOK
  <1>3. ASSUME NEW n \in Node, NEW h,
               Discard(n, h) \/ handlePrePrepare(n, h) \/ handlePrepare(n, h)
                 \/ CommitVoteOnly(n, h) \/ CommitAsk(n, h)
        PROVE  Brought(k, x)
    <2>1. Return(n, h) /\ askBlocked' = askBlocked
      BY <1>3 DEF Discard, handlePrePrepare, handlePrepare, CommitVoteOnly,
         CommitAsk
    <2> QED
      BY <2>1 DEF Return, Brought, TypeOK
  <1>4. ASSUME NEW n \in Node, NEW h \in Runnable(n), CommitAskBlocks(n, h)
        PROVE  Brought(k, x)
    BY <1>4, RunnableBrought DEF CommitAskBlocks, Brought, TypeOK
  <1>5. ASSUME NEW n \in Node, NEW h, CommitAskResumes(n, h)
        PROVE  Brought(k, x)
    BY <1>5 DEF CommitAskResumes, Return, Brought, TypeOK
  <1>6. ASSUME NEW n \in Node, NEW m,
               RequestOldUnanswered(n, m) \/ RequestOldAnswered(n, m)
                 \/ SendOldArrives(n, m) \/ handleViewChangeMsg(n, m)
                 \/ NewViewVote(n, m) \/ EnterNewView(n, m)
        PROVE  Kept
    BY <1>6 DEF RequestOldUnanswered, RequestOldAnswered, SendOldArrives,
       handleViewChangeMsg, NewViewVote, EnterNewView, handlers
  <1>7. ASSUME NEW n \in Node, NEW r,
               StoreBlock(n) \/ MoveHead(n) \/ RecoverBlock(n, r) \/ RejectBlock(n, r)
                 \/ SendOldRejected(n, r) \/ FileRequests(n, r)
                 \/ SetSequence(n, r) \/ SendOldInstalled(n, r)
        PROVE  Kept
    BY <1>7 DEF StoreBlock, MoveHead, RecoverBlock, RejectBlock,
       SendOldRejected, FileRequests, SetSequence, SendOldInstalled, handlers
  <1>8. ASSUME UNCHANGED vars
        PROVE  Kept
    BY <1>8 DEF vars, handlers
  <1>9. ASSUME NEW n \in Node, NEW h, CommitBlock(n, h)
        PROVE  Brought(k, x)
    BY <1>9 DEF CommitBlock, Brought, TypeOK
  <1>10. ASSUME NEW n \in Node, CommitEnds(n)
         PROVE  Brought(k, x)
    <2>1. PICK h : Return(n, h)
      BY <1>10 DEF CommitEnds
    <2>2. askBlocked' = askBlocked
      BY <1>10 DEF CommitEnds
    <2> QED
      BY <2>1, <2>2 DEF Return, Brought, TypeOK
  <1> HIDE DEF Kept
  <1> QED
    BY <1>0, <1>1, <1>2, <1>3, <1>4, <1>5, <1>6, <1>7, <1>8, <1>9,
       <1>10 DEF Next, Step, Handle, ResumeAsk, Deliver, Recover

\* The steps that send each kind of message, and what the sender knows.
SentInView(m) ==
    \/ m.type = "PrePrepare"
    \/ m.type = "Prepare" /\ m.digest \in requestPool'[m.from]
    \/ m.type = "Commit" /\ m.digest \in isCommitBordcast'[m.from]

SentOutOfView(m) ==
    \/ m.type = "ViewChange" /\ m.seqID = sequenceID[m.from]
    \/ /\ m.type = "NewView"
       /\ \E n \in Node, x \in net : handleViewChangeMsg(n, x)

SentToRecover(m) ==
    \/ /\ m.type = "RequestOld"
       /\ \E n \in Node : \/ \E h \in Runnable(n) : CommitAsk(n, h)
                          \/ \E h \in askBlocked[n] : CommitAskResumes(n, h)
    \/ /\ m.type = "SendOld"
       /\ \E n \in Node, x \in net : RequestOldAnswered(n, x)

Sent(m) == SentInView(m) \/ SentOutOfView(m) \/ SentToRecover(m)

LEMMA MessagesSent ==
    ASSUME TypeOK, [Next]_vars, NEW m \in net', m \notin net
    PROVE  Sent(m)
  <1> DEFINE Quiet == net' \subseteq net
  <1>1. ASSUME NEW n \in Node, BeginRound(n) \/ StoreStage(n)
        PROVE  Quiet
    BY <1>1 DEF BeginRound, StoreStage
  <1>2. ASSUME NEW n \in Node, Propose(n)
        PROVE  Sent(m)
    BY <1>2, MessageParts DEF Propose, Sent, SentInView
  <1>3. ASSUME NEW n \in Node, viewChangePropose(n)
        PROVE  Sent(m)
    BY <1>3, MessageParts DEF viewChangePropose, Sent, SentOutOfView
  <1>4. ASSUME NEW n \in Node, NEW h \in Runnable(n),
               Park(n, h) \/ Discard(n, h) \/ CommitVoteOnly(n, h)
                 \/ CommitBlock(n, h) \/ CommitAskBlocks(n, h)
        PROVE  Quiet
    BY <1>4, RunnableBrought DEF Park, Discard, CommitVoteOnly, CommitBlock,
       CommitAskBlocks
  <1>5. ASSUME NEW n \in Node, NEW h \in Runnable(n), handlePrePrepare(n, h)
        PROVE  Sent(m)
    <2>1. h.msg.digest \in requestPool'[n]
      BY <1>5 DEF handlePrePrepare, TypeOK
    <2>2. m \in {PrepareMsg(t, h.msg.seqID, h.msg.digest, n) :
                   t \in Reach("Prepare")}
      BY <1>5, RunnableBrought DEF handlePrePrepare
    <2> QED
      BY <2>1, <2>2, MessageParts DEF Sent, SentInView
  <1>6. ASSUME NEW n \in Node, NEW h \in Runnable(n), handlePrepare(n, h)
        PROVE  Sent(m)
    <2>1. /\ h.msg.digest \in isCommitBordcast'[n]
          /\ m \in {CommitMsg(t, h.msg.seqID, h.msg.digest, n) :
                      t \in Reach("Commit")}
      BY <1>6, RunnableBrought DEF handlePrepare, TypeOK
    <2> QED
      BY <2>1, MessageParts DEF Sent, SentInView
  <1>7. ASSUME NEW n \in Node, NEW h \in Runnable(n), CommitAsk(n, h)
        PROVE  Sent(m)
    <2>1. m.type = "RequestOld"
      BY <1>7, RunnableBrought, MessageParts DEF CommitAsk, AskForOld
    <2> QED
      BY <1>7, <2>1 DEF Sent, SentToRecover
  <1>8. ASSUME NEW n \in Node, NEW h \in askBlocked[n], CommitAskResumes(n, h)
        PROVE  Sent(m)
    <2>1. m.type = "RequestOld"
      BY <1>8, MessageParts DEF CommitAskResumes, AskForOld
    <2> QED
      BY <1>8, <2>1 DEF Sent, SentToRecover
  <1>9. ASSUME NEW n \in Node, NEW x \in net,
               RequestOldUnanswered(n, x) \/ SendOldArrives(n, x)
                 \/ NewViewVote(n, x) \/ EnterNewView(n, x)
        PROVE  Quiet
    BY <1>9 DEF RequestOldUnanswered, SendOldArrives, NewViewVote, EnterNewView
  <1>10. ASSUME NEW n \in Node, NEW x \in net, RequestOldAnswered(n, x)
         PROVE  Sent(m)
    <2>1. m.type = "SendOld"
      BY <1>10, MessageParts DEF RequestOldAnswered
    <2> QED
      BY <1>10, <2>1 DEF Sent, SentToRecover
  <1>11. ASSUME NEW n \in Node, NEW r, SendOldInstalled(n, r)
         PROVE  Sent(m)
    <2>1. PICK t, s, d : m = PrepareMsg(t, s, d, n) /\ d \in requestPool[n]
      BY <1>11, InstalledSends
    <2>2. requestPool' = requestPool
      BY <1>11 DEF SendOldInstalled, nodeVars
    <2> QED
      BY <2>1, <2>2, MessageParts DEF Sent, SentInView
  <1>12. ASSUME NEW n \in Node, NEW x \in net, handleViewChangeMsg(n, x)
         PROVE  Sent(m)
    <2>1. m.type = "NewView"
      BY <1>12, MessageParts DEF handleViewChangeMsg
    <2> QED
      BY <1>12, <2>1 DEF Sent, SentOutOfView
  <1>13. ASSUME UNCHANGED vars
         PROVE  Quiet
    BY <1>13 DEF vars
  <1>15. ASSUME NEW n \in Node, NEW r,
                StoreBlock(n) \/ MoveHead(n) \/ CommitEnds(n) \/ RecoverBlock(n, r)
                  \/ RejectBlock(n, r) \/ SendOldRejected(n, r)
                  \/ FileRequests(n, r) \/ SetSequence(n, r)
         PROVE  Quiet
    BY <1>15 DEF StoreBlock, MoveHead, CommitEnds, RecoverBlock, RejectBlock,
       SendOldRejected, FileRequests, SetSequence
  <1>14. ~Quiet
    OBVIOUS
  <1> HIDE DEF Quiet
  <1> QED
    BY <1>1, <1>2, <1>3, <1>4, <1>5, <1>6, <1>7, <1>8, <1>9, <1>10, <1>11,
       <1>12, <1>13, <1>14, <1>15
       DEF Next, Step, Handle, ResumeAsk, Deliver, Recover

\* A vote that a step counts is the vote of a message that it handles.
LEMMA VotesBrought ==
    ASSUME TypeOK, [Next]_vars, NEW k \in Node
    PROVE  /\ \A p \in cntPrepareConfirm'[k] :
                p \in cntPrepareConfirm[k] \/
                \E h : /\ Brought(k, h) /\ h.msg.type = "Prepare"
                       /\ p = <<h.msg.digest, h.msg.from>>
           /\ \A p \in cntCommitConfirm'[k] :
                p \in cntCommitConfirm[k] \/
                \E h : /\ Brought(k, h) /\ h.msg.type = "Commit"
                       /\ p = <<h.msg.digest, h.msg.from>>
  <1> DEFINE Kept == UNCHANGED <<cntPrepareConfirm, cntCommitConfirm>>
             PrepareVotes == \A p \in cntPrepareConfirm'[k] :
                p \in cntPrepareConfirm[k] \/
                \E h : /\ Brought(k, h) /\ h.msg.type = "Prepare"
                       /\ p = <<h.msg.digest, h.msg.from>>
             CommitVotes == \A p \in cntCommitConfirm'[k] :
                p \in cntCommitConfirm[k] \/
                \E h : /\ Brought(k, h) /\ h.msg.type = "Commit"
                       /\ p = <<h.msg.digest, h.msg.from>>
  <1>0. Kept => PrepareVotes /\ CommitVotes
    OBVIOUS
  <1>1. ASSUME NEW n \in Node,
               BeginRound(n) \/ Propose(n) \/ StoreStage(n)
                 \/ viewChangePropose(n)
        PROVE  Kept
    BY <1>1 DEF BeginRound, Propose, StoreStage, viewChangePropose, nodeVars
  <1>2. ASSUME NEW n \in Node, NEW h,
               Park(n, h) \/ Discard(n, h) \/ handlePrePrepare(n, h)
                 \/ CommitAskResumes(n, h)
        PROVE  Kept
    BY <1>2 DEF Park, Discard, handlePrePrepare, CommitAskResumes, nodeVars
  <1>3. ASSUME NEW n \in Node, NEW h \in Runnable(n), handlePrepare(n, h)
        PROVE  PrepareVotes /\ CommitVotes
    <2>1. Brought(n, h) /\ h.msg.type = "Prepare"
      BY <1>3, RunnableBrought DEF handlePrepare, Proceeds
    <2>2. /\ cntCommitConfirm' = cntCommitConfirm
          /\ cntPrepareConfirm'[n] \subseteq
               cntPrepareConfirm[n] \cup {<<h.msg.digest, h.msg.from>>}
          /\ \A j \in Node \ {n} : cntPrepareConfirm'[j] = cntPrepareConfirm[j]
      BY <1>3 DEF handlePrepare, TypeOK
    <2> QED
      BY <2>1, <2>2
  <1>4. ASSUME NEW n \in Node, NEW h \in Runnable(n),
               CommitVoteOnly(n, h) \/ CommitBlock(n, h) \/ CommitAsk(n, h)
                 \/ CommitAskBlocks(n, h)
        PROVE  PrepareVotes /\ CommitVotes
    <2>1. Brought(n, h) /\ h.msg.type = "Commit"
      BY <1>4, RunnableBrought DEF CommitVoteOnly, CommitBlock, CommitAsk,
         CommitAskBlocks, Proceeds
    <2>2. AddCommitVote(n, h.msg) /\ cntPrepareConfirm' = cntPrepareConfirm
      BY <1>4 DEF CommitVoteOnly, CommitBlock, CommitAsk, CommitAskBlocks
    <2>3. /\ cntCommitConfirm'[n] =
               cntCommitConfirm[n] \cup {<<h.msg.digest, h.msg.from>>}
          /\ \A j \in Node \ {n} : cntCommitConfirm'[j] = cntCommitConfirm[j]
      BY <2>2 DEF AddCommitVote, WithVote, TypeOK
    <2> QED
      BY <2>1, <2>2, <2>3
  <1>5. ASSUME NEW n \in Node, NEW m,
               RequestOldUnanswered(n, m) \/ RequestOldAnswered(n, m)
                 \/ SendOldArrives(n, m) \/ handleViewChangeMsg(n, m)
                 \/ NewViewVote(n, m) \/ EnterNewView(n, m)
        PROVE  Kept
    BY <1>5 DEF RequestOldUnanswered, RequestOldAnswered, SendOldArrives,
       handleViewChangeMsg, NewViewVote, EnterNewView, nodeVars
  <1>6. ASSUME NEW n \in Node, NEW r,
               StoreBlock(n) \/ MoveHead(n) \/ CommitEnds(n) \/ RecoverBlock(n, r)
                 \/ RejectBlock(n, r) \/ SendOldRejected(n, r)
                 \/ FileRequests(n, r) \/ SetSequence(n, r)
                 \/ SendOldInstalled(n, r)
        PROVE  Kept
    BY <1>6 DEF StoreBlock, MoveHead, CommitEnds, RecoverBlock, RejectBlock,
       SendOldRejected, FileRequests, SetSequence, SendOldInstalled, nodeVars
  <1>7. ASSUME UNCHANGED vars
        PROVE  Kept
    BY <1>7 DEF vars, nodeVars
  <1> HIDE DEF Kept, PrepareVotes, CommitVotes
  <1>8. PrepareVotes /\ CommitVotes
    BY <1>0, <1>1, <1>2, <1>3, <1>4, <1>5, <1>6, <1>7
       DEF Next, Step, Handle, ResumeAsk, Deliver, Recover
  <1> QED
    BY <1>8 DEF PrepareVotes, CommitVotes

\* A node broadcasts its commit when its prepare votes become a quorum, for a
\* request of its pool, at its own sequence number.
LEMMA CommitsPrepared ==
    ASSUME TypeOK, [Next]_vars, NEW k \in Node, NEW d \in isCommitBordcast'[k],
           d \notin isCommitBordcast[k]
    PROVE  /\ Cardinality(Voted(cntPrepareConfirm'[k], d)) >= Quorum
           /\ \E h \in Runnable(k) : /\ handlePrepare(k, h)
                                     /\ h.msg.digest = d
                                     /\ h.msg.seqID = sequenceID[k]
  <1> DEFINE Kept == isCommitBordcast' = isCommitBordcast
             Goal == /\ Cardinality(Voted(cntPrepareConfirm'[k], d)) >= Quorum
                     /\ \E h \in Runnable(k) : /\ handlePrepare(k, h)
                                               /\ h.msg.digest = d
                                               /\ h.msg.seqID = sequenceID[k]
  <1>0. ~Kept
    OBVIOUS
  <1>1. ASSUME NEW n \in Node,
               BeginRound(n) \/ Propose(n) \/ StoreStage(n)
                 \/ viewChangePropose(n)
        PROVE  Kept
    BY <1>1 DEF BeginRound, Propose, StoreStage, viewChangePropose, nodeVars
  <1>2. ASSUME NEW n \in Node, NEW h,
               Park(n, h) \/ Discard(n, h) \/ handlePrePrepare(n, h)
                 \/ CommitVoteOnly(n, h) \/ CommitBlock(n, h) \/ CommitAsk(n, h)
                 \/ CommitAskBlocks(n, h) \/ CommitAskResumes(n, h)
        PROVE  Kept
    BY <1>2 DEF Park, Discard, handlePrePrepare, CommitVoteOnly, CommitBlock,
       CommitAsk, CommitAskBlocks, CommitAskResumes, nodeVars
  <1>3. ASSUME NEW n \in Node, NEW h \in Runnable(n), handlePrepare(n, h)
        PROVE  Goal
    <2>1. n = k /\ h.msg.digest = d /\ h.msg.seqID = sequenceID[k]
      BY <1>3 DEF handlePrepare, TypeOK
    <2>2. Cardinality(Voted(cntPrepareConfirm'[k], d)) >= Quorum
      BY <1>3, <2>1 DEF handlePrepare, Prepared, TypeOK
    <2> QED
      BY <1>3, <2>1, <2>2
  <1>4. ASSUME NEW n \in Node, NEW m,
               RequestOldUnanswered(n, m) \/ RequestOldAnswered(n, m)
                 \/ SendOldArrives(n, m) \/ handleViewChangeMsg(n, m)
                 \/ NewViewVote(n, m) \/ EnterNewView(n, m)
        PROVE  Kept
    BY <1>4 DEF RequestOldUnanswered, RequestOldAnswered, SendOldArrives,
       handleViewChangeMsg, NewViewVote, EnterNewView, nodeVars
  <1>5. ASSUME NEW n \in Node, NEW r,
               StoreBlock(n) \/ MoveHead(n) \/ CommitEnds(n) \/ RecoverBlock(n, r)
                 \/ RejectBlock(n, r) \/ SendOldRejected(n, r)
                 \/ FileRequests(n, r) \/ SetSequence(n, r)
                 \/ SendOldInstalled(n, r)
        PROVE  Kept
    BY <1>5 DEF StoreBlock, MoveHead, CommitEnds, RecoverBlock, RejectBlock,
       SendOldRejected, FileRequests, SetSequence, SendOldInstalled, nodeVars
  <1>6. ASSUME UNCHANGED vars
        PROVE  Kept
    BY <1>6 DEF vars, nodeVars
  <1> HIDE DEF Kept, Goal
  <1>7. Goal
    BY <1>0, <1>1, <1>2, <1>3, <1>4, <1>5, <1>6
       DEF Next, Step, Handle, ResumeAsk, Deliver, Recover
  <1> QED
    BY <1>7 DEF Goal

-----------------------------------------------------------------------------
(* Votes and quorums.                                                       *)

\* A message that votes is backed by what its sender has done.
Backed(m) ==
    /\ m.type = "Prepare" => m.digest \in requestPool[m.from]
    /\ m.type = "Commit" => m.digest \in isCommitBordcast[m.from]

\* Every vote, on the network, in a handler or counted, is backed.
VotesBacked ==
    /\ \A m \in net : Backed(m)
    /\ \A n \in Node : \A h \in waiting[n] \cup woken[n] \cup askBlocked[n] :
         Backed(h.msg)
    /\ \A n \in Node : \A p \in cntPrepareConfirm[n] : p[1] \in requestPool[p[2]]
    /\ \A n \in Node : \A p \in cntCommitConfirm[n] :
         p[1] \in isCommitBordcast[p[2]]

\* What a backed message says of its sender stays true.
LEMMA BackedStays ==
    ASSUME TypeOK, [Next]_vars, NEW m \in Message, Backed(m)
    PROVE  Backed(m)'
  BY NodesKeep, MessageFields DEF Backed

LEMMA VotesBackedNext ==
    ASSUME TypeOK, TypeOK', VotesBacked, [Next]_vars
    PROVE  VotesBacked'
  <1>1. \A k \in Node : /\ requestPool[k] \subseteq requestPool'[k]
                        /\ isCommitBordcast[k] \subseteq isCommitBordcast'[k]
    BY NodesKeep
  <1>2. ASSUME NEW k \in Node, NEW h, Brought(k, h)
        PROVE  h.msg \in Message /\ Backed(h.msg)
    BY <1>2 DEF Brought, VotesBacked, TypeOK, Handler
  <1>3. ASSUME NEW m \in net' PROVE Backed(m)'
    <2>1. CASE m \in net
      BY <2>1, BackedStays DEF VotesBacked, TypeOK
    <2>2. CASE m \notin net
      BY <2>2, MessagesSent DEF Sent, SentInView, SentOutOfView, SentToRecover,
         Backed
    <2> QED
      BY <2>1, <2>2
  <1>4. ASSUME NEW k \in Node,
               NEW h \in (waiting[k] \cup woken[k] \cup askBlocked[k])'
        PROVE  Backed(h.msg)'
    BY <1>2, HandlersBrought, BackedStays
  <1>5. ASSUME NEW k \in Node, NEW p \in cntPrepareConfirm'[k]
        PROVE  p[1] \in requestPool'[p[2]]
    <2>1. p \in Digest \X Node
      BY DEF TypeOK
    <2>2. p[1] \in requestPool[p[2]]
      BY <1>2, <2>1, VotesBrought DEF VotesBacked, Backed
    <2> QED
      BY <1>1, <2>1, <2>2
  <1>6. ASSUME NEW k \in Node, NEW p \in cntCommitConfirm'[k]
        PROVE  p[1] \in isCommitBordcast'[p[2]]
    <2>1. p \in Digest \X Node
      BY DEF TypeOK
    <2>2. p[1] \in isCommitBordcast[p[2]]
      BY <1>2, <2>1, VotesBrought DEF VotesBacked, Backed
    <2> QED
      BY <1>1, <2>1, <2>2
  <1> QED
    BY <1>3, <1>4, <1>5, <1>6 DEF VotesBacked

\* A set of nodes is as large as a set of nodes that it contains.
LEMMA NodesAtLeast ==
    ASSUME NEW T \in SUBSET Node, NEW S \in SUBSET T,
           Cardinality(S) >= Quorum
    PROVE  Cardinality(T) >= Quorum
  <1>1. IsFiniteSet(Node)
    BY FS_Interval, ConstantsAssumption DEF Node
  <1>2. IsFiniteSet(T)
    BY <1>1, FS_Subset
  <1>3. /\ IsFiniteSet(S)
        /\ Cardinality(S) \in Nat /\ Cardinality(T) \in Nat
        /\ Cardinality(S) <= Cardinality(T)
    BY <1>2, FS_Subset, FS_CardinalityType
  <1> QED
    BY <1>3, NodeFacts

LEMMA ReplicatedNext ==
    ASSUME TypeOK, TypeOK', VotesBacked', PreparedIsReplicated, [Next]_vars
    PROVE  PreparedIsReplicated'
  <1> SUFFICES ASSUME NEW k \in Node, NEW d \in isCommitBordcast'[k]
               PROVE  Cardinality(Holders(d)') >= Quorum
    BY DEF PreparedIsReplicated
  <1>0. Holders(d)' \in SUBSET Node
    BY DEF Holders
  <1>1. CASE d \in isCommitBordcast[k]
    <2>1. Holders(d) \in SUBSET Holders(d)'
      BY NodesKeep DEF Holders
    <2>2. Cardinality(Holders(d)) >= Quorum
      BY <1>1 DEF PreparedIsReplicated
    <2> QED
      BY <1>0, <2>1, <2>2, NodesAtLeast
  <1>2. CASE d \notin isCommitBordcast[k]
    <2>1. Cardinality(Voted(cntPrepareConfirm'[k], d)) >= Quorum
      BY <1>2, CommitsPrepared
    <2>2. Voted(cntPrepareConfirm'[k], d) \in SUBSET Holders(d)'
      BY DEF Voted, Holders, VotesBacked
    <2> QED
      BY <1>0, <2>1, <2>2, NodesAtLeast
  <1> QED
    BY <1>1, <1>2

LEMMA VotesInit == Init => VotesBacked /\ PreparedIsReplicated
  BY DEF Init, VotesBacked, PreparedIsReplicated

LEMMA VotesInvariant == Spec => [](VotesBacked /\ PreparedIsReplicated)
  <1>1. /\ TypeOK /\ TypeOK' /\ [Next]_vars
        /\ VotesBacked /\ PreparedIsReplicated
        => VotesBacked' /\ PreparedIsReplicated'
    BY VotesBackedNext, ReplicatedNext
  <1> QED
    BY <1>1, VotesInit, TypeCorrect, PTL DEF Spec

\* In every view, a node broadcasts Commit for a request only once 2f+1 nodes
\* store it (handlePrepare): any quorum of a later view can serve it.
THEOREM PreparedRequestsAreReplicated == Spec => []PreparedIsReplicated
  BY VotesInvariant, PTL

-----------------------------------------------------------------------------
(* Recovery.                                                                *)

\* The recovery of a node: no two messages, and askForLock while there is one.
AskedOnce ==
    \A n \in Node : /\ \A x, y \in Asked(n) : x = y
                    /\ Asked(n) # {} => askForLock[n]

\* A set without two different elements has at most one.
LEMMA AtMostOne ==
    ASSUME NEW S, \A x, y \in S : x = y
    PROVE  Cardinality(S) <= 1
  <1>1. CASE S = {}
    BY <1>1, FS_EmptySet
  <1>2. CASE S # {}
    <2>1. PICK x : S = {x}
      BY <1>2
    <2> QED
      BY <2>1, FS_Singleton
  <1> QED
    BY <1>1, <1>2

\* An answer that is handled is no message.
LEMMA RecoveryIsNoMessage == \A r \in Recovery, m \in Message : r # m
  <1> SUFFICES ASSUME NEW r \in Recovery, NEW m \in Message, r = m PROVE FALSE
    OBVIOUS
  <1>1. "type" \in DOMAIN m
    BY DEF Message
  <1>2. DOMAIN r = {"msg", "stage", "added"}
    BY DEF Recovery
  <1> QED
    BY <1>1, <1>2

\* While a node handles an answer, that is all that is under way.
LEMMA AskedAlone ==
    ASSUME TypeOK, AskedOnce, NEW n \in Node, NEW r \in recovering[n]
    PROVE  /\ Asked(n) = {r} /\ recovering[n] = {r} /\ askForLock[n]
           /\ \A m \in net : /\ m.type = "RequestOld" => m.from # n
                             /\ m.type = "SendOld" => m.to # n
  <1>1. Asked(n) = {r} /\ recovering[n] = {r} /\ askForLock[n]
    BY DEF Asked, AskedOnce
  <1>2. r \notin net
    BY RecoveryIsNoMessage DEF TypeOK
  <1> QED
    BY <1>1, <1>2 DEF Asked

\* A step that sends no recovery message and leaves askForLock alone.
LEMMA AskedKept ==
    ASSUME AskedOnce, askForLock' = askForLock, recovering' = recovering,
           \A m \in net' \ net : m.type \notin {"RequestOld", "SendOld"}
    PROVE  AskedOnce'
  <1>1. \A n \in Node : Asked(n)' \subseteq Asked(n)
    BY DEF Asked
  <1> QED
    BY <1>1 DEF AskedOnce

\* A node asks when nothing of its recovery is under way.
LEMMA AskedByAsking ==
    ASSUME TypeOK, AskedOnce, NEW n \in Node, NEW m, NEW rest \in SUBSET net,
           AskForOld(n, m, rest), recovering' = recovering
    PROVE  AskedOnce'
  <1>1. Asked(n) = {}
    BY DEF AskForOld, AskedOnce
  <1>2. askForLock'[n] /\ \A k \in Node \ {n} : askForLock'[k] = askForLock[k]
    BY DEF AskForOld, TypeOK
  <1>3. ASSUME NEW x \in net', x \notin net
        PROVE  /\ x = RequestOldMsg(view[n], Height(n) + 1, LastAsked(m), n)
               /\ x.type = "RequestOld" /\ x.from = n
    BY <1>3, MessageParts DEF AskForOld
  <1>4. \A x, y \in Asked(n)' : x = y
    BY <1>1, <1>3 DEF Asked
  <1>5. \A k \in Node \ {n} : Asked(k)' \subseteq Asked(k)
    BY <1>3 DEF Asked
  <1> QED
    BY <1>2, <1>4, <1>5 DEF AskedOnce

\* An answer takes the place of its request.
LEMMA AskedByAnswering ==
    ASSUME TypeOK, AskedOnce, NEW n \in Node, NEW m \in net,
           RequestOldAnswered(n, m)
    PROVE  AskedOnce'
  <1>1. m.type = "RequestOld" /\ m.from \in Node
    BY MessageFields DEF RequestOldAnswered, Delivered, TypeOK
  <1>a. \E last, reqs :
          net' = (net \ {m}) \cup {SendOldMsg(m.from, m.start, last, reqs)}
    BY DEF RequestOldAnswered
  <1>2. PICK a : net' = (net \ {m}) \cup {a} /\ a.type = "SendOld" /\ a.to = m.from
    BY <1>a, MessageParts
  <1>3. askForLock' = askForLock /\ recovering' = recovering
    BY DEF RequestOldAnswered, applying
  <1>4. m \in Asked(m.from) /\ Asked(m.from) = {m} /\ askForLock[m.from]
    BY <1>1 DEF Asked, AskedOnce
  <1>5. recovering[m.from] = {}
    BY <1>1, AskedAlone
  <1>6. Asked(m.from)' \subseteq {a}
    BY <1>2, <1>3, <1>4, <1>5 DEF Asked
  <1>7. \A k \in Node \ {m.from} : Asked(k)' \subseteq Asked(k)
    BY <1>2, <1>3 DEF Asked
  <1> QED
    BY <1>3, <1>4, <1>6, <1>7 DEF AskedOnce

\* The handler of an answer takes the place of the answer.
LEMMA AskedByArriving ==
    ASSUME TypeOK, AskedOnce, NEW n \in Node, NEW m \in net,
           SendOldArrives(n, m)
    PROVE  AskedOnce'
  <1>1. /\ m.type = "SendOld" /\ m.to = n /\ recovering[n] = {}
        /\ net' = net \ {m} /\ askForLock' = askForLock
    BY DEF SendOldArrives, Delivered
  <1>2. PICK r : recovering' = [recovering EXCEPT ![n] = {r}]
    BY DEF SendOldArrives
  <1>3. Asked(n) = {m} /\ askForLock[n]
    BY <1>1 DEF Asked, AskedOnce
  <1>4. Asked(n)' \subseteq {r}
    BY <1>1, <1>2, <1>3 DEF Asked, TypeOK
  <1>5. \A k \in Node \ {n} : Asked(k)' \subseteq Asked(k)
    BY <1>1, <1>2 DEF Asked, TypeOK
  <1> QED
    BY <1>1, <1>3, <1>4, <1>5 DEF AskedOnce

\* The handler of an answer moves on.
LEMMA AskedByMoving ==
    ASSUME TypeOK, AskedOnce, NEW n \in Node, NEW r \in recovering[n],
           NEW q, recovering' = [recovering EXCEPT ![n] = {q}],
           net' = net, askForLock' = askForLock
    PROVE  AskedOnce'
  <1>1. Asked(n)' = {q} /\ askForLock'[n]
    BY AskedAlone DEF Asked, TypeOK
  <1>2. \A k \in Node \ {n} : Asked(k)' = Asked(k)
    BY DEF Asked, TypeOK
  <1> QED
    BY <1>1, <1>2 DEF AskedOnce

\* When the handler of an answer ends, nothing is under way.
LEMMA AskedByEnding ==
    ASSUME TypeOK, AskedOnce, NEW n \in Node, NEW r \in recovering[n],
           recovering' = [recovering EXCEPT ![n] = {}],
           \A x \in net' \ net : x.type \notin {"RequestOld", "SendOld"},
           askForLock' = [askForLock EXCEPT ![n] = FALSE]
    PROVE  AskedOnce'
  <1>a. recovering'[n] = {}
    BY DEF TypeOK
  <1>b. \A m \in net' : ~(m.type = "RequestOld" /\ m.from = n)
                      /\ ~(m.type = "SendOld" /\ m.to = n)
    BY AskedAlone
  <1>1. Asked(n)' = {}
    BY <1>a, <1>b DEF Asked
  <1>2. \A k \in Node \ {n} : /\ Asked(k)' \subseteq Asked(k)
                              /\ askForLock'[k] = askForLock[k]
    BY DEF Asked, TypeOK
  <1> QED
    BY <1>1, <1>2 DEF AskedOnce

LEMMA AskedNext ==
    ASSUME TypeOK, TypeOK', AskedOnce, [Next]_vars
    PROVE  AskedOnce'
  <1> DEFINE NoneSent == \A m \in net' \ net : m.type \notin {"RequestOld", "SendOld"}
             Kept == askForLock' = askForLock /\ recovering' = recovering
             Asks == \E n \in Node :
                 \/ \E h \in Runnable(n) : CommitAsk(n, h)
                 \/ \E h \in askBlocked[n] : CommitAskResumes(n, h)
                 \/ \E m \in net : RequestOldAnswered(n, m)
  <1>1. ASSUME NEW n \in Node, NEW h \in Runnable(n), CommitAsk(n, h)
        PROVE  AskedOnce'
    BY <1>1, RunnableBrought, AskedByAsking DEF CommitAsk, applying
  <1>2. ASSUME NEW n \in Node, NEW h \in askBlocked[n], CommitAskResumes(n, h)
        PROVE  AskedOnce'
    BY <1>2, AskedByAsking DEF CommitAskResumes, applying
  <1>3. ASSUME NEW n \in Node, NEW m \in net, RequestOldAnswered(n, m)
        PROVE  AskedOnce'
    BY <1>3, AskedByAnswering
  <1>4. Asks => AskedOnce'
    BY <1>1, <1>2, <1>3
  <1>5. ~Asks => NoneSent
    BY MessagesSent DEF Sent, SentInView, SentOutOfView, SentToRecover
  <1>6. ASSUME NEW n \in Node, NEW m \in net, SendOldArrives(n, m)
        PROVE  AskedOnce'
    BY <1>6, AskedByArriving
  <1>7. ASSUME NEW n \in Node, NEW r \in recovering[n],
               RecoverBlock(n, r) \/ RejectBlock(n, r) \/ FileRequests(n, r)
                 \/ SetSequence(n, r)
        PROVE  AskedOnce'
    <2>1. /\ \E q : recovering' = [recovering EXCEPT ![n] = {q}]
          /\ net' = net /\ askForLock' = askForLock
      BY <1>7 DEF RecoverBlock, RejectBlock, FileRequests, SetSequence,
         RecoveryMoves
    <2> QED
      BY <2>1, AskedByMoving
  <1>8. ASSUME NEW n \in Node, NEW r \in recovering[n],
               SendOldRejected(n, r) \/ SendOldInstalled(n, r), NoneSent
        PROVE  AskedOnce'
    BY <1>8, AskedByEnding DEF SendOldRejected, SendOldInstalled
  <1>9. ASSUME NEW n \in Node,
               BeginRound(n) \/ Propose(n) \/ StoreStage(n) \/ StoreBlock(n)
                 \/ MoveHead(n)
                 \/ CommitEnds(n) \/ viewChangePropose(n)
        PROVE  Kept
    BY <1>9 DEF BeginRound, Propose, StoreStage, StoreBlock, MoveHead,
       CommitEnds, viewChangePropose, applying
  <1>10. ASSUME NEW n \in Node, NEW h,
               Park(n, h) \/ Discard(n, h) \/ handlePrePrepare(n, h)
                 \/ handlePrepare(n, h) \/ CommitVoteOnly(n, h)
                 \/ CommitBlock(n, h) \/ CommitAskBlocks(n, h)
        PROVE  Kept
    BY <1>10 DEF Park, Discard, handlePrePrepare, handlePrepare,
       CommitVoteOnly, CommitBlock, CommitAskBlocks, applying
  <1>11. ASSUME NEW n \in Node, NEW m,
                RequestOldUnanswered(n, m) \/ handleViewChangeMsg(n, m)
                  \/ NewViewVote(n, m) \/ EnterNewView(n, m)
         PROVE  Kept
    BY <1>11 DEF RequestOldUnanswered, handleViewChangeMsg, NewViewVote,
       EnterNewView, applying
  <1>12. ASSUME UNCHANGED vars
         PROVE  Kept
    BY <1>12 DEF vars, applying
  <1>13. Kept /\ NoneSent => AskedOnce'
    BY AskedKept
  <1> HIDE DEF Kept, NoneSent
  <1> QED
    BY <1>4, <1>5, <1>6, <1>7, <1>8, <1>9, <1>10, <1>11, <1>12, <1>13
       DEF Next, Step, Handle, ResumeAsk, Deliver, Recover

LEMMA AskedInvariant == Spec => []AskedOnce
  <1>1. Init => AskedOnce
    BY DEF Init, AskedOnce, Asked
  <1>2. TypeOK /\ TypeOK' /\ AskedOnce /\ [Next]_vars => AskedOnce'
    BY AskedNext
  <1> QED
    BY <1>1, <1>2, TypeCorrect, PTL DEF Spec

\* A node has at most one recovery in flight and holds askForLock all the
\* while (handleCommit, handleSendOldSeq), in every view: the answer that
\* unlocks finds the mutex locked.
THEOREM RecoversOneAtATime == Spec => []OneRecoveryAtATime
  <1>1. AskedOnce => OneRecoveryAtATime
    BY AtMostOne DEF AskedOnce, OneRecoveryAtATime
  <1> QED
    BY <1>1, AskedInvariant, PTL

-----------------------------------------------------------------------------
(***************************************************************************)
(* Agreement until the first view change, for every number of nodes.       *)
(* Node 0 leads and holds sequenceLock from a proposal to its own commit   *)
(* of it, so that blocks are minted one after the other, block d on top of *)
(* block d - 1, and every request is filed under its own height, wherever  *)
(* it travels: votes, recovery requests and their answers cannot bring two *)
(* different blocks to one height.  Whatever a node stores as its head is  *)
(* the blocks 1, 2, ... too, also when another handler has moved the head  *)
(* meanwhile; and node 0, which never recovers, keeps sequenceID in step   *)
(* with its chain.                                                         *)
(***************************************************************************)

\* A request filed, or named by a message, for the height it was minted for.
Filed(s, d) == d \in 1 .. minted /\ s = d

StableBlocks ==
    /\ \A d \in 1 .. minted : parentOf[d] = d - 1
    /\ minted <= Height(0) + 1

StableLeader ==
    /\ \A n \in Node : view[n] = 0
    /\ \A n \in Node : proposers[n] > 0 => n = 0
    /\ \A n \in Node : sequenceLock[n] <=>
                         n = 0 /\ (minted > Height(0) \/ committing[0] # {})
    /\ fatal = {}

\* Node 0 between the steps of its commit.
LeaderCommits ==
    /\ committing[0] = {} => adding[0] = {} /\ sequenceID[0] = Height(0) + 1
    /\ committing[0] # {} =>
         /\ sequenceID[0] = minted
         /\ adding[0] = {} => Height(0) = minted
    /\ \A a, b \in adding[0] : a = b
    /\ \A a \in adding[0] : a.by = "handleCommit" /\ Len(a.head) = minted

\* A chain is the blocks 1, 2, ... and no more than were minted.
Counts(c) == Len(c) <= minted /\ \A i \in 1 .. Len(c) : c[i] = i

StableChains ==
    \A n \in Node : /\ Counts(chain[n])
                    /\ \A a \in adding[n] : Counts(a.head)

StablePools ==
    /\ 1 .. minted \subseteq requestPool[0]
    /\ \A n \in Node : \A p \in height2Digest[n] : Filed(p[1], p[2])

StableMessage(m) ==
    /\ m.type \in Tracked => Filed(m.seqID, m.digest)
    /\ m.type = "RequestOld" => m.from # 0
    /\ m.type = "SendOld" =>
         /\ m.to # 0
         /\ Len(m.reqs) > 0
         /\ Len(m.reqs) = m.end - m.start + 1
         /\ \A i \in 1 .. Len(m.reqs) : Filed(m.start + i - 1, m.reqs[i])

StableNet == \A m \in net : StableMessage(m)

StableRecoveries ==
    \A n \in Node : \A r \in recovering[n] : n # 0 /\ StableMessage(r.msg)

StableHandlers ==
    /\ \A n \in Node : \A h \in waiting[n] \cup woken[n] \cup askBlocked[n] :
         Filed(h.msg.seqID, h.msg.digest)
    /\ askBlocked[0] = {}

Stable ==
    /\ StableBlocks
    /\ StableLeader
    /\ LeaderCommits
    /\ StableChains
    /\ StablePools
    /\ StableNet
    /\ StableRecoveries
    /\ StableHandlers

StableInv == newViews = 0 => Stable

-----------------------------------------------------------------------------
(* Lemmas.                                                                 *)

\* The head of a chain 1, 2, ... is its height.
LEMMA HeadIsHeight ==
    ASSUME TypeOK, StableChains, NEW n \in Node
    PROVE  /\ Height(n) \in Nat
           /\ Height(n) <= minted
           /\ HeadOf(chain[n]) = Height(n)
  <1>1. chain[n] \in Seq(Digest) /\ Counts(chain[n])
    BY DEF TypeOK, StableChains
  <1> QED
    BY <1>1 DEF Counts, HeadOf, Height

\* Minting more keeps what is filed.
LEMMA FiledMono ==
    ASSUME minted \in Nat, minted' \in Nat, minted' >= minted
    PROVE  \A s, d : Filed(s, d) => Filed(s, d)'
  BY DEF Filed

LEMMA FiledSame ==
    ASSUME minted' = minted
    PROVE  \A s, d : Filed(s, d)' <=> Filed(s, d)
  BY DEF Filed

\* The messages of a round name a filed request; only followers ask.
LEMMA StableMessages ==
    /\ \A t, s, d, n : Filed(s, d) => /\ StableMessage(PrePrepareMsg(t, s, d))
                                      /\ StableMessage(PrepareMsg(t, s, d, n))
                                      /\ StableMessage(CommitMsg(t, s, d, n))
    /\ \A t, v, s, n : /\ StableMessage(ViewChangeMsg(t, v, s, n))
                       /\ StableMessage(NewViewMsg(t, v, s, n))
    /\ \A t, lo, hi, n : n # 0 => StableMessage(RequestOldMsg(t, lo, hi, n))
  BY DEF StableMessage, Tracked, PrePrepareMsg, PrepareMsg, CommitMsg,
         ViewChangeMsg, NewViewMsg, RequestOldMsg

\* A message stays stable while more is minted.
LEMMA MessageMono ==
    ASSUME minted \in Nat, minted' \in Nat, minted' >= minted
    PROVE  \A m : StableMessage(m) => StableMessage(m)'
  BY FiledMono DEF StableMessage

\* A handler that can run handles a filed request; nothing is being added by
\* another handler that holds pbftLock.
LEMMA RunnableFiled ==
    ASSUME TypeOK, StableNet, StableHandlers, NEW n \in Node,
           NEW h \in Runnable(n)
    PROVE  Filed(h.msg.seqID, h.msg.digest) /\ committing[n] = {}
  <1>1. h \in woken[n] \cup Started(n) /\ committing[n] = {}
    BY DEF Runnable
  <1>2. CASE h \in woken[n]
    BY <1>1, <1>2 DEF StableHandlers
  <1>3. CASE h \in Started(n)
    BY <1>1, <1>3 DEF Started, StableNet, StableMessage
  <1> QED
    BY <1>1, <1>2, <1>3

LEMMA StableInit == Init => StableInv
  BY NodeFacts DEF Init, StableInv, Stable, StableBlocks, StableLeader,
     LeaderCommits, StableChains, Counts, StablePools, StableNet,
     StableRecoveries, StableHandlers, Height

\* What most steps leave alone.
Rested == UNCHANGED <<view, sequenceID, requestPool, height2Digest,
                      sequenceLock, chain, committing, recovering, adding,
                      fatal, minted, parentOf>>

\* The parts of the invariant that such a step keeps.
LEMMA StableKept ==
    ASSUME TypeOK, Stable, Rested
    PROVE  /\ StableBlocks' /\ LeaderCommits' /\ StableChains'
           /\ StablePools' /\ StableRecoveries'
           /\ proposers' = proposers => StableLeader'
           /\ \A m : StableMessage(m) => StableMessage(m)'
           /\ \A s, d : Filed(s, d)' <=> Filed(s, d)
  <1>1. (\A m : StableMessage(m) => StableMessage(m)')
        /\ \A s, d : Filed(s, d)' <=> Filed(s, d)
    BY ConstantsAssumption, MessageMono, FiledSame DEF Rested, TypeOK
  <1>2. \A n : Height(n)' = Height(n)
    BY DEF Rested, Height
  <1>3. StableBlocks' /\ (proposers' = proposers => StableLeader')
    BY <1>2 DEF Rested, Stable, StableBlocks, StableLeader
  <1>4. LeaderCommits' /\ StableChains'
    BY <1>2 DEF Rested, Stable, LeaderCommits, StableChains, Counts
  <1>5. StablePools' /\ StableRecoveries'
    BY <1>1 DEF Rested, Stable, StablePools, StableRecoveries
  <1> QED
    BY <1>1, <1>3, <1>4, <1>5

-----------------------------------------------------------------------------
(* Each action keeps the invariant.                                         *)

LEMMA StableBeginRound ==
    ASSUME TypeOK, TypeOK', Stable, NEW n \in Node, BeginRound(n)
    PROVE  Stable'
  <1>1. Rested /\ UNCHANGED <<waiting, woken, askBlocked, net>>
    BY DEF BeginRound, Rested, nodeVars, handlers, applying, blockVars
  <1>2. StableLeader'
    <2>1. n = 0 /\ proposers' = [proposers EXCEPT ![n] = @ + 1]
      BY DEF BeginRound, Stable, StableLeader
    <2> QED
      BY <1>1, <2>1 DEF Rested, Stable, StableLeader, TypeOK, Height
  <1>3. StableNet' /\ StableHandlers'
    BY <1>1, StableKept DEF Stable, StableNet, StableHandlers
  <1> QED
    BY <1>1, <1>2, <1>3, StableKept DEF Stable

LEMMA StableStoreStage ==
    ASSUME TypeOK, TypeOK', Stable, NEW n \in Node, StoreStage(n)
    PROVE  Stable'
  <1>1. Rested /\ UNCHANGED <<proposers, waiting, woken, askBlocked, net>>
    BY DEF StoreStage, Rested, nodeVars, handlers, applying, blockVars
  <1>2. StableNet' /\ StableHandlers'
    BY <1>1, StableKept DEF Stable, StableNet, StableHandlers
  <1> QED
    BY <1>1, <1>2, StableKept DEF Stable

LEMMA StableViewChangePropose ==
    ASSUME TypeOK, TypeOK', Stable, NEW n \in Node, viewChangePropose(n)
    PROVE  Stable'
  <1>1. Rested /\ UNCHANGED <<proposers, waiting, woken, askBlocked>>
    BY DEF viewChangePropose, Rested, nodeVars, handlers, applying, blockVars
  <1>2. StableNet'
    BY <1>1, StableMessages, StableKept DEF Stable, StableNet,
       viewChangePropose
  <1>3. StableHandlers'
    BY <1>1, StableKept DEF Stable, StableHandlers
  <1> QED
    BY <1>1, <1>2, <1>3, StableKept DEF Stable

\* A handler that takes pbftLock and leaves chain, sequence and pool alone.
LEMMA StableHandler ==
    ASSUME TypeOK, TypeOK', Stable, NEW n \in Node, NEW h \in Runnable(n),
           \/ Park(n, h) \/ Discard(n, h) \/ handlePrepare(n, h)
           \/ CommitVoteOnly(n, h)
    PROVE  Stable'
  <1>1. Rested /\ UNCHANGED <<proposers, askBlocked>>
    <2>1. CASE Park(n, h) \/ Discard(n, h)
      BY <2>1 DEF Park, Discard, Rested, nodeVars, applying, blockVars
    <2>2. CASE handlePrepare(n, h) \/ CommitVoteOnly(n, h)
      BY <2>2 DEF handlePrepare, CommitVoteOnly, Rested, applying, blockVars
    <2> QED
      BY <2>1, <2>2
  <1>2. Filed(h.msg.seqID, h.msg.digest) /\ Rest(n, h) \subseteq net
    BY RunnableFiled, RunnableHandler DEF Stable
  <1>3. StableNet'
    <2>1. CASE Park(n, h) \/ Discard(n, h) \/ CommitVoteOnly(n, h)
      <3>1. net' = Rest(n, h)
        BY <2>1 DEF Park, Discard, CommitVoteOnly
      <3> QED
        BY <1>1, <1>2, <3>1, StableKept DEF Stable, StableNet
    <2>2. CASE handlePrepare(n, h)
      BY <1>1, <1>2, <2>2, StableMessages, StableKept DEF Stable, StableNet,
         handlePrepare
    <2> QED
      BY <2>1, <2>2
  <1>4. StableHandlers'
    <2>1. ASSUME NEW k \in Node, NEW x \in waiting'[k] \cup woken'[k]
          PROVE  x \in waiting[k] \cup woken[k] \/ x = h
      <3>1. CASE Park(n, h)
        <4>1. /\ woken' = [woken EXCEPT ![n] = @ \ {h}]
              /\ waiting' = [waiting EXCEPT ![n] = @ \cup {h}]
          BY <3>1 DEF Park
        <4> QED
          BY <2>1, <4>1 DEF TypeOK
      <3>2. CASE Return(n, h)
        <4>1. /\ woken' = [woken EXCEPT ![n] = (@ \ {h}) \cup waiting[n]]
              /\ waiting' = [waiting EXCEPT ![n] = {}]
          BY <3>2 DEF Return
        <4> QED
          BY <2>1, <4>1 DEF TypeOK
      <3>3. Park(n, h) \/ Return(n, h)
        BY DEF Discard, handlePrepare, CommitVoteOnly
      <3> QED
        BY <3>1, <3>2, <3>3
    <2>2. \A k \in Node : \A x \in waiting'[k] \cup woken'[k] :
            Filed(x.msg.seqID, x.msg.digest)
      BY <1>2, <2>1 DEF Stable, StableHandlers
    <2> QED
      BY <1>1, <2>2, StableKept DEF Stable, StableHandlers
  <1> QED
    BY <1>1, <1>3, <1>4, StableKept DEF Stable

\* The handlers of a node after one of them has returned.
LEMMA StableReturn ==
    ASSUME TypeOK, Stable, NEW n \in Node, NEW h, Return(n, h),
           askBlocked' = askBlocked, minted' = minted
    PROVE  StableHandlers'
  <1>1. \A k \in Node : waiting'[k] \cup woken'[k]
                          \subseteq waiting[k] \cup woken[k]
    BY DEF Return, TypeOK
  <1> QED
    BY <1>1, FiledSame DEF Stable, StableHandlers

\* A message that is not part of a round is handled.
LEMMA StableMessageHandled ==
    ASSUME TypeOK, TypeOK', Stable, NEW n \in Node, NEW m \in net,
           \/ RequestOldUnanswered(n, m) \/ handleViewChangeMsg(n, m)
           \/ NewViewVote(n, m)
    PROVE  Stable'
  <1>1. Rested /\ UNCHANGED <<proposers, waiting, woken, askBlocked>>
    <2>1. CASE RequestOldUnanswered(n, m)
      BY <2>1 DEF RequestOldUnanswered, Rested, nodeVars, handlers, applying,
         blockVars
    <2>2. CASE handleViewChangeMsg(n, m) \/ NewViewVote(n, m)
      BY <2>2 DEF handleViewChangeMsg, NewViewVote, Rested, nodeVars,
         handlers, applying, blockVars
    <2> QED
      BY <2>1, <2>2
  <1>2. StableNet'
    <2>1. CASE RequestOldUnanswered(n, m) \/ NewViewVote(n, m)
      <3>1. net' = net \ {m}
        BY <2>1 DEF RequestOldUnanswered, NewViewVote
      <3> QED
        BY <1>1, <3>1, StableKept DEF Stable, StableNet
    <2>2. CASE handleViewChangeMsg(n, m)
      BY <1>1, <2>2, StableMessages, StableKept DEF Stable, StableNet,
         handleViewChangeMsg
    <2> QED
      BY <2>1, <2>2
  <1>3. StableHandlers'
    BY <1>1, StableKept DEF Stable, StableHandlers
  <1> QED
    BY <1>1, <1>2, <1>3, StableKept DEF Stable

LEMMA StableCommitAskResumes ==
    ASSUME TypeOK, TypeOK', Stable, NEW n \in Node, NEW h \in askBlocked[n],
           CommitAskResumes(n, h)
    PROVE  Stable'
  <1>1. Filed(h.msg.seqID, h.msg.digest) /\ n # 0
    BY DEF Stable, StableHandlers
  <1>2. UNCHANGED <<sequenceLock, fatal>>
    BY <1>1 DEF CommitAskResumes, AskForOld, EndRound, Stable, StableLeader,
       TypeOK
  <1>3. Rested /\ proposers' = proposers
    BY <1>2 DEF CommitAskResumes, Rested, nodeVars, applying, blockVars
  <1>4. StableNet'
    BY <1>1, <1>3, StableMessages, StableKept DEF Stable, StableNet,
       CommitAskResumes, AskForOld
  <1>5. StableHandlers'
    <2>1. \A k \in Node : waiting'[k] \cup woken'[k] \cup askBlocked'[k]
                            \subseteq waiting[k] \cup woken[k] \cup askBlocked[k]
      BY DEF CommitAskResumes, Return, TypeOK
    <2>2. askBlocked'[0] = {}
      BY <1>1, NodeFacts DEF CommitAskResumes, Stable, StableHandlers, TypeOK
    <2> QED
      BY <1>3, <2>1, <2>2, StableKept DEF Stable, StableHandlers
  <1> QED
    BY <1>3, <1>4, <1>5, StableKept DEF Stable

\* The leader mints the block that follows its head, which is the last one.
LEMMA StablePropose ==
    ASSUME TypeOK, TypeOK', Stable, NEW n \in Node, Propose(n)
    PROVE  Stable'
  <1>1. UNCHANGED <<view, sequenceID, chain, waiting, woken, askBlocked,
                    committing, recovering, adding, fatal>>
    BY DEF Propose, handlers, applying
  <1>2. n = 0 /\ ~sequenceLock[0]
    BY DEF Propose, CanLock, Stable, StableLeader, TypeOK
  <1>3. minted \in Nat /\ minted' = minted + 1 /\ minted + 1 \in Digest
    BY ConstantsAssumption DEF Propose, TypeOK, Digest
  <1>4. /\ Height(0) = minted /\ HeadOf(chain[0]) = minted
        /\ committing[0] = {} /\ adding[0] = {}
    <2>1. ~(minted > Height(0)) /\ committing[0] = {}
      BY <1>2 DEF Stable, StableLeader
    <2> QED
      BY <1>3, <2>1, NodeFacts, HeadIsHeight DEF Stable, LeaderCommits
  <1>5. sequenceID[0] = minted + 1
    BY <1>4 DEF Stable, LeaderCommits
  <1>6. \A s, d : Filed(s, d) => Filed(s, d)'
    BY <1>3, FiledMono
  <1>7. PICK d \in Digest : d = minted + 1
    BY <1>3
  <1>f. Filed(d, d)'
    BY <1>3, <1>7 DEF Filed
  <1>h. \A k : Height(k)' = Height(k)
    BY <1>1 DEF Height
  <1>8. StableBlocks'
    <2>1. parentOf' = [parentOf EXCEPT ![minted + 1] = minted]
      BY <1>2, <1>4 DEF Propose
    <2>2. parentOf'[minted + 1] = minted
      BY <1>3, <2>1 DEF TypeOK
    <2>s. \A b \in 1 .. minted : parentOf[b] = b - 1
      BY DEF Stable, StableBlocks
    <2>t. DOMAIN parentOf = Digest
      BY DEF TypeOK
    <2>u. 1 .. minted \subseteq Digest
      BY <1>3, ConstantsAssumption DEF Digest
    <2>3. \A b \in 1 .. minted : parentOf'[b] = b - 1
      <3> SUFFICES ASSUME NEW b \in 1 .. minted PROVE parentOf'[b] = parentOf[b]
        BY <2>s
      <3>1. b \in Digest /\ b # minted + 1
        BY <1>3, <2>u
      <3> QED
        BY <3>1, <2>1, <2>t
    <2> QED
      BY <1>3, <1>4, <1>h, <2>2, <2>3 DEF StableBlocks
  <1>9. StableLeader'
    <2>1. Height(0)' = minted
      BY <1>4, <1>h
    <2>2. sequenceLock' = [sequenceLock EXCEPT ![0] = TRUE]
      BY <1>2 DEF Propose
    <2>3. proposers' = [proposers EXCEPT ![0] = @ - 1]
      BY <1>2 DEF Propose
    <2>4. minted' > Height(0)'
      BY <1>3, <2>1
    <2>5. \A k \in Node : sequenceLock'[k] <=> k = 0
      BY <1>4, <2>2 DEF TypeOK, Stable, StableLeader
    <2>6. \A k \in Node : proposers'[k] > 0 => k = 0
      BY <2>3 DEF TypeOK, Stable, StableLeader
    <2>7. (\A k \in Node : view'[k] = 0) /\ fatal' = {}
      BY <1>1 DEF Stable, StableLeader
    <2> QED
      BY <2>4, <2>5, <2>6, <2>7 DEF StableLeader
  <1>l. LeaderCommits'
    BY <1>1, <1>4, <1>h DEF Stable, LeaderCommits
  <1>10. StableChains'
    <2>1. \A k \in Node : /\ Len(chain[k]) \in Nat
                          /\ \A a \in adding[k] : Len(a.head) \in Nat
      <3>1. \A k \in Node : chain[k] \in Seq(Digest) /\ adding[k] \subseteq AddCall
        BY DEF TypeOK
      <3>2. \A a \in AddCall : a.head \in Seq(Digest)
        BY DEF AddCall
      <3> QED
        BY <3>1, <3>2
    <2> QED
      BY <1>1, <1>3, <2>1 DEF Stable, StableChains, Counts
  <1>11. StablePools'
    <2>1. requestPool'[0] = requestPool[0] \cup {minted + 1}
      BY <1>2 DEF Propose, TypeOK
    <2>2. \A k \in Node : height2Digest'[k] \subseteq
            height2Digest[k] \cup {<<d, d>>}
      BY <1>2, <1>5, <1>7 DEF Propose, SetHeight, TypeOK
    <2>3. 1 .. minted + 1 \subseteq requestPool'[0]
      BY <1>3, <2>1 DEF Stable, StablePools
    <2>4. \A k \in Node : \A p \in height2Digest'[k] : Filed(p[1], p[2])'
      BY <1>6, <1>f, <2>2 DEF Stable, StablePools
    <2> QED
      BY <1>3, <2>3, <2>4 DEF StablePools
  <1>m. \A m : StableMessage(m) => StableMessage(m)'
    BY <1>3, MessageMono
  <1>12. StableNet'
    <2>1. net' = net \cup {PrePrepareMsg(t, d, d) : t \in Reach("PrePrepare")}
      BY <1>2, <1>5, <1>7 DEF Propose
    <2>3. \A t : StableMessage(PrePrepareMsg(t, d, d))'
      BY <1>f DEF StableMessage, Tracked, PrePrepareMsg
    <2> QED
      BY <1>m, <2>1, <2>3 DEF Stable, StableNet
  <1>13. StableHandlers' /\ StableRecoveries'
    BY <1>1, <1>6, <1>m DEF Stable, StableHandlers, StableRecoveries
  <1> QED
    BY <1>8, <1>9, <1>l, <1>10, <1>11, <1>12, <1>13 DEF Stable

\* A block that AddBlock accepts is the next one of the chain.
LEMMA NextBlock ==
    ASSUME TypeOK, Stable, NEW n \in Node, NEW d \in 1 .. minted,
           IsValidBlock(n, d)
    PROVE  d = Height(n) + 1
  <1>1. parentOf[d] = d - 1
    BY DEF Stable, StableBlocks
  <1>2. Height(n) \in Nat /\ HeadOf(chain[n]) = Height(n)
    BY HeadIsHeight DEF Stable
  <1>3. d \in Nat
    BY ConstantsAssumption DEF TypeOK
  <1>4. d - 1 = Height(n)
    BY <1>1, <1>2 DEF IsValidBlock
  <1> QED
    BY <1>2, <1>3, <1>4

\* The head that AddBlock is about to store after it has accepted a block.
LEMMA NextHead ==
    ASSUME TypeOK, Stable, NEW n \in Node, NEW d \in 1 .. minted, NEW f,
           IsValidBlock(n, d)
    PROVE  /\ AddBlockCall(n, f, d).by = f
           /\ Len(AddBlockCall(n, f, d).head) = d
           /\ Counts(AddBlockCall(n, f, d).head)
  <1>1. d = Height(n) + 1 /\ d \in Nat /\ d <= minted /\ d \in Digest
    <2>1. d = Height(n) + 1
      BY NextBlock
    <2>2. minted \in 0 .. MaxBlocks /\ MaxBlocks \in Nat
      BY ConstantsAssumption DEF TypeOK
    <2> QED
      BY <2>1, <2>2 DEF Digest
  <1>2. chain[n] \in Seq(Digest) /\ \A i \in 1 .. Len(chain[n]) : chain[n][i] = i
    BY DEF TypeOK, Stable, StableChains, Counts
  <1>3. PICK c : c = Append(chain[n], d)
    OBVIOUS
  <1>4. Len(c) = Len(chain[n]) + 1 /\ c[Len(chain[n]) + 1] = d
        /\ \A i \in 1 .. Len(chain[n]) : c[i] = chain[n][i]
    BY <1>1, <1>2, <1>3
  <1>5. Len(c) = d /\ Len(chain[n]) \in Nat
    BY <1>1, <1>2, <1>4 DEF Height
  <1>6. \A i \in 1 .. Len(c) : c[i] = i
    BY <1>1, <1>2, <1>4, <1>5 DEF Height
  <1> QED
    BY <1>1, <1>3, <1>5, <1>6 DEF AddBlockCall, Counts

\* The commit handler has validated the block that follows the head.
LEMMA StableCommitBlock ==
    ASSUME TypeOK, TypeOK', Stable, NEW n \in Node, NEW h \in Runnable(n),
           CommitBlock(n, h)
    PROVE  Stable'
  <1>1. UNCHANGED <<view, sequenceID, requestPool, height2Digest, sequenceLock,
                    chain, proposers, waiting, askBlocked, recovering, fatal,
                    minted, parentOf>>
    BY DEF CommitBlock, blockVars
  <1>2. /\ Filed(h.msg.seqID, h.msg.digest) /\ Rest(n, h) \subseteq net
        /\ committing[n] = {}
    BY RunnableFiled, RunnableHandler DEF Stable
  <1>3. PICK d : d = h.msg.digest
    OBVIOUS
  <1>4. d \in 1 .. minted /\ IsValidBlock(n, d) /\ d = Height(n) + 1
    BY <1>2, <1>3, NextBlock DEF CommitBlock, Filed
  <1>5. PICK a : a = AddBlockCall(n, "handleCommit", d)
    OBVIOUS
  <1>6. adding' = [adding EXCEPT ![n] = @ \cup {a}]
    BY <1>3, <1>5 DEF CommitBlock
  <1>7. a.by = "handleCommit" /\ Len(a.head) = d /\ Counts(a.head)
    BY <1>4, <1>5, NextHead
  <1>8. committing' = [committing EXCEPT ![n] = {h}]
    BY DEF CommitBlock
  <1>h. (\A k : Height(k)' = Height(k)) /\ (\A c : Counts(c)' <=> Counts(c))
    BY <1>1 DEF Height, Counts
  <1>9. StableBlocks'
    BY <1>1, <1>h DEF Stable, StableBlocks
  <1>10. ASSUME n = 0
         PROVE  d = minted /\ minted = Height(0) + 1 /\ adding[0] = {}
    <2>1. Height(0) \in Nat /\ minted \in Nat /\ minted <= Height(0) + 1
      BY ConstantsAssumption, NodeFacts DEF Height, TypeOK, Stable,
         StableBlocks
    <2> QED
      BY <1>2, <1>4, <1>10, <2>1 DEF Stable, LeaderCommits
  <1>11. StableLeader'
    <2>1. CASE n = 0
      <3>1. minted > Height(0)
        BY <1>10, <2>1, NodeFacts DEF Height, TypeOK
      <3> QED
        BY <1>1, <1>h, <3>1 DEF Stable, StableLeader
    <2>2. CASE n # 0
      <3>1. committing'[0] = committing[0]
        BY <1>8, <2>2, NodeFacts DEF TypeOK
      <3> QED
        BY <1>1, <1>h, <3>1 DEF Stable, StableLeader
    <2> QED
      BY <2>1, <2>2
  <1>12. LeaderCommits'
    <2>1. CASE n = 0
      <3>1. committing'[0] # {} /\ adding'[0] = {a}
        BY <1>6, <1>8, <1>10, <2>1, NodeFacts DEF TypeOK
      <3>2. sequenceID'[0] = minted'
        BY <1>1, <1>2, <1>10, <2>1 DEF Stable, LeaderCommits
      <3> QED
        BY <1>1, <1>7, <1>10, <2>1, <3>1, <3>2 DEF LeaderCommits
    <2>2. CASE n # 0
      <3>1. committing'[0] = committing[0] /\ adding'[0] = adding[0]
        BY <1>6, <1>8, <2>2, NodeFacts DEF TypeOK
      <3> QED
        BY <1>1, <1>h, <3>1 DEF Stable, LeaderCommits
    <2> QED
      BY <2>1, <2>2
  <1>13. StableChains'
    <2>1. \A k \in Node : adding'[k] \subseteq adding[k] \cup {a}
      BY <1>6 DEF TypeOK
    <2> QED
      BY <1>1, <1>7, <1>h, <2>1 DEF Stable, StableChains
  <1>m. \A m : StableMessage(m) => StableMessage(m)'
    BY <1>1, ConstantsAssumption, MessageMono DEF TypeOK
  <1>14. StablePools' /\ StableRecoveries'
    BY <1>1, <1>m, FiledSame DEF Stable, StablePools, StableRecoveries
  <1>15. StableNet'
    BY <1>2, <1>m DEF Stable, StableNet, CommitBlock
  <1>16. StableHandlers'
    <2>1. \A k \in Node : woken'[k] \subseteq woken[k]
      BY DEF CommitBlock, TypeOK
    <2> QED
      BY <1>1, <2>1, FiledSame DEF Stable, StableHandlers
  <1> QED
    BY <1>9, <1>11, <1>12, <1>13, <1>14, <1>15, <1>16 DEF Stable

\* A block is stored: the calls of AddBlock keep their heads.
LEMMA StableStoreBlock ==
    ASSUME TypeOK, TypeOK', Stable, NEW n \in Node, StoreBlock(n)
    PROVE  Stable'
  <1>1. UNCHANGED <<view, sequenceID, requestPool, height2Digest, sequenceLock,
                    chain, proposers, waiting, woken, askBlocked, committing,
                    recovering, fatal, net, minted, parentOf>>
    BY DEF StoreBlock, nodeVars, handlers, blockVars
  <1>2. PICK a \in adding[n] :
          adding' = [adding EXCEPT
                       ![n] = (@ \ {a}) \cup {[a EXCEPT !.stored = TRUE]}]
    BY DEF StoreBlock
  <1>3. PICK b : b = [a EXCEPT !.stored = TRUE]
    OBVIOUS
  <1>4. b.by = a.by /\ b.head = a.head
    BY <1>3, StoredCall
  <1>5. /\ adding'[n] = (adding[n] \ {a}) \cup {b}
        /\ \A k \in Node \ {n} : adding'[k] = adding[k]
    BY <1>2, <1>3 DEF TypeOK
  <1>6. (\A k : Height(k)' = Height(k)) /\ (\A c : Counts(c)' <=> Counts(c))
    BY <1>1 DEF Height, Counts
  <1>7. StableBlocks' /\ StableLeader'
    BY <1>1, <1>6 DEF Stable, StableBlocks, StableLeader
  <1>8. LeaderCommits'
    <2>1. CASE n = 0
      <3>1. adding[0] # {} /\ adding'[0] = {b}
        BY <1>5, <2>1 DEF Stable, LeaderCommits
      <3> QED
        BY <1>1, <1>4, <1>6, <2>1, <3>1 DEF Stable, LeaderCommits
    <2>2. CASE n # 0
      <3>1. adding'[0] = adding[0]
        BY <1>5, <2>2, NodeFacts
      <3> QED
        BY <1>1, <1>6, <3>1 DEF Stable, LeaderCommits
    <2> QED
      BY <2>1, <2>2
  <1>9. StableChains'
    BY <1>1, <1>4, <1>5, <1>6 DEF Stable, StableChains
  <1>m. \A m : StableMessage(m) => StableMessage(m)'
    BY <1>1, ConstantsAssumption, MessageMono DEF TypeOK
  <1>10. StablePools' /\ StableNet' /\ StableRecoveries' /\ StableHandlers'
    BY <1>1, <1>m, FiledSame DEF Stable, StablePools, StableNet,
       StableRecoveries, StableHandlers
  <1> QED
    BY <1>7, <1>8, <1>9, <1>10 DEF Stable

\* A new head is a chain 1, 2, ...; that of the leader is the last block.
LEMMA StableMoveHead ==
    ASSUME TypeOK, TypeOK', Stable, NEW n \in Node, MoveHead(n)
    PROVE  Stable'
  <1>1. UNCHANGED <<view, sequenceID, requestPool, height2Digest, sequenceLock,
                    proposers, waiting, woken, askBlocked, committing,
                    recovering, fatal, net, minted, parentOf>>
    BY DEF MoveHead, nodeVars, handlers, blockVars
  <1>2. PICK a \in adding[n] : /\ chain' = [chain EXCEPT ![n] = a.head]
                               /\ adding' = [adding EXCEPT ![n] = @ \ {a}]
    BY DEF MoveHead
  <1>3. chain'[n] = a.head /\ \A k \in Node \ {n} : chain'[k] = chain[k]
    BY <1>2 DEF TypeOK
  <1>4. \A k \in Node : adding'[k] \subseteq adding[k]
    BY <1>2 DEF TypeOK
  <1>5. \A c : Counts(c)' <=> Counts(c)
    BY <1>1 DEF Counts
  <1>6. StableChains'
    BY <1>3, <1>4, <1>5 DEF Stable, StableChains
  <1>7. ASSUME n = 0
        PROVE  committing[0] # {} /\ adding'[0] = {} /\ Height(0)' = minted
    <2>1. committing[0] # {} /\ Len(a.head) = minted
      BY <1>7 DEF Stable, LeaderCommits
    <2>2. adding'[0] = {}
      BY <1>2, <1>7, NodeFacts DEF Stable, LeaderCommits, TypeOK
    <2> QED
      BY <1>3, <1>7, <2>1, <2>2 DEF Height
  <1>8. ASSUME n # 0
        PROVE  adding'[0] = adding[0] /\ Height(0)' = Height(0)
    BY <1>2, <1>3, <1>8, NodeFacts DEF Height, TypeOK
  <1>9. minted \in Nat
    BY ConstantsAssumption DEF TypeOK
  <1>10. StableBlocks'
    BY <1>1, <1>7, <1>8, <1>9 DEF Stable, StableBlocks
  <1>11. StableLeader'
    <2>1. committing' = committing /\ minted' = minted
      BY <1>1
    <2>2. (minted > Height(0) \/ committing[0] # {})
            <=> (minted' > Height(0)' \/ committing'[0] # {})
      BY <1>7, <1>8, <2>1
    <2> QED
      BY <1>1, <2>2 DEF Stable, StableLeader
  <1>12. LeaderCommits'
    BY <1>1, <1>7, <1>8 DEF Stable, LeaderCommits
  <1>m. \A m : StableMessage(m) => StableMessage(m)'
    BY <1>1, <1>9, MessageMono
  <1>13. StablePools' /\ StableNet' /\ StableRecoveries' /\ StableHandlers'
    BY <1>1, <1>m, FiledSame DEF Stable, StablePools, StableNet,
       StableRecoveries, StableHandlers
  <1> QED
    BY <1>6, <1>10, <1>11, <1>12, <1>13 DEF Stable

\* The end of a commit; that of the leader releases sequenceLock.
LEMMA StableCommitEnds ==
    ASSUME TypeOK, TypeOK', Stable, NEW n \in Node, CommitEnds(n)
    PROVE  Stable'
  <1>1. UNCHANGED <<view, requestPool, height2Digest, chain, proposers,
                    askBlocked, recovering, adding, net, minted, parentOf>>
    BY DEF CommitEnds, blockVars
  <1>2. /\ committing[n] # {} /\ Adding(n, "handleCommit") = {}
        /\ sequenceID' = [sequenceID EXCEPT ![n] = @ + 1]
        /\ committing' = [committing EXCEPT ![n] = {}]
        /\ EndRound(n)
    BY DEF CommitEnds, NextSequence
  <1>h. (\A k : Height(k)' = Height(k)) /\ (\A c : Counts(c)' <=> Counts(c))
    BY <1>1 DEF Height, Counts
  <1>3. minted \in Nat
    BY ConstantsAssumption DEF TypeOK
  <1>4. ASSUME n = 0
        PROVE  adding[0] = {} /\ Height(0) = minted /\ sequenceID[0] = minted
    <2>1. adding[0] = {}
      BY <1>2, <1>4 DEF Adding, Stable, LeaderCommits
    <2> QED
      BY <1>2, <1>4, <2>1 DEF Stable, LeaderCommits
  <1>5. StableBlocks' /\ StableChains'
    BY <1>1, <1>h DEF Stable, StableBlocks, StableChains
  <1>6. StableLeader'
    <2>1. CASE n = 0
      <3>1. sequenceLock[0] /\ view[0] = 0
        BY <1>2, <2>1, NodeFacts DEF Stable, StableLeader
      <3>2. fatal' = {}
        BY <1>2, <2>1, <3>1 DEF EndRound, Stable, StableLeader
      <3>3. \A k \in Node : ~sequenceLock'[k]
        BY <1>2, <2>1, <3>1 DEF EndRound, Stable, StableLeader, TypeOK
      <3>4. ~(minted' > Height(0)') /\ committing'[0] = {}
        BY <1>1, <1>2, <1>3, <1>4, <1>h, <2>1, NodeFacts DEF TypeOK
      <3> QED
        BY <1>1, <3>2, <3>3, <3>4 DEF Stable, StableLeader
    <2>2. CASE n # 0
      <3>1. fatal' = {} /\ sequenceLock' = sequenceLock
        BY <1>2, <2>2 DEF EndRound, Stable, StableLeader, TypeOK
      <3>2. committing'[0] = committing[0]
        BY <1>2, <2>2, NodeFacts DEF TypeOK
      <3> QED
        BY <1>1, <1>h, <3>1, <3>2 DEF Stable, StableLeader
    <2> QED
      BY <2>1, <2>2
  <1>7. LeaderCommits'
    <2>1. CASE n = 0
      <3>1. committing'[0] = {} /\ sequenceID'[0] = minted + 1
        BY <1>2, <1>4, <2>1, NodeFacts DEF TypeOK
      <3> QED
        BY <1>1, <1>4, <1>h, <2>1, <3>1 DEF LeaderCommits
    <2>2. CASE n # 0
      <3>1. committing'[0] = committing[0] /\ sequenceID'[0] = sequenceID[0]
        BY <1>2, <2>2, NodeFacts DEF TypeOK
      <3> QED
        BY <1>1, <1>h, <3>1 DEF Stable, LeaderCommits
    <2> QED
      BY <2>1, <2>2
  <1>m. \A m : StableMessage(m) => StableMessage(m)'
    BY <1>1, <1>3, MessageMono
  <1>8. StablePools' /\ StableNet' /\ StableRecoveries'
    BY <1>1, <1>m, FiledSame DEF Stable, StablePools, StableNet,
       StableRecoveries
  <1>9. StableHandlers'
    <2>1. PICK h : Return(n, h)
      BY DEF CommitEnds
    <2> QED
      BY <1>1, <2>1, StableReturn
  <1> QED
    BY <1>5, <1>6, <1>7, <1>8, <1>9 DEF Stable

\* A pre-prepare files its request under the height it was minted for.
LEMMA StableHandlePrePrepare ==
    ASSUME TypeOK, TypeOK', Stable, NEW n \in Node, NEW h \in Runnable(n),
           handlePrePrepare(n, h)
    PROVE  Stable'
  <1>1. UNCHANGED <<view, sequenceID, sequenceLock, chain, proposers, askBlocked,
                    committing, recovering, adding, fatal, minted, parentOf>>
    BY DEF handlePrePrepare, applying, blockVars
  <1>2. Filed(h.msg.seqID, h.msg.digest) /\ Rest(n, h) \subseteq net
    BY RunnableFiled, RunnableHandler DEF Stable
  <1>h. (\A k : Height(k)' = Height(k)) /\ (\A c : Counts(c)' <=> Counts(c))
    BY <1>1 DEF Height, Counts
  <1>3. StableBlocks' /\ StableLeader' /\ LeaderCommits' /\ StableChains'
    BY <1>1, <1>h DEF Stable, StableBlocks, StableLeader, LeaderCommits,
       StableChains
  <1>4. StablePools'
    <2>1. PICK s, d : s = h.msg.seqID /\ d = h.msg.digest
      OBVIOUS
    <2>2. \A k \in Node : height2Digest'[k] \subseteq height2Digest[k] \cup {<<s, d>>}
      BY <2>1 DEF handlePrePrepare, SetHeight, TypeOK
    <2>3. Filed(s, d)'
      BY <1>1, <1>2, <2>1, FiledSame
    <2>4. \A k \in Node : \A p \in height2Digest'[k] : Filed(p[1], p[2])'
      BY <1>1, <2>2, <2>3, FiledSame DEF Stable, StablePools
    <2>5. requestPool[0] \subseteq requestPool'[0]
      BY NodeFacts DEF handlePrePrepare, TypeOK
    <2> QED
      BY <1>1, <2>4, <2>5 DEF Stable, StablePools
  <1>m. \A m : StableMessage(m) => StableMessage(m)'
    BY <1>1, ConstantsAssumption, MessageMono DEF TypeOK
  <1>5. StableNet' /\ StableRecoveries'
    BY <1>1, <1>2, <1>m, StableMessages DEF Stable, StableNet,
       StableRecoveries, handlePrePrepare
  <1>6. StableHandlers'
    BY <1>1, StableReturn DEF handlePrePrepare
  <1> QED
    BY <1>3, <1>4, <1>5, <1>6 DEF Stable

\* The leader holds every minted request: only followers ask for old ones.
LEMMA OnlyFollowersAsk ==
    ASSUME TypeOK, Stable, NEW n \in Node, NEW d \in 1 .. minted,
           d \notin requestPool[n]
    PROVE  n # 0
  BY DEF Stable, StablePools

LEMMA StableCommitAsk ==
    ASSUME TypeOK, TypeOK', Stable, NEW n \in Node, NEW h \in Runnable(n),
           CommitAsk(n, h)
    PROVE  Stable'
  <1>1. Filed(h.msg.seqID, h.msg.digest) /\ Rest(n, h) \subseteq net
    BY RunnableFiled, RunnableHandler DEF Stable
  <1>2. n # 0
    BY <1>1, OnlyFollowersAsk DEF CommitAsk, Filed
  <1>3. UNCHANGED <<sequenceLock, fatal>>
    BY <1>2 DEF CommitAsk, AskForOld, EndRound, Stable, StableLeader, TypeOK
  <1>4. Rested /\ UNCHANGED <<proposers, askBlocked>>
    BY <1>3 DEF CommitAsk, Rested, applying, blockVars
  <1>5. StableNet'
    <2>1. net' \subseteq net \cup
            {RequestOldMsg(t, Height(n) + 1, LastAsked(h.msg), n) :
               t \in {view[n]} \cap Reach("RequestOld")}
      BY <1>1 DEF CommitAsk, AskForOld
    <2>2. \A m \in net' : StableMessage(m)
      BY <1>2, <2>1, StableMessages DEF Stable, StableNet
    <2> QED
      BY <1>4, <2>2, StableKept DEF StableNet
  <1>6. StableHandlers'
    BY <1>4, StableReturn DEF CommitAsk, Rested
  <1> QED
    BY <1>4, <1>5, <1>6, StableKept DEF Stable

LEMMA StableCommitAskBlocks ==
    ASSUME TypeOK, TypeOK', Stable, NEW n \in Node, NEW h \in Runnable(n),
           CommitAskBlocks(n, h)
    PROVE  Stable'
  <1>1. Rested /\ UNCHANGED <<proposers, waiting>>
    BY DEF CommitAskBlocks, Rested, applying, blockVars
  <1>2. Filed(h.msg.seqID, h.msg.digest) /\ Rest(n, h) \subseteq net
    BY RunnableFiled, RunnableHandler DEF Stable
  <1>3. n # 0
    BY <1>2, OnlyFollowersAsk DEF CommitAskBlocks, Filed
  <1>4. StableNet'
    BY <1>1, <1>2, StableKept DEF Stable, StableNet, CommitAskBlocks
  <1>5. StableHandlers'
    BY <1>1, <1>2, <1>3, NodeFacts, StableKept DEF Stable, StableHandlers,
       CommitAskBlocks, TypeOK
  <1> QED
    BY <1>1, <1>4, <1>5, StableKept DEF Stable

\* An answer holds, for each height asked for, the block of that height.
LEMMA StableRequestOldAnswered ==
    ASSUME TypeOK, TypeOK', Stable, NEW n \in Node, NEW m \in net,
           RequestOldAnswered(n, m)
    PROVE  Stable'
  <1>1. Rested /\ UNCHANGED <<proposers, waiting, woken, askBlocked>>
    BY DEF RequestOldAnswered, Rested, nodeVars, handlers, applying, blockVars
  <1>3. StableHandlers'
    BY <1>1, StableKept DEF Stable, StableHandlers
  <1>4. m.start \in SeqNo /\ m.end \in SeqNo /\ m.from # 0
    BY MessageFields DEF RequestOldAnswered, Delivered, TypeOK, Stable,
       StableNet, StableMessage
  <1> DEFINE pick(i) == CHOOSE d \in Held(n, m.start + i - 1) : TRUE
             reqs(last) == [i \in 1 .. last - m.start + 1 |-> pick(i)]
  <1>5. PICK last \in m.start .. m.end :
          /\ \A s \in m.start .. last : Held(n, s) # {}
          /\ net' = (net \ {m}) \cup
                      {SendOldMsg(m.from, m.start, last, reqs(last))}
    BY DEF RequestOldAnswered
  <1>6. last \in SeqNo /\ last - m.start + 1 \in Nat \ {0}
    BY <1>4, <1>5 DEF SeqNo
  <1>7. ASSUME NEW i \in 1 .. last - m.start + 1
        PROVE  Filed(m.start + i - 1, pick(i))
    <2>1. m.start + i - 1 \in m.start .. last
      BY <1>4, <1>6 DEF SeqNo
    <2>2. pick(i) \in Held(n, m.start + i - 1)
      BY <1>5, <2>1
    <2>3. <<m.start + i - 1, pick(i)>> \in height2Digest[n]
      BY <2>2 DEF Held, Stored
    <2> QED
      BY <2>3 DEF Stable, StablePools
  <1> HIDE DEF pick
  <1>8. /\ Len(reqs(last)) = last - m.start + 1
        /\ \A i \in 1 .. Len(reqs(last)) :
             Filed(m.start + i - 1, reqs(last)[i])
    BY <1>6, <1>7
  <1> HIDE DEF reqs
  <1>9. StableMessage(SendOldMsg(m.from, m.start, last, reqs(last)))
    BY <1>4, <1>6, <1>8 DEF StableMessage, SendOldMsg, Tracked
  <1>10. \A x \in net' : StableMessage(x)
    BY <1>5, <1>9 DEF Stable, StableNet
  <1>11. StableNet'
    BY <1>1, <1>10, StableKept DEF StableNet
  <1> QED
    BY <1>1, <1>3, <1>11, StableKept DEF Stable

\* What a node knows of the answer that it handles.
LEMMA AnswerFacts ==
    ASSUME TypeOK, Stable, NEW n \in Node, NEW r \in recovering[n]
    PROVE  /\ n # 0
           /\ r.msg.start \in SeqNo /\ r.msg.end \in SeqNo
           /\ r.msg.reqs \in Seq(Digest)
           /\ Len(r.msg.reqs) = r.msg.end - r.msg.start + 1
           /\ \A i \in 1 .. Len(r.msg.reqs) :
                Filed(r.msg.start + i - 1, r.msg.reqs[i])
  <1>1. r.msg.type = "SendOld" /\ r.msg.start \in SeqNo /\ r.msg.end \in SeqNo
        /\ r.msg.reqs \in Seq(Digest)
    BY RecoveryFields
  <1>2. n # 0 /\ StableMessage(r.msg)
    BY DEF Stable, StableRecoveries
  <1> QED
    BY <1>1, <1>2 DEF StableMessage

\* A follower may set its sequence, and its handler of an answer may move on.
LEMMA StableRecovery ==
    ASSUME TypeOK, TypeOK', Stable, NEW n \in Node, n # 0,
           UNCHANGED <<view, requestPool, height2Digest, sequenceLock, chain,
                       proposers, waiting, woken, askBlocked, committing,
                       adding, fatal, minted, parentOf>>,
           sequenceID'[0] = sequenceID[0],
           \A r \in recovering'[n] : StableMessage(r.msg),
           \A k \in Node \ {n} : recovering'[k] = recovering[k],
           \A m \in net' : StableMessage(m)
    PROVE  Stable'
  <1>1. \A m : StableMessage(m) => StableMessage(m)'
    BY ConstantsAssumption, MessageMono DEF TypeOK
  <1>2. (\A k : Height(k)' = Height(k)) /\ (\A c : Counts(c)' <=> Counts(c))
    BY DEF Height, Counts
  <1>3. StableBlocks' /\ StableLeader' /\ LeaderCommits' /\ StableChains'
    BY <1>2 DEF Stable, StableBlocks, StableLeader, LeaderCommits, StableChains
  <1>4. StablePools' /\ StableHandlers'
    BY FiledSame DEF Stable, StablePools, StableHandlers
  <1>5. StableNet' /\ StableRecoveries'
    BY <1>1 DEF Stable, StableNet, StableRecoveries
  <1> QED
    BY <1>3, <1>4, <1>5 DEF Stable

LEMMA StableSendOldArrives ==
    ASSUME TypeOK, TypeOK', Stable, NEW n \in Node, NEW m \in net,
           SendOldArrives(n, m)
    PROVE  Stable'
  <1>1. UNCHANGED <<view, sequenceID, requestPool, height2Digest, sequenceLock,
                    chain, proposers, waiting, woken, askBlocked, committing,
                    adding, fatal, minted, parentOf>>
    BY DEF SendOldArrives, nodeVars, handlers, blockVars
  <1>2. n # 0 /\ StableMessage(m) /\ net' = net \ {m}
    BY DEF SendOldArrives, Delivered, Stable, StableNet, StableMessage
  <1>3. /\ \A r \in recovering'[n] : r.msg = m
        /\ \A k \in Node \ {n} : recovering'[k] = recovering[k]
    BY DEF SendOldArrives, TypeOK
  <1>4. \A x \in net' : StableMessage(x)
    BY <1>2 DEF Stable, StableNet
  <1>5. \A r \in recovering'[n] : StableMessage(r.msg)
    BY <1>2, <1>3
  <1> QED
    BY <1>1, <1>2, <1>3, <1>4, <1>5, StableRecovery

\* The steps of the handler of an answer that neither add nor file.
LEMMA StableRecoveryMoves ==
    ASSUME TypeOK, TypeOK', Stable, NEW n \in Node, NEW r \in recovering[n],
           \/ RejectBlock(n, r) \/ SendOldRejected(n, r)
           \/ SetSequence(n, r) \/ SendOldInstalled(n, r)
    PROVE  Stable'
  <1>1. UNCHANGED <<view, requestPool, height2Digest, sequenceLock, chain,
                    proposers, waiting, woken, askBlocked, committing, adding,
                    fatal, minted, parentOf>>
    <2>1. CASE RejectBlock(n, r) \/ SendOldRejected(n, r)
      BY <2>1 DEF RejectBlock, SendOldRejected, nodeVars, handlers, blockVars
    <2>2. CASE SetSequence(n, r) \/ SendOldInstalled(n, r)
      BY <2>2 DEF SetSequence, SendOldInstalled, nodeVars, handlers, blockVars
    <2> QED
      BY <2>1, <2>2
  <1>2. n # 0 /\ StableMessage(r.msg)
    BY DEF Stable, StableRecoveries
  <1>3. sequenceID'[0] = sequenceID[0]
    <2>1. CASE RejectBlock(n, r) \/ SendOldInstalled(n, r)
      BY <2>1 DEF RejectBlock, SendOldInstalled
    <2>2. CASE SendOldRejected(n, r)
      BY <1>2, <2>2, NodeFacts DEF SendOldRejected, TypeOK
    <2>3. CASE SetSequence(n, r)
      BY <1>2, <2>3, NodeFacts DEF SetSequence, TypeOK
    <2> QED
      BY <2>1, <2>2, <2>3
  <1>4. /\ \A q \in recovering'[n] : q.msg = r.msg
        /\ \A k \in Node \ {n} : recovering'[k] = recovering[k]
    <2>1. CASE RejectBlock(n, r) \/ SetSequence(n, r)
      <3>1. PICK stage \in RecoveryStage : RecoveryMoves(n, r, stage)
        BY <2>1 DEF RejectBlock, SetSequence, RecoveryStage
      <3>2. r \in Recovery
        BY RecoveryFields
      <3>3. [r EXCEPT !.stage = stage].msg = r.msg
        BY <3>2 DEF Recovery
      <3> QED
        BY <3>1, <3>3 DEF RecoveryMoves, TypeOK
    <2>2. CASE SendOldRejected(n, r) \/ SendOldInstalled(n, r)
      BY <2>2 DEF SendOldRejected, SendOldInstalled, TypeOK
    <2> QED
      BY <2>1, <2>2
  <1>5. \A m \in net' : StableMessage(m)
    <2>1. CASE RejectBlock(n, r) \/ SendOldRejected(n, r) \/ SetSequence(n, r)
      <3>1. net' = net
        BY <2>1 DEF RejectBlock, SendOldRejected, SetSequence
      <3> QED
        BY <3>1 DEF Stable, StableNet
    <2>2. CASE SendOldInstalled(n, r)
      <3> DEFINE s == sequenceID[n]
                 valid == {d \in Held(n, s) : IsValidBlock(n, d)}
      <3>1. net' = net \cup {PrepareMsg(t, s, d, n) :
                               t \in Reach("Prepare") \ {n}, d \in valid}
        BY <2>2 DEF SendOldInstalled
      <3>2. \A d \in valid : Filed(s, d)
        BY DEF Held, Stored, Stable, StablePools
      <3> HIDE DEF s, valid
      <3> QED
        BY <3>1, <3>2, StableMessages DEF Stable, StableNet
    <2> QED
      BY <2>1, <2>2
  <1>6. \A q \in recovering'[n] : StableMessage(q.msg)
    BY <1>2, <1>4
  <1> QED
    BY <1>1, <1>2, <1>3, <1>4, <1>5, <1>6, StableRecovery

\* The handler of an answer has validated the block that follows the head.
LEMMA StableRecoverBlock ==
    ASSUME TypeOK, TypeOK', Stable, NEW n \in Node, NEW r \in recovering[n],
           RecoverBlock(n, r)
    PROVE  Stable'
  <1>1. UNCHANGED <<view, sequenceID, requestPool, height2Digest, sequenceLock,
                    chain, proposers, waiting, woken, askBlocked, committing,
                    fatal, net, minted, parentOf>>
    BY DEF RecoverBlock, nodeVars, handlers, blockVars
  <1>2. n # 0 /\ StableMessage(r.msg)
    BY DEF Stable, StableRecoveries
  <1>3. PICK d : d = r.msg.reqs[r.added + 1]
    OBVIOUS
  <1>4. d \in 1 .. minted /\ IsValidBlock(n, d)
    <2>1. r.added + 1 \in 1 .. Len(r.msg.reqs)
      BY RecoveryFields DEF RecoverBlock
    <2> QED
      BY <1>3, <2>1, AnswerFacts DEF RecoverBlock, Filed
  <1>5. PICK a : a = AddBlockCall(n, "handleSendOldSeq", d)
    OBVIOUS
  <1>6. Counts(a.head)
    BY <1>4, <1>5, NextHead
  <1>7. adding' = [adding EXCEPT ![n] = @ \cup {a}]
    BY <1>3, <1>5 DEF RecoverBlock
  <1>8. /\ \A q \in recovering'[n] : q.msg = r.msg
        /\ \A k \in Node \ {n} : recovering'[k] = recovering[k]
    <2>1. [r EXCEPT !.added = @ + 1].msg = r.msg
      BY RecoveryFields DEF Recovery
    <2> QED
      BY <2>1 DEF RecoverBlock, TypeOK
  <1>h. (\A k : Height(k)' = Height(k)) /\ (\A c : Counts(c)' <=> Counts(c))
    BY <1>1 DEF Height, Counts
  <1>9. StableBlocks' /\ StableLeader'
    BY <1>1, <1>h DEF Stable, StableBlocks, StableLeader
  <1>10. LeaderCommits'
    <2>1. adding'[0] = adding[0]
      BY <1>2, <1>7, NodeFacts DEF TypeOK
    <2> QED
      BY <1>1, <1>h, <2>1 DEF Stable, LeaderCommits
  <1>11. StableChains'
    <2>1. \A k \in Node : adding'[k] \subseteq adding[k] \cup {a}
      BY <1>7 DEF TypeOK
    <2> QED
      BY <1>1, <1>6, <1>h, <2>1 DEF Stable, StableChains
  <1>m. \A m : StableMessage(m) => StableMessage(m)'
    BY <1>1, ConstantsAssumption, MessageMono DEF TypeOK
  <1>12. StablePools' /\ StableNet' /\ StableHandlers'
    BY <1>1, <1>m, FiledSame DEF Stable, StablePools, StableNet,
       StableHandlers
  <1>13. StableRecoveries'
    BY <1>2, <1>8, <1>m DEF Stable, StableRecoveries
  <1> QED
    BY <1>9, <1>10, <1>11, <1>12, <1>13 DEF Stable

\* The requests of an answer are filed under the heights of their blocks.
LEMMA StableFileRequests ==
    ASSUME TypeOK, TypeOK', Stable, NEW n \in Node, NEW r \in recovering[n],
           FileRequests(n, r)
    PROVE  Stable'
  <1>1. UNCHANGED <<view, sequenceID, sequenceLock, chain, proposers, waiting,
                    woken, askBlocked, committing, adding, fatal, net, minted,
                    parentOf>>
    BY DEF FileRequests, handlers, blockVars
  <1>2. n # 0 /\ StableMessage(r.msg)
    BY DEF Stable, StableRecoveries
  <1>3. /\ \A q \in recovering'[n] : q.msg = r.msg
        /\ \A k \in Node \ {n} : recovering'[k] = recovering[k]
    <2>1. [r EXCEPT !.stage = "filed"].msg = r.msg
      BY RecoveryFields DEF Recovery
    <2> QED
      BY <2>1 DEF FileRequests, RecoveryMoves, TypeOK
  <1>h. (\A k : Height(k)' = Height(k)) /\ (\A c : Counts(c)' <=> Counts(c))
    BY <1>1 DEF Height, Counts
  <1>4. StableBlocks' /\ StableLeader' /\ LeaderCommits' /\ StableChains'
    BY <1>1, <1>h DEF Stable, StableBlocks, StableLeader, LeaderCommits,
       StableChains
  <1>5. StablePools'
    <2>1. \A i \in 1 .. Len(r.msg.reqs) :
            Filed(HeightOf(r.msg, i), r.msg.reqs[i])
      BY AnswerFacts DEF HeightOf
    <2>2. height2Digest'[n] \subseteq height2Digest[n] \cup
            {<<HeightOf(r.msg, i), r.msg.reqs[i]>> : i \in 1 .. Len(r.msg.reqs)}
      BY DEF FileRequests, TypeOK
    <2>3. \A k \in Node \ {n} : height2Digest'[k] = height2Digest[k]
      BY DEF FileRequests, TypeOK
    <2>4. \A k \in Node : \A p \in height2Digest'[k] : Filed(p[1], p[2])
      BY <2>1, <2>2, <2>3 DEF Stable, StablePools
    <2>5. requestPool'[0] = requestPool[0]
      BY <1>2, NodeFacts DEF FileRequests, TypeOK
    <2> QED
      BY <1>1, <2>4, <2>5, FiledSame DEF Stable, StablePools
  <1>m. \A m : StableMessage(m) => StableMessage(m)'
    BY <1>1, ConstantsAssumption, MessageMono DEF TypeOK
  <1>6. StableNet' /\ StableHandlers' /\ StableRecoveries'
    BY <1>1, <1>2, <1>3, <1>m, FiledSame DEF Stable, StableNet, StableHandlers,
       StableRecoveries
  <1> QED
    BY <1>4, <1>5, <1>6 DEF Stable

-----------------------------------------------------------------------------
(* The theorems.                                                           *)

LEMMA StableNext == TypeOK /\ TypeOK' /\ StableInv /\ [Next]_vars => StableInv'
  <1> SUFFICES ASSUME TypeOK, TypeOK', StableInv, [Next]_vars, newViews' = 0
               PROVE  Stable'
    BY DEF StableInv
  <1>1. CASE UNCHANGED vars
    <2>1. Stable
      BY <1>1 DEF StableInv, vars, counters
    <2>2. Rested /\ UNCHANGED <<proposers, waiting, woken, askBlocked, net>>
      BY <1>1 DEF Rested, vars, nodeVars, handlers, applying, blockVars
    <2>3. StableNet' /\ StableHandlers'
      BY <2>1, <2>2, StableKept DEF Stable, StableNet, StableHandlers
    <2> QED
      BY <2>1, <2>2, <2>3, StableKept DEF Stable
  <1>2. ASSUME NEW n \in Node, BeginRound(n) \/ Propose(n) \/ StoreStage(n)
                                 \/ StoreBlock(n) \/ MoveHead(n)
                                 \/ viewChangePropose(n)
        PROVE  Stable'
    <2>1. Stable
      BY <1>2 DEF StableInv, BeginRound, Propose, StoreStage, StoreBlock,
         MoveHead, viewChangePropose, counters
    <2> QED
      BY <1>2, <2>1, StableBeginRound, StablePropose, StableStoreStage,
         StableStoreBlock, StableMoveHead, StableViewChangePropose
  <1>3. ASSUME NEW n \in Node, Handle(n)
        PROVE  Stable'
    <2>1. Stable
      BY <1>3 DEF StableInv, Handle, ResumeAsk, Park, Discard,
         handlePrePrepare, handlePrepare, CommitVoteOnly, CommitBlock,
         CommitAsk, CommitAskBlocks, CommitAskResumes, CommitEnds, counters
    <2> QED
      BY <1>3, <2>1, StableHandler, StableHandlePrePrepare, StableCommitBlock,
         StableCommitAsk, StableCommitAskBlocks, StableCommitAskResumes,
         StableCommitEnds DEF Handle, ResumeAsk
  <1>4. ASSUME NEW n \in Node, Deliver(n)
        PROVE  Stable'
    <2>1. PICK m \in net : \/ RequestOldUnanswered(n, m)
                           \/ RequestOldAnswered(n, m)
                           \/ SendOldArrives(n, m)
                           \/ handleViewChangeMsg(n, m)
                           \/ NewViewVote(n, m)
                           \/ EnterNewView(n, m)
      BY <1>4 DEF Deliver
    <2>2. ~EnterNewView(n, m)
      BY DEF EnterNewView, TypeOK
    <2>3. UNCHANGED newViews
      <3>1. CASE RequestOldUnanswered(n, m) \/ RequestOldAnswered(n, m)
        BY <3>1 DEF RequestOldUnanswered, RequestOldAnswered, counters
      <3>2. CASE SendOldArrives(n, m)
        BY <3>2 DEF SendOldArrives, counters
      <3>3. CASE handleViewChangeMsg(n, m) \/ NewViewVote(n, m)
        BY <3>3 DEF handleViewChangeMsg, NewViewVote, counters
      <3> QED
        BY <2>1, <2>2, <3>1, <3>2, <3>3
    <2>4. Stable
      BY <2>3 DEF StableInv
    <2> QED
      BY <2>1, <2>2, <2>4, StableMessageHandled, StableRequestOldAnswered,
         StableSendOldArrives
  <1>5. ASSUME NEW n \in Node, Recover(n)
        PROVE  Stable'
    <2>1. Stable
      BY <1>5 DEF StableInv, Recover, RecoverBlock, RejectBlock,
         SendOldRejected, FileRequests, SetSequence, SendOldInstalled, counters
    <2> QED
      BY <1>5, <2>1, StableRecoverBlock, StableRecoveryMoves,
         StableFileRequests DEF Recover
  <1> QED
    BY <1>1, <1>2, <1>3, <1>4, <1>5 DEF Next, Step

\* What the invariant says of two chains, of what is filed and of the locks.
LEMMA StableConsequences ==
    TypeOK /\ StableInv => /\ StableAgreement
                           /\ StableFiling
                           /\ StableSequenceLock
  <1> SUFFICES ASSUME TypeOK, StableInv, newViews = 0
               PROVE  /\ SameBlockchain
                      /\ \A m, n \in Node : \A p \in height2Digest[n] :
                           p[1] <= Height(m) => chain[m][p[1]] = p[2]
                      /\ fatal = {}
                      /\ \A n \in Node :
                           sequenceLock[n] <=>
                             n = 0 /\ (minted > Height(0) \/ committing[0] # {})
    BY DEF StableAgreement, StableFiling, StableSequenceLock
  <1>1. StableChains /\ StablePools /\ StableLeader
    BY DEF StableInv, Stable
  <1>2. \A n \in Node : /\ Height(n) \in Nat
                        /\ \A i \in 1 .. Height(n) : chain[n][i] = i
    BY <1>1 DEF Height, TypeOK, StableChains, Counts
  <1>3. SameBlockchain
    BY <1>2 DEF SameBlockchain
  <1>4. ASSUME NEW m \in Node, NEW n \in Node, NEW p \in height2Digest[n],
               p[1] <= Height(m)
        PROVE  chain[m][p[1]] = p[2]
    <2>1. p[2] \in 1 .. minted /\ p[1] = p[2]
      BY <1>1 DEF StablePools, Filed
    <2>2. p[2] \in 1 .. Height(m)
      BY <1>2, <1>4, <2>1
    <2> QED
      BY <1>2, <2>1, <2>2
  <1> QED
    BY <1>1, <1>3, <1>4 DEF StableLeader

LEMMA StableInvariant == Spec => []StableInv
  <1>1. TypeOK /\ TypeOK' /\ StableInv /\ [Next]_vars => StableInv'
    BY StableNext
  <1> QED
    BY <1>1, StableInit, TypeCorrect, PTL DEF Spec

\* Until a node enters a new view, the chains of any two nodes agree as far
\* as both reach, whatever is lost, reordered, recovered or timed out, and
\* however a recovery and a commit of one node interleave
\* (messageHandle.go, Propose, handleCommit, handleSendOldSeq).
THEOREM AgreementUntilViewChange == Spec => []StableAgreement
  BY StableInvariant, TypeCorrect, StableConsequences, PTL

\* Until a node enters a new view, a request is filed under the height that
\* its block has in every chain that reaches it (Propose, handlePrePrepare,
\* handleSendOldSeq), although the sequenceID of a node that recovers may
\* leave its chain behind.
THEOREM FiledByHeight == Spec => []StableFiling
  BY StableInvariant, TypeCorrect, StableConsequences, PTL

\* Until a node enters a new view, sequenceLock is held exactly while the
\* leader's latest proposal is not in its chain or its commit is not over,
\* and no process dies unlocking a free mutex.
THEOREM SequenceLockUntilCommit == Spec => []StableSequenceLock
  BY StableInvariant, TypeCorrect, StableConsequences, PTL

-----------------------------------------------------------------------------
(* Durability until a view change.                                          *)

\* The nodes that broadcast their commit of block d; 2f+1 of them; and all
\* blocks up to block k agreed on.
Committers(d) == {m \in Node : d \in isCommitBordcast[m]}
Agreed(d) == Cardinality(Committers(d)) >= Quorum
AgreedUpTo(k) == \A e \in 1 .. k : Agreed(e)

\* The chains, the heads about to be stored, the commits, and what is asked
\* for or answered, rest on blocks agreed on.
Durable ==
    /\ \A n \in Node : AgreedUpTo(Height(n))
    /\ \A n \in Node : \A a \in adding[n] : AgreedUpTo(Len(a.head))
    /\ \A n \in Node : \A d \in isCommitBordcast[n] : AgreedUpTo(d - 1)
    /\ \A n \in Node : \A h \in askBlocked[n] : AgreedUpTo(h.msg.seqID)
    /\ \A n \in Node : \A r \in recovering[n] : AgreedUpTo(r.msg.end)
    /\ \A m \in net : m.type \in {"RequestOld", "SendOld"} => AgreedUpTo(m.end)

DurableInv == newViews = 0 => Durable

\* The steps that change a chain, add or recover a block, block on askForLock
\* or enter a view.
LEMMA ApplyingSteps ==
    ASSUME [Next]_vars
    PROVE  \/ UNCHANGED <<chain, adding, recovering, askBlocked, newViews>>
           \/ \E n \in Node :
                \/ StoreBlock(n) \/ MoveHead(n)
                \/ \E h \in Runnable(n) : CommitBlock(n, h) \/ CommitAskBlocks(n, h)
                \/ \E h \in askBlocked[n] : CommitAskResumes(n, h)
                \/ \E m \in net : SendOldArrives(n, m) \/ EnterNewView(n, m)
                \/ Recover(n)
  <1> DEFINE Kept == UNCHANGED <<chain, adding, recovering, askBlocked, newViews>>
  <1>1. ASSUME NEW n \in Node,
               BeginRound(n) \/ Propose(n) \/ StoreStage(n) \/ CommitEnds(n)
                 \/ viewChangePropose(n)
        PROVE  Kept
    BY <1>1 DEF BeginRound, Propose, StoreStage, CommitEnds, viewChangePropose,
       handlers, applying, counters
  <1>2. ASSUME NEW n \in Node, NEW h,
               Park(n, h) \/ Discard(n, h) \/ handlePrePrepare(n, h)
                 \/ handlePrepare(n, h) \/ CommitVoteOnly(n, h) \/ CommitAsk(n, h)
        PROVE  Kept
    BY <1>2 DEF Park, Discard, handlePrePrepare, handlePrepare, CommitVoteOnly,
       CommitAsk, applying, counters
  <1>3. ASSUME NEW n \in Node, NEW m,
               RequestOldUnanswered(n, m) \/ RequestOldAnswered(n, m)
                 \/ handleViewChangeMsg(n, m) \/ NewViewVote(n, m)
        PROVE  Kept
    BY <1>3 DEF RequestOldUnanswered, RequestOldAnswered, handleViewChangeMsg,
       NewViewVote, handlers, applying, counters
  <1>4. ASSUME UNCHANGED vars
        PROVE  Kept
    BY <1>4 DEF vars, handlers, applying, counters
  <1> HIDE DEF Kept
  <1>5. \/ Kept
        \/ \E n \in Node :
             \/ StoreBlock(n) \/ MoveHead(n)
             \/ \E h \in Runnable(n) : CommitBlock(n, h) \/ CommitAskBlocks(n, h)
             \/ \E h \in askBlocked[n] : CommitAskResumes(n, h)
             \/ \E m \in net : SendOldArrives(n, m) \/ EnterNewView(n, m)
             \/ Recover(n)
    BY <1>1, <1>2, <1>3, <1>4 DEF Next, Step, Handle, ResumeAsk, Deliver
  <1> QED
    BY <1>5 DEF Kept

\* A chain becomes the head that a call of AddBlock has built.
LEMMA ChainSteps ==
    ASSUME TypeOK, [Next]_vars, NEW k \in Node
    PROVE  chain'[k] = chain[k] \/ \E a \in adding[k] : chain'[k] = a.head
  <1>1. ASSUME NEW n \in Node, MoveHead(n)
        PROVE  chain'[k] = chain[k] \/ \E a \in adding[k] : chain'[k] = a.head
    <2>1. PICK a \in adding[n] : chain' = [chain EXCEPT ![n] = a.head]
      BY <1>1 DEF MoveHead
    <2> QED
      BY <2>1 DEF TypeOK
  <1>2. ASSUME NEW n \in Node, NEW h,
               StoreBlock(n) \/ CommitBlock(n, h) \/ CommitAskBlocks(n, h)
                 \/ CommitAskResumes(n, h) \/ SendOldArrives(n, h)
                 \/ EnterNewView(n, h)
        PROVE  chain' = chain
    BY <1>2 DEF StoreBlock, CommitBlock, CommitAskBlocks, CommitAskResumes,
       SendOldArrives, EnterNewView
  <1>3. ASSUME NEW n \in Node, Recover(n)
        PROVE  chain' = chain
    BY <1>3 DEF Recover, RecoverBlock, RejectBlock, SendOldRejected,
       FileRequests, SetSequence, SendOldInstalled
  <1> QED
    BY <1>1, <1>2, <1>3, ApplyingSteps

\* A call of AddBlock is past its validation.
LEMMA AddingSteps ==
    ASSUME TypeOK, [Next]_vars, NEW k \in Node, NEW a \in adding'[k],
           a \notin adding[k]
    PROVE  \/ \E b \in adding[k] : a.head = b.head
           \/ \E h \in Runnable(k) :
                /\ CommitBlock(k, h)
                /\ a = AddBlockCall(k, "handleCommit", h.msg.digest)
           \/ \E r \in recovering[k] :
                /\ RecoverBlock(k, r)
                /\ a = AddBlockCall(k, "handleSendOldSeq",
                                    r.msg.reqs[r.added + 1])
  <1>1. ASSUME NEW n \in Node, MoveHead(n)
        PROVE  FALSE
    <2>1. PICK b \in adding[n] : adding' = [adding EXCEPT ![n] = @ \ {b}]
      BY <1>1 DEF MoveHead
    <2> QED
      BY <2>1 DEF TypeOK
  <1>6. ASSUME NEW n \in Node, StoreBlock(n)
        PROVE  \E b \in adding[k] : a.head = b.head
    <2>1. PICK b \in adding[n] :
            adding' = [adding EXCEPT
                         ![n] = (@ \ {b}) \cup {[b EXCEPT !.stored = TRUE]}]
      BY <1>6 DEF StoreBlock
    <2>2. [b EXCEPT !.stored = TRUE].head = b.head
      BY StoredCall
    <2>3. n = k /\ a = [b EXCEPT !.stored = TRUE]
      BY <2>1 DEF TypeOK
    <2> QED
      BY <2>2, <2>3
  <1>2. ASSUME NEW n \in Node, NEW h, CommitBlock(n, h)
        PROVE  n = k /\ a = AddBlockCall(n, "handleCommit", h.msg.digest)
    <2>1. PICK b : b = AddBlockCall(n, "handleCommit", h.msg.digest)
      OBVIOUS
    <2>2. adding' = [adding EXCEPT ![n] = @ \cup {b}]
      BY <1>2, <2>1 DEF CommitBlock
    <2> QED
      BY <2>1, <2>2 DEF TypeOK
  <1>3. ASSUME NEW n \in Node, NEW h,
               CommitAskBlocks(n, h) \/ CommitAskResumes(n, h)
                 \/ SendOldArrives(n, h) \/ EnterNewView(n, h)
        PROVE  FALSE
    BY <1>3 DEF CommitAskBlocks, CommitAskResumes, SendOldArrives,
       EnterNewView, applying
  <1>4. ASSUME NEW n \in Node, NEW r, RecoverBlock(n, r)
        PROVE  n = k /\ a = AddBlockCall(n, "handleSendOldSeq",
                                         r.msg.reqs[r.added + 1])
    <2>1. PICK b : b = AddBlockCall(n, "handleSendOldSeq",
                                    r.msg.reqs[r.added + 1])
      OBVIOUS
    <2>2. adding' = [adding EXCEPT ![n] = @ \cup {b}]
      BY <1>4, <2>1 DEF RecoverBlock
    <2> QED
      BY <2>1, <2>2 DEF TypeOK
  <1>5. ASSUME NEW n \in Node, NEW r,
               RejectBlock(n, r) \/ SendOldRejected(n, r) \/ FileRequests(n, r)
                 \/ SetSequence(n, r) \/ SendOldInstalled(n, r)
        PROVE  FALSE
    BY <1>5 DEF RejectBlock, SendOldRejected, FileRequests, SetSequence,
       SendOldInstalled
  <1> QED
    BY <1>1, <1>2, <1>3, <1>4, <1>5, <1>6, ApplyingSteps DEF Recover

\* An answer that is handled was handled before, or has arrived.
LEMMA RecoverySteps ==
    ASSUME TypeOK, [Next]_vars, NEW k \in Node, NEW r \in recovering'[k]
    PROVE  \/ \E q \in recovering[k] : r.msg = q.msg
           \/ r.msg \in net /\ r.msg.type = "SendOld"
  <1> DEFINE Goal == \/ \E q \in recovering[k] : r.msg = q.msg
                     \/ r.msg \in net /\ r.msg.type = "SendOld"
  <1>0. recovering' = recovering => Goal
    OBVIOUS
  <1>1. ASSUME NEW n \in Node, NEW h,
               StoreBlock(n) \/ MoveHead(n) \/ CommitBlock(n, h) \/ CommitAskBlocks(n, h)
                 \/ CommitAskResumes(n, h) \/ EnterNewView(n, h)
        PROVE  recovering' = recovering
    BY <1>1 DEF StoreBlock, MoveHead, CommitBlock, CommitAskBlocks,
       CommitAskResumes, EnterNewView, applying
  <1>2. ASSUME NEW n \in Node, NEW m \in net, SendOldArrives(n, m)
        PROVE  Goal
    BY <1>2 DEF SendOldArrives, Delivered, TypeOK
  <1>3. ASSUME NEW n \in Node, NEW q \in recovering[n],
               RejectBlock(n, q) \/ FileRequests(n, q) \/ SetSequence(n, q)
        PROVE  Goal
    <2>1. PICK stage \in RecoveryStage : RecoveryMoves(n, q, stage)
      BY <1>3 DEF RejectBlock, FileRequests, SetSequence, RecoveryStage
    <2>2. [q EXCEPT !.stage = stage].msg = q.msg
      BY RecoveryFields DEF Recovery
    <2> QED
      BY <2>1, <2>2 DEF RecoveryMoves, TypeOK
  <1>4. ASSUME NEW n \in Node, NEW q \in recovering[n], RecoverBlock(n, q)
        PROVE  Goal
    <2>1. [q EXCEPT !.added = @ + 1].msg = q.msg
      BY RecoveryFields DEF Recovery
    <2> QED
      BY <1>4, <2>1 DEF RecoverBlock, TypeOK
  <1>5. ASSUME NEW n \in Node, NEW q \in recovering[n],
               SendOldRejected(n, q) \/ SendOldInstalled(n, q)
        PROVE  Goal
    <2>1. recovering' = [recovering EXCEPT ![n] = {}]
      BY <1>5 DEF SendOldRejected, SendOldInstalled
    <2>2. r \in recovering[k]
      BY <2>1 DEF TypeOK
    <2> QED
      BY <2>2
  <1> HIDE DEF Goal
  <1>6. Goal
    BY <1>0, <1>1, <1>2, <1>3, <1>4, <1>5, ApplyingSteps DEF Recover
  <1> QED
    BY <1>6 DEF Goal

LEMMA BlockedSteps ==
    ASSUME TypeOK, [Next]_vars, NEW k \in Node, NEW h \in askBlocked'[k]
    PROVE  \/ h \in askBlocked[k]
           \/ h \in Runnable(k) /\ CommitAskBlocks(k, h)
  <1>1. ASSUME NEW n \in Node, NEW x \in Runnable(n), CommitAskBlocks(n, x)
        PROVE  h \in askBlocked[k] \/ (n = k /\ x = h)
    BY <1>1 DEF CommitAskBlocks, TypeOK
  <1>2. ASSUME NEW n \in Node, NEW x, CommitAskResumes(n, x)
        PROVE  h \in askBlocked[k]
    BY <1>2 DEF CommitAskResumes, TypeOK
  <1>3. ASSUME NEW n \in Node, NEW x,
               StoreBlock(n) \/ MoveHead(n) \/ CommitBlock(n, x) \/ SendOldArrives(n, x)
                 \/ EnterNewView(n, x)
        PROVE  askBlocked' = askBlocked
    BY <1>3 DEF StoreBlock, MoveHead, CommitBlock, SendOldArrives,
       EnterNewView, handlers
  <1>4. ASSUME NEW n \in Node, Recover(n)
        PROVE  askBlocked' = askBlocked
    BY <1>4 DEF Recover, RecoverBlock, RejectBlock, SendOldRejected,
       FileRequests, SetSequence, SendOldInstalled, handlers
  <1> QED
    BY <1>1, <1>2, <1>3, <1>4, ApplyingSteps

LEMMA ViewSteps ==
    ASSUME TypeOK, [Next]_vars
    PROVE  \/ newViews' = newViews
           \/ /\ newViews' = newViews + 1
              /\ \E n \in Node, m \in net : EnterNewView(n, m)
  <1>1. ASSUME NEW n \in Node, NEW x,
               StoreBlock(n) \/ MoveHead(n) \/ CommitBlock(n, x) \/ CommitAskBlocks(n, x)
                 \/ CommitAskResumes(n, x) \/ SendOldArrives(n, x)
        PROVE  newViews' = newViews
    BY <1>1 DEF StoreBlock, MoveHead, CommitBlock, CommitAskBlocks,
       CommitAskResumes, SendOldArrives, counters
  <1>2. ASSUME NEW n \in Node, Recover(n)
        PROVE  newViews' = newViews
    BY <1>2 DEF Recover, RecoverBlock, RejectBlock, SendOldRejected,
       FileRequests, SetSequence, SendOldInstalled, counters
  <1>3. ASSUME NEW n \in Node, NEW m, EnterNewView(n, m)
        PROVE  newViews' = newViews + 1
    BY <1>3 DEF EnterNewView
  <1> QED
    BY <1>1, <1>2, <1>3, ApplyingSteps

\* The number of views entered does not decrease.
LEMMA ViewsCount ==
    ASSUME TypeOK, [Next]_vars
    PROVE  newViews \in Nat /\ newViews' \in Nat /\ newViews <= newViews'
  <1>1. newViews \in Nat
    BY ConstantsAssumption DEF TypeOK
  <1>2. newViews' = newViews \/ newViews' = newViews + 1
    BY ViewSteps
  <1> QED
    BY <1>1, <1>2

\* What is agreed on stays so.
LEMMA AgreedStays ==
    ASSUME TypeOK, [Next]_vars
    PROVE  /\ \A d : Agreed(d) => Agreed(d)'
           /\ \A k : AgreedUpTo(k) => AgreedUpTo(k)'
  <1>1. ASSUME NEW d, Agreed(d) PROVE Agreed(d)'
    <2>1. Committers(d)' \in SUBSET Node /\ Committers(d) \in SUBSET Committers(d)'
      BY NodesKeep DEF Committers
    <2> QED
      BY <1>1, <2>1, NodesAtLeast DEF Agreed
  <1> QED
    BY <1>1 DEF AgreedUpTo

\* A quorum of commit votes for a block: it and all before it are agreed on.
LEMMA QuorumAgrees ==
    ASSUME TypeOK, Stable, Durable, VotesBacked, NEW n \in Node,
           NEW h \in Runnable(n), h.msg.type = "Commit", Committed(n, h.msg)
    PROVE  /\ h.msg.digest \in Nat /\ h.msg.seqID = h.msg.digest
           /\ AgreedUpTo(h.msg.digest)
  <1> DEFINE d == h.msg.digest
  <1>1. d \in Digest /\ h.msg.seqID = d
    <2>1. Filed(h.msg.seqID, d) /\ h \in Handler
      BY RunnableFiled, RunnableHandler DEF Stable
    <2> QED
      BY <2>1, MessageFields DEF Filed, Handler
  <1>2. Backed(h.msg)
    BY RunnableBrought DEF Brought, VotesBacked
  <1>3. Voted(WithVote(n, h.msg), d) \in SUBSET Committers(d)
    BY <1>2 DEF Voted, WithVote, Committers, VotesBacked, Backed
  <1>4. Committers(d) \in SUBSET Node
    BY DEF Committers
  <1>5. Agreed(d)
    BY <1>3, <1>4, NodesAtLeast DEF Committed, Agreed
  <1>6. Committers(d) # {}
    <2>1. Quorum >= 1
      BY NodeFacts DEF Quorum
    <2> QED
      BY <1>5, <2>1, FS_EmptySet, NodeFacts DEF Agreed
  <1>7. AgreedUpTo(d - 1)
    BY <1>6 DEF Committers, Durable
  <1>8. d \in Nat /\ \A e \in 1 .. d : e = d \/ e \in 1 .. d - 1
    BY <1>1 DEF Digest
  <1> QED
    BY <1>1, <1>5, <1>7, <1>8 DEF AgreedUpTo

\* A chain becomes a head that rests on blocks agreed on.
LEMMA ChainsDurable ==
    ASSUME TypeOK, Durable, [Next]_vars, NEW k \in Node
    PROVE  AgreedUpTo(Len(chain'[k]))
  BY ChainSteps DEF Durable, Height

\* A block that votes or an answer bring to AddBlock is agreed on.
LEMMA AddingDurable ==
    ASSUME TypeOK, Stable, Durable, VotesBacked, [Next]_vars, NEW k \in Node,
           NEW a \in adding'[k]
    PROVE  AgreedUpTo(Len(a.head))
  <1>1. CASE \E b \in adding[k] : a.head = b.head
    BY <1>1 DEF Durable
  <1>2. ASSUME NEW h \in Runnable(k), CommitBlock(k, h),
               a = AddBlockCall(k, "handleCommit", h.msg.digest)
        PROVE  AgreedUpTo(Len(a.head))
    <2>1. AgreedUpTo(h.msg.digest)
      BY <1>2, QuorumAgrees DEF CommitBlock, Proceeds
    <2>2. h.msg.digest \in 1 .. minted
      BY RunnableFiled DEF Stable, Filed
    <2>3. IsValidBlock(k, h.msg.digest)
      BY <1>2 DEF CommitBlock
    <2>4. Len(a.head) = h.msg.digest
      BY <1>2, <2>2, <2>3, NextHead
    <2> QED
      BY <2>1, <2>4
  <1>3. ASSUME NEW r \in recovering[k], RecoverBlock(k, r),
               a = AddBlockCall(k, "handleSendOldSeq",
                                r.msg.reqs[r.added + 1])
        PROVE  AgreedUpTo(Len(a.head))
    <2>1. PICK d : d = r.msg.reqs[r.added + 1]
      OBVIOUS
    <2>2. /\ r.msg.start \in Nat /\ r.msg.end \in Nat /\ r.added \in Nat
          /\ Len(r.msg.reqs) = r.msg.end - r.msg.start + 1
      BY AnswerFacts, RecoveryFields DEF SeqNo
    <2>3. r.added < Len(r.msg.reqs)
      BY <1>3 DEF RecoverBlock
    <2>4. r.added + 1 \in 1 .. Len(r.msg.reqs)
      BY <2>2, <2>3
    <2>5. Filed(r.msg.start + (r.added + 1) - 1, d)
      BY <2>1, <2>4, AnswerFacts
    <2>6. d \in 1 .. minted /\ d <= r.msg.end
      BY <2>2, <2>3, <2>5 DEF Filed
    <2>7. Len(a.head) = d
      BY <1>3, <2>1, <2>6, NextHead DEF RecoverBlock
    <2>8. \A e \in 1 .. d : e \in 1 .. r.msg.end
      BY <2>2, <2>6, ConstantsAssumption DEF TypeOK
    <2> QED
      BY <2>7, <2>8 DEF Durable, AgreedUpTo
  <1> QED
    BY <1>1, <1>2, <1>3, AddingSteps

\* A node that asks for old blocks asks for blocks agreed on.
LEMMA AsksDurable ==
    ASSUME TypeOK, TypeOK', Stable, Durable, VotesBacked, [Next]_vars,
           NEW m \in net', m \notin net, m.type \in {"RequestOld", "SendOld"}
    PROVE  AgreedUpTo(m.end)
  <1>1. ASSUME NEW n \in Node, NEW h, NEW rest \in SUBSET net,
               AskForOld(n, h.msg, rest)
        PROVE  m.end = h.msg.seqID
    BY <1>1, MessageParts DEF AskForOld, LastAsked
  <1>2. ASSUME NEW n \in Node, NEW h \in Runnable(n), CommitAsk(n, h)
        PROVE  AgreedUpTo(m.end)
    <2>1. m.end = h.msg.seqID
      BY <1>1, <1>2, RunnableBrought DEF CommitAsk
    <2> QED
      BY <1>2, <2>1, QuorumAgrees DEF CommitAsk, Proceeds
  <1>3. ASSUME NEW n \in Node, NEW h \in askBlocked[n], CommitAskResumes(n, h)
        PROVE  AgreedUpTo(m.end)
    <2>1. m.end = h.msg.seqID
      BY <1>1, <1>3 DEF CommitAskResumes
    <2> QED
      BY <2>1 DEF Durable
  <1>4. ASSUME NEW n \in Node, NEW x \in net, RequestOldAnswered(n, x)
        PROVE  AgreedUpTo(m.end)
    <2>1. x.type = "RequestOld" /\ x.start \in Nat /\ x.end \in Nat
      BY <1>4, MessageFields DEF RequestOldAnswered, Delivered, TypeOK, SeqNo
    <2>2. m.end \in x.start .. x.end
      BY <1>4, MessageParts DEF RequestOldAnswered
    <2>3. AgreedUpTo(x.end)
      BY <2>1 DEF Durable
    <2>4. \A e \in 1 .. m.end : e \in 1 .. x.end
      BY <2>1, <2>2
    <2> QED
      BY <2>3, <2>4 DEF AgreedUpTo
  <1> QED
    BY <1>2, <1>3, <1>4, MessagesSent DEF Sent, SentInView, SentOutOfView,
       SentToRecover

LEMMA DurableNext ==
    ASSUME TypeOK, TypeOK', StableInv, VotesBacked, DurableInv, [Next]_vars
    PROVE  DurableInv'
  <1> SUFFICES ASSUME newViews' = 0 PROVE Durable'
    BY DEF DurableInv
  <1>1. newViews = 0
    BY ViewsCount
  <1>2. Stable /\ Durable
    BY <1>1 DEF StableInv, DurableInv
  <1>3. \A k : AgreedUpTo(k) => AgreedUpTo(k)'
    BY AgreedStays
  <1>4. ASSUME NEW k \in Node PROVE AgreedUpTo(Height(k))'
    <2>1. PICK e : e = Len(chain'[k])
      OBVIOUS
    <2>2. AgreedUpTo(e)
      BY <1>2, <2>1, ChainsDurable
    <2>3. AgreedUpTo(e)'
      BY <1>3, <2>2
    <2> QED
      BY <2>1, <2>3 DEF AgreedUpTo, Height
  <1>a. ASSUME NEW k \in Node, NEW a \in adding'[k]
        PROVE  AgreedUpTo(Len(a.head))'
    BY <1>2, <1>3, AddingDurable
  <1>5. ASSUME NEW k \in Node, NEW d \in isCommitBordcast'[k]
        PROVE  AgreedUpTo(d - 1)'
    <2>1. CASE d \in isCommitBordcast[k]
      BY <1>2, <1>3, <2>1 DEF Durable
    <2>2. CASE d \notin isCommitBordcast[k]
      <3>1. PICK h \in Runnable(k) : h.msg.digest = d
        BY <2>2, CommitsPrepared
      <3>2. d \in 1 .. minted /\ minted <= Height(0) + 1
        BY <1>2, <3>1, RunnableFiled DEF Stable, StableBlocks, Filed
      <3>3. minted \in Nat /\ Height(0) \in Nat
        BY NodeFacts, ConstantsAssumption DEF Height, TypeOK
      <3>4. \A e \in 1 .. d - 1 : e \in 1 .. Height(0)
        BY <3>2, <3>3
      <3>5. AgreedUpTo(Height(0))
        BY <1>2, NodeFacts DEF Durable
      <3> QED
        BY <1>3, <3>4, <3>5 DEF AgreedUpTo
    <2> QED
      BY <2>1, <2>2
  <1>6. ASSUME NEW k \in Node, NEW h \in askBlocked'[k]
        PROVE  AgreedUpTo(h.msg.seqID)'
    <2>1. CASE h \in askBlocked[k]
      BY <1>2, <1>3, <2>1 DEF Durable
    <2>2. CASE h \in Runnable(k) /\ CommitAskBlocks(k, h)
      BY <1>2, <1>3, <2>2, QuorumAgrees DEF CommitAskBlocks, Proceeds
    <2> QED
      BY <2>1, <2>2, BlockedSteps
  <1>b. ASSUME NEW k \in Node, NEW r \in recovering'[k]
        PROVE  AgreedUpTo(r.msg.end)'
    <2>1. CASE \E q \in recovering[k] : r.msg = q.msg
      BY <1>2, <1>3, <2>1 DEF Durable
    <2>2. CASE r.msg \in net /\ r.msg.type = "SendOld"
      BY <1>2, <1>3, <2>2 DEF Durable
    <2> QED
      BY <2>1, <2>2, RecoverySteps
  <1>7. ASSUME NEW m \in net', m.type \in {"RequestOld", "SendOld"}
        PROVE  AgreedUpTo(m.end)'
    <2>1. CASE m \in net
      BY <1>2, <1>3, <1>7, <2>1 DEF Durable
    <2>2. CASE m \notin net
      BY <1>2, <1>3, <1>7, <2>2, AsksDurable
    <2> QED
      BY <2>1, <2>2
  <1> QED
    BY <1>4, <1>a, <1>5, <1>6, <1>b, <1>7 DEF Durable

\* Until a node enters a new view, a block in any chain, executed from votes
\* or recovered from the leader's request pool, was prepared by 2f+1 nodes
\* (handleCommit, handleRequestOldSeq, handleSendOldSeq).
THEOREM ChainsAreDurable == Spec => []StableDurability
  <1>1. Init => DurableInv
    BY DEF Init, DurableInv, Durable, AgreedUpTo, Height
  <1>2. /\ TypeOK /\ TypeOK' /\ StableInv /\ VotesBacked /\ DurableInv
        /\ [Next]_vars
        => DurableInv'
    BY DurableNext
  <1>3. TypeOK /\ StableInv /\ DurableInv => StableDurability
    <2> SUFFICES ASSUME TypeOK, StableInv, DurableInv, newViews = 0,
                        NEW n \in Node, NEW i \in 1 .. Height(n)
                 PROVE  Cardinality({m \in Node :
                                       chain[n][i] \in isCommitBordcast[m]})
                          >= Quorum
      BY DEF StableDurability
    <2>1. chain[n][i] = i /\ Agreed(i)
      BY DEF StableInv, DurableInv, Stable, StableChains, Counts, Durable,
         AgreedUpTo, Height
    <2> QED
      BY <2>1 DEF Agreed, Committers
  <1> QED
    BY <1>1, <1>2, <1>3, StableInvariant, VotesInvariant, TypeCorrect, PTL
       DEF Spec

-----------------------------------------------------------------------------
(* Leaving a view.                                                          *)

\* Some 2f+1 nodes asked to leave for one view at one sequence number.
Justified ==
    \E n \in Node : \E vote \in viewChangeMap[n] :
        Cardinality(Leavers(vote[1], vote[2])) >= Quorum

\* Whoever announces or enters a view has seen 2f+1 requests to leave.
LeaveInv ==
    /\ \A m \in net : m.type = "NewView" => Justified
    /\ newViews > 0 => Justified

LEMMA JustifiedStays ==
    ASSUME TypeOK, [Next]_vars, Justified
    PROVE  Justified'
  <1>a. PICK n \in Node : \E vote \in viewChangeMap[n] :
          Cardinality(Leavers(vote[1], vote[2])) >= Quorum
    BY DEF Justified
  <1>1. PICK vote \in viewChangeMap[n] :
          Cardinality(Leavers(vote[1], vote[2])) >= Quorum
    BY <1>a
  <1>2. PICK v, s : v = vote[1] /\ s = vote[2]
    OBVIOUS
  <1>3. vote \in viewChangeMap'[n]
    BY NodesKeep
  <1>4. Leavers(v, s)' \in SUBSET Node /\ Leavers(v, s) \in SUBSET Leavers(v, s)'
    BY NodesKeep DEF Leavers
  <1>5. Cardinality(Leavers(v, s)') >= Quorum
    BY <1>1, <1>2, <1>4, NodesAtLeast
  <1> QED
    BY <1>2, <1>3, <1>5 DEF Justified, Leavers

\* The exact quorum that announces a view.
LEMMA AnnouncedJustified ==
    ASSUME TypeOK, TypeOK', NEW n \in Node, NEW x \in net,
           handleViewChangeMsg(n, x), NEW m \in net', m \notin net
    PROVE  Justified'
  <1>1. PICK vote : vote = <<x.nextView, x.seqID, x.from>>
    OBVIOUS
  <1>2. vote \in viewChangeMap'[n]
    BY <1>1 DEF handleViewChangeMsg, TypeOK
  <1>3. Cardinality(Voters(viewChangeMap'[n], x)) = Quorum
    BY DEF handleViewChangeMsg, ViewQuorum
  <1>4. /\ Leavers(x.nextView, x.seqID)' \in SUBSET Node
        /\ Voters(viewChangeMap'[n], x) \in SUBSET Leavers(x.nextView, x.seqID)'
    BY DEF Leavers, Voters
  <1>5. Cardinality(Leavers(x.nextView, x.seqID)') >= Quorum
    BY <1>3, <1>4, NodeFacts, NodesAtLeast
  <1> QED
    BY <1>1, <1>2, <1>5 DEF Justified, Leavers

LEMMA LeaveNext ==
    ASSUME TypeOK, TypeOK', LeaveInv, [Next]_vars
    PROVE  LeaveInv'
  <1>1. CASE newViews > 0
    <2>1. Justified'
      BY <1>1, JustifiedStays DEF LeaveInv
    <2>2. newViews' > 0
      BY <1>1, ViewsCount
    <2> QED
      BY <2>1, <2>2 DEF LeaveInv
  <1>2. CASE newViews = 0
    <2>2. ASSUME NEW m \in net', m.type = "NewView"
          PROVE  Justified'
      <3>1. CASE m \in net
        BY <2>2, <3>1, JustifiedStays DEF LeaveInv
      <3>2. CASE m \notin net
        <4>1. PICK n \in Node, x \in net : handleViewChangeMsg(n, x)
          BY <2>2, <3>2, MessagesSent DEF Sent, SentInView, SentOutOfView,
             SentToRecover
        <4> QED
          BY <3>2, <4>1, AnnouncedJustified
      <3> QED
        BY <3>1, <3>2
    <2>3. ASSUME newViews' > 0 PROVE Justified'
      <3>1. PICK n \in Node, m \in net : EnterNewView(n, m)
        BY <1>2, <2>3, ViewSteps
      <3>2. Justified
        BY <3>1 DEF EnterNewView, Delivered, LeaveInv
      <3> QED
        BY <3>2, JustifiedStays
    <2> QED
      BY <2>2, <2>3 DEF LeaveInv
  <1> QED
    BY <1>1, <1>2 DEF TypeOK

\* A view is left only when 2f+1 nodes asked to leave for one view at one
\* sequence number (handleViewChangeMsg, handleNewViewMsg): fewer impatient
\* nodes move nobody, whatever is lost or reordered.
THEOREM ViewsAreLeftByQuorums == Spec => []ViewChangeJustified
  <1>1. Init => LeaveInv
    BY DEF Init, LeaveInv
  <1>2. TypeOK /\ TypeOK' /\ LeaveInv /\ [Next]_vars => LeaveInv'
    BY LeaveNext
  <1>3. LeaveInv => ViewChangeJustified
    BY DEF LeaveInv, Justified, ViewChangeJustified
  <1> QED
    BY <1>1, <1>2, <1>3, TypeCorrect, PTL DEF Spec

=============================================================================
