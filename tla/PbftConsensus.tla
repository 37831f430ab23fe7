--------------------------- MODULE PbftConsensus ---------------------------
(***************************************************************************)
(* The PBFT protocol that the nodes of one shard run                       *)
(* (consensus_shard/pbft_all: messageHandle.go, view_change.go, pbft.go).  *)
(*                                                                         *)
(* A message that arrives starts a goroutine, which reads the current view *)
(* and takes pbftLock.  It parks on the condition variable while the stage *)
(* of the node is before the stage of the message (Park), or runs the rest *)
(* of its handler under the lock in one step; when it returns it wakes     *)
(* every parked handler (the deferred Broadcast), and these test their     *)
(* condition again.  View change and catch-up messages are handled         *)
(* one at a time by the goroutine that reads the connection, under         *)
(* tcpPoolLock but without pbftLock: so the handlers that add blocks,      *)
(* handleCommit and handleSendOldSeq, run at the same time.  Their steps   *)
(* are the statements that write what the other one uses, and AddBlock is  *)
(* three: it validates on the head it reads, stores the block, and makes   *)
(* it the head.                                                            *)
(*                                                                         *)
(* A request is its digest, a natural number; parentOf gives the block it  *)
(* extends (0 is the genesis block).  Digests do not collide and the nodes *)
(* are not Byzantine, so the digest check of handlePrePrepare and the      *)
(* membership check of set2DMap always succeed and are left out.           *)
(* TcpDial sends from a goroutine of its own: net is unordered, and a      *)
(* message that a failed dial drops is one that stays in net for ever.     *)
(***************************************************************************)
EXTENDS Integers, FiniteSets, Sequences

CONSTANTS
    N,              \* node_nums, the number of nodes of the shard
    Down,           \* nodes that never run
    Lost,           \* dials that fail: pairs of message type and receiver
    Empty,          \* requests whose block has no transactions
    MaxBlocks,      \* bound: requests proposed
    MaxProposers,   \* bound: propose handlers queued on one sequenceLock
    MaxParked,      \* bound: handlers parked at one node
    MaxTimeouts,    \* bound: expirations of the view-change timer
    MaxNewViews     \* bound: view entries

Node == 0 .. N - 1
MessageType == {"PrePrepare", "Prepare", "Commit", "ViewChange", "NewView",
                "RequestOld", "SendOld"}

ASSUME ConstantsAssumption ==
    /\ N \in Nat \ {0}
    /\ Down \subseteq Node
    /\ Lost \subseteq MessageType \X Node
    /\ Empty \subseteq Nat
    /\ MaxBlocks \in Nat
    /\ MaxProposers \in Nat
    /\ MaxParked \in Nat
    /\ MaxTimeouts \in Nat
    /\ MaxNewViews \in Nat

malicious_nums == (N - 1) \div 3
Quorum == 2 * malicious_nums + 1

Live == Node \ Down

\* The nodes that a message of a type can reach; TcpDial gives up on others.
Reach(type) == {t \in Live : <<type, t>> \notin Lost}

VARIABLES
    \* the fields of PbftConsensusNode, one value per node
    view, sequenceID, pbftStage, requestPool, height2Digest,
    cntPrepareConfirm, cntCommitConfirm, isCommitBordcast, isReply,
    viewChangeMap, newViewMap, sequenceLock, askForLock, chain,
    \* the goroutines of each node
    proposers,      \* propose handlers blocked on sequenceLock
    storing,        \* propose handlers that still have to store stage 2
    waiting,        \* message handlers parked on the condition variable
    woken,          \* message handlers woken, that contend for pbftLock
    askBlocked,     \* the commit handler blocked on askForLock, in pbftLock
    committing,     \* the commit handler that adds its block, in pbftLock
    recovering,     \* the handler of an answer with old blocks
    adding,         \* AddBlock calls that have validated their block
    executed,       \* blocks whose transactions are in the store of a node
    fatal,          \* nodes whose process died unlocking a free mutex
    \* the network and the blocks
    net, minted, parentOf,
    \* counters of the bounded events
    timeouts, newViews

nodeVars   == <<requestPool, height2Digest, cntPrepareConfirm,
                cntCommitConfirm, isCommitBordcast, isReply>>
handlers   == <<waiting, woken, askBlocked>>
applying   == <<committing, recovering, adding, executed>>
voteMaps   == <<viewChangeMap, newViewMap>>
blockVars  == <<minted, parentOf>>
counters   == <<timeouts, newViews>>
vars == <<view, sequenceID, pbftStage, nodeVars, voteMaps, sequenceLock,
          askForLock, chain, proposers, storing, handlers, applying, fatal,
          net, blockVars, counters>>

-----------------------------------------------------------------------------
(* Messages.  A broadcast also reaches the sender (TcpDial to itself).     *)

Digest == 1 .. MaxBlocks

PrePrepareMsg(to, s, d) ==
    [type |-> "PrePrepare", to |-> to, seqID |-> s, digest |-> d]
PrepareMsg(to, s, d, n) ==
    [type |-> "Prepare", to |-> to, seqID |-> s, digest |-> d, from |-> n]
CommitMsg(to, s, d, n) ==
    [type |-> "Commit", to |-> to, seqID |-> s, digest |-> d, from |-> n]
ViewChangeMsg(to, v, s, n) ==
    [type |-> "ViewChange", to |-> to, nextView |-> v, seqID |-> s, from |-> n]
NewViewMsg(to, v, s, n) ==
    [type |-> "NewView", to |-> to, nextView |-> v, seqID |-> s, from |-> n]
RequestOldMsg(to, lo, hi, n) ==
    [type |-> "RequestOld", to |-> to, start |-> lo, end |-> hi, from |-> n]
SendOldMsg(to, lo, hi, rs) ==
    [type |-> "SendOld", to |-> to, start |-> lo, end |-> hi, reqs |-> rs]

\* The messages that are handled by a goroutine of their own.
Tracked == {"PrePrepare", "Prepare", "Commit"}

StageOf(m) == CASE m.type = "PrePrepare" -> 1
                [] m.type = "Prepare"    -> 2
                [] OTHER                 -> 3

-----------------------------------------------------------------------------
(* The node's maps and its chain.                                          *)

Runs(n) == n \in Live \ fatal

Height(n) == Len(chain[n])
HeadOf(c) == IF Len(c) = 0 THEN 0 ELSE c[Len(c)]

\* The block extends the head of node n and does not execute transactions
\* again: after a lost head (MoveHead) it may have been stored before.
IsValidBlock(n, d) ==
    /\ parentOf[d] = HeadOf(chain[n])
    /\ d \in executed[n] => d \in Empty

\* The nodes whose vote for d is in a vote map, kept as a set of pairs.
Voted(votes, d) == {m \in Node : <<d, m>> \in votes}

\* height2Digest[s] = d, on a map kept as a set of pairs.
SetHeight(h2d, s, d) == {p \in h2d : p[1] # s} \cup {<<s, d>>}

\* The requests a pool holds for a height.
Stored(pool, h2d, s) == {d \in pool : <<s, d>> \in h2d}

-----------------------------------------------------------------------------
(* Handler scheduling.                                                     *)

\* handleMessage starts a goroutine, which reads the view before pbftLock.
\* (If the view changes before it gets the lock it returns without effect,
\* as if the message had been lost.)
Started(n) ==
    {[msg |-> m, curView |-> view[n]] :
        m \in {x \in net : x.to = n /\ x.type \in Tracked}}

\* A handler of node n that can take pbftLock, which a handler blocked on
\* askForLock or adding a block keeps.
Runnable(n) == IF Runs(n) /\ askBlocked[n] = {} /\ committing[n] = {}
               THEN woken[n] \cup Started(n) ELSE {}

\* The network once handler h of node n has its message.
Rest(n, h) == IF h \in woken[n] THEN net ELSE net \ {h.msg}

\* Wrong variant of Return: the handler leaves without the Broadcast.
ReturnSilently(n, h) ==
    /\ woken' = [woken EXCEPT ![n] = @ \ {h}]
    /\ waiting' = waiting

\* The deferred Broadcast and Unlock of a handler that returns.
Return(n, h) ==
    /\ woken' = [woken EXCEPT ![n] = (@ \ {h}) \cup waiting[n]]
    /\ waiting' = [waiting EXCEPT ![n] = {}]

\* The wait condition at the head of the three handlers.
MustWait(n, h) ==
    /\ pbftStage[n] < StageOf(h.msg)
    /\ h.msg.seqID >= sequenceID[n]
    /\ view[n] = h.curView

\* The message is out of date, or was received in an earlier view.
OutOfDate(n, h) ==
    \/ h.msg.seqID < sequenceID[n]
    \/ view[n] # h.curView

Park(n, h) ==
    /\ MustWait(n, h)
    /\ Cardinality(waiting[n]) < MaxParked
    /\ woken' = [woken EXCEPT ![n] = @ \ {h}]
    /\ waiting' = [waiting EXCEPT ![n] = @ \cup {h}]
    /\ net' = Rest(n, h)
    /\ UNCHANGED <<view, sequenceID, pbftStage, nodeVars, voteMaps,
                   sequenceLock, askForLock, chain, proposers, storing,
                   askBlocked, applying, fatal, blockVars, counters>>

Discard(n, h) ==
    /\ OutOfDate(n, h)
    /\ net' = Rest(n, h)
    /\ Return(n, h)
    /\ UNCHANGED <<view, sequenceID, pbftStage, nodeVars, voteMaps,
                   sequenceLock, askForLock, chain, proposers, storing,
                   askBlocked, applying, fatal, blockVars, counters>>

\* The handler passes the wait loop and the test that follows it.
Proceeds(n, h, type) ==
    /\ h.msg.type = type
    /\ ~MustWait(n, h)
    /\ ~OutOfDate(n, h)

-----------------------------------------------------------------------------
(* Proposing.                                                              *)

\* The ticker saw stage 1; the handler it starts checks that it is leader
\* and queues on sequenceLock.
BeginRound(n) ==
    /\ Runs(n)
    /\ pbftStage[n] = 1
    /\ view[n] = n
    /\ proposers[n] < MaxProposers
    /\ proposers' = [proposers EXCEPT ![n] = @ + 1]
    /\ UNCHANGED <<view, sequenceID, pbftStage, nodeVars, voteMaps,
                   sequenceLock, askForLock, chain, storing, handlers,
                   applying, fatal, net, blockVars, counters>>

\* Wrong variant of CanLock: a handler proposes without sequenceLock.
CanLockAlways(n) == TRUE

\* sequenceLock is free.
CanLock(n) == ~sequenceLock[n]

\* A queued handler gets sequenceLock, generates a block on the head of its
\* chain and broadcasts it.  The view is not read again.
Propose(n) ==
    /\ Runs(n)
    /\ proposers[n] > 0
    /\ CanLock(n)
    /\ minted < MaxBlocks
    /\ LET d == minted + 1 IN
         /\ minted' = d
         /\ parentOf' = [parentOf EXCEPT ![d] = HeadOf(chain[n])]
         /\ requestPool' = [requestPool EXCEPT ![n] = @ \cup {d}]
         /\ height2Digest' = [height2Digest EXCEPT
                                ![n] = SetHeight(@, sequenceID[n], d)]
         /\ net' = net \cup {PrePrepareMsg(t, sequenceID[n], d) :
                               t \in Reach("PrePrepare")}
    /\ sequenceLock' = [sequenceLock EXCEPT ![n] = TRUE]
    /\ proposers' = [proposers EXCEPT ![n] = @ - 1]
    /\ storing' = [storing EXCEPT ![n] = @ + 1]
    /\ UNCHANGED <<view, sequenceID, pbftStage, cntPrepareConfirm,
                   cntCommitConfirm, isCommitBordcast, isReply, voteMaps,
                   askForLock, chain, handlers, applying, fatal, counters>>

\* The last statement of the propose handler; its own messages may already
\* have come back by then.
StoreStage(n) ==
    /\ Runs(n)
    /\ storing[n] > 0
    /\ storing' = [storing EXCEPT ![n] = @ - 1]
    /\ pbftStage' = [pbftStage EXCEPT ![n] = 2]
    /\ UNCHANGED <<view, sequenceID, nodeVars, voteMaps, sequenceLock,
                   askForLock, chain, proposers, handlers, applying, fatal,
                   net, blockVars, counters>>

-----------------------------------------------------------------------------
(* The three phases.                                                       *)

handlePrePrepare(n, h) ==
    /\ Proceeds(n, h, "PrePrepare")
    /\ LET d == h.msg.digest
           s == h.msg.seqID
           accepted == s = sequenceID[n] /\ IsValidBlock(n, d)
       IN
         /\ requestPool' = [requestPool EXCEPT ![n] = @ \cup {d}]
         /\ height2Digest' = [height2Digest EXCEPT ![n] = SetHeight(@, s, d)]
         /\ net' = Rest(n, h) \cup
                     IF accepted
                     THEN {PrepareMsg(t, s, d, n) : t \in Reach("Prepare")}
                     ELSE {}
         /\ pbftStage' = [pbftStage EXCEPT
                            ![n] = IF accepted THEN @ + 1 ELSE @]
    /\ Return(n, h)
    /\ UNCHANGED <<view, sequenceID, cntPrepareConfirm, cntCommitConfirm,
                   isCommitBordcast, isReply, voteMaps, sequenceLock,
                   askForLock, chain, proposers, storing, askBlocked, applying,
                   fatal, blockVars, counters>>

\* Wrong variant of Prepared: f+1 votes are taken for a quorum.
PreparedEarly(n, votes, d) ==
    /\ Cardinality(Voted(votes, d)) >= malicious_nums + 1
    /\ d \notin isCommitBordcast[n]

\* The votes are a quorum and the node has not broadcast its commit yet.
Prepared(n, votes, d) ==
    /\ Cardinality(Voted(votes, d)) >= Quorum
    /\ d \notin isCommitBordcast[n]

handlePrepare(n, h) ==
    /\ Proceeds(n, h, "Prepare")
    /\ LET d == h.msg.digest
           s == h.msg.seqID
           counted == d \in requestPool[n] /\ s = sequenceID[n]
           votes == IF counted
                    THEN cntPrepareConfirm[n] \cup {<<d, h.msg.from>>}
                    ELSE cntPrepareConfirm[n]
           prepared == counted /\ Prepared(n, votes, d)
       IN
         /\ cntPrepareConfirm' = [cntPrepareConfirm EXCEPT ![n] = votes]
         /\ isCommitBordcast' =
              [isCommitBordcast EXCEPT
                 ![n] = IF prepared THEN @ \cup {d} ELSE @]
         /\ net' = Rest(n, h) \cup
                     IF prepared
                     THEN {CommitMsg(t, s, d, n) : t \in Reach("Commit")}
                     ELSE {}
         /\ pbftStage' = [pbftStage EXCEPT
                            ![n] = IF prepared THEN @ + 1 ELSE @]
    /\ Return(n, h)
    /\ UNCHANGED <<view, sequenceID, requestPool, height2Digest,
                   cntCommitConfirm, isReply, voteMaps, sequenceLock,
                   askForLock, chain, proposers, storing, askBlocked, applying,
                   fatal, blockVars, counters>>

\* Wrong variant of EndRound: the leader keeps sequenceLock.
EndRoundLocked(n) ==
    /\ pbftStage' = [pbftStage EXCEPT ![n] = 1]
    /\ UNCHANGED <<sequenceLock, fatal>>

\* The end of handleCommit: back to stage 1, and the leader unlocks
\* sequenceLock.  Unlocking a free mutex kills the process.
EndRound(n) ==
    /\ pbftStage' = [pbftStage EXCEPT ![n] = 1]
    /\ sequenceLock' = [sequenceLock EXCEPT ![n] = @ /\ view[n] # n]
    /\ fatal' = IF view[n] = n /\ ~sequenceLock[n]
                THEN fatal \cup {n} ELSE fatal

WithVote(n, m) == cntCommitConfirm[n] \cup {<<m.digest, m.from>>}

AddCommitVote(n, m) ==
    cntCommitConfirm' = [cntCommitConfirm EXCEPT ![n] = WithVote(n, m)]

\* With this vote there is a quorum for a request not executed yet.
Committed(n, m) ==
    /\ Cardinality(Voted(WithVote(n, m), m.digest)) >= Quorum
    /\ m.digest \notin isReply[n]

\* No quorum yet, or already executed: only the vote is recorded.  So it is
\* when AddBlock rejects the block.
CommitVoteOnly(n, h) ==
    /\ Proceeds(n, h, "Commit")
    /\ AddCommitVote(n, h.msg)
    /\ \/ ~Committed(n, h.msg)
       \/ /\ h.msg.digest \in requestPool[n]
          /\ ~IsValidBlock(n, h.msg.digest)
    /\ net' = Rest(n, h)
    /\ Return(n, h)
    /\ UNCHANGED <<view, sequenceID, pbftStage, requestPool, height2Digest,
                   cntPrepareConfirm, isCommitBordcast, isReply, voteMaps,
                   sequenceLock, askForLock, chain, proposers, storing,
                   askBlocked, applying, fatal, blockVars, counters>>

\* A call of AddBlock by handler f, past the validation of block d.
AddBlockCall(n, f, d) ==
    [by |-> f, head |-> Append(chain[n], d), stored |-> FALSE]

\* The calls of AddBlock that handler f of node n has not finished.
Adding(n, f) == {a \in adding[n] : a.by = f}

\* HandleinCommit: AddBlock validates the block on the current head.
CommitBlock(n, h) ==
    /\ Proceeds(n, h, "Commit")
    /\ AddCommitVote(n, h.msg)
    /\ LET d == h.msg.digest IN
         /\ Committed(n, h.msg)
         /\ d \in requestPool[n]
         /\ IsValidBlock(n, d)
         /\ adding' = [adding EXCEPT
                         ![n] = @ \cup {AddBlockCall(n, "handleCommit", d)}]
    /\ committing' = [committing EXCEPT ![n] = {h}]
    /\ woken' = [woken EXCEPT ![n] = @ \ {h}]
    /\ net' = Rest(n, h)
    /\ UNCHANGED <<view, sequenceID, pbftStage, requestPool, height2Digest,
                   cntPrepareConfirm, isCommitBordcast, isReply, voteMaps,
                   sequenceLock, askForLock, chain, proposers, storing,
                   waiting, askBlocked, recovering, executed, fatal,
                   blockVars, counters>>

\* AddBlock stores the block and its transactions ...
StoreBlock(n) ==
    /\ Runs(n)
    /\ \E a \in adding[n] :
         /\ ~a.stored
         /\ executed' = [executed EXCEPT ![n] = @ \cup {HeadOf(a.head)}]
         /\ adding' = [adding EXCEPT
                         ![n] = (@ \ {a}) \cup {[a EXCEPT !.stored = TRUE]}]
    /\ UNCHANGED <<view, sequenceID, pbftStage, nodeVars, voteMaps,
                   sequenceLock, askForLock, chain, proposers, storing,
                   handlers, committing, recovering, fatal, net, blockVars,
                   counters>>

\* ... and makes it the head, whatever the head has become meanwhile.
MoveHead(n) ==
    /\ Runs(n)
    /\ \E a \in adding[n] :
         /\ a.stored
         /\ chain' = [chain EXCEPT ![n] = a.head]
         /\ adding' = [adding EXCEPT ![n] = @ \ {a}]
    /\ UNCHANGED <<view, sequenceID, pbftStage, nodeVars, voteMaps,
                   sequenceLock, askForLock, proposers, storing, handlers,
                   committing, recovering, executed, fatal, net, blockVars,
                   counters>>

\* Wrong variant of NextSequence: the round does not advance it.
SameSequence(n) == sequenceID[n]

NextSequence(n) == sequenceID[n] + 1

\* The rest of handleCommit once AddBlock has returned.
CommitEnds(n) ==
    /\ Runs(n)
    /\ Adding(n, "handleCommit") = {}
    /\ \E h \in committing[n] :
         /\ isReply' = [isReply EXCEPT ![n] = @ \cup {h.msg.digest}]
         /\ Return(n, h)
    /\ sequenceID' = [sequenceID EXCEPT ![n] = NextSequence(n)]
    /\ committing' = [committing EXCEPT ![n] = {}]
    /\ EndRound(n)
    /\ UNCHANGED <<view, requestPool, height2Digest, cntPrepareConfirm,
                   cntCommitConfirm, isCommitBordcast, voteMaps, askForLock,
                   chain, proposers, storing, askBlocked, recovering, adding,
                   executed, net, blockVars, counters>>

\* Wrong variant of LastAsked: one more than the votes are for.
LastAskedTooHigh(m) == m.seqID + 1

LastAsked(m) == m.seqID

\* Wrong variant of AskForOld: askForLock is not taken.
AskForOldUnlocked(n, m, rest) ==
    /\ UNCHANGED askForLock
    /\ net' = rest \cup {RequestOldMsg(t, Height(n) + 1, LastAsked(m), n) :
                           t \in {view[n]} \cap Reach("RequestOld")}
    /\ EndRound(n)

\* The node is behind: with askForLock it asks the leader for the requests
\* from its own height up to the one it has votes for.
AskForOld(n, m, rest) ==
    /\ ~askForLock[n]
    /\ askForLock' = [askForLock EXCEPT ![n] = TRUE]
    /\ net' = rest \cup {RequestOldMsg(t, Height(n) + 1, LastAsked(m), n) :
                           t \in {view[n]} \cap Reach("RequestOld")}
    /\ EndRound(n)

CommitAsk(n, h) ==
    /\ Proceeds(n, h, "Commit")
    /\ AddCommitVote(n, h.msg)
    /\ Committed(n, h.msg)
    /\ h.msg.digest \notin requestPool[n]
    /\ AskForOld(n, h.msg, Rest(n, h))
    /\ Return(n, h)
    /\ UNCHANGED <<view, sequenceID, requestPool, height2Digest,
                   cntPrepareConfirm, isCommitBordcast, isReply, voteMaps,
                   chain, proposers, storing, askBlocked, applying, blockVars,
                   counters>>

\* askForLock is taken: the handler blocks inside pbftLock ...
CommitAskBlocks(n, h) ==
    /\ Proceeds(n, h, "Commit")
    /\ AddCommitVote(n, h.msg)
    /\ Committed(n, h.msg)
    /\ h.msg.digest \notin requestPool[n]
    /\ askForLock[n]
    /\ woken' = [woken EXCEPT ![n] = @ \ {h}]
    /\ net' = Rest(n, h)
    /\ askBlocked' = [askBlocked EXCEPT ![n] = {h}]
    /\ UNCHANGED <<view, sequenceID, pbftStage, requestPool, height2Digest,
                   cntPrepareConfirm, isCommitBordcast, isReply, voteMaps,
                   sequenceLock, askForLock, chain, proposers, storing,
                   waiting, applying, fatal, blockVars, counters>>

\* ... and goes on with what it decided before it blocked.
CommitAskResumes(n, h) ==
    /\ Runs(n)
    /\ h \in askBlocked[n]
    /\ AskForOld(n, h.msg, net)
    /\ askBlocked' = [askBlocked EXCEPT ![n] = {}]
    /\ Return(n, h)
    /\ UNCHANGED <<view, sequenceID, nodeVars, voteMaps, chain, proposers,
                   storing, applying, blockVars, counters>>

-----------------------------------------------------------------------------
(* Catching up.                                                            *)

\* Synchronous messages are handled one at a time.
Delivered(n, m, type) ==
    /\ Runs(n)
    /\ recovering[n] = {}
    /\ m \in net /\ m.to = n /\ m.type = type

\* What node n holds for height s.
Held(n, s) == Stored(requestPool[n], height2Digest[n], s)

\* A node that is not the leader, or that holds nothing for the first height
\* asked for, does not answer; an answer may also fail to arrive.
RequestOldUnanswered(n, m) ==
    /\ Delivered(n, m, "RequestOld")
    /\ \/ view[n] # n
       \/ m.start > m.end
       \/ Held(n, m.start) = {}
       \/ m.from \notin Reach("SendOld")
    /\ net' = net \ {m}
    /\ UNCHANGED <<view, sequenceID, pbftStage, nodeVars, voteMaps,
                   sequenceLock, askForLock, chain, proposers, storing,
                   handlers, applying, fatal, blockVars, counters>>

\* The leader sends what it holds without a gap.
RequestOldAnswered(n, m) ==
    /\ Delivered(n, m, "RequestOld")
    /\ view[n] = n
    /\ m.from \in Reach("SendOld")
    /\ \E last \in m.start .. m.end :
         /\ \A s \in m.start .. last : Held(n, s) # {}
         /\ last = m.end \/ Held(n, last + 1) = {}
         /\ LET reqs == [i \in 1 .. last - m.start + 1 |->
                           CHOOSE d \in Held(n, m.start + i - 1) : TRUE]
            IN net' = (net \ {m}) \cup
                        {SendOldMsg(m.from, m.start, last, reqs)}
    /\ UNCHANGED <<view, sequenceID, pbftStage, nodeVars, voteMaps,
                   sequenceLock, askForLock, chain, proposers, storing,
                   handlers, applying, fatal, blockVars, counters>>

\* The stages of handleSendOldSeq: blocks are added, or one was rejected, or
\* all were added and the requests filed, or the sequence set as well.
RecoveryStage == {"adding", "rejected", "filed", "numbered"}

\* The handler of the answer, r, moves to a stage.
RecoveryMoves(n, r, stage) ==
    recovering' = [recovering EXCEPT ![n] = {[r EXCEPT !.stage = stage]}]

\* Node n has handled the answer up to a stage; r.added counts its blocks
\* that are in the chain.
Recovers(n, r, stage) ==
    /\ Runs(n)
    /\ r \in recovering[n]
    /\ r.stage = stage
    /\ Adding(n, "handleSendOldSeq") = {}

\* An answer arrives.
SendOldArrives(n, m) ==
    /\ Delivered(n, m, "SendOld")
    /\ recovering' = [recovering EXCEPT
                        ![n] = {[msg |-> m, stage |-> "adding", added |-> 0]}]
    /\ net' = net \ {m}
    /\ UNCHANGED <<view, sequenceID, pbftStage, nodeVars, voteMaps,
                   sequenceLock, askForLock, chain, proposers, storing,
                   handlers, committing, adding, executed, fatal, blockVars,
                   counters>>

\* HandleforSequentialRequest: AddBlock validates the next request ...
RecoverBlock(n, r) ==
    /\ Recovers(n, r, "adding")
    /\ r.added < Len(r.msg.reqs)
    /\ LET d == r.msg.reqs[r.added + 1]
           a == AddBlockCall(n, "handleSendOldSeq", d)
       IN
         /\ IsValidBlock(n, d)
         /\ adding' = [adding EXCEPT ![n] = @ \cup {a}]
    /\ recovering' = [recovering EXCEPT ![n] = {[r EXCEPT !.added = @ + 1]}]
    /\ UNCHANGED <<view, sequenceID, pbftStage, nodeVars, voteMaps,
                   sequenceLock, askForLock, chain, proposers, storing,
                   handlers, committing, executed, fatal, net, blockVars,
                   counters>>

\* ... or rejects it; what was added before stays.
RejectBlock(n, r) ==
    /\ Recovers(n, r, "adding")
    /\ r.added < Len(r.msg.reqs)
    /\ ~IsValidBlock(n, r.msg.reqs[r.added + 1])
    /\ RecoveryMoves(n, r, "rejected")
    /\ UNCHANGED <<view, sequenceID, pbftStage, nodeVars, voteMaps,
                   sequenceLock, askForLock, chain, proposers, storing,
                   handlers, committing, adding, executed, fatal, net,
                   blockVars, counters>>

\* After a rejection the sequence is aligned with the head.
SendOldRejected(n, r) ==
    /\ Recovers(n, r, "rejected")
    /\ sequenceID' = [sequenceID EXCEPT ![n] = Height(n) + 1]
    /\ askForLock' = [askForLock EXCEPT ![n] = FALSE]
    /\ recovering' = [recovering EXCEPT ![n] = {}]
    /\ UNCHANGED <<view, pbftStage, nodeVars, voteMaps, sequenceLock, chain,
                   proposers, storing, handlers, committing, adding, executed,
                   fatal, net, blockVars, counters>>

\* The height of the i-th request of an answer.
HeightOf(m, i) == m.start + i - 1

\* All blocks were added: the requests are filed as replied.
FileRequests(n, r) ==
    /\ Recovers(n, r, "adding")
    /\ r.added = Len(r.msg.reqs)
    /\ LET m   == r.msg
           got == {m.reqs[i] : i \in 1 .. Len(m.reqs)}
       IN
         /\ requestPool' = [requestPool EXCEPT ![n] = @ \cup got]
         /\ height2Digest' =
              [height2Digest EXCEPT
                 ![n] = {p \in @ : p[1] \notin m.start .. m.end}
                          \cup {<<HeightOf(m, i), m.reqs[i]>> :
                                  i \in 1 .. Len(m.reqs)}]
         /\ isReply' = [isReply EXCEPT ![n] = @ \cup got]
    /\ RecoveryMoves(n, r, "filed")
    /\ UNCHANGED <<view, sequenceID, pbftStage, cntPrepareConfirm,
                   cntCommitConfirm, isCommitBordcast, voteMaps, sequenceLock,
                   askForLock, chain, proposers, storing, handlers,
                   committing, adding, executed, fatal, net, blockVars,
                   counters>>

\* The sequence that follows the answer.
SetSequence(n, r) ==
    /\ Recovers(n, r, "filed")
    /\ sequenceID' = [sequenceID EXCEPT ![n] = r.msg.end + 1]
    /\ RecoveryMoves(n, r, "numbered")
    /\ UNCHANGED <<view, pbftStage, nodeVars, voteMaps, sequenceLock,
                   askForLock, chain, proposers, storing, handlers,
                   committing, adding, executed, fatal, net, blockVars,
                   counters>>

\* A request held for the current sequence is prepared at once, to the other
\* nodes only and without a change of stage.
SendOldInstalled(n, r) ==
    /\ Recovers(n, r, "numbered")
    /\ LET s     == sequenceID[n]
           valid == {d \in Held(n, s) : IsValidBlock(n, d)}
       IN net' = net \cup {PrepareMsg(t, s, d, n) :
                             t \in Reach("Prepare") \ {n}, d \in valid}
    /\ askForLock' = [askForLock EXCEPT ![n] = FALSE]
    /\ recovering' = [recovering EXCEPT ![n] = {}]
    /\ UNCHANGED <<view, sequenceID, pbftStage, nodeVars, voteMaps,
                   sequenceLock, chain, proposers, storing, handlers,
                   committing, adding, executed, fatal, blockVars, counters>>

-----------------------------------------------------------------------------
(* View change.                                                            *)

\* Wrong variant of NextView: the view does not wrap around.
NextViewUnbounded(n) == view[n] + 1

NextView(n) == (view[n] + 1) % N

\* The timer expired: viewChangePropose.  Parked handlers are not woken.
viewChangePropose(n) ==
    /\ Runs(n)
    /\ timeouts < MaxTimeouts
    /\ timeouts' = timeouts + 1
    /\ pbftStage' = [pbftStage EXCEPT ![n] = 5]
    /\ net' = net \cup {ViewChangeMsg(t, NextView(n), sequenceID[n], n) :
                          t \in Reach("ViewChange")}
    /\ UNCHANGED <<view, sequenceID, nodeVars, voteMaps, sequenceLock,
                   askForLock, chain, proposers, storing, handlers, applying,
                   fatal, blockVars, newViews>>

\* The voters a node knows of for one pair of next view and sequence.
Voters(votes, m) ==
    {f \in Node : <<m.nextView, m.seqID, f>> \in votes}

\* Wrong variants of ViewQuorum: f+1 votes, and one vote more than 2f+1.
ViewQuorumSmall(voters) == Cardinality(voters) = malicious_nums + 1
ViewQuorumLarge(voters) == Cardinality(voters) = Quorum + 1

\* The vote that makes the count exactly 2f+1.
ViewQuorum(voters) == Cardinality(voters) = Quorum

\* Exactly 2f+1 votes: announce the view that follows the node's own.
handleViewChangeMsg(n, m) ==
    /\ Delivered(n, m, "ViewChange")
    /\ viewChangeMap' = [viewChangeMap EXCEPT
                           ![n] = @ \cup {<<m.nextView, m.seqID, m.from>>}]
    /\ net' = (net \ {m}) \cup
         IF ViewQuorum(Voters(viewChangeMap'[n], m))
         THEN {NewViewMsg(t, NextView(n), sequenceID[n], n) :
                 t \in Reach("NewView")}
         ELSE {}
    /\ UNCHANGED <<view, sequenceID, pbftStage, nodeVars, newViewMap,
                   sequenceLock, askForLock, chain, proposers, storing,
                   handlers, applying, fatal, blockVars, counters>>

AddNewViewVote(n, m) ==
    newViewMap' = [newViewMap EXCEPT
                     ![n] = @ \cup {<<m.nextView, m.seqID, m.from>>}]

NewViewVote(n, m) ==
    /\ Delivered(n, m, "NewView")
    /\ AddNewViewVote(n, m)
    /\ ~ViewQuorum(Voters(newViewMap'[n], m))
    /\ net' = net \ {m}
    /\ UNCHANGED <<view, sequenceID, pbftStage, nodeVars, viewChangeMap,
                   sequenceLock, askForLock, chain, proposers, storing,
                   handlers, applying, fatal, blockVars, counters>>

\* Exactly 2f+1 votes: enter the view with the sequence of the voters.
EnterNewView(n, m) ==
    /\ Delivered(n, m, "NewView")
    /\ newViews < MaxNewViews
    /\ AddNewViewVote(n, m)
    /\ ViewQuorum(Voters(newViewMap'[n], m))
    /\ view' = [view EXCEPT ![n] = m.nextView]
    /\ sequenceID' = [sequenceID EXCEPT ![n] = m.seqID]
    /\ pbftStage' = [pbftStage EXCEPT ![n] = 1]
    /\ net' = net \ {m}
    /\ newViews' = newViews + 1
    /\ UNCHANGED <<nodeVars, viewChangeMap, sequenceLock, askForLock, chain,
                   proposers, storing, handlers, applying, fatal, blockVars,
                   timeouts>>

-----------------------------------------------------------------------------

\* NewPbftNode on an empty chain.
Init ==
    /\ view = [n \in Node |-> 0]
    /\ sequenceID = [n \in Node |-> 1]
    /\ pbftStage = [n \in Node |-> 1]
    /\ requestPool = [n \in Node |-> {}]
    /\ height2Digest = [n \in Node |-> {}]
    /\ cntPrepareConfirm = [n \in Node |-> {}]
    /\ cntCommitConfirm = [n \in Node |-> {}]
    /\ isCommitBordcast = [n \in Node |-> {}]
    /\ isReply = [n \in Node |-> {}]
    /\ viewChangeMap = [n \in Node |-> {}]
    /\ newViewMap = [n \in Node |-> {}]
    /\ sequenceLock = [n \in Node |-> FALSE]
    /\ askForLock = [n \in Node |-> FALSE]
    /\ chain = [n \in Node |-> << >>]
    /\ proposers = [n \in Node |-> 0]
    /\ storing = [n \in Node |-> 0]
    /\ waiting = [n \in Node |-> {}]
    /\ woken = [n \in Node |-> {}]
    /\ askBlocked = [n \in Node |-> {}]
    /\ committing = [n \in Node |-> {}]
    /\ recovering = [n \in Node |-> {}]
    /\ adding = [n \in Node |-> {}]
    /\ executed = [n \in Node |-> {}]
    /\ fatal = {}
    /\ net = {}
    /\ minted = 0
    /\ parentOf = [d \in Digest |-> 0]
    /\ timeouts = 0
    /\ newViews = 0

\* The handler that was blocked on askForLock goes on.
ResumeAsk(n) == \E h \in askBlocked[n] : CommitAskResumes(n, h)

\* One step of a handler of node n that holds pbftLock.
Handle(n) ==
    \/ \E h \in Runnable(n) :
         \/ Park(n, h)
         \/ Discard(n, h)
         \/ handlePrePrepare(n, h)
         \/ handlePrepare(n, h)
         \/ CommitVoteOnly(n, h)
         \/ CommitBlock(n, h)
         \/ CommitAsk(n, h)
         \/ CommitAskBlocks(n, h)
    \/ ResumeAsk(n)
    \/ CommitEnds(n)

\* A message that node n handles synchronously.
Deliver(n) ==
    \E m \in net :
        \/ RequestOldUnanswered(n, m)
        \/ RequestOldAnswered(n, m)
        \/ SendOldArrives(n, m)
        \/ handleViewChangeMsg(n, m)
        \/ NewViewVote(n, m)
        \/ EnterNewView(n, m)

\* A step of the handler of an answer.
Recover(n) ==
    \E r \in recovering[n] :
        \/ RecoverBlock(n, r)
        \/ RejectBlock(n, r)
        \/ SendOldRejected(n, r)
        \/ FileRequests(n, r)
        \/ SetSequence(n, r)
        \/ SendOldInstalled(n, r)

\* A step of a goroutine of node n other than the view-change timer.
Step(n) ==
    \/ BeginRound(n)
    \/ Propose(n)
    \/ StoreStage(n)
    \/ Handle(n)
    \/ StoreBlock(n)
    \/ MoveHead(n)
    \/ Deliver(n)
    \/ Recover(n)

Next == \E n \in Node : Step(n) \/ viewChangePropose(n)

Spec == Init /\ [][Next]_vars

\* A node that can take a step takes one: the scheduler runs goroutines that
\* can run, the ticker ticks, and a dial that succeeds delivers.  The
\* view-change timer is not relied upon.
Fairness == \A n \in Live : WF_vars(Step(n))

FairSpec == Spec /\ Fairness

-----------------------------------------------------------------------------
(* Properties.                                                             *)

SeqNo == Nat \ {0}

Message ==
    [type : {"PrePrepare"}, to : Live, seqID : SeqNo, digest : Digest]
    \cup [type : {"Prepare", "Commit"}, to : Live, seqID : SeqNo,
          digest : Digest, from : Node]
    \cup [type : {"ViewChange", "NewView"}, to : Live, nextView : Node,
          seqID : SeqNo, from : Node]
    \cup [type : {"RequestOld"}, to : Live, start : SeqNo, end : SeqNo,
          from : Node]
    \cup [type : {"SendOld"}, to : Live, start : SeqNo, end : SeqNo,
          reqs : Seq(Digest)]

Handler == [msg : {m \in Message : m.type \in Tracked}, curView : Node]

Recovery == [msg : {m \in Message : m.type = "SendOld"},
             stage : RecoveryStage, added : Nat]

AddCall == [by : {"handleCommit", "handleSendOldSeq"},
            head : Seq(Digest) \ {<< >>}, stored : BOOLEAN]

\* Every variable keeps its type: votes name nodes of the shard, sequence
\* numbers stay positive, and only requests that can exist are stored or sent.
TypeOK ==
    /\ view \in [Node -> Node]
    /\ sequenceID \in [Node -> SeqNo]
    /\ pbftStage \in [Node -> SeqNo]
    /\ requestPool \in [Node -> SUBSET Digest]
    /\ height2Digest \in [Node -> SUBSET (SeqNo \X Digest)]
    /\ cntPrepareConfirm \in [Node -> SUBSET (Digest \X Node)]
    /\ cntCommitConfirm \in [Node -> SUBSET (Digest \X Node)]
    /\ isCommitBordcast \in [Node -> SUBSET Digest]
    /\ isReply \in [Node -> SUBSET Digest]
    /\ viewChangeMap \in [Node -> SUBSET (Node \X SeqNo \X Node)]
    /\ newViewMap \in [Node -> SUBSET (Node \X SeqNo \X Node)]
    /\ sequenceLock \in [Node -> BOOLEAN]
    /\ askForLock \in [Node -> BOOLEAN]
    /\ chain \in [Node -> Seq(Digest)]
    /\ proposers \in [Node -> Nat]
    /\ storing \in [Node -> Nat]
    /\ waiting \in [Node -> SUBSET Handler]
    /\ woken \in [Node -> SUBSET Handler]
    /\ askBlocked \in [Node -> SUBSET Handler]
    /\ committing \in [Node -> SUBSET Handler]
    /\ recovering \in [Node -> SUBSET Recovery]
    /\ adding \in [Node -> SUBSET AddCall]
    /\ executed \in [Node -> SUBSET Digest]
    /\ fatal \subseteq Node
    /\ net \subseteq Message
    /\ minted \in 0 .. MaxBlocks
    /\ parentOf \in [Digest -> 0 .. MaxBlocks]
    /\ timeouts \in 0 .. MaxTimeouts
    /\ newViews \in 0 .. MaxNewViews

\* The chains of any two nodes agree as far as both reach.
SameBlockchain ==
    \A m, n \in Node : \A i \in 1 .. Height(m) :
        i <= Height(n) => chain[m][i] = chain[n][i]

\* Until a node enters a new view, whatever messages are lost, reordered or
\* answered late and whoever times out, no two nodes commit different blocks
\* at one height: the leader holds sequenceLock from its proposal to its own
\* commit of it (messageHandle.go, Propose and handleCommit).
StableAgreement == newViews = 0 => SameBlockchain

\* Until a node enters a new view, what any node has filed under a sequence
\* number is the block of that height in every chain that reaches it: a node
\* that is behind asks by height, the leader answers by sequence number
\* (handleCommit, handleRequestOldSeq), and the leader's sequenceID must not
\* drift from its chain as that of a recovering node can.
StableFiling ==
    newViews = 0 =>
        \A m, n \in Node : \A p \in height2Digest[n] :
            p[1] <= Height(m) => chain[m][p[1]] = p[2]

\* Until a node enters a new view no process dies unlocking a sequenceLock
\* that nobody holds (handleCommit), and the lock is held exactly while the
\* leader's latest proposal is not in its chain or its commit is not over.
StableSequenceLock ==
    newViews = 0 =>
        /\ fatal = {}
        /\ \A n \in Node :
             sequenceLock[n] <=>
                 n = 0 /\ (minted > Height(0) \/ committing[0] # {})

\* The nodes that store a request.
Holders(d) == {m \in Node : d \in requestPool[m]}

\* A node broadcasts Commit for a request only once 2f+1 nodes store it, in
\* every view: any quorum of a later view contains a node that can serve it.
PreparedIsReplicated ==
    \A n \in Node : \A d \in isCommitBordcast[n] :
        Cardinality(Holders(d)) >= Quorum

\* Until a node enters a new view, a block in any chain, executed from votes
\* or recovered from the leader, was prepared by 2f+1 nodes: recovery hands
\* out nothing that the shard has not agreed on (handleRequestOldSeq serves
\* from the request pool, not from the chain).
StableDurability ==
    newViews = 0 =>
        \A n \in Node : \A i \in 1 .. Height(n) :
            Cardinality({m \in Node : chain[n][i] \in isCommitBordcast[m]})
                >= Quorum

\* The recoveries of node n: requests for old blocks and answers on their
\* way, and answers being handled.
Asked(n) ==
    {m \in net : \/ m.type = "RequestOld" /\ m.from = n
                 \/ m.type = "SendOld" /\ m.to = n}
    \cup recovering[n]

\* A node has at most one recovery in flight, and holds askForLock all the
\* while: handleSendOldSeq never unlocks a mutex that is free, and two
\* answers never extend the chain concurrently.
OneRecoveryAtATime ==
    \A n \in Node : /\ Cardinality(Asked(n)) <= 1
                    /\ Asked(n) # {} => askForLock[n]

\* The nodes whose request to leave for view v at sequence s somebody counts.
Leavers(v, s) ==
    {f \in Node : \E n \in Node : <<v, s, f>> \in viewChangeMap[n]}

\* A view is left only when the timers of 2f+1 nodes expired in the same
\* view and at the same sequence: fewer impatient nodes move nobody
\* (handleViewChangeMsg, handleNewViewMsg).
ViewChangeJustified ==
    newViews > 0 =>
        \E n \in Node : \E vote \in viewChangeMap[n] :
            Cardinality(Leavers(vote[1], vote[2])) >= Quorum

\* Every live node counts, or will count, the request of f to leave view 0.
Leaves(f) ==
    \A n \in Live : \/ <<1 % N, 1, f>> \in viewChangeMap[n]
                    \/ ViewChangeMsg(n, 1 % N, 1, f) \in net

\* Once 2f+1 nodes ask to leave view 0 and the dials succeed, every live node
\* leaves it, although votes are compared with 2f+1 by equality and NewView
\* names the view after the sender's own.
ViewChangeCompletes ==
    Cardinality({f \in Node : Leaves(f)}) >= Quorum
        ~> \A n \in Live : view[n] # 0

\* With no more than f nodes down, a follower that every dial reaches commits
\* every block that the leader proposes: no prepare or commit that arrives
\* before its stage is left parked (the condition variable of handlePrepare
\* and handleCommit), provided prepares reach the nodes that run.
FollowersCommit ==
    \A d \in Digest :
      \A n \in {m \in Live \ {0} : Lost \cap (MessageType \X {m}) = {}} :
        (minted >= d) ~> (\E i \in 1 .. Height(n) : chain[n][i] = d)

=============================================================================
