------------------------------- MODULE MCPbft -------------------------------
(* Instances of PbftConsensus for TLC.                                     *)
EXTENDS PbftConsensus

\* Sets of failing dials: none; the commits to nodes 0 and 2; the view change
\* messages to node 0.
NoneLost == {}
CommitsToOneOnly == {"Commit"} \X {0, 2}
NoViewForZero == {"ViewChange", "NewView"} \X {0}

\* Four loads of two nodes without loss.  In the first three no node counts a
\* vote to leave view 0.  Race: one block and one timeout, so that node 1
\* commits the block while it recovers it.  Lagging: up to three blocks of
\* which node 1 gets no pre-prepare.  LostHead: node 1, which is asking for
\* two blocks, now gets the pre-prepare of the first one.  NewView: one block
\* of which node 1 gets neither pre-prepares nor prepares, and view changes.
Undelivered(type, n) == {m \in net : m.type = type /\ m.to = n}
NoViewVotes == \A n \in Node : viewChangeMap[n] = {}
NoPrePrepares(n) == Cardinality(Undelivered("PrePrepare", n)) = minted
Race == minted <= 1 /\ timeouts <= 1 /\ NoViewVotes
Lagging == NoPrePrepares(1) /\ minted + timeouts <= 4 /\ NoViewVotes
LostHead ==
    /\ minted <= 2 /\ timeouts <= 1 /\ NoViewVotes
    /\ minted = 2 => \E m \in Undelivered("PrePrepare", 1) : m.digest = 2
    /\ requestPool[1] # {} => askForLock[1] /\ Height(0) = 2
    /\ \A m \in net : m.type = "ViewChange" => m.from = 1
NewView ==
    /\ minted <= 1 /\ timeouts <= 1
    /\ NoPrePrepares(1) /\ cntPrepareConfirm[1] = {}
TwoNodeLoad == Race \/ Lagging \/ LostHead \/ NewView

\* Either a block or view changes, for the liveness properties.
FourNodeLoad == timeouts = 0 \/ minted = 0
FourNodeSpec ==
    /\ Init /\ [][Next /\ FourNodeLoad']_vars
    /\ \A n \in Live : WF_vars(Step(n) /\ FourNodeLoad')

\* One schedule: messages are handled phase by phase, and within a phase in
\* the order of receiver and sender; the commits of block 1 arrive in time at
\* node 0 only, those of block 2 at node 1 only, and no message about block 2
\* at node 0; the timers of the other nodes expire once node 0 has committed.
Phase(m) == CHOOSE i \in 1 .. 5 :
    m.type = <<"PrePrepare", "Prepare", "Commit", "ViewChange", "NewView">>[i]
Rank(m) == 100 * Phase(m) + 10 * m.to + IF Phase(m) = 1 THEN 0 ELSE m.from
Late(m) == /\ m.type \in Tracked
           /\ \/ m.type = "Commit" /\ m.to # m.digest - 1
              \/ m.digest = 2 /\ m.to = 0
ForkSchedule ==
    /\ \A m \in net \ net' :
         ~Late(m) /\ \A x \in net : ~Late(x) => Rank(m) <= Rank(x)
    /\ timeouts' > timeouts => /\ chain[0] # << >>
                               /\ pbftStage'[timeouts + 1] = 5
    /\ \A n \in Node : storing[n] > 0 => storing'[n] < storing[n]
ForkSpec == Init /\ [][Next /\ ForkSchedule]_vars

=============================================================================
