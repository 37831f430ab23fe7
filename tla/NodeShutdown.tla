---------------------------- MODULE NodeShutdown ----------------------------
(***************************************************************************)
(* The life of the goroutines of one PBFT node, up to the end of its       *)
(* process (consensus_shard/pbft_all/pbft.go, the Propose loop of          *)
(* messageHandle.go, build/build.go).                                      *)
(*                                                                         *)
(* A connection reads messages and dispatches them one at a time under     *)
(* tcpPoolLock.  Most messages start a tracked handler, which              *)
(* inflightHandlers counts; a stop message closes the admission of         *)
(* handlers, waits until the admitted ones are gone, and closes the        *)
(* databases.  The main goroutine launches propose handlers and returns,   *)
(* which ends the process, only after that.                                *)
(*                                                                         *)
(* What a handler does with the consensus state is PbftConsensus's matter: *)
(* here it takes pbftLock, may wait on the condition variable, may find    *)
(* that it has to ask for old blocks, and may end the round.               *)
(***************************************************************************)
EXTENDS FiniteSets

CONSTANTS
    Conn,       \* bound: client connections
    Slot,       \* bound: handlers in flight
    Leader,     \* view = NodeID
    Recovers    \* the node is behind and has to ask for old blocks

ASSUME ShutdownAssumption ==
    /\ Leader \in BOOLEAN
    /\ Recovers \in BOOLEAN

VARIABLES
    stopSignal, sequenceLock, askForLock,
    stageOne,   \* pbftStage = 1
    listening,  \* tcpln is open
    conn,       \* where the goroutine of a connection is
    msg,        \* the message it has read
    slot,       \* where a tracked handler is; "free" once it is Done
    kind,       \* what a tracked handler does
    dbClosed,   \* CloseBlockChain has closed the databases
    stoppedCh,  \* the shutdown is published
    main        \* where the Propose loop is

lockVars    == <<sequenceLock, askForLock, stageOne>>
connVars    == <<listening, conn, msg>>
handlerVars == <<slot, kind>>
endVars     == <<dbClosed, stoppedCh, main>>
vars == <<stopSignal, lockVars, connVars, handlerVars, endVars>>

\* PBFT phase messages, messages from outside the shard, messages handled
\* synchronously (view change and catching up), and the stop message.
MsgKind == {"stage", "outside", "sync", "stop"}
HandlerKind == {"stage", "outside", "propose", "viewChange"}

\* The connections that dispatch a message, or stop the node: they hold
\* tcpPoolLock.
Dispatching == {c \in Conn : conn[c] \in {"holds", "wake", "drain", "close",
                                          "publish"}}

\* The handlers that hold pbftLock.
InLock == {h \in Slot : slot[h] \in {"inside", "askWait"}}

\* The handlers that inflightHandlers counts.
Inflight == {h \in Slot : slot[h] # "free"}

\* main has not returned: the process exists.
Alive == main # "returned"

-----------------------------------------------------------------------------
(* Tracked handlers.                                                       *)

\* Wrong variant of Admits: the stop signal is not read.
AdmitsAlways(k) ==
    \E h \in Slot \ Inflight :
        /\ slot' = [slot EXCEPT ![h] = "started"]
        /\ kind' = [kind EXCEPT ![h] = k]

\* launchTrackedHandler, under handlerLifecycleMu.
Admits(k) ==
    /\ ~stopSignal
    /\ \E h \in Slot \ Inflight :
         /\ slot' = [slot EXCEPT ![h] = "started"]
         /\ kind' = [kind EXCEPT ![h] = k]

\* The handlers parked on the condition variable are woken.
Woken == [h \in Slot |-> IF slot[h] = "parked" THEN "woken" ELSE slot[h]]

\* A PBFT handler takes pbftLock.  It returns if the node stops, and parks or
\* goes on otherwise.
Enter(h) ==
    /\ Alive
    /\ slot[h] \in {"started", "woken"} /\ kind[h] = "stage"
    /\ InLock = {}
    /\ \/ stopSignal /\ slot' = [Woken EXCEPT ![h] = "free"]
       \/ ~stopSignal /\ slot' = [slot EXCEPT ![h] = "parked"]
       \/ ~stopSignal /\ slot' = [slot EXCEPT ![h] = "inside"]
    /\ UNCHANGED <<stopSignal, lockVars, connVars, kind, endVars>>

\* The handler returns.  It may have moved the node to the next stage, or
\* have ended the round, when the leader unlocks sequenceLock.
Leave(h) ==
    /\ Alive
    /\ slot[h] = "inside" /\ kind[h] = "stage"
    /\ slot' = [Woken EXCEPT ![h] = "free"]
    /\ \/ stageOne' \in {stageOne, FALSE} /\ sequenceLock' = sequenceLock
       \/ stageOne' = TRUE /\ sequenceLock' = (sequenceLock /\ ~Leader)
    /\ UNCHANGED <<stopSignal, askForLock, connVars, kind, endVars>>

\* A commit handler of a node that is behind blocks on askForLock ...
AskBlocks(h) ==
    /\ Alive
    /\ Recovers
    /\ slot[h] = "inside" /\ kind[h] = "stage"
    /\ slot' = [slot EXCEPT ![h] = "askWait"]
    /\ UNCHANGED <<stopSignal, lockVars, connVars, kind, endVars>>

\* ... asks, ends the round, and returns.
Asks(h) ==
    /\ Alive
    /\ slot[h] = "askWait"
    /\ ~askForLock
    /\ askForLock' = TRUE
    /\ stageOne' = TRUE
    /\ sequenceLock' = (sequenceLock /\ ~Leader)
    /\ slot' = [Woken EXCEPT ![h] = "free"]
    /\ UNCHANGED <<stopSignal, connVars, kind, endVars>>

\* A propose handler of the leader queues on sequenceLock ...
Queues(h) ==
    /\ Alive
    /\ slot[h] = "started" /\ kind[h] = "propose"
    /\ slot' = [slot EXCEPT ![h] = IF Leader THEN "seqWait" ELSE "free"]
    /\ UNCHANGED <<stopSignal, lockVars, connVars, kind, endVars>>

\* ... takes it and proposes ...
TakesSequenceLock(h) ==
    /\ Alive
    /\ slot[h] = "seqWait"
    /\ ~sequenceLock
    /\ sequenceLock' = TRUE
    /\ slot' = [slot EXCEPT ![h] = "proposing"]
    /\ UNCHANGED <<stopSignal, askForLock, stageOne, connVars, kind, endVars>>

\* ... and leaves it to a commit handler to give the lock back.
StoresStage(h) ==
    /\ Alive
    /\ slot[h] = "proposing"
    /\ stageOne' = FALSE
    /\ slot' = [slot EXCEPT ![h] = "free"]
    /\ UNCHANGED <<stopSignal, sequenceLock, askForLock, connVars, kind,
                   endVars>>

\* Other handlers keep no lock; viewChangePropose stores stage 5.
Finishes(h) ==
    /\ Alive
    /\ slot[h] = "started" /\ kind[h] \in {"outside", "viewChange"}
    /\ stageOne' = (stageOne /\ kind[h] = "outside")
    /\ slot' = [slot EXCEPT ![h] = "free"]
    /\ UNCHANGED <<stopSignal, sequenceLock, askForLock, connVars, kind,
                   endVars>>

-----------------------------------------------------------------------------
(* The goroutines of connections.                                          *)

\* TcpListen accepts a connection while tcpln is open.
Accept(c) ==
    /\ Alive
    /\ listening /\ conn[c] = "none"
    /\ conn' = [conn EXCEPT ![c] = "read"]
    /\ UNCHANGED <<stopSignal, lockVars, listening, msg, handlerVars,
                   endVars>>

\* ReadBytes returns a message or the end of the connection; the stop signal
\* is read before tcpPoolLock is taken.
Read(c, m) ==
    /\ Alive
    /\ conn[c] = "read"
    /\ \/ ~stopSignal /\ conn' = [conn EXCEPT ![c] = "queued"]
       \/ conn' = [conn EXCEPT ![c] = "gone"]
    /\ msg' = [msg EXCEPT ![c] = m]
    /\ UNCHANGED <<stopSignal, lockVars, listening, handlerVars, endVars>>

\* Wrong variant of MayDispatch: the stop signal is not read a second time.
MayDispatchAlways == TRUE

\* The second reading of the stop signal, with tcpPoolLock.
MayDispatch == ~stopSignal

TakePoolLock(c) ==
    /\ Alive
    /\ conn[c] = "queued"
    /\ Dispatching = {}
    /\ conn' = [conn EXCEPT ![c] = IF MayDispatch THEN "holds" ELSE "read"]
    /\ UNCHANGED <<stopSignal, lockVars, listening, msg, handlerVars,
                   endVars>>

\* handleMessage starts a tracked handler.
DispatchTracked(c) ==
    /\ Alive
    /\ conn[c] = "holds" /\ msg[c] \in {"stage", "outside"}
    /\ Admits(msg[c])
    /\ conn' = [conn EXCEPT ![c] = "read"]
    /\ UNCHANGED <<stopSignal, lockVars, listening, msg, endVars>>

\* handleMessage handles the message itself: an answer to a request for old
\* blocks releases askForLock, the last vote for a view enters stage 1.
DispatchSync(c) ==
    /\ Alive
    /\ conn[c] = "holds" /\ msg[c] = "sync"
    /\ \/ askForLock' \in {askForLock, FALSE} /\ stageOne' = stageOne
       \/ stageOne' = TRUE /\ askForLock' = askForLock
    /\ conn' = [conn EXCEPT ![c] = "read"]
    /\ UNCHANGED <<stopSignal, sequenceLock, listening, msg, handlerVars,
                   endVars>>

\* WaitToStop: beginStop closes admission ...
BeginStop(c) ==
    /\ Alive
    /\ conn[c] = "holds" /\ msg[c] = "stop"
    /\ ~stopSignal
    /\ stopSignal' = TRUE
    /\ conn' = [conn EXCEPT ![c] = "wake"]
    /\ UNCHANGED <<lockVars, listening, msg, handlerVars, endVars>>

\* Wrong variant of WakeWaiters: nobody is woken.
WakeNobody(c) ==
    /\ Alive
    /\ conn[c] = "wake"
    /\ InLock = {}
    /\ listening' = FALSE
    /\ conn' = [conn EXCEPT ![c] = "drain"]
    /\ UNCHANGED <<stopSignal, lockVars, msg, handlerVars, endVars>>

\* ... and, with pbftLock, wakes the waiters; then the listener is closed.
WakeWaiters(c) ==
    /\ Alive
    /\ conn[c] = "wake"
    /\ InLock = {}
    /\ slot' = Woken
    /\ listening' = FALSE
    /\ conn' = [conn EXCEPT ![c] = "drain"]
    /\ UNCHANGED <<stopSignal, lockVars, msg, kind, endVars>>

\* inflightHandlers.Wait
Drain(c) ==
    /\ Alive
    /\ conn[c] = "drain"
    /\ Inflight = {}
    /\ conn' = [conn EXCEPT ![c] = "close"]
    /\ UNCHANGED <<stopSignal, lockVars, listening, msg, handlerVars,
                   endVars>>

\* closePbft
Close(c) ==
    /\ Alive
    /\ conn[c] = "close"
    /\ dbClosed' = TRUE
    /\ conn' = [conn EXCEPT ![c] = "publish"]
    /\ UNCHANGED <<stopSignal, lockVars, listening, msg, handlerVars,
                   stoppedCh, main>>

\* publishShutdownComplete, deferred by WaitToStop.
Publish(c) ==
    /\ Alive
    /\ conn[c] = "publish"
    /\ stoppedCh' = TRUE
    /\ conn' = [conn EXCEPT ![c] = "read"]
    /\ UNCHANGED <<stopSignal, lockVars, listening, msg, handlerVars,
                   dbClosed, main>>

-----------------------------------------------------------------------------
(* The main goroutine and its tickers.                                     *)

\* The startup timer fires before the node is stopped.
StartLoop ==
    /\ main = "startup"
    /\ main' = "loop"
    /\ UNCHANGED <<stopSignal, lockVars, connVars, handlerVars, dbClosed,
                   stoppedCh>>

\* The ticker saw stage 1 and hands over a round, or the view-change timer
\* expires.
Tick ==
    /\ main = "loop"
    /\ (stageOne /\ Admits("propose")) \/ Admits("viewChange")
    /\ UNCHANGED <<stopSignal, lockVars, connVars, endVars>>

\* Wrong variant of SeesStop: Propose returns at once.
SeesStopReturns ==
    /\ main \in {"startup", "loop"}
    /\ stopSignal
    /\ main' = "returned"
    /\ UNCHANGED <<stopSignal, lockVars, connVars, handlerVars, dbClosed,
                   stoppedCh>>

\* stopCh is closed: waitForShutdownComplete ...
SeesStop ==
    /\ main \in {"startup", "loop"}
    /\ stopSignal
    /\ main' = "waiting"
    /\ UNCHANGED <<stopSignal, lockVars, connVars, handlerVars, dbClosed,
                   stoppedCh>>

\* ... and Propose returns.
Returns ==
    /\ main = "waiting"
    /\ stoppedCh
    /\ main' = "returned"
    /\ UNCHANGED <<stopSignal, lockVars, connVars, handlerVars, dbClosed,
                   stoppedCh>>

-----------------------------------------------------------------------------

Init ==
    /\ stopSignal = FALSE
    /\ sequenceLock = FALSE
    /\ askForLock = FALSE
    /\ stageOne = TRUE
    /\ listening = TRUE
    /\ conn = [c \in Conn |-> "none"]
    /\ msg = [c \in Conn |-> "stage"]
    /\ slot = [h \in Slot |-> "free"]
    /\ kind = [h \in Slot |-> "stage"]
    /\ dbClosed = FALSE
    /\ stoppedCh = FALSE
    /\ main = "startup"

HandlerStep(h) ==
    \/ Enter(h)
    \/ Leave(h)
    \/ AskBlocks(h)
    \/ Asks(h)
    \/ Queues(h)
    \/ TakesSequenceLock(h)
    \/ StoresStage(h)
    \/ Finishes(h)

\* What a connection does once it has a message.
ConnStep(c) ==
    \/ TakePoolLock(c)
    \/ DispatchTracked(c)
    \/ DispatchSync(c)
    \/ BeginStop(c)
    \/ WakeWaiters(c)
    \/ Drain(c)
    \/ Close(c)
    \/ Publish(c)

Arrive(c) == Accept(c) \/ \E m \in MsgKind : Read(c, m)

MainStep == SeesStop \/ Returns

Next ==
    \/ \E h \in Slot : HandlerStep(h)
    \/ \E c \in Conn : ConnStep(c) \/ Arrive(c)
    \/ StartLoop
    \/ Tick
    \/ MainStep

Spec == Init /\ [][Next]_vars

\* Goroutines that can run do: handlers, connections with a message, and the
\* main goroutine.  Messages, ticks and timers need not come.
Fairness ==
    /\ \A h \in Slot : WF_vars(HandlerStep(h))
    /\ \A c \in Conn : WF_vars(ConnStep(c))
    /\ WF_vars(MainStep)

FairSpec == Spec /\ Fairness

-----------------------------------------------------------------------------
(* Properties.                                                             *)

TypeOK ==
    /\ stopSignal \in BOOLEAN
    /\ sequenceLock \in BOOLEAN
    /\ askForLock \in BOOLEAN
    /\ stageOne \in BOOLEAN
    /\ listening \in BOOLEAN
    /\ conn \in [Conn -> {"none", "read", "queued", "holds", "wake", "drain",
                          "close", "publish", "gone"}]
    /\ msg \in [Conn -> MsgKind]
    /\ slot \in [Slot -> {"free", "started", "parked", "woken", "inside",
                          "askWait", "seqWait", "proposing"}]
    /\ kind \in [Slot -> HandlerKind]
    /\ dbClosed \in BOOLEAN
    /\ stoppedCh \in BOOLEAN
    /\ main \in {"startup", "loop", "waiting", "returned"}

\* Once the databases are closed no admitted handler is left and no
\* connection dispatches a message: a commit, or blocks recovered by a
\* message that waited for tcpPoolLock behind the stop message, are never
\* written to a closed database (WaitToStop, handleClientRequest).
NoUseAfterClose ==
    dbClosed => /\ Inflight = {}
                /\ \A c \in Conn : conn[c] # "holds"

\* The process ends only after the databases are closed and every admitted
\* handler is gone (Propose and waitForShutdownComplete; BuildNewPbftNode
\* relies on it).
ReturnsAfterClose == ~Alive => dbClosed /\ Inflight = {}

\* A node that is told to stop ends its process: waiters are woken, handlers
\* drain, and the databases are closed (beginStop, WaitToStop).
ShutdownCompletes == stopSignal ~> ~Alive

\* The handlers that wait for one of the two mutexes that another message
\* releases.
LockWaiters == {h \in Slot : slot[h] \in {"seqWait", "askWait"}}

\* Nothing but a handler that waits for sequenceLock or askForLock holds up a
\* shutdown: parked handlers are woken, connections are let go, and unless
\* such a waiter comes up again and again the process ends (beginStop,
\* WaitToStop).
OnlyLocksDelayStop == stopSignal ~> ~Alive \/ LockWaiters # {}

=============================================================================
