------------------------- MODULE NodeShutdownProofs -------------------------
(***************************************************************************)
(* Nothing uses the databases of a node after they are closed, and the     *)
(* process ends only then, for any number of connections and handlers.     *)
(***************************************************************************)
EXTENDS NodeShutdown, TLAPS

Stopping == {"wake", "drain", "close", "publish"}

\* The connections that dispatch exclude each other (tcpPoolLock), a shutdown
\* has set the stop signal, and no message is dispatched after that.
DispatchInv ==
    /\ \A c, d \in Dispatching : c = d
    /\ \A c \in Conn : conn[c] \in Stopping => stopSignal
    /\ stopSignal => \A c \in Conn : conn[c] # "holds"

\* The shutdown comes this far only when every admitted handler is gone, and
\* none is admitted afterwards.
DrainInv ==
    /\ \A c \in Conn : conn[c] \in {"close", "publish"} => Inflight = {}
    /\ dbClosed => stopSignal /\ Inflight = {}
    /\ \A c \in Conn : conn[c] = "publish" => dbClosed
    /\ stoppedCh => dbClosed
    /\ ~Alive => stoppedCh

ShutdownInv == TypeOK /\ DispatchInv /\ DrainInv

LEMMA ShutdownInit == Init => ShutdownInv
  BY DEF Init, ShutdownInv, TypeOK, DispatchInv, DrainInv, Dispatching, Stopping,
     Inflight, Alive, MsgKind, HandlerKind

\* A step of a handler that is in flight leaves it to the shutdown to go on.
LEMMA HandlerKeeps ==
    ASSUME ShutdownInv, NEW h \in Slot, HandlerStep(h)
    PROVE  ShutdownInv'
  <1>1. UNCHANGED <<stopSignal, connVars, kind, endVars>>
    BY DEF HandlerStep, Enter, Leave, AskBlocks, Asks, Queues,
       TakesSequenceLock, StoresStage, Finishes
  <1>2. h \in Inflight
    BY DEF HandlerStep, Enter, Leave, AskBlocks, Asks, Queues,
       TakesSequenceLock, StoresStage, Finishes, Inflight
  <1>3. /\ sequenceLock' \in BOOLEAN
        /\ askForLock' \in BOOLEAN
        /\ stageOne' \in BOOLEAN
    BY DEF HandlerStep, Enter, Leave, AskBlocks, Asks, Queues,
       TakesSequenceLock, StoresStage, Finishes, ShutdownInv, TypeOK, lockVars
  <1>4. slot' \in [Slot -> {"free", "started", "parked", "woken", "inside",
                            "askWait", "seqWait", "proposing"}]
    BY DEF HandlerStep, Enter, Leave, AskBlocks, Asks, Queues,
       TakesSequenceLock, StoresStage, Finishes, ShutdownInv, TypeOK, Woken
  <1>5. TypeOK'
    BY <1>1, <1>3, <1>4 DEF ShutdownInv, TypeOK, connVars, endVars
  <1>6. DispatchInv'
    BY <1>1 DEF ShutdownInv, DispatchInv, Dispatching, connVars
  <1>7. DrainInv'
    BY <1>1, <1>2 DEF ShutdownInv, DrainInv, connVars, endVars, Alive
  <1> QED
    BY <1>5, <1>6, <1>7 DEF ShutdownInv

\* A handler is admitted only before the stop signal.
LEMMA AdmissionKeeps ==
    ASSUME ShutdownInv, NEW k \in HandlerKind, Admits(k)
    PROVE  /\ ~stopSignal
           /\ slot' \in [Slot -> {"free", "started", "parked", "woken", "inside",
                                  "askWait", "seqWait", "proposing"}]
           /\ kind' \in [Slot -> HandlerKind]
  BY DEF Admits, ShutdownInv, TypeOK

LEMMA ConnKeeps ==
    ASSUME ShutdownInv, NEW c \in Conn, ConnStep(c) \/ Arrive(c)
    PROVE  ShutdownInv'
  <1> USE DEF ShutdownInv
  <1>1. CASE Accept(c)
    BY <1>1 DEF Accept, TypeOK, DispatchInv, DrainInv, Dispatching, Stopping,
       Inflight, Alive, lockVars, handlerVars, endVars
  <1>2. ASSUME NEW m \in MsgKind, Read(c, m) PROVE ShutdownInv'
    BY <1>2 DEF Read, TypeOK, DispatchInv, DrainInv, Dispatching, Stopping,
       Inflight, Alive, lockVars, handlerVars, endVars
  <1>3. CASE TakePoolLock(c)
    BY <1>3 DEF TakePoolLock, MayDispatch, TypeOK, DispatchInv, DrainInv,
       Dispatching, Stopping, Inflight, Alive, lockVars, handlerVars, endVars
  <1>4. CASE DispatchTracked(c)
    <2>1. msg[c] \in HandlerKind /\ Admits(msg[c])
      BY <1>4 DEF DispatchTracked, HandlerKind
    <2>2. ~stopSignal /\ TypeOK'
      BY <1>4, <2>1, AdmissionKeeps DEF DispatchTracked, TypeOK, lockVars, endVars
    <2> QED
      BY <1>4, <2>2 DEF DispatchTracked, TypeOK, DispatchInv, DrainInv,
         Dispatching, Stopping, Alive, endVars
  <1>5. CASE DispatchSync(c)
    <2>1. askForLock' \in BOOLEAN /\ stageOne' \in BOOLEAN
      BY <1>5 DEF DispatchSync, TypeOK
    <2>2. /\ conn' = [conn EXCEPT ![c] = "read"]
          /\ UNCHANGED <<stopSignal, sequenceLock, listening, msg, slot, kind,
                         dbClosed, stoppedCh, main>>
      BY <1>5 DEF DispatchSync, handlerVars, endVars
    <2> QED
      BY <2>1, <2>2 DEF TypeOK, DispatchInv, DrainInv, Dispatching, Stopping,
         Inflight, Alive
  <1>6. CASE BeginStop(c)
    BY <1>6 DEF BeginStop, TypeOK, DispatchInv, DrainInv, Dispatching, Stopping,
       Inflight, Alive, lockVars, handlerVars, endVars
  <1>7. CASE WakeWaiters(c)
    <2>1. Inflight' = Inflight
      BY <1>7 DEF WakeWaiters, Woken, Inflight, TypeOK
    <2>2. TypeOK'
      BY <1>7 DEF WakeWaiters, Woken, TypeOK, lockVars, endVars
    <2> QED
      BY <1>7, <2>1, <2>2 DEF WakeWaiters, TypeOK, DispatchInv, DrainInv,
         Dispatching, Stopping, Alive, endVars
  <1>8. CASE Drain(c)
    BY <1>8 DEF Drain, TypeOK, DispatchInv, DrainInv, Dispatching, Stopping,
       Inflight, Alive, lockVars, handlerVars, endVars
  <1>9. CASE Close(c)
    BY <1>9 DEF Close, TypeOK, DispatchInv, DrainInv, Dispatching, Stopping,
       Inflight, Alive, lockVars, handlerVars
  <1>10. CASE Publish(c)
    BY <1>10 DEF Publish, TypeOK, DispatchInv, DrainInv, Dispatching, Stopping,
       Inflight, Alive, lockVars, handlerVars
  <1> QED
    BY <1>1, <1>2, <1>3, <1>4, <1>5, <1>6, <1>7, <1>8, <1>9, <1>10
       DEF ConnStep, Arrive

LEMMA MainKeeps ==
    ASSUME ShutdownInv, StartLoop \/ Tick \/ MainStep
    PROVE  ShutdownInv'
  <1> USE DEF ShutdownInv
  <1>1. CASE StartLoop
    BY <1>1 DEF StartLoop, TypeOK, DispatchInv, DrainInv, Dispatching, Stopping,
       Inflight, Alive, lockVars, connVars, handlerVars
  <1>2. CASE Tick
    <2>1. ~stopSignal /\ TypeOK'
      BY <1>2, AdmissionKeeps DEF Tick, HandlerKind, TypeOK, lockVars, connVars,
         endVars
    <2> QED
      BY <1>2, <2>1 DEF Tick, DispatchInv, DrainInv, Dispatching, Stopping, Alive,
         connVars, endVars
  <1>3. CASE MainStep
    BY <1>3 DEF MainStep, SeesStop, Returns, TypeOK, DispatchInv, DrainInv,
       Dispatching, Stopping, Inflight, Alive, lockVars, connVars, handlerVars
  <1> QED
    BY <1>1, <1>2, <1>3

LEMMA ShutdownNext == ShutdownInv /\ [Next]_vars => ShutdownInv'
  <1> SUFFICES ASSUME ShutdownInv, [Next]_vars PROVE ShutdownInv'
    OBVIOUS
  <1>1. CASE UNCHANGED vars
    BY <1>1 DEF vars, lockVars, connVars, handlerVars, endVars, ShutdownInv,
       TypeOK, DispatchInv, DrainInv, Dispatching, Inflight, Alive
  <1> QED
    BY <1>1, HandlerKeeps, ConnKeeps, MainKeeps DEF Next

LEMMA ShutdownInvariant == Spec => []ShutdownInv
  BY ShutdownInit, ShutdownNext, PTL DEF Spec

\* Once the databases are closed no admitted handler is left and no
\* connection dispatches a message.
THEOREM ClosedIsUnused == Spec => []NoUseAfterClose
  <1>1. ShutdownInv => NoUseAfterClose
    BY DEF ShutdownInv, DispatchInv, DrainInv, NoUseAfterClose
  <1> QED
    BY <1>1, ShutdownInvariant, PTL

\* The process ends only after the databases are closed and every admitted
\* handler is gone.
THEOREM EndsAfterClose == Spec => []ReturnsAfterClose
  <1>1. ShutdownInv => ReturnsAfterClose
    BY DEF ShutdownInv, DrainInv, ReturnsAfterClose
  <1> QED
    BY <1>1, ShutdownInvariant, PTL

=============================================================================
