---------------------------- MODULE SlDriverProofs ----------------------------
(***************************************************************************)
(* Proofs about SlDriver, for any set of tasks, any length of the spawn    *)
(* queue and any counter range above two.                                  *)
(***************************************************************************)
EXTENDS SlDriver, TLAPS

-------------------------------------------------------------------------------
(* Type correctness *)

LEMMA IncType ==
  ASSUME NEW c \in 0 .. CntMod - 1
  PROVE  Inc(c) \in 0 .. CntMod - 1
BY DriverAssumption DEF DriverAssumption, Inc

\* The counters stay apart: with at least three values neither one nor two
\* increments lead back to where the counter was.
LEMMA IncDistinct ==
  ASSUME NEW c \in 0 .. CntMod - 1
  PROVE  Inc(c) # c /\ Inc(Inc(c)) # c
BY DriverAssumption DEF DriverAssumption, Inc

LEMMA MsgReadType ==
  ASSUME TypeOK, MsgRead
  PROVE  /\ rx' \in Message
         /\ out' \in Seq(Message)
         /\ desc' \in [Threads -> Threads \cup {Nobody}]
         /\ irqMasked' \in BOOLEAN
<1>1. Head(out) \in Message /\ Tail(out) \in Seq(Message)
  BY DEF TypeOK, MsgRead
<1>2. Head(out).to \in Threads \cup {Nobody}
  BY <1>1 DEF Message
<1> QED
  BY <1>1, <1>2 DEF TypeOK, MsgRead

LEMMA MsgWriteType ==
  ASSUME TypeOK, NEW by \in Threads \cup {Nobody}, MsgWrite(by)
  PROVE  /\ RelayFlagsViaRxPayload' \in BOOLEAN
         /\ reqs' \in Seq(Request)
<1> DEFINE r == [by |-> by, relayed |-> RelayFlagsViaRxPayload]
<1>1. RelayFlagsViaRxPayload \in BOOLEAN /\ reqs \in Seq(Request)
  BY DEF TypeOK
<1>2. r \in Request
  BY <1>1, Zenon DEF Request
<1>3. reqs' = Append(reqs, r) /\ RelayFlagsViaRxPayload' = FALSE
  BY DEF MsgWrite
<1>4. Append(reqs, r) \in Seq(Request)
  <2> HIDE DEF r
  <2> QED BY <1>1, <1>2
<1> HIDE DEF r
<1> QED
  BY <1>3, <1>4, Zenon

LEMMA HandleEventType ==
  ASSUME TypeOK, HandleEvent
  PROVE  /\ IsCmdRespWaited' \in BOOLEAN
         /\ FunctionParams' \in Threads \cup {Nobody}
         /\ RelayFlagsViaRxPayload' \in BOOLEAN
         /\ reqs' \in Seq(Request)
<1>1. CASE rx.class = "TOKEN"
  BY <1>1, MsgWriteType DEF HandleEvent
<1>2. CASE rx.class # "TOKEN"
  BY <1>2 DEF HandleEvent, TypeOK
<1> QED
  BY <1>1, <1>2

LEMMA GotoType ==
  ASSUME NEW t \in Threads, NEW from, NEW to \in PCs, TypeOK, Goto(t, from, to)
  PROVE  pc' \in [Threads -> PCs]
BY DEF TypeOK, Goto

LEMMA CmdOpType ==
  ASSUME TypeOK, NEW t \in Threads, CmdOpEnter(t) \/ CmdOp(t)
  PROVE  TypeOK'
<1>1. CASE CmdOpEnter(t)
  BY <1>1, GotoType DEF TypeOK, CmdOpEnter, PCs
<1>2. CASE CmdOpLock(t)
  BY <1>2, GotoType DEF TypeOK, CmdOpLock, PCs, Lock
<1>3. CASE CmdOpParams(t)
  BY <1>3, GotoType DEF TypeOK, CmdOpParams, PCs
<1>4. CASE CmdOpWrite(t)
  <2>1. pc' \in [Threads -> PCs]
    BY <1>4, GotoType DEF CmdOpWrite, PCs
  <2>2. RelayFlagsViaRxPayload' \in BOOLEAN /\ reqs' \in Seq(Request)
    BY <1>4, MsgWriteType DEF CmdOpWrite, TypeOK
  <2> QED
    BY <1>4, <2>1, <2>2 DEF TypeOK, CmdOpWrite
<1>5. CASE CmdCtxLeave(t)
  BY <1>5, GotoType DEF TypeOK, CmdCtxLeave, PCs
<1>6. CASE CmdCtxRead(t)
  <2>1. pc' \in [Threads -> PCs]
    BY <1>6, GotoType DEF CmdCtxRead, PCs
  <2> QED
    BY <1>6, <2>1, MsgReadType DEF TypeOK, CmdCtxRead
<1>7. CASE CmdCtxGoWait(t)
  BY <1>7, GotoType DEF TypeOK, CmdCtxGoWait, PCs
<1>8. CASE CmdCtxWake(t)
  BY <1>8, GotoType DEF TypeOK, CmdCtxWake, PCs
<1>9. CASE CmdCtxDone(t)
  BY <1>9, GotoType, IncType DEF TypeOK, CmdCtxDone, PCs
<1>10. CASE CmdCtxResponse(t)
  BY <1>10, GotoType DEF TypeOK, CmdCtxResponse, PCs
<1>11. CASE CmdCtxClear(t)
  BY <1>11, GotoType DEF TypeOK, CmdCtxClear, PCs
<1>12. CASE CmdCtxEvent(t)
  <2>1. pc' \in [Threads -> PCs]
    BY <1>12, GotoType DEF CmdCtxEvent, PCs
  <2> QED
    BY <1>12, <2>1, HandleEventType DEF TypeOK, CmdCtxEvent
<1>13. CASE CmdCtxUnlock(t)
  BY <1>13, GotoType DEF TypeOK, CmdCtxUnlock, PCs, Unlock
<1>14. CASE CmdCtxReturn(t)
  BY <1>14, GotoType, DriverAssumption DEF TypeOK, CmdCtxReturn, PCs, Spawn
<1> QED
  BY <1>1, <1>2, <1>3, <1>4, <1>5, <1>6, <1>7, <1>8, <1>9, <1>10, <1>11, <1>12,
     <1>13, <1>14 DEF CmdOp

LEMMA SpawnCtxType ==
  ASSUME TypeOK, SpawnCtx
  PROVE  TypeOK'
<1>1. CASE SpawnReceive
  BY <1>1, DriverAssumption DEF TypeOK, SpawnReceive, SpawnGoto, SpawnPCs
<1>2. CASE SpawnLock
  BY <1>2 DEF TypeOK, SpawnLock, SpawnGoto, SpawnPCs, Lock
<1>3. CASE SpawnNothing
  BY <1>3 DEF TypeOK, SpawnNothing, SpawnGoto, SpawnPCs, Unlock
<1>4. CASE SpawnRead
  BY <1>4, MsgReadType DEF TypeOK, SpawnRead, SpawnGoto, SpawnPCs
<1>5. CASE SpawnDone
  BY <1>5, IncType DEF TypeOK, SpawnDone, SpawnGoto, SpawnPCs
<1>6. CASE SpawnMessage /\ rx.class # "CMD"
  BY <1>6, HandleEventType DEF TypeOK, SpawnMessage, SpawnPCs
<1>7. CASE SpawnMessage /\ rx.class = "CMD"
  BY <1>7 DEF TypeOK, SpawnMessage, SpawnPCs
<1>8. CASE SpawnUnlock
  BY <1>8 DEF TypeOK, SpawnUnlock, SpawnGoto, SpawnPCs, Unlock
<1> QED
  BY <1>1, <1>2, <1>3, <1>4, <1>5, <1>6, <1>7, <1>8 DEF SpawnCtx

LEMMA NwpType ==
  ASSUME TypeOK, NwpExecute \/ NwpEvent
  PROVE  TypeOK'
<1>1. CASE NwpExecute
  <2>1. Head(reqs) \in Request /\ Tail(reqs) \in Seq(Request)
    BY <1>1 DEF TypeOK, NwpExecute
  <2>2. ASSUME Head(reqs).by # Nobody
        PROVE  [class |-> "CMD", to |-> Head(reqs).by] \in Message
    BY <2>1 DEF Message, Request
  <2>3. out' \in Seq(Message)
    BY <1>1, <2>2 DEF TypeOK, NwpExecute
  <2> QED
    BY <1>1, <2>1, <2>3 DEF TypeOK, NwpExecute, hostVars
<1>2. CASE NwpEvent
  <2>1. ASSUME NEW c \in Events
        PROVE  [class |-> c, to |-> Nobody] \in Message
    BY DriverAssumption DEF DriverAssumption, Message
  <2>2. out' \in Seq(Message)
    BY <1>2, <2>1 DEF TypeOK, NwpEvent
  <2> QED
    BY <1>2, <2>2 DEF TypeOK, NwpEvent, hostVars
<1> QED
  BY <1>1, <1>2

\* Every reachable state is one the control block can hold; in particular the
\* spawn queue never exceeds its length and the counters stay in range.
THEOREM TypeCorrect == Spec => []TypeOK
<1>1. Init => TypeOK
  <2> SUFFICES ASSUME Init
               PROVE  TypeOK
    OBVIOUS
  <2>1. 0 \in 0 .. CntMod - 1 /\ 0 \in 0 .. slQUEUE_SIZE
    BY DriverAssumption DEF DriverAssumption
  <2>2. rx \in Message
    BY DEF Init, Message, EventClasses
  <2>3. reqs \in Seq(Request) /\ out \in Seq(Message)
    BY DEF Init
  <2> QED
    BY <2>1, <2>2, <2>3 DEF Init, TypeOK, PCs, SpawnPCs
<1>2. TypeOK /\ [Next]_vars => TypeOK'
  <2> SUFFICES ASSUME TypeOK, [Next]_vars
               PROVE  TypeOK'
    OBVIOUS
  <2>1. CASE RxIrqHandler
    <3>1. RxIrqCnt' \in 0 .. CntMod - 1
      BY <2>1, IncType DEF TypeOK, RxIrqHandler
    <3>2. spawnQ' \in 0 .. slQUEUE_SIZE
      BY <2>1, DriverAssumption DEF DriverAssumption, TypeOK, RxIrqHandler, Spawn
    <3>3. CmdSyncObj' \in BOOLEAN
      BY <2>1, Zenon DEF TypeOK, RxIrqHandler
    <3> QED
      BY <2>1, <3>1, <3>2, <3>3 DEF TypeOK, RxIrqHandler
  <2>2. ASSUME NEW t \in Threads, CmdOpEnter(t) \/ CmdOp(t)
        PROVE  TypeOK'
    BY <2>2, CmdOpType
  <2>3. CASE SpawnCtx
    BY <2>3, SpawnCtxType
  <2>4. CASE NwpExecute \/ NwpEvent
    BY <2>4, NwpType
  <2>5. CASE UNCHANGED vars
    BY <2>5 DEF TypeOK, vars
  <2> QED
    BY <2>1, <2>2, <2>3, <2>4, <2>5 DEF Next
<1> QED
  BY <1>1, <1>2, PTL DEF Spec
-------------------------------------------------------------------------------
(* The global lock *)

LEMMA MutexCmd ==
  ASSUME TypeOK, MutualExclusion, NEW t \in Threads, CmdOpEnter(t) \/ CmdOp(t)
  PROVE  MutualExclusion'
<1> USE DriverAssumption DEF DriverAssumption, TypeOK, MutualExclusion, Goto, CmdHolds
<1>1. CASE CmdOpEnter(t)
  BY <1>1 DEF CmdOpEnter
<1>2. CASE CmdOpLock(t)
  BY <1>2 DEF CmdOpLock, Lock, SpawnHolds
<1>3. CASE CmdOpParams(t) \/ CmdOpWrite(t)
  BY <1>3 DEF CmdOpParams, CmdOpWrite
<1>4. CASE CmdCtxLeave(t) \/ CmdCtxRead(t) \/ CmdCtxGoWait(t) \/ CmdCtxWake(t)
  BY <1>4 DEF CmdCtxLeave, CmdCtxRead, CmdCtxGoWait, CmdCtxWake
<1>5. CASE CmdCtxDone(t) \/ CmdCtxResponse(t) \/ CmdCtxClear(t) \/ CmdCtxEvent(t)
  BY <1>5 DEF CmdCtxDone, CmdCtxResponse, CmdCtxClear, CmdCtxEvent
<1>6. CASE CmdCtxUnlock(t)
  BY <1>6 DEF CmdCtxUnlock, Unlock
<1>7. CASE CmdCtxReturn(t)
  BY <1>7 DEF CmdCtxReturn
<1> QED
  BY <1>1, <1>2, <1>3, <1>4, <1>5, <1>6, <1>7 DEF CmdOp

LEMMA MutexSpawn ==
  ASSUME TypeOK, MutualExclusion, SpawnCtx
  PROVE  MutualExclusion'
<1> USE DriverAssumption
    DEF DriverAssumption, TypeOK, MutualExclusion, SpawnGoto, SpawnHolds
<1>1. CASE SpawnReceive
  BY <1>1 DEF SpawnReceive
<1>2. CASE SpawnLock
  BY <1>2 DEF SpawnLock, Lock
<1>3. CASE SpawnNothing \/ SpawnUnlock
  BY <1>3 DEF SpawnNothing, SpawnUnlock, Unlock
<1>4. CASE SpawnRead \/ SpawnDone \/ SpawnMessage
  BY <1>4 DEF SpawnRead, SpawnDone, SpawnMessage
<1> QED
  BY <1>1, <1>2, <1>3, <1>4 DEF SpawnCtx

\* The global lock is what it is meant to be: a context that is inside the
\* driver owns it, so at most one is.
THEOREM GlobalLock == Spec => []MutualExclusion
<1>1. Init => MutualExclusion
  BY DriverAssumption
     DEF DriverAssumption, Init, MutualExclusion, CmdHolds, SpawnHolds
<1>2. TypeOK /\ MutualExclusion /\ [Next]_vars => MutualExclusion'
  <2> SUFFICES ASSUME TypeOK, MutualExclusion, [Next]_vars
               PROVE  MutualExclusion'
    OBVIOUS
  <2>1. CASE RxIrqHandler
    BY <2>1 DEF RxIrqHandler, MutualExclusion
  <2>2. ASSUME NEW t \in Threads, CmdOpEnter(t) \/ CmdOp(t)
        PROVE  MutualExclusion'
    BY <2>2, MutexCmd
  <2>3. CASE SpawnCtx
    BY <2>3, MutexSpawn
  <2>4. CASE NwpExecute \/ NwpEvent
    BY <2>4 DEF NwpExecute, NwpEvent, hostVars, MutualExclusion
  <2>5. CASE UNCHANGED vars
    BY <2>5 DEF vars, MutualExclusion
  <2> QED
    BY <2>1, <2>2, <2>3, <2>4, <2>5 DEF Next
<1> QED
  BY <1>1, <1>2, TypeCorrect, PTL DEF Spec
-------------------------------------------------------------------------------
(* The interrupt handshake *)

\* A task that owns the lock is the only context inside the driver, so a
\* message is being read only if that task reads it.
LEMMA AloneCmd ==
  ASSUME TypeOK, MutualExclusion, NEW t \in Threads, pc[t] \in CmdHolds
  PROVE  /\ spc \notin SpawnHolds
         /\ \A u \in Threads : pc[u] \in CmdHolds => u = t
         /\ Reading <=> pc[t] = "done"
<1>1. spc \notin SpawnHolds /\ \A u \in Threads : pc[u] \in CmdHolds => u = t
  BY DriverAssumption DEF DriverAssumption, MutualExclusion
<1> QED
  BY <1>1 DEF Reading, CmdHolds, SpawnHolds

LEMMA AloneSpawn ==
  ASSUME TypeOK, MutualExclusion, spc \in SpawnHolds
  PROVE  /\ \A u \in Threads : pc[u] \notin CmdHolds
         /\ Reading <=> spc = "done"
<1>1. \A u \in Threads : pc[u] \notin CmdHolds
  BY DriverAssumption DEF DriverAssumption, MutualExclusion
<1> QED
  BY <1>1 DEF Reading, CmdHolds

LEMMA ReadingGoto ==
  ASSUME TypeOK, NEW t \in Threads, NEW from, NEW to, Goto(t, from, to),
         from # "done", to # "done", spc' = spc
  PROVE  Reading' <=> Reading
BY DEF TypeOK, Goto, Reading

\* Masked and not being read is the same as pending, when nothing is read.
LEMMA PendingIsMasked ==
  ASSUME TypeOK, Handshake, ~ Reading
  PROVE  Pending <=> irqMasked
BY IncDistinct DEF TypeOK, Handshake, Pending

\* A step that touches neither the counters nor the mask nor Reading.
LEMMA HandshakeQuiet ==
  ASSUME Handshake, Reading' <=> Reading, out # <<>> => out' # <<>>,
         UNCHANGED <<RxIrqCnt, RxDoneCnt, irqMasked>>
  PROVE  Handshake'
BY DEF Handshake, Inc

LEMMA HandshakeRead ==
  ASSUME TypeOK, Handshake, ~ Reading, Pending, MsgRead, Reading',
         UNCHANGED <<RxIrqCnt, RxDoneCnt>>
  PROVE  Handshake'
<1>1. irqMasked /\ ~ irqMasked'
  BY PendingIsMasked DEF MsgRead
<1> QED
  BY <1>1 DEF Handshake, Inc

LEMMA HandshakeDone ==
  ASSUME Handshake, Reading, ~ Reading', RxDoneCnt' = Inc(RxDoneCnt),
         UNCHANGED <<RxIrqCnt, irqMasked, out>>
  PROVE  Handshake'
BY DEF Handshake, Inc

LEMMA HandshakeCmd ==
  ASSUME TypeOK, MutualExclusion, Handshake,
         NEW t \in Threads, CmdOpEnter(t) \/ CmdOp(t)
  PROVE  Handshake'
<1>1. CASE CmdCtxRead(t)
  <2>1. ~ Reading
    BY <1>1, AloneCmd DEF CmdCtxRead, Goto, CmdHolds
  <2>2. Reading'
    BY <1>1 DEF CmdCtxRead, Goto, Reading, TypeOK
  <2> QED
    BY <1>1, <2>1, <2>2, HandshakeRead DEF CmdCtxRead
<1>2. CASE CmdCtxDone(t)
  <2>1. Reading
    BY <1>2 DEF CmdCtxDone, Goto, Reading
  <2>2. spc # "done" /\ \A u \in Threads : pc[u] = "done" => u = t
    BY <1>2, AloneCmd DEF CmdCtxDone, Goto, CmdHolds, SpawnHolds
  <2>3. ~ Reading'
    BY <1>2, <2>2 DEF CmdCtxDone, Goto, Reading, TypeOK
  <2> QED
    BY <1>2, <2>1, <2>3, HandshakeDone DEF CmdCtxDone
<1>3. CASE CmdOpEnter(t) \/ CmdOpLock(t) \/ CmdOpParams(t) \/ CmdOpWrite(t)
  <2>1. Reading' <=> Reading
    BY <1>3, ReadingGoto DEF CmdOpEnter, CmdOpLock, CmdOpParams, CmdOpWrite
  <2> QED
    BY <1>3, <2>1, HandshakeQuiet
       DEF CmdOpEnter, CmdOpLock, CmdOpParams, CmdOpWrite
<1>4. CASE CmdCtxLeave(t) \/ CmdCtxGoWait(t) \/ CmdCtxWake(t) \/ CmdCtxResponse(t)
  <2>1. Reading' <=> Reading
    BY <1>4, ReadingGoto
       DEF CmdCtxLeave, CmdCtxGoWait, CmdCtxWake, CmdCtxResponse
  <2> QED
    BY <1>4, <2>1, HandshakeQuiet
       DEF CmdCtxLeave, CmdCtxGoWait, CmdCtxWake, CmdCtxResponse
<1>5. CASE CmdCtxClear(t) \/ CmdCtxEvent(t) \/ CmdCtxUnlock(t) \/ CmdCtxReturn(t)
  <2>1. Reading' <=> Reading
    BY <1>5, ReadingGoto
       DEF CmdCtxClear, CmdCtxEvent, CmdCtxUnlock, CmdCtxReturn
  <2> QED
    BY <1>5, <2>1, HandshakeQuiet
       DEF CmdCtxClear, CmdCtxEvent, CmdCtxUnlock, CmdCtxReturn
<1> QED
  BY <1>1, <1>2, <1>3, <1>4, <1>5 DEF CmdOp

LEMMA HandshakeSpawn ==
  ASSUME TypeOK, MutualExclusion, Handshake, SpawnCtx
  PROVE  Handshake'
<1>1. CASE SpawnRead
  <2>1. ~ Reading
    BY <1>1, AloneSpawn DEF SpawnRead, SpawnGoto, SpawnHolds
  <2>2. Reading'
    BY <1>1 DEF SpawnRead, SpawnGoto, Reading
  <2> QED
    BY <1>1, <2>1, <2>2, HandshakeRead DEF SpawnRead
<1>2. CASE SpawnDone
  <2>1. Reading
    BY <1>2 DEF SpawnDone, SpawnGoto, Reading
  <2>2. ~ Reading'
    BY <1>2, AloneSpawn DEF SpawnDone, SpawnGoto, SpawnHolds, CmdHolds, Reading
  <2> QED
    BY <1>2, <2>1, <2>2, HandshakeDone DEF SpawnDone
<1>3. CASE SpawnReceive \/ SpawnLock \/ SpawnNothing
  <2>1. Reading' <=> Reading
    BY <1>3 DEF SpawnReceive, SpawnLock, SpawnNothing, SpawnGoto, Reading
  <2> QED
    BY <1>3, <2>1, HandshakeQuiet DEF SpawnReceive, SpawnLock, SpawnNothing
<1>4. CASE SpawnMessage \/ SpawnUnlock
  <2>1. Reading' <=> Reading
    BY <1>4 DEF SpawnMessage, SpawnUnlock, SpawnGoto, Reading
  <2> QED
    BY <1>4, <2>1, HandshakeQuiet DEF SpawnMessage, SpawnUnlock
<1> QED
  BY <1>1, <1>2, <1>3, <1>4 DEF SpawnCtx

LEMMA AppendNonEmpty ==
  ASSUME NEW s \in Seq(Message), NEW m \in Message
  PROVE  Append(s, m) # <<>>
<1>1. Len(Append(s, m)) = Len(s) + 1 /\ Len(s) \in Nat
  OBVIOUS
<1>2. Len(<<>>) = 0
  OBVIOUS
<1> QED
  BY <1>1, <1>2

LEMMA NwpKeepsMessages ==
  ASSUME TypeOK, NwpExecute \/ NwpEvent, out # <<>>
  PROVE  out' # <<>>
<1>1. CASE NwpExecute
  <2>1. CASE Head(reqs).by = Nobody
    BY <1>1, <2>1 DEF NwpExecute
  <2>2. CASE Head(reqs).by # Nobody
    <3>1. Head(reqs) \in Request
      BY <1>1 DEF NwpExecute, TypeOK
    <3>2. [class |-> "CMD", to |-> Head(reqs).by] \in Message
      BY <2>2, <3>1 DEF Message, Request
    <3>3. out' = Append(out, [class |-> "CMD", to |-> Head(reqs).by])
      BY <1>1, <2>2 DEF NwpExecute
    <3>4. out \in Seq(Message)
      BY DEF TypeOK
    <3> QED
      BY <3>2, <3>3, <3>4, AppendNonEmpty, Zenon
  <2> QED
    BY <2>1, <2>2
<1>2. CASE NwpEvent
  <2>1. PICK c \in Events : out' = Append(out, [class |-> c, to |-> Nobody])
    BY <1>2 DEF NwpEvent
  <2>2. [class |-> c, to |-> Nobody] \in Message
    BY DriverAssumption DEF DriverAssumption, Message
  <2>3. out \in Seq(Message)
    BY DEF TypeOK
  <2> QED
    BY <2>1, <2>2, <2>3, AppendNonEmpty, Zenon
<1> QED
  BY <1>1, <1>2

LEMMA HandshakeNwp ==
  ASSUME TypeOK, Handshake, NwpExecute \/ NwpEvent
  PROVE  Handshake'
<1>1. Reading' <=> Reading
  BY DEF NwpExecute, NwpEvent, hostVars, Reading
<1> QED
  BY <1>1, NwpKeepsMessages, HandshakeQuiet DEF NwpExecute, NwpEvent, hostVars

\* The mask and the two counters agree in every reachable state, whatever the
\* interleaving of the interrupt with the two contexts that read.
THEOREM InterruptHandshake == Spec => []Handshake
<1>1. Init => Handshake
  BY DEF Init, Handshake, Reading
<1>2. TypeOK /\ MutualExclusion /\ Handshake /\ [Next]_vars => Handshake'
  <2> SUFFICES ASSUME TypeOK, MutualExclusion, Handshake, [Next]_vars
               PROVE  Handshake'
    OBVIOUS
  <2>1. CASE RxIrqHandler
    <3>1. Reading' <=> Reading
      BY <2>1 DEF RxIrqHandler, Reading
    <3> QED
      BY <2>1, <3>1 DEF RxIrqHandler, Handshake, Inc
  <2>2. ASSUME NEW t \in Threads, CmdOpEnter(t) \/ CmdOp(t)
        PROVE  Handshake'
    BY <2>2, HandshakeCmd
  <2>3. CASE SpawnCtx
    BY <2>3, HandshakeSpawn
  <2>4. CASE NwpExecute \/ NwpEvent
    BY <2>4, HandshakeNwp
  <2>5. CASE UNCHANGED vars
    <3>1. Reading' <=> Reading
      BY <2>5 DEF vars, Reading
    <3> QED
      BY <2>5, <3>1, HandshakeQuiet DEF vars
  <2> QED
    BY <2>1, <2>2, <2>3, <2>4, <2>5 DEF Next
<1> QED
  BY <1>1, <1>2, TypeCorrect, GlobalLock, PTL DEF Spec

\* A context that is about to read finds a message on the bus.
THEOREM NoBlindRead == Spec => []ReadHasMessage
<1>1. TypeOK /\ MutualExclusion /\ Handshake => ReadHasMessage
  <2> SUFFICES ASSUME TypeOK, MutualExclusion, Handshake
               PROVE  ReadHasMessage
    OBVIOUS
  <2>1. ASSUME NEW t \in Threads, pc[t] = "loop", Pending
        PROVE  out # <<>>
    BY <2>1, AloneCmd, PendingIsMasked DEF CmdHolds, Handshake
  <2>2. ASSUME spc = "check", Pending
        PROVE  out # <<>>
    BY <2>2, AloneSpawn, PendingIsMasked DEF SpawnHolds, Handshake
  <2> QED
    BY <2>1, <2>2 DEF ReadHasMessage
<1> QED
  BY <1>1, TypeCorrect, GlobalLock, InterruptHandshake, PTL
-------------------------------------------------------------------------------
(* No stranded message *)

\* While the interrupt is masked the counters differ, in every context.
LEMMA MaskedIsPending ==
  ASSUME TypeOK, Handshake, irqMasked
  PROVE  Pending
BY IncDistinct DEF TypeOK, Handshake, Pending

LEMMA SpawnLeavesEntry ==
  ASSUME TypeOK, Spawn
  PROVE  spawnQ' > 0
BY DriverAssumption DEF DriverAssumption, TypeOK, Spawn

\* What a step of one task does to another task's place in the code.
LEMMA OtherTask ==
  ASSUME TypeOK, NEW t \in Threads, NEW from, NEW to, Goto(t, from, to),
         NEW u \in Threads, u # t
  PROVE  pc'[u] = pc[u]
BY DEF TypeOK, Goto

LEMMA FlagCmd ==
  ASSUME TypeOK, FlagHasCommand, NEW t \in Threads, CmdOpEnter(t) \/ CmdOp(t)
  PROVE  FlagHasCommand'
<1> USE DEF TypeOK, FlagHasCommand, Goto
<1>1. CASE CmdOpEnter(t) \/ CmdOpLock(t)
  BY <1>1 DEF CmdOpEnter, CmdOpLock
<1>2. CASE CmdOpParams(t) \/ CmdOpWrite(t)
  BY <1>2 DEF CmdOpParams, CmdOpWrite
<1>3. CASE CmdCtxLeave(t) \/ CmdCtxResponse(t)
  BY <1>3 DEF CmdCtxLeave, CmdCtxResponse
<1>4. CASE CmdCtxRead(t) \/ CmdCtxGoWait(t) \/ CmdCtxWake(t)
  BY <1>4 DEF CmdCtxRead, CmdCtxGoWait, CmdCtxWake
<1>5. CASE CmdCtxDone(t) \/ CmdCtxEvent(t)
  BY <1>5 DEF CmdCtxDone, CmdCtxEvent
<1>6. CASE CmdCtxClear(t) \/ CmdCtxUnlock(t) \/ CmdCtxReturn(t)
  BY <1>6 DEF CmdCtxClear, CmdCtxUnlock, CmdCtxReturn
<1> QED
  BY <1>1, <1>2, <1>3, <1>4, <1>5, <1>6 DEF CmdOp

LEMMA FlagSpawn ==
  ASSUME TypeOK, FlagHasCommand, SpawnCtx
  PROVE  FlagHasCommand'
<1>1. CASE SpawnMessage
  <2>1. UNCHANGED IsCmdRespWaited \/ IsCmdRespWaited' = FALSE
    BY <1>1 DEF SpawnMessage, HandleEvent
  <2> QED
    BY <1>1, <2>1, Zenon DEF SpawnMessage, FlagHasCommand
<1>2. CASE \/ SpawnReceive \/ SpawnLock \/ SpawnNothing \/ SpawnRead
          \/ SpawnDone \/ SpawnUnlock
  BY <1>2 DEF SpawnReceive, SpawnLock, SpawnNothing, SpawnRead, SpawnDone,
     SpawnUnlock, FlagHasCommand
<1> QED
  BY <1>1, <1>2 DEF SpawnCtx

\* The response flag is up only while a command is on its way to look.
THEOREM WaitedByCommand == Spec => []FlagHasCommand
<1>1. Init => FlagHasCommand
  BY DEF Init, FlagHasCommand
<1>2. TypeOK /\ FlagHasCommand /\ [Next]_vars => FlagHasCommand'
  <2> SUFFICES ASSUME TypeOK, FlagHasCommand, [Next]_vars
               PROVE  FlagHasCommand'
    OBVIOUS
  <2>1. CASE RxIrqHandler
    BY <2>1 DEF RxIrqHandler, FlagHasCommand
  <2>2. ASSUME NEW t \in Threads, CmdOpEnter(t) \/ CmdOp(t)
        PROVE  FlagHasCommand'
    BY <2>2, FlagCmd
  <2>3. CASE SpawnCtx
    BY <2>3, FlagSpawn
  <2>4. CASE NwpExecute \/ NwpEvent
    BY <2>4 DEF NwpExecute, NwpEvent, hostVars, FlagHasCommand
  <2>5. CASE UNCHANGED vars
    BY <2>5 DEF vars, FlagHasCommand
  <2> QED
    BY <2>1, <2>2, <2>3, <2>4, <2>5 DEF Next
<1> QED
  BY <1>1, <1>2, TypeCorrect, PTL DEF Spec

LEMMA ReaderIrq ==
  ASSUME TypeOK, FlagHasCommand, RxIrqHandler
  PROVE  AnnouncedHasReader'
<1>1. CASE IsCmdRespWaited
  <2>1. PICK t \in Threads : pc[t] \in {"write", "loop", "wait", "done", "class"}
    BY <1>1 DEF FlagHasCommand
  <2>2. pc' = pc /\ CmdSyncObj'
    BY <1>1, Zenon DEF RxIrqHandler
  <2>3. CmdWillCheck(t)'
    BY <2>1, <2>2 DEF CmdWillCheck, CmdHolds
  <2> QED
    BY <2>3 DEF AnnouncedHasReader
<1>2. CASE ~ IsCmdRespWaited
  BY <1>2, SpawnLeavesEntry DEF RxIrqHandler, AnnouncedHasReader
<1> QED
  BY <1>1, <1>2

LEMMA ReaderCmd ==
  ASSUME TypeOK, MutualExclusion, Handshake, AnnouncedHasReader,
         NEW t \in Threads, CmdOpEnter(t) \/ CmdOp(t)
  PROVE  AnnouncedHasReader'
<1>1. CASE CmdOpEnter(t)
  <2>1. ~ CmdWillCheck(t)
    BY <1>1 DEF CmdOpEnter, Goto, CmdWillCheck, CmdHolds
  <2>2. \A u \in Threads : u # t => (CmdWillCheck(u)' <=> CmdWillCheck(u))
    BY <1>1, OtherTask, Zenon DEF CmdOpEnter, CmdWillCheck
  <2> QED
    BY <1>1, <2>1, <2>2 DEF CmdOpEnter, AnnouncedHasReader
<1>2. CASE CmdCtxRead(t)
  BY <1>2 DEF CmdCtxRead, MsgRead, AnnouncedHasReader
<1>3. CASE CmdCtxGoWait(t)
  <2>1. ~ irqMasked
    BY <1>3, MaskedIsPending DEF CmdCtxGoWait
  <2> QED
    BY <1>3, <2>1 DEF CmdCtxGoWait, AnnouncedHasReader
<1>4. CASE CmdCtxReturn(t)
  <2>1. irqMasked => spawnQ' > 0
    BY <1>4, MaskedIsPending, SpawnLeavesEntry DEF CmdCtxReturn
  <2> QED
    BY <1>4, <2>1 DEF CmdCtxReturn, AnnouncedHasReader
<1>5. CASE \/ CmdOpLock(t) \/ CmdOpParams(t) \/ CmdOpWrite(t) \/ CmdCtxLeave(t)
          \/ CmdCtxWake(t) \/ CmdCtxDone(t) \/ CmdCtxResponse(t) \/ CmdCtxClear(t)
          \/ CmdCtxEvent(t) \/ CmdCtxUnlock(t)
  <2>1. pc'[t] \in (CmdHolds \ {"wait"}) \cup {"check"}
    BY <1>5 DEF TypeOK, Goto, CmdHolds, CmdOpLock, CmdOpParams, CmdOpWrite,
       CmdCtxLeave, CmdCtxWake, CmdCtxDone, CmdCtxResponse, CmdCtxClear,
       CmdCtxEvent, CmdCtxUnlock
  <2>2. CmdWillCheck(t)'
    BY <2>1 DEF CmdWillCheck
  <2> QED
    BY <2>2 DEF AnnouncedHasReader
<1> QED
  BY <1>1, <1>2, <1>3, <1>4, <1>5 DEF CmdOp

LEMMA ReaderSpawn ==
  ASSUME TypeOK, Handshake, AnnouncedHasReader, SpawnCtx
  PROVE  AnnouncedHasReader'
<1>1. CASE SpawnReceive \/ SpawnLock
  BY <1>1 DEF SpawnReceive, SpawnLock, SpawnGoto, AnnouncedHasReader
<1>2. CASE SpawnNothing
  BY <1>2, MaskedIsPending DEF SpawnNothing, AnnouncedHasReader
<1>3. CASE SpawnRead
  BY <1>3 DEF SpawnRead, MsgRead, AnnouncedHasReader
<1>4. CASE SpawnDone \/ SpawnMessage \/ SpawnUnlock
  <2>1. spc \notin {"lock", "check"}
    BY <1>4 DEF SpawnDone, SpawnMessage, SpawnUnlock, SpawnGoto
  <2>2. UNCHANGED <<irqMasked, spawnQ, pc, CmdSyncObj>>
    BY <1>4 DEF SpawnDone, SpawnMessage, SpawnUnlock
  <2> QED
    BY <2>1, <2>2 DEF AnnouncedHasReader, CmdWillCheck
<1> QED
  BY <1>1, <1>2, <1>3, <1>4 DEF SpawnCtx

\* A message the interrupt announced always has a context bound to read it,
\* although a full spawn queue drops entries and although the interrupt may
\* announce to a command that has just seen its response.
THEOREM NoStrandedMessage == Spec => []AnnouncedHasReader
<1>1. Init => AnnouncedHasReader
  BY DEF Init, AnnouncedHasReader
<1>2. TypeOK /\ ReceiveInv /\ [Next]_vars => AnnouncedHasReader'
  <2> SUFFICES ASSUME TypeOK, MutualExclusion, Handshake, FlagHasCommand,
                      AnnouncedHasReader, [Next]_vars
               PROVE  AnnouncedHasReader'
    BY DEF ReceiveInv
  <2>1. CASE RxIrqHandler
    BY <2>1, ReaderIrq
  <2>2. ASSUME NEW t \in Threads, CmdOpEnter(t) \/ CmdOp(t)
        PROVE  AnnouncedHasReader'
    BY <2>2, ReaderCmd
  <2>3. CASE SpawnCtx
    BY <2>3, ReaderSpawn
  <2>4. CASE NwpExecute \/ NwpEvent
    BY <2>4 DEF NwpExecute, NwpEvent, hostVars, AnnouncedHasReader, CmdWillCheck
  <2>5. CASE UNCHANGED vars
    BY <2>5 DEF vars, AnnouncedHasReader, CmdWillCheck
  <2> QED
    BY <2>1, <2>2, <2>3, <2>4, <2>5 DEF Next
<1> QED
  BY <1>1, <1>2, TypeCorrect, GlobalLock, InterruptHandshake, WaitedByCommand,
     PTL DEF Spec, ReceiveInv

-------------------------------------------------------------------------------
(***************************************************************************)
(* Without the HTTP server's token requests the driver implements SlRpc,   *)
(* with relay mode as well: the response in flight belongs to the command  *)
(* that owns the lock, and no other context ever meets it.                 *)
(***************************************************************************)

NoTokens == "TOKEN" \notin Events

-------------------------------------------------------------------------------
(* The invariant *)

IsEvent(m) == m.class \notin {"CMD", "TOKEN"}
IsResponse(m, t) == m.class = "CMD" /\ m.to = t

\* No response is among the messages, or exactly one is, and it is for t.
Quiet(s) == \A i \in 1 .. Len(s) : IsEvent(s[i])
Carries(s, t) ==
  \E k \in 1 .. Len(s) :
    /\ IsResponse(s[k], t)
    /\ \A i \in 1 .. Len(s) : i # k => IsEvent(s[i])

\* The command of t is written and not finished.
Waits(t) == pc[t] \in {"loop", "wait", "done", "class"} /\ IsCmdRespWaited

\* It has just read its response.
Reads(t) == pc[t] \in {"done", "class"} /\ IsResponse(rx, t)

\* Its request or its response is in exactly one place.
Owed(t) ==
  \/ Len(reqs) = 1 /\ reqs[1].by = t /\ Quiet(out) /\ ~ Reads(t)
  \/ reqs = <<>> /\ Carries(out, t) /\ ~ Reads(t)
  \/ reqs = <<>> /\ Quiet(out) /\ Reads(t)

\* What holds of one call, by where it is.
CallInv(t) ==
  /\ pc[t] \in {"lock", "params", "write"} => desc[t] = Nobody
  /\ pc[t] \in {"write", "wait", "done", "class"} => IsCmdRespWaited
  /\ pc[t] \in {"clear", "unlock"} => ~ IsCmdRespWaited
  /\ pc[t] \in CmdHolds \ {"params"} => FunctionParams = t
  /\ pc[t] \in {"done", "class"} /\ ~ Reads(t) => IsEvent(rx)
  /\ pc[t] \in {"clear", "unlock"} \/ (pc[t] = "loop" /\ ~ IsCmdRespWaited) => desc[t] = t
  /\ Waits(t) => desc[t] = (IF Reads(t) THEN t ELSE Nobody)
  /\ Waits(t) => Owed(t)

\* Without a waiting command nothing is owed, and the spawn task reads events.
Idle == (\A t \in Threads : ~ Waits(t)) => reqs = <<>> /\ Quiet(out)
SpawnReadsEvents == spc # "assert" /\ (spc \in {"done", "class"} => IsEvent(rx))

RpcInv == Idle /\ SpawnReadsEvents /\ \A t \in Threads : CallInv(t)

\* The invariants it builds on.
Base == TypeOK /\ MutualExclusion

-------------------------------------------------------------------------------
(* Messages in a queue *)

LEMMA AppendFacts ==
  ASSUME NEW s \in Seq(Message), NEW m \in Message
  PROVE  /\ Len(Append(s, m)) = Len(s) + 1
         /\ \A i \in 1 .. Len(s) : Append(s, m)[i] = s[i]
         /\ Append(s, m)[Len(s) + 1] = m
OBVIOUS

LEMMA AppendEvent ==
  ASSUME NEW s \in Seq(Message), NEW m \in Message, IsEvent(m)
  PROVE  /\ Quiet(s) => Quiet(Append(s, m))
         /\ \A t \in Threads : Carries(s, t) => Carries(Append(s, m), t)
<1> DEFINE a == Append(s, m)
<1>1. /\ Len(a) = Len(s) + 1 /\ Len(s) \in Nat
      /\ \A i \in 1 .. Len(s) : a[i] = s[i]
      /\ a[Len(s) + 1] = m
  BY AppendFacts
<1> HIDE DEF a
<1>2. ASSUME NEW i \in 1 .. Len(a)
      PROVE  i \in 1 .. Len(s) \/ a[i] = m
  BY <1>1
<1>3. Quiet(s) => Quiet(a)
  BY <1>1, <1>2 DEF Quiet
<1>4. ASSUME NEW t \in Threads, Carries(s, t)
      PROVE  Carries(a, t)
  <2>1. PICK k \in 1 .. Len(s) :
               /\ IsResponse(s[k], t)
               /\ \A i \in 1 .. Len(s) : i # k => IsEvent(s[i])
    BY <1>4 DEF Carries
  <2>2. k \in 1 .. Len(a) /\ IsResponse(a[k], t)
    BY <1>1, <2>1
  <2>3. \A i \in 1 .. Len(a) : i # k => IsEvent(a[i])
    BY <1>1, <1>2, <2>1
  <2> QED
    BY <2>2, <2>3 DEF Carries
<1> QED
  BY <1>3, <1>4 DEF a

LEMMA AppendResponse ==
  ASSUME NEW s \in Seq(Message), NEW m \in Message, NEW t \in Threads,
         IsResponse(m, t), Quiet(s)
  PROVE  Carries(Append(s, m), t)
<1> DEFINE a == Append(s, m)
<1>1. /\ Len(a) = Len(s) + 1 /\ Len(s) \in Nat
      /\ \A i \in 1 .. Len(s) : a[i] = s[i]
      /\ a[Len(s) + 1] = m
  BY AppendFacts
<1> HIDE DEF a
<1>2. Len(s) + 1 \in 1 .. Len(a) /\ IsResponse(a[Len(s) + 1], t)
  BY <1>1
<1>3. \A i \in 1 .. Len(a) : i # Len(s) + 1 => IsEvent(a[i])
  BY <1>1 DEF Quiet
<1>4. Carries(a, t)
  BY <1>2, <1>3 DEF Carries
<1> QED
  BY <1>4 DEF a

LEMMA TailFacts ==
  ASSUME NEW s \in Seq(Message), s # <<>>
  PROVE  /\ Head(s) = s[1] /\ Len(s) \in Nat \ {0}
         /\ Tail(s) \in Seq(Message) /\ Len(Tail(s)) = Len(s) - 1
         /\ \A i \in 1 .. Len(s) - 1 : Tail(s)[i] = s[i + 1]
OBVIOUS

LEMMA TailQuiet ==
  ASSUME NEW s \in Seq(Message), s # <<>>, Quiet(s)
  PROVE  IsEvent(Head(s)) /\ Quiet(Tail(s))
<1>1. IsEvent(Head(s))
  BY TailFacts DEF Quiet
<1>2. ASSUME NEW i \in 1 .. Len(Tail(s))
      PROVE  IsEvent(Tail(s)[i])
  <2>1. i \in 1 .. Len(s) - 1 /\ i + 1 \in 1 .. Len(s)
    BY TailFacts
  <2>2. Tail(s)[i] = s[i + 1]
    BY <2>1, TailFacts
  <2> QED
    BY <2>1, <2>2 DEF Quiet
<1> QED
  BY <1>1, <1>2 DEF Quiet

LEMMA TailCarries ==
  ASSUME NEW s \in Seq(Message), NEW t \in Threads, s # <<>>, Carries(s, t)
  PROVE  \/ IsResponse(Head(s), t) /\ Quiet(Tail(s))
         \/ IsEvent(Head(s)) /\ Carries(Tail(s), t)
<1>1. PICK k \in 1 .. Len(s) :
             /\ IsResponse(s[k], t)
             /\ \A i \in 1 .. Len(s) : i # k => IsEvent(s[i])
  BY DEF Carries
<1> DEFINE r == Tail(s)
<1>2. /\ Head(s) = s[1] /\ Len(s) \in Nat \ {0} /\ Len(r) = Len(s) - 1
      /\ \A i \in 1 .. Len(r) : r[i] = s[i + 1] /\ i + 1 \in 1 .. Len(s)
  <2>1. /\ Head(s) = s[1] /\ Len(s) \in Nat \ {0} /\ Len(r) = Len(s) - 1
        /\ \A i \in 1 .. Len(s) - 1 : r[i] = s[i + 1]
    BY TailFacts
  <2> HIDE DEF r
  <2> QED
    BY <2>1
<1> HIDE DEF r
<1>3. CASE k = 1
  <2>1. IsResponse(Head(s), t)
    BY <1>1, <1>2, <1>3
  <2>2. Quiet(r)
    BY <1>1, <1>2, <1>3 DEF Quiet
  <2> QED
    BY <2>1, <2>2 DEF r
<1>4. CASE k # 1
  <2>1. IsEvent(Head(s))
    BY <1>1, <1>2, <1>4
  <2>2. k - 1 \in 1 .. Len(r) /\ IsResponse(r[k - 1], t)
    BY <1>1, <1>2, <1>4
  <2>3. \A i \in 1 .. Len(r) : i # k - 1 => IsEvent(r[i])
    BY <1>1, <1>2
  <2>4. Carries(r, t)
    BY <2>2, <2>3 DEF Carries
  <2> QED
    BY <2>1, <2>4 DEF r
<1> QED
  BY <1>3, <1>4

-------------------------------------------------------------------------------
(* Frames *)

LEMMA MessageIs ==
  ASSUME NEW m \in Message
  PROVE  m.class \in EventClasses \cup {"CMD"} /\ m.to \in Threads \cup {Nobody}
BY DEF Message

\* A task outside the lock waits for nothing.
LEMMA Outside ==
  ASSUME NEW t \in Threads, pc[t] \notin CmdHolds
  PROVE  /\ ~ Waits(t)
         /\ CallInv(t) <=> (pc[t] = "lock" => desc[t] = Nobody)
BY DEF Waits, CallInv, CmdHolds, Reads

LEMMA CallFrame ==
  ASSUME NEW t \in Threads, pc'[t] = pc[t], desc'[t] = desc[t],
         UNCHANGED <<IsCmdRespWaited, FunctionParams, reqs, out, rx>>
  PROVE  /\ CallInv(t)' <=> CallInv(t)
         /\ Waits(t)' <=> Waits(t)
<1>1. Reads(t)' <=> Reads(t)
  BY DEF Reads, IsResponse
<1>2. Waits(t)' <=> Waits(t)
  BY DEF Waits
<1>3. /\ Quiet(out)' <=> Quiet(out)
      /\ Carries(out, t)' <=> Carries(out, t)
      /\ IsEvent(rx)' <=> IsEvent(rx)
  BY DEF Quiet, Carries, IsEvent, IsResponse
<1>4. Owed(t)' <=> Owed(t)
  BY <1>1, <1>3 DEF Owed
<1> QED
  BY <1>1, <1>2, <1>3, <1>4 DEF CallInv

\* What another task does inside the lock is no concern of a task outside it.
LEMMA OutsideFrame ==
  ASSUME NEW t \in Threads, CallInv(t), pc[t] \notin CmdHolds,
         pc'[t] = pc[t], desc'[t] = desc[t]
  PROVE  CallInv(t)' /\ ~ Waits(t)'
BY DEF Waits, CallInv, CmdHolds, Reads

\* A step that moves no message and no task.
LEMMA QuietStep ==
  ASSUME RpcInv, UNCHANGED <<pc, spc, desc, IsCmdRespWaited, FunctionParams, reqs, out, rx>>
  PROVE  RpcInv'
<1>1. \A t \in Threads : CallInv(t)' /\ (Waits(t)' <=> Waits(t))
  BY CallFrame DEF RpcInv
<1>2. Idle'
  BY <1>1 DEF RpcInv, Idle, Quiet, IsEvent
<1>3. SpawnReadsEvents'
  BY DEF RpcInv, SpawnReadsEvents, IsEvent
<1> QED
  BY <1>1, <1>2, <1>3 DEF RpcInv

-------------------------------------------------------------------------------
(* The steps of a command *)

\* The steps outside the lock and at its edge.
LEMMA EdgeStep ==
  ASSUME Base, RpcInv, NEW t \in Threads,
         CmdOpEnter(t) \/ CmdOpLock(t) \/ CmdCtxUnlock(t) \/ CmdCtxReturn(t)
  PROVE  RpcInv'
<1> USE DEF Base, TypeOK
<1>1. UNCHANGED <<spc, IsCmdRespWaited, FunctionParams, rx, reqs, out>>
  BY DEF CmdOpEnter, CmdOpLock, CmdCtxUnlock, CmdCtxReturn
<1>2. \A u \in Threads : u # t => pc'[u] = pc[u] /\ desc'[u] = desc[u]
  BY DEF CmdOpEnter, CmdOpLock, CmdCtxUnlock, CmdCtxReturn, Goto
<1>3. /\ pc[t] \in {"idle", "lock", "unlock", "check"}
      /\ pc'[t] \in {"lock", "params", "check", "idle"}
      /\ pc'[t] \in {"lock", "params"} => desc'[t] = Nobody
  BY DEF CmdOpEnter, CmdOpLock, CmdCtxUnlock, CmdCtxReturn, Goto, RpcInv, CallInv
<1>4. CallInv(t)' /\ ~ Waits(t) /\ ~ Waits(t)'
  BY <1>3 DEF CallInv, Waits, Reads, CmdHolds
<1>5. \A u \in Threads : u # t => CallInv(u)' /\ (Waits(u)' <=> Waits(u))
  BY <1>1, <1>2, CallFrame DEF RpcInv
<1>6. Idle'
  BY <1>1, <1>4, <1>5 DEF RpcInv, Idle, Quiet, IsEvent
<1>7. SpawnReadsEvents'
  BY <1>1 DEF RpcInv, SpawnReadsEvents, IsEvent
<1> QED
  BY <1>4, <1>5, <1>6, <1>7 DEF RpcInv

\* For a step inside the lock it is enough to look at the task that makes it.
LEMMA InsideStep ==
  ASSUME Base, RpcInv, NEW t \in Threads, pc[t] \in CmdHolds,
         UNCHANGED spc,
         \A u \in Threads : u # t => pc'[u] = pc[u] /\ desc'[u] = desc[u],
         CallInv(t)',
         Waits(t)' \/ (reqs' = <<>> /\ Quiet(out'))
  PROVE  RpcInv'
<1>1. /\ spc \notin SpawnHolds
      /\ \A u \in Threads : pc[u] \in CmdHolds => u = t
  BY AloneCmd DEF Base
<1>2. \A u \in Threads : u # t => CallInv(u)'
  BY <1>1, OutsideFrame DEF RpcInv
<1>3. SpawnReadsEvents'
  BY <1>1 DEF SpawnReadsEvents, SpawnHolds
<1>4. Idle'
  BY DEF Idle, Quiet
<1> QED
  BY <1>2, <1>3, <1>4 DEF RpcInv

\* Inside the lock, before the command is written, nothing is owed.
LEMMA NothingOwed ==
  ASSUME Base, RpcInv, NEW t \in Threads, pc[t] \in CmdHolds, ~ Waits(t)
  PROVE  reqs = <<>> /\ Quiet(out)
<1>1. \A u \in Threads : ~ Waits(u)
  <2> SUFFICES ASSUME NEW u \in Threads, u # t
               PROVE  ~ Waits(u)
    OBVIOUS
  <2>1. pc[u] \notin CmdHolds
    BY AloneCmd DEF Base
  <2> QED
    BY <2>1, Outside
<1> QED
  BY <1>1 DEF RpcInv, Idle

LEMMA ParamsStep ==
  ASSUME Base, RpcInv, NEW t \in Threads, CmdOpParams(t)
  PROVE  RpcInv'
<1>1. pc[t] = "params" /\ pc'[t] = "write" /\ desc' = desc /\ desc[t] = Nobody
  BY DEF CmdOpParams, Goto, Base, TypeOK, RpcInv, CallInv
<1>2. reqs = <<>> /\ Quiet(out) /\ reqs' = reqs /\ out' = out
  BY <1>1, NothingOwed DEF CmdOpParams, Waits, CmdHolds
<1>3. CallInv(t)'
  BY <1>1 DEF CmdOpParams, CallInv, Waits, Reads, CmdHolds
<1> QED
  BY <1>1, <1>2, <1>3, InsideStep, OtherTask DEF CmdOpParams, CmdHolds, Base, Quiet

LEMMA WriteStep ==
  ASSUME Base, RpcInv, NEW t \in Threads, CmdOpWrite(t)
  PROVE  RpcInv'
<1>1. /\ pc[t] = "write" /\ pc'[t] = "loop" /\ desc[t] = Nobody
      /\ IsCmdRespWaited /\ FunctionParams = t
      /\ UNCHANGED <<desc, IsCmdRespWaited, FunctionParams, out, rx, spc>>
  BY DEF CmdOpWrite, Goto, Base, TypeOK, RpcInv, CallInv, CmdHolds
<1>2. reqs = <<>> /\ Quiet(out)
  BY <1>1, NothingOwed DEF Waits, CmdHolds
<1>3. Len(reqs') = 1 /\ reqs'[1].by = t
  <2> DEFINE r == [by |-> t, relayed |-> RelayFlagsViaRxPayload]
  <2>1. reqs' = Append(<<>>, r) /\ r.by = t
    BY <1>1, <1>2 DEF CmdOpWrite, MsgWrite
  <2> HIDE DEF r
  <2>2. reqs' = <<r>>
    BY <2>1
  <2> QED
    BY <2>1, <2>2
<1>4. Owed(t)'
  BY <1>1, <1>2, <1>3 DEF Owed, Reads, Quiet, IsEvent
<1>5. CallInv(t)' /\ Waits(t)'
  BY <1>1, <1>4 DEF CallInv, Waits, Reads, CmdHolds
<1> QED
  BY <1>1, <1>5, InsideStep, OtherTask DEF CmdOpWrite, CmdHolds, Base

\* The steps of the loop that move no message.
LEMMA LoopStep ==
  ASSUME Base, RpcInv, NEW t \in Threads,
         CmdCtxLeave(t) \/ CmdCtxGoWait(t) \/ CmdCtxWake(t) \/ CmdCtxDone(t) \/ CmdCtxClear(t)
  PROVE  RpcInv'
<1> USE DEF CmdCtxLeave, CmdCtxGoWait, CmdCtxWake, CmdCtxDone, CmdCtxClear, Goto
<1>1. UNCHANGED <<spc, desc, IsCmdRespWaited, FunctionParams, rx, reqs, out>>
  OBVIOUS
<1>2. \A u \in Threads : u # t => pc'[u] = pc[u]
  BY DEF Base, TypeOK
<1>3. \/ pc[t] = "loop" /\ pc'[t] = "unlock" /\ ~ IsCmdRespWaited
      \/ pc[t] = "loop" /\ pc'[t] = "wait" /\ IsCmdRespWaited
      \/ pc[t] = "wait" /\ pc'[t] = "loop"
      \/ pc[t] = "done" /\ pc'[t] = "class"
      \/ pc[t] = "clear" /\ pc'[t] = "loop"
  BY DEF Base, TypeOK
<1> HIDE DEF CmdCtxLeave, CmdCtxGoWait, CmdCtxWake, CmdCtxDone, CmdCtxClear, Goto
<1>4. (Reads(t)' <=> Reads(t)) /\ (Waits(t)' <=> Waits(t)) /\ (IsEvent(rx)' <=> IsEvent(rx))
  BY <1>1, <1>3 DEF Reads, Waits, IsResponse, IsEvent, RpcInv, CallInv
<1>5. Owed(t)' <=> Owed(t)
  BY <1>1, <1>4 DEF Owed, Quiet, Carries, IsEvent, IsResponse
<1>6. CallInv(t)'
  <2>1. CallInv(t)
    BY DEF RpcInv
  <2>2. CASE Waits(t)
    BY <1>1, <1>3, <1>4, <1>5, <2>1, <2>2 DEF CallInv, Waits, CmdHolds
  <2>3. CASE ~ Waits(t)
    BY <1>1, <1>3, <1>4, <2>1, <2>3 DEF CallInv, Waits, CmdHolds
  <2> QED
    BY <2>2, <2>3
<1>7. pc[t] \in CmdHolds
  BY <1>3 DEF CmdHolds
<1>8. Waits(t)' \/ (reqs' = <<>> /\ Quiet(out'))
  BY <1>1, <1>4, <1>7, NothingOwed
<1> QED
  BY <1>1, <1>2, <1>6, <1>7, <1>8, InsideStep

LEMMA ReadStep ==
  ASSUME Base, RpcInv, NEW t \in Threads, CmdCtxRead(t)
  PROVE  RpcInv'
<1>1. /\ pc[t] = "loop" /\ pc'[t] = "done" /\ IsCmdRespWaited
      /\ out # <<>> /\ rx' = Head(out) /\ out' = Tail(out)
      /\ desc' = IF Head(out).class = "CMD" /\ FunctionParams \in Threads
                 THEN [desc EXCEPT ![FunctionParams] = Head(out).to]
                 ELSE desc
      /\ UNCHANGED <<spc, IsCmdRespWaited, FunctionParams, reqs>>
  BY DEF CmdCtxRead, MsgRead, Goto, Base, TypeOK
<1>2. /\ FunctionParams = t /\ Waits(t) /\ ~ Reads(t) /\ desc[t] = Nobody /\ Owed(t)
      /\ out \in Seq(Message) /\ desc \in [Threads -> Threads \cup {Nobody}]
  BY <1>1 DEF RpcInv, CallInv, Waits, Reads, Base, TypeOK, CmdHolds
<1>3. \/ IsEvent(Head(out)) /\ desc' = desc /\ ~ Reads(t)'
         /\ \/ Len(reqs) = 1 /\ reqs[1].by = t /\ Quiet(out')
            \/ reqs = <<>> /\ Carries(out', t)
      \/ IsResponse(Head(out), t) /\ desc'[t] = t /\ Reads(t)' /\ reqs = <<>> /\ Quiet(out')
  <2>1. CASE Quiet(out)
    <3>1. IsEvent(Head(out)) /\ Quiet(out')
      BY <1>1, <1>2, <2>1, TailQuiet
    <3> QED
      BY <1>1, <1>2, <2>1, <3>1 DEF Owed, Carries, Quiet, IsEvent, IsResponse, Reads
  <2>2. CASE reqs = <<>> /\ Carries(out, t)
    <3>1. \/ IsResponse(Head(out), t) /\ Quiet(out')
          \/ IsEvent(Head(out)) /\ Carries(out', t)
      BY <1>1, <1>2, <2>2, TailCarries
    <3> QED
      BY <1>1, <1>2, <2>2, <3>1 DEF IsEvent, IsResponse, Reads
  <2> QED
    BY <1>2, <2>1, <2>2 DEF Owed
<1>4. Waits(t)' /\ Owed(t)' /\ desc'[t] = (IF Reads(t)' THEN t ELSE Nobody)
  BY <1>1, <1>2, <1>3 DEF Waits, Owed, Quiet, Carries, IsEvent, IsResponse
<1>5. ~ Reads(t)' => IsEvent(rx')
  BY <1>1, <1>3
<1>6. CallInv(t)'
  BY <1>1, <1>2, <1>4, <1>5 DEF CallInv, IsEvent, CmdHolds
<1>7. \A u \in Threads : u # t => pc'[u] = pc[u] /\ desc'[u] = desc[u]
  BY <1>1, <1>2, OtherTask DEF CmdCtxRead, Base
<1> QED
  BY <1>1, <1>4, <1>6, <1>7, InsideStep DEF CmdHolds

LEMMA ResponseStep ==
  ASSUME Base, RpcInv, NEW t \in Threads, CmdCtxResponse(t)
  PROVE  RpcInv'
<1>1. /\ pc[t] = "class" /\ pc'[t] = "clear" /\ rx.class = "CMD" /\ ~ IsCmdRespWaited'
      /\ UNCHANGED <<spc, desc, FunctionParams, rx, reqs, out>>
  BY DEF CmdCtxResponse, Goto, Base, TypeOK
<1>2. CallInv(t) /\ Waits(t)
  BY <1>1 DEF RpcInv, CallInv, Waits
<1>3. Reads(t) /\ desc[t] = t /\ reqs = <<>> /\ Quiet(out)
  BY <1>1, <1>2 DEF CallInv, Owed, IsEvent
<1>4. CallInv(t)'
  BY <1>1, <1>2, <1>3 DEF CallInv, Waits, CmdHolds
<1> QED
  BY <1>1, <1>3, <1>4, InsideStep, OtherTask DEF CmdCtxResponse, CmdHolds, Base, Quiet

LEMMA EventStep ==
  ASSUME Base, RpcInv, NEW t \in Threads, CmdCtxEvent(t)
  PROVE  RpcInv'
<1>1. /\ pc[t] = "class" /\ pc'[t] = "loop" /\ rx.class # "CMD"
      /\ UNCHANGED <<spc, desc, rx, out>>
  BY DEF CmdCtxEvent, Goto, Base, TypeOK
<1>2. CallInv(t) /\ Waits(t) /\ ~ Reads(t) /\ ~ Reads(t)'
  BY <1>1 DEF RpcInv, CallInv, Waits, Reads, IsResponse
<1>3. UNCHANGED <<IsCmdRespWaited, FunctionParams, reqs>>
  BY <1>1, <1>2 DEF CallInv, IsEvent, CmdCtxEvent, HandleEvent
<1>4. Waits(t)' /\ (Owed(t)' <=> Owed(t))
  BY <1>1, <1>2, <1>3 DEF Waits, Owed, Quiet, Carries, IsEvent, IsResponse
<1>5. CallInv(t)'
  BY <1>1, <1>2, <1>3, <1>4 DEF CallInv, Waits, CmdHolds
<1> QED
  BY <1>1, <1>4, <1>5, InsideStep, OtherTask DEF CmdCtxEvent, CmdHolds, Base

-------------------------------------------------------------------------------
(* The steps of the spawn task and of the processor *)

LEMMA SpawnStep ==
  ASSUME Base, RpcInv, SpawnCtx
  PROVE  RpcInv'
<1>1. CASE SpawnReceive \/ SpawnLock \/ SpawnNothing \/ SpawnUnlock \/ SpawnDone
  <2>1. UNCHANGED <<pc, desc, IsCmdRespWaited, FunctionParams, reqs, out, rx>>
    BY <1>1 DEF SpawnReceive, SpawnLock, SpawnNothing, SpawnUnlock, SpawnDone
  <2>2. SpawnReadsEvents'
    BY <1>1, <2>1 DEF SpawnReceive, SpawnLock, SpawnNothing, SpawnUnlock, SpawnDone, SpawnGoto,
       RpcInv, SpawnReadsEvents, IsEvent
  <2>3. \A t \in Threads : CallInv(t)' /\ (Waits(t)' <=> Waits(t))
    BY <2>1, CallFrame DEF RpcInv
  <2>4. Idle'
    BY <2>1, <2>3 DEF RpcInv, Idle, Quiet, IsEvent
  <2> QED
    BY <2>2, <2>3, <2>4 DEF RpcInv
<1>2. CASE SpawnRead
  <2>1. /\ spc \in SpawnHolds /\ spc' = "done"
        /\ out # <<>> /\ rx' = Head(out) /\ out' = Tail(out)
        /\ UNCHANGED <<pc, reqs>>
    BY <1>2 DEF SpawnRead, SpawnGoto, MsgRead, SpawnHolds
  <2>2. \A t \in Threads : pc[t] \notin CmdHolds
    BY <2>1, AloneSpawn DEF Base
  <2>3. reqs = <<>> /\ Quiet(out)
    BY <2>2, Outside DEF RpcInv, Idle
  <2>4. IsEvent(Head(out)) /\ Quiet(Tail(out))
    BY <2>1, <2>3, TailQuiet DEF Base, TypeOK
  <2>5. desc' = desc
    BY <1>2, <2>4 DEF SpawnRead, MsgRead, IsEvent
  <2>6. \A t \in Threads : CallInv(t)'
    BY <2>1, <2>2, <2>5, OutsideFrame DEF RpcInv
  <2> QED
    BY <2>1, <2>3, <2>4, <2>6 DEF RpcInv, Idle, SpawnReadsEvents, IsEvent, Quiet
<1>3. CASE SpawnMessage
  <2>1. spc = "class" /\ spc' = "unlock" /\ IsEvent(rx)
    BY <1>3 DEF SpawnMessage, RpcInv, SpawnReadsEvents, IsEvent
  <2>2. UNCHANGED <<pc, desc, IsCmdRespWaited, FunctionParams, reqs, out, rx>>
    BY <1>3, <2>1 DEF SpawnMessage, HandleEvent, IsEvent
  <2>3. \A t \in Threads : CallInv(t)' /\ (Waits(t)' <=> Waits(t))
    BY <2>2, CallFrame DEF RpcInv
  <2>4. Idle'
    BY <2>2, <2>3 DEF RpcInv, Idle, Quiet, IsEvent
  <2> QED
    BY <2>1, <2>3, <2>4 DEF RpcInv, SpawnReadsEvents
<1> QED
  BY <1>1, <1>2, <1>3 DEF SpawnCtx

\* When something is owed to t, t owns the lock.
LEMMA OwnerOnly ==
  ASSUME Base, NEW t \in Threads, Waits(t)
  PROVE  pc[t] \in CmdHolds /\ \A u \in Threads : u # t => pc[u] \notin CmdHolds
<1>1. pc[t] \in CmdHolds
  BY DEF Waits, CmdHolds
<1> QED
  BY <1>1, AloneCmd DEF Base

LEMMA ExecuteStep ==
  ASSUME Base, RpcInv, NwpExecute
  PROVE  RpcInv'
<1>1. reqs # <<>> /\ reqs' = Tail(reqs) /\ reqs \in Seq(Request) /\ out \in Seq(Message)
  BY DEF NwpExecute, Base, TypeOK
<1>2. UNCHANGED <<pc, spc, IsCmdRespWaited, FunctionParams, rx, desc>>
  BY DEF NwpExecute, hostVars
<1>3. PICK t \in Threads : Waits(t)
  BY <1>1 DEF RpcInv, Idle
<1>4. Len(reqs) = 1 /\ reqs[1].by = t /\ Quiet(out) /\ ~ Reads(t)
  BY <1>1, <1>3 DEF RpcInv, CallInv, Owed
<1>5. Head(reqs).by = t /\ reqs' = <<>>
  BY <1>1, <1>4
<1> DEFINE m == [class |-> "CMD", to |-> t]
<1>6. m \in Message /\ IsResponse(m, t) /\ out' = Append(out, m)
  BY <1>5, DriverAssumption DEF DriverAssumption, NwpExecute, Message, IsResponse
<1> HIDE DEF m
<1>7. Carries(out', t)
  BY <1>1, <1>4, <1>6, AppendResponse
<1>8. Waits(t)' /\ (Reads(t)' <=> Reads(t)) /\ Owed(t)'
  BY <1>2, <1>3, <1>4, <1>5, <1>7 DEF Waits, Reads, Owed, Carries, IsResponse, IsEvent
<1>9. CallInv(t)'
  BY <1>2, <1>8 DEF RpcInv, CallInv, Waits, IsEvent
<1>10. \A u \in Threads : u # t => CallInv(u)'
  BY <1>2, <1>3, OwnerOnly, OutsideFrame DEF RpcInv
<1>11. SpawnReadsEvents'
  BY <1>2 DEF RpcInv, SpawnReadsEvents, IsEvent
<1> QED
  BY <1>8, <1>9, <1>10, <1>11 DEF RpcInv, Idle

LEMMA NwpEventStep ==
  ASSUME NoTokens, Base, RpcInv, NwpEvent
  PROVE  RpcInv'
<1>1. UNCHANGED <<pc, spc, IsCmdRespWaited, FunctionParams, rx, desc, reqs>>
  BY DEF NwpEvent, hostVars
<1>2. PICK c \in Events : out' = Append(out, [class |-> c, to |-> Nobody])
  BY DEF NwpEvent
<1> DEFINE m == [class |-> c, to |-> Nobody]
<1>3. m \in Message /\ IsEvent(m) /\ out' = Append(out, m) /\ out \in Seq(Message)
  BY <1>2, DriverAssumption DEF DriverAssumption, EventClasses, Message, IsEvent, NoTokens,
     Base, TypeOK
<1> HIDE DEF m
<1>4. /\ Quiet(out) => Quiet(out')
      /\ \A t \in Threads : Carries(out, t) => Carries(out', t)
  BY <1>3, AppendEvent
<1>5. ASSUME NEW t \in Threads
      PROVE  CallInv(t)' /\ (Waits(t)' <=> Waits(t))
  <2>1. (Waits(t)' <=> Waits(t)) /\ (Reads(t)' <=> Reads(t)) /\ (IsEvent(rx)' <=> IsEvent(rx))
    BY <1>1 DEF Waits, Reads, IsResponse, IsEvent
  <2>2. Owed(t) => Owed(t)'
    BY <1>1, <1>4, <2>1 DEF Owed, Quiet, Carries, IsEvent, IsResponse
  <2> QED
    BY <1>1, <2>1, <2>2 DEF RpcInv, CallInv
<1>6. Idle'
  BY <1>1, <1>4, <1>5 DEF RpcInv, Idle, Quiet, IsEvent
<1>7. SpawnReadsEvents'
  BY <1>1 DEF RpcInv, SpawnReadsEvents, IsEvent
<1> QED
  BY <1>5, <1>6, <1>7 DEF RpcInv

-------------------------------------------------------------------------------
(* The theorems *)

LEMMA InitRpcInv == Init => RpcInv
<1> SUFFICES ASSUME Init
             PROVE  RpcInv
  OBVIOUS
<1>1. Quiet(out) /\ reqs = <<>>
  BY DEF Init, Quiet
<1> QED
  BY <1>1 DEF Init, RpcInv, Idle, SpawnReadsEvents, CallInv, Waits, CmdHolds

LEMMA NextRpcInv ==
  ASSUME NoTokens, Base, RpcInv, [Next]_vars
  PROVE  RpcInv'
<1>1. CASE RxIrqHandler \/ UNCHANGED vars
  BY <1>1, QuietStep DEF RxIrqHandler, vars
<1>2. ASSUME NEW t \in Threads, CmdOpEnter(t) \/ CmdOp(t)
      PROVE  RpcInv'
  BY <1>2, EdgeStep, ParamsStep, WriteStep, LoopStep, ReadStep, ResponseStep, EventStep DEF CmdOp
<1>3. CASE SpawnCtx
  BY <1>3, SpawnStep
<1>4. CASE NwpExecute \/ NwpEvent
  BY <1>4, ExecuteStep, NwpEventStep
<1> QED
  BY <1>1, <1>2, <1>3, <1>4 DEF Next

\* While nothing asks for a token, the request or the response of the command that owns
\* the lock is in one place and nothing else is owed to anybody.
THEOREM OneResponseOwed ==
  ASSUME NoTokens
  PROVE  Spec => []RpcInv
<1>1. RpcInv /\ Base /\ [Next]_vars => RpcInv'
  BY NextRpcInv
<1>2. Spec => []Base
  BY TypeCorrect, GlobalLock, PTL DEF Base
<1> QED
  BY InitRpcInv, <1>1, <1>2, PTL DEF Spec

\* "Command response is illegal in this context" (driver.c): true as long as no token
\* is requested, whatever the interleaving of tasks, spawn task and interrupt.
THEOREM ResponsesStayHome ==
  ASSUME NoTokens
  PROVE  Spec => []NoResponseInSpawnCtx
<1>1. RpcInv => NoResponseInSpawnCtx
  BY DEF RpcInv, SpawnReadsEvents, NoResponseInSpawnCtx
<1> QED
  BY <1>1, OneResponseOwed, PTL

-------------------------------------------------------------------------------
(* The refinement *)

\* phase by where the call is and whether its response has come.
LEMMA PhaseOf ==
  ASSUME Base, NEW t \in Threads
  PROVE  /\ pc[t] \in {"idle", "check"} => phase[t] = "idle"
         /\ pc[t] = "lock" => phase[t] = "calling"
         /\ pc[t] \in CmdHolds => phase[t] = IF desc[t] = t THEN "answered" ELSE "executing"
         /\ Rpc!InService(t) <=> pc[t] \in CmdHolds
<1>1. pc[t] \in {"idle", "check", "lock"} \/ pc[t] \in CmdHolds
  BY DEF Base, TypeOK, PCs, CmdHolds
<1> QED
  BY <1>1 DEF phase, Rpc!InService, CmdHolds

LEMMA PhaseFrame ==
  ASSUME NEW t \in Threads, pc'[t] = pc[t], desc'[t] = desc[t]
  PROVE  phase'[t] = phase[t]
BY DEF phase

LEMMA PhaseFunction ==
  /\ phase = [t \in Threads |-> phase[t]]
  /\ phase' = [t \in Threads |-> phase'[t]]
BY DEF phase

\* A step that changes the phase of one task, or of none.
LEMMA OnePhase ==
  ASSUME NEW t \in Threads, NEW p, phase'[t] = p,
         \A u \in Threads : u # t => phase'[u] = phase[u]
  PROVE  phase' = [phase EXCEPT ![t] = p]
<1> DEFINE f == [phase EXCEPT ![t] = p]
<1>1. f = [u \in Threads |-> IF u = t THEN p ELSE phase[u]]
  BY PhaseFunction
<1>2. \A u \in Threads : f[u] = phase'[u]
  BY <1>1
<1>3. f = [u \in Threads |-> f[u]]
  BY <1>1
<1> HIDE DEF f
<1>4. f = phase'
  BY <1>2, <1>3, PhaseFunction
<1> QED
  BY <1>4 DEF f

LEMMA NoPhase ==
  ASSUME \A u \in Threads : phase'[u] = phase[u]
  PROVE  UNCHANGED phase
BY PhaseFunction

LEMMA CmdRefines ==
  ASSUME Base, Base', RpcInv, RpcInv', NEW t \in Threads, CmdOpEnter(t) \/ CmdOp(t)
  PROVE  [Rpc!Next]_phase
<1>1. ASSUME NEW u \in Threads, u # t
      PROVE  phase'[u] = phase[u]
  <2>1. pc'[u] = pc[u]
    BY <1>1 DEF Base, TypeOK, CmdOp, CmdOpEnter, CmdOpLock, CmdOpParams, CmdOpWrite, CmdCtxLeave,
       CmdCtxRead, CmdCtxGoWait, CmdCtxWake, CmdCtxDone, CmdCtxResponse, CmdCtxClear, CmdCtxEvent,
       CmdCtxUnlock, CmdCtxReturn, Goto
  <2>2. desc'[u] = desc[u]
    <3>1. CASE CmdCtxRead(t)
      <4>1. FunctionParams = t
        BY <3>1 DEF CmdCtxRead, Goto, RpcInv, CallInv, CmdHolds
      <4> QED
        BY <1>1, <3>1, <4>1 DEF CmdCtxRead, MsgRead, Base, TypeOK
    <3>2. CASE ~ CmdCtxRead(t)
      BY <1>1, <3>2 DEF Base, TypeOK, CmdOp, CmdOpEnter, CmdOpLock, CmdOpParams, CmdOpWrite,
         CmdCtxLeave, CmdCtxGoWait, CmdCtxWake, CmdCtxDone, CmdCtxResponse, CmdCtxClear,
         CmdCtxEvent, CmdCtxUnlock, CmdCtxReturn
    <3> QED
      BY <3>1, <3>2
  <2> QED
    BY <2>1, <2>2, PhaseFrame
<1>2. CASE CmdOpEnter(t)
  <2>1. phase[t] = "idle" /\ phase'[t] = "calling"
    BY <1>2, PhaseOf DEF CmdOpEnter, Goto, Base, TypeOK, phase
  <2> QED
    BY <1>1, <2>1, OnePhase DEF Rpc!Next, Rpc!Issue
<1>3. CASE CmdOpLock(t)
  <2>1. pc[t] = "lock" /\ pc'[t] = "params" /\ desc'[t] = Nobody
    BY <1>3 DEF CmdOpLock, Goto, Base, TypeOK, RpcInv, CallInv
  <2>2. phase[t] = "calling" /\ phase'[t] = "executing"
    BY <2>1, DriverAssumption DEF DriverAssumption, phase
  <2>3. \A u \in Threads : pc[u] \notin CmdHolds
    BY <1>3, DriverAssumption DEF DriverAssumption, CmdOpLock, Lock, Base, MutualExclusion
  <2>4. \A u \in Threads : ~ Rpc!InService(u)
    BY <2>3, PhaseOf
  <2> QED
    BY <1>1, <2>2, <2>4, OnePhase DEF Rpc!Next, Rpc!Execute
<1>4. CASE CmdCtxRead(t)
  <2>1. /\ pc[t] = "loop" /\ pc'[t] = "done" /\ desc[t] = Nobody
        /\ desc'[t] \in {t, Nobody}
    <3>1. Waits(t) /\ ~ Reads(t) /\ Waits(t)' /\ pc[t] = "loop" /\ pc'[t] = "done"
      BY <1>4 DEF CmdCtxRead, Goto, Base, TypeOK, Waits, Reads
    <3> QED
      BY <3>1 DEF RpcInv, CallInv
  <2>2. phase[t] = "executing" /\ phase'[t] \in {"executing", "answered"}
    BY <2>1, DriverAssumption DEF DriverAssumption, phase
  <2>3. CASE phase'[t] = "executing"
    BY <1>1, <2>2, <2>3, NoPhase
  <2>4. CASE phase'[t] = "answered"
    BY <1>1, <2>2, <2>4, OnePhase DEF Rpc!Next, Rpc!Answer
  <2> QED
    BY <2>2, <2>3, <2>4
<1>5. CASE CmdCtxUnlock(t)
  <2>1. pc[t] = "unlock" /\ pc'[t] = "check" /\ desc[t] = t
    BY <1>5 DEF CmdCtxUnlock, Goto, Base, TypeOK, RpcInv, CallInv
  <2>2. phase[t] = "answered" /\ phase'[t] = "idle"
    BY <2>1 DEF phase
  <2> QED
    BY <1>1, <2>2, OnePhase DEF Rpc!Next, Rpc!Return
<1>6. CASE CmdCtxReturn(t)
  <2>1. phase'[t] = phase[t]
    BY <1>6 DEF CmdCtxReturn, Goto, Base, TypeOK, phase
  <2> QED
    BY <1>1, <2>1, NoPhase
<1>7. CASE \/ CmdOpParams(t) \/ CmdOpWrite(t) \/ CmdCtxLeave(t) \/ CmdCtxGoWait(t) \/ CmdCtxWake(t)
          \/ CmdCtxDone(t) \/ CmdCtxResponse(t) \/ CmdCtxClear(t) \/ CmdCtxEvent(t)
  <2>1. desc' = desc /\ pc[t] \in CmdHolds /\ pc'[t] \in CmdHolds
    BY <1>7 DEF CmdOpParams, CmdOpWrite, CmdCtxLeave, CmdCtxGoWait, CmdCtxWake, CmdCtxDone,
       CmdCtxResponse, CmdCtxClear, CmdCtxEvent, Goto, CmdHolds, Base, TypeOK
  <2>2. phase'[t] = phase[t]
    BY <2>1 DEF phase, CmdHolds
  <2> QED
    BY <1>1, <2>2, NoPhase
<1> QED
  BY <1>2, <1>3, <1>4, <1>5, <1>6, <1>7 DEF CmdOp

LEMMA OthersRefine ==
  ASSUME Base, RpcInv, RxIrqHandler \/ SpawnCtx \/ NwpExecute \/ NwpEvent \/ UNCHANGED vars
  PROVE  UNCHANGED phase
<1>1. UNCHANGED pc
  BY DEF RxIrqHandler, SpawnCtx, SpawnReceive, SpawnLock, SpawnNothing, SpawnRead, SpawnDone,
     SpawnMessage, SpawnUnlock, NwpExecute, NwpEvent, hostVars, vars
<1>2. UNCHANGED desc
  <2>1. CASE SpawnRead
    <3>1. spc \in SpawnHolds /\ out # <<>>
      BY <2>1 DEF SpawnRead, SpawnGoto, MsgRead, SpawnHolds
    <3>2. \A t \in Threads : ~ Waits(t)
      BY <3>1, AloneSpawn, Outside DEF Base
    <3>3. IsEvent(Head(out))
      BY <3>1, <3>2, TailQuiet DEF RpcInv, Idle, Base, TypeOK
    <3> QED
      BY <2>1, <3>3 DEF SpawnRead, MsgRead, IsEvent
  <2>2. CASE ~ SpawnRead
    BY <2>2 DEF RxIrqHandler, SpawnCtx, SpawnReceive, SpawnLock, SpawnNothing, SpawnDone,
       SpawnMessage, SpawnUnlock, NwpExecute, NwpEvent, hostVars, vars
  <2> QED
    BY <2>1, <2>2
<1> QED
  BY <1>1, <1>2, PhaseFrame, NoPhase

\* The driver keeps the promise of SlRpc to every task: the commands of all tasks are in
\* service one at a time, and no call returns before the response to that very command is
\* in its buffer.
THEOREM DriverImplementsRpc ==
  ASSUME NoTokens
  PROVE  Spec => Rpc!Spec
<1>1. Init => Rpc!Init
  BY DEF Init, Rpc!Init, phase
<1>2. Base /\ RpcInv /\ Base' /\ RpcInv' /\ [Next]_vars => [Rpc!Next]_phase
  BY CmdRefines, OthersRefine DEF Next
<1>3. Spec => []Base
  BY TypeCorrect, GlobalLock, PTL DEF Base
<1> QED
  BY <1>1, <1>2, <1>3, OneResponseOwed, PTL DEF Spec, Rpc!Spec

===============================================================================
