------------------------------- MODULE SlDriver -------------------------------
(***************************************************************************)
(* The command and receive core of the SimpleLink host driver              *)
(* (simplelink/source/driver.c) on the FreeRTOS port (oslib):              *)
(*                                                                         *)
(*   - application tasks that issue commands (_SlDrvCmdOp) and wait for    *)
(*     the response in their own context (_SlDrvMsgReadCmdCtx);            *)
(*   - the host interrupt handler (_SlDrvRxIrqHandler), which announces    *)
(*     one message either to the waiting command or to the spawn task;     *)
(*   - the spawn task (vSimpleLinkSpawnTask), which runs                   *)
(*     _SlDrvMsgReadSpawnCtx once per entry of a bounded queue that drops  *)
(*     what does not fit;                                                  *)
(*   - the network processor (external): it executes requests in order and *)
(*     emits asynchronous messages at any time.                            *)
(*                                                                         *)
(* A step is what one context does between two accesses that another       *)
(* context, or the interrupt, can observe.  The flow-control fields that   *)
(* _SlDrvMsgRead copies from the header are modelled in SlFlowCont, the    *)
(* object pool in SlObjPool.                                               *)
(***************************************************************************)
EXTENDS Naturals, Sequences

CONSTANTS
  Threads,       \* application tasks
  SpawnTask,     \* vSimpleLinkSpawnTask
  Nobody,        \* no task: a free lock, a message that answers no command
  RelayThreads,  \* tasks whose command passes Tx data as Rx payload (sl_FsClose)
  Events,        \* classes of message the processor sends of its own accord
  slQUEUE_SIZE,  \* entries of the spawn queue
  CntMod,        \* range of the 8-bit counters RxIrqCnt and RxDoneCnt
  MaxEvent,      \* bound: requests and messages in flight for a new event to arise
  MaxCall        \* bound: requests and messages in flight for a new call to start

EventClasses == {"ASYNC", "TOKEN", "DUMMY", "RECV"}

ASSUME DriverAssumption ==
  /\ SpawnTask \notin Threads
  /\ Nobody \notin Threads \cup {SpawnTask}
  /\ RelayThreads \subseteq Threads
  /\ Events \subseteq EventClasses
  /\ slQUEUE_SIZE \in Nat \ {0}
  /\ CntMod \in Nat /\ CntMod > 2
  /\ MaxEvent \in Nat
  /\ MaxCall \in Nat

VARIABLES
  pc,              \* where each application task is in _SlDrvCmdOp
  spc,             \* where the spawn task is in _SlDrvMsgReadSpawnCtx
  GlobalLockObj,   \* its owner
  CmdSyncObj,      \* binary semaphore: the interrupt wakes the waiting command
  IsCmdRespWaited,
  RelayFlagsViaRxPayload,
  FunctionParams,  \* whose descriptor buffer pTxRxDescBuff points to
  RxIrqCnt, RxDoneCnt,
  irqMasked,
  spawnQ,          \* entries in xSimpleLinkSpawnQueue, all _SlDrvMsgReadSpawnCtx
  rx,              \* the message last read (AsyncExt.RxMsgClass)
  desc,            \* whose command the response in each task's buffer answers
  reqs,            \* requests the processor has not executed yet
  out              \* messages the processor has for the host

hostVars == <<pc, spc, GlobalLockObj, CmdSyncObj, IsCmdRespWaited,
              RelayFlagsViaRxPayload, FunctionParams, RxIrqCnt, RxDoneCnt,
              irqMasked, spawnQ, rx, desc>>
vars == <<pc, spc, GlobalLockObj, CmdSyncObj, IsCmdRespWaited,
          RelayFlagsViaRxPayload, FunctionParams, RxIrqCnt, RxDoneCnt,
          irqMasked, spawnQ, rx, desc, reqs, out>>

Message == [class : EventClasses \cup {"CMD"}, to : Threads \cup {Nobody}]
Request == [by : Threads \cup {Nobody}, relayed : BOOLEAN]

PCs == {"idle", "lock", "params", "write", "loop", "wait", "done", "class",
        "clear", "unlock", "check"}
SpawnPCs == {"receive", "lock", "check", "done", "class", "unlock", "assert"}

(***************************************************************************)
(* Steps that hold the global lock, and those between the read of a        *)
(* message and the count of it.                                            *)
(***************************************************************************)
CmdHolds == {"params", "write", "loop", "wait", "done", "class", "clear", "unlock"}
SpawnHolds == {"check", "done", "class", "unlock", "assert"}

\* 8-bit increment.
Inc(c) == IF c + 1 = CntMod THEN 0 ELSE c + 1

\* What travels between host and processor, for the bounds.
InFlight == Len(reqs) + Len(out)

\* _SL_PENDING_RX_MSG
Pending == RxIrqCnt # RxDoneCnt

-------------------------------------------------------------------------------
(* Operating system services and the bus *)

\* (a defective variant, to confirm that ImplementsRpc can fail)
LockIgnored(task) == GlobalLockObj' = task

Lock(task) == GlobalLockObj = Nobody /\ GlobalLockObj' = task
Unlock == GlobalLockObj' = Nobody

\* (a defective variant, to confirm that TypeOK can fail)
SpawnUnbounded == spawnQ' = spawnQ + 1

\* osi_Spawn: an entry that does not fit is dropped, and the driver ignores it.
Spawn == spawnQ' = IF spawnQ < slQUEUE_SIZE THEN spawnQ + 1 ELSE spawnQ

\* _SlDrvMsgWrite on behalf of one caller: the relay mode is whatever the
\* flag says at this moment, and it is consumed.
MsgWrite(by) ==
  /\ reqs' = Append(reqs, [by |-> by, relayed |-> RelayFlagsViaRxPayload])
  /\ RelayFlagsViaRxPayload' = FALSE

\* _SlDrvMsgRead: takes the message, copies a response to the descriptor
\* buffer of FunctionParams, and unmasks the interrupt as its last act.
MsgRead ==
  /\ out # <<>>
  /\ rx' = Head(out)
  /\ out' = Tail(out)
  /\ desc' = IF Head(out).class = "CMD" /\ FunctionParams \in Threads
             THEN [desc EXCEPT ![FunctionParams] = Head(out).to]
             ELSE desc
  /\ irqMasked' = FALSE

\* _SlAsyncEventGenericHandler: the HTTP-server callback answers a token
\* request with _SlDrvCmdSend in the same context, under the caller's lock.
HandleEvent ==
  IF rx.class = "TOKEN"
  THEN /\ IsCmdRespWaited' = FALSE
       /\ FunctionParams' = Nobody
       /\ MsgWrite(Nobody)
  ELSE UNCHANGED <<IsCmdRespWaited, FunctionParams, RelayFlagsViaRxPayload, reqs>>

-------------------------------------------------------------------------------
(* Initial state: _SlDrvDriverCBInit, with the processor up and idle *)

Init ==
  /\ pc = [t \in Threads |-> "idle"]
  /\ spc = "receive"
  /\ GlobalLockObj = Nobody
  /\ CmdSyncObj = FALSE
  /\ IsCmdRespWaited = FALSE
  /\ RelayFlagsViaRxPayload = FALSE
  /\ FunctionParams = Nobody
  /\ RxIrqCnt = 0
  /\ RxDoneCnt = 0
  /\ irqMasked = FALSE
  /\ spawnQ = 0
  /\ rx = [class |-> "DUMMY", to |-> Nobody]
  /\ desc = [t \in Threads |-> Nobody]
  /\ reqs = <<>>
  /\ out = <<>>

-------------------------------------------------------------------------------
(* The host interrupt *)

\* (a defective variant, to confirm that ReadHasMessage can fail)
RxIrqHandlerUnmasked ==
  /\ ~ irqMasked
  /\ out # <<>>
  /\ RxIrqCnt' = Inc(RxIrqCnt)
  /\ IF IsCmdRespWaited
     THEN CmdSyncObj' = TRUE /\ UNCHANGED spawnQ
     ELSE Spawn /\ UNCHANGED CmdSyncObj
  /\ UNCHANGED <<irqMasked, pc, spc, GlobalLockObj, IsCmdRespWaited,
                 RelayFlagsViaRxPayload, FunctionParams, RxDoneCnt, rx, desc,
                 reqs, out>>

\* _SlDrvRxIrqHandler: runs once for the message at the head of the
\* processor's queue, and masks itself until that message has been read.
RxIrqHandler ==
  /\ ~ irqMasked
  /\ out # <<>>
  /\ irqMasked' = TRUE
  /\ RxIrqCnt' = Inc(RxIrqCnt)
  /\ IF IsCmdRespWaited
     THEN CmdSyncObj' = TRUE /\ UNCHANGED spawnQ
     ELSE Spawn /\ UNCHANGED CmdSyncObj
  /\ UNCHANGED <<pc, spc, GlobalLockObj, IsCmdRespWaited, RelayFlagsViaRxPayload,
                 FunctionParams, RxDoneCnt, rx, desc, reqs, out>>

-------------------------------------------------------------------------------
(* An application task in _SlDrvCmdOp and _SlDrvMsgReadCmdCtx *)

Goto(t, from, to) == pc[t] = from /\ pc' = [pc EXCEPT ![t] = to]

\* The call. sl_FsClose raises the relay flag before it asks for the lock.
CmdOpEnter(t) ==
  /\ Goto(t, "idle", "lock")
  /\ InFlight < MaxCall
  /\ desc' = [desc EXCEPT ![t] = Nobody]
  /\ RelayFlagsViaRxPayload' = (RelayFlagsViaRxPayload \/ t \in RelayThreads)
  /\ UNCHANGED <<spc, GlobalLockObj, CmdSyncObj, IsCmdRespWaited, FunctionParams,
                 RxIrqCnt, RxDoneCnt, irqMasked, spawnQ, rx, reqs, out>>

CmdOpLock(t) ==
  /\ Goto(t, "lock", "params")
  /\ Lock(t)
  /\ UNCHANGED <<spc, CmdSyncObj, IsCmdRespWaited, RelayFlagsViaRxPayload,
                 FunctionParams, RxIrqCnt, RxDoneCnt, irqMasked, spawnQ, rx,
                 desc, reqs, out>>

\* (a defective variant, to confirm that NoResponseInSpawnCtx can fail)
CmdOpParamsNoFlag(t) ==
  /\ Goto(t, "params", "write")
  /\ FunctionParams' = t
  /\ UNCHANGED <<IsCmdRespWaited, spc, GlobalLockObj, CmdSyncObj,
                 RelayFlagsViaRxPayload, RxIrqCnt, RxDoneCnt, irqMasked, spawnQ,
                 rx, desc, reqs, out>>

CmdOpParams(t) ==
  /\ Goto(t, "params", "write")
  /\ IsCmdRespWaited' = TRUE
  /\ FunctionParams' = t
  /\ UNCHANGED <<spc, GlobalLockObj, CmdSyncObj, RelayFlagsViaRxPayload, RxIrqCnt,
                 RxDoneCnt, irqMasked, spawnQ, rx, desc, reqs, out>>

CmdOpWrite(t) ==
  /\ Goto(t, "write", "loop")
  /\ MsgWrite(FunctionParams)
  /\ UNCHANGED <<spc, GlobalLockObj, CmdSyncObj, IsCmdRespWaited, FunctionParams,
                 RxIrqCnt, RxDoneCnt, irqMasked, spawnQ, rx, desc, out>>

\* One turn of the loop of _SlDrvMsgReadCmdCtx: leave, read, or go to wait.
CmdCtxLeave(t) ==
  /\ Goto(t, "loop", "unlock")
  /\ ~ IsCmdRespWaited
  /\ UNCHANGED <<spc, GlobalLockObj, CmdSyncObj, IsCmdRespWaited,
                 RelayFlagsViaRxPayload, FunctionParams, RxIrqCnt, RxDoneCnt,
                 irqMasked, spawnQ, rx, desc, reqs, out>>

CmdCtxRead(t) ==
  /\ Goto(t, "loop", "done")
  /\ IsCmdRespWaited
  /\ Pending
  /\ MsgRead
  /\ UNCHANGED <<spc, GlobalLockObj, CmdSyncObj, IsCmdRespWaited,
                 RelayFlagsViaRxPayload, FunctionParams, RxIrqCnt, RxDoneCnt,
                 spawnQ, reqs>>

CmdCtxGoWait(t) ==
  /\ Goto(t, "loop", "wait")
  /\ IsCmdRespWaited
  /\ ~ Pending
  /\ UNCHANGED <<spc, GlobalLockObj, CmdSyncObj, IsCmdRespWaited,
                 RelayFlagsViaRxPayload, FunctionParams, RxIrqCnt, RxDoneCnt,
                 irqMasked, spawnQ, rx, desc, reqs, out>>

CmdCtxWake(t) ==
  /\ Goto(t, "wait", "loop")
  /\ CmdSyncObj
  /\ CmdSyncObj' = FALSE
  /\ UNCHANGED <<spc, GlobalLockObj, IsCmdRespWaited, RelayFlagsViaRxPayload,
                 FunctionParams, RxIrqCnt, RxDoneCnt, irqMasked, spawnQ, rx, desc,
                 reqs, out>>

CmdCtxDone(t) ==
  /\ Goto(t, "done", "class")
  /\ RxDoneCnt' = Inc(RxDoneCnt)
  /\ UNCHANGED <<spc, GlobalLockObj, CmdSyncObj, IsCmdRespWaited,
                 RelayFlagsViaRxPayload, FunctionParams, RxIrqCnt, irqMasked,
                 spawnQ, rx, desc, reqs, out>>

\* The response ends the wait; the semaphore it may have left set is cleared
\* in a second step, and the interrupt can come between the two.
CmdCtxResponse(t) ==
  /\ Goto(t, "class", "clear")
  /\ rx.class = "CMD"
  /\ IsCmdRespWaited' = FALSE
  /\ UNCHANGED <<spc, GlobalLockObj, CmdSyncObj, RelayFlagsViaRxPayload,
                 FunctionParams, RxIrqCnt, RxDoneCnt, irqMasked, spawnQ, rx, desc,
                 reqs, out>>

CmdCtxClear(t) ==
  /\ Goto(t, "clear", "loop")
  /\ CmdSyncObj' = FALSE
  /\ UNCHANGED <<spc, GlobalLockObj, IsCmdRespWaited, RelayFlagsViaRxPayload,
                 FunctionParams, RxIrqCnt, RxDoneCnt, irqMasked, spawnQ, rx, desc,
                 reqs, out>>

CmdCtxEvent(t) ==
  /\ Goto(t, "class", "loop")
  /\ rx.class # "CMD"
  /\ HandleEvent
  /\ UNCHANGED <<spc, GlobalLockObj, CmdSyncObj, RxIrqCnt, RxDoneCnt, irqMasked,
                 spawnQ, rx, desc, out>>

CmdCtxUnlock(t) ==
  /\ Goto(t, "unlock", "check")
  /\ Unlock
  /\ UNCHANGED <<spc, CmdSyncObj, IsCmdRespWaited, RelayFlagsViaRxPayload,
                 FunctionParams, RxIrqCnt, RxDoneCnt, irqMasked, spawnQ, rx, desc,
                 reqs, out>>

\* (a defective variant, to confirm that AnnouncedHasReader and
\* AnnouncedIsRead can fail)
CmdCtxReturnUnchecked(t) ==
  /\ Goto(t, "check", "idle")
  /\ UNCHANGED <<spawnQ, spc, GlobalLockObj, CmdSyncObj, IsCmdRespWaited,
                 RelayFlagsViaRxPayload, FunctionParams, RxIrqCnt, RxDoneCnt,
                 irqMasked, rx, desc, reqs, out>>

\* After the lock is released: messages the interrupt announced to this
\* command but that it did not read are handed to the spawn task.
CmdCtxReturn(t) ==
  /\ Goto(t, "check", "idle")
  /\ IF Pending THEN Spawn ELSE UNCHANGED spawnQ
  /\ UNCHANGED <<spc, GlobalLockObj, CmdSyncObj, IsCmdRespWaited,
                 RelayFlagsViaRxPayload, FunctionParams, RxIrqCnt, RxDoneCnt,
                 irqMasked, rx, desc, reqs, out>>

CmdOp(t) ==
  \/ CmdOpLock(t) \/ CmdOpParams(t) \/ CmdOpWrite(t)
  \/ CmdCtxLeave(t) \/ CmdCtxRead(t) \/ CmdCtxGoWait(t) \/ CmdCtxWake(t)
  \/ CmdCtxDone(t) \/ CmdCtxResponse(t) \/ CmdCtxClear(t) \/ CmdCtxEvent(t)
  \/ CmdCtxUnlock(t) \/ CmdCtxReturn(t)

-------------------------------------------------------------------------------
(* The spawn task in vSimpleLinkSpawnTask and _SlDrvMsgReadSpawnCtx *)

SpawnGoto(from, to) == spc = from /\ spc' = to

SpawnReceive ==
  /\ SpawnGoto("receive", "lock")
  /\ spawnQ > 0
  /\ spawnQ' = spawnQ - 1
  /\ UNCHANGED <<pc, GlobalLockObj, CmdSyncObj, IsCmdRespWaited,
                 RelayFlagsViaRxPayload, FunctionParams, RxIrqCnt, RxDoneCnt,
                 irqMasked, rx, desc, reqs, out>>

SpawnLock ==
  /\ SpawnGoto("lock", "check")
  /\ Lock(SpawnTask)
  /\ UNCHANGED <<pc, CmdSyncObj, IsCmdRespWaited, RelayFlagsViaRxPayload,
                 FunctionParams, RxIrqCnt, RxDoneCnt, irqMasked, spawnQ, rx, desc,
                 reqs, out>>

\* The command context has read the message already: nothing to do.
SpawnNothing ==
  /\ SpawnGoto("check", "receive")
  /\ ~ Pending
  /\ Unlock
  /\ UNCHANGED <<pc, CmdSyncObj, IsCmdRespWaited, RelayFlagsViaRxPayload,
                 FunctionParams, RxIrqCnt, RxDoneCnt, irqMasked, spawnQ, rx, desc,
                 reqs, out>>

SpawnRead ==
  /\ SpawnGoto("check", "done")
  /\ Pending
  /\ MsgRead
  /\ UNCHANGED <<pc, GlobalLockObj, CmdSyncObj, IsCmdRespWaited,
                 RelayFlagsViaRxPayload, FunctionParams, RxIrqCnt, RxDoneCnt,
                 spawnQ, reqs>>

SpawnDone ==
  /\ SpawnGoto("done", "class")
  /\ RxDoneCnt' = Inc(RxDoneCnt)
  /\ UNCHANGED <<pc, GlobalLockObj, CmdSyncObj, IsCmdRespWaited,
                 RelayFlagsViaRxPayload, FunctionParams, RxIrqCnt, irqMasked,
                 spawnQ, rx, desc, reqs, out>>

\* What the message was. A response: VERIFY_PROTOCOL(0), an endless loop that
\* keeps the global lock.
SpawnMessage ==
  /\ spc = "class"
  /\ IF rx.class = "CMD"
     THEN /\ spc' = "assert"
          /\ UNCHANGED <<IsCmdRespWaited, FunctionParams, RelayFlagsViaRxPayload, reqs>>
     ELSE /\ spc' = "unlock"
          /\ HandleEvent
  /\ UNCHANGED <<pc, GlobalLockObj, CmdSyncObj, RxIrqCnt, RxDoneCnt, irqMasked,
                 spawnQ, rx, desc, out>>

SpawnUnlock ==
  /\ SpawnGoto("unlock", "receive")
  /\ Unlock
  /\ UNCHANGED <<pc, CmdSyncObj, IsCmdRespWaited, RelayFlagsViaRxPayload,
                 FunctionParams, RxIrqCnt, RxDoneCnt, irqMasked, spawnQ, rx, desc,
                 reqs, out>>

SpawnCtx ==
  \/ SpawnReceive \/ SpawnLock \/ SpawnNothing \/ SpawnRead \/ SpawnDone
  \/ SpawnMessage \/ SpawnUnlock

-------------------------------------------------------------------------------
(* The network processor (external) *)

\* It executes the oldest request and answers it; a token value is taken
\* without an answer (_SlDrvCmdSend waits for none).
NwpExecute ==
  /\ reqs # <<>>
  /\ reqs' = Tail(reqs)
  /\ out' = IF Head(reqs).by = Nobody
            THEN out
            ELSE Append(out, [class |-> "CMD", to |-> Head(reqs).by])
  /\ UNCHANGED hostVars

\* An event of its own: connection state, data received, a request of the
\* HTTP server for a token, a flow-control message.
NwpEvent ==
  /\ InFlight < MaxEvent
  /\ \E c \in Events : out' = Append(out, [class |-> c, to |-> Nobody])
  /\ UNCHANGED <<hostVars, reqs>>

-------------------------------------------------------------------------------
Next ==
  \/ RxIrqHandler
  \/ \E t \in Threads : CmdOpEnter(t) \/ CmdOp(t)
  \/ SpawnCtx
  \/ NwpExecute
  \/ NwpEvent

Spec == Init /\ [][Next]_vars

(***************************************************************************)
(* Tasks that are ready run (FreeRTOS schedules the ready tasks), the      *)
(* interrupt is taken, the processor executes what it is sent.  Nobody has *)
(* to call a command, and no event has to happen.                          *)
(***************************************************************************)
FairSpec ==
  /\ Spec
  /\ WF_vars(RxIrqHandler)
  /\ \A t \in Threads : WF_vars(CmdOp(t))
  /\ WF_vars(SpawnCtx)
  /\ WF_vars(NwpExecute)

-------------------------------------------------------------------------------
(* Properties *)

\* The variables hold what the driver's control block can hold.
TypeOK ==
  /\ pc \in [Threads -> PCs]
  /\ spc \in SpawnPCs
  /\ GlobalLockObj \in Threads \cup {SpawnTask, Nobody}
  /\ CmdSyncObj \in BOOLEAN
  /\ IsCmdRespWaited \in BOOLEAN
  /\ RelayFlagsViaRxPayload \in BOOLEAN
  /\ FunctionParams \in Threads \cup {Nobody}
  /\ RxIrqCnt \in 0 .. CntMod - 1
  /\ RxDoneCnt \in 0 .. CntMod - 1
  /\ irqMasked \in BOOLEAN
  /\ spawnQ \in 0 .. slQUEUE_SIZE
  /\ rx \in Message
  /\ desc \in [Threads -> Threads \cup {Nobody}]
  /\ reqs \in Seq(Request)
  /\ out \in Seq(Message)

\* A context reads the bus only when the processor has a message there to be
\* read: _SlDrvRxHdrRead would otherwise scan for a sync pattern that never
\* comes and run into its assertion (VERIFY_PROTOCOL on SyncCnt).
ReadHasMessage ==
  /\ \A t \in Threads : pc[t] = "loop" /\ IsCmdRespWaited /\ Pending => out # <<>>
  /\ spc = "check" /\ Pending => out # <<>>

\* The task will look at the receive counters again before it stops.
CmdWillCheck(t) ==
  \/ pc[t] \in (CmdHolds \ {"wait"}) \cup {"check"}
  \/ pc[t] = "wait" /\ CmdSyncObj

\* No announced message is stranded: while the interrupt is masked somebody
\* is bound to read the message, although the spawn queue drops entries when
\* it is full and the interrupt announces to a command that may be finishing.
AnnouncedHasReader ==
  irqMasked => \/ spawnQ > 0
               \/ spc \in {"lock", "check"}
               \/ \E t \in Threads : CmdWillCheck(t)

\* "Command response is illegal in this context": the assertion of
\* _SlDrvMsgReadSpawnCtx never fires.
NoResponseInSpawnCtx == spc # "assert"

\* Only a command that asked for it is written in relay mode, and it is
\* (driver.c: "currently used by fs_Close and sl_Send on transceiver mode").
RelayForItsCommand ==
  \A i \in DOMAIN reqs : reqs[i].relayed <=> reqs[i].by \in RelayThreads

\* Whoever is inside the driver owns the global lock, and nobody else is.
MutualExclusion ==
  /\ \A t \in Threads : pc[t] \in CmdHolds <=> GlobalLockObj = t
  /\ spc \in SpawnHolds <=> GlobalLockObj = SpawnTask

\* A message has been read but not counted yet.
Reading == spc = "done" \/ \E t \in Threads : pc[t] = "done"

\* The mask and the counters move together, although the interrupt comes in
\* again between the unmask that ends _SlDrvMsgRead and RxDoneCnt++: the
\* counters differ by the announced message, if any, plus the message being
\* read, if any, so that their 8-bit wrap never hides a message.
Handshake ==
  /\ irqMasked => out # <<>>
  /\ irqMasked /\ Reading => RxIrqCnt = Inc(Inc(RxDoneCnt))
  /\ irqMasked /\ ~ Reading => RxIrqCnt = Inc(RxDoneCnt)
  /\ ~ irqMasked /\ Reading => RxIrqCnt = Inc(RxDoneCnt)
  /\ ~ irqMasked /\ ~ Reading => RxIrqCnt = RxDoneCnt

\* While the interrupt signals the semaphore there is a command that will
\* look at it.
FlagHasCommand ==
  IsCmdRespWaited =>
    \E t \in Threads : pc[t] \in {"write", "loop", "wait", "done", "class"}

\* The inductive invariant of the receive path (beside TypeOK).
ReceiveInv == MutualExclusion /\ Handshake /\ FlagHasCommand /\ AnnouncedHasReader

\* What the interrupt announced is eventually read.
AnnouncedIsRead == irqMasked ~> ~ irqMasked

(***************************************************************************)
(* A thread's call, as its caller sees it: the answer is in its buffer     *)
(* once the response to its own command has been copied there, and the     *)
(* call is over when the global lock is released.                          *)
(***************************************************************************)
phase == [t \in Threads |->
            CASE pc[t] \in {"idle", "check"} -> "idle"
              [] pc[t] = "lock" -> "calling"
              [] OTHER -> IF desc[t] = t THEN "answered" ELSE "executing"]

Rpc == INSTANCE SlRpc

\* The driver implements the call discipline of SlRpc: one command in
\* service at a time, every call answered by the response to its own command
\* before it returns, and every command taken up eventually returns.
ImplementsRpc == Rpc!FairSpec
===============================================================================
