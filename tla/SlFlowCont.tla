------------------------------ MODULE SlFlowCont ------------------------------
(***************************************************************************)
(* Flow control of the data path (driver.c, flowcont.c).  The processor    *)
(* has a pool of buffers for what the host sends it; TxPoolCnt is what the *)
(* host believes is free.  sl_Send and sl_SendTo (_SlDrvDataWriteOp) and   *)
(* sl_Recv and sl_RecvFrom (_SlDrvDataReadOp) each take one, and a writer  *)
(* leaves the last one to the readers.  Every message from the processor   *)
(* brings a new count, read under the global lock while other tasks look   *)
(* at the count without it.                                                *)
(*                                                                         *)
(* The header of a message is assumed to count the buffers the host has    *)
(* already used: between the host's own count and what is really free.     *)
(***************************************************************************)
EXTENDS Naturals

CONSTANTS
  Threads,        \* application tasks that send and receive data
  RxCtx,          \* the context that reads a message (SlDriver)
  Nobody,         \* the owner of a free lock
  Sockets,        \* socket numbers
  NonBlocking,    \* those the application has set to non-blocking mode
  FLOW_CONT_MIN,  \* the credit that is kept in reserve
  Buffers         \* buffers of the processor

ASSUME FlowAssumption ==
  /\ RxCtx \notin Threads
  /\ Nobody \notin Threads \cup {RxCtx}
  /\ Sockets \subseteq Nat /\ Sockets # {}
  /\ NonBlocking \subseteq Sockets
  /\ FLOW_CONT_MIN \in Nat
  /\ Buffers \in Nat /\ Buffers > FLOW_CONT_MIN

VARIABLES
  pc,                 \* where each task is in its data operation
  op,                 \* "read" or "write"
  sd,                 \* its socket
  result,             \* what its last operation returned
  TxLockObj,          \* owner
  GlobalLockObj,      \* owner
  TxSyncObj,          \* binary semaphore
  TxPoolCnt,
  SocketNonBlocking, SocketTXFailure,  \* the two bitmaps, as sets of sockets
  rxpc,               \* where the receive context is
  free,               \* buffers that are free in the processor
  failed              \* sockets whose last transmission failed, in the processor

taskVars == <<pc, op, sd, result>>
nwpVars == <<free, failed>>
vars == <<taskVars, nwpVars, TxLockObj, GlobalLockObj, TxSyncObj, TxPoolCnt,
          SocketNonBlocking, SocketTXFailure, rxpc>>

PCs == {"idle", "lock", "clear", "fail", "count", "mode", "wait", "check",
        "global", "take", "unlock", "send"}
RxPCs == {"idle", "count", "flags", "signal", "unlock"}

HoldsTx == {"clear", "fail", "count", "mode", "wait", "check", "global", "take",
            "unlock"}
HoldsGlobal == {"take", "unlock", "send"}

\* What the operation of t leaves in the pool.
Reserve(t) == IF op[t] = "write" THEN FLOW_CONT_MIN + 1 ELSE FLOW_CONT_MIN

Init ==
  /\ pc = [t \in Threads |-> "idle"]
  /\ op = [t \in Threads |-> "read"]
  /\ sd = [t \in Threads |-> CHOOSE s \in Sockets : TRUE]
  /\ result = [t \in Threads |-> "none"]
  /\ TxLockObj = Nobody
  /\ GlobalLockObj = Nobody
  /\ TxSyncObj = FALSE          \* osi_SyncObjCreate: the semaphore is created empty
  /\ TxPoolCnt = FLOW_CONT_MIN
  /\ SocketNonBlocking = {}
  /\ SocketTXFailure = {}
  /\ rxpc = "idle"
  /\ free = Buffers
  /\ failed = {}

-------------------------------------------------------------------------------
(* A data operation of an application task *)

Goto(t, from, to) == pc[t] = from /\ pc' = [pc EXCEPT ![t] = to]

Return(t, r) ==
  /\ pc' = [pc EXCEPT ![t] = "idle"]
  /\ result' = [result EXCEPT ![t] = r]

DataOp(t) ==
  /\ Goto(t, "idle", "lock")
  /\ \E o \in {"read", "write"}, s \in Sockets :
       op' = [op EXCEPT ![t] = o] /\ sd' = [sd EXCEPT ![t] = s]
  /\ result' = [result EXCEPT ![t] = "none"]
  /\ UNCHANGED <<nwpVars, TxLockObj, GlobalLockObj, TxSyncObj, TxPoolCnt,
                 SocketNonBlocking, SocketTXFailure, rxpc>>

TxLock(t) ==
  /\ Goto(t, "lock", "clear")
  /\ TxLockObj = Nobody
  /\ TxLockObj' = t
  /\ UNCHANGED <<op, sd, result, nwpVars, GlobalLockObj, TxSyncObj, TxPoolCnt,
                 SocketNonBlocking, SocketTXFailure, rxpc>>

ClearSync(t) ==
  /\ Goto(t, "clear", IF op[t] = "write" THEN "fail" ELSE "count")
  /\ TxSyncObj' = FALSE
  /\ UNCHANGED <<op, sd, result, nwpVars, TxLockObj, GlobalLockObj, TxPoolCnt,
                 SocketNonBlocking, SocketTXFailure, rxpc>>

\* A writer gives up when its socket has failed.
CheckFailure(t) ==
  /\ pc[t] = "fail"
  /\ IF sd[t] \in SocketTXFailure
     THEN Return(t, "SL_SOC_ERROR") /\ TxLockObj' = Nobody
     ELSE pc' = [pc EXCEPT ![t] = "count"] /\ UNCHANGED <<result, TxLockObj>>
  /\ UNCHANGED <<op, sd, nwpVars, GlobalLockObj, TxSyncObj, TxPoolCnt,
                 SocketNonBlocking, SocketTXFailure, rxpc>>

\* The first look at the count, without the global lock.
CheckCount(t) ==
  /\ pc[t] = "count"
  /\ pc' = [pc EXCEPT ![t] =
       IF TxPoolCnt > Reserve(t) THEN (IF op[t] = "write" THEN "check" ELSE "global")
       ELSE (IF op[t] = "write" THEN "mode" ELSE "wait")]
  /\ UNCHANGED <<op, sd, result, nwpVars, TxLockObj, GlobalLockObj, TxSyncObj,
                 TxPoolCnt, SocketNonBlocking, SocketTXFailure, rxpc>>

\* SocketNonBlocking >> sd: the bit of the socket or of any above it.
CheckMode(t) ==
  /\ pc[t] = "mode"
  /\ IF \E s \in SocketNonBlocking : s >= sd[t]
     THEN Return(t, "SL_EAGAIN") /\ TxLockObj' = Nobody
     ELSE pc' = [pc EXCEPT ![t] = "wait"] /\ UNCHANGED <<result, TxLockObj>>
  /\ UNCHANGED <<op, sd, nwpVars, GlobalLockObj, TxSyncObj, TxPoolCnt,
                 SocketNonBlocking, SocketTXFailure, rxpc>>

\* The wait for a buffer, with TxLockObj held. A reader does not look again.
AwaitSync(t) ==
  /\ Goto(t, "wait", IF op[t] = "write" THEN "check" ELSE "global")
  /\ TxSyncObj
  /\ TxSyncObj' = FALSE
  /\ UNCHANGED <<op, sd, result, nwpVars, TxLockObj, GlobalLockObj, TxPoolCnt,
                 SocketNonBlocking, SocketTXFailure, rxpc>>

\* (a defective variant, to confirm that CreditHeld can fail)
WriteGoesOn(t) ==
  /\ Goto(t, "check", "global")
  /\ UNCHANGED <<op, sd, result, TxLockObj, nwpVars, GlobalLockObj, TxSyncObj,
                 TxPoolCnt, SocketNonBlocking, SocketTXFailure, rxpc>>

\* A writer looks again, and starts over when the buffer was the reserved one.
CheckAgain(t) ==
  /\ pc[t] = "check"
  /\ IF TxPoolCnt > FLOW_CONT_MIN + 1
     THEN pc' = [pc EXCEPT ![t] = "global"] /\ UNCHANGED TxLockObj
     ELSE pc' = [pc EXCEPT ![t] = "lock"] /\ TxLockObj' = Nobody
  /\ UNCHANGED <<op, sd, result, nwpVars, GlobalLockObj, TxSyncObj, TxPoolCnt,
                 SocketNonBlocking, SocketTXFailure, rxpc>>

GlobalLock(t) ==
  /\ Goto(t, "global", "take")
  /\ GlobalLockObj = Nobody
  /\ GlobalLockObj' = t
  /\ UNCHANGED <<op, sd, result, nwpVars, TxLockObj, TxSyncObj, TxPoolCnt,
                 SocketNonBlocking, SocketTXFailure, rxpc>>

\* (a defective variant, to confirm that NoOvercommit can fail)
SendUncounted(t) ==
  /\ Goto(t, "take", "unlock")
  /\ TxPoolCnt > Reserve(t)
  /\ UNCHANGED <<TxPoolCnt, op, sd, result, nwpVars, TxLockObj, GlobalLockObj,
                 TxSyncObj, SocketNonBlocking, SocketTXFailure, rxpc>>

\* VERIFY_PROTOCOL, an endless loop when it fails, then TxPoolCnt--.
TakeCredit(t) ==
  /\ Goto(t, "take", "unlock")
  /\ TxPoolCnt > Reserve(t)
  /\ TxPoolCnt' = TxPoolCnt - 1
  /\ UNCHANGED <<op, sd, result, nwpVars, TxLockObj, GlobalLockObj, TxSyncObj,
                 SocketNonBlocking, SocketTXFailure, rxpc>>

TxUnlock(t) ==
  /\ Goto(t, "unlock", "send")
  /\ TxLockObj' = Nobody
  /\ UNCHANGED <<op, sd, result, nwpVars, GlobalLockObj, TxSyncObj, TxPoolCnt,
                 SocketNonBlocking, SocketTXFailure, rxpc>>

\* _SlDrvMsgWrite puts the message in a buffer of the processor, and the global
\* lock is released.
Send(t) ==
  /\ pc[t] = "send"
  /\ Return(t, "sent")
  /\ free' = IF free > 0 THEN free - 1 ELSE free
  /\ GlobalLockObj' = Nobody
  /\ UNCHANGED <<op, sd, failed, TxLockObj, TxSyncObj, TxPoolCnt,
                 SocketNonBlocking, SocketTXFailure, rxpc>>

DataStep(t) ==
  \/ ClearSync(t) \/ CheckFailure(t) \/ CheckCount(t) \/ CheckMode(t)
  \/ AwaitSync(t) \/ CheckAgain(t) \/ TakeCredit(t) \/ TxUnlock(t) \/ Send(t)

-------------------------------------------------------------------------------
(* The receive context in _SlDrvMsgRead, under the global lock *)

RxGoto(from, to) == rxpc = from /\ rxpc' = to

RxLock ==
  /\ RxGoto("idle", "count")
  /\ GlobalLockObj = Nobody
  /\ GlobalLockObj' = RxCtx
  /\ UNCHANGED <<taskVars, nwpVars, TxLockObj, TxSyncObj, TxPoolCnt,
                 SocketNonBlocking, SocketTXFailure>>

\* (a defective variant, to confirm that TypeOK can fail)
RxCountAdds(v) ==
  /\ RxGoto("count", "flags")
  /\ TxPoolCnt' = TxPoolCnt + v
  /\ UNCHANGED <<taskVars, nwpVars, TxLockObj, GlobalLockObj, TxSyncObj,
                 SocketNonBlocking, SocketTXFailure>>

\* The header brings the count v.
RxCount(v) ==
  /\ RxGoto("count", "flags")
  /\ TxPoolCnt' = v
  /\ UNCHANGED <<taskVars, nwpVars, TxLockObj, GlobalLockObj, TxSyncObj,
                 SocketNonBlocking, SocketTXFailure>>

RxFlags ==
  /\ RxGoto("flags", "signal")
  /\ SocketNonBlocking' = NonBlocking
  /\ SocketTXFailure' = failed
  /\ UNCHANGED <<taskVars, nwpVars, TxLockObj, GlobalLockObj, TxSyncObj, TxPoolCnt>>

\* (a defective variant, to confirm that DataMovesOn can fail)
RxSignalWhenPlenty ==
  /\ RxGoto("signal", "unlock")
  /\ TxSyncObj' = (TxSyncObj \/ TxPoolCnt > Buffers)
  /\ UNCHANGED <<taskVars, nwpVars, TxLockObj, GlobalLockObj, TxPoolCnt,
                 SocketNonBlocking, SocketTXFailure>>

RxSignal ==
  /\ RxGoto("signal", "unlock")
  /\ TxSyncObj' = (TxSyncObj \/ TxPoolCnt > FLOW_CONT_MIN)
  /\ UNCHANGED <<taskVars, nwpVars, TxLockObj, GlobalLockObj, TxPoolCnt,
                 SocketNonBlocking, SocketTXFailure>>

\* SL_OPCODE_DEVICE_INITCOMPLETE: "bears no valid FlowControl info".
RxInitComplete ==
  /\ RxGoto("count", "unlock")
  /\ UNCHANGED <<taskVars, nwpVars, TxLockObj, GlobalLockObj, TxSyncObj, TxPoolCnt,
                 SocketNonBlocking, SocketTXFailure>>

RxUnlock ==
  /\ RxGoto("unlock", "idle")
  /\ GlobalLockObj' = Nobody
  /\ UNCHANGED <<taskVars, nwpVars, TxLockObj, TxSyncObj, TxPoolCnt,
                 SocketNonBlocking, SocketTXFailure>>

RxStep ==
  \/ \E v \in TxPoolCnt .. free : RxCount(v)
  \/ RxInitComplete \/ RxFlags \/ RxSignal \/ RxUnlock

-------------------------------------------------------------------------------
(* The processor (external): it sends what is in its buffers, transmissions    *)
(* fail, and sockets are closed and opened anew.                               *)

NwpFree ==
  /\ free < Buffers
  /\ free' = free + 1
  /\ UNCHANGED <<taskVars, failed, TxLockObj, GlobalLockObj, TxSyncObj, TxPoolCnt,
                 SocketNonBlocking, SocketTXFailure, rxpc>>

NwpSocket ==
  /\ \E s \in Sockets :
       failed' = IF s \in failed THEN failed \ {s} ELSE failed \cup {s}
  /\ UNCHANGED <<taskVars, free, TxLockObj, GlobalLockObj, TxSyncObj, TxPoolCnt,
                 SocketNonBlocking, SocketTXFailure, rxpc>>

-------------------------------------------------------------------------------
TaskStep(t) == DataOp(t) \/ TxLock(t) \/ GlobalLock(t) \/ DataStep(t)

Next ==
  \/ \E t \in Threads : TaskStep(t)
  \/ RxLock \/ RxStep
  \/ NwpFree \/ NwpSocket

Spec == Init /\ [][Next]_vars

(***************************************************************************)
(* Ready tasks run, and the locks are mutexes of the operating system,     *)
(* which serves the tasks that wait in turn (strong fairness).  The        *)
(* processor frees its buffers, keeps sending messages, and sooner or      *)
(* later a message counts all the buffers that are free.                   *)
(***************************************************************************)
FairSpec ==
  /\ Spec
  /\ \A t \in Threads : WF_vars(DataStep(t)) /\ SF_vars(TxLock(t)) /\ SF_vars(GlobalLock(t))
  /\ SF_vars(RxLock)
  /\ WF_vars(RxStep)
  /\ SF_vars(RxCount(free))
  /\ WF_vars(NwpFree)

-------------------------------------------------------------------------------
(* Properties *)

\* What the control block can hold.
TypeOK ==
  /\ pc \in [Threads -> PCs]
  /\ op \in [Threads -> {"read", "write"}]
  /\ sd \in [Threads -> Sockets]
  /\ result \in [Threads -> {"none", "sent", "SL_EAGAIN", "SL_SOC_ERROR"}]
  /\ TxLockObj \in Threads \cup {Nobody}
  /\ GlobalLockObj \in Threads \cup {RxCtx, Nobody}
  /\ TxSyncObj \in BOOLEAN
  /\ TxPoolCnt \in 0 .. Buffers
  /\ SocketNonBlocking \subseteq Sockets
  /\ SocketTXFailure \subseteq Sockets
  /\ rxpc \in RxPCs
  /\ free \in 0 .. Buffers
  /\ failed \subseteq Sockets

\* A buffer is taken and the message that will fill it not yet written.
Sending == \E t \in Threads : pc[t] \in {"unlock", "send"}

\* Every message finds a buffer: the host never believes in more buffers than
\* are free, the one it is about to fill counted.
NoOvercommit == TxPoolCnt + (IF Sending THEN 1 ELSE 0) <= free

\* "VERIFY_PROTOCOL(TxPoolCnt > FLOW_CONT_MIN)" of a reader and the one of a
\* writer hold, although both look at the count before they have the global
\* lock and messages with a new count are read in between, and although a
\* reader does not look again after its wait.
CreditHeld == \A t \in Threads : pc[t] \in {"global", "take"} => TxPoolCnt > Reserve(t)

\* The tasks inside hold the locks.
LocksHeld ==
  /\ \A t \in Threads : pc[t] \in HoldsTx <=> TxLockObj = t
  /\ \A t \in Threads : pc[t] \in HoldsGlobal <=> GlobalLockObj = t
  /\ rxpc # "idle" <=> GlobalLockObj = RxCtx

\* Since the task cleared the semaphore, a signal means a buffer it may take.
SignalMeansCredit ==
  \A t \in Threads :
    pc[t] \in {"fail", "count", "mode", "wait"} /\ TxSyncObj => TxPoolCnt > FLOW_CONT_MIN

\* The inductive invariant (beside TypeOK).
FlowInv == LocksHeld /\ NoOvercommit /\ CreditHeld /\ SignalMeansCredit

\* A task that waits for a buffer is not forgotten: its operation ends, or some
\* task's data moves.
DataMovesOn ==
  \A t \in Threads :
    pc[t] = "wait" ~> (pc[t] = "idle" \/ \E u \in Threads : pc[u] = "send")
===============================================================================
