---------------------------- MODULE SlFlowContProofs ----------------------------
(***************************************************************************)
(* Proofs about SlFlowCont, for any number of tasks, sockets and buffers   *)
(* and any reserve.                                                        *)
(***************************************************************************)
EXTENDS SlFlowCont, TLAPS

-------------------------------------------------------------------------------
(* Types *)

LEMMA TypeInit == Init => TypeOK
<1> SUFFICES ASSUME Init
             PROVE  TypeOK
  OBVIOUS
<1>1. (CHOOSE s \in Sockets : TRUE) \in Sockets
  BY FlowAssumption, Zenon DEF FlowAssumption
<1>2. TxPoolCnt \in 0 .. Buffers /\ free \in 0 .. Buffers
  BY FlowAssumption DEF FlowAssumption, Init
<1>3. sd \in [Threads -> Sockets]
  BY <1>1, Zenon DEF Init
<1> QED
  BY <1>2, <1>3 DEF Init, TypeOK, PCs, RxPCs

LEMMA TypeStep ==
  ASSUME TypeOK, [Next]_vars
  PROVE  TypeOK'
<1> USE FlowAssumption DEF FlowAssumption
<1>1. ASSUME NEW t \in Threads, DataOp(t)
      PROVE  TypeOK'
  BY <1>1 DEF TypeOK, DataOp, Goto, PCs, nwpVars
<1>2. ASSUME NEW t \in Threads, TxLock(t) \/ ClearSync(t) \/ AwaitSync(t) \/ CheckCount(t)
      PROVE  TypeOK'
  BY <1>2 DEF TypeOK, TxLock, ClearSync, AwaitSync, CheckCount, Goto, PCs, nwpVars
<1>3. ASSUME NEW t \in Threads, CheckFailure(t) \/ CheckMode(t)
      PROVE  TypeOK'
  BY <1>3 DEF TypeOK, CheckFailure, CheckMode, Return, PCs, nwpVars
<1>4. ASSUME NEW t \in Threads, CheckAgain(t) \/ GlobalLock(t) \/ TxUnlock(t)
      PROVE  TypeOK'
  BY <1>4 DEF TypeOK, CheckAgain, GlobalLock, TxUnlock, Goto, PCs, nwpVars
<1>5. ASSUME NEW t \in Threads, TakeCredit(t)
      PROVE  TypeOK'
  <2>1. TxPoolCnt' \in 0 .. Buffers
    BY <1>5 DEF TypeOK, TakeCredit, Reserve
  <2> QED
    BY <1>5, <2>1 DEF TypeOK, TakeCredit, Goto, PCs, nwpVars
<1>6. ASSUME NEW t \in Threads, Send(t)
      PROVE  TypeOK'
  <2>1. free' \in 0 .. Buffers
    BY <1>6 DEF TypeOK, Send
  <2> QED
    BY <1>6, <2>1 DEF TypeOK, Send, Return, PCs
<1>7. ASSUME RxLock \/ RxStep
      PROVE  TypeOK'
  <2>1. ASSUME NEW v \in TxPoolCnt .. free, RxCount(v)
        PROVE  TypeOK'
    <3>1. TxPoolCnt' \in 0 .. Buffers
      BY <2>1 DEF TypeOK, RxCount
    <3> QED
      BY <2>1, <3>1 DEF TypeOK, RxCount, RxGoto, RxPCs, taskVars, nwpVars
  <2>2. CASE RxLock \/ RxInitComplete \/ RxFlags \/ RxUnlock
    BY <2>2 DEF TypeOK, RxLock, RxInitComplete, RxFlags, RxUnlock, RxGoto, RxPCs,
                taskVars, nwpVars
  <2>3. CASE RxSignal
    <3>1. TxSyncObj' \in BOOLEAN
      BY <2>3 DEF RxSignal
    <3> QED
      BY <2>3, <3>1 DEF TypeOK, RxSignal, RxGoto, RxPCs, taskVars, nwpVars
  <2> QED
    BY <1>7, <2>1, <2>2, <2>3 DEF RxStep
<1>8. ASSUME NwpFree \/ NwpSocket
      PROVE  TypeOK'
  <2>1. CASE NwpFree
    <3>1. free' \in 0 .. Buffers
      BY <2>1 DEF TypeOK, NwpFree
    <3> QED
      BY <2>1, <3>1 DEF TypeOK, NwpFree, taskVars
  <2>2. CASE NwpSocket
    <3>1. failed' \subseteq Sockets
      BY <2>2 DEF TypeOK, NwpSocket
    <3> QED
      BY <2>2, <3>1 DEF TypeOK, NwpSocket, taskVars
  <2> QED
    BY <1>8, <2>1, <2>2
<1>9. CASE UNCHANGED vars
  BY <1>9 DEF TypeOK, vars, taskVars, nwpVars
<1> QED
  BY <1>1, <1>2, <1>3, <1>4, <1>5, <1>6, <1>7, <1>8, <1>9
  DEF Next, TaskStep, DataStep

\* The control block keeps its types; in particular TxPoolCnt, which the code
\* holds in eight bits without sign, never goes below zero.
THEOREM TypeCorrect == Spec => []TypeOK
<1>1. TypeOK /\ [Next]_vars => TypeOK'
  BY TypeStep
<1> QED
  BY TypeInit, <1>1, PTL DEF Spec
-------------------------------------------------------------------------------
(* Locks *)

LEMMA LocksInit == Init => LocksHeld
BY FlowAssumption DEF FlowAssumption, Init, LocksHeld, HoldsTx, HoldsGlobal

LEMMA LocksStep ==
  ASSUME TypeOK, LocksHeld, [Next]_vars
  PROVE  LocksHeld'
<1> USE FlowAssumption DEF FlowAssumption, LocksHeld, HoldsTx, HoldsGlobal
<1>1. ASSUME NEW t \in Threads, DataOp(t) \/ ClearSync(t) \/ CheckCount(t) \/ AwaitSync(t)
                                \/ TakeCredit(t)
      PROVE  LocksHeld'
  BY <1>1 DEF TypeOK, DataOp, ClearSync, CheckCount, AwaitSync, TakeCredit, Goto
<1>2. ASSUME NEW t \in Threads, TxLock(t) \/ GlobalLock(t) \/ TxUnlock(t)
      PROVE  LocksHeld'
  BY <1>2 DEF TypeOK, TxLock, GlobalLock, TxUnlock, Goto
<1>3. ASSUME NEW t \in Threads, CheckFailure(t) \/ CheckMode(t) \/ CheckAgain(t) \/ Send(t)
      PROVE  LocksHeld'
  BY <1>3 DEF TypeOK, CheckFailure, CheckMode, CheckAgain, Send, Return
<1>4. ASSUME RxLock \/ RxStep
      PROVE  LocksHeld'
  BY <1>4 DEF TypeOK, RxLock, RxStep, RxCount, RxInitComplete, RxFlags, RxSignal, RxUnlock,
              RxGoto, RxPCs, taskVars
<1>5. CASE NwpFree \/ NwpSocket \/ UNCHANGED vars
  BY <1>5 DEF NwpFree, NwpSocket, vars, taskVars
<1> QED
  BY <1>1, <1>2, <1>3, <1>4, <1>5 DEF Next, TaskStep, DataStep

\* The two locks are held by the tasks that are between their lock and unlock
\* calls, and by no other: TxLockObj is still held while the global lock is
\* waited for, and released first.
THEOREM LocksNest == Spec => []LocksHeld
<1>1. TypeOK /\ LocksHeld /\ [Next]_vars => LocksHeld'
  BY LocksStep
<1> QED
  BY TypeCorrect, LocksInit, <1>1, PTL DEF Spec
-------------------------------------------------------------------------------
(* Credit *)

LEMMA CreditInit == Init => NoOvercommit /\ CreditHeld /\ SignalMeansCredit
BY FlowAssumption DEF FlowAssumption, Init, NoOvercommit, Sending, CreditHeld,
                      SignalMeansCredit

\* What the locks exclude: another task in a phase that needs the same lock.
LEMMA OneHolder ==
  ASSUME LocksHeld, NEW t \in Threads, NEW u \in Threads, t # u
  PROVE  /\ ~ (pc[t] \in HoldsTx /\ pc[u] \in HoldsTx)
         /\ ~ (pc[t] \in HoldsGlobal /\ pc[u] \in HoldsGlobal)
BY DEF LocksHeld

\* No message is being written while the receive context has the global lock.
LEMMA RxExcludesSending ==
  ASSUME LocksHeld, rxpc # "idle"
  PROVE  ~ Sending
BY FlowAssumption DEF FlowAssumption, LocksHeld, HoldsGlobal, Sending

LEMMA OvercommitStep ==
  ASSUME TypeOK, FlowInv, [Next]_vars
  PROVE  NoOvercommit'
<1> USE DEF FlowInv
<1>1. TxPoolCnt \in Nat /\ free \in Nat /\ Buffers \in Nat
  BY FlowAssumption DEF FlowAssumption, TypeOK
<1>2. ASSUME NEW t \in Threads, TakeCredit(t)
      PROVE  NoOvercommit'
  <2>1. ~ Sending
    BY <1>2, OneHolder DEF TakeCredit, Goto, Sending, HoldsGlobal
  <2>2. TxPoolCnt' = TxPoolCnt - 1 /\ free' = free
    BY <1>2 DEF TakeCredit, nwpVars
  <2> QED
    BY <1>1, <2>1, <2>2 DEF NoOvercommit
<1>3. ASSUME NEW t \in Threads, Send(t)
      PROVE  NoOvercommit'
  <2>1. Sending
    BY <1>3 DEF Send, Sending
  <2>2. ~ Sending'
    BY <1>3, OneHolder DEF Send, Return, Sending, HoldsGlobal, TypeOK
  <2>3. free' = free - 1 /\ TxPoolCnt' = TxPoolCnt
    BY <1>1, <1>3, <2>1 DEF Send, NoOvercommit
  <2> QED
    BY <1>1, <2>1, <2>2, <2>3 DEF NoOvercommit
<1>4. ASSUME NEW v \in TxPoolCnt .. free, RxCount(v)
      PROVE  NoOvercommit'
  <2>1. ~ Sending'
    BY <1>4, RxExcludesSending DEF RxCount, RxGoto, Sending, taskVars
  <2>2. TxPoolCnt' = v /\ free' = free
    BY <1>4 DEF RxCount, nwpVars
  <2> QED
    BY <1>1, <2>1, <2>2 DEF NoOvercommit
<1>5. CASE NwpFree
  BY <1>1, <1>5 DEF NwpFree, NoOvercommit, Sending, taskVars
<1>6. ASSUME NEW t \in Threads,
             \/ DataOp(t) \/ TxLock(t) \/ GlobalLock(t) \/ ClearSync(t) \/ CheckFailure(t)
             \/ CheckCount(t) \/ CheckMode(t) \/ AwaitSync(t) \/ CheckAgain(t) \/ TxUnlock(t)
      PROVE  NoOvercommit'
  <2>1. UNCHANGED <<TxPoolCnt, free>>
    BY <1>6 DEF DataOp, TxLock, GlobalLock, ClearSync, CheckFailure, CheckCount, CheckMode,
                AwaitSync, CheckAgain, TxUnlock, nwpVars
  <2>2. Sending' => Sending
    BY <1>6 DEF DataOp, TxLock, GlobalLock, ClearSync, CheckFailure, CheckCount, CheckMode,
                AwaitSync, CheckAgain, TxUnlock, Goto, Return, Sending, TypeOK
  <2> QED
    BY <1>1, <2>1, <2>2 DEF NoOvercommit
<1>7. CASE RxLock \/ RxInitComplete \/ RxFlags \/ RxSignal \/ RxUnlock \/ NwpSocket \/ UNCHANGED vars
  <2>1. UNCHANGED <<TxPoolCnt, free, pc>>
    BY <1>7 DEF RxLock, RxInitComplete, RxFlags, RxSignal, RxUnlock, NwpSocket, vars,
                taskVars, nwpVars
  <2> QED
    BY <2>1 DEF NoOvercommit, Sending
<1> QED
  BY <1>2, <1>3, <1>4, <1>5, <1>6, <1>7 DEF Next, TaskStep, DataStep, RxStep

LEMMA CreditStep ==
  ASSUME TypeOK, FlowInv, [Next]_vars
  PROVE  CreditHeld'
<1> USE DEF FlowInv
<1>1. TxPoolCnt \in Nat /\ FLOW_CONT_MIN \in Nat
  BY FlowAssumption DEF FlowAssumption, TypeOK
<1>2. \A t \in Threads : Reserve(t) \in Nat
  BY <1>1 DEF Reserve
<1>3. ASSUME NEW t \in Threads, TakeCredit(t)
      PROVE  CreditHeld'
  <2>1. ASSUME NEW u \in Threads
        PROVE  pc'[u] \notin {"global", "take"}
    BY <1>3, OneHolder DEF TakeCredit, Goto, HoldsTx, TypeOK
  <2> QED
    BY <2>1 DEF CreditHeld
<1>4. ASSUME NEW t \in Threads, CheckCount(t) \/ AwaitSync(t) \/ CheckAgain(t)
      PROVE  CreditHeld'
  <2>1. UNCHANGED <<op, TxPoolCnt>>
    BY <1>4 DEF CheckCount, AwaitSync, CheckAgain
  <2>2. ASSUME NEW u \in Threads, u # t
        PROVE  pc'[u] = pc[u]
    BY <1>4, <2>2 DEF CheckCount, AwaitSync, CheckAgain, Goto, TypeOK
  <2>3. pc'[t] \in {"global", "take"} => TxPoolCnt > Reserve(t)
    <3>1. CASE CheckCount(t)
      BY <3>1 DEF CheckCount, TypeOK
    <3>2. CASE AwaitSync(t)
      BY <1>1, <3>2 DEF AwaitSync, Goto, TypeOK, SignalMeansCredit, Reserve
    <3>3. CASE CheckAgain(t)
      BY <1>1, <3>3 DEF CheckAgain, TypeOK, Reserve
    <3> QED
      BY <1>4, <3>1, <3>2, <3>3
  <2> QED
    BY <2>1, <2>2, <2>3 DEF CreditHeld, Reserve
<1>5. ASSUME NEW v \in TxPoolCnt .. free, RxCount(v)
      PROVE  CreditHeld'
  <2>1. v \in Nat /\ v >= TxPoolCnt
    BY <1>1, <1>5 DEF TypeOK
  <2>2. TxPoolCnt' = v /\ UNCHANGED <<pc, op>>
    BY <1>5 DEF RxCount, taskVars
  <2> QED
    BY <1>1, <1>2, <2>1, <2>2 DEF CreditHeld, Reserve
<1>6. ASSUME NEW t \in Threads,
             \/ DataOp(t) \/ TxLock(t) \/ GlobalLock(t) \/ ClearSync(t) \/ CheckFailure(t)
             \/ CheckMode(t) \/ TxUnlock(t) \/ Send(t)
      PROVE  CreditHeld'
  <2>1. TxPoolCnt' = TxPoolCnt
    BY <1>6 DEF DataOp, TxLock, GlobalLock, ClearSync, CheckFailure, CheckMode, TxUnlock, Send
  <2>2. ASSUME NEW u \in Threads, pc'[u] \in {"global", "take"}
        PROVE  pc[u] \in {"global", "take"} /\ op'[u] = op[u]
    BY <1>6, <2>2 DEF DataOp, TxLock, GlobalLock, ClearSync, CheckFailure, CheckMode,
                      TxUnlock, Send, Goto, Return, TypeOK
  <2> QED
    BY <2>1, <2>2 DEF CreditHeld, Reserve
<1>7. CASE \/ RxLock \/ RxInitComplete \/ RxFlags \/ RxSignal \/ RxUnlock
           \/ NwpFree \/ NwpSocket \/ UNCHANGED vars
  <2>1. UNCHANGED <<TxPoolCnt, pc, op>>
    BY <1>7 DEF RxLock, RxInitComplete, RxFlags, RxSignal, RxUnlock, NwpFree, NwpSocket,
                vars, taskVars
  <2> QED
    BY <2>1 DEF CreditHeld, Reserve
<1> QED
  BY <1>3, <1>4, <1>5, <1>6, <1>7 DEF Next, TaskStep, DataStep, RxStep
LEMMA SignalStep ==
  ASSUME TypeOK, FlowInv, [Next]_vars
  PROVE  SignalMeansCredit'
<1> USE DEF FlowInv
<1>1. TxPoolCnt \in Nat /\ FLOW_CONT_MIN \in Nat
  BY FlowAssumption DEF FlowAssumption, TypeOK
<1>2. ASSUME NEW t \in Threads, TakeCredit(t)
      PROVE  SignalMeansCredit'
  <2>1. ASSUME NEW u \in Threads
        PROVE  pc'[u] \notin {"fail", "count", "mode", "wait"}
    BY <1>2, OneHolder DEF TakeCredit, Goto, HoldsTx, TypeOK
  <2> QED
    BY <2>1 DEF SignalMeansCredit
<1>3. ASSUME NEW t \in Threads, ClearSync(t) \/ AwaitSync(t)
      PROVE  SignalMeansCredit'
  BY <1>3 DEF ClearSync, AwaitSync, SignalMeansCredit
<1>4. ASSUME NEW v \in TxPoolCnt .. free, RxCount(v)
      PROVE  SignalMeansCredit'
  <2>1. v \in Nat /\ v >= TxPoolCnt
    BY <1>1, <1>4 DEF TypeOK
  <2>2. TxPoolCnt' = v /\ UNCHANGED <<pc, TxSyncObj>>
    BY <1>4 DEF RxCount, taskVars
  <2> QED
    BY <1>1, <2>1, <2>2 DEF SignalMeansCredit
<1>5. CASE RxSignal
  <2>1. UNCHANGED <<pc, TxPoolCnt>>
    BY <1>5 DEF RxSignal, taskVars
  <2>2. TxSyncObj' => TxSyncObj \/ TxPoolCnt > FLOW_CONT_MIN
    BY <1>5 DEF RxSignal
  <2> QED
    BY <2>1, <2>2, Zenon DEF SignalMeansCredit
<1>6. ASSUME NEW t \in Threads,
             \/ DataOp(t) \/ TxLock(t) \/ GlobalLock(t) \/ CheckFailure(t) \/ CheckCount(t)
             \/ CheckMode(t) \/ CheckAgain(t) \/ TxUnlock(t) \/ Send(t)
      PROVE  SignalMeansCredit'
  <2>1. UNCHANGED <<TxPoolCnt, TxSyncObj>>
    BY <1>6 DEF DataOp, TxLock, GlobalLock, CheckFailure, CheckCount, CheckMode, CheckAgain,
                TxUnlock, Send
  <2>2. ASSUME NEW u \in Threads, pc'[u] \in {"fail", "count", "mode", "wait"}
        PROVE  pc[u] \in {"fail", "count", "mode", "wait"}
    BY <1>6, <2>2 DEF DataOp, TxLock, GlobalLock, CheckFailure, CheckCount, CheckMode,
                      CheckAgain, TxUnlock, Send, Goto, Return, TypeOK
  <2> QED
    BY <2>1, <2>2 DEF SignalMeansCredit
<1>7. CASE \/ RxLock \/ RxInitComplete \/ RxFlags \/ RxUnlock
           \/ NwpFree \/ NwpSocket \/ UNCHANGED vars
  <2>1. UNCHANGED <<TxPoolCnt, pc, TxSyncObj>>
    BY <1>7 DEF RxLock, RxInitComplete, RxFlags, RxUnlock, NwpFree, NwpSocket, vars, taskVars
  <2> QED
    BY <2>1 DEF SignalMeansCredit
<1> QED
  BY <1>2, <1>3, <1>4, <1>5, <1>6, <1>7 DEF Next, TaskStep, DataStep, RxStep

-------------------------------------------------------------------------------
(* The invariant and what follows from it *)

\* The inductive invariant: the locks, the pool, the credit of the tasks that
\* have passed the check, and what a signal tells the task that waits.
THEOREM FlowInvariant == Spec => []FlowInv
<1>1. Init => FlowInv
  BY LocksInit, CreditInit DEF FlowInv
<1>2. TypeOK /\ FlowInv /\ [Next]_vars => FlowInv'
  <2> SUFFICES ASSUME TypeOK, FlowInv, [Next]_vars
               PROVE  FlowInv'
    OBVIOUS
  <2>1. LocksHeld'
    BY LocksStep DEF FlowInv
  <2> QED
    BY <2>1, OvercommitStep, CreditStep, SignalStep DEF FlowInv
<1> QED
  BY TypeCorrect, <1>1, <1>2, PTL DEF Spec

\* Whatever tasks send and receive, every message the host writes finds a free
\* buffer in the processor (_SlDrvDataReadOp, _SlDrvDataWriteOp).
THEOREM EveryMessageFits == Spec => []NoOvercommit
<1>1. FlowInv => NoOvercommit
  BY DEF FlowInv
<1> QED
  BY FlowInvariant, <1>1, PTL

\* VERIFY_PROTOCOL on TxPoolCnt never fails: a task that has passed the check
\* keeps its credit until it has the global lock.
THEOREM CreditIsKept == Spec => []CreditHeld
<1>1. FlowInv => CreditHeld
  BY DEF FlowInv
<1> QED
  BY FlowInvariant, <1>1, PTL
=================================================================================
