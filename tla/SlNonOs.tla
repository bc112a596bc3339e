-------------------------------- MODULE SlNonOs --------------------------------
(***************************************************************************)
(* The host driver without an operating system                             *)
(* (simplelink/source/nonos.c under simplelink/source/driver.c): one       *)
(* thread and the host interrupt.                                          *)
(*                                                                         *)
(* A wait is a loop that tests a variable and, as long as the variable     *)
(* does not have the awaited value, calls _SlNonOsMainLoopTask; that runs  *)
(* the entries which _SlNonOsSpawn put into a few slots.  So an entry runs *)
(* on top of whatever call is waiting, and when it waits itself it runs    *)
(* the main loop once more: the calls form a stack, whose head is the one  *)
(* that runs.                                                              *)
(*                                                                         *)
(* The application makes one call at a time; between two calls it runs the *)
(* main loop, as the examples do.  HTTP tokens are in SlDriver.            *)
(***************************************************************************)
EXTENDS Naturals, Sequences

CONSTANTS
  NONOS_MAX_SPAWN_ENTRIES,  \* slots
  CntMod,    \* range of the 8-bit counters RxIrqCnt and RxDoneCnt
  MaxOut,    \* bound: messages waiting in the processor for an event to arise
  MaxDepth   \* bound: nested calls; the program's own bound is its stack

ASSUME NonOsAssumption ==
  /\ NONOS_MAX_SPAWN_ENTRIES \in Nat \ {0}
  /\ CntMod \in Nat /\ CntMod > 2
  /\ MaxOut \in Nat
  /\ MaxDepth \in Nat \ {0}

VARIABLES
  stack,           \* the calls under way, the running one first
  call,            \* the kind of the application's call
  SpawnEntries,    \* slots whose pEntry is _SlDrvMsgReadSpawnCtx
  GlobalLockObj,   \* locked
  CmdSyncObj,      \* signalled by the interrupt
  SyncObj,         \* of the pool object: signalled by the answer to the call
  IsCmdRespWaited,
  RxIrqCnt, RxDoneCnt,
  irqMasked,
  rx,              \* the message last read
  nwp,             \* what the processor has to do for the call
  out              \* messages the processor has for the host

objs == <<GlobalLockObj, CmdSyncObj, SyncObj>>
counts == <<RxIrqCnt, RxDoneCnt>>
bus == <<nwp, out>>
vars == <<stack, call, SpawnEntries, objs, IsCmdRespWaited, counts, irqMasked, rx, bus>>

Slots == 1 .. NONOS_MAX_SPAWN_ENTRIES

(***************************************************************************)
(* A frame is where one call is: the application in a driver call, a run   *)
(* of the main loop at slot i, or an entry (_SlDrvMsgReadSpawnCtx).        *)
(***************************************************************************)
AppAt == {"idle", "lock", "write", "loop", "wait", "done", "class", "clear",
          "unlock", "check", "await"}
LoopAt == {"slot", "free"}
EntryAt == {"rlock", "rcheck", "rdone", "assert"}
Frame == [at : AppAt \cup LoopAt \cup EntryAt, i : Slots \cup {0}]

Kinds == {"plain", "answered"}    \* calls that end with the response, or with an event
Messages == {"CMD", "ANS", "EVT"}

\* (a defective variant, to confirm that TypeOK can fail)
IncUnbounded(c) == c + 1

\* 8-bit increment.
Inc(c) == IF c + 1 = CntMod THEN 0 ELSE c + 1

Pending == RxIrqCnt # RxDoneCnt

At(l) == Head(stack).at = l
Goto(l) == stack' = <<[Head(stack) EXCEPT !.at = l]>> \o Tail(stack)
Call(f) == Len(stack) < MaxDepth /\ stack' = <<f>> \o stack
Return == stack' = Tail(stack)

MainLoop == [at |-> "slot", i |-> 1]

-------------------------------------------------------------------------------
(* Waits and entries *)

\* (a defective variant, to confirm that CallsEnd can fail)
WaitIdly(l) == At(l) /\ UNCHANGED vars

\* _SlNonOsSemGet with NONOS_WAIT_FOREVER, the value is not there yet: the
\* main loop runs once, then the variable is tested again.
WaitOn(l) ==
  /\ At(l)
  /\ Call(MainLoop)
  /\ UNCHANGED <<call, SpawnEntries, objs, IsCmdRespWaited, counts, irqMasked, rx, bus>>

\* (a defective variant, to confirm that AnnouncedHasReader can fail)
SpawnOneSlot == SpawnEntries' = [SpawnEntries EXCEPT ![1] = TRUE]

\* _SlNonOsSpawn: the first free slot; an entry that finds none is dropped
\* and reported as registered.
Spawn ==
  \/ \E i \in Slots :
       /\ ~ SpawnEntries[i]
       /\ \A j \in 1 .. i - 1 : SpawnEntries[j]
       /\ SpawnEntries' = [SpawnEntries EXCEPT ![i] = TRUE]
  \/ (\A i \in Slots : SpawnEntries[i]) /\ UNCHANGED SpawnEntries

\* The interrupt, _SlDrvRxIrqHandler, on top of whatever runs.
RxIrqHandler ==
  /\ ~ irqMasked
  /\ out # <<>>
  /\ irqMasked' = TRUE
  /\ RxIrqCnt' = Inc(RxIrqCnt)
  /\ IF IsCmdRespWaited
     THEN CmdSyncObj' = TRUE /\ UNCHANGED SpawnEntries
     ELSE Spawn /\ UNCHANGED CmdSyncObj
  /\ UNCHANGED <<stack, call, GlobalLockObj, SyncObj, IsCmdRespWaited, RxDoneCnt, rx, bus>>

\* _SlDrvMsgRead: takes the message, signals the object that waits for it,
\* and unmasks the interrupt.
MsgRead ==
  /\ out # <<>>
  /\ rx' = Head(out)
  /\ out' = Tail(out)
  /\ SyncObj' = (SyncObj \/ Head(out) = "ANS")
  /\ irqMasked' = FALSE

-------------------------------------------------------------------------------
(* The application's call: _SlDrvCmdOp and _SlDrvMsgReadCmdCtx *)

AppMainLoop == WaitOn("idle")

AppCall ==
  /\ At("idle")
  /\ \E k \in Kinds : call' = k
  /\ Goto("lock")
  /\ UNCHANGED <<SpawnEntries, objs, IsCmdRespWaited, counts, irqMasked, rx, bus>>

CmdOpLock ==
  /\ At("lock")
  /\ ~ GlobalLockObj
  /\ GlobalLockObj' = TRUE
  /\ IsCmdRespWaited' = TRUE
  /\ Goto("write")
  /\ UNCHANGED <<call, SpawnEntries, CmdSyncObj, SyncObj, counts, irqMasked, rx, bus>>

CmdOpWrite ==
  /\ At("write")
  /\ nwp' = call
  /\ Goto("loop")
  /\ UNCHANGED <<call, SpawnEntries, objs, IsCmdRespWaited, counts, irqMasked, rx, out>>

CmdCtxLeave ==
  /\ At("loop")
  /\ ~ IsCmdRespWaited
  /\ Goto("unlock")
  /\ UNCHANGED <<call, SpawnEntries, objs, IsCmdRespWaited, counts, irqMasked, rx, bus>>

CmdCtxRead ==
  /\ At("loop")
  /\ IsCmdRespWaited
  /\ Pending
  /\ MsgRead
  /\ Goto("done")
  /\ UNCHANGED <<call, SpawnEntries, GlobalLockObj, CmdSyncObj, IsCmdRespWaited, counts, nwp>>

CmdCtxGoWait ==
  /\ At("loop")
  /\ IsCmdRespWaited
  /\ ~ Pending
  /\ Goto("wait")
  /\ UNCHANGED <<call, SpawnEntries, objs, IsCmdRespWaited, counts, irqMasked, rx, bus>>

CmdCtxWait == ~ CmdSyncObj /\ WaitOn("wait")

CmdCtxWake ==
  /\ At("wait")
  /\ CmdSyncObj
  /\ CmdSyncObj' = FALSE
  /\ Goto("loop")
  /\ UNCHANGED <<call, SpawnEntries, GlobalLockObj, SyncObj, IsCmdRespWaited, counts,
                 irqMasked, rx, bus>>

CmdCtxDone ==
  /\ At("done")
  /\ RxDoneCnt' = Inc(RxDoneCnt)
  /\ Goto("class")
  /\ UNCHANGED <<call, SpawnEntries, objs, IsCmdRespWaited, RxIrqCnt, irqMasked, rx, bus>>

CmdCtxEvent ==
  /\ At("class")
  /\ rx # "CMD"
  /\ Goto("loop")
  /\ UNCHANGED <<call, SpawnEntries, objs, IsCmdRespWaited, counts, irqMasked, rx, bus>>

CmdCtxResponse ==
  /\ At("class")
  /\ rx = "CMD"
  /\ IsCmdRespWaited' = FALSE
  /\ Goto("clear")
  /\ UNCHANGED <<call, SpawnEntries, objs, counts, irqMasked, rx, bus>>

CmdCtxClear ==
  /\ At("clear")
  /\ CmdSyncObj
  /\ CmdSyncObj' = FALSE
  /\ Goto("loop")
  /\ UNCHANGED <<call, SpawnEntries, GlobalLockObj, SyncObj, IsCmdRespWaited, counts,
                 irqMasked, rx, bus>>

\* sl_SyncObjClear is a wait with NONOS_NO_WAIT: when there is no signal the
\* main loop runs once, under the global lock.
CmdCtxClearLoop ==
  /\ At("clear")
  /\ ~ CmdSyncObj
  /\ Len(stack) < MaxDepth
  /\ stack' = <<MainLoop, [Head(stack) EXCEPT !.at = "loop"]>> \o Tail(stack)
  /\ UNCHANGED <<call, SpawnEntries, objs, IsCmdRespWaited, counts, irqMasked, rx, bus>>

CmdCtxUnlock ==
  /\ At("unlock")
  /\ GlobalLockObj' = FALSE
  /\ Goto("check")
  /\ UNCHANGED <<call, SpawnEntries, CmdSyncObj, SyncObj, IsCmdRespWaited, counts,
                 irqMasked, rx, bus>>

\* (a defective variant, to confirm that AnnouncedIsRead can fail)
CmdCtxReturnUnchecked ==
  /\ At("check")
  /\ Goto(IF call = "plain" THEN "idle" ELSE "await")
  /\ UNCHANGED <<call, SpawnEntries, objs, IsCmdRespWaited, counts, irqMasked, rx, bus>>

\* The call returns, or waits for the event that answers it.
CmdCtxReturn ==
  /\ At("check")
  /\ IF Pending THEN Spawn ELSE UNCHANGED SpawnEntries
  /\ Goto(IF call = "plain" THEN "idle" ELSE "await")
  /\ UNCHANGED <<call, objs, IsCmdRespWaited, counts, irqMasked, rx, bus>>

AnswerWait == ~ SyncObj /\ WaitOn("await")

AnswerTaken ==
  /\ At("await")
  /\ SyncObj
  /\ SyncObj' = FALSE
  /\ Goto("idle")
  /\ UNCHANGED <<call, SpawnEntries, GlobalLockObj, CmdSyncObj, IsCmdRespWaited,
                 counts, irqMasked, rx, bus>>

CmdOp ==
  \/ CmdOpLock \/ CmdOpWrite \/ CmdCtxLeave \/ CmdCtxRead \/ CmdCtxGoWait
  \/ CmdCtxWait \/ CmdCtxWake \/ CmdCtxDone \/ CmdCtxEvent \/ CmdCtxResponse
  \/ CmdCtxClear \/ CmdCtxClearLoop \/ CmdCtxUnlock \/ CmdCtxReturn
  \/ AnswerWait \/ AnswerTaken

-------------------------------------------------------------------------------
(* _SlNonOsMainLoopTask and the entry it calls *)

Slot == Head(stack).i
Runs == At("slot") /\ SpawnEntries[Slot]

\* On to the next slot; after the last one the main loop returns.
NextSlot == IF Slot = NONOS_MAX_SPAWN_ENTRIES
            THEN Return
            ELSE stack' = <<[at |-> "slot", i |-> Slot + 1]>> \o Tail(stack)

SlotEmpty ==
  /\ At("slot")
  /\ ~ SpawnEntries[Slot]
  /\ NextSlot
  /\ UNCHANGED <<call, SpawnEntries, objs, IsCmdRespWaited, counts, irqMasked, rx, bus>>

\* Nothing to read: the entry is dropped without a call.
SlotIdle ==
  /\ Runs
  /\ ~ Pending
  /\ Goto("free")
  /\ UNCHANGED <<call, SpawnEntries, objs, IsCmdRespWaited, counts, irqMasked, rx, bus>>

\* (a defective variant, to confirm that ReadHasMessage can fail)
SlotRunUnchecked ==
  /\ Runs
  /\ Len(stack) < MaxDepth
  /\ stack' = <<[at |-> "rlock", i |-> 0], [Head(stack) EXCEPT !.at = "free"]>>
              \o Tail(stack)
  /\ UNCHANGED <<call, SpawnEntries, objs, IsCmdRespWaited, counts, irqMasked, rx, bus>>

\* The entry is called; its slot is cleared only when it has returned.
SlotRun ==
  /\ Runs
  /\ Pending
  /\ Len(stack) < MaxDepth
  /\ stack' = <<[at |-> "rlock", i |-> 0], [Head(stack) EXCEPT !.at = "free"]>>
              \o Tail(stack)
  /\ UNCHANGED <<call, SpawnEntries, objs, IsCmdRespWaited, counts, irqMasked, rx, bus>>

SlotFree ==
  /\ At("free")
  /\ SpawnEntries' = [SpawnEntries EXCEPT ![Slot] = FALSE]
  /\ NextSlot
  /\ UNCHANGED <<call, objs, IsCmdRespWaited, counts, irqMasked, rx, bus>>

\* (a defective variant, to confirm that NoResponseInMainLoop can fail)
EntryLockIgnored ==
  /\ At("rlock")
  /\ GlobalLockObj' = TRUE
  /\ Goto("rcheck")
  /\ UNCHANGED <<call, SpawnEntries, CmdSyncObj, SyncObj, IsCmdRespWaited, counts,
                 irqMasked, rx, bus>>

EntryLock ==
  /\ At("rlock")
  /\ ~ GlobalLockObj
  /\ GlobalLockObj' = TRUE
  /\ Goto("rcheck")
  /\ UNCHANGED <<call, SpawnEntries, CmdSyncObj, SyncObj, IsCmdRespWaited, counts,
                 irqMasked, rx, bus>>

EntryLockWait == GlobalLockObj /\ WaitOn("rlock")

\* The early return for "no pending message" is never taken (ReadHasMessage).
EntryRead ==
  /\ At("rcheck")
  /\ Pending
  /\ MsgRead
  /\ Goto("rdone")
  /\ UNCHANGED <<call, SpawnEntries, GlobalLockObj, CmdSyncObj, IsCmdRespWaited,
                 counts, nwp>>

\* Counts the message and releases the lock; a command response runs into
\* the assertion of _SlDrvMsgReadSpawnCtx.
EntryDone ==
  /\ At("rdone")
  /\ RxDoneCnt' = Inc(RxDoneCnt)
  /\ IF rx = "CMD"
     THEN Goto("assert") /\ UNCHANGED GlobalLockObj
     ELSE Return /\ GlobalLockObj' = FALSE
  /\ UNCHANGED <<call, SpawnEntries, CmdSyncObj, SyncObj, IsCmdRespWaited, RxIrqCnt,
                 irqMasked, rx, bus>>

MainLoopTask ==
  \/ SlotEmpty \/ SlotIdle \/ SlotRun \/ SlotFree
  \/ EntryLock \/ EntryLockWait \/ EntryRead \/ EntryDone

-------------------------------------------------------------------------------
(* The network processor (external) *)

NwpExecute ==
  /\ nwp \in Kinds
  /\ nwp' = IF nwp = "answered" THEN "owed" ELSE "none"
  /\ out' = Append(out, "CMD")
  /\ UNCHANGED <<stack, call, SpawnEntries, objs, IsCmdRespWaited, counts, irqMasked, rx>>

NwpAnswer ==
  /\ nwp = "owed"
  /\ nwp' = "none"
  /\ out' = Append(out, "ANS")
  /\ UNCHANGED <<stack, call, SpawnEntries, objs, IsCmdRespWaited, counts, irqMasked, rx>>

NwpEvent ==
  /\ Len(out) < MaxOut
  /\ out' = Append(out, "EVT")
  /\ UNCHANGED <<stack, call, SpawnEntries, objs, IsCmdRespWaited, counts, irqMasked,
                 rx, nwp>>

-------------------------------------------------------------------------------
Init ==
  /\ stack = <<[at |-> "idle", i |-> 0]>>
  /\ call = "plain"
  /\ SpawnEntries = [i \in Slots |-> FALSE]
  /\ GlobalLockObj = FALSE
  /\ CmdSyncObj = FALSE
  /\ SyncObj = FALSE
  /\ IsCmdRespWaited = FALSE
  /\ RxIrqCnt = 0
  /\ RxDoneCnt = 0
  /\ irqMasked = FALSE
  /\ rx = "EVT"
  /\ nwp = "none"
  /\ out = <<>>

\* The thread: the running call, whatever it is.
Thread == AppMainLoop \/ AppCall \/ CmdOp \/ MainLoopTask

Next == Thread \/ RxIrqHandler \/ NwpExecute \/ NwpAnswer \/ NwpEvent

Spec == Init /\ [][Next]_vars

(***************************************************************************)
(* The thread runs, the interrupt is taken, the processor executes what it *)
(* is sent.  Nobody has to call, and no event has to happen.               *)
(***************************************************************************)
FairSpec ==
  /\ Spec
  /\ WF_vars(Thread)
  /\ WF_vars(RxIrqHandler)
  /\ WF_vars(NwpExecute)
  /\ WF_vars(NwpAnswer)

-------------------------------------------------------------------------------
(* Properties *)

\* The application is at the bottom of the stack and nowhere else.
StackOK ==
  /\ stack \in Seq(Frame)
  /\ Len(stack) \in 1 .. MaxDepth
  /\ \A k \in DOMAIN stack : stack[k].at \in AppAt <=> k = Len(stack)

\* The control block, the slots and the stack hold what the code gives them.
TypeOK ==
  /\ StackOK
  /\ call \in Kinds
  /\ SpawnEntries \in [Slots -> BOOLEAN]
  /\ GlobalLockObj \in BOOLEAN /\ CmdSyncObj \in BOOLEAN /\ SyncObj \in BOOLEAN
  /\ IsCmdRespWaited \in BOOLEAN /\ irqMasked \in BOOLEAN
  /\ RxIrqCnt \in 0 .. CntMod - 1 /\ RxDoneCnt \in 0 .. CntMod - 1
  /\ rx \in Messages
  /\ nwp \in Kinds \cup {"none", "owed"}
  /\ out \in Seq(Messages)

\* Where the application itself is.
App == stack[Len(stack)].at

\* An entry of _SlNonOsMainLoopTask waits for the global lock that a call
\* further down the same stack holds: it can never get it.
SelfLocked == GlobalLockObj /\ \E k \in DOMAIN stack : stack[k].at = "rlock"

\* While the interrupt is masked the announced message has a reader: the
\* command, an entry that runs, or an entry in a slot the main loop has still
\* to call, although slots are few, a full table drops the entry without a
\* word, and the main loop clears a slot after the entry's own read has let
\* the interrupt in again.
AnnouncedHasReader ==
  irqMasked =>
    \/ App \in AppAt \ {"idle", "lock", "await", "wait"}
    \/ App = "wait" /\ CmdSyncObj
    \/ \E k \in DOMAIN stack : stack[k].at \in {"rlock", "rcheck"}
    \/ \E i \in Slots : SpawnEntries[i] /\ [at |-> "free", i |-> i] \notin
                         {stack[k] : k \in DOMAIN stack}

\* Neither the command nor an entry reads an empty bus; and the message an
\* entry was called for is still there when the entry has the global lock,
\* however long it waited for it.
ReadHasMessage ==
  /\ At("loop") /\ IsCmdRespWaited /\ Pending => out # <<>>
  /\ At("rcheck") => Pending /\ out # <<>>

\* "Command response is illegal in this context": an entry never meets the
\* response of the call it runs on top of.
NoResponseInMainLoop == ~ At("assert")

\* A driver call returns, whether its answer is read by the command or by an
\* entry of the main loop that the wait itself runs; unless the thread locks
\* itself out (EntryGetsLock).
CallsEnd == App # "idle" ~> App = "idle" \/ SelfLocked

\* What the interrupt announced is eventually read, with the same exception.
AnnouncedIsRead == irqMasked ~> ~ irqMasked \/ SelfLocked

\* "This function call the pEntry callback from a different context"
\* (user.h): an entry that asks for the global lock is not on top of the call
\* that holds it.
EntryGetsLock == ~ SelfLocked
===============================================================================
