----------------------------- MODULE SlNonOsProofs ------------------------------
(***************************************************************************)
(* Proofs about SlNonOs, for any number of slots, counter width, messages  *)
(* and depth of nested calls: the types hold; an entry of the main loop,   *)
(* which runs on top of whatever call is waiting, never meets the response *)
(* of that call; no message is read that is not there; and, with at least  *)
(* two slots, no announced message is left without a reader.               *)
(***************************************************************************)
EXTENDS SlNonOs, SequenceTheorems, TLAPS

-------------------------------------------------------------------------------
(* The invariant *)

\* Where a command holds the global lock, and where an entry does.
CmdHolds == {"write", "loop", "wait", "done", "class", "clear", "unlock"}
EntryHolds == {"rcheck", "rdone", "assert"}

\* A command that holds the lock excludes the entries, and an entry that
\* holds it is the call that runs: it never waits.
LockInv ==
  /\ App \in CmdHolds =>
       GlobalLockObj /\ \A k \in DOMAIN stack : stack[k].at \notin EntryHolds
  /\ \A k \in DOMAIN stack : stack[k].at \in EntryHolds => k = 1

\* The response of the call is somewhere between the processor and the
\* command.
Owed == nwp \in Kinds
Sent == \E i \in DOMAIN out : out[i] = "CMD"
SentOnce == \A i, j \in DOMAIN out : out[i] = "CMD" /\ out[j] = "CMD" => i = j
Carried == App \in {"done", "class"} /\ rx = "CMD"

\* It is in one of these places only, and as long as it is the command waits.
ResponseInv ==
  /\ Owed \/ Sent \/ Carried =>
       IsCmdRespWaited /\ App \in {"loop", "wait", "done", "class"}
  /\ App = "write" => IsCmdRespWaited
  /\ ~ (Owed /\ Sent) /\ ~ (Owed /\ Carried) /\ ~ (Sent /\ Carried)
  /\ SentOnce
  /\ \A k \in DOMAIN stack : stack[k].at = "rdone" => rx # "CMD"
  /\ \A k \in DOMAIN stack : stack[k].at # "assert"

IInv == TypeOK /\ LockInv /\ ResponseInv

-------------------------------------------------------------------------------
(* The invariant of announced messages *)

\* A message has been read and is not counted yet.
Reading == App = "done" \/ \E k \in DOMAIN stack : stack[k].at = "rdone"

\* Mask and counters move together, although the interrupt comes in again
\* between the read of a message and the count of it.
Handshake ==
  /\ irqMasked => out # <<>>
  /\ irqMasked /\ Reading => RxIrqCnt = Inc(Inc(RxDoneCnt))
  /\ irqMasked /\ ~ Reading => RxIrqCnt = Inc(RxDoneCnt)
  /\ ~ irqMasked /\ Reading => RxIrqCnt = Inc(RxDoneCnt)
  /\ ~ irqMasked /\ ~ Reading => RxIrqCnt = RxDoneCnt

\* The interrupt signals the semaphore only to a command in its loop.
FlagHasCommand == IsCmdRespWaited => App \in {"write", "loop", "wait", "done", "class"}

\* How calls nest: only a call that waits has calls on top of it; an entry
\* waits for the lock only on top of the command that holds it; below an entry
\* is the main loop that called it.
NestInv ==
  /\ \A k \in DOMAIN stack : stack[k].at \notin AppAt =>
       App \in {"idle", "wait", "await", "loop"}
  /\ \A k \in DOMAIN stack : stack[k].at \in LoopAt => stack[k].i \in Slots
  /\ GlobalLockObj => App \in CmdHolds \/ \E k \in DOMAIN stack : stack[k].at \in EntryHolds
  /\ \A k \in DOMAIN stack : stack[k].at = "rlock" /\ k # 1 => App \in CmdHolds
  /\ \A k \in DOMAIN stack : stack[k].at = "free" /\ k # 1 =>
       stack[k - 1].at \in EntryHolds \cup {"rlock"}

\* An entry that has not read yet was called for a message that is announced.
CalledForMessage ==
  \A k \in DOMAIN stack : stack[k].at \in {"rlock", "rcheck"} => irqMasked

\* Unless the thread has locked itself out, a slot whose entry is under way is
\* taken, so that the interrupt puts no entry there.
SlotKept ==
  ~ SelfLocked => \A k \in DOMAIN stack : stack[k].at = "free" =>
                    stack[k].i \in Slots /\ SpawnEntries[stack[k].i]

ReaderInv ==
  Handshake /\ FlagHasCommand /\ NestInv /\ CalledForMessage /\ SlotKept

-------------------------------------------------------------------------------
(* The stack *)

LEMMA FrameAt ==
  ASSUME NEW f \in Frame, NEW l \in AppAt \cup LoopAt \cup EntryAt
  PROVE  [f EXCEPT !.at = l] \in Frame /\ [f EXCEPT !.at = l].at = l
BY DEF Frame

LEMMA Replace ==
  ASSUME NEW S, NEW s \in Seq(S), Len(s) >= 1, NEW f \in S
  PROVE  /\ <<f>> \o Tail(s) \in Seq(S)
         /\ Len(<<f>> \o Tail(s)) = Len(s)
         /\ (<<f>> \o Tail(s))[1] = f
         /\ \A k \in 2 .. Len(s) : (<<f>> \o Tail(s))[k] = s[k]
<1>1. s # <<>>
  OBVIOUS
<1>2. Tail(s) \in Seq(S) /\ Len(Tail(s)) = Len(s) - 1
      /\ \A i \in 1 .. Len(Tail(s)) : Tail(s)[i] = s[i + 1]
  BY <1>1, HeadTailProperties
<1>3. <<f>> \in Seq(S) /\ Len(<<f>>) = 1 /\ <<f>>[1] = f
  OBVIOUS
<1> QED
  BY <1>2, <1>3, ConcatProperties, LenProperties

LEMMA Push ==
  ASSUME NEW S, NEW s \in Seq(S), NEW f \in S
  PROVE  /\ <<f>> \o s \in Seq(S)
         /\ Len(<<f>> \o s) = Len(s) + 1
         /\ (<<f>> \o s)[1] = f
         /\ \A k \in 2 .. Len(s) + 1 : (<<f>> \o s)[k] = s[k - 1]
<1>1. <<f>> \in Seq(S) /\ Len(<<f>>) = 1 /\ <<f>>[1] = f
  OBVIOUS
<1> QED
  BY <1>1, ConcatProperties, LenProperties

LEMMA Pop ==
  ASSUME NEW S, NEW s \in Seq(S), Len(s) >= 1
  PROVE  /\ Tail(s) \in Seq(S)
         /\ Len(Tail(s)) = Len(s) - 1
         /\ \A k \in 1 .. Len(s) - 1 : Tail(s)[k] = s[k + 1]
BY HeadTailProperties

\* The running call is the application: nothing runs on top of it.
LEMMA AppRuns ==
  ASSUME StackOK, NEW l \in AppAt, At(l)
  PROVE  Len(stack) = 1 /\ App = l /\ Head(stack) = stack[1] /\ stack[1] \in Frame
<1>1. stack # <<>> /\ Head(stack) = stack[1] /\ 1 \in DOMAIN stack /\ stack[1] \in Frame
  BY HeadTailProperties, LenProperties, ElementOfSeq DEF StackOK
<1> QED
  BY <1>1, LenProperties DEF StackOK, At, App

\* The application goes on.
LEMMA AppGoes ==
  ASSUME StackOK, NEW l \in AppAt, At(l), NEW m \in AppAt, Goto(m)
  PROVE  /\ StackOK'
         /\ App' = m
         /\ \A k \in DOMAIN stack' : k = 1 /\ stack'[k].at = m
<1>1. Len(stack) = 1 /\ Head(stack) \in Frame
  BY AppRuns
<1>2. [Head(stack) EXCEPT !.at = m] \in Frame /\ [Head(stack) EXCEPT !.at = m].at = m
  BY <1>1, FrameAt
<1> DEFINE f == [Head(stack) EXCEPT !.at = m]
<1>3. stack' = <<f>> \o Tail(stack) /\ f \in Frame /\ f.at = m /\ Len(stack) >= 1
  BY <1>1, <1>2 DEF Goto
<1> HIDE DEF f
<1>4. stack' \in Seq(Frame) /\ Len(stack') = 1 /\ stack'[1] = f
  BY <1>1, <1>3, Replace DEF StackOK
<1>5. DOMAIN stack' = {1}
  BY <1>4, LenProperties
<1>6. 1 \in 1 .. MaxDepth
  BY NonOsAssumption
<1> QED
  BY <1>3, <1>4, <1>5, <1>6 DEF StackOK, App

\* A call of the main loop, or of an entry, on top of the running call.
LEMMA Calls ==
  ASSUME StackOK, NEW f \in Frame, f.at \notin AppAt, Call(f), MaxDepth \in Nat
  PROVE  /\ StackOK'
         /\ App' = App
         /\ \A k \in DOMAIN stack' :
              \/ k = 1 /\ stack'[k] = f
              \/ k - 1 \in DOMAIN stack /\ stack'[k] = stack[k - 1]
<1>1. /\ stack' \in Seq(Frame)
      /\ Len(stack') = Len(stack) + 1
      /\ stack'[1] = f
      /\ \A k \in 2 .. Len(stack) + 1 : stack'[k] = stack[k - 1]
  BY Push DEF Call, StackOK
<1>2. Len(stack) \in Nat /\ DOMAIN stack = 1 .. Len(stack)
      /\ DOMAIN stack' = 1 .. Len(stack) + 1
  BY <1>1, LenProperties DEF StackOK
<1> QED
  BY <1>1, <1>2 DEF StackOK, App, Call

\* The running call, on top of others, goes on.
LEMMA OtherGoes ==
  ASSUME StackOK, Head(stack).at \notin AppAt, NEW f \in Frame, f.at \notin AppAt,
         stack' = <<f>> \o Tail(stack)
  PROVE  /\ StackOK'
         /\ App' = App
         /\ \A k \in DOMAIN stack' :
              \/ k = 1 /\ stack'[k] = f
              \/ k # 1 /\ k \in DOMAIN stack /\ stack'[k] = stack[k]
<1>1. Head(stack) = stack[1] /\ Len(stack) \in Nat /\ DOMAIN stack = 1 .. Len(stack)
  BY HeadTailProperties, LenProperties DEF StackOK
<1>2. /\ stack' \in Seq(Frame)
      /\ Len(stack') = Len(stack)
      /\ stack'[1] = f
      /\ \A k \in 2 .. Len(stack) : stack'[k] = stack[k]
  BY Replace DEF StackOK
<1>3. DOMAIN stack' = 1 .. Len(stack)
  BY <1>2, LenProperties
<1>4. Len(stack) # 1
  BY <1>1 DEF StackOK
<1> QED
  BY <1>1, <1>2, <1>3, <1>4 DEF StackOK, App

\* The running call, on top of others, returns.
LEMMA Returns ==
  ASSUME StackOK, Head(stack).at \notin AppAt, Return
  PROVE  /\ StackOK'
         /\ App' = App
         /\ \A k \in DOMAIN stack' : k + 1 \in DOMAIN stack /\ stack'[k] = stack[k + 1]
<1>1. Head(stack) = stack[1] /\ Len(stack) \in Nat /\ DOMAIN stack = 1 .. Len(stack)
  BY HeadTailProperties, LenProperties DEF StackOK
<1>2. /\ stack' \in Seq(Frame)
      /\ Len(stack') = Len(stack) - 1
      /\ \A k \in 1 .. Len(stack) - 1 : stack'[k] = stack[k + 1]
  BY Pop DEF StackOK, Return
<1>3. DOMAIN stack' = 1 .. Len(stack) - 1
  BY <1>2, LenProperties
<1>4. Len(stack) # 1
  BY <1>1 DEF StackOK
<1>5. Len(stack) - 1 \in 1 .. MaxDepth
  BY <1>1, <1>4, NonOsAssumption DEF StackOK
<1>6. \A k \in DOMAIN stack' : stack'[k].at \in AppAt <=> k = Len(stack')
  BY <1>1, <1>2, <1>3 DEF StackOK
<1> QED
  BY <1>1, <1>2, <1>3, <1>4, <1>5, <1>6 DEF StackOK, App

\* The running call goes on and something is called on top of it.
LEMMA CallsFrom ==
  ASSUME StackOK, NEW f \in Frame, f.at \notin AppAt, NEW g \in Frame,
         g.at \in AppAt <=> Head(stack).at \in AppAt,
         Len(stack) < MaxDepth, stack' = <<f, g>> \o Tail(stack)
  PROVE  /\ StackOK'
         /\ App' = IF g.at \in AppAt THEN g.at ELSE App
         /\ \A k \in DOMAIN stack' :
              \/ k = 1 /\ stack'[k] = f
              \/ k = 2 /\ stack'[k] = g
              \/ k > 2 /\ k - 1 \in DOMAIN stack /\ stack'[k] = stack[k - 1]
<1>1. /\ Head(stack) = stack[1] /\ Len(stack) \in Nat /\ Len(stack) >= 1
      /\ DOMAIN stack = 1 .. Len(stack)
  BY HeadTailProperties, LenProperties DEF StackOK
<1>2. /\ Tail(stack) \in Seq(Frame)
      /\ Len(Tail(stack)) = Len(stack) - 1
      /\ \A k \in 1 .. Len(stack) - 1 : Tail(stack)[k] = stack[k + 1]
  BY Pop, <1>1 DEF StackOK
<1>3. <<f, g>> \in Seq(Frame) /\ Len(<<f, g>>) = 2 /\ <<f, g>>[1] = f /\ <<f, g>>[2] = g
  OBVIOUS
<1>4. /\ stack' \in Seq(Frame)
      /\ Len(stack') = Len(stack) + 1
      /\ stack'[1] = f
      /\ stack'[2] = g
      /\ \A k \in 3 .. Len(stack) + 1 : stack'[k] = stack[k - 1]
  BY <1>1, <1>2, <1>3, ConcatProperties
<1>5. DOMAIN stack' = 1 .. Len(stack) + 1
  BY <1>4, LenProperties
<1>6. Head(stack).at \in AppAt <=> Len(stack) = 1
  BY <1>1 DEF StackOK
<1>7. Len(stack') \in 1 .. MaxDepth
  BY <1>1, <1>4, NonOsAssumption
<1>8. \A k \in DOMAIN stack' : stack'[k].at \in AppAt <=> k = Len(stack')
  BY <1>1, <1>4, <1>5, <1>6 DEF StackOK
<1>9. App' = IF g.at \in AppAt THEN g.at ELSE App
  <2>1. CASE Len(stack) = 1
    BY <1>4, <1>6, <2>1 DEF App
  <2>2. CASE Len(stack) # 1
    <3>1. Len(stack) + 1 \in 3 .. Len(stack) + 1 /\ Len(stack) + 1 - 1 = Len(stack)
      BY <1>1, <2>2
    <3>2. stack'[Len(stack) + 1] = stack[Len(stack)]
      BY <1>4, <3>1
    <3> QED
      BY <1>4, <1>6, <2>2, <3>2 DEF App
  <2> QED
    BY <2>1, <2>2
<1>10. StackOK'
  BY <1>4, <1>7, <1>8 DEF StackOK
<1>11. ASSUME NEW k \in DOMAIN stack'
       PROVE  \/ k = 1 /\ stack'[k] = f
              \/ k = 2 /\ stack'[k] = g
              \/ k > 2 /\ k - 1 \in DOMAIN stack /\ stack'[k] = stack[k - 1]
  <2>1. k = 1 \/ k = 2 \/ k \in 3 .. Len(stack) + 1
    BY <1>1, <1>5
  <2>2. CASE k \in 3 .. Len(stack) + 1
    <3>1. k > 2 /\ k - 1 \in DOMAIN stack
      BY <1>1, <2>2
    <3> QED
      BY <1>4, <2>2, <3>1
  <2> QED
    BY <1>4, <2>1, <2>2
<1> QED
  BY <1>9, <1>10, <1>11

\* The running call is not the application: its frame and its slot.
LEMMA OtherRuns ==
  ASSUME StackOK
  PROVE  /\ stack # <<>> /\ 1 \in DOMAIN stack
         /\ Head(stack) = stack[1] /\ Head(stack) \in Frame
         /\ Slot \in Slots \cup {0}
<1>1. stack # <<>> /\ Head(stack) = stack[1] /\ 1 \in DOMAIN stack /\ stack[1] \in Frame
  BY HeadTailProperties, LenProperties, ElementOfSeq DEF StackOK
<1> QED
  BY <1>1 DEF Frame, Slot

\* A frame of the main loop, or of an entry, goes on within its call.
LEMMA OtherGoto ==
  ASSUME StackOK, Head(stack).at \notin AppAt, NEW l \in LoopAt \cup EntryAt, Goto(l)
  PROVE  /\ StackOK'
         /\ App' = App
         /\ \A k \in DOMAIN stack' :
              \/ k = 1 /\ stack'[k].at = l
              \/ k # 1 /\ k \in DOMAIN stack /\ stack'[k] = stack[k]
<1> DEFINE f == [Head(stack) EXCEPT !.at = l]
<1>1. f \in Frame /\ f.at = l
  BY OtherRuns, FrameAt
<1>2. stack' = <<f>> \o Tail(stack)
  BY DEF Goto
<1>3. f.at \notin AppAt
  BY <1>1 DEF AppAt, LoopAt, EntryAt
<1> HIDE DEF f
<1> QED
  BY <1>1, <1>2, <1>3, OtherGoes

\* The main loop goes on to the next slot or returns.
LEMMA LoopGoes ==
  ASSUME StackOK, Head(stack).at \in LoopAt, NextSlot
  PROVE  /\ StackOK'
         /\ App' = App
         /\ \A k \in DOMAIN stack' :
              \/ k = 1 /\ stack'[k].at = "slot"
              \/ k # 1 /\ k \in DOMAIN stack /\ stack'[k] = stack[k]
              \/ k + 1 \in DOMAIN stack /\ stack'[k] = stack[k + 1]
<1>1. Head(stack).at \notin AppAt
  BY DEF AppAt, LoopAt
<1>2. CASE Slot = NONOS_MAX_SPAWN_ENTRIES
  BY <1>1, <1>2, Returns DEF NextSlot
<1>3. CASE Slot # NONOS_MAX_SPAWN_ENTRIES
  <2> DEFINE f == [at |-> "slot", i |-> Slot + 1]
  <2>1. Slot + 1 \in Slots
    BY <1>3, OtherRuns, NonOsAssumption DEF Slots
  <2>2. f \in Frame /\ f.at = "slot" /\ f.at \notin AppAt
    BY <2>1 DEF Frame, LoopAt, AppAt
  <2>3. stack' = <<f>> \o Tail(stack)
    BY <1>3 DEF NextSlot
  <2> HIDE DEF f
  <2> QED
    BY <1>1, <2>2, <2>3, OtherGoes
<1> QED
  BY <1>2, <1>3

LEMMA MainLoopFrame == MainLoop \in Frame /\ MainLoop.at = "slot" /\ MainLoop.at \notin AppAt
BY NonOsAssumption DEF MainLoop, Frame, LoopAt, AppAt, Slots

-------------------------------------------------------------------------------
(* Types *)

LEMMA IncType == ASSUME NEW c \in 0 .. CntMod - 1 PROVE Inc(c) \in 0 .. CntMod - 1
BY NonOsAssumption DEF Inc

LEMMA SpawnType ==
  ASSUME SpawnEntries \in [Slots -> BOOLEAN], Spawn
  PROVE  SpawnEntries' \in [Slots -> BOOLEAN]
BY DEF Spawn

LEMMA MsgReadType ==
  ASSUME out \in Seq(Messages), SyncObj \in BOOLEAN, MsgRead
  PROVE  rx' \in Messages /\ out' \in Seq(Messages) /\ SyncObj' \in BOOLEAN /\ irqMasked' \in BOOLEAN
BY HeadTailProperties DEF MsgRead

\* A wait runs the main loop on top of the waiting call.
LEMMA Waits ==
  ASSUME StackOK, NEW l, WaitOn(l)
  PROVE  /\ StackOK'
         /\ App' = App
         /\ \A k \in DOMAIN stack' :
              \/ k = 1 /\ stack'[k].at = "slot"
              \/ k - 1 \in DOMAIN stack /\ stack'[k] = stack[k - 1]
BY Calls, MainLoopFrame, NonOsAssumption DEF WaitOn

\* The main loop calls an entry.
LEMMA SlotRuns ==
  ASSUME StackOK, SlotRun
  PROVE  /\ StackOK'
         /\ App' = App
         /\ \A k \in DOMAIN stack' :
              \/ stack'[k].at \in {"rlock", "free"}
              \/ k > 2 /\ k - 1 \in DOMAIN stack /\ stack'[k] = stack[k - 1]
<1> DEFINE f == [at |-> "rlock", i |-> 0]
           g == [Head(stack) EXCEPT !.at = "free"]
<1>1. f \in Frame /\ f.at = "rlock" /\ f.at \notin AppAt
  BY DEF Frame, EntryAt, AppAt
<1>2. g \in Frame /\ g.at = "free" /\ g.at \notin AppAt
  BY OtherRuns, FrameAt DEF LoopAt, AppAt
<1>3. Head(stack).at \notin AppAt /\ Len(stack) < MaxDepth /\ stack' = <<f, g>> \o Tail(stack)
  BY DEF SlotRun, Runs, At, AppAt
<1> HIDE DEF f, g
<1> QED
  BY <1>1, <1>2, <1>3, CallsFrom

\* The command runs the main loop once when the interrupt did not signal.
LEMMA ClearLoops ==
  ASSUME StackOK, CmdCtxClearLoop
  PROVE  /\ StackOK'
         /\ App' = "loop"
         /\ \A k \in DOMAIN stack' : stack'[k].at \in {"slot", "loop"}
<1> DEFINE g == [Head(stack) EXCEPT !.at = "loop"]
<1>1. g \in Frame /\ g.at = "loop" /\ g.at \in AppAt
  BY OtherRuns, FrameAt DEF AppAt
<1>2. Head(stack).at \in AppAt /\ Len(stack) = 1
  BY AppRuns DEF CmdCtxClearLoop, At, AppAt
<1>3. Len(stack) < MaxDepth /\ stack' = <<MainLoop, g>> \o Tail(stack)
  BY DEF CmdCtxClearLoop
<1>4. DOMAIN stack = {1}
  BY <1>2, LenProperties DEF StackOK
<1> HIDE DEF g
<1>5. /\ StackOK'
      /\ App' = IF g.at \in AppAt THEN g.at ELSE App
      /\ \A k \in DOMAIN stack' :
           \/ k = 1 /\ stack'[k] = MainLoop
           \/ k = 2 /\ stack'[k] = g
           \/ k > 2 /\ k - 1 \in DOMAIN stack /\ stack'[k] = stack[k - 1]
  BY <1>1, <1>2, <1>3, MainLoopFrame, CallsFrom
<1>6. \A k \in DOMAIN stack' : k \in Int
  BY <1>5, LenProperties DEF StackOK
<1> QED
  BY <1>1, <1>4, <1>5, <1>6, MainLoopFrame

\* Every step keeps the types.
LEMMA TypeStep == TypeOK /\ [Next]_vars => TypeOK'
<1> SUFFICES ASSUME TypeOK, [Next]_vars PROVE TypeOK'
  OBVIOUS
<1> USE DEF objs, counts, bus
<1>1. CASE AppMainLoop
  BY <1>1, Waits DEF TypeOK, AppMainLoop, WaitOn
<1>2. CASE CmdCtxWait
  BY <1>2, Waits DEF TypeOK, CmdCtxWait, WaitOn
<1>3. CASE AnswerWait
  BY <1>3, Waits DEF TypeOK, AnswerWait, WaitOn
<1>4. CASE EntryLockWait
  BY <1>4, Waits DEF TypeOK, EntryLockWait, WaitOn
<1>5. CASE AppCall
  BY <1>5, AppGoes DEF TypeOK, AppCall, AppAt
<1>6. CASE CmdOpLock
  BY <1>6, AppGoes DEF TypeOK, CmdOpLock, AppAt
<1>7. CASE CmdOpWrite
  BY <1>7, AppGoes DEF TypeOK, CmdOpWrite, AppAt
<1>8. CASE CmdCtxLeave
  BY <1>8, AppGoes DEF TypeOK, CmdCtxLeave, AppAt
<1>9. CASE CmdCtxRead
  BY <1>9, AppGoes, MsgReadType DEF TypeOK, CmdCtxRead, AppAt
<1>10. CASE CmdCtxGoWait
  BY <1>10, AppGoes DEF TypeOK, CmdCtxGoWait, AppAt
<1>11. CASE CmdCtxWake
  BY <1>11, AppGoes DEF TypeOK, CmdCtxWake, AppAt
<1>12. CASE CmdCtxDone
  BY <1>12, AppGoes, IncType DEF TypeOK, CmdCtxDone, AppAt
<1>13. CASE CmdCtxEvent
  BY <1>13, AppGoes DEF TypeOK, CmdCtxEvent, AppAt
<1>14. CASE CmdCtxResponse
  BY <1>14, AppGoes DEF TypeOK, CmdCtxResponse, AppAt
<1>15. CASE CmdCtxClear
  BY <1>15, AppGoes DEF TypeOK, CmdCtxClear, AppAt
<1>16. CASE CmdCtxUnlock
  BY <1>16, AppGoes DEF TypeOK, CmdCtxUnlock, AppAt
<1>17. CASE CmdCtxReturn
  BY <1>17, AppGoes, SpawnType DEF TypeOK, CmdCtxReturn, AppAt
<1>18. CASE AnswerTaken
  BY <1>18, AppGoes DEF TypeOK, AnswerTaken, AppAt
<1>19. CASE CmdCtxClearLoop
  BY <1>19, ClearLoops DEF TypeOK, CmdCtxClearLoop
<1>20. CASE SlotEmpty
  BY <1>20, LoopGoes DEF TypeOK, SlotEmpty, At, LoopAt
<1>21. CASE SlotIdle
  BY <1>21, OtherGoto DEF TypeOK, SlotIdle, Runs, At, AppAt, LoopAt
<1>22. CASE SlotRun
  BY <1>22, SlotRuns DEF TypeOK, SlotRun
<1>23. CASE SlotFree
  BY <1>23, LoopGoes DEF TypeOK, SlotFree, At, LoopAt
<1>24. CASE EntryLock
  BY <1>24, OtherGoto DEF TypeOK, EntryLock, At, AppAt, EntryAt
<1>25. CASE EntryRead
  BY <1>25, OtherGoto, MsgReadType DEF TypeOK, EntryRead, At, AppAt, EntryAt
<1>26. CASE EntryDone
  BY <1>26, OtherGoto, Returns, IncType DEF TypeOK, EntryDone, At, AppAt, EntryAt
<1>27. CASE RxIrqHandler
  BY <1>27, SpawnType, IncType DEF TypeOK, RxIrqHandler, StackOK, App
<1>28. CASE NwpExecute
  BY <1>28, AppendProperties DEF TypeOK, NwpExecute, StackOK, Messages
<1>29. CASE NwpAnswer
  BY <1>29, AppendProperties DEF TypeOK, NwpAnswer, StackOK, Messages
<1>30. CASE NwpEvent
  BY <1>30, AppendProperties DEF TypeOK, NwpEvent, StackOK, Messages
<1>31. CASE UNCHANGED vars
  BY <1>31 DEF TypeOK, vars, StackOK
<1> QED
  BY <1>1, <1>2, <1>3, <1>4, <1>5, <1>6, <1>7, <1>8, <1>9, <1>10, <1>11, <1>12, <1>13, <1>14, <1>15, <1>16, <1>17, <1>18, <1>19, <1>20, <1>21, <1>22, <1>23, <1>24, <1>25, <1>26, <1>27, <1>28, <1>29, <1>30, <1>31
     DEF Next, Thread, CmdOp, MainLoopTask

-------------------------------------------------------------------------------
(* Who holds the global lock *)

\* The running call is at l: it is the head of the stack.
LEMMA HeadAt ==
  ASSUME StackOK, NEW l, At(l)
  PROVE  1 \in DOMAIN stack /\ stack[1].at = l
BY OtherRuns DEF At

LEMMA LockStep == TypeOK /\ LockInv /\ [Next]_vars => LockInv'
<1> SUFFICES ASSUME TypeOK, LockInv, [Next]_vars PROVE LockInv'
  OBVIOUS
<1> USE DEF objs, counts, bus
<1>0. StackOK
  BY DEF TypeOK
<1>1. CASE AppMainLoop
  BY <1>0, <1>1, Waits, HeadAt
     DEF LockInv, CmdHolds, EntryHolds, AppMainLoop, WaitOn
<1>2. CASE CmdCtxWait
  BY <1>0, <1>2, Waits, HeadAt
     DEF LockInv, CmdHolds, EntryHolds, CmdCtxWait, WaitOn
<1>3. CASE AnswerWait
  BY <1>0, <1>3, Waits, HeadAt
     DEF LockInv, CmdHolds, EntryHolds, AnswerWait, WaitOn
<1>4. CASE EntryLockWait
  BY <1>0, <1>4, Waits, HeadAt
     DEF LockInv, CmdHolds, EntryHolds, EntryLockWait, WaitOn
<1>5. CASE AppCall
  BY <1>0, <1>5, AppRuns, AppGoes
     DEF LockInv, CmdHolds, EntryHolds, AppCall, AppAt
<1>6. CASE CmdOpLock
  BY <1>0, <1>6, AppRuns, AppGoes
     DEF LockInv, CmdHolds, EntryHolds, CmdOpLock, AppAt
<1>7. CASE CmdOpWrite
  BY <1>0, <1>7, AppRuns, AppGoes
     DEF LockInv, CmdHolds, EntryHolds, CmdOpWrite, AppAt
<1>8. CASE CmdCtxLeave
  BY <1>0, <1>8, AppRuns, AppGoes
     DEF LockInv, CmdHolds, EntryHolds, CmdCtxLeave, AppAt
<1>9. CASE CmdCtxRead
  BY <1>0, <1>9, AppRuns, AppGoes
     DEF LockInv, CmdHolds, EntryHolds, CmdCtxRead, AppAt
<1>10. CASE CmdCtxGoWait
  BY <1>0, <1>10, AppRuns, AppGoes
     DEF LockInv, CmdHolds, EntryHolds, CmdCtxGoWait, AppAt
<1>11. CASE CmdCtxWake
  BY <1>0, <1>11, AppRuns, AppGoes
     DEF LockInv, CmdHolds, EntryHolds, CmdCtxWake, AppAt
<1>12. CASE CmdCtxDone
  BY <1>0, <1>12, AppRuns, AppGoes
     DEF LockInv, CmdHolds, EntryHolds, CmdCtxDone, AppAt
<1>13. CASE CmdCtxEvent
  BY <1>0, <1>13, AppRuns, AppGoes
     DEF LockInv, CmdHolds, EntryHolds, CmdCtxEvent, AppAt
<1>14. CASE CmdCtxResponse
  BY <1>0, <1>14, AppRuns, AppGoes
     DEF LockInv, CmdHolds, EntryHolds, CmdCtxResponse, AppAt
<1>15. CASE CmdCtxClear
  BY <1>0, <1>15, AppRuns, AppGoes
     DEF LockInv, CmdHolds, EntryHolds, CmdCtxClear, AppAt
<1>16. CASE CmdCtxUnlock
  BY <1>0, <1>16, AppRuns, AppGoes
     DEF LockInv, CmdHolds, EntryHolds, CmdCtxUnlock, AppAt
<1>17. CASE CmdCtxReturn
  BY <1>0, <1>17, AppRuns, AppGoes
     DEF LockInv, CmdHolds, EntryHolds, CmdCtxReturn, AppAt
<1>18. CASE AnswerTaken
  BY <1>0, <1>18, AppRuns, AppGoes
     DEF LockInv, CmdHolds, EntryHolds, AnswerTaken, AppAt
<1>19. CASE CmdCtxClearLoop
  BY <1>0, <1>19, AppRuns, ClearLoops
     DEF LockInv, CmdHolds, EntryHolds, CmdCtxClearLoop, AppAt
<1>20. CASE SlotEmpty
  BY <1>0, <1>20, HeadAt, LoopGoes
     DEF LockInv, CmdHolds, EntryHolds, SlotEmpty, At, LoopAt
<1>21. CASE SlotIdle
  BY <1>0, <1>21, HeadAt, OtherGoto
     DEF LockInv, CmdHolds, EntryHolds, SlotIdle, Runs, At, AppAt, LoopAt
<1>22. CASE SlotRun
  <2>1. \A k \in DOMAIN stack : stack[k].at \notin EntryHolds
    BY <1>0, <1>22, HeadAt DEF LockInv, EntryHolds, SlotRun, Runs
  <2>2. \A k \in DOMAIN stack' : stack'[k].at \notin EntryHolds
    BY <1>0, <1>22, <2>1, SlotRuns DEF EntryHolds
  <2> QED
    BY <1>0, <1>22, <2>2, SlotRuns DEF LockInv, SlotRun
<1>23. CASE SlotFree
  BY <1>0, <1>23, HeadAt, LoopGoes
     DEF LockInv, CmdHolds, EntryHolds, SlotFree, At, LoopAt
<1>24. CASE EntryLock
  BY <1>0, <1>24, HeadAt, OtherGoto
     DEF LockInv, CmdHolds, EntryHolds, EntryLock, At, AppAt, EntryAt
<1>25. CASE EntryRead
  BY <1>0, <1>25, HeadAt, OtherGoto
     DEF LockInv, CmdHolds, EntryHolds, EntryRead, At, AppAt, EntryAt
<1>26. CASE EntryDone
  <2>1. 1 \in DOMAIN stack /\ stack[1].at = "rdone"
    BY <1>0, <1>26, HeadAt DEF EntryDone
  <2>2. App \notin CmdHolds
    BY <2>1 DEF LockInv, EntryHolds
  <2>3. CASE rx = "CMD"
    <3>1. Goto("assert") /\ Head(stack).at \notin AppAt
      BY <1>26, <2>3 DEF EntryDone, At, AppAt
    <3> QED
      BY <1>0, <2>2, <3>1, OtherGoto DEF LockInv, EntryHolds, EntryAt
  <2>4. CASE rx # "CMD"
    <3>1. Return /\ Head(stack).at \notin AppAt
      BY <1>26, <2>4 DEF EntryDone, At, AppAt
    <3>2. /\ StackOK' /\ App' = App
          /\ \A k \in DOMAIN stack' : k + 1 \in DOMAIN stack /\ stack'[k] = stack[k + 1]
      BY <1>0, <3>1, Returns
    <3>3. \A k \in DOMAIN stack' : k \in Nat /\ k # 0
      BY <3>2, LenProperties DEF StackOK
    <3>4. \A k \in DOMAIN stack' : stack'[k].at \notin EntryHolds
      BY <3>2, <3>3 DEF LockInv
    <3> QED
      BY <2>2, <3>2, <3>4 DEF LockInv
  <2> QED
    BY <2>3, <2>4
<1>27. CASE RxIrqHandler
  BY <1>0, <1>27
     DEF LockInv, CmdHolds, EntryHolds, RxIrqHandler, App
<1>28. CASE NwpExecute
  BY <1>0, <1>28
     DEF LockInv, CmdHolds, EntryHolds, NwpExecute, App
<1>29. CASE NwpAnswer
  BY <1>0, <1>29
     DEF LockInv, CmdHolds, EntryHolds, NwpAnswer, App
<1>30. CASE NwpEvent
  BY <1>0, <1>30
     DEF LockInv, CmdHolds, EntryHolds, NwpEvent, App
<1>31. CASE UNCHANGED vars
  BY <1>0, <1>31
     DEF LockInv, CmdHolds, EntryHolds, vars, App
<1> QED
  BY <1>1, <1>2, <1>3, <1>4, <1>5, <1>6, <1>7, <1>8, <1>9, <1>10, <1>11, <1>12, <1>13, <1>14, <1>15, <1>16, <1>17, <1>18, <1>19, <1>20, <1>21, <1>22, <1>23, <1>24, <1>25, <1>26, <1>27, <1>28, <1>29, <1>30, <1>31
     DEF Next, Thread, CmdOp, MainLoopTask

-------------------------------------------------------------------------------
(* Where the response is *)

\* The processor sends a message.
LEMMA Sends ==
  ASSUME TypeOK, SentOnce, NEW m \in Messages, out' = Append(out, m)
  PROVE  /\ Sent' <=> Sent \/ m = "CMD"
         /\ ~ Sent \/ m # "CMD" => SentOnce'
<1>1. /\ DOMAIN out = 1 .. Len(out) /\ Len(out) \in Nat
      /\ DOMAIN out' = 1 .. Len(out) + 1
      /\ out'[Len(out) + 1] = m
      /\ \A i \in 1 .. Len(out) : out'[i] = out[i]
  BY AppendProperties, LenProperties DEF TypeOK
<1> QED
  BY <1>1 DEF Sent, SentOnce

\* The host takes a message.
LEMMA Takes ==
  ASSUME TypeOK, SentOnce, out # <<>>, out' = Tail(out)
  PROVE  /\ Sent <=> Sent' \/ Head(out) = "CMD"
         /\ ~ (Sent' /\ Head(out) = "CMD")
         /\ SentOnce'
<1>1. /\ DOMAIN out = 1 .. Len(out) /\ Len(out) \in Nat /\ Len(out) >= 1
      /\ DOMAIN out' = 1 .. Len(out) - 1
      /\ Head(out) = out[1]
      /\ \A i \in 1 .. Len(out) - 1 : out'[i] = out[i + 1]
  BY HeadTailProperties, LenProperties DEF TypeOK
<1>2. \A i \in DOMAIN out' : i + 1 \in DOMAIN out /\ i + 1 # 1 /\ out'[i] = out[i + 1]
  BY <1>1
<1>3. \A i \in DOMAIN out : i # 1 => i - 1 \in DOMAIN out' /\ out'[i - 1] = out[i]
  BY <1>1
<1>4. 1 \in DOMAIN out
  BY <1>1
<1>5. SentOnce'
  BY <1>1, <1>2 DEF SentOnce
<1> QED
  BY <1>1, <1>2, <1>3, <1>4, <1>5 DEF Sent, SentOnce

\* Nothing is sent or taken.
LEMMA SameOut == ASSUME UNCHANGED out PROVE (Sent' <=> Sent) /\ (SentOnce' <=> SentOnce)
BY DEF Sent, SentOnce

LEMMA ResponseStep == IInv /\ [Next]_vars => ResponseInv'
<1> SUFFICES ASSUME IInv, [Next]_vars PROVE ResponseInv'
  OBVIOUS
<1> USE DEF objs, counts, bus
<1>0. StackOK /\ TypeOK /\ LockInv /\ ResponseInv
  BY DEF IInv, TypeOK
<1>1. CASE AppMainLoop
  BY <1>0, <1>1, SameOut, Waits, HeadAt
     DEF ResponseInv, Owed, Carried, AppMainLoop, WaitOn
<1>2. CASE CmdCtxWait
  BY <1>0, <1>2, SameOut, Waits, HeadAt
     DEF ResponseInv, Owed, Carried, CmdCtxWait, WaitOn
<1>3. CASE AnswerWait
  BY <1>0, <1>3, SameOut, Waits, HeadAt
     DEF ResponseInv, Owed, Carried, AnswerWait, WaitOn
<1>4. CASE EntryLockWait
  BY <1>0, <1>4, SameOut, Waits, HeadAt
     DEF ResponseInv, Owed, Carried, EntryLockWait, WaitOn
<1>5. CASE AppCall
  BY <1>0, <1>5, SameOut, AppRuns, AppGoes
     DEF ResponseInv, Owed, Carried, AppCall, AppAt
<1>6. CASE CmdOpLock
  BY <1>0, <1>6, SameOut, AppRuns, AppGoes
     DEF ResponseInv, Owed, Carried, CmdOpLock, AppAt
<1>7. CASE CmdOpWrite
  BY <1>0, <1>7, SameOut, AppRuns, AppGoes
     DEF ResponseInv, Owed, Carried, CmdOpWrite, AppAt, TypeOK
<1>8. CASE CmdCtxLeave
  BY <1>0, <1>8, SameOut, AppRuns, AppGoes
     DEF ResponseInv, Owed, Carried, CmdCtxLeave, AppAt
<1>9. CASE CmdCtxRead
  BY <1>0, <1>9, Takes, AppRuns, AppGoes
     DEF ResponseInv, Owed, Carried, CmdCtxRead, AppAt, MsgRead
<1>10. CASE CmdCtxGoWait
  BY <1>0, <1>10, SameOut, AppRuns, AppGoes
     DEF ResponseInv, Owed, Carried, CmdCtxGoWait, AppAt
<1>11. CASE CmdCtxWake
  BY <1>0, <1>11, SameOut, AppRuns, AppGoes
     DEF ResponseInv, Owed, Carried, CmdCtxWake, AppAt
<1>12. CASE CmdCtxDone
  BY <1>0, <1>12, SameOut, AppRuns, AppGoes
     DEF ResponseInv, Owed, Carried, CmdCtxDone, AppAt
<1>13. CASE CmdCtxEvent
  BY <1>0, <1>13, SameOut, AppRuns, AppGoes
     DEF ResponseInv, Owed, Carried, CmdCtxEvent, AppAt
<1>14. CASE CmdCtxResponse
  BY <1>0, <1>14, SameOut, AppRuns, AppGoes
     DEF ResponseInv, Owed, Carried, CmdCtxResponse, AppAt
<1>15. CASE CmdCtxClear
  BY <1>0, <1>15, SameOut, AppRuns, AppGoes
     DEF ResponseInv, Owed, Carried, CmdCtxClear, AppAt
<1>16. CASE CmdCtxUnlock
  BY <1>0, <1>16, SameOut, AppRuns, AppGoes
     DEF ResponseInv, Owed, Carried, CmdCtxUnlock, AppAt
<1>17. CASE CmdCtxReturn
  BY <1>0, <1>17, SameOut, AppRuns, AppGoes
     DEF ResponseInv, Owed, Carried, CmdCtxReturn, AppAt
<1>18. CASE AnswerTaken
  BY <1>0, <1>18, SameOut, AppRuns, AppGoes
     DEF ResponseInv, Owed, Carried, AnswerTaken, AppAt
<1>19. CASE CmdCtxClearLoop
  BY <1>0, <1>19, SameOut, AppRuns, ClearLoops
     DEF ResponseInv, Owed, Carried, CmdCtxClearLoop, AppAt
<1>20. CASE SlotEmpty
  BY <1>0, <1>20, SameOut, HeadAt, LoopGoes
     DEF ResponseInv, Owed, Carried, SlotEmpty, At, LoopAt
<1>21. CASE SlotIdle
  BY <1>0, <1>21, SameOut, HeadAt, OtherGoto
     DEF ResponseInv, Owed, Carried, SlotIdle, Runs, At, AppAt, LoopAt
<1>22. CASE SlotRun
  BY <1>0, <1>22, SameOut, HeadAt, SlotRuns
     DEF ResponseInv, Owed, Carried, SlotRun, Runs
<1>23. CASE SlotFree
  BY <1>0, <1>23, SameOut, HeadAt, LoopGoes
     DEF ResponseInv, Owed, Carried, SlotFree, At, LoopAt
<1>24. CASE EntryLock
  BY <1>0, <1>24, SameOut, HeadAt, OtherGoto
     DEF ResponseInv, Owed, Carried, EntryLock, At, AppAt, EntryAt
<1>25. CASE EntryRead
  BY <1>0, <1>25, Takes, HeadAt, OtherGoto
     DEF ResponseInv, Owed, Carried, EntryRead, MsgRead, LockInv, CmdHolds, EntryHolds, At, AppAt, EntryAt
<1>26. CASE EntryDone
  BY <1>0, <1>26, SameOut, HeadAt, Returns
     DEF ResponseInv, Owed, Carried, EntryDone, At, AppAt, EntryAt
<1>27. CASE RxIrqHandler
  BY <1>0, <1>27, SameOut
     DEF ResponseInv, Owed, Carried, RxIrqHandler, App
<1>28. CASE NwpExecute
  BY <1>0, <1>28, Sends
     DEF ResponseInv, Owed, Carried, NwpExecute, App, Kinds, Messages
<1>29. CASE NwpAnswer
  BY <1>0, <1>29, Sends
     DEF ResponseInv, Owed, Carried, NwpAnswer, App, Kinds, Messages
<1>30. CASE NwpEvent
  BY <1>0, <1>30, Sends
     DEF ResponseInv, Owed, Carried, NwpEvent, App, Messages
<1>31. CASE UNCHANGED vars
  BY <1>0, <1>31, SameOut
     DEF ResponseInv, Owed, Carried, vars, App
<1> QED
  BY <1>1, <1>2, <1>3, <1>4, <1>5, <1>6, <1>7, <1>8, <1>9, <1>10, <1>11, <1>12, <1>13, <1>14, <1>15, <1>16, <1>17, <1>18, <1>19, <1>20, <1>21, <1>22, <1>23, <1>24, <1>25, <1>26, <1>27, <1>28, <1>29, <1>30, <1>31
     DEF Next, Thread, CmdOp, MainLoopTask

-------------------------------------------------------------------------------
(* How a step changes the stack, frame by frame *)

Pushed(f) ==
  /\ DOMAIN stack' = 1 .. Len(stack) + 1
  /\ stack'[1] = f
  /\ \A k \in DOMAIN stack : stack'[k + 1] = stack[k]

Swapped(f) ==
  /\ DOMAIN stack' = DOMAIN stack
  /\ stack'[1] = f
  /\ \A k \in DOMAIN stack : k # 1 => stack'[k] = stack[k]

Popped ==
  /\ DOMAIN stack' = 1 .. Len(stack) - 1
  /\ \A k \in DOMAIN stack' : stack'[k] = stack[k + 1]

LEMMA Bounds ==
  ASSUME StackOK
  PROVE  Len(stack) \in Nat /\ Len(stack) >= 1 /\ DOMAIN stack = 1 .. Len(stack)
BY LenProperties DEF StackOK

\* The application goes on, with nothing on top of it before or after.
LEMMA AppAlone ==
  ASSUME StackOK, NEW l \in AppAt, At(l), NEW m \in AppAt, Goto(m)
  PROVE  /\ DOMAIN stack = {1} /\ stack[1].at = l /\ App = l
         /\ DOMAIN stack' = {1} /\ stack'[1].at = m /\ App' = m
<1>1. Len(stack) = 1 /\ App = l /\ stack[1].at = l
  BY AppRuns DEF At
<1>2. StackOK' /\ App' = m /\ \A k \in DOMAIN stack' : k = 1 /\ stack'[k].at = m
  BY AppGoes
<1>3. 1 \in DOMAIN stack'
  BY <1>2, LenProperties DEF StackOK
<1> QED
  BY <1>1, <1>2, <1>3, Bounds

\* A wait: the main loop is pushed.
LEMMA WaitPushes ==
  ASSUME StackOK, NEW l, WaitOn(l)
  PROVE  Pushed(MainLoop) /\ App' = App /\ stack[1].at = l
<1>1. /\ stack' \in Seq(Frame) /\ Len(stack') = Len(stack) + 1 /\ stack'[1] = MainLoop
      /\ \A k \in 2 .. Len(stack) + 1 : stack'[k] = stack[k - 1]
  BY MainLoopFrame, Push DEF WaitOn, Call, StackOK
<1>2. DOMAIN stack' = 1 .. Len(stack) + 1
  BY <1>1, LenProperties
<1>3. \A k \in DOMAIN stack : k + 1 \in 2 .. Len(stack) + 1 /\ (k + 1) - 1 = k
  BY Bounds
<1> QED
  BY <1>1, <1>2, <1>3, Waits, HeadAt DEF Pushed, WaitOn

\* The main loop under the lock: pushed on a command that is back in its loop.
LEMMA ClearPushes ==
  ASSUME StackOK, CmdCtxClearLoop
  PROVE  /\ DOMAIN stack = {1} /\ stack[1].at = "clear" /\ App = "clear" /\ App' = "loop"
         /\ 1 \in DOMAIN stack' /\ stack'[1] = MainLoop
         /\ \A k \in DOMAIN stack' : k # 1 => stack'[k].at = "loop"
<1> DEFINE g == [Head(stack) EXCEPT !.at = "loop"]
<1>1. Len(stack) = 1 /\ App = "clear" /\ stack[1].at = "clear"
  BY AppRuns DEF CmdCtxClearLoop, At, AppAt
<1>2. g \in Frame /\ g.at = "loop"
  BY OtherRuns, FrameAt DEF AppAt
<1>3. stack' = <<MainLoop, g>> \o Tail(stack)
  BY DEF CmdCtxClearLoop
<1> HIDE DEF g
<1>4. <<MainLoop, g>> \in Seq(Frame) /\ Len(<<MainLoop, g>>) = 2
      /\ <<MainLoop, g>>[1] = MainLoop /\ <<MainLoop, g>>[2] = g
  BY <1>2, MainLoopFrame
<1>5. /\ Tail(stack) \in Seq(Frame) /\ Len(Tail(stack)) = Len(stack) - 1
      /\ \A k \in 1 .. Len(stack) - 1 : Tail(stack)[k] = stack[k + 1]
  BY Bounds, Pop DEF StackOK
<1>6. /\ Len(stack') = Len(stack) + 1 /\ stack' \in Seq(Frame)
      /\ stack'[1] = MainLoop /\ stack'[2] = g
  BY <1>3, <1>4, <1>5, Bounds, ConcatProperties
<1>7. DOMAIN stack' = 1 .. 2
  BY <1>1, <1>6, LenProperties
<1> QED
  BY <1>1, <1>2, <1>6, <1>7, Bounds, ClearLoops

\* A frame that is not the application's goes on.
LEMMA OtherSwaps ==
  ASSUME StackOK, NEW f \in Frame, stack' = <<f>> \o Tail(stack)
  PROVE  Swapped(f)
<1>1. /\ stack' \in Seq(Frame) /\ Len(stack') = Len(stack) /\ stack'[1] = f
      /\ \A k \in 2 .. Len(stack) : stack'[k] = stack[k]
  BY Replace DEF StackOK
<1>2. DOMAIN stack' = DOMAIN stack
  BY <1>1, Bounds, LenProperties
<1> QED
  BY <1>1, <1>2, Bounds DEF Swapped

LEMMA GotoSwaps ==
  ASSUME StackOK, Head(stack).at \notin AppAt, NEW l \in LoopAt \cup EntryAt, Goto(l)
  PROVE  /\ Swapped([stack[1] EXCEPT !.at = l]) /\ App' = App
         /\ stack'[1].at = l /\ stack'[1].i = stack[1].i
<1> DEFINE f == [stack[1] EXCEPT !.at = l]
<1>1. f \in Frame /\ f.at = l /\ f.i = stack[1].i
  BY OtherRuns, FrameAt DEF Frame
<1>2. stack' = <<f>> \o Tail(stack)
  BY OtherRuns DEF Goto
<1> HIDE DEF f
<1>3. Swapped(f)
  BY <1>1, <1>2, OtherSwaps
<1> QED
  BY <1>1, <1>3, OtherGoto DEF Swapped, f

LEMMA ReturnPops == ASSUME StackOK, Return PROVE Popped
<1>1. /\ stack' \in Seq(Frame) /\ Len(stack') = Len(stack) - 1
      /\ \A k \in 1 .. Len(stack) - 1 : stack'[k] = stack[k + 1]
  BY Pop DEF Return, StackOK
<1> QED
  BY <1>1, LenProperties DEF Popped

\* The main loop goes on to the next slot, or returns.
LEMMA LoopMoves ==
  ASSUME StackOK, stack[1].i \in Slots, NextSlot
  PROVE  \/ Popped
         \/ \E n \in Slots : Swapped([at |-> "slot", i |-> n])
<1>1. Slot = stack[1].i
  BY OtherRuns DEF Slot
<1>2. CASE Slot = NONOS_MAX_SPAWN_ENTRIES
  BY <1>2, ReturnPops DEF NextSlot
<1>3. CASE Slot # NONOS_MAX_SPAWN_ENTRIES
  <2>1. Slot + 1 \in Slots
    BY <1>1, <1>3, NonOsAssumption DEF Slots
  <2> DEFINE f == [at |-> "slot", i |-> Slot + 1]
  <2>2. f \in Frame
    BY <2>1 DEF Frame, LoopAt
  <2>3. stack' = <<f>> \o Tail(stack)
    BY <1>3 DEF NextSlot
  <2> HIDE DEF f
  <2>4. Swapped(f)
    BY <2>2, <2>3, OtherSwaps
  <2> QED
    BY <2>1, <2>4 DEF f
<1> QED
  BY <1>2, <1>3

\* The main loop calls an entry.
LEMMA SlotPushes ==
  ASSUME StackOK, SlotRun
  PROVE  /\ DOMAIN stack' = 1 .. Len(stack) + 1
         /\ stack[1].at = "slot" /\ App' = App
         /\ stack'[1].at = "rlock"
         /\ stack'[2].at = "free" /\ stack'[2].i = stack[1].i
         /\ \A k \in DOMAIN stack : k # 1 => stack'[k + 1] = stack[k]
<1> DEFINE f == [at |-> "rlock", i |-> 0]
           g == [stack[1] EXCEPT !.at = "free"]
<1>1. f \in Frame /\ f.at = "rlock"
  BY DEF Frame, EntryAt
<1>2. g \in Frame /\ g.at = "free" /\ g.i = stack[1].i
  BY OtherRuns, FrameAt DEF LoopAt, Frame
<1>3. stack' = <<f, g>> \o Tail(stack) /\ stack[1].at = "slot"
  BY OtherRuns, HeadAt DEF SlotRun, Runs
<1> HIDE DEF f, g
<1>4. <<f, g>> \in Seq(Frame) /\ Len(<<f, g>>) = 2 /\ <<f, g>>[1] = f /\ <<f, g>>[2] = g
  BY <1>1, <1>2
<1>5. /\ Tail(stack) \in Seq(Frame) /\ Len(Tail(stack)) = Len(stack) - 1
      /\ \A k \in 1 .. Len(stack) - 1 : Tail(stack)[k] = stack[k + 1]
  BY Pop DEF StackOK
<1>6. /\ Len(stack') = Len(stack) + 1 /\ stack' \in Seq(Frame)
      /\ stack'[1] = f /\ stack'[2] = g
      /\ \A k \in 3 .. Len(stack) + 1 : stack'[k] = stack[k - 1]
  BY <1>3, <1>4, <1>5, Bounds, ConcatProperties
<1>7. DOMAIN stack' = 1 .. Len(stack) + 1
  BY <1>6, LenProperties
<1>8. \A k \in DOMAIN stack : k # 1 => k + 1 \in 3 .. Len(stack) + 1 /\ (k + 1) - 1 = k
  BY Bounds
<1> QED
  BY <1>1, <1>2, <1>3, <1>6, <1>7, <1>8, SlotRuns

-------------------------------------------------------------------------------
(* How calls nest *)

\* A call of the main loop by one that waits.
LEMMA NestPush ==
  ASSUME StackOK, NestInv, Pushed(MainLoop), App' = App, UNCHANGED GlobalLockObj,
         stack[1].at \in {"idle", "wait", "await", "rlock"},
         stack[1].at \in AppAt => App = stack[1].at,
         stack[1].at = "rlock" => App \in CmdHolds
  PROVE  NestInv'
<1> USE Bounds, MainLoopFrame
<1>1. \A k \in DOMAIN stack' : k = 1 \/ (k - 1 \in DOMAIN stack /\ stack'[k] = stack[k - 1])
  BY DEF Pushed
<1>2. MainLoop.i \in Slots
  BY NonOsAssumption DEF MainLoop, Slots
<1>3. App \in {"idle", "wait", "await", "loop"}
  BY DEF NestInv, AppAt
<1>4. \A k \in DOMAIN stack : k + 1 \in DOMAIN stack' /\ stack'[k + 1] = stack[k]
  BY DEF Pushed
<1>5. \A k \in DOMAIN stack' : stack'[k].at = "free" /\ k # 1 =>
        stack'[k - 1].at \in EntryHolds \cup {"rlock"}
  <2> SUFFICES ASSUME NEW k \in DOMAIN stack', stack'[k].at = "free", k # 1
               PROVE  stack'[k - 1].at \in EntryHolds \cup {"rlock"}
    OBVIOUS
  <2>1. k - 1 \in DOMAIN stack /\ stack[k - 1].at = "free" /\ k - 1 # 1
    BY <1>1
  <2>2. (k - 1) - 1 \in DOMAIN stack /\ ((k - 1) - 1) + 1 = k - 1
    BY <2>1
  <2> QED
    BY <1>4, <2>1, <2>2 DEF NestInv
<1>6. \A k \in DOMAIN stack' : stack'[k].at = "rlock" /\ k # 1 => App \in CmdHolds
  BY <1>1 DEF NestInv
<1>7. \A k \in DOMAIN stack' : stack'[k].at \in LoopAt => stack'[k].i \in Slots
  BY <1>1, <1>2 DEF NestInv, Pushed
<1>8. GlobalLockObj => App \in CmdHolds \/ \E k \in DOMAIN stack' : stack'[k].at \in EntryHolds
  BY <1>4 DEF NestInv
<1> QED
  BY <1>3, <1>5, <1>6, <1>7, <1>8 DEF NestInv

\* The running call, on top of others, goes on.
LEMMA NestSwap ==
  ASSUME StackOK, NestInv, NEW f, Swapped(f), App' = App,
         stack[1].at \notin AppAt, f.at \in LoopAt => f.i \in Slots,
         stack[1].at \in EntryHolds \cup {"rlock"} => f.at \in EntryHolds \cup {"rlock"},
         GlobalLockObj' => App \in CmdHolds \/ \E k \in DOMAIN stack' : stack'[k].at \in EntryHolds
  PROVE  NestInv'
<1> USE Bounds
<1>1. 1 \in DOMAIN stack /\ DOMAIN stack' = DOMAIN stack /\ stack'[1] = f
      /\ \A k \in DOMAIN stack : k # 1 => stack'[k] = stack[k]
  BY DEF Swapped
<1>2. App \in {"idle", "wait", "await", "loop"}
  BY <1>1 DEF NestInv
<1>3. \A k \in DOMAIN stack' : stack'[k].at = "free" /\ k # 1 =>
        stack'[k - 1].at \in EntryHolds \cup {"rlock"}
  <2> SUFFICES ASSUME NEW k \in DOMAIN stack', stack'[k].at = "free", k # 1
               PROVE  stack'[k - 1].at \in EntryHolds \cup {"rlock"}
    OBVIOUS
  <2>1. k \in DOMAIN stack /\ k - 1 \in DOMAIN stack
        /\ stack[k - 1].at \in EntryHolds \cup {"rlock"}
    BY <1>1 DEF NestInv
  <2> QED
    BY <1>1, <2>1
<1> QED
  BY <1>1, <1>2, <1>3 DEF NestInv

\* The running call, on top of others, returns.
LEMMA NestPop ==
  ASSUME StackOK, NestInv, Popped, App' = App, stack[1].at \notin AppAt,
         GlobalLockObj' => App \in CmdHolds \/ \E k \in DOMAIN stack' : stack'[k].at \in EntryHolds
  PROVE  NestInv'
<1> USE Bounds
<1>1. \A k \in DOMAIN stack' : k + 1 \in DOMAIN stack /\ k + 1 # 1 /\ stack'[k] = stack[k + 1]
  BY DEF Popped
<1>2. App \in {"idle", "wait", "await", "loop"}
  BY DEF NestInv
<1>3. \A k \in DOMAIN stack' : stack'[k].at = "free" /\ k # 1 =>
        stack'[k - 1].at \in EntryHolds \cup {"rlock"}
  <2> SUFFICES ASSUME NEW k \in DOMAIN stack', stack'[k].at = "free", k # 1
               PROVE  stack'[k - 1].at \in EntryHolds \cup {"rlock"}
    OBVIOUS
  <2>1. k - 1 \in DOMAIN stack' /\ (k - 1) + 1 = k /\ (k + 1) - 1 = k
    BY DEF Popped
  <2>2. k + 1 \in DOMAIN stack /\ k + 1 # 1 /\ stack[k + 1].at = "free"
    BY <1>1
  <2>3. stack[k].at \in EntryHolds \cup {"rlock"}
    BY <2>1, <2>2 DEF NestInv
  <2>4. stack'[k - 1] = stack[k]
    BY <2>1, <1>1
  <2> QED
    BY <2>3, <2>4
<1>4. \A k \in DOMAIN stack' : stack'[k].at = "rlock" /\ k # 1 => App \in CmdHolds
  BY <1>1 DEF NestInv
<1>5. \A k \in DOMAIN stack' : stack'[k].at \in LoopAt => stack'[k].i \in Slots
  BY <1>1 DEF NestInv
<1> QED
  BY <1>2, <1>3, <1>4, <1>5 DEF NestInv

\* The main loop calls an entry.
LEMMA NestEnter ==
  ASSUME StackOK, NestInv, SlotRun
  PROVE  NestInv'
<1> USE Bounds
<1>1. /\ DOMAIN stack' = 1 .. Len(stack) + 1
      /\ stack[1].at = "slot" /\ App' = App
      /\ stack'[1].at = "rlock"
      /\ stack'[2].at = "free" /\ stack'[2].i = stack[1].i
      /\ \A k \in DOMAIN stack : k # 1 => stack'[k + 1] = stack[k]
  BY SlotPushes
<1>2. \A k \in DOMAIN stack' :
        k \in {1, 2} \/ (k - 1 \in DOMAIN stack /\ k - 1 # 1 /\ stack'[k] = stack[k - 1])
  <2> SUFFICES ASSUME NEW k \in DOMAIN stack', k \notin {1, 2}
               PROVE  k - 1 \in DOMAIN stack /\ k - 1 # 1 /\ stack'[k] = stack[k - 1]
    OBVIOUS
  <2>1. k - 1 \in DOMAIN stack /\ k - 1 # 1 /\ (k - 1) + 1 = k
    BY <1>1
  <2> QED
    BY <1>1, <2>1
<1>3. App \in {"idle", "wait", "await", "loop"}
  BY <1>1 DEF NestInv, AppAt
<1>4. \A k \in DOMAIN stack' : stack'[k].at = "free" /\ k # 1 =>
        stack'[k - 1].at \in EntryHolds \cup {"rlock"}
  <2> SUFFICES ASSUME NEW k \in DOMAIN stack', stack'[k].at = "free", k # 1
               PROVE  stack'[k - 1].at \in EntryHolds \cup {"rlock"}
    OBVIOUS
  <2>1. CASE k = 2
    BY <1>1, <2>1
  <2>2. CASE k # 2
    <3>1. k - 1 \in DOMAIN stack /\ k - 1 # 1 /\ stack[k - 1].at = "free"
      BY <1>2, <2>2
    <3>2. stack[(k - 1) - 1].at \in EntryHolds \cup {"rlock"}
      BY <3>1 DEF NestInv
    <3>3. (k - 1) - 1 \in DOMAIN stack /\ ((k - 1) - 1) + 1 = k - 1
      BY <3>1
    <3>4. (k - 1) - 1 # 1
      BY <1>1, <3>2 DEF EntryHolds
    <3> QED
      BY <1>1, <3>2, <3>3, <3>4
  <2> QED
    BY <2>1, <2>2
<1>5. stack[1].i \in Slots
  BY <1>1 DEF NestInv, LoopAt
<1>6. \A k \in DOMAIN stack' : stack'[k].at \in LoopAt => stack'[k].i \in Slots
  BY <1>1, <1>2, <1>5 DEF NestInv, LoopAt
<1>7. \A k \in DOMAIN stack' : stack'[k].at = "rlock" /\ k # 1 => App \in CmdHolds
  BY <1>1, <1>2 DEF NestInv
<1>8. GlobalLockObj => App \in CmdHolds \/ \E k \in DOMAIN stack' : stack'[k].at \in EntryHolds
  <2>1. \A k \in DOMAIN stack : k # 1 => k + 1 \in DOMAIN stack' /\ stack'[k + 1] = stack[k]
    BY <1>1
  <2> QED
    BY <1>1, <2>1 DEF NestInv, EntryHolds
<1>9. UNCHANGED GlobalLockObj
  BY DEF SlotRun, objs
<1> QED
  BY <1>1, <1>3, <1>4, <1>6, <1>7, <1>8, <1>9 DEF NestInv

\* Every step keeps the nesting.
LEMMA NestStep == IInv /\ NestInv /\ [Next]_vars => NestInv'
<1> SUFFICES ASSUME IInv, NestInv, [Next]_vars PROVE NestInv'
  OBVIOUS
<1> USE DEF objs, counts, bus
<1>0. StackOK /\ LockInv /\ ResponseInv /\ 1 \in DOMAIN stack /\ Head(stack) = stack[1]
  BY OtherRuns DEF IInv, TypeOK
<1>1. CASE AppMainLoop \/ CmdCtxWait \/ AnswerWait \/ EntryLockWait
  <2>1. PICK l \in {"idle", "wait", "await", "rlock"} :
          WaitOn(l) /\ (l = "rlock" => GlobalLockObj)
    BY <1>1 DEF AppMainLoop, CmdCtxWait, AnswerWait, EntryLockWait
  <2>2. Pushed(MainLoop) /\ App' = App /\ stack[1].at = l
    BY <1>0, <2>1, WaitPushes
  <2>3. l \in AppAt => App = l
    BY <1>0, <2>1, AppRuns DEF WaitOn
  <2>4. l = "rlock" => App \in CmdHolds
    <3> SUFFICES ASSUME l = "rlock" PROVE App \in CmdHolds
      OBVIOUS
    <3>1. \A k \in DOMAIN stack : stack[k].at \notin EntryHolds
      BY <1>0, <2>2 DEF LockInv, EntryHolds
    <3> QED
      BY <2>1, <3>1 DEF NestInv
  <2> QED
    BY <1>0, <2>1, <2>2, <2>3, <2>4, NestPush DEF WaitOn
<1>2. CASE \/ AppCall \/ CmdOpLock \/ CmdOpWrite \/ CmdCtxLeave \/ CmdCtxRead
           \/ CmdCtxGoWait \/ CmdCtxWake \/ CmdCtxDone \/ CmdCtxEvent
           \/ CmdCtxResponse \/ CmdCtxClear \/ CmdCtxUnlock \/ CmdCtxReturn
           \/ AnswerTaken
  <2>1. PICK l \in AppAt, m \in AppAt : At(l) /\ Goto(m)
          /\ (GlobalLockObj' => m \in CmdHolds \/ (GlobalLockObj /\ l \notin CmdHolds))
    BY <1>2 DEF AppCall, CmdOpLock, CmdOpWrite, CmdCtxLeave, CmdCtxRead, CmdCtxGoWait,
       CmdCtxWake, CmdCtxDone, CmdCtxEvent, CmdCtxResponse, CmdCtxClear, CmdCtxUnlock,
       CmdCtxReturn, AnswerTaken, AppAt, CmdHolds
  <2>2. /\ DOMAIN stack = {1} /\ stack[1].at = l /\ App = l
        /\ DOMAIN stack' = {1} /\ stack'[1].at = m /\ App' = m
    BY <1>0, <2>1, AppAlone
  <2>3. l \notin EntryHolds /\ m \notin LoopAt
    BY <2>1 DEF AppAt, EntryHolds, LoopAt
  <2>4. GlobalLockObj' => m \in CmdHolds
    BY <2>1, <2>2, <2>3 DEF NestInv
  <2> QED
    BY <2>1, <2>2, <2>3, <2>4 DEF NestInv
<1>3. CASE CmdCtxClearLoop
  <2>1. /\ App' = "loop" /\ stack'[1] = MainLoop
        /\ \A k \in DOMAIN stack' : k # 1 => stack'[k].at = "loop"
    BY <1>0, <1>3, ClearPushes
  <2>2. MainLoop.at = "slot" /\ MainLoop.i \in Slots
    BY NonOsAssumption DEF MainLoop, Slots
  <2> QED
    BY <2>1, <2>2 DEF NestInv, LoopAt, CmdHolds
<1>4. CASE SlotEmpty \/ SlotFree
  <2>1. stack[1].at \in LoopAt /\ NextSlot /\ UNCHANGED GlobalLockObj
    BY <1>0, <1>4 DEF SlotEmpty, SlotFree, At, LoopAt
  <2>2. App' = App
    BY <1>0, <2>1, LoopGoes
  <2>3. stack[1].i \in Slots
    BY <1>0, <2>1 DEF NestInv
  <2>4. stack[1].at \notin AppAt /\ stack[1].at \notin EntryHolds \cup {"rlock"}
    BY <2>1 DEF LoopAt, AppAt, EntryHolds
  <2>5. GlobalLockObj => App \in CmdHolds
    BY <2>4 DEF NestInv, LockInv, IInv
  <2>6. CASE Popped
    BY <1>0, <2>1, <2>2, <2>4, <2>5, <2>6, NestPop
  <2>7. CASE \E n \in Slots : Swapped([at |-> "slot", i |-> n])
    BY <1>0, <2>1, <2>2, <2>4, <2>5, <2>7, NestSwap
  <2> QED
    BY <1>0, <2>1, <2>3, <2>6, <2>7, LoopMoves
<1>5. CASE SlotIdle
  <2>1. stack[1].at = "slot" /\ Goto("free") /\ UNCHANGED GlobalLockObj
    BY <1>0, <1>5 DEF SlotIdle, Runs, At
  <2>2. stack[1].at \notin AppAt /\ stack[1].at \notin EntryHolds \cup {"rlock"}
    BY <2>1 DEF AppAt, EntryHolds
  <2>3. Swapped([stack[1] EXCEPT !.at = "free"]) /\ App' = App
        /\ stack'[1].at = "free" /\ stack'[1].i = stack[1].i
    BY <1>0, <2>1, <2>2, GotoSwaps DEF LoopAt
  <2>4. stack[1].i \in Slots
    BY <1>0, <2>1 DEF NestInv, LoopAt
  <2>5. GlobalLockObj => App \in CmdHolds
    BY <2>2 DEF NestInv, LockInv, IInv
  <2>6. PICK f : Swapped(f) /\ f = stack'[1]
    BY <2>3 DEF Swapped
  <2> QED
    BY <1>0, <2>1, <2>2, <2>3, <2>4, <2>5, <2>6, NestSwap
<1>6. CASE SlotRun
  BY <1>0, <1>6, NestEnter
<1>7. CASE EntryLock \/ EntryRead \/ (EntryDone /\ rx = "CMD")
  <2>1. PICK m \in EntryHolds : Goto(m)
    BY <1>7 DEF EntryLock, EntryRead, EntryDone, EntryHolds
  <2>2. stack[1].at \in EntryHolds \cup {"rlock"} /\ stack[1].at \notin AppAt
    BY <1>0, <1>7 DEF EntryLock, EntryRead, EntryDone, At, EntryHolds, AppAt
  <2>3. Swapped([stack[1] EXCEPT !.at = m]) /\ App' = App /\ stack'[1].at = m
    BY <1>0, <2>1, <2>2, GotoSwaps DEF EntryHolds, EntryAt
  <2>4. PICK f : Swapped(f) /\ f.at = m
    BY <2>3 DEF Swapped
  <2>5. \E k \in DOMAIN stack' : stack'[k].at \in EntryHolds
    BY <1>0, <2>3 DEF Swapped
  <2>6. m \notin LoopAt
    BY <2>1 DEF EntryHolds, LoopAt
  <2> QED
    BY <1>0, <2>1, <2>2, <2>3, <2>4, <2>5, <2>6, NestSwap
<1>8. CASE EntryDone /\ rx # "CMD"
  <2>1. Return /\ ~ GlobalLockObj' /\ stack[1].at = "rdone"
    BY <1>0, <1>8 DEF EntryDone, At
  <2>2. Popped /\ stack[1].at \notin AppAt
    BY <1>0, <2>1, ReturnPops DEF AppAt
  <2>3. App' = App
    BY <1>0, <2>1, <2>2, Returns
  <2> QED
    BY <1>0, <2>1, <2>2, <2>3, NestPop
<1>9. CASE RxIrqHandler \/ NwpExecute \/ NwpAnswer \/ NwpEvent \/ UNCHANGED vars
  <2>1. UNCHANGED <<stack, GlobalLockObj>>
    BY <1>9 DEF RxIrqHandler, NwpExecute, NwpAnswer, NwpEvent, vars
  <2> QED
    BY <2>1 DEF NestInv, App
<1> QED
  BY <1>1, <1>2, <1>3, <1>4, <1>5, <1>6, <1>7, <1>8, <1>9
     DEF Next, Thread, CmdOp, MainLoopTask

-------------------------------------------------------------------------------
(* Mask and counters *)

\* Only the running call can be between a read and its count.
LEMMA NoReading ==
  ASSUME StackOK, LockInv, App # "done", stack[1].at # "rdone"
  PROVE  ~ Reading
BY DEF Reading, LockInv, EntryHolds

LEMMA IncSteps == ASSUME NEW c \in 0 .. CntMod - 1 PROVE Inc(c) # c /\ Inc(Inc(c)) # c
BY NonOsAssumption DEF Inc

\* The mask says whether a message is pending, when none is being read.
LEMMA PendingIsMasked ==
  ASSUME TypeOK, Handshake, ~ Reading
  PROVE  Pending <=> irqMasked
BY IncSteps DEF Handshake, Pending, TypeOK

LEMMA MaskedIsPending == ASSUME TypeOK, Handshake, irqMasked PROVE Pending
BY IncSteps DEF Handshake, Pending, TypeOK

\* Steps that neither read nor count leave the handshake alone.
LEMMA HandshakeQuiet ==
  ASSUME Handshake, UNCHANGED <<counts, irqMasked, out>>, Reading' <=> Reading
  PROVE  Handshake'
BY DEF Handshake, counts

LEMMA HandshakeStep == IInv /\ ReaderInv /\ [Next]_vars => Handshake'
<1> SUFFICES ASSUME IInv, ReaderInv, [Next]_vars PROVE Handshake'
  OBVIOUS
<1> USE DEF objs, counts, bus
<1>0. /\ StackOK /\ TypeOK /\ LockInv /\ ResponseInv /\ Handshake /\ NestInv
      /\ 1 \in DOMAIN stack /\ Head(stack) = stack[1]
  BY OtherRuns DEF IInv, TypeOK, ReaderInv
<1>1. CASE AppMainLoop \/ CmdCtxWait \/ AnswerWait \/ EntryLockWait
  <2>1. PICK l \in {"idle", "wait", "await", "rlock"} : WaitOn(l)
    BY <1>1 DEF AppMainLoop, CmdCtxWait, AnswerWait, EntryLockWait
  <2>2. stack[1].at = l
    BY <1>0, <2>1, WaitPushes
  <2>3. \A k \in DOMAIN stack : stack[k].at # "rdone"
    BY <1>0, <2>2 DEF LockInv, EntryHolds
  <2>4. App' = App /\ \A k \in DOMAIN stack' : stack'[k].at # "rdone"
    BY <1>0, <2>1, <2>3, Waits
  <2>5. Reading' <=> Reading
    BY <2>3, <2>4 DEF Reading
  <2> QED
    BY <1>0, <2>1, <2>5, HandshakeQuiet DEF WaitOn
<1>2. CASE \/ AppCall \/ CmdOpLock \/ CmdOpWrite \/ CmdCtxLeave
           \/ CmdCtxGoWait \/ CmdCtxWake \/ CmdCtxEvent
           \/ CmdCtxResponse \/ CmdCtxClear \/ CmdCtxUnlock \/ CmdCtxReturn
           \/ AnswerTaken
  <2>1. PICK l \in AppAt \ {"done"}, m \in AppAt \ {"done"} : At(l) /\ Goto(m)
    BY <1>2 DEF AppCall, CmdOpLock, CmdOpWrite, CmdCtxLeave, CmdCtxGoWait,
       CmdCtxWake, CmdCtxEvent, CmdCtxResponse, CmdCtxClear, CmdCtxUnlock,
       CmdCtxReturn, AnswerTaken, AppAt
  <2>2. /\ DOMAIN stack = {1} /\ stack[1].at = l /\ App = l
        /\ DOMAIN stack' = {1} /\ stack'[1].at = m /\ App' = m
    BY <1>0, <2>1, AppAlone
  <2>3. Reading' <=> Reading
    BY <2>1, <2>2 DEF Reading, AppAt
  <2>4. UNCHANGED <<counts, irqMasked, out>>
    BY <1>2 DEF AppCall, CmdOpLock, CmdOpWrite, CmdCtxLeave, CmdCtxGoWait,
       CmdCtxWake, CmdCtxEvent, CmdCtxResponse, CmdCtxClear, CmdCtxUnlock,
       CmdCtxReturn, AnswerTaken
  <2> QED
    BY <1>0, <2>3, <2>4, HandshakeQuiet
<1>3. CASE CmdCtxRead
  <2>1. /\ DOMAIN stack = {1} /\ stack[1].at = "loop" /\ App = "loop"
        /\ DOMAIN stack' = {1} /\ stack'[1].at = "done" /\ App' = "done"
    BY <1>0, <1>3, AppAlone DEF CmdCtxRead, AppAt
  <2>2. ~ Reading /\ Reading'
    BY <2>1 DEF Reading
  <2>3. irqMasked
    BY <1>0, <1>3, <2>2, PendingIsMasked DEF CmdCtxRead
  <2> QED
    BY <1>0, <1>3, <2>2, <2>3 DEF Handshake, CmdCtxRead, MsgRead
<1>4. CASE CmdCtxDone
  <2>1. /\ DOMAIN stack = {1} /\ stack[1].at = "done" /\ App = "done"
        /\ DOMAIN stack' = {1} /\ stack'[1].at = "class" /\ App' = "class"
    BY <1>0, <1>4, AppAlone DEF CmdCtxDone, AppAt
  <2>2. Reading /\ ~ Reading'
    BY <2>1 DEF Reading
  <2> QED
    BY <1>0, <1>4, <2>2 DEF Handshake, CmdCtxDone
<1>5. CASE CmdCtxClearLoop
  <2>1. /\ DOMAIN stack = {1} /\ stack[1].at = "clear" /\ App = "clear" /\ App' = "loop"
        /\ \A k \in DOMAIN stack' : stack'[k].at \in {"slot", "loop"}
    BY <1>0, <1>5, ClearPushes, ClearLoops
  <2>2. Reading' <=> Reading
    BY <2>1 DEF Reading
  <2> QED
    BY <1>0, <1>5, <2>2, HandshakeQuiet DEF CmdCtxClearLoop
<1>6. CASE SlotEmpty \/ SlotIdle \/ SlotRun \/ SlotFree \/ EntryLock
  <2>1. stack[1].at \in {"slot", "free", "rlock"}
    BY <1>0, <1>6 DEF SlotEmpty, SlotIdle, SlotRun, Runs, SlotFree, EntryLock, At
  <2>2. \A k \in DOMAIN stack : stack[k].at # "rdone"
    BY <1>0, <2>1 DEF LockInv, EntryHolds
  <2>3. App' = App /\ \A k \in DOMAIN stack' : stack'[k].at # "rdone"
    <3>1. CASE SlotEmpty \/ SlotFree
      BY <1>0, <2>2, <3>1, LoopGoes DEF SlotEmpty, SlotFree, At, LoopAt
    <3>2. CASE SlotIdle
      BY <1>0, <2>2, <3>2, OtherGoto DEF SlotIdle, Runs, At, LoopAt, AppAt
    <3>3. CASE SlotRun
      BY <1>0, <2>2, <3>3, SlotRuns
    <3>4. CASE EntryLock
      BY <1>0, <2>2, <3>4, OtherGoto DEF EntryLock, At, EntryAt, AppAt
    <3> QED
      BY <1>6, <3>1, <3>2, <3>3, <3>4
  <2>4. Reading' <=> Reading
    BY <2>2, <2>3 DEF Reading
  <2>5. UNCHANGED <<counts, irqMasked, out>>
    BY <1>6 DEF SlotEmpty, SlotIdle, SlotRun, SlotFree, EntryLock
  <2> QED
    BY <1>0, <2>4, <2>5, HandshakeQuiet
<1>7. CASE EntryRead
  <2>1. stack[1].at = "rcheck"
    BY <1>0, <1>7 DEF EntryRead, At
  <2>2. App \notin CmdHolds
    BY <1>0, <2>1 DEF LockInv, EntryHolds
  <2>3. ~ Reading
    BY <1>0, <2>1, <2>2, NoReading DEF CmdHolds
  <2>4. Goto("rdone") /\ stack[1].at \notin AppAt
    BY <1>7, <2>1 DEF EntryRead, AppAt
  <2>5. 1 \in DOMAIN stack' /\ stack'[1].at = "rdone"
    BY <1>0, <2>4, GotoSwaps DEF EntryAt, Swapped
  <2>6. Reading'
    BY <2>5 DEF Reading
  <2>7. irqMasked
    BY <1>0, <1>7, <2>3, PendingIsMasked DEF EntryRead
  <2> QED
    BY <1>0, <1>7, <2>3, <2>6, <2>7 DEF Handshake, EntryRead, MsgRead
<1>8. CASE EntryDone
  <2>1. stack[1].at = "rdone"
    BY <1>0, <1>8 DEF EntryDone, At
  <2>2. Reading /\ rx # "CMD" /\ App # "done"
    BY <1>0, <2>1 DEF Reading, ResponseInv, LockInv, EntryHolds, CmdHolds
  <2>3. Return /\ stack[1].at \notin AppAt
    BY <1>8, <2>1, <2>2 DEF EntryDone, AppAt
  <2>4. App' = App /\ \A k \in DOMAIN stack' :
          k + 1 \in DOMAIN stack /\ k + 1 # 1 /\ stack'[k] = stack[k + 1]
    <3>1. Popped /\ App' = App
      BY <1>0, <2>3, ReturnPops, Returns
    <3> QED
      BY <1>0, <3>1, Bounds DEF Popped
  <2>5. ~ Reading'
    BY <1>0, <2>2, <2>4 DEF Reading, LockInv, EntryHolds
  <2> QED
    BY <1>0, <1>8, <2>2, <2>5 DEF Handshake, EntryDone
<1>9. CASE RxIrqHandler
  <2>1. Reading' <=> Reading
    BY <1>9 DEF Reading, RxIrqHandler, App
  <2> QED
    BY <1>0, <1>9, <2>1 DEF Handshake, RxIrqHandler
<1>10. CASE NwpExecute \/ NwpAnswer \/ NwpEvent
  <2>1. Reading' <=> Reading
    BY <1>10 DEF Reading, NwpExecute, NwpAnswer, NwpEvent, App
  <2>2. PICK m \in Messages : out' = Append(out, m)
    BY <1>10 DEF NwpExecute, NwpAnswer, NwpEvent, Messages
  <2>3. out' # <<>>
    BY <1>0, <2>2, AppendProperties DEF TypeOK
  <2>4. UNCHANGED <<counts, irqMasked>>
    BY <1>10 DEF NwpExecute, NwpAnswer, NwpEvent
  <2> QED
    BY <1>0, <2>1, <2>3, <2>4 DEF Handshake
<1>11. CASE UNCHANGED vars
  BY <1>0, <1>11 DEF Handshake, Reading, App, vars
<1> QED
  BY <1>1, <1>2, <1>3, <1>4, <1>5, <1>6, <1>7, <1>8, <1>9, <1>10, <1>11
     DEF Next, Thread, CmdOp, MainLoopTask

\* The interrupt signals the semaphore only while a command is in its loop.
LEMMA FlagStep == IInv /\ FlagHasCommand /\ [Next]_vars => FlagHasCommand'
<1> SUFFICES ASSUME IInv, FlagHasCommand, [Next]_vars PROVE FlagHasCommand'
  OBVIOUS
<1> USE DEF objs, counts, bus
<1>0. StackOK
  BY DEF IInv, TypeOK
<1>1. CASE AppMainLoop \/ CmdCtxWait \/ AnswerWait \/ EntryLockWait
  BY <1>0, <1>1, Waits DEF FlagHasCommand, AppMainLoop, CmdCtxWait, AnswerWait,
     EntryLockWait, WaitOn
<1>2. CASE \/ AppCall \/ CmdOpLock \/ CmdOpWrite \/ CmdCtxLeave \/ CmdCtxRead
           \/ CmdCtxGoWait \/ CmdCtxWake \/ CmdCtxDone \/ CmdCtxEvent
           \/ CmdCtxResponse \/ CmdCtxClear \/ CmdCtxUnlock \/ CmdCtxReturn
           \/ AnswerTaken
  <2>1. PICK l \in AppAt, m \in AppAt : At(l) /\ Goto(m)
          /\ \/ ~ IsCmdRespWaited'
             \/ m \in {"write", "loop", "wait", "done", "class"}
             \/ IsCmdRespWaited /\ l \notin {"write", "loop", "wait", "done", "class"}
    BY <1>2 DEF AppCall, CmdOpLock, CmdOpWrite, CmdCtxLeave, CmdCtxRead, CmdCtxGoWait,
       CmdCtxWake, CmdCtxDone, CmdCtxEvent, CmdCtxResponse, CmdCtxClear, CmdCtxUnlock,
       CmdCtxReturn, AnswerTaken, AppAt
  <2>2. App = l /\ App' = m
    BY <1>0, <2>1, AppAlone
  <2> QED
    BY <2>1, <2>2 DEF FlagHasCommand
<1>3. CASE CmdCtxClearLoop
  BY <1>0, <1>3, ClearPushes DEF FlagHasCommand, CmdCtxClearLoop
<1>4. CASE MainLoopTask /\ ~ EntryLockWait
  <2>1. App' = App
    <3>1. CASE SlotEmpty \/ SlotFree
      BY <1>0, <3>1, LoopGoes DEF SlotEmpty, SlotFree, At, LoopAt
    <3>2. CASE SlotIdle
      BY <1>0, <3>2, OtherGoto DEF SlotIdle, Runs, At, LoopAt, AppAt
    <3>3. CASE SlotRun
      BY <1>0, <3>3, SlotRuns
    <3>4. CASE EntryLock
      BY <1>0, <3>4, OtherGoto DEF EntryLock, At, EntryAt, AppAt
    <3>5. CASE EntryRead
      BY <1>0, <3>5, OtherGoto DEF EntryRead, At, EntryAt, AppAt
    <3>6. CASE EntryDone
      BY <1>0, <3>6, OtherGoto, Returns DEF EntryDone, At, EntryAt, AppAt
    <3> QED
      BY <1>4, <3>1, <3>2, <3>3, <3>4, <3>5, <3>6 DEF MainLoopTask
  <2>2. UNCHANGED IsCmdRespWaited
    BY <1>4 DEF MainLoopTask, SlotEmpty, SlotIdle, SlotRun, SlotFree, EntryLock, EntryRead,
       EntryDone
  <2> QED
    BY <2>1, <2>2 DEF FlagHasCommand
<1>5. CASE RxIrqHandler \/ NwpExecute \/ NwpAnswer \/ NwpEvent \/ UNCHANGED vars
  BY <1>5 DEF FlagHasCommand, App, RxIrqHandler, NwpExecute, NwpAnswer, NwpEvent, vars
<1> QED
  BY <1>1, <1>2, <1>3, <1>4, <1>5 DEF Next, Thread, CmdOp, MainLoopTask

\* An entry is called for an announced message, which stays announced until the
\* entry has read it.
LEMMA CalledStep == IInv /\ ReaderInv /\ [Next]_vars => CalledForMessage'
<1> SUFFICES ASSUME IInv, ReaderInv, [Next]_vars PROVE CalledForMessage'
  OBVIOUS
<1> USE DEF objs, counts, bus
<1>0. /\ StackOK /\ TypeOK /\ LockInv /\ Handshake /\ NestInv /\ CalledForMessage
      /\ 1 \in DOMAIN stack /\ Head(stack) = stack[1]
  BY OtherRuns DEF IInv, TypeOK, ReaderInv
<1>1. CASE AppMainLoop \/ CmdCtxWait \/ AnswerWait \/ EntryLockWait
  <2>1. PICK l : WaitOn(l)
    BY <1>1 DEF AppMainLoop, CmdCtxWait, AnswerWait, EntryLockWait
  <2> QED
    BY <1>0, <2>1, Waits DEF CalledForMessage, WaitOn
<1>2. CASE \/ AppCall \/ CmdOpLock \/ CmdOpWrite \/ CmdCtxLeave \/ CmdCtxRead
           \/ CmdCtxGoWait \/ CmdCtxWake \/ CmdCtxDone \/ CmdCtxEvent
           \/ CmdCtxResponse \/ CmdCtxClear \/ CmdCtxUnlock \/ CmdCtxReturn
           \/ AnswerTaken
  <2>1. PICK l \in AppAt, m \in AppAt : At(l) /\ Goto(m)
    BY <1>2 DEF AppCall, CmdOpLock, CmdOpWrite, CmdCtxLeave, CmdCtxRead, CmdCtxGoWait,
       CmdCtxWake, CmdCtxDone, CmdCtxEvent, CmdCtxResponse, CmdCtxClear, CmdCtxUnlock,
       CmdCtxReturn, AnswerTaken, AppAt
  <2> QED
    BY <1>0, <2>1, AppAlone DEF CalledForMessage, AppAt
<1>3. CASE CmdCtxClearLoop
  BY <1>0, <1>3, ClearLoops DEF CalledForMessage
<1>4. CASE SlotEmpty \/ SlotFree
  BY <1>0, <1>4, LoopGoes DEF CalledForMessage, SlotEmpty, SlotFree, At, LoopAt
<1>5. CASE SlotIdle
  BY <1>0, <1>5, OtherGoto DEF CalledForMessage, SlotIdle, Runs, At, LoopAt, AppAt
<1>6. CASE SlotRun
  <2>1. stack[1].at = "slot"
    BY <1>0, <1>6, SlotPushes
  <2>2. App # "done"
    BY <1>0, <2>1 DEF NestInv, AppAt
  <2>3. irqMasked
    BY <1>0, <1>6, <2>1, <2>2, NoReading, PendingIsMasked DEF SlotRun
  <2> QED
    BY <1>6, <2>3 DEF CalledForMessage, SlotRun
<1>7. CASE EntryLock
  <2>1. stack[1].at = "rlock" /\ irqMasked
    BY <1>0, <1>7 DEF EntryLock, At, CalledForMessage
  <2> QED
    BY <1>7, <2>1 DEF CalledForMessage, EntryLock
<1>8. CASE EntryRead
  <2>1. stack[1].at = "rcheck"
    BY <1>0, <1>8 DEF EntryRead, At
  <2>2. App \notin CmdHolds
    BY <1>0, <2>1 DEF LockInv, EntryHolds
  <2>3. \A k \in DOMAIN stack : k # 1 => stack[k].at \notin {"rlock", "rcheck"}
    BY <1>0, <2>2 DEF NestInv, LockInv, EntryHolds
  <2>4. Goto("rdone") /\ stack[1].at \notin AppAt
    BY <1>8, <2>1 DEF EntryRead, AppAt
  <2>5. \A k \in DOMAIN stack' : stack'[k].at \notin {"rlock", "rcheck"}
    BY <1>0, <2>3, <2>4, OtherGoto DEF EntryAt
  <2> QED
    BY <2>5 DEF CalledForMessage
<1>9. CASE EntryDone
  <2>1. UNCHANGED irqMasked /\ stack[1].at = "rdone"
    BY <1>0, <1>9 DEF EntryDone, At
  <2>2. Return \/ Goto("assert")
    BY <1>9 DEF EntryDone
  <2> QED
    BY <1>0, <2>1, <2>2, Returns, OtherGoto DEF CalledForMessage, EntryAt, AppAt
<1>10. CASE RxIrqHandler \/ NwpExecute \/ NwpAnswer \/ NwpEvent \/ UNCHANGED vars
  BY <1>0, <1>10 DEF CalledForMessage, RxIrqHandler, NwpExecute, NwpAnswer, NwpEvent, vars
<1> QED
  BY <1>1, <1>2, <1>3, <1>4, <1>5, <1>6, <1>7, <1>8, <1>9, <1>10
     DEF Next, Thread, CmdOp, MainLoopTask

-------------------------------------------------------------------------------
(* A thread that has locked itself out *)

\* An entry holds the lock only if no other entry waits for it.
LEMMA HolderAlone ==
  ASSUME LockInv, NestInv, NEW h \in DOMAIN stack, stack[h].at \in EntryHolds
  PROVE  \A k \in DOMAIN stack : stack[k].at # "rlock"
BY DEF LockInv, NestInv, EntryHolds

\* A thread that has locked itself out stays so.
LEMMA SelfLockedStays ==
  ASSUME IInv, NestInv, SelfLocked, [Next]_vars
  PROVE  SelfLocked'
<1> USE DEF objs, counts, bus
<1>0. /\ StackOK /\ LockInv /\ NestInv /\ GlobalLockObj
      /\ 1 \in DOMAIN stack /\ Head(stack) = stack[1]
  BY OtherRuns DEF IInv, TypeOK, SelfLocked
<1>1. PICK r \in DOMAIN stack : stack[r].at = "rlock"
  BY DEF SelfLocked
<1>2. \A k \in DOMAIN stack : stack[k].at \notin EntryHolds
  BY <1>0, <1>1, HolderAlone
<1>3. stack[1].at \in AppAt => FALSE
  BY <1>0, <1>1 DEF StackOK, AppAt
<1>4. CASE AppMainLoop \/ CmdCtxWait \/ AnswerWait \/ EntryLockWait
  <2>1. PICK l : WaitOn(l)
    BY <1>4 DEF AppMainLoop, CmdCtxWait, AnswerWait, EntryLockWait
  <2>2. r + 1 \in DOMAIN stack' /\ stack'[r + 1] = stack[r]
    BY <1>0, <1>1, <2>1, WaitPushes, Bounds DEF Pushed
  <2> QED
    BY <1>0, <1>1, <2>1, <2>2 DEF SelfLocked, WaitOn
<1>5. CASE \/ AppCall \/ CmdOpLock \/ CmdOpWrite \/ CmdCtxLeave \/ CmdCtxRead
           \/ CmdCtxGoWait \/ CmdCtxWake \/ CmdCtxDone \/ CmdCtxEvent
           \/ CmdCtxResponse \/ CmdCtxClear \/ CmdCtxClearLoop \/ CmdCtxUnlock
           \/ CmdCtxReturn \/ AnswerTaken
  <2>1. PICK l \in AppAt : At(l)
    BY <1>5 DEF AppCall, CmdOpLock, CmdOpWrite, CmdCtxLeave, CmdCtxRead, CmdCtxGoWait,
       CmdCtxWake, CmdCtxDone, CmdCtxEvent, CmdCtxResponse, CmdCtxClear, CmdCtxClearLoop,
       CmdCtxUnlock, CmdCtxReturn, AnswerTaken, AppAt
  <2> QED
    BY <1>0, <1>3, <2>1 DEF At
<1>6. CASE SlotEmpty \/ SlotFree
  <2>1. stack[1].at \in LoopAt /\ NextSlot /\ UNCHANGED GlobalLockObj
    BY <1>0, <1>6 DEF SlotEmpty, SlotFree, At, LoopAt
  <2>2. stack[1].i \in Slots /\ r # 1
    BY <1>0, <1>1, <2>1 DEF NestInv, LoopAt
  <2>3. CASE Popped
    <3>1. r - 1 \in DOMAIN stack' /\ (r - 1) + 1 = r
      BY <1>0, <1>1, <2>2, <2>3, Bounds DEF Popped
    <3>2. stack'[r - 1] = stack[r]
      BY <2>3, <3>1 DEF Popped
    <3> QED
      BY <1>0, <1>1, <2>1, <3>1, <3>2 DEF SelfLocked
  <2>4. CASE \E n \in Slots : Swapped([at |-> "slot", i |-> n])
    BY <1>0, <1>1, <2>1, <2>2, <2>4 DEF SelfLocked, Swapped
  <2> QED
    BY <1>0, <2>1, <2>2, <2>3, <2>4, LoopMoves
<1>7. CASE SlotIdle
  <2>1. stack[1].at = "slot" /\ Goto("free") /\ UNCHANGED GlobalLockObj
    BY <1>0, <1>7 DEF SlotIdle, Runs, At
  <2>2. Swapped([stack[1] EXCEPT !.at = "free"]) /\ r # 1
    BY <1>0, <1>1, <2>1, GotoSwaps DEF LoopAt, AppAt
  <2> QED
    BY <1>0, <1>1, <2>1, <2>2 DEF SelfLocked, Swapped
<1>8. CASE SlotRun
  <2>1. 1 \in DOMAIN stack' /\ stack'[1].at = "rlock"
    BY <1>0, <1>8, SlotPushes, Bounds
  <2> QED
    BY <1>0, <1>8, <2>1 DEF SelfLocked, SlotRun
<1>9. CASE EntryLock \/ EntryRead \/ EntryDone
  BY <1>0, <1>2, <1>9 DEF EntryLock, EntryRead, EntryDone, At, EntryHolds
<1>10. CASE RxIrqHandler \/ NwpExecute \/ NwpAnswer \/ NwpEvent \/ UNCHANGED vars
  BY <1>10 DEF SelfLocked, RxIrqHandler, NwpExecute, NwpAnswer, NwpEvent, vars
<1> QED
  BY <1>4, <1>5, <1>6, <1>7, <1>8, <1>9, <1>10 DEF Next, Thread, CmdOp, MainLoopTask

\* Otherwise at most one entry is under way.
LEMMA OneFree ==
  ASSUME StackOK, LockInv, NestInv, ~ SelfLocked,
         NEW k \in DOMAIN stack, NEW j \in DOMAIN stack,
         stack[k].at = "free", stack[j].at = "free"
  PROVE  k = j
<1>1. ASSUME NEW n \in DOMAIN stack, stack[n].at = "free", n # 1
      PROVE  n = 2 /\ stack[1].at # "free"
  <2>1. n - 1 \in DOMAIN stack /\ stack[n - 1].at \in EntryHolds \cup {"rlock"}
    BY <1>1, Bounds DEF NestInv
  <2>2. n - 1 = 1
    <3>1. CASE stack[n - 1].at \in EntryHolds
      BY <2>1, <3>1 DEF LockInv
    <3>2. CASE stack[n - 1].at = "rlock"
      BY <2>1, <3>2 DEF NestInv, LockInv, SelfLocked
    <3> QED
      BY <2>1, <3>1, <3>2
  <2> QED
    BY <1>1, <2>1, <2>2, Bounds DEF EntryHolds
<1> QED
  BY <1>1

-------------------------------------------------------------------------------
(* Slots and the entries under way *)

\* The entry that the main loop called from slot i has not returned.
UnderWay(i) == \E k \in DOMAIN stack : stack[k].at = "free" /\ stack[k].i = i

LEMMA SpawnKeeps ==
  ASSUME SpawnEntries \in [Slots -> BOOLEAN], Spawn, NEW i \in Slots, SpawnEntries[i]
  PROVE  SpawnEntries'[i]
BY DEF Spawn

\* The stack after a step by a call other than the application holds no entry
\* under way that it did not hold before, but for the one just called.
LEMMA UnderWayStep ==
  ASSUME StackOK, NEW i,
         \/ \E l : WaitOn(l)
         \/ SlotEmpty \/ SlotFree \/ EntryLock \/ EntryRead \/ EntryDone,
         UnderWay(i)'
  PROVE  UnderWay(i)
<1>1. CASE \E l : WaitOn(l)
  BY <1>1, Waits DEF UnderWay
<1>2. CASE SlotEmpty \/ SlotFree
  BY <1>2, OtherRuns, LoopGoes DEF UnderWay, SlotEmpty, SlotFree, At, LoopAt
<1>3. CASE EntryLock \/ EntryRead \/ EntryDone
  <2>1. Head(stack).at \in EntryAt /\ Head(stack).at \notin AppAt
    BY <1>3 DEF EntryLock, EntryRead, EntryDone, At, EntryAt, AppAt
  <2>2. CASE Return
    BY <2>1, <2>2, Returns DEF UnderWay
  <2>3. CASE \E m \in EntryAt : Goto(m)
    BY <2>1, <2>3, OtherGoto DEF UnderWay, EntryAt
  <2> QED
    BY <1>3, <2>2, <2>3 DEF EntryLock, EntryRead, EntryDone, EntryAt
<1> QED
  BY <1>1, <1>2, <1>3

\* Every step keeps the slots of the entries under way.
LEMMA SlotStep == IInv /\ ReaderInv /\ [Next]_vars => SlotKept'
<1> SUFFICES ASSUME IInv, ReaderInv, [Next]_vars, ~ SelfLocked'
             PROVE  \A i : UnderWay(i)' => i \in Slots /\ SpawnEntries'[i]
  BY DEF SlotKept, UnderWay
<1> SUFFICES ASSUME NEW i, UnderWay(i)' PROVE i \in Slots /\ SpawnEntries'[i]
  OBVIOUS
<1> USE DEF objs, counts, bus
<1>0. /\ StackOK /\ TypeOK /\ LockInv /\ NestInv
      /\ 1 \in DOMAIN stack /\ Head(stack) = stack[1]
  BY OtherRuns DEF IInv, TypeOK, ReaderInv
<1>1. ~ SelfLocked
  BY SelfLockedStays DEF ReaderInv
<1>2. UnderWay(i) => i \in Slots /\ SpawnEntries[i]
  BY <1>1 DEF ReaderInv, SlotKept, UnderWay
<1>3. CASE \/ AppMainLoop \/ CmdCtxWait \/ AnswerWait \/ EntryLockWait
           \/ SlotEmpty \/ EntryLock \/ EntryRead \/ EntryDone
  <2>1. UnderWay(i)
    BY <1>0, <1>3, UnderWayStep DEF AppMainLoop, CmdCtxWait, AnswerWait, EntryLockWait
  <2>2. UNCHANGED SpawnEntries
    BY <1>3 DEF AppMainLoop, CmdCtxWait, AnswerWait, EntryLockWait, WaitOn, SlotEmpty,
       EntryLock, EntryRead, EntryDone
  <2> QED
    BY <1>2, <2>1, <2>2
<1>4. CASE \/ AppCall \/ CmdOpLock \/ CmdOpWrite \/ CmdCtxLeave \/ CmdCtxRead
           \/ CmdCtxGoWait \/ CmdCtxWake \/ CmdCtxDone \/ CmdCtxEvent
           \/ CmdCtxResponse \/ CmdCtxClear \/ CmdCtxUnlock \/ CmdCtxReturn
           \/ AnswerTaken
  <2>1. PICK l \in AppAt, m \in AppAt : At(l) /\ Goto(m)
    BY <1>4 DEF AppCall, CmdOpLock, CmdOpWrite, CmdCtxLeave, CmdCtxRead, CmdCtxGoWait,
       CmdCtxWake, CmdCtxDone, CmdCtxEvent, CmdCtxResponse, CmdCtxClear, CmdCtxUnlock,
       CmdCtxReturn, AnswerTaken, AppAt
  <2> QED
    BY <1>0, <2>1, AppAlone DEF UnderWay, AppAt
<1>5. CASE CmdCtxClearLoop
  BY <1>0, <1>5, ClearLoops DEF UnderWay
<1>6. CASE SlotFree
  <2>1. stack[1].at = "free"
    BY <1>0, <1>6 DEF SlotFree, At
  <2>2. \A k \in DOMAIN stack : k # 1 => stack[k].at # "free"
    BY <1>0, <1>1, <2>1, OneFree
  <2>3. \A k \in DOMAIN stack' :
          stack'[k].at = "slot" \/ \E j \in DOMAIN stack : j # 1 /\ stack'[k] = stack[j]
    <3>1. stack[1].i \in Slots /\ NextSlot
      BY <1>0, <1>6, <2>1 DEF NestInv, LoopAt, SlotFree
    <3>2. CASE Popped
      BY <1>0, <3>2, Bounds DEF Popped
    <3>3. CASE \E n \in Slots : Swapped([at |-> "slot", i |-> n])
      BY <1>0, <3>3 DEF Swapped
    <3> QED
      BY <1>0, <3>1, <3>2, <3>3, LoopMoves
  <2> QED
    BY <2>2, <2>3 DEF UnderWay
<1>7. CASE SlotIdle
  <2>1. /\ stack[1].at = "slot" /\ Goto("free") /\ UNCHANGED SpawnEntries
        /\ SpawnEntries[stack[1].i]
    BY <1>0, <1>7 DEF SlotIdle, Runs, At, Slot
  <2>2. Swapped([stack[1] EXCEPT !.at = "free"]) /\ stack'[1].i = stack[1].i
    BY <1>0, <2>1, GotoSwaps DEF LoopAt, AppAt
  <2>3. stack[1].i \in Slots
    BY <1>0, <2>1 DEF NestInv, LoopAt
  <2>4. \A k \in DOMAIN stack' : k = 1 \/ (k \in DOMAIN stack /\ stack'[k] = stack[k])
    BY <2>2 DEF Swapped
  <2> QED
    BY <1>2, <2>1, <2>2, <2>3, <2>4 DEF UnderWay
<1>8. CASE SlotRun
  <2>1. UNCHANGED SpawnEntries /\ SpawnEntries[stack[1].i]
    BY <1>0, <1>8 DEF SlotRun, Runs, Slot
  <2>2. /\ stack[1].at = "slot" /\ stack'[1].at = "rlock"
        /\ stack'[2].i = stack[1].i
        /\ \A k \in DOMAIN stack' : k \notin {1, 2} =>
             k - 1 \in DOMAIN stack /\ stack'[k] = stack[k - 1]
    <3>1. /\ DOMAIN stack' = 1 .. Len(stack) + 1
          /\ stack[1].at = "slot" /\ stack'[1].at = "rlock" /\ stack'[2].i = stack[1].i
          /\ \A k \in DOMAIN stack : k # 1 => stack'[k + 1] = stack[k]
      BY <1>0, <1>8, SlotPushes
    <3>2. \A k \in DOMAIN stack' : k \notin {1, 2} =>
            k - 1 \in DOMAIN stack /\ k - 1 # 1 /\ (k - 1) + 1 = k
      BY <1>0, <3>1, Bounds
    <3> QED
      BY <3>1, <3>2
  <2>3. stack[1].i \in Slots
    BY <1>0, <2>2 DEF NestInv, LoopAt
  <2> QED
    BY <1>2, <2>1, <2>2, <2>3 DEF UnderWay
<1>9. CASE RxIrqHandler
  <2>1. UnderWay(i)
    BY <1>9 DEF RxIrqHandler, UnderWay
  <2>2. Spawn \/ UNCHANGED SpawnEntries
    BY <1>9 DEF RxIrqHandler
  <2> QED
    BY <1>0, <1>2, <2>1, <2>2, SpawnKeeps DEF TypeOK
<1>10. CASE NwpExecute \/ NwpAnswer \/ NwpEvent \/ UNCHANGED vars
  BY <1>2, <1>10 DEF UnderWay, NwpExecute, NwpAnswer, NwpEvent, vars
<1> QED
  BY <1>3, <1>4, <1>5, <1>6, <1>7, <1>8, <1>9, <1>10 DEF Next, Thread, CmdOp, MainLoopTask

-------------------------------------------------------------------------------
(* The reader of an announced message *)

\* Where a command will look at the counters again before it waits or returns.
Looks == AppAt \ {"idle", "lock", "await", "wait"}

Called == \E k \in DOMAIN stack : stack[k].at \in {"rlock", "rcheck"}
InSlot == \E i \in Slots : SpawnEntries[i] /\ ~ UnderWay(i)
HasReader ==
  irqMasked => App \in Looks \/ (App = "wait" /\ CmdSyncObj) \/ Called \/ InSlot

LEMMA ReaderForm ==
  ASSUME StackOK
  PROVE  AnnouncedHasReader <=> HasReader
<1>1. \A i \in Slots : [at |-> "free", i |-> i] \notin {stack[k] : k \in DOMAIN stack}
                         <=> ~ UnderWay(i)
  <2> TAKE i \in Slots
  <2>1. ASSUME UnderWay(i)
        PROVE  [at |-> "free", i |-> i] \in {stack[k] : k \in DOMAIN stack}
    <3>1. PICK k \in DOMAIN stack : stack[k].at = "free" /\ stack[k].i = i
      BY <2>1 DEF UnderWay
    <3>2. stack[k] \in Frame
      BY ElementOfSeq, Bounds DEF StackOK
    <3>3. stack[k] = [at |-> "free", i |-> i]
      BY <3>1, <3>2 DEF Frame
    <3> QED
      BY <3>3
  <2>2. ASSUME [at |-> "free", i |-> i] \in {stack[k] : k \in DOMAIN stack}
        PROVE  UnderWay(i)
    <3>1. PICK k \in DOMAIN stack : stack[k] = [at |-> "free", i |-> i]
      BY <2>2
    <3> QED
      BY <3>1 DEF UnderWay
  <2> QED
    BY <2>1, <2>2
<1> QED
  BY <1>1 DEF AnnouncedHasReader, HasReader, Looks, Called, InSlot

\* With two slots, an entry that is put into a slot, or finds them all taken,
\* is not lost: one of the slots holds an entry that is still to be called.
LEMMA SpawnReaches ==
  ASSUME TypeOK, LockInv, NestInv, SlotKept, ~ SelfLocked, Spawn,
         NONOS_MAX_SPAWN_ENTRIES > 1
  PROVE  \E i \in Slots : SpawnEntries'[i] /\ ~ UnderWay(i)
<1>1. CASE \E i \in Slots : ~ SpawnEntries[i] /\ SpawnEntries' = [SpawnEntries EXCEPT ![i] = TRUE]
  BY <1>1 DEF TypeOK, SlotKept, UnderWay
<1>2. CASE (\A i \in Slots : SpawnEntries[i]) /\ UNCHANGED SpawnEntries
  <2>1. 1 \in Slots /\ 2 \in Slots
    BY NonOsAssumption DEF Slots
  <2>2. ~ UnderWay(1) \/ ~ UnderWay(2)
    <3> SUFFICES ASSUME UnderWay(1), UnderWay(2) PROVE FALSE
      OBVIOUS
    <3>1. PICK k \in DOMAIN stack : stack[k].at = "free" /\ stack[k].i = 1
      BY DEF UnderWay
    <3>2. PICK j \in DOMAIN stack : stack[j].at = "free" /\ stack[j].i = 2
      BY DEF UnderWay
    <3>3. k = j
      BY <3>1, <3>2, OneFree DEF TypeOK
    <3> QED
      BY <3>1, <3>2, <3>3
  <2> QED
    BY <1>2, <2>1, <2>2
<1> QED
  BY <1>1, <1>2 DEF Spawn

LEMMA ReaderStep ==
  ASSUME NONOS_MAX_SPAWN_ENTRIES > 1, IInv, ReaderInv, AnnouncedHasReader, [Next]_vars,
         StackOK'
  PROVE  AnnouncedHasReader'
<1> USE DEF objs, counts, bus
<1>0. /\ StackOK /\ TypeOK /\ LockInv /\ NestInv /\ Handshake /\ SlotKept /\ HasReader
      /\ 1 \in DOMAIN stack /\ Head(stack) = stack[1]
  BY OtherRuns, ReaderForm DEF IInv, TypeOK, ReaderInv
<1>f. AnnouncedHasReader' <=> HasReader'
  BY ReaderForm, PTL
<1>s. SUFFICES ASSUME irqMasked', ~ SelfLocked', ~ Called'
               PROVE  App' \in Looks \/ (App' = "wait" /\ CmdSyncObj') \/ InSlot'
  BY <1>f DEF HasReader, SelfLocked, Called
<1>u. ~ SelfLocked
  BY <1>0, <1>s, SelfLockedStays
<1>1. CASE \/ AppMainLoop \/ CmdCtxWait \/ AnswerWait \/ EntryLockWait
           \/ SlotEmpty \/ EntryDone
  <2>1. UNCHANGED <<irqMasked, SpawnEntries, CmdSyncObj>>
    BY <1>1 DEF AppMainLoop, CmdCtxWait, AnswerWait, EntryLockWait, WaitOn, SlotEmpty, EntryDone
  <2>2. InSlot => InSlot'
    BY <1>0, <1>1, <2>1, UnderWayStep DEF InSlot, AppMainLoop, CmdCtxWait, AnswerWait,
       EntryLockWait
  <2>3. App' = App /\ (Called => Called')
    <3>1. CASE AppMainLoop \/ CmdCtxWait \/ AnswerWait \/ EntryLockWait
      <4>1. PICK l : WaitOn(l)
        BY <3>1 DEF AppMainLoop, CmdCtxWait, AnswerWait, EntryLockWait
      <4>2. Pushed(MainLoop) /\ App' = App
        BY <1>0, <4>1, WaitPushes
      <4> QED
        BY <1>0, <4>2, Bounds DEF Called, Pushed
    <3>2. CASE SlotEmpty
      <4>1. stack[1].at = "slot" /\ stack[1].i \in Slots /\ NextSlot
        BY <1>0, <3>2 DEF SlotEmpty, At, NestInv, LoopAt
      <4>2. App' = App
        BY <1>0, <4>1, LoopGoes DEF LoopAt
      <4>3. CASE Popped
        <5>1. \A k \in DOMAIN stack : k # 1 => k - 1 \in DOMAIN stack' /\ (k - 1) + 1 = k
          BY <1>0, <4>3, Bounds DEF Popped
        <5> QED
          BY <4>1, <4>2, <4>3, <5>1 DEF Called, Popped
      <4>4. CASE \E n \in Slots : Swapped([at |-> "slot", i |-> n])
        BY <4>1, <4>2, <4>4 DEF Called, Swapped
      <4> QED
        BY <1>0, <4>1, <4>3, <4>4, LoopMoves
    <3>3. CASE EntryDone
      <4>1. stack[1].at = "rdone" /\ Return
        BY <1>0, <3>3 DEF EntryDone, At, IInv, ResponseInv
      <4>2. Popped /\ App' = App
        BY <1>0, <4>1, Returns, ReturnPops DEF AppAt
      <4>3. \A k \in DOMAIN stack : k # 1 => k - 1 \in DOMAIN stack' /\ (k - 1) + 1 = k
        BY <1>0, <4>2, Bounds DEF Popped
      <4> QED
        BY <4>1, <4>2, <4>3 DEF Called, Popped
    <3> QED
      BY <1>1, <3>1, <3>2, <3>3
  <2> QED
    BY <1>0, <1>s, <2>1, <2>2, <2>3 DEF HasReader
<1>2. CASE \/ CmdOpLock \/ CmdOpWrite \/ CmdCtxLeave \/ CmdCtxWake \/ CmdCtxDone
           \/ CmdCtxEvent \/ CmdCtxResponse \/ CmdCtxClear \/ CmdCtxClearLoop
           \/ CmdCtxUnlock
  <2>1. CASE CmdCtxClearLoop
    BY <1>0, <2>1, ClearPushes DEF Looks, AppAt
  <2>2. CASE ~ CmdCtxClearLoop
    <3>1. PICK l \in AppAt, m \in Looks : At(l) /\ Goto(m)
      BY <1>2, <2>2 DEF CmdOpLock, CmdOpWrite, CmdCtxLeave, CmdCtxWake, CmdCtxDone,
         CmdCtxEvent, CmdCtxResponse, CmdCtxClear, CmdCtxUnlock, AppAt, Looks
    <3> QED
      BY <1>0, <3>1, AppAlone DEF Looks
  <2> QED
    BY <2>1, <2>2
<1>3. CASE AppCall \/ AnswerTaken
  <2>1. PICK l \in {"idle", "await"}, m \in AppAt : At(l) /\ Goto(m)
    BY <1>3 DEF AppCall, AnswerTaken, AppAt
  <2>2. /\ DOMAIN stack = {1} /\ stack[1].at = l /\ App = l
        /\ DOMAIN stack' = {1} /\ stack'[1].at = m /\ App' = m
    BY <1>0, <2>1, AppAlone DEF AppAt
  <2>3. ~ Called /\ App \notin Looks /\ App # "wait"
    BY <2>1, <2>2 DEF Called, Looks
  <2>4. UNCHANGED <<irqMasked, SpawnEntries>> /\ \A i : ~ UnderWay(i)'
    BY <1>3, <2>1, <2>2 DEF AppCall, AnswerTaken, UnderWay, AppAt
  <2> QED
    BY <1>0, <1>s, <2>3, <2>4 DEF HasReader, InSlot
<1>4. CASE CmdCtxReturn
  <2>1. /\ DOMAIN stack = {1} /\ stack[1].at = "check"
        /\ DOMAIN stack' = {1} /\ stack'[1].at \in {"idle", "await"}
    BY <1>0, <1>4, AppAlone DEF CmdCtxReturn, AppAt
  <2>2. Spawn
    BY <1>0, <1>4, <1>s, MaskedIsPending DEF CmdCtxReturn
  <2>3. \E i \in Slots : SpawnEntries'[i]
    BY <1>0, <1>u, <2>2, SpawnReaches
  <2>4. \A i : ~ UnderWay(i)'
    BY <2>1 DEF UnderWay
  <2> QED
    BY <2>3, <2>4 DEF InSlot
<1>5. CASE CmdCtxGoWait \/ SlotIdle
  BY <1>0, <1>5, <1>s, MaskedIsPending DEF CmdCtxGoWait, SlotIdle
<1>6. CASE CmdCtxRead \/ EntryRead
  BY <1>6, <1>s DEF CmdCtxRead, EntryRead, MsgRead
<1>7. CASE SlotFree
  <2>1. stack[1].at = "free" /\ stack[1].i \in Slots /\ NextSlot
    BY <1>0, <1>7 DEF SlotFree, At, NestInv, LoopAt
  <2>2. App' = App
    BY <1>0, <2>1, LoopGoes DEF LoopAt
  <2>3. Called => Called'
    <3>1. CASE Popped
      <4>1. \A k \in DOMAIN stack : k # 1 => k - 1 \in DOMAIN stack' /\ (k - 1) + 1 = k
        BY <1>0, <3>1, Bounds DEF Popped
      <4> QED
        BY <2>1, <3>1, <4>1 DEF Called, Popped
    <3>2. CASE \E n \in Slots : Swapped([at |-> "slot", i |-> n])
      BY <2>1, <3>2 DEF Called, Swapped
    <3> QED
      BY <1>0, <2>1, <3>1, <3>2, LoopMoves
  <2>4. InSlot => InSlot'
    <3> SUFFICES ASSUME NEW i \in Slots, SpawnEntries[i], ~ UnderWay(i) PROVE InSlot'
      BY DEF InSlot
    <3>1. i # stack[1].i
      BY <1>0, <2>1 DEF UnderWay
    <3>2. SpawnEntries'[i]
      BY <1>0, <1>7, <3>1 DEF SlotFree, Slot, TypeOK
    <3>3. ~ UnderWay(i)'
      BY <1>0, <1>7, UnderWayStep
    <3> QED
      BY <3>2, <3>3 DEF InSlot
  <2> QED
    BY <1>0, <1>7, <1>s, <2>2, <2>3, <2>4 DEF HasReader, SlotFree
<1>8. CASE SlotRun
  <2>1. 1 \in DOMAIN stack' /\ stack'[1].at = "rlock"
    BY <1>0, <1>8, SlotPushes, Bounds
  <2> QED
    BY <1>s, <2>1 DEF Called
<1>9. CASE EntryLock
  <2>1. stack[1].at \notin AppAt /\ Goto("rcheck")
    BY <1>0, <1>9 DEF EntryLock, At, AppAt
  <2>2. 1 \in DOMAIN stack' /\ stack'[1].at = "rcheck"
    BY <1>0, <2>1, GotoSwaps DEF EntryAt, Swapped
  <2> QED
    BY <1>s, <2>2 DEF Called
<1>10. CASE RxIrqHandler
  <2>1. UNCHANGED stack /\ (\A i : UnderWay(i)' <=> UnderWay(i)) /\ App' = App
    BY <1>10 DEF RxIrqHandler, UnderWay, App
  <2>2. CASE IsCmdRespWaited
    BY <1>10, <2>1, <2>2 DEF RxIrqHandler, ReaderInv, FlagHasCommand, Looks, AppAt
  <2>3. CASE ~ IsCmdRespWaited
    BY <1>0, <1>10, <1>u, <2>1, <2>3, SpawnReaches DEF RxIrqHandler, InSlot
  <2> QED
    BY <2>2, <2>3
<1>11. CASE NwpExecute \/ NwpAnswer \/ NwpEvent \/ UNCHANGED vars
  <2>1. UNCHANGED <<stack, SpawnEntries, CmdSyncObj, irqMasked>>
    BY <1>11 DEF NwpExecute, NwpAnswer, NwpEvent, vars
  <2> QED
    BY <1>0, <1>s, <2>1 DEF HasReader, App, Called, InSlot, UnderWay
<1> QED
  BY <1>1, <1>2, <1>3, <1>4, <1>5, <1>6, <1>7, <1>8, <1>9, <1>10, <1>11
     DEF Next, Thread, CmdOp, MainLoopTask

-------------------------------------------------------------------------------
(* Theorems *)

LEMMA InitInv == Init => IInv
<1> SUFFICES ASSUME Init PROVE IInv
  OBVIOUS
<1>1. stack = <<[at |-> "idle", i |-> 0]>> /\ stack \in Seq(Frame)
  BY DEF Init, Frame, AppAt
<1>2. Len(stack) = 1 /\ DOMAIN stack = {1} /\ stack[1].at = "idle"
  BY <1>1
<1>3. StackOK
  BY <1>1, <1>2, NonOsAssumption DEF StackOK, AppAt
<1>4. TypeOK
  <2>1. SpawnEntries \in [Slots -> BOOLEAN] /\ out \in Seq(Messages)
    BY DEF Init
  <2>2. RxIrqCnt \in 0 .. CntMod - 1 /\ RxDoneCnt \in 0 .. CntMod - 1
    BY NonOsAssumption DEF Init
  <2> QED
    BY <1>3, <2>1, <2>2 DEF Init, TypeOK, Kinds, Messages
<1>5. LockInv
  BY <1>2 DEF LockInv, App, CmdHolds, EntryHolds
<1>6. ResponseInv
  BY <1>2 DEF Init, ResponseInv, Owed, Sent, SentOnce, Carried, App, Kinds
<1> QED
  BY <1>4, <1>5, <1>6 DEF IInv

LEMMA Invariance == Spec => []IInv
<1>1. IInv /\ [Next]_vars => IInv'
  BY TypeStep, LockStep, ResponseStep DEF IInv
<1> QED
  BY InitInv, <1>1, PTL DEF Spec

LEMMA InitReader == Init => ReaderInv /\ AnnouncedHasReader
<1> SUFFICES ASSUME Init PROVE ReaderInv /\ AnnouncedHasReader
  OBVIOUS
<1>1. Len(stack) = 1 /\ DOMAIN stack = {1} /\ stack[1].at = "idle" /\ App = "idle"
  BY DEF Init, App
<1>2. Handshake /\ FlagHasCommand /\ CalledForMessage /\ AnnouncedHasReader
  BY <1>1 DEF Init, Handshake, Reading, FlagHasCommand, CalledForMessage, AnnouncedHasReader
<1>3. NestInv /\ SlotKept
  BY <1>1 DEF Init, NestInv, SlotKept, LoopAt, AppAt
<1> QED
  BY <1>2, <1>3 DEF ReaderInv

LEMMA ReaderInvariance == Spec => [](IInv /\ ReaderInv)
<1>1. ReaderInv /\ IInv /\ [Next]_vars => ReaderInv'
  BY HandshakeStep, FlagStep, NestStep, CalledStep, SlotStep DEF ReaderInv
<1> QED
  BY Invariance, InitReader, <1>1, PTL DEF Spec

\* The control block, the slots and the stack of calls keep their types.
THEOREM TypeCorrect == Spec => []TypeOK
<1>1. IInv => TypeOK
  BY DEF IInv
<1> QED
  BY Invariance, <1>1, PTL

\* No entry of the main loop reads the response of the command it runs on top
\* of: the assertion in _SlDrvMsgReadSpawnCtx holds without an operating
\* system, however deep the calls are nested.
THEOREM ResponseKept == Spec => []NoResponseInMainLoop
<1>1. IInv => NoResponseInMainLoop
  <2> SUFFICES ASSUME IInv PROVE ~ At("assert")
    BY DEF NoResponseInMainLoop
  <2>1. StackOK /\ ResponseInv
    BY DEF IInv, TypeOK
  <2> QED
    BY <2>1, HeadAt DEF ResponseInv
<1> QED
  BY Invariance, <1>1, PTL

\* What the code takes for granted when it reads: neither the command nor an
\* entry reads an empty bus, and an entry that has waited for the global lock
\* still finds the message it was called for, so that the early return of
\* _SlDrvMsgReadSpawnCtx is never taken.
THEOREM NoBlindRead == Spec => []ReadHasMessage
<1>1. IInv /\ ReaderInv => ReadHasMessage
  <2> SUFFICES ASSUME IInv, ReaderInv PROVE ReadHasMessage
    OBVIOUS
  <2>0. /\ StackOK /\ TypeOK /\ LockInv /\ Handshake /\ CalledForMessage
        /\ 1 \in DOMAIN stack /\ Head(stack) = stack[1]
    BY OtherRuns DEF IInv, TypeOK, ReaderInv
  <2>1. ASSUME At("loop"), Pending PROVE out # <<>>
    <3>1. App = "loop" /\ stack[1].at = "loop"
      BY <2>0, <2>1, AppRuns DEF At, AppAt
    <3>2. ~ Reading
      BY <2>0, <3>1, NoReading
    <3> QED
      BY <2>0, <2>1, <3>2, PendingIsMasked DEF Handshake
  <2>2. ASSUME At("rcheck") PROVE Pending /\ out # <<>>
    <3>1. irqMasked
      BY <2>0, <2>2 DEF At, CalledForMessage
    <3> QED
      BY <2>0, <3>1, MaskedIsPending DEF Handshake
  <2> QED
    BY <2>1, <2>2 DEF ReadHasMessage
<1> QED
  BY ReaderInvariance, <1>1, PTL

\* An announced message always has a reader, for any number of slots from two
\* on: neither a full table, which drops an entry without a word, nor the slot
\* that is cleared after its entry has let the interrupt in again, loses the
\* only entry that would read it.  With one slot this is false.
THEOREM NoStrandedMessage ==
  ASSUME NONOS_MAX_SPAWN_ENTRIES > 1
  PROVE  Spec => []AnnouncedHasReader
<1>1. IInv /\ ReaderInv /\ AnnouncedHasReader /\ [Next]_vars /\ IInv' => AnnouncedHasReader'
  BY ReaderStep DEF IInv, TypeOK
<1> QED
  BY ReaderInvariance, InitReader, <1>1, PTL DEF Spec
===============================================================================
