------------------------------ MODULE SlObjPool ------------------------------
(***************************************************************************)
(* The pool of concurrent actions of the host driver (driver.c): objects   *)
(* in an array linked by NextIndex into a free, an active and a pending    *)
(* list; the calls that take an object, wait for an asynchronous answer    *)
(* and put it back; and the receive path that looks up whose answer it has *)
(* just read.                                                              *)
(*                                                                         *)
(* A step is one critical section of ProtectionLockObj, or a wait on the   *)
(* semaphore of an object.  The command that starts an action is one step: *)
(* SlDriver shows that it is answered.  Messages are read one at a time,   *)
(* under the global lock (SlDriver), so one variable holds the message     *)
(* being handled.                                                          *)
(***************************************************************************)
EXTENDS Naturals, SequencesExt

CONSTANTS
  Threads,                 \* application tasks
  Nobody,                  \* pRespArgs is NULL, no answer
  Ops,                     \* the calls they make: [action, sd, v6]
  MAX_CONCURRENT_ACTIONS,  \* objects, and the index that ends a list
  SL_MAX_SOCKETS,          \* the sd of a call that is on no socket
  OobOpcodes,              \* what the table may hold one entry past its end
  PingHabits,              \* how pings are used: "callback", some get their
                           \* report by a callback; "overlap", a ping starts
                           \* while another runs; "each", every echo is reported
  MaxCalls                 \* bound: calls all tasks make together

Actions == {"ACCEPT", "CONNECT", "SELECT", "GETHOSTBYNAME", "GETHOSTBYSERVICE", "PING",
            "RECV"}
NoAction == "NONE"
NoMsg == [by |-> Nobody]
Opcodes == [action : Actions \cup {NoAction}, v6 : BOOLEAN]

ASSUME PoolAssumption ==
  /\ Nobody \notin Threads
  /\ SL_MAX_SOCKETS \in Nat /\ MaxCalls \in Nat
  /\ Ops # {}
  /\ Ops \subseteq [action : Actions, sd : 0 .. SL_MAX_SOCKETS, v6 : BOOLEAN]
  /\ MAX_CONCURRENT_ACTIONS \in Nat \ {0}
  /\ OobOpcodes \subseteq Opcodes
  /\ PingHabits \subseteq {"callback", "overlap", "each"}

VARIABLES
  pc,                   \* where each task is in its call
  op,                   \* its call
  ObjIdx,               \* its object
  calls,                \* calls made so far, by all tasks
  ObjPool,              \* [ActionID, sd, v6, NextIndex, pRespArgs]: sd and v6
                        \* are the two parts of AdditionalData, pRespArgs is
                        \* the task whose buffer it points to
  SyncObj,              \* the binary semaphore of each object
  FreePoolIdx, ActivePoolIdx, PendingPoolIdx,
  ActiveActionsBitmap,  \* the set of its bits
  ProtectionLost,       \* ProtectionLockObj was never released
  asked,                \* actions the processor has accepted and will answer
  pPingCallBackFunc,    \* is not NULL
  rx, ActionIndex,      \* message and object of the answer being handled
  answer,               \* whose answer was copied to the buffer of each task
  OobOpcode             \* the word behind _SlActionLookupTable

lists == <<ObjPool, FreePoolIdx, ActivePoolIdx, PendingPoolIdx, ActiveActionsBitmap>>
ping == pPingCallBackFunc
vars == <<pc, op, ObjIdx, calls, lists, SyncObj, ProtectionLost, asked, ping, rx,
          ActionIndex, answer, OobOpcode>>

Objects == 0 .. MAX_CONCURRENT_ACTIONS - 1
Indices == 0 .. MAX_CONCURRENT_ACTIONS

OnSocket(o) == o.sd < SL_MAX_SOCKETS
Key(o) == IF OnSocket(o) THEN <<"socket", o.sd>> ELSE <<"action", o.action>>

\* The calls that wait for an action of the same kind, on the same socket.
Call(action, sd) == [action |-> action, sd |-> sd]

\* The list that starts at head, at most one element longer than the pool: the
\* walk along the links up to its first step outside the pool.
Chain(p, head) ==
  LET after(i) == IF i \in Objects THEN p[i].NextIndex ELSE MAX_CONCURRENT_ACTIONS
      c[n \in 1 .. MAX_CONCURRENT_ACTIONS + 1] == IF n = 1 THEN head ELSE after(c[n - 1])
  IN  SubSeq(c, 1, Cardinality({k \in DOMAIN c : c[k] \in Objects}))

\* The first element of a list that is wanted.
First(s, wanted) ==
  LET found == {k \in DOMAIN s : s[k] \in wanted}
  IN  IF found = {} THEN MAX_CONCURRENT_ACTIONS ELSE s[Min(found)]

-------------------------------------------------------------------------------
(* _SlDrvObjInit and the semaphores of _SlDrvDriverCBInit *)

\* (a defective variant, to confirm that TypeOK can fail)
ObjInitSkipsOne ==
  [i \in Objects |-> [ActionID |-> NoAction, sd |-> SL_MAX_SOCKETS, v6 |-> FALSE,
                      NextIndex |-> i + 2, pRespArgs |-> Nobody]]

ObjInit ==
  [i \in Objects |-> [ActionID |-> NoAction, sd |-> SL_MAX_SOCKETS, v6 |-> FALSE,
                      NextIndex |-> i + 1, pRespArgs |-> Nobody]]

Init ==
  /\ pc = [t \in Threads |-> "idle"]
  /\ op \in [Threads -> {CHOOSE o \in Ops : TRUE}]
  /\ ObjIdx = [t \in Threads |-> MAX_CONCURRENT_ACTIONS]
  /\ calls = 0
  /\ ObjPool = ObjInit
  /\ SyncObj = [i \in Objects |-> FALSE]
  /\ FreePoolIdx = 0
  /\ ActivePoolIdx = MAX_CONCURRENT_ACTIONS
  /\ PendingPoolIdx = MAX_CONCURRENT_ACTIONS
  /\ ActiveActionsBitmap = {}
  /\ ProtectionLost = FALSE
  /\ asked = {}
  /\ pPingCallBackFunc = FALSE
  /\ rx = NoMsg
  /\ ActionIndex = 0
  /\ answer = [t \in Threads |-> Nobody]
  /\ OobOpcode \in OobOpcodes

-------------------------------------------------------------------------------
(* List surgery *)

\* (a defective variant, to confirm that ListsPartition can fail)
RemoveFromListInner(p, head, item) ==
  IF p[head].NextIndex = MAX_CONCURRENT_ACTIONS
  THEN [pool |-> p, head |-> MAX_CONCURRENT_ACTIONS]
  ELSE LET before == First(Chain(p, head), {i \in Objects : p[i].NextIndex = item})
       IN  [pool |-> IF before = MAX_CONCURRENT_ACTIONS THEN p
                     ELSE [p EXCEPT ![before].NextIndex = p[item].NextIndex],
            head |-> head]

\* _SlRemoveFromList: pool and head after item is unlinked. It takes the last
\* element of a list for the item without looking.
RemoveFromList(p, head, item) ==
  IF p[head].NextIndex = MAX_CONCURRENT_ACTIONS
  THEN [pool |-> p, head |-> MAX_CONCURRENT_ACTIONS]
  ELSE IF head = item
  THEN [pool |-> p, head |-> p[item].NextIndex]
  ELSE LET before == First(Chain(p, head), {i \in Objects : p[i].NextIndex = item})
       IN  [pool |-> IF before = MAX_CONCURRENT_ACTIONS THEN p
                     ELSE [p EXCEPT ![before].NextIndex = p[item].NextIndex],
            head |-> head]

Park(i, p) ==
  /\ ObjPool' = [p EXCEPT ![i].NextIndex = PendingPoolIdx]
  /\ PendingPoolIdx' = i
  /\ UNCHANGED <<ActivePoolIdx, ActiveActionsBitmap>>

Activate(i, o, p) ==
  /\ ObjPool' = [p EXCEPT ![i].NextIndex = ActivePoolIdx]
  /\ ActivePoolIdx' = i
  /\ ActiveActionsBitmap' = ActiveActionsBitmap \cup {Key(o)}
  /\ UNCHANGED PendingPoolIdx

\* One evaluation of the loop condition of _SlDrvWaitForPoolObj.
Contend(t, i, o, p) ==
  IF Key(o) \in ActiveActionsBitmap
  THEN Park(i, p) /\ pc' = [pc EXCEPT ![t] = "pend"]
  ELSE Activate(i, o, p) /\ pc' = [pc EXCEPT ![t] = "args"]

-------------------------------------------------------------------------------
(* A call: sl_Accept, sl_Connect, sl_Select, sl_NetAppDnsGetHostByName,       *)
(* sl_NetAppDnsGetHostByService, sl_NetAppPingStart, _SlDrvDataReadOp         *)

Goto(t, from, to) == pc[t] = from /\ pc' = [pc EXCEPT ![t] = to]

\* No ping has been started that was not reported yet.
NoPing ==
  /\ \A u \in Threads : pc[u] # "ping" /\ (op[u].action = "PING" => pc[u] = "idle")
  /\ \A m \in asked \cup {rx} : m # NoMsg => m.op.action # "PING"

\* _SlDrvWaitForPoolObj up to its first wait. With no free object the call
\* returns SL_POOL_IS_EMPTY and nothing changes.
WaitForPoolObj(t) ==
  /\ pc[t] = "idle"
  /\ ~ ProtectionLost
  /\ calls < MaxCalls
  /\ FreePoolIdx < MAX_CONCURRENT_ACTIONS
  /\ \E o \in Ops :
       LET i == FreePoolIdx
           p == [ObjPool EXCEPT ![i].ActionID = o.action,
                                ![i].sd = IF OnSocket(o) THEN o.sd ELSE @]
       IN  /\ o.action = "PING" => NoPing \/ "overlap" \in PingHabits
           /\ FreePoolIdx' = IF ObjPool[i].NextIndex < MAX_CONCURRENT_ACTIONS
                             THEN ObjPool[i].NextIndex
                             ELSE MAX_CONCURRENT_ACTIONS
           /\ Contend(t, i, o, p)
           /\ op' = [op EXCEPT ![t] = o]
           /\ ObjIdx' = [ObjIdx EXCEPT ![t] = i]
  /\ calls' = calls + 1
  /\ UNCHANGED <<SyncObj, ProtectionLost, asked, ping, rx, ActionIndex, answer, OobOpcode>>

\* sl_SyncObjWait in the loop: the semaphore of its object was signalled.
PendWake(t) ==
  /\ Goto(t, "pend", "again")
  /\ SyncObj[ObjIdx[t]]
  /\ SyncObj' = [SyncObj EXCEPT ![ObjIdx[t]] = FALSE]
  /\ UNCHANGED <<op, ObjIdx, calls, lists, ProtectionLost, asked, ping, rx, ActionIndex,
                 answer, OobOpcode>>

\* (a defective variant, to confirm that the refinement can fail)
PendRetryOnce(t) ==
  /\ pc[t] = "again"
  /\ ~ ProtectionLost
  /\ Activate(ObjIdx[t], op[t], ObjPool)
  /\ pc' = [pc EXCEPT ![t] = "args"]
  /\ UNCHANGED <<op, ObjIdx, calls, FreePoolIdx, SyncObj, ProtectionLost, asked, ping, rx,
                 ActionIndex, answer, OobOpcode>>

PendRetry(t) ==
  /\ pc[t] = "again"
  /\ ~ ProtectionLost
  /\ Contend(t, ObjIdx[t], op[t], ObjPool)
  /\ UNCHANGED <<op, ObjIdx, calls, FreePoolIdx, SyncObj, ProtectionLost, asked, ping, rx,
                 ActionIndex, answer, OobOpcode>>

\* The caller's own critical section: where the answer goes, for a host name
\* whether an IPv6 address is wanted, for a ping that no callback gets the report.
SetArgs(t) ==
  /\ Goto(t, "args", IF op[t].action = "GETHOSTBYSERVICE" THEN "family" ELSE "cmd")
  /\ ~ ProtectionLost
  /\ ObjPool' = [ObjPool EXCEPT
       ![ObjIdx[t]].pRespArgs = t,
       ![ObjIdx[t]].v6 = @ \/ (op[t].action = "GETHOSTBYNAME" /\ op[t].v6)]
  /\ pPingCallBackFunc' = (pPingCallBackFunc /\ op[t].action # "PING")
  /\ UNCHANGED <<op, ObjIdx, calls, FreePoolIdx, ActivePoolIdx, PendingPoolIdx,
                 ActiveActionsBitmap, SyncObj, ProtectionLost, asked, rx,
                 ActionIndex, answer, OobOpcode>>

\* For a service the family is set after the lock was released.
SetFamily(t) ==
  /\ Goto(t, "family", "cmd")
  /\ ObjPool' = [ObjPool EXCEPT ![ObjIdx[t]].v6 = @ \/ op[t].v6]
  /\ UNCHANGED <<op, ObjIdx, calls, FreePoolIdx, ActivePoolIdx, PendingPoolIdx,
                 ActiveActionsBitmap, SyncObj, ProtectionLost, asked, ping, rx,
                 ActionIndex, answer, OobOpcode>>

\* The command is sent and the processor accepts it; a receive has no
\* response, only the later answer.
CmdAccepted(t) ==
  /\ Goto(t, "cmd", "wait")
  /\ asked' = asked \cup {[by |-> t, op |-> op[t]]}
  /\ UNCHANGED <<op, ObjIdx, calls, lists, SyncObj, ProtectionLost, ping, rx,
                 ActionIndex, answer, OobOpcode>>

\* The response to the command reports an error: no answer will come.
CmdRefused(t) ==
  /\ Goto(t, "cmd", "release")
  /\ op[t].action # "RECV"
  /\ UNCHANGED <<op, ObjIdx, calls, lists, SyncObj, ProtectionLost, asked, ping, rx,
                 ActionIndex, answer, OobOpcode>>

AnswerWait(t) ==
  /\ Goto(t, "wait", "release")
  /\ SyncObj[ObjIdx[t]]
  /\ SyncObj' = [SyncObj EXCEPT ![ObjIdx[t]] = FALSE]
  /\ UNCHANGED <<op, ObjIdx, calls, lists, ProtectionLost, asked, ping, rx, ActionIndex,
                 answer, OobOpcode>>

\* (a defective variant, to confirm that NoLostWakeup and PendingIsServed can
\* fail)
CalledUpOnSocket(j, i) ==
  /\ ObjPool[j].ActionID = ObjPool[i].ActionID
  /\ OnSocket(ObjPool[i]) /\ ObjPool[j].sd = ObjPool[i].sd

\* The pending object that _SlDrvReleasePoolObj looks for when i is released.
CalledUp(j, i) ==
  /\ ObjPool[j].ActionID = ObjPool[i].ActionID
  /\ \/ ~ OnSocket(ObjPool[j])
     \/ OnSocket(ObjPool[i]) /\ ObjPool[j].sd = ObjPool[i].sd

\* _SlDrvReleasePoolObj: calls up one pending object of its kind, clears its
\* bit and its data, and moves from the active to the free list.
ReleasePoolObj(t) ==
  LET i == ObjIdx[t] IN
  /\ Goto(t, "release", "idle")
  /\ ~ ProtectionLost
  /\ \E next \in Indices :
       LET woken == IF next = MAX_CONCURRENT_ACTIONS
                    THEN [pool |-> ObjPool, head |-> PendingPoolIdx]
                    ELSE RemoveFromList(ObjPool, PendingPoolIdx, next)
           active == RemoveFromList(woken.pool, ActivePoolIdx, i)
       IN  /\ next = First(Chain(ObjPool, PendingPoolIdx), {j \in Objects : CalledUp(j, i)})
           /\ PendingPoolIdx' = woken.head
           /\ SyncObj' = IF next = MAX_CONCURRENT_ACTIONS THEN SyncObj
                         ELSE [SyncObj EXCEPT ![next] = TRUE]
           /\ ActivePoolIdx' = active.head
           /\ ObjPool' = [active.pool EXCEPT ![i] =
                [ActionID |-> NoAction, sd |-> SL_MAX_SOCKETS, v6 |-> FALSE,
                 NextIndex |-> FreePoolIdx, pRespArgs |-> Nobody]]
  /\ ActiveActionsBitmap' =
       ActiveActionsBitmap \ {Key(Call(ObjPool[i].ActionID, ObjPool[i].sd))}
  /\ FreePoolIdx' = i
  /\ ObjIdx' = [ObjIdx EXCEPT ![t] = MAX_CONCURRENT_ACTIONS]
  /\ answer' = [answer EXCEPT ![t] = Nobody]
  /\ UNCHANGED <<op, calls, ProtectionLost, asked, ping, rx, ActionIndex, OobOpcode>>

\* sl_NetAppPingStart with a callback takes no object and does not wait. The
\* callback is one for all tasks and is set without a lock.
Ping == [action |-> "PING", sd |-> SL_MAX_SOCKETS, v6 |-> FALSE]

PingStartCallback(t) ==
  /\ Goto(t, "idle", "ping")
  /\ "callback" \in PingHabits
  /\ NoPing \/ "overlap" \in PingHabits
  /\ calls < MaxCalls
  /\ calls' = calls + 1
  /\ pPingCallBackFunc' = TRUE
  /\ UNCHANGED <<op, ObjIdx, lists, SyncObj, ProtectionLost, asked, rx, ActionIndex,
                 answer, OobOpcode>>

PingCommand(t) ==
  /\ Goto(t, "ping", "idle")
  /\ asked' \in {asked, asked \cup {[by |-> Nobody, op |-> Ping]}}
  /\ UNCHANGED <<op, ObjIdx, calls, lists, SyncObj, ProtectionLost, ping, rx,
                 ActionIndex, answer, OobOpcode>>

CallStep(t) ==
  \/ PendWake(t) \/ PendRetry(t) \/ SetArgs(t) \/ SetFamily(t) \/ CmdAccepted(t)
  \/ CmdRefused(t) \/ AnswerWait(t) \/ ReleasePoolObj(t) \/ PingCommand(t)

-------------------------------------------------------------------------------
(* The receive path: _SlDrvMsgRead, then the handler of the answer *)

\* _SlActionLookupTable[ActionID - MAX_SOCKET_ENUM_IDX].ActionAsyncOpcode: the
\* table has no entry for RECV_ID, whose index is one past its end.
ActionAsyncOpcode(action) ==
  IF action = "RECV" THEN OobOpcode ELSE [action |-> action, v6 |-> FALSE]

\* The test of one active object; a receive is matched by any of its three
\* opcodes before the table is consulted.
Matches(i, opcode, sd) ==
  \/ ObjPool[i].ActionID = "RECV" /\ ObjPool[i].sd = sd /\ opcode.action = "RECV"
  \/ /\ ActionAsyncOpcode(ObjPool[i].ActionID) = opcode
     /\ OnSocket(ObjPool[i]) => ObjPool[i].sd = sd

\* (a defective variant, to confirm that AnswerFindsItsCall can fail)
FindActiveObjAsIs(opcode, sd) ==
  LET active == Chain(ObjPool, ActivePoolIdx)
      found == {k \in DOMAIN active : Matches(active[k], opcode, sd)}
  IN  IF found = {} THEN MAX_CONCURRENT_ACTIONS ELSE active[Min(found)]

\* _SlFindAndSetActiveObj: the first active object that matches. An object
\* that wants IPv6 clears the IPv6 bit of the opcode for itself and for the
\* objects after it.
FindActiveObj(opcode, sd) ==
  LET active == Chain(ObjPool, ActivePoolIdx)
      cleared(k) == \E j \in 1 .. k : ObjPool[active[j]].v6
      found == {k \in DOMAIN active :
                  Matches(active[k], [opcode EXCEPT !.v6 = @ /\ ~ cleared(k)], sd)}
  IN  IF found = {} THEN MAX_CONCURRENT_ACTIONS ELSE active[Min(found)]

\* The answer to call o: its opcode.
AsyncOpcode(o) == [action |-> o.action, v6 |-> o.v6]

\* The handler's copy to pRespArgs and its signal.
Deliver(i, m) ==
  /\ answer' = IF ObjPool[i].pRespArgs \in Threads
               THEN [answer EXCEPT ![ObjPool[i].pRespArgs] = m.by]
               ELSE answer
  /\ SyncObj' = [SyncObj EXCEPT ![i] = TRUE]

\* Received data is copied and signalled in the critical section that finds the
\* object; without an object _SlDrvMsgRead returns and keeps the lock.
MsgReadRecv ==
  /\ rx = NoMsg
  /\ ~ ProtectionLost
  /\ \E m \in asked, i \in Indices :
           /\ m.op.action = "RECV"
           /\ i = FindActiveObj(AsyncOpcode(m.op), m.op.sd)
           /\ asked' = asked \ {m}
           /\ IF i = MAX_CONCURRENT_ACTIONS
              THEN ProtectionLost' = TRUE /\ UNCHANGED <<answer, SyncObj, ActionIndex>>
              ELSE Deliver(i, m) /\ ActionIndex' = i /\ UNCHANGED ProtectionLost
  /\ UNCHANGED <<pc, op, ObjIdx, calls, lists, ping, rx, OobOpcode>>

\* Another answer: its object is looked up now, and used by the handler after
\* the lock was released. Without an object the event handler of the
\* application gets the message, save the report of a ping: its handler is called
\* with the object of an earlier message.
MsgReadAsync ==
  /\ rx = NoMsg
  /\ ~ ProtectionLost
  /\ \E m \in asked, i \in Indices :
       LET isPing == m.op.action = "PING"
       IN  /\ m.op.action # "RECV"
           /\ i = FindActiveObj(AsyncOpcode(m.op), m.op.sd)
           /\ asked' \in {asked \ {m}} \cup
                IF isPing /\ "each" \in PingHabits THEN {asked} ELSE {}
           /\ rx' = IF i = MAX_CONCURRENT_ACTIONS /\ ~ isPing THEN rx ELSE m
           /\ ActionIndex' = IF i = MAX_CONCURRENT_ACTIONS THEN ActionIndex ELSE i
  /\ UNCHANGED <<pc, op, ObjIdx, calls, lists, SyncObj, ProtectionLost, ping, answer,
                 OobOpcode>>

HandlerEnds ==
  /\ rx' = NoMsg
  /\ UNCHANGED <<pc, op, ObjIdx, calls, lists, ProtectionLost, asked, ping, ActionIndex,
                 OobOpcode>>

\* _sl_HandleAsync_Accept, _Connect, _Select, _DnsGetHostByName
HandleAsync ==
  /\ rx # NoMsg /\ rx.op.action \notin {"GETHOSTBYSERVICE", "PING"}
  /\ ~ ProtectionLost
  /\ Deliver(ActionIndex, rx)
  /\ HandlerEnds

\* _sl_HandleAsync_DnsGetHostByService does not take the lock; for an IPv6
\* address it returns without a signal.
HandleService ==
  /\ rx # NoMsg /\ rx.op.action = "GETHOSTBYSERVICE"
  /\ IF ObjPool[ActionIndex].v6 THEN UNCHANGED <<answer, SyncObj>>
     ELSE Deliver(ActionIndex, rx)
  /\ HandlerEnds

\* _sl_HandleAsync_PingResponse: the callback has precedence over the object.
HandlePing ==
  /\ rx # NoMsg /\ rx.op.action = "PING"
  /\ pPingCallBackFunc \/ ~ ProtectionLost
  /\ IF pPingCallBackFunc \/ ObjPool[ActionIndex].pRespArgs = Nobody
     THEN UNCHANGED <<answer, SyncObj>>
     ELSE Deliver(ActionIndex, rx)
  /\ HandlerEnds

RxStep == MsgReadRecv \/ MsgReadAsync \/ HandleAsync \/ HandleService \/ HandlePing

-------------------------------------------------------------------------------
Next ==
  RxStep \/ \E t \in Threads : WaitForPoolObj(t) \/ PingStartCallback(t) \/ CallStep(t)

Spec == Init /\ [][Next]_vars

\* Work that can be done is done: a ready task runs, or the processor answers what
\* it has accepted. Nobody has to start a call.
FairSpec == Spec /\ WF_vars((\E t \in Threads : CallStep(t)) \/ RxStep)

-------------------------------------------------------------------------------
(* Properties *)

\* What the control block can hold.
TypeOK ==
  /\ pc \in [Threads -> {"idle", "pend", "again", "args", "family", "cmd", "ping",
                          "wait", "release"}]
  /\ op \in [Threads -> Ops]
  /\ ObjIdx \in [Threads -> Indices]
  /\ calls \in 0 .. MaxCalls
  /\ ObjPool \in [Objects -> [ActionID : Actions \cup {NoAction},
                              sd : 0 .. SL_MAX_SOCKETS, v6 : BOOLEAN,
                              NextIndex : Indices, pRespArgs : Threads \cup {Nobody}]]
  /\ SyncObj \in [Objects -> BOOLEAN]
  /\ {FreePoolIdx, ActivePoolIdx, PendingPoolIdx, ActionIndex} \subseteq Indices
  /\ ActiveActionsBitmap \subseteq {Key(o) : o \in Ops}
  /\ ProtectionLost \in BOOLEAN
  /\ asked \cup ({rx} \ {NoMsg}) \subseteq
       [by : Threads, op : Ops] \cup [by : {Nobody}, op : {Ping}]
  /\ pPingCallBackFunc \in BOOLEAN
  /\ answer \in [Threads -> Threads \cup {Nobody}]
  /\ OobOpcode \in OobOpcodes

\* Unlinked from the pending list and signalled, but not active yet.
InTransit(t) == pc[t] = "again" \/ (pc[t] = "pend" /\ SyncObj[ObjIdx[t]])

Waiters == {ObjIdx[t] : t \in {u \in Threads : pc[u] = "pend" /\ ~ InTransit(u)}}
Holders == {ObjIdx[t] : t \in {u \in Threads : pc[u] \in {"args", "family", "cmd", "wait", "release"}}}
Travellers == {ObjIdx[t] : t \in {u \in Threads : InTransit(u)}}

\* The three lists share one link field per object, so they stay lists only
\* if every object is on exactly one of them, once, save the objects called up
\* that are on none: the active list holds the objects of the calls that run,
\* the pending list those that wait, the free list all others.
ListsPartition ==
  /\ Chain(ObjPool, ActivePoolIdx) \in SetToSeqs(Holders)
  /\ Chain(ObjPool, PendingPoolIdx) \in SetToSeqs(Waiters)
  /\ Chain(ObjPool, FreePoolIdx) \in SetToSeqs(Objects \ (Holders \cup Waiters \cup Travellers))

\* Whenever the answer to a call comes in, the lookup finds the object of that
\* call, whatever follows the table in memory and whatever the IPv6 calls in
\* front of it in the active list; the object found is still that call's when the
\* handler uses the index after the lock was released; and a ping's report goes to
\* the callback or to the call, whichever asked for it.
AnswerFindsItsCall ==
  /\ \A m \in asked : m.by # Nobody =>
       FindActiveObj(AsyncOpcode(m.op), m.op.sd) = ObjIdx[m.by]
  /\ rx # NoMsg /\ rx.by # Nobody =>
       ActionIndex = ObjIdx[rx.by] /\ ObjPool[ActionIndex].pRespArgs = rx.by
  /\ rx # NoMsg /\ rx.op.action = "PING" => (pPingCallBackFunc <=> rx.by = Nobody)

(***************************************************************************)
(* The call of a task as SlActions sees it.                                *)
(***************************************************************************)
st == [t \in Threads |->
         CASE pc[t] \in {"idle", "ping"} -> "out"
           [] InTransit(t) -> "called"
           [] pc[t] = "pend" /\ ~ InTransit(t) -> "pending"
           [] pc[t] \in {"args", "family", "cmd"} -> "active"
           [] pc[t] = "wait" -> IF answer[t] = t THEN "answered" ELSE "asked"
           [] pc[t] = "release" -> IF answer[t] = t THEN "answered"
                                   ELSE IF op[t].action = "RECV" THEN "asked"
                                   ELSE "active"]

Abstract == INSTANCE SlActions

\* The pool implements the discipline of SlActions.
ImplementsActions == Abstract!Spec

\* Calls that exclude each other do not run together, and a call that waits
\* for its turn has somebody who will call it up: between the signal and the
\* moment the woken task runs, a third task may take the turn.
Exclusion == Abstract!Exclusion
NoLostWakeup == Abstract!NoLostWakeup

\* A call that waits for its turn gets it, and every call ends, once no new ones
\* are made (the order is last in, first out, so an endless stream of calls can
\* starve one that waits).
PendingIsServed == (\E t \in Threads : pc[t] # "idle") ~> (\A t \in Threads : pc[t] = "idle")
==============================================================================
