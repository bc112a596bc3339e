------------------------------ MODULE SlActions ------------------------------
(***************************************************************************)
(* What the pool of concurrent actions promises to the application tasks   *)
(* that call sl_Accept, sl_Connect, sl_Recv, sl_Select and the other       *)
(* functions whose answer arrives later, as an asynchronous message: of    *)
(* the calls that exclude each other at most one runs at a time, a call    *)
(* that waits for its turn is called up when the one before it ends, and a *)
(* call the processor has accepted ends only after its own answer.         *)
(* SlObjPool implements this specification.                                *)
(***************************************************************************)
EXTENDS Naturals

CONSTANTS
  Threads,         \* application tasks
  Ops,             \* the calls they make: records with fields action and sd
  SL_MAX_SOCKETS   \* sd of a call that is on no socket

\* Calls on one socket exclude each other, and so do calls of one kind that
\* are on no socket.
OnSocket(o) == o.sd < SL_MAX_SOCKETS
Key(o) == IF OnSocket(o) THEN <<"socket", o.sd>> ELSE <<"action", o.action>>

\* How the applications use the pool: calls that exclude each other are of the
\* same kind, and a kind is on sockets or it is not.
OneKindPerKey ==
  \A o, p \in Ops :
    /\ Key(o) = Key(p) => o.action = p.action
    /\ o.action = p.action => (OnSocket(o) <=> OnSocket(p))

VARIABLES
  st,   \* how far the call of each task has come
  op    \* the call (meaningful unless st is "out")

vars == <<st, op>>

Statuses == {"out", "pending", "called", "active", "asked", "answered"}

TypeOK ==
  /\ st \in [Threads -> Statuses]
  /\ op \in [Threads -> Ops]

Runs(t) == st[t] \in {"active", "asked", "answered"}
Busy(o) == \E u \in Threads : Runs(u) /\ Key(op[u]) = Key(o)

Init ==
  /\ st = [t \in Threads |-> "out"]
  /\ op \in [Threads -> Ops]

Start(t) ==
  /\ st[t] = "out"
  /\ \E o \in Ops :
       /\ op' = [op EXCEPT ![t] = o]
       /\ st' = [st EXCEPT ![t] = IF Busy(o) THEN "pending" ELSE "active"]

\* A call that was called up contends again: another may have come in between.
Retry(t) ==
  /\ st[t] = "called"
  /\ st' = [st EXCEPT ![t] = IF Busy(op[t]) THEN "pending" ELSE "active"]
  /\ UNCHANGED op

Ask(t) ==
  /\ st[t] = "active"
  /\ st' = [st EXCEPT ![t] = "asked"]
  /\ UNCHANGED op

Answer(t) ==
  /\ st[t] = "asked"
  /\ st' = [st EXCEPT ![t] = "answered"]
  /\ UNCHANGED op

\* u waits for its turn and may be called up when t ends.
Successor(u, t) ==
  /\ st[u] = "pending"
  /\ op[u].action = op[t].action
  /\ OnSocket(op[u]) => op[u].sd = op[t].sd

\* The end of a call that was answered, or that the processor refused.
Release(t) ==
  /\ st[t] \in {"active", "answered"}
  /\ IF \E u \in Threads : Successor(u, t)
     THEN \E u \in Threads :
            Successor(u, t) /\ st' = [st EXCEPT ![t] = "out", ![u] = "called"]
     ELSE st' = [st EXCEPT ![t] = "out"]
  /\ UNCHANGED op

Next ==
  \E t \in Threads :
    Start(t) \/ Retry(t) \/ Ask(t) \/ Answer(t) \/ Release(t)

Spec == Init /\ [][Next]_vars

\* Calls that exclude each other do not run together.
Exclusion ==
  \A t, u \in Threads : Runs(t) /\ Runs(u) /\ Key(op[t]) = Key(op[u]) => t = u

\* A call that waits for its turn has somebody who will call it up: a call it
\* is excluded by, or one that was called up and contends again.
NoLostWakeup ==
  \A t \in Threads : st[t] = "pending" =>
    \E u \in Threads :
      /\ st[u] = "called" \/ Runs(u)
      /\ Key(op[u]) = Key(op[t])
==============================================================================
