---------------------------- MODULE SlActionsProofs ----------------------------
(***************************************************************************)
(* Proofs about SlActions, for any set of tasks and any calls.  SlObjPool  *)
(* implements SlActions, so what is proved here is what the pool promises. *)
(***************************************************************************)
EXTENDS SlActions, TLAPS

-------------------------------------------------------------------------------
\* Every call of a task is in one of the stages of an action.
THEOREM ActionsType == Spec => []TypeOK
<1>1. Init => TypeOK
  BY DEF Init, TypeOK, Statuses
<1>2. TypeOK /\ [Next]_vars => TypeOK'
  <2> SUFFICES ASSUME TypeOK, [Next]_vars
               PROVE  TypeOK'
    OBVIOUS
  <2>1. ASSUME NEW t \in Threads, Start(t)
        PROVE  TypeOK'
    BY <2>1 DEF TypeOK, Start, Statuses
  <2>2. ASSUME NEW t \in Threads, Retry(t) \/ Ask(t) \/ Answer(t)
        PROVE  TypeOK'
    BY <2>2 DEF TypeOK, Retry, Ask, Answer, Statuses
  <2>3. ASSUME NEW t \in Threads, Release(t)
        PROVE  TypeOK'
    BY <2>3 DEF TypeOK, Release, Statuses
  <2>4. CASE UNCHANGED vars
    BY <2>4 DEF TypeOK, vars
  <2> QED
    BY <2>1, <2>2, <2>3, <2>4 DEF Next
<1> QED
  BY <1>1, <1>2, PTL DEF Spec

-------------------------------------------------------------------------------
(* Exclusion *)

\* A task becomes active only when no call that excludes its own runs.
LEMMA ActivateAlone ==
  ASSUME TypeOK, Exclusion, NEW t \in Threads, NEW o \in Ops,
         op' = [op EXCEPT ![t] = o],
         st' = [st EXCEPT ![t] = IF Busy(o) THEN "pending" ELSE "active"]
  PROVE  Exclusion'
<1>1. \A u \in Threads : u # t => (Runs(u)' <=> Runs(u)) /\ op'[u] = op[u]
  BY DEF TypeOK, Runs
<1>2. op'[t] = o
  BY DEF TypeOK
<1>3. CASE Busy(o)
  <2>1. ~ Runs(t)'
    BY <1>3 DEF TypeOK, Runs
  <2> QED
    BY <1>1, <2>1 DEF Exclusion
<1>4. CASE ~ Busy(o)
  BY <1>1, <1>2, <1>4 DEF Exclusion, Busy
<1> QED
  BY <1>3, <1>4

LEMMA SameRunners ==
  ASSUME Exclusion, UNCHANGED op, \A u \in Threads : Runs(u)' => Runs(u)
  PROVE  Exclusion'
BY DEF Exclusion

\* At most one of the calls that exclude each other runs, although a call that
\* was called up contends with calls that start in the meantime.
THEOREM OneAtATime == Spec => []Exclusion
<1>1. Init => Exclusion
  BY DEF Init, Exclusion, Runs
<1>2. TypeOK /\ Exclusion /\ [Next]_vars => Exclusion'
  <2> SUFFICES ASSUME TypeOK, Exclusion, [Next]_vars
               PROVE  Exclusion'
    OBVIOUS
  <2>1. ASSUME NEW t \in Threads, Start(t)
        PROVE  Exclusion'
    BY <2>1, ActivateAlone DEF Start
  <2>2. ASSUME NEW t \in Threads, Retry(t)
        PROVE  Exclusion'
    <3>1. op' = [op EXCEPT ![t] = op[t]] /\ op[t] \in Ops
      BY <2>2 DEF TypeOK, Retry
    <3> QED
      BY <2>2, <3>1, ActivateAlone DEF Retry
  <2>3. ASSUME NEW t \in Threads, Ask(t) \/ Answer(t) \/ Release(t)
        PROVE  Exclusion'
    BY <2>3, SameRunners DEF TypeOK, Ask, Answer, Release, Runs, Successor
  <2>4. CASE UNCHANGED vars
    BY <2>4 DEF vars, Exclusion, Runs
  <2> QED
    BY <2>1, <2>2, <2>3, <2>4 DEF Next
<1> QED
  BY <1>1, <1>2, ActionsType, PTL DEF Spec

-------------------------------------------------------------------------------
(* Wake-ups *)

\* Contending leaves the other tasks' wakers in place: if t was somebody's
\* waker it is active now, or whoever keeps it from being active is.
LEMMA ContendKeepsWakers ==
  ASSUME TypeOK, NoLostWakeup, NEW t \in Threads, NEW o \in Ops,
         st[t] = "out" \/ (st[t] = "called" /\ o = op[t]),
         op' = [op EXCEPT ![t] = o],
         st' = [st EXCEPT ![t] = IF Busy(o) THEN "pending" ELSE "active"]
  PROVE  NoLostWakeup'
<1>1. \A u \in Threads : u # t => st'[u] = st[u] /\ op'[u] = op[u]
  BY DEF TypeOK
<1>2. st'[t] = (IF Busy(o) THEN "pending" ELSE "active") /\ op'[t] = o
  BY DEF TypeOK
<1>3. ~ Runs(t)
  BY DEF Runs
<1> SUFFICES ASSUME NEW w \in Threads, st'[w] = "pending"
             PROVE  \E u \in Threads : /\ st'[u] = "called" \/ Runs(u)'
                                       /\ Key(op'[u]) = Key(op'[w])
  BY DEF NoLostWakeup
<1>4. CASE w = t
  <2>1. PICK u \in Threads : Runs(u) /\ Key(op[u]) = Key(o)
    BY <1>2, <1>4 DEF Busy
  <2> QED
    BY <1>1, <1>2, <1>3, <1>4, <2>1 DEF Runs
<1>5. CASE w # t
  <2>1. PICK u \in Threads : /\ st[u] = "called" \/ Runs(u)
                             /\ Key(op[u]) = Key(op[w])
    BY <1>1, <1>5 DEF NoLostWakeup
  <2>2. CASE u # t
    BY <1>1, <1>5, <2>1, <2>2 DEF Runs
  <2>3. CASE u = t
    <3>1. st[t] = "called" /\ o = op[t] /\ Key(o) = Key(op'[w])
      BY <1>1, <1>3, <1>5, <2>1, <2>3
    <3>2. CASE ~ Busy(o)
      BY <1>2, <3>1, <3>2 DEF Runs
    <3>3. CASE Busy(o)
      <4>1. PICK v \in Threads : Runs(v) /\ Key(op[v]) = Key(o)
        BY <3>3 DEF Busy
      <4> QED
        BY <1>1, <1>3, <3>1, <4>1 DEF Runs
    <3> QED
      BY <3>2, <3>3
  <2> QED
    BY <2>2, <2>3
<1> QED
  BY <1>4, <1>5

\* With one kind of call per key, the tasks that may be called up when t ends
\* are those that wait for t's key.
LEMMA SuccessorsHaveKey ==
  ASSUME OneKindPerKey, TypeOK, NEW t \in Threads, NEW u \in Threads,
         st[u] = "pending"
  PROVE  Successor(u, t) <=> Key(op[u]) = Key(op[t])
<1>1. op[u] \in Ops /\ op[t] \in Ops
  BY DEF TypeOK
<1>2. CASE OnSocket(op[u]) /\ OnSocket(op[t])
  BY <1>1, <1>2 DEF OneKindPerKey, Successor, Key
<1>3. CASE ~ OnSocket(op[u]) /\ ~ OnSocket(op[t])
  BY <1>1, <1>3 DEF OneKindPerKey, Successor, Key
<1>4. CASE ~ (OnSocket(op[u]) <=> OnSocket(op[t]))
  BY <1>1, <1>4 DEF OneKindPerKey, Successor, Key
<1> QED
  BY <1>2, <1>3, <1>4

LEMMA ReleaseKeepsWakers ==
  ASSUME OneKindPerKey, TypeOK, NoLostWakeup, NEW t \in Threads, Release(t)
  PROVE  NoLostWakeup'
<1>1. op' = op /\ st[t] # "pending" /\ st[t] # "called"
  BY DEF Release
<1>2. CASE \E u \in Threads : Successor(u, t)
  <2>1. PICK u \in Threads :
          Successor(u, t) /\ st' = [st EXCEPT ![t] = "out", ![u] = "called"]
    BY <1>2 DEF Release
  <2>2. u # t /\ Key(op[u]) = Key(op[t])
    BY <1>1, <2>1, SuccessorsHaveKey DEF Successor
  <2>3. st'[u] = "called" /\ st'[t] = "out"
    BY <2>1, <2>2 DEF TypeOK
  <2>4. \A v \in Threads \ {t, u} : st'[v] = st[v]
    BY <2>1 DEF TypeOK
  <2> SUFFICES ASSUME NEW w \in Threads, st'[w] = "pending"
               PROVE  \E v \in Threads : /\ st'[v] = "called" \/ Runs(v)'
                                         /\ Key(op'[v]) = Key(op'[w])
    BY DEF NoLostWakeup
  <2>5. st[w] = "pending"
    BY <2>3, <2>4
  <2>6. PICK v \in Threads : (st[v] = "called" \/ Runs(v)) /\ Key(op[v]) = Key(op[w])
    BY <2>5 DEF NoLostWakeup
  <2>7. CASE v \in {t, u}
    BY <1>1, <2>2, <2>3, <2>6, <2>7
  <2>8. CASE v \notin {t, u}
    BY <1>1, <2>4, <2>6, <2>8 DEF Runs
  <2> QED
    BY <2>7, <2>8
<1>3. CASE ~ \E u \in Threads : Successor(u, t)
  <2>1. st' = [st EXCEPT ![t] = "out"]
    BY <1>3 DEF Release
  <2>2. \A v \in Threads \ {t} : st'[v] = st[v]
    BY <2>1 DEF TypeOK
  <2>3. st'[t] = "out"
    BY <2>1 DEF TypeOK
  <2> SUFFICES ASSUME NEW w \in Threads, st'[w] = "pending"
               PROVE  \E v \in Threads : /\ st'[v] = "called" \/ Runs(v)'
                                         /\ Key(op'[v]) = Key(op'[w])
    BY DEF NoLostWakeup
  <2>4. st[w] = "pending"
    BY <2>2, <2>3
  <2>5. Key(op[w]) # Key(op[t])
    BY <1>3, <2>4, SuccessorsHaveKey
  <2>6. PICK v \in Threads : (st[v] = "called" \/ Runs(v)) /\ Key(op[v]) = Key(op[w])
    BY <2>4 DEF NoLostWakeup
  <2> QED
    BY <1>1, <2>2, <2>5, <2>6 DEF Runs
<1> QED
  BY <1>2, <1>3

\* No wake-up is lost: a call that waits for its turn always has somebody who
\* will call it up, provided the calls on one socket are of one kind.
THEOREM WakeupsReachTheirCalls ==
  ASSUME OneKindPerKey
  PROVE  Spec => []NoLostWakeup
<1>1. Init => NoLostWakeup
  BY DEF Init, NoLostWakeup
<1>2. TypeOK /\ NoLostWakeup /\ [Next]_vars => NoLostWakeup'
  <2> SUFFICES ASSUME TypeOK, NoLostWakeup, [Next]_vars
               PROVE  NoLostWakeup'
    OBVIOUS
  <2>1. ASSUME NEW t \in Threads, Start(t)
        PROVE  NoLostWakeup'
    BY <2>1, ContendKeepsWakers DEF Start
  <2>2. ASSUME NEW t \in Threads, Retry(t)
        PROVE  NoLostWakeup'
    <3>1. op' = [op EXCEPT ![t] = op[t]] /\ op[t] \in Ops
      BY <2>2 DEF TypeOK, Retry
    <3> QED
      BY <2>2, <3>1, ContendKeepsWakers DEF Retry
  <2>3. ASSUME NEW t \in Threads, Ask(t) \/ Answer(t)
        PROVE  NoLostWakeup'
    <3>1. \A u \in Threads : /\ st'[u] = "pending" <=> st[u] = "pending"
                             /\ st'[u] = "called" <=> st[u] = "called"
                             /\ Runs(u)' <=> Runs(u)
      BY <2>3 DEF TypeOK, Ask, Answer, Runs
    <3>2. op' = op
      BY <2>3 DEF Ask, Answer
    <3> QED
      BY <3>1, <3>2 DEF NoLostWakeup
  <2>4. ASSUME NEW t \in Threads, Release(t)
        PROVE  NoLostWakeup'
    BY <2>4, ReleaseKeepsWakers
  <2>5. CASE UNCHANGED vars
    BY <2>5 DEF vars, NoLostWakeup, Runs
  <2> QED
    BY <2>1, <2>2, <2>3, <2>4, <2>5 DEF Next
<1> QED
  BY <1>1, <1>2, ActionsType, PTL DEF Spec
===============================================================================
