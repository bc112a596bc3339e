----------------------------- MODULE CcTimerProofs -----------------------------
(* Theorems on the software timers, for any number of timers and any times.   *)
(*                                                                            *)
(* The mark that says "the alarm is set for this one" is on the head of the   *)
(* list and nowhere else, whatever the habits of the clients, those included  *)
(* that close the list into a cycle.                                          *)
(*                                                                            *)
(* In plain use (Habits is empty) the list of running timers ends, is ordered *)
(* and keeps the promise of TimerQueue. The invariant speaks of a sequence of *)
(* timers that the links follow from used_list; every call on the list puts   *)
(* one timer into that sequence or takes one out.                             *)
EXTENDS CcTimer, FiniteSetTheorems, SequenceTheorems, WellFoundedInduction, TLAPS

Flags == {"ALLOCATE", "HW_SCHED", "PERIODIC"}

\* The types that a step on the lists depends on.
ListsTyped ==
  /\ {used_list, free_list, expired} \subseteq Timers \cup {NULL}
  /\ next \in [Timers -> Timers \cup {NULL}]
  /\ flags \in [Timers -> SUBSET Flags]
  /\ cpu = "callback" => expired \in Timers

MarkInv == ListsTyped /\ ScheduledIsHead

\* Only head is marked in fl.
OnlyMarked(fl, head) == \A t \in Timers : "HW_SCHED" \in fl[t] => t = head

-------------------------------------------------------------------------------
(* The helpers *)

LEMMA UpdateFlags ==
  ASSUME NEW fl \in [Timers -> SUBSET Flags], NEW t, NEW s \in SUBSET Flags
  PROVE  /\ [fl EXCEPT ![t] = s] \in [Timers -> SUBSET Flags]
         /\ \A u \in Timers : [fl EXCEPT ![t] = s][u] = IF u = t THEN s ELSE fl[u]
OBVIOUS

LEMMA Unmark ==
  ASSUME NEW fl \in [Timers -> SUBSET Flags], NEW t \in Timers, NEW gone \in SUBSET Flags
  PROVE  /\ [fl EXCEPT ![t] = @ \ gone] \in [Timers -> SUBSET Flags]
         /\ \A u \in Timers :
              [fl EXCEPT ![t] = @ \ gone][u] = IF u = t THEN fl[t] \ gone ELSE fl[u]
OBVIOUS

LEMMA UpdateLink ==
  ASSUME NEW f \in [Timers -> Timers \cup {NULL}], NEW x, NEW t \in Timers \cup {NULL}
  PROVE  [f EXCEPT ![x] = t] \in [Timers -> Timers \cup {NULL}]
OBVIOUS

LEMMA SchedMarks ==
  ASSUME NEW head, NEW fl \in [Timers -> SUBSET Flags], OnlyMarked(fl, head),
         SchedTimerIfNew(head, fl)
  PROVE  flags' \in [Timers -> SUBSET Flags] /\ OnlyMarked(flags', head)
<1>1. CASE head \in Timers
  <2>1. flags' = fl \/ flags' = [fl EXCEPT ![head] = fl[head] \cup {"HW_SCHED"}]
    BY <1>1 DEF SchedTimerIfNew
  <2>2. fl[head] \cup {"HW_SCHED"} \in SUBSET Flags
    BY <1>1 DEF Flags
  <2> QED
    BY <2>1, <2>2, UpdateFlags DEF OnlyMarked
<1>2. CASE head \notin Timers
  BY <1>2 DEF SchedTimerIfNew, OnlyMarked
<1> QED
  BY <1>1, <1>2

LEMMA InsertMarks ==
  ASSUME ListsTyped, NEW t \in Timers, NEW fl \in [Timers -> SUBSET Flags],
         OnlyMarked(fl, used_list), Insert(t, fl)
  PROVE  /\ used_list' \in Timers \cup {NULL}
         /\ next' \in [Timers -> Timers \cup {NULL}]
         /\ flags' \in [Timers -> SUBSET Flags]
         /\ OnlyMarked(flags', used_list')
<1>1. \A node \in Timers \cup {NULL} : Linked(t, node) \in [Timers -> Timers \cup {NULL}]
  BY DEF Linked, ListsTyped
<1>2. CASE InsertFirst(t, fl)
  <2>1. used_list' = t /\ next' = Linked(t, used_list) /\ used_list \in Timers \cup {NULL}
    BY <1>2 DEF InsertFirst, ListsTyped
  <2>2. CASE used_list = NULL
    BY <1>1, <1>2, <2>1, <2>2, TimerAssumption DEF InsertFirst, OnlyMarked
  <2>3. CASE used_list # NULL
    <3>1. flags' = [fl EXCEPT ![used_list] = @ \ {"HW_SCHED"}]
      BY <1>2, <2>3 DEF InsertFirst, Displaced
    <3>2. used_list \in Timers /\ {"HW_SCHED"} \in SUBSET Flags
      BY <2>1, <2>3 DEF Flags
    <3> QED
      BY <1>1, <2>1, <3>1, <3>2, Unmark DEF OnlyMarked
  <2> QED
    BY <2>2, <2>3
<1>3. ASSUME NEW k \in Steps \ {0}, InsertBefore(t, k, fl)
      PROVE  /\ used_list' = used_list /\ flags' = fl
             /\ next' \in [Timers -> Timers \cup {NULL}]
  <2>1. PICK node \in Timers \cup {NULL} :
          next' = [Linked(t, node) EXCEPT ![Node[k - 1]] = t]
    BY <1>3 DEF InsertBefore
  <2>2. Linked(t, node) \in [Timers -> Timers \cup {NULL}]
    BY <1>1
  <2>3. next' \in [Timers -> Timers \cup {NULL}]
    BY <2>1, <2>2, UpdateLink
  <2> QED
    BY <1>3, <2>3 DEF InsertBefore
<1>4. InsertFirst(t, fl) \/ \E k \in Steps \ {0} : InsertBefore(t, k, fl)
  BY DEF Insert
<1> QED
  BY <1>2, <1>3, <1>4 DEF ListsTyped

LEMMA RemoveLists ==
  ASSUME ListsTyped, NEW t \in Timers, Remove(t)
  PROVE  /\ used_list' \in Timers \cup {NULL}
         /\ next' \in [Timers -> Timers \cup {NULL}]
         /\ t # used_list => used_list' = used_list
BY DEF Remove, ListsTyped

-------------------------------------------------------------------------------
(* The steps *)

LEMMA CreateStep ==
  ASSUME MarkInv, cc_timer_create
  PROVE  MarkInv'
<1> USE DEF MarkInv, ListsTyped
<1>1. free_list \in Timers /\ {"ALLOCATE"} \in SUBSET Flags
  BY DEF cc_timer_create, Flags
<1>2. /\ flags' \in [Timers -> SUBSET Flags]
      /\ \A u \in Timers : flags'[u] = IF u = free_list THEN {"ALLOCATE"} ELSE flags[u]
  BY <1>1, UpdateFlags DEF cc_timer_create
<1>3. next' \in [Timers -> Timers \cup {NULL}] /\ free_list' \in Timers \cup {NULL}
  BY <1>1 DEF cc_timer_create
<1> QED
  BY <1>2, <1>3 DEF cc_timer_create, ScheduledIsHead

LEMMA DeleteStep ==
  ASSUME MarkInv, NEW t \in Timers, cc_timer_delete(t)
  PROVE  MarkInv'
<1> USE DEF MarkInv, ListsTyped
<1>1. /\ flags' \in [Timers -> SUBSET Flags]
      /\ \A u \in Timers : flags'[u] = IF u = t THEN {} ELSE flags[u]
  BY UpdateFlags DEF cc_timer_delete
<1>2. next' \in [Timers -> Timers \cup {NULL}] /\ free_list' = t
  BY DEF cc_timer_delete
<1> QED
  BY <1>1, <1>2 DEF cc_timer_delete, ScheduledIsHead

LEMMA StartStep ==
  ASSUME MarkInv, NEW t \in Timers, NEW time, NEW absolute, NEW periodic,
         cc_timer_start(t, time, absolute, periodic)
  PROVE  MarkInv'
<1> USE DEF MarkInv, ListsTyped
<1> DEFINE fl == IF periodic THEN [flags EXCEPT ![t] = flags[t] \cup {"PERIODIC"}] ELSE flags
<1>1. flags[t] \cup {"PERIODIC"} \in SUBSET Flags
  BY DEF Flags
<1>2. fl \in [Timers -> SUBSET Flags] /\ OnlyMarked(fl, used_list)
  BY <1>1, UpdateFlags DEF OnlyMarked, ScheduledIsHead
<1>3. Insert(t, fl) /\ UNCHANGED <<free_list, cpu, expired>>
  BY DEF cc_timer_start, SetupTimerExec
<1> HIDE DEF fl
<1> QED
  BY <1>2, <1>3, InsertMarks DEF OnlyMarked, ScheduledIsHead

\* The mark that a stopped head takes with it goes to the next head.
LEMMA StopStep ==
  ASSUME MarkInv, NEW t \in Timers, cc_timer_stop(t)
  PROVE  MarkInv'
<1> USE DEF MarkInv, ListsTyped
<1> DEFINE fl == [flags EXCEPT ![t] = @ \ {"HW_SCHED", "PERIODIC"}]
<1>1. /\ used_list' \in Timers \cup {NULL}
      /\ next' \in [Timers -> Timers \cup {NULL}]
      /\ t # used_list => used_list' = used_list
  BY RemoveLists DEF cc_timer_stop
<1>2. {"HW_SCHED", "PERIODIC"} \in SUBSET Flags
  BY DEF Flags
<1>3. fl \in [Timers -> SUBSET Flags] /\ OnlyMarked(fl, used_list')
  BY <1>1, <1>2, Unmark DEF OnlyMarked, ScheduledIsHead
<1>4. SchedTimerIfNew(used_list', fl) \/ flags' = fl
  BY DEF cc_timer_stop
<1> HIDE DEF fl
<1>5. flags' \in [Timers -> SUBSET Flags] /\ OnlyMarked(flags', used_list')
  BY <1>3, <1>4, SchedMarks
<1> QED
  BY <1>1, <1>5 DEF cc_timer_stop, OnlyMarked, ScheduledIsHead

LEMMA SchedStep ==
  ASSUME MarkInv, Sched \/ ExpiryDone
  PROVE  MarkInv'
<1> USE DEF MarkInv, ListsTyped
<1>1. UNCHANGED <<used_list, free_list, next, expired>> /\ cpu' \in {cpu, "tasks"}
  BY DEF Sched, ExpiryDone
<1>2. SchedTimerIfNew(used_list, flags) \/ flags' = flags
  BY DEF Sched, ExpiryDone
<1>3. flags' \in [Timers -> SUBSET Flags] /\ OnlyMarked(flags', used_list)
  BY <1>2, SchedMarks DEF OnlyMarked, ScheduledIsHead
<1> QED
  BY <1>1, <1>3 DEF OnlyMarked, ScheduledIsHead

LEMMA ExpiredStep ==
  ASSUME MarkInv, HandleExpired
  PROVE  MarkInv'
<1> USE DEF MarkInv, ListsTyped
<1>1. used_list \in Timers /\ {"HW_SCHED"} \in SUBSET Flags
  BY DEF HandleExpired, Flags
<1>2. used_list' \in Timers \cup {NULL} /\ next' \in [Timers -> Timers \cup {NULL}]
  BY <1>1, RemoveLists DEF HandleExpired
<1>3. /\ flags' \in [Timers -> SUBSET Flags]
      /\ \A u \in Timers :
           flags'[u] = IF u = used_list THEN flags[u] \ {"HW_SCHED"} ELSE flags[u]
  BY <1>1, Unmark DEF HandleExpired
<1> QED
  BY <1>1, <1>2, <1>3 DEF HandleExpired, ScheduledIsHead

LEMMA ReturnStep ==
  ASSUME MarkInv, CallbackReturns
  PROVE  MarkInv'
<1> USE DEF MarkInv, ListsTyped
<1>1. expired \in Timers /\ cpu' = "isr" /\ expired' = NULL /\ free_list' = free_list
  BY DEF CallbackReturns
<1>2. CASE "PERIODIC" \in flags[expired]
  <2>1. Insert(expired, flags)
    BY <1>2 DEF CallbackReturns, SetupTimerExec
  <2> QED
    BY <1>1, <2>1, InsertMarks DEF OnlyMarked, ScheduledIsHead
<1>3. CASE "PERIODIC" \notin flags[expired]
  BY <1>1, <1>3 DEF CallbackReturns, ScheduledIsHead
<1> QED
  BY <1>2, <1>3

LEMMA ClockStep ==
  ASSUME MarkInv, Tick \/ cc_rtc_isr \/ UNCHANGED vars
  PROVE  MarkInv'
<1>1. /\ UNCHANGED <<used_list, free_list, next, flags, expired>>
      /\ cpu' \in {cpu, "isr"}
  BY DEF Tick, cc_rtc_isr, vars, listVars
<1> QED
  BY <1>1 DEF MarkInv, ListsTyped, ScheduledIsHead

-------------------------------------------------------------------------------
(* The theorem *)

LEMMA InitMarks == Init => MarkInv
<1>1. Init => /\ free_list \in Timers /\ next \in [Timers -> Timers \cup {NULL}]
              /\ used_list = NULL /\ expired = NULL /\ cpu = "tasks"
              /\ flags = [t \in Timers |-> {}]
  BY DEF Init
<1> QED
  BY <1>1 DEF MarkInv, ListsTyped, ScheduledIsHead

LEMMA NextMarks == MarkInv /\ [Next]_vars => MarkInv'
<1> SUFFICES ASSUME MarkInv, [Next]_vars
             PROVE  MarkInv'
  OBVIOUS
<1>1. CASE Client
  BY <1>1, CreateStep, StartStep, StopStep, DeleteStep DEF Client
<1>2. CASE Sched \/ ExpiryDone
  BY <1>2, SchedStep
<1>3. CASE HandleExpired
  BY <1>3, ExpiredStep
<1>4. CASE CallbackReturns
  BY <1>4, ReturnStep
<1>5. CASE Tick \/ cc_rtc_isr \/ UNCHANGED vars
  BY <1>5, ClockStep
<1> QED
  BY <1>1, <1>2, <1>3, <1>4, <1>5 DEF Next

\* No timer but the head of the list is ever marked as having the alarm
\* (sched_timer_if_new sets none for a marked one), whatever clients do: a
\* displaced or stopped head and an expired one lose the mark.
THEOREM OnlyHeadScheduled == Spec => []ScheduledIsHead
<1>1. MarkInv => ScheduledIsHead
  BY DEF MarkInv
<1> QED
  BY InitMarks, NextMarks, <1>1, PTL DEF Spec

-------------------------------------------------------------------------------
(* The clock: conversions to natural numbers, which do not run backwards *)

LEMMA DivType ==
  ASSUME NEW a \in Nat, NEW b \in Nat \ {0}
  PROVE  a \div b \in Nat /\ a % b \in Nat /\ a % b < b
<1>1. a \div b \in Int /\ a \div b >= 0
  OBVIOUS
<1>2. a % b \in 0..(b - 1)
  OBVIOUS
<1> QED
  BY <1>1, <1>2

LEMMA NextInUnit ==
  ASSUME NEW a \in Nat, NEW b \in Nat \ {0}, (a + 1) % b # 0
  PROVE  (a + 1) % b = (a % b) + 1 /\ (a + 1) \div b = a \div b
OBVIOUS

LEMMA NextUnit ==
  ASSUME NEW a \in Nat, NEW b \in Nat \ {0}, (a + 1) % b = 0
  PROVE  (a + 1) \div b = (a \div b) + 1
OBVIOUS

LEMMA DivMonotone ==
  ASSUME NEW a \in Nat, NEW b \in Nat \ {0}, NEW c \in Nat, a <= c
  PROVE  a \div b <= c \div b
OBVIOUS

\* Less than a unit of one kind is less than a unit of the other.
LEMMA PartOfUnit ==
  ASSUME NEW a \in Nat, NEW b \in Nat \ {0}, NEW r \in Nat, r < b
  PROVE  (r * a) \div b <= a
OBVIOUS

LEMMA Products == \A a, b \in Nat : a * b \in Nat /\ (a + 1) * b = a * b + b
OBVIOUS

\* A time c, of units that hold b, as whole units of m and the rest rounded down.
LEMMA Converts ==
  ASSUME NEW c \in Nat, NEW m \in Nat, NEW b \in Nat \ {0}
  PROVE  (c \div b) * m + ((c % b) * m) \div b \in Nat
<1>1. c \div b \in Nat /\ c % b \in Nat
  BY DivType
<1>2. (c \div b) * m \in Nat /\ (c % b) * m \in Nat
  BY <1>1, Products
<1>3. ((c % b) * m) \div b \in Nat
  BY <1>2, DivType
<1> QED
  BY <1>2, <1>3

LEMMA TimesConvert == \A c \in Nat : ToMs(c) \in Nat /\ ToCycles(c) \in Nat
BY Converts, TimerAssumption DEF ToMs, ToCycles

LEMMA ClockAdvances ==
  ASSUME NEW c \in Nat
  PROVE  ToMs(c) <= ToMs(c + 1)
<1> DEFINE q == c \div Cycles
           r == c % Cycles
<1>1. /\ Ms \in Nat /\ Cycles \in Nat \ {0}
      /\ q \in Nat /\ r \in Nat /\ r < Cycles /\ c + 1 \in Nat
  BY DivType, TimerAssumption
<1>2. q * Ms \in Nat /\ r * Ms \in Nat /\ (r + 1) * Ms \in Nat /\ 0 * Ms \in Nat
  BY <1>1, Products
<1>3. /\ (r * Ms) \div Cycles \in Nat /\ ((r + 1) * Ms) \div Cycles \in Nat
      /\ (0 * Ms) \div Cycles \in Nat
  BY <1>1, <1>2, DivType
<1>4. ToMs(c) = q * Ms + (r * Ms) \div Cycles
  BY DEF ToMs
<1>5. CASE (c + 1) % Cycles = 0
  <2>1. (c + 1) \div Cycles = q + 1
    BY <1>1, <1>5, NextUnit
  <2>2. (r * Ms) \div Cycles <= Ms
    BY <1>1, PartOfUnit
  <2>3. (q + 1) * Ms = q * Ms + Ms
    BY <1>1, Products
  <2>4. ToMs(c + 1) = (q + 1) * Ms + (0 * Ms) \div Cycles
    BY <1>5, <2>1 DEF ToMs
  <2> HIDE DEF q, r
  <2> QED
    BY <1>1, <1>2, <1>3, <1>4, <2>2, <2>3, <2>4
<1>6. CASE (c + 1) % Cycles # 0
  <2>1. (c + 1) \div Cycles = q /\ (c + 1) % Cycles = r + 1
    BY <1>1, <1>6, NextInUnit
  <2>2. r * Ms <= (r + 1) * Ms
    BY <1>1, <1>2, Products
  <2>3. (r * Ms) \div Cycles <= ((r + 1) * Ms) \div Cycles
    BY <1>1, <1>2, <2>2, DivMonotone
  <2>4. ToMs(c + 1) = q * Ms + ((r + 1) * Ms) \div Cycles
    BY <2>1 DEF ToMs
  <2> HIDE DEF q, r
  <2> QED
    BY <1>2, <1>3, <1>4, <2>3, <2>4
<1> QED
  BY <1>5, <1>6

-------------------------------------------------------------------------------
(* A list as a sequence *)

\* A nonempty set of numbers has a least element.
LEMMA Least ==
  ASSUME NEW T \in SUBSET Nat, T # {}
  PROVE  \E n \in T : \A m \in T : n <= m
<1>1. IsWellFoundedOn(OpToRel(<, Nat), Nat)
  BY NatLessThanWellFounded
<1>2. PICK n \in T : \A m \in T : ~(<<m, n>> \in OpToRel(<, Nat))
  BY <1>1, WFMin
<1>3. \A m \in T : ~(m < n)
  BY <1>2 DEF OpToRel
<1> QED
  BY <1>3

\* s is the list that starts at h: every timer once, each linked to the next, the
\* last to none.
Chained(h, link, s) ==
  /\ s \in Seq(Timers)
  /\ \A j, k \in 1..Len(s) : s[j] = s[k] => j = k
  /\ h = IF s = <<>> THEN NULL ELSE s[1]
  /\ \A k \in 1..Len(s) : link[s[k]] = IF k = Len(s) THEN NULL ELSE s[k + 1]

\* at is in order along s.
Sorted(s, at) == \A j, k \in 1..Len(s) : j <= k => at[s[j]] <= at[s[k]]

Elements(s) == {s[k] : k \in 1..Len(s)}

\* The walk of Node, as it depends on the head and the links.
Walk(h, link) ==
  LET N[k \in 0..Cardinality(Timers)] ==
        IF k = 0 THEN h
        ELSE IF N[k - 1] = NULL THEN NULL ELSE link[N[k - 1]]
  IN N

\* A list is no longer than there are timers.
LEMMA ListFits ==
  ASSUME NEW s \in Seq(Timers), \A j, k \in 1..Len(s) : s[j] = s[k] => j = k
  PROVE  Cardinality(Timers) \in Nat /\ Len(s) \in 0..Cardinality(Timers)
<1>1. IsFiniteSet(Timers) /\ Cardinality(Timers) \in Nat /\ Len(s) \in Nat
  BY TimerAssumption, FS_CardinalityType
<1>2. IsFiniteSet(1..Len(s)) /\ Cardinality(1..Len(s)) = Len(s)
  <2>1. 1 \in Int /\ Len(s) \in Int
    BY <1>1
  <2>2. /\ IsFiniteSet(1..Len(s))
        /\ Cardinality(1..Len(s)) = IF 1 > Len(s) THEN 0 ELSE Len(s) - 1 + 1
    BY <2>1, FS_Interval
  <2> QED
    BY <1>1, <2>2
<1>3. CASE Len(s) > Cardinality(Timers)
  <2>1. s \in [1..Len(s) -> Timers]
    OBVIOUS
  <2>2. \E x, y \in 1..Len(s) : x # y /\ s[x] = s[y]
    BY <1>1, <1>2, <1>3, <2>1, FS_PigeonHole
  <2> QED
    BY <2>2
<1> QED
  BY <1>1, <1>3

\* The walk is unique, so it meets the timers of that sequence.
LEMMA WalkIs ==
  ASSUME NEW h, NEW link, NEW s, Chained(h, link, s)
  PROVE  Walk(h, link) = [k \in 0..Cardinality(Timers) |->
                            IF k < Len(s) THEN s[k + 1] ELSE NULL]
<1> DEFINE C == Cardinality(Timers)
           after(x) == IF x = NULL THEN NULL ELSE link[x]
           Walks(f) == f = [k \in 0..C |-> IF k = 0 THEN h ELSE after(f[k - 1])]
           w == [k \in 0..C |-> IF k < Len(s) THEN s[k + 1] ELSE NULL]
           c == CHOOSE f : Walks(f)
<1>1. /\ C \in Nat /\ NULL \notin Timers
      /\ s \in Seq(Timers) /\ Len(s) \in 0..C
  BY TimerAssumption, ListFits DEF Chained
<1>2. Walks(w)
  <2>1. w[0] = h
    BY <1>1 DEF Chained
  <2>2. ASSUME NEW k \in 1..C
        PROVE  w[k] = after(w[k - 1])
    <3>1. k - 1 \in 0..C
      BY <1>1
    <3>2. CASE k - 1 < Len(s)
      BY <1>1, <3>1, <3>2 DEF Chained
    <3>3. CASE ~(k - 1 < Len(s))
      BY <1>1, <3>1, <3>3
    <3> QED
      BY <3>2, <3>3
  <2>3. ASSUME NEW k \in 0..C
        PROVE  w[k] = IF k = 0 THEN h ELSE after(w[k - 1])
    <3>1. CASE k = 0
      BY <2>1, <3>1
    <3>2. CASE k # 0
      <4>1. k \in 1..C
        BY <1>1, <3>2
      <4> HIDE DEF w, after
      <4> QED
        BY <2>2, <3>2, <4>1
    <3> QED
      BY <3>1, <3>2
  <2>4. w = [k \in 0..C |-> w[k]]
    OBVIOUS
  <2> HIDE DEF w, after
  <2> QED
    BY <2>3, <2>4
<1>3. Walks(c)
  <2> HIDE DEF Walks, w
  <2> QED
    BY <1>2
<1>4. /\ c[0] = h /\ \A k \in 1..C : c[k] = after(c[k - 1])
      /\ w[0] = h /\ \A k \in 1..C : w[k] = after(w[k - 1])
      /\ DOMAIN c = 0..C
  <2> HIDE DEF c, w, after
  <2> QED
    BY <1>1, <1>2, <1>3
<1>5. \A k \in 0..C : c[k] = w[k]
  <2> DEFINE T == {k \in 0..C : c[k] # w[k]}
  <2> SUFFICES ASSUME T # {} PROVE FALSE
    OBVIOUS
  <2> HIDE DEF c, w, after
  <2>1. T \in SUBSET Nat
    BY <1>1
  <2>2. PICK n \in T : \A m \in T : n <= m
    BY <2>1, Least
  <2>3. n \in 1..C /\ n - 1 \in 0..C /\ n - 1 \notin T
    BY <1>1, <1>4, <2>2
  <2> QED
    BY <1>4, <2>2, <2>3
<1>6. c = w
  <2> HIDE DEF c
  <2>1. c = [k \in 0..C |-> c[k]]
    BY <1>3
  <2> QED
    BY <1>5, <2>1
<1>7. Walk(h, link) = c
  BY DEF Walk
<1> QED
  BY <1>6, <1>7

\* The walk as the model uses it.
LEMMA NodeIs ==
  ASSUME NEW s, Chained(used_list, next, s)
  PROVE  /\ Steps = 0..Cardinality(Timers) /\ Cardinality(Timers) \in Nat
         /\ Len(s) \in 0..Cardinality(Timers)
         /\ \A k \in Steps : Node[k] = IF k < Len(s) THEN s[k + 1] ELSE NULL
<1>1. Node = Walk(used_list, next)
  BY DEF Node, Walk
<1>2. Cardinality(Timers) \in Nat /\ Len(s) \in 0..Cardinality(Timers)
  BY ListFits DEF Chained
<1> QED
  BY <1>1, <1>2, WalkIs DEF Steps

\* The timers that run are those of the list.
WalkSet(h, link) == {Walk(h, link)[k] : k \in DOMAIN Walk(h, link)} \ {NULL}

LEMMA WalkSetIs ==
  ASSUME NEW h, NEW link, NEW s, Chained(h, link, s)
  PROVE  WalkSet(h, link) = Elements(s)
<1> DEFINE w == Walk(h, link)
<1>1. /\ s \in Seq(Timers) /\ Len(s) \in 0..Cardinality(Timers) /\ NULL \notin Timers
      /\ Cardinality(Timers) \in Nat
  BY ListFits, TimerAssumption DEF Chained
<1>2. w = [k \in 0..Cardinality(Timers) |-> IF k < Len(s) THEN s[k + 1] ELSE NULL]
  BY WalkIs
<1> HIDE DEF w
<1>3. ASSUME NEW k \in DOMAIN w, w[k] # NULL
      PROVE  w[k] \in Elements(s)
  <2>1. k + 1 \in 1..Len(s) /\ w[k] = s[k + 1]
    BY <1>1, <1>2, <1>3
  <2> QED
    BY <2>1 DEF Elements
<1>4. ASSUME NEW i \in 1..Len(s)
      PROVE  \E k \in DOMAIN w : w[k] = s[i] /\ w[k] # NULL
  <2>1. i - 1 \in 0..Cardinality(Timers) /\ i - 1 < Len(s) /\ (i - 1) + 1 = i /\ s[i] \in Timers
    BY <1>1
  <2>2. w[i - 1] = s[i]
    BY <1>2, <2>1
  <2> QED
    BY <1>1, <1>2, <2>1, <2>2
<1> QED
  BY <1>3, <1>4 DEF WalkSet, w, Elements

LEMMA QueuedIs ==
  /\ \A s : Chained(used_list, next, s) => Queued = Elements(s)
  /\ \A s : Chained(used_list', next', s) => Queued' = Elements(s)
<1>1. Queued = WalkSet(used_list, next)
  BY DEF Queued, Steps, Node, Walk, WalkSet
<1>2. Queued' = WalkSet(used_list', next')
  BY DEF Queued, Steps, Node, Walk, WalkSet
<1> QED
  BY <1>1, <1>2, WalkSetIs

\* The list without element m.
Without(s, m) == [k \in 1..(Len(s) - 1) |-> IF k < m THEN s[k] ELSE s[k + 1]]

\* The list with t behind element m.
With(s, m, t) == [k \in 1..(Len(s) + 1) |-> IF k <= m THEN s[k]
                                            ELSE IF k = m + 1 THEN t ELSE s[k - 1]]

LEMMA WithoutIs ==
  ASSUME NEW s \in Seq(Timers), \A j, k \in 1..Len(s) : s[j] = s[k] => j = k,
         NEW m \in 1..Len(s)
  PROVE  /\ Without(s, m) \in Seq(Timers) /\ Len(Without(s, m)) = Len(s) - 1
         /\ \A j, k \in 1..(Len(s) - 1) : Without(s, m)[j] = Without(s, m)[k] => j = k
         /\ \A k \in 1..(Len(s) - 1) : Without(s, m)[k] = IF k < m THEN s[k] ELSE s[k + 1]
         /\ Elements(Without(s, m)) = Elements(s) \ {s[m]}
<1> DEFINE r == Without(s, m)
<1>1. /\ Len(s) \in Nat /\ Len(s) - 1 \in Nat
      /\ \A k \in 1..(Len(s) - 1) : k + 1 \in 1..Len(s) /\ k \in 1..Len(s)
  OBVIOUS
<1>2. /\ r \in Seq(Timers) /\ Len(r) = Len(s) - 1
      /\ \A k \in 1..(Len(s) - 1) : r[k] = IF k < m THEN s[k] ELSE s[k + 1]
  BY <1>1 DEF Without
<1> HIDE DEF r
<1>3. ASSUME NEW j \in 1..(Len(s) - 1), NEW k \in 1..(Len(s) - 1), r[j] = r[k]
      PROVE  j = k
  BY <1>1, <1>2, <1>3
<1>4. \A k \in 1..(Len(s) - 1) : r[k] \in Elements(s) /\ r[k] # s[m]
  BY <1>1, <1>2 DEF Elements
<1>5. ASSUME NEW k \in 1..Len(s), k # m
      PROVE  s[k] \in Elements(r)
  <2>1. CASE k < m
    <3>1. k \in 1..(Len(s) - 1) /\ r[k] = s[k]
      BY <1>1, <1>2, <2>1
    <3> QED
      BY <1>2, <3>1 DEF Elements
  <2>2. CASE k > m
    <3>1. k - 1 \in 1..(Len(s) - 1) /\ r[k - 1] = s[k]
      BY <1>1, <1>2, <2>2
    <3> QED
      BY <1>2, <3>1 DEF Elements
  <2> QED
    BY <1>5, <2>1, <2>2
<1>6. Elements(r) = Elements(s) \ {s[m]}
  <2>1. \A x \in Elements(r) : x \in Elements(s) \ {s[m]}
    BY <1>2, <1>4 DEF Elements
  <2>2. \A x \in Elements(s) \ {s[m]} : x \in Elements(r)
    BY <1>5 DEF Elements
  <2> QED
    BY <2>1, <2>2
<1> QED
  BY <1>2, <1>3, <1>6 DEF r

LEMMA WithIs ==
  ASSUME NEW s \in Seq(Timers), \A j, k \in 1..Len(s) : s[j] = s[k] => j = k,
         NEW m \in 0..Len(s), NEW t \in Timers, t \notin Elements(s)
  PROVE  /\ With(s, m, t) \in Seq(Timers) /\ Len(With(s, m, t)) = Len(s) + 1
         /\ \A j, k \in 1..(Len(s) + 1) : With(s, m, t)[j] = With(s, m, t)[k] => j = k
         /\ \A k \in 1..(Len(s) + 1) :
              With(s, m, t)[k] = IF k <= m THEN s[k]
                                 ELSE IF k = m + 1 THEN t ELSE s[k - 1]
         /\ Elements(With(s, m, t)) = Elements(s) \cup {t}
<1> DEFINE r == With(s, m, t)
<1>1. /\ Len(s) \in Nat /\ Len(s) + 1 \in Nat /\ m \in Nat
      /\ \A k \in 1..(Len(s) + 1) : /\ k <= m => k \in 1..Len(s)
                                    /\ ~(k <= m) /\ k # m + 1 => k - 1 \in 1..Len(s)
  OBVIOUS
<1>2. /\ r \in Seq(Timers) /\ Len(r) = Len(s) + 1
      /\ \A k \in 1..(Len(s) + 1) : r[k] = IF k <= m THEN s[k]
                                           ELSE IF k = m + 1 THEN t ELSE s[k - 1]
  BY <1>1 DEF With
<1> HIDE DEF r
<1>3. \A k \in 1..Len(s) : s[k] # t
  BY DEF Elements
<1>4. ASSUME NEW j \in 1..(Len(s) + 1), NEW k \in 1..(Len(s) + 1), r[j] = r[k]
      PROVE  j = k
  <2>1. CASE j = m + 1 \/ k = m + 1
    BY <1>1, <1>2, <1>3, <1>4, <2>1
  <2>2. CASE j # m + 1 /\ k # m + 1
    <3> DEFINE at(i) == IF i <= m THEN i ELSE i - 1
    <3>1. /\ r[j] = s[at(j)] /\ at(j) \in 1..Len(s)
          /\ r[k] = s[at(k)] /\ at(k) \in 1..Len(s)
      BY <1>1, <1>2, <2>2
    <3>2. at(j) = at(k)
      <4> HIDE DEF at
      <4> QED
        BY <1>4, <3>1
    <3> QED
      BY <1>1, <2>2, <3>2
  <2> QED
    BY <2>1, <2>2
<1>5. \A k \in 1..(Len(s) + 1) : r[k] \in Elements(s) \cup {t}
  BY <1>1, <1>2 DEF Elements
<1>6. ASSUME NEW k \in 1..Len(s)
      PROVE  s[k] \in Elements(r)
  <2>1. CASE k <= m
    <3>1. k \in 1..(Len(s) + 1) /\ r[k] = s[k]
      BY <1>1, <1>2, <2>1
    <3> QED
      BY <1>2, <3>1 DEF Elements
  <2>2. CASE k > m
    <3>1. k + 1 \in 1..(Len(s) + 1) /\ r[k + 1] = s[k]
      BY <1>1, <1>2, <2>2
    <3> QED
      BY <1>2, <3>1 DEF Elements
  <2> QED
    BY <1>1, <2>1, <2>2
<1>7. t \in Elements(r)
  <2>1. m + 1 \in 1..(Len(s) + 1) /\ r[m + 1] = t
    BY <1>1, <1>2
  <2> QED
    BY <1>2, <2>1 DEF Elements
<1>8. Elements(r) = Elements(s) \cup {t}
  <2>1. \A x \in Elements(r) : x \in Elements(s) \cup {t}
    BY <1>2, <1>5 DEF Elements
  <2>2. \A x \in Elements(s) \cup {t} : x \in Elements(r)
    BY <1>6, <1>7 DEF Elements
  <2> QED
    BY <2>1, <2>2
<1> QED
  BY <1>2, <1>4, <1>8 DEF r

\* Taking out element m: the one before is linked to the one after.
LEMMA ChainWithout ==
  ASSUME NEW h, NEW link, NEW s, Chained(h, link, s), NEW m \in 1..Len(s),
         NEW g, g = IF m = 1 THEN link[s[1]] ELSE h,
         NEW to, \A k \in 1..Len(s) : to[s[k]] = IF k = m - 1 THEN link[s[m]] ELSE link[s[k]]
  PROVE  Chained(g, to, Without(s, m))
<1> DEFINE r == Without(s, m)
<1>1. /\ s \in Seq(Timers) /\ Len(s) \in Nat /\ Len(s) >= 1
      /\ \A j, k \in 1..Len(s) : s[j] = s[k] => j = k
      /\ \A k \in 1..Len(s) : link[s[k]] = IF k = Len(s) THEN NULL ELSE s[k + 1]
  BY DEF Chained
<1>2. /\ r \in Seq(Timers) /\ Len(r) = Len(s) - 1
      /\ \A j, k \in 1..(Len(s) - 1) : r[j] = r[k] => j = k
      /\ \A k \in 1..(Len(s) - 1) : r[k] = IF k < m THEN s[k] ELSE s[k + 1]
  BY <1>1, WithoutIs
<1> HIDE DEF r
<1>3. g = IF r = <<>> THEN NULL ELSE r[1]
  <2>1. r = <<>> <=> Len(s) = 1
    BY <1>1, <1>2
  <2>2. CASE m = 1
    <3>1. g = IF Len(s) = 1 THEN NULL ELSE s[2]
      <4>1. 1 \in 1..Len(s) /\ 1 + 1 = 2
        BY <1>1
      <4> QED
        BY <1>1, <2>2, <4>1
    <3>2. Len(s) # 1 => r[1] = s[2]
      BY <1>1, <1>2, <2>2
    <3> QED
      BY <2>1, <3>1, <3>2
  <2>3. CASE m # 1
    <3>1. g = s[1] /\ Len(s) # 1
      BY <1>1, <2>3 DEF Chained
    <3>2. r[1] = s[1]
      BY <1>1, <1>2, <2>3
    <3> QED
      BY <2>1, <3>1, <3>2
  <2> QED
    BY <2>2, <2>3
<1>4. ASSUME NEW k \in 1..Len(r)
      PROVE  to[r[k]] = IF k = Len(r) THEN NULL ELSE r[k + 1]
  <2>1. CASE k < m - 1
    <3>1. /\ k \in 1..Len(s) /\ k # Len(r) /\ k # Len(s) /\ k # m - 1
          /\ r[k] = s[k] /\ r[k + 1] = s[k + 1]
      BY <1>1, <1>2, <2>1
    <3> QED
      BY <1>1, <3>1
  <2>2. CASE k = m - 1
    <3>1. r[k] = s[k] /\ k \in 1..Len(s) /\ (k = Len(r) <=> m = Len(s))
      BY <1>1, <1>2, <2>2
    <3>2. to[r[k]] = IF m = Len(s) THEN NULL ELSE s[m + 1]
      BY <1>1, <2>2, <3>1
    <3>3. m # Len(s) => r[k + 1] = s[m + 1]
      BY <1>1, <1>2, <2>2
    <3> QED
      BY <3>1, <3>2, <3>3
  <2>3. CASE k > m - 1
    <3>1. k + 1 \in 1..Len(s) /\ k + 1 # m - 1 /\ r[k] = s[k + 1]
      BY <1>1, <1>2, <2>3
    <3>2. to[r[k]] = IF k + 1 = Len(s) THEN NULL ELSE s[k + 2]
      BY <1>1, <3>1
    <3>3. k + 1 # Len(s) => r[k + 1] = s[k + 2]
      <4>1. k + 1 # Len(s) => /\ k + 1 \in 1..(Len(s) - 1) /\ ~(k + 1 < m)
                              /\ k + 1 + 1 = k + 2
        BY <1>1, <2>3, <3>1
      <4> QED
        BY <1>2, <4>1
    <3> QED
      BY <1>2, <3>2, <3>3
  <2> QED
    BY <1>1, <1>2, <2>1, <2>2, <2>3
<1> QED
  BY <1>2, <1>3, <1>4 DEF Chained, r

\* Putting t behind element m: it is linked to the one after.
LEMMA ChainWith ==
  ASSUME NEW h, NEW link, NEW s, Chained(h, link, s), NEW m \in 0..Len(s),
         NEW t \in Timers, t \notin Elements(s),
         NEW g, g = IF m = 0 THEN t ELSE h,
         NEW to, to[t] = IF m = Len(s) THEN NULL ELSE s[m + 1],
         \A k \in 1..Len(s) : to[s[k]] = IF k = m THEN t ELSE link[s[k]]
  PROVE  Chained(g, to, With(s, m, t))
<1> DEFINE r == With(s, m, t)
<1>1. /\ s \in Seq(Timers) /\ Len(s) \in Nat /\ m \in Nat
      /\ \A j, k \in 1..Len(s) : s[j] = s[k] => j = k
      /\ \A k \in 1..Len(s) : link[s[k]] = IF k = Len(s) THEN NULL ELSE s[k + 1]
  BY DEF Chained
<1>2. /\ r \in Seq(Timers) /\ Len(r) = Len(s) + 1
      /\ \A j, k \in 1..(Len(s) + 1) : r[j] = r[k] => j = k
      /\ \A k \in 1..(Len(s) + 1) : r[k] = IF k <= m THEN s[k]
                                           ELSE IF k = m + 1 THEN t ELSE s[k - 1]
  BY <1>1, WithIs
<1> HIDE DEF r
<1>3. g = IF r = <<>> THEN NULL ELSE r[1]
  <2>1. r # <<>>
    BY <1>1, <1>2
  <2>2. CASE m = 0
    BY <1>1, <1>2, <2>1, <2>2
  <2>3. CASE m # 0
    <3>1. g = s[1] /\ r[1] = s[1]
      BY <1>1, <1>2, <2>3 DEF Chained
    <3> QED
      BY <2>1, <3>1
  <2> QED
    BY <2>2, <2>3
<1>4. ASSUME NEW k \in 1..Len(r)
      PROVE  to[r[k]] = IF k = Len(r) THEN NULL ELSE r[k + 1]
  <2>1. CASE k < m
    <3>1. /\ k \in 1..Len(s) /\ k # Len(r) /\ k # Len(s) /\ k # m
          /\ r[k] = s[k] /\ r[k + 1] = s[k + 1]
      BY <1>1, <1>2, <2>1
    <3> QED
      BY <1>1, <3>1
  <2>2. CASE k = m
    <3>1. k \in 1..Len(s) /\ k # Len(r) /\ r[k] = s[k] /\ r[k + 1] = t
      BY <1>1, <1>2, <2>2
    <3> QED
      BY <2>2, <3>1
  <2>3. CASE k = m + 1
    <3>1. r[k] = t /\ (k = Len(r) <=> m = Len(s))
      BY <1>1, <1>2, <2>3
    <3>2. m # Len(s) => r[k + 1] = s[m + 1]
      <4>1. m # Len(s) => /\ k + 1 \in 1..(Len(s) + 1) /\ ~(k + 1 <= m) /\ k + 1 # m + 1
                          /\ (k + 1) - 1 = m + 1
        BY <1>1, <1>2, <2>3
      <4> QED
        BY <1>2, <4>1
    <3> QED
      BY <3>1, <3>2
  <2>4. CASE k > m + 1
    <3>1. k - 1 \in 1..Len(s) /\ k - 1 # m /\ r[k] = s[k - 1]
      BY <1>1, <1>2, <2>4
    <3>2. to[r[k]] = IF k - 1 = Len(s) THEN NULL ELSE s[(k - 1) + 1]
      BY <1>1, <3>1
    <3>3. k - 1 # Len(s) => r[k + 1] = s[(k - 1) + 1]
      <4>1. Len(s) \in Nat /\ m \in Nat /\ k \in 1..(Len(s) + 1)
        BY <1>1, <1>2
      <4>2. k - 1 # Len(s) => /\ k + 1 \in 1..(Len(s) + 1) /\ ~(k + 1 <= m) /\ k + 1 # m + 1
                              /\ (k + 1) - 1 = (k - 1) + 1
        BY <2>4, <4>1
      <4> QED
        BY <1>2, <4>2
    <3>4. k - 1 = Len(s) <=> k = Len(r)
      BY <1>1, <1>2
    <3> QED
      BY <3>2, <3>3, <3>4
  <2> QED
    BY <1>1, <1>2, <2>1, <2>2, <2>3, <2>4
<1> QED
  BY <1>2, <1>3, <1>4 DEF Chained, r

LEMMA SortedWithout ==
  ASSUME NEW h, NEW link, NEW s, Chained(h, link, s), NEW m \in 1..Len(s),
         NEW at, Sorted(s, at), NEW new, \A k \in 1..Len(s) : k # m => new[s[k]] = at[s[k]]
  PROVE  Sorted(Without(s, m), new)
<1> DEFINE r == Without(s, m)
<1>1. /\ s \in Seq(Timers) /\ Len(s) \in Nat
      /\ \A j, k \in 1..Len(s) : s[j] = s[k] => j = k
  BY DEF Chained
<1>2. /\ Len(r) = Len(s) - 1
      /\ \A k \in 1..(Len(s) - 1) : r[k] = IF k < m THEN s[k] ELSE s[k + 1]
  BY <1>1, WithoutIs
<1> HIDE DEF r
<1> DEFINE from(k) == IF k < m THEN k ELSE k + 1
<1>3. ASSUME NEW k \in 1..Len(r)
      PROVE  from(k) \in 1..Len(s) /\ from(k) # m /\ r[k] = s[from(k)]
  BY <1>1, <1>2
<1>4. ASSUME NEW j \in 1..Len(r), NEW k \in 1..Len(r), j <= k
      PROVE  from(j) <= from(k)
  BY <1>1, <1>2, <1>4
<1> HIDE DEF from
<1> QED
  BY <1>3, <1>4 DEF Sorted, r

LEMMA SortedWith ==
  ASSUME NEW h, NEW link, NEW s, Chained(h, link, s), NEW m \in 0..Len(s),
         NEW t \in Timers, t \notin Elements(s), NEW at, Sorted(s, at),
         NEW new, \A k \in 1..Len(s) : new[s[k]] = at[s[k]] /\ at[s[k]] \in Nat,
         new[t] \in Nat,
         \A k \in 1..Len(s) : IF k <= m THEN at[s[k]] <= new[t] ELSE new[t] <= at[s[k]]
  PROVE  Sorted(With(s, m, t), new)
<1> DEFINE r == With(s, m, t)
<1>1. /\ s \in Seq(Timers) /\ Len(s) \in Nat /\ m \in Nat
      /\ \A j, k \in 1..Len(s) : s[j] = s[k] => j = k
  BY DEF Chained
<1>2. /\ Len(r) = Len(s) + 1
      /\ \A k \in 1..(Len(s) + 1) : r[k] = IF k <= m THEN s[k]
                                           ELSE IF k = m + 1 THEN t ELSE s[k - 1]
  BY <1>1, WithIs
<1> HIDE DEF r
<1> DEFINE from(k) == IF k <= m THEN k ELSE k - 1
<1>3. ASSUME NEW k \in 1..Len(r), k # m + 1
      PROVE  from(k) \in 1..Len(s) /\ r[k] = s[from(k)] /\ (from(k) <= m <=> k < m + 1)
  BY <1>1, <1>2, <1>3
<1>4. ASSUME NEW j \in 1..Len(r), NEW k \in 1..Len(r), j <= k
      PROVE  from(j) <= from(k)
  BY <1>1, <1>2, <1>4
<1>5. r[m + 1] = t /\ m + 1 \in Nat
  BY <1>1, <1>2
<1> HIDE DEF from
<1>6. ASSUME NEW j \in 1..Len(r), NEW k \in 1..Len(r), j <= k
      PROVE  new[r[j]] <= new[r[k]]
  <2>1. CASE j # m + 1 /\ k # m + 1
    <3>1. at[s[from(j)]] <= at[s[from(k)]]
      BY <1>3, <1>4, <1>6, <2>1 DEF Sorted
    <3> QED
      BY <1>3, <2>1, <3>1
  <2>2. CASE j # m + 1 /\ k = m + 1
    <3>1. from(j) \in 1..Len(s) /\ from(j) <= m /\ r[j] = s[from(j)]
      BY <1>1, <1>3, <1>6, <2>2
    <3> QED
      BY <1>5, <2>2, <3>1
  <2>3. CASE j = m + 1 /\ k # m + 1
    <3>1. from(k) \in 1..Len(s) /\ ~(from(k) <= m) /\ r[k] = s[from(k)]
      BY <1>1, <1>3, <1>6, <2>3
    <3> QED
      BY <1>5, <2>3, <3>1
  <2>4. CASE j = m + 1 /\ k = m + 1
    BY <1>5, <2>4
  <2> QED
    BY <2>1, <2>2, <2>3, <2>4
<1> QED
  BY <1>6 DEF Sorted, r

LEMMA FewElements ==
  ASSUME NEW h, NEW link, NEW s, Chained(h, link, s)
  PROVE  /\ Elements(s) = {} <=> s = <<>>
         /\ \A t : Elements(s) = {t} => s = <<t>>
         /\ \A t : s = <<t>> => Elements(s) = {t} /\ link[t] = NULL
         /\ s # <<>> => h = s[1] /\ h \in Elements(s)
         /\ s = <<>> => h = NULL
         /\ Elements(s) \subseteq Timers
<1>1. /\ s \in Seq(Timers) /\ Len(s) \in Nat
      /\ \A j, k \in 1..Len(s) : s[j] = s[k] => j = k
      /\ h = IF s = <<>> THEN NULL ELSE s[1]
      /\ \A k \in 1..Len(s) : link[s[k]] = IF k = Len(s) THEN NULL ELSE s[k + 1]
  BY DEF Chained
<1>2. s # <<>> => 1 \in 1..Len(s) /\ s[1] \in Elements(s)
  BY <1>1 DEF Elements
<1>3. s = <<>> => Elements(s) = {}
  BY DEF Elements
<1>4. ASSUME NEW t, Elements(s) = {t}
      PROVE  s = <<t>>
  <2>1. s # <<>>
    BY <1>3, <1>4
  <2>2. \A k \in 1..Len(s) : s[k] = t
    BY <1>4 DEF Elements
  <2>3. Len(s) # 0 /\ Len(s) \in Nat
    BY <1>1, <2>1
  <2>4. Len(s) = 1
    <3>1. CASE Len(s) > 1
      <4>1. 1 \in 1..Len(s) /\ 2 \in 1..Len(s)
        BY <2>3, <3>1
      <4>2. s[1] = s[2]
        BY <2>2, <4>1
      <4> QED
        BY <1>1, <4>1, <4>2
    <3>2. CASE ~(Len(s) > 1)
      <4>1. \A n \in Nat : n # 0 /\ ~(n > 1) => n = 1
        OBVIOUS
      <4> QED
        BY <2>3, <3>2, <4>1
    <3> QED
      BY <3>1, <3>2
  <2> QED
    BY <1>1, <2>2, <2>4
<1>5. ASSUME NEW t, s = <<t>>
      PROVE  Elements(s) = {t} /\ link[t] = NULL
  <2>1. Len(s) = 1 /\ s[1] = t
    BY <1>5
  <2>2. \A k \in 1..Len(s) : s[k] = t
    BY <2>1
  <2> QED
    BY <1>1, <2>1, <2>2 DEF Elements
<1>6. Elements(s) \subseteq Timers
  BY <1>1 DEF Elements
<1> QED
  BY <1>1, <1>2, <1>3, <1>4, <1>5, <1>6

Links == [Timers -> Timers \cup {NULL}]

LEMMA RemoveIs ==
  ASSUME next \in Links, hwt_expires \in [Timers -> Nat],
         NEW s, Chained(used_list, next, s), Sorted(s, hwt_expires),
         NEW t \in Elements(s), Remove(t)
  PROVE  /\ \E r : /\ Chained(used_list', next', r) /\ Sorted(r, hwt_expires')
                   /\ Elements(r) = Elements(s) \ {t}
         /\ next' \in Links
         /\ \A u \in Timers : u \notin Elements(s) \/ u = t => next'[u] = next[u]
         /\ hwt_expires' \in [Timers -> Nat]
         /\ \A u \in Timers : hwt_expires'[u] = IF u = t THEN 0 ELSE hwt_expires[u]
<1>1. /\ s \in Seq(Timers) /\ Len(s) \in Nat
      /\ \A j, k \in 1..Len(s) : s[j] = s[k] => j = k
      /\ \A k \in 1..Len(s) : s[k] \in Timers /\ s[k] \in Elements(s)
      /\ \A k \in 1..Len(s) : next[s[k]] = IF k = Len(s) THEN NULL ELSE s[k + 1]
  BY DEF Chained, Elements
<1>2. PICK m \in 1..Len(s) : s[m] = t
  BY DEF Elements
<1>3. /\ hwt_expires' \in [Timers -> Nat]
      /\ \A u \in Timers : hwt_expires'[u] = IF u = t THEN 0 ELSE hwt_expires[u]
  BY DEF Remove
<1>4. used_list = s[1] /\ 1 \in 1..Len(s) /\ (t = used_list <=> m = 1)
  <2>1. used_list = s[1] /\ 1 \in 1..Len(s)
    BY <1>1, <1>2 DEF Chained
  <2> QED
    BY <1>1, <1>2, <2>1
<1>5. /\ used_list' = IF m = 1 THEN next[s[1]] ELSE used_list
      /\ next' = IF m = 1 THEN next ELSE [next EXCEPT ![s[m - 1]] = next[t]]
  <2>1. CASE m = 1
    BY <1>2, <1>4, <2>1 DEF Remove
  <2>2. CASE m # 1
    <3>1. used_list' = used_list
      BY <1>4, <2>2 DEF Remove
    <3>2. PICK k \in Steps \ {0} : Node[k] = t /\ next' = [next EXCEPT ![Node[k - 1]] = next[t]]
      BY <1>4, <2>2 DEF Remove
    <3>3. /\ k \in Nat /\ k # 0 /\ k - 1 \in Steps
          /\ Node[k] = IF k < Len(s) THEN s[k + 1] ELSE NULL
          /\ Node[k - 1] = IF k - 1 < Len(s) THEN s[(k - 1) + 1] ELSE NULL
      BY NodeIs
    <3>4. t # NULL
      BY <1>1, <1>2, TimerAssumption
    <3>5. k < Len(s) /\ k + 1 \in 1..Len(s) /\ s[k + 1] = s[m]
      BY <1>1, <1>2, <3>2, <3>3, <3>4
    <3>6. k = m - 1
      BY <1>1, <3>3, <3>5
    <3>7. Node[k - 1] = s[m - 1]
      BY <1>1, <3>3, <3>5, <3>6
    <3> QED
      BY <2>2, <3>1, <3>2, <3>7
  <2> QED
    BY <2>1, <2>2
<1>6. /\ next' \in Links
      /\ \A u \in Timers : next'[u] = IF m # 1 /\ u = s[m - 1] THEN next[t] ELSE next[u]
  <2>1. CASE m = 1
    BY <1>5, <2>1
  <2>2. CASE m # 1
    <3>1. m - 1 \in 1..Len(s) /\ s[m - 1] \in Timers /\ t \in Timers
      BY <1>1, <1>2, <2>2
    <3>2. next' = [next EXCEPT ![s[m - 1]] = next[t]] /\ next[t] \in Timers \cup {NULL}
      BY <1>5, <2>2, <3>1 DEF Links
    <3> QED
      BY <2>2, <3>1, <3>2 DEF Links
  <2> QED
    BY <2>1, <2>2
<1>7. \A k \in 1..Len(s) : next'[s[k]] = IF k = m - 1 THEN next[s[m]] ELSE next[s[k]]
  <2> SUFFICES ASSUME NEW k \in 1..Len(s)
               PROVE  next'[s[k]] = IF k = m - 1 THEN next[s[m]] ELSE next[s[k]]
    OBVIOUS
  <2>1. CASE k = m - 1
    <3>1. m # 1
      BY <1>1, <2>1
    <3> QED
      BY <1>1, <1>2, <1>6, <2>1, <3>1
  <2>2. CASE k # m - 1
    <3>1. m # 1 => m - 1 \in 1..Len(s)
      BY <1>1
    <3>2. m # 1 => s[k] # s[m - 1]
      BY <1>1, <2>2, <3>1
    <3> QED
      BY <1>1, <1>6, <2>2, <3>2
  <2> QED
    BY <2>1, <2>2
<1>8. Chained(used_list', next', Without(s, m))
  BY <1>5, <1>7, ChainWithout
<1>9. \A k \in 1..Len(s) : k # m => hwt_expires'[s[k]] = hwt_expires[s[k]]
  BY <1>1, <1>2, <1>3
<1>10. Sorted(Without(s, m), hwt_expires')
  BY <1>9, SortedWithout
<1>11. Elements(Without(s, m)) = Elements(s) \ {t}
  BY <1>1, <1>2, WithoutIs
<1>12. ASSUME NEW u \in Timers, u \notin Elements(s) \/ u = t
       PROVE  next'[u] = next[u]
  <2>1. m # 1 => m - 1 \in 1..Len(s)
    BY <1>1
  <2>2. m # 1 => s[m - 1] \in Elements(s) /\ s[m - 1] # s[m]
    BY <1>1, <2>1
  <2> QED
    BY <1>2, <1>6, <1>12, <2>2
<1> QED
  BY <1>3, <1>6, <1>8, <1>10, <1>11, <1>12

\* f and g say the same of the timers, marks aside.
SameUse(f, g) ==
  \A u \in Timers : /\ "ALLOCATE" \in f[u] <=> "ALLOCATE" \in g[u]
                    /\ "PERIODIC" \in f[u] <=> "PERIODIC" \in g[u]

\* A timer that runs nowhere goes where its time is.
LEMMA InsertIs ==
  ASSUME next \in Links, hwt_expires \in [Timers -> Nat],
         NEW s, Chained(used_list, next, s), Sorted(s, hwt_expires),
         NEW t \in Timers, t \notin Elements(s), next[t] = NULL,
         NEW time \in Nat, hwt_expires' = [hwt_expires EXCEPT ![t] = time],
         NEW fl \in [Timers -> SUBSET Flags], Insert(t, fl)
  PROVE  /\ \E r : /\ Chained(used_list', next', r) /\ Sorted(r, hwt_expires')
                   /\ Elements(r) = Elements(s) \cup {t}
         /\ next' \in Links
         /\ \A u \in Timers : u \notin Elements(s) \cup {t} => next'[u] = next[u]
         /\ flags' \in [Timers -> SUBSET Flags] /\ SameUse(flags', fl)
<1> DEFINE Stops(node) == node # NULL => Before(hwt_expires'[t], hwt_expires'[node])
<1>1. /\ s \in Seq(Timers) /\ Len(s) \in Nat /\ NULL \notin Timers
      /\ \A j, k \in 1..Len(s) : s[j] = s[k] => j = k
      /\ \A k \in 1..Len(s) : s[k] \in Timers /\ s[k] \in Elements(s) /\ s[k] # t
      /\ used_list = IF s = <<>> THEN NULL ELSE s[1]
  BY TimerAssumption DEF Chained, Elements
<1>2. /\ hwt_expires'[t] = time
      /\ \A k \in 1..Len(s) : /\ hwt_expires'[s[k]] = hwt_expires[s[k]]
                              /\ hwt_expires[s[k]] \in Nat
  BY <1>1
<1>3. \A k \in 1..Len(s) : Stops(s[k]) <=> time < hwt_expires[s[k]]
  BY <1>1, <1>2 DEF Before
<1>4. /\ Stops(used_list) => InsertFirst(t, fl)
      /\ ~Stops(used_list) => \E k \in Steps \ {0} :
            /\ Stops(Node[k]) /\ InsertBefore(t, k, fl)
            /\ \A j \in 1..(k - 1) : ~Stops(Node[j])
  BY DEF Insert
<1>5. Stops(NULL)
  OBVIOUS
<1> HIDE DEF Stops
\* The place where the walk stops.
<1>6. \E m \in 0..Len(s) :
        /\ \A k \in 1..Len(s) : IF k <= m THEN ~Stops(s[k]) ELSE k = m + 1 => Stops(s[k])
        /\ used_list' = IF m = 0 THEN t ELSE used_list
        /\ next' = LET to == Linked(t, IF m = Len(s) THEN NULL ELSE s[m + 1])
                   IN IF m = 0 THEN to ELSE [to EXCEPT ![s[m]] = t]
        /\ \/ flags' = fl
           \/ used_list \in Timers /\ flags' = Displaced(fl, used_list)
  <2>1. CASE Stops(used_list)
    <3>1. InsertFirst(t, fl)
      BY <1>4, <2>1
    <3>2. used_list = IF 0 = Len(s) THEN NULL ELSE s[0 + 1]
      BY <1>1
    <3>3. used_list' = t /\ next' = Linked(t, IF 0 = Len(s) THEN NULL ELSE s[0 + 1])
      BY <3>1, <3>2 DEF InsertFirst
    <3>4. \/ flags' = fl
          \/ used_list \in Timers /\ flags' = Displaced(fl, used_list)
      <4>1. used_list # NULL => used_list \in Timers
        BY <1>1
      <4> QED
        BY <3>1, <4>1 DEF InsertFirst
    <3>5. \A k \in 1..Len(s) : ~(k <= 0) /\ (k = 0 + 1 => Stops(s[k]))
      BY <1>1, <2>1
    <3>6. 0 \in 0..Len(s)
      BY <1>1
    <3> QED
      BY <3>3, <3>4, <3>5, <3>6
  <2>2. CASE ~Stops(used_list)
    <3>1. PICK k \in Steps \ {0} :
            /\ Stops(Node[k]) /\ InsertBefore(t, k, fl)
            /\ \A j \in 1..(k - 1) : ~Stops(Node[j])
      BY <1>4, <2>2
    <3>2. /\ Steps = 0..Cardinality(Timers) /\ Cardinality(Timers) \in Nat
          /\ k \in Nat /\ k # 0
          /\ \A j \in Steps : Node[j] = IF j < Len(s) THEN s[j + 1] ELSE NULL
      BY NodeIs
    <3>3. Node[0] = used_list
      BY <1>1, <3>2
    <3>4. \A j \in 0..(k - 1) : j \in Steps /\ ~Stops(Node[j])
      BY <2>2, <3>1, <3>2, <3>3
    <3>5. \A j \in 0..(k - 1) : j < Len(s) /\ ~Stops(s[j + 1])
      BY <1>5, <3>2, <3>4
    <3>6. k \in 1..Len(s)
      BY <1>1, <3>2, <3>5
    <3>7. Node[k - 1] = s[k] /\ Node[k] = IF k = Len(s) THEN NULL ELSE s[k + 1]
      <4>1. /\ k - 1 \in Steps /\ k \in Steps /\ k - 1 < Len(s) /\ (k - 1) + 1 = k
            /\ k < Len(s) <=> k # Len(s)
        BY <1>1, <3>2, <3>6
      <4> QED
        BY <3>2, <4>1
    <3>8. \A j \in 1..Len(s) : IF j <= k THEN ~Stops(s[j]) ELSE j = k + 1 => Stops(s[j])
      <4> SUFFICES ASSUME NEW j \in 1..Len(s)
                   PROVE  IF j <= k THEN ~Stops(s[j]) ELSE j = k + 1 => Stops(s[j])
        OBVIOUS
      <4>1. CASE j <= k
        <5>1. j - 1 \in 0..(k - 1) /\ (j - 1) + 1 = j
          BY <3>6, <4>1
        <5> QED
          BY <3>5, <4>1, <5>1
      <4>2. CASE ~(j <= k)
        <5>1. j = k + 1 => Node[k] = s[j]
          BY <1>1, <3>6, <3>7
        <5> QED
          BY <3>1, <4>2, <5>1
      <4> QED
        BY <4>1, <4>2
    <3>9. used_list' = used_list /\ flags' = fl
      BY <3>1 DEF InsertBefore
    <3>10. next' = [Linked(t, IF k = Len(s) THEN NULL ELSE s[k + 1]) EXCEPT ![s[k]] = t]
      BY <3>1, <3>7 DEF InsertBefore
    <3>11. k # 0 /\ k \in 0..Len(s)
      BY <3>6
    <3> QED
      BY <3>8, <3>9, <3>10, <3>11
  <2> QED
    BY <2>1, <2>2
<1>7. PICK m \in 0..Len(s) :
        /\ \A k \in 1..Len(s) : IF k <= m THEN ~Stops(s[k]) ELSE k = m + 1 => Stops(s[k])
        /\ used_list' = IF m = 0 THEN t ELSE used_list
        /\ next' = LET to == Linked(t, IF m = Len(s) THEN NULL ELSE s[m + 1])
                   IN IF m = 0 THEN to ELSE [to EXCEPT ![s[m]] = t]
        /\ \/ flags' = fl
           \/ used_list \in Timers /\ flags' = Displaced(fl, used_list)
  BY <1>6
<1> DEFINE node == IF m = Len(s) THEN NULL ELSE s[m + 1]
           to == Linked(t, node)
<1>8. /\ to \in Links /\ to[t] = node
      /\ \A u \in Timers : u # t => to[u] = next[u]
  <2>1. node \in Timers \cup {NULL}
    BY <1>1
  <2> HIDE DEF node
  <2> QED
    BY <2>1 DEF Linked, Links
<1>9. /\ next' \in Links
      /\ \A u \in Timers : next'[u] = IF m # 0 /\ u = s[m] THEN t ELSE to[u]
  <2>1. next' = IF m = 0 THEN to ELSE [to EXCEPT ![s[m]] = t]
    BY <1>7
  <2>2. m # 0 => s[m] \in Timers
    BY <1>1
  <2> HIDE DEF to
  <2> QED
    BY <1>8, <2>1, <2>2 DEF Links
<1> HIDE DEF node, to
<1>10. next'[t] = node
  <2>1. m # 0 => s[m] # t
    BY <1>1
  <2> QED
    BY <1>8, <1>9, <2>1
<1>11. \A k \in 1..Len(s) : next'[s[k]] = IF k = m THEN t ELSE next[s[k]]
  <2> SUFFICES ASSUME NEW k \in 1..Len(s)
               PROVE  next'[s[k]] = IF k = m THEN t ELSE next[s[k]]
    OBVIOUS
  <2>1. (m # 0 /\ s[k] = s[m]) <=> k = m
    BY <1>1
  <2> QED
    BY <1>1, <1>8, <1>9, <2>1
<1>12. Chained(used_list', next', With(s, m, t))
  <2>1. next'[t] = IF m = Len(s) THEN NULL ELSE s[m + 1]
    BY <1>10 DEF node
  <2>2. used_list' = IF m = 0 THEN t ELSE used_list
    BY <1>7
  <2> QED
    BY <1>11, <2>1, <2>2, ChainWith
<1>13. \A k \in 1..Len(s) : IF k <= m THEN hwt_expires[s[k]] <= time
                                      ELSE time <= hwt_expires[s[k]]
  <2> SUFFICES ASSUME NEW k \in 1..Len(s)
               PROVE  IF k <= m THEN hwt_expires[s[k]] <= time ELSE time <= hwt_expires[s[k]]
    OBVIOUS
  <2>1. CASE k <= m
    <3>1. ~(time < hwt_expires[s[k]])
      BY <1>3, <1>7, <2>1
    <3> QED
      BY <1>2, <2>1, <3>1
  <2>2. CASE ~(k <= m)
    <3>1. m + 1 \in 1..Len(s) /\ m + 1 <= k /\ ~(m + 1 <= m)
      BY <1>1, <2>2
    <3>2. time < hwt_expires[s[m + 1]]
      BY <1>3, <1>7, <3>1
    <3>3. hwt_expires[s[m + 1]] <= hwt_expires[s[k]]
      BY <3>1 DEF Sorted
    <3> QED
      BY <1>2, <2>2, <3>1, <3>2, <3>3
  <2> QED
    BY <2>1, <2>2
<1>14. Sorted(With(s, m, t), hwt_expires')
  <2> DEFINE new == hwt_expires'
  <2>1. /\ new[t] \in Nat
        /\ \A k \in 1..Len(s) : new[s[k]] = hwt_expires[s[k]] /\ hwt_expires[s[k]] \in Nat
        /\ \A k \in 1..Len(s) : IF k <= m THEN hwt_expires[s[k]] <= new[t]
                                           ELSE new[t] <= hwt_expires[s[k]]
    BY <1>2, <1>13
  <2> HIDE DEF new
  <2>2. Sorted(With(s, m, t), new)
    BY <2>1, SortedWith
  <2> QED
    BY <2>2 DEF new
<1>15. Elements(With(s, m, t)) = Elements(s) \cup {t}
  BY <1>1, WithIs
<1>16. ASSUME NEW u \in Timers, u \notin Elements(s) \cup {t}
       PROVE  next'[u] = next[u]
  <2>1. m # 0 => s[m] \in Elements(s)
    BY <1>1
  <2> QED
    BY <1>8, <1>9, <1>16, <2>1
<1>17. flags' \in [Timers -> SUBSET Flags] /\ SameUse(flags', fl)
  <2>1. CASE flags' = fl
    BY <2>1 DEF SameUse
  <2>2. CASE used_list \in Timers /\ flags' = Displaced(fl, used_list)
    <3>1. {"HW_SCHED"} \in SUBSET Flags
      BY DEF Flags
    <3>2. /\ flags' \in [Timers -> SUBSET Flags]
          /\ \A u \in Timers :
               flags'[u] = IF u = used_list THEN fl[used_list] \ {"HW_SCHED"} ELSE fl[u]
      BY <2>2, <3>1, Unmark DEF Displaced
    <3> QED
      BY <3>2 DEF SameUse
  <2> QED
    BY <1>7, <2>1, <2>2
<1> QED
  BY <1>9, <1>12, <1>14, <1>15, <1>16, <1>17

-------------------------------------------------------------------------------
(* The invariant of plain use *)

\* No habit beside the plain use (MayStart, MayDelete).
PlainUse == Habits = {}

FreeTimers == {t \in Timers : "ALLOCATE" \notin flags[t]}

\* The list that starts at h has timers of F only, each behind one other at most.
FreeChain(F, h, link) ==
  /\ h # NULL => h \in F
  /\ \A t \in F : link[t] # NULL =>
       /\ link[t] \in F /\ link[t] # h
       /\ \A u \in F : link[u] = link[t] => u = t

FreeList == FreeChain(FreeTimers, free_list, next)

\* s is the list of running timers. A periodic timer is alone: on the list, or off it
\* while its client is called.
Alone(s, t) ==
  /\ t \notin FreeTimers /\ sw_interval[t] \in Times
  /\ \/ s = <<t>> /\ expired = NULL
     \/ s = <<>> /\ expired = t /\ next[t] = NULL

RunningList(s) ==
  /\ Chained(used_list, next, s) /\ Sorted(s, hwt_expires)
  /\ Elements(s) \cap FreeTimers = {}
  /\ \A t \in Timers : "PERIODIC" \in flags[t] => Alone(s, t)
  /\ sched => s # <<>>

TimersInv == TypeOK /\ FreeList /\ \E s : RunningList(s)

Bounded(at, now) ==
  \A t \in Timers : at[t] > 0 => \E d \in Times : at[t] <= now + d

\* TypeOK in parts: what the clock and the processor have, and the lists.
ClockTyped ==
  /\ clock \in 0..MaxClock /\ match \in Nat
  /\ irq \in BOOLEAN /\ has_alarm \in BOOLEAN /\ sched \in BOOLEAN
  /\ cpu \in {"tasks", "isr", "callback"} /\ (expired # NULL <=> cpu = "callback")

TimersTyped ==
  /\ {used_list, free_list, expired} \subseteq Timers \cup {NULL}
  /\ next \in Links
  /\ flags \in [Timers -> SUBSET Flags]
  /\ hwt_expires \in [Timers -> Nat] /\ sw_interval \in [Timers -> Times \cup {0}]

LEMMA TypeParts ==
  /\ TypeOK <=> ClockTyped /\ TimersTyped /\ Bounded(hwt_expires, Now)
  /\ TypeOK' <=> ClockTyped' /\ TimersTyped' /\ Bounded(hwt_expires', Now')
BY DEF TypeOK, ClockTyped, TimersTyped, Bounded, Links, Flags

\* Time goes on, and timers keep their times or lose them.
LEMMA KeepBounds ==
  ASSUME TypeOK, clock' \in {clock, clock + 1}, NEW at \in [Timers -> Nat],
         \A t \in Timers : at[t] \in {0, hwt_expires[t]}
  PROVE  Bounded(at, Now')
<1>1. Now \in Nat /\ Now' \in Nat /\ Now <= Now'
  <2>1. clock \in Nat
    BY TimerAssumption DEF TypeOK
  <2>2. Now \in Nat /\ Now <= ToMs(clock + 1) /\ ToMs(clock + 1) \in Nat
    BY <2>1, TimesConvert, ClockAdvances DEF Now
  <2>3. Now' = Now \/ Now' = ToMs(clock + 1)
    BY DEF Now, ToMs
  <2> QED
    BY <2>2, <2>3
<1>2. ASSUME NEW t \in Timers, at[t] > 0
      PROVE  \E d \in Times : at[t] <= Now' + d
  <2>1. at[t] = hwt_expires[t] /\ hwt_expires[t] \in Nat
    BY <1>2, TypeParts DEF TimersTyped
  <2>2. PICK d \in Times : at[t] <= Now + d
    BY <1>2, <2>1, TypeParts DEF Bounded
  <2>3. d \in Nat
    BY TimerAssumption
  <2> QED
    BY <1>1, <2>1, <2>2, <2>3
<1> QED
  BY <1>2 DEF Bounded

\* A timer gets a time that a client may ask for.
LEMMA NewBound ==
  ASSUME TypeOK, clock' = clock, NEW t \in Timers, NEW time \in Nat,
         \E d \in Times : time <= Now + d,
         NEW at, at = [hwt_expires EXCEPT ![t] = time]
  PROVE  at \in [Timers -> Nat] /\ Bounded(at, Now')
<1>1. Now' = Now /\ hwt_expires \in [Timers -> Nat] /\ Bounded(hwt_expires, Now)
  BY TypeParts DEF Now, ToMs, TimersTyped
<1> QED
  BY <1>1 DEF Bounded

\* The times that calls set.
LEMMA TimesOfCalls ==
  ASSUME TypeOK, NEW d \in Times
  PROVE  /\ d \in Nat /\ \E e \in Times : d <= Now + e
         /\ Expiry(d) \in Nat /\ \E e \in Times : Expiry(d) <= Now + e
<1>1. clock \in Nat /\ d \in Nat
  BY TimerAssumption DEF TypeOK
<1>2. Now \in Nat
  BY <1>1, TimesConvert DEF Now
<1>3. d <= Now + d /\ Expiry(d) = Now + d
  BY <1>1, <1>2 DEF Expiry
<1> QED
  BY <1>1, <1>2, <1>3

\* The first free timer is taken, and what is in use becomes free.
LEMMA FreeTaken ==
  ASSUME NEW F, NEW h \in F, NEW link, FreeChain(F, h, link),
         NEW to, \A u \in F \ {h} : to[u] = link[u]
  PROVE  FreeChain(F \ {h}, link[h], to)
BY DEF FreeChain

LEMMA FreeReturned ==
  ASSUME NEW F, NEW h, NEW link, FreeChain(F, h, link), NEW t, t \notin F, t # NULL,
         NEW to, to[t] = h, \A u \in F : to[u] = link[u]
  PROVE  FreeChain(F \cup {t}, t, to)
BY DEF FreeChain

\* What happens to timers in use does not change the free list.
LEMMA FreeKept ==
  ASSUME FreeList, free_list' = free_list, FreeTimers' = FreeTimers,
         \A u \in FreeTimers : next'[u] = next[u]
  PROVE  FreeList'
BY DEF FreeList, FreeChain

LEMMA UseSame ==
  ASSUME NEW f, SameUse(flags', f)
  PROVE  /\ FreeTimers' = {u \in Timers : "ALLOCATE" \notin f[u]}
         /\ \A u \in Timers : "PERIODIC" \in flags'[u] <=> "PERIODIC" \in f[u]
BY DEF SameUse, FreeTimers

\* Steps that leave the list of running timers as it is.
LEMMA KeepRunning ==
  ASSUME NEW s, RunningList(s),
         UNCHANGED <<used_list, hwt_expires, sw_interval, expired>>,
         sched' => sched,
         \A u \in Timers : u \in Elements(s) \/ "PERIODIC" \in flags[u] =>
                            next'[u] = next[u] /\ u \notin FreeTimers',
         \A u \in Timers : "PERIODIC" \in flags'[u] => "PERIODIC" \in flags[u]
  PROVE  RunningList(s)' /\ Queued' = Queued
<1>1. /\ s \in Seq(Timers) /\ Elements(s) \subseteq Timers
      /\ \A k \in 1..Len(s) : s[k] \in Timers /\ s[k] \in Elements(s)
  BY FewElements DEF RunningList, Chained, Elements
<1>2. Chained(used_list', next', s)
  BY <1>1 DEF RunningList, Chained
<1>3. Sorted(s, hwt_expires')
  BY DEF RunningList
<1>4. Elements(s) \cap FreeTimers' = {}
  BY <1>1
<1>5. ASSUME NEW t \in Timers, "PERIODIC" \in flags'[t]
      PROVE  Alone(s, t)'
  <2>1. "PERIODIC" \in flags[t] /\ Alone(s, t)
    BY <1>5 DEF RunningList
  <2>2. t \notin FreeTimers' /\ next'[t] = next[t]
    BY <2>1
  <2> QED
    BY <2>1, <2>2 DEF Alone
<1>6. Queued' = Queued
  BY <1>2, QueuedIs DEF RunningList
<1> QED
  BY <1>2, <1>3, <1>4, <1>5, <1>6 DEF RunningList

-------------------------------------------------------------------------------
(* The steps of plain use *)

LEMMA CreateKeeps ==
  ASSUME TimersInv, cc_timer_create
  PROVE  TimersInv' /\ Queued' = Queued
<1>1. TypeOK /\ FreeList /\ TimersTyped /\ ClockTyped
  BY TypeParts DEF TimersInv
<1>2. PICK s : RunningList(s)
  BY DEF TimersInv
<1> DEFINE h == free_list
<1>3. h \in FreeTimers /\ h \in Timers /\ {"ALLOCATE"} \in SUBSET Flags /\ next \in Links
  BY <1>1 DEF cc_timer_create, TimersTyped, FreeList, FreeChain, FreeTimers, Flags
<1>4. /\ free_list' = next[h]
      /\ next' = [next EXCEPT ![h] = NULL] /\ flags' = [flags EXCEPT ![h] = {"ALLOCATE"}]
      /\ UNCHANGED <<clock, irq, match, has_alarm, used_list, hwt_expires, sw_interval,
                     cpu, expired, sched>>
  BY DEF cc_timer_create, rtcVars
<1>5. /\ next' \in Links /\ \A u \in Timers : next'[u] = IF u = h THEN NULL ELSE next[u]
      /\ next[h] \in Timers \cup {NULL}
  BY <1>3, <1>4 DEF Links
<1>6. /\ flags' \in [Timers -> SUBSET Flags]
      /\ \A u \in Timers : flags'[u] = IF u = h THEN {"ALLOCATE"} ELSE flags[u]
  BY <1>1, <1>3, <1>4, UpdateFlags DEF TimersTyped
<1> HIDE DEF h
<1>7. FreeTimers' = FreeTimers \ {h}
  BY <1>6 DEF FreeTimers
<1>8. TypeOK'
  <2>1. ClockTyped' /\ TimersTyped'
    BY <1>1, <1>4, <1>5, <1>6 DEF ClockTyped, TimersTyped
  <2>2. Bounded(hwt_expires', Now')
    BY <1>1, <1>4, KeepBounds DEF TimersTyped
  <2> QED
    BY <2>1, <2>2, TypeParts
<1>9. FreeList'
  <2>1. FreeChain(FreeTimers, h, next)
    BY <1>1 DEF FreeList, h
  <2>2. \A u \in FreeTimers \ {h} : next'[u] = next[u]
    BY <1>5 DEF FreeTimers
  <2>3. FreeChain(FreeTimers \ {h}, next[h], next')
    BY <1>3, <2>1, <2>2, FreeTaken
  <2> QED
    BY <1>4, <1>7, <2>3 DEF FreeList
<1>10. RunningList(s)' /\ Queued' = Queued
  <2>1. \A u \in Timers : u \in Elements(s) \/ "PERIODIC" \in flags[u] => u \notin FreeTimers
    BY <1>2 DEF RunningList, Alone
  <2>2. \A u \in Timers : u \in Elements(s) \/ "PERIODIC" \in flags[u] =>
                            next'[u] = next[u] /\ u \notin FreeTimers'
    BY <1>3, <1>5, <1>7, <2>1
  <2>3. \A u \in Timers : "PERIODIC" \in flags'[u] => "PERIODIC" \in flags[u]
    BY <1>6
  <2> QED
    BY <1>2, <1>4, <2>2, <2>3, KeepRunning
<1> QED
  BY <1>8, <1>9, <1>10 DEF TimersInv

LEMMA DeleteKeeps ==
  ASSUME PlainUse, TimersInv, NEW t \in Timers, cc_timer_delete(t)
  PROVE  TimersInv' /\ Queued' = Queued
<1>1. TypeOK /\ FreeList /\ TimersTyped /\ ClockTyped
  BY TypeParts DEF TimersInv
<1>2. PICK s : RunningList(s)
  BY DEF TimersInv
<1>3. t \notin Elements(s) /\ flags[t] = {"ALLOCATE"}
  <2>1. Queued = Elements(s)
    BY <1>2, QueuedIs DEF RunningList
  <2> QED
    BY <2>1 DEF cc_timer_delete, MayDelete, PlainUse, IsAllocOnly
<1>4. /\ free_list' = t
      /\ next' = [next EXCEPT ![t] = free_list] /\ flags' = [flags EXCEPT ![t] = {}]
      /\ UNCHANGED <<clock, irq, match, has_alarm, used_list, hwt_expires, sw_interval,
                     cpu, expired, sched>>
  BY DEF cc_timer_delete, rtcVars
<1>5. /\ free_list \in Timers \cup {NULL} /\ next \in Links
      /\ next' \in Links /\ \A u \in Timers : next'[u] = IF u = t THEN free_list ELSE next[u]
  BY <1>1, <1>4 DEF Links, TimersTyped
<1>6. /\ flags' \in [Timers -> SUBSET Flags]
      /\ \A u \in Timers : flags'[u] = IF u = t THEN {} ELSE flags[u]
  BY <1>1, <1>4, UpdateFlags DEF TimersTyped
<1>7. t \notin FreeTimers /\ FreeTimers' = FreeTimers \cup {t}
  BY <1>3, <1>6 DEF FreeTimers
<1>8. TypeOK'
  <2>1. ClockTyped' /\ TimersTyped'
    BY <1>1, <1>4, <1>5, <1>6 DEF ClockTyped, TimersTyped
  <2>2. Bounded(hwt_expires', Now')
    BY <1>1, <1>4, KeepBounds DEF TimersTyped
  <2> QED
    BY <2>1, <2>2, TypeParts
<1>9. FreeList'
  <2>1. t # NULL /\ next'[t] = free_list /\ \A u \in FreeTimers : next'[u] = next[u]
    BY <1>5, <1>7, TimerAssumption DEF FreeTimers
  <2>2. FreeChain(FreeTimers \cup {t}, t, next')
    BY <1>1, <1>7, <2>1, FreeReturned DEF FreeList
  <2> QED
    BY <1>4, <1>7, <2>2 DEF FreeList
<1>10. RunningList(s)' /\ Queued' = Queued
  <2>1. \A u \in Timers : u \in Elements(s) \/ "PERIODIC" \in flags[u] => u \notin FreeTimers /\ u # t
    BY <1>2, <1>3 DEF RunningList, Alone
  <2>2. \A u \in Timers : u \in Elements(s) \/ "PERIODIC" \in flags[u] =>
                            next'[u] = next[u] /\ u \notin FreeTimers'
    BY <1>5, <1>7, <2>1
  <2>3. \A u \in Timers : "PERIODIC" \in flags'[u] => "PERIODIC" \in flags[u]
    BY <1>6
  <2> QED
    BY <1>2, <1>4, <2>2, <2>3, KeepRunning
<1> QED
  BY <1>8, <1>9, <1>10 DEF TimersInv

\* Setting the alarm marks the head.
LEMMA SchedIs ==
  ASSUME TypeOK, NEW head \in Timers, NEW fl \in [Timers -> SUBSET Flags],
         SchedTimerIfNew(head, fl)
  PROVE  /\ flags' \in [Timers -> SUBSET Flags] /\ SameUse(flags', fl)
         /\ match' \in Nat /\ has_alarm' \in BOOLEAN
<1>1. /\ match \in Nat /\ has_alarm \in BOOLEAN /\ hwt_expires[head] \in Nat
  BY DEF TypeOK
<1>2. CASE "HW_SCHED" \in fl[head]
  BY <1>1, <1>2 DEF SchedTimerIfNew, rtcVars, SameUse
<1>3. CASE "HW_SCHED" \notin fl[head]
  <2>1. SetAlarm(hwt_expires[head]) /\ flags' = [fl EXCEPT ![head] = fl[head] \cup {"HW_SCHED"}]
    BY <1>3 DEF SchedTimerIfNew
  <2>2. fl[head] \cup {"HW_SCHED"} \in SUBSET Flags
    BY DEF Flags
  <2>3. /\ flags' \in [Timers -> SUBSET Flags]
        /\ \A u \in Timers : flags'[u] = IF u = head THEN fl[head] \cup {"HW_SCHED"} ELSE fl[u]
    BY <2>1, <2>2, UpdateFlags
  <2>4. SameUse(flags', fl)
    BY <2>3 DEF SameUse
  <2>5. match' \in Nat /\ has_alarm' \in BOOLEAN
    BY <1>1, <2>1, TimesConvert DEF SetAlarm, rtcVars
  <2> QED
    BY <2>3, <2>4, <2>5
<1> QED
  BY <1>2, <1>3

\* Steps that at most set the alarm and the mark, move the clock or change who runs.
LEMMA QuietKeeps ==
  ASSUME TimersInv, UNCHANGED <<used_list, free_list, next, hwt_expires, sw_interval, expired>>,
         ClockTyped', clock' \in {clock, clock + 1}, sched' => sched,
         flags' \in [Timers -> SUBSET Flags], SameUse(flags', flags)
  PROVE  TimersInv' /\ Queued' = Queued
<1>1. TypeOK /\ FreeList /\ TimersTyped
  BY TypeParts DEF TimersInv
<1>2. PICK s : RunningList(s)
  BY DEF TimersInv
<1>3. /\ FreeTimers' = FreeTimers
      /\ \A u \in Timers : "PERIODIC" \in flags'[u] => "PERIODIC" \in flags[u]
  BY UseSame DEF FreeTimers
<1>4. TypeOK'
  <2>1. TimersTyped'
    BY <1>1 DEF TimersTyped
  <2>2. Bounded(hwt_expires', Now')
    BY <1>1, KeepBounds DEF TimersTyped
  <2> QED
    BY <2>1, <2>2, TypeParts
<1>5. FreeList'
  BY <1>1, <1>3, FreeKept
<1>6. RunningList(s)' /\ Queued' = Queued
  <2>1. \A u \in Timers : u \in Elements(s) \/ "PERIODIC" \in flags[u] => u \notin FreeTimers
    BY <1>2 DEF RunningList, Alone
  <2> QED
    BY <1>2, <1>3, <2>1, KeepRunning
<1> QED
  BY <1>4, <1>5, <1>6 DEF TimersInv

LEMMA ClockKeeps ==
  ASSUME TimersInv, Tick \/ cc_rtc_isr \/ UNCHANGED vars
  PROVE  TimersInv' /\ Queued' = Queued
<1>1. ClockTyped /\ flags \in [Timers -> SUBSET Flags]
  BY TypeParts DEF TimersInv, TimersTyped
<1>2. SameUse(flags, flags)
  BY DEF SameUse
<1>3. CASE Tick
  <2>1. /\ clock' = clock + 1 /\ clock < MaxClock
        /\ irq' \in BOOLEAN
        /\ UNCHANGED <<match, has_alarm, used_list, free_list, next, flags, hwt_expires,
                       sw_interval, cpu, expired, sched>>
    BY <1>3 DEF Tick, rtcVars, listVars
  <2>2. ClockTyped'
    BY <1>1, <2>1, TimerAssumption DEF ClockTyped
  <2> QED
    BY <1>1, <1>2, <2>1, <2>2, QuietKeeps
<1>4. CASE cc_rtc_isr
  <2>1. /\ irq' = FALSE /\ clock' = clock /\ has_alarm' \in {has_alarm, FALSE}
        /\ cpu = "tasks" /\ cpu' \in {"tasks", "isr"}
        /\ UNCHANGED <<match, used_list, free_list, next, flags, hwt_expires,
                       sw_interval, expired, sched>>
    BY <1>4 DEF cc_rtc_isr, listVars
  <2>2. ClockTyped'
    BY <1>1, <2>1 DEF ClockTyped
  <2> QED
    BY <1>1, <1>2, <2>1, <2>2, QuietKeeps
<1>5. CASE UNCHANGED vars
  <2>1. /\ clock' = clock
        /\ UNCHANGED <<irq, match, has_alarm, used_list, free_list, next, flags, hwt_expires,
                       sw_interval, cpu, expired, sched>>
    BY <1>5 DEF vars, rtcVars, listVars
  <2>2. ClockTyped'
    BY <1>1, <2>1 DEF ClockTyped
  <2> QED
    BY <1>1, <1>2, <2>1, <2>2, QuietKeeps
<1> QED
  BY <1>3, <1>4, <1>5

LEMMA AlarmKeeps ==
  ASSUME TimersInv, Sched \/ ExpiryDone
  PROVE  TimersInv' /\ Queued' = Queued
<1>1. TypeOK /\ ClockTyped /\ TimersTyped
  BY TypeParts DEF TimersInv
<1>2. PICK s : RunningList(s)
  BY DEF TimersInv
<1>3. /\ clock' = clock /\ irq' = irq /\ sched' \in {sched, FALSE}
      /\ UNCHANGED <<used_list, free_list, next, hwt_expires, sw_interval, expired>>
      /\ cpu' = cpu \/ (cpu = "isr" /\ cpu' = "tasks")
  BY DEF Sched, ExpiryDone, InLoop
<1>4. \/ used_list \in Timers /\ SchedTimerIfNew(used_list, flags)
      \/ flags' = flags /\ has_alarm' = FALSE /\ match' = match
  <2>1. used_list \in Timers \cup {NULL}
    BY <1>1 DEF TimersTyped
  <2>2. sched => used_list # NULL
    BY <1>2, FewElements, TimerAssumption DEF RunningList
  <2> QED
    BY <2>1, <2>2 DEF Sched, ExpiryDone
<1>5. /\ flags' \in [Timers -> SUBSET Flags] /\ SameUse(flags', flags)
      /\ match' \in Nat /\ has_alarm' \in BOOLEAN
  <2>1. flags \in [Timers -> SUBSET Flags] /\ match \in Nat
    BY <1>1 DEF TimersTyped, ClockTyped
  <2>2. SameUse(flags, flags)
    BY DEF SameUse
  <2> QED
    BY <1>1, <1>4, <2>1, <2>2, SchedIs
<1>6. ClockTyped'
  BY <1>1, <1>3, <1>5 DEF ClockTyped
<1>7. (sched' => sched) /\ clock' \in {clock, clock + 1}
  <2>1. sched' => sched
    BY <1>3, Zenon
  <2> QED
    BY <1>3, <2>1
<1> QED
  BY <1>3, <1>5, <1>6, <1>7, QuietKeeps

\* What starts, stops and expiries have in common: the timers of list s become those
\* of r, which are in use, and other links stay.
LEMMA UsedKeeps ==
  ASSUME TimersInv, UNCHANGED <<clock, free_list>>,
         used_list' \in Timers \cup {NULL}, expired' \in Timers \cup {NULL},
         next' \in Links, flags' \in [Timers -> SUBSET Flags],
         hwt_expires' \in [Timers -> Nat], sw_interval' \in [Timers -> Times \cup {0}],
         ClockTyped', Bounded(hwt_expires', Now'),
         FreeTimers' = FreeTimers, \A u \in FreeTimers : next'[u] = next[u],
         NEW r, RunningList(r)'
  PROVE  TimersInv'
<1>1. TypeOK /\ FreeList /\ TimersTyped
  BY TypeParts DEF TimersInv
<1>2. TypeOK'
  <2>1. TimersTyped'
    BY <1>1 DEF TimersTyped
  <2> QED
    BY <2>1, TypeParts
<1>3. FreeList'
  BY <1>1, FreeKept
<1> QED
  BY <1>2, <1>3 DEF TimersInv

LEMMA StopKeeps ==
  ASSUME TimersInv, NEW t \in Timers, cc_timer_stop(t)
  PROVE  TimersInv' /\ Queued' = Queued \ {t}
<1>1. TypeOK /\ ClockTyped /\ TimersTyped
  BY TypeParts DEF TimersInv
<1>2. PICK s : RunningList(s)
  BY DEF TimersInv
<1>3. /\ Chained(used_list, next, s) /\ Sorted(s, hwt_expires) /\ t \in Elements(s)
      /\ Elements(s) \cap FreeTimers = {} /\ Queued = Elements(s)
  <2>1. Queued = Elements(s)
    BY <1>2, QueuedIs DEF RunningList
  <2> QED
    BY <1>2, <2>1 DEF RunningList, cc_timer_stop
<1> DEFINE fl == [flags EXCEPT ![t] = @ \ {"HW_SCHED", "PERIODIC"}]
<1>4. /\ Remove(t) /\ sched = FALSE
      /\ sw_interval' = [sw_interval EXCEPT ![t] = 0]
      /\ UNCHANGED <<clock, irq, free_list, cpu, expired, sched>>
      /\ \/ used_list' # NULL /\ SchedTimerIfNew(used_list', fl)
         \/ flags' = fl /\ has_alarm' = FALSE /\ match' = match
  <2>1. sched \in BOOLEAN
    BY <1>1 DEF ClockTyped
  <2> QED
    BY <2>1 DEF cc_timer_stop, Callable
<1>5. /\ \E r : /\ Chained(used_list', next', r) /\ Sorted(r, hwt_expires')
                /\ Elements(r) = Elements(s) \ {t}
      /\ next' \in Links
      /\ \A u \in Timers : u \notin Elements(s) \/ u = t => next'[u] = next[u]
      /\ hwt_expires' \in [Timers -> Nat]
      /\ \A u \in Timers : hwt_expires'[u] = IF u = t THEN 0 ELSE hwt_expires[u]
  BY <1>1, <1>3, <1>4, RemoveIs DEF TimersTyped
<1>6. PICK r : /\ Chained(used_list', next', r) /\ Sorted(r, hwt_expires')
               /\ Elements(r) = Elements(s) \ {t}
  BY <1>5
<1>7. used_list' \in Timers \cup {NULL}
  BY <1>6, FewElements
<1>8. /\ fl \in [Timers -> SUBSET Flags]
      /\ \A u \in Timers : fl[u] = IF u = t THEN flags[t] \ {"HW_SCHED", "PERIODIC"} ELSE flags[u]
  <2>1. flags \in [Timers -> SUBSET Flags] /\ {"HW_SCHED", "PERIODIC"} \in SUBSET Flags
    BY <1>1 DEF TimersTyped, Flags
  <2> QED
    BY <2>1, Unmark
<1> HIDE DEF fl
<1>9. /\ flags' \in [Timers -> SUBSET Flags] /\ SameUse(flags', fl)
      /\ match' \in Nat /\ has_alarm' \in BOOLEAN
  <2>1. CASE used_list' # NULL /\ SchedTimerIfNew(used_list', fl)
    <3>1. used_list' \in Timers
      BY <1>7, <2>1
    <3> QED
      BY <1>1, <1>8, <2>1, <3>1, SchedIs
  <2>2. CASE flags' = fl /\ has_alarm' = FALSE /\ match' = match
    BY <1>1, <1>8, <2>2 DEF SameUse, ClockTyped
  <2> QED
    BY <1>4, <2>1, <2>2
<1>10. /\ FreeTimers' = FreeTimers
       /\ \A u \in Timers : "PERIODIC" \in flags'[u] => "PERIODIC" \in flags[u] /\ u # t
  <2>1. /\ FreeTimers' = {u \in Timers : "ALLOCATE" \notin fl[u]}
        /\ \A u \in Timers : "PERIODIC" \in flags'[u] <=> "PERIODIC" \in fl[u]
    BY <1>9, UseSame
  <2> QED
    BY <1>8, <2>1 DEF FreeTimers
<1>11. \A u \in Timers : "PERIODIC" \notin flags'[u]
  <2> SUFFICES ASSUME NEW u \in Timers, "PERIODIC" \in flags'[u]
               PROVE  FALSE
    OBVIOUS
  <2>1. "PERIODIC" \in flags[u] /\ u # t
    BY <1>10
  <2>2. s = <<u>> \/ s = <<>>
    BY <1>2, <2>1 DEF RunningList, Alone
  <2>3. Elements(s) \subseteq {u}
    BY <1>3, <2>2, FewElements
  <2> QED
    BY <1>3, <2>1, <2>3
<1>12. RunningList(r)'
  <2>1. Elements(r) \cap FreeTimers' = {}
    BY <1>3, <1>6, <1>10
  <2> QED
    BY <1>4, <1>6, <1>11, <2>1 DEF RunningList
<1>13. ClockTyped'
  BY <1>1, <1>4, <1>9 DEF ClockTyped
<1>14. Bounded(hwt_expires', Now')
  BY <1>1, <1>4, <1>5, KeepBounds
<1>15. /\ sw_interval' \in [Timers -> Times \cup {0}]
       /\ expired' \in Timers \cup {NULL}
       /\ \A u \in FreeTimers : next'[u] = next[u]
  BY <1>1, <1>3, <1>4, <1>5 DEF TimersTyped, FreeTimers
<1>16. Queued' = Queued \ {t}
  BY <1>3, <1>6, QueuedIs
<1> QED
  BY <1>4, <1>5, <1>7, <1>9, <1>10, <1>12, <1>13, <1>14, <1>15, <1>16, UsedKeeps

LEMMA ExpiredKeeps ==
  ASSUME TimersInv, HandleExpired
  PROVE  /\ TimersInv'
         /\ used_list \in Queued /\ Queued' = Queued \ {used_list}
         /\ \A u \in Queued : hwt_expires[used_list] <= hwt_expires[u]
<1>1. TypeOK /\ ClockTyped /\ TimersTyped
  BY TypeParts DEF TimersInv
<1>2. PICK s : RunningList(s)
  BY DEF TimersInv
<1> DEFINE t == used_list
<1>3. /\ Chained(used_list, next, s) /\ Sorted(s, hwt_expires) /\ t \in Elements(s)
      /\ Elements(s) \cap FreeTimers = {} /\ t \in Timers
  <2>1. used_list # NULL /\ Chained(used_list, next, s)
    BY <1>2 DEF RunningList, HandleExpired
  <2> QED
    BY <1>2, <2>1, FewElements DEF RunningList
<1>4. /\ Remove(t) /\ ~sched /\ expired = NULL
      /\ flags' = [flags EXCEPT ![t] = @ \ {"HW_SCHED"}]
      /\ cpu' = "callback" /\ expired' = t
      /\ UNCHANGED <<clock, irq, match, has_alarm, free_list, sw_interval, sched>>
  BY <1>1 DEF HandleExpired, InLoop, rtcVars, ClockTyped
<1> HIDE DEF t
<1>5. /\ \E r : /\ Chained(used_list', next', r) /\ Sorted(r, hwt_expires')
                /\ Elements(r) = Elements(s) \ {t}
      /\ next' \in Links
      /\ \A u \in Timers : u \notin Elements(s) \/ u = t => next'[u] = next[u]
      /\ hwt_expires' \in [Timers -> Nat]
      /\ \A u \in Timers : hwt_expires'[u] = IF u = t THEN 0 ELSE hwt_expires[u]
  BY <1>1, <1>3, <1>4, RemoveIs DEF TimersTyped
<1>6. PICK r : /\ Chained(used_list', next', r) /\ Sorted(r, hwt_expires')
               /\ Elements(r) = Elements(s) \ {t}
  BY <1>5
<1>7. used_list' \in Timers \cup {NULL}
  BY <1>6, FewElements
<1>8. /\ flags' \in [Timers -> SUBSET Flags]
      /\ \A u \in Timers : flags'[u] = IF u = t THEN flags[t] \ {"HW_SCHED"} ELSE flags[u]
  <2>1. flags \in [Timers -> SUBSET Flags] /\ {"HW_SCHED"} \in SUBSET Flags
    BY <1>1 DEF TimersTyped, Flags
  <2> QED
    BY <1>3, <1>4, <2>1, Unmark
<1>9. /\ FreeTimers' = FreeTimers
      /\ \A u \in Timers : "PERIODIC" \in flags'[u] => "PERIODIC" \in flags[u]
  BY <1>8 DEF FreeTimers
<1>10. ASSUME NEW u \in Timers, "PERIODIC" \in flags'[u]
       PROVE  Alone(r, u)'
  <2>1. Alone(s, u)
    BY <1>2, <1>9, <1>10 DEF RunningList
  <2>2. s = <<u>> \/ s = <<>>
    BY <2>1 DEF Alone
  <2>3. s = <<u>> /\ Elements(s) = {u} /\ next[u] = NULL /\ u = t
    BY <1>3, <2>2, FewElements
  <2>4. r = <<>>
    BY <1>6, <2>3, FewElements
  <2>5. next'[u] = NULL
    BY <1>5, <2>3
  <2>6. u \notin FreeTimers' /\ sw_interval'[u] \in Times
    BY <1>4, <1>9, <2>1 DEF Alone
  <2> QED
    BY <1>4, <2>3, <2>4, <2>5, <2>6 DEF Alone
<1>11. RunningList(r)'
  <2>1. Elements(r) \cap FreeTimers' = {}
    BY <1>3, <1>6, <1>9
  <2> QED
    BY <1>4, <1>6, <1>10, <2>1 DEF RunningList
<1>12. ClockTyped'
  <2>1. t # NULL
    BY <1>3, TimerAssumption
  <2> QED
    BY <1>1, <1>4, <2>1 DEF ClockTyped
<1>13. Bounded(hwt_expires', Now')
  BY <1>1, <1>4, <1>5, KeepBounds
<1>14. /\ sw_interval' \in [Timers -> Times \cup {0}]
       /\ expired' \in Timers \cup {NULL}
       /\ \A u \in FreeTimers : next'[u] = next[u]
  BY <1>1, <1>3, <1>4, <1>5 DEF TimersTyped, FreeTimers
<1>15. Queued = Elements(s) /\ Queued' = Elements(s) \ {t}
  BY <1>3, <1>6, QueuedIs
<1>16. ASSUME NEW u \in Queued
       PROVE  hwt_expires[t] <= hwt_expires[u]
  <2>1. PICK k \in 1..Len(s) : u = s[k]
    BY <1>15 DEF Elements
  <2>2. t = s[1] /\ 1 \in 1..Len(s) /\ 1 <= k
    BY <1>3, <2>1, FewElements DEF t, Chained
  <2> QED
    BY <1>3, <2>1, <2>2 DEF Sorted
<1>17. TimersInv'
  BY <1>4, <1>5, <1>7, <1>8, <1>9, <1>11, <1>12, <1>13, <1>14, UsedKeeps
<1> QED
  BY <1>3, <1>15, <1>16, <1>17 DEF t

LEMMA StartKeeps ==
  ASSUME PlainUse, TimersInv, NEW t \in Timers, NEW time \in Times,
         NEW absolute \in BOOLEAN, NEW periodic \in BOOLEAN,
         cc_timer_start(t, time, absolute, periodic)
  PROVE  /\ TimersInv'
         /\ t \notin Queued /\ Queued' = Queued \cup {t}
         /\ \E at \in Nat : hwt_expires' = [hwt_expires EXCEPT ![t] = at]
<1>1. TypeOK /\ ClockTyped /\ TimersTyped
  BY TypeParts DEF TimersInv
<1>2. PICK s : RunningList(s)
  BY DEF TimersInv
<1> DEFINE at == IF absolute THEN time ELSE Expiry(time)
           fl == IF periodic THEN [flags EXCEPT ![t] = flags[t] \cup {"PERIODIC"}] ELSE flags
           interval == IF periodic THEN time ELSE 0
<1>3. /\ Chained(used_list, next, s) /\ Sorted(s, hwt_expires)
      /\ Queued = Elements(s) /\ Elements(s) \cap FreeTimers = {}
  BY <1>2, QueuedIs DEF RunningList
\* The timer is free to go anywhere, and a periodic one has the list for itself.
<1>4. /\ t \notin Elements(s) /\ next[t] = NULL /\ ~PeriodicOn
      /\ periodic => Elements(s) = {} /\ cpu = "tasks"
      /\ flags[t] = {"ALLOCATE"}
  BY <1>3 DEF cc_timer_start, MayStart, PlainUse, IsAllocOnly
<1>5. /\ sw_interval' = [sw_interval EXCEPT ![t] = interval]
      /\ hwt_expires' = [hwt_expires EXCEPT ![t] = at]
      /\ Insert(t, fl) /\ sched' = TRUE
      /\ UNCHANGED <<clock, irq, match, has_alarm, free_list, cpu, expired>>
  BY DEF cc_timer_start, SetupTimerExec, rtcVars
<1>6. at \in Nat /\ \E d \in Times : at <= Now + d
  BY <1>1, TimesOfCalls
<1>7. /\ fl \in [Timers -> SUBSET Flags]
      /\ \A u \in Timers : /\ "ALLOCATE" \in fl[u] <=> "ALLOCATE" \in flags[u]
                           /\ "PERIODIC" \in fl[u] <=> "PERIODIC" \in flags[u] \/ (u = t /\ periodic)
  <2>1. flags \in [Timers -> SUBSET Flags] /\ flags[t] \cup {"PERIODIC"} \in SUBSET Flags
    BY <1>1 DEF TimersTyped, Flags
  <2>2. CASE periodic
    <3>1. /\ fl \in [Timers -> SUBSET Flags]
          /\ \A u \in Timers : fl[u] = IF u = t THEN flags[t] \cup {"PERIODIC"} ELSE flags[u]
      BY <2>1, <2>2, UpdateFlags
    <3> HIDE DEF fl
    <3> QED
      BY <2>2, <3>1
  <2>3. CASE ~periodic
    BY <2>1, <2>3
  <2> QED
    BY <2>2, <2>3
<1>8. interval \in Times \cup {0}
  OBVIOUS
<1> HIDE DEF at, fl, interval
<1>9. /\ \E r : /\ Chained(used_list', next', r) /\ Sorted(r, hwt_expires')
                /\ Elements(r) = Elements(s) \cup {t}
      /\ next' \in Links
      /\ \A u \in Timers : u \notin Elements(s) \cup {t} => next'[u] = next[u]
      /\ flags' \in [Timers -> SUBSET Flags] /\ SameUse(flags', fl)
  BY <1>1, <1>3, <1>4, <1>5, <1>6, <1>7, InsertIs DEF TimersTyped
<1>10. PICK r : /\ Chained(used_list', next', r) /\ Sorted(r, hwt_expires')
                /\ Elements(r) = Elements(s) \cup {t}
  BY <1>9
<1>11. used_list' \in Timers \cup {NULL} /\ r # <<>>
  BY <1>10, FewElements
<1>12. t \notin FreeTimers
  BY <1>4 DEF FreeTimers
<1>13. /\ FreeTimers' = FreeTimers
       /\ \A u \in Timers :
            "PERIODIC" \in flags'[u] <=> "PERIODIC" \in flags[u] \/ (u = t /\ periodic)
  <2>1. /\ FreeTimers' = {u \in Timers : "ALLOCATE" \notin fl[u]}
        /\ \A u \in Timers : "PERIODIC" \in flags'[u] <=> "PERIODIC" \in fl[u]
    BY <1>9, UseSame
  <2> QED
    BY <1>7, <2>1 DEF FreeTimers
<1>14. \A u \in Timers : "PERIODIC" \notin flags[u]
  <2> SUFFICES ASSUME NEW u \in Timers, "PERIODIC" \in flags[u]
               PROVE  FALSE
    OBVIOUS
  <2>1. Alone(s, u) /\ u # NULL
    BY <1>2, TimerAssumption DEF RunningList
  <2>2. u \in Queued \cup {expired}
    <3>1. s = <<u>> => u \in Elements(s)
      BY <1>3, FewElements
    <3> QED
      BY <1>3, <2>1, <3>1 DEF Alone
  <2> QED
    BY <1>4, <2>1, <2>2 DEF PeriodicOn
<1>15. ASSUME NEW u \in Timers, "PERIODIC" \in flags'[u]
       PROVE  Alone(r, u)'
  <2>1. u = t /\ periodic
    BY <1>13, <1>14, <1>15
  <2>2. r = <<t>>
    BY <1>4, <1>10, <2>1, FewElements
  <2>3. expired' = NULL
    BY <1>1, <1>4, <1>5, <2>1 DEF ClockTyped
  <2>4. sw_interval'[t] = time
    BY <1>1, <1>5, <2>1 DEF TimersTyped, interval
  <2> QED
    BY <1>12, <1>13, <2>1, <2>2, <2>3, <2>4 DEF Alone
<1>16. RunningList(r)'
  <2>1. Elements(r) \cap FreeTimers' = {}
    BY <1>3, <1>10, <1>12, <1>13
  <2> QED
    BY <1>10, <1>11, <1>15, <2>1 DEF RunningList
<1>17. ClockTyped'
  BY <1>1, <1>5 DEF ClockTyped
<1>18. hwt_expires' \in [Timers -> Nat] /\ Bounded(hwt_expires', Now')
  BY <1>1, <1>5, <1>6, NewBound
<1>19. /\ sw_interval' \in [Timers -> Times \cup {0}]
       /\ expired' \in Timers \cup {NULL}
       /\ \A u \in FreeTimers : next'[u] = next[u]
  BY <1>1, <1>3, <1>5, <1>8, <1>9, <1>12 DEF TimersTyped, FreeTimers
<1>20. Queued' = Queued \cup {t}
  BY <1>3, <1>10, QueuedIs
<1>21. TimersInv'
  BY <1>5, <1>9, <1>11, <1>13, <1>16, <1>17, <1>18, <1>19, UsedKeeps
<1> QED
  BY <1>3, <1>4, <1>5, <1>6, <1>20, <1>21

\* A periodic timer goes back to the list, which is empty.
LEMMA ReturnKeeps ==
  ASSUME TimersInv, CallbackReturns
  PROVE  /\ TimersInv'
         /\ \/ Queued' = Queued /\ hwt_expires' = hwt_expires
            \/ /\ expired \notin Queued /\ Queued' = Queued \cup {expired}
               /\ \E at \in Nat : hwt_expires' = [hwt_expires EXCEPT ![expired] = at]
<1>1. TypeOK /\ ClockTyped /\ TimersTyped
  BY TypeParts DEF TimersInv
<1>2. PICK s : RunningList(s)
  BY DEF TimersInv
<1> DEFINE t == expired
<1>3. /\ Chained(used_list, next, s) /\ Sorted(s, hwt_expires)
      /\ Elements(s) \cap FreeTimers = {}
      /\ t \in Timers /\ t # NULL /\ ~sched
  BY <1>1, <1>2 DEF RunningList, CallbackReturns, ClockTyped, TimersTyped
<1>4. /\ cpu' = "isr" /\ expired' = NULL
      /\ UNCHANGED <<clock, irq, match, has_alarm, free_list, sw_interval>>
  BY DEF CallbackReturns, rtcVars
<1>5. CASE "PERIODIC" \in flags[t]
  <2> DEFINE at == Expiry(sw_interval[t])
  <2>1. /\ hwt_expires' = [hwt_expires EXCEPT ![t] = at]
        /\ Insert(t, flags) /\ sched' = TRUE
    BY <1>5 DEF CallbackReturns, SetupTimerExec
  <2>2. /\ Elements(s) = {} /\ next[t] = NULL
        /\ t \notin FreeTimers /\ sw_interval[t] \in Times
    <3>1. Alone(s, t)
      BY <1>2, <1>3, <1>5 DEF RunningList
    <3> QED
      BY <1>3, <3>1, FewElements DEF Alone
  <2>3. at \in Nat /\ \E d \in Times : at <= Now + d
    BY <1>1, <2>2, TimesOfCalls
  <2> HIDE DEF at, t
  <2>4. /\ \E r : /\ Chained(used_list', next', r) /\ Sorted(r, hwt_expires')
                  /\ Elements(r) = Elements(s) \cup {t}
        /\ next' \in Links
        /\ \A u \in Timers : u \notin Elements(s) \cup {t} => next'[u] = next[u]
        /\ flags' \in [Timers -> SUBSET Flags] /\ SameUse(flags', flags)
    BY <1>1, <1>3, <2>1, <2>2, <2>3, InsertIs DEF TimersTyped
  <2>5. PICK r : /\ Chained(used_list', next', r) /\ Sorted(r, hwt_expires')
                 /\ Elements(r) = Elements(s) \cup {t}
    BY <2>4
  <2>6. used_list' \in Timers \cup {NULL} /\ r # <<>> /\ r = <<t>>
    BY <2>2, <2>5, FewElements
  <2>7. /\ FreeTimers' = FreeTimers
        /\ \A u \in Timers : "PERIODIC" \in flags'[u] <=> "PERIODIC" \in flags[u]
    BY <2>4, UseSame DEF FreeTimers
  <2>8. ASSUME NEW u \in Timers, "PERIODIC" \in flags'[u]
        PROVE  Alone(r, u)'
    <3>1. Alone(s, u)
      BY <1>2, <2>7, <2>8 DEF RunningList
    <3>2. u = t
      BY <1>3, <3>1 DEF Alone, t
    <3> QED
      BY <1>4, <2>2, <2>6, <2>7, <3>2 DEF Alone
  <2>9. RunningList(r)'
    <3>1. Elements(r) \cap FreeTimers' = {}
      BY <2>2, <2>5, <2>7
    <3> QED
      BY <2>5, <2>6, <2>8, <3>1 DEF RunningList
  <2>10. ClockTyped'
    BY <1>1, <1>4, <2>1 DEF ClockTyped
  <2>11. hwt_expires' \in [Timers -> Nat] /\ Bounded(hwt_expires', Now')
    BY <1>1, <1>3, <1>4, <2>1, <2>3, NewBound
  <2>12. /\ sw_interval' \in [Timers -> Times \cup {0}]
         /\ expired' \in Timers \cup {NULL}
         /\ \A u \in FreeTimers : next'[u] = next[u]
    BY <1>1, <1>4, <2>2, <2>4 DEF TimersTyped, FreeTimers
  <2>13. t \notin Queued /\ Queued' = Queued \cup {t}
    BY <1>3, <2>2, <2>5, QueuedIs
  <2>14. TimersInv'
    BY <1>4, <2>4, <2>6, <2>7, <2>9, <2>10, <2>11, <2>12, UsedKeeps
  <2> QED
    BY <2>1, <2>3, <2>13, <2>14 DEF t
<1>6. CASE "PERIODIC" \notin flags[t]
  <2>1. UNCHANGED <<used_list, next, flags, hwt_expires, sched>>
    BY <1>6 DEF CallbackReturns
  <2> HIDE DEF t
  <2>2. FreeTimers' = FreeTimers
    BY <2>1 DEF FreeTimers
  <2>3. \A u \in Timers : "PERIODIC" \notin flags'[u]
    <3> SUFFICES ASSUME NEW u \in Timers, "PERIODIC" \in flags[u]
                 PROVE  FALSE
      BY <2>1
    <3>1. Alone(s, u)
      BY <1>2 DEF RunningList
    <3> QED
      BY <1>3, <1>6, <3>1 DEF Alone, t
  <2>4. RunningList(s)'
    <3>1. Chained(used_list', next', s) /\ Sorted(s, hwt_expires')
      BY <1>3, <2>1
    <3> QED
      BY <1>3, <2>1, <2>2, <2>3, <3>1 DEF RunningList
  <2>5. ClockTyped'
    BY <1>1, <1>4, <2>1 DEF ClockTyped
  <2>6. Bounded(hwt_expires', Now')
    BY <1>1, <1>4, <2>1, KeepBounds DEF TimersTyped
  <2>7. Queued' = Queued
    BY <1>3, <2>4, QueuedIs DEF RunningList
  <2>8. TimersInv'
    BY <1>1, <1>4, <2>1, <2>2, <2>4, <2>5, <2>6, UsedKeeps DEF TimersTyped
  <2> QED
    BY <2>1, <2>7, <2>8
<1> QED
  BY <1>5, <1>6

-------------------------------------------------------------------------------
(* The theorems of plain use *)

LEMMA InitTimers == Init => TimersInv
<1> SUFFICES ASSUME Init
             PROVE  TimersInv
  OBVIOUS
<1>1. /\ clock = 0 /\ match = 0 /\ irq = FALSE /\ has_alarm = FALSE /\ sched = FALSE
      /\ used_list = NULL /\ expired = NULL /\ cpu = "tasks"
      /\ flags = [t \in Timers |-> {}]
      /\ hwt_expires = [t \in Timers |-> 0] /\ sw_interval = [t \in Timers |-> 0]
  BY DEF Init
<1>2. PICK rank \in [Timers -> 1..Cardinality(Timers)] :
        /\ \A t, u \in Timers : t # u => rank[t] # rank[u]
        /\ free_list \in Timers /\ rank[free_list] = 1
        /\ next \in [Timers -> Timers \cup {NULL}]
        /\ \A t \in Timers :
             IF rank[t] = Cardinality(Timers)
               THEN next[t] = NULL
               ELSE next[t] \in Timers /\ rank[next[t]] = rank[t] + 1
  BY DEF Init
<1>3. FreeTimers = Timers
  BY <1>1 DEF FreeTimers
<1>4. FreeList
  <2>1. ASSUME NEW t \in Timers, next[t] # NULL
        PROVE  next[t] \in Timers /\ rank[next[t]] = rank[t] + 1 /\ rank[t] \in Nat \ {0}
    <3>1. Cardinality(Timers) \in Nat
      BY TimerAssumption, FS_CardinalityType
    <3> QED
      BY <1>2, <2>1, <3>1
  <2>2. ASSUME NEW t \in Timers, next[t] # NULL
        PROVE  /\ next[t] \in Timers /\ next[t] # free_list
               /\ \A u \in Timers : next[u] = next[t] => u = t
    <3>1. next[t] # free_list
      BY <1>2, <2>1, <2>2
    <3>2. ASSUME NEW u \in Timers, next[u] = next[t]
          PROVE  u = t
      <4>1. rank[u] + 1 = rank[t] + 1 /\ rank[u] \in Nat /\ rank[t] \in Nat
        BY <2>1, <2>2, <3>2
      <4>2. rank[u] = rank[t]
        BY <4>1
      <4> QED
        BY <1>2, <4>2
    <3> QED
      BY <2>1, <2>2, <3>1, <3>2
  <2> QED
    BY <1>2, <1>3, <2>2 DEF FreeList, FreeChain
<1>5. RunningList(<<>>)
  <2>1. Chained(used_list, next, <<>>)
    BY <1>1 DEF Chained
  <2>2. Sorted(<<>>, hwt_expires)
    BY DEF Sorted
  <2>3. Elements(<<>>) = {}
    BY DEF Elements
  <2> QED
    BY <1>1, <2>1, <2>2, <2>3 DEF RunningList
<1>6. TypeOK
  <2>1. ClockTyped
    <3>1. clock \in 0..MaxClock /\ match \in Nat
      BY <1>1, TimerAssumption
    <3>2. irq \in BOOLEAN /\ has_alarm \in BOOLEAN /\ sched \in BOOLEAN
      BY <1>1
    <3>3. cpu \in {"tasks", "isr", "callback"} /\ (expired # NULL <=> cpu = "callback")
      BY <1>1
    <3> QED
      BY <3>1, <3>2, <3>3 DEF ClockTyped
  <2>2. TimersTyped
    BY <1>1, <1>2 DEF TimersTyped, Links
  <2>3. Bounded(hwt_expires, Now)
    BY <1>1 DEF Bounded
  <2> QED
    BY <2>1, <2>2, <2>3, TypeParts
<1> QED
  BY <1>4, <1>5, <1>6 DEF TimersInv

LEMMA NextKeeps ==
  ASSUME PlainUse
  PROVE  TimersInv /\ [Next]_vars => TimersInv'
<1> SUFFICES ASSUME TimersInv, [Next]_vars
             PROVE  TimersInv'
  OBVIOUS
<1>1. CASE Client
  BY <1>1, CreateKeeps, StartKeeps, StopKeeps, DeleteKeeps DEF Client
<1>2. CASE Sched \/ ExpiryDone
  BY <1>2, AlarmKeeps
<1>3. CASE HandleExpired
  BY <1>3, ExpiredKeeps
<1>4. CASE CallbackReturns
  BY <1>4, ReturnKeeps
<1>5. CASE Tick \/ cc_rtc_isr \/ UNCHANGED vars
  BY <1>5, ClockKeeps
<1> QED
  BY <1>1, <1>2, <1>3, <1>4, <1>5 DEF Next

\* The invariant of plain use: the free list and the list of running timers share their
\* links without touching each other, and a periodic timer is alone.
THEOREM TimersInvariant ==
  ASSUME PlainUse
  PROVE  Spec => []TimersInv
<1>1. TimersInv /\ [Next]_vars => TimersInv'
  BY NextKeeps
<1> QED
  BY <1>1, InitTimers, PTL DEF Spec

\* In plain use every variable has its type, and no timer is ever set further ahead than
\* the time some client asked for (calc_hwt_expiry carries once).
THEOREM TypeCorrect ==
  ASSUME PlainUse
  PROVE  Spec => []TypeOK
<1>1. TimersInv => TypeOK
  BY DEF TimersInv
<1> QED
  BY <1>1, TimersInvariant, PTL

LEMMA RunningIsOrdered == TimersInv => ListOrdered
<1> SUFFICES ASSUME TimersInv
             PROVE  ListOrdered
  OBVIOUS
<1>1. PICK s : RunningList(s)
  BY DEF TimersInv
<1>2. /\ Chained(used_list, next, s) /\ Sorted(s, hwt_expires) /\ s \in Seq(Timers)
      /\ \A j, k \in 1..Len(s) : s[j] = s[k] => j = k
      /\ Elements(s) \cap FreeTimers = {} /\ Elements(s) \subseteq Timers
  <2>1. /\ Chained(used_list, next, s) /\ Sorted(s, hwt_expires)
        /\ Elements(s) \cap FreeTimers = {}
    BY <1>1 DEF RunningList
  <2>2. Elements(s) \subseteq Timers
    BY <2>1, FewElements
  <2> QED
    BY <2>1, <2>2 DEF Chained
<1>3. /\ Steps = 0..Cardinality(Timers) /\ Cardinality(Timers) \in Nat
      /\ Len(s) \in 0..Cardinality(Timers)
      /\ \A k \in Steps : Node[k] = IF k < Len(s) THEN s[k + 1] ELSE NULL
  BY <1>2, NodeIs
<1>4. ListEnds
  BY <1>3 DEF ListEnds
<1>5. ASSUME NEW j \in Steps, NEW k \in Steps, j < k, Node[k] # NULL
      PROVE  Node[j] # Node[k] /\ hwt_expires[Node[j]] <= hwt_expires[Node[k]]
  <2>1. /\ Node[j] = s[j + 1] /\ Node[k] = s[k + 1]
        /\ j + 1 \in 1..Len(s) /\ k + 1 \in 1..Len(s) /\ j + 1 <= k + 1 /\ j + 1 # k + 1
    BY <1>3, <1>5
  <2> QED
    BY <1>2, <2>1 DEF Sorted
<1>6. \A t \in Queued : "ALLOCATE" \in flags[t]
  BY <1>2, QueuedIs DEF FreeTimers
<1> QED
  BY <1>4, <1>5, <1>6 DEF ListOrdered

\* In plain use the list of running timers ends and is in order of expiry, whatever timers
\* are started, stopped, deleted and expire, from tasks and from callbacks: the walk of
\* insert_ordered_expiry and the loop of the interrupt come to an end.
THEOREM ListStaysOrdered ==
  ASSUME PlainUse
  PROVE  Spec => []ListOrdered
BY TimersInvariant, RunningIsOrdered, PTL

-------------------------------------------------------------------------------
(* The refinement *)

Due == [t \in Timers |-> IF t \in Queued THEN hwt_expires[t] ELSE None]

LEMMA DueIs ==
  ASSUME TimersInv
  PROVE  /\ Queued \subseteq Timers /\ \A t \in Queued : hwt_expires[t] \in Nat
         /\ TQ!Running = Queued
         /\ \A t \in Queued : Due[t] = hwt_expires[t]
<1>1. PICK s : RunningList(s)
  BY DEF TimersInv
<1>2. Queued \subseteq Timers
  BY <1>1, FewElements, QueuedIs DEF RunningList
<1>3. \A t \in Queued : hwt_expires[t] \in Nat
  BY <1>2, TypeParts DEF TimersInv, TimersTyped
<1>4. \A t \in Timers : Due[t] = IF t \in Queued THEN hwt_expires[t] ELSE None
  BY DEF Due
<1>5. TQ!Running = {t \in Timers : Due[t] # None}
  BY DEF TQ!Running, Due
<1>6. TQ!Running = Queued
  BY <1>2, <1>3, <1>4, <1>5, TimerAssumption
<1> QED
  BY <1>2, <1>3, <1>4, <1>6

\* A timer is put on the list.
LEMMA SetRefines ==
  ASSUME TimersInv, NEW t \in Timers, t \notin Queued, Queued' = Queued \cup {t},
         NEW at \in Nat, hwt_expires' = [hwt_expires EXCEPT ![t] = at]
  PROVE  TQ!Set(t)
<1>1. hwt_expires \in [Timers -> Nat] /\ t \notin TQ!Running
  BY TypeParts, DueIs DEF TimersInv, TimersTyped
<1>2. \A u \in Timers : Due'[u] = IF u = t THEN at ELSE Due[u]
  BY <1>1 DEF Due
<1>3. Due' = [Due EXCEPT ![t] = Due'[t]] /\ Due'[t] \in Nat
  <2>1. Due'[t] = at
    BY <1>2
  <2>2. Due = [u \in Timers |-> Due[u]] /\ Due' = [u \in Timers |-> Due'[u]]
    BY DEF Due
  <2> QED
    BY <1>2, <2>1, <2>2
<1> QED
  BY <1>1, <1>3 DEF TQ!Set, Due

\* A timer is taken off the list.
LEMMA ClearDue ==
  ASSUME TimersInv, NEW t \in Queued, Queued' = Queued \ {t},
         \A u \in Timers : u # t => hwt_expires'[u] = hwt_expires[u]
  PROVE  Due' = [Due EXCEPT ![t] = None]
<1>1. t \in Timers
  BY DueIs
<1>2. \A u \in Timers : Due'[u] = IF u = t THEN None ELSE Due[u]
  BY DEF Due
<1>3. Due = [u \in Timers |-> Due[u]] /\ Due' = [u \in Timers |-> Due'[u]]
  BY DEF Due
<1> QED
  BY <1>1, <1>2, <1>3

LEMMA NowKept == UNCHANGED clock => UNCHANGED Now
BY DEF Now, ToMs

\* Steps that neither start, stop nor expire a timer.
LEMMA StutterRefines ==
  ASSUME UNCHANGED <<clock, hwt_expires, expired>>, Queued' = Queued
  PROVE  UNCHANGED TQ!tqVars
<1>1. Due' = Due /\ Now' = Now
  BY NowKept DEF Due
<1> QED
  BY <1>1 DEF TQ!tqVars, Due

LEMMA StepRefines ==
  ASSUME PlainUse, TimersInv, [Next]_vars
  PROVE  [TQ!TQNext]_(TQ!tqVars)
<1>1. ASSUME NEW t \in Timers, NEW time \in Times, NEW absolute \in BOOLEAN,
             NEW periodic \in BOOLEAN, cc_timer_start(t, time, absolute, periodic)
      PROVE  TQ!Start(t)
  <2>1. UNCHANGED <<clock, expired>>
    BY <1>1 DEF cc_timer_start
  <2>2. /\ t \notin Queued /\ Queued' = Queued \cup {t}
        /\ \E at \in Nat : hwt_expires' = [hwt_expires EXCEPT ![t] = at]
    BY <1>1, StartKeeps
  <2>3. TQ!Set(t)
    BY <2>2, SetRefines
  <2> QED
    BY <2>1, <2>3, NowKept DEF TQ!Start
<1>2. ASSUME NEW t \in Timers, cc_timer_stop(t)
      PROVE  TQ!Stop(t)
  <2>1. /\ t \in Queued /\ UNCHANGED <<clock, expired>>
        /\ hwt_expires' = [hwt_expires EXCEPT ![t] = 0]
    BY <1>2 DEF cc_timer_stop, Remove
  <2>2. hwt_expires \in [Timers -> Nat]
    BY TypeParts DEF TimersInv, TimersTyped
  <2>3. Due' = [Due EXCEPT ![t] = None]
    BY <1>2, <2>1, <2>2, StopKeeps, ClearDue
  <2> QED
    BY <2>1, <2>3, DueIs, NowKept DEF TQ!Stop, Due
<1>3. ASSUME HandleExpired
      PROVE  TQ!Expire(used_list) /\ used_list \in Timers
  <2> DEFINE t == used_list
  <2>1. /\ expired' = t /\ clock' = clock /\ expired = NULL
        /\ hwt_expires' = [hwt_expires EXCEPT ![t] = 0]
        /\ ~(Now < hwt_expires[t])
    <3>1. expired = NULL
      BY <1>3, TypeParts DEF TimersInv, ClockTyped, HandleExpired, InLoop
    <3> QED
      BY <1>3, <3>1 DEF HandleExpired, Remove, HasExpired, Before
  <2>2. /\ t \in Queued /\ Queued' = Queued \ {t}
        /\ \A u \in Queued : hwt_expires[t] <= hwt_expires[u]
    BY <1>3, ExpiredKeeps
  <2>3. hwt_expires \in [Timers -> Nat] /\ t \in Timers /\ Now \in Nat /\ hwt_expires[t] \in Nat
    <3>1. hwt_expires \in [Timers -> Nat] /\ t \in Timers
      BY <2>2, TypeParts, DueIs DEF TimersInv, TimersTyped
    <3>2. Now \in Nat
      BY TypeParts, TimesConvert, TimerAssumption DEF TimersInv, ClockTyped, Now
    <3> QED
      BY <3>1, <3>2
  <2> HIDE DEF t
  <2>4. Due' = [Due EXCEPT ![t] = None]
    BY <2>1, <2>2, <2>3, ClearDue
  <2>5. hwt_expires[t] <= Now
    BY <2>1, <2>3
  <2>6. /\ t \in TQ!Running /\ Due[t] <= Now
        /\ \A u \in TQ!Running : Due[t] <= Due[u]
    BY <2>2, <2>5, DueIs
  <2>7. TQ!Expire(t)
    BY <2>1, <2>4, <2>6, NowKept DEF TQ!Expire, Due
  <2> QED
    BY <2>3, <2>7 DEF t
<1>4. ASSUME CallbackReturns
      PROVE  TQ!Return
  <2>1. /\ expired' = NULL /\ clock' = clock /\ expired # NULL /\ expired \in Timers
    BY <1>4, TypeParts DEF TimersInv, ClockTyped, TimersTyped, CallbackReturns
  <2>2. \/ Queued' = Queued /\ hwt_expires' = hwt_expires
        \/ /\ expired \notin Queued /\ Queued' = Queued \cup {expired}
           /\ \E at \in Nat : hwt_expires' = [hwt_expires EXCEPT ![expired] = at]
    BY <1>4, ReturnKeeps
  <2>3. Due' = Due \/ TQ!Set(expired)
    <3>1. CASE Queued' = Queued /\ hwt_expires' = hwt_expires
      BY <3>1 DEF Due
    <3>2. CASE /\ expired \notin Queued /\ Queued' = Queued \cup {expired}
               /\ \E at \in Nat : hwt_expires' = [hwt_expires EXCEPT ![expired] = at]
      <4>1. PICK t \in Timers : t = expired
        BY <2>1
      <4>2. PICK at \in Nat : hwt_expires' = [hwt_expires EXCEPT ![t] = at]
        BY <3>2, <4>1
      <4>3. t \notin Queued /\ Queued' = Queued \cup {t}
        BY <3>2, <4>1
      <4>4. TQ!Set(t)
        BY <4>2, <4>3, SetRefines
      <4> QED
        BY <4>1, <4>4 DEF TQ!Set
    <3> QED
      BY <2>2, <3>1, <3>2
  <2> QED
    BY <2>1, <2>3, NowKept DEF TQ!Return, Due
<1>5. ASSUME Tick
      PROVE  TQ!Advance \/ UNCHANGED TQ!tqVars
  <2>1. /\ clock \in Nat /\ clock' = clock + 1
        /\ UNCHANGED <<hwt_expires, expired>> /\ Queued' = Queued
    <3>1. clock \in Nat
      BY TypeParts, TimerAssumption DEF TimersInv, ClockTyped
    <3> QED
      BY <1>5, <3>1, ClockKeeps DEF Tick, listVars
  <2>2. Now \in Nat /\ Now' \in Nat /\ Now <= Now'
    <3>1. Now = ToMs(clock) /\ Now' = ToMs(clock + 1)
      BY <2>1 DEF Now, ToMs
    <3> QED
      BY <2>1, <3>1, TimesConvert, ClockAdvances
  <2>3. Due' = Due
    BY <2>1 DEF Due
  <2> QED
    BY <2>1, <2>2, <2>3 DEF TQ!Advance, TQ!tqVars, Due
<1>6. ASSUME cc_rtc_isr \/ UNCHANGED vars
      PROVE  UNCHANGED TQ!tqVars
  <2>1. UNCHANGED <<clock, hwt_expires, expired>>
    BY <1>6 DEF cc_rtc_isr, vars, listVars
  <2> QED
    BY <1>6, <2>1, ClockKeeps, StutterRefines
<1>7. ASSUME Sched \/ ExpiryDone
      PROVE  UNCHANGED TQ!tqVars
  <2>1. UNCHANGED <<clock, hwt_expires, expired>>
    BY <1>7 DEF Sched, ExpiryDone
  <2> QED
    BY <1>7, <2>1, AlarmKeeps, StutterRefines
<1>8. ASSUME cc_timer_create
      PROVE  UNCHANGED TQ!tqVars
  <2>1. UNCHANGED <<clock, hwt_expires, expired>>
    BY <1>8 DEF cc_timer_create
  <2> QED
    BY <1>8, <2>1, CreateKeeps, StutterRefines
<1>9. ASSUME NEW t \in Timers, cc_timer_delete(t)
      PROVE  UNCHANGED TQ!tqVars
  <2>1. UNCHANGED <<clock, hwt_expires, expired>>
    BY <1>9 DEF cc_timer_delete
  <2> QED
    BY <1>9, <2>1, DeleteKeeps, StutterRefines
<1>10. CASE Client
  <2>1. CASE \E t \in Timers : \/ cc_timer_stop(t)
                              \/ \E time \in Times, absolute, periodic \in BOOLEAN :
                                   cc_timer_start(t, time, absolute, periodic)
    BY <1>1, <1>2, <2>1 DEF TQ!TQNext
  <2>2. CASE cc_timer_create \/ \E t \in Timers : cc_timer_delete(t)
    BY <1>8, <1>9, <2>2
  <2> QED
    BY <1>10, <2>1, <2>2 DEF Client
<1>11. CASE HandleExpired
  <2>1. PICK t \in Timers : t = used_list
    BY <1>3, <1>11
  <2>2. TQ!Expire(t)
    BY <1>3, <1>11, <2>1 DEF TQ!Expire
  <2> QED
    BY <2>2 DEF TQ!TQNext
<1>12. CASE Tick
  BY <1>5, <1>12 DEF TQ!TQNext
<1>13. CASE CallbackReturns
  BY <1>4, <1>13 DEF TQ!TQNext
<1> QED
  BY <1>6, <1>7, <1>10, <1>11, <1>12, <1>13 DEF Next

\* In plain use the timers implement TimerQueue: a timer expires once for each start, not
\* before its time, and not before another that is due earlier.
THEOREM TimersImplementQueue ==
  ASSUME PlainUse
  PROVE  Spec => ImplementsQueue
<1>1. Init => TQ!TQInit
  <2> SUFFICES ASSUME Init
               PROVE  TQ!TQInit
    OBVIOUS
  <2>1. TimersInv /\ expired = NULL /\ clock = 0 /\ used_list = NULL
    BY InitTimers DEF Init
  <2>2. Queued = {}
    <3>1. PICK s : RunningList(s)
      BY <2>1 DEF TimersInv
    <3>2. Chained(used_list, next, s)
      BY <3>1 DEF RunningList
    <3>3. Elements(s) = {}
      BY <2>1, <3>2, FewElements, TimerAssumption
    <3> QED
      BY <3>2, <3>3, QueuedIs
  <2>3. Due = [t \in Timers |-> None]
    BY <2>2 DEF Due
  <2>4. Now \in Nat
    BY <2>1, TimesConvert DEF Now
  <2> QED
    BY <2>1, <2>3, <2>4 DEF TQ!TQInit, Due
<1>2. TimersInv /\ [Next]_vars => [TQ!TQNext]_(TQ!tqVars)
  BY StepRefines
<1> QED
  BY <1>1, <1>2, TimersInvariant, PTL DEF Spec, ImplementsQueue, TQ!TQSpec
===============================================================================
