-------------------------------- MODULE CcTimer --------------------------------
(* The software timers of the middleware: src/middleware/framework/timer/     *)
(* cc_timer.c on top of the real-time clock, src/middleware/driver/hal/       *)
(* rtc_hal.c, which is the hardware timer of every client in the repository.  *)
(*                                                                            *)
(* A started timer is on used_list, in the order of expiry. One alarm of the  *)
(* clock serves the head of the list. The interrupt takes every expired timer *)
(* off the list, calls its client and puts it back if it is periodic.         *)
(*                                                                            *)
(* The framework counts in milliseconds (Ms to a second), the clock in cycles *)
(* (Cycles to a second, 1024 in the driver); the two conversions round down.  *)
(*                                                                            *)
(* Calls run with interrupts masked: they are atomic towards the interrupt,   *)
(* but the clock runs on between its reading and the setting of the alarm.    *)
EXTENDS Integers, FiniteSets

CONSTANTS Timers,       \* sw_timers (MAX_SW_TIMER is 6)
          NULL,         \* no timer
          None,         \* no time
          Ms,           \* milliseconds of a second
          Cycles,       \* cycles of the clock in a second
          Times,        \* the times clients ask for
          Habits,       \* what clients do beside the plain use, see MayStart
          Prompt,       \* the clock never moves during a call
          MaxClock      \* bound: the clock stops here

ASSUMPTION TimerAssumption ==
  /\ Ms \in Nat \ {0} /\ Cycles \in Nat \ {0} /\ MaxClock \in Nat
  /\ Times \subseteq Nat
  /\ Habits \subseteq {"restart", "queued"} /\ Prompt \in BOOLEAN
  /\ IsFiniteSet(Timers) /\ NULL \notin Timers /\ None \notin Nat

VARIABLES
  clock,        \* the slow clock counter, in cycles
  match,        \* its match value
  irq,          \* the counter has met the match value
  has_alarm,    \* rtc->has_alarm; the interrupt is enabled with it
  used_list, free_list,   \* heads of the lists
  next,         \* the link of both lists
  flags,        \* subset of {"ALLOCATE", "HW_SCHED", "PERIODIC"}
  hwt_expires,  \* of the timers on used_list; 0 where nothing reads it
  sw_interval,  \* of the periodic timers; 0 where nothing reads it
  cpu,          \* "tasks", "isr" or "callback"
  expired,      \* the timer whose callback runs
  sched         \* a call is about to reach sched_timer_if_new

rtcVars == <<match, has_alarm>>
listVars == <<used_list, free_list, next, flags, hwt_expires, sw_interval>>
vars == <<clock, irq, rtcVars, listVars, cpu, expired, sched>>

-------------------------------------------------------------------------------
(* The real-time clock. *)

\* rtc_value_rd: the second and the cycles in it, the cycles as milliseconds.
ToMs(c) == (c \div Cycles) * Ms + ((c % Cycles) * Ms) \div Cycles

\* rtc_alarm_wr
ToCycles(t) == (t \div Ms) * Cycles + ((t % Ms) * Cycles) \div Ms

Now == ToMs(clock)

\* is_valid_alarm: seconds are compared, with a borrow where the rest is not
\* greater.
IsValidAlarm(t) == t > Now

\* set_alarm under setup_alarm, which reports success when the alarm is
\* refused.
SetAlarm(t) ==
  IF IsValidAlarm(t)
    THEN match' = ToCycles(t) /\ has_alarm' = TRUE
    ELSE UNCHANGED rtcVars

-------------------------------------------------------------------------------
(* The lists. *)

\* The node that a walk along used_list meets after k steps.
Node ==
  LET N[k \in 0..Cardinality(Timers)] ==
        IF k = 0 THEN used_list
        ELSE IF N[k - 1] = NULL THEN NULL ELSE next[N[k - 1]]
  IN N

Steps == DOMAIN Node
Queued == {Node[k] : k \in Steps} \ {NULL}

\* Mutant: the seconds are left out.
BeforeInSecond(t, u) == t % Ms < u % Ms

\* cmp_u64(..) < 0
Before(t, u) == t < u

\* Mutant: the carry is in the sum and added again.
ExpiryCarriedTwice(interval) ==
  Now + interval + (IF (Now % Ms) + (interval % Ms) >= Ms THEN Ms ELSE 0)

\* calc_hwt_expiry: the seconds and the rest of the second, with a carry.
Expiry(interval) == Now + interval

\* Mutant: the displaced head keeps its mark.
DisplacedMarked(fl, node) == fl

\* The flags when node is no longer the head.
Displaced(fl, node) == [fl EXCEPT ![node] = @ \ {"HW_SCHED"}]

\* insert_ordered_expiry. The link of an element put at the end, or into an
\* empty list, is left as it is. On a list without an end that holds nothing
\* later the walk never ends, and neither does the step.
Linked(t, node) == IF node = NULL THEN next ELSE [next EXCEPT ![t] = node]

InsertFirst(t, fl) ==
  /\ used_list' = t
  /\ next' = Linked(t, used_list)
  /\ flags' = IF used_list = NULL THEN fl ELSE Displaced(fl, used_list)

InsertBefore(t, k, fl) ==
  /\ \E node \in Timers \cup {NULL} :
       /\ Node[k] = node
       /\ next' = [Linked(t, node) EXCEPT ![Node[k - 1]] = t]
  /\ flags' = fl
  /\ UNCHANGED used_list

Insert(t, fl) ==
  LET Stops(node) == node # NULL => Before(hwt_expires'[t], hwt_expires'[node])
  IN IF Stops(used_list)
       THEN InsertFirst(t, fl)
       ELSE \E k \in Steps \ {0} :
              /\ Stops(Node[k])
              /\ \A j \in 1..(k - 1) : ~Stops(Node[j])
              /\ InsertBefore(t, k, fl)

\* remove_elem of a timer that is on the list; its own link stays.
Remove(t) ==
  /\ hwt_expires' = [hwt_expires EXCEPT ![t] = 0]
  /\ IF t = used_list
       THEN used_list' = next[t] /\ UNCHANGED next
       ELSE /\ UNCHANGED used_list
            /\ \E k \in Steps \ {0} :
                 /\ Node[k] = t
                 /\ \A j \in 1..(k - 1) : Node[j] # t
                 /\ next' = [next EXCEPT ![Node[k - 1]] = next[t]]

\* sched_timer_if_new, the clock being running or not: hwt64_update_alarm and
\* hwt64_create_alarm do the same and return 0.
SchedTimerIfNew(head, fl) ==
  IF "HW_SCHED" \in fl[head]
    THEN flags' = fl /\ UNCHANGED rtcVars
    ELSE /\ SetAlarm(hwt_expires[head])
         /\ flags' = [fl EXCEPT ![head] = @ \cup {"HW_SCHED"}]

IsAllocOnly(t) == flags[t] = {"ALLOCATE"}
HasStarted(t) == "ALLOCATE" \in flags[t] /\ ~IsAllocOnly(t)

\* setup_timer_exec up to sched_timer_if_new, which is Sched below.
SetupTimerExec(t, at, fl) ==
  /\ hwt_expires' = [hwt_expires EXCEPT ![t] = at]
  /\ Insert(t, fl)
  /\ sched' = TRUE

-------------------------------------------------------------------------------
(* The calls of the clients, tasks or callbacks. *)

\* A client may call: no interrupt handler and no other call is running.
Callable == cpu \in {"tasks", "callback"} /\ ~sched

PeriodicOn == \E t \in Queued \cup {expired} : t # NULL /\ "PERIODIC" \in flags[t]

\* What clients do. In plain use a timer is started when it is not running and
\* leads nowhere: it is new, or it was the last of the list when it left it. A
\* periodic timer is started by a task and has the clock for itself, as in the
\* repository's examples. With the habit "restart" any timer that does not run
\* is started; with "queued" one that runs is also started again, or deleted.
MayStart(t, periodic) ==
  /\ t \in Queued => "queued" \in Habits
  /\ \/ "restart" \in Habits
     \/ /\ next[t] = NULL \/ t \in Queued
        /\ ~PeriodicOn
        /\ periodic => Queued = {} /\ cpu = "tasks"

MayDelete(t) == t \in Queued => "queued" \in Habits

cc_timer_create ==
  /\ Callable
  /\ free_list # NULL
  /\ free_list' = next[free_list]
  /\ next' = [next EXCEPT ![free_list] = NULL]
  /\ flags' = [flags EXCEPT ![free_list] = {"ALLOCATE"}]
  /\ UNCHANGED <<clock, irq, rtcVars, used_list, hwt_expires, sw_interval,
                 cpu, expired, sched>>

\* With OPT_TIME_ABS_VALUE the time is the expiry itself, and such a timer is
\* never periodic. The code sets the flag PERIODIC after the alarm, still with
\* interrupts masked.
cc_timer_start(t, time, absolute, periodic) ==
  /\ Callable /\ MayStart(t, periodic)
  /\ ~(absolute /\ periodic)
  /\ IsAllocOnly(t)
  /\ sw_interval' = [sw_interval EXCEPT ![t] = IF periodic THEN time ELSE 0]
  /\ SetupTimerExec(t, IF absolute THEN time ELSE Expiry(time),
                    IF periodic THEN [flags EXCEPT ![t] = @ \cup {"PERIODIC"}]
                                ELSE flags)
  /\ UNCHANGED <<clock, irq, rtcVars, free_list, cpu, expired>>

\* The end of setup_timer_exec; the clock may have moved since it was read.
Sched ==
  /\ sched
  /\ SchedTimerIfNew(used_list, flags)
  /\ sched' = FALSE
  /\ UNCHANGED <<clock, irq, used_list, free_list, next, hwt_expires,
                 sw_interval, cpu, expired>>

\* Stops only what has a flag beside ALLOCATE: the head of the list and
\* periodic timers. For any other timer the call fails and changes nothing.
cc_timer_stop(t) ==
  /\ Callable
  /\ HasStarted(t) /\ t \in Queued
  /\ Remove(t)
  /\ LET fl == [flags EXCEPT ![t] = @ \ {"HW_SCHED", "PERIODIC"}]
     IN IF used_list' # NULL
          THEN SchedTimerIfNew(used_list', fl)
          ELSE flags' = fl /\ has_alarm' = FALSE /\ UNCHANGED match
  /\ sw_interval' = [sw_interval EXCEPT ![t] = 0]
  /\ UNCHANGED <<clock, irq, free_list, cpu, expired, sched>>

\* The flags are tested and cleared before interrupts are masked; a client that
\* starts the timer in another task meanwhile is not modelled.
cc_timer_delete(t) ==
  /\ Callable /\ MayDelete(t)
  /\ IsAllocOnly(t)
  /\ flags' = [flags EXCEPT ![t] = {}]
  /\ next' = [next EXCEPT ![t] = free_list]
  /\ free_list' = t
  /\ UNCHANGED <<clock, irq, rtcVars, used_list, hwt_expires, sw_interval,
                 cpu, expired, sched>>

-------------------------------------------------------------------------------
(* The clock and its interrupt. *)

\* External: the counter raises the interrupt when it meets the match value.
Tick ==
  /\ clock < MaxClock
  /\ Prompt => ~sched
  /\ clock' = clock + 1
  /\ irq' = (irq \/ (has_alarm /\ clock' = match))
  /\ UNCHANGED <<rtcVars, listVars, cpu, expired, sched>>

\* cc_rtc_isr up to the call of timer_isr. An interrupt for an alarm that was
\* cleared, or changed to a later time, is ignored.
cc_rtc_isr ==
  /\ irq /\ cpu = "tasks" /\ ~sched
  /\ irq' = FALSE
  /\ IF has_alarm /\ ~IsValidAlarm(ToMs(match))
       THEN has_alarm' = FALSE /\ cpu' = "isr"
       ELSE UNCHANGED <<has_alarm, cpu>>
  /\ UNCHANGED <<clock, match, listVars, expired, sched>>

InLoop == cpu = "isr" /\ ~sched
\* Mutant: a millisecond early.
HasExpiredEarly(t) == ~Before(Now + 1, hwt_expires[t])

HasExpired(t) == ~Before(Now, hwt_expires[t])

\* One turn of process_timer_expiry: the head leaves the list and its client is
\* called.
HandleExpired ==
  /\ InLoop
  /\ used_list # NULL /\ HasExpired(used_list)
  /\ Remove(used_list)
  /\ flags' = [flags EXCEPT ![used_list] = @ \ {"HW_SCHED"}]
  /\ cpu' = "callback" /\ expired' = used_list
  /\ UNCHANGED <<clock, irq, rtcVars, free_list, sw_interval, sched>>

\* The callback has returned: a periodic timer is put back.
CallbackReturns ==
  /\ cpu = "callback" /\ ~sched
  /\ cpu' = "isr" /\ expired' = NULL
  /\ IF "PERIODIC" \in flags[expired]
       THEN SetupTimerExec(expired, Expiry(sw_interval[expired]), flags)
       ELSE UNCHANGED <<used_list, next, flags, hwt_expires, sched>>
  /\ UNCHANGED <<clock, irq, rtcVars, free_list, sw_interval>>

\* The end of process_timer_expiry. The head has not expired: it gets the
\* alarm, unless it is marked as having it.
ExpiryDone ==
  /\ InLoop
  /\ cpu' = "tasks"
  /\ \/ /\ used_list # NULL /\ ~HasExpired(used_list)
        /\ SchedTimerIfNew(used_list, flags)
     \/ /\ used_list = NULL
        /\ has_alarm' = FALSE
        /\ UNCHANGED <<match, flags>>
  /\ UNCHANGED <<clock, irq, used_list, free_list, next, hwt_expires,
                 sw_interval, expired, sched>>

-------------------------------------------------------------------------------
\* sw_timers_init chains all timers on the free list.
Init ==
  /\ clock = 0 /\ match = 0 /\ irq = FALSE /\ has_alarm = FALSE
  /\ used_list = NULL
  /\ \E rank \in [Timers -> 1..Cardinality(Timers)] :
       /\ \A t, u \in Timers : t # u => rank[t] # rank[u]
       /\ free_list \in Timers /\ rank[free_list] = 1
       /\ next \in [Timers -> Timers \cup {NULL}]
       /\ \A t \in Timers :
            IF rank[t] = Cardinality(Timers)
              THEN next[t] = NULL
              ELSE next[t] \in Timers /\ rank[next[t]] = rank[t] + 1
  /\ flags = [t \in Timers |-> {}]
  /\ hwt_expires = [t \in Timers |-> 0]
  /\ sw_interval = [t \in Timers |-> 0]
  /\ cpu = "tasks" /\ expired = NULL /\ sched = FALSE

Client ==
  \/ cc_timer_create
  \/ \E t \in Timers :
       \/ \E time \in Times, absolute, periodic \in BOOLEAN :
            cc_timer_start(t, time, absolute, periodic)
       \/ cc_timer_stop(t)
       \/ cc_timer_delete(t)

Next ==
  \/ Client \/ Sched
  \/ Tick \/ cc_rtc_isr \/ HandleExpired \/ CallbackReturns \/ ExpiryDone

Spec == Init /\ [][Next]_vars

-------------------------------------------------------------------------------
(* Properties. *)

\* Every variable has its type. No timer is set further ahead of the clock than
\* a time that a client may ask for: a sum of seconds and rest that carries
\* wrongly is.
TypeOK ==
  /\ clock \in 0..MaxClock /\ match \in Nat
  /\ irq \in BOOLEAN /\ has_alarm \in BOOLEAN /\ sched \in BOOLEAN
  /\ {used_list, free_list, expired} \subseteq Timers \cup {NULL}
  /\ next \in [Timers -> Timers \cup {NULL}]
  /\ flags \in [Timers -> SUBSET {"ALLOCATE", "HW_SCHED", "PERIODIC"}]
  /\ hwt_expires \in [Timers -> Nat] /\ sw_interval \in [Timers -> Times \cup {0}]
  /\ \A t \in Timers : hwt_expires[t] > 0 => \E d \in Times : hwt_expires[t] <= Now + d
  /\ cpu \in {"tasks", "isr", "callback"} /\ (expired # NULL <=> cpu = "callback")

\* The list of running timers ends, in order of expiry: the walk that inserts a
\* timer, and the interrupt's loop over the expired ones, meet every timer once
\* ("Farthest in time for schedule", cc_timer.c:436, is the last one).
ListEnds == Node[Cardinality(Timers)] = NULL

ListOrdered ==
  /\ ListEnds
  /\ \A j, k \in Steps : j < k /\ Node[k] # NULL =>
       /\ Node[j] # Node[k]
       /\ hwt_expires[Node[j]] <= hwt_expires[Node[k]]
  /\ \A t \in Queued : "ALLOCATE" \in flags[t]

\* Only the head of the list is marked as having the alarm: another timer so
\* marked would get none when it becomes the head (sched_timer_if_new).
ScheduledIsHead ==
  \A t \in Timers : "HW_SCHED" \in flags[t] => t = used_list

\* When the interrupt is done, timers that still run have an alarm. cc_rtc_isr
\* takes the alarm off and says that it "is about to be processed"
\* (rtc_hal.c:427). The interrupt may come when the clock, read in rounded
\* milliseconds, is still before the head's time.
AlarmAfterInterrupt ==
  [][cpu = "isr" /\ cpu' = "tasks" /\ used_list' # NULL => has_alarm']_vars

\* The timers keep the promise of TimerQueue.
TQ == INSTANCE TimerQueue WITH
        now <- Now,
        due <- [t \in Timers |-> IF t \in Queued THEN hwt_expires[t] ELSE None],
        calling <- expired

ImplementsQueue == TQ!TQSpec
================================================================================
