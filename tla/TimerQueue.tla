------------------------------ MODULE TimerQueue -------------------------------
(* What the software timers promise their clients: a started timer expires    *)
(* when its time has come, once, and no timer expires before one that is due  *)
(* earlier. Nothing is said here about lists, flags or the alarm.             *)
EXTENDS Naturals

CONSTANTS Timers,
          None,         \* the time of a timer that is not running
          NULL          \* no timer

VARIABLES now,          \* the clock, in milliseconds
          due,          \* when each running timer expires
          calling       \* the timer whose client is being called

tqVars == <<now, due, calling>>

Running == {t \in Timers : due[t] # None}

TQInit == now \in Nat /\ due = [t \in Timers |-> None] /\ calling = NULL

Set(t) ==
  /\ t \notin Running
  /\ due'[t] \in Nat
  /\ due' = [due EXCEPT ![t] = due'[t]]

Start(t) == Set(t) /\ UNCHANGED <<now, calling>>

Stop(t) ==
  /\ t \in Running
  /\ due' = [due EXCEPT ![t] = None]
  /\ UNCHANGED <<now, calling>>

\* The client of the running timer that is due first is called.
Expire(t) ==
  /\ calling = NULL
  /\ t \in Running
  /\ due[t] <= now
  /\ \A u \in Running : due[t] <= due[u]
  /\ due' = [due EXCEPT ![t] = None]
  /\ calling' = t
  /\ UNCHANGED now

\* The call ends; the timer may run again from here.
Return ==
  /\ calling # NULL
  /\ calling' = NULL
  /\ UNCHANGED due \/ Set(calling)
  /\ UNCHANGED now

Advance == now' > now /\ UNCHANGED <<due, calling>>

TQNext == Advance \/ Return \/ \E t \in Timers : Start(t) \/ Stop(t) \/ Expire(t)

TQSpec == TQInit /\ [][TQNext]_tqVars
================================================================================
