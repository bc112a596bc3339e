-------------------------------- MODULE SlRpc --------------------------------
(***************************************************************************)
(* What the host driver promises an application thread that issues a       *)
(* SimpleLink command: the network processor executes the commands of all  *)
(* threads one at a time, each call gets the answer to its own command,    *)
(* and no call returns before it has been answered.  SlDriver implements   *)
(* this specification.                                                     *)
(***************************************************************************)
CONSTANT Threads    \* the application tasks that call the sl_xxx functions

VARIABLE phase      \* how far the call of each thread has come

Phases == {"idle", "calling", "executing", "answered"}

InService(t) == phase[t] \in {"executing", "answered"}

Init == phase = [t \in Threads |-> "idle"]

\* The thread calls a command function.
Issue(t) ==
  /\ phase[t] = "idle"
  /\ phase' = [phase EXCEPT ![t] = "calling"]

\* Its command is taken up: no other command is in service.
Execute(t) ==
  /\ phase[t] = "calling"
  /\ \A u \in Threads : ~ InService(u)
  /\ phase' = [phase EXCEPT ![t] = "executing"]

\* The answer to this very command reaches the thread's buffer.
Answer(t) ==
  /\ phase[t] = "executing"
  /\ phase' = [phase EXCEPT ![t] = "answered"]

Return(t) ==
  /\ phase[t] = "answered"
  /\ phase' = [phase EXCEPT ![t] = "idle"]

Next == \E t \in Threads : Issue(t) \/ Execute(t) \/ Answer(t) \/ Return(t)

Spec == Init /\ [][Next]_phase

\* A command that is taken up is answered and its call returns.
FairSpec ==
  /\ Spec
  /\ \A t \in Threads : WF_phase(Answer(t)) /\ WF_phase(Return(t))
==============================================================================
