------------------------------- MODULE FileCopy -------------------------------
(***************************************************************************)
(* What a TFTP transfer promises (tftp.h): the file arrives in order, a    *)
(* segment at a time; the caller is told of success only when all of it    *)
(* has arrived, and that its buffer was too small only when it was.        *)
(***************************************************************************)
EXTENDS Naturals

CONSTANT SEGSIZE      \* bytes of a segment

VARIABLES
  fileSize,           \* bytes of the file
  room,               \* bytes the receiver of the file can keep
  copied,             \* bytes that have arrived, kept or not
  outcome             \* "running", or what the call returned

vars == <<fileSize, room, copied, outcome>>

Success == IF room < fileSize THEN "short" ELSE "whole"
Errors == {"socket", "failed", "reply"}

Init ==
  /\ fileSize \in Nat
  /\ room \in Nat
  /\ copied = 0
  /\ outcome = "running"

\* A segment arrives, or nothing does; with the file complete the call may return.
Proceed ==
  /\ outcome = "running"
  /\ copied' \in copied .. copied + SEGSIZE
  /\ copied' <= fileSize
  /\ \/ outcome' \in {"running"} \cup Errors
     \/ copied' = fileSize /\ outcome' = Success
  /\ UNCHANGED <<fileSize, room>>

\* A segment that was sent before the call gave up still arrives.
Late ==
  /\ outcome \in Errors
  /\ copied' \in copied .. copied + SEGSIZE
  /\ copied' <= fileSize
  /\ UNCHANGED <<fileSize, room, outcome>>

Next == Proceed \/ Late

Spec == Init /\ [][Next]_vars
===============================================================================
