------------------------------ MODULE MCSlDriver ------------------------------
(* SlDriver for TLC: two application tasks, interchangeable when both use the *)
(* relay mode or neither does.                                                *)
EXTENDS SlDriver, TLC

AllEvents == {"ASYNC", "TOKEN"}
TaskSymmetry == Permutations(Threads)

PlainEvents == {"ASYNC", "RECV"}
===============================================================================
