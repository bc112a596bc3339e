------------------------------ MODULE MCSlNonOs ------------------------------
(* SlNonOs for TLC: the application, and nothing that is interchangeable.     *)
EXTENDS SlNonOs
===============================================================================
