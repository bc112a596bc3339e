------------------------------ MODULE MCSlFlowCont ------------------------------
(* SlFlowCont for TLC.                                                          *)
EXTENDS SlFlowCont

LowerSocket == {0}
=================================================================================
