-------------------------------- MODULE MCTftp --------------------------------
(* Tftp for TLC.                                                               *)
EXTENDS Tftp

\* Packets of another host: a block of another file, an acknowledgement.
OtherHost == {From("other", 0, DATA(1, Part(100, SEGSIZE))), From("other", 0, ACK(1))}
===============================================================================
