------------------------------ MODULE MCSlObjPool ------------------------------
(* SlObjPool for TLC.                                                          *)
EXTENDS SlObjPool

Recv(sd, v6) == [action |-> "RECV", sd |-> sd, v6 |-> v6]
Accept(sd) == [action |-> "ACCEPT", sd |-> sd, v6 |-> FALSE]
Connect(sd) == [action |-> "CONNECT", sd |-> sd, v6 |-> FALSE]
Dns(v6) == [action |-> "GETHOSTBYNAME", sd |-> SL_MAX_SOCKETS, v6 |-> v6]

Service(v6) == [action |-> "GETHOSTBYSERVICE", sd |-> SL_MAX_SOCKETS, v6 |-> v6]

\* One kind of call per socket.
OneKindOps == {Recv(0, TRUE), Accept(1), Dns(TRUE), Service(FALSE), Ping}
\* One task reads a socket that another connects.
MixedOps == {Recv(0, FALSE), Connect(0)}

\* The opcode of an answer on another socket.
AcceptOpcode == {AsyncOpcode(Accept(1))}
\* No opcode at all.
NoOobOpcode == {[action |-> NoAction, v6 |-> FALSE]}
===============================================================================
