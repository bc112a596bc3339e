--------------------------------- MODULE Tftp ---------------------------------
(***************************************************************************)
(* The TFTP client (netapps/tftp/client/tftp.c) on a network that loses,   *)
(* delays, reorders and duplicates packets, with a server that may open a  *)
(* session for every copy of a request and with packets of other hosts.    *)
(*                                                                         *)
(* The network keeps every packet.  A packet that is lost is one that is   *)
(* never delivered; one that is delivered twice is a duplicate, or what    *)
(* the server sent again.                                                  *)
(*                                                                         *)
(* A byte of the file is its position, so a part of the file is where it   *)
(* starts and how long it is.  PacketBuffer is used for both directions;   *)
(* of what it holds only the opcode is read again, by tftpReSync.          *)
(***************************************************************************)
EXTENDS Integers, Sequences

CONSTANTS
  Tids,             \* the ports the server uses for its sessions
  PORT_TFTP,        \* the port of requests
  SEGSIZE,          \* bytes of a full DATA packet
  BlockMod,         \* block numbers are modulo this, 2^16
  MAX_SYNC_TRIES,
  FileSizes,        \* sizes of the file on the server
  BufferSizes,      \* sizes of the caller's buffer
  Strays            \* packets from other hosts

Opcodes == {"RRQ", "WRQ", "DATA", "ACK", "ERROR"}

ASSUME TftpAssumption ==
  /\ PORT_TFTP \notin Tids
  /\ SEGSIZE \in Nat \ {0}
  /\ BlockMod \in Nat
  /\ MAX_SYNC_TRIES \in Nat \ {0}
  /\ FileSizes \subseteq Nat /\ BufferSizes \subseteq Nat
  /\ \A q \in Strays : q.host # "server" /\ q.p.op \in Opcodes
  \* The block number does not wrap: below 32 megabytes.
  /\ \A n \in FileSizes \cup BufferSizes : n < (BlockMod - 2) * SEGSIZE

TFTP_HEADER == 4

VARIABLES
  mode,             \* "recv" (sl_TftpRecv) or "send" (sl_TftpSend)
  FileLen,          \* the size of the file on the server (recv)
  BufferSize,       \* the size of the caller's buffer, on a send of the file
  result,           \* "idle", "running", or what the call returned
  opcode,           \* in PacketBuffer
  NextBlock, MaxSyncError, peerPort,
  buffer,           \* recv: the parts of the file written to the caller's buffer
  BufferUsed, FileSize,
  session,          \* of the server, one per port
  stored,           \* send: the parts of the file a session has stored
  toServer, toClient

call == <<mode, FileLen, BufferSize>>
client == <<result, opcode, NextBlock, MaxSyncError, peerPort, buffer, BufferUsed,
            FileSize>>
server == <<session, stored, toClient>>
vars == <<call, client, server, toServer>>

Smaller(a, b) == IF a < b THEN a ELSE b

\* Where block n of a file starts, and what it holds in a file of `size' bytes.
Offset(n) == (n - 1) * SEGSIZE
Part(first, size) == [first |-> first, size |-> size]
Segment(n, size) == Part(Offset(n), Smaller(SEGSIZE, size - Offset(n)))

Packet(op, block, data) == [op |-> op, block |-> block, data |-> data]
From(host, port, p) == [host |-> host, port |-> port, p |-> p]
To(port, p) == [port |-> port, p |-> p]
NoData == Part(0, 0)

Errors == {"socket", "failed", "reply"}
NoSession == [state |-> "idle", block |-> 0]

Init ==
  /\ mode \in {"recv", "send"}
  /\ FileLen \in FileSizes
  /\ BufferSize \in BufferSizes
  /\ result = "idle"
  /\ opcode = "none"
  /\ NextBlock = 0 /\ MaxSyncError = 0
  /\ peerPort = PORT_TFTP
  /\ buffer = <<>> /\ BufferUsed = 0 /\ FileSize = 0
  /\ session = [t \in Tids |-> NoSession]
  /\ stored = [t \in Tids |-> <<>>]
  /\ toServer = {}
  /\ toClient = {}

-------------------------------------------------------------------------------
(* The client *)

\* tftpSend: the packet is what is in PacketBuffer from now on. The socket may
\* refuse it, which ends the call.
Send(port, p, rc) ==
  /\ opcode' = p.op
  /\ \/ toServer' = toServer \cup {To(port, p)} /\ result' = rc
     \/ UNCHANGED toServer /\ result' = "socket"

RRQ == Packet("RRQ", 0, NoData)
WRQ == Packet("WRQ", 0, NoData)
ACK(n) == Packet("ACK", n, NoData)
DATA(n, data) == Packet("DATA", n, data)

\* The first packet of a transfer.
Request(p, first) ==
  /\ result = "idle"
  /\ Send(PORT_TFTP, p, "running")
  /\ MaxSyncError' = MAX_SYNC_TRIES
  /\ NextBlock' = first
  /\ UNCHANGED <<call, server, peerPort, buffer, BufferUsed, FileSize>>

GetFile == mode = "recv" /\ Request(RRQ, 1)
SendFile == mode = "send" /\ Request(WRQ, 0)

\* tftpFlushPackets: what it leaves in PacketBuffer if a packet was waiting.
Flushed == {q.p.op : q \in toClient \cup Strays}

\* (a defective variant, to confirm that NoBlockSkipped can fail)
ReSyncPacketNotBackedUp(op, n, length) ==
  IF op = "DATA" THEN ACK(NextBlock) ELSE DATA(NextBlock, Part(BufferUsed, 0))

\* What tftpReSync builds, when the last packet read had `length' bytes, and the
\* block before the expected one is n. Without data to copy it sends a datagram of
\* no bytes at all, which tells the server nothing.
ReSyncPacket(op, n, length) ==
  IF op = "DATA"
  THEN IF n = 0 THEN RRQ ELSE ACK(n)
  ELSE IF n = BlockMod - 1 THEN WRQ
       ELSE DATA(n, Part(BufferUsed, length - TFTP_HEADER))

SendsNothing(p, length) == p.op = "DATA" /\ length = 0

\* (a defective variant, to confirm that Ends can fail)
ReSyncForEver(length, held) ==
  /\ UNCHANGED <<NextBlock, MaxSyncError, peerPort, buffer, BufferUsed, FileSize>>
  /\ opcode' = held
  /\ UNCHANGED toServer
  /\ result' \in {"running", "socket"}

\* tftpReSync, with `length' bytes read last and `held' in PacketBuffer before the flush.
ReSync(length, held) ==
  /\ MaxSyncError' = MaxSyncError - 1
  /\ UNCHANGED <<NextBlock, peerPort, buffer, BufferUsed, FileSize>>
  /\ \E op \in {held} \cup Flushed :
       IF MaxSyncError = 1 \/ op \notin {"DATA", "ACK"}
       THEN result' = "failed" /\ opcode' = op /\ UNCHANGED toServer
       ELSE LET p == ReSyncPacket(op, (NextBlock - 1) % BlockMod, length)
            IN IF SendsNothing(p, length)
               THEN opcode' = p.op /\ UNCHANGED toServer /\ result' \in {"running", "socket"}
               ELSE Send(peerPort, p, "running")

\* recvfrom returned nothing in time. What PacketBuffer held before is still there.
Timeout ==
  /\ result = "running"
  /\ ReSync(0, opcode)
  /\ UNCHANGED <<call, server>>

\* (a defective variant, to confirm that CopyIsExact can fail)
FromPeerAnyHost(q) == peerPort # PORT_TFTP => q.port = peerPort

\* tftpReadPacket takes a packet of the peer; before the first answer the peer
\* may answer from any port.
FromPeer(q) ==
  /\ q.host = "server"
  /\ peerPort # PORT_TFTP => q.port = peerPort

\* Any other packet is dropped, but it has been read into PacketBuffer.
DropPacket(q) ==
  /\ result = "running"
  /\ ~FromPeer(q)
  /\ opcode' = q.p.op
  /\ UNCHANGED <<call, server, toServer, result, NextBlock, MaxSyncError, peerPort,
                 buffer, BufferUsed, FileSize>>

\* An unexpected block. PacketBuffer holds it unless the flush finds more.
ReadWrongBlock(q) ==
  /\ q.p.op \in {"DATA", "ACK"}
  /\ q.p.block # NextBlock
  /\ ReSync(q.p.data.size + TFTP_HEADER, q.p.op)

\* The bytes of a block the caller's buffer has room for.
CopySize(size) == Smaller(size, BufferSize - BufferUsed)

\* (a defective variant, to confirm that ImplementsCopy can fail)
ReceivedBeforeLast(size) == IF BufferUsed < FileSize THEN "short" ELSE "whole"

\* What tftpGetFile returns once the last block has been read.
Received(size) == IF BufferUsed + CopySize(size) < FileSize + size THEN "short" ELSE "whole"

ReadData(q) ==
  LET size == q.p.data.size
      copy == CopySize(size)
      done == size < SEGSIZE
  IN /\ q.p.op = "DATA"
     /\ q.p.block = NextBlock
     /\ peerPort' = IF NextBlock = 1 THEN q.port ELSE peerPort
     /\ MaxSyncError' = MAX_SYNC_TRIES
     /\ FileSize' = FileSize + size
     /\ buffer' = IF copy > 0 THEN Append(buffer, Part(q.p.data.first, copy)) ELSE buffer
     /\ BufferUsed' = BufferUsed + copy
     /\ Send(peerPort', ACK(NextBlock), IF done THEN Received(size) ELSE "running")
     /\ NextBlock' = IF result' = "socket" THEN NextBlock ELSE (NextBlock + 1) % BlockMod

\* The acknowledgement of the last DATA sends the next; with nothing left the
\* packet is empty and the call ends without waiting for its acknowledgement.
ReadAck(q) ==
  LET next == (NextBlock + 1) % BlockMod
      size == CopySize(SEGSIZE)
      done == BufferUsed = BufferSize
  IN /\ q.p.op = "ACK"
     /\ q.p.block = NextBlock
     /\ peerPort' = IF NextBlock = 0 THEN q.port ELSE peerPort
     /\ NextBlock' = next
     /\ BufferUsed' = BufferUsed + size
     /\ Send(peerPort', DATA(next, Part(BufferUsed, size)),
             IF done THEN "whole" ELSE "running")
     /\ UNCHANGED <<MaxSyncError, buffer, FileSize>>

\* (a defective variant, to confirm that TypeOK can fail)
ReadErrorUnchecked(q) ==
  /\ q.p.op = "ERROR"
  /\ result' = "reply"
  /\ opcode' = "ERROR"
  /\ buffer' = <<q.p.data>>
  /\ BufferUsed' = q.p.data.size
  /\ UNCHANGED <<toServer, NextBlock, MaxSyncError, peerPort, FileSize>>

\* The message of the server takes the place of the file, if there is room.
ReadError(q) ==
  LET size == IF q.p.data.size <= BufferSize THEN q.p.data.size ELSE 0
  IN /\ q.p.op = "ERROR"
     /\ result' = "reply"
     /\ opcode' = "ERROR"
     /\ buffer' = <<Part(q.p.data.first, size)>>
     /\ BufferUsed' = size
     /\ UNCHANGED <<toServer, NextBlock, MaxSyncError, peerPort, FileSize>>

ReadPacket(q) ==
  /\ result = "running"
  /\ FromPeer(q)
  /\ ReadWrongBlock(q) \/ ReadData(q) \/ ReadAck(q) \/ ReadError(q)
  /\ UNCHANGED <<call, server>>

\* recvfrom fails.
SocketError ==
  /\ result = "running"
  /\ result' = "socket"
  /\ UNCHANGED <<call, server, toServer, opcode, NextBlock, MaxSyncError, peerPort,
                 buffer, BufferUsed, FileSize>>

\* What the caller finds in *FileSize.
ReturnedSize == IF result \in Errors THEN BufferUsed ELSE FileSize

-------------------------------------------------------------------------------
(* The server *)

Answer(t, p, s) ==
  /\ toClient' = toClient \cup {From("server", t, p)}
  /\ session' = [session EXCEPT ![t] = s]
  /\ UNCHANGED <<call, client, toServer>>

\* A request opens a session on a new port, and so does a copy of it.
ServerOpen(t) ==
  /\ session[t].state = "idle"
  /\ \/ /\ To(PORT_TFTP, RRQ) \in toServer
        /\ Answer(t, DATA(1, Segment(1, FileLen)), [state |-> "reading", block |-> 1])
     \/ /\ To(PORT_TFTP, WRQ) \in toServer
        /\ Answer(t, ACK(0), [state |-> "writing", block |-> 0])
  /\ UNCHANGED stored

\* The current block is acknowledged: the next one, unless it was the last.
ServerAck(t) ==
  LET n == session[t].block
  IN /\ session[t].state = "reading"
     /\ To(t, ACK(n)) \in toServer
     /\ Segment(n, FileLen).size = SEGSIZE
     /\ Answer(t, DATA(n + 1, Segment(n + 1, FileLen)), [state |-> "reading", block |-> n + 1])
     /\ UNCHANGED stored

\* The next block is stored; a block that is not full is the last.
ServerData(t) ==
  LET n == session[t].block + 1
  IN /\ session[t].state = "writing"
     /\ \E q \in toServer :
          /\ q.port = t /\ q.p.op = "DATA" /\ q.p.block = n
          /\ stored' = [stored EXCEPT ![t] = Append(@, q.p.data)]
          /\ Answer(t, ACK(n),
                    [state |-> IF q.p.data.size < SEGSIZE THEN "complete" ELSE "writing",
                     block |-> n])

\* An error ends a session; a request may be refused.
ErrorText(size) == Part(-1, size)

ServerError(t) ==
  /\ session[t].state \in {"idle", "reading", "writing"}
  /\ \E port \in {PORT_TFTP, t} : \E q \in toServer : q.port = port
  /\ Answer(t, Packet("ERROR", 0, ErrorText(1)), [session[t] EXCEPT !.state = "over"])
  /\ UNCHANGED stored

-------------------------------------------------------------------------------
Client ==
  \/ GetFile \/ SendFile \/ Timeout \/ SocketError
  \/ \E q \in toClient \cup Strays : ReadPacket(q) \/ DropPacket(q)

Server == \E t \in Tids : ServerOpen(t) \/ ServerAck(t) \/ ServerData(t) \/ ServerError(t)

Next == Client \/ Server

Spec == Init /\ [][Next]_vars

\* recvfrom returns: it has a time limit (SO_RCVTIMEO). Stray packets do not come for
\* ever: the code's own check against them is compiled out (tftp.c:292-299).
FairSpec == Spec /\ WF_vars(Timeout \/ \E q \in toClient : ReadPacket(q))

-------------------------------------------------------------------------------
(* Properties *)

Parts == [first : Int, size : Nat]
Packets == [op : Opcodes, block : Nat, data : Parts]

TypeOK ==
  /\ mode \in {"recv", "send"}
  /\ FileLen \in FileSizes /\ BufferSize \in BufferSizes
  /\ result \in {"idle", "running", "whole", "short"} \cup Errors
  /\ opcode \in {"none"} \cup Opcodes
  /\ NextBlock \in 0 .. BlockMod - 1
  /\ MaxSyncError \in 0 .. MAX_SYNC_TRIES
  /\ peerPort \in Tids \cup {PORT_TFTP}
  /\ buffer \in Seq(Parts)
  /\ BufferUsed \in 0 .. BufferSize
  /\ FileSize \in Nat
  /\ session \in [Tids -> [state : {"idle", "reading", "writing", "complete", "over"},
                            block : Nat]]
  /\ stored \in [Tids -> Seq(Parts)]
  /\ toServer \subseteq [port : Tids \cup {PORT_TFTP}, p : Packets]
  /\ toClient \subseteq [host : {"server"}, port : Tids, p : Packets]

\* The parts are the first ones of a file of `size' bytes.
IsCut(parts, size) ==
  \A i \in 1 .. Len(parts) : Offset(i) <= size /\ parts[i] = Segment(i, size)

\* What is in the caller's buffer, and what a session of the server has stored, is
\* the beginning of the file, in order and without a gap, whatever was duplicated,
\* delayed, sent again by tftpReSync or sent by somebody else.
CopyIsExact ==
  /\ mode = "recv" /\ result # "reply" => IsCut(buffer, Smaller(FileLen, BufferSize))
  /\ mode = "send" => \A t \in Tids : IsCut(stored[t], BufferSize)

\* No acknowledgement is sent before its block was read: the server is never ahead
\* of the client, although tftpReSync counts the expected block down and up again.
NoBlockSkipped ==
  mode = "recv" => \A t \in Tids : session[t].state = "reading" => session[t].block <= NextBlock

\* Of a file that is sent, what the session of the peer has stored counts.
Copied ==
  IF mode = "recv" THEN FileSize
  ELSE IF peerPort = PORT_TFTP THEN 0
  ELSE Smaller(Offset(Len(stored[peerPort]) + 1), BufferSize)

Copy == INSTANCE FileCopy WITH
          fileSize <- IF mode = "recv" THEN FileLen ELSE BufferSize,
          room <- BufferSize,
          copied <- Copied,
          outcome <- IF result = "idle" THEN "running" ELSE result

\* A transfer is a copy: it advances by a segment at a time, 1 is returned only
\* after all of the file has arrived, 0 only if it did not fit, and what has
\* arrived at the session the client talks to is never taken back.
ImplementsCopy == Copy!Spec

\* A transfer ends, however many packets are lost, late or doubled: MaxSyncError
\* is set to its limit only by progress.
Ends == (result = "running") ~> (result # "running")
===============================================================================
