------------------------------ MODULE TftpProofs ------------------------------
(***************************************************************************)
(* Proofs about Tftp, for any segment size, any sizes of file and buffer,  *)
(* any number of sessions of the server and any strangers on the network:  *)
(* the types hold, a copy is exact as far as it goes, in both directions,  *)
(* the server of a file that is read is never ahead of the client, and a   *)
(* transfer implements FileCopy: it advances a segment at a time, and      *)
(* success is returned only after all of the file has arrived.             *)
(***************************************************************************)
EXTENDS Tftp, TLAPS

-------------------------------------------------------------------------------
(* Offsets of blocks *)

LEMMA Monotone ==
  ASSUME NEW a \in Int, NEW b \in Int, NEW c \in Nat, a <= b
  PROVE  a * c <= b * c
OBVIOUS

LEMMA StrictlyMonotone ==
  ASSUME NEW a \in Int, NEW b \in Int, NEW c \in Nat, a * c < b * c
  PROVE  a < b
<1> SUFFICES ASSUME b <= a
             PROVE  FALSE
  OBVIOUS
<1> QED
  BY Monotone

LEMMA OffsetFacts ==
  ASSUME NEW n \in Nat
  PROVE  /\ Offset(n) \in Int
         /\ n >= 1 => Offset(n) \in Nat
         /\ Offset(n + 1) = Offset(n) + SEGSIZE
         /\ Offset(n + 1) \in Nat
         /\ \A m \in Nat : m <= n => Offset(m) <= Offset(n)
<1>1. SEGSIZE \in Nat
  BY TftpAssumption
<1>2. Offset(n) \in Int /\ Offset(n + 1) = Offset(n) + SEGSIZE
  BY <1>1 DEF Offset
<1>3. \A m \in Nat : m <= n => Offset(m) <= Offset(n)
  BY <1>1, Monotone DEF Offset
<1>4. ASSUME n >= 1 PROVE Offset(n) \in Nat
  BY <1>1, <1>2, <1>4, Monotone, 0 * SEGSIZE = 0 DEF Offset
<1>5. Offset(n + 1) \in Nat
  BY <1>1, <1>2, <1>4 DEF Offset
<1> QED
  BY <1>2, <1>3, <1>4, <1>5

LEMMA FirstOffset == Offset(1) = 0
BY TftpAssumption DEF Offset

\* A block that starts within the file leaves room for the next block's number.
LEMMA NoWrap ==
  ASSUME NEW n \in Nat, NEW size \in FileSizes \cup BufferSizes, Offset(n) <= size
  PROVE  /\ n + 2 <= BlockMod
         /\ n + 1 < BlockMod => (n + 1) % BlockMod = n + 1
         /\ n < BlockMod => n % BlockMod = n
<1>1. SEGSIZE \in Nat /\ BlockMod \in Nat /\ size \in Nat
  BY TftpAssumption
<1>2. (n - 1) * SEGSIZE < (BlockMod - 2) * SEGSIZE
  BY <1>1, TftpAssumption DEF Offset
<1>3. n - 1 < BlockMod - 2
  BY <1>1, <1>2, StrictlyMonotone
<1> QED
  BY <1>1, <1>3

LEMMA BlockModFact ==
  ASSUME NEW size \in FileSizes \cup BufferSizes
  PROVE  BlockMod \in Nat /\ BlockMod > 2
<1>1. size < (BlockMod - 2) * SEGSIZE /\ size \in Nat /\ BlockMod \in Nat /\ SEGSIZE \in Nat
  BY TftpAssumption
<1>2. 0 * SEGSIZE < (BlockMod - 2) * SEGSIZE
  BY <1>1
<1> QED
  BY <1>1, <1>2, StrictlyMonotone

-------------------------------------------------------------------------------
(* The invariant *)

\* Before the request nothing has happened.
Fresh ==
  result = "idle" =>
    /\ NextBlock = 0 /\ BufferUsed = 0 /\ FileSize = 0 /\ buffer = <<>>
    /\ peerPort = PORT_TFTP /\ toServer = {}

\* A running call has a try left.
TriesLeft == result = "running" => MaxSyncError >= 1

\* A client that reads a file has all of it up to the block it expects, and what
\* fits of that in its buffer.
Reading ==
  mode = "recv" /\ result = "running" =>
    /\ NextBlock >= 1
    /\ FileSize = Offset(NextBlock) /\ FileSize <= FileLen
    /\ BufferUsed = Smaller(FileSize, BufferSize)
    /\ BufferUsed < BufferSize => Len(buffer) = NextBlock - 1

IsBlock(p, size) ==
  p.block >= 1 /\ Offset(p.block) <= size /\ p.data = Segment(p.block, size)

\* The packets of a file that is read are blocks of it; only blocks that were
\* read are acknowledged.
ReadNet ==
  mode = "recv" =>
    /\ \A q \in toClient : q.p.op # "ACK" /\ (q.p.op = "DATA" => IsBlock(q.p, FileLen))
    /\ toServer # {} => NextBlock >= 1
    /\ \A q \in toServer : q.p.op # "WRQ" /\ (q.p.op = "ACK" => q.p.block < NextBlock)
    /\ \A t \in Tids :
         /\ session[t].state # "writing"
         /\ session[t].state = "reading" => session[t].block >= 1

\* A client that writes a file has sent what its buffer holds up to the block
\* whose acknowledgement it waits for; the block before has been stored.
Writing ==
  mode = "send" /\ result = "running" =>
    /\ NextBlock = 0 => peerPort = PORT_TFTP /\ BufferUsed = 0
    /\ NextBlock # 0 => /\ peerPort \in Tids
                        /\ Offset(NextBlock) <= BufferSize
                        /\ BufferUsed = Smaller(Offset(NextBlock + 1), BufferSize)
                        /\ session[peerPort].block >= NextBlock - 1
                        /\ session[peerPort].state # "idle"

\* A session that will not store block n (any more).
Closed(t, n) ==
  \/ n <= session[t].block /\ session[t].state # "idle"
  \/ session[t].state \in {"complete", "over"}

\* The packets of a file that is written are blocks of it, or nobody stores them.
WriteNet ==
  mode = "send" =>
    /\ \A q \in toClient : /\ q.p.op # "DATA"
                           /\ q.p.op = "ACK" => /\ q.p.block <= session[q.port].block
                                                /\ session[q.port].state # "idle"
    /\ \A q \in toServer :
         /\ q.port = PORT_TFTP => q.p.op # "RRQ"
         /\ q.p.op = "DATA" /\ q.port \in Tids =>
              IsBlock(q.p, BufferSize) \/ Closed(q.port, q.p.block)
    /\ \A t \in Tids :
         /\ session[t].state # "reading"
         /\ session[t].state \in {"idle", "writing"} =>
              Len(stored[t]) = session[t].block
         /\ session[t].state = "idle" => session[t].block = 0
         /\ session[t].state = "writing" => Offset(session[t].block + 1) <= BufferSize

IInv ==
  /\ TypeOK /\ Fresh /\ TriesLeft
  /\ Reading /\ ReadNet /\ NoBlockSkipped
  /\ Writing /\ WriteNet
  /\ CopyIsExact

-------------------------------------------------------------------------------
(* Packets *)

Addressed == [port : Tids \cup {PORT_TFTP}, p : Packets]
Answers == [host : {"server"}, port : Tids, p : Packets]

LEMMA PartType ==
  ASSUME NEW first \in Int, NEW size \in Nat
  PROVE  Part(first, size) \in Parts /\ Part(first, size).first = first
           /\ Part(first, size).size = size
BY DEF Part, Parts

LEMMA SegmentType ==
  ASSUME NEW n \in Nat, n >= 1, NEW size \in Nat, Offset(n) <= size
  PROVE  /\ Segment(n, size) \in Parts
         /\ Segment(n, size).first = Offset(n)
         /\ Segment(n, size).size = Smaller(SEGSIZE, size - Offset(n))
         /\ Segment(n, size).size \in 0 .. SEGSIZE
<1>1. Offset(n) \in Nat /\ SEGSIZE \in Nat
  BY OffsetFacts, TftpAssumption
<1>2. Smaller(SEGSIZE, size - Offset(n)) \in 0 .. SEGSIZE
  BY <1>1 DEF Smaller
<1> QED
  BY <1>1, <1>2, PartType DEF Segment

LEMMA PacketTypes ==
  /\ RRQ \in Packets /\ RRQ.op = "RRQ"
  /\ WRQ \in Packets /\ WRQ.op = "WRQ"
  /\ \A n \in Nat : ACK(n) \in Packets /\ ACK(n).op = "ACK" /\ ACK(n).block = n
  /\ \A n \in Nat, d \in Parts :
       /\ DATA(n, d) \in Packets
       /\ DATA(n, d).op = "DATA" /\ DATA(n, d).block = n /\ DATA(n, d).data = d
<1>1. NoData \in Parts
  BY PartType DEF NoData
<1> QED
  BY <1>1 DEF RRQ, WRQ, ACK, DATA, Packet, Packets, Opcodes

LEMMA SendFacts ==
  ASSUME TypeOK, NEW port \in Tids \cup {PORT_TFTP}, NEW p \in Packets, NEW rc,
         Send(port, p, rc)
  PROVE  /\ toServer' \subseteq Addressed
         /\ \A q \in toServer' : q \in toServer \/ (q.port = port /\ q.p = p)
         /\ opcode' \in Opcodes
         /\ result' \in {rc, "socket"}
         /\ result' = rc \/ toServer' = toServer
<1>1. To(port, p) \in Addressed /\ To(port, p).port = port /\ To(port, p).p = p
  BY DEF To, Addressed
<1>2. toServer \subseteq Addressed
  BY DEF TypeOK, Addressed
<1>3. p.op \in Opcodes
  BY DEF Packets
<1> QED
  BY <1>1, <1>2, <1>3 DEF Send

-------------------------------------------------------------------------------
(* The client *)

LEMMA InitIInv == Init => IInv
<1> SUFFICES ASSUME Init
             PROVE  IInv
  OBVIOUS
<1>1. TypeOK
  <2>1. BlockMod \in Nat \ {0}
    BY BlockModFact DEF Init
  <2>2. BufferSize \in Nat
    BY TftpAssumption DEF Init
  <2> QED
    BY <2>1, <2>2, TftpAssumption DEF Init, TypeOK, NoSession, Opcodes, Errors
<1>2. CopyIsExact
  BY DEF Init, CopyIsExact, IsCut
<1> QED
  BY <1>1, <1>2 DEF Init, IInv, Fresh, TriesLeft, Reading, ReadNet, NoBlockSkipped, Writing,
        WriteNet, NoSession

LEMMA RequestStep ==
  ASSUME IInv, NEW p \in Packets, NEW first \in Nat, Request(p, first),
         mode = "recv" => p.op = "RRQ" /\ first = 1,
         mode = "send" => p.op = "WRQ" /\ first = 0
  PROVE  IInv'
<1> USE DEF IInv
<1>1. mode \in {"recv", "send"} /\ first \in {0, 1}
  BY DEF TypeOK
<1>2. /\ toServer = {} /\ BufferUsed = 0 /\ FileSize = 0 /\ buffer = <<>>
      /\ peerPort = PORT_TFTP
  BY DEF Request, Fresh
<1>3. /\ toServer' \subseteq Addressed
      /\ \A q \in toServer' : q.port = PORT_TFTP /\ q.p = p
      /\ opcode' \in Opcodes /\ result' \in {"running", "socket"}
  <2>1. Send(PORT_TFTP, p, "running") /\ PORT_TFTP \in Tids \cup {PORT_TFTP}
    BY DEF Request
  <2> QED
    BY <1>2, <2>1, SendFacts
<1>4. TypeOK'
  BY <1>1, <1>2, <1>3, TftpAssumption, BlockModFact
     DEF Request, TypeOK, Addressed, call, server, Errors
<1>5. Fresh' /\ TriesLeft'
  BY <1>1, <1>3, TftpAssumption DEF Request, Fresh, TriesLeft
<1>6. Reading' /\ Writing'
  BY <1>1, <1>2, FirstOffset, TftpAssumption
     DEF Request, Reading, Writing, call, server, TypeOK, Smaller
<1>7. ReadNet' /\ WriteNet'
  BY <1>1, <1>3, PacketTypes, TftpAssumption
     DEF Request, ReadNet, WriteNet, call, server, Closed, IsBlock
<1>8. CopyIsExact' /\ NoBlockSkipped'
  <2>1. CopyIsExact'
    BY <1>1, <1>2 DEF Request, CopyIsExact, call, server, IsCut
  <2>2. NoBlockSkipped'
    BY <1>1, <1>2 DEF Request, NoBlockSkipped, call, server, TypeOK, Fresh
  <2> QED
    BY <2>1, <2>2
<1> QED
  BY <1>4, <1>5, <1>6, <1>7, <1>8

LEMMA GetFileStep ==
  ASSUME IInv, GetFile
  PROVE  IInv'
<1>1. mode = "recv" /\ Request(RRQ, 1)
  BY DEF GetFile
<1> QED
  BY <1>1, RequestStep, PacketTypes

LEMMA SendFileStep ==
  ASSUME IInv, SendFile
  PROVE  IInv'
<1>1. mode = "send" /\ Request(WRQ, 0)
  BY DEF SendFile
<1> QED
  BY <1>1, RequestStep, PacketTypes

\* Steps that end the call, or read a packet to no effect, change none of this.
LEMMA SocketErrorStep ==
  ASSUME IInv, SocketError \/ \E q \in toClient \cup Strays : DropPacket(q)
  PROVE  IInv'
<1> USE DEF IInv
<1>1. /\ UNCHANGED <<call, server, toServer, NextBlock, MaxSyncError, peerPort, buffer,
                     BufferUsed, FileSize>>
      /\ result = "running" /\ result' \in {"running", "socket"}
      /\ opcode' \in {"none"} \cup Opcodes
  <2>1. CASE SocketError
    BY <2>1 DEF SocketError, TypeOK
  <2>2. CASE \E q \in toClient \cup Strays : DropPacket(q)
    <3>1. \A q \in toClient \cup Strays : q.p.op \in Opcodes
      BY TftpAssumption DEF TypeOK, Packets
    <3> QED
      BY <2>2, <3>1 DEF DropPacket
  <2> QED
    BY <2>1, <2>2
<1> QED
  BY <1>1 DEF call, server, TypeOK, Errors, Fresh, TriesLeft, Reading, ReadNet, Writing,
     WriteNet, NoBlockSkipped, CopyIsExact, Closed, IsBlock, IsCut

\* What is sent again is the request, or a packet of the block before the one
\* that is expected.
LEMMA ReSyncSends ==
  ASSUME TypeOK, NEW length \in Nat, length = 0 \/ length >= TFTP_HEADER,
         NEW held \in {"none"} \cup Opcodes, ReSync(length, held),
         NEW n \in Nat, n = (NextBlock - 1) % BlockMod
  PROVE  /\ toServer' \subseteq Addressed
         /\ opcode' \in {"none"} \cup Opcodes
         /\ result' \in {"running", "failed", "socket"}
         /\ result' = "running" => MaxSyncError # 1
         /\ \A q \in toServer' : q \in toServer \/
              /\ q.port = peerPort
              /\ q.p.op = "RRQ" => n = 0
              /\ q.p.op = "WRQ" => n = BlockMod - 1
              /\ q.p.op \in {"ACK", "DATA"} => q.p.block = n
              /\ q.p.op = "DATA" => n # BlockMod - 1
<1>1. Flushed \subseteq Opcodes
  BY TftpAssumption DEF Flushed, TypeOK, Packets
<1>2. toServer \subseteq Addressed
  BY DEF TypeOK, Addressed
<1>3. PICK op \in {held} \cup Flushed :
        IF MaxSyncError = 1 \/ op \notin {"DATA", "ACK"}
        THEN result' = "failed" /\ opcode' = op /\ UNCHANGED toServer
        ELSE LET p == ReSyncPacket(op, n, length)
             IN IF SendsNothing(p, length)
                THEN opcode' = p.op /\ UNCHANGED toServer /\ result' \in {"running", "socket"}
                ELSE Send(peerPort, p, "running")
  BY DEF ReSync
<1>4. CASE MaxSyncError = 1 \/ op \notin {"DATA", "ACK"}
  BY <1>1, <1>2, <1>3, <1>4
<1>5. CASE ~(MaxSyncError = 1 \/ op \notin {"DATA", "ACK"})
  <2> DEFINE p == ReSyncPacket(op, n, length)
  <2>1. IF SendsNothing(p, length)
        THEN opcode' = p.op /\ UNCHANGED toServer /\ result' \in {"running", "socket"}
        ELSE Send(peerPort, p, "running")
    BY <1>3, <1>5
  <2>2. /\ p.op \in Opcodes
        /\ p.op = "RRQ" => n = 0
        /\ p.op = "WRQ" => n = BlockMod - 1
        /\ p.op \in {"ACK", "DATA"} => p.block = n
        /\ p.op = "DATA" => n # BlockMod - 1
        /\ p.op = "DATA" /\ length # 0 => p \in Packets
        /\ p.op # "DATA" => p \in Packets
    BY <1>5, PacketTypes, PartType, SMTT(30)
       DEF ReSyncPacket, Opcodes, DATA, Packet, Packets, TFTP_HEADER, TypeOK
  <2> HIDE DEF p
  <2>3. CASE SendsNothing(p, length)
    BY <1>2, <1>5, <2>1, <2>2, <2>3
  <2>4. CASE ~SendsNothing(p, length)
    <3>1. p \in Packets /\ peerPort \in Tids \cup {PORT_TFTP}
      BY <2>2, <2>4 DEF SendsNothing, TypeOK
    <3>2. Send(peerPort, p, "running")
      BY <2>1, <2>4
    <3>3. /\ toServer' \subseteq Addressed
          /\ \A q \in toServer' : q \in toServer \/ (q.port = peerPort /\ q.p = p)
          /\ opcode' \in Opcodes
          /\ result' \in {"running", "socket"}
      BY <3>1, <3>2, SendFacts
    <3> QED
      BY <1>5, <2>2, <3>3
  <2> QED
    BY <2>3, <2>4
<1> QED
  BY <1>4, <1>5

LEMMA ReSyncStep ==
  ASSUME IInv, result = "running", NEW length \in Nat, length = 0 \/ length >= TFTP_HEADER,
         NEW held \in {"none"} \cup Opcodes, ReSync(length, held), UNCHANGED <<call, server>>
  PROVE  IInv'
<1> USE DEF IInv
<1> DEFINE n == (NextBlock - 1) % BlockMod
<1>1. BlockMod \in Nat /\ BlockMod > 2 /\ NextBlock \in 0 .. BlockMod - 1
  BY BlockModFact DEF TypeOK
<1>2. /\ n \in Nat
      /\ NextBlock = 0 => n = BlockMod - 1
      /\ NextBlock # 0 => n = NextBlock - 1
  BY <1>1
<1> HIDE DEF n
<1>3. /\ toServer' \subseteq Addressed
      /\ opcode' \in {"none"} \cup Opcodes
      /\ result' \in {"running", "failed", "socket"}
      /\ result' = "running" => MaxSyncError # 1
      /\ \A q \in toServer' : q \in toServer \/
           /\ q.port = peerPort
           /\ q.p.op = "RRQ" => n = 0
           /\ q.p.op = "WRQ" => n = BlockMod - 1
           /\ q.p.op \in {"ACK", "DATA"} => q.p.block = n
           /\ q.p.op = "DATA" => n # BlockMod - 1
  BY <1>2, ReSyncSends DEF n
<1>4. /\ UNCHANGED <<call, server, NextBlock, peerPort, buffer, BufferUsed, FileSize>>
      /\ MaxSyncError' = MaxSyncError - 1 /\ MaxSyncError >= 1
  BY DEF ReSync, TriesLeft
<1>5. TypeOK' /\ TriesLeft' /\ Fresh'
  BY <1>3, <1>4, TftpAssumption
     DEF TypeOK, TriesLeft, Fresh, Addressed, call, server, Errors
<1>6. Reading' /\ Writing' /\ NoBlockSkipped'
  BY <1>3, <1>4 DEF Reading, Writing, NoBlockSkipped, call, server
<1>7. CopyIsExact'
  BY <1>3, <1>4 DEF CopyIsExact, IsCut, call, server
<1>8. ReadNet'
  <2> SUFFICES ASSUME mode = "recv"
               PROVE  ReadNet'
    BY <1>4 DEF ReadNet, call
  <2>1. NextBlock >= 1 /\ n = NextBlock - 1 /\ n # BlockMod - 1
    BY <1>1, <1>2 DEF Reading
  <2> QED
    <3>1. \A q \in toServer' : q \in toServer \/
            (q.p.op # "WRQ" /\ (q.p.op = "ACK" => q.p.block < NextBlock))
      BY <1>1, <1>3, <2>1
    <3> QED
      BY <1>4, <2>1, <3>1 DEF ReadNet, server, call, IsBlock
<1>9. WriteNet'
  <2> SUFFICES ASSUME mode = "send"
               PROVE  WriteNet'
    BY <1>4 DEF WriteNet, call
  <2>1. CASE NextBlock = 0
    <3>1. peerPort = PORT_TFTP /\ n = BlockMod - 1 /\ n # 0
      BY <1>1, <1>2, <2>1 DEF Writing
    <3>2. \A q \in toServer' : q \in toServer \/
            (q.port = PORT_TFTP /\ q.p.op # "RRQ" /\ q.p.op # "DATA")
      BY <1>3, <3>1
    <3> QED
      BY <1>4, <3>2 DEF WriteNet, server, call, IsBlock, Closed
  <2>2. CASE NextBlock # 0
    <3>1. /\ peerPort \in Tids /\ peerPort # PORT_TFTP
          /\ session[peerPort].block >= n /\ session[peerPort].state # "idle"
      BY <1>1, <1>2, <2>2, TftpAssumption DEF Writing
    <3>2. \A q \in toServer' : q \in toServer \/
            (q.port = peerPort /\ (q.p.op = "DATA" => Closed(peerPort, q.p.block)))
      BY <1>3, <3>1 DEF Closed
    <3> QED
      BY <1>4, <3>1, <3>2 DEF WriteNet, server, call, IsBlock, Closed
  <2> QED
    BY <2>1, <2>2
<1> QED
  BY <1>5, <1>6, <1>7, <1>8, <1>9

LEMMA TimeoutStep ==
  ASSUME IInv, Timeout
  PROVE  IInv'
<1>1. opcode \in {"none"} \cup Opcodes
  BY DEF IInv, TypeOK
<1> QED
  BY <1>1, ReSyncStep DEF Timeout

-------------------------------------------------------------------------------
(* A packet of the server is read *)

LEMMA FromServer ==
  ASSUME NEW q \in toClient \cup Strays, FromPeer(q)
  PROVE  q \in toClient
BY TftpAssumption DEF FromPeer

LEMMA ReadWrongBlockStep ==
  ASSUME IInv, NEW q \in toClient, result = "running", ReadWrongBlock(q),
         UNCHANGED <<call, server>>
  PROVE  IInv'
<1>1. q.p.data.size \in Nat /\ q.p.op \in Opcodes
  BY DEF IInv, TypeOK, Packets, Parts
<1> DEFINE length == q.p.data.size + TFTP_HEADER
<1>2. length \in Nat /\ length >= TFTP_HEADER
  BY <1>1 DEF TFTP_HEADER
<1>3. ReSync(length, q.p.op)
  BY DEF ReadWrongBlock
<1> HIDE DEF length
<1> QED
  BY <1>1, <1>2, <1>3, ReSyncStep

LEMMA ReadErrorStep ==
  ASSUME IInv, NEW q \in toClient, result = "running", ReadError(q), UNCHANGED <<call, server>>
  PROVE  IInv'
<1> USE DEF IInv
<1> DEFINE size == IF q.p.data.size <= BufferSize THEN q.p.data.size ELSE 0
<1>1. q.p.data \in Parts /\ BufferSize \in Nat
  BY TftpAssumption DEF TypeOK, Packets
<1>2. size \in 0 .. BufferSize /\ Part(q.p.data.first, size) \in Parts
  BY <1>1, PartType DEF Parts
<1>3. TypeOK'
  BY <1>2 DEF ReadError, TypeOK, call, server, Opcodes, Errors
<1>4. /\ result' = "reply"
      /\ UNCHANGED <<call, server, toServer, NextBlock>>
  BY DEF ReadError
<1> QED
  BY <1>3, <1>4
     DEF Fresh, TriesLeft, Reading, ReadNet, NoBlockSkipped, Writing, WriteNet, CopyIsExact,
         IsCut, IsBlock, Closed, call, server

\* Nobody sends DATA to a client that writes, or acknowledges to one that reads.
LEMMA ReadDataStep ==
  ASSUME IInv, NEW q \in toClient, result = "running", ReadData(q), UNCHANGED <<call, server>>
  PROVE  IInv'
<1> USE DEF IInv
<1>1. mode = "recv" /\ q.p.op = "DATA" /\ q.p.block = NextBlock
  BY DEF ReadData, WriteNet, TypeOK
<1>2. /\ FileLen \in Nat /\ BufferSize \in Nat /\ SEGSIZE \in Nat \ {0}
      /\ NextBlock \in Nat /\ BlockMod \in Nat
  BY TftpAssumption DEF TypeOK
<1> DEFINE n == NextBlock
           size == q.p.data.size
           copy == CopySize(size)
<1>3. /\ n >= 1 /\ Offset(n) \in Nat /\ Offset(n) <= FileLen
      /\ FileSize = Offset(n) /\ BufferUsed = Smaller(Offset(n), BufferSize)
      /\ BufferUsed < BufferSize => Len(buffer) = n - 1
      /\ Offset(n + 1) = Offset(n) + SEGSIZE
  BY <1>1, <1>2, OffsetFacts DEF Reading
<1>4. /\ q.p.data = Segment(n, FileLen)
      /\ q.p.data.first = Offset(n)
      /\ size = Smaller(SEGSIZE, FileLen - Offset(n))
      /\ size \in 0 .. SEGSIZE
  BY <1>1, <1>2, <1>3, SegmentType DEF ReadNet, IsBlock
<1>5. /\ copy \in 0 .. size
      /\ BufferUsed + copy = Smaller(Offset(n) + size, BufferSize)
  BY <1>2, <1>3, <1>4 DEF CopySize, Smaller
<1>6. /\ n + 1 < BlockMod /\ (n + 1) % BlockMod = n + 1
  BY <1>1, <1>2, <1>3, NoWrap DEF TypeOK
<1>7. /\ peerPort' \in Tids \cup {PORT_TFTP}
      /\ toServer' \subseteq Addressed
      /\ \A r \in toServer' : r \in toServer \/ (r.port = peerPort' /\ r.p = ACK(n))
      /\ opcode' \in Opcodes
      /\ result' \in {"running", "whole", "short", "socket"}
      /\ result' = "running" => size = SEGSIZE
      /\ result' = "socket" => toServer' = toServer
  <2>1. peerPort' \in Tids \cup {PORT_TFTP}
    BY DEF ReadData, TypeOK
  <2>2. ACK(n) \in Packets
    BY <1>2, PacketTypes
  <2> DEFINE rc == IF size < SEGSIZE THEN Received(size) ELSE "running"
  <2>3. Send(peerPort', ACK(n), rc)
    BY DEF ReadData
  <2>4. rc \in {"running", "whole", "short"} /\ (rc = "running" => size = SEGSIZE)
    BY <1>2, <1>4 DEF Received
  <2> HIDE DEF rc
  <2>5. /\ toServer' \subseteq Addressed
        /\ \A r \in toServer' : r \in toServer \/ (r.port = peerPort' /\ r.p = ACK(n))
        /\ opcode' \in Opcodes /\ result' \in {rc, "socket"}
        /\ result' = rc \/ toServer' = toServer
    BY <2>1, <2>2, <2>3, SendFacts
  <2> QED
    BY <2>1, <2>4, <2>5
<1>8. /\ BufferUsed' = BufferUsed + copy /\ FileSize' = Offset(n) + size
      /\ MaxSyncError' = MAX_SYNC_TRIES
      /\ NextBlock' \in {n, n + 1}
      /\ result' # "socket" => NextBlock' = n + 1
  BY <1>3, <1>6 DEF ReadData
<1>9. buffer' = IF copy > 0 THEN Append(buffer, Part(Offset(n), copy)) ELSE buffer
  BY <1>4 DEF ReadData
<1>10. TypeOK'
  <2>1. Part(Offset(n), copy) \in Parts /\ FileSize' \in Nat
    BY <1>3, <1>4, <1>5, <1>8, PartType
  <2>2. BufferUsed' \in 0 .. BufferSize
    <3>1. BufferUsed' = BufferUsed + copy
      BY <1>8
    <3> QED
      BY <1>2, <1>3, <1>5, <3>1 DEF Smaller
  <2>3. buffer' \in Seq(Parts)
    BY <1>9, <2>1 DEF TypeOK
  <2>4. NextBlock' \in 0 .. BlockMod - 1
    BY <1>2, <1>6, <1>8
  <2>5. opcode' \in Opcodes /\ toServer' \subseteq Addressed
    BY <1>7
  <2>6. MaxSyncError' \in 0 .. MAX_SYNC_TRIES
    BY <1>8, TftpAssumption
  <2> QED
    BY <1>7, <1>8, <2>1, <2>2, <2>3, <2>4, <2>5, <2>6
       DEF TypeOK, Addressed, call, server, Errors
<1>11. Fresh' /\ TriesLeft'
  BY <1>7, <1>8, TftpAssumption DEF Fresh, TriesLeft
<1>12. Reading'
  <2> SUFFICES ASSUME result' = "running"
               PROVE  Reading'
    BY DEF Reading
  <2>1. size = SEGSIZE /\ NextBlock' = n + 1 /\ FileSize' = Offset(n + 1)
    BY <1>3, <1>7, <1>8
  <2>2. FileSize' <= FileLen
    BY <1>2, <1>3, <1>4, <2>1 DEF Smaller
  <2>3. BufferUsed' = Smaller(FileSize', BufferSize)
    BY <1>3, <1>5, <1>8, <2>1
  <2>4. ASSUME BufferUsed' < BufferSize PROVE Len(buffer') = n
    <3>1. BufferUsed < BufferSize /\ copy > 0
      BY <1>2, <1>3, <1>5, <1>8, <2>1, <2>4 DEF Smaller
    <3> QED
      BY <1>2, <1>3, <1>9, <3>1 DEF TypeOK
  <2> QED
    BY <1>2, <1>3, <2>1, <2>2, <2>3, <2>4 DEF Reading, call
<1>13. ReadNet' /\ NoBlockSkipped'
  <2>1. \A r \in toServer' : r \in toServer \/ (r.p.op = "ACK" /\ r.p.block = n /\ NextBlock' = n + 1)
    BY <1>2, <1>7, <1>8, PacketTypes
  <2>2. ReadNet'
    BY <1>1, <1>2, <1>8, <2>1 DEF ReadNet, call, server, IsBlock, TypeOK, Packets
  <2>3. NoBlockSkipped'
    BY <1>2, <1>8 DEF NoBlockSkipped, call, server, TypeOK
  <2> QED
    BY <2>2, <2>3
<1>14. Writing' /\ WriteNet'
  BY <1>1 DEF Writing, WriteNet, call
<1>15. CopyIsExact'
  <2> DEFINE cut == Smaller(FileLen, BufferSize)
  <2>1. IsCut(buffer, cut)
    BY <1>1 DEF CopyIsExact
  <2>2. CASE copy > 0
    <3>1. /\ BufferUsed = Offset(n) /\ Offset(n) < BufferSize /\ Len(buffer) = n - 1
      BY <1>2, <1>3, <1>5, <2>2 DEF CopySize, Smaller
    <3>2. copy = Smaller(SEGSIZE, cut - Offset(n))
      BY <1>2, <1>3, <1>4, <1>5, <3>1 DEF CopySize, Smaller
    <3>3. Offset(n) <= cut /\ Part(Offset(n), copy) = Segment(n, cut)
      BY <1>2, <1>3, <3>1, <3>2 DEF Segment, Smaller
    <3>4. buffer' = Append(buffer, Segment(n, cut)) /\ buffer \in Seq(Parts)
      BY <1>9, <2>2, <3>3 DEF TypeOK
    <3>5. Len(buffer') = n /\ \A i \in 1 .. n : buffer'[i] = IF i = n THEN Segment(n, cut) ELSE buffer[i]
      BY <1>2, <1>3, <3>1, <3>4
    <3>6. IsCut(buffer', cut)
      BY <1>2, <1>3, <2>1, <3>1, <3>3, <3>5 DEF IsCut
    <3> QED
      BY <1>1, <3>6 DEF CopyIsExact, call
  <2>3. CASE ~(copy > 0)
    <3>1. buffer' = buffer
      BY <1>9, <2>3
    <3> QED
      BY <1>1, <2>1, <3>1 DEF CopyIsExact, call
  <2> QED
    BY <2>2, <2>3
<1> QED
  BY <1>10, <1>11, <1>12, <1>13, <1>14, <1>15

\* The last block is acknowledged by a session that has closed, so the empty
\* DATA that follows a file of full segments ends it, and any other is ignored.
LEMMA ReadAckStep ==
  ASSUME IInv, NEW q \in toClient, result = "running", FromPeer(q), ReadAck(q),
         UNCHANGED <<call, server>>
  PROVE  IInv'
<1> USE DEF IInv
<1>1. mode = "send" /\ q.p.op = "ACK" /\ q.p.block = NextBlock /\ q.port \in Tids
  BY DEF ReadAck, ReadNet, TypeOK
<1>2. /\ BufferSize \in Nat /\ SEGSIZE \in Nat \ {0}
      /\ NextBlock \in Nat /\ BlockMod \in Nat /\ BufferUsed \in 0 .. BufferSize
  BY TftpAssumption DEF TypeOK
<1> DEFINE n == NextBlock
           size == CopySize(SEGSIZE)
           done == BufferUsed = BufferSize
<1>3. /\ Offset(n + 1) \in Nat /\ Offset(n + 2) = Offset(n + 1) + SEGSIZE
      /\ Offset(n) <= BufferSize
      /\ BufferUsed = Smaller(Offset(n + 1), BufferSize)
  <2>1. Offset(n + 1) \in Nat /\ Offset((n + 1) + 1) = Offset(n + 1) + SEGSIZE
    BY <1>2, OffsetFacts
  <2>2. Offset(n) <= BufferSize /\ BufferUsed = Smaller(Offset(n + 1), BufferSize)
    <3>1. CASE n = 0
      <4>1. Offset(n) = -SEGSIZE /\ Offset(n + 1) = 0 /\ BufferUsed = 0
        BY <1>1, <1>2, <3>1, FirstOffset DEF Writing, Offset
      <4> QED
        BY <1>2, <4>1 DEF Smaller
    <3>2. CASE n # 0
      BY <1>1, <3>2 DEF Writing
    <3> QED
      BY <3>1, <3>2
  <2> QED
    BY <1>2, <2>1, <2>2
<1>4. /\ size \in 0 .. SEGSIZE
      /\ BufferUsed + size <= BufferSize
      /\ ~done => BufferUsed = Offset(n + 1) /\ Offset(n + 1) <= BufferSize
                  /\ BufferUsed + size = Smaller(Offset(n + 2), BufferSize)
  BY <1>2, <1>3 DEF CopySize, Smaller
<1>5. n + 1 < BlockMod /\ (n + 1) % BlockMod = n + 1
  BY <1>1, <1>2, <1>3, NoWrap DEF TypeOK
<1> DEFINE port == IF n = 0 THEN q.port ELSE peerPort
           p == DATA(n + 1, Part(BufferUsed, size))
<1>6. port \in Tids /\ (n = 0 \/ port = peerPort)
  BY <1>1 DEF Writing
<1>7. q.port = port
  BY <1>1, <1>6, TftpAssumption DEF Writing, FromPeer
<1>8. n <= session[port].block /\ session[port].state # "idle"
  BY <1>1, <1>7 DEF WriteNet
<1>9. p \in Packets /\ p.op = "DATA" /\ p.block = n + 1 /\ p.data = Part(BufferUsed, size)
  <2>1. BufferUsed \in Int /\ size \in Nat /\ n + 1 \in Nat
    BY <1>2, <1>4
  <2>2. Part(BufferUsed, size) \in Parts
    BY <2>1, PartType
  <2> QED
    BY <2>1, <2>2, PacketTypes
<1>10. /\ toServer' \subseteq Addressed
       /\ \A r \in toServer' : r \in toServer \/ (r.port = port /\ r.p = p)
       /\ opcode' \in Opcodes
       /\ result' \in {"running", "whole", "socket"}
       /\ result' = "running" => ~done
  <2> DEFINE rc == IF done THEN "whole" ELSE "running"
  <2>1. Send(port, p, rc)
    BY <1>5 DEF ReadAck
  <2>2. rc \in {"running", "whole"} /\ (rc = "running" => ~done)
    OBVIOUS
  <2> HIDE DEF rc, p, port, done
  <2> QED
    BY <1>6, <1>9, <2>1, <2>2, SendFacts
<1>11. /\ peerPort' = port /\ NextBlock' = n + 1 /\ BufferUsed' = BufferUsed + size
       /\ UNCHANGED <<MaxSyncError, buffer, FileSize>>
  BY <1>5 DEF ReadAck
<1>12. TypeOK'
  <2>1. BufferUsed' \in 0 .. BufferSize /\ NextBlock' \in 0 .. BlockMod - 1
    BY <1>2, <1>4, <1>5, <1>11 DEF TypeOK
  <2>2. result' \in {"idle", "running", "whole", "short"} \cup Errors
    BY <1>10 DEF Errors
  <2>3. peerPort' \in Tids \cup {PORT_TFTP}
    BY <1>6, <1>11
  <2> QED
    BY <1>5, <1>10, <1>11, <2>1, <2>2, <2>3 DEF TypeOK, Addressed, call, server
<1>13. Fresh' /\ TriesLeft'
  BY <1>10, <1>11 DEF Fresh, TriesLeft
<1>14. Reading' /\ ReadNet' /\ NoBlockSkipped'
  BY <1>1 DEF Reading, ReadNet, NoBlockSkipped, call
<1>15. Writing'
  BY <1>2, <1>4, <1>6, <1>8, <1>10, <1>11 DEF Writing, call, server
<1>16. IsBlock(p, BufferSize) \/ Closed(port, n + 1)
  <2>1. CASE Offset(n + 1) <= BufferSize
    <3>1. BufferUsed = Offset(n + 1) /\ size = Smaller(SEGSIZE, BufferSize - Offset(n + 1))
      BY <1>2, <1>3, <2>1 DEF CopySize, Smaller
    <3> QED
      BY <1>2, <1>9, <2>1, <3>1 DEF IsBlock, Segment
  <2>2. CASE ~(Offset(n + 1) <= BufferSize)
    <3>1. session[port].block \in Nat /\ BufferSize < Offset(n + 1)
      BY <1>2, <1>3, <1>6, <2>2 DEF TypeOK
    <3>2. Offset(n + 1) <= Offset(session[port].block + 1)
      BY <1>2, <1>8, <3>1, OffsetFacts
    <3>3. session[port].state # "writing" /\ session[port].state # "reading"
      <4>1. Offset(session[port].block + 1) \in Nat
        BY <3>1, OffsetFacts
      <4>2. ~(Offset(session[port].block + 1) <= BufferSize)
        BY <1>2, <1>3, <3>1, <3>2, <4>1
      <4> HIDE DEF port
      <4> QED
        BY <1>1, <1>6, <4>2 DEF WriteNet
    <3> QED
      BY <1>6, <1>8, <3>3 DEF Closed, TypeOK
  <2> QED
    BY <2>1, <2>2
<1>17. WriteNet'
  <2>1. \A r \in toServer' : r \in toServer \/
          (r.port = port /\ r.p.op = "DATA" /\ (IsBlock(r.p, BufferSize) \/ Closed(port, r.p.block)))
    BY <1>9, <1>10, <1>16
  <2>2. port # PORT_TFTP
    BY <1>6, TftpAssumption
  <2> HIDE DEF port
  <2> QED
    BY <1>1, <2>1, <2>2 DEF WriteNet, call, server, IsBlock, Closed
<1>18. CopyIsExact'
  BY <1>1 DEF CopyIsExact, IsCut, call, server
<1> QED
  BY <1>12, <1>13, <1>14, <1>15, <1>17, <1>18

LEMMA ReadPacketStep ==
  ASSUME IInv, NEW q \in toClient \cup Strays, ReadPacket(q)
  PROVE  IInv'
<1>1. q \in toClient
  BY FromServer DEF ReadPacket
<1> QED
  BY <1>1, ReadWrongBlockStep, ReadDataStep, ReadAckStep, ReadErrorStep DEF ReadPacket

-------------------------------------------------------------------------------
(* The server *)

Sessions == [state : {"idle", "reading", "writing", "complete", "over"}, block : Nat]

\* An answer leaves the client alone, and adds a packet and a step of a session.
LEMMA AnswerFacts ==
  ASSUME IInv, NEW t \in Tids, NEW p \in Packets, NEW s \in Sessions, Answer(t, p, s),
         stored' \in [Tids -> Seq(Parts)], s.state # "idle",
         mode = "send" => s.block >= session[t].block
  PROVE  /\ UNCHANGED <<call, client, toServer>>
         /\ TypeOK' /\ Fresh' /\ TriesLeft' /\ Reading' /\ Writing'
         /\ \A q \in toClient' : q \in toClient \/ (q.port = t /\ q.p = p)
         /\ \A u \in Tids : session'[u] = IF u = t THEN s ELSE session[u]
<1> USE DEF IInv
<1>1. UNCHANGED <<call, client, toServer>>
  BY DEF Answer
<1>2. From("server", t, p) \in Answers /\ From("server", t, p).port = t
        /\ From("server", t, p).p = p
  BY DEF From, Answers
<1>3. \A q \in toClient' : q \in toClient \/ (q.port = t /\ q.p = p)
  BY <1>2 DEF Answer
<1>4. session' \in [Tids -> Sessions] /\ \A u \in Tids : session'[u] = IF u = t THEN s ELSE session[u]
  BY DEF Answer, TypeOK, Sessions
<1>5. toClient' \subseteq Answers
  BY <1>2 DEF Answer, TypeOK, Answers
<1>6. TypeOK'
  BY <1>1, <1>4, <1>5 DEF TypeOK, Answers, Sessions, call, client
<1>7. Fresh' /\ TriesLeft' /\ Reading'
  BY <1>1 DEF Fresh, TriesLeft, Reading, call, client
<1>8. Writing'
  <2> SUFFICES ASSUME mode = "send", result = "running", NextBlock # 0
               PROVE  /\ session'[peerPort].block >= NextBlock - 1
                      /\ session'[peerPort].state # "idle"
    BY <1>1 DEF Writing, call, client
  <2>1. peerPort \in Tids /\ session[peerPort] \in Sessions /\ NextBlock \in Nat
    BY DEF Writing, TypeOK, Sessions
  <2>2. session[peerPort].block >= NextBlock - 1 /\ session[peerPort].state # "idle"
    BY DEF Writing
  <2>3. session[peerPort].block \in Nat /\ session[t].block \in Nat /\ s.block \in Nat
    BY <2>1 DEF Sessions, TypeOK
  <2>4. CASE peerPort = t
    <3>1. session'[peerPort] = s /\ s.block >= session[t].block
      BY <1>4, <2>1, <2>4
    <3> QED
      BY <2>1, <2>2, <2>3, <2>4, <3>1
  <2>5. CASE peerPort # t
    BY <1>4, <2>1, <2>2, <2>5
  <2> QED
    BY <2>4, <2>5
<1> QED
  BY <1>1, <1>3, <1>4, <1>6, <1>7, <1>8

\* A session that will not store a block never will, and one that has
\* acknowledged a block keeps it.
LEMMA SessionGrows ==
  ASSUME TypeOK, NEW t \in Tids, NEW s \in Sessions,
         session[t].state \in {"idle", "reading", "writing"},
         s.state # "idle", s.block >= session[t].block,
         \A u \in Tids : session'[u] = IF u = t THEN s ELSE session[u]
  PROVE  /\ \A u \in Tids, m \in Nat : Closed(u, m) => Closed(u, m)'
         /\ \A u \in Tids, m \in Nat : m <= session[u].block /\ session[u].state # "idle"
              => m <= session'[u].block /\ session'[u].state # "idle"
<1>1. \A u \in Tids : session[u].block \in Nat
  BY DEF TypeOK
<1>2. s.block \in Nat
  BY DEF Sessions
<1>3. ASSUME NEW u \in Tids, NEW m \in Nat
      PROVE  m <= session[u].block /\ session[u].state # "idle"
               => m <= session'[u].block /\ session'[u].state # "idle"
  BY <1>1, <1>2
<1>4. ASSUME NEW u \in Tids, NEW m \in Nat, Closed(u, m)
      PROVE  Closed(u, m)'
  BY <1>3, <1>4 DEF Closed
<1> QED
  BY <1>3, <1>4

\* When a session moves on and answers, what is on the network stays a block of the
\* file, or of no use to anybody.
LEMMA WriteNetGrows ==
  ASSUME IInv, mode = "send", NEW t \in Tids, NEW s \in Sessions, NEW p \in Packets,
         session[t].state \in {"idle", "reading", "writing"},
         s.state # "idle", s.block >= session[t].block,
         p.op # "DATA", p.op = "ACK" => p.block <= s.block,
         UNCHANGED <<call, client, toServer>>,
         \A q \in toClient' : q \in toClient \/ (q.port = t /\ q.p = p),
         \A u \in Tids : session'[u] = IF u = t THEN s ELSE session[u],
         \A u \in Tids :
           /\ session'[u].state # "reading"
           /\ session'[u].state \in {"idle", "writing"} => Len(stored'[u]) = session'[u].block
           /\ session'[u].state = "idle" => session'[u].block = 0
           /\ session'[u].state = "writing" => Offset(session'[u].block + 1) <= BufferSize
  PROVE  WriteNet'
<1> USE DEF IInv
<1>1. /\ \A u \in Tids, m \in Nat : Closed(u, m) => Closed(u, m)'
      /\ \A u \in Tids, m \in Nat : m <= session[u].block /\ session[u].state # "idle"
           => m <= session'[u].block /\ session'[u].state # "idle"
  BY SessionGrows
<1>2. ASSUME NEW r \in toClient'
      PROVE  /\ r.p.op # "DATA"
             /\ r.p.op = "ACK" => /\ r.p.block <= session'[r.port].block
                                  /\ session'[r.port].state # "idle"
  <2>1. CASE r \in toClient
    <3>1. r.port \in Tids /\ r.p.block \in Nat
      BY <2>1 DEF TypeOK, Packets
    <3>2. /\ r.p.op # "DATA"
          /\ r.p.op = "ACK" => /\ r.p.block <= session[r.port].block
                               /\ session[r.port].state # "idle"
      BY <2>1 DEF WriteNet
    <3> QED
      BY <1>1, <3>1, <3>2
  <2>2. CASE r.port = t /\ r.p = p
    BY <2>2
  <2> QED
    BY <1>2, <2>1, <2>2
<1>3. ASSUME NEW r \in toServer'
      PROVE  /\ r.port = PORT_TFTP => r.p.op # "RRQ"
             /\ r.p.op = "DATA" /\ r.port \in Tids =>
                  IsBlock(r.p, BufferSize) \/ Closed(r.port, r.p.block)'
  <2>1. r \in toServer /\ r.p.block \in Nat
    BY <1>3 DEF TypeOK, Packets
  <2>2. /\ r.port = PORT_TFTP => r.p.op # "RRQ"
        /\ r.p.op = "DATA" /\ r.port \in Tids =>
             IsBlock(r.p, BufferSize) \/ Closed(r.port, r.p.block)
    BY <2>1 DEF WriteNet
  <2> QED
    BY <1>1, <2>1, <2>2
<1> HIDE DEF IInv
<1>4. BufferSize' = BufferSize
  BY DEF call
<1>5. \A r \in toServer' : IsBlock(r.p, BufferSize)' = IsBlock(r.p, BufferSize)
  BY <1>4 DEF IsBlock
<1>6. \A r \in toServer' :
        /\ r.port = PORT_TFTP => r.p.op # "RRQ"
        /\ r.p.op = "DATA" /\ r.port \in Tids =>
             IsBlock(r.p, BufferSize)' \/ Closed(r.port, r.p.block)'
  BY <1>3, <1>5
<1>7. \A u \in Tids :
        /\ session'[u].state # "reading"
        /\ session'[u].state \in {"idle", "writing"} => Len(stored'[u]) = session'[u].block
        /\ session'[u].state = "idle" => session'[u].block = 0
        /\ session'[u].state = "writing" => Offset(session'[u].block + 1) <= BufferSize'
  BY <1>4
<1> QED
  BY <1>2, <1>6, <1>7 DEF WriteNet

LEMMA SessionType ==
  ASSUME NEW state \in {"idle", "reading", "writing", "complete", "over"}, NEW block \in Nat
  PROVE  /\ [state |-> state, block |-> block] \in Sessions
         /\ [state |-> state, block |-> block].state = state
         /\ [state |-> state, block |-> block].block = block
BY DEF Sessions

LEMMA ServerReads ==
  ASSUME IInv, NEW t \in Tids, NEW n \in Nat, n >= 1, Offset(n) <= FileLen, n <= NextBlock,
         mode = "recv", stored' = stored,
         Answer(t, DATA(n, Segment(n, FileLen)), [state |-> "reading", block |-> n])
  PROVE  IInv'
<1> USE DEF IInv
<1> DEFINE p == DATA(n, Segment(n, FileLen))
           s == [state |-> "reading", block |-> n]
<1>1. FileLen \in Nat
  BY TftpAssumption DEF TypeOK
<1>2. p \in Packets /\ p.op = "DATA" /\ IsBlock(p, FileLen)
  BY <1>1, SegmentType, PacketTypes DEF IsBlock
<1>3. s \in Sessions /\ s.state = "reading" /\ s.block = n
  BY SessionType
<1>4. Answer(t, p, s)
  OBVIOUS
<1> HIDE DEF p, s
<1>5. /\ UNCHANGED <<call, client, toServer>>
      /\ TypeOK' /\ Fresh' /\ TriesLeft' /\ Reading' /\ Writing'
      /\ \A q \in toClient' : q \in toClient \/ (q.port = t /\ q.p = p)
      /\ \A u \in Tids : session'[u] = IF u = t THEN s ELSE session[u]
  <2>1. stored' \in [Tids -> Seq(Parts)]
    BY DEF TypeOK
  <2>2. s.state # "idle" /\ mode # "send"
    BY <1>3
  <2> HIDE DEF IInv
  <2> QED
    BY <1>2, <1>3, <1>4, <2>1, <2>2, AnswerFacts
<1>6. ReadNet'
  <2>1. UNCHANGED <<mode, FileLen, NextBlock, toServer>>
    BY <1>5 DEF call, client
  <2>2. \A q \in toClient' : q.p.op # "ACK" /\ (q.p.op = "DATA" => IsBlock(q.p, FileLen))
    BY <1>2, <1>5 DEF ReadNet
  <2>3. \A q \in toClient' : IsBlock(q.p, FileLen)' = IsBlock(q.p, FileLen)
    BY <2>1 DEF IsBlock
  <2>4. \A u \in Tids : /\ session'[u].state # "writing"
                        /\ session'[u].state = "reading" => session'[u].block >= 1
    BY <1>3, <1>5 DEF ReadNet
  <2> QED
    BY <2>1, <2>2, <2>3, <2>4 DEF ReadNet
<1>7. NoBlockSkipped'
  BY <1>3, <1>5 DEF NoBlockSkipped, call, client
<1>8. WriteNet' /\ CopyIsExact'
  BY <1>5 DEF WriteNet, CopyIsExact, call, client, IsCut
<1> QED
  BY <1>5, <1>6, <1>7, <1>8

LEMMA ServerAckStep ==
  ASSUME IInv, NEW t \in Tids, ServerAck(t)
  PROVE  IInv'
<1> USE DEF IInv
<1> DEFINE n == session[t].block
<1>1. /\ mode = "recv" /\ n \in Nat /\ n >= 1
      /\ FileLen \in Nat /\ SEGSIZE \in Nat \ {0}
  BY TftpAssumption DEF ServerAck, WriteNet, ReadNet, TypeOK
<1>2. n < NextBlock
  <2>1. To(t, ACK(n)).p.op = "ACK" /\ To(t, ACK(n)).p.block = n
    BY <1>1, PacketTypes DEF To
  <2> QED
    BY <1>1, <2>1 DEF ServerAck, ReadNet
<1>3. Offset(n + 1) <= FileLen
  <2>1. Offset(n) \in Nat /\ Offset(n + 1) = Offset(n) + SEGSIZE
    BY <1>1, OffsetFacts
  <2>2. Smaller(SEGSIZE, FileLen - Offset(n)) = SEGSIZE
    BY DEF ServerAck, Segment, Part
  <2> QED
    BY <1>1, <2>1, <2>2 DEF Smaller
<1>4. /\ Answer(t, DATA(n + 1, Segment(n + 1, FileLen)), [state |-> "reading", block |-> n + 1])
      /\ stored' = stored
  BY DEF ServerAck
<1>5. n + 1 <= NextBlock
  BY <1>1, <1>2 DEF TypeOK
<1> HIDE DEF n
<1> QED
  BY <1>1, <1>3, <1>4, <1>5, ServerReads

LEMMA ServerOpenStep ==
  ASSUME IInv, NEW t \in Tids, ServerOpen(t)
  PROVE  IInv'
<1> USE DEF IInv
<1>1. session[t].state = "idle" /\ stored' = stored
  BY DEF ServerOpen
<1>2. CASE /\ To(PORT_TFTP, RRQ) \in toServer
           /\ Answer(t, DATA(1, Segment(1, FileLen)), [state |-> "reading", block |-> 1])
  <2>1. To(PORT_TFTP, RRQ).port = PORT_TFTP /\ To(PORT_TFTP, RRQ).p.op = "RRQ"
    BY PacketTypes DEF To
  <2>2. mode = "recv" /\ 1 <= NextBlock
    BY <1>2, <2>1 DEF ReadNet, WriteNet, TypeOK
  <2>3. Offset(1) <= FileLen
    BY FirstOffset, TftpAssumption DEF TypeOK
  <2> QED
    BY <1>1, <1>2, <2>2, <2>3, ServerReads
<1>3. CASE /\ To(PORT_TFTP, WRQ) \in toServer
           /\ Answer(t, ACK(0), [state |-> "writing", block |-> 0])
  <2>1. To(PORT_TFTP, WRQ).p.op = "WRQ"
    BY PacketTypes DEF To
  <2>2. mode = "send" /\ session[t].block = 0 /\ Len(stored[t]) = 0
    BY <1>1, <1>3, <2>1 DEF ReadNet, WriteNet, TypeOK
  <2> DEFINE s == [state |-> "writing", block |-> 0]
  <2>3. s \in Sessions /\ s.state = "writing" /\ s.block = 0
    BY SessionType
  <2>4. Answer(t, ACK(0), s)
    BY <1>3
  <2>5. ACK(0) \in Packets /\ ACK(0).op = "ACK" /\ ACK(0).block = 0
    BY PacketTypes
  <2> HIDE DEF s
  <2>6. /\ UNCHANGED <<call, client, toServer>>
        /\ TypeOK' /\ Fresh' /\ TriesLeft' /\ Reading' /\ Writing'
        /\ \A q \in toClient' : q \in toClient \/ (q.port = t /\ q.p = ACK(0))
        /\ \A u \in Tids : session'[u] = IF u = t THEN s ELSE session[u]
    <3>1. stored' \in [Tids -> Seq(Parts)] /\ s.state # "idle" /\ s.block >= session[t].block
      BY <1>1, <2>2, <2>3 DEF TypeOK
    <3> QED
      BY <2>3, <2>4, <2>5, <3>1, AnswerFacts
  <2>7. ReadNet' /\ NoBlockSkipped' /\ CopyIsExact'
    BY <1>1, <2>2, <2>6 DEF ReadNet, NoBlockSkipped, CopyIsExact, IsCut, call, client
  <2>8. Offset(0 + 1) <= BufferSize
    BY FirstOffset, TftpAssumption DEF TypeOK
  <2>9. WriteNet'
    <3>1. \A u \in Tids :
            /\ session'[u].state # "reading"
            /\ session'[u].state \in {"idle", "writing"} => Len(stored'[u]) = session'[u].block
            /\ session'[u].state = "idle" => session'[u].block = 0
            /\ session'[u].state = "writing" => Offset(session'[u].block + 1) <= BufferSize
      BY <1>1, <2>2, <2>3, <2>6, <2>8 DEF WriteNet
    <3>2. /\ session[t].state \in {"idle", "reading", "writing"}
          /\ s.state # "idle" /\ s.block >= session[t].block
          /\ ACK(0).op # "DATA" /\ (ACK(0).op = "ACK" => ACK(0).block <= s.block)
      BY <1>1, <2>2, <2>3, <2>5
    <3> QED
      BY <2>2, <2>3, <2>5, <2>6, <3>1, <3>2, WriteNetGrows
  <2> QED
    BY <2>6, <2>7, <2>9
<1> QED
  BY <1>2, <1>3 DEF ServerOpen

LEMMA ServerErrorStep ==
  ASSUME IInv, NEW t \in Tids, ServerError(t)
  PROVE  IInv'
<1> USE DEF IInv
<1> DEFINE p == Packet("ERROR", 0, ErrorText(1))
           s == [session[t] EXCEPT !.state = "over"]
<1>1. p \in Packets /\ p.op = "ERROR"
  BY PartType DEF ErrorText, Packet, Packets, Opcodes
<1>2. s \in Sessions /\ s.state = "over" /\ s.block = session[t].block
  BY DEF TypeOK, Sessions
<1>3. Answer(t, p, s) /\ stored' = stored
  BY DEF ServerError
<1>4. session[t].state \in {"idle", "reading", "writing"} /\ session[t].block \in Nat
  BY DEF ServerError, TypeOK
<1> HIDE DEF p, s
<1>5. /\ UNCHANGED <<call, client, toServer>>
      /\ TypeOK' /\ Fresh' /\ TriesLeft' /\ Reading' /\ Writing'
      /\ \A q \in toClient' : q \in toClient \/ (q.port = t /\ q.p = p)
      /\ \A u \in Tids : session'[u] = IF u = t THEN s ELSE session[u]
  <2>1. stored' \in [Tids -> Seq(Parts)]
    BY <1>3 DEF TypeOK
  <2>2. s.state # "idle" /\ s.block >= session[t].block
    BY <1>2, <1>4
  <2> QED
    BY <1>1, <1>2, <1>3, <2>1, <2>2, AnswerFacts
<1>6. ReadNet'
  BY <1>1, <1>2, <1>5 DEF ReadNet, call, client, IsBlock
<1>7. WriteNet'
  BY <1>1, <1>2, <1>3, <1>5 DEF WriteNet, call, client, IsBlock, Closed, TypeOK
<1>8. NoBlockSkipped' /\ CopyIsExact'
  BY <1>2, <1>3, <1>5 DEF NoBlockSkipped, CopyIsExact, IsCut, call, client
<1> QED
  BY <1>5, <1>6, <1>7, <1>8

\* A session that still stores gets the block it waits for, and not a packet that
\* tftpReSync made of a block it has.
LEMMA ServerDataStep ==
  ASSUME IInv, NEW t \in Tids, ServerData(t)
  PROVE  IInv'
<1> USE DEF IInv
<1> DEFINE n == session[t].block + 1
<1>1. /\ mode = "send" /\ session[t].state = "writing"
      /\ session[t].block \in Nat /\ n \in Nat
      /\ BufferSize \in Nat /\ SEGSIZE \in Nat \ {0}
  BY TftpAssumption DEF ServerData, ReadNet, TypeOK
<1>2. PICK q \in toServer :
        /\ q.port = t /\ q.p.op = "DATA" /\ q.p.block = n
        /\ stored' = [stored EXCEPT ![t] = Append(@, q.p.data)]
        /\ Answer(t, ACK(n), [state |-> IF q.p.data.size < SEGSIZE THEN "complete" ELSE "writing",
                              block |-> n])
  BY DEF ServerData
<1>3. IsBlock(q.p, BufferSize)
  BY <1>1, <1>2 DEF WriteNet, Closed
<1>4. /\ Offset(n) <= BufferSize /\ q.p.data = Segment(n, BufferSize) /\ q.p.data \in Parts
      /\ q.p.data.size = Smaller(SEGSIZE, BufferSize - Offset(n))
      /\ Offset(n) \in Nat /\ Offset(n + 1) = Offset(n) + SEGSIZE
  <2>1. n >= 1 /\ Offset(n) <= BufferSize /\ q.p.data = Segment(n, BufferSize)
    BY <1>1, <1>2, <1>3 DEF IsBlock
  <2> HIDE DEF n
  <2> QED
    BY <1>1, <2>1, SegmentType, OffsetFacts
<1>5. /\ stored[t] \in Seq(Parts) /\ Len(stored[t]) = session[t].block
      /\ stored'[t] = Append(stored[t], Segment(n, BufferSize))
      /\ stored' \in [Tids -> Seq(Parts)]
      /\ \A u \in Tids \ {t} : stored'[u] = stored[u]
  BY <1>1, <1>2, <1>4 DEF WriteNet, TypeOK
<1> DEFINE state == IF q.p.data.size < SEGSIZE THEN "complete" ELSE "writing"
           s == [state |-> state, block |-> n]
<1>6. s \in Sessions /\ s.state = state /\ s.block = n
  BY <1>1, SessionType
<1>7. Answer(t, ACK(n), s)
  BY <1>2
<1>8. ACK(n) \in Packets /\ ACK(n).op = "ACK" /\ ACK(n).block = n
  BY <1>1, PacketTypes
<1>9. state \in {"complete", "writing"} /\ (state = "writing" => Offset(n + 1) <= BufferSize)
  BY <1>1, <1>4 DEF Smaller
<1> HIDE DEF s, state
<1>10. s.state # "idle" /\ s.block >= session[t].block
  BY <1>1, <1>6, <1>9
<1> HIDE DEF n
<1>11. /\ UNCHANGED <<call, client, toServer>>
       /\ TypeOK' /\ Fresh' /\ TriesLeft' /\ Reading' /\ Writing'
       /\ \A r \in toClient' : r \in toClient \/ (r.port = t /\ r.p = ACK(n))
       /\ \A u \in Tids : session'[u] = IF u = t THEN s ELSE session[u]
  BY <1>5, <1>6, <1>7, <1>8, <1>10, AnswerFacts
<1>12. ReadNet' /\ NoBlockSkipped'
  BY <1>1, <1>11 DEF ReadNet, NoBlockSkipped, call, client
<1>13. Len(stored'[t]) = n
  BY <1>1, <1>5 DEF n
<1>14. CopyIsExact'
  <2>1. \A u \in Tids : IsCut(stored[u], BufferSize)
    BY <1>1 DEF CopyIsExact
  <2>2. \A i \in 1 .. n : stored'[t][i] = IF i = n THEN Segment(n, BufferSize) ELSE stored[t][i]
    BY <1>1, <1>5 DEF n
  <2>3. \A i \in 1 .. n : i = n \/ i \in 1 .. Len(stored[t])
    BY <1>1, <1>5 DEF n
  <2>4. \A i \in 1 .. n : Offset(i) <= BufferSize /\ stored'[t][i] = Segment(i, BufferSize)
    BY <1>4, <2>1, <2>2, <2>3 DEF IsCut
  <2>5. IsCut(stored'[t], BufferSize)
    BY <1>13, <2>4 DEF IsCut
  <2> QED
    <3>1. mode' = "send" /\ BufferSize' = BufferSize
      BY <1>1, <1>11 DEF call
    <3>2. \A u \in Tids : IsCut(stored'[u], BufferSize)
      BY <1>5, <2>1, <2>5
    <3>3. \A u \in Tids : IsCut(stored[u], BufferSize)' = IsCut(stored'[u], BufferSize)
      BY <3>1 DEF IsCut
    <3> QED
      BY <3>1, <3>2, <3>3 DEF CopyIsExact
<1>15. WriteNet'
  <2>1. \A u \in Tids :
          /\ session'[u].state # "reading"
          /\ session'[u].state \in {"idle", "writing"} => Len(stored'[u]) = session'[u].block
          /\ session'[u].state = "idle" => session'[u].block = 0
          /\ session'[u].state = "writing" => Offset(session'[u].block + 1) <= BufferSize
    BY <1>1, <1>5, <1>6, <1>9, <1>10, <1>11, <1>13 DEF WriteNet
  <2>2. /\ session[t].state \in {"idle", "reading", "writing"}
        /\ ACK(n).op # "DATA" /\ (ACK(n).op = "ACK" => ACK(n).block <= s.block)
    BY <1>1, <1>6, <1>8
  <2> QED
    BY <1>1, <1>6, <1>8, <1>10, <1>11, <2>1, <2>2, WriteNetGrows
<1> QED
  BY <1>11, <1>12, <1>14, <1>15

-------------------------------------------------------------------------------
(* The theorems *)

LEMMA NextIInv ==
  ASSUME IInv, [Next]_vars
  PROVE  IInv'
<1>1. CASE Client
  <2>1. CASE GetFile \/ SendFile
    BY <2>1, GetFileStep, SendFileStep
  <2>2. CASE Timeout \/ SocketError
    BY <2>2, TimeoutStep, SocketErrorStep
  <2>3. ASSUME NEW q \in toClient \cup Strays, ReadPacket(q) \/ DropPacket(q)
        PROVE  IInv'
    BY <2>3, ReadPacketStep, SocketErrorStep
  <2> QED
    BY <1>1, <2>1, <2>2, <2>3 DEF Client
<1>2. CASE Server
  <2>1. PICK t \in Tids : ServerOpen(t) \/ ServerAck(t) \/ ServerData(t) \/ ServerError(t)
    BY <1>2 DEF Server
  <2> QED
    BY <2>1, ServerOpenStep, ServerAckStep, ServerDataStep, ServerErrorStep
<1>3. CASE UNCHANGED vars
  BY <1>3 DEF vars, call, client, server, IInv, TypeOK, Fresh, TriesLeft, Reading, ReadNet,
              NoBlockSkipped, Writing, WriteNet, CopyIsExact, IsCut, IsBlock, Closed
<1> QED
  BY <1>1, <1>2, <1>3 DEF Next

LEMMA AlwaysIInv == Spec => []IInv
<1>1. Init => IInv
  BY InitIInv
<1>2. IInv /\ [Next]_vars => IInv'
  BY NextIInv
<1> QED
  BY <1>1, <1>2, PTL DEF Spec

\* The types hold for any network and any server of the model: the expected block
\* stays below the modulus, the copied bytes within the caller's buffer, and a
\* running call never counts MaxSyncError below zero.
THEOREM TypeCorrect == Spec => []TypeOK
<1>1. IInv => TypeOK
  BY DEF IInv
<1> QED
  BY <1>1, AlwaysIInv, PTL

\* Whatever is lost, doubled, late or sent by strangers, what sl_TftpRecv has in the
\* buffer and what a session of the server has stored for sl_TftpSend is the
\* beginning of the file, in order and without a gap.
THEOREM CopyExact == Spec => []CopyIsExact
<1>1. IInv => CopyIsExact
  BY DEF IInv
<1> QED
  BY <1>1, AlwaysIInv, PTL

\* tftpReSync never acknowledges a block the client has not read, so no session of
\* the server gets past the block the client expects.
THEOREM ServerNotAhead == Spec => []NoBlockSkipped
<1>1. IInv => NoBlockSkipped
  BY DEF IInv
<1> QED
  BY <1>1, AlwaysIInv, PTL

-------------------------------------------------------------------------------
(* The copy: what has been stored and sent *)

\* A session has stored as many blocks as it has acknowledged.
StoredBlocks == mode = "send" => \A t \in Tids : Len(stored[t]) = session[t].block

\* Before the first acknowledgement no session has been sent data.
NothingSent ==
  mode = "send" /\ result \in {"idle", "running"} /\ NextBlock = 0 =>
    /\ \A q \in toServer : q.port = PORT_TFTP
    /\ \A t \in Tids : Len(stored[t]) = 0

\* What the session of the peer has stored when success is returned.
SentAll ==
  mode = "send" =>
    /\ result # "short"
    /\ result = "whole" =>
         peerPort \in Tids /\ BufferSize <= Offset(session[peerPort].block + 1)

CopyInv == StoredBlocks /\ NothingSent /\ SentAll

LEMMA NextOffset ==
  ASSUME NEW a \in Nat, NEW b \in Nat, a <= b
  PROVE  /\ Offset(a + 1) <= Offset(b + 1)
         /\ Offset(a + 1) \in Nat /\ Offset(b + 1) \in Nat
<1>1. a + 1 \in Nat /\ b + 1 \in Nat /\ a + 1 <= b + 1
  OBVIOUS
<1> QED
  BY <1>1, OffsetFacts

LEMMA OffsetNat ==
  ASSUME NEW a \in Nat
  PROVE  Offset(a + 1) \in Nat
<1>1. a <= a
  OBVIOUS
<1> QED
  BY <1>1, NextOffset

-------------------------------------------------------------------------------
(* The copy: the steps of the client *)

LEMMA RequestCopy ==
  ASSUME IInv, CopyInv, GetFile \/ SendFile
  PROVE  CopyInv'
<1>1. CASE GetFile
  BY <1>1 DEF GetFile, Request, call, CopyInv, StoredBlocks, NothingSent, SentAll
<1>2. CASE SendFile
  <2>1. Send(PORT_TFTP, WRQ, "running") /\ UNCHANGED <<call, server>> /\ mode = "send"
    BY <1>2 DEF SendFile, Request
  <2>2. toServer = {} /\ \A t \in Tids : Len(stored[t]) = 0
    BY <1>2, <2>1 DEF SendFile, Request, IInv, Fresh, CopyInv, NothingSent
  <2>3. /\ \A q \in toServer' : q.port = PORT_TFTP
        /\ result' \in {"running", "socket"}
    BY <2>1, <2>2, SendFacts, PacketTypes DEF IInv
  <2> QED
    BY <2>1, <2>2, <2>3 DEF call, server, CopyInv, StoredBlocks, NothingSent, SentAll
<1> QED
  BY <1>1, <1>2

LEMMA ReSyncCopy ==
  ASSUME IInv, CopyInv, result = "running",
         NEW length \in Nat, length = 0 \/ length >= TFTP_HEADER,
         NEW held \in {"none"} \cup Opcodes, ReSync(length, held), UNCHANGED <<call, server>>
  PROVE  CopyInv'
<1>1. NextBlock \in 0 .. BlockMod - 1 /\ BlockMod \in Nat /\ BlockMod > 2
  BY BlockModFact DEF IInv, TypeOK
<1>2. (NextBlock - 1) % BlockMod \in Nat
  BY <1>1
<1>3. /\ result' \in {"running", "failed", "socket"}
      /\ \A q \in toServer' : q \in toServer \/ q.port = peerPort
  BY <1>2, ReSyncSends DEF IInv
<1>4. UNCHANGED <<NextBlock, peerPort>>
  BY DEF ReSync
<1>5. mode = "send" /\ NextBlock = 0 => peerPort = PORT_TFTP
  BY DEF IInv, Writing
<1> QED
  BY <1>3, <1>4, <1>5 DEF call, server, CopyInv, StoredBlocks, NothingSent, SentAll

\* The end of a call that failed.
LEMMA FailCopy ==
  ASSUME IInv, CopyInv,
         SocketError \/ (\E q \in toClient \cup Strays : DropPacket(q))
           \/ (\E q \in toClient \cup Strays : ReadError(q) /\ UNCHANGED <<call, server>>)
  PROVE  CopyInv'
<1>1. /\ UNCHANGED <<call, server, toServer, NextBlock, peerPort>>
      /\ result' = result \/ result' \in {"socket", "reply"}
  BY DEF SocketError, DropPacket, ReadError
<1> QED
  BY <1>1 DEF call, server, CopyInv, StoredBlocks, NothingSent, SentAll

\* The acknowledgement of everything comes from a session that has it.
LEMMA AckFacts ==
  ASSUME IInv, NEW q \in toClient, result = "running", FromPeer(q), ReadAck(q)
  PROVE  /\ mode = "send" /\ q.port \in Tids /\ peerPort' = q.port
         /\ NextBlock \in Nat /\ NextBlock + 1 < BlockMod /\ NextBlock' = NextBlock + 1
         /\ NextBlock = 0 => peerPort = PORT_TFTP
         /\ NextBlock # 0 => peerPort = q.port
         /\ result' \in {"running", "whole", "socket"}
         /\ result' = "whole" => BufferSize <= Offset(session[q.port].block + 1)
<1> USE DEF IInv
<1>1. mode = "send" /\ q.p.op = "ACK" /\ q.p.block = NextBlock /\ q.port \in Tids
  BY DEF ReadAck, ReadNet, TypeOK
<1>2. /\ BufferSize \in Nat /\ SEGSIZE \in Nat \ {0} /\ BlockMod \in Nat
      /\ NextBlock \in 0 .. BlockMod - 1 /\ BufferUsed \in 0 .. BufferSize
  BY TftpAssumption DEF TypeOK
<1>3. /\ NextBlock = 0 => peerPort = PORT_TFTP
      /\ NextBlock # 0 => peerPort = q.port
  BY <1>1, TftpAssumption DEF Writing, FromPeer
<1>4. peerPort' = q.port
  BY <1>3 DEF ReadAck
<1>5. NextBlock <= session[q.port].block /\ session[q.port].block \in Nat
  BY <1>1 DEF WriteNet, TypeOK
<1>6. Offset(NextBlock + 1) \in Nat /\ BufferUsed = Smaller(Offset(NextBlock + 1), BufferSize)
  <2>1. Offset(NextBlock + 1) \in Nat
    BY <1>2, OffsetNat
  <2>2. CASE NextBlock = 0
    BY <1>1, <1>2, <2>2, FirstOffset DEF Writing, Smaller
  <2>3. CASE NextBlock # 0
    BY <1>1, <2>1, <2>3 DEF Writing
  <2> QED
    BY <2>1, <2>2, <2>3
<1>7. Offset(NextBlock + 1) <= Offset(session[q.port].block + 1)
  BY <1>2, <1>5, NextOffset
<1>8. Offset(session[q.port].block + 1) \in Nat
  BY <1>5, OffsetNat
<1>9. BufferUsed = BufferSize => BufferSize <= Offset(session[q.port].block + 1)
  BY <1>2, <1>6, <1>7, <1>8 DEF Smaller
<1>10. Offset(NextBlock) <= BufferSize
  <2>1. CASE NextBlock = 0
    BY <1>2, <2>1 DEF Offset
  <2>2. CASE NextBlock # 0
    BY <1>1, <2>2 DEF Writing
  <2> QED
    BY <2>1, <2>2
<1>11. NextBlock + 1 < BlockMod /\ NextBlock' = NextBlock + 1
  <2>1. NextBlock + 1 < BlockMod /\ (NextBlock + 1) % BlockMod = NextBlock + 1
    BY <1>2, <1>10, NoWrap DEF TypeOK
  <2> QED
    BY <2>1 DEF ReadAck
<1>12. result' \in {"running", "whole", "socket"} /\ (result' = "whole" => BufferUsed = BufferSize)
  BY DEF ReadAck, Send
<1> QED
  BY <1>1, <1>2, <1>3, <1>4, <1>9, <1>11, <1>12

LEMMA ReadCopy ==
  ASSUME IInv, CopyInv, NEW q \in toClient \cup Strays, ReadPacket(q)
  PROVE  CopyInv'
<1>1. q \in toClient /\ result = "running" /\ FromPeer(q) /\ UNCHANGED <<call, server>>
  BY FromServer DEF ReadPacket
<1>2. CASE ReadWrongBlock(q)
  <2>1. q.p.data.size \in Nat /\ q.p.op \in Opcodes
    BY <1>1 DEF IInv, TypeOK, Packets, Parts
  <2> DEFINE length == q.p.data.size + TFTP_HEADER
  <2>2. length \in Nat /\ length >= TFTP_HEADER
    BY <2>1 DEF TFTP_HEADER
  <2>3. ReSync(length, q.p.op)
    BY <1>2 DEF ReadWrongBlock
  <2> HIDE DEF length
  <2> QED
    BY <1>1, <2>1, <2>2, <2>3, ReSyncCopy
<1>3. CASE ReadData(q)
  <2>1. mode = "recv"
    BY <1>1, <1>3 DEF IInv, ReadData, WriteNet, TypeOK
  <2> QED
    BY <1>1, <2>1 DEF call, CopyInv, StoredBlocks, NothingSent, SentAll
<1>4. CASE ReadAck(q)
  <2>1. /\ peerPort' = q.port /\ q.port \in Tids /\ NextBlock' # 0
        /\ result' \in {"running", "whole", "socket"}
        /\ result' = "whole" => BufferSize <= Offset(session[q.port].block + 1)
    BY <1>1, <1>4, AckFacts
  <2> QED
    BY <1>1, <2>1 DEF call, server, CopyInv, StoredBlocks, NothingSent, SentAll
<1>5. CASE ReadError(q)
  BY <1>1, <1>5, FailCopy
<1> QED
  BY <1>2, <1>3, <1>4, <1>5 DEF ReadPacket

LEMMA ClientCopy ==
  ASSUME IInv, CopyInv, Client
  PROVE  CopyInv'
<1>1. CASE Timeout
  <2>1. opcode \in {"none"} \cup Opcodes
    BY DEF IInv, TypeOK
  <2> QED
    BY <1>1, <2>1, ReSyncCopy DEF Timeout
<1> QED
  BY <1>1, RequestCopy, FailCopy, ReadCopy DEF Client

-------------------------------------------------------------------------------
(* The copy: the steps of the server *)

\* What a step of the server does to the session and to what it has stored.
LEMMA ServerFacts ==
  ASSUME IInv, NEW t \in Tids,
         ServerOpen(t) \/ ServerAck(t) \/ ServerData(t) \/ ServerError(t)
  PROVE  /\ UNCHANGED <<call, client, toServer>>
         /\ \A u \in Tids : u # t => session'[u] = session[u] /\ stored'[u] = stored[u]
         /\ mode = "send" =>
              \/ session'[t].block = session[t].block /\ stored'[t] = stored[t]
              \/ /\ session'[t].block = session[t].block + 1
                 /\ Len(stored'[t]) = Len(stored[t]) + 1
                 /\ \E q \in toServer : q.port = t
<1> USE DEF IInv
<1>1. UNCHANGED <<call, client, toServer>>
  BY DEF ServerOpen, ServerAck, ServerData, ServerError, Answer
<1>2. \A u \in Tids : u # t => session'[u] = session[u] /\ stored'[u] = stored[u]
  BY DEF ServerOpen, ServerAck, ServerData, ServerError, Answer, TypeOK
<1>3. ASSUME mode = "send", ServerOpen(t)
      PROVE  session'[t].block = session[t].block /\ stored'[t] = stored[t]
  <2>1. session[t].block = 0
    BY <1>3 DEF ServerOpen, WriteNet
  <2>2. session'[t].block = 0
    <3>1. \A q \in toServer : q.port = PORT_TFTP => q.p.op # "RRQ"
      BY <1>3 DEF WriteNet
    <3>2. To(PORT_TFTP, RRQ) \notin toServer
      BY <3>1, PacketTypes DEF To
    <3>3. session' = [session EXCEPT ![t] = [state |-> "writing", block |-> 0]]
      BY <1>3, <3>2 DEF ServerOpen, Answer
    <3> QED
      BY <3>3 DEF TypeOK
  <2> QED
    BY <1>3, <2>1, <2>2 DEF ServerOpen
<1>4. ASSUME mode = "send"
      PROVE  ~ ServerAck(t)
  BY <1>4 DEF ServerAck, WriteNet
<1>5. ASSUME ServerError(t)
      PROVE  session'[t].block = session[t].block /\ stored'[t] = stored[t]
  BY <1>5 DEF ServerError, Answer, TypeOK
<1>6. ASSUME ServerData(t)
      PROVE  /\ session'[t].block = session[t].block + 1
             /\ Len(stored'[t]) = Len(stored[t]) + 1
             /\ \E q \in toServer : q.port = t
  <2>1. PICK q \in toServer :
          /\ q.port = t
          /\ stored' = [stored EXCEPT ![t] = Append(@, q.p.data)]
          /\ Answer(t, ACK(session[t].block + 1),
                    [state |-> IF q.p.data.size < SEGSIZE THEN "complete" ELSE "writing",
                     block |-> session[t].block + 1])
    BY <1>6 DEF ServerData
  <2>2. session'[t].block = session[t].block + 1
    BY <2>1 DEF Answer, TypeOK
  <2>3. q.p.data \in Parts /\ stored[t] \in Seq(Parts) /\ stored'[t] = Append(stored[t], q.p.data)
    BY <2>1 DEF TypeOK, Packets
  <2>4. Len(stored'[t]) = Len(stored[t]) + 1
    BY <2>3
  <2> QED
    BY <2>1, <2>2, <2>4
<1> QED
  BY <1>1, <1>2, <1>3, <1>4, <1>5, <1>6

LEMMA ServerCopy ==
  ASSUME IInv, CopyInv, Server
  PROVE  CopyInv'
<1>1. PICK t \in Tids : ServerOpen(t) \/ ServerAck(t) \/ ServerData(t) \/ ServerError(t)
  BY DEF Server
<1>2. /\ UNCHANGED <<call, client, toServer>>
      /\ \A u \in Tids : u # t => session'[u] = session[u] /\ stored'[u] = stored[u]
      /\ mode = "send" =>
           \/ session'[t].block = session[t].block /\ stored'[t] = stored[t]
           \/ /\ session'[t].block = session[t].block + 1
              /\ Len(stored'[t]) = Len(stored[t]) + 1
              /\ \E q \in toServer : q.port = t
  BY <1>1, ServerFacts
<1>3. \A u \in Tids : session[u].block \in Nat /\ stored[u] \in Seq(Parts)
  BY DEF IInv, TypeOK
<1>4. StoredBlocks'
  BY <1>2, <1>3 DEF CopyInv, StoredBlocks, call
<1>5. NothingSent'
  BY <1>2, TftpAssumption DEF CopyInv, NothingSent, call, client
<1>6. SentAll'
  <2> SUFFICES ASSUME mode = "send", result = "whole"
               PROVE  peerPort \in Tids /\ BufferSize <= Offset(session'[peerPort].block + 1)
    BY <1>2 DEF CopyInv, SentAll, call, client
  <2>1. peerPort \in Tids /\ BufferSize <= Offset(session[peerPort].block + 1)
    BY DEF CopyInv, SentAll
  <2>2. /\ session'[peerPort].block \in {session[peerPort].block, session[peerPort].block + 1}
        /\ session[peerPort].block \in Nat /\ BufferSize \in Nat
    BY <1>2, <1>3, <2>1, TftpAssumption DEF IInv, TypeOK
  <2>3. /\ Offset(session[peerPort].block + 1) <= Offset(session'[peerPort].block + 1)
        /\ Offset(session[peerPort].block + 1) \in Nat
        /\ Offset(session'[peerPort].block + 1) \in Nat
    <3> DEFINE a == session[peerPort].block
               b == session'[peerPort].block
    <3>1. a \in Nat /\ b \in Nat /\ a <= b
      BY <2>2
    <3> HIDE DEF a, b
    <3>2. Offset(a + 1) <= Offset(b + 1) /\ Offset(a + 1) \in Nat /\ Offset(b + 1) \in Nat
      BY <3>1, NextOffset
    <3> QED
      BY <3>2 DEF a, b
  <2> QED
    BY <2>1, <2>2, <2>3
<1> QED
  BY <1>4, <1>5, <1>6 DEF CopyInv

LEMMA AlwaysCopyInv == Spec => []CopyInv
<1>1. Init => CopyInv
  BY DEF Init, NoSession, CopyInv, StoredBlocks, NothingSent, SentAll
<1>2. IInv /\ CopyInv /\ [Next]_vars => CopyInv'
  <2>1. ASSUME CopyInv, UNCHANGED vars
        PROVE  CopyInv'
    BY <2>1 DEF vars, call, client, server, CopyInv, StoredBlocks, NothingSent, SentAll
  <2> QED
    BY <2>1, ClientCopy, ServerCopy DEF Next
<1> QED
  BY <1>1, <1>2, AlwaysIInv, PTL DEF Spec

-------------------------------------------------------------------------------
(* The copy: the refinement *)

Size == IF mode = "recv" THEN FileLen ELSE BufferSize
Outcome == IF result = "idle" THEN "running" ELSE result

\* The bytes that count as copied are a beginning of the file.
LEMMA CopiedFacts ==
  ASSUME IInv
  PROVE  /\ Size \in Nat /\ BufferSize \in Nat /\ SEGSIZE \in Nat
         /\ Copied \in Nat
         /\ mode = "send" => Copied <= Size
<1>1. /\ FileLen \in Nat /\ BufferSize \in Nat /\ SEGSIZE \in Nat /\ FileSize \in Nat
      /\ mode \in {"recv", "send"} /\ peerPort \in Tids \cup {PORT_TFTP}
  BY TftpAssumption DEF IInv, TypeOK
<1>2. ASSUME mode = "send", peerPort # PORT_TFTP
      PROVE  Offset(Len(stored[peerPort]) + 1) \in Nat
  <2>1. Len(stored[peerPort]) \in Nat
    BY <1>1, <1>2 DEF IInv, TypeOK
  <2> QED
    BY <2>1, OffsetNat
<1>3. Size \in Nat
  BY <1>1 DEF Size
<1>4. CASE mode = "recv"
  BY <1>1, <1>3, <1>4 DEF Copied
<1>5. CASE mode = "send"
  <2>1. Copied = IF peerPort = PORT_TFTP THEN 0
                 ELSE Smaller(Offset(Len(stored[peerPort]) + 1), BufferSize)
    BY <1>5 DEF Copied
  <2> QED
    BY <1>1, <1>2, <1>3, <1>5, <2>1 DEF Size, Smaller
<1> QED
  BY <1>1, <1>3, <1>4, <1>5

\* One block more is at most a segment more.
LEMMA BlockMore ==
  ASSUME NEW a \in Nat, NEW b \in {a, a + 1}, NEW size \in Nat
  PROVE  Smaller(Offset(b + 1), size) \in
           Smaller(Offset(a + 1), size) .. Smaller(Offset(a + 1), size) + SEGSIZE
<1>1. SEGSIZE \in Nat /\ Offset(a + 1) \in Nat /\ Offset((a + 1) + 1) = Offset(a + 1) + SEGSIZE
  BY TftpAssumption, OffsetFacts
<1>2. Offset(b + 1) \in {Offset(a + 1), Offset(a + 1) + SEGSIZE}
  BY <1>1
<1> QED
  BY <1>1, <1>2 DEF Smaller

\* Nothing that FileCopy sees.
LEMMA CopyStutter ==
  ASSUME UNCHANGED <<Size, BufferSize, Copied, Outcome>>
  PROVE  [Copy!Next]_Copy!vars
BY DEF Copy!vars, Size, Outcome

LEMMA CopyProceed ==
  ASSUME IInv, result \in {"idle", "running"}, UNCHANGED call,
         Copied' \in Copied .. Copied + SEGSIZE, Copied' <= Size,
         \/ result' \in {"idle", "running"} \cup Errors
         \/ Copied' = Size /\ result' = IF BufferSize < Size THEN "short" ELSE "whole"
  PROVE  [Copy!Next]_Copy!vars
<1>1. UNCHANGED <<Size, BufferSize>>
  BY DEF call, Size
<1>2. Outcome = "running" /\ Outcome' = IF result' = "idle" THEN "running" ELSE result'
  BY DEF Outcome
<1>3. /\ Outcome = "running"
      /\ Copied' \in Copied .. Copied + SEGSIZE
      /\ Copied' <= Size
      /\ \/ Outcome' \in {"running"} \cup Errors
         \/ Copied' = Size /\ Outcome' = IF BufferSize < Size THEN "short" ELSE "whole"
      /\ UNCHANGED <<Size, BufferSize>>
  BY <1>1, <1>2
<1>4. Copy!Proceed
  BY <1>3 DEF Copy!Proceed, Copy!Success, Copy!Errors, Errors, Size, Outcome
<1> QED
  BY <1>4 DEF Copy!Next

\* A step of the client that copies nothing.
LEMMA QuietClient ==
  ASSUME IInv, IInv', result \in {"idle", "running"}, result' \in {"idle", "running"} \cup Errors,
         UNCHANGED <<call, server, FileSize, peerPort>>
  PROVE  [Copy!Next]_Copy!vars
<1>1. Copied' = Copied
  BY DEF Copied, call, server
<1>2. CASE mode = "send"
  BY <1>1, <1>2, CopiedFacts, CopyProceed
<1>3. CASE mode = "recv"
  <2>1. CASE result' = "idle" \/ result' = "running"
    BY <1>1, <2>1, CopyStutter DEF call, Size, Outcome
  <2>2. CASE result' \in Errors
    <3>1. FileSize <= FileLen
      BY <1>3, TftpAssumption DEF IInv, Fresh, Reading, TypeOK
    <3> QED
      BY <1>1, <1>3, <2>2, <3>1, CopiedFacts, CopyProceed DEF Copied, Size
  <2> QED
    BY <2>1, <2>2
<1> QED
  BY <1>2, <1>3 DEF IInv, TypeOK

LEMMA ReSyncRefines ==
  ASSUME IInv, IInv', result = "running",
         NEW length \in Nat, length = 0 \/ length >= TFTP_HEADER,
         NEW held \in {"none"} \cup Opcodes, ReSync(length, held), UNCHANGED <<call, server>>
  PROVE  [Copy!Next]_Copy!vars
<1>1. NextBlock \in 0 .. BlockMod - 1 /\ BlockMod \in Nat /\ BlockMod > 2
  BY BlockModFact DEF IInv, TypeOK
<1>2. (NextBlock - 1) % BlockMod \in Nat
  BY <1>1
<1>3. result' \in {"running", "failed", "socket"}
  BY <1>2, ReSyncSends DEF IInv
<1>4. UNCHANGED <<FileSize, peerPort>>
  BY DEF ReSync
<1> QED
  BY <1>3, <1>4, QuietClient DEF Errors

\* The file is complete with the block that is not full.
LEMMA ReadDataRefines ==
  ASSUME IInv, NEW q \in toClient, result = "running", ReadData(q), UNCHANGED <<call, server>>
  PROVE  [Copy!Next]_Copy!vars
<1> USE DEF IInv
<1>1. mode = "recv" /\ q.p.op = "DATA" /\ q.p.block = NextBlock
  BY DEF ReadData, WriteNet, TypeOK
<1>2. /\ FileLen \in Nat /\ BufferSize \in Nat /\ SEGSIZE \in Nat \ {0} /\ NextBlock \in Nat
  BY TftpAssumption DEF TypeOK
<1> DEFINE n == NextBlock
           size == q.p.data.size
<1>3. /\ n >= 1 /\ Offset(n) \in Nat /\ Offset(n) <= FileLen
      /\ FileSize = Offset(n) /\ BufferUsed = Smaller(Offset(n), BufferSize)
  BY <1>1, <1>2, OffsetFacts DEF Reading
<1>4. size = Smaller(SEGSIZE, FileLen - Offset(n)) /\ size \in 0 .. SEGSIZE
  BY <1>1, <1>2, <1>3, SegmentType DEF ReadNet, IsBlock
<1>5. FileSize' = FileSize + size
  BY DEF ReadData
<1> DEFINE rc == IF size < SEGSIZE THEN Received(size) ELSE "running"
<1>6. result' \in {rc, "socket"}
  BY DEF ReadData, Send
<1>7. size < SEGSIZE => FileSize' = FileLen
  BY <1>2, <1>3, <1>4, <1>5 DEF Smaller
<1>8. size < SEGSIZE => Received(size) = IF BufferSize < FileLen THEN "short" ELSE "whole"
  <2> SUFFICES ASSUME size < SEGSIZE
               PROVE  BufferUsed + CopySize(size) < FileSize + size <=> BufferSize < FileLen
    BY DEF Received
  <2>1. FileSize + size = FileLen
    BY <1>5, <1>7
  <2>2. BufferUsed + CopySize(size) = Smaller(FileLen, BufferSize)
    BY <1>2, <1>3, <1>4, <2>1 DEF CopySize, Smaller
  <2> QED
    BY <1>2, <2>1, <2>2 DEF Smaller
<1>9. Copied = FileSize /\ Copied' = FileSize' /\ Size = FileLen
  BY <1>1 DEF Copied, call, Size
<1>10. Copied' \in Copied .. Copied + SEGSIZE /\ Copied' <= Size
  BY <1>2, <1>3, <1>4, <1>5, <1>9 DEF Smaller
<1> HIDE DEF size, n
<1>11. \/ result' \in {"idle", "running"} \cup Errors
       \/ Copied' = Size /\ result' = IF BufferSize < Size THEN "short" ELSE "whole"
  BY <1>6, <1>7, <1>8, <1>9 DEF Errors
<1> QED
  BY <1>10, <1>11, CopyProceed

\* The first acknowledgement makes a session the one that counts; it has stored
\* nothing yet. The last one comes from a session that has stored the file.
LEMMA ReadAckRefines ==
  ASSUME IInv, CopyInv, NEW q \in toClient, result = "running", FromPeer(q), ReadAck(q),
         UNCHANGED <<call, server>>
  PROVE  [Copy!Next]_Copy!vars
<1>1. /\ mode = "send" /\ q.port \in Tids /\ peerPort' = q.port
      /\ NextBlock = 0 => peerPort = PORT_TFTP
      /\ NextBlock # 0 => peerPort = q.port
      /\ result' \in {"running", "whole", "socket"}
      /\ result' = "whole" => BufferSize <= Offset(session[q.port].block + 1)
  BY AckFacts
<1>2. q.port # PORT_TFTP /\ SEGSIZE \in Nat /\ BufferSize \in Nat
  BY <1>1, TftpAssumption DEF IInv, TypeOK
<1> DEFINE m == Len(stored[q.port])
<1>3. m \in Nat /\ m = session[q.port].block
  BY <1>1 DEF CopyInv, StoredBlocks, IInv, TypeOK
<1>4. Copied' = Smaller(Offset(m + 1), BufferSize) /\ Size = BufferSize
  BY <1>1, <1>2 DEF Copied, call, server, Size
<1>5. Offset(m + 1) \in Nat
  BY <1>3, OffsetNat
<1>6. Copied' = Copied
  <2>1. CASE NextBlock = 0
    <3>1. m = 0 /\ Copied = 0
      BY <1>1, <2>1 DEF CopyInv, NothingSent, Copied
    <3> QED
      BY <1>2, <1>4, <3>1, FirstOffset DEF Smaller
  <2>2. CASE NextBlock # 0
    BY <1>1, <1>2, <1>4, <2>2 DEF Copied
  <2> QED
    BY <2>1, <2>2
<1>7. result' = "whole" => Copied' = Size
  BY <1>1, <1>2, <1>3, <1>4, <1>5 DEF Smaller
<1> HIDE DEF m
<1>8. \/ result' \in {"idle", "running"} \cup Errors
      \/ Copied' = Size /\ result' = IF BufferSize < Size THEN "short" ELSE "whole"
  BY <1>1, <1>2, <1>4, <1>7 DEF Errors
<1>9. Copied' \in Copied .. Copied + SEGSIZE /\ Copied' <= Size
  BY <1>1, <1>2, <1>6, CopiedFacts
<1> QED
  BY <1>8, <1>9, CopyProceed

LEMMA ClientRefines ==
  ASSUME IInv, IInv', CopyInv, Client
  PROVE  [Copy!Next]_Copy!vars
<1>1. CASE GetFile \/ SendFile
  <2>1. /\ UNCHANGED <<call, server, FileSize, peerPort>>
        /\ result = "idle" /\ result' \in {"running", "socket"}
    BY <1>1 DEF GetFile, SendFile, Request, Send
  <2> QED
    BY <2>1, QuietClient DEF Errors
<1>2. CASE Timeout
  <2>1. opcode \in {"none"} \cup Opcodes
    BY DEF IInv, TypeOK
  <2> QED
    BY <1>2, <2>1, ReSyncRefines DEF Timeout
<1>3. CASE SocketError \/ \E q \in toClient \cup Strays : DropPacket(q)
  <2>1. /\ UNCHANGED <<call, server, FileSize, peerPort>>
        /\ result = "running" /\ result' \in {"running", "socket"}
    BY <1>3 DEF SocketError, DropPacket
  <2> QED
    BY <2>1, QuietClient DEF Errors
<1>4. ASSUME NEW q \in toClient \cup Strays, ReadPacket(q)
      PROVE  [Copy!Next]_Copy!vars
  <2>1. q \in toClient /\ result = "running" /\ FromPeer(q) /\ UNCHANGED <<call, server>>
    BY <1>4, FromServer DEF ReadPacket
  <2>2. CASE ReadWrongBlock(q)
    <3>1. q.p.data.size \in Nat /\ q.p.op \in Opcodes
      BY <2>1 DEF IInv, TypeOK, Packets, Parts
    <3> DEFINE length == q.p.data.size + TFTP_HEADER
    <3>2. length \in Nat /\ length >= TFTP_HEADER
      BY <3>1 DEF TFTP_HEADER
    <3>3. ReSync(length, q.p.op)
      BY <2>2 DEF ReadWrongBlock
    <3> HIDE DEF length
    <3> QED
      BY <2>1, <3>1, <3>2, <3>3, ReSyncRefines
  <2>3. CASE ReadError(q)
    <3>1. UNCHANGED <<FileSize, peerPort>> /\ result' = "reply"
      BY <2>3 DEF ReadError
    <3> QED
      BY <2>1, <3>1, QuietClient DEF Errors
  <2> QED
    BY <1>4, <2>1, <2>2, <2>3, ReadDataRefines, ReadAckRefines DEF ReadPacket
<1> QED
  BY <1>1, <1>2, <1>3, <1>4 DEF Client

\* A block that the session of the peer stores: during the call, or late.
LEMMA ServerRefines ==
  ASSUME IInv, IInv', CopyInv, Server
  PROVE  [Copy!Next]_Copy!vars
<1>1. PICK t \in Tids : ServerOpen(t) \/ ServerAck(t) \/ ServerData(t) \/ ServerError(t)
  BY DEF Server
<1>2. /\ UNCHANGED <<call, client, toServer>>
      /\ \A u \in Tids : u # t => session'[u] = session[u] /\ stored'[u] = stored[u]
      /\ mode = "send" =>
           \/ session'[t].block = session[t].block /\ stored'[t] = stored[t]
           \/ /\ session'[t].block = session[t].block + 1
              /\ Len(stored'[t]) = Len(stored[t]) + 1
              /\ \E q \in toServer : q.port = t
  BY <1>1, ServerFacts
<1>3. UNCHANGED <<Size, BufferSize, Outcome, result, peerPort, mode>>
  BY <1>2 DEF call, client, Size, Outcome
<1>4. CASE mode = "recv" \/ peerPort = PORT_TFTP
  <2>1. Copied' = Copied
    BY <1>2, <1>4 DEF Copied, call, client
  <2> QED
    BY <1>3, <2>1, CopyStutter
<1>5. CASE mode = "send" /\ peerPort # PORT_TFTP
  <2>1. peerPort \in Tids /\ BufferSize \in Nat /\ SEGSIZE \in Nat /\ Size = BufferSize
    BY <1>5, TftpAssumption DEF IInv, TypeOK, Size
  <2> DEFINE a == Len(stored[peerPort])
             b == Len(stored'[peerPort])
  <2>2. a \in Nat /\ b \in {a, a + 1} /\ a = session[peerPort].block
    <3>1. a \in Nat /\ a = session[peerPort].block
      BY <1>5, <2>1 DEF IInv, TypeOK, CopyInv, StoredBlocks
    <3>2. stored'[peerPort] = stored[peerPort] \/ b = a + 1
      BY <1>2, <1>5, <2>1
    <3> QED
      BY <3>1, <3>2
  <2>3. Copied = Smaller(Offset(a + 1), BufferSize) /\ Copied' = Smaller(Offset(b + 1), BufferSize)
    BY <1>2, <1>5 DEF Copied, call, client
  <2> HIDE DEF b
  <2>4. Copied' \in Copied .. Copied + SEGSIZE
    BY <2>1, <2>2, <2>3, BlockMore
  <2>5. Copied' <= Size /\ Copied <= Size /\ Copied \in Nat /\ Copied' \in Nat
    <3>1. a \in Nat /\ b \in Nat
      BY <2>2
    <3> HIDE DEF a, b
    <3>2. Offset(a + 1) \in Nat /\ Offset(b + 1) \in Nat
      BY <3>1, OffsetNat
    <3> QED
      BY <2>1, <2>3, <3>2 DEF Smaller
  <2>6. CASE result \in {"idle", "running"}
    BY <1>2, <1>3, <2>4, <2>5, <2>6, CopyProceed
  <2>7. CASE result \in Errors
    <3>1. Outcome \in Errors
      BY <2>7 DEF Outcome, Errors
    <3>2. Copy!Late
      BY <1>3, <2>4, <2>5, <3>1 DEF Copy!Late, Copy!Errors, Errors, Outcome, Size
    <3> QED
      BY <3>2 DEF Copy!Next
  <2>8. CASE result = "whole"
    <3>1. BufferSize <= Offset(a + 1) /\ Offset(a + 1) \in Nat
      BY <1>5, <2>2, <2>8, OffsetNat DEF CopyInv, SentAll
    <3>2. Copied = BufferSize
      BY <2>1, <2>3, <3>1 DEF Smaller
    <3>3. Copied' = Copied
      BY <2>1, <2>4, <2>5, <3>2
    <3> QED
      BY <1>3, <3>3, CopyStutter
  <2> QED
    BY <1>5, <2>6, <2>7, <2>8 DEF IInv, TypeOK, CopyInv, SentAll
<1> QED
  BY <1>4, <1>5 DEF IInv, TypeOK

\* A transfer is a copy: sl_TftpRecv and sl_TftpSend return 1 only after all of the
\* file has arrived, 0 only if the caller's buffer was too small for it, and what has
\* arrived is never taken back, whatever the network does.
THEOREM TransferIsCopy == Spec => ImplementsCopy
<1>1. Init => Copy!Init
  <2> SUFFICES ASSUME Init
               PROVE  Copy!Init
    OBVIOUS
  <2>1. FileLen \in Nat /\ BufferSize \in Nat /\ mode \in {"recv", "send"}
    BY TftpAssumption DEF Init
  <2> QED
    BY <2>1 DEF Init, Copy!Init, Copied
<1>2. IInv /\ IInv' /\ CopyInv /\ [Next]_vars => [Copy!Next]_Copy!vars
  <2>1. ASSUME UNCHANGED vars
        PROVE  [Copy!Next]_Copy!vars
    <3>1. UNCHANGED <<Size, BufferSize, Copied, Outcome>>
      BY <2>1 DEF vars, call, client, server, Size, Copied, Outcome
    <3> QED
      BY <3>1, CopyStutter
  <2> QED
    BY <2>1, ClientRefines, ServerRefines DEF Next
<1> QED
  BY <1>1, <1>2, AlwaysIInv, AlwaysCopyInv, PTL DEF Spec, ImplementsCopy, Copy!Spec

===============================================================================
