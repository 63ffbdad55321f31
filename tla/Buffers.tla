------------------------------ MODULE Buffers ------------------------------
(***************************************************************************)
(* The byte streams of a connection (net.c).  Packets that are sent are    *)
(* written to a chain of buffers, from which the socket takes as many      *)
(* bytes as it can; what the socket brings is appended to another chain,   *)
(* from which whole packets are read: a header of one byte or, when the    *)
(* packet is long, of four, and then the content.                          *)
(*                                                                         *)
(* A byte is its packet's number and its place in it, and the first byte   *)
(* of a connection, 0xef, is packet 0.  The socket and the server, which   *)
(* sends whole packets, are external.  What is queued while a connection   *)
(* is down, and so comes before 0xef, is the subject of Connection.        *)
(***************************************************************************)
EXTENDS Integers, SequencesExt

CONSTANTS
  Chunk,     \* bytes of a buffer; 1 << 20 in the code
  Short,     \* longest content of a one byte header; 0x7e words in the code
  Lengths,   \* content of packets, in bytes
  MaxSent,   \* bound: packets each way
  MaxFails   \* bound: connections that fail

BuffersAssumption ==
  Chunk \in Nat \ {0} /\ Lengths \subseteq Nat \ {0} /\ {MaxSent, MaxFails} \subseteq Nat

VARIABLES
  given,      \* history: the packets written since the connection was made
  outChain,   \* the buffers from out_head to out_tail
  outBytes,   \* out_bytes
  onWire,     \* history: bytes the socket took
  served,     \* external: the packets the server sent
  unread,     \* external: how many of their bytes are not yet read
  inChain,    \* the buffers from in_head to in_tail
  inBytes,    \* in_bytes
  delivered,  \* history: the contents execute was called with
  framed,     \* history: every header that was read began a packet
  fails

out == <<given, outChain, outBytes, onWire>>
in == <<served, unread, inChain, inBytes, delivered, framed>>
buffers_vars == <<out, in, fails>>

\* A packet: its content's length.  Packet k is the k-th since the connection
\* was made.
HeaderOf(len) == IF len <= Short THEN 1 ELSE 4
Bytes(k, len) == [j \in 1..(HeaderOf(len) + len) |-> <<k, j>>]
Content(k, len) == SubSeq(Bytes(k, len), HeaderOf(len) + 1, HeaderOf(len) + len)
BytesOf(packets) == FlattenSeq([k \in DOMAIN packets |-> Bytes(k, packets[k])])
First == <<<<0, 1>>>>

\* A buffer: what is between rptr and wptr, and the room from wptr to end.
NewConnectionBuffer == [data |-> <<>>, room |-> Chunk]
Data(chain) == FlattenSeq([k \in DOMAIN chain |-> chain[k].data])

Init ==
  /\ given = <<>> /\ outChain = <<[data |-> First, room |-> Chunk - 1]>>
  /\ outBytes = 1 /\ onWire = <<>>
  /\ served = <<>> /\ unread = 0 /\ inChain = <<>> /\ inBytes = 0
  /\ delivered = <<>> /\ framed = TRUE /\ fails = 0

-----------------------------------------------------------------------------
(* Chains *)

Put(chain, byte) == LET last == chain[Len(chain)] IN
  [chain EXCEPT ![Len(chain)] = [data |-> Append(last.data, byte), room |-> last.room - 1]]

\* write_out, byte by byte: a new buffer when there is none, or the last is full.
Written(chain, byte) ==
  IF chain = <<>> \/ chain[Len(chain)].room = 0
  THEN Put(Append(chain, NewConnectionBuffer), byte)
  ELSE Put(chain, byte)

WriteOut(chain, bytes) ==
  LET written[n \in 0..Len(bytes)] ==
        IF n = 0 THEN chain ELSE Written(written[n - 1], bytes[n])
  IN written[Len(bytes)]

\* A buffer that was read to the end is deleted, whether it was full or not.
Taken(chain) ==
  IF Len(chain[1].data) > 1 THEN [chain EXCEPT ![1].data = Tail(@)] ELSE Tail(chain)

Dropped(chain, n) ==
  LET dropped[k \in 0..n] == IF k = 0 THEN chain ELSE Taken(dropped[k - 1])
  IN dropped[n]

\* read_in_lookup
ReadInLookup(chain, n) == SubSeq(Data(chain), 1, n)

\* Slip: only the part that is in the first buffer is taken.
ReadIn_OneBuffer(s, n) ==
  LET m == IF n < Len(s.chain[1].data) THEN n ELSE Len(s.chain[1].data) IN
  [s EXCEPT !.chain = Dropped(@, m), !.bytes = @ - m]

\* read_in
ReadIn(s, n) == [s EXCEPT !.chain = Dropped(@, n), !.bytes = @ - n]

-----------------------------------------------------------------------------
(* Out *)

\* rpc_send_packet and rpc_send_message: the header, then the content.
RpcSendMessage == \E len \in Lengths :
  /\ Len(given) < MaxSent /\ given' = Append(given, len)
  /\ outChain' = WriteOut(outChain, Bytes(Len(given'), len))
  /\ outBytes' = outBytes + HeaderOf(len) + len
  /\ UNCHANGED <<onWire, in, fails>>

\* try_write: the socket takes some of the bytes.
TryWrite == \E n \in 1..Len(Data(outChain)) :
  /\ onWire' = onWire \o ReadInLookup(outChain, n)
  /\ outChain' = Dropped(outChain, n) /\ outBytes' = outBytes - n
  /\ UNCHANGED <<given, in, fails>>

-----------------------------------------------------------------------------
(* In *)

ServerSends == \E len \in Lengths :
  /\ Len(served) < MaxSent /\ served' = Append(served, len)
  /\ unread' = unread + HeaderOf(len) + len
  /\ UNCHANGED <<out, inChain, inBytes, delivered, framed, fails>>

\* The body of the loop of try_rpc_read: a packet that is there is read and
\* executed, and when none is there the loop has ended.
ReadPacket(s) ==
  IF s.bytes < 1 THEN s
  ELSE
    LET first == ReadInLookup(s.chain, 1)[1]
        len == served[first[1]]
        size == HeaderOf(len) + len
        after == ReadIn(ReadIn(s, HeaderOf(len)), len)
        content == ReadInLookup(ReadIn(s, HeaderOf(len)).chain, len)
    IN IF first[2] # 1 THEN [s EXCEPT !.framed = FALSE]
       ELSE IF s.bytes < size THEN s
       ELSE [after EXCEPT !.delivered = Append(@, content)]

\* try_rpc_read: no more packets than bytes are read.
TryRpcRead(s) ==
  LET read[n \in 0..s.bytes] == IF n = 0 THEN s ELSE ReadPacket(read[n - 1])
  IN read[s.bytes]

\* try_read: the last buffer is filled; when it is full there is another one,
\* that may be empty.
FilledWith(chain, byte) ==
  LET c == Put(chain, byte)
  IN IF c[Len(c)].room = 0 THEN Append(c, NewConnectionBuffer) ELSE c

Filled(chain, bytes) ==
  LET filled[n \in 0..Len(bytes)] ==
        IF n = 0 THEN IF chain = <<>> THEN <<NewConnectionBuffer>> ELSE chain
        ELSE FilledWith(filled[n - 1], bytes[n])
  IN filled[Len(bytes)]

\* try_read, when the socket has something.
TryRead == \E n \in 1..unread :
  LET stream == BytesOf(served)
      from == Len(stream) - unread
      s == TryRpcRead([chain |-> Filled(inChain, SubSeq(stream, from + 1, from + n)),
                       bytes |-> inBytes + n, delivered |-> delivered,
                       framed |-> framed])
  IN /\ framed
     /\ unread' = unread - n
     /\ inChain' = s.chain /\ inBytes' = s.bytes
     /\ delivered' = s.delivered /\ framed' = s.framed
     /\ UNCHANGED <<served, out, fails>>

\* fail_connection, and restart_connection with its first byte.
FailConnection ==
  /\ outChain' = WriteOut(<<>>, First) /\ outBytes' = 1
  /\ inChain' = <<>> /\ inBytes' = 0

Fail ==
  /\ fails < MaxFails /\ fails' = fails + 1 /\ framed
  /\ FailConnection
  /\ given' = <<>> /\ onWire' = <<>>
  /\ served' = <<>> /\ unread' = 0 /\ delivered' = <<>>
  /\ UNCHANGED framed

Next == RpcSendMessage \/ TryWrite \/ ServerSends \/ TryRead \/ Fail
Spec == Init /\ [][Next]_buffers_vars

-----------------------------------------------------------------------------
(* Properties *)

\* One type invariant: the counters are those of the chains, only the last
\* buffer of a chain has room and only the last that is read into is empty.
TypeOK ==
  /\ outBytes = Len(Data(outChain)) /\ inBytes = Len(Data(inChain))
  /\ \A k \in DOMAIN outChain : outChain[k].data # <<>>
                                /\ (outChain[k].room = 0 \/ k = Len(outChain))
  /\ \A k \in DOMAIN inChain :
       k < Len(inChain) => inChain[k].data # <<>> /\ inChain[k].room = 0
  /\ fails \in 0..MaxFails

\* Whatever the sizes of the buffers and of what the socket takes and brings:
\* what it took and what waits is, byte by byte, the packets given since the
\* connection was made, and the packets that are executed are those the server
\* sent, each as soon as it is there.
StreamsKept ==
  /\ onWire \o Data(outChain) = First \o BytesOf(given)
  /\ framed
  /\ Len(delivered) <= Len(served)
  /\ delivered = [k \in 1..Len(delivered) |-> Content(k, served[k])]
  /\ LET rest == SubSeq(served, Len(delivered) + 1, Len(served))
     IN /\ inBytes + unread = Len(BytesOf(rest))
        /\ rest # <<>> => inBytes < HeaderOf(rest[1]) + rest[1]

-----------------------------------------------------------------------------
(* The inductive invariant *)

Byte == Nat \X Nat
Buffer == [data : Seq(Byte), room : Nat]

\* Every buffer before the last is full, and none is empty.
OutChain(c) == c \in Seq(Buffer) /\ \A k \in 1..Len(c) :
  c[k].data # <<>> /\ (c[k].room = 0 \/ k = Len(c))

\* Every buffer before the last is full, and the last has room.
InChain(c) == c \in Seq(Buffer) /\ \A k \in 1..Len(c) :
  IF k = Len(c) THEN c[k].room # 0 ELSE c[k].data # <<>> /\ c[k].room = 0

\* The bytes of the first k packets.
Start(packets, k) == Len(BytesOf(SubSeq(packets, 1, k)))

\* What is executed are the first packets, and what waits are the bytes from
\* there up to E.
Reading == [chain : Seq(Buffer), bytes : Nat, delivered : Seq(Seq(Byte)), framed : BOOLEAN]
Reads(s, E) ==
  /\ s \in Reading /\ s.framed /\ InChain(s.chain) /\ s.bytes = Len(Data(s.chain))
  /\ Len(s.delivered) <= Len(served)
  /\ s.delivered = [k \in 1..Len(s.delivered) |-> Content(k, served[k])]
  /\ Start(served, Len(s.delivered)) + s.bytes = E
  /\ Data(s.chain) = SubSeq(BytesOf(served), Start(served, Len(s.delivered)) + 1, E)

\* No whole packet waits.
Waits(s) == LET k == Len(s.delivered) + 1 IN
  Len(s.delivered) < Len(served) => s.bytes < HeaderOf(served[k]) + served[k]

Came == [chain |-> inChain, bytes |-> inBytes, delivered |-> delivered, framed |-> framed]

IInv ==
  /\ given \in Seq(Lengths) /\ onWire \in Seq(Byte)
  /\ OutChain(outChain) /\ outBytes = Len(Data(outChain))
  /\ onWire \o Data(outChain) = First \o BytesOf(given)
  /\ served \in Seq(Lengths) /\ unread \in 0..Len(BytesOf(served))
  /\ Reads(Came, Len(BytesOf(served)) - unread) /\ Waits(Came)
  /\ fails \in 0..MaxFails
=============================================================================
