-------------------------- MODULE Ieee8023_proofs --------------------------
(***************************************************************************)
(* Proofs about Ieee8023, for every packet length, pool size and set of    *)
(* stations: frames leave and packets arrive unchanged although both go    *)
(* through one buffer, and stack and driver implement TxService.           *)
(***************************************************************************)
EXTENDS Ieee8023, SequenceTheorems, TLAPS

Addrs == {Null, Self} \cup Targets
Memory == [0 .. HdrSize + BufSize - 1 -> Cell]

Buffers == [mem : Memory, hdrptr : HdrSize - 1 .. HdrSize, bufptr : 0 .. 1,
            buflen : 0 .. BufSize, sender : Addrs, receiver : Addrs,
            proto : {"none", "IPv6"}]

(* The frames of the receive ring.                                         *)
Received == {f \in Seq(Cell) : Len(f) <= BufSize /\ (f # <<>> => f[1] \in Headers)}

-----------------------------------------------------------------------------
(* The inductive invariant.                                                *)

HistoryOK ==
  /\ asked \in [Frames -> [packet : Seq(Cell), to : {Null} \cup Targets]]
  /\ given \in [Frames -> Seq(Cell)]
  /\ told \in [Frames -> {"nobody"} \cup Addrs]

(* The poll handler runs only while the interface is up, the stack is given*)
(* an output function only then, and uip_buf is used only inside           *)
(* tcpip_input().                                                          *)
LifeInv ==
  /\ outputfunc => ethernet = "up"
  /\ thread # "idle" => ethernet = "up"
  /\ ethernet = "boot" => pending = <<>>
  /\ uip # <<>> => thread = "input"

(* Nothing is known of a frame before TCP/IP sends it.                     *)
SubmittedInv ==
  /\ \A i \in DOMAIN pending : pending[i].frame < next
  /\ \A f \in Frames : f >= next => given[f] = <<>> /\ reported[f] = "none"

ListElements == [frame : Frames, addr : {Null} \cup Neighbours]

(* The types of what is neither the packet buffer nor the receive ring.    *)
OthersOK ==
  /\ uipSize \in UipSizes
  /\ uip \in Seq(Cell)
  /\ outputfunc \in BOOLEAN /\ tcpip \in BOOLEAN
  /\ linkIf \in {"NULL", "8023"}
  /\ thread \in {"idle", "rx", "input", "tx", "overrun"}
  /\ ethernet \in {"down", "boot", "up"}
  /\ arrived \in 0 .. MaxRx
  /\ pending \in Seq(ListElements)
  /\ next \in 1 .. MaxFrames + 1
  /\ carried \subseteq Frames
  /\ reported \in [Frames -> {"none", "MAC_TX_OK"} \cup Errors]

(* What is known of the frames TCP/IP has sent.                            *)
FramesInv == HistoryOK /\ SubmittedInv /\ FramesAsAsked /\ ReceiverPrepared

NetIInv ==
  /\ packetbuf \in Buffers
  /\ arrivals \in Seq(Received)
  /\ OthersOK
  /\ LifeInv
  /\ FramesInv

-----------------------------------------------------------------------------
(* What is known of the sizes.                                             *)
LEMMA Sizes ==
  /\ HdrSize \in Nat /\ HdrSize >= 1 /\ BufSize \in Nat /\ BufSize >= 1
  /\ UipSizes \subseteq 1 .. BufSize /\ MaxFrames \in Nat /\ MaxRx \in Nat
  /\ PoolSize \in Nat
BY PacketBufAssumption, NetAssumption

LEMMA AddressesApart ==
  /\ Null \notin Targets /\ Self \notin Targets /\ Other \notin Targets
  /\ Neighbours \cap Groups = {} /\ Null # Self
BY NetAssumption DEF Targets, Null, Self

LEMMA TailIs ==
  ASSUME NEW S, NEW q \in Seq(S), Len(q) >= 1
  PROVE  Tail(q) = [i \in 1 .. Len(q) - 1 |-> q[i + 1]]
<1> DEFINE r == [i \in 1 .. Len(q) - 1 |-> q[i + 1]]
<1>1. q # <<>> /\ Len(q) \in Nat
  OBVIOUS
<1>2. /\ Tail(q) \in Seq(S) /\ Len(Tail(q)) = Len(q) - 1
      /\ \A i \in 1 .. Len(Tail(q)) : Tail(q)[i] = q[i + 1]
  BY <1>1, HeadTailProperties
<1>3. \A i \in 1 .. Len(q) - 1 : q[i + 1] \in S
  BY <1>1
<1>4. r \in Seq(S) /\ Len(r) = Len(q) - 1
  BY <1>1, <1>3
<1>5. \A i \in 1 .. Len(Tail(q)) : Tail(q)[i] = r[i]
  BY <1>2
<1> QED
  BY <1>2, <1>4, <1>5, SeqEqual

LEMMA TailShorter ==
  ASSUME NEW S, NEW q \in Seq(S), q # <<>>
  PROVE  Tail(q) # q /\ \A x \in S : Tail(q) # Append(q, x)
<1> DEFINE t == Tail(q)
<1>1. Len(t) = Len(q) - 1 /\ Len(q) \in Nat
  BY HeadTailProperties
<1>2. \A x \in S : Len(Append(q, x)) = Len(q) + 1
  BY AppendProperties
<1> HIDE DEF t
<1>3. t # q
  BY <1>1
<1>4. ASSUME NEW x \in S, t = Append(q, x) PROVE FALSE
  <2>1. Len(t) = Len(q) + 1
    BY <1>2, <1>4
  <2> QED
    BY <1>1, <2>1
<1> QED
  BY <1>3, <1>4 DEF t

LEMMA CellsAre ==
  ASSUME NEW kind \in {"tx", "rx"}, NEW n \in Nat, NEW len \in Nat
  PROVE  /\ Cells(kind, n, len) \in Seq(Cell)
         /\ Len(Cells(kind, n, len)) = len
         /\ \A i \in 1 .. len : Cells(kind, n, len)[i] = <<kind, n, i>>
<1>1. \A i \in 1 .. len : <<kind, n, i>> \in Cell
  BY DEF Cell
<1> QED
  BY <1>1 DEF Cells

LEMMA HeadersAreCells == Headers \subseteq Cell
BY DEF Headers, Cell

LEMMA NamedIs ==
  ASSUME NEW a \in {Null, Self} \cup Targets
  PROVE  /\ Named(a) \in {Null, Self} \cup Neighbours
         /\ a \in Targets => Named(a) \in {Null} \cup Neighbours
BY AddressesApart DEF Named, Targets

-----------------------------------------------------------------------------
(* The packet buffer.                                                      *)

(* What Fill writes lies behind the data pointer, all else stays.          *)
LEMMA FillBuf ==
  ASSUME NEW b \in Buffers, NEW cells \in Seq(Cell)
  PROVE  Fill(b, cells) \in Buffers
<1>1. /\ b.mem \in Memory /\ DOMAIN b.mem = 0 .. HdrSize + BufSize - 1
      /\ b.bufptr \in 0 .. 1
  BY DEF Buffers, Memory
<1> DEFINE start == HdrSize + b.bufptr
           written == start .. start + Len(cells) - 1
           m == [i \in DOMAIN b.mem |-> IF i \in written THEN cells[i - start + 1]
                                        ELSE b.mem[i]]
<1>2. \A i \in written : cells[i - start + 1] \in Cell
  BY <1>1, Sizes
<1>3. m \in Memory
  BY <1>1, <1>2 DEF Memory
<1>4. Fill(b, cells) = [b EXCEPT !.mem = m]
  BY DEF Fill
<1> QED
  BY <1>3, <1>4 DEF Buffers

LEMMA ClearBuf ==
  ASSUME NEW b \in Buffers
  PROVE  /\ Clear(b) \in Buffers
         /\ Clear(b).hdrptr = HdrSize /\ Clear(b).bufptr = 0
         /\ Clear(b).mem = b.mem
<1> DEFINE c == [b EXCEPT !.hdrptr = HdrSize, !.bufptr = 0, !.buflen = 0]
           d == [c EXCEPT !.sender = Null, !.receiver = Null, !.proto = "none"]
<1>1. /\ b.mem \in Memory /\ HdrSize \in HdrSize - 1 .. HdrSize
      /\ 0 \in 0 .. 1 /\ 0 \in 0 .. BufSize /\ Null \in Addrs
  BY Sizes DEF Buffers, Addrs
<1>2. c \in Buffers /\ c.hdrptr = HdrSize /\ c.bufptr = 0 /\ c.mem = b.mem
  BY <1>1 DEF Buffers
<1>3. Clear(b) = d
  BY Zenon DEF Clear
<1> HIDE DEF c
<1>4. d \in Buffers /\ d.hdrptr = c.hdrptr /\ d.bufptr = c.bufptr /\ d.mem = c.mem
  BY <1>1, <1>2 DEF Buffers
<1> QED
  BY <1>2, <1>3, <1>4

(* A packet or a frame copied into the cleared buffer.                     *)
LEMMA CopyBuf ==
  ASSUME NEW b \in Buffers, NEW cells \in Seq(Cell), Len(cells) <= BufSize
  PROVE  LET c == SetDatalen(Fill(Clear(b), cells), Len(cells))
         IN  /\ c \in Buffers
             /\ c.hdrptr = HdrSize /\ c.bufptr = 0 /\ c.buflen = Len(cells)
             /\ \A i \in 1 .. Len(cells) : c.mem[HdrSize + i - 1] = cells[i]
<1> DEFINE d == Clear(b)
           f == Fill(d, cells)
           c == SetDatalen(f, Len(cells))
<1>1. d \in Buffers /\ d.hdrptr = HdrSize /\ d.bufptr = 0
  BY ClearBuf
<1>2. f \in Buffers
  BY <1>1, FillBuf
<1> HIDE DEF d
<1>3. f.hdrptr = HdrSize /\ f.bufptr = 0
  BY <1>1 DEF Fill, Buffers
<1>4. f.mem = [i \in DOMAIN d.mem |->
                 IF i \in HdrSize .. HdrSize + Len(cells) - 1
                 THEN cells[i - HdrSize + 1] ELSE d.mem[i]]
  BY <1>1, Sizes DEF Fill, Buffers
<1>5. ASSUME NEW i \in 1 .. Len(cells)
      PROVE  f.mem[HdrSize + i - 1] = cells[i]
  <2>1. /\ HdrSize + i - 1 \in DOMAIN d.mem
        /\ HdrSize + i - 1 \in HdrSize .. HdrSize + Len(cells) - 1
        /\ (HdrSize + i - 1) - HdrSize + 1 = i
    BY <1>1, Sizes DEF Buffers, Memory
  <2> QED
    BY <2>1, <1>4
<1>6. Len(cells) \in 0 .. BufSize
  BY Sizes
<1> HIDE DEF f
<1>7. /\ c \in Buffers
      /\ c.hdrptr = HdrSize /\ c.bufptr = 0 /\ c.buflen = Len(cells)
      /\ c.mem = f.mem
  BY <1>2, <1>3, <1>6 DEF SetDatalen, Buffers
<1> QED
  BY <1>5, <1>7 DEF d, f

-----------------------------------------------------------------------------
(* The way up.                                                             *)

LEMMA HeaderFields ==
  ASSUME NEW h \in Headers
  PROVE  h[2] \in Stations /\ h[3] \in Neighbours
BY DEF Headers, Header

LEMMA AddressedBuf ==
  ASSUME NEW b \in Buffers, HeaderOf(b) \in Headers
  PROVE  /\ SetSender(b) \in Buffers
         /\ SetReceiver(SetSender(b)) \in Buffers
         /\ SetReceiver(SetSender(b)).mem = b.mem
         /\ SetReceiver(SetSender(b)).bufptr = b.bufptr
         /\ SetReceiver(SetSender(b)).buflen = b.buflen
         /\ SetReceiver(SetSender(b)).receiver \in {Self, Null}
<1> DEFINE c == SetSender(b)
           d == SetReceiver(c)
<1>1. HeaderOf(b)[3] \in Addrs
  BY HeaderFields DEF Addrs, Targets
<1>2. /\ c \in Buffers
      /\ c.mem = b.mem /\ c.bufptr = b.bufptr /\ c.buflen = b.buflen
  BY <1>1 DEF SetSender, Buffers
<1> HIDE DEF c
<1>3. /\ d \in Buffers /\ d.receiver \in {Self, Null}
      /\ d.mem = c.mem /\ d.bufptr = c.bufptr /\ d.buflen = c.buflen
  BY <1>2 DEF SetReceiver, Buffers, Addrs
<1> QED
  BY <1>2, <1>3 DEF c

LEMMA ParseBuf ==
  ASSUME NEW b \in Buffers, b.bufptr = 0,
         b.buflen >= 1 => HeaderOf(b) \in Headers
  PROVE  /\ Parse(b) \in Buffers
         /\ Parsable(b) => /\ Parse(b).receiver \in {Self, Null}
                           /\ Parse(b).mem = b.mem
                           /\ Parse(b).bufptr = 1
                           /\ Parse(b).buflen = b.buflen - 1
<1>1. b.buflen \in 0 .. BufSize /\ BufSize \in Nat
  BY Sizes DEF Buffers
<1>2. CASE b.buflen < 1
  BY <1>1, <1>2 DEF Parse, Parsable
<1>3. CASE b.buflen >= 1 /\ ~ForUs(b)
  BY <1>1, <1>3, AddressedBuf DEF Parse, Parsable
<1>4. CASE b.buflen >= 1 /\ ForUs(b) /\ ~Parsable(b)
  BY <1>1, <1>4, AddressedBuf DEF Parse, Parsable
<1>5. CASE Parsable(b)
  <2> DEFINE d == SetReceiver(SetSender(b))
  <2>1. b.buflen >= 1
    BY <1>5 DEF Parsable
  <2>2. /\ d \in Buffers /\ d.receiver \in {Self, Null}
        /\ d.mem = b.mem /\ d.bufptr = 0 /\ d.buflen = b.buflen
    BY <2>1, AddressedBuf
  <2>3. Parse(b) = HdrReduce(d)
    BY <1>1, <1>5, <2>1 DEF Parse, Parsable
  <2> HIDE DEF d
  <2>4. HdrReduce(d) = [d EXCEPT !.bufptr = @ + 1, !.buflen = @ - 1]
    BY <1>1, <2>1, <2>2 DEF HdrReduce
  <2>5. d.bufptr + 1 = 1 /\ d.buflen - 1 \in 0 .. BufSize
    BY <1>1, <2>1, <2>2
  <2>6. [d EXCEPT !.bufptr = 1, !.buflen = d.buflen - 1] \in Buffers
    <3>1. 1 \in 0 .. 1
      OBVIOUS
    <3> QED
      BY <3>1, <2>2, <2>5 DEF Buffers
  <2>7. HdrReduce(d) = [d EXCEPT !.bufptr = 1, !.buflen = d.buflen - 1]
    BY <2>4, <2>5
  <2> QED
    BY <2>2, <2>3, <2>6, <2>7 DEF Buffers
<1> QED
  BY <1>1, <1>2, <1>3, <1>4, <1>5 DEF Parsable

(* What input() finds after a frame was read and its header reduced.       *)
LEMMA ReadIs ==
  ASSUME packetbuf \in Buffers, NEW frame \in Received
  PROVE  LET b == ReadBuf(frame)
         IN  /\ b \in Buffers /\ Parse(b) \in Buffers
             /\ b.buflen = Len(frame)
             /\ frame # <<>> => HeaderOf(b) = frame[1]
             /\ Parsable(b) => /\ Parse(b).receiver \in {Self, Null}
                               /\ Data(Parse(b)) = Tail(frame)
                               /\ Parse(b).buflen = Len(frame) - 1
<1> DEFINE b == ReadBuf(frame)
<1>1. frame \in Seq(Cell) /\ Len(frame) <= BufSize /\ (frame # <<>> => frame[1] \in Headers)
  BY DEF Received
<1>2. /\ b \in Buffers
      /\ b.hdrptr = HdrSize /\ b.bufptr = 0 /\ b.buflen = Len(frame)
      /\ \A i \in 1 .. Len(frame) : b.mem[HdrSize + i - 1] = frame[i]
  BY <1>1, CopyBuf DEF ReadBuf
<1> HIDE DEF b
<1>3. ASSUME frame # <<>> PROVE HeaderOf(b) = frame[1]
  <2>1. 1 \in 1 .. Len(frame)
    BY <1>1, <1>3
  <2>2. b.mem[HdrSize + 1 - 1] = frame[1] /\ HdrSize + 1 - 1 = HdrSize
    BY <1>2, <2>1, Sizes
  <2> QED
    BY <1>2, <2>2 DEF HeaderOf
<1>4. b.buflen >= 1 => HeaderOf(b) \in Headers
  BY <1>1, <1>2, <1>3
<1>5. /\ Parse(b) \in Buffers
      /\ Parsable(b) => /\ Parse(b).receiver \in {Self, Null}
                        /\ Parse(b).mem = b.mem /\ Parse(b).bufptr = 1
                        /\ Parse(b).buflen = b.buflen - 1
  BY <1>2, <1>4, ParseBuf
<1>6. ASSUME Parsable(b) PROVE Data(Parse(b)) = Tail(frame)
  <2>1. Len(frame) \in Nat /\ Len(frame) >= 1 /\ HdrSize \in Nat
    BY <1>1, <1>2, <1>6, Sizes DEF Parsable
  <2>2. Data(Parse(b)) = [i \in 1 .. Len(frame) - 1 |-> b.mem[HdrSize + 1 + i - 1]]
    BY <1>2, <1>5, <1>6 DEF Data
  <2>3. \A i \in 1 .. Len(frame) - 1 : b.mem[HdrSize + 1 + i - 1] = frame[i + 1]
    <3>1. \A i \in 1 .. Len(frame) - 1 :
            /\ i + 1 \in 1 .. Len(frame)
            /\ HdrSize + (i + 1) - 1 = HdrSize + 1 + i - 1
      BY <2>1
    <3> QED
      BY <1>2, <3>1
  <2>4. Tail(frame) = [i \in 1 .. Len(frame) - 1 |-> frame[i + 1]]
    BY <1>1, <2>1, TailIs
  <2> QED
    BY <2>2, <2>3, <2>4
<1> QED
  BY <1>2, <1>3, <1>5, <1>6 DEF b

-----------------------------------------------------------------------------
(* The way down.                                                           *)

LEMMA OutputIs ==
  ASSUME packetbuf \in Buffers, NEW packet \in Seq(Cell), Len(packet) <= BufSize,
         NEW dst \in Targets
  PROVE  LET b == OutputBuf(packet, dst)
         IN  /\ b \in Buffers
             /\ b.hdrptr = HdrSize /\ b.bufptr = 0 /\ b.buflen = Len(packet)
             /\ b.sender = Self /\ b.receiver = dst /\ b.proto = "IPv6"
             /\ \A i \in 1 .. Len(packet) : b.mem[HdrSize + i - 1] = packet[i]
<1> DEFINE c == CopyFrom(packetbuf, packet)
           d == SetDatalen(c, Len(packet))
           b == [d EXCEPT !.sender = Self, !.receiver = dst, !.proto = "IPv6"]
<1>1. /\ c \in Buffers
      /\ c.hdrptr = HdrSize /\ c.bufptr = 0 /\ c.buflen = Len(packet)
      /\ \A i \in 1 .. Len(packet) : c.mem[HdrSize + i - 1] = packet[i]
  BY CopyBuf DEF CopyFrom
<1> HIDE DEF c
<1>2. /\ d \in Buffers
      /\ d.hdrptr = c.hdrptr /\ d.bufptr = c.bufptr /\ d.buflen = Len(packet)
      /\ d.mem = c.mem
  <2>1. Len(packet) \in 0 .. BufSize
    BY Sizes
  <2> QED
    BY <1>1, <2>1 DEF SetDatalen, Buffers
<1> HIDE DEF d
<1>3. Self \in Addrs /\ dst \in Addrs
  BY DEF Addrs
<1>4. /\ b \in Buffers
      /\ b.hdrptr = d.hdrptr /\ b.bufptr = d.bufptr /\ b.buflen = d.buflen
      /\ b.sender = Self /\ b.receiver = dst /\ b.proto = "IPv6"
      /\ b.mem = d.mem
  BY <1>2, <1>3 DEF Buffers
<1>5. OutputBuf(packet, dst) = b
  BY Zenon DEF OutputBuf, c, d
<1> QED
  BY <1>1, <1>2, <1>4, <1>5

LEMMA RevertIs ==
  ASSUME NEW b \in Buffers
  PROVE  /\ Revert(b) \in Buffers /\ Revert(b).receiver = Named(b.receiver)
         /\ Revert(b).mem = b.mem /\ Revert(b).hdrptr = b.hdrptr
         /\ Revert(b).bufptr = b.bufptr /\ Revert(b).buflen = b.buflen
<1>1. Named(b.receiver) \in Addrs
  BY NamedIs DEF Buffers, Addrs, Targets
<1> QED
  BY <1>1 DEF Revert, Buffers

(* The header goes in front of the packet, with the address of the group   *)
(* if there is one, although the receiver of the buffer is then reverted.  *)
LEMMA CreateIs ==
  ASSUME packetbuf \in Buffers, NEW packet \in Seq(Cell), Len(packet) <= BufSize,
         NEW dst \in Targets, CanHdrAlloc(OutputBuf(packet, dst))
  PROVE  LET c == Create(OutputBuf(packet, dst))
         IN  /\ c \in Buffers /\ c.receiver = Named(dst)
             /\ Frame(c) = <<Header(dst, Self, "IPv6")>> \o packet
             /\ Frame(c) \in Seq(Cell)
<1> DEFINE b == OutputBuf(packet, dst)
           h == Header(dst, Self, "IPv6")
           w == HdrAlloc(b, h)
           c == Revert(w)
           f == <<h>> \o packet
<1>1. /\ b \in Buffers
      /\ b.hdrptr = HdrSize /\ b.bufptr = 0 /\ b.buflen = Len(packet)
      /\ b.sender = Self /\ b.receiver = dst /\ b.proto = "IPv6"
      /\ \A i \in 1 .. Len(packet) : b.mem[HdrSize + i - 1] = packet[i]
  BY OutputIs
<1>2. CanHdrAlloc(b)
  OBVIOUS
<1>3. Create(b) = c
  BY <1>1 DEF Create, WriteHeader
<1> HIDE DEF b
<1>4. h \in Cell
  BY DEF Cell, Targets, Stations
<1> HIDE DEF h
<1>5. /\ b.mem \in Memory /\ HdrSize - 1 \in 0 .. HdrSize + BufSize - 1
      /\ HdrSize - 1 \in HdrSize - 1 .. HdrSize
  BY <1>1, Sizes DEF Buffers
<1> DEFINE m == [b.mem EXCEPT ![HdrSize - 1] = h]
<1>6. m \in Memory /\ m[HdrSize - 1] = h
      /\ \A j \in HdrSize .. HdrSize + BufSize - 1 : m[j] = b.mem[j]
  BY <1>4, <1>5, Sizes DEF Memory
<1>7. w = [b EXCEPT !.hdrptr = HdrSize - 1, !.mem = m]
  BY <1>1 DEF HdrAlloc, Buffers
<1> HIDE DEF m
<1>8. /\ w \in Buffers /\ w.mem = m /\ w.hdrptr = HdrSize - 1
      /\ w.bufptr = 0 /\ w.buflen = Len(packet) /\ w.receiver = dst
  BY <1>1, <1>5, <1>6, <1>7 DEF Buffers
<1> HIDE DEF w
<1>9. /\ c \in Buffers /\ c.mem = m /\ c.hdrptr = HdrSize - 1
      /\ c.bufptr = 0 /\ c.buflen = Len(packet) /\ c.receiver = Named(dst)
  BY <1>8, RevertIs
<1> HIDE DEF c
<1>10. TotLen(c) = Len(packet) + 1
  BY <1>9, Sizes DEF TotLen, HdrLen
<1> DEFINE g == [i \in 1 .. Len(packet) + 1 |-> m[HdrSize - 1 + i - 1]]
<1>11. Frame(c) = g
  BY <1>9, <1>10 DEF Frame
<1>12. /\ f \in Seq(Cell) /\ Len(f) = Len(packet) + 1
       /\ f[1] = h /\ \A i \in 2 .. Len(packet) + 1 : f[i] = packet[i - 1]
  BY <1>4
<1>13. ASSUME NEW i \in 1 .. Len(packet) + 1 PROVE m[HdrSize - 1 + i - 1] = f[i]
  <2>1. CASE i = 1
    BY <1>6, <1>12, <2>1, Sizes
  <2>2. CASE i # 1
    <3>1. /\ i \in 2 .. Len(packet) + 1 /\ i - 1 \in 1 .. Len(packet)
          /\ HdrSize - 1 + i - 1 = HdrSize + (i - 1) - 1
          /\ HdrSize + (i - 1) - 1 \in HdrSize .. HdrSize + BufSize - 1
      BY <2>2, Sizes
    <3> QED
      BY <1>1, <1>6, <1>12, <3>1
  <2> QED
    BY <2>1, <2>2
<1>14. \A i \in 1 .. Len(packet) + 1 : m[HdrSize - 1 + i - 1] \in Cell
  <2>1. \A i \in 1 .. Len(packet) + 1 : f[i] \in Cell
    BY <1>12
  <2> QED
    BY <1>13, <2>1
<1>15. g \in Seq(Cell) /\ Len(g) = Len(packet) + 1
  BY <1>14
<1>16. g = f
  BY <1>12, <1>13, <1>15, SeqEqual
<1> QED
  BY <1>3, <1>9, <1>11, <1>15, <1>16 DEF h, b

-----------------------------------------------------------------------------
(* Inductiveness.                                                          *)

LEMMA TypeFromParts ==
  ASSUME packetbuf \in Buffers, arrivals \in Seq(Received), OthersOK
  PROVE  NetTypeOK
<1>1. arrivals \in Seq(Seq(Cell))
  <2>1. Received \subseteq Seq(Cell)
    BY DEF Received
  <2> QED
    BY <2>1, SeqMonotonic
<1>2. /\ packetbuf.mem \in [0 .. HdrSize + BufSize - 1 -> Cell]
      /\ packetbuf.hdrptr \in HdrSize - 1 .. HdrSize
      /\ packetbuf.bufptr \in 0 .. 1 /\ packetbuf.buflen \in 0 .. BufSize
      /\ {packetbuf.sender, packetbuf.receiver} \subseteq {Null, Self} \cup Targets
  BY DEF Buffers, Memory, Addrs
<1> QED
  BY <1>1, <1>2 DEF OthersOK, ListElements, NetTypeOK

LEMMA NetInitInv == NetInit => NetIInv
<1> SUFFICES ASSUME NetInit PROVE NetIInv
  OBVIOUS
<1>1. packetbuf \in Buffers
  <2>1. Fresh.mem \in Memory
    BY DEF Fresh, Memory, Cell
  <2>2. HdrSize \in HdrSize - 1 .. HdrSize /\ 0 \in 0 .. 1 /\ 0 \in 0 .. BufSize
    BY Sizes
  <2> QED
    BY <2>1, <2>2 DEF NetInit, Fresh, Buffers, Addrs
<1>2. arrivals \in Seq(Received)
  BY DEF NetInit
<1>3. OthersOK
  <2>1. /\ <<>> \in Seq(Cell) /\ <<>> \in Seq(ListElements)
        /\ 0 \in 0 .. MaxRx /\ 1 \in 1 .. MaxFrames + 1
    BY Sizes
  <2>2. uip \in Seq(Cell) /\ pending \in Seq(ListElements)
    BY <2>1 DEF NetInit
  <2>3. arrived \in 0 .. MaxRx /\ next \in 1 .. MaxFrames + 1
    BY <2>1 DEF NetInit
  <2>4. reported \in [Frames -> {"none", "MAC_TX_OK"} \cup Errors]
    BY DEF NetInit
  <2> QED
    BY <2>2, <2>3, <2>4 DEF NetInit, OthersOK
<1>4. LifeInv
  BY DEF NetInit, LifeInv
<1>5. HistoryOK
  <2>1. <<>> \in Seq(Cell)
    OBVIOUS
  <2> QED
    BY <2>1 DEF NetInit, HistoryOK
<1>6. SubmittedInv /\ FramesAsAsked /\ ReceiverPrepared
  BY DEF NetInit, SubmittedInv, FramesAsAsked, ReceiverPrepared, Errors
<1> QED
  BY <1>1, <1>2, <1>3, <1>4, <1>5, <1>6 DEF NetIInv, FramesInv

(* Steps that neither send nor report.                                     *)
LEMMA FramesKept ==
  ASSUME FramesInv, UNCHANGED <<next, reported, asked, given, told>>,
         pending' = pending \/ pending' = <<>>
  PROVE  FramesInv'
BY DEF FramesInv, HistoryOK, SubmittedInv, FramesAsAsked, ReceiverPrepared

(* What becomes of a packet: the driver takes it or it is refused at once. *)
Taken(packet, dst) ==
  LET frame == <<Header(dst, Self, "IPv6")>> \o packet
  IN  /\ frame \in Seq(Cell)
      /\ pending' = Append(pending, [frame |-> next, addr |-> Named(dst)])
      /\ given' = [given EXCEPT ![next] = frame]
      /\ UNCHANGED <<reported, told>>

Refused(dst) ==
  /\ \E status \in Errors : reported' = [reported EXCEPT ![next] = status]
  /\ told' = [told EXCEPT ![next] = Named(dst)]
  /\ UNCHANGED <<pending, given>>

LEMMA OutputCases ==
  ASSUME NetIInv, Output
  PROVE  /\ next \in Frames /\ ethernet = "up"
         /\ packetbuf' \in Buffers
         /\ \E packet \in Seq(Cell), dst \in Targets :
              /\ asked' = [asked EXCEPT ![next] = [packet |-> packet, to |-> dst]]
              /\ Taken(packet, dst) \/ Refused(dst)
<1>1. next \in Frames /\ ethernet = "up" /\ packetbuf \in Buffers
  BY Sizes DEF NetIInv, OthersOK, LifeInv, Output, Frames
<1>2. PICK len \in Lengths \cap 1 .. uipSize, dst \in Targets :
        LET packet == Cells("tx", next, len)
            b == OutputBuf(packet, dst)
        IN  /\ asked' = [asked EXCEPT ![next] = [packet |-> packet, to |-> dst]]
            /\ FramerFails(b) \/ DriverTakes(b) \/ DriverRefuses(b)
  BY DEF Output
<1> DEFINE packet == Cells("tx", next, len)
           b == OutputBuf(packet, dst)
<1>3. packet \in Seq(Cell) /\ Len(packet) <= BufSize
  <2>1. len \in Nat /\ len <= BufSize
    BY Sizes DEF NetIInv, OthersOK
  <2> QED
    BY <1>1, <2>1, CellsAre DEF Frames
<1> HIDE DEF packet
<1>4. b \in Buffers /\ b.receiver = dst
  BY <1>1, <1>3, OutputIs
<1>5. CanHdrAlloc(b) => /\ Create(b) \in Buffers /\ Create(b).receiver = Named(dst)
                        /\ Frame(Create(b)) = <<Header(dst, Self, "IPv6")>> \o packet
                        /\ Frame(Create(b)) \in Seq(Cell)
  BY <1>1, <1>3, CreateIs
<1> HIDE DEF b
<1>6. CASE FramerFails(b)
  <2>1. Revert(b) \in Buffers /\ Revert(b).receiver = Named(dst)
    BY <1>4, RevertIs
  <2>2. packetbuf' \in Buffers /\ Refused(dst)
    BY <1>6, <2>1 DEF FramerFails, PacketSent, Refused, Errors
  <2> QED
    BY <1>1, <1>2, <1>3, <2>2 DEF b, packet
<1>7. CASE DriverTakes(b)
  <2>1. packetbuf' \in Buffers /\ Taken(packet, dst)
    BY <1>5, <1>7 DEF DriverTakes, Taken
  <2> QED
    BY <1>1, <1>2, <1>3, <2>1 DEF b, packet
<1>8. CASE DriverRefuses(b)
  <2>1. packetbuf' \in Buffers /\ Refused(dst)
    BY <1>5, <1>8 DEF DriverRefuses, PacketSent, Refused, Errors
  <2> QED
    BY <1>1, <1>2, <1>3, <2>1 DEF b, packet
<1> QED
  BY <1>2, <1>6, <1>7, <1>8 DEF b, packet

LEMMA OutputStep ==
  ASSUME NetIInv, Output, uipSize' = uipSize
  PROVE  NetIInv'
<1>1. /\ next \in Frames /\ ethernet = "up" /\ packetbuf' \in Buffers
      /\ next \in Nat /\ MaxFrames \in Nat /\ next <= MaxFrames
  BY OutputCases, Sizes DEF Frames
<1>2. PICK packet \in Seq(Cell), dst \in Targets :
        /\ asked' = [asked EXCEPT ![next] = [packet |-> packet, to |-> dst]]
        /\ Taken(packet, dst) \/ Refused(dst)
  BY OutputCases
<1>3. /\ next' = next + 1 /\ uip' = <<>>
      /\ UNCHANGED <<outputfunc, tcpip, linkIf, thread, ethernet, arrivals, arrived,
                     carried>>
  BY DEF Output
<1>4. Named(dst) \in Addrs /\ Named(dst) \in {Null} \cup Neighbours
  BY NamedIs DEF Addrs, Targets
<1> DEFINE e == [frame |-> next, addr |-> Named(dst)]
<1>5. e \in ListElements /\ e.frame = next /\ e.addr = Named(dst)
  BY <1>1, <1>4 DEF ListElements
<1> HIDE DEF e
<1>6. /\ pending \in Seq(ListElements) /\ reported \in [Frames -> {"none", "MAC_TX_OK"} \cup Errors]
      /\ asked \in [Frames -> [packet : Seq(Cell), to : {Null} \cup Targets]]
      /\ given \in [Frames -> Seq(Cell)] /\ told \in [Frames -> {"nobody"} \cup Addrs]
  BY DEF NetIInv, OthersOK, FramesInv, HistoryOK
<1>7. /\ asked' \in [Frames -> [packet : Seq(Cell), to : {Null} \cup Targets]]
      /\ asked'[next].packet = packet /\ asked'[next].to = dst
      /\ \A f \in Frames : f # next => asked'[f] = asked[f]
  BY <1>1, <1>2, <1>6
<1>8. /\ \A i \in DOMAIN pending : /\ pending[i].frame < next
                                   /\ pending[i].frame \in Frames
      /\ \A f \in Frames : f >= next => given[f] = <<>> /\ reported[f] = "none"
      /\ DOMAIN pending = 1 .. Len(pending) /\ Len(pending) \in Nat
  <2>1. \A i \in DOMAIN pending : pending[i] \in ListElements
    BY <1>6
  <2>2. \A i \in DOMAIN pending : pending[i].frame \in Frames
    BY <2>1 DEF ListElements
  <2> QED
    BY <1>6, <2>2 DEF NetIInv, FramesInv, SubmittedInv
<1>9. /\ \A f \in Frames : given[f] # <<>> =>
           given[f] = <<Header(asked[f].to, Self, "IPv6")>> \o asked[f].packet
      /\ \A i \in DOMAIN pending : pending[i].addr = Named(asked[pending[i].frame].to)
      /\ \A f \in Frames : reported[f] \in Errors => told[f] = Named(asked[f].to)
  BY DEF NetIInv, FramesInv, FramesAsAsked, ReceiverPrepared
<1>10. LifeInv'
  BY <1>1, <1>3 DEF NetIInv, LifeInv
<1>11. (pending' \in Seq(ListElements) /\ reported' \in [Frames -> {"none", "MAC_TX_OK"} \cup Errors])
         => OthersOK'
  <2>1. next + 1 \in 1 .. MaxFrames + 1 /\ <<>> \in Seq(Cell)
    BY <1>1
  <2> QED
    BY <1>3, <2>1 DEF NetIInv, OthersOK
<1>12. CASE Taken(packet, dst)
  <2> DEFINE frame == <<Header(dst, Self, "IPv6")>> \o packet
  <2>1. /\ pending' = Append(pending, e) /\ given' = [given EXCEPT ![next] = frame]
        /\ frame \in Seq(Cell) /\ UNCHANGED <<reported, told>>
    BY <1>12 DEF Taken, e
  <2> HIDE DEF frame
  <2>2. /\ pending' \in Seq(ListElements) /\ DOMAIN pending' = 1 .. Len(pending) + 1
        /\ \A i \in 1 .. Len(pending) : pending'[i] = pending[i]
        /\ pending'[Len(pending) + 1] = e
    BY <1>5, <1>6, <2>1
  <2>3. /\ given' \in [Frames -> Seq(Cell)] /\ given'[next] = frame
        /\ \A f \in Frames : f # next => given'[f] = given[f]
    BY <1>1, <1>6, <2>1
  <2>4. \A i \in DOMAIN pending' : i \in DOMAIN pending \/ i = Len(pending) + 1
    BY <1>8, <2>2
  <2>5. HistoryOK'
    BY <1>6, <1>7, <2>1, <2>3 DEF HistoryOK
  <2>6. SubmittedInv'
    <3>1. ASSUME NEW i \in DOMAIN pending' PROVE pending'[i].frame < next'
      <4>1. CASE i \in DOMAIN pending
        BY <1>1, <1>3, <1>8, <2>2, <4>1 DEF Frames
      <4>2. CASE i = Len(pending) + 1
        BY <1>1, <1>3, <1>5, <2>2, <4>2
      <4> QED
        BY <2>4, <4>1, <4>2
    <3>2. ASSUME NEW f \in Frames, f >= next' PROVE given'[f] = <<>> /\ reported'[f] = "none"
      <4>1. f >= next /\ f # next
        BY <1>1, <1>3, <3>2 DEF Frames
      <4> QED
        BY <1>8, <2>1, <2>3, <4>1
    <3> QED
      BY <3>1, <3>2 DEF SubmittedInv
  <2>7. FramesAsAsked'
    <3>1. ASSUME NEW f \in Frames, given'[f] # <<>>
          PROVE given'[f] = <<Header(asked'[f].to, Self, "IPv6")>> \o asked'[f].packet
      <4>1. CASE f = next
        BY <1>7, <2>3, <4>1 DEF frame
      <4>2. CASE f # next
        BY <1>7, <1>9, <2>3, <3>1, <4>2
      <4> QED
        BY <4>1, <4>2
    <3> QED
      BY <3>1 DEF FramesAsAsked
  <2>8. ReceiverPrepared'
    <3>1. ASSUME NEW i \in DOMAIN pending'
          PROVE  pending'[i].addr = Named(asked'[pending'[i].frame].to)
      <4>1. CASE i \in DOMAIN pending
        <5>1. pending'[i] = pending[i] /\ pending[i].frame # next /\ pending[i].frame \in Frames
          BY <1>1, <1>8, <2>2, <4>1 DEF Frames
        <5> QED
          BY <1>7, <1>9, <4>1, <5>1
      <4>2. CASE i = Len(pending) + 1
        BY <1>5, <1>7, <2>2, <4>2
      <4> QED
        BY <2>4, <4>1, <4>2
    <3>2. ASSUME NEW f \in Frames, reported'[f] \in Errors
          PROVE  told'[f] = Named(asked'[f].to)
      <4>1. reported[next] \notin Errors
        BY <1>1, <1>8 DEF Errors
      <4>2. f # next
        BY <2>1, <3>2, <4>1
      <4> QED
        BY <1>7, <1>9, <2>1, <3>2, <4>2
    <3> QED
      BY <3>1, <3>2 DEF ReceiverPrepared
  <2>9. OthersOK'
    BY <1>6, <1>11, <2>1, <2>2
  <2> QED
    BY <1>1, <1>3, <1>10, <2>5, <2>6, <2>7, <2>8, <2>9 DEF NetIInv, FramesInv
<1>13. CASE Refused(dst)
  <2>1. PICK status \in Errors : reported' = [reported EXCEPT ![next] = status]
    BY <1>13 DEF Refused
  <2>2. told' = [told EXCEPT ![next] = Named(dst)] /\ UNCHANGED <<pending, given>>
    BY <1>13 DEF Refused
  <2>3. /\ reported' \in [Frames -> {"none", "MAC_TX_OK"} \cup Errors]
        /\ told' \in [Frames -> {"nobody"} \cup Addrs] /\ told'[next] = Named(dst)
        /\ \A f \in Frames : f # next => told'[f] = told[f] /\ reported'[f] = reported[f]
    BY <1>1, <1>4, <1>6, <2>1, <2>2
  <2>4. HistoryOK'
    BY <1>6, <1>7, <2>2, <2>3 DEF HistoryOK
  <2>5. SubmittedInv'
    <3>1. \A i \in DOMAIN pending' : pending'[i].frame < next'
      BY <1>1, <1>3, <1>8, <2>2 DEF Frames
    <3>2. ASSUME NEW f \in Frames, f >= next' PROVE given'[f] = <<>> /\ reported'[f] = "none"
      <4>1. f >= next /\ f # next
        BY <1>1, <1>3, <3>2 DEF Frames
      <4> QED
        BY <1>8, <2>2, <2>3, <4>1
    <3> QED
      BY <3>1, <3>2 DEF SubmittedInv
  <2>6. FramesAsAsked'
    <3>1. given[next] = <<>>
      BY <1>1, <1>8
    <3> QED
      BY <1>7, <1>9, <2>2, <3>1 DEF FramesAsAsked
  <2>7. ReceiverPrepared'
    <3>1. \A i \in DOMAIN pending' : pending'[i].addr = Named(asked'[pending'[i].frame].to)
      <4>1. \A i \in DOMAIN pending : pending[i].frame # next
        BY <1>1, <1>8 DEF Frames
      <4> QED
        BY <1>7, <1>8, <1>9, <2>2, <4>1
    <3>2. \A f \in Frames : reported'[f] \in Errors => told'[f] = Named(asked'[f].to)
      BY <1>7, <1>9, <2>3
    <3> QED
      BY <3>1, <3>2 DEF ReceiverPrepared
  <2>8. OthersOK'
    BY <1>6, <1>11, <2>2, <2>3
  <2> QED
    BY <1>1, <1>3, <1>10, <2>4, <2>5, <2>6, <2>7, <2>8 DEF NetIInv, FramesInv
<1> QED
  BY <1>2, <1>12, <1>13

LEMMA ArrivalsAre ==
  ASSUME NEW n \in Nat
  PROVE  Arrivals(n) \subseteq Received
<1>1. <<>> \in Received
  BY Sizes DEF Received
<1>2. ASSUME NEW h \in Headers, NEW len \in 1 .. BufSize - 1
      PROVE  Arriving(n, h, len) \in Received
  <2> DEFINE c == Cells("rx", n, len)
  <2>1. c \in Seq(Cell) /\ Len(c) = len /\ len \in Nat /\ len + 1 <= BufSize
    <3>1. len \in Nat /\ len + 1 <= BufSize
      BY Sizes
    <3> QED
      BY <3>1, CellsAre
  <2> HIDE DEF c
  <2>2. h \in Cell
    BY HeadersAreCells
  <2>3. <<h>> \o c \in Seq(Cell) /\ Len(<<h>> \o c) = len + 1 /\ (<<h>> \o c)[1] = h
    BY <2>1, <2>2
  <2> QED
    BY <2>1, <2>3, Sizes DEF Received, Arriving, c
<1>3. \A f \in Arrivals(n) : f = <<>> \/
        \E h \in Headers, len \in 1 .. BufSize - 1 : f = Arriving(n, h, len)
  BY DEF Arrivals
<1> QED
  BY <1>1, <1>2, <1>3

LEMMA ArrivalsTail ==
  ASSUME arrivals \in Seq(Received), arrivals # <<>>
  PROVE  Head(arrivals) \in Received /\ Tail(arrivals) \in Seq(Received)
BY HeadTailProperties

(* A frame is read, and either it reaches TCP/IP whole or nothing does.    *)
LEMMA ReadStep ==
  ASSUME NetIInv, ReadFrame, uipSize' = uipSize
  PROVE  NetIInv'
<1> DEFINE b == ReadBuf(Head(arrivals))
<1>1. /\ thread = "rx" /\ arrivals # <<>> /\ packetbuf' = Parse(b)
      /\ Deliver(b) \/ Overrun(b) \/ Discard(b)
      /\ arrivals' = Tail(arrivals)
      /\ UNCHANGED <<outputfunc, tcpip, ethernet, arrived, pending, carried, next,
                     reported, history>>
  BY DEF ReadFrame
<1>2. Head(arrivals) \in Received /\ arrivals' \in Seq(Received)
  BY <1>1, ArrivalsTail DEF NetIInv
<1>3. /\ Parse(b) \in Buffers
      /\ Parsable(b) => Data(Parse(b)) = Tail(Head(arrivals))
  BY <1>2, ReadIs DEF NetIInv
<1> HIDE DEF b
<1>4. ethernet = "up"
  BY <1>1 DEF NetIInv, LifeInv
<1>5. FramesInv'
  BY <1>1, FramesKept DEF NetIInv, history
<1>6. /\ uip' \in Seq(Cell) /\ linkIf' \in {"NULL", "8023"}
      /\ thread' \in {"rx", "input", "overrun"}
      /\ uip' # <<>> => thread' = "input"
  <2>1. CASE Deliver(b)
    <3>1. Head(arrivals) \in Seq(Cell) /\ Head(arrivals) # <<>>
      <4>1. Head(arrivals) = <<>> => b.buflen = 0
        BY <1>2, ReadIs DEF NetIInv, b
      <4> QED
        BY <1>2, <2>1, <4>1 DEF Deliver, Accepted, Parsable, Received
    <3>2. Tail(Head(arrivals)) \in Seq(Cell)
      BY <3>1
    <3> QED
      BY <1>3, <2>1, <3>2 DEF Deliver, Accepted
  <2>2. CASE Overrun(b)
    BY <2>2 DEF Overrun, Accepted, NetIInv, OthersOK
  <2>3. CASE Discard(b)
    BY <1>1, <2>3 DEF Discard, NetIInv, OthersOK, LifeInv
  <2> QED
    BY <1>1, <2>1, <2>2, <2>3
<1>7. OthersOK'
  BY <1>1, <1>6 DEF NetIInv, OthersOK
<1>8. LifeInv'
  BY <1>1, <1>4, <1>6 DEF NetIInv, LifeInv
<1> QED
  BY <1>1, <1>2, <1>3, <1>5, <1>7, <1>8 DEF NetIInv

(* A report changes nothing the packets were prepared with.                *)
LEMMA ReportStep ==
  ASSUME NetIInv, Report, uipSize' = uipSize
  PROVE  NetIInv'
<1> DEFINE e == Head(pending)
<1>1. /\ thread = "tx" /\ pending # <<>>
      /\ reported' = [reported EXCEPT ![e.frame] = "MAC_TX_OK"]
      /\ told' = [told EXCEPT ![e.frame] = packetbuf.receiver]
      /\ pending' = Tail(pending)
      /\ UNCHANGED <<packetbuf, stackVars, thread, ethernet, arrivals, arrived, carried,
                     next, asked, given>>
  BY DEF Report, Acked, PacketSent
<1>2. /\ pending \in Seq(ListElements) /\ packetbuf.receiver \in Addrs
      /\ reported \in [Frames -> {"none", "MAC_TX_OK"} \cup Errors]
      /\ told \in [Frames -> {"nobody"} \cup Addrs]
  BY DEF NetIInv, OthersOK, FramesInv, HistoryOK, Buffers
<1>3. e \in ListElements /\ e.frame \in Frames /\ e.frame < next
  <2>1. e \in ListElements /\ 1 \in DOMAIN pending /\ e = pending[1]
    BY <1>1, <1>2
  <2> QED
    BY <2>1 DEF NetIInv, FramesInv, SubmittedInv, ListElements
<1>4. /\ pending' \in Seq(ListElements)
      /\ \A i \in DOMAIN pending' : i + 1 \in DOMAIN pending /\ pending'[i] = pending[i + 1]
  BY <1>1, <1>2
<1> HIDE DEF e
<1>5. /\ reported' \in [Frames -> {"none", "MAC_TX_OK"} \cup Errors]
      /\ told' \in [Frames -> {"nobody"} \cup Addrs]
      /\ reported'[e.frame] = "MAC_TX_OK"
      /\ \A f \in Frames : f # e.frame => reported'[f] = reported[f] /\ told'[f] = told[f]
  BY <1>1, <1>2, <1>3
<1>6. HistoryOK'
  BY <1>1, <1>5 DEF NetIInv, FramesInv, HistoryOK
<1>7. SubmittedInv'
  <2>1. next \in Nat
    BY Sizes DEF NetIInv, OthersOK
  <2>2. \A f \in Frames : f >= next => f # e.frame
    BY <1>3, <2>1 DEF Frames
  <2>3. \A f \in Frames : f >= next' => given'[f] = <<>> /\ reported'[f] = "none"
    BY <1>1, <1>5, <2>2 DEF NetIInv, FramesInv, SubmittedInv
  <2>4. \A i \in DOMAIN pending' : pending'[i].frame < next'
    BY <1>1, <1>4 DEF NetIInv, FramesInv, SubmittedInv
  <2> QED
    BY <2>3, <2>4 DEF SubmittedInv
<1>8. FramesAsAsked'
  BY <1>1 DEF NetIInv, FramesInv, FramesAsAsked
<1>9. ReceiverPrepared'
  <2>1. \A i \in DOMAIN pending' : pending'[i].addr = Named(asked'[pending'[i].frame].to)
    BY <1>1, <1>4 DEF NetIInv, FramesInv, ReceiverPrepared
  <2>2. \A f \in Frames : reported'[f] \in Errors => told'[f] = Named(asked'[f].to)
    BY <1>1, <1>5 DEF NetIInv, FramesInv, ReceiverPrepared, Errors
  <2> QED
    BY <2>1, <2>2 DEF ReceiverPrepared
<1>10. OthersOK' /\ LifeInv'
  <2>1. ethernet = "up"
    BY <1>1 DEF NetIInv, LifeInv
  <2> QED
    BY <1>1, <1>4, <1>5, <2>1 DEF NetIInv, OthersOK, LifeInv, stackVars
<1> QED
  BY <1>1, <1>6, <1>7, <1>8, <1>9, <1>10 DEF NetIInv, FramesInv

LEMMA ArriveStep ==
  ASSUME NetIInv, Arrive, uipSize' = uipSize
  PROVE  NetIInv'
<1>1. /\ arrived < MaxRx /\ arrived' = arrived + 1 /\ arrived \in 0 .. MaxRx
      /\ \E frame \in Arrivals(arrived + 1) : arrivals' = Append(arrivals, frame)
      /\ UNCHANGED <<packetbuf, stackVars, thread, ethernet, pending, carried, next,
                     reported, history>>
  BY DEF Arrive, NetIInv, OthersOK
<1>2. arrived + 1 \in Nat /\ arrived + 1 \in 0 .. MaxRx
  BY <1>1, Sizes
<1>3. PICK frame \in Received : arrivals' = Append(arrivals, frame)
  BY <1>1, <1>2, ArrivalsAre
<1>4. arrivals' \in Seq(Received)
  BY <1>3 DEF NetIInv
<1>5. FramesInv'
  BY <1>1, FramesKept DEF NetIInv, history
<1>6. OthersOK' /\ LifeInv'
  BY <1>1, <1>2 DEF NetIInv, OthersOK, LifeInv, stackVars
<1> QED
  BY <1>1, <1>4, <1>5, <1>6 DEF NetIInv

LEMMA FlushStep ==
  ASSUME NetIInv, FlushFrame, uipSize' = uipSize
  PROVE  NetIInv'
<1>1. /\ arrivals # <<>> /\ arrivals' = Tail(arrivals)
      /\ packetbuf' = Fill(packetbuf, Head(arrivals))
      /\ UNCHANGED <<stackVars, thread, ethernet, arrived, pending, carried, next,
                     reported, history>>
  BY DEF FlushFrame
<1>2. Head(arrivals) \in Seq(Cell) /\ arrivals' \in Seq(Received)
  BY <1>1, ArrivalsTail DEF NetIInv, Received
<1>3. packetbuf' \in Buffers
  BY <1>1, <1>2, FillBuf DEF NetIInv
<1>4. FramesInv'
  BY <1>1, FramesKept DEF NetIInv, history
<1>5. OthersOK' /\ LifeInv'
  BY <1>1 DEF NetIInv, OthersOK, LifeInv, stackVars
<1> QED
  BY <1>2, <1>3, <1>4, <1>5 DEF NetIInv

LEMMA CarryStep ==
  ASSUME NetIInv, Carry, uipSize' = uipSize
  PROVE  NetIInv'
<1>1. PICK i \in DOMAIN pending : carried' = carried \cup {pending[i].frame}
  BY DEF Carry
<1>2. pending[i].frame \in Frames
  <2>1. pending[i] \in ListElements
    BY DEF NetIInv, OthersOK
  <2> QED
    BY <2>1 DEF ListElements
<1>3. UNCHANGED <<packetbuf, stackVars, thread, ethernet, arrivals, arrived, pending,
                  next, reported, history>>
  BY DEF Carry
<1>4. FramesInv'
  BY <1>3, FramesKept DEF NetIInv, history
<1>5. OthersOK' /\ LifeInv'
  BY <1>1, <1>2, <1>3 DEF NetIInv, OthersOK, LifeInv, stackVars
<1> QED
  BY <1>3, <1>4, <1>5 DEF NetIInv

LEMMA NetInvNext ==
  ASSUME NetIInv, [NetNext]_netVars
  PROVE  NetIInv'
<1> USE DEF history, stackVars, drvVars
<1>0. uipSize' = uipSize
  BY DEF NetNext, netVars
<1> USE <1>0
<1>1. ASSUME PollRx \/ PollTx \/ PollTxDone \/ InputDone PROVE NetIInv'
  <2>1. /\ UNCHANGED <<packetbuf, outputfunc, tcpip, drvVars, next, reported, history>>
        /\ uip' = uip \/ uip' = <<>>
        /\ linkIf' = linkIf \/ linkIf' = "NULL"
        /\ thread' \in {"idle", "rx", "tx"}
        /\ ethernet = "up" /\ uip' = <<>>
    BY <1>1 DEF PollRx, PollTx, PollTxDone, InputDone, NetIInv, LifeInv
  <2>2. FramesInv'
    BY <2>1, FramesKept DEF NetIInv
  <2>3. OthersOK' /\ LifeInv'
    BY <2>1 DEF NetIInv, OthersOK, LifeInv
  <2> QED
    BY <2>1, <2>2, <2>3 DEF NetIInv
<1>2. ASSUME PollRxDone PROVE NetIInv'
  <2>1. FramesInv'
    BY <1>2, FramesKept DEF PollRxDone, NetIInv
  <2>2. packetbuf' \in Buffers
    BY <1>2, ClearBuf DEF PollRxDone, NetIInv
  <2>3. OthersOK' /\ LifeInv'
    BY <1>2 DEF PollRxDone, NetIInv, OthersOK, LifeInv
  <2> QED
    BY <1>2, <2>1, <2>2, <2>3 DEF PollRxDone, NetIInv
<1>3. ASSUME DriverInit PROVE NetIInv'
  <2>1. FramesInv'
    BY <1>3, FramesKept DEF DriverInit, NetIInv
  <2>2. pending' \in Seq(ListElements) /\ arrivals' \in Seq(Received)
    BY <1>3 DEF DriverInit
  <2>3. OthersOK' /\ LifeInv'
    BY <1>3, <2>2 DEF DriverInit, NetIInv, OthersOK, LifeInv
  <2> QED
    BY <1>3, <2>1, <2>2, <2>3 DEF DriverInit, NetIInv
<1>4. ASSUME ConnectUp \/ ConnectDown PROVE NetIInv'
  <2>1. FramesInv'
    BY <1>4, FramesKept DEF ConnectUp, ConnectDown, NetIInv
  <2>2. OthersOK' /\ LifeInv'
    BY <1>4 DEF ConnectUp, ConnectDown, StopStack, OutputRemoved, NetIInv, OthersOK, LifeInv
  <2> QED
    BY <1>4, <2>1, <2>2 DEF ConnectUp, ConnectDown, NetIInv
<1>5. CASE UNCHANGED netVars
  <2>1. FramesInv'
    BY <1>5, FramesKept DEF netVars, NetIInv
  <2>2. OthersOK' /\ LifeInv'
    BY <1>5 DEF netVars, NetIInv, OthersOK, LifeInv
  <2> QED
    BY <1>5, <2>1, <2>2 DEF netVars, NetIInv
<1> QED
  BY <1>1, <1>2, <1>3, <1>4, <1>5, OutputStep, ReadStep, ReportStep, ArriveStep,
     FlushStep, CarryStep DEF NetNext

LEMMA NetIInvHolds == NetSpec => []NetIInv
<1>1. NetIInv /\ [NetNext]_netVars => NetIInv'
  BY NetInvNext
<1> QED
  BY NetInitInv, <1>1, PTL DEF NetSpec

-----------------------------------------------------------------------------
(* Theorems.                                                               *)

(* The variables keep their types; the packet buffer is never read or      *)
(* written past its ends.                                                  *)
THEOREM NetTypeCorrect == NetSpec => []NetTypeOK
<1>1. NetIInv => NetTypeOK
  BY TypeFromParts DEF NetIInv
<1> QED
  BY <1>1, NetIInvHolds, PTL

(* What leaves the node is what TCP/IP asked to send.                      *)
THEOREM SentAsAsked == NetSpec => []FramesAsAsked
<1>1. NetIInv => FramesAsAsked
  BY DEF NetIInv, FramesInv
<1> QED
  BY <1>1, NetIInvHolds, PTL

(* Every frame is stored and refused under the receiver it was asked for.  *)
THEOREM PreparedForReceiver == NetSpec => []ReceiverPrepared
<1>1. NetIInv => ReceiverPrepared
  BY DEF NetIInv, FramesInv
<1> QED
  BY <1>1, NetIInvHolds, PTL

(* The steps that shorten the receive ring of a running interface.         *)
LEMMA OnlyReadShortens ==
  ASSUME NetIInv, [NetNext]_netVars, ethernet = "up", arrivals # <<>>,
         arrivals' = Tail(arrivals)
  PROVE  ReadFrame
<1>1. arrivals' # arrivals
  BY TailShorter DEF NetIInv
<1>2. ~Arrive
  <2>1. \A f \in Received : arrivals' # Append(arrivals, f)
    BY TailShorter DEF NetIInv
  <2>2. Arrive => \E f \in Received : arrivals' = Append(arrivals, f)
    <3>1. arrived + 1 \in Nat
      BY Sizes DEF NetIInv, OthersOK
    <3> QED
      BY <3>1, ArrivalsAre DEF Arrive
  <2> QED
    BY <2>1, <2>2
<1>3. ~Output /\ ~PollRx /\ ~InputDone /\ ~PollRxDone /\ ~PollTx /\ ~Report
      /\ ~PollTxDone /\ ~ConnectUp /\ ~ConnectDown /\ ~Carry
  BY <1>1 DEF Output, PollRx, InputDone, PollRxDone, PollTx, Report, PollTxDone,
              ConnectUp, ConnectDown, Carry, drvVars
<1>4. ~DriverInit /\ ~FlushFrame
  BY DEF DriverInit, FlushFrame
<1>5. netVars' # netVars
  BY <1>1 DEF netVars, drvVars
<1> QED
  BY <1>2, <1>3, <1>4, <1>5 DEF NetNext

LEMMA DeliverStep ==
  ASSUME NetIInv, [NetNext]_netVars
  PROVE  Delivered
<1> SUFFICES ASSUME ethernet = "up", arrivals # <<>>, arrivals' = Tail(arrivals)
             PROVE  LET frame == Head(arrivals)
                        wanted == /\ frame # <<>>
                                  /\ frame[1][2] \in {Self} \cup Groups \cup NearGroups
                                  /\ frame[1][4] = "IPv6"
                    IN  IF wanted /\ Len(frame) - 1 <= uipSize
                        THEN thread' = "input" /\ uip' = Tail(frame)
                        ELSE thread' # "input" /\ uip' = uip
  BY DEF Delivered
<1> DEFINE frame == Head(arrivals)
           b == ReadBuf(frame)
<1>1. thread = "rx" /\ (Deliver(b) \/ Overrun(b) \/ Discard(b))
  BY OnlyReadShortens DEF ReadFrame
<1>2. frame \in Received
  BY ArrivalsTail DEF NetIInv
<1> HIDE DEF frame
<1>3. /\ b.buflen = Len(frame)
      /\ frame # <<>> => HeaderOf(b) = frame[1]
      /\ Parsable(b) => /\ Data(Parse(b)) = Tail(frame)
                        /\ Parse(b).buflen = Len(frame) - 1
  BY <1>2, ReadIs DEF NetIInv
<1> HIDE DEF b
<1>4. uip = <<>>
  BY <1>1 DEF NetIInv, LifeInv
<1>5. b.buflen >= 1 <=> frame # <<>>
  BY <1>2, <1>3 DEF Received
<1>6. Parsable(b) <=> /\ frame # <<>>
                      /\ frame[1][2] \in {Self} \cup Groups \cup NearGroups
                      /\ frame[1][4] = "IPv6"
  BY <1>3, <1>5 DEF Parsable, ForUs, Starts33, Dst, Proto
<1>7. CASE Deliver(b)
  BY <1>3, <1>6, <1>7 DEF Deliver, Accepted, frame
<1>8. CASE Overrun(b)
  <2>1. ~(Len(frame) - 1 <= uipSize)
    <3>1. Len(frame) \in Nat /\ uipSize \in Nat /\ Len(frame) - 1 > uipSize
      BY <1>2, <1>3, <1>8, Sizes DEF Overrun, Accepted, NetIInv, OthersOK, Received
    <3> QED
      BY <3>1
  <2> QED
    BY <1>8, <2>1 DEF Overrun, frame
<1>9. CASE Discard(b)
  BY <1>1, <1>4, <1>6, <1>9 DEF Discard, frame
<1> QED
  BY <1>1, <1>7, <1>8, <1>9

(* An IPv6 frame for this node or for an address 33:... that fits uip_buf  *)
(* reaches TCP/IP whole, and no other frame does.                          *)
THEOREM WantedFramesDelivered == NetSpec => DeliversExactly
<1>1. NetIInv /\ [NetNext]_netVars => [Delivered]_netVars
  BY DeliverStep
<1> QED
  BY <1>1, NetIInvHolds, PTL DEF NetSpec, DeliversExactly

(* Which packets do not fit, whatever the buffer was used for before.      *)
LEMMA TooLong ==
  ASSUME packetbuf \in Buffers, NEW packet \in Seq(Cell), Len(packet) <= BufSize,
         NEW dst \in Targets, ~CanHdrAlloc(OutputBuf(packet, dst))
  PROVE  Len(packet) = BufSize
<1> DEFINE b == OutputBuf(packet, dst)
<1>1. b.hdrptr = HdrSize /\ b.bufptr = 0 /\ b.buflen = Len(packet)
  BY OutputIs
<1>2. ~CanHdrAlloc(b)
  OBVIOUS
<1> HIDE DEF b
<1>3. TotLen(b) = Len(packet)
  BY <1>1, Sizes DEF TotLen, HdrLen
<1> QED
  BY <1>1, <1>2, <1>3, Sizes DEF CanHdrAlloc

LEMMA TurnedStep ==
  ASSUME NetIInv, [NetNext]_netVars
  PROVE  Turned
<1> SUFFICES ASSUME NEW f \in Frames, reported[f] = "none",
                    reported'[f] = "MAC_TX_ERR_FATAL"
             PROVE  Len(asked'[f].packet) = BufSize \/ Len(pending) >= PoolSize
  BY DEF Turned
<1>1. /\ packetbuf \in Buffers
      /\ reported \in [Frames -> {"none", "MAC_TX_OK"} \cup Errors]
      /\ asked \in [Frames -> [packet : Seq(Cell), to : {Null} \cup Targets]]
      /\ Len(pending) \in Nat
  BY DEF NetIInv, OthersOK, FramesInv, HistoryOK
<1>2. reported' # reported
  OBVIOUS
<1>3. ~Report
  BY <1>1 DEF Report, PacketSent
<1>4. Output
  BY <1>2, <1>3 DEF NetNext, netVars, PollRx, ReadFrame, InputDone, PollRxDone, PollTx,
     PollTxDone, DriverInit, FlushFrame, ConnectUp, ConnectDown, Carry, Arrive
<1>5. PICK len \in Lengths \cap 1 .. uipSize, dst \in Targets :
        LET packet == Cells("tx", next, len)
            b == OutputBuf(packet, dst)
        IN  /\ asked' = [asked EXCEPT ![next] = [packet |-> packet, to |-> dst]]
            /\ FramerFails(b) \/ DriverTakes(b) \/ DriverRefuses(b)
  BY <1>4 DEF Output
<1> DEFINE packet == Cells("tx", next, len)
           b == OutputBuf(packet, dst)
<1>6. next \in Frames
  BY <1>4, OutputCases
<1>7. packet \in Seq(Cell) /\ Len(packet) <= BufSize
  <2>1. len \in Nat /\ len <= BufSize
    BY Sizes DEF NetIInv, OthersOK
  <2> QED
    BY <1>6, <2>1, CellsAre DEF Frames
<1> HIDE DEF packet
<1>8. ~CanHdrAlloc(b) => Len(packet) = BufSize
  BY <1>1, <1>7, TooLong
<1> HIDE DEF b
<1>9. ~DriverTakes(b)
  BY <1>2 DEF DriverTakes
<1>10. f = next
  BY <1>1, <1>5, <1>9 DEF b, packet, FramerFails, DriverRefuses, PacketSent
<1>11. asked'[f].packet = packet
  BY <1>1, <1>5, <1>6, <1>10 DEF packet
<1>12. CASE FramerFails(b)
  BY <1>8, <1>11, <1>12 DEF FramerFails
<1>13. CASE DriverRefuses(b)
  <2>1. ~(Len(pending) < PoolSize)
    BY <1>1, <1>6, <1>10, <1>13 DEF DriverRefuses, PacketSent
  <2> QED
    BY <1>1, <2>1, Sizes
<1> QED
  BY <1>5, <1>9, <1>12, <1>13 DEF b, packet

(* What earlier packets did to the pointers of the packet buffer does not
   matter to the next: only a packet that is too long, or an empty pool,
   makes a transmission fail for good.                                     *)
THEOREM OnlyTooLongRefused == NetSpec => RefusedForCause
<1>1. NetIInv /\ [NetNext]_netVars => [Turned]_netVars
  BY TurnedStep
<1> QED
  BY <1>1, NetIInvHolds, PTL DEF NetSpec, RefusedForCause

-----------------------------------------------------------------------------
(* Refinement of TxService.                                                *)

FramesOf(p) == [i \in DOMAIN p |-> p[i].frame]

LEMMA QueueIs ==
  ASSUME NEW p \in Seq(ListElements)
  PROVE  /\ FramesOf(p) \in Seq(Frames) /\ Len(FramesOf(p)) = Len(p)
         /\ \A i \in 1 .. Len(p) : FramesOf(p)[i] = p[i].frame
<1>1. \A i \in 1 .. Len(p) : p[i].frame \in Frames
  <2>1. \A i \in 1 .. Len(p) : p[i] \in ListElements
    OBVIOUS
  <2> QED
    BY <2>1 DEF ListElements
<1>2. DOMAIN p = 1 .. Len(p) /\ Len(p) \in Nat
  OBVIOUS
<1>3. FramesOf(p) = [i \in 1 .. Len(p) |-> p[i].frame]
  BY <1>2 DEF FramesOf
<1> QED
  BY <1>1, <1>2, <1>3

LEMMA QueueAppend ==
  ASSUME NEW p \in Seq(ListElements), NEW e \in ListElements
  PROVE  FramesOf(Append(p, e)) = Append(FramesOf(p), e.frame)
<1> DEFINE r == Append(p, e)
           q == Append(FramesOf(p), e.frame)
<1>1. /\ r \in Seq(ListElements) /\ Len(r) = Len(p) + 1 /\ Len(p) \in Nat
      /\ \A i \in 1 .. Len(p) : r[i] = p[i]
      /\ r[Len(p) + 1] = e
  OBVIOUS
<1>2. e.frame \in Frames
  BY DEF ListElements
<1>3. /\ q \in Seq(Frames) /\ Len(q) = Len(p) + 1
      /\ \A i \in 1 .. Len(p) : q[i] = p[i].frame
      /\ q[Len(p) + 1] = e.frame
  BY <1>1, <1>2, QueueIs, AppendProperties
<1> HIDE DEF r, q
<1>4. /\ FramesOf(r) \in Seq(Frames) /\ Len(FramesOf(r)) = Len(r)
      /\ \A i \in 1 .. Len(r) : FramesOf(r)[i] = r[i].frame
  BY <1>1, QueueIs
<1>5. ASSUME NEW i \in 1 .. Len(FramesOf(r)) PROVE FramesOf(r)[i] = q[i]
  <2>1. i \in 1 .. Len(p) \/ i = Len(p) + 1
    BY <1>1, <1>4
  <2> QED
    BY <1>1, <1>3, <1>4, <2>1
<1>6. FramesOf(r) = q
  BY <1>1, <1>3, <1>4, <1>5, SeqEqual
<1> QED
  BY <1>6 DEF r, q

LEMMA QueueTail ==
  ASSUME NEW p \in Seq(ListElements), p # <<>>
  PROVE  /\ FramesOf(p) # <<>> /\ Head(FramesOf(p)) = Head(p).frame
         /\ FramesOf(Tail(p)) = Tail(FramesOf(p))
<1> DEFINE r == Tail(p)
           q == FramesOf(p)
<1>1. /\ r \in Seq(ListElements) /\ Len(r) = Len(p) - 1 /\ Len(p) \in Nat /\ Len(p) >= 1
      /\ \A i \in 1 .. Len(r) : r[i] = p[i + 1]
      /\ Head(p) = p[1]
  OBVIOUS
<1> HIDE DEF r
<1>2. /\ q \in Seq(Frames) /\ Len(q) = Len(p)
      /\ \A i \in 1 .. Len(p) : q[i] = p[i].frame
  BY QueueIs
<1> HIDE DEF q
<1>3. q # <<>> /\ Head(q) = Head(p).frame
  BY <1>1, <1>2
<1>4. /\ Tail(q) \in Seq(Frames) /\ Len(Tail(q)) = Len(r)
      /\ \A i \in 1 .. Len(Tail(q)) : Tail(q)[i] = q[i + 1]
  BY <1>1, <1>2, <1>3, HeadTailProperties
<1>5. /\ FramesOf(r) \in Seq(Frames) /\ Len(FramesOf(r)) = Len(r)
      /\ \A i \in 1 .. Len(r) : FramesOf(r)[i] = r[i].frame
  BY <1>1, QueueIs
<1>6. ASSUME NEW i \in 1 .. Len(FramesOf(r)) PROVE FramesOf(r)[i] = Tail(q)[i]
  <2>1. i \in 1 .. Len(r) /\ i + 1 \in 1 .. Len(p)
    BY <1>1, <1>5
  <2> QED
    BY <1>1, <1>2, <1>4, <1>5, <2>1
<1>7. FramesOf(r) = Tail(q)
  BY <1>4, <1>5, <1>6, SeqEqual
<1> QED
  BY <1>3, <1>7 DEF r, q

(* What the steps of the abstract service are, of the stack's variables.   *)
LEMMA RefineInit == NetInit => IpService!Init
BY DEF NetInit, IpService!Init, Frames

LEMMA RefineStep ==
  ASSUME NetIInv, [NetNext]_netVars
  PROVE  [IpService!Next]_(IpService!vars)
<1> USE DEF history, stackVars, drvVars
<1>1. pending \in Seq(ListElements)
  BY DEF NetIInv, OthersOK
<1>2. ASSUME Output PROVE IpService!Next
  <2>1. ethernet = "up" /\ next \in Frames
    BY <1>2, OutputCases
  <2>2. PICK packet \in Seq(Cell), dst \in Targets : Taken(packet, dst) \/ Refused(dst)
    BY <1>2, OutputCases
  <2>3. next <= MaxFrames /\ next' = next + 1 /\ UNCHANGED <<ethernet, carried>>
    BY <1>2 DEF Output
  <2>4. ASSUME Taken(packet, dst) PROVE IpService!Accept
    <3> DEFINE e == [frame |-> next, addr |-> Named(dst)]
    <3>1. e \in ListElements /\ e.frame = next
      BY <2>1, NamedIs DEF ListElements, Targets
    <3>2. pending' = Append(pending, e) /\ UNCHANGED reported
      BY <2>4 DEF Taken
    <3> HIDE DEF e
    <3>3. FramesOf(pending)' = Append(FramesOf(pending), next)
      BY <1>1, <3>1, <3>2, QueueAppend
    <3> QED
      BY <2>1, <2>3, <3>2, <3>3 DEF IpService!Accept, FramesOf
  <2>5. ASSUME Refused(dst) PROVE IpService!Refuse
    BY <2>1, <2>3, <2>5 DEF IpService!Refuse, Refused, Errors
  <2> QED
    BY <2>2, <2>4, <2>5 DEF IpService!Next
<1>3. ASSUME Report PROVE IpService!Report
  <2>1. /\ ethernet = "up" /\ pending # <<>> /\ Head(pending).frame \in carried
        /\ reported' = [reported EXCEPT ![Head(pending).frame] = "MAC_TX_OK"]
        /\ pending' = Tail(pending)
        /\ UNCHANGED <<ethernet, next, carried>>
    BY <1>3 DEF Report, Acked, PacketSent, NetIInv, LifeInv
  <2>2. /\ FramesOf(pending) # <<>> /\ Head(FramesOf(pending)) = Head(pending).frame
        /\ FramesOf(pending)' = Tail(FramesOf(pending))
    BY <1>1, <2>1, QueueTail
  <2> QED
    BY <2>1, <2>2 DEF IpService!Report, FramesOf
<1>4. ASSUME Carry PROVE IpService!Carry
  <2>1. PICK i \in DOMAIN pending : carried' = carried \cup {pending[i].frame}
    BY <1>4 DEF Carry
  <2>2. i \in DOMAIN FramesOf(pending) /\ FramesOf(pending)[i] = pending[i].frame
    BY DEF FramesOf
  <2>3. UNCHANGED <<ethernet, next, pending, reported>>
    BY <1>4 DEF Carry
  <2> QED
    BY <2>1, <2>2, <2>3 DEF IpService!Carry, FramesOf
<1>5. ASSUME DriverInit PROVE IpService!Lose
  BY <1>5 DEF DriverInit, IpService!Lose
<1>6. ASSUME ConnectUp PROVE IpService!Start
  BY <1>6 DEF ConnectUp, IpService!Start, NetIInv, LifeInv
<1>7. ASSUME ConnectDown PROVE IpService!Stop
  BY <1>7 DEF ConnectDown, IpService!Stop
<1>8. ASSUME PollRx \/ ReadFrame \/ InputDone \/ PollRxDone \/ PollTx \/ PollTxDone
             \/ FlushFrame \/ Arrive \/ UNCHANGED netVars
      PROVE  UNCHANGED IpService!vars
  BY <1>8 DEF PollRx, ReadFrame, InputDone, PollRxDone, PollTx, PollTxDone, FlushFrame,
              Arrive, netVars, IpService!vars
<1> QED
  BY <1>2, <1>3, <1>4, <1>5, <1>6, <1>7, <1>8 DEF NetNext, IpService!Next

(* Stack and driver implement the service TCP/IP uses.                     *)
THEOREM ImplementsService == NetSpec => IpServiceSpec
<1>1. NetIInv /\ [NetNext]_netVars => [IpService!Next]_(IpService!vars)
  BY RefineStep
<1> QED
  BY <1>1, RefineInit, NetIInvHolds, PTL DEF NetSpec, IpServiceSpec, IpService!Spec
=============================================================================
