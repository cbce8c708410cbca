----------------------------- MODULE PacketBuf -----------------------------
(***************************************************************************)
(* The packet buffer of Contiki, as the copy in core/net/bk/packetbuf.c    *)
(* implements it: one buffer for all packets of the node, with a header    *)
(* area in front of the data.  Memory is counted in cells of the size of   *)
(* an Ethernet header.  A cell remembers what was written into it and      *)
(* keeps it until it is overwritten: packetbuf_clear resets pointers only. *)
(***************************************************************************)
EXTENDS Naturals, Sequences

CONSTANTS
  HdrSize,     (* PACKETBUF_HDR_SIZE, in cells                             *)
  BufSize      (* PACKETBUF_SIZE, in cells                                 *)

ASSUME PacketBufAssumption ==
  /\ HdrSize \in Nat \ {0}
  /\ BufSize \in Nat \ {0}

Null  == "null"                     (* linkaddr_null                       *)
Blank == <<"blank">>                (* a cell nothing was written to       *)

Fresh == [mem    |-> [i \in 0 .. HdrSize + BufSize - 1 |-> Blank],
          hdrptr |-> HdrSize, bufptr |-> 0, buflen |-> 0,
          sender |-> Null, receiver |-> Null, proto |-> "none"]

(* packetbuf_clear, with packetbuf_attr_clear.                             *)
ClearAttrs(b) == [b EXCEPT !.buflen = 0, !.sender = Null, !.receiver = Null,
                           !.proto = "none"]
Clear(b) == [b EXCEPT !.hdrptr = HdrSize, !.bufptr = 0, !.buflen = 0,
                      !.sender = Null, !.receiver = Null, !.proto = "none"]

(* Cells written from packetbuf_dataptr() on.                              *)
Fill(b, cells) ==
  LET start == HdrSize + b.bufptr IN
  [b EXCEPT !.mem = [i \in DOMAIN @ |->
     IF i \in start .. start + Len(cells) - 1 THEN cells[i - start + 1] ELSE @[i]]]

SetDatalen(b, len) == [b EXCEPT !.buflen = len]

(* packetbuf_copyfrom of no more than BufSize cells.                       *)
CopyFrom(b, cells) == SetDatalen(Fill(Clear(b), cells), Len(cells))

(* packetbuf_hdrlen and packetbuf_totlen: a packet with a header in front  *)
(* is outbound, and what was cut off in front of another one still counts. *)
HdrLen(b) == IF b.hdrptr # HdrSize THEN HdrSize - b.hdrptr ELSE b.bufptr
TotLen(b) == HdrLen(b) + b.buflen

(* packetbuf_hdralloc of one cell, and the header written into it.         *)
CanHdrAlloc(b) == b.hdrptr >= 1 /\ TotLen(b) + 1 <= BufSize
HdrAlloc(b, header) == [b EXCEPT !.hdrptr = @ - 1, !.mem[b.hdrptr - 1] = header]

(* packetbuf_hdrreduce of one cell.                                        *)
HdrReduce(b) == IF b.buflen < 1 THEN b
                ELSE [b EXCEPT !.bufptr = @ + 1, !.buflen = @ - 1]

(* What packetbuf_dataptr() and packetbuf_hdrptr() point at.               *)
Data(b)  == [i \in 1 .. b.buflen |-> b.mem[HdrSize + b.bufptr + i - 1]]
Frame(b) == [i \in 1 .. TotLen(b) |-> b.mem[b.hdrptr + i - 1]]
=============================================================================
