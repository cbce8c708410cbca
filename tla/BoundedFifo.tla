---------------------------- MODULE BoundedFifo ----------------------------
(***************************************************************************)
(* What core/lib/ringbuf32.h promises: bytes come out in the order they    *)
(* went in, a byte is refused only by a buffer that is full at that moment *)
(* and none is handed out only by one that is empty at that moment.        *)
(***************************************************************************)
EXTENDS Naturals, Sequences

CONSTANTS Byte,       (* the bytes                                         *)
          Capacity,   (* how many of them fit                              *)
          NoByte      (* what a read of an empty buffer returns            *)

VARIABLES queue, putRet, getRet

vars == <<queue, putRet, getRet>>

Init == queue = <<>> /\ putRet = 1 /\ getRet = NoByte

Put(c) ==
  /\ Len(queue) < Capacity
  /\ queue' = Append(queue, c) /\ putRet' = 1
  /\ UNCHANGED getRet

PutRefused ==
  /\ Len(queue) = Capacity
  /\ putRet' = 0
  /\ UNCHANGED <<queue, getRet>>

Get ==
  /\ queue # <<>>
  /\ getRet' = Head(queue) /\ queue' = Tail(queue)
  /\ UNCHANGED putRet

GetNothing ==
  /\ queue = <<>>
  /\ getRet' = NoByte
  /\ UNCHANGED <<queue, putRet>>

Next == (\E c \in Byte : Put(c)) \/ PutRefused \/ Get \/ GetNothing

Spec == Init /\ [][Next]_vars
=============================================================================
