----------------------------- MODULE RingBuf32 -----------------------------
(***************************************************************************)
(* core/lib/ringbuf32.c: a ring of bytes with one context that puts and    *)
(* one that gets, no lock between them.  Either may be an interrupt that   *)
(* preempts the other, so their steps interleave freely here: a call takes *)
(* a step that compares the two pointers, one that touches the data and    *)
(* one that advances its own pointer.  Each step reads the other context's *)
(* pointer at most once, an aligned word the core loads atomically.  The   *)
(* order of the steps is that of the source: put writes through volatile   *)
(* lvalues, and in get the byte may alias the pointer.                     *)
(***************************************************************************)
EXTENDS Integers, Sequences

CONSTANTS
  Size,     (* r->mask + 1                                                 *)
  Byte,     (* the bytes that are put                                      *)
  NoByte    (* the -1 that ringbuf32_get returns                           *)

(* ringbuf32_init is given a power of two.  put stores its pointer through *)
(* an eight-bit lvalue, so that a buffer of more than 256 bytes, which the *)
(* header allows, would not work.                                          *)
ASSUME RingBufAssumption ==
  /\ Size \in Nat \ {0} /\ Size <= 256
  /\ Size \in {2 ^ k : k \in 0 .. 8}
  /\ Byte # {} /\ NoByte \notin Byte

Index == 0 .. Size - 1

VARIABLES
  data,       (* the array                                                 *)
  putPtr, getPtr,
  putPc, putByte,   (* the context in ringbuf32_put, and its argument      *)
  getPc, getByte,   (* the context in ringbuf32_get, and its local c       *)
  putRet, getRet    (* what the last call of each returned                 *)

putVars == <<putPtr, putPc, putByte, putRet>>
getVars == <<getPtr, getPc, getByte, getRet>>
ringVars == <<data, putVars, getVars>>

(* Type invariant.                                                         *)
RingTypeOK ==
  /\ data \in [Index -> Byte]
  /\ putPtr \in Index /\ getPtr \in Index
  /\ putPc \in {"idle", "store", "advance"} /\ putByte \in Byte
  /\ getPc \in {"idle", "load", "advance"} /\ getByte \in Byte
  /\ putRet \in {0, 1} /\ getRet \in Byte \cup {NoByte}

(* x & r->mask, for what is added to and subtracted from a pointer.        *)
Masked(x) == IF x < 0 THEN x + Size ELSE IF x >= Size THEN x - Size ELSE x

(* ringbuf32_elements, and the comparisons of put and get.                 *)
Elements == Masked(putPtr - getPtr)
FullNever == Elements = Size
Full == Elements = Size - 1
Empty == ~(Elements > 0)

(* CC_ACCESS_NOW(uint8_t, r->put_ptr) = v replaces the low byte only.      *)
StoreNarrow(v) == putPtr' = (putPtr - (putPtr % 2)) + (v % 2)
StorePutPtr(v) == putPtr' = (putPtr - (putPtr % 256)) + (v % 256)

(* ringbuf32_init; the array is the caller's and may hold anything.        *)
RingInit ==
  /\ data \in [Index -> Byte]
  /\ putPtr = 0 /\ getPtr = 0
  /\ putPc = "idle" /\ putByte \in Byte /\ putRet = 1
  /\ getPc = "idle" /\ getByte \in Byte /\ getRet = NoByte

-----------------------------------------------------------------------------
PutFull ==
  /\ putPc = "idle" /\ Full
  /\ putRet' = 0
  /\ UNCHANGED <<data, putPtr, putPc, putByte, getVars>>

PutCheck(c) ==
  /\ putPc = "idle" /\ ~Full
  /\ putByte' = c /\ putPc' = "store"
  /\ UNCHANGED <<data, putPtr, putRet, getVars>>

PutStore ==
  /\ putPc = "store"
  /\ data' = [data EXCEPT ![putPtr] = putByte]
  /\ putPc' = "advance"
  /\ UNCHANGED <<putPtr, putByte, putRet, getVars>>

PutAdvance ==
  /\ putPc = "advance"
  /\ StorePutPtr(Masked(putPtr + 1))
  /\ putRet' = 1 /\ putPc' = "idle"
  /\ UNCHANGED <<data, putByte, getVars>>

GetEmpty ==
  /\ getPc = "idle" /\ Empty
  /\ getRet' = NoByte
  /\ UNCHANGED <<data, getPtr, getPc, getByte, putVars>>

GetCheck ==
  /\ getPc = "idle" /\ ~Empty
  /\ getPc' = "load"
  /\ UNCHANGED <<data, getPtr, getByte, getRet, putVars>>

GetLoad ==
  /\ getPc = "load"
  /\ getByte' = data[getPtr] /\ getPc' = "advance"
  /\ UNCHANGED <<data, getPtr, getRet, putVars>>

GetAdvance ==
  /\ getPc = "advance"
  /\ getPtr' = Masked(getPtr + 1)
  /\ getRet' = getByte /\ getPc' = "idle"
  /\ UNCHANGED <<data, getByte, putVars>>

Putter == PutFull \/ (\E c \in Byte : PutCheck(c)) \/ PutStore \/ PutAdvance
Getter == GetEmpty \/ GetCheck \/ GetLoad \/ GetAdvance

RingNext == Putter \/ Getter

RingSpec == RingInit /\ [][RingNext]_ringVars

-----------------------------------------------------------------------------
(* The bytes between the two pointers, oldest first.                       *)
RingContents == [i \in 1 .. Elements |-> data[Masked(getPtr + i - 1)]]

Fifo == INSTANCE BoundedFifo WITH
  Capacity <- Size - 1, queue <- RingContents

(* With put in one context and get in another, at whatever point one       *)
(* interrupts the other, the ring buffer is a bounded queue of Size - 1    *)
(* bytes: the answers full and empty are true when they are computed, and  *)
(* every byte that was accepted comes out once and in order.               *)
FifoSpec == Fifo!Spec

(* What a call has found out stays true until it acts on it, although the  *)
(* other context moves its pointer meanwhile: put has a free slot which    *)
(* is not the one get reads from, and the byte get has loaded is still the *)
(* oldest of the buffer.                                                   *)
ChecksStayTrue ==
  /\ putPc # "idle" => ~Full
  /\ getPc # "idle" => ~Empty
  /\ putPc = "advance" => data[putPtr] = putByte
  /\ getPc = "advance" => getByte = data[getPtr]
=============================================================================
