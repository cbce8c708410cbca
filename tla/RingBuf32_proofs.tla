-------------------------- MODULE RingBuf32_proofs --------------------------
(***************************************************************************)
(* Proofs about module RingBuf32, for every size up to 256 and every set   *)
(* of bytes: ChecksStayTrue is inductive together with the types, and with *)
(* it every step of put and get is a step of BoundedFifo, or none.         *)
(***************************************************************************)
EXTENDS RingBuf32, SequenceTheorems, TLAPS

RingIInv == RingTypeOK /\ ChecksStayTrue

-----------------------------------------------------------------------------
LEMMA SizeRange == Size \in Nat /\ Size > 0 /\ Size <= 256
  BY RingBufAssumption

(* The pointers stay within the ring, and the store through the eight-bit
   lvalue stores the whole pointer.                                        *)
LEMMA PointerClosed ==
  ASSUME NEW p \in Index
  PROVE  /\ Masked(p + 1) \in Index
         /\ (p - (p % 256)) + (Masked(p + 1) % 256) = Masked(p + 1)
<1>1. Masked(p + 1) \in Index
  BY SizeRange DEF Index, Masked
<1>2. p \in 0 .. 255 /\ Masked(p + 1) \in 0 .. 255
  BY <1>1, SizeRange DEF Index
<1>3. \A x \in 0 .. 255 : x % 256 = x
  OBVIOUS
<1> QED
  BY <1>1, <1>2, <1>3

(* How many bytes a step of a pointer adds or takes.                       *)
LEMMA RingDistance ==
  ASSUME NEW p \in Index, NEW g \in Index
  PROVE  /\ Masked(p - g) \in Index
         /\ Masked(p - g) = 0 <=> p = g
         /\ Masked(p - g) # Size - 1 =>
              Masked(Masked(p + 1) - g) = Masked(p - g) + 1
         /\ Masked(p - g) # 0 =>
              Masked(p - Masked(g + 1)) = Masked(p - g) - 1
BY SizeRange DEF Index, Masked

(* Where the bytes are: the i-th from g, and where the next one goes.      *)
LEMMA RingPlaces ==
  ASSUME NEW p \in Index, NEW g \in Index
  PROVE  /\ \A i \in 1 .. Masked(p - g) :
              Masked(g + i - 1) \in Index /\ Masked(g + i - 1) # p
         /\ Masked(g + (Masked(p - g) + 1) - 1) = p
         /\ \A i \in 1 .. Masked(p - g) - 1 :
              Masked(Masked(g + 1) + i - 1) = Masked(g + (i + 1) - 1)
         /\ Masked(g + 1 - 1) = g
BY SizeRange DEF Index, Masked

-----------------------------------------------------------------------------
LEMMA InitRingIInv == RingInit => RingIInv
  BY SizeRange DEF RingInit, RingIInv, RingTypeOK, ChecksStayTrue, Index

LEMMA RingPutStep ==
  ASSUME RingIInv, Putter
  PROVE  RingIInv'
<1> USE DEF putVars, getVars
<1>1. CASE PutFull
  BY <1>1 DEF RingIInv, RingTypeOK, ChecksStayTrue, PutFull, Full, Empty, Elements
<1>2. ASSUME NEW c \in Byte, PutCheck(c) PROVE RingIInv'
  BY <1>2 DEF RingIInv, RingTypeOK, ChecksStayTrue, PutCheck, Full, Empty, Elements
<1>3. CASE PutStore
  <2>1. RingTypeOK'
    BY <1>3 DEF RingIInv, RingTypeOK, PutStore
  <2>2. getPc # "idle" => getPtr # putPtr
    BY RingDistance DEF RingIInv, RingTypeOK, ChecksStayTrue, Empty, Elements
  <2> QED
    BY <1>3, <2>1, <2>2 DEF RingIInv, RingTypeOK, ChecksStayTrue, PutStore, Full, Empty, Elements
<1>4. CASE PutAdvance
  <2>1. putPtr' = Masked(putPtr + 1) /\ putPtr' \in Index
    BY <1>4, PointerClosed DEF RingIInv, RingTypeOK, PutAdvance, StorePutPtr
  <2>2. RingTypeOK'
    BY <1>4, <2>1 DEF RingIInv, RingTypeOK, PutAdvance
  <2>3. Elements' = Elements + 1 /\ Elements \in Index
    BY <1>4, <2>1, RingDistance DEF RingIInv, RingTypeOK, ChecksStayTrue, Full, Elements, PutAdvance
  <2>4. ~Empty'
    BY <2>3 DEF Empty, Index
  <2> QED
    BY <1>4, <2>2, <2>4 DEF RingIInv, ChecksStayTrue, PutAdvance
<1> QED
  BY <1>1, <1>2, <1>3, <1>4 DEF Putter

LEMMA RingGetStep ==
  ASSUME RingIInv, Getter
  PROVE  RingIInv'
<1> USE DEF putVars, getVars
<1>1. CASE GetEmpty
  BY <1>1 DEF RingIInv, RingTypeOK, ChecksStayTrue, GetEmpty, Full, Empty, Elements
<1>2. CASE GetCheck
  BY <1>2 DEF RingIInv, RingTypeOK, ChecksStayTrue, GetCheck, Full, Empty, Elements
<1>3. CASE GetLoad
  BY <1>3 DEF RingIInv, RingTypeOK, ChecksStayTrue, GetLoad, Full, Empty, Elements
<1>4. CASE GetAdvance
  <2>1. RingTypeOK'
    BY <1>4, PointerClosed DEF RingIInv, RingTypeOK, GetAdvance
  <2>2. Elements' = Elements - 1 /\ Elements \in Index
    BY <1>4, RingDistance DEF RingIInv, RingTypeOK, ChecksStayTrue, Empty, Elements, GetAdvance, Index
  <2>3. ~Full'
    BY <1>4, <2>2, SizeRange DEF Full, Index
  <2> QED
    BY <1>4, <2>1, <2>3 DEF RingIInv, ChecksStayTrue, GetAdvance
<1> QED
  BY <1>1, <1>2, <1>3, <1>4 DEF Getter

(* Types, and ChecksStayTrue: at no point at which one context interrupts
   the other does it invalidate what the other has found out.              *)
THEOREM ChecksHold == RingSpec => [](RingTypeOK /\ ChecksStayTrue)
<1>1. RingIInv /\ [RingNext]_ringVars => RingIInv'
  <2>1. ASSUME RingIInv, UNCHANGED ringVars PROVE RingIInv'
    BY <2>1 DEF RingIInv, RingTypeOK, ChecksStayTrue, Full, Empty, Elements, ringVars, putVars, getVars
  <2> QED
    BY <2>1, RingPutStep, RingGetStep DEF RingNext
<1>2. RingIInv <=> RingTypeOK /\ ChecksStayTrue
  BY DEF RingIInv
<1> QED
  BY <1>1, <1>2, InitRingIInv, PTL DEF RingSpec

(* Both pointers stay inside the array and every byte of it is one that was
   put, or the zero it held before.                                        *)
THEOREM RingTypeCorrect == RingSpec => []RingTypeOK
  BY ChecksHold, PTL

-----------------------------------------------------------------------------
(* A sequence that is another one with a byte more at its end, and one
   that is another one without its first byte.                             *)
LEMMA IsAppend ==
  ASSUME NEW S, NEW s \in Seq(S), NEW t \in Seq(S), NEW e \in S,
         Len(t) = Len(s) + 1, t[Len(s) + 1] = e,
         \A i \in 1 .. Len(s) : t[i] = s[i]
  PROVE  t = Append(s, e)
<1>1. /\ Append(s, e) \in Seq(S)
      /\ Len(Append(s, e)) = Len(t)
      /\ \A i \in 1 .. Len(t) : t[i] = Append(s, e)[i]
  OBVIOUS
<1> QED
  BY <1>1, SeqEqual

LEMMA IsTail ==
  ASSUME NEW S, NEW s \in Seq(S), NEW t \in Seq(S), s # << >>,
         Len(s) = Len(t) + 1,
         \A i \in 1 .. Len(t) : t[i] = s[i + 1]
  PROVE  t = Tail(s)
<1>1. /\ Tail(s) \in Seq(S)
      /\ Len(Tail(s)) = Len(t)
      /\ \A i \in 1 .. Len(t) : t[i] = Tail(s)[i]
  BY HeadTailProperties
<1> QED
  BY <1>1, SeqEqual

(* RingContents, as an operator of the array and the pointers, so that it can
   be spoken of before and after a step.                                   *)
RingBytes(d, p, g) == [i \in 1 .. Masked(p - g) |-> d[Masked(g + i - 1)]]

LEMMA BytesType ==
  ASSUME NEW d \in [Index -> Byte], NEW p \in Index, NEW g \in Index
  PROVE  /\ Masked(p - g) \in Nat /\ Masked(p - g) < Size
         /\ RingBytes(d, p, g) \in Seq(Byte) /\ Len(RingBytes(d, p, g)) = Masked(p - g)
         /\ \A i \in 1 .. Masked(p - g) : RingBytes(d, p, g)[i] = d[Masked(g + i - 1)]
<1>1. Masked(p - g) \in Nat /\ Masked(p - g) < Size
  BY SizeRange DEF Index, Masked
<1>2. RingBytes(d, p, g) \in [1 .. Masked(p - g) -> Byte]
  BY RingPlaces DEF RingBytes
<1>3. RingBytes(d, p, g) \in Seq(Byte)
  BY <1>1, <1>2, SeqDef
<1>4. Len(RingBytes(d, p, g)) = Masked(p - g)
  BY <1>1, <1>2, <1>3, LenProperties
<1> QED
  BY <1>1, <1>3, <1>4 DEF RingBytes

LEMMA ContentsIsBytes ==
  /\ RingContents = RingBytes(data, putPtr, getPtr)
  /\ RingContents' = RingBytes(data', putPtr', getPtr')
  BY DEF RingContents, Elements, RingBytes

(* Storing a byte changes nothing that is between the pointers.            *)
LEMMA StoreRefines ==
  ASSUME RingIInv, PutStore
  PROVE  RingContents' = RingContents
<1>1. UNCHANGED <<putPtr, getPtr>>
  BY DEF PutStore, getVars
<1>2. \A i \in 1 .. Masked(putPtr - getPtr) :
         data'[Masked(getPtr + i - 1)] = data[Masked(getPtr + i - 1)]
  BY RingPlaces DEF RingIInv, RingTypeOK, PutStore
<1> QED
  BY <1>1, <1>2, ContentsIsBytes DEF RingBytes

LEMMA PutRefines ==
  ASSUME RingIInv, RingIInv', PutAdvance
  PROVE  Fifo!Put(putByte)
<1> DEFINE n == Masked(putPtr - getPtr)
<1>1. putPtr' = Masked(putPtr + 1) /\ UNCHANGED <<data, getPtr>>
  BY PointerClosed DEF RingIInv, RingTypeOK, PutAdvance, StorePutPtr, getVars
<1>2. /\ putPtr \in Index /\ putPtr' \in Index /\ getPtr \in Index
      /\ data \in [Index -> Byte] /\ putByte \in Byte /\ data[putPtr] = putByte
  BY DEF RingIInv, RingTypeOK, ChecksStayTrue, PutAdvance
<1>3. n \in Nat /\ n < Size - 1 /\ Masked(putPtr' - getPtr) = n + 1
  <2>1. n \in Index /\ n # Size - 1
    BY <1>2, RingDistance DEF RingIInv, ChecksStayTrue, Full, Elements, PutAdvance
  <2>2. Masked(putPtr' - getPtr) = n + 1
    BY <1>1, <1>2, <2>1, RingDistance
  <2> QED
    BY <2>1, <2>2, SizeRange DEF Index
<1>4. /\ RingContents \in Seq(Byte) /\ RingContents' \in Seq(Byte)
      /\ Len(RingContents) = n /\ Len(RingContents') = n + 1
  BY <1>1, <1>2, <1>3, BytesType, ContentsIsBytes
<1>5. /\ \A i \in 1 .. n : RingContents[i] = data[Masked(getPtr + i - 1)]
      /\ \A i \in 1 .. n + 1 : RingContents'[i] = data[Masked(getPtr + i - 1)]
  <2>1. \A i \in 1 .. n : RingContents[i] = data[Masked(getPtr + i - 1)]
    BY <1>2, BytesType, ContentsIsBytes
  <2>2. \A i \in 1 .. Masked(putPtr' - getPtr) : RingContents'[i] = data[Masked(getPtr + i - 1)]
    BY <1>1, <1>2, BytesType, ContentsIsBytes
  <2> QED
    BY <1>3, <2>1, <2>2
<1>6. RingContents'[n + 1] = putByte
  <2>1. Masked(getPtr + (n + 1) - 1) = putPtr
    BY <1>2, RingPlaces
  <2> HIDE DEF n
  <2> QED
    BY <1>2, <1>3, <1>5, <2>1
<1>7. RingContents' = Append(RingContents, putByte)
  <2>1. \A i \in 1 .. Len(RingContents) : RingContents'[i] = RingContents[i]
    <3> HIDE DEF n
    <3> QED
      BY <1>3, <1>4, <1>5
  <2> QED
    BY <1>2, <1>4, <1>6, <2>1, IsAppend
<1> QED
  BY <1>3, <1>4, <1>7 DEF PutAdvance, getVars, Fifo!Put

LEMMA GetRefines ==
  ASSUME RingIInv, RingIInv', GetAdvance
  PROVE  Fifo!Get
<1> DEFINE n == Masked(putPtr - getPtr)
<1>1. UNCHANGED <<data, putPtr, putRet>> /\ getPtr' = Masked(getPtr + 1)
  BY DEF GetAdvance, putVars
<1>2. /\ putPtr \in Index /\ getPtr \in Index /\ getPtr' \in Index
      /\ data \in [Index -> Byte] /\ getRet' = data[getPtr]
  BY DEF RingIInv, RingTypeOK, ChecksStayTrue, GetAdvance
<1>3. n \in Nat /\ n > 0 /\ Masked(putPtr - getPtr') = n - 1
  <2>1. n \in Index /\ n > 0
    BY <1>2, RingDistance DEF RingIInv, ChecksStayTrue, Empty, Elements, GetAdvance
  <2>2. n # 0
    BY <2>1
  <2>3. Masked(putPtr - getPtr') = n - 1
    BY <1>1, <1>2, <2>2, RingDistance
  <2> QED
    BY <2>1, <2>3, SizeRange DEF Index
<1>4. /\ RingContents \in Seq(Byte) /\ RingContents' \in Seq(Byte)
      /\ Len(RingContents) = n /\ Len(RingContents') = n - 1
  BY <1>1, <1>2, <1>3, BytesType, ContentsIsBytes
<1>5. \A i \in 1 .. n - 1 : RingContents'[i] = RingContents[i + 1]
  <2>1. \A i \in 1 .. n - 1 : RingContents'[i] = data[Masked(Masked(getPtr + 1) + i - 1)]
    <3>1. \A i \in 1 .. Masked(putPtr - getPtr') : RingContents'[i] = data[Masked(getPtr' + i - 1)]
      BY <1>1, <1>2, BytesType, ContentsIsBytes
    <3> QED
      BY <1>1, <1>3, <3>1
  <2>2. \A i \in 1 .. n : RingContents[i] = data[Masked(getPtr + i - 1)]
    BY <1>2, BytesType, ContentsIsBytes
  <2>3. \A i \in 1 .. n - 1 : Masked(Masked(getPtr + 1) + i - 1) = Masked(getPtr + (i + 1) - 1)
    BY <1>2, RingPlaces
  <2> QED
    BY <1>3, <2>1, <2>2, <2>3
<1>6. RingContents # << >> /\ RingContents' = Tail(RingContents)
  BY <1>3, <1>4, <1>5, IsTail
<1>7. getRet' = RingContents[1]
  <2>1. \A i \in 1 .. n : RingContents[i] = data[Masked(getPtr + i - 1)]
    BY <1>2, BytesType, ContentsIsBytes
  <2>2. Masked(getPtr + 1 - 1) = getPtr
    BY <1>2, RingPlaces
  <2> HIDE DEF n
  <2> QED
    BY <1>2, <1>3, <2>1, <2>2
<1> QED
  BY <1>1, <1>4, <1>6, <1>7 DEF Fifo!Get

(* FifoSpec: the ring buffer implements the bounded queue.                 *)
THEOREM ImplementsFifo == RingSpec => FifoSpec
<1>1. RingInit => Fifo!Init
  BY SizeRange DEF RingInit, Fifo!Init, RingContents, Elements, Masked
<1>2. ASSUME RingIInv, RingIInv', [RingNext]_ringVars PROVE [Fifo!Next]_(Fifo!vars)
  <2> USE DEF putVars, getVars, Fifo!vars
  <2>1. CASE PutFull
    BY <2>1, <1>2, BytesType, ContentsIsBytes
       DEF RingIInv, RingTypeOK, PutFull, Full, Elements, Fifo!Next, Fifo!PutRefused
  <2>2. CASE \E c \in Byte : PutCheck(c)
    BY <2>2 DEF PutCheck, RingContents, Elements
  <2>3. CASE PutStore
    BY <2>3, <1>2, StoreRefines DEF PutStore
  <2>4. CASE PutAdvance
    BY <2>4, <1>2, PutRefines DEF RingIInv, RingTypeOK, Fifo!Next
  <2>5. CASE GetEmpty
    BY <2>5, <1>2, BytesType, ContentsIsBytes
       DEF RingIInv, RingTypeOK, GetEmpty, Empty, Elements, Fifo!Next, Fifo!GetNothing
  <2>6. CASE GetCheck \/ GetLoad
    BY <2>6 DEF GetCheck, GetLoad, RingContents, Elements
  <2>7. CASE GetAdvance
    BY <2>7, <1>2, GetRefines DEF Fifo!Next
  <2>8. CASE UNCHANGED ringVars
    BY <2>8 DEF ringVars, RingContents, Elements
  <2> QED
    BY <1>2, <2>1, <2>2, <2>3, <2>4, <2>5, <2>6, <2>7, <2>8 DEF RingNext, Putter, Getter
<1>3. RingSpec => []RingIInv
  BY ChecksHold, PTL DEF RingIInv
<1> QED
  BY <1>1, <1>2, <1>3, PTL DEF RingSpec, FifoSpec, Fifo!Spec
=============================================================================
