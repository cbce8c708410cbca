---------------------------- MODULE GmacRx_proofs ----------------------------
(***************************************************************************)
(* Proofs about module GmacRx, for every ring size and every sequence of   *)
(* frames.  DescriptorsInStep is not inductive alone: what the walk of     *)
(* gmac_dev_read has seen so far (WalkInv) tells that the descriptors it   *)
(* releases are its own to release.                                        *)
(* The frames need more: what the ring holds, in order (OrderInv), what    *)
(* the call has copied of it (CopyInv) and what was delivered before       *)
(* (DeliveryInv), all of which RxInv gathers.                              *)
(***************************************************************************)
EXTENDS GmacRx, TLAPS

(* While gmac_dev_read walks: p_rx_td is the descriptor at us_tmp_idx when
   its OWNERSHIP bit is read, that descriptor belongs to the processor from
   then on, and nothing has been passed as long as no frame has started.   *)
WalkInv ==
  /\ pc = "look" => td = tmpIdx
  /\ pc = "take" => own[tmpIdx]
  /\ pc \in {"look", "take"} /\ ~isFrame => tmpIdx = rxIdx /\ td = tmpIdx

(* A descriptor that was handed over has been written.                     *)
WrittenInv ==
  /\ \A s \in Slots : own[s] => buf[s] \in Fragment
  /\ pc = "take" => buf[td] \in Fragment

IInv == TypeOK /\ DescriptorsInStep /\ WalkInv /\ WrittenInv

-----------------------------------------------------------------------------
(* The ring's index arithmetic stays within the ring.                      *)
LEMMA SlotsClosed ==
  /\ 0 \in Slots
  /\ \A i \in Slots : CircInc(i) \in Slots /\ CircDec(i) \in Slots
  BY RxAssumption DEF Slots, CircInc, CircDec

(* One more descriptor at the end of an interval of the ring, and one less
   at its front.                                                           *)
LEMMA Grow ==
  ASSUME NEW r \in Slots, NEW d \in Slots, NEW s \in Slots
  PROVE  /\ CircInc(d) # r => (s \in Between(r, CircInc(d)) <=> s = d \/ s \in Between(r, d))
         /\ CircInc(d) = r => (s = d \/ s \in Between(r, d))
         /\ d \notin Between(r, d)
  BY RxAssumption DEF Slots, CircInc, Between, Dist

LEMMA Before ==
  ASSUME NEW r \in Slots, NEW t \in Slots, NEW d \in Slots, t # r
  PROVE  /\ CircDec(t) \in Slots
         /\ t \in Between(r, d) => CircDec(t) \in Between(r, d)
  BY RxAssumption DEF Slots, CircDec, Between, Dist

LEMMA Split ==
  ASSUME NEW r \in Slots, NEW t \in Slots, NEW d \in Slots, NEW s \in Slots
  PROVE  /\ t \in Between(r, d) =>
              (s \in Between(t, d) <=> s \in Between(r, d) /\ s \notin Between(r, t))
         /\ t # r => (s \in Between(t, r) <=> s \notin Between(r, t))
         /\ s \notin Between(r, r)
  BY RxAssumption DEF Slots, Between, Dist

LEMMA SplitAfter ==
  ASSUME NEW r \in Slots, NEW t \in Slots, NEW d \in Slots, NEW s \in Slots,
         t \in Between(r, d), CircInc(t) # r
  PROVE  s \in Between(CircInc(t), d) <=>
           s \in Between(r, d) /\ s \notin Between(r, CircInc(t))
  BY RxAssumption DEF Slots, CircInc, Between, Dist

(* The last descriptor of a turn lies in no interval that ends before it.  *)
LEMMA LastSlot ==
  ASSUME NEW r \in Slots, NEW t \in Slots, NEW d \in Slots, CircInc(t) = r
  PROVE  t \notin Between(r, d)
  BY RxAssumption DEF Slots, CircInc, Between, Dist

(* Releasing the descriptors up to t, the first one not released being one
   that the processor owns, moves us_rx_idx without losing step.           *)
LEMMA ReleaseUpTo ==
  ASSUME TypeOK, DescriptorsInStep, NEW t \in Slots, own[t],
         Release(Between(rxIdx, t)), rxIdx' = t, dmaIdx' = dmaIdx
  PROVE  DescriptorsInStep' /\ own'[t]
<1>1. t \notin Between(rxIdx, t)
  BY Grow DEF TypeOK
<1>2. own'[t]
  BY <1>1 DEF Release
<1>3. CASE {s \in Slots : own[s]} = Between(rxIdx, dmaIdx)
  <2>1. t \in Between(rxIdx, dmaIdx)
    BY <1>3
  <2>2. ASSUME NEW s \in Slots PROVE own'[s] <=> s \in Between(t, dmaIdx)
    <3>1. own[s] <=> s \in Between(rxIdx, dmaIdx)
      BY <1>3
    <3>2. own'[s] <=> own[s] /\ s \notin Between(rxIdx, t)
      BY DEF Release
    <3> QED
      BY <2>1, <3>1, <3>2, Split DEF TypeOK
  <2>3. Between(t, dmaIdx) \subseteq Slots
    BY DEF Between
  <2>4. {s \in Slots : own'[s]} = Between(rxIdx', dmaIdx')
    BY <2>2, <2>3
  <2> QED
    BY <1>2, <2>4 DEF DescriptorsInStep
<1>4. CASE rxIdx = dmaIdx /\ \A s \in Slots : own[s]
  <2>1. CASE t = rxIdx
    <3>1. \A s \in Slots : own'[s]
      BY <1>4, <2>1, Split DEF Release, TypeOK
    <3> QED
      BY <1>2, <1>4, <2>1, <3>1 DEF DescriptorsInStep
  <2>2. CASE t # rxIdx
    <3>1. \A s \in Slots : own'[s] <=> s \in Between(t, dmaIdx)
      BY <1>4, <2>2, Split DEF Release, TypeOK
    <3>2. {s \in Slots : own'[s]} = Between(rxIdx', dmaIdx')
      BY <3>1 DEF Between
    <3> QED
      BY <1>2, <3>2 DEF DescriptorsInStep
  <2> QED
    BY <2>1, <2>2
<1> QED
  BY <1>2, <1>3, <1>4 DEF DescriptorsInStep
(* Releasing through t, the processor's own, up to the descriptor behind.  *)
LEMMA ReleaseThrough ==
  ASSUME TypeOK, DescriptorsInStep, NEW t \in Slots, own[t], CircInc(t) # rxIdx,
         Release(Between(rxIdx, CircInc(t))), rxIdx' = CircInc(t), dmaIdx' = dmaIdx
  PROVE  DescriptorsInStep'
<1> DEFINE u == CircInc(t)
<1>1. u \in Slots /\ u # rxIdx /\ rxIdx \in Slots /\ dmaIdx \in Slots
  BY SlotsClosed DEF TypeOK
<1>2. ASSUME NEW s \in Slots
      PROVE  own'[s] <=> own[s] /\ s \notin Between(rxIdx, u)
  BY DEF Release
<1> HIDE DEF u
<1>3. CASE {s \in Slots : own[s]} = Between(rxIdx, dmaIdx)
  <2>1. t \in Between(rxIdx, dmaIdx)
    BY <1>3
  <2>2. ASSUME NEW s \in Slots PROVE own'[s] <=> s \in Between(u, dmaIdx)
    <3>1. own[s] <=> s \in Between(rxIdx, dmaIdx)
      BY <1>3
    <3>2. s \in Between(u, dmaIdx) <=> s \in Between(rxIdx, dmaIdx) /\ s \notin Between(rxIdx, u)
      BY <1>1, <2>1, SplitAfter DEF u
    <3> QED
      BY <1>2, <3>1, <3>2
  <2>3. {s \in Slots : own'[s]} = Between(rxIdx', dmaIdx')
    BY <2>2 DEF Between, u
  <2> QED
    BY <2>3 DEF DescriptorsInStep
<1>4. CASE rxIdx = dmaIdx /\ \A s \in Slots : own[s]
  <2>1. ASSUME NEW s \in Slots PROVE own'[s] <=> s \in Between(u, dmaIdx)
    BY <1>1, <1>2, <1>4, Split
  <2>2. {s \in Slots : own'[s]} = Between(rxIdx', dmaIdx')
    BY <2>1 DEF Between, u
  <2> QED
    BY <2>2 DEF DescriptorsInStep
<1> QED
  BY <1>3, <1>4 DEF DescriptorsInStep

(* Releasing the one descriptor at us_rx_idx.                              *)
LEMMA ReleaseNext ==
  ASSUME TypeOK, DescriptorsInStep, own[rxIdx],
         Release({rxIdx}), rxIdx' = CircInc(rxIdx), dmaIdx' = dmaIdx
  PROVE  DescriptorsInStep'
<1>1. rxIdx \in Slots /\ CircInc(rxIdx) # rxIdx
  BY RxAssumption DEF TypeOK, Slots, CircInc
<1>2. Between(rxIdx, CircInc(rxIdx)) = {rxIdx}
  BY <1>1, RxAssumption DEF Between, Dist, CircInc, Slots
<1> QED
  BY <1>1, <1>2, ReleaseThrough

-----------------------------------------------------------------------------
(* Copying a written buffer keeps the application frame well-formed.       *)
LEMMA CopyType ==
  ASSUME TypeOK, buf[td] \in Fragment, Copy
  PROVE  got' \in Seq(Fragment) /\ Len(got') <= ReadParts
  BY RxAssumption DEF TypeOK, Copy

(* What follows from a call of gmac_dev_read that returns.                 *)
LEMMA ReturnType ==
  ASSUME TypeOK, NEW st \in Statuses, ReturnCode(st), got' \in Seq(Fragment)
  PROVE  /\ pc' \in {"call", "txCheck", "flushed"}
         /\ status' \in Statuses
         /\ delivered' \in Seq([parts : Seq(Fragment), skipped : BOOLEAN])
         /\ missed' \in {"no", "boot", "clear"}
         /\ UNCHANGED noticeVars
<1> DEFINE d == [parts |-> got', skipped |-> skipped]
<1>1. d \in [parts : Seq(Fragment), skipped : BOOLEAN]
  BY DEF TypeOK
<1>2. Append(delivered, d) \in Seq([parts : Seq(Fragment), skipped : BOOLEAN])
  BY <1>1 DEF TypeOK
<1> QED
  BY <1>2 DEF TypeOK, ReturnCode

(* The interrupt handler and the steps of the process outside gmac_dev_read
   touch neither the ring nor a read in progress.                          *)
ReadVars == <<ringVars, walkVars, status, delivered>>

LEMMA Aside ==
  ASSUME Isr \/ Proc
  PROVE  UNCHANGED ReadVars /\ (pc' = pc \/ pc' \notin {"look", "take"})
<1>1. CASE Isr
  BY <1>1 DEF Isr, IsrRx, IsrTx, ReadVars
<1>2. ASSUME NEW p, NEW q \in {"ready", "idle", "poll", "rxStore", "rxMask", "call",
                               "txCheck", "txStore", "txMask", "drain"},
             Goto(p, q)
      PROVE  UNCHANGED ReadVars /\ pc' \notin {"look", "take"}
  BY <1>2 DEF Goto, ReadVars
<1>3. CASE Proc
  BY <1>2, <1>3 DEF Proc, SetRxCallback, GoIdle, Poll, PollRxLoad, PollRxStore,
     PollRxMask, PollNoRx, PollTxLoad, PollTxStore, PollTxMask, PollNoTx, PollDrained
<1> QED
  BY <1>1, <1>3

(* What they do change keeps its types.                                    *)
LEMMA AsideType ==
  ASSUME TypeOK, Isr \/ Proc
  PROVE  TypeOK'
<1>1. /\ own' = own /\ buf' = buf /\ rxIdx' = rxIdx /\ dmaIdx' = dmaIdx
      /\ incoming' = incoming /\ arrived' = arrived /\ tmpIdx' = tmpIdx /\ td' = td
      /\ isFrame' = isFrame /\ got' = got /\ skipped' = skipped /\ status' = status
      /\ delivered' = delivered
  BY Aside DEF ReadVars, ringVars, dmaVars, walkVars
<1>2. /\ rcomp' \in BOOLEAN /\ rxCb' \in BOOLEAN /\ needspoll' \in BOOLEAN
      /\ state' \subseteq StateBits /\ reg' \subseteq StateBits
      /\ missed' \in {"no", "boot", "clear"}
      /\ pc' \in {"call", "look", "take", "flushed", "ready", "idle", "poll", "rxStore",
                "rxMask", "txCheck", "txStore", "txMask", "drain"}
  <2> USE DEF TypeOK, StateBits, PendingBits, pollVars
  <2>1. CASE Isr
    BY <2>1 DEF Isr, IsrRx, IsrTx
  <2>2. CASE SetRxCallback \/ GoIdle \/ Poll \/ PollNoRx \/ PollNoTx \/ PollDrained
    BY <2>2 DEF SetRxCallback, GoIdle, Poll, PollNoRx, PollNoTx, PollDrained, Goto, Skip
  <2>3. CASE PollRxLoad \/ PollTxLoad
    BY <2>3 DEF PollRxLoad, PollTxLoad, Goto, LoadState
  <2>4. CASE PollRxStore \/ PollTxStore
    BY <2>4 DEF PollRxStore, PollTxStore, Goto, StoreWithout
  <2>5. CASE PollRxMask \/ PollTxMask
    BY <2>5 DEF PollRxMask, PollTxMask, Goto, ForgetPoll
  <2> QED
    BY <2>1, <2>2, <2>3, <2>4, <2>5 DEF Proc
<1> QED
  BY <1>1, <1>2 DEF TypeOK

LEMMA InitIInv == Init => IInv
<1> SUFFICES ASSUME Init PROVE IInv
  OBVIOUS
<1>1. TypeOK
  BY RxAssumption, SlotsClosed DEF Init, TypeOK, Statuses, StateBits
<1>2. DescriptorsInStep
  <2>1. Between(0, 0) = {}
    BY DEF Between, Dist, Slots
  <2> QED
    BY <2>1 DEF Init, DescriptorsInStep
<1>3. WalkInv /\ WrittenInv
  BY DEF Init, WalkInv, WrittenInv
<1> QED
  BY <1>1, <1>2, <1>3 DEF IInv

LEMMA NextIInv == IInv /\ [Next]_vars => IInv'
<1> SUFFICES ASSUME IInv, [Next]_vars PROVE IInv'
  OBVIOUS
<1> USE DEF noticeVars, pollVars, ringVars
<1>0. TypeOK /\ DescriptorsInStep /\ WalkInv /\ WrittenInv
  BY DEF IInv
<1>1. CASE DmaStart
  <2>1. PICK n \in 1 .. MaxParts :
          incoming' = [frame |-> arrived + 1, part |-> 1, of |-> n]
    BY <1>1 DEF DmaStart
  <2>2. incoming' \in Fragment /\ arrived' \in 0 .. MaxFrames
    BY <1>0, <1>1, <2>1, RxAssumption DEF DmaStart, TypeOK, Fragment
  <2>3. TypeOK'
    BY <1>0, <1>1, <2>2 DEF DmaStart, TypeOK, walkVars
  <2>4. DescriptorsInStep' /\ WalkInv' /\ WrittenInv'
    BY <1>0, <1>1 DEF DmaStart, DescriptorsInStep, WalkInv, WrittenInv, walkVars
  <2> QED
    BY <2>3, <2>4 DEF IInv
<1>2. CASE DmaWrite
  <2>1. incoming \in Fragment
    BY <1>0, <1>2 DEF DmaWrite, TypeOK
  <2>2. incoming' \in Fragment \cup {Blank} /\ rcomp' \in BOOLEAN
    <3>1. CASE IsEof(incoming)
      BY <1>0, <1>2, <3>1 DEF DmaWrite, TypeOK
    <3>2. CASE ~IsEof(incoming)
      <4>1. incoming.part # incoming.of /\ incoming' = [incoming EXCEPT !.part = @ + 1]
        BY <1>2, <3>2 DEF DmaWrite, IsEof
      <4>2. incoming' \in Fragment
        BY <2>1, <4>1, RxAssumption DEF Fragment
      <4> QED
        BY <1>0, <1>2, <3>2, <4>2 DEF DmaWrite, TypeOK
    <3> QED
      BY <3>1, <3>2
  <2>3. TypeOK'
    BY <1>0, <1>2, <2>1, <2>2, SlotsClosed DEF DmaWrite, TypeOK, walkVars
  <2>4. DescriptorsInStep'
    <3>1. \A s \in Slots : own[s] <=> s \in Between(rxIdx, dmaIdx)
      BY <1>0, <1>2 DEF DmaWrite, DescriptorsInStep, TypeOK
    <3>2. \A s \in Slots : own'[s] <=> s = dmaIdx \/ s \in Between(rxIdx, dmaIdx)
      BY <1>0, <1>2, <3>1 DEF DmaWrite, TypeOK
    <3>3. rxIdx' = rxIdx /\ dmaIdx' = CircInc(dmaIdx) /\ rxIdx \in Slots /\ dmaIdx \in Slots
      BY <1>0, <1>2 DEF DmaWrite, TypeOK
    <3>4. CASE CircInc(dmaIdx) = rxIdx
      BY <3>2, <3>3, <3>4, Grow DEF DescriptorsInStep
    <3>5. CASE CircInc(dmaIdx) # rxIdx
      <4>1. \A s \in Slots : own'[s] <=> s \in Between(rxIdx, CircInc(dmaIdx))
        BY <3>2, <3>3, <3>5, Grow
      <4>2. {s \in Slots : own'[s]} = Between(rxIdx', dmaIdx')
        BY <3>3, <4>1 DEF Between
      <4> QED
        BY <4>2 DEF DescriptorsInStep
    <3> QED
      BY <3>4, <3>5
  <2>5. WalkInv'
    BY <1>0, <1>2 DEF DmaWrite, WalkInv, walkVars, TypeOK
  <2>6. WrittenInv'
    BY <1>0, <1>2, <2>1 DEF DmaWrite, WrittenInv, walkVars, TypeOK
  <2> QED
    BY <2>3, <2>4, <2>5, <2>6 DEF IInv
<1>3. CASE DmaGiveUp
  <2>1. TypeOK'
    BY <1>0, <1>3 DEF DmaGiveUp, TypeOK, walkVars
  <2>2. DescriptorsInStep' /\ WalkInv' /\ WrittenInv'
    BY <1>0, <1>3 DEF DmaGiveUp, DescriptorsInStep, WalkInv, WrittenInv, walkVars
  <2> QED
    BY <2>1, <2>2 DEF IInv
<1>4. CASE Isr \/ Proc
  <2>1. TypeOK'
    BY <1>0, <1>4, AsideType
  <2>2. UNCHANGED ReadVars /\ (pc' = pc \/ pc' \notin {"look", "take"})
    BY <1>4, Aside
  <2>3. DescriptorsInStep' /\ WalkInv' /\ WrittenInv'
    BY <1>0, <2>2 DEF ReadVars, DescriptorsInStep, WalkInv, WrittenInv, dmaVars, walkVars
  <2> QED
    BY <2>1, <2>3 DEF IInv
<1>5. CASE ReadCall
  <2>0. got' \in Seq(Fragment) /\ Len(got') <= ReadParts
    BY <1>5, RxAssumption DEF ReadCall
  <2>1. TypeOK'
    BY <1>0, <1>5, <2>0 DEF ReadCall, TypeOK, dmaVars
  <2>2. DescriptorsInStep' /\ WalkInv' /\ WrittenInv'
    BY <1>0, <1>5 DEF ReadCall, DescriptorsInStep, WalkInv, WrittenInv, dmaVars
  <2> QED
    BY <2>1, <2>2 DEF IInv
<1>6. CASE NoData
  <2>1. /\ pc' \in {"call", "txCheck", "flushed"} /\ status' \in Statuses
        /\ delivered' \in Seq([parts : Seq(Fragment), skipped : BOOLEAN])
        /\ missed' \in {"no", "boot", "clear"} /\ UNCHANGED noticeVars
    BY <1>0, <1>6, ReturnType DEF NoData, TypeOK, Statuses, walkVars
  <2>2. TypeOK'
    BY <1>0, <1>6, <2>1 DEF NoData, TypeOK, dmaVars, walkVars
  <2>3. DescriptorsInStep' /\ WalkInv' /\ WrittenInv'
    BY <1>0, <1>6, <2>1 DEF NoData, DescriptorsInStep, WalkInv, WrittenInv, dmaVars, walkVars
  <2> QED
    BY <2>2, <2>3 DEF IInv
<1>7. CASE LookInside
  <2>1. TypeOK'
    BY <1>0, <1>7 DEF LookInside, TypeOK, dmaVars, walkVars
  <2>2. DescriptorsInStep'
    BY <1>0, <1>7 DEF LookInside, DescriptorsInStep, dmaVars
  <2>3. WalkInv' /\ WrittenInv'
    BY <1>0, <1>7 DEF LookInside, WalkInv, WrittenInv, dmaVars, walkVars, TypeOK
  <2> QED
    BY <2>1, <2>2, <2>3 DEF IInv
<1>8. CASE StartFrame
  <2>1. TypeOK'
    BY <1>0, <1>8, SlotsClosed, RxAssumption DEF StartFrame, Release, TypeOK, dmaVars
  <2>2. own[tmpIdx] /\ tmpIdx \in Slots
    BY <1>0, <1>8 DEF StartFrame, WalkInv, TypeOK
  <2>3. DescriptorsInStep' /\ own'[tmpIdx]
    BY <1>0, <1>8, <2>2, ReleaseUpTo DEF StartFrame, dmaVars
  <2>4. WalkInv'
    BY <1>8, <2>3 DEF StartFrame, WalkInv
  <2>5. buf[td'] \in Fragment
    <3>1. CASE rxIdx = tmpIdx
      BY <1>0, <1>8, <3>1 DEF StartFrame, WrittenInv, TypeOK
    <3>2. CASE rxIdx # tmpIdx
      <4>1. CircDec(tmpIdx) \in Slots /\ own[CircDec(tmpIdx)]
        BY <1>0, <2>2, <3>2, Before DEF DescriptorsInStep, TypeOK
      <4> QED
        BY <1>0, <1>8, <3>2, <4>1 DEF StartFrame, WrittenInv
    <3> QED
      BY <3>1, <3>2
  <2>6. WrittenInv'
    BY <1>0, <1>8, <2>5 DEF StartFrame, Release, WrittenInv, TypeOK
  <2> QED
    BY <2>1, <2>3, <2>4, <2>6 DEF IInv
<1>9. CASE SkipFragment
  <2>1. tmpIdx = rxIdx /\ td = rxIdx /\ own[rxIdx] /\ rxIdx \in Slots
    BY <1>0, <1>9 DEF SkipFragment, WalkInv, TypeOK
  <2>2. TypeOK'
    BY <1>0, <1>9, SlotsClosed DEF SkipFragment, Release, TypeOK, dmaVars
  <2>3. DescriptorsInStep'
    BY <1>0, <1>9, <2>1, ReleaseNext DEF SkipFragment, dmaVars
  <2>4. WalkInv'
    BY <1>9 DEF SkipFragment, WalkInv
  <2>5. WrittenInv'
    BY <1>0, <1>9, SlotsClosed DEF SkipFragment, Release, WrittenInv, TypeOK
  <2> QED
    BY <2>2, <2>3, <2>4, <2>5 DEF IInv
<1>10. CASE FullTurn
  <2>1. /\ pc' \in {"call", "txCheck", "flushed"} /\ status' \in Statuses
        /\ delivered' \in Seq([parts : Seq(Fragment), skipped : BOOLEAN])
        /\ missed' \in {"no", "boot", "clear"} /\ UNCHANGED noticeVars
    <3>1. got' \in Seq(Fragment) /\ ReturnCode("GMAC_RX_ERROR")
      BY <1>0, <1>10 DEF FullTurn, TypeOK
    <3> QED
      BY <1>0, <3>1, ReturnType DEF Statuses
  <2>2. TypeOK'
    BY <1>0, <1>10, <2>1, SlotsClosed DEF FullTurn, Release, TypeOK, dmaVars
  <2>3. own[tmpIdx] /\ CircInc(tmpIdx) = rxIdx
    BY <1>0, <1>10 DEF FullTurn, WalkInv
  <2>4. rxIdx = dmaIdx
    BY <1>0, <2>3, LastSlot DEF DescriptorsInStep, TypeOK
  <2>5. {s \in Slots : own'[s]} = Between(rxIdx', dmaIdx')
    <3>1. Between(rxIdx, rxIdx) = {}
      BY <1>0, Split DEF TypeOK, Between
    <3>2. \A s \in Slots : ~own'[s]
      BY <1>10 DEF FullTurn, Release
    <3> QED
      BY <1>10, <2>4, <3>1, <3>2 DEF FullTurn, dmaVars
  <2>6. DescriptorsInStep'
    BY <2>5 DEF DescriptorsInStep
  <2>7. WalkInv' /\ WrittenInv'
    BY <1>10, <2>1 DEF FullTurn, Release, WalkInv, WrittenInv
  <2> QED
    BY <2>2, <2>6, <2>7 DEF IInv
<1>11. CASE CopyMore
  <2>1. got' \in Seq(Fragment) /\ Len(got') <= ReadParts
    BY <1>0, <1>11, CopyType DEF CopyMore, WrittenInv
  <2>2. TypeOK'
    BY <1>0, <1>11, <2>1, SlotsClosed DEF CopyMore, TypeOK, dmaVars
  <2>3. DescriptorsInStep' /\ WalkInv' /\ WrittenInv'
    BY <1>0, <1>11 DEF CopyMore, DescriptorsInStep, WalkInv, WrittenInv, dmaVars
  <2> QED
    BY <2>2, <2>3 DEF IInv
<1>12. CASE CopyLast
  <2>1. got' \in Seq(Fragment) /\ Len(got') <= ReadParts
    BY <1>0, <1>12, CopyType DEF CopyLast, WrittenInv
  <2>2. /\ pc' \in {"call", "txCheck", "flushed"} /\ status' \in Statuses
        /\ delivered' \in Seq([parts : Seq(Fragment), skipped : BOOLEAN])
        /\ missed' \in {"no", "boot", "clear"} /\ UNCHANGED noticeVars
    BY <1>0, <1>12, <2>1, ReturnType DEF CopyLast, Statuses
  <2>3. TypeOK'
    BY <1>0, <1>12, <2>1, <2>2, SlotsClosed DEF CopyLast, Release, TypeOK, dmaVars
  <2>4. own[tmpIdx] /\ tmpIdx \in Slots /\ CircInc(tmpIdx) # rxIdx
    BY <1>0, <1>12 DEF CopyLast, WalkInv, TypeOK
  <2>5. DescriptorsInStep'
    BY <1>0, <1>12, <2>4, ReleaseThrough DEF CopyLast, dmaVars
  <2>6. WalkInv' /\ WrittenInv'
    BY <1>0, <1>12, <2>2 DEF CopyLast, Release, WalkInv, WrittenInv
  <2> QED
    BY <2>3, <2>5, <2>6 DEF IInv
<1>13. CASE UNCHANGED vars
  <2>1. TypeOK'
    BY <1>0, <1>13 DEF vars, dmaVars, walkVars, TypeOK
  <2>2. DescriptorsInStep' /\ WalkInv' /\ WrittenInv'
    BY <1>0, <1>13 DEF vars, dmaVars, walkVars, DescriptorsInStep, WalkInv, WrittenInv
  <2> QED
    BY <2>1, <2>2 DEF IInv
<1> QED
  BY <1>1, <1>2, <1>3, <1>4, <1>5, <1>6, <1>7, <1>8, <1>9, <1>10, <1>11,
     <1>12, <1>13 DEF Next, Read, Dma

(* The receive variables keep their types: no index leaves the ring, no
   buffer is read that was never written, the application frame is not
   overrun.                                                                *)
THEOREM TypeCorrect == Spec => []TypeOK
<1>1. IInv => TypeOK
  BY DEF IInv
<1> QED
  BY <1>1, InitIInv, NextIInv, PTL DEF Spec

(* Reader and controller stay in step (DescriptorsInStep) for every size of
   the ring, frames that end early and fragments that are discarded
   included.                                                               *)
THEOREM ReaderInStep == Spec => []DescriptorsInStep
<1>1. IInv => DescriptorsInStep
  BY DEF IInv
<1> QED
  BY <1>1, InitIInv, NextIInv, PTL DEF Spec

-----------------------------------------------------------------------------
(* What the descriptors hold.  Frames arrive one after the other, and what *)
(* is in the ring is in the order of arrival.                              *)
SameFrame(a, b) == a.frame = b.frame /\ a.of = b.of
Later(a, b) == a.frame < b.frame \/ (SameFrame(a, b) /\ a.part < b.part)
Follows(a, b) == IsSof(b) \/ (SameFrame(a, b) /\ b.part = a.part + 1)

RingInOrder ==
  \A s, u \in Slots : own[s] /\ own[u] /\ Dist(rxIdx, s) < Dist(rxIdx, u) =>
    /\ Later(buf[s], buf[u])
    /\ u = CircInc(s) => Follows(buf[s], buf[u])

(* What is still to be written comes after all that is in the ring, and a
   fragment that does not start a frame continues the last one.            *)
ArrivalsInOrder ==
  /\ \A s \in Slots : own[s] => buf[s].frame <= arrived
  /\ incoming # Blank => incoming.frame = arrived
  /\ \A s \in Slots : incoming # Blank /\ own[s] =>
       /\ Later(buf[s], incoming)
       /\ CircInc(s) = dmaIdx => Follows(buf[s], incoming)

OrderInv == RingInOrder /\ ArrivalsInOrder

(* The descriptors that are left after a release keep their order.         *)
LEMMA SameOrder ==
  ASSUME NEW r \in Slots, NEW t \in Slots, NEW s \in Slots, NEW u \in Slots,
         s \notin Between(r, t), u \notin Between(r, t), Dist(t, s) < Dist(t, u)
  PROVE  Dist(r, s) < Dist(r, u)
  BY RxAssumption DEF Slots, Between, Dist

LEMMA OneSlot ==
  ASSUME NEW r \in Slots
  PROVE  CircInc(r) # r /\ Between(r, CircInc(r)) = {r}
  BY RxAssumption DEF Between, Dist, CircInc, Slots

LEMMA ReleaseOrder ==
  ASSUME TypeOK, OrderInv, rxIdx' \in Slots, Release(Between(rxIdx, rxIdx')),
         buf' = buf, dmaIdx' = dmaIdx, incoming' = incoming, arrived' = arrived
  PROVE  OrderInv'
<1>1. \A s \in Slots : own'[s] => own[s] /\ s \notin Between(rxIdx, rxIdx')
  BY DEF Release
<1>2. RingInOrder'
  <2> SUFFICES ASSUME NEW s \in Slots, NEW u \in Slots, own'[s], own'[u],
                      Dist(rxIdx', s) < Dist(rxIdx', u)
               PROVE  /\ Later(buf[s], buf[u])
                      /\ u = CircInc(s) => Follows(buf[s], buf[u])
    BY DEF RingInOrder
  <2>1. Dist(rxIdx, s) < Dist(rxIdx, u)
    BY <1>1, SameOrder DEF TypeOK
  <2> QED
    BY <1>1, <2>1 DEF OrderInv, RingInOrder
<1>3. ArrivalsInOrder'
  BY <1>1 DEF OrderInv, ArrivalsInOrder
<1> QED
  BY <1>2, <1>3 DEF OrderInv

(* Frames and parts only grow in the order of arrival.                     *)
LEMMA WriteOrder ==
  ASSUME IInv, OrderInv, DmaWrite
  PROVE  OrderInv'
<1> USE DEF IInv
<1>1. /\ incoming \in Fragment /\ incoming # Blank /\ ~own[dmaIdx]
      /\ rxIdx \in Slots /\ dmaIdx \in Slots
      /\ rxIdx' = rxIdx /\ arrived' = arrived /\ dmaIdx' = CircInc(dmaIdx)
  BY DEF DmaWrite, TypeOK
<1>2. \A s \in Slots : own[s] <=> Dist(rxIdx, s) < Dist(rxIdx, dmaIdx)
  BY <1>1 DEF DescriptorsInStep, Between
<1>3. /\ \A s \in Slots : own'[s] <=> own[s] \/ s = dmaIdx
      /\ \A s \in Slots : buf'[s] = IF s = dmaIdx THEN incoming ELSE buf[s]
  BY DEF DmaWrite, TypeOK
<1>4. \A s \in Slots : own[s] => buf[s] \in Fragment
  BY DEF WrittenInv
<1>5. RingInOrder'
  <2> SUFFICES ASSUME NEW s \in Slots, NEW u \in Slots, own'[s], own'[u],
                      Dist(rxIdx, s) < Dist(rxIdx, u)
               PROVE  /\ Later(buf'[s], buf'[u])
                      /\ u = CircInc(s) => Follows(buf'[s], buf'[u])
    BY <1>1 DEF RingInOrder
  <2>1. s # dmaIdx
    <3>1. Dist(rxIdx, u) \in Int /\ Dist(rxIdx, s) \in Int
      BY <1>1, RxAssumption DEF Dist, Slots
    <3> QED
      BY <1>2, <1>3, <3>1
  <2>2. own[s] /\ buf'[s] = buf[s]
    BY <1>3, <2>1
  <2>3. CASE u = dmaIdx
    BY <1>1, <1>3, <2>2, <2>3 DEF OrderInv, ArrivalsInOrder
  <2>4. CASE u # dmaIdx
    BY <1>3, <2>2, <2>4 DEF OrderInv, RingInOrder
  <2> QED
    BY <2>3, <2>4
<1>6. \A s \in Slots : own'[s] => buf'[s].frame <= arrived'
  BY <1>1, <1>3 DEF OrderInv, ArrivalsInOrder, TypeOK
<1>7. incoming' # Blank =>
        /\ incoming'.frame = incoming.frame /\ incoming'.of = incoming.of
        /\ incoming'.part = incoming.part + 1
  BY <1>1 DEF DmaWrite, Fragment
<1>8. ASSUME NEW s \in Slots, incoming' # Blank, own'[s]
      PROVE  /\ Later(buf'[s], incoming')
             /\ CircInc(s) = dmaIdx' => Follows(buf'[s], incoming')
  <2>1. incoming.part \in Int
    BY <1>1 DEF Fragment
  <2>2. CASE s = dmaIdx
    BY <1>3, <1>7, <1>8, <2>1, <2>2 DEF Later, Follows, SameFrame
  <2>3. CASE s # dmaIdx
    <3>1. own[s] /\ buf'[s] = buf[s] /\ Later(buf[s], incoming)
      BY <1>1, <1>3, <1>8, <2>3 DEF OrderInv, ArrivalsInOrder
    <3>2. buf[s].part \in Int
      BY <1>4, <3>1 DEF Fragment
    <3>3. Later(buf[s], incoming')
      BY <1>7, <1>8, <2>1, <3>1, <3>2 DEF Later, SameFrame
    <3>4. CircInc(s) # dmaIdx'
      BY <1>1, <2>3, RxAssumption DEF CircInc, Slots
    <3> QED
      BY <3>1, <3>3, <3>4
  <2> QED
    BY <2>2, <2>3
<1> QED
  BY <1>1, <1>5, <1>6, <1>7, <1>8 DEF OrderInv, ArrivalsInOrder

LEMMA StartOrder ==
  ASSUME IInv, OrderInv, DmaStart
  PROVE  OrderInv'
<1>1. PICK n \in 1 .. MaxParts :
        incoming' = [frame |-> arrived + 1, part |-> 1, of |-> n]
  BY DEF DmaStart
<1>2. incoming'.frame = arrived' /\ incoming'.part = 1 /\ arrived' = arrived + 1
  BY <1>1 DEF DmaStart
<1>3. UNCHANGED <<own, buf, rxIdx, dmaIdx>>
  BY DEF DmaStart
<1>4. ASSUME NEW s \in Slots, own[s]
      PROVE  buf[s].frame \in Int /\ buf[s].frame <= arrived /\ arrived \in Int
  BY <1>4, RxAssumption DEF IInv, WrittenInv, Fragment, OrderInv, ArrivalsInOrder, TypeOK
<1>5. ASSUME NEW s \in Slots, own[s]
      PROVE  buf[s].frame <= arrived' /\ buf[s].frame < incoming'.frame
  BY <1>2, <1>4, <1>5
<1>6. ASSUME NEW s \in Slots, own[s]
      PROVE  Later(buf[s], incoming') /\ Follows(buf[s], incoming')
  BY <1>2, <1>5, <1>6 DEF Later, Follows, IsSof
<1>7. ArrivalsInOrder'
  BY <1>2, <1>3, <1>5, <1>6 DEF ArrivalsInOrder
<1> QED
  BY <1>3, <1>7 DEF OrderInv, RingInOrder

LEMMA NextOrder == IInv /\ OrderInv /\ [Next]_vars => OrderInv'
<1> SUFFICES ASSUME IInv, OrderInv, [Next]_vars PROVE OrderInv'
  OBVIOUS
<1>0. TypeOK /\ DescriptorsInStep /\ WalkInv /\ WrittenInv
  BY DEF IInv
<1>1. ASSUME UNCHANGED <<own, buf, rxIdx, dmaIdx, arrived>>,
             incoming' = incoming \/ incoming' = Blank
      PROVE  OrderInv'
  BY <1>1 DEF OrderInv, RingInOrder, ArrivalsInOrder
<1>2. CASE DmaStart
  BY <1>2, StartOrder
<1>3. CASE DmaWrite
  BY <1>3, WriteOrder
<1>4. CASE DmaGiveUp
  BY <1>1, <1>4 DEF DmaGiveUp
<1>5. CASE ReadCall \/ NoData \/ LookInside \/ CopyMore \/ UNCHANGED vars
  BY <1>1, <1>5 DEF ReadCall, NoData, LookInside, CopyMore, vars, ringVars, dmaVars
<1>10. CASE Isr \/ Proc
  BY <1>1, <1>10, Aside DEF ReadVars, ringVars, dmaVars
<1>6. CASE StartFrame
  <2>1. rxIdx' = tmpIdx /\ tmpIdx \in Slots
    BY <1>0, <1>6 DEF StartFrame, TypeOK
  <2> QED
    BY <1>0, <1>6, <2>1, ReleaseOrder DEF StartFrame, dmaVars
<1>7. CASE SkipFragment
  <2>1. td = rxIdx /\ rxIdx' = CircInc(rxIdx) /\ rxIdx \in Slots
    BY <1>0, <1>7 DEF SkipFragment, WalkInv, TypeOK
  <2>2. rxIdx' \in Slots /\ Between(rxIdx, rxIdx') = {td}
    BY <2>1, OneSlot, SlotsClosed
  <2> QED
    BY <1>0, <1>7, <2>2, ReleaseOrder DEF SkipFragment, dmaVars
<1>8. CASE CopyLast
  <2>1. rxIdx' \in Slots /\ Release(Between(rxIdx, rxIdx'))
    BY <1>0, <1>8, SlotsClosed DEF CopyLast, TypeOK
  <2> QED
    BY <1>0, <1>8, <2>1, ReleaseOrder DEF CopyLast, dmaVars
<1>9. CASE FullTurn
  <2>1. \A s \in Slots : ~own'[s]
    BY <1>9 DEF FullTurn, Release
  <2>2. UNCHANGED <<buf, rxIdx, dmaIdx, incoming, arrived>>
    BY <1>9 DEF FullTurn, dmaVars
  <2>3. incoming' # Blank => incoming'.frame = arrived'
    BY <2>2 DEF OrderInv, ArrivalsInOrder
  <2> QED
    BY <2>1, <2>3 DEF OrderInv, RingInOrder, ArrivalsInOrder
<1> QED
  BY <1>2, <1>3, <1>4, <1>5, <1>6, <1>7, <1>8, <1>9, <1>10 DEF Next, Read, Dma

-----------------------------------------------------------------------------
(* The walk of one call of gmac_dev_read: the descriptors it has passed     *)
(* belong to the processor, ...                                            *)
InRead == pc \in {"look", "take"}
WalkedOwned == InRead => \A s \in Between(rxIdx, tmpIdx) : own[s]

(* ... and as long as nothing was discarded they hold the first parts of   *)
(* the frame that starts at us_rx_idx, which is what was copied.           *)
Walking == InRead /\ isFrame /\ ~skipped
WalkedParts ==
  Walking =>
    /\ pc = "look" => tmpIdx # rxIdx
    /\ pc = "take" => td = tmpIdx /\ (IsSof(buf[td]) <=> tmpIdx = rxIdx)
    /\ \A s \in Between(rxIdx, tmpIdx) : ~IsEof(buf[s])

(* The copy, once its last part is the one before p: the parts from the    *)
(* first on, as many as the application frame has room for.                *)
Copied(p) ==
  /\ Len(got) > 0
  /\ Len(got) = p.part \/ (Len(got) = ReadParts /\ p.part >= ReadParts)
  /\ \A i \in 1 .. Len(got) : got[i] = [frame |-> p.frame, part |-> i, of |-> p.of]

WalkedCopied ==
  Walking => IF tmpIdx = rxIdx THEN got = <<>> ELSE Copied(buf[CircDec(tmpIdx)])

CopyInv == WalkedOwned /\ WalkedParts /\ WalkedCopied

LEMMA NothingPassed ==
  ASSUME NEW r \in Slots
  PROVE  Between(r, r) = {}
  BY RxAssumption DEF Slots, Between, Dist

LEMMA Neighbours ==
  ASSUME NEW r \in Slots, NEW t \in Slots
  PROVE  /\ CircDec(CircInc(t)) = t
         /\ CircInc(CircDec(t)) = t
         /\ t # r => /\ CircDec(t) \in Between(r, t)
                     /\ Dist(r, CircDec(t)) < Dist(r, t)
         /\ CircInc(t) # r =>
              \A s \in Slots : s \in Between(r, CircInc(t)) <=> s = t \/ s \in Between(r, t)
  BY RxAssumption DEF Slots, CircInc, CircDec, Between, Dist

(* The fragment that is looked at continues the last one that was copied.  *)
LEMMA TakeContinues ==
  ASSUME IInv, OrderInv, CopyInv, Walking, pc = "take", tmpIdx # rxIdx
  PROVE  LET p == buf[CircDec(tmpIdx)] IN
         /\ p \in Fragment /\ buf[td] \in Fragment
         /\ SameFrame(p, buf[td]) /\ buf[td].part = p.part + 1
<1>1. /\ rxIdx \in Slots /\ tmpIdx \in Slots /\ CircDec(tmpIdx) \in Slots
      /\ td = tmpIdx /\ ~IsSof(buf[td]) /\ own[tmpIdx]
  BY SlotsClosed DEF IInv, TypeOK, WalkInv, CopyInv, WalkedParts
<1>2. own[CircDec(tmpIdx)] /\ CircInc(CircDec(tmpIdx)) = tmpIdx
  BY <1>1, Neighbours DEF CopyInv, WalkedOwned, Walking
<1>3. Dist(rxIdx, CircDec(tmpIdx)) < Dist(rxIdx, tmpIdx)
  BY <1>1, Neighbours
<1>4. Follows(buf[CircDec(tmpIdx)], buf[tmpIdx])
  BY <1>1, <1>2, <1>3 DEF OrderInv, RingInOrder
<1> QED
  BY <1>1, <1>2, <1>4 DEF IInv, WrittenInv, Follows

(* A fragment is its three fields.                                         *)
LEMMA FragmentFields ==
  ASSUME NEW p \in Fragment
  PROVE  /\ p = [frame |-> p.frame, part |-> p.part, of |-> p.of]
         /\ p.frame \in Nat /\ p.part \in Nat \ {0} /\ p.of \in Nat /\ p.part <= p.of
         /\ p # Blank
  BY RxAssumption DEF Fragment, Blank

(* What a copy leaves in the application frame.                            *)
LEMMA CopyCopied ==
  ASSUME IInv, OrderInv, CopyInv, Walking, pc = "take", Copy,
         NEW p \in Fragment, p = buf[td]
  PROVE  Copied(p)'
<1>0. /\ td = tmpIdx /\ got \in Seq(Fragment) /\ Len(got) <= ReadParts
      /\ ReadParts \in Nat \ {0}
  BY RxAssumption DEF IInv, TypeOK, CopyInv, WalkedParts
<1>1. CASE tmpIdx = rxIdx
  <2>1. got = <<>> /\ p.part = 1
    BY <1>1 DEF CopyInv, WalkedParts, WalkedCopied, IsSof
  <2>2. got' = <<p>>
    BY <1>0, <2>1 DEF Copy
  <2> QED
    BY <1>0, <2>1, <2>2, FragmentFields DEF Copied
<1>2. CASE tmpIdx # rxIdx
  <2> DEFINE q == buf[CircDec(tmpIdx)]
  <2>1. q \in Fragment /\ SameFrame(q, p) /\ p.part = q.part + 1
    BY <1>2, TakeContinues
  <2>2. Copied(q)
    BY <1>2 DEF CopyInv, WalkedCopied
  <2>3. q.part \in Nat
    BY <2>1, FragmentFields
  <2> HIDE DEF q
  <2>4. \A i \in 1 .. Len(got) : got[i] = [frame |-> p.frame, part |-> i, of |-> p.of]
    BY <2>1, <2>2 DEF Copied, SameFrame
  <2>5. CASE Len(got) < ReadParts
    <3>1. got' = Append(got, p) /\ Len(got) + 1 = p.part
      BY <1>0, <2>1, <2>2, <2>3, <2>5 DEF Copy, Copied
    <3>2. Len(got') = Len(got) + 1 /\ got'[Len(got) + 1] = p
      BY <1>0, <3>1
    <3>3. \A i \in 1 .. Len(got) : got'[i] = got[i]
      BY <1>0, <3>1
    <3>4. ASSUME NEW i \in 1 .. Len(got')
          PROVE  got'[i] = [frame |-> p.frame, part |-> i, of |-> p.of]
      <4>1. CASE i = Len(got) + 1
        BY <3>1, <3>2, <4>1, FragmentFields
      <4>2. CASE i # Len(got) + 1
        <5>1. i \in 1 .. Len(got)
          BY <1>0, <3>2, <4>2
        <5> QED
          BY <2>4, <3>3, <5>1
      <4> QED
        BY <4>1, <4>2
    <3> QED
      BY <1>0, <3>1, <3>2, <3>4 DEF Copied
  <2>6. CASE Len(got) >= ReadParts
    <3>1. got' = got /\ Len(got) = ReadParts /\ p.part >= ReadParts
      BY <1>0, <2>1, <2>2, <2>3, <2>6 DEF Copy, Copied
    <3> QED
      BY <1>0, <2>4, <3>1 DEF Copied
  <2> QED
    BY <1>0, <2>5, <2>6
<1> QED
  BY <1>1, <1>2

(* Writing into a free descriptor disturbs no descriptor that was passed.  *)
LEMMA ArrivalsKeepCopy ==
  ASSUME IInv, CopyInv, DmaWrite
  PROVE  CopyInv'
<1>1. /\ UNCHANGED <<rxIdx, tmpIdx, td, pc, isFrame, skipped, got>>
      /\ dmaIdx \in Slots /\ ~own[dmaIdx]
      /\ rxIdx \in Slots /\ tmpIdx \in Slots /\ td \in Slots
  BY DEF DmaWrite, walkVars, IInv, TypeOK
<1>2. \A s \in Slots : own[s] => own'[s] /\ buf'[s] = buf[s]
  BY <1>1 DEF DmaWrite, IInv, TypeOK
<1>3. WalkedOwned'
  BY <1>1, <1>2 DEF CopyInv, WalkedOwned, InRead, Between
<1>4. WalkedParts'
  <2> SUFFICES ASSUME Walking PROVE WalkedParts'
    BY <1>1 DEF WalkedParts, Walking, InRead
  <2>1. pc = "take" => own[td] /\ buf'[td] = buf[td]
    BY <1>1, <1>2 DEF CopyInv, WalkedParts, IInv, WalkInv
  <2>2. \A s \in Between(rxIdx, tmpIdx) : buf'[s] = buf[s]
    BY <1>2 DEF CopyInv, WalkedOwned, Walking, Between
  <2> QED
    BY <1>1, <2>1, <2>2 DEF CopyInv, WalkedParts
<1>5. WalkedCopied'
  <2> SUFFICES ASSUME Walking PROVE WalkedCopied'
    BY <1>1 DEF WalkedCopied, Walking, InRead
  <2>1. CASE tmpIdx = rxIdx
    BY <1>1, <2>1 DEF CopyInv, WalkedCopied
  <2>2. CASE tmpIdx # rxIdx
    <3>1. CircDec(tmpIdx) \in Slots /\ own[CircDec(tmpIdx)]
      BY <1>1, <2>2, Neighbours, SlotsClosed DEF CopyInv, WalkedOwned, Walking
    <3>2. buf'[CircDec(tmpIdx)] = buf[CircDec(tmpIdx)]
      BY <1>2, <3>1
    <3> QED
      BY <1>1, <2>2, <3>2 DEF CopyInv, WalkedCopied, Copied
  <2> QED
    BY <2>1, <2>2
<1> QED
  BY <1>3, <1>4, <1>5 DEF CopyInv

LEMMA NextCopy == IInv /\ OrderInv /\ CopyInv /\ [Next]_vars => CopyInv'
<1> SUFFICES ASSUME IInv, OrderInv, CopyInv, [Next]_vars PROVE CopyInv'
  OBVIOUS
<1>0. TypeOK /\ DescriptorsInStep /\ WalkInv /\ WrittenInv
  BY DEF IInv
<1>1. CASE DmaWrite
  BY <1>1, ArrivalsKeepCopy
<1>2. CASE DmaStart \/ DmaGiveUp \/ UNCHANGED vars
  <2>1. UNCHANGED <<own, buf, rxIdx, tmpIdx, td, pc, isFrame, skipped, got>>
    BY <1>2 DEF DmaStart, DmaGiveUp, vars, ringVars, dmaVars, walkVars
  <2> QED
    BY <2>1 DEF CopyInv, WalkedOwned, WalkedParts, WalkedCopied, Walking, InRead, Copied
<1>10. CASE Isr \/ Proc
  <2>1. UNCHANGED ReadVars /\ (pc' = pc \/ pc' \notin {"look", "take"})
    BY <1>10, Aside
  <2>2. UNCHANGED <<own, buf, rxIdx, tmpIdx, td, isFrame, skipped, got>>
    BY <2>1 DEF ReadVars, ringVars, walkVars
  <2> QED
    BY <2>1, <2>2 DEF CopyInv, WalkedOwned, WalkedParts, WalkedCopied, Walking, InRead, Copied
<1>3. CASE NoData \/ FullTurn
  <2>1. ~InRead'
    BY <1>3 DEF NoData, FullTurn, ReturnCode, InRead
  <2> QED
    BY <2>1 DEF CopyInv, WalkedOwned, WalkedParts, WalkedCopied, Walking
<1>4. CASE CopyLast
  <2>1. ~InRead'
    BY <1>4 DEF CopyLast, ReturnCode, InRead
  <2> QED
    BY <2>1 DEF CopyInv, WalkedOwned, WalkedParts, WalkedCopied, Walking
<1>5. CASE ReadCall
  <2>1. tmpIdx' = rxIdx' /\ rxIdx' \in Slots /\ ~isFrame'
    BY <1>0, <1>5 DEF ReadCall, TypeOK, ringVars
  <2>2. Between(rxIdx', rxIdx') = {}
    BY <2>1, NothingPassed
  <2> QED
    BY <2>1, <2>2 DEF CopyInv, WalkedOwned, WalkedParts, WalkedCopied, Walking
<1>6. CASE SkipFragment
  <2>1. tmpIdx' = rxIdx' /\ ~isFrame' /\ rxIdx' \in Slots
    BY <1>0, <1>6, SlotsClosed DEF SkipFragment, TypeOK
  <2>2. Between(rxIdx', rxIdx') = {}
    BY <2>1, NothingPassed
  <2> QED
    BY <2>1, <2>2 DEF CopyInv, WalkedOwned, WalkedParts, WalkedCopied, Walking
<1>7. CASE LookInside
  <2>1. UNCHANGED <<own, buf, rxIdx, tmpIdx, td, isFrame, skipped, got>> /\ InRead
    BY <1>7 DEF LookInside, ringVars, walkVars, InRead
  <2>2. pc = "look" /\ pc' = "take" /\ ~IsSof(buf[td]) /\ td = tmpIdx
    BY <1>0, <1>7 DEF LookInside, WalkInv
  <2>3. WalkedOwned' /\ WalkedCopied'
    BY <2>1 DEF CopyInv, WalkedOwned, WalkedCopied, Walking, Copied
  <2>4. WalkedParts'
    BY <2>1, <2>2 DEF CopyInv, WalkedParts, Walking
  <2> QED
    BY <2>3, <2>4 DEF CopyInv
<1>8. CASE StartFrame
  <2>1. /\ rxIdx' = tmpIdx /\ tmpIdx' = tmpIdx /\ tmpIdx \in Slots /\ pc' = "take"
        /\ buf' = buf /\ got' = <<>>
        /\ skipped' = (skipped \/ rxIdx # tmpIdx)
        /\ td' = IF rxIdx = tmpIdx THEN td ELSE CircDec(tmpIdx)
    BY <1>0, <1>8 DEF StartFrame, TypeOK
  <2>2. Between(rxIdx', tmpIdx') = {}
    BY <2>1, NothingPassed
  <2>3. WalkedOwned' /\ WalkedCopied'
    BY <2>1, <2>2 DEF WalkedOwned, WalkedCopied
  <2>4. WalkedParts'
    <3>1. td = tmpIdx /\ IsSof(buf[td])
      BY <1>0, <1>8 DEF StartFrame, WalkInv
    <3> QED
      BY <2>1, <2>2, <3>1 DEF WalkedParts, Walking
  <2> QED
    BY <2>3, <2>4 DEF CopyInv
<1>9. CASE CopyMore
  <2>1. /\ UNCHANGED <<own, buf, rxIdx, isFrame, skipped>>
        /\ tmpIdx' = CircInc(tmpIdx) /\ tmpIdx' # rxIdx /\ pc = "take" /\ pc' = "look"
        /\ isFrame /\ Copy /\ ~IsEof(buf[td])
        /\ rxIdx \in Slots /\ tmpIdx \in Slots /\ td \in Slots
    BY <1>0, <1>9 DEF CopyMore, TypeOK, ringVars
  <2>2. InRead /\ own[tmpIdx] /\ (Walking' => Walking)
    BY <1>0, <2>1 DEF InRead, Walking, WalkInv
  <2>3. \A s \in Slots : s \in Between(rxIdx, tmpIdx') <=> s = tmpIdx \/ s \in Between(rxIdx, tmpIdx)
    BY <2>1, Neighbours
  <2>4. WalkedOwned'
    <3>1. Between(rxIdx, tmpIdx') \subseteq Slots
      BY DEF Between
    <3> QED
      BY <2>1, <2>2, <2>3, <3>1 DEF CopyInv, WalkedOwned
  <2>5. WalkedParts'
    <3> SUFFICES ASSUME Walking PROVE WalkedParts'
      BY <2>2 DEF WalkedParts
    <3>1. td = tmpIdx /\ \A s \in Between(rxIdx, tmpIdx) : ~IsEof(buf[s])
      BY <2>1 DEF CopyInv, WalkedParts
    <3>2. \A s \in Between(rxIdx, tmpIdx') : ~IsEof(buf[s])
      BY <2>1, <2>3, <3>1 DEF Between
    <3> QED
      BY <2>1, <3>1, <3>2 DEF WalkedParts
  <2>6. WalkedCopied'
    <3> SUFFICES ASSUME Walking PROVE WalkedCopied'
      BY <2>2 DEF WalkedCopied
    <3>1. td = tmpIdx /\ CircDec(tmpIdx') = tmpIdx
      BY <2>1, Neighbours DEF CopyInv, WalkedParts
    <3>2. buf[td] \in Fragment
      BY <1>0, <2>1 DEF WrittenInv
    <3>3. \A p \in Fragment : p = buf[td] => Copied(p)'
      BY <2>1, CopyCopied
    <3> QED
      BY <2>1, <3>1, <3>2, <3>3 DEF WalkedCopied, Copied
  <2> QED
    BY <2>4, <2>5, <2>6 DEF CopyInv
<1> QED
  BY <1>1, <1>2, <1>3, <1>4, <1>5, <1>6, <1>7, <1>8, <1>9, <1>10 DEF Next, Read, Dma

-----------------------------------------------------------------------------
(* What was delivered by calls that had nothing to discard is gone from    *)
(* the ring: all that is there, or on its way, came later.                 *)
Clean(i) == i \in DOMAIN delivered /\ ~delivered[i].skipped
FrameOf(i) == delivered[i].parts[1].frame

DeliveredBefore ==
  \A i \in DOMAIN delivered : Clean(i) =>
    /\ FrameOf(i) \in Nat /\ FrameOf(i) <= arrived
    /\ incoming # Blank => FrameOf(i) < incoming.frame
    /\ \A s \in Slots : own[s] => FrameOf(i) < buf[s].frame

DeliveryInv == FramesWholeUnlessSkipped /\ DeliveredBefore /\ DeliveryOrder

(* What comes later than the end of a frame belongs to a later frame.      *)
LEMMA AfterTheEnd ==
  ASSUME NEW p \in Fragment, NEW q \in Fragment, IsEof(p), Later(p, q)
  PROVE  p.frame < q.frame
<1>1. p.part = p.of /\ p.of \in Int /\ q.part \in Int /\ q.part <= q.of
  BY FragmentFields DEF IsEof
<1> QED
  BY <1>1 DEF Later, SameFrame

(* A step that delivers nothing and puts nothing new in the ring.          *)
LEMMA NothingDelivered ==
  ASSUME TypeOK, DeliveryInv, UNCHANGED <<buf, delivered>>, arrived' \in Nat,
         \A s \in Slots : own'[s] => own[s],
         \/ incoming' = incoming /\ arrived' = arrived
         \/ incoming' = Blank /\ arrived' = arrived
         \/ incoming'.frame = arrived + 1 /\ arrived' = arrived + 1
  PROVE  DeliveryInv'
<1>1. FramesWholeUnlessSkipped' /\ DeliveryOrder'
  BY DEF DeliveryInv, FramesWholeUnlessSkipped, DeliveryOrder
<1>2. ASSUME NEW i \in DOMAIN delivered, Clean(i)
      PROVE  /\ FrameOf(i) \in Nat /\ FrameOf(i) <= arrived'
             /\ incoming' # Blank => FrameOf(i) < incoming'.frame
             /\ \A s \in Slots : own'[s] => FrameOf(i) < buf[s].frame
  <2>1. /\ FrameOf(i) \in Nat /\ FrameOf(i) <= arrived /\ arrived \in Nat
        /\ incoming # Blank => FrameOf(i) < incoming.frame
        /\ \A s \in Slots : own[s] => FrameOf(i) < buf[s].frame
    BY <1>2, RxAssumption DEF DeliveryInv, DeliveredBefore, TypeOK
  <2> QED
    BY <2>1
<1>3. DeliveredBefore'
  BY <1>2 DEF DeliveredBefore, Clean, FrameOf
<1> QED
  BY <1>1, <1>3 DEF DeliveryInv

LEMMA WriteDelivery ==
  ASSUME IInv, DeliveryInv, DmaWrite
  PROVE  DeliveryInv'
<1>1. /\ UNCHANGED <<delivered, arrived>> /\ incoming # Blank /\ incoming \in Fragment
      /\ incoming' # Blank => incoming'.frame = incoming.frame
  BY DEF DmaWrite, IInv, TypeOK, Fragment
<1>2. /\ \A s \in Slots : own'[s] <=> own[s] \/ s = dmaIdx
      /\ \A s \in Slots : buf'[s] = IF s = dmaIdx THEN incoming ELSE buf[s]
  BY DEF DmaWrite, IInv, TypeOK
<1>3. FramesWholeUnlessSkipped' /\ DeliveryOrder'
  BY <1>1 DEF DeliveryInv, FramesWholeUnlessSkipped, DeliveryOrder
<1>4. ASSUME NEW i \in DOMAIN delivered, Clean(i)
      PROVE  /\ FrameOf(i) \in Nat /\ FrameOf(i) <= arrived'
             /\ incoming' # Blank => FrameOf(i) < incoming'.frame
             /\ \A s \in Slots : own'[s] => FrameOf(i) < buf'[s].frame
  BY <1>1, <1>2, <1>4 DEF DeliveryInv, DeliveredBefore
<1>5. DeliveredBefore'
  BY <1>1, <1>4 DEF DeliveredBefore, Clean, FrameOf
<1> QED
  BY <1>3, <1>5 DEF DeliveryInv

LEMMA AllParts ==
  ASSUME NEW g \in Seq(Fragment), NEW p \in Fragment, Len(g) = p.of,
         \A i \in 1 .. Len(g) : g[i] = [frame |-> p.frame, part |-> i, of |-> p.of]
  PROVE  Whole(g) /\ g[1].frame = p.frame
<1> DEFINE f == p.frame
           n == Len(g)
<1>1. \A i \in 1 .. n : g[i] = [frame |-> f, part |-> i, of |-> n]
  OBVIOUS
<1>2. n \in Nat /\ n >= 1 /\ DOMAIN g = 1 .. n /\ g # <<>>
  BY FragmentFields
<1> HIDE DEF f, n
<1>3. g[1] = [frame |-> f, part |-> 1, of |-> n]
  BY <1>1, <1>2
<1>4. g[1].frame = f
  BY <1>3
<1>5. \A i \in DOMAIN g : g[i] = [frame |-> g[1].frame, part |-> i, of |-> n]
  BY <1>1, <1>2, <1>4
<1> QED
  BY <1>2, <1>4, <1>5 DEF Whole, f, n

(* A copy that has reached the end of its frame and is not short is whole. *)
LEMMA WholeAtTheEnd ==
  ASSUME IInv, OrderInv, CopyInv, Walking, pc = "take", Copy, got' \in Seq(Fragment),
         NEW p \in Fragment, p = buf[td], IsEof(p), Len(got') >= p.of
  PROVE  Whole(got') /\ got'[1].frame = p.frame
<1> DEFINE g == got'
<1>1. Copied(p)'
  BY CopyCopied
<1>2. /\ Len(g) = p.part \/ (Len(g) = ReadParts /\ p.part >= ReadParts)
      /\ \A i \in 1 .. Len(g) : g[i] = [frame |-> p.frame, part |-> i, of |-> p.of]
  BY <1>1 DEF Copied
<1>3. p.part = p.of /\ p.part \in Nat \ {0}
  BY FragmentFields DEF IsEof
<1>4. g \in Seq(Fragment)
  OBVIOUS
<1> HIDE DEF g
<1>5. Len(g) = p.of
  BY <1>2, <1>3, <1>4, RxAssumption DEF g
<1>6. Whole(g) /\ g[1].frame = p.frame
  BY <1>2, <1>4, <1>5, AllParts
<1> QED
  BY <1>6 DEF g

(* The one step that delivers.                                             *)
LEMMA DeliverNext ==
  ASSUME IInv, OrderInv, CopyInv, DeliveryInv, CopyLast,
         delivered' = Append(delivered, [parts |-> got', skipped |-> skipped]),
         Len(got') >= buf[td].of
  PROVE  DeliveryInv'
<1> DEFINE p == buf[td]
           n == Len(delivered) + 1
<1>1. /\ p \in Fragment /\ IsEof(p) /\ pc = "take" /\ isFrame /\ own[tmpIdx]
      /\ UNCHANGED <<buf, arrived, incoming, skipped>>
      /\ Release(Between(rxIdx, CircInc(tmpIdx))) /\ CircInc(tmpIdx) # rxIdx
      /\ rxIdx \in Slots /\ tmpIdx \in Slots /\ td \in Slots /\ Copy
  BY DEF CopyLast, IInv, WrittenInv, WalkInv, TypeOK, dmaVars
<1>2. /\ delivered' \in Seq([parts : Seq(Fragment), skipped : BOOLEAN])
      /\ delivered \in Seq([parts : Seq(Fragment), skipped : BOOLEAN])
      /\ got' \in Seq(Fragment)
  <2>1. got' \in Seq(Fragment)
    BY <1>1, CopyType DEF IInv
  <2> QED
    BY <2>1 DEF IInv, TypeOK
<1>3. /\ DOMAIN delivered' = DOMAIN delivered \cup {n} /\ n \notin DOMAIN delivered
      /\ \A i \in DOMAIN delivered : delivered'[i] = delivered[i] /\ i < n
      /\ delivered'[n].parts = got' /\ delivered'[n].skipped = skipped
  BY <1>2
<1> HIDE DEF p, n
<1>4. CASE skipped
  <2>1. FramesWholeUnlessSkipped' /\ DeliveryOrder'
    BY <1>3, <1>4 DEF DeliveryInv, FramesWholeUnlessSkipped, DeliveryOrder
  <2>2. \A s \in Slots : own'[s] => own[s]
    BY <1>1 DEF Release
  <2>3. DeliveredBefore'
    BY <1>1, <1>3, <1>4, <2>2 DEF DeliveryInv, DeliveredBefore, Clean, FrameOf
  <2> QED
    BY <2>1, <2>3 DEF DeliveryInv
<1>5. CASE ~skipped
  <2>1. Walking /\ td = tmpIdx
    BY <1>1, <1>5 DEF Walking, InRead, CopyInv, WalkedParts
  <2>2. IsEof(p) /\ p.of = buf[td].of /\ p.frame \in Nat
    BY <1>1, FragmentFields DEF p
  <2>3. Whole(got') /\ got'[1].frame = p.frame
    BY <1>1, <1>2, <2>1, <2>2, WholeAtTheEnd DEF p
  <2>7. FramesWholeUnlessSkipped'
    BY <1>3, <2>3 DEF DeliveryInv, FramesWholeUnlessSkipped
  <2>8. \A i \in DOMAIN delivered : Clean(i) => FrameOf(i) < p.frame
    BY <1>1, <2>1 DEF DeliveryInv, DeliveredBefore, p
  <2>9. DeliveryOrder'
    BY <1>3, <2>3, <2>8 DEF DeliveryInv, DeliveryOrder, Clean, FrameOf
  <2>10. p.frame <= arrived
    BY <1>1, <2>1 DEF OrderInv, ArrivalsInOrder, p
  <2>11. incoming # Blank => p.frame < incoming.frame
    <3> SUFFICES ASSUME incoming # Blank PROVE p.frame < incoming.frame
      OBVIOUS
    <3>1. incoming \in Fragment /\ Later(p, incoming)
      BY <1>1, <2>1 DEF OrderInv, ArrivalsInOrder, p, IInv, TypeOK
    <3> QED
      BY <1>1, <3>1, AfterTheEnd
  <2>12. ASSUME NEW s \in Slots, own'[s] PROVE own[s] /\ p.frame < buf[s].frame
    <3>1. own[s] /\ s \notin Between(rxIdx, CircInc(tmpIdx))
      BY <1>1, <2>12 DEF Release
    <3>2. s # tmpIdx /\ s \notin Between(rxIdx, tmpIdx)
      BY <1>1, <3>1, Neighbours
    <3>3. Dist(rxIdx, tmpIdx) < Dist(rxIdx, s)
      BY <1>1, <3>2, RxAssumption DEF Between, Dist, Slots
    <3>4. Later(p, buf[s]) /\ buf[s] \in Fragment
      BY <1>1, <2>1, <3>1, <3>3 DEF OrderInv, RingInOrder, p, IInv, WrittenInv
    <3> QED
      BY <1>1, <3>1, <3>4, AfterTheEnd
  <2>13. DeliveredBefore'
    <3>1. ASSUME NEW i \in DOMAIN delivered, Clean(i)
          PROVE  /\ FrameOf(i) \in Nat /\ FrameOf(i) <= arrived
                 /\ incoming # Blank => FrameOf(i) < incoming.frame
                 /\ \A s \in Slots : own'[s] => FrameOf(i) < buf[s].frame
      BY <2>12, <3>1 DEF DeliveryInv, DeliveredBefore
    <3> QED
      BY <1>1, <1>3, <2>2, <2>3, <2>10, <2>11, <2>12, <3>1 DEF DeliveredBefore, Clean, FrameOf
  <2> QED
    BY <2>7, <2>9, <2>13 DEF DeliveryInv
<1> QED
  BY <1>4, <1>5

LEMMA NextDelivery ==
  IInv /\ OrderInv /\ CopyInv /\ DeliveryInv /\ [Next]_vars => DeliveryInv'
<1> SUFFICES ASSUME IInv, OrderInv, CopyInv, DeliveryInv, [Next]_vars PROVE DeliveryInv'
  OBVIOUS
<1>0. TypeOK /\ arrived \in Nat
  BY RxAssumption DEF IInv, TypeOK
<1>1. CASE DmaWrite
  BY <1>1, WriteDelivery
<1>2. CASE DmaStart
  <2>1. incoming'.frame = arrived + 1 /\ arrived' = arrived + 1
    BY <1>2 DEF DmaStart
  <2> QED
    BY <1>0, <1>2, <2>1, NothingDelivered DEF DmaStart
<1>3. CASE DmaGiveUp
  BY <1>0, <1>3, NothingDelivered DEF DmaGiveUp
<1>4. CASE ReadCall \/ LookInside \/ CopyMore \/ Isr \/ Proc \/ UNCHANGED vars
  <2>1. UNCHANGED <<own, buf, delivered, incoming, arrived>>
    BY <1>4, Aside DEF ReadCall, LookInside, CopyMore, ReadVars, vars, ringVars, dmaVars
  <2> QED
    BY <1>0, <2>1, NothingDelivered
<1>5. CASE NoData
  <2>1. UNCHANGED <<own, buf, delivered, incoming, arrived>>
    BY <1>5 DEF NoData, ReturnCode, ringVars, dmaVars
  <2> QED
    BY <1>0, <2>1, NothingDelivered
<1>6. CASE StartFrame \/ SkipFragment \/ FullTurn
  <2>1. UNCHANGED <<buf, delivered, incoming, arrived>>
    BY <1>6 DEF StartFrame, SkipFragment, FullTurn, ReturnCode, dmaVars
  <2>2. \A s \in Slots : own'[s] => own[s]
    BY <1>6 DEF StartFrame, SkipFragment, FullTurn, Release
  <2> QED
    BY <1>0, <2>1, <2>2, NothingDelivered
<1>7. CASE CopyLast
  <2>1. /\ UNCHANGED <<buf, incoming, arrived>>
        /\ \A s \in Slots : own'[s] => own[s]
    BY <1>7 DEF CopyLast, Release, dmaVars
  <2>2. CASE Len(got') < buf[td].of \/ ~rxCb
    <3>1. UNCHANGED delivered
      BY <1>7, <2>2 DEF CopyLast, ReturnCode
    <3> QED
      BY <1>0, <2>1, <3>1, NothingDelivered
  <2>3. CASE ~(Len(got') < buf[td].of) /\ rxCb
    <3>1. delivered' = Append(delivered, [parts |-> got', skipped |-> skipped])
      BY <1>7, <2>3 DEF CopyLast, ReturnCode
    <3>2. got' \in Seq(Fragment) /\ buf[td] \in Fragment
      BY <1>0, <1>7, CopyType DEF CopyLast, IInv, WrittenInv
    <3>3. Len(got') >= buf[td].of
      BY <2>3, <3>2, FragmentFields
    <3> QED
      BY <1>7, <3>1, <3>3, DeliverNext
  <2> QED
    BY <2>2, <2>3
<1> QED
  BY <1>1, <1>2, <1>3, <1>4, <1>5, <1>6, <1>7 DEF Next, Read, Dma

(* The processor owns nothing behind the first descriptor it does not own. *)
LEMMA BeforeTheGap ==
  ASSUME IInv, NEW t \in Slots, ~own[t], NEW s \in Slots, own[s]
  PROVE  s \in Between(rxIdx, t)
<1>1. \A u \in Slots : own[u] <=> Dist(rxIdx, u) < Dist(rxIdx, dmaIdx)
  BY DEF IInv, DescriptorsInStep, Between
<1> QED
  BY <1>1, RxAssumption DEF IInv, TypeOK, Between, Dist, Slots

(* The notice of a whole frame, wherever the process is: an interrupt still
   to come, a poll that will find PENDING_RX, or the receive loop on its
   way; unless it was missed.                                              *)
Left == \E s \in Slots : own[s] /\ IsEof(buf[s])
Reading == pc \in {"rxStore", "rxMask", "call", "look", "take"}
Noticed ==
  \/ rcomp \/ Reading \/ missed # "no" \/ skipped \/ status = "GMAC_SIZE_TOO_SMALL"
  \/ "PENDING_RX" \in state /\ (needspoll \/ pc = "poll")

NoticeInv ==
  /\ Left => Noticed
  /\ ~rxCb \/ pc = "ready" => state = {"NOT_INITIALIZED"}
  /\ ~rxCb => pc \in {"call", "look", "take", "flushed"}
  /\ rxCb => pc # "flushed"

(* A call of gmac_dev_read that finds nothing more has left no whole frame
   behind, unless it discarded something.                                  *)
LEMMA NothingLeft ==
  ASSUME IInv, CopyInv, NoData, ~skipped
  PROVE  ~Left
<1> SUFFICES ASSUME NEW s \in Slots, own[s], IsEof(buf[s]) PROVE FALSE
  BY DEF Left
<1>1. pc = "look" /\ ~own[td]
  BY DEF NoData
<1>2. td = tmpIdx /\ tmpIdx \in Slots /\ rxIdx \in Slots
  BY <1>1 DEF IInv, WalkInv, TypeOK
<1>3. s \in Between(rxIdx, tmpIdx)
  BY <1>1, <1>2, BeforeTheGap
<1>4. isFrame
  BY <1>1, <1>2, <1>3, NothingPassed DEF IInv, WalkInv
<1>5. Walking
  BY <1>1, <1>4 DEF Walking, InRead
<1> QED
  BY <1>1, <1>3, <1>5 DEF CopyInv, WalkedParts

LEMMA NextNotice == IInv /\ CopyInv /\ NoticeInv /\ [Next]_vars => NoticeInv'
<1> SUFFICES ASSUME IInv, CopyInv, NoticeInv, [Next]_vars PROVE NoticeInv'
  OBVIOUS
<1>0. TypeOK
  BY DEF IInv
<1> USE DEF noticeVars, pollVars, ringVars, dmaVars, walkVars
<1>1. CASE DmaStart \/ DmaGiveUp \/ UNCHANGED vars
  BY <1>1 DEF DmaStart, DmaGiveUp, vars, NoticeInv, Left, Noticed, Reading
<1>2. CASE DmaWrite
  <2>1. /\ UNCHANGED <<rxCb, state, needspoll, missed, pc, skipped, status>>
        /\ rcomp' = (rcomp \/ IsEof(incoming))
    BY <1>0, <1>2 DEF DmaWrite, TypeOK
  <2>2. Left' => Left \/ IsEof(incoming)
    BY <1>0, <1>2 DEF DmaWrite, TypeOK, Left
  <2> QED
    BY <2>1, <2>2 DEF NoticeInv, Noticed, Reading
<1>3. CASE NoData
  <2>1. /\ UNCHANGED <<own, buf, skipped, rxCb, state>>
        /\ pc' = IF rxCb THEN "txCheck" ELSE "flushed"
    BY <1>3 DEF NoData, ReturnCode
  <2>2. ~Left \/ skipped
    BY <1>3, NothingLeft
  <2>3. Left' => Noticed'
    BY <2>1, <2>2 DEF Left, Noticed
  <2> QED
    BY <2>1, <2>3 DEF NoticeInv
<1>4. CASE FullTurn
  <2>1. /\ ~Left' /\ UNCHANGED <<rxCb, state>>
        /\ pc' = IF rxCb THEN "txCheck" ELSE "flushed"
    BY <1>4 DEF FullTurn, ReturnCode, Release, Left
  <2> QED
    BY <2>1 DEF NoticeInv
<1>5. CASE CopyLast
  <2>1. /\ UNCHANGED <<rxCb, state>> /\ pc' # "ready"
        /\ (rxCb => pc' # "flushed") /\ (~rxCb => pc' \in {"call", "flushed"})
        /\ pc' = "call" \/ status' = "GMAC_SIZE_TOO_SMALL"
    BY <1>5 DEF CopyLast, ReturnCode
  <2> QED
    BY <2>1 DEF NoticeInv, Noticed, Reading
<1>6. CASE ReadCall \/ LookInside \/ StartFrame \/ SkipFragment \/ CopyMore
  <2>1. UNCHANGED <<rxCb, state>> /\ pc' \in {"look", "take"}
    BY <1>6 DEF ReadCall, LookInside, StartFrame, SkipFragment, CopyMore
  <2> QED
    BY <2>1 DEF NoticeInv, Noticed, Reading
<1>7. CASE Isr \/ Proc
  <2>1. UNCHANGED <<skipped, status>> /\ (Left' => Left)
    BY <1>7, Aside DEF ReadVars, Left
  <2>2. CASE IsrRx
    BY <2>1, <2>2 DEF IsrRx, NoticeInv, Noticed, Reading
  <2>3. CASE IsrTx
    BY <2>1, <2>3 DEF IsrTx, NoticeInv, Noticed, Reading
  <2>4. CASE SetRxCallback \/ GoIdle
    BY <2>1, <2>4 DEF SetRxCallback, GoIdle, Goto, NoticeInv, Noticed, Reading
  <2>5. CASE Poll \/ PollDrained
    BY <2>1, <2>5 DEF Poll, PollDrained, Goto, NoticeInv, Noticed, Reading
  <2>6. CASE PollRxLoad \/ PollTxLoad
    BY <2>1, <2>6 DEF PollRxLoad, PollTxLoad, LoadState, Goto, NoticeInv, Noticed, Reading
  <2>7. CASE PollNoRx \/ PollNoTx
    BY <2>1, <2>7 DEF PollNoRx, PollNoTx, Skip, Goto, NoticeInv, Noticed, Reading
  <2>8. CASE PollRxStore
    BY <2>1, <2>8 DEF PollRxStore, StoreWithout, Goto, NoticeInv, Noticed, Reading
  <2>9. CASE PollTxStore
    BY <2>1, <2>9 DEF PollTxStore, StoreWithout, Goto, NoticeInv, Noticed, Reading
  <2>10. CASE PollRxMask
    BY <2>1, <2>10 DEF PollRxMask, ForgetPoll, Goto, NoticeInv, Noticed, Reading
  <2>11. CASE PollTxMask
    <3>1. /\ "PENDING_RX" \in state => state \cap PendingBits # {}
          /\ needspoll \in BOOLEAN
      BY <1>0 DEF PendingBits, TypeOK
    <3>2. "PENDING_RX" \in state /\ needspoll => needspoll'
      BY <2>11, <3>1 DEF PollTxMask, ForgetPoll
    <3> QED
      BY <2>1, <2>11, <3>2 DEF PollTxMask, ForgetPoll, Goto, NoticeInv, Noticed, Reading
  <2> QED
    BY <1>7, <2>2, <2>3, <2>4, <2>5, <2>6, <2>7, <2>8, <2>9, <2>10, <2>11 DEF Isr, Proc
<1> QED
  BY <1>1, <1>2, <1>3, <1>4, <1>5, <1>6, <1>7 DEF Next, Read, Dma

(* All of it together.                                                     *)
RxInv == IInv /\ OrderInv /\ CopyInv /\ DeliveryInv /\ NoticeInv

LEMMA RxInvariant == Spec => []RxInv
<1>1. Init => RxInv
  <2> SUFFICES ASSUME Init PROVE RxInv
    OBVIOUS
  <2>1. IInv
    BY InitIInv
  <2>2. (\A s \in Slots : ~own[s]) /\ incoming = Blank /\ pc = "call" /\ delivered = <<>>
    BY DEF Init
  <2>3. OrderInv
    BY <2>2 DEF OrderInv, RingInOrder, ArrivalsInOrder
  <2>4. CopyInv
    BY <2>2 DEF CopyInv, WalkedOwned, WalkedParts, WalkedCopied, Walking, InRead
  <2>5. DeliveryInv
    BY <2>2 DEF DeliveryInv, FramesWholeUnlessSkipped, DeliveredBefore, DeliveryOrder
  <2>6. NoticeInv
    BY <2>2 DEF Init, NoticeInv, Left
  <2> QED
    BY <2>1, <2>3, <2>4, <2>5, <2>6 DEF RxInv
<1>2. RxInv /\ [Next]_vars => RxInv'
  BY NextIInv, NextOrder, NextCopy, NextDelivery, NextNotice DEF RxInv
<1> QED
  BY <1>1, <1>2, PTL DEF Spec

(* gmac_dev_read returns GMAC_OK only for a frame that is whole, its parts
   from the first to the last in order, unless it discarded what it had
   copied of another (FramesWholeUnlessSkipped).                           *)
THEOREM WholeFrames == Spec => []FramesWholeUnlessSkipped
<1>1. RxInv => FramesWholeUnlessSkipped
  BY DEF RxInv, DeliveryInv
<1> QED
  BY <1>1, RxInvariant, PTL

(* No frame is delivered twice or after a later one (DeliveryOrder).       *)
THEOREM DeliveredInOrder == Spec => []DeliveryOrder
<1>1. RxInv => DeliveryOrder
  BY DEF RxInv, DeliveryInv
<1> QED
  BY <1>1, RxInvariant, PTL

(* Between two polls a whole frame is in the ring without an interrupt or a
   poll on its way only if its interrupt came before there was a callback or
   its bit was lost to the read-modify-write that clears PENDING_TX
   (StrandedOnlyIfUnnoticed): the clearing of PENDING_RX, the masking of the
   interrupt and the forgetting of the poll lose none.                     *)
THEOREM NoticeKept == Spec => []StrandedOnlyIfUnnoticed
<1>1. RxInv => StrandedOnlyIfUnnoticed
  BY DEF RxInv, NoticeInv, Left, Noticed, Reading, StrandedOnlyIfUnnoticed, Stranded
<1> QED
  BY <1>1, RxInvariant, PTL
=============================================================================
