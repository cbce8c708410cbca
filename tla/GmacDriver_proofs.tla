-------------------------- MODULE GmacDriver_proofs --------------------------
(***************************************************************************)
(* Theorems about GmacDriver that hold for every size of the ring and of   *)
(* the pool.  The first ones hold whatever the surroundings do: with every *)
(* transmit error, a fast wire, frames arriving while the driver boots,    *)
(* and restarts.  The others assume surroundings that are named:           *)
(* NoOverflow, CleanWire, Quiet, or that nothing is received.              *)
(***************************************************************************)
EXTENDS GmacDriver, SequenceTheorems, FiniteSetTheorems, TLAPS

(* What gmac_driver_tx is doing and the element it holds go together.      *)
BuildingInv == (elem = NoFrame) <=> (pc \notin {"txHead", "txAdd"})

(* Nothing has been reported for a frame that was not submitted yet.       *)
Unsubmitted == \A f \in Frames : f >= nextFrame => reported[f] = "none"

ListInv == AckedPrefix /\ PoolAccounting /\ SubmissionOrder /\ Unsubmitted

(* The inductive invariant.                                                *)
IInv == TypeOK /\ BuildingInv /\ ListInv

(* The type invariant in the parts that different actions change.          *)
HwTypeOK ==
  /\ hwIdx \in Slots
  /\ tsr \subseteq TsrBits
  /\ isr \subseteq {"TCOMP", "RCOMP", "RLEX"}
  /\ wire \in [Frames -> Fates]
SlotTypeOK ==
  /\ txHead \in Slots /\ txTail \in Slots
  /\ txUsed \in [Slots -> BOOLEAN]
  /\ txFrame \in [Slots -> Frames \cup {NoFrame}]

USE RingAssumption, DriverAssumption

-----------------------------------------------------------------------------
LEMMA CircIncType == \A i \in Slots : CircInc(i) \in Slots
BY DEF Slots, CircInc, RingAssumption

LEMMA InitIInv == Init => IInv
<1> SUFFICES ASSUME Init PROVE IInv
  OBVIOUS
<1>1. RingTypeOK
  BY DEF Init, RingInit, RingTypeOK, Slots, Frames, NoFrame, Fates
<1>2. <<>> \in Seq(Element)
  OBVIOUS
<1>3. TypeOK
  <2>1. pending \in Seq(Element)
    BY <1>2 DEF Init
  <2>2. reported \in [Frames -> Reports]
    BY DEF Init, Reports
  <2>3. blocks \in 0 .. PoolSize /\ rxq \in 0 .. MaxRxQueue /\ nextFrame \in 1 .. MaxFrames + 1
    BY DEF Init
  <2>4. state \subseteq StateBits /\ reg \subseteq StateBits /\ txFlag \subseteq TsrBits
    BY DEF Init, StateBits
  <2>5. /\ needspoll \in BOOLEAN /\ irqOn \in BOOLEAN /\ rxCb \in BOOLEAN
        /\ pc \in Pcs /\ ret \in {"idle", "rxInput"}
        /\ elem \in Frames \cup {NoFrame}
        /\ isrPc \in {"out", "loop"}
        /\ fault \in Faults
    BY DEF Init, Pcs, Faults
  <2> QED
    BY <1>1, <2>1, <2>2, <2>3, <2>4, <2>5 DEF TypeOK
<1>4. BuildingInv
  BY DEF Init, BuildingInv
<1>5. ListInv
  BY DEF Init, ListInv, AckedPrefix, PoolAccounting, SubmissionOrder, OnList,
         Building, Unsubmitted
<1> QED
  BY <1>3, <1>4, <1>5 DEF IInv

(* Steps that leave the list, the pool, the reports and the element under
   construction alone preserve what is said about them.                    *)
LEMMA ListStutter ==
  ASSUME ListInv, UNCHANGED listVars, UNCHANGED elem
  PROVE  ListInv'
BY DEF ListInv, AckedPrefix, PoolAccounting, SubmissionOrder, OnList,
       Building, Unsubmitted, listVars

(* The elements of the list carry frames.                                  *)
LEMMA OnListType ==
  ASSUME pending \in Seq(Element)
  PROVE  /\ Len(pending) \in Nat /\ DOMAIN pending = 1 .. Len(pending)
         /\ \A i \in DOMAIN pending : pending[i] \in Element /\ pending[i].frame \in Frames
         /\ OnList \subseteq Frames
<1>1. \A i \in DOMAIN pending : pending[i] \in Element
  BY ElementOfSeq, LenProperties
<1>2. \A i \in DOMAIN pending : pending[i].frame \in Frames
  BY <1>1 DEF Element
<1> QED
  BY <1>1, <1>2, LenProperties DEF OnList

LEMMA FailStep ==
  ASSUME IInv, NEW why \in Faults, Fail(why)
  PROVE  IInv'
<1>1. TypeOK'
  BY DEF IInv, TypeOK, RingTypeOK, Fail, ringVars, hwVars, threadVars, listVars,
         flagVars, isrVars, rxVars
<1>2. BuildingInv' /\ ListInv'
  BY ListStutter DEF IInv, BuildingInv, Fail, threadVars
<1> QED
  BY <1>1, <1>2 DEF IInv

(* A read that yields no frame lengthens no queue.                         *)
LEMMA QueueAfterRead ==
  ASSUME NEW q \in Nat, rxq \in 0 .. q, NoFrameRead
  PROVE  rxq' \in 0 .. q /\ (rxq = 0 => rxq' = 0)
  BY DEF NoFrameRead

LEMMA LifeCycleStep ==
  ASSUME IInv, LifeCycle
  PROVE  IInv'
<1> USE DEF ringVars, hwVars, threadVars, listVars, flagVars, isrVars, rxVars,
            Goto, At, Pcs, BootPcs, StateBits
<1>1. CASE DriverInit
  <2>1. RingTypeOK'
    BY <1>1 DEF IInv, TypeOK, RingTypeOK, DriverInit, ResetTxMem, Slots
  <2>2. <<>> \in Seq(Element)
    OBVIOUS
  <2>3. TypeOK'
    BY <1>1, <2>1, <2>2 DEF IInv, TypeOK, DriverInit
  <2>4. BuildingInv'
    BY <1>1 DEF IInv, BuildingInv, DriverInit
  <2>5. ListInv'
    BY <1>1 DEF IInv, BuildingInv, ListInv, AckedPrefix, PoolAccounting,
                SubmissionOrder, OnList, Building, Unsubmitted, DriverInit
  <2> QED
    BY <2>3, <2>4, <2>5 DEF IInv
<1>2. CASE FlushFrame
  <2>1. TypeOK'
    BY <1>2 DEF IInv, TypeOK, RingTypeOK, FlushFrame
  <2>2. BuildingInv' /\ ListInv'
    BY <1>2, ListStutter DEF IInv, BuildingInv, FlushFrame
  <2> QED
    BY <2>1, <2>2 DEF IInv
<1>3. CASE FlushDone \/ SetRxCallback \/ GoIdle \/ Exit
  <2>1. TypeOK'
    BY <1>3, QueueAfterRead DEF IInv, TypeOK, RingTypeOK, FlushDone, SetRxCallback, GoIdle, Exit
  <2>2. BuildingInv' /\ ListInv'
    BY <1>3, ListStutter DEF IInv, BuildingInv, FlushDone, SetRxCallback, GoIdle, Exit
  <2> QED
    BY <2>1, <2>2 DEF IInv
<1> QED
  BY <1>1, <1>2, <1>3 DEF LifeCycle

(* A frame that was turned away takes the next number and a status; nothing
   on the list is that frame.                                              *)
LEMMA RejectStep ==
  ASSUME IInv, Caller, NEW st \in Reports, Reject(st), UNCHANGED blocks
  PROVE  IInv'
<1> USE DEF ringVars, hwVars, threadVars, flagVars, isrVars, rxVars
<1>1. nextFrame \in Frames
  BY DEF IInv, TypeOK, Caller, Frames
<1>2. TypeOK'
  BY <1>1 DEF IInv, TypeOK, RingTypeOK, Reject, Frames
<1>3. BuildingInv'
  BY DEF IInv, BuildingInv, Reject
<1>4. ListInv'
  <2>1. AckedPrefix' /\ PoolAccounting'
    BY DEF IInv, ListInv, AckedPrefix, PoolAccounting, Reject
  <2>2. \A f \in OnList \cup Building :
          /\ f < nextFrame' /\ reported'[f] = "none"
    <3>1. OnList \cup Building \subseteq Frames
      BY OnListType DEF IInv, TypeOK, Building
    <3>2. \A f \in OnList \cup Building : f < nextFrame /\ reported[f] = "none"
      BY DEF IInv, ListInv, SubmissionOrder
    <3> QED
      BY <1>1, <3>1, <3>2 DEF IInv, TypeOK, Frames, Reject
  <2>3. OnList' = OnList /\ Building' = Building
    BY DEF OnList, Building, Reject
  <2> QED
    BY <1>1, <2>1, <2>2, <2>3
       DEF IInv, TypeOK, ListInv, SubmissionOrder, Unsubmitted, Reject, OnList, Frames
<1> QED
  BY <1>2, <1>3, <1>4 DEF IInv

LEMMA TransmitStep ==
  ASSUME IInv, Transmit
  PROVE  IInv'
<1>1. CASE TxNoMemory \/ TxOversize \/ TxBusy
  BY <1>1, RejectStep DEF TxNoMemory, TxOversize, TxBusy, Reports
<1>2. CASE TxWrite
  <2> USE DEF hwVars, flagVars, isrVars, rxVars
  <2>1. nextFrame \in Frames
    BY <1>2 DEF IInv, TypeOK, TxWrite, Caller, Frames
  <2>2. RingTypeOK'
    BY <1>2, <2>1 DEF IInv, TypeOK, RingTypeOK, TxWrite, WriteSlot
  <2>3. TypeOK'
    BY <1>2, <2>1, <2>2 DEF IInv, TypeOK, TxWrite, Caller, At, Pcs, Frames
  <2>4. BuildingInv'
    BY <1>2, <2>1 DEF BuildingInv, TxWrite, Frames, NoFrame
  <2>5. elem = NoFrame
    BY <1>2 DEF IInv, BuildingInv, TxWrite, Caller, At
  <2>6. \A f \in Frames : f < nextFrame' <=> f < nextFrame \/ f = nextFrame
    BY <1>2, <2>1 DEF TxWrite, Frames
  <2>7. OnList' = OnList /\ OnList \subseteq Frames
    BY <1>2, OnListType DEF IInv, TypeOK, OnList, TxWrite
  <2>8. reported[nextFrame] = "none"
    BY <2>1 DEF IInv, ListInv, Unsubmitted, Frames
  <2>9. ListInv'
    BY <1>2, <2>1, <2>5, <2>6, <2>7, <2>8
       DEF IInv, TypeOK, ListInv, AckedPrefix, PoolAccounting, SubmissionOrder,
           Building, Unsubmitted, TxWrite, Frames, NoFrame, OnList
  <2> QED
    BY <2>3, <2>4, <2>9 DEF IInv
<1> QED
  BY <1>1, <1>2 DEF Transmit

LEMMA TransmitRestStep ==
  ASSUME IInv, TransmitRest
  PROVE  IInv'
<1> USE DEF hwVars, flagVars, isrVars, rxVars, At, Goto
<1>1. CASE TxAdvance
  <2>1. TypeOK'
    BY <1>1, CircIncType
       DEF IInv, TypeOK, RingTypeOK, TxAdvance, AdvanceHead, listVars, Pcs
  <2>2. BuildingInv' /\ ListInv'
    BY <1>1, ListStutter DEF IInv, BuildingInv, TxAdvance
  <2> QED
    BY <2>1, <2>2 DEF IInv
<1>2. CASE TxListAdd
  <2> DEFINE e == [frame |-> elem, acked |-> FALSE, flag |-> {}]
             n == Len(pending)
  <2>1. elem \in Frames /\ elem # NoFrame
    BY <1>2 DEF IInv, TypeOK, BuildingInv, TxListAdd
  <2>2. e \in Element
    BY <2>1 DEF Element
  <2>3. /\ pending' \in Seq(Element) /\ Len(pending') = n + 1 /\ n \in Nat
        /\ DOMAIN pending = 1 .. n /\ DOMAIN pending' = 1 .. n + 1
        /\ \A i \in 1 .. n : pending'[i] = pending[i]
        /\ pending'[n + 1] = e
    BY <1>2, <2>2, AppendProperties, LenProperties DEF IInv, TypeOK, TxListAdd
  <2>4. TypeOK'
    BY <1>2, <2>3 DEF IInv, TypeOK, RingTypeOK, TxListAdd, ringVars, NoFrame, Pcs
  <2>5. BuildingInv'
    BY <1>2 DEF IInv, TypeOK, BuildingInv, TxListAdd, NoFrame
  <2>6. AckedPrefix'
    BY <2>3 DEF IInv, ListInv, AckedPrefix
  <2>7. PoolAccounting'
    BY <1>2, <2>1, <2>3 DEF IInv, ListInv, PoolAccounting, TxListAdd
  <2>8. OnList' = OnList \cup {elem} /\ Building' = {} /\ Building = {elem}
    BY <1>2, <2>1, <2>3 DEF OnList, Building, TxListAdd
  <2>9. SubmissionOrder'
    <3>1. \A i, j \in DOMAIN pending' :
            i < j => pending'[i].frame < pending'[j].frame
      <4>1. \A i \in 1 .. n : pending[i].frame < elem
        BY <2>1, <2>3 DEF IInv, ListInv, SubmissionOrder, OnList
      <4> QED
        BY <2>3, <4>1 DEF IInv, ListInv, SubmissionOrder
    <3>2. \A f \in (OnList \cup Building)' : (f < nextFrame /\ reported[f] = "none")'
      BY <1>2, <2>8 DEF IInv, ListInv, SubmissionOrder, TxListAdd
    <3>3. elem' = NoFrame
      BY <1>2 DEF TxListAdd
    <3> QED
      BY <3>1, <3>2, <3>3 DEF SubmissionOrder
  <2>10. Unsubmitted'
    BY <1>2 DEF IInv, ListInv, Unsubmitted, TxListAdd
  <2> QED
    BY <2>4, <2>5, <2>6, <2>7, <2>9, <2>10 DEF IInv, ListInv
<1> QED
  BY <1>1, <1>2 DEF TransmitRest

(* The poll handler reports the head of the list and pops it.              *)
LEMMA ReportHeadStep ==
  ASSUME IInv, ReportHead, pending # <<>>, pc \notin {"txHead", "txAdd"}
  PROVE  IInv'
<1> USE DEF hwVars, flagVars, isrVars, rxVars, Goto
<1> DEFINE e == Head(pending)
           n == Len(pending)
<1>1. /\ pending' \in Seq(Element) /\ Len(pending') = n - 1 /\ n \in Nat /\ n >= 1
      /\ DOMAIN pending = 1 .. n /\ DOMAIN pending' = 1 .. n - 1
      /\ \A i \in 1 .. n - 1 : pending'[i] = pending[i + 1]
      /\ e \in Element /\ e = pending[1]
  BY HeadTailProperties, LenProperties, EmptySeq DEF IInv, TypeOK, ReportHead
<1>2. e.frame \in Frames
  BY <1>1 DEF Element
<1>3. MacStatus(e.flag) \in Reports
  BY DEF MacStatus, Reports
<1>4. elem = NoFrame /\ elem' = elem
  BY DEF IInv, BuildingInv, ReportHead
<1>5. blocks = n /\ blocks' = n - 1
  BY <1>1, <1>4 DEF IInv, TypeOK, ListInv, PoolAccounting, ReportHead
<1>6. TypeOK'
  BY <1>1, <1>2, <1>3, <1>5 DEF IInv, TypeOK, RingTypeOK, ReportHead, ringVars, Pcs
<1>7. BuildingInv'
  BY <1>4 DEF BuildingInv, ReportHead
<1>8. AckedPrefix' /\ PoolAccounting'
  <2>1. ASSUME NEW i \in DOMAIN pending', NEW j \in DOMAIN pending',
               i < j, pending'[j].acked
        PROVE  pending'[i].acked
    <3>1. i + 1 \in 1 .. n /\ j + 1 \in 1 .. n /\ i + 1 < j + 1
      BY <2>1, <1>1
    <3> QED
      BY <1>1, <2>1, <3>1 DEF IInv, ListInv, AckedPrefix
  <2>2. PoolAccounting'
    BY <1>1, <1>4, <1>5 DEF PoolAccounting
  <2> QED
    BY <2>1, <2>2 DEF AckedPrefix
<1>9. SubmissionOrder'
  <2>1. ASSUME NEW i \in DOMAIN pending', NEW j \in DOMAIN pending', i < j
        PROVE  pending'[i].frame < pending'[j].frame
    <3>1. i + 1 \in 1 .. n /\ j + 1 \in 1 .. n /\ i + 1 < j + 1
      BY <2>1, <1>1
    <3> QED
      BY <1>1, <3>1 DEF IInv, ListInv, SubmissionOrder
  <2>2. \A f \in OnList' : f \in OnList /\ f # e.frame /\ f \in Frames
    <3>1. \A i \in 1 .. n - 1 : pending[1].frame < pending[i + 1].frame
      BY <1>1 DEF IInv, ListInv, SubmissionOrder
    <3>2. \A i \in 1 .. n : pending[i].frame \in Frames
      BY <1>1, OnListType DEF IInv, TypeOK
    <3>3. ASSUME NEW i \in 1 .. n - 1
          PROVE  pending[1].frame # pending[i + 1].frame
      <4>1. 1 \in 1 .. n /\ i + 1 \in 1 .. n
        BY <1>1
      <4>2. pending[1].frame \in Int /\ pending[i + 1].frame \in Int
        BY <3>2, <4>1 DEF Frames
      <4> QED
        BY <3>1, <4>2
    <3>4. \A i \in 1 .. n - 1 : i + 1 \in 1 .. n /\ pending'[i] = pending[i + 1]
      BY <1>1
    <3>5. ASSUME NEW f \in OnList' PROVE f \in OnList /\ f # e.frame /\ f \in Frames
      <4>1. PICK i \in 1 .. n - 1 : f = pending'[i].frame
        BY <1>1 DEF OnList
      <4>2. i + 1 \in 1 .. n /\ f = pending[i + 1].frame
        BY <3>4, <4>1
      <4> QED
        BY <1>1, <3>2, <3>3, <4>2 DEF OnList
    <3> QED
      BY <3>5
  <2>3. Building' = {}
    BY <1>4 DEF Building
  <2>4. \A f \in Frames : f # e.frame => reported'[f] = reported[f]
    BY DEF IInv, TypeOK, ReportHead
  <2>5. \A f \in (OnList \cup Building)' : (f < nextFrame /\ reported[f] = "none")'
    BY <2>2, <2>3, <2>4 DEF IInv, ListInv, SubmissionOrder, ReportHead
  <2> QED
    BY <1>4, <2>1, <2>5 DEF SubmissionOrder
<1>10. Unsubmitted'
  <2>1. e.frame < nextFrame
    BY <1>1 DEF IInv, ListInv, SubmissionOrder, OnList
  <2>2. \A f \in Frames : f # e.frame => reported'[f] = reported[f]
    BY DEF IInv, TypeOK, ReportHead
  <2> QED
    BY <1>2, <2>1, <2>2
       DEF IInv, TypeOK, ListInv, Unsubmitted, ReportHead, Frames
<1> QED
  BY <1>6, <1>7, <1>8, <1>9, <1>10 DEF IInv, ListInv

LEMMA PollHandlerStep ==
  ASSUME IInv, PollHandler
  PROVE  IInv'
<1> USE DEF ringVars, hwVars, flagVars, isrVars, rxVars, threadVars, listVars,
            At, Goto, Pcs, BootPcs
<1>1. CASE Poll
  <2>1. CASE Fail("poll: no event")
    BY <2>1, FailStep DEF Faults
  <2>2. CASE ~Fail("poll: no event")
    <3>1. TypeOK'
      BY <1>1, <2>2 DEF IInv, TypeOK, RingTypeOK, Poll
    <3>2. BuildingInv' /\ ListInv'
      BY <1>1, <2>2, ListStutter DEF IInv, BuildingInv, Poll
    <3> QED
      BY <3>1, <3>2 DEF IInv
  <2> QED
    BY <2>1, <2>2
<1>2. CASE PollRxLoad \/ PollTxLoad \/ PollRxStore \/ PollTxStore
  <2>1. TypeOK'
    BY <1>2 DEF IInv, TypeOK, RingTypeOK, PollRxLoad, PollTxLoad, PollRxStore,
                PollTxStore, LoadState, StoreWithout
  <2>2. BuildingInv' /\ ListInv'
    BY <1>2, ListStutter
       DEF IInv, BuildingInv, PollRxLoad, PollTxLoad, PollRxStore, PollTxStore,
           LoadState, StoreWithout
  <2> QED
    BY <2>1, <2>2 DEF IInv
<1>3. CASE PollRxMask \/ PollTxMask
  <2>1. TypeOK'
    BY <1>3 DEF IInv, TypeOK, RingTypeOK, PollRxMask, PollTxMask, ForgetPoll
  <2>2. BuildingInv' /\ ListInv'
    BY <1>3, ListStutter DEF IInv, BuildingInv, PollRxMask, PollTxMask, ForgetPoll
  <2> QED
    BY <2>1, <2>2 DEF IInv
<1>4. CASE PollRxFrame
  <2>1. TypeOK'
    BY <1>4 DEF IInv, TypeOK, RingTypeOK, PollRxFrame
  <2>2. BuildingInv' /\ ListInv'
    BY <1>4, ListStutter DEF IInv, BuildingInv, PollRxFrame
  <2> QED
    BY <2>1, <2>2 DEF IInv
<1>5. CASE PollRxInputDone \/ PollRxEnd \/ PollNoRx \/ PollNoTx \/ DrainEnd
  <2>1. TypeOK'
    BY <1>5, QueueAfterRead DEF IInv, TypeOK, RingTypeOK, PollRxInputDone, PollRxEnd, PollNoRx,
                PollNoTx, DrainEnd
  <2>2. BuildingInv' /\ ListInv'
    BY <1>5, ListStutter DEF IInv, BuildingInv, PollRxInputDone, PollRxEnd,
                             PollNoRx, PollNoTx, DrainEnd
  <2> QED
    BY <2>1, <2>2 DEF IInv
<1>6. CASE DrainReport
  BY <1>6, ReportHeadStep DEF DrainReport, HeadAcked
<1>7. CASE DrainFail
  BY <1>7, FailStep DEF DrainFail, Faults
<1> QED
  BY <1>1, <1>2, <1>3, <1>4, <1>5, <1>6, <1>7 DEF PollHandler

(* The handler acknowledges the first element that is not acknowledged.    *)
LEMMA AckStep ==
  ASSUME IInv, IsrAck
  PROVE  IInv'
<1> USE DEF hwVars, threadVars, rxVars
<1> PICK i \in Unacked :
      /\ \A j \in Unacked : i <= j
      /\ pending' = [pending EXCEPT ![i] = [@ EXCEPT !.acked = TRUE, !.flag = txFlag]]
  BY DEF IsrAck, Ack
<1> DEFINE e == [pending[i] EXCEPT !.acked = TRUE, !.flag = txFlag]
           n == Len(pending)
<1>1. n \in Nat /\ DOMAIN pending = 1 .. n /\ i \in 1 .. n
  BY LenProperties DEF IInv, TypeOK, Unacked
<1>2. pending[i] \in Element
  BY <1>1, OnListType DEF IInv, TypeOK
<1>3. e \in Element /\ e.frame = pending[i].frame /\ e.acked
  BY <1>2 DEF IInv, TypeOK, Element
<1>4. /\ pending' \in Seq(Element) /\ Len(pending') = n
      /\ \A j \in 1 .. n : pending'[j] = IF j = i THEN e ELSE pending[j]
  BY <1>1, <1>3, ExceptSeq DEF IInv, TypeOK
<1>5. DOMAIN pending' = 1 .. n
  BY <1>4, LenProperties
<1>6. \A j \in 1 .. n : pending'[j].frame = pending[j].frame
  BY <1>3, <1>4
<1>7. TypeOK'
  BY <1>4, CircIncType
     DEF IInv, TypeOK, RingTypeOK, IsrAck, AdvanceTail, StateBits
<1>8. BuildingInv'
  BY DEF IInv, BuildingInv, IsrAck
<1>9. AckedPrefix'
  <2>1. ASSUME NEW j \in 1 .. n, NEW k \in 1 .. n, j < k, pending'[k].acked
        PROVE  pending'[j].acked
    <3>1. CASE k = i
      <4>1. j \notin Unacked
        BY <1>1, <2>1, <3>1
      <4> QED
        BY <1>1, <1>4, <2>1, <3>1, <4>1 DEF Unacked
    <3>2. CASE k # i
      BY <1>1, <1>3, <1>4, <2>1, <3>2 DEF IInv, ListInv, AckedPrefix
    <3> QED
      BY <3>1, <3>2
  <2> QED
    BY <1>5, <2>1 DEF AckedPrefix
<1>10. PoolAccounting'
  BY <1>4 DEF IInv, ListInv, PoolAccounting, IsrAck
<1>11. OnList' = OnList /\ Building' = Building
  BY <1>1, <1>5, <1>6 DEF OnList, Building, IsrAck
<1>12. SubmissionOrder'
  BY <1>1, <1>5, <1>6, <1>11 DEF IInv, ListInv, SubmissionOrder, IsrAck
<1>13. Unsubmitted'
  BY DEF IInv, ListInv, Unsubmitted, IsrAck
<1> QED
  BY <1>7, <1>8, <1>9, <1>10, <1>12, <1>13 DEF IInv, ListInv

LEMMA HandlerStep ==
  ASSUME IInv, Handler
  PROVE  IInv'
<1> USE DEF threadVars, rxVars, isrVars
<1>1. CASE IsrRxFail
  BY <1>1, FailStep DEF IsrRxFail, Faults
<1>2. CASE IsrAckFail
  BY <1>2, FailStep DEF IsrAckFail, AckFault, Faults
<1>3. CASE IsrNoTx \/ IsrTx
  <2>1. TypeOK'
    BY <1>3 DEF IInv, TypeOK, RingTypeOK, IsrNoTx, IsrTx, IsrRx, ringVars,
                StateBits, TsrBits, listVars
  <2>2. BuildingInv' /\ ListInv'
    BY <1>3, ListStutter DEF IInv, BuildingInv, IsrNoTx, IsrTx, IsrRx
  <2> QED
    BY <2>1, <2>2 DEF IInv
<1>4. CASE IsrRetryLimit
  <2>1. TypeOK'
    BY <1>4 DEF IInv, TypeOK, RingTypeOK, IsrRetryLimit, IsrRx, ResetTxMem, Slots,
                StateBits, TsrBits, listVars
  <2>2. BuildingInv' /\ ListInv'
    BY <1>4, ListStutter DEF IInv, BuildingInv, IsrRetryLimit, IsrRx
  <2> QED
    BY <2>1, <2>2 DEF IInv
<1>5. CASE IsrNotSent
  <2>1. TypeOK'
    BY <1>5 DEF IInv, TypeOK, RingTypeOK, IsrNotSent, ringVars, hwVars, listVars,
                flagVars
  <2>2. BuildingInv' /\ ListInv'
    BY <1>5, ListStutter DEF IInv, BuildingInv, IsrNotSent
  <2> QED
    BY <2>1, <2>2 DEF IInv
<1>6. CASE IsrAck
  BY <1>6, AckStep
<1> QED
  BY <1>1, <1>2, <1>3, <1>4, <1>5, <1>6 DEF Handler

LEMMA HwDoneType ==
  ASSUME RingTypeOK, NEW fate \in Fates, NEW bits \in SUBSET TsrBits,
         NEW irq \in SUBSET {"TCOMP", "RCOMP", "RLEX"},
         HwDone(fate, bits, irq)
  PROVE  RingTypeOK'
BY CircIncType DEF RingTypeOK, HwDone

LEMMA ControllerStep ==
  ASSUME IInv, Controller \/ Receive
  PROVE  IInv'
<1> USE DEF threadVars, rxVars, isrVars, flagVars
<1>1. CASE Controller
  <2>1. PICK fate \in Fates, bits \in SUBSET TsrBits,
             irq \in SUBSET {"TCOMP", "RCOMP", "RLEX"} : HwDone(fate, bits, irq)
    <3>1. CASE HwSend
      BY <3>1 DEF HwSend, Fates, TsrBits
    <3>2. CASE HwError
      <4>1. PICK err \in {"COL", "UND"} : HwDone("damaged", {"TXCOMP", err}, {"TCOMP"})
        BY <3>2 DEF HwError
      <4> QED
        BY <4>1 DEF Fates, TsrBits
    <3>3. CASE HwAbandon
      BY <3>3 DEF HwAbandon, Fates, TsrBits
    <3> QED
      BY <1>1, <3>1, <3>2, <3>3 DEF Controller
  <2>2. RingTypeOK'
    BY <2>1, HwDoneType DEF IInv, TypeOK
  <2>3. TypeOK'
    BY <1>1, <2>2 DEF IInv, TypeOK, Controller, listVars
  <2>4. BuildingInv' /\ ListInv'
    BY <1>1, ListStutter DEF IInv, BuildingInv, Controller
  <2> QED
    BY <2>3, <2>4 DEF IInv
<1>2. CASE Receive
  <2>1. TypeOK'
    BY <1>2 DEF IInv, TypeOK, RingTypeOK, Receive, ringVars, listVars
  <2>2. BuildingInv' /\ ListInv'
    BY <1>2, ListStutter DEF IInv, BuildingInv, Receive
  <2> QED
    BY <2>1, <2>2 DEF IInv
<1> QED
  BY <1>1, <1>2

LEMMA StutterStep ==
  ASSUME IInv, UNCHANGED vars
  PROVE  IInv'
<1> USE DEF vars, ringVars, hwVars, threadVars, listVars, flagVars, isrVars, rxVars
<1>1. TypeOK'
  BY DEF IInv, TypeOK, RingTypeOK
<1>2. BuildingInv' /\ ListInv'
  BY ListStutter DEF IInv, BuildingInv
<1> QED
  BY <1>1, <1>2 DEF IInv

LEMMA IInvHolds == Spec => []IInv
<1>1. Init => IInv
  BY InitIInv
<1>2. IInv /\ [Next]_vars => IInv'
  BY LifeCycleStep, TransmitStep, TransmitRestStep, PollHandlerStep, HandlerStep,
     ControllerStep, StutterStep DEF Next
<1> QED
  BY <1>1, <1>2, PTL DEF Spec

-----------------------------------------------------------------------------
(* What becomes of a frame.  No frame is written to the ring or carried
   before it is submitted, nor if gmac_driver_tx turned it away; and every
   acknowledgement carries TXCOMP, because with RLE the handler has emptied
   the ring before its loop.                                               *)
Unwritten(f) == wire[f] = "never" /\ \A s \in Slots : txFrame[s] # f
Failures == {"MAC_TX_ERR", "MAC_TX_ERR_FATAL"}
FateInv ==
  /\ isrPc = "loop" => "TXCOMP" \in txFlag
  /\ \A i \in DOMAIN pending : pending[i].acked => "TXCOMP" \in pending[i].flag
  /\ \A f \in Frames : reported[f] \in Failures \/ f >= nextFrame => Unwritten(f)

(* Every submitted frame is somewhere; the list starts afresh only before
   the first frame, as long as the driver is not told to exit.             *)
Kept ==
  \A f \in Frames :
    f < nextFrame => reported[f] # "none" \/ f \in OnList \cup Building
KeptInv == Kept /\ (pc \in BootPcs \cup {"off"} => nextFrame = 1)

LEMMA FateStutter ==
  ASSUME FateInv, UNCHANGED <<pending, reported, nextFrame, wire, txFrame>>,
         isrPc' = "loop" => "TXCOMP" \in txFlag'
  PROVE  FateInv'
BY DEF FateInv, Unwritten

LEMMA KeptStutter ==
  ASSUME KeptInv, UNCHANGED listVars, UNCHANGED elem,
         pc' \in BootPcs \cup {"off"} => pc \in BootPcs \cup {"off"}
  PROVE  KeptInv'
BY DEF KeptInv, Kept, OnList, Building, listVars

LEMMA FateInit == Init => FateInv /\ KeptInv
<1> SUFFICES ASSUME Init PROVE FateInv /\ KeptInv
  OBVIOUS
<1>1. FateInv
  BY DEF Init, RingInit, FateInv, Unwritten, Failures, Slots, Frames, NoFrame
<1>2. KeptInv
  BY DEF Init, KeptInv, Kept, Frames
<1> QED
  BY <1>1, <1>2

(* The steps that neither submit nor report nor acknowledge nor carry a
   frame.                                                                  *)
QuietSteps ==
  \/ FlushFrame \/ FlushDone \/ SetRxCallback \/ GoIdle \/ TxAdvance
  \/ Poll \/ PollRxLoad \/ PollRxStore \/ PollRxMask \/ PollRxFrame
  \/ PollRxInputDone \/ PollRxEnd \/ PollNoRx \/ PollNoTx
  \/ PollTxLoad \/ PollTxStore \/ PollTxMask \/ DrainEnd \/ DrainFail
  \/ IsrRxFail \/ IsrNotSent \/ IsrAckFail \/ Receive

LEMMA QuietStep ==
  ASSUME QuietSteps
  PROVE  /\ UNCHANGED <<listVars, elem, wire, txFrame, txFlag>>
         /\ isrPc' \in {isrPc, "out"}
         /\ pc' \in BootPcs \cup {"off"} => pc \in BootPcs \cup {"off"}
<1> USE DEF ringVars, hwVars, flagVars, isrVars, rxVars, threadVars, listVars,
            At, Goto, BootPcs
<1>1. \A w : Fail(w) => /\ UNCHANGED <<listVars, elem, wire, txFrame, txFlag>>
                        /\ isrPc' = isrPc /\ pc' = pc
  BY DEF Fail
<1>2. CASE FlushFrame \/ FlushDone \/ SetRxCallback \/ GoIdle
  BY <1>2 DEF FlushFrame, FlushDone, SetRxCallback, GoIdle
<1>3. CASE TxAdvance
  BY <1>3 DEF TxAdvance, AdvanceHead
<1>4. CASE Poll
  <2>1. CASE state \cap PendingBits = {}
    BY <1>1, <1>4, <2>1 DEF Poll
  <2>2. CASE state \cap PendingBits # {}
    BY <1>4, <2>2 DEF Poll
  <2> QED
    BY <2>1, <2>2
<1>5. CASE PollRxLoad \/ PollRxStore \/ PollRxMask \/ PollTxLoad \/ PollTxStore
             \/ PollTxMask
  BY <1>5 DEF PollRxLoad, PollRxStore, PollRxMask, PollTxLoad, PollTxStore,
              PollTxMask, LoadState, StoreWithout, ForgetPoll
<1>6. CASE PollRxFrame \/ PollRxInputDone \/ PollRxEnd \/ PollNoRx \/ PollNoTx
             \/ DrainEnd
  BY <1>6 DEF PollRxFrame, PollRxInputDone, PollRxEnd, PollNoRx, PollNoTx, DrainEnd
<1>7. CASE DrainFail \/ IsrRxFail \/ IsrAckFail
  BY <1>1, <1>7 DEF DrainFail, IsrRxFail, IsrAckFail
<1>8. CASE IsrNotSent \/ Receive
  BY <1>8 DEF IsrNotSent, Receive
<1> QED
  BY <1>2, <1>3, <1>4, <1>5, <1>6, <1>7, <1>8 DEF QuietSteps

(* gmac_driver_init, and exit while it is not excluded.                    *)
LEMMA RestartFate ==
  ASSUME IInv, DriverInit \/ Exit
  PROVE  /\ FateInv => FateInv'
         /\ KeptInv /\ "exit" \notin Env => KeptInv'
<1> USE DEF ringVars, hwVars, flagVars, isrVars, rxVars, threadVars, listVars, At, Goto
<1>1. CASE DriverInit
  <2>1. FateInv => FateInv'
    BY <1>1 DEF DriverInit, ResetTxMem, FateInv, Unwritten
  <2>2. KeptInv => KeptInv'
    BY <1>1 DEF DriverInit, KeptInv, Kept, Frames
  <2> QED
    BY <2>1, <2>2
<1>2. CASE Exit
  BY <1>2, FateStutter DEF Exit, FateInv
<1> QED
  BY <1>1, <1>2

LEMMA SubmitFate ==
  ASSUME IInv, FateInv, Transmit
  PROVE  FateInv' /\ (KeptInv => KeptInv')
<1> USE DEF ringVars, hwVars, flagVars, isrVars, rxVars, threadVars
<1>1. nextFrame \in Frames /\ pc \in {"idle", "rxInput"} /\ nextFrame' = nextFrame + 1
  BY DEF Transmit, TxNoMemory, TxOversize, TxBusy, TxWrite, Reject, Caller, At,
         IInv, TypeOK, Frames
<1>2. Unwritten(nextFrame) /\ reported[nextFrame] = "none" /\ elem = NoFrame
  BY <1>1 DEF FateInv, IInv, BuildingInv, ListInv, Unsubmitted, Frames
<1>3. \A f \in Frames : f < nextFrame' => f < nextFrame \/ f = nextFrame
  BY <1>1 DEF Frames
<1>4. CASE TxNoMemory \/ TxOversize \/ TxBusy
  <2>1. PICK st \in Failures : Reject(st)
    BY <1>4 DEF TxNoMemory, TxOversize, TxBusy, Failures
  <2>2. \A f \in Frames : reported'[f] = IF f = nextFrame THEN st ELSE reported[f]
    BY <1>1, <2>1 DEF Reject, IInv, TypeOK
  <2>3. FateInv'
    BY <1>1, <1>2, <1>3, <2>1, <2>2 DEF Reject, FateInv, Unwritten, Frames
  <2>4. KeptInv => KeptInv'
    BY <1>1, <1>3, <2>1, <2>2
       DEF Reject, KeptInv, Kept, OnList, Building, Failures, BootPcs
  <2> QED
    BY <2>3, <2>4
<1>5. CASE TxWrite
  <2>1. \A s \in Slots : txFrame'[s] \in {txFrame[s], nextFrame}
    BY <1>5 DEF TxWrite, WriteSlot, IInv, TypeOK, RingTypeOK
  <2>2. FateInv'
    BY <1>1, <1>2, <1>5, <2>1
       DEF TxWrite, FateInv, Unwritten, Failures, Frames
  <2>3. KeptInv => KeptInv'
    BY <1>1, <1>2, <1>3, <1>5
       DEF TxWrite, KeptInv, Kept, OnList, Building, BootPcs, Frames, NoFrame
  <2> QED
    BY <2>2, <2>3
<1> QED
  BY <1>4, <1>5 DEF Transmit

LEMMA ListAddFate ==
  ASSUME IInv, FateInv, TxListAdd
  PROVE  FateInv' /\ (KeptInv => KeptInv')
<1> USE DEF ringVars, hwVars, flagVars, isrVars, rxVars, At
<1> DEFINE e == [frame |-> elem, acked |-> FALSE, flag |-> {}]
           n == Len(pending)
<1>1. e \in Element
  BY DEF Element, TxListAdd, IInv, TypeOK, BuildingInv
<1>2. /\ DOMAIN pending = 1 .. n /\ DOMAIN pending' = 1 .. n + 1 /\ n \in Nat
      /\ \A i \in 1 .. n : pending'[i] = pending[i]
      /\ pending'[n + 1] = e
  BY <1>1, AppendProperties, LenProperties DEF IInv, TypeOK, TxListAdd
<1>3. FateInv'
  BY <1>2 DEF FateInv, Unwritten, TxListAdd
<1>4. OnList' = OnList \cup {elem}
  BY <1>2 DEF OnList
<1>5. KeptInv => KeptInv'
  BY <1>4 DEF KeptInv, Kept, Building, TxListAdd, IInv, TypeOK, BootPcs
<1> QED
  BY <1>3, <1>5

(* An acknowledged head is reported, and with MAC_TX_OK or not at all.     *)
LEMMA ReportFate ==
  ASSUME IInv, FateInv, DrainReport
  PROVE  FateInv' /\ (KeptInv => KeptInv')
<1> USE DEF ringVars, hwVars, flagVars, isrVars, rxVars, At, Goto
<1> DEFINE e == Head(pending)
           n == Len(pending)
<1>1. /\ n \in Nat /\ n >= 1
      /\ DOMAIN pending = 1 .. n /\ DOMAIN pending' = 1 .. n - 1
      /\ \A i \in 1 .. n - 1 : pending'[i] = pending[i + 1]
      /\ e \in Element /\ e = pending[1] /\ e.acked
  BY HeadTailProperties, LenProperties, EmptySeq
     DEF IInv, TypeOK, DrainReport, HeadAcked, ReportHead
<1>2. e.frame \in Frames /\ "TXCOMP" \in e.flag
  BY <1>1 DEF Element, FateInv
<1>3. MacStatus(e.flag) = "MAC_TX_OK"
  <2>1. e.flag \notin {{"RLE"}, {"COL"}, {"UND"}}
    BY <1>2
  <2> QED
    BY <2>1 DEF MacStatus, DrainReport, ReportHead
<1>4. \A f \in Frames :
        reported'[f] = IF f = e.frame THEN "MAC_TX_OK" ELSE reported[f]
  BY <1>3 DEF DrainReport, ReportHead, IInv, TypeOK
<1>5. FateInv'
  BY <1>1, <1>4 DEF FateInv, Unwritten, Failures, DrainReport, ReportHead
<1>6. OnList \subseteq OnList' \cup {e.frame}
  <2>1. ASSUME NEW i \in 1 .. n PROVE pending[i].frame \in OnList' \cup {e.frame}
    <3>1. CASE i = 1
      BY <1>1, <3>1
    <3>2. CASE i # 1
      <4>1. i - 1 \in 1 .. n - 1 /\ pending'[i - 1] = pending[i]
        BY <1>1, <3>2
      <4> QED
        BY <1>1, <4>1 DEF OnList
    <3> QED
      BY <3>1, <3>2
  <2> QED
    BY <1>1, <2>1 DEF OnList
<1>7. KeptInv => KeptInv'
  BY <1>4, <1>6 DEF KeptInv, Kept, Building, DrainReport, ReportHead, BootPcs
<1> QED
  BY <1>5, <1>7

(* Every flag the handler passes to the callback contains TXCOMP.          *)
LEMMA HandlerFate ==
  ASSUME IInv, FateInv, IsrNoTx \/ IsrTx \/ IsrRetryLimit \/ IsrAck
  PROVE  FateInv' /\ (KeptInv => KeptInv')
<1> USE DEF hwVars, threadVars, rxVars, isrVars, listVars
<1>1. CASE IsrNoTx \/ IsrTx \/ IsrRetryLimit
  <2>1. UNCHANGED <<listVars, elem, pc, wire, txFrame>>
    BY <1>1 DEF IsrNoTx, IsrTx, IsrRetryLimit, IsrRx, ResetTxMem, ringVars
  <2>2. isrPc' = "loop" => "TXCOMP" \in txFlag'
    BY <1>1 DEF IsrNoTx, IsrTx, IsrRetryLimit, IsrRx, IsrStarts
  <2> QED
    BY <2>1, <2>2, FateStutter, KeptStutter
<1>2. CASE IsrAck
  <2>1. PICK i \in Unacked :
          pending' = [pending EXCEPT ![i] = [@ EXCEPT !.acked = TRUE, !.flag = txFlag]]
    BY <1>2 DEF IsrAck, Ack
  <2>2. i \in DOMAIN pending /\ pending[i] \in Element
    BY <2>1, OnListType DEF Unacked, IInv, TypeOK
  <2>3. /\ DOMAIN pending' = DOMAIN pending
        /\ \A j \in DOMAIN pending : j # i => pending'[j] = pending[j]
        /\ pending'[i].frame = pending[i].frame /\ pending'[i].flag = txFlag
    BY <2>1, <2>2 DEF Element
  <2>4. "TXCOMP" \in txFlag
    BY <1>2 DEF IsrAck, InLoop, FateInv
  <2>5. FateInv'
    BY <1>2, <2>3, <2>4 DEF FateInv, Unwritten, IsrAck, AdvanceTail
  <2>6. OnList' = OnList
    BY <2>2, <2>3 DEF OnList
  <2>7. KeptInv => KeptInv'
    BY <1>2, <2>6 DEF KeptInv, Kept, Building, IsrAck
  <2> QED
    BY <2>5, <2>7
<1> QED
  BY <1>1, <1>2

LEMMA ControllerFate ==
  ASSUME IInv, FateInv, Controller
  PROVE  FateInv' /\ (KeptInv => KeptInv')
<1> USE DEF threadVars, isrVars, listVars
<1>1. PICK fate, bits, irq : HwDone(fate, bits, irq)
  BY DEF Controller, HwSend, HwError, HwAbandon
<1>2. \A f \in Frames : wire'[f] = wire[f] \/ txFrame[hwIdx] = f
  BY <1>1 DEF HwDone, IInv, TypeOK, RingTypeOK
<1>3. hwIdx \in Slots /\ txFrame' = txFrame
  BY <1>1 DEF HwDone, IInv, TypeOK, RingTypeOK
<1>4. FateInv'
  BY <1>2, <1>3 DEF FateInv, Unwritten, Controller
<1>5. KeptInv => KeptInv'
  BY KeptStutter DEF Controller
<1> QED
  BY <1>4, <1>5

LEMMA FateStep ==
  ASSUME IInv, FateInv, [Next]_vars
  PROVE  /\ FateInv'
         /\ KeptInv /\ "exit" \notin Env => KeptInv'
<1>1. CASE QuietSteps
  BY <1>1, QuietStep, FateStutter, KeptStutter DEF FateInv, listVars
<1>2. CASE DriverInit \/ Exit
  BY <1>2, RestartFate
<1>3. CASE Transmit
  BY <1>3, SubmitFate
<1>4. CASE TxListAdd
  BY <1>4, ListAddFate
<1>5. CASE DrainReport
  BY <1>5, ReportFate
<1>6. CASE IsrNoTx \/ IsrTx \/ IsrRetryLimit \/ IsrAck
  BY <1>6, HandlerFate
<1>7. CASE Controller
  BY <1>7, ControllerFate
<1>8. CASE UNCHANGED vars
  BY <1>8, FateStutter, KeptStutter
     DEF FateInv, vars, ringVars, hwVars, isrVars, threadVars, listVars
<1> QED
  BY <1>1, <1>2, <1>3, <1>4, <1>5, <1>6, <1>7, <1>8
     DEF Next, QuietSteps, LifeCycle, TransmitRest, PollHandler, Handler

-----------------------------------------------------------------------------
(* The variables keep their types in every behaviour of the driver.        *)
THEOREM TypeCorrect == Spec => []TypeOK
<1>1. IInv => TypeOK
  BY DEF IInv
<1> QED
  BY <1>1, IInvHolds, PTL

(* The acknowledged frames of gmac_drv_tx_pending_list are always a prefix
   of it, so that the poll handler, which only looks at the head, can reach
   every completion the interrupt handler has recorded.                    *)
THEOREM AckedPrefixHolds == Spec => []AckedPrefix
<1>1. IInv => AckedPrefix
  BY DEF IInv, ListInv
<1> QED
  BY <1>1, IInvHolds, PTL

(* gmac_driver_tx and the poll handler never leak a block of the pool of
   pending elements and never return one twice.                            *)
THEOREM PoolAccountingHolds == Spec => []PoolAccounting
<1>1. IInv => PoolAccounting
  BY DEF IInv, ListInv
<1> QED
  BY <1>1, IInvHolds, PTL

(* Frames are reported in the order of submission and no frame is reported
   a second time.                                                          *)
THEOREM SubmissionOrderHolds == Spec => []SubmissionOrder
<1>1. IInv => SubmissionOrder
  BY DEF IInv, ListInv
<1> QED
  BY <1>1, IInvHolds, PTL
(* The sent callback never reports a frame as failed that the controller
   sent: a negative status goes only to frames gmac_driver_tx turned away,
   because the acknowledged ones all carry TXCOMP.                         *)
THEOREM SentIsNotReportedFailed == Spec => []SentNeverReportedFailed
<1>1. IInv /\ FateInv => SentNeverReportedFailed
  <2> SUFFICES ASSUME IInv, FateInv, NEW f \in Frames, wire[f] = "sent"
               PROVE  reported[f] \in {"none", "MAC_TX_OK"}
    BY DEF SentNeverReportedFailed
  <2>1. reported[f] \in Reports /\ reported[f] \notin Failures
    BY DEF IInv, TypeOK, FateInv, Unwritten
  <2> QED
    BY <2>1 DEF Reports, Failures
<1>2. Init => FateInv
  BY FateInit
<1>3. IInv /\ FateInv /\ [Next]_vars => FateInv'
  BY FateStep
<1> QED
  BY <1>1, <1>2, <1>3, IInvHolds, PTL DEF Spec

(* Unless the driver is told to exit, no frame the upper layers handed over
   is forgotten: it was reported, or it is on the list or about to be.     *)
THEOREM NoFrameForgotten ==
  ASSUME "exit" \notin Env
  PROVE  Spec => []FrameConservation
<1>1. IInv /\ KeptInv => FrameConservation
  <2> SUFFICES ASSUME IInv, KeptInv PROVE FrameConservation
    OBVIOUS
  <2>1. \A f \in OnList \cup Building : f \in Frames /\ f < nextFrame
    BY OnListType DEF IInv, TypeOK, ListInv, SubmissionOrder, Building
  <2>2. \A f \in Frames : reported[f] # "none" => f < nextFrame
    BY DEF IInv, TypeOK, ListInv, Unsubmitted, Frames
  <2>3. OnList \cap Building = {}
    BY <2>1 DEF IInv, ListInv, SubmissionOrder, Building, Frames
  <2> QED
    BY <2>1, <2>2, <2>3 DEF KeptInv, Kept, FrameConservation
<1>2. Init => FateInv /\ KeptInv
  BY FateInit
<1>3. IInv /\ FateInv /\ KeptInv /\ [Next]_vars => FateInv' /\ KeptInv'
  BY FateStep
<1> QED
  BY <1>1, <1>2, <1>3, IInvHolds, PTL DEF Spec

-----------------------------------------------------------------------------
(* The life cycle.  While the driver is down its callbacks have nothing to
   do: interrupts are off, or the ring and the list are empty; and only the
   boot sequence and exit change whether it is down.                       *)
Down == BootPcs \cup {"off"}
LifeInv ==
  /\ pc \in Down => state = {"NOT_INITIALIZED"}
  /\ pc \notin Down => "NOT_INITIALIZED" \notin state
  /\ "NOT_INITIALIZED" \notin reg
  /\ pc \in BootPcs => pending = <<>> /\ CircEmpty
  /\ pc = "off" => ~irqOn
  /\ isrPc = "loop" => pc \notin Down /\ ~CircEmpty

LEMMA LifeInit == Init => LifeInv
BY DEF Init, LifeInv, Down, BootPcs

LEMMA LifeFail ==
  ASSUME LifeInv, NEW w, Fail(w)
  PROVE  LifeInv'
BY DEF Fail, LifeInv, CircEmpty, ringVars, threadVars, listVars, flagVars, isrVars

LEMMA LifeThread ==
  ASSUME IInv, LifeInv, LifeCycle \/ Transmit \/ TransmitRest
  PROVE  LifeInv'
<1> USE DEF LifeInv, Down, BootPcs, At, Goto, CircEmpty, ringVars, hwVars, listVars,
            flagVars, isrVars, threadVars
<1>1. CASE DriverInit
  BY <1>1 DEF DriverInit, ResetTxMem
<1>2. CASE FlushFrame \/ FlushDone \/ SetRxCallback
  BY <1>2 DEF FlushFrame, FlushDone, SetRxCallback
<1>3. CASE GoIdle \/ Exit
  BY <1>3 DEF GoIdle, Exit
<1>4. CASE TxNoMemory \/ TxOversize \/ TxBusy
  BY <1>4 DEF TxNoMemory, TxOversize, TxBusy, Reject, Caller
<1>5. CASE TxWrite
  BY <1>5 DEF TxWrite, Caller, WriteSlot
<1>6. CASE TxAdvance \/ TxListAdd
  <2>1. CASE TxAdvance
    BY <1>6, <2>1 DEF TxAdvance
  <2>2. CASE TxListAdd
    BY <2>2 DEF TxListAdd, IInv, TypeOK
  <2> QED
    BY <1>6, <2>1, <2>2
<1> QED
  BY <1>1, <1>2, <1>3, <1>4, <1>5, <1>6 DEF LifeCycle, Transmit, TransmitRest

LEMMA LifePoll ==
  ASSUME LifeInv, PollHandler
  PROVE  LifeInv'
<1> USE DEF LifeInv, Down, BootPcs, At, Goto, CircEmpty, ringVars, hwVars, listVars,
            flagVars, isrVars
<1>1. CASE Poll
  <2>1. CASE state \cap PendingBits = {}
    BY <1>1, <2>1, LifeFail DEF Poll
  <2>2. CASE state \cap PendingBits # {}
    <3>1. pc = "idle"
      BY <1>1, <2>2 DEF Poll, PendingBits
    <3> QED
      BY <1>1, <2>2, <3>1 DEF Poll
  <2> QED
    BY <2>1, <2>2
<1>2. CASE PollRxLoad \/ PollTxLoad
  BY <1>2 DEF PollRxLoad, PollTxLoad, LoadState
<1>3. CASE PollRxStore \/ PollTxStore
  BY <1>3 DEF PollRxStore, PollTxStore, StoreWithout
<1>4. CASE PollRxMask \/ PollTxMask
  BY <1>4 DEF PollRxMask, PollTxMask, ForgetPoll
<1>5. CASE PollRxFrame \/ PollRxInputDone \/ PollRxEnd \/ PollNoRx \/ PollNoTx
  BY <1>5 DEF PollRxFrame, PollRxInputDone, PollRxEnd, PollNoRx, PollNoTx
<1>6. CASE DrainReport \/ DrainEnd
  BY <1>6 DEF DrainReport, ReportHead, DrainEnd
<1>7. CASE DrainFail
  BY <1>7, LifeFail DEF DrainFail
<1> QED
  BY <1>1, <1>2, <1>3, <1>4, <1>5, <1>6, <1>7 DEF PollHandler

LEMMA LifeHandler ==
  ASSUME IInv, LifeInv, Handler
  PROVE  LifeInv'
<1> USE DEF LifeInv, Down, CircEmpty, ringVars, hwVars, listVars, flagVars, isrVars,
            threadVars
<1>1. CASE IsrRxFail \/ IsrAckFail
  BY <1>1, LifeFail DEF IsrRxFail, IsrAckFail
<1>2. CASE IsrNoTx \/ IsrTx \/ IsrRetryLimit
  <2>1. /\ isrPc = "out" /\ pc # "off"
        /\ state' = state \/ ("NOT_INITIALIZED" \notin state
                              /\ state' = state \cup {"PENDING_RX"})
        /\ UNCHANGED <<pc, reg, pending, irqOn>>
    BY <1>2 DEF IsrNoTx, IsrTx, IsrRetryLimit, IsrRx, IsrStarts
  <2>2. CASE IsrNoTx
    BY <2>1, <2>2 DEF IsrNoTx
  <2>3. CASE IsrTx
    BY <2>1, <2>3 DEF IsrTx
  <2>4. CASE IsrRetryLimit
    BY <2>1, <2>4 DEF IsrRetryLimit, ResetTxMem
  <2> QED
    BY <1>2, <2>2, <2>3, <2>4
<1>3. CASE IsrNotSent
  BY <1>3 DEF IsrNotSent
<1>4. CASE IsrAck
  <2>1. txHead' = txHead /\ txTail' = CircInc(txTail)
    BY <1>4 DEF IsrAck, AdvanceTail
  <2>2. MoreSlots => txHead' # txTail'
    <3>1. CircInc(txTail) \in Slots
      BY CircIncType DEF IInv, TypeOK, RingTypeOK
    <3>2. 0 % TxSize = 0
      BY DEF RingAssumption
    <3> QED
      BY <2>1, <3>1, <3>2 DEF MoreSlots, Slots
  <2>3. pc \notin Down /\ pc' = pc /\ reg' = reg /\ irqOn' = irqOn
    BY <1>4 DEF IsrAck, InLoop
  <2> QED
    BY <1>4, <2>2, <2>3 DEF IsrAck
<1> QED
  BY <1>1, <1>2, <1>3, <1>4 DEF Handler

LEMMA LifeStep ==
  ASSUME IInv, LifeInv, [Next]_vars
  PROVE  LifeInv'
<1>1. CASE Controller \/ Receive
  BY <1>1 DEF Controller, HwSend, HwError, HwAbandon, HwDone, Receive, LifeInv,
              CircEmpty, ringVars, threadVars, listVars, flagVars, isrVars
<1>2. CASE UNCHANGED vars
  BY <1>2 DEF vars, LifeInv, CircEmpty, ringVars, threadVars, listVars, flagVars,
              isrVars
<1> QED
  BY <1>1, <1>2, LifeThread, LifePoll, LifeHandler DEF Next

(* The invariants of every environment.                                    *)
LEMMA LifeHolds == Spec => [](IInv /\ LifeInv)
<1>1. IInv /\ LifeInv /\ [Next]_vars => LifeInv'
  BY LifeStep
<1> QED
  BY <1>1, LifeInit, IInvHolds, PTL DEF Spec

-----------------------------------------------------------------------------
(* Why no completion is stranded when nothing is received.  Then the poll
   handler never enters its receive half, so state is only stored back by
   the transmit half, and the drain that follows it takes every frame the
   lost update could have announced.                                       *)
ReceiveHalf == {"rxLoaded", "rxMask", "rxRead", "rxInput"}
NothingReceived ==
  /\ rxq = 0 /\ "RCOMP" \notin isr
  /\ "PENDING_RX" \notin state /\ "PENDING_RX" \notin reg
  /\ ret = "idle" /\ pc \notin ReceiveHalf
Announced ==
  /\ pc \in {"idle", "txHead", "txAdd"} /\ HeadAcked =>
       needspoll /\ "PENDING_TX" \in state
  /\ pc \in {"poll", "txCheck"} /\ HeadAcked => "PENDING_TX" \in state
WakeInv == NothingReceived /\ Announced

LEMMA WakeInit == Init => WakeInv
BY DEF Init, RingInit, WakeInv, NothingReceived, Announced,
       ReceiveHalf, BootPcs

(* A step that changes nothing but the controller and the ring.            *)
LEMMA WakeStutter ==
  ASSUME WakeInv, UNCHANGED <<threadVars, flagVars, pending, rxq>>,
         isr' \subseteq isr \cup {"TCOMP", "RLEX"}
  PROVE  WakeInv'
BY DEF WakeInv, NothingReceived, Announced, HeadAcked, threadVars,
       flagVars

LEMMA WakeFail ==
  ASSUME WakeInv, NEW w, Fail(w)
  PROVE  WakeInv'
BY WakeStutter DEF Fail, ringVars, hwVars, threadVars, listVars, flagVars, rxVars

LEMMA WakeLifeCycle ==
  ASSUME IInv, LifeInv, WakeInv, LifeCycle
  PROVE  WakeInv'
<1> USE DEF WakeInv, NothingReceived, Announced, HeadAcked,
            ReceiveHalf, BootPcs, At, Goto, hwVars, listVars, flagVars, rxVars
<1>1. CASE DriverInit
  BY <1>1 DEF DriverInit
<1>2. CASE FlushFrame
  BY <1>2 DEF FlushFrame
<1>3. CASE FlushDone \/ SetRxCallback
  BY <1>3, QueueAfterRead DEF FlushDone, SetRxCallback
<1>4. CASE GoIdle
  BY <1>4 DEF GoIdle, LifeInv
<1>5. CASE Exit
  BY <1>5 DEF Exit
<1> QED
  BY <1>1, <1>2, <1>3, <1>4, <1>5 DEF LifeCycle

(* A new element is the head only of an empty list, and not acknowledged.  *)
LEMMA ListAddHead ==
  ASSUME IInv, TxListAdd
  PROVE  HeadAcked' => HeadAcked
<1> DEFINE e == [frame |-> elem, acked |-> FALSE, flag |-> {}]
<1>1. elem \in Frames
  BY DEF TxListAdd, At, IInv, BuildingInv, TypeOK
<1>2. e \in Element /\ ~e.acked
  BY <1>1 DEF Element
<1>3. pending' = Append(pending, e) /\ pending \in Seq(Element)
  BY DEF TxListAdd, IInv, TypeOK
<1>4. CASE pending = <<>>
  BY <1>2, <1>3, <1>4 DEF HeadAcked
<1>5. CASE pending # <<>>
  <2>1. Head(pending') = Head(pending)
    BY <1>2, <1>3, <1>5, AppendProperties, LenProperties, EmptySeq
  <2> QED
    BY <1>5, <2>1 DEF HeadAcked
<1> QED
  BY <1>4, <1>5

LEMMA WakeTransmit ==
  ASSUME IInv, LifeInv, WakeInv, Transmit \/ TransmitRest
  PROVE  WakeInv'
<1> USE DEF At, Goto, ringVars, hwVars, threadVars, listVars, flagVars, rxVars
<1>1. CASE TxNoMemory \/ TxOversize \/ TxBusy
  BY <1>1, WakeStutter DEF TxNoMemory, TxOversize, TxBusy, Reject
<1>2. CASE TxWrite
  BY <1>2 DEF TxWrite, Caller, WakeInv, NothingReceived, Announced,
              HeadAcked, ReceiveHalf, BootPcs
<1>3. CASE TxAdvance
  BY <1>3 DEF TxAdvance, WakeInv, NothingReceived, Announced,
              HeadAcked, ReceiveHalf, BootPcs
<1>4. CASE TxListAdd
  <2>1. HeadAcked' => HeadAcked
    BY <1>4, ListAddHead
  <2> QED
    BY <1>4, <2>1 DEF TxListAdd, WakeInv, NothingReceived, Announced,
                      ReceiveHalf, BootPcs
<1> QED
  BY <1>1, <1>2, <1>3, <1>4 DEF Transmit, TransmitRest

LEMMA WakePoll ==
  ASSUME IInv, LifeInv, WakeInv, PollHandler
  PROVE  WakeInv'
<1> USE DEF At, Goto, ringVars, hwVars, listVars, flagVars, rxVars
<1>1. CASE Poll
  <2>1. CASE state \cap PendingBits = {}
    BY <1>1, <2>1, WakeFail DEF Poll
  <2>2. CASE state \cap PendingBits # {}
    <3>1. pc # "boot"
      BY <2>2 DEF LifeInv, Down, BootPcs, PendingBits
    <3> QED
      BY <1>1, <2>2, <3>1
         DEF Poll, WakeInv, NothingReceived, Announced, HeadAcked,
             ReceiveHalf, BootPcs
  <2> QED
    BY <2>1, <2>2
<1>2. ~(\/ PollRxLoad \/ PollRxStore \/ PollRxMask \/ PollRxFrame
        \/ PollRxInputDone \/ PollRxEnd)
  BY DEF PollRxLoad, PollRxStore, PollRxMask, PollRxFrame, PollRxInputDone,
         PollRxEnd, LoadState, WakeInv, NothingReceived, ReceiveHalf
<1>3. CASE PollNoRx \/ PollNoTx
  BY <1>3 DEF PollNoRx, PollNoTx, WakeInv, NothingReceived, Announced,
              HeadAcked, ReceiveHalf, BootPcs
<1>4. CASE PollTxLoad \/ PollTxStore \/ PollTxMask
  BY <1>4 DEF PollTxLoad, PollTxStore, PollTxMask, LoadState, StoreWithout,
              ForgetPoll, WakeInv, NothingReceived, Announced,
              HeadAcked, ReceiveHalf, BootPcs
<1>5. CASE DrainReport
  BY <1>5 DEF DrainReport, ReportHead, WakeInv, NothingReceived,
              Announced, ReceiveHalf, BootPcs
<1>6. CASE DrainEnd
  BY <1>6 DEF DrainEnd, WakeInv, NothingReceived, Announced,
              HeadAcked, ReceiveHalf, BootPcs
<1>7. CASE DrainFail
  BY <1>7, WakeFail DEF DrainFail
<1> QED
  BY <1>1, <1>2, <1>3, <1>4, <1>5, <1>6, <1>7 DEF PollHandler

LEMMA WakeHandler ==
  ASSUME IInv, LifeInv, WakeInv, Handler
  PROVE  WakeInv'
<1> USE DEF ringVars, hwVars, threadVars, listVars, flagVars, rxVars
<1>1. CASE IsrRxFail \/ IsrAckFail
  BY <1>1, WakeFail DEF IsrRxFail, IsrAckFail
<1>2. CASE IsrNoTx \/ IsrTx \/ IsrRetryLimit
  <2>1. IsrRx /\ ~RxCalled
    BY <1>2 DEF IsrNoTx, IsrTx, IsrRetryLimit, RxCalled, WakeInv, NothingReceived
  <2>2. isr' = {} /\ UNCHANGED <<threadVars, flagVars, pending, rxq>>
    BY <2>1 DEF IsrRx, IInv, TypeOK
  <2> QED
    BY <2>2, WakeStutter
<1>3. CASE IsrNotSent
  BY <1>3, WakeStutter DEF IsrNotSent
<1>4. CASE IsrAck
  <2>1. /\ state' = state \cup {"PENDING_TX"} /\ needspoll'
        /\ UNCHANGED <<isr, rxq, reg, ret, pc>>
    BY <1>4 DEF IsrAck
  <2> QED
    BY <2>1 DEF WakeInv, NothingReceived, Announced
<1> QED
  BY <1>1, <1>2, <1>3, <1>4 DEF Handler

LEMMA WakeStep ==
  ASSUME "rx" \notin Env, IInv, LifeInv, WakeInv, [Next]_vars
  PROVE  WakeInv'
<1>1. CASE Controller
  BY <1>1, WakeStutter
     DEF Controller, HwSend, HwError, HwAbandon, HwDone, threadVars, listVars,
         flagVars, rxVars
<1>2. ~Receive
  BY DEF Receive
<1>3. CASE UNCHANGED vars
  BY <1>3, WakeStutter DEF vars, hwVars, listVars, rxVars
<1> QED
  BY <1>1, <1>2, <1>3, WakeLifeCycle, WakeTransmit, WakePoll, WakeHandler DEF Next

(* Without reception an acknowledged frame never waits in the pending list
   of an idle driver that nobody is going to poll.  (With reception it can:
   the poll handler overwrites the interrupt's PENDING_TX.)                *)
THEOREM NoWakeupLostWithoutReception ==
  ASSUME "rx" \notin Env
  PROVE  Spec => []NoLostWakeup
<1>1. WakeInv => NoLostWakeup
  BY DEF WakeInv, Announced, NoLostWakeup, At
<1>2. Init => WakeInv
  BY WakeInit
<1>3. IInv /\ LifeInv /\ WakeInv /\ [Next]_vars => WakeInv'
  BY WakeStep
<1> QED
  BY <1>1, <1>2, <1>3, LifeHolds, PTL DEF Spec

-----------------------------------------------------------------------------
(* Positions in the ring, counted from a slot a.                           *)
Dist(a, b) == (b - a) % TxSize

LEMMA DistIs ==
  \A a, b \in Slots :
    Dist(a, b) = IF b >= a THEN b - a ELSE b - a + TxSize
<1> SUFFICES ASSUME NEW a \in Slots, NEW b \in Slots
             PROVE  Dist(a, b) = IF b >= a THEN b - a ELSE b - a + TxSize
  OBVIOUS
<1>1. a \in Int /\ b \in Int /\ 0 <= a /\ a < TxSize /\ 0 <= b /\ b < TxSize
  BY DEF Slots, RingAssumption
<1>2. CASE b >= a
  <2>1. b - a \in 0 .. TxSize - 1
    BY <1>1, <1>2 DEF RingAssumption
  <2> QED
    BY <1>2, <2>1 DEF Dist, RingAssumption
<1>3. CASE b < a
  <2>1. b - a \in Int /\ -TxSize <= b - a /\ b - a < 0
    BY <1>1, <1>3 DEF RingAssumption
  <2> QED
    BY <1>1, <1>3, <2>1 DEF Dist, RingAssumption
<1> QED
  BY <1>1, <1>2, <1>3

LEMMA DistType ==
  \A a, b \in Slots :
    /\ Dist(a, b) \in Slots /\ Dist(a, b) \in Nat /\ Dist(a, b) < TxSize
    /\ Dist(a, b) = 0 <=> a = b
BY DistIs DEF Slots, RingAssumption

LEMMA DistApart ==
  \A a, b, c \in Slots : Dist(a, b) = Dist(a, c) => b = c
BY DistIs DEF Slots, RingAssumption

LEMMA DistNext ==
  \A a, b \in Slots :
    Dist(a, CircInc(b)) = IF Dist(a, b) = TxSize - 1 THEN 0 ELSE Dist(a, b) + 1
<1> SUFFICES ASSUME NEW a \in Slots, NEW b \in Slots
             PROVE  Dist(a, CircInc(b)) = IF Dist(a, b) = TxSize - 1 THEN 0
                                          ELSE Dist(a, b) + 1
  OBVIOUS
<1>1. CircInc(b) \in Slots
  BY CircIncType
<1>2. Dist(a, b) = IF b >= a THEN b - a ELSE b - a + TxSize
  BY DistIs
<1>3. Dist(a, CircInc(b)) = IF CircInc(b) >= a THEN CircInc(b) - a
                            ELSE CircInc(b) - a + TxSize
  BY <1>1, DistIs
<1> QED
  BY <1>1, <1>2, <1>3 DEF Slots, CircInc, RingAssumption

LEMMA DistFromNext ==
  \A a, b \in Slots :
    Dist(CircInc(a), b) = IF a = b THEN TxSize - 1 ELSE Dist(a, b) - 1
<1> SUFFICES ASSUME NEW a \in Slots, NEW b \in Slots
             PROVE  Dist(CircInc(a), b) = IF a = b THEN TxSize - 1
                                          ELSE Dist(a, b) - 1
  OBVIOUS
<1>1. CircInc(a) \in Slots
  BY CircIncType
<1>2. Dist(a, b) = IF b >= a THEN b - a ELSE b - a + TxSize
  BY DistIs
<1>3. Dist(CircInc(a), b) = IF b >= CircInc(a) THEN b - CircInc(a)
                            ELSE b - CircInc(a) + TxSize
  BY <1>1, DistIs
<1> QED
  BY <1>1, <1>2, <1>3 DEF Slots, CircInc, RingAssumption

LEMMA ModWraps ==
  ASSUME NEW x \in Nat, x < TxSize + TxSize
  PROVE  x % TxSize = IF x < TxSize THEN x ELSE x - TxSize
<1>1. CASE x < TxSize
  BY <1>1 DEF RingAssumption
<1>2. CASE x >= TxSize
  BY <1>2 DEF RingAssumption
<1> QED
  BY <1>1, <1>2 DEF RingAssumption

LEMMA AtDist ==
  ASSUME NEW a \in Slots, NEW d \in Slots, NEW x, x = a + d
  PROVE  x % TxSize \in Slots /\ Dist(a, x % TxSize) = d
<1>1. x \in Nat /\ x < TxSize + TxSize
  BY DEF Slots, RingAssumption
<1>2. x % TxSize = IF x < TxSize THEN x ELSE x - TxSize
  BY <1>1, ModWraps
<1>3. x % TxSize \in Slots
  BY <1>1, <1>2 DEF Slots, RingAssumption
<1> QED
  BY <1>2, <1>3, DistIs DEF Slots, RingAssumption

-----------------------------------------------------------------------------
(* Ring and list.  The first k elements are acknowledged; the slots from
   the tail on hold the frames of the others, in the order of the list, then
   the frame gmac_driver_tx is adding.                                     *)
AckedUpTo(k) ==
  k <= Len(pending) /\ \A i \in DOMAIN pending : pending[i].acked <=> i <= k
Left(k) == Len(pending) - k
LengthMatches(k) ==
  Dist(txTail, txHead) = Left(k) + (IF pc = "txAdd" THEN 1 ELSE 0)
SlotsMatch(k) ==
  \A s \in Slots : Dist(txTail, s) < Left(k) =>
    txFrame[s] = pending[k + 1 + Dist(txTail, s)].frame
ElementWritten(k) ==
  elem # NoFrame => \A s \in Slots : Dist(txTail, s) = Left(k) => txFrame[s] = elem
Match(k) ==
  AckedUpTo(k) /\ LengthMatches(k) /\ SlotsMatch(k) /\ ElementWritten(k)
RoomInv ==
  /\ Len(pending) <= MaxOutstanding
  /\ pc \in {"txHead", "txAdd"} => Len(pending) < MaxOutstanding
  /\ "RLE" \notin tsr
MatchInv == RoomInv /\ \E k \in Nat : Match(k)

NoOverflow == MaxOutstanding < TxSize /\ "RLE" \notin Env

LEMMA MatchInit == Init => MatchInv
<1> SUFFICES ASSUME Init PROVE MatchInv
  OBVIOUS
<1>1. Dist(0, 0) = 0
  BY DistType DEF Slots, RingAssumption
<1>2. \A s \in Slots : ~(Dist(txTail, s) < 0)
  BY DistType DEF Init, RingInit, Slots, RingAssumption
<1>3. Match(0)
  BY <1>1, <1>2 DEF Init, RingInit, Match, AckedUpTo, Left, LengthMatches,
                    SlotsMatch, ElementWritten
<1> QED
  BY <1>3 DEF MatchInv, RoomInv, Init, RingInit, DriverAssumption

(* What a step may do that touches neither the ring nor the list.          *)
LEMMA MatchStutter ==
  ASSUME MatchInv, UNCHANGED <<txHead, txTail, txFrame, pending, elem>>,
         "RLE" \in tsr' => "RLE" \in tsr,
         pc' \in {"txHead", "txAdd"} \/ pc \in {"txHead", "txAdd"} => pc' = pc
  PROVE  MatchInv'
<1>1. PICK k \in Nat : Match(k)
  BY DEF MatchInv
<1>2. Match(k)'
  BY <1>1 DEF Match, AckedUpTo, Left, LengthMatches, SlotsMatch, ElementWritten
<1> QED
  BY <1>2 DEF MatchInv, RoomInv

LEMMA MatchRestart ==
  ASSUME IInv, MatchInv, DriverInit
  PROVE  MatchInv'
<1>1. txHead' = 0 /\ txTail' = 0 /\ pending' = <<>> /\ pc' = "boot" /\ elem' = elem
  BY DEF DriverInit, ResetTxMem, Goto
<1>2. elem = NoFrame
  BY DEF DriverInit, At, IInv, BuildingInv
<1>3. /\ Dist(0, 0) = 0 /\ Left(0)' = 0
      /\ \A s \in Slots : ~(Dist(0, s) < 0)
  BY <1>1, DistType DEF Slots, RingAssumption, Left
<1>4. Match(0)'
  BY <1>1, <1>2, <1>3
     DEF Match, AckedUpTo, LengthMatches, SlotsMatch, ElementWritten
<1> QED
  BY <1>1, <1>4 DEF MatchInv, RoomInv, DriverInit, DriverAssumption

(* The types the following proofs need.                                    *)
LEMMA MatchTypes ==
  ASSUME IInv
  PROVE  /\ pending \in Seq(Element) /\ Len(pending) \in Nat
         /\ DOMAIN pending = 1 .. Len(pending)
         /\ \A i \in 1 .. Len(pending) : pending[i] \in Element
         /\ txHead \in Slots /\ txTail \in Slots /\ DOMAIN txFrame = Slots
         /\ \A k \in Nat : Left(k) \in Int
         /\ TxSize \in Nat /\ TxSize > 1 /\ MaxOutstanding \in Nat
<1>1. pending \in Seq(Element)
  BY DEF IInv, TypeOK
<1>2. Len(pending) \in Nat /\ DOMAIN pending = 1 .. Len(pending)
  BY <1>1, LenProperties
<1>3. \A i \in 1 .. Len(pending) : pending[i] \in Element
  BY <1>1, OnListType, <1>2
<1> QED
  BY <1>1, <1>2, <1>3
     DEF IInv, TypeOK, RingTypeOK, Left, RingAssumption, DriverAssumption

LEMMA MatchWrite ==
  ASSUME IInv, MatchInv, NoOverflow, TxWrite
  PROVE  MatchInv'
<1>1. PICK k \in Nat : Match(k)
  BY DEF MatchInv
<1>2. /\ pc \in {"idle", "rxInput"} /\ pc' = "txHead" /\ elem' = nextFrame
      /\ UNCHANGED <<pending, txHead, txTail, tsr>>
      /\ txFrame' = [txFrame EXCEPT ![txHead] = nextFrame]
      /\ Len(pending) < MaxOutstanding
  BY DEF TxWrite, Caller, At, WriteSlot, hwVars
<1>3. Dist(txTail, txHead) = Left(k)
  BY <1>1, <1>2, MatchTypes DEF Match, LengthMatches
<1>4. \A s \in Slots : txFrame'[s] = IF Dist(txTail, s) = Left(k) THEN nextFrame
                                     ELSE txFrame[s]
  <2>1. \A s \in Slots : Dist(txTail, s) = Left(k) <=> s = txHead
    BY <1>3, MatchTypes, DistApart
  <2> QED
    BY <1>2, <2>1, MatchTypes
<1>5. Left(k)' = Left(k)
  BY <1>2 DEF Left
<1>6. AckedUpTo(k)'
  BY <1>1, <1>2 DEF Match, AckedUpTo
<1>7. LengthMatches(k)'
  BY <1>2, <1>3, <1>5, MatchTypes DEF LengthMatches
<1>8. SlotsMatch(k)'
  <2>1. \A s \in Slots : Dist(txTail, s) < Left(k) => Dist(txTail, s) # Left(k)
    BY MatchTypes, DistType
  <2> QED
    BY <1>1, <1>2, <1>4, <1>5, <2>1 DEF Match, SlotsMatch
<1>9. ElementWritten(k)'
  BY <1>2, <1>4, <1>5 DEF ElementWritten
<1> QED
  BY <1>2, <1>6, <1>7, <1>8, <1>9, MatchTypes DEF Match, MatchInv, RoomInv

LEMMA MatchAdvance ==
  ASSUME IInv, MatchInv, NoOverflow, TxAdvance
  PROVE  MatchInv'
<1>1. PICK k \in Nat : Match(k)
  BY DEF MatchInv
<1>2. /\ pc = "txHead" /\ pc' = "txAdd" /\ txHead' = CircInc(txHead)
      /\ UNCHANGED <<pending, elem, txTail, txFrame, tsr>>
  BY DEF TxAdvance, At, Goto, AdvanceHead, hwVars, listVars
<1>3. Dist(txTail, txHead) = Left(k) /\ Len(pending) < MaxOutstanding
  BY <1>1, <1>2, MatchTypes DEF Match, LengthMatches, MatchInv, RoomInv
<1>4. Left(k) # TxSize - 1
  BY <1>3, MatchTypes DEF Left, NoOverflow
<1>5. Dist(txTail, txHead') = Left(k) + 1 /\ Left(k)' = Left(k)
  BY <1>2, <1>3, <1>4, MatchTypes, DistNext DEF Left
<1>6. Match(k)'
  BY <1>1, <1>2, <1>5
     DEF Match, AckedUpTo, LengthMatches, SlotsMatch, ElementWritten
<1> QED
  BY <1>2, <1>3, <1>6 DEF MatchInv, RoomInv

LEMMA MatchListAdd ==
  ASSUME IInv, MatchInv, TxListAdd
  PROVE  MatchInv'
<1>1. PICK k \in Nat : Match(k)
  BY DEF MatchInv
<1> DEFINE e == [frame |-> elem, acked |-> FALSE, flag |-> {}]
           n == Len(pending)
<1>2. /\ pc = "txAdd" /\ pc' \in {"idle", "rxInput"} /\ elem' = NoFrame
      /\ pending' = Append(pending, e)
      /\ UNCHANGED <<txHead, txTail, txFrame, tsr>>
  BY DEF TxListAdd, At, ringVars, hwVars, IInv, TypeOK
<1>3. elem \in Frames /\ elem # NoFrame
  BY <1>2 DEF IInv, BuildingInv, TypeOK
<1>4. e \in Element /\ ~e.acked /\ e.frame = elem
  BY <1>3 DEF Element
<1> HIDE DEF e
<1>5. /\ Len(pending') = n + 1 /\ DOMAIN pending' = 1 .. n + 1
      /\ pending'[n + 1] = e /\ \A i \in 1 .. n : pending'[i] = pending[i]
  BY <1>2, <1>4, MatchTypes, AppendProperties, LenProperties
<1>6. Left(k)' = Left(k) + 1
  BY <1>5, MatchTypes DEF Left
<1>7. k <= n
  BY <1>1 DEF Match, AckedUpTo
<1>8. AckedUpTo(k)'
  <2>1. \A i \in 1 .. n : pending'[i].acked <=> i <= k
    BY <1>1, <1>5, MatchTypes DEF Match, AckedUpTo
  <2>2. pending'[n + 1].acked <=> n + 1 <= k
    BY <1>4, <1>5, <1>7, MatchTypes
  <2> QED
    BY <1>5, <1>7, <2>1, <2>2, MatchTypes DEF AckedUpTo
<1>9. LengthMatches(k)'
  BY <1>1, <1>2, <1>6, MatchTypes DEF Match, LengthMatches
<1>10. SlotsMatch(k)'
  <2>1. ASSUME NEW s \in Slots, Dist(txTail, s) < Left(k) + 1
        PROVE  txFrame[s] = pending'[k + 1 + Dist(txTail, s)].frame
    <3>1. Dist(txTail, s) \in Nat
      BY MatchTypes, DistType
    <3>2. CASE Dist(txTail, s) < Left(k)
      <4>1. k + 1 + Dist(txTail, s) \in 1 .. n
        <5>1. Left(k) = n - k /\ n \in Nat
          BY MatchTypes DEF Left
        <5> QED
          BY <3>1, <3>2, <5>1
      <4> QED
        BY <1>1, <1>5, <3>2, <4>1 DEF Match, SlotsMatch
    <3>3. CASE Dist(txTail, s) = Left(k)
      <4>1. k + 1 + Dist(txTail, s) = n + 1
        BY <3>3, MatchTypes DEF Left
      <4> QED
        BY <1>1, <1>3, <1>4, <1>5, <3>3, <4>1 DEF Match, ElementWritten
    <3> QED
      BY <2>1, <3>1, <3>2, <3>3, MatchTypes
  <2> QED
    BY <1>2, <1>6, <2>1 DEF SlotsMatch
<1>11. ElementWritten(k)'
  BY <1>2 DEF ElementWritten
<1>12. n < MaxOutstanding
  BY <1>2 DEF MatchInv, RoomInv
<1> QED
  BY <1>2, <1>5, <1>8, <1>9, <1>10, <1>11, <1>12, MatchTypes
     DEF Match, MatchInv, RoomInv

LEMMA MatchReport ==
  ASSUME IInv, MatchInv, DrainReport
  PROVE  MatchInv'
<1>1. PICK k \in Nat : Match(k)
  BY DEF MatchInv
<1> DEFINE n == Len(pending)
<1>2. /\ pending' = Tail(pending) /\ HeadAcked
      /\ pc \in {"drainFirst", "drain"} /\ pc' = "drain"
      /\ UNCHANGED <<txHead, txTail, txFrame, tsr, elem>>
  BY DEF DrainReport, ReportHead, Goto, At, ringVars, hwVars
<1>3. n >= 1 /\ k >= 1 /\ k <= n
  <2>1. n >= 1 /\ Head(pending) = pending[1]
    BY <1>2, MatchTypes, EmptySeq DEF HeadAcked
  <2> QED
    BY <1>1, <1>2, <2>1, MatchTypes DEF Match, AckedUpTo, HeadAcked
<1>4. /\ Len(pending') = n - 1 /\ DOMAIN pending' = 1 .. n - 1
      /\ \A i \in 1 .. n - 1 : pending'[i] = pending[i + 1]
  BY <1>2, <1>3, MatchTypes, HeadTailProperties, LenProperties
<1>5. elem = NoFrame
  BY <1>2 DEF IInv, BuildingInv
<1>6. k - 1 \in Nat /\ Left(k - 1)' = Left(k)
  BY <1>3, <1>4, MatchTypes DEF Left
<1>7. AckedUpTo(k - 1)'
  <2>1. ASSUME NEW i \in 1 .. n - 1 PROVE pending'[i].acked <=> i <= k - 1
    <3>1. i + 1 \in 1 .. n /\ (i + 1 <= k <=> i <= k - 1)
      BY MatchTypes
    <3>2. pending[i + 1].acked <=> i + 1 <= k
      BY <1>1, <3>1, MatchTypes DEF Match, AckedUpTo
    <3> QED
      BY <1>4, <3>1, <3>2
  <2> QED
    BY <1>3, <1>4, <2>1, MatchTypes DEF AckedUpTo
<1>8. LengthMatches(k - 1)'
  BY <1>1, <1>2, <1>6 DEF Match, LengthMatches
<1>9. SlotsMatch(k - 1)'
  <2>1. ASSUME NEW s \in Slots, Dist(txTail, s) < Left(k)
        PROVE  txFrame[s] = pending'[k - 1 + 1 + Dist(txTail, s)].frame
    <3>1. Dist(txTail, s) \in Nat
      BY MatchTypes, DistType
    <3>2. /\ k - 1 + 1 + Dist(txTail, s) \in 1 .. n - 1
          /\ k - 1 + 1 + Dist(txTail, s) + 1 = k + 1 + Dist(txTail, s)
      BY <1>3, <2>1, <3>1, MatchTypes DEF Left
    <3>3. txFrame[s] = pending[k + 1 + Dist(txTail, s)].frame
      BY <1>1, <2>1 DEF Match, SlotsMatch
    <3> QED
      BY <1>4, <3>2, <3>3
  <2> QED
    BY <1>2, <1>6, <2>1 DEF SlotsMatch
<1>10. ElementWritten(k - 1)'
  BY <1>2, <1>5 DEF ElementWritten
<1> QED
  BY <1>2, <1>3, <1>4, <1>6, <1>7, <1>8, <1>9, <1>10, MatchTypes
     DEF Match, MatchInv, RoomInv

(* The handler acknowledges the element of the slot at the tail.           *)
LEMMA AckedIsNext ==
  ASSUME IInv, NEW k \in Nat, Match(k), IsrAck
  PROVE  /\ k < Len(pending)
         /\ Dist(txTail, txTail) = 0 /\ txFrame[txTail] = pending[k + 1].frame
         /\ Len(pending') = Len(pending) /\ DOMAIN pending' = 1 .. Len(pending)
         /\ pending'[k + 1].acked /\ pending'[k + 1].flag = txFlag
         /\ \A i \in 1 .. Len(pending) :
              /\ i # k + 1 => pending'[i] = pending[i]
              /\ pending'[i].frame = pending[i].frame
<1> DEFINE n == Len(pending)
<1>1. PICK i \in Unacked :
      /\ \A j \in Unacked : i <= j
      /\ pending' = [pending EXCEPT ![i] = [@ EXCEPT !.acked = TRUE, !.flag = txFlag]]
  BY DEF IsrAck, Ack
<1>2. Unacked = {j \in 1 .. n : ~(j <= k)}
  BY MatchTypes DEF Unacked, Match, AckedUpTo
<1>3. i = k + 1 /\ k < n
  <2>1. i \in 1 .. n /\ i > k
    BY <1>2, MatchTypes
  <2>2. n \in Nat /\ k + 1 \in Unacked
    BY <1>2, <2>1, MatchTypes
  <2>3. i <= k + 1
    BY <1>1, <2>2
  <2> QED
    BY <2>1, <2>2, <2>3
<1>4. Dist(txTail, txTail) = 0 /\ txFrame[txTail] = pending[k + 1].frame
  <2>1. Dist(txTail, txTail) = 0
    BY MatchTypes, DistType
  <2>2. 0 < Left(k) /\ k + 1 + 0 = k + 1
    BY <1>3, MatchTypes DEF Left
  <2> QED
    BY <2>1, <2>2, MatchTypes DEF Match, SlotsMatch
<1> DEFINE e == [pending[k + 1] EXCEPT !.acked = TRUE, !.flag = txFlag]
<1>5. k + 1 \in 1 .. n
  BY <1>3, MatchTypes
<1>6. pending[k + 1] \in Element /\ txFlag \subseteq TsrBits
  BY <1>5, MatchTypes DEF IInv, TypeOK
<1>7. e \in Element /\ e.acked /\ e.flag = txFlag /\ e.frame = pending[k + 1].frame
  BY <1>6 DEF Element
<1>8. pending' = [pending EXCEPT ![k + 1] = e]
  BY <1>1, <1>3
<1> HIDE DEF e
<1>9. /\ pending' \in Seq(Element) /\ Len(pending') = n
      /\ \A j \in 1 .. n : pending'[j] = IF j = k + 1 THEN e ELSE pending[j]
  BY <1>5, <1>7, <1>8, MatchTypes, ExceptSeq
<1>10. DOMAIN pending' = 1 .. n
  BY <1>9, LenProperties
<1> QED
  BY <1>3, <1>4, <1>5, <1>7, <1>9, <1>10

LEMMA MatchAck ==
  ASSUME IInv, LifeInv, MatchInv, NoOverflow, IsrAck
  PROVE  MatchInv'
<1>1. PICK k \in Nat : Match(k)
  BY DEF MatchInv
<1> DEFINE n == Len(pending)
<1>2. /\ k < n /\ Dist(txTail, txTail) = 0
      /\ Len(pending') = n /\ DOMAIN pending' = 1 .. n
      /\ pending'[k + 1].acked
      /\ \A i \in 1 .. n : /\ i # k + 1 => pending'[i] = pending[i]
                           /\ pending'[i].frame = pending[i].frame
  BY <1>1, AckedIsNext
<1>3. /\ txTail' = CircInc(txTail) /\ txHead # txTail
      /\ UNCHANGED <<txHead, txFrame, tsr, pc, elem>>
  BY DEF IsrAck, InLoop, LifeInv, CircEmpty, AdvanceTail, hwVars, threadVars
<1>4. n <= MaxOutstanding
  BY DEF MatchInv, RoomInv
<1>5. \A s \in Slots : /\ Dist(txTail, s) \in Nat
                       /\ Dist(txTail, s) = 0 <=> s = txTail
                       /\ Dist(txTail', s) = IF s = txTail THEN TxSize - 1
                                             ELSE Dist(txTail, s) - 1
  BY <1>3, MatchTypes, DistType, DistFromNext
<1>6. /\ k + 1 \in Nat /\ Left(k + 1)' = Left(k) - 1
      /\ Left(k) - 1 < TxSize - 1 /\ Left(k) \in Int
  <2>1. n \in Nat /\ TxSize \in Nat /\ MaxOutstanding \in Nat /\ n < TxSize
    BY <1>4, MatchTypes DEF NoOverflow
  <2>2. Left(k) = n - k /\ Left(k + 1)' = n - (k + 1)
    BY <1>2 DEF Left
  <2> QED
    BY <2>1, <2>2
<1>7. AckedUpTo(k + 1)'
  <2>1. ASSUME NEW i \in 1 .. n PROVE pending'[i].acked <=> i <= k + 1
    <3>1. CASE i = k + 1
      BY <1>2, <3>1
    <3>2. CASE i # k + 1
      BY <1>1, <1>2, <3>2, MatchTypes DEF Match, AckedUpTo
    <3> QED
      BY <3>1, <3>2
  <2> QED
    BY <1>2, <2>1, MatchTypes DEF AckedUpTo
<1>8. LengthMatches(k + 1)'
  <2>1. Dist(txTail', txHead) = Dist(txTail, txHead) - 1
    BY <1>3, <1>5, MatchTypes
  <2>2. Dist(txTail, txHead) = Left(k) + (IF pc = "txAdd" THEN 1 ELSE 0)
    BY <1>1 DEF Match, LengthMatches
  <2>3. Dist(txTail', txHead) = Left(k) - 1 + (IF pc = "txAdd" THEN 1 ELSE 0)
    BY <1>6, <2>1, <2>2
  <2> QED
    BY <1>3, <1>6, <2>3 DEF LengthMatches
<1>9. ASSUME NEW s \in Slots,
             Dist(txTail', s) < Left(k) - 1 \/ Dist(txTail', s) = Left(k) - 1
      PROVE  s # txTail /\ Dist(txTail', s) = Dist(txTail, s) - 1
  <2>1. TxSize \in Nat
    BY MatchTypes
  <2>2. s # txTail
    <3>1. s = txTail => Dist(txTail', s) = TxSize - 1
      BY <1>5
    <3> QED
      BY <1>6, <1>9, <2>1, <3>1
  <2> QED
    BY <1>5, <2>2
<1>10. SlotsMatch(k + 1)'
  <2>1. ASSUME NEW s \in Slots, Dist(txTail', s) < Left(k) - 1
        PROVE  txFrame[s] = pending'[k + 1 + 1 + Dist(txTail', s)].frame
    <3>1. Dist(txTail, s) < Left(k) /\ Dist(txTail', s) = Dist(txTail, s) - 1
      BY <1>5, <1>6, <1>9, <2>1
    <3>2. k + 1 + Dist(txTail, s) \in 1 .. n
      <4>1. Left(k) = n - k /\ n \in Nat /\ Dist(txTail, s) \in Nat
        BY <1>5, MatchTypes DEF Left
      <4> QED
        BY <3>1, <4>1
    <3>3. k + 1 + 1 + Dist(txTail', s) = k + 1 + Dist(txTail, s)
      BY <1>5, <3>1
    <3> QED
      BY <1>1, <1>2, <3>1, <3>2, <3>3 DEF Match, SlotsMatch
  <2> QED
    BY <1>3, <1>6, <2>1 DEF SlotsMatch
<1>11. ElementWritten(k + 1)'
  <2>1. \A s \in Slots : Dist(txTail', s) = Left(k) - 1 => Dist(txTail, s) = Left(k)
    BY <1>5, <1>6, <1>9
  <2> QED
    BY <1>1, <1>3, <1>6, <2>1 DEF Match, ElementWritten
<1> QED
  BY <1>2, <1>3, <1>4, <1>6, <1>7, <1>8, <1>10, <1>11 DEF Match, MatchInv, RoomInv

(* The steps that touch neither the ring nor the list.                     *)
BesideRing ==
  \/ FlushFrame \/ FlushDone \/ SetRxCallback \/ GoIdle \/ Exit
  \/ TxNoMemory \/ TxOversize \/ TxBusy
  \/ Poll \/ PollRxLoad \/ PollRxStore \/ PollRxMask \/ PollRxFrame
  \/ PollRxInputDone \/ PollRxEnd \/ PollNoRx \/ PollNoTx
  \/ PollTxLoad \/ PollTxStore \/ PollTxMask \/ DrainEnd \/ DrainFail
  \/ IsrRxFail \/ IsrNoTx \/ IsrNotSent \/ IsrAckFail \/ Receive

LEMMA BesideRingStep ==
  ASSUME BesideRing
  PROVE  /\ UNCHANGED <<ringVars, hwIdx, tsr, wire, pending, elem, txFlag>>
         /\ isrPc' \in {isrPc, "out"}
         /\ pc' \in {"txHead", "txAdd"} \/ pc \in {"txHead", "txAdd"} => pc' = pc
<1> USE DEF hwVars, flagVars, isrVars, rxVars, threadVars, listVars, At, Goto
<1>1. \A w : Fail(w) =>
        /\ UNCHANGED <<ringVars, hwIdx, tsr, wire, pending, elem, txFlag>>
        /\ isrPc' = isrPc /\ pc' = pc
  BY DEF Fail
<1>2. CASE FlushFrame \/ FlushDone \/ SetRxCallback \/ GoIdle \/ Exit
  BY <1>2 DEF FlushFrame, FlushDone, SetRxCallback, GoIdle, Exit
<1>3. CASE TxNoMemory \/ TxOversize \/ TxBusy
  BY <1>3 DEF TxNoMemory, TxOversize, TxBusy, Reject
<1>4. CASE Poll
  <2>1. CASE state \cap PendingBits = {}
    BY <1>1, <1>4, <2>1 DEF Poll
  <2>2. CASE state \cap PendingBits # {}
    BY <1>4, <2>2 DEF Poll
  <2> QED
    BY <2>1, <2>2
<1>5. CASE PollRxLoad \/ PollRxStore \/ PollRxMask \/ PollTxLoad \/ PollTxStore
             \/ PollTxMask
  BY <1>5 DEF PollRxLoad, PollRxStore, PollRxMask, PollTxLoad, PollTxStore,
              PollTxMask, LoadState, StoreWithout, ForgetPoll
<1>6. CASE PollRxFrame \/ PollRxInputDone \/ PollRxEnd \/ PollNoRx \/ PollNoTx
             \/ DrainEnd
  BY <1>6 DEF PollRxFrame, PollRxInputDone, PollRxEnd, PollNoRx, PollNoTx, DrainEnd
<1>7. CASE DrainFail \/ IsrRxFail \/ IsrAckFail
  BY <1>1, <1>7 DEF DrainFail, IsrRxFail, IsrAckFail
<1>8. CASE IsrNotSent \/ IsrNoTx \/ Receive
  BY <1>8 DEF IsrNotSent, IsrNoTx, IsrRx, Receive
<1> QED
  BY <1>2, <1>3, <1>4, <1>5, <1>6, <1>7, <1>8 DEF BesideRing

LEMMA MatchStep ==
  ASSUME IInv, LifeInv, MatchInv, NoOverflow, [Next]_vars
  PROVE  MatchInv'
<1>1. CASE BesideRing
  BY <1>1, BesideRingStep, MatchStutter DEF ringVars
<1>2. CASE DriverInit
  BY <1>2, MatchRestart
<1>3. CASE TxWrite \/ TxAdvance \/ TxListAdd
  BY <1>3, MatchWrite, MatchAdvance, MatchListAdd
<1>4. CASE DrainReport \/ IsrAck
  BY <1>4, MatchReport, MatchAck
<1>5. CASE IsrTx
  BY <1>5, MatchStutter DEF IsrTx, IsrRx, ringVars, threadVars, listVars
<1>6. ~IsrRetryLimit
  BY DEF IsrRetryLimit, MatchInv, RoomInv
<1>7. CASE Controller
  <2>1. UNCHANGED <<txHead, txTail, txFrame, pending, elem, pc>>
    BY <1>7 DEF Controller, HwSend, HwError, HwAbandon, HwDone, threadVars, listVars
  <2>2. "RLE" \in tsr' => "RLE" \in tsr
    BY <1>7 DEF Controller, HwSend, HwError, HwAbandon, HwDone, NoOverflow
  <2> QED
    BY <2>1, <2>2, MatchStutter
<1>8. CASE UNCHANGED vars
  BY <1>8, MatchStutter DEF vars, ringVars, hwVars, threadVars, listVars
<1> QED
  BY <1>1, <1>2, <1>3, <1>4, <1>5, <1>6, <1>7, <1>8
     DEF Next, BesideRing, LifeCycle, Transmit, TransmitRest, PollHandler, Handler

LEMMA MatchHolds ==
  ASSUME NoOverflow
  PROVE  Spec => [](IInv /\ LifeInv /\ MatchInv)
<1>1. IInv /\ LifeInv /\ MatchInv /\ [Next]_vars => MatchInv'
  BY MatchStep
<1> QED
  BY <1>1, MatchInit, LifeHolds, PTL DEF Spec

LEMMA MatchedRing ==
  ASSUME IInv, MatchInv, NoOverflow
  PROVE  InFlight = Awaiting
<1>1. PICK k \in Nat : Match(k)
  BY DEF MatchInv
<1> DEFINE n == Len(pending)
           listed == [j \in 1 .. n - k |-> pending[k + j].frame]
           d == Dist(txTail, txHead)
<1>2. k <= n /\ Left(k) = n - k /\ Left(k) \in Nat
  BY <1>1, MatchTypes DEF Match, AckedUpTo, Left
<1>3. Cardinality(DOMAIN pending \ Unacked) = k
  <2>1. DOMAIN pending \ Unacked = 1 .. k
    BY <1>1, <1>2, MatchTypes DEF Unacked, Match, AckedUpTo
  <2>2. Cardinality(1 .. k) = IF 1 > k THEN 0 ELSE k - 1 + 1
    BY 1 \in Int, k \in Int, FS_Interval
  <2>3. Cardinality(1 .. k) = k
    BY <2>2
  <2> QED
    BY <2>1, <2>3
<1>4. d \in Slots /\ d = n - k + (IF pc = "txAdd" THEN 1 ELSE 0)
  BY <1>1, <1>2, MatchTypes, DistType DEF Match, LengthMatches
<1>5. ASSUME NEW j \in 1 .. d
      PROVE  txFrame[(txTail + j - 1) % TxSize] =
               IF j <= n - k THEN pending[k + j].frame ELSE elem
  <2> DEFINE x == txTail + j - 1
             s == x % TxSize
  <2>1. j - 1 \in Slots /\ x = txTail + (j - 1)
    BY <1>4, MatchTypes DEF Slots
  <2> HIDE DEF x
  <2>2. s \in Slots /\ Dist(txTail, s) = j - 1
    BY <2>1, MatchTypes, AtDist
  <2> HIDE DEF s
  <2>3. CASE j <= n - k
    <3>1. Dist(txTail, s) < Left(k) /\ k + 1 + Dist(txTail, s) = k + j
      BY <1>2, <2>2, <2>3, MatchTypes
    <3>2. txFrame[s] = pending[k + j].frame
      BY <1>1, <2>2, <3>1 DEF Match, SlotsMatch
    <3> QED
      BY <2>3, <3>2 DEF s, x
  <2>4. CASE ~(j <= n - k)
    <3>1. pc = "txAdd" /\ Dist(txTail, s) = Left(k)
      <4>1. n - k \in Nat /\ d \in Nat /\ j \in Nat /\ j <= d
        BY <1>2, <1>4, MatchTypes DEF Slots
      <4>2. CASE pc # "txAdd"
        BY <1>4, <2>4, <4>1, <4>2
      <4>3. CASE pc = "txAdd"
        <5>1. d = n - k + 1
          BY <1>4, <4>1, <4>3
        <5>2. j = n - k + 1
          BY <2>4, <4>1, <5>1
        <5> QED
          BY <1>2, <2>2, <4>1, <4>3, <5>2
      <4> QED
        BY <4>2, <4>3
    <3>2. elem # NoFrame
      BY <3>1 DEF IInv, BuildingInv
    <3>3. txFrame[s] = elem
      BY <1>1, <2>2, <3>1, <3>2 DEF Match, ElementWritten
    <3> QED
      BY <2>4, <3>3 DEF s, x
  <2> QED
    BY <2>3, <2>4
<1>6. InFlight = [j \in 1 .. d |-> IF j <= n - k THEN pending[k + j].frame ELSE elem]
  BY <1>5 DEF InFlight, Dist
<1>7. Awaiting = IF pc = "txAdd" THEN Append(listed, elem) ELSE listed
  BY <1>3 DEF Awaiting
<1>8. CASE pc # "txAdd"
  <2>1. d = n - k
    BY <1>2, <1>4, <1>8
  <2> QED
    BY <1>6, <1>7, <1>8, <2>1
<1>9. CASE pc = "txAdd"
  <2>1. d = n - k + 1 /\ n - k \in Nat
    BY <1>2, <1>4, <1>9
  <2>2. Append(listed, elem) =
          [j \in 1 .. n - k + 1 |-> IF j <= n - k THEN pending[k + j].frame ELSE elem]
    BY <2>1
  <2> QED
    BY <1>6, <1>7, <1>9, <2>1, <2>2
<1> QED
  BY <1>8, <1>9

(* As long as there are fewer frames outstanding than descriptors and no
   retry limit is exceeded, the descriptors in flight hold the frames of the
   list that are not acknowledged, in the same order: the reasoning of
   gmac_dev_tx_callback, "it is safe to go through the pending packets in
   the list and to acknowledge the first in line".                         *)
THEOREM RingIsTheList ==
  ASSUME NoOverflow
  PROVE  Spec => []RingMatchesList
<1>1. IInv /\ MatchInv => RingMatchesList
  BY MatchedRing DEF RingMatchesList
<1> QED
  BY <1>1, MatchHolds, PTL

-----------------------------------------------------------------------------
(* Ring and controller, on a wire that reports no error and does not
   overtake gmac_driver_tx.  From the tail on come the slots the controller
   is done with, then those it still has to send, up to the last one written;
   what it is done with has been sent, and so has what is acknowledged.    *)
CleanWire == NoOverflow /\ {"COL", "UND", "fastWire"} \cap Env = {}

Gone == Dist(txTail, hwIdx)
Written == Dist(txTail, txHead) + (IF pc = "txHead" THEN 1 ELSE 0)
Handed(d) == Gone <= d /\ d < Written

SlotsOwned ==
  /\ Gone <= Written
  /\ \A s \in Slots : txUsed[s] <=> ~Handed(Dist(txTail, s))
GoneSent ==
  \A s \in Slots : Dist(txTail, s) < Gone =>
    txFrame[s] \in Frames /\ wire[txFrame[s]] = "sent"
ElementUnsent == elem # NoFrame => Gone < Written
AckedSent ==
  \A i \in DOMAIN pending : pending[i].acked =>
    wire[pending[i].frame] = "sent" /\ pending[i].flag = {"TXCOMP"}
CleanFlags == tsr \subseteq {"TXCOMP"} /\ txFlag \subseteq {"TXCOMP"}

HwInv == SlotsOwned /\ GoneSent /\ ElementUnsent /\ AckedSent /\ CleanFlags

LEMMA HwInit == Init => HwInv
<1> SUFFICES ASSUME Init PROVE HwInv
  OBVIOUS
<1>1. /\ Dist(0, 0) = 0 /\ \A s \in Slots : ~(Dist(0, s) < 0)
  BY DistType DEF Slots, RingAssumption
<1>2. Gone = 0 /\ Written = 0
  BY <1>1 DEF Init, RingInit, Gone, Written
<1> QED
  BY <1>1, <1>2 DEF Init, RingInit, HwInv, SlotsOwned, Handed, GoneSent,
                    ElementUnsent, AckedSent, CleanFlags

(* How many slots are written, and the types of positions.                 *)
LEMMA HwTypes ==
  ASSUME IInv
  PROVE  /\ Gone \in Nat /\ Gone < TxSize /\ Written \in Nat
         /\ Dist(txTail, txHead) \in Nat /\ Dist(txTail, txHead) < TxSize
         /\ hwIdx \in Slots /\ txHead \in Slots /\ txTail \in Slots
         /\ DOMAIN txUsed = Slots /\ DOMAIN txFrame = Slots
         /\ DOMAIN wire = Frames
         /\ TxSize \in Nat /\ TxSize > 1
         /\ \A s \in Slots : Dist(txTail, s) \in Nat /\ Dist(txTail, s) < TxSize
<1>1. hwIdx \in Slots /\ txHead \in Slots /\ txTail \in Slots
  BY DEF IInv, TypeOK, RingTypeOK
<1>2. /\ Gone \in Nat /\ Gone < TxSize
      /\ Dist(txTail, txHead) \in Nat /\ Dist(txTail, txHead) < TxSize
      /\ \A s \in Slots : Dist(txTail, s) \in Nat /\ Dist(txTail, s) < TxSize
  BY <1>1, DistType DEF Gone
<1>3. Written \in Nat
  BY <1>2 DEF Written
<1> QED
  BY <1>1, <1>2, <1>3 DEF IInv, TypeOK, RingTypeOK, RingAssumption

LEMMA WrittenIs ==
  ASSUME IInv, MatchInv, NoOverflow, NEW k \in Nat, Match(k)
  PROVE  /\ Written = Left(k) + (IF elem = NoFrame THEN 0 ELSE 1)
         /\ Written < TxSize /\ Left(k) \in Nat
<1>1. k <= Len(pending) /\ Left(k) \in Nat
  BY MatchTypes DEF Match, AckedUpTo, Left
<1>2. Dist(txTail, txHead) = Left(k) + (IF pc = "txAdd" THEN 1 ELSE 0)
  BY DEF Match, LengthMatches
<1>3. CASE pc \notin {"txHead", "txAdd"}
  BY <1>1, <1>2, <1>3, HwTypes DEF Written, IInv, BuildingInv
<1>4. CASE pc = "txAdd"
  BY <1>1, <1>2, <1>4, HwTypes DEF Written, IInv, BuildingInv
<1>5. CASE pc = "txHead"
  <2>1. elem # NoFrame /\ Written = Left(k) + 1
    BY <1>1, <1>2, <1>5 DEF Written, IInv, BuildingInv
  <2>2. Left(k) <= Len(pending) /\ Len(pending) < MaxOutstanding
    BY <1>1, <1>5, MatchTypes DEF Left, MatchInv, RoomInv
  <2> QED
    BY <1>1, <2>1, <2>2, MatchTypes DEF NoOverflow
<1> QED
  BY <1>3, <1>4, <1>5

LEMMA HwStutter ==
  ASSUME HwInv, UNCHANGED <<ringVars, hwIdx, wire, elem, pending>>,
         pc' = "txHead" <=> pc = "txHead",
         tsr' \subseteq {"TXCOMP"}, txFlag' \subseteq {"TXCOMP"}
  PROVE  HwInv'
<1>1. Gone' = Gone /\ Written' = Written
  BY DEF Gone, Written, ringVars
<1> QED
  BY <1>1 DEF ringVars, HwInv, SlotsOwned, Handed, GoneSent, ElementUnsent,
              AckedSent, CleanFlags

LEMMA HwRestart ==
  ASSUME IInv, HwInv, DriverInit
  PROVE  HwInv'
<1>1. /\ txHead' = 0 /\ txTail' = 0 /\ hwIdx' = 0 /\ pending' = <<>> /\ tsr' = {}
      /\ txUsed' = [s \in Slots |-> TRUE] /\ pc' = "boot"
      /\ elem' = elem /\ txFlag' = txFlag
  BY DEF DriverInit, ResetTxMem, Goto, isrVars
<1>2. elem = NoFrame
  BY DEF DriverInit, At, IInv, BuildingInv
<1>3. /\ Dist(0, 0) = 0 /\ \A s \in Slots : ~(Dist(0, s) < 0)
  BY DistType DEF Slots, RingAssumption
<1>4. Gone' = 0 /\ Written' = 0
  BY <1>1, <1>3 DEF Gone, Written
<1> QED
  BY <1>1, <1>2, <1>3, <1>4 DEF HwInv, SlotsOwned, Handed, GoneSent, ElementUnsent,
                                AckedSent, CleanFlags

LEMMA HwWrite ==
  ASSUME IInv, MatchInv, NoOverflow, HwInv, TxWrite
  PROVE  HwInv'
<1>1. /\ pc \in {"idle", "rxInput"} /\ pc' = "txHead"
      /\ UNCHANGED <<txHead, txTail, hwIdx, tsr, wire, pending, txFlag>>
      /\ txFrame' = [txFrame EXCEPT ![txHead] = nextFrame]
      /\ txUsed' = [txUsed EXCEPT ![txHead] = FALSE]
  BY DEF TxWrite, Caller, At, WriteSlot, hwVars, isrVars
<1>2. /\ Gone' = Gone /\ Written = Dist(txTail, txHead) /\ Written' = Written + 1
      /\ Gone <= Written
  BY <1>1, HwTypes DEF Gone, Written, HwInv, SlotsOwned
<1>3. \A s \in Slots : Dist(txTail, s) = Written <=> s = txHead
  BY <1>2, HwTypes, DistApart
<1>4. SlotsOwned'
  <2>1. ASSUME NEW s \in Slots PROVE txUsed'[s] <=> ~Handed(Dist(txTail, s))'
    <3>1. CASE s = txHead
      <4>1. ~txUsed'[s]
        BY <1>1, <3>1, HwTypes
      <4>2. Handed(Dist(txTail, s))'
        BY <1>1, <1>2, <1>3, <3>1, HwTypes DEF Handed
      <4> QED
        BY <4>1, <4>2
    <3>2. CASE s # txHead
      <4>1. txUsed'[s] = txUsed[s]
        BY <1>1, <3>2, HwTypes
      <4>2. Dist(txTail, s) # Written
        BY <1>3, <3>2
      <4>3. Handed(Dist(txTail, s))' <=> Handed(Dist(txTail, s))
        BY <1>1, <1>2, <4>2, HwTypes DEF Handed
      <4> QED
        BY <4>1, <4>3 DEF HwInv, SlotsOwned
    <3> QED
      BY <3>1, <3>2
  <2>2. Gone' <= Written'
    BY <1>2, HwTypes
  <2> QED
    BY <1>1, <2>1, <2>2 DEF SlotsOwned
<1>5. GoneSent'
  <2>1. \A s \in Slots : Dist(txTail, s) < Gone => s # txHead
    BY <1>2, HwTypes
  <2>2. \A s \in Slots : s # txHead => txFrame'[s] = txFrame[s]
    BY <1>1, HwTypes
  <2> QED
    BY <1>1, <1>2, <2>1, <2>2 DEF HwInv, GoneSent
<1>6. ElementUnsent'
  BY <1>2, HwTypes DEF ElementUnsent
<1>7. AckedSent' /\ CleanFlags'
  BY <1>1 DEF HwInv, AckedSent, CleanFlags
<1> QED
  BY <1>4, <1>5, <1>6, <1>7 DEF HwInv

LEMMA HwAdvance ==
  ASSUME IInv, MatchInv, NoOverflow, HwInv, TxAdvance
  PROVE  HwInv'
<1>1. /\ pc = "txHead" /\ pc' = "txAdd" /\ txHead' = CircInc(txHead)
      /\ UNCHANGED <<txTail, txUsed, txFrame, hwIdx, tsr, wire, pending, elem, txFlag>>
  BY DEF TxAdvance, At, Goto, AdvanceHead, hwVars, listVars, isrVars
<1>2. Written = Dist(txTail, txHead) + 1 /\ Written < TxSize
  <2>1. PICK k \in Nat : Match(k)
    BY DEF MatchInv
  <2> QED
    BY <1>1, <2>1, WrittenIs DEF Written
<1>3. Written' = Written /\ Gone' = Gone
  <2>1. Dist(txTail, txHead) # TxSize - 1
    BY <1>2, HwTypes
  <2>2. Dist(txTail, CircInc(txHead)) = Dist(txTail, txHead) + 1
    BY <2>1, HwTypes, DistNext
  <2> QED
    BY <1>1, <1>2, <2>2, HwTypes DEF Written, Gone
<1> QED
  BY <1>1, <1>3 DEF HwInv, SlotsOwned, Handed, GoneSent, ElementUnsent, AckedSent,
                    CleanFlags

LEMMA HwListAdd ==
  ASSUME IInv, HwInv, TxListAdd
  PROVE  HwInv'
<1> DEFINE e == [frame |-> elem, acked |-> FALSE, flag |-> {}]
           n == Len(pending)
<1>1. /\ pc = "txAdd" /\ pc' \in {"idle", "rxInput"} /\ elem' = NoFrame
      /\ pending' = Append(pending, e)
      /\ UNCHANGED <<ringVars, hwIdx, tsr, wire, txFlag>>
  BY DEF TxListAdd, At, hwVars, isrVars, IInv, TypeOK
<1>2. elem \in Frames
  BY <1>1 DEF IInv, BuildingInv, TypeOK
<1>3. e \in Element /\ ~e.acked
  BY <1>2 DEF Element
<1> HIDE DEF e
<1>4. /\ DOMAIN pending' = 1 .. n + 1
      /\ pending'[n + 1] = e /\ \A i \in 1 .. n : pending'[i] = pending[i]
  BY <1>1, <1>3, MatchTypes, AppendProperties, LenProperties
<1>5. AckedSent'
  <2>1. \A i \in 1 .. n + 1 : i = n + 1 \/ i \in 1 .. n
    BY MatchTypes
  <2> QED
    BY <1>1, <1>3, <1>4, <2>1, MatchTypes DEF HwInv, AckedSent
<1>6. Gone' = Gone /\ Written' = Written
  BY <1>1 DEF Gone, Written, ringVars
<1> QED
  BY <1>1, <1>5, <1>6 DEF HwInv, SlotsOwned, Handed, GoneSent, ElementUnsent,
                          CleanFlags, ringVars

LEMMA HwReport ==
  ASSUME IInv, HwInv, DrainReport
  PROVE  HwInv'
<1> DEFINE n == Len(pending)
<1>1. /\ pending' = Tail(pending) /\ pending # <<>>
      /\ pc \in {"drainFirst", "drain"} /\ pc' = "drain"
      /\ UNCHANGED <<ringVars, hwIdx, tsr, wire, elem, txFlag>>
  BY DEF DrainReport, HeadAcked, ReportHead, Goto, At, hwVars, isrVars
<1>2. /\ DOMAIN pending' = 1 .. n - 1
      /\ \A i \in 1 .. n - 1 : pending'[i] = pending[i + 1]
  BY <1>1, MatchTypes, EmptySeq, HeadTailProperties, LenProperties
<1>3. AckedSent'
  <2>1. \A i \in 1 .. n - 1 : i + 1 \in 1 .. n
    BY MatchTypes
  <2> QED
    BY <1>1, <1>2, <2>1, MatchTypes DEF HwInv, AckedSent
<1>4. Gone' = Gone /\ Written' = Written
  BY <1>1 DEF Gone, Written, ringVars
<1> QED
  BY <1>1, <1>3, <1>4 DEF HwInv, SlotsOwned, Handed, GoneSent, ElementUnsent,
                          CleanFlags, ringVars

(* A slot at the tail that the handler finds sent has been sent.           *)
LEMMA HwAck ==
  ASSUME IInv, LifeInv, FateInv, MatchInv, NoOverflow, HwInv, IsrAck
  PROVE  HwInv'
<1>1. PICK k \in Nat : Match(k)
  BY DEF MatchInv
<1> DEFINE n == Len(pending)
<1>2. /\ k < n /\ Dist(txTail, txTail) = 0 /\ txFrame[txTail] = pending[k + 1].frame
      /\ DOMAIN pending' = 1 .. n
      /\ pending'[k + 1].flag = txFlag
      /\ \A i \in 1 .. n : /\ i # k + 1 => pending'[i] = pending[i]
                           /\ pending'[i].frame = pending[i].frame
  BY <1>1, AckedIsNext
<1>3. /\ txTail' = CircInc(txTail) /\ txHead # txTail /\ txUsed[txTail]
      /\ UNCHANGED <<txHead, txUsed, txFrame, hwIdx, tsr, wire, pc, elem, txFlag>>
      /\ "TXCOMP" \in txFlag
  BY DEF IsrAck, InLoop, SlotSent, LifeInv, FateInv, CircEmpty, AdvanceTail, hwVars,
         threadVars
<1>4. \A s \in Slots : /\ Dist(txTail, s) = 0 <=> s = txTail
                       /\ Dist(txTail', s) = IF s = txTail THEN TxSize - 1
                                             ELSE Dist(txTail, s) - 1
  BY <1>3, HwTypes, DistType, DistFromNext
<1>5. Dist(txTail, txHead) >= 1 /\ Written >= 1 /\ Written < TxSize
  <2>1. Dist(txTail, txHead) >= 1
    BY <1>3, <1>4, HwTypes
  <2> QED
    BY <1>1, <2>1, WrittenIs, HwTypes DEF Written
<1>6. Gone >= 1
  BY <1>2, <1>3, <1>5, HwTypes DEF HwInv, SlotsOwned, Handed
<1>7. Gone' = Gone - 1 /\ Written' = Written - 1
  <2>1. hwIdx # txTail
    BY <1>4, <1>6, HwTypes DEF Gone
  <2> QED
    BY <1>3, <1>4, <2>1, HwTypes DEF Gone, Written
<1>8. SlotsOwned'
  <2>1. ASSUME NEW s \in Slots
        PROVE  Handed(Dist(txTail, s))' <=> Handed(Dist(txTail, s))
    <3>1. CASE s = txTail
      <4>1. ~Handed(Dist(txTail, s))
        BY <1>4, <1>6, <3>1, HwTypes DEF Handed
      <4>2. ~Handed(Dist(txTail, s))'
        BY <1>3, <1>4, <1>5, <1>7, <3>1, HwTypes DEF Handed
      <4> QED
        BY <4>1, <4>2
    <3>2. CASE s # txTail
      BY <1>3, <1>4, <1>7, <3>2, HwTypes DEF Handed
    <3> QED
      BY <3>1, <3>2
  <2>2. Gone' <= Written'
    BY <1>7, HwTypes DEF HwInv, SlotsOwned
  <2> QED
    BY <1>3, <2>1, <2>2 DEF HwInv, SlotsOwned
<1>9. GoneSent'
  <2>1. \A s \in Slots : Dist(txTail', s) < Gone - 1 => Dist(txTail, s) < Gone
    BY <1>4, HwTypes
  <2> QED
    BY <1>3, <1>7, <2>1 DEF HwInv, GoneSent
<1>10. ElementUnsent'
  BY <1>3, <1>7, HwTypes DEF HwInv, ElementUnsent
<1>11. AckedSent'
  <2>1. ASSUME NEW i \in 1 .. n, pending'[i].acked
        PROVE  wire[pending'[i].frame] = "sent" /\ pending'[i].flag = {"TXCOMP"}
    <3>1. CASE i = k + 1
      <4>1. wire[pending[k + 1].frame] = "sent"
        BY <1>2, <1>6, HwTypes DEF HwInv, GoneSent
      <4>2. txFlag = {"TXCOMP"}
        BY <1>3 DEF HwInv, CleanFlags
      <4> QED
        BY <1>2, <3>1, <4>1, <4>2
    <3>2. CASE i # k + 1
      BY <1>2, <2>1, <3>2, MatchTypes DEF HwInv, AckedSent
    <3> QED
      BY <3>1, <3>2
  <2> QED
    BY <1>2, <1>3, <2>1 DEF AckedSent
<1>12. CleanFlags'
  BY <1>3 DEF HwInv, CleanFlags
<1> QED
  BY <1>8, <1>9, <1>10, <1>11, <1>12 DEF HwInv

(* The controller sends the oldest frame it was handed, which is on the
   list, and never the one gmac_driver_tx is still adding.                 *)
LEMMA SentIsListed ==
  ASSUME IInv, MatchInv, CleanWire, HwInv, Controller
  PROVE  /\ HwSend /\ Gone < Written
         /\ txFrame[hwIdx] \in OnList /\ txFrame[hwIdx] \in Frames
         /\ elem # NoFrame => Gone + 1 < Written
<1>1. PICK k \in Nat : Match(k)
  BY DEF MatchInv
<1>2. HwSend
  BY DEF Controller, HwError, HwAbandon, CleanWire, NoOverflow
<1>3. ~txUsed[hwIdx] /\ txFrame[hwIdx] # elem
  BY <1>2 DEF Controller, WireMayFinish, HwSend, HwDone, CleanWire
<1>4. Gone < Written
  BY <1>3, HwTypes DEF HwInv, SlotsOwned, Handed, Gone
<1>5. Written = Left(k) + (IF elem = NoFrame THEN 0 ELSE 1) /\ Left(k) \in Nat
  BY <1>1, WrittenIs DEF CleanWire
<1>6. Gone < Left(k)
  <2>1. CASE elem = NoFrame
    BY <1>4, <1>5, <2>1
  <2>2. CASE elem # NoFrame
    <3>1. Gone # Left(k)
      BY <1>1, <1>3, <2>2, HwTypes DEF Match, ElementWritten, Gone
    <3> QED
      BY <1>4, <1>5, <2>2, <3>1, HwTypes
  <2> QED
    BY <2>1, <2>2
<1>7. k + 1 + Gone \in DOMAIN pending
  BY <1>6, HwTypes, MatchTypes DEF Left
<1>8. txFrame[hwIdx] = pending[k + 1 + Gone].frame
  BY <1>1, <1>6, HwTypes DEF Match, SlotsMatch, Gone
<1>9. txFrame[hwIdx] \in OnList /\ txFrame[hwIdx] \in Frames
  BY <1>7, <1>8, MatchTypes DEF OnList, Element
<1> QED
  BY <1>2, <1>4, <1>5, <1>6, <1>9, HwTypes

LEMMA HwController ==
  ASSUME IInv, MatchInv, CleanWire, HwInv, Controller
  PROVE  HwInv'
<1>1. /\ Gone < Written
      /\ txFrame[hwIdx] \in OnList /\ txFrame[hwIdx] \in Frames
      /\ elem # NoFrame => Gone + 1 < Written
  BY SentIsListed
<1>2. /\ txUsed' = [txUsed EXCEPT ![hwIdx] = TRUE]
      /\ wire' = [wire EXCEPT ![txFrame[hwIdx]] = "sent"]
      /\ hwIdx' = CircInc(hwIdx) /\ tsr' = tsr \cup {"TXCOMP"}
      /\ UNCHANGED <<txHead, txTail, txFrame, pc, elem, pending, txFlag>>
  BY SentIsListed DEF HwSend, HwDone, Controller, threadVars, listVars, isrVars
<1>3. Written < TxSize
  <2>1. PICK k \in Nat : Match(k)
    BY DEF MatchInv
  <2> QED
    BY <2>1, WrittenIs DEF CleanWire
<1>4. Gone' = Gone + 1 /\ Written' = Written
  <2>1. Dist(txTail, hwIdx) # TxSize - 1
    BY <1>1, <1>3, HwTypes DEF Gone
  <2>2. Dist(txTail, CircInc(hwIdx)) = Dist(txTail, hwIdx) + 1
    BY <2>1, HwTypes, DistNext
  <2> QED
    BY <1>2, <2>2 DEF Gone, Written
<1>5. \A f \in Frames : wire[f] = "sent" \/ f = txFrame[hwIdx] => wire'[f] = "sent"
  BY <1>1, <1>2, HwTypes
<1>6. \A s \in Slots : Dist(txTail, s) = Gone <=> s = hwIdx
  BY HwTypes, DistApart DEF Gone
<1>7. SlotsOwned'
  <2>1. ASSUME NEW s \in Slots PROVE txUsed'[s] <=> ~Handed(Dist(txTail, s))'
    <3>1. CASE s = hwIdx
      <4>1. txUsed'[s]
        BY <1>2, <3>1, HwTypes
      <4>2. ~Handed(Dist(txTail, s))'
        BY <1>2, <1>4, <1>6, <3>1, HwTypes DEF Handed
      <4> QED
        BY <4>1, <4>2
    <3>2. CASE s # hwIdx
      <4>1. txUsed'[s] = txUsed[s]
        BY <1>2, <3>2, HwTypes
      <4>2. Dist(txTail, s) # Gone
        BY <1>6, <3>2
      <4>3. Handed(Dist(txTail, s))' <=> Handed(Dist(txTail, s))
        BY <1>2, <1>4, <4>2, HwTypes DEF Handed
      <4> QED
        BY <4>1, <4>3 DEF HwInv, SlotsOwned
    <3> QED
      BY <3>1, <3>2
  <2>2. Gone' <= Written'
    BY <1>1, <1>4, HwTypes
  <2> QED
    BY <1>2, <2>1, <2>2 DEF SlotsOwned
<1>8. GoneSent'
  <2>1. \A s \in Slots : Dist(txTail, s) < Gone + 1 => Dist(txTail, s) < Gone \/ s = hwIdx
    BY <1>6, HwTypes
  <2> QED
    BY <1>1, <1>2, <1>4, <1>5, <2>1 DEF HwInv, GoneSent
<1>9. ElementUnsent'
  BY <1>1, <1>2, <1>4 DEF ElementUnsent
<1>10. AckedSent'
  <2>1. \A i \in DOMAIN pending : pending[i].frame \in Frames
    BY MatchTypes DEF Element
  <2> QED
    BY <1>2, <1>5, <2>1 DEF HwInv, AckedSent
<1>11. CleanFlags'
  BY <1>2 DEF HwInv, CleanFlags
<1> QED
  BY <1>7, <1>8, <1>9, <1>10, <1>11 DEF HwInv

LEMMA HwStep ==
  ASSUME IInv, LifeInv, FateInv, MatchInv, CleanWire, HwInv, [Next]_vars
  PROVE  HwInv'
<1> NoOverflow
  BY DEF CleanWire
<1>1. CASE BesideRing
  BY <1>1, BesideRingStep, HwStutter DEF HwInv, CleanFlags
<1>2. CASE DriverInit
  BY <1>2, HwRestart
<1>3. CASE TxWrite \/ TxAdvance \/ TxListAdd
  BY <1>3, HwWrite, HwAdvance, HwListAdd
<1>4. CASE DrainReport \/ IsrAck
  BY <1>4, HwReport, HwAck
<1>5. CASE IsrTx
  <2>1. /\ UNCHANGED <<ringVars, hwIdx, wire, elem, pending, pc>>
        /\ tsr' \subseteq tsr /\ txFlag' = {"TXCOMP"} \cup (tsr \cap {"COL", "UND"})
    BY <1>5 DEF IsrTx, IsrRx, threadVars, listVars
  <2> QED
    BY <2>1, HwStutter DEF HwInv, CleanFlags
<1>6. ~IsrRetryLimit
  BY DEF IsrRetryLimit, MatchInv, RoomInv
<1>7. CASE Controller
  BY <1>7, HwController
<1>8. CASE UNCHANGED vars
  BY <1>8, HwStutter DEF vars, hwVars, threadVars, listVars, isrVars, HwInv, CleanFlags
<1> QED
  BY <1>1, <1>2, <1>3, <1>4, <1>5, <1>6, <1>7, <1>8
     DEF Next, BesideRing, LifeCycle, Transmit, TransmitRest, PollHandler, Handler

-----------------------------------------------------------------------------
(* What the poll handler is polled for.  While there is an acknowledged
   frame to report, a request to poll is backed by a pending bit, except
   between a store to state and the masked re-check that follows it, and
   after exit.                                                             *)
PollDue ==
  pc \notin {"rxMask", "txMask", "off"} /\ needspoll /\ HeadAcked =>
    state \cap PendingBits # {}
BootSilent == pc \in BootPcs => "RCOMP" \notin isr
AlertInv == PollDue /\ BootSilent

LEMMA AlertInit == Init => AlertInv
BY DEF Init, RingInit, AlertInv, PollDue, BootSilent, BootPcs

LEMMA AlertStutter ==
  ASSUME AlertInv, UNCHANGED <<pc, state, needspoll, pending>>,
         "RCOMP" \in isr' => "RCOMP" \in isr
  PROVE  AlertInv'
BY DEF AlertInv, PollDue, BootSilent, HeadAcked

LEMMA AlertFail ==
  ASSUME AlertInv, NEW w, Fail(w)
  PROVE  AlertInv'
BY AlertStutter DEF Fail, hwVars, threadVars, listVars, flagVars

LEMMA AlertThread ==
  ASSUME IInv, LifeInv, AlertInv, LifeCycle \/ Transmit \/ TransmitRest
  PROVE  AlertInv'
<1> USE DEF At, Goto, hwVars, listVars, flagVars, BootPcs
<1>1. CASE DriverInit
  BY <1>1 DEF DriverInit, AlertInv, PollDue, BootSilent, HeadAcked
<1>2. CASE FlushFrame \/ FlushDone \/ SetRxCallback
  BY <1>2 DEF FlushFrame, FlushDone, SetRxCallback, AlertInv, PollDue, BootSilent,
              HeadAcked
<1>3. CASE GoIdle \/ Exit
  BY <1>3 DEF GoIdle, Exit, LifeInv, AlertInv, PollDue, BootSilent, HeadAcked
<1>4. CASE TxNoMemory \/ TxOversize \/ TxBusy
  BY <1>4, AlertStutter DEF TxNoMemory, TxOversize, TxBusy, Reject, threadVars
<1>5. CASE TxWrite \/ TxAdvance
  BY <1>5 DEF TxWrite, TxAdvance, Caller, AlertInv, PollDue, BootSilent, HeadAcked
<1>6. CASE TxListAdd
  <2>1. HeadAcked' => HeadAcked
    BY <1>6, ListAddHead
  <2>2. /\ pc = "txAdd" /\ pc' \in {"idle", "rxInput"}
        /\ UNCHANGED <<state, needspoll, isr>>
    BY <1>6 DEF TxListAdd, IInv, TypeOK
  <2> QED
    BY <2>1, <2>2 DEF AlertInv, PollDue, BootSilent
<1> QED
  BY <1>1, <1>2, <1>3, <1>4, <1>5, <1>6 DEF LifeCycle, Transmit, TransmitRest

LEMMA AlertPoll ==
  ASSUME LifeInv, AlertInv, PollHandler
  PROVE  AlertInv'
<1> USE DEF At, Goto, hwVars, listVars, flagVars, BootPcs, AlertInv, PollDue,
            BootSilent, HeadAcked
<1>1. CASE Poll
  <2>1. CASE state \cap PendingBits = {}
    BY <1>1, <2>1, AlertFail DEF Poll
  <2>2. CASE state \cap PendingBits # {}
    BY <1>1, <2>2 DEF Poll
  <2> QED
    BY <2>1, <2>2
<1>2. CASE PollRxLoad \/ PollTxLoad
  BY <1>2 DEF PollRxLoad, PollTxLoad, LoadState
<1>3. CASE PollRxStore \/ PollTxStore
  BY <1>3 DEF PollRxStore, PollTxStore, StoreWithout
<1>4. CASE PollRxMask \/ PollTxMask
  BY <1>4 DEF PollRxMask, PollTxMask, ForgetPoll
<1>5. CASE PollRxFrame \/ PollRxInputDone \/ PollRxEnd \/ PollNoRx \/ PollNoTx
  BY <1>5 DEF PollRxFrame, PollRxInputDone, PollRxEnd, PollNoRx, PollNoTx
<1>6. CASE DrainReport \/ DrainEnd
  BY <1>6 DEF DrainReport, ReportHead, DrainEnd
<1>7. CASE DrainFail
  BY <1>7, AlertFail DEF DrainFail
<1> QED
  BY <1>1, <1>2, <1>3, <1>4, <1>5, <1>6, <1>7 DEF PollHandler

LEMMA AlertHandler ==
  ASSUME AlertInv, Handler
  PROVE  AlertInv'
<1> USE DEF hwVars, listVars, flagVars, threadVars
<1>1. CASE IsrRxFail \/ IsrAckFail
  BY <1>1, AlertFail DEF IsrRxFail, IsrAckFail
<1>2. CASE IsrNoTx \/ IsrTx \/ IsrRetryLimit
  <2>1. IsrRx
    BY <1>2 DEF IsrNoTx, IsrTx, IsrRetryLimit
  <2> QED
    BY <2>1 DEF IsrRx, AlertInv, PollDue, BootSilent, HeadAcked, PendingBits
<1>3. CASE IsrNotSent
  BY <1>3, AlertStutter DEF IsrNotSent
<1>4. CASE IsrAck
  BY <1>4 DEF IsrAck, AlertInv, PollDue, BootSilent, PendingBits
<1> QED
  BY <1>1, <1>2, <1>3, <1>4 DEF Handler

LEMMA AlertStep ==
  ASSUME "rxAtBoot" \notin Env, IInv, LifeInv, AlertInv, [Next]_vars
  PROVE  AlertInv'
<1>1. CASE Controller
  BY <1>1, AlertStutter
     DEF Controller, HwSend, HwError, HwAbandon, HwDone, threadVars, listVars, flagVars
<1>2. CASE Receive
  BY <1>2 DEF Receive, threadVars, listVars, flagVars, AlertInv, PollDue, BootSilent,
              HeadAcked
<1>3. CASE UNCHANGED vars
  BY <1>3, AlertStutter DEF vars, hwVars, threadVars, listVars, flagVars
<1> QED
  BY <1>1, <1>2, <1>3, AlertThread, AlertPoll, AlertHandler DEF Next

-----------------------------------------------------------------------------
(* The assertions.                                                         *)
FailingSteps ==
  \/ Poll /\ state \cap PendingBits = {}
  \/ DrainFail \/ IsrRxFail \/ IsrAckFail

LEMMA OthersDoNotFail ==
  ASSUME Next, ~FailingSteps
  PROVE  fault = "none" /\ fault' = "none"
<1> USE DEF At, Caller, Goto
<1>1. CASE LifeCycle
  BY <1>1 DEF LifeCycle, DriverInit, FlushFrame, FlushDone, SetRxCallback, GoIdle, Exit
<1>2. CASE Transmit \/ TransmitRest
  BY <1>2 DEF Transmit, TransmitRest, TxNoMemory, TxOversize, TxBusy, Reject, TxWrite,
              TxAdvance, TxListAdd
<1>3. CASE Poll
  BY <1>3 DEF Poll, FailingSteps
<1>4. CASE PollRxLoad \/ PollRxStore \/ PollRxMask \/ PollTxLoad \/ PollTxStore
             \/ PollTxMask
  BY <1>4 DEF PollRxLoad, PollRxStore, PollRxMask, PollTxLoad, PollTxStore,
              PollTxMask, LoadState, StoreWithout, ForgetPoll
<1>5. CASE PollRxFrame \/ PollRxInputDone \/ PollRxEnd \/ PollNoRx \/ PollNoTx
             \/ DrainReport \/ DrainEnd
  BY <1>5 DEF PollRxFrame, PollRxInputDone, PollRxEnd, PollNoRx, PollNoTx,
              DrainReport, ReportHead, DrainEnd
<1>6. CASE IsrNoTx \/ IsrTx \/ IsrRetryLimit \/ IsrNotSent \/ IsrAck
  BY <1>6 DEF IsrNoTx, IsrTx, IsrRetryLimit, IsrRx, IsrStarts, IsrNotSent, IsrAck,
              InLoop
<1>7. CASE Controller \/ Receive
  BY <1>7 DEF Controller, Receive
<1> QED
  BY <1>1, <1>2, <1>3, <1>4, <1>5, <1>6, <1>7
     DEF Next, PollHandler, Handler, FailingSteps

(* On a clean wire the callbacks' assertions hold.                         *)
LEMMA CallbacksDoNotFail ==
  ASSUME IInv, LifeInv, AlertInv, MatchInv, CleanWire, HwInv
  PROVE  ~IsrRxFail /\ ~IsrAckFail
<1>1. ~IsrRxFail
  BY DEF IsrRxFail, IsrStarts, RxCalled, LifeInv, Down, AlertInv, BootSilent
<1>2. ~IsrAckFail
  <2> SUFFICES ASSUME IsrAckFail PROVE FALSE
    OBVIOUS
  <2>1. /\ txUsed[txTail] /\ txHead # txTail /\ Unacked = {}
    BY DEF IsrAckFail, InLoop, SlotSent, LifeInv, CircEmpty
  <2>2. PICK k \in Nat : Match(k)
    BY DEF MatchInv
  <2>3. Left(k) = 0
    <3>1. k <= Len(pending) /\ \A i \in 1 .. Len(pending) : i <= k
      BY <2>1, <2>2, MatchTypes DEF Match, AckedUpTo, Unacked
    <3>2. CASE Len(pending) = 0
      BY <3>1, <3>2, MatchTypes DEF Left
    <3>3. CASE Len(pending) # 0
      <4>1. Len(pending) \in 1 .. Len(pending)
        BY <3>3, MatchTypes
      <4>2. Len(pending) <= k /\ k <= Len(pending)
        BY <3>1, <4>1, Zenon
      <4>3. Len(pending) \in Nat
        BY MatchTypes
      <4> QED
        BY <4>2, <4>3 DEF Left
    <3> QED
      BY <3>2, <3>3
  <2>4. Dist(txTail, txTail) = 0 /\ Dist(txTail, txHead) >= 1
    BY <2>1, HwTypes, DistType
  <2>5. Written >= 1
    BY <2>4, HwTypes DEF Written
  <2>6. elem # NoFrame /\ Written = 1
    BY <2>2, <2>3, <2>5, WrittenIs DEF CleanWire
  <2>7. Gone >= 1
    BY <2>1, <2>4, <2>5, HwTypes DEF HwInv, SlotsOwned, Handed
  <2> QED
    BY <2>6, <2>7, HwTypes DEF HwInv, ElementUnsent
<1> QED
  BY <1>1, <1>2

LEMMA SpuriousStep ==
  ASSUME IInv, LifeInv, AlertInv, MatchInv, CleanWire, HwInv, OnlySpuriousPolls,
         [Next]_vars
  PROVE  OnlySpuriousPolls'
<1>1. CASE FailingSteps
  <2>1. \A w : Fail(w) => fault' = w /\ (HeadAcked' <=> HeadAcked)
    BY DEF Fail, listVars, HeadAcked
  <2>2. CASE Poll /\ state \cap PendingBits = {}
    <3>1. Fail("poll: no event")
      BY <2>2 DEF Poll
    <3>2. ~HeadAcked
      BY <2>2 DEF Poll, At, AlertInv, PollDue
    <3> QED
      BY <2>1, <3>1, <3>2 DEF OnlySpuriousPolls
  <2>3. CASE DrainFail
    <3>1. HeadAcked => MacStatus(Head(pending).flag) # "none"
      <4>1. HeadAcked => Head(pending) = pending[1] /\ 1 \in DOMAIN pending
        BY MatchTypes, EmptySeq DEF HeadAcked
      <4>2. HeadAcked => Head(pending).flag = {"TXCOMP"}
        BY <4>1 DEF HeadAcked, HwInv, AckedSent
      <4> QED
        BY <4>2 DEF MacStatus
    <3>2. /\ ~HeadAcked
          /\ Fail(IF pending = <<>> THEN "poll: list empty" ELSE "poll: none acked")
      BY <2>3, <3>1 DEF DrainFail
    <3> QED
      BY <2>1, <3>2 DEF OnlySpuriousPolls
  <2> QED
    BY <1>1, <2>2, <2>3, CallbacksDoNotFail DEF FailingSteps
<1>2. CASE Next /\ ~FailingSteps
  BY <1>2, OthersDoNotFail DEF OnlySpuriousPolls
<1>3. CASE UNCHANGED vars
  BY <1>3 DEF vars, listVars, OnlySpuriousPolls, HeadAcked
<1> QED
  BY <1>1, <1>2, <1>3

(* The quiet environment: less outstanding than the ring holds, no transmit
   error, no frame overtaking gmac_driver_tx, no reception while booting.  *)
Quiet == CleanWire /\ "rxAtBoot" \notin Env
QuietInv == IInv /\ LifeInv /\ FateInv /\ MatchInv /\ HwInv /\ AlertInv

LEMMA QuietHolds ==
  ASSUME Quiet
  PROVE  Spec => []QuietInv
<1>1. Init => QuietInv
  BY InitIInv, LifeInit, FateInit, MatchInit, HwInit, AlertInit DEF QuietInv
<1>2. QuietInv /\ IInv' /\ [Next]_vars => QuietInv'
  BY LifeStep, FateStep, MatchStep, HwStep, AlertStep
     DEF QuietInv, Quiet, CleanWire
<1> QED
  BY <1>1, <1>2, IInvHolds, PTL DEF Spec

(* In the quiet environment the assertions of the callbacks never fail, and
   those of the poll handler only when there is nothing to report: the list
   has no acknowledged frame that the failure would withhold.              *)
THEOREM AssertionsHoldOnAQuietWire ==
  ASSUME Quiet
  PROVE  Spec => []OnlySpuriousPolls
<1>1. Init => OnlySpuriousPolls
  BY DEF Init, OnlySpuriousPolls
<1>2. QuietInv /\ OnlySpuriousPolls /\ [Next]_vars => OnlySpuriousPolls'
  BY SpuriousStep DEF QuietInv, Quiet
<1> QED
  BY <1>1, <1>2, QuietHolds, PTL DEF Spec

-----------------------------------------------------------------------------
(* Refinement of TxService.                                                *)
Listed == [i \in DOMAIN pending |-> pending[i].frame]
Queue == IF elem = NoFrame THEN Listed ELSE Append(Listed, elem)
Carried == {f \in Frames : wire[f] = "sent"}

LEMMA ServiceInit == Init => Service!Init
BY DEF Init, RingInit, Service!Init, Frames, BootPcs

LEMMA ServiceStutter ==
  ASSUME UNCHANGED <<pending, elem, nextFrame, reported, wire>>,
         pc' \in Down <=> pc \in Down
  PROVE  UNCHANGED Service!vars
BY DEF Service!vars, Down

LEMMA ListedType ==
  ASSUME IInv
  PROVE  /\ Listed \in Seq(Frames) /\ Len(Listed) = Len(pending)
         /\ \A i \in 1 .. Len(pending) : Listed[i] = pending[i].frame
         /\ Queue \in Seq(Frames)
<1>1. \A i \in 1 .. Len(pending) : pending[i].frame \in Frames
  BY MatchTypes DEF Element
<1>2. Listed \in Seq(Frames) /\ Len(Listed) = Len(pending)
  BY <1>1, MatchTypes DEF Listed
<1>3. elem # NoFrame => elem \in Frames
  BY DEF IInv, TypeOK
<1>4. Queue \in Seq(Frames)
  BY <1>2, <1>3, AppendProperties DEF Queue
<1> QED
  BY <1>2, <1>4, MatchTypes DEF Listed

LEMMA ServiceQuiet ==
  ASSUME LifeInv, QuietSteps \/ IsrNoTx \/ IsrTx, ~GoIdle
  PROVE  UNCHANGED Service!vars
<1> USE DEF At, Goto, Down, BootPcs
<1>1. CASE IsrNoTx \/ IsrTx
  BY <1>1, ServiceStutter DEF IsrNoTx, IsrTx, IsrRx, threadVars, listVars
<1>2. CASE QuietSteps
  <2>1. /\ UNCHANGED <<pending, elem, nextFrame, reported, wire>>
        /\ pc' \in Down => pc \in Down
    BY <1>2, QuietStep DEF listVars
  <2>2. \A w : Fail(w) => pc' = pc
    BY DEF Fail, threadVars
  <2>3. pc \in Down => pc' \in Down
    <3>1. CASE FlushFrame \/ FlushDone \/ SetRxCallback
      BY <3>1 DEF FlushFrame, FlushDone, SetRxCallback
    <3>2. CASE Poll
      <4>1. CASE state \cap PendingBits = {}
        BY <2>2, <3>2, <4>1 DEF Poll
      <4>2. CASE state \cap PendingBits # {}
        <5>1. pc = "idle"
          BY <3>2, <4>2 DEF Poll, LifeInv, PendingBits
        <5> QED
          BY <5>1
      <4> QED
        BY <4>1, <4>2
    <3>3. CASE TxAdvance \/ PollRxLoad \/ PollRxStore \/ PollRxMask \/ PollRxFrame
               \/ PollRxInputDone \/ PollRxEnd \/ PollNoRx \/ PollNoTx
               \/ PollTxLoad \/ PollTxStore \/ PollTxMask \/ DrainEnd
      BY <3>3 DEF TxAdvance, PollRxLoad, PollRxStore, PollRxMask, PollRxFrame,
                  PollRxInputDone, PollRxEnd, PollNoRx, PollNoTx, PollTxLoad,
                  PollTxStore, PollTxMask, DrainEnd
    <3>4. CASE DrainFail \/ IsrRxFail \/ IsrAckFail
      BY <2>2, <3>4 DEF DrainFail, IsrRxFail, IsrAckFail
    <3>5. CASE IsrNotSent \/ Receive
      BY <3>5 DEF IsrNotSent, Receive, threadVars
    <3> QED
      BY <1>2, <3>1, <3>2, <3>3, <3>4, <3>5 DEF QuietSteps
  <2> QED
    BY <2>1, <2>3, ServiceStutter
<1> QED
  BY <1>1, <1>2

LEMMA ServiceLifeCycle ==
  ASSUME QuietInv, DriverInit \/ GoIdle \/ Exit
  PROVE  Service!Next
<1> USE DEF At, Goto, BootPcs
<1>1. CASE DriverInit
  <2>1. /\ pc = "off" /\ pc' = "boot" /\ pending' = <<>> /\ elem' = elem
        /\ UNCHANGED <<wire, nextFrame, reported>> /\ elem = NoFrame
    BY <1>1 DEF DriverInit, QuietInv, IInv, BuildingInv
  <2>2. Service!Lose
    BY <2>1 DEF Service!Lose
  <2> QED
    BY <2>2 DEF Service!Next
<1>2. CASE GoIdle
  <2>1. /\ pc = "ready" /\ pc' = "idle" /\ pending = <<>> /\ elem = NoFrame
        /\ UNCHANGED <<pending, elem, wire, nextFrame, reported>>
    BY <1>2 DEF GoIdle, QuietInv, IInv, BuildingInv, LifeInv, hwVars, listVars
  <2>2. Service!Start
    BY <2>1 DEF Service!Start
  <2> QED
    BY <2>2 DEF Service!Next
<1>3. CASE Exit
  <2>1. /\ pc = "idle" /\ pc' = "off"
        /\ UNCHANGED <<pending, elem, wire, nextFrame, reported>>
    BY <1>3 DEF Exit, hwVars, listVars
  <2>2. Service!Stop
    BY <2>1 DEF Service!Stop
  <2> QED
    BY <2>2 DEF Service!Next
<1> QED
  BY <1>1, <1>2, <1>3

LEMMA ServiceTransmit ==
  ASSUME QuietInv, Transmit
  PROVE  Service!Next
<1> USE DEF At, Caller, BootPcs
<1>1. CASE TxWrite
  <2>1. /\ pc \in {"idle", "rxInput"} /\ pc' = "txHead" /\ nextFrame <= MaxFrames
        /\ elem' = nextFrame /\ nextFrame' = nextFrame + 1
        /\ UNCHANGED <<pending, wire, reported>>
    BY <1>1 DEF TxWrite, hwVars
  <2>2. elem = NoFrame /\ nextFrame # NoFrame
    BY <2>1 DEF QuietInv, IInv, BuildingInv, TypeOK, NoFrame
  <2>3. Service!Accept
    BY <2>1, <2>2 DEF Service!Accept
  <2> QED
    BY <2>3 DEF Service!Next
<1>2. CASE TxNoMemory \/ TxOversize \/ TxBusy
  <2>1. /\ pc \in {"idle", "rxInput"} /\ nextFrame <= MaxFrames
        /\ nextFrame' = nextFrame + 1
        /\ \E error \in {"MAC_TX_ERR", "MAC_TX_ERR_FATAL"} :
             reported' = [reported EXCEPT ![nextFrame] = error]
        /\ UNCHANGED <<pc, elem, pending, wire>>
    BY <1>2 DEF TxNoMemory, TxOversize, TxBusy, Reject, hwVars, threadVars
  <2>2. Service!Refuse
    BY <2>1 DEF Service!Refuse
  <2> QED
    BY <2>2 DEF Service!Next
<1> QED
  BY <1>1, <1>2 DEF Transmit

LEMMA ServiceListAdd ==
  ASSUME QuietInv, TxListAdd
  PROVE  UNCHANGED Service!vars
<1> DEFINE e == [frame |-> elem, acked |-> FALSE, flag |-> {}]
           n == Len(pending)
<1>1. /\ pc = "txAdd" /\ pc' \in {"idle", "rxInput"} /\ elem' = NoFrame
      /\ pending' = Append(pending, e)
      /\ UNCHANGED <<nextFrame, reported, wire>>
  BY DEF TxListAdd, At, hwVars, QuietInv, IInv, TypeOK
<1>2. elem \in Frames /\ elem # NoFrame
  BY <1>1 DEF QuietInv, IInv, BuildingInv, TypeOK
<1>3. e \in Element /\ e.frame = elem
  BY <1>2 DEF Element
<1> HIDE DEF e
<1>4. /\ DOMAIN pending' = 1 .. n + 1
      /\ pending'[n + 1] = e /\ \A i \in 1 .. n : pending'[i] = pending[i]
  BY <1>1, <1>3, MatchTypes, AppendProperties, LenProperties DEF QuietInv
<1>5. Queue' = Queue
  <2>1. Queue' = [i \in 1 .. n + 1 |-> pending'[i].frame]
    BY <1>1, <1>4 DEF Queue, Listed
  <2>2. Queue = [i \in 1 .. n + 1 |-> IF i = n + 1 THEN elem ELSE pending[i].frame]
    <3>1. Listed = [i \in 1 .. n |-> pending[i].frame] /\ n \in Nat
      BY MatchTypes DEF Listed, QuietInv
    <3> QED
      BY <1>2, <3>1 DEF Queue
  <2>3. \A i \in 1 .. n + 1 :
          pending'[i].frame = IF i = n + 1 THEN elem ELSE pending[i].frame
    <3>1. \A i \in 1 .. n + 1 : i = n + 1 \/ i \in 1 .. n
      BY MatchTypes DEF QuietInv
    <3> QED
      BY <1>3, <1>4, <3>1
  <2> QED
    BY <2>1, <2>2, <2>3
<1> QED
  BY <1>1, <1>5 DEF Service!vars, Queue, Listed, BootPcs

LEMMA ServiceReport ==
  ASSUME QuietInv, DrainReport
  PROVE  Service!Report
<1> DEFINE n == Len(pending)
<1> USE DEF QuietInv
<1>1. /\ pending' = Tail(pending) /\ pending # <<>> /\ Head(pending).acked
      /\ pc \in {"drainFirst", "drain"} /\ pc' = "drain"
      /\ reported' = [reported EXCEPT ![Head(pending).frame] =
                                        MacStatus(Head(pending).flag)]
      /\ UNCHANGED <<wire, elem, nextFrame>>
  BY DEF DrainReport, HeadAcked, ReportHead, Goto, At, hwVars
<1>2. elem = NoFrame
  BY <1>1 DEF IInv, BuildingInv
<1>3. n >= 1 /\ Head(pending) = pending[1] /\ 1 \in DOMAIN pending
  BY <1>1, MatchTypes, EmptySeq
<1>4. pending[1].flag = {"TXCOMP"} /\ wire[pending[1].frame] = "sent"
  BY <1>1, <1>3 DEF HwInv, AckedSent
<1>5. MacStatus(Head(pending).flag) = "MAC_TX_OK"
  BY <1>3, <1>4 DEF MacStatus
<1>6. Listed # <<>> /\ Head(Listed) = pending[1].frame
  BY <1>3, MatchTypes, ListedType, EmptySeq
<1>7. Head(Listed) \in Carried
  BY <1>3, <1>4, <1>6, MatchTypes DEF Carried, Element
<1>8. Listed' = Tail(Listed)
  <2>1. /\ DOMAIN pending' = 1 .. n - 1
        /\ \A i \in 1 .. n - 1 : pending'[i] = pending[i + 1]
    BY <1>1, <1>3, MatchTypes, HeadTailProperties, LenProperties
  <2>2. /\ Tail(Listed) \in Seq(Frames) /\ Len(Tail(Listed)) = n - 1
        /\ \A i \in 1 .. n - 1 : Tail(Listed)[i] = Listed[i + 1]
    BY <1>6, ListedType, HeadTailProperties
  <2>3. \A i \in 1 .. n - 1 : Listed[i + 1] = pending[i + 1].frame
    BY ListedType, MatchTypes
  <2>4. Listed' = [i \in 1 .. n - 1 |-> pending[i + 1].frame]
    BY <2>1 DEF Listed
  <2>5. Tail(Listed) = [i \in 1 .. n - 1 |-> pending[i + 1].frame]
    BY <2>2, <2>3, LenProperties
  <2> QED
    BY <2>4, <2>5
<1>9. reported' = [reported EXCEPT ![Head(Listed)] = "MAC_TX_OK"]
  BY <1>1, <1>3, <1>5, <1>6
<1> QED
  BY <1>1, <1>2, <1>6, <1>7, <1>8, <1>9
     DEF Service!Report, Listed, Carried, BootPcs

LEMMA ServiceCarry ==
  ASSUME QuietInv, CleanWire, Controller
  PROVE  Service!Carry
<1> USE DEF QuietInv
<1> DEFINE f == txFrame[hwIdx]
<1>1. HwSend /\ f \in OnList /\ f \in Frames
  BY SentIsListed
<1>2. /\ wire' = [wire EXCEPT ![f] = "sent"]
      /\ UNCHANGED <<pc, elem, pending, nextFrame, reported>>
  BY <1>1 DEF HwSend, HwDone, Controller, threadVars, listVars
<1>3. Carried' = Carried \cup {f}
  BY <1>1, <1>2, HwTypes DEF Carried
<1>4. PICK i \in DOMAIN pending : f = pending[i].frame
  BY <1>1 DEF OnList
<1>5. i \in DOMAIN Queue /\ Queue[i] = f
  <2>1. i \in 1 .. Len(Listed) /\ Listed[i] = f
    BY <1>4, MatchTypes, ListedType
  <2>2. CASE elem = NoFrame
    BY <2>1, <2>2, ListedType, LenProperties DEF Queue
  <2>3. CASE elem # NoFrame
    <3>1. elem \in Frames
      BY <2>3 DEF IInv, TypeOK
    <3> QED
      BY <2>1, <2>3, <3>1, ListedType, AppendProperties, LenProperties DEF Queue
  <2> QED
    BY <2>2, <2>3
<1>6. Carried' = Carried \cup {Queue[i]}
  BY <1>3, <1>5
<1> HIDE DEF f
<1> QED
  BY <1>2, <1>5, <1>6 DEF Service!Carry, Queue, Listed, Carried

LEMMA ServiceStep ==
  ASSUME QuietInv, CleanWire, [Next]_vars
  PROVE  [Service!Next]_(Service!vars)
<1>1. CASE (QuietSteps \/ IsrNoTx \/ IsrTx) /\ ~GoIdle
  BY <1>1, ServiceQuiet DEF QuietInv
<1>2. CASE DriverInit \/ GoIdle \/ Exit
  BY <1>2, ServiceLifeCycle
<1>3. CASE Transmit
  BY <1>3, ServiceTransmit
<1>4. CASE TxListAdd
  BY <1>4, ServiceListAdd
<1>5. CASE DrainReport
  BY <1>5, ServiceReport DEF Service!Next
<1>6. ~IsrRetryLimit
  BY DEF IsrRetryLimit, QuietInv, MatchInv, RoomInv
<1>7. CASE IsrAck
  <2>1. PICK k \in Nat : Match(k)
    BY DEF QuietInv, MatchInv
  <2>2. /\ DOMAIN pending' = DOMAIN pending
        /\ \A i \in DOMAIN pending : pending'[i].frame = pending[i].frame
    BY <1>7, <2>1, AckedIsNext, MatchTypes DEF QuietInv
  <2>3. UNCHANGED <<pc, elem, nextFrame, reported, wire>>
    BY <1>7 DEF IsrAck, threadVars, hwVars
  <2> QED
    BY <2>2, <2>3 DEF Service!vars
<1>8. CASE Controller
  BY <1>8, ServiceCarry DEF Service!Next
<1>9. CASE UNCHANGED vars
  BY <1>9, ServiceStutter DEF vars, hwVars, threadVars, listVars
<1> QED
  BY <1>1, <1>2, <1>3, <1>4, <1>5, <1>6, <1>7, <1>8, <1>9
     DEF Next, QuietSteps, LifeCycle, TransmitRest, PollHandler, Handler

(* In the quiet environment the driver, its interrupt handler and the
   controller together implement TxService: frames are refused at once or
   accepted, carried, and reported once, in order and never before they were
   carried, whatever the interleaving, restarts included.                  *)
THEOREM DriverImplementsService ==
  ASSUME Quiet
  PROVE  Spec => ServiceSpec
<1>1. QuietInv /\ [Next]_vars => [Service!Next]_(Service!vars)
  BY ServiceStep DEF Quiet
<1> QED
  BY <1>1, ServiceInit, QuietHolds, PTL DEF Spec, ServiceSpec, Service!Spec
=============================================================================
