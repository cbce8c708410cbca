----------------------------- MODULE GmacDriver -----------------------------
(***************************************************************************)
(* gmac-drv.c, the Contiki process that drives the Ethernet controller,    *)
(* with the interrupt handler gmac_handler of gmac_raw.c and the           *)
(* controller itself.  Three actors interleave:                            *)
(*                                                                         *)
(*  - the thread: the boot sequence of gmac_driver_process, gmac_driver_tx *)
(*    (called by the main loop, or from the network stack while the poll   *)
(*    handler delivers a frame) and gmac_driver_pollhandler, cut wherever  *)
(*    the interrupt may observe or disturb the state;                      *)
(*  - the interrupt handler, which preempts the thread: register reads,    *)
(*    then one step per turn of its loop over the descriptors;             *)
(*  - the controller, which runs beside both.                              *)
(*                                                                         *)
(* A failed assert() stops the program: fault names it and no step follows.*)
(***************************************************************************)
EXTENDS GmacTxRing, Sequences, FiniteSets

CONSTANTS
  PoolSize,        (* GMAC_DRV_TX_PENDING_MAX_QUEUE_LEN                    *)
  MaxOutstanding,  (* bound: frames the upper layers have in the driver    *)
  MaxRxQueue       (* bound: complete frames in the receive ring           *)

ASSUME DriverAssumption ==
  /\ PoolSize \in Nat \ {0}
  /\ MaxOutstanding \in Nat
  /\ MaxRxQueue \in Nat

VARIABLES
  state,      (* gmac_drv_device.state, as the set of its bits             *)
  needspoll,  (* gmac_driver_process.needspoll                             *)
  pending,    (* gmac_drv_tx_pending_list                                  *)
  blocks,     (* number of allocated blocks of gmac_drv_tx_pending_mem     *)
  pc,         (* where the thread is                                       *)
  ret,        (* where gmac_driver_tx returns to                           *)
  elem,       (* frame of the element gmac_driver_tx is still building     *)
  reg,        (* processor register holding the loaded state               *)
  isrPc,      (* "out", or "loop" inside the handler's do-while            *)
  txFlag,     (* ul_tx_status_flag of the running handler                  *)
  irqOn,      (* GMAC_IRQn is enabled in the interrupt controller          *)
  rxq,        (* complete frames in the receive ring (module GmacRx)       *)
  rxCb,       (* func_rx_cb is registered                                  *)
  nextFrame,  (* the next frame the upper layers submit                    *)
  reported,   (* status given to the sent callback of every frame          *)
  fault       (* the assertion that failed, or "none"                      *)

threadVars == <<pc, ret, elem, reg>>
listVars   == <<pending, blocks, nextFrame, reported>>
flagVars   == <<state, needspoll>>
isrVars    == <<isrPc, txFlag>>
rxVars     == <<rxq, rxCb>>
vars == <<ringVars, hwVars, threadVars, listVars, flagVars, isrVars, rxVars,
          irqOn, fault>>

StateBits == {"NOT_INITIALIZED", "IDLE", "PENDING_RX", "PENDING_TX"}
PendingBits == {"PENDING_RX", "PENDING_TX"}
Reports == {"none", "MAC_TX_OK", "MAC_TX_ERR", "MAC_TX_ERR_FATAL"}
BootPcs == {"boot", "flush", "flushed", "ready"}
Pcs == BootPcs \cup
       {"off", "idle", "txHead", "txAdd", "poll", "rxLoaded", "rxMask", "rxRead",
        "rxInput", "txCheck", "txLoaded", "txMask", "drainFirst", "drain"}
Faults == {"none", "rx callback: not initialized", "tx callback: not initialized",
           "tx callback: list empty", "tx callback: nothing to ack",
           "poll: no event", "poll: list empty", "poll: none acked",
           "poll: unknown status"}

Element == [frame : Frames, acked : BOOLEAN, flag : SUBSET TsrBits]

(* Type invariant.                                                         *)
TypeOK ==
  /\ RingTypeOK
  /\ state \subseteq StateBits /\ reg \subseteq StateBits
  /\ needspoll \in BOOLEAN /\ irqOn \in BOOLEAN /\ rxCb \in BOOLEAN
  /\ pending \in Seq(Element)
  /\ blocks \in 0 .. PoolSize
  /\ pc \in Pcs /\ ret \in {"idle", "rxInput"}
  /\ elem \in Frames \cup {NoFrame}
  /\ isrPc \in {"out", "loop"} /\ txFlag \subseteq TsrBits
  /\ rxq \in 0 .. MaxRxQueue
  /\ nextFrame \in 1 .. MaxFrames + 1
  /\ reported \in [Frames -> Reports]
  /\ fault \in Faults

Init ==
  /\ RingInit
  /\ state = {"NOT_INITIALIZED"} /\ reg = {}
  /\ needspoll = FALSE /\ irqOn = FALSE /\ rxCb = FALSE
  /\ pending = <<>> /\ blocks = 0
  /\ pc = "off" /\ ret = "idle" /\ elem = NoFrame
  /\ isrPc = "out" /\ txFlag = {}
  /\ rxq = 0 /\ nextFrame = 1
  /\ reported = [f \in Frames |-> "none"]
  /\ fault = "none"

(* The thread is at p and runs: no interrupt handler is active.            *)
At(p) == fault = "none" /\ isrPc = "out" /\ pc = p

Goto(p) == pc' = p /\ UNCHANGED <<ret, elem, reg>>

(* assert() failed: the program stops where it is.                         *)
Fail(which) ==
  /\ fault' = which
  /\ UNCHANGED <<ringVars, hwVars, threadVars, listVars, flagVars, isrVars,
                 rxVars, irqOn>>

-----------------------------------------------------------------------------
(* Life cycle of the driver process.                                       *)

(* gmac_driver_init: the list, the pool and the device memory start afresh;
   interrupts are on from here; process_start runs to PROCESS_PAUSE.       *)
DriverInit ==
  /\ At("off") /\ state = {"NOT_INITIALIZED"}
  /\ pending' = <<>> /\ blocks' = 0
  /\ ResetTxMem /\ tsr' = {} /\ isr' = {}
  /\ rxq' = 0
  /\ irqOn' = TRUE
  /\ Goto("boot")
  /\ UNCHANGED <<wire, nextFrame, reported, flagVars, isrVars, rxCb, fault>>

(* gmac_dev_read returns no frame: there is none, or it failed and dropped
   what it had met (module GmacRx).                                        *)
NoFrameRead == rxq' \in 0 .. (IF rxq = 0 THEN 0 ELSE rxq - 1)

(* The flush loop of the process: read until gmac_dev_read gives no frame. *)
FlushFrame ==
  /\ At("boot") \/ At("flush")
  /\ rxq > 0
  /\ rxq' = rxq - 1
  /\ Goto("flush")
  /\ UNCHANGED <<ringVars, hwVars, listVars, flagVars, isrVars, rxCb, irqOn, fault>>

FlushDone ==
  /\ At("boot") \/ At("flush")
  /\ NoFrameRead
  /\ Goto("flushed")
  /\ UNCHANGED <<ringVars, hwVars, listVars, flagVars, isrVars, rxCb, irqOn, fault>>

SetRxCallback ==
  /\ At("flushed")
  /\ rxCb' = TRUE
  /\ Goto("ready")
  /\ UNCHANGED <<ringVars, hwVars, listVars, flagVars, isrVars, rxq, irqOn, fault>>

(* A plain store, then connect_event(1): the upper layers may transmit.    *)
GoIdle ==
  /\ At("ready")
  /\ state' = {"IDLE"}
  /\ Goto("idle")
  /\ UNCHANGED <<ringVars, hwVars, listVars, needspoll, isrVars, rxVars, irqOn, fault>>

(* gmac_driver_exit posted PROCESS_EVENT_EXIT and the process handles it:
   interrupts off, state reset, connect_event(0).  Nothing is cleared.     *)
Exit ==
  /\ "exit" \in Env
  /\ At("idle")
  /\ irqOn' = FALSE
  /\ state' = {"NOT_INITIALIZED"}
  /\ Goto("off")
  /\ UNCHANGED <<ringVars, hwVars, listVars, needspoll, isrVars, rxVars, fault>>

-----------------------------------------------------------------------------
(* gmac_driver_tx, called by the main loop or by NETSTACK_0_MAC.input().   *)

Caller == /\ At("idle") \/ At("rxInput")
          /\ nextFrame <= MaxFrames
          /\ Len(pending) < MaxOutstanding

RejectSilently(status) ==
  /\ nextFrame' = nextFrame + 1
  /\ UNCHANGED <<ringVars, hwVars, threadVars, pending, reported, flagVars,
                 isrVars, rxVars, irqOn, fault>>
Reject(status) ==
  /\ nextFrame' = nextFrame + 1
  /\ reported' = [reported EXCEPT ![nextFrame] = status]
  /\ UNCHANGED <<ringVars, hwVars, threadVars, pending, flagVars, isrVars,
                 rxVars, irqOn, fault>>

(* memb_alloc finds no free block.                                         *)
TxNoMemory ==
  /\ Caller
  /\ blocks = PoolSize
  /\ Reject("MAC_TX_ERR_FATAL")
  /\ UNCHANGED blocks

(* gmac_dev_write rejects a frame longer than GMAC_TX_UNITSIZE; memb_free. *)
TxOversize ==
  /\ Caller
  /\ blocks < PoolSize
  /\ Reject("MAC_TX_ERR_FATAL")
  /\ UNCHANGED blocks

(* gmac_dev_write finds no free descriptor; memb_free.                     *)
TxBusy ==
  /\ Caller
  /\ blocks < PoolSize
  /\ WriteBusy
  /\ Reject("MAC_TX_ERR")
  /\ UNCHANGED blocks

(* gmac_dev_write fills the head slot and hands it to the controller ...   *)
TxWrite ==
  /\ Caller
  /\ blocks < PoolSize
  /\ WriteSlot(nextFrame)
  /\ blocks' = blocks + 1
  /\ nextFrame' = nextFrame + 1
  /\ elem' = nextFrame
  /\ ret' = pc
  /\ pc' = "txHead"
  /\ UNCHANGED <<hwVars, reg, pending, reported, flagVars, isrVars, rxVars,
                 irqOn, fault>>

(* ... advances the head index and starts the transmission ...             *)
TxAdvance ==
  /\ At("txHead")
  /\ AdvanceHead
  /\ Goto("txAdd")
  /\ UNCHANGED <<hwVars, listVars, flagVars, isrVars, rxVars, irqOn, fault>>

(* ... and only then gmac_driver_tx adds the element to the pending list.  *)
TxListPush ==
  /\ At("txAdd")
  /\ pending' = <<[frame |-> elem, acked |-> FALSE, flag |-> {}]>> \o pending
  /\ pc' = ret /\ elem' = NoFrame
  /\ UNCHANGED <<ringVars, hwVars, ret, reg, blocks, nextFrame, reported,
                 flagVars, isrVars, rxVars, irqOn, fault>>
TxListAdd ==
  /\ At("txAdd")
  /\ pending' = Append(pending, [frame |-> elem, acked |-> FALSE, flag |-> {}])
  /\ pc' = ret /\ elem' = NoFrame
  /\ UNCHANGED <<ringVars, hwVars, ret, reg, blocks, nextFrame, reported,
                 flagVars, isrVars, rxVars, irqOn, fault>>

-----------------------------------------------------------------------------
(* gmac_driver_pollhandler, called by process.c which clears needspoll.    *)

Poll ==
  /\ At("idle") \/ At("boot")
  /\ needspoll
  /\ IF state \cap PendingBits = {}
     THEN Fail("poll: no event")
     ELSE /\ needspoll' = FALSE
          /\ Goto("poll")
          /\ UNCHANGED <<ringVars, hwVars, listVars, state, isrVars, rxVars,
                         irqOn, fault>>

(* state &= ~bit is a load and a store; the interrupt handler may run in
   between and its update is then overwritten.                             *)
LoadState(bit, next) ==
  /\ bit \in state
  /\ reg' = state
  /\ pc' = next
  /\ UNCHANGED <<ringVars, hwVars, ret, elem, listVars, flagVars, isrVars,
                 rxVars, irqOn, fault>>

StoreWithout(bit, next) ==
  /\ state' = reg \ {bit}
  /\ reg' = {}
  /\ pc' = next
  /\ UNCHANGED <<ringVars, hwVars, ret, elem, listVars, needspoll, isrVars,
                 rxVars, irqOn, fault>>

(* With GMAC_IRQn disabled: forget the poll request if nothing is pending. *)
ForgetPoll(next) ==
  /\ needspoll' = (needspoll /\ state \cap PendingBits # {})
  /\ Goto(next)
  /\ UNCHANGED <<ringVars, hwVars, listVars, state, isrVars, rxVars, irqOn, fault>>

PollRxLoad  == At("poll") /\ LoadState("PENDING_RX", "rxLoaded")
PollRxStore == At("rxLoaded") /\ StoreWithout("PENDING_RX", "rxMask")
PollRxMask  == At("rxMask") /\ ForgetPoll("rxRead")

(* gmac_dev_read returned a frame: NETSTACK_0_MAC.input() runs at "rxInput"
   and may transmit before it returns.                                     *)
PollRxFrame ==
  /\ At("rxRead")
  /\ rxq > 0
  /\ rxq' = rxq - 1
  /\ Goto("rxInput")
  /\ UNCHANGED <<ringVars, hwVars, listVars, flagVars, isrVars, rxCb, irqOn, fault>>

PollRxInputDone ==
  /\ At("rxInput")
  /\ Goto("rxRead")
  /\ UNCHANGED <<ringVars, hwVars, listVars, flagVars, isrVars, rxVars, irqOn, fault>>

(* The loop ends, with frames left in the ring if the read failed.         *)
PollRxEnd ==
  /\ At("rxRead")
  /\ NoFrameRead
  /\ Goto("txCheck")
  /\ UNCHANGED <<ringVars, hwVars, listVars, flagVars, isrVars, rxCb, irqOn, fault>>

PollNoRx ==
  /\ At("poll")
  /\ "PENDING_RX" \notin state
  /\ Goto("txCheck")
  /\ UNCHANGED <<ringVars, hwVars, listVars, flagVars, isrVars, rxVars, irqOn, fault>>

PollNoTx ==
  /\ At("txCheck")
  /\ "PENDING_TX" \notin state
  /\ Goto("idle")
  /\ UNCHANGED <<ringVars, hwVars, listVars, flagVars, isrVars, rxVars, irqOn, fault>>

PollTxLoad  == At("txCheck") /\ LoadState("PENDING_TX", "txLoaded")
PollTxStore == At("txLoaded") /\ StoreWithout("PENDING_TX", "txMask")
PollTxMask  == At("txMask") /\ ForgetPoll("drainFirst")

(* The status the poll handler derives from the flags the interrupt left.  *)
MacStatusByBit(flag) ==
  CASE "RLE" \in flag                 -> "MAC_TX_ERR_FATAL"
    [] {"COL", "UND"} \cap flag # {} -> "MAC_TX_ERR"
    [] OTHER                          -> "MAC_TX_OK"
MacStatus(flag) ==
  CASE flag = {"TXCOMP"}          -> "MAC_TX_OK"
    [] flag = {"RLE"}             -> "MAC_TX_ERR_FATAL"
    [] flag \in {{"COL"}, {"UND"}} -> "MAC_TX_ERR"
    [] OTHER                      -> "none"

(* The callback, memb_free and list_pop for the acknowledged list head.    *)
ReportHeadNoPop ==
  LET e == Head(pending) IN
  /\ MacStatus(e.flag) # "none"
  /\ reported' = [reported EXCEPT ![e.frame] = MacStatus(e.flag)]
  /\ pending' = pending
  /\ blocks' = blocks - 1
  /\ Goto("drain")
  /\ UNCHANGED <<ringVars, hwVars, nextFrame, flagVars, isrVars, rxVars, irqOn, fault>>
ReportHead ==
  LET e == Head(pending) IN
  /\ MacStatus(e.flag) # "none"
  /\ reported' = [reported EXCEPT ![e.frame] = MacStatus(e.flag)]
  /\ pending' = Tail(pending)
  /\ blocks' = blocks - 1
  /\ Goto("drain")
  /\ UNCHANGED <<ringVars, hwVars, nextFrame, flagVars, isrVars, rxVars, irqOn, fault>>

HeadAcked == pending # <<>> /\ Head(pending).acked

DrainOnlyOne ==
  /\ At("drainFirst") /\ HeadAcked
  /\ MacStatus(Head(pending).flag) # "none"
  /\ reported' = [reported EXCEPT ![Head(pending).frame] =
                                    MacStatus(Head(pending).flag)]
  /\ pending' = Tail(pending) /\ blocks' = blocks - 1
  /\ Goto("idle")
  /\ UNCHANGED <<ringVars, hwVars, nextFrame, flagVars, isrVars, rxVars, irqOn, fault>>
DrainReport == (At("drainFirst") \/ At("drain")) /\ HeadAcked /\ ReportHead

DrainEnd ==
  /\ At("drain")
  /\ ~HeadAcked
  /\ Goto("idle")
  /\ UNCHANGED <<ringVars, hwVars, listVars, flagVars, isrVars, rxVars, irqOn, fault>>

DrainFail ==
  \/ /\ At("drainFirst") /\ ~HeadAcked
     /\ Fail(IF pending = <<>> THEN "poll: list empty" ELSE "poll: none acked")
  \/ /\ At("drainFirst") \/ At("drain")
     /\ HeadAcked /\ MacStatus(Head(pending).flag) = "none"
     /\ Fail("poll: unknown status")

-----------------------------------------------------------------------------
(* gmac_handler with the callbacks of gmac-drv.c.                          *)

IsrStarts == fault = "none" /\ isrPc = "out" /\ irqOn /\ isr # {}
RxCalled  == "RCOMP" \in isr /\ rxCb
TxNoticed == "TCOMP" \in isr \/ "TXCOMP" \in tsr

(* gmac_dev_rx_callback's assertion.                                       *)
IsrRxFail ==
  /\ IsrStarts /\ RxCalled
  /\ "NOT_INITIALIZED" \in state
  /\ Fail("rx callback: not initialized")

(* The receive half of the handler: reading isr cleared it; the callback
   records the event and polls the process.                                *)
IsrRx ==
  /\ IsrStarts
  /\ ~(RxCalled /\ "NOT_INITIALIZED" \in state)
  /\ isr' = {}
  /\ state' = IF RxCalled THEN state \cup {"PENDING_RX"} ELSE state
  /\ needspoll' = (needspoll \/ RxCalled)
  /\ UNCHANGED <<threadVars, listVars, rxVars, irqOn, fault, wire>>

IsrNoTx ==
  /\ IsrRx
  /\ ~TxNoticed
  /\ UNCHANGED <<ringVars, hwIdx, tsr, isrVars>>

(* The flags passed to every callback of this run; they are cleared.       *)
IsrTx ==
  /\ IsrRx
  /\ TxNoticed /\ "RLE" \notin tsr
  /\ txFlag' = {"TXCOMP"} \cup (tsr \cap {"COL", "UND"})
  /\ tsr' = tsr \ txFlag'
  /\ isrPc' = IF CircEmpty THEN "out" ELSE "loop"
  /\ UNCHANGED <<ringVars, hwIdx>>

(* Retry limit exceeded: the transmit memory is reset, so the handler finds
   an empty ring and calls nobody.  TXCOMP stays set.                      *)
IsrRetryLimit ==
  /\ IsrRx
  /\ TxNoticed /\ "RLE" \in tsr
  /\ txFlag' = {"RLE"} \cup (tsr \cap {"COL", "UND"})
  /\ tsr' = tsr \ txFlag'
  /\ ResetTxMem
  /\ UNCHANGED isrPc

InLoop == fault = "none" /\ isrPc = "loop"

(* The descriptor has been sent; the loop goes round once more after it.   *)
SlotSentUnchecked == TRUE
SlotSent == txUsed[txTail]
MoreSlotsNever == FALSE
MoreSlots == (txHead - CircInc(txTail)) % TxSize # 0

IsrNotSent ==
  /\ InLoop
  /\ ~SlotSent
  /\ isrPc' = "out"
  /\ UNCHANGED <<ringVars, hwVars, threadVars, listVars, flagVars, txFlag,
                 rxVars, irqOn, fault>>

Unacked == {i \in DOMAIN pending : ~pending[i].acked}

(* gmac_dev_tx_callback acknowledges the first element not acknowledged.   *)
AckLast ==
  \E i \in Unacked :
    /\ \A j \in Unacked : j <= i
    /\ pending' =
         [pending EXCEPT ![i] = [@ EXCEPT !.acked = TRUE, !.flag = txFlag]]
Ack ==
  \E i \in Unacked :
    /\ \A j \in Unacked : i <= j
    /\ pending' =
         [pending EXCEPT ![i] = [@ EXCEPT !.acked = TRUE, !.flag = txFlag]]

IsrAck ==
  /\ InLoop
  /\ SlotSent
  /\ "NOT_INITIALIZED" \notin state
  /\ Ack
  /\ state' = state \cup {"PENDING_TX"}
  /\ needspoll' = TRUE
  /\ AdvanceTail
  /\ isrPc' = IF MoreSlots THEN "loop" ELSE "out"
  /\ UNCHANGED <<hwVars, threadVars, blocks, nextFrame, reported, txFlag,
                 rxVars, irqOn, fault>>

(* Its assertions, in the order in which it makes them.                    *)
AckFault ==
  CASE "NOT_INITIALIZED" \in state -> "tx callback: not initialized"
    [] pending = <<>>              -> "tx callback: list empty"
    [] OTHER                       -> "tx callback: nothing to ack"

IsrAckFail ==
  /\ InLoop
  /\ SlotSent
  /\ "NOT_INITIALIZED" \in state \/ Unacked = {}
  /\ Fail(AckFault)

-----------------------------------------------------------------------------
(* The controller.                                                         *)

(* It finishes no frame that gmac_driver_tx is still busy with, unless
   something delayed the thread long enough.                               *)
WireMayFinish == "fastWire" \in Env \/ txFrame[hwIdx] # elem

Controller ==
  /\ fault = "none"
  /\ WireMayFinish
  /\ HwSend \/ HwError \/ HwAbandon
  /\ UNCHANGED <<threadVars, listVars, flagVars, isrVars, rxVars, irqOn, fault>>

Receive ==
  /\ fault = "none"
  /\ "rx" \in Env /\ pc # "off" /\ rxq < MaxRxQueue
  /\ pc \in BootPcs => "rxAtBoot" \in Env
  /\ rxq' = rxq + 1
  /\ isr' = isr \cup {"RCOMP"}
  /\ UNCHANGED <<ringVars, hwIdx, tsr, wire, threadVars, listVars, flagVars,
                 isrVars, rxCb, irqOn, fault>>

-----------------------------------------------------------------------------
LifeCycle == \/ DriverInit \/ FlushFrame \/ FlushDone \/ SetRxCallback \/ GoIdle
             \/ Exit
Transmit == TxNoMemory \/ TxOversize \/ TxBusy \/ TxWrite
TransmitRest == TxAdvance \/ TxListAdd
PollHandler == \/ Poll \/ PollRxLoad \/ PollRxStore \/ PollRxMask \/ PollRxFrame
               \/ PollRxInputDone \/ PollRxEnd \/ PollNoRx \/ PollNoTx
               \/ PollTxLoad \/ PollTxStore \/ PollTxMask
               \/ DrainReport \/ DrainEnd \/ DrainFail
Handler == \/ IsrRxFail \/ IsrNoTx \/ IsrTx \/ IsrRetryLimit
           \/ IsrNotSent \/ IsrAck \/ IsrAckFail

Next == LifeCycle \/ Transmit \/ TransmitRest \/ PollHandler \/ Handler
        \/ Controller \/ Receive

Spec == Init /\ [][Next]_vars

(* The controller sends what it is given, an enabled interrupt is taken and
   returns, and the main loop keeps running the process.  Nothing obliges
   the network stack to transmit, the wire to carry a frame to us, or the
   driver to exit.                                                         *)
FairSpec ==
  /\ Spec
  /\ WF_vars(Controller /\ HwSend)
  /\ WF_vars(Handler)
  /\ WF_vars(DriverInit \/ FlushFrame \/ FlushDone \/ SetRxCallback \/ GoIdle)
  /\ WF_vars(TransmitRest)
  /\ WF_vars(PollHandler)

-----------------------------------------------------------------------------
(* Properties.                                                             *)

OnList == {pending[i].frame : i \in DOMAIN pending}
Building == {elem} \ {NoFrame}

(* The acknowledged elements are a prefix of the pending list, whatever the
   interleaving: the handler acknowledges the first free one, the poll
   handler only takes the head, gmac_driver_tx only adds at the end.       *)
AckedPrefix ==
  \A i, j \in DOMAIN pending : i < j /\ pending[j].acked => pending[i].acked

(* No block of gmac_drv_tx_pending_mem leaks or is handed out twice: the
   allocated blocks are those on the list and the one being filled in.     *)
PoolAccounting == blocks = Len(pending) + (IF elem = NoFrame THEN 0 ELSE 1)

(* The list holds frames in the order of submission, all older than the one
   gmac_driver_tx is working on, and none that was reported already: the
   poll handler can neither report out of order nor report twice.          *)
SubmissionOrder ==
  /\ \A i, j \in DOMAIN pending : i < j => pending[i].frame < pending[j].frame
  /\ \A f \in OnList : elem # NoFrame => f < elem
  /\ \A f \in OnList \cup Building : f < nextFrame /\ reported[f] = "none"

(* As long as the driver is not told to exit, every submitted frame is in
   some place: reported to the upper layers, on the list, or still in the
   hands of gmac_driver_tx; none is forgotten without a callback.          *)
FrameConservation ==
  /\ \A f \in Frames :
       f < nextFrame <=> (reported[f] # "none" \/ f \in OnList \cup Building)
  /\ OnList \cap Building = {}

(* A frame the controller sent is never reported as failed, although the
   flags the poll handler judges it by may be those of its neighbours in the
   ring.  (The converse does not hold: see the note on the flags of several
   frames in the documentation.)                                           *)
SentNeverReportedFailed ==
  \A f \in Frames : wire[f] = "sent" => reported[f] \in {"none", "MAC_TX_OK"}

(* The descriptors between tail and head hold, in order, the frames of the
   list that are not acknowledged yet, then the one still being added: what
   makes it safe for the handler to acknowledge "the first in line".       *)
InFlight ==
  LET n == (txHead - txTail) % TxSize
  IN [k \in 1 .. n |-> txFrame[(txTail + k - 1) % TxSize]]
Awaiting ==
  LET first == Cardinality(DOMAIN pending \ Unacked)
      listed == [k \in 1 .. Len(pending) - first |-> pending[first + k].frame]
  IN IF pc = "txAdd" THEN Append(listed, elem) ELSE listed
RingMatchesList == isrPc = "out" => InFlight = Awaiting

(* The assertions of the poll handler on the pending list.                 *)
PollFindsAcked == fault \notin {"poll: list empty", "poll: none acked"}

(* While the ring does not overflow and the wire reports no error, the only
   assertions that can fail are those of the poll handler, and when one does
   there is nothing to report: what is wrong is the request to poll.  Those
   of the callbacks hold: "So it is safe to go through the pending packets
   in the list and to acknowledge the first in line."                      *)
OnlySpuriousPolls ==
  fault # "none" =>
    /\ fault \in {"poll: no event", "poll: list empty", "poll: none acked"}
    /\ ~HeadAcked

(* An acknowledged frame is never stranded: when the thread is idle it is
   scheduled to be polled, with the flag that makes the poll report it.    *)
NoLostWakeup ==
  At("idle") /\ HeadAcked => needspoll /\ "PENDING_TX" \in state

(* Every frame the upper layers hand over gets its sent callback, unless an
   assertion stops the program first.                                      *)
EveryFrameReported ==
  \A f \in Frames :
    (f < nextFrame) ~> (reported[f] # "none" \/ fault # "none")

(* "Always leave one free": a full ring never looks like an empty one, so
   the controller owns no descriptor when the indices are equal.           *)
EmptyRingIsIdle ==
  CircEmpty /\ pc # "txHead" => \A s \in Slots : txUsed[s]

(* The driver implements what the layers above are promised.               *)
Service == INSTANCE TxService WITH
  up       <- pc \notin BootPcs \cup {"off"},
  next     <- nextFrame,
  queue    <- LET listed == [i \in DOMAIN pending |-> pending[i].frame]
              IN IF elem = NoFrame THEN listed ELSE Append(listed, elem),
  carried  <- {f \in Frames : wire[f] = "sent"}
ServiceSpec == Service!Spec
=============================================================================
