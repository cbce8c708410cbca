------------------------------- MODULE GmacRx -------------------------------
(***************************************************************************)
(* The receive half of gmac_raw.c: a ring of RxSize descriptors, each with *)
(* a buffer of 128 bytes, that the Ethernet controller fills fragment by   *)
(* fragment and that gmac_dev_read, called in a loop by the poll handler   *)
(* of gmac-drv.c, walks at the same time.  The OWNERSHIP bit of a          *)
(* descriptor passes it to the processor and back.                         *)
(*                                                                         *)
(* What makes the poll handler read is the PENDING_RX bit of the driver's  *)
(* state, set by the receive interrupt and cleared by the handler with a   *)
(* load and a store; the process reads the ring once more when it starts,  *)
(* before there is a callback.  Both are modelled step by step, with the   *)
(* transmit interrupt and the transmit half of the handler as far as they  *)
(* touch that state.  What the handler does with the transmit list, its    *)
(* assertions, and driver exit and restart are module GmacDriver's.        *)
(*                                                                         *)
(* The controller may give a frame up after some of its fragments are in   *)
(* the ring (an error, or no free buffer for the next one): the ring then  *)
(* holds a start without an end, which gmac_dev_read has to discard.       *)
(***************************************************************************)
EXTENDS Integers, Sequences

CONSTANTS
  RxSize,      (* us_rx_list_size, the number of receive descriptors       *)
  MaxFrames,   (* bound: frames that arrive in a behaviour                 *)
  MaxParts,    (* bound: buffers a frame on the wire takes                 *)
  ReadParts    (* buffers that ETHERNET_MAX_FRAME_LEN bytes take           *)

ASSUME RxAssumption ==
  /\ RxSize \in Nat /\ RxSize > 1       \* gmac_init_mem rejects sizes <= 1
  /\ MaxFrames \in Nat
  /\ MaxParts \in Nat \ {0} /\ ReadParts \in Nat \ {0}

Slots == 0 .. RxSize - 1

(* What a buffer and its status word hold: part i of the n of a frame.     *)
Fragment == {b \in [frame : 1 .. MaxFrames, part : 1 .. MaxParts, of : 1 .. MaxParts] :
               b.part <= b.of}
Blank == [frame |-> 0, part |-> 0, of |-> 0]
IsSof(b) == b.part = 1                       \* GMAC_RXD_SOF
IsEof(b) == b.part = b.of /\ b # Blank       \* GMAC_RXD_EOF

VARIABLES
  own,        (* the OWNERSHIP bit: the processor may read the descriptor  *)
  buf,        (* what was last written to every descriptor                 *)
  rxIdx,      (* us_rx_idx                                                 *)
  dmaIdx,     (* the controller's receive queue pointer                    *)
  incoming,   (* the next fragment the controller will write, or Blank     *)
  arrived,    (* frames that have started to arrive                        *)
  rcomp,      (* a frame is complete and its interrupt not yet taken       *)
  rxCb,       (* gmac_dev_set_rx_callback has been called                  *)
  state,      (* gmac_drv_device.state, a set of bits                      *)
  reg,        (* the copy of state that a read-modify-write has loaded     *)
  needspoll,  (* gmac_driver_process.needspoll                             *)
  missed,     (* history: what became of the notice of a frame last        *)
  pc,         (* where the driver process is                               *)
  tmpIdx, td, (* us_tmp_idx, and the descriptor p_rx_td points at          *)
  isFrame,    (* c_is_frame                                                *)
  got,        (* what was copied to the application frame so far           *)
  skipped,    (* history: this call discarded a frame it had begun         *)
  status,     (* what the last call of gmac_dev_read returned              *)
  delivered   (* history: what NETSTACK_0_MAC.input() was called with      *)

dmaVars  == <<dmaIdx, incoming, arrived>>
walkVars == <<tmpIdx, td, isFrame, got, skipped>>
ringVars == <<own, buf, rxIdx, dmaVars>>
pollVars == <<state, reg, needspoll>>
noticeVars == <<rcomp, rxCb, pollVars>>
vars == <<ringVars, noticeVars, missed, pc, walkVars, status, delivered>>

PendingBits == {"PENDING_RX", "PENDING_TX"}
StateBits == {"NOT_INITIALIZED", "IDLE"} \cup PendingBits
Statuses == {"GMAC_OK", "GMAC_RX_NO_DATA", "GMAC_RX_ERROR", "GMAC_SIZE_TOO_SMALL"}

(* Type invariant.                                                         *)
TypeOK ==
  /\ own \in [Slots -> BOOLEAN]
  /\ buf \in [Slots -> Fragment \cup {Blank}]
  /\ rxIdx \in Slots /\ dmaIdx \in Slots /\ tmpIdx \in Slots /\ td \in Slots
  /\ incoming \in Fragment \cup {Blank}
  /\ arrived \in 0 .. MaxFrames
  /\ rcomp \in BOOLEAN /\ rxCb \in BOOLEAN /\ needspoll \in BOOLEAN
  /\ state \subseteq StateBits /\ reg \subseteq StateBits
  /\ missed \in {"no", "boot", "clear"}
  /\ isFrame \in BOOLEAN /\ skipped \in BOOLEAN
  /\ pc \in {"call", "look", "take", "flushed", "ready", "idle", "poll", "rxStore",
            "rxMask", "txCheck", "txStore", "txMask", "drain"}
  /\ got \in Seq(Fragment) /\ Len(got) <= ReadParts
  /\ status \in Statuses
  /\ delivered \in Seq([parts : Seq(Fragment), skipped : BOOLEAN])

(* gmac_reset_rx_mem; the process is about to flush the device.            *)
Init ==
  /\ own = [s \in Slots |-> FALSE]
  /\ buf = [s \in Slots |-> Blank]
  /\ rxIdx = 0 /\ dmaIdx = 0
  /\ incoming = Blank /\ arrived = 0
  /\ rcomp = FALSE /\ rxCb = FALSE
  /\ state = {"NOT_INITIALIZED"} /\ reg = {} /\ needspoll = FALSE
  /\ missed = "no" /\ pc = "call"
  /\ tmpIdx = 0 /\ td = 0 /\ isFrame = FALSE /\ got = <<>> /\ skipped = FALSE
  /\ status = "GMAC_RX_NO_DATA"
  /\ delivered = <<>>

CircIncNoWrap(i) == i + 1
CircInc(i) == IF i + 1 >= RxSize THEN 0 ELSE i + 1
CircDec(i) == IF i = 0 THEN RxSize - 1 ELSE i - 1

(* Steps around the ring from i to j, and the descriptors from i on, before
   j: none if i = j.                                                       *)
Dist(i, j) == IF j >= i THEN j - i ELSE j - i + RxSize
Between(i, j) == {s \in Slots : Dist(i, s) < Dist(i, j)}

-----------------------------------------------------------------------------
(* The controller (external).                                              *)

DmaStart ==
  /\ incoming = Blank /\ arrived < MaxFrames
  /\ \E n \in 1 .. MaxParts :
       incoming' = [frame |-> arrived + 1, part |-> 1, of |-> n]
  /\ arrived' = arrived + 1
  /\ UNCHANGED <<own, buf, rxIdx, dmaIdx, noticeVars, missed, pc, walkVars,
                 status, delivered>>

(* A fragment goes to the next descriptor if that is free; the last one of
   a frame raises RCOMP.                                                   *)
DmaWrite ==
  /\ incoming # Blank /\ ~own[dmaIdx]
  /\ own' = [own EXCEPT ![dmaIdx] = TRUE]
  /\ buf' = [buf EXCEPT ![dmaIdx] = incoming]
  /\ dmaIdx' = CircInc(dmaIdx)
  /\ IF IsEof(incoming)
     THEN incoming' = Blank /\ rcomp' = TRUE
     ELSE incoming' = [incoming EXCEPT !.part = @ + 1] /\ UNCHANGED rcomp
  /\ UNCHANGED <<rxIdx, arrived, rxCb, pollVars, missed, pc, walkVars, status,
                 delivered>>

DmaGiveUp ==
  /\ incoming # Blank
  /\ incoming' = Blank
  /\ UNCHANGED <<own, buf, rxIdx, dmaIdx, arrived, noticeVars, missed, pc,
                 walkVars, status, delivered>>

-----------------------------------------------------------------------------
(* gmac_handler with the callbacks of gmac-drv.c, and the driver process.  *)

(* Reading the interrupt status clears RCOMP; without a callback nobody is
   told.  The callback asserts that the driver is initialized, so between
   "ready" and "idle" the program stops (GmacDriver).                      *)
IsrRx ==
  /\ rcomp
  /\ rxCb => "NOT_INITIALIZED" \notin state
  /\ rcomp' = FALSE
  /\ IF rxCb
     THEN state' = state \cup {"PENDING_RX"} /\ needspoll' = TRUE /\ missed' = "no"
     ELSE missed' = "boot" /\ UNCHANGED <<state, needspoll>>
  /\ UNCHANGED <<ringVars, rxCb, reg, pc, walkVars, status, delivered>>

(* gmac_dev_tx_callback, which can come at any time the interface is up.   *)
IsrTx ==
  /\ "NOT_INITIALIZED" \notin state
  /\ state' = state \cup {"PENDING_TX"} /\ needspoll' = TRUE
  /\ UNCHANGED <<ringVars, rcomp, rxCb, reg, missed, pc, walkVars, status, delivered>>

(* The steps of the process outside gmac_dev_read: from p to q.            *)
Goto(p, q) ==
  /\ pc = p /\ pc' = q
  /\ UNCHANGED <<ringVars, rcomp, walkVars, status, delivered>>

SetRxCallback ==
  /\ Goto("flushed", "ready")
  /\ rxCb' = TRUE
  /\ UNCHANGED <<pollVars, missed>>

GoIdle ==
  /\ Goto("ready", "idle")
  /\ state' = {"IDLE"}
  /\ UNCHANGED <<rxCb, reg, needspoll, missed>>

(* process.c clears needspoll and calls gmac_driver_pollhandler, which
   asserts that something is pending.                                      *)
Poll ==
  /\ needspoll /\ state \cap PendingBits # {}
  /\ Goto("idle", "poll")
  /\ needspoll' = FALSE
  /\ UNCHANGED <<rxCb, state, reg, missed>>

(* state &= ~bit is a load and a store; the interrupt handler may run in
   between, and its update is then overwritten.                            *)
LoadState(bit) ==
  /\ bit \in state
  /\ reg' = state
  /\ UNCHANGED <<rxCb, state, needspoll, missed>>
StoreWithout(bit) ==
  /\ state' = reg \ {bit} /\ reg' = {}
  /\ UNCHANGED <<rxCb, needspoll>>
Skip(bit) ==
  /\ bit \notin state
  /\ UNCHANGED <<rxCb, pollVars, missed>>

(* With GMAC_IRQn disabled: forget the poll request if nothing is pending. *)
ForgetAnyPoll ==
  /\ needspoll' = FALSE
  /\ UNCHANGED <<rxCb, state, reg, missed>>
ForgetPoll ==
  /\ needspoll' = (needspoll /\ state \cap PendingBits # {})
  /\ UNCHANGED <<rxCb, state, reg, missed>>

PollRxLoad  == Goto("poll", "rxStore") /\ LoadState("PENDING_RX")
PollRxStore == Goto("rxStore", "rxMask") /\ StoreWithout("PENDING_RX") /\ UNCHANGED missed
PollRxMask  == Goto("rxMask", "call") /\ ForgetPoll
PollNoRx    == Goto("poll", "txCheck") /\ Skip("PENDING_RX")

PollTxLoad  == Goto("txCheck", "txStore") /\ LoadState("PENDING_TX")
PollTxStore ==
  /\ Goto("txStore", "txMask")
  /\ StoreWithout("PENDING_TX")
  /\ missed' = IF "PENDING_RX" \in state \ reg THEN "clear" ELSE missed
PollTxMask  == Goto("txMask", "drain") /\ ForgetPoll
PollNoTx    == Goto("txCheck", "idle") /\ Skip("PENDING_TX")

(* The callbacks of the transmitted frames have been called.               *)
PollDrained == Goto("drain", "idle") /\ UNCHANGED <<rxCb, pollVars, missed>>

-----------------------------------------------------------------------------
(* gmac_dev_read, called in a loop to flush the device and in the receive
   loop of the poll handler.                                               *)

ReadCall ==
  /\ pc = "call"
  /\ tmpIdx' = rxIdx /\ td' = rxIdx
  /\ isFrame' = FALSE /\ got' = <<>> /\ skipped' = FALSE
  /\ pc' = "look"
  /\ UNCHANGED <<ringVars, noticeVars, missed, status, delivered>>

(* gmac_dev_read returns, and both loops go on only after GMAC_OK.  What the
   flush reads goes nowhere.  Once there is nothing left to read, no frame
   is waiting for a notice.                                                *)
ReturnCode(st) ==
  /\ status' = st
  /\ pc' = IF st = "GMAC_OK" THEN "call" ELSE IF rxCb THEN "txCheck" ELSE "flushed"
  /\ delivered' = IF st = "GMAC_OK" /\ rxCb
                  THEN Append(delivered, [parts |-> got', skipped |-> skipped])
                  ELSE delivered
  /\ missed' = IF st \in {"GMAC_RX_NO_DATA", "GMAC_RX_ERROR"} THEN "no" ELSE missed
  /\ UNCHANGED noticeVars

(* Descriptors given back to the controller.                               *)
ReleaseAll(slots) == own' = [s \in Slots |-> FALSE]
ReleaseNone(slots) == UNCHANGED own
Release(slots) == own' = [s \in Slots |-> own[s] /\ s \notin slots]

NoData ==
  /\ pc = "look" /\ ~own[td]
  /\ ReturnCode("GMAC_RX_NO_DATA")
  /\ UNCHANGED <<ringVars, walkVars>>

(* No start of frame at p_rx_td.                                           *)
LookInside ==
  /\ pc = "look" /\ own[td] /\ ~IsSof(buf[td])
  /\ pc' = "take"
  /\ UNCHANGED <<ringVars, noticeVars, missed, walkVars, status, delivered>>

(* A start of frame: the fragments before it are released, and p_rx_td is
   left pointing at the last of them.                                      *)
StartFrame ==
  /\ pc = "look" /\ own[td] /\ IsSof(buf[td])
  /\ Release(Between(rxIdx, tmpIdx))
  /\ skipped' = (skipped \/ rxIdx # tmpIdx)
  /\ td' = IF rxIdx = tmpIdx THEN td ELSE CircDec(tmpIdx)
  /\ rxIdx' = tmpIdx
  /\ got' = <<>> /\ isFrame' = TRUE
  /\ pc' = "take"
  /\ UNCHANGED <<buf, dmaVars, noticeVars, missed, tmpIdx, status, delivered>>

(* No frame has started: the fragment is dropped.                          *)
SkipFragment ==
  /\ pc = "take" /\ ~isFrame
  /\ Release({td})
  /\ tmpIdx' = CircInc(tmpIdx) /\ rxIdx' = tmpIdx' /\ td' = tmpIdx'
  /\ pc' = "look"
  /\ UNCHANGED <<buf, dmaVars, noticeVars, missed, isFrame, got, skipped, status,
                 delivered>>

(* A complete turn without an end of frame: everything is released.        *)
FullTurn ==
  /\ pc = "take" /\ isFrame
  /\ CircInc(tmpIdx) = rxIdx
  /\ tmpIdx' = CircInc(tmpIdx)
  /\ Release(Slots)
  /\ ReturnCode("GMAC_RX_ERROR")
  /\ UNCHANGED <<buf, rxIdx, dmaVars, td, isFrame, got, skipped>>

(* Copy the buffer, as far as the application frame has room.              *)
Copy == got' = IF Len(got) < ReadParts THEN Append(got, buf[td]) ELSE got

CopyMore ==
  /\ pc = "take" /\ isFrame
  /\ CircInc(tmpIdx) # rxIdx
  /\ ~IsEof(buf[td])
  /\ Copy
  /\ tmpIdx' = CircInc(tmpIdx) /\ td' = tmpIdx'
  /\ pc' = "look"
  /\ UNCHANGED <<ringVars, noticeVars, missed, isFrame, skipped, status, delivered>>

CopyLast ==
  /\ pc = "take" /\ isFrame
  /\ CircInc(tmpIdx) # rxIdx
  /\ IsEof(buf[td])
  /\ Copy
  /\ tmpIdx' = CircInc(tmpIdx)
  /\ Release(Between(rxIdx, tmpIdx')) /\ rxIdx' = tmpIdx'
  /\ ReturnCode(IF Len(got') < buf[td].of THEN "GMAC_SIZE_TOO_SMALL" ELSE "GMAC_OK")
  /\ UNCHANGED <<buf, dmaVars, td, isFrame, skipped>>

-----------------------------------------------------------------------------
Read == \/ ReadCall \/ NoData \/ LookInside \/ StartFrame \/ SkipFragment
        \/ FullTurn \/ CopyMore \/ CopyLast
Dma  == DmaStart \/ DmaWrite \/ DmaGiveUp
Isr  == IsrRx \/ IsrTx
Proc == \/ SetRxCallback \/ GoIdle \/ Poll
        \/ PollRxLoad \/ PollRxStore \/ PollRxMask \/ PollNoRx
        \/ PollTxLoad \/ PollTxStore \/ PollTxMask \/ PollNoTx \/ PollDrained

Next == Read \/ Dma \/ Isr \/ Proc

Spec == Init /\ [][Next]_vars

-----------------------------------------------------------------------------
(* Properties.                                                             *)

(* Reader and controller never get out of step: the descriptors that belong
   to the processor are those from us_rx_idx up to the controller's queue
   pointer, so the controller finds its next descriptor free as soon as any
   is, and gmac_dev_read never walks into a gap.                           *)
DescriptorsInStep ==
  \/ {s \in Slots : own[s]} = Between(rxIdx, dmaIdx)
  \/ rxIdx = dmaIdx /\ \A s \in Slots : own[s]

(* All parts of one frame, in order.                                       *)
Whole(parts) ==
  /\ parts # <<>>
  /\ \A i \in DOMAIN parts : parts[i] = [frame |-> parts[1].frame, part |-> i,
                                         of |-> Len(parts)]

(* "GMAC_OK if receiving frame successfully": what is handed to the network
   stack is one frame, whole ...                                           *)
FramesWhole == \A i \in DOMAIN delivered : Whole(delivered[i].parts)

(* ... which the code keeps as long as it had nothing to discard.          *)
FramesWholeUnlessSkipped ==
  \A i \in DOMAIN delivered : delivered[i].skipped \/ Whole(delivered[i].parts)

(* The calls that had nothing to discard deliver no frame twice and none
   after a later one, whatever the other calls did to the ring.            *)
DeliveryOrder ==
  \A i, j \in {k \in DOMAIN delivered : ~delivered[k].skipped} :
    i < j => delivered[i].parts[1].frame < delivered[j].parts[1].frame

(* Between two polls a whole frame is in the ring with neither an interrupt
   nor a poll on its way, the last call of gmac_dev_read having neither
   discarded fragments nor met a frame too long for its buffer.            *)
Stranded ==
  /\ pc = "idle" /\ ~rcomp /\ ~(needspoll /\ "PENDING_RX" \in state)
  /\ ~skipped /\ status # "GMAC_SIZE_TOO_SMALL"
  /\ \E s \in Slots : own[s] /\ IsEof(buf[s])

(* gmac-drv.c:316 "All packets (including those that may arrive while the
   poll-handler is executing), will be processed before return": a frame
   stays behind only if the interrupt came before there was a callback, or
   its bit was overwritten when the handler cleared PENDING_TX.            *)
StrandedOnlyIfUnnoticed == Stranded => missed # "no"

(* "So it is safe to clear the pending flag and the poll signal": clearing
   PENDING_TX leaves no frame behind.                                      *)
ClearingIsSafe == Stranded => missed # "clear"
=============================================================================
