----------------------------- MODULE GmacTxRing -----------------------------
(***************************************************************************)
(* The transmit half of gmac_raw.c: a ring of TxSize descriptors shared by *)
(* the processor, which fills the slot at txHead and harvests the slot at  *)
(* txTail, and by the Ethernet controller, whose queue pointer hwIdx walks *)
(* the ring on its own.  One slot is always left free, so that             *)
(* txHead = txTail means empty.  The actions here are the pieces the       *)
(* driver (module GmacDriver) and the interrupt handler are made of.       *)
(***************************************************************************)
EXTENDS Integers

CONSTANTS
  TxSize,      (* us_tx_list_size, the number of transmit descriptors      *)
  MaxFrames,   (* bound: frames the upper layers submit in a behaviour     *)
  Env          (* what the surroundings may do; see EnvEvents              *)

(***************************************************************************)
(* RLE, COL, UND: the controller may report that error for a frame.        *)
(* fastWire: a frame may complete before the thread that wrote it has left *)
(* gmac_driver_tx (another interrupt handler delayed the thread).          *)
(* rx: frames arrive; rxAtBoot: also while the driver process boots.       *)
(* exit: the driver is told to exit and may be initialised again.          *)
(***************************************************************************)
EnvEvents == {"RLE", "COL", "UND", "fastWire", "rx", "rxAtBoot", "exit"}

ASSUME RingAssumption ==
  /\ TxSize \in Nat /\ TxSize > 1       \* gmac_init_mem rejects sizes <= 1
  /\ MaxFrames \in Nat
  /\ Env \subseteq EnvEvents

Slots  == 0 .. TxSize - 1
Frames == 1 .. MaxFrames                \* numbered in the order of submission
NoFrame == 0

VARIABLES
  txHead, txTail,  (* us_tx_head, us_tx_tail                               *)
  txUsed,          (* the GMAC_TXD_USED bit of every descriptor            *)
  txFrame,         (* the frame last copied to every transmit buffer       *)
  hwIdx,           (* the controller's transmit queue pointer              *)
  tsr,             (* the sticky bits of the transmit status register      *)
  isr,             (* interrupt status register; cleared by reading it     *)
  wire             (* history: what became of every frame on the wire      *)

ringVars == <<txHead, txTail, txUsed, txFrame>>
hwVars   == <<hwIdx, tsr, isr, wire>>

TsrBits == {"TXCOMP", "RLE", "COL", "UND"}
Fates   == {"never", "sent", "damaged", "abandoned"}

RingTypeOK ==
  /\ txHead \in Slots /\ txTail \in Slots /\ hwIdx \in Slots
  /\ txUsed \in [Slots -> BOOLEAN]
  /\ txFrame \in [Slots -> Frames \cup {NoFrame}]
  /\ tsr \subseteq TsrBits
  /\ isr \subseteq {"TCOMP", "RCOMP", "RLEX"}
  /\ wire \in [Frames -> Fates]

RingInit ==
  /\ txHead = 0 /\ txTail = 0 /\ hwIdx = 0
  /\ txUsed = [s \in Slots |-> TRUE]
  /\ txFrame = [s \in Slots |-> NoFrame]
  /\ tsr = {} /\ isr = {}
  /\ wire = [f \in Frames |-> "never"]

-----------------------------------------------------------------------------
(* circ_inc, CIRC_EMPTY, and whether CIRC_SPACE and CIRC_CNT are zero.  C's
   remainder may be negative but is zero exactly when TLA+'s is.           *)
CircIncNoWrap(i) == i + 1
CircInc(i) == IF i + 1 >= TxSize THEN 0 ELSE i + 1
CircEmpty == txHead = txTail
CircSpaceZero == (txTail - (txHead + 1)) % TxSize = 0

(* The value gmac_dev_write may read when it asks whether the head slot is
   busy: p_tx_td already points at descriptor us_tx_head and is indexed by
   us_tx_head once more.  Past the array it reads unrelated memory.        *)
MayReadUsed(b) ==
  LET i == txHead + txHead
  IN IF i \in Slots THEN txUsed[i] = b ELSE b \in BOOLEAN

(* gmac_dev_write answers GMAC_TX_BUSY ...                                 *)
WriteBusy == CircSpaceZero /\ MayReadUsed(TRUE)

(* ... or copies frame f to the head slot and hands it to the controller.
   circ_inc(us_tx_head) is the thread's next step, AdvanceHead.            *)
MayWrite == ~CircSpaceZero \/ MayReadUsed(FALSE)
WriteSlot(f) ==
  /\ MayWrite
  /\ txFrame' = [txFrame EXCEPT ![txHead] = f]
  /\ txUsed' = [txUsed EXCEPT ![txHead] = FALSE]
  /\ UNCHANGED <<txHead, txTail>>

AdvanceHead ==
  /\ txHead' = CircInc(txHead)
  /\ UNCHANGED <<txTail, txUsed, txFrame>>

(* gmac_reset_tx_mem: both indices 0, every descriptor given back to the
   processor, the queue pointer back at the first descriptor.              *)
ResetTxMem ==
  /\ txHead' = 0 /\ txTail' = 0 /\ hwIdx' = 0
  /\ txUsed' = [s \in Slots |-> TRUE]
  /\ UNCHANGED txFrame

(* One turn of the handler's do-while loop past the slot at txTail.        *)
AdvanceTailNever == UNCHANGED ringVars
AdvanceTail ==
  /\ txTail' = CircInc(txTail)
  /\ UNCHANGED <<txHead, txUsed, txFrame>>

-----------------------------------------------------------------------------
(* The controller (external).  It takes the descriptor at its queue pointer
   if the processor has handed it over, puts the frame on the wire, sets
   GMAC_TXD_USED and moves on; status bits and interrupt are raised then.  *)
HwDone(fate, bits, irq) ==
  /\ ~txUsed[hwIdx]
  /\ txUsed' = [txUsed EXCEPT ![hwIdx] = TRUE]
  /\ wire' = [wire EXCEPT ![txFrame[hwIdx]] = fate]
  /\ hwIdx' = CircInc(hwIdx)
  /\ tsr' = tsr \cup bits
  /\ isr' = isr \cup irq
  /\ UNCHANGED <<txHead, txTail, txFrame>>

HwSend     == HwDone("sent", {"TXCOMP"}, {"TCOMP"})
HwError    == \E err \in {"COL", "UND"} \cap Env :
                HwDone("damaged", {"TXCOMP", err}, {"TCOMP"})
HwAbandon  == "RLE" \in Env /\ HwDone("abandoned", {"RLE"}, {"RLEX"})
=============================================================================
