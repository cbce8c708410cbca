------------------------------ MODULE QueueBuf ------------------------------
(***************************************************************************)
(* queuebuf.c with WITH_SWAP: queued packets live in RAM while it lasts and*)
(* in swap files after that.  Swap ids are handed out in a circle over the *)
(* files; a file is erased when its buffers are gone, and one RAM copy     *)
(* (tmpdata) caches the swapped buffer used last.  An update of a swapped  *)
(* buffer writes it under a new id.  File writes may fail.                 *)
(***************************************************************************)
EXTENDS Integers, FiniteSets

CONSTANTS
  NumBufs,    (* QUEUEBUF_NUM, the descriptors of bufmem                   *)
  RamNum,     (* QUEUEBUFRAM_NUM                                           *)
  Files,      (* NQBUF_FILES                                               *)
  PerFile,    (* NQBUF_PER_FILE                                            *)
  Packets,    (* contents of a packet                                      *)
  Attrs,      (* contents of the packet attributes                         *)
  MaxFaults   (* bound: file writes that fail                              *)

ASSUME QueueAssumption ==
  /\ NumBufs \in Nat
  /\ RamNum \in Nat /\ Files \in Nat \ {0} /\ PerFile \in Nat \ {0}
  /\ MaxFaults \in Nat

VARIABLES
  location,      (* where a descriptor keeps its data, "free" if unused    *)
  ramData,       (* the data in RAM of the descriptors that have some      *)
  swapId,        (* swap_id; it shares its word with ram_ptr               *)
  tmpdata,       (* the RAM copy                                           *)
  tmpdataQbuf,   (* the descriptor it was taken from, even if freed since  *)
  nextSwapId,    (* next_swap_id                                           *)
  usage, renewable,  (* of each file                                       *)
  renewTimer,    (* renew_timer is set                                     *)
  swapped,       (* what the files hold under the ids in use, else Junk    *)
  faults,        (* writes that failed                                     *)
  packet,        (* history: what was last stored in a buffer not spoiled  *)
  spoiled,       (* history: buffers an update of which failed             *)
  leaked         (* history: ids lost to failed writes, by file            *)

queueVars == <<location, ramData, swapId, tmpdata, tmpdataQbuf, nextSwapId, usage,
               renewable, renewTimer, swapped, faults, packet, spoiled, leaked>>
fileVars == <<nextSwapId, usage, renewable, renewTimer, swapped, faults, leaked>>

Bufs == 0 .. NumBufs - 1
FileIds == 0 .. Files - 1
SwapIds == 0 .. Files * PerFile - 1
FileOf(id) == id \div PerFile
NoId == -1
RamPointer == Files * PerFile     (* no swap id                            *)
NoBuf == -1
Junk == [data |-> "junk", attr |-> "junk"]
Contents == [data : Packets, attr : Attrs]

(* queuebuf_init.                                                          *)
QueueInit ==
  /\ location = [b \in Bufs |-> "free"]
  /\ ramData = [b \in Bufs |-> Junk]
  /\ swapId = [b \in Bufs |-> NoId]
  /\ tmpdata = Junk /\ tmpdataQbuf = NoBuf /\ nextSwapId = 0
  /\ usage = [f \in FileIds |-> 0]
  /\ renewable = [f \in FileIds |-> FALSE]
  /\ renewTimer = FALSE
  /\ swapped = [id \in SwapIds |-> Junk]
  /\ faults = 0
  /\ packet = [b \in Bufs |-> Junk] /\ spoiled = {}
  /\ leaked = [f \in FileIds |-> 0]

Live == {b \in Bufs : location[b] # "free"}

(* memb_alloc takes the first free block.                                  *)
Allocated(b) == b \notin Live /\ 0 .. b - 1 \subseteq Live
RamLeft == Cardinality({b \in Bufs : location[b] = "ram"}) < RamNum

(* qbuf_renew_file, of a set of files; an id given back holds Junk as well.*)
Erased(fs, old) ==
  [id \in SwapIds |-> IF FileOf(id) \in fs \/ id = old THEN Junk ELSE swapped[id]]

(* queuebuf_remove_from_file.                                              *)
UsageWithout(id) ==
  IF id = NoId THEN usage ELSE [usage EXCEPT ![FileOf(id)] = @ - 1]

BecomesRenewableWhenEmpty(id) ==
  id # NoId /\ usage[FileOf(id)] = 1
BecomesRenewable(id) ==
  id # NoId /\ usage[FileOf(id)] = 1 /\ FileOf(id) # FileOf(nextSwapId)

RenewableWithout(id) ==
  IF BecomesRenewable(id) THEN [renewable EXCEPT ![FileOf(id)] = TRUE] ELSE renewable

(* get_new_swap_id, once an old id is given back: the files it may erase   *)
(* first, and whether it finds an id.                                      *)
CurrentFile == FileOf(nextSwapId)
StartsFile == nextSwapId % PerFile = 0

Renewed(ren) == {f \in {CurrentFile} : StartsFile /\ ren[f]}

IdFreeUnchecked(used, ren) == TRUE
IdFree(used, ren) ==
  ~StartsFile \/ CurrentFile \in Renewed(ren) \/ used[CurrentFile] = 0

(* queuebuf_flush_tmpdata, for the descriptor q, whose old id is given back*)
(* first: no new id, a write that fails, or a write of c.  An id that goes *)
(* to a descriptor nobody keeps is lost.                                   *)
GiveBack(old) == renewTimer' = (renewTimer \/ BecomesRenewable(old))

FlushWithoutId(q, old) ==
  /\ ~IdFree(UsageWithout(old), RenewableWithout(old))
  /\ GiveBack(old)
  /\ usage' = UsageWithout(old)
  /\ renewable' = RenewableWithout(old)
  /\ swapId' = [swapId EXCEPT ![q] = NoId]
  /\ swapped' = Erased({}, old)
  /\ UNCHANGED <<nextSwapId, faults, leaked>>

TakeId(q, old, kept) ==
  LET ren == RenewableWithout(old)
      gone == Renewed(ren)
  IN  /\ IdFree(UsageWithout(old), ren)
      /\ GiveBack(old)
      /\ renewable' = [f \in FileIds |-> ren[f] /\ f \notin gone]
      /\ usage' = [f \in FileIds |->
                     (IF f \in gone THEN 0 ELSE UsageWithout(old)[f])
                     + (IF f = CurrentFile THEN 1 ELSE 0)]
      /\ leaked' = [leaked EXCEPT ![CurrentFile] = @ + (IF kept THEN 0 ELSE 1)]
      /\ swapId' = [swapId EXCEPT ![q] = nextSwapId]
      /\ nextSwapId' = (nextSwapId + 1) % (Files * PerFile)

FlushFails(q, old, kept) ==
  /\ faults < MaxFaults
  /\ faults' = faults + 1
  /\ TakeId(q, old, kept)
  /\ swapped' = Erased(Renewed(RenewableWithout(old)), old)

Flush(q, old, c, kept) ==
  /\ TakeId(q, old, kept)
  /\ swapped' = [Erased(Renewed(RenewableWithout(old)), old) EXCEPT ![nextSwapId] = c]
  /\ UNCHANGED faults

(* queuebuf_load_to_ram: what a reader finds.  Without an id the file is   *)
(* read wherever it stands.                                                *)
InTmpdata(b) == tmpdataQbuf # NoBuf /\ swapId[tmpdataQbuf] = swapId[b]

Loaded(b) ==
  CASE location[b] = "ram" -> ramData[b]
    [] location[b] = "cfs" /\ InTmpdata(b) -> tmpdata
    [] location[b] = "cfs" /\ ~InTmpdata(b) ->
         IF swapId[b] = NoId THEN Junk ELSE swapped[swapId[b]]

LoadedQbuf(b) ==
  IF location[b] = "ram" \/ InTmpdata(b) THEN tmpdataQbuf ELSE b

(* queuebuf_new_from_packetbuf: in RAM, in a swap file, or not at all.     *)
Queue(b, where, c) ==
  /\ location' = [location EXCEPT ![b] = where]
  /\ packet' = [packet EXCEPT ![b] = c]
  /\ spoiled' = spoiled \ {b}

NewInRam(b) ==
  /\ Allocated(b) /\ RamLeft
  /\ \E c \in Contents : Queue(b, "ram", c) /\ ramData' = [ramData EXCEPT ![b] = c]
  /\ swapId' = [swapId EXCEPT ![b] = RamPointer]
  /\ UNCHANGED <<tmpdata, tmpdataQbuf, fileVars>>

NewInFile(b) ==
  /\ Allocated(b) /\ ~RamLeft
  /\ tmpdataQbuf' = b
  /\ \E c \in Contents :
       /\ tmpdata' = c
       /\ \/ Flush(b, NoId, c, TRUE) /\ Queue(b, "cfs", c)
          \/ /\ FlushWithoutId(b, NoId) \/ FlushFails(b, NoId, FALSE)
             /\ UNCHANGED <<location, packet, spoiled>>
  /\ UNCHANGED ramData

(* queuebuf_update_from_packetbuf replaces all of a buffer's contents,     *)
(* queuebuf_update_attr_from_packetbuf its attributes; neither looks at    *)
(* the result of the flush, which is that of the descriptor tmpdata is     *)
(* taken to belong to.                                                     *)
UpdateInRam(b, c) ==
  /\ location[b] = "ram"
  /\ ramData' = [ramData EXCEPT ![b] = c]
  /\ packet' = [packet EXCEPT ![b] = c]
  /\ UNCHANGED <<location, swapId, tmpdata, tmpdataQbuf, fileVars, spoiled>>

UpdateInFile(b, c, whole) ==
  LET q == LoadedQbuf(b)
  IN  /\ location[b] = "cfs"
      /\ tmpdata' = c /\ tmpdataQbuf' = q
      /\ \/ /\ Flush(q, swapId[q], c, q \in Live)
            /\ spoiled' = IF whole /\ q = b THEN spoiled \ {b} ELSE spoiled
         \/ /\ \/ FlushWithoutId(q, swapId[q])
               \/ FlushFails(q, swapId[q], q \in Live)
            /\ spoiled' = spoiled \cup {b}
      /\ packet' = [packet EXCEPT ![b] = IF b \in spoiled' THEN Junk ELSE c]
      /\ UNCHANGED <<location, ramData>>

UpdateAll(b) ==
  \E c \in Contents : UpdateInRam(b, c) \/ UpdateInFile(b, c, TRUE)

UpdateAttr(b) ==
  \E a \in Attrs : LET c == [Loaded(b) EXCEPT !.attr = a]
                   IN  UpdateInRam(b, c) \/ UpdateInFile(b, c, FALSE)

(* queuebuf_to_packetbuf, queuebuf_dataptr and the other readers.          *)
Read(b) ==
  /\ location[b] = "cfs" /\ ~InTmpdata(b)
  /\ tmpdata' = Loaded(b) /\ tmpdataQbuf' = b
  /\ UNCHANGED <<location, ramData, swapId, fileVars, packet, spoiled>>

(* queuebuf_free.                                                          *)
Drop(b) ==
  /\ location' = [location EXCEPT ![b] = "free"]
  /\ packet' = [packet EXCEPT ![b] = Junk]
  /\ spoiled' = spoiled \ {b}
  /\ swapped' = IF location[b] = "ram" THEN swapped ELSE Erased({}, swapId[b])
  /\ UNCHANGED <<tmpdata, tmpdataQbuf, nextSwapId, faults, leaked>>

FreeFromRam(b) ==
  /\ location[b] = "ram"
  /\ ramData' = [ramData EXCEPT ![b] = Junk]
  /\ Drop(b)
  /\ UNCHANGED <<swapId, usage, renewable, renewTimer>>

FreeFromFile(b) ==
  /\ location[b] = "cfs"
  /\ usage' = UsageWithout(swapId[b])
  /\ renewable' = RenewableWithout(swapId[b])
  /\ GiveBack(swapId[b])
  /\ swapId' = IF InTmpdata(b) THEN [swapId EXCEPT ![tmpdataQbuf] = NoId] ELSE swapId
  /\ Drop(b)
  /\ UNCHANGED ramData

(* qbuf_renew_all, when the timer runs.                                    *)
RenewAll ==
  LET gone == {f \in FileIds : renewable[f]}
  IN  /\ renewTimer /\ renewTimer' = FALSE
      /\ swapped' = Erased(gone, NoId)
      /\ usage' = [f \in FileIds |-> IF f \in gone THEN 0 ELSE usage[f]]
      /\ renewable' = [f \in FileIds |-> FALSE]
      /\ UNCHANGED <<location, ramData, swapId, tmpdata, tmpdataQbuf, nextSwapId,
                     faults, packet, spoiled, leaked>>

QueueNext ==
  \/ RenewAll
  \/ \E b \in Bufs : \/ NewInRam(b) \/ NewInFile(b) \/ UpdateAll(b) \/ UpdateAttr(b)
                     \/ Read(b) \/ FreeFromRam(b) \/ FreeFromFile(b)

QueueSpec == QueueInit /\ [][QueueNext]_queueVars

-----------------------------------------------------------------------------
(* Type invariant.                                                         *)
QueueTypeOK ==
  LET anything == [data : Packets \cup {"junk"}, attr : Attrs \cup {"junk"}]
  IN  /\ location \in [Bufs -> {"free", "ram", "cfs"}]
      /\ {ramData, packet} \subseteq [Bufs -> anything]
      /\ swapId \in [Bufs -> SwapIds \cup {NoId, RamPointer}]
      /\ tmpdata \in anything /\ tmpdataQbuf \in Bufs \cup {NoBuf}
      /\ swapped \in [SwapIds -> anything]
      /\ nextSwapId \in SwapIds
      /\ {usage, leaked} \subseteq [FileIds -> 0 .. PerFile]
      /\ renewable \in [FileIds -> BOOLEAN] /\ renewTimer \in BOOLEAN
      /\ faults \in 0 .. MaxFaults /\ spoiled \subseteq Live

(* A queued packet reads back as it was last stored, whatever was queued,  *)
(* swapped, updated, freed and erased meanwhile; only a buffer an update of*)
(* which failed may not, and no other buffer suffers with it.              *)
ReadsBackAsStored ==
  \A b \in Live \ spoiled : Loaded(b) = packet[b]

(* The usage of a file is the number of buffers in it, and of the ids that *)
(* failed writes lost for good.                                            *)
UsageCountsBuffers ==
  \A f \in FileIds :
    usage[f] = leaked[f] + Cardinality({b \in Live : swapId[b] \in SwapIds
                                                     /\ FileOf(swapId[b]) = f})

(* A file marked for erasing holds nothing, no id of it is handed out until*)
(* it has been erased, and the timer that erases it is set.                *)
ErasedWhenEmpty ==
  \A f \in FileIds : renewable[f] =>
    /\ usage[f] = 0
    /\ f = CurrentFile => StartsFile
    /\ renewTimer

(* The files are kept in order: the two facts above, which erase a file no *)
(* sooner and no later than its last buffer has gone.                      *)
FilesKept == UsageCountsBuffers /\ ErasedWhenEmpty
=============================================================================
