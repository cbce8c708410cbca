--------------------------- MODULE QueueBuf_proofs --------------------------
(***************************************************************************)
(* Proofs about QueueBuf, for any number of buffers, files and ids, and    *)
(* any number of writes that fail.  FilesKept and ReadsBackAsStored need   *)
(* each other: a file is erased, and an id handed out again, only when the *)
(* usage counts are right, and they stay right only while no two buffers   *)
(* have the same id.                                                       *)
(***************************************************************************)
EXTENDS QueueBuf, FiniteSetTheorems, TLAPS

Anything == [data : Packets \cup {"junk"}, attr : Attrs \cup {"junk"}]

(* The buffers that are swapped out, and those of a file.  The descriptor   *)
(* that tmpdata was taken from may be free, but is compared with the others.*)
Filed     == {b \in Bufs : location[b] = "cfs"}
Keepers   == Filed \cup ({tmpdataQbuf} \cap Bufs)
HasId(b)  == swapId[b] \in SwapIds
InFile(f) == {b \in Live : swapId[b] \in SwapIds /\ FileOf(swapId[b]) = f}

(* Where a live buffer keeps its data.  Only one whose update failed is    *)
(* swapped out without an id.                                              *)
Places ==
  /\ \A b \in Bufs : location[b] = "ram" =>
       swapId[b] = RamPointer /\ ramData[b] = packet[b] /\ b \notin spoiled
  /\ \A b \in Filed : HasId(b) \/ (swapId[b] = NoId /\ b \in spoiled)

(* No id has two owners, and none ahead of next_swap_id in its file has    *)
(* one.                                                                    *)
IdsApart == \A b, c \in Keepers : b # c /\ HasId(b) => swapId[b] # swapId[c]
IdsTaken ==
  \A b \in Filed : HasId(b) /\ FileOf(swapId[b]) = CurrentFile =>
    StartsFile \/ swapId[b] < nextSwapId

(* No more buffers in the file that is being filled than ids handed out.   *)
UsageBound == StartsFile \/ usage[CurrentFile] <= nextSwapId % PerFile

(* File and RAM copy hold what was stored.                                 *)
Stored ==
  \A b \in Filed \ spoiled :
    /\ swapped[swapId[b]] = packet[b]
    /\ tmpdataQbuf = b => tmpdata = packet[b]

FilesInv == UsageCountsBuffers /\ ErasedWhenEmpty /\ UsageBound /\ IdsTaken
DataInv  == Places /\ IdsApart /\ Stored

QueueIInv == QueueTypeOK /\ FilesInv /\ DataInv

-----------------------------------------------------------------------------
(* Quotient and remainder by PerFile.                                      *)
LEMMA Constants ==
  /\ NumBufs \in Nat /\ Files \in Nat /\ Files > 0 /\ PerFile \in Nat /\ PerFile > 0
  /\ MaxFaults \in Nat /\ Files * PerFile \in Nat
BY QueueAssumption

LEMMA Euclid ==
  ASSUME NEW n \in Nat, NEW k \in Nat, k > 0
  PROVE  /\ n \div k \in Nat /\ n % k \in 0 .. k - 1
         /\ n = (k * (n \div k)) + (n % k)
OBVIOUS

LEMMA Quotient ==
  ASSUME NEW n \in Nat, NEW k \in Nat, k > 0,
         NEW q \in Nat, NEW r \in 0 .. k - 1, n = k * q + r
  PROVE  n \div k = q /\ n % k = r
OBVIOUS

LEMMA Successor ==
  ASSUME NEW n \in Nat, NEW k \in Nat, k > 0
  PROVE  \/ (n + 1) % k = 0
         \/ (n + 1) % k = (n % k) + 1 /\ (n + 1) \div k = n \div k
<1> DEFINE q == n \div k
           r == n % k
<1>1. q \in Nat /\ r \in 0 .. k - 1 /\ n = k * q + r
  BY Euclid
<1> HIDE DEF q, r
<1>2. CASE r = k - 1
  <2>1. n + 1 = k * (q + 1) + 0
    BY <1>1, <1>2
  <2>2. (n + 1) % k = 0
    BY <1>1, <2>1, Quotient
  <2> QED
    BY <2>2
<1>3. CASE r # k - 1
  <2>1. n + 1 = k * q + (r + 1) /\ r + 1 \in 0 .. k - 1
    BY <1>1, <1>3
  <2>2. (n + 1) % k = r + 1 /\ (n + 1) \div k = q
    BY <1>1, <2>1, Quotient
  <2> QED
    BY <2>2 DEF q, r
<1> QED
  BY <1>2, <1>3

LEMMA MoreIsMore ==
  ASSUME NEW a \in Nat, NEW b \in Nat, NEW c \in Nat, a >= b
  PROVE  c * a >= c * b
<1>1. PICK d \in Nat : a = b + d
  BY DEF Nat
<1>2. c * a = c * b + c * d /\ c * d \in Nat
  BY <1>1
<1> QED
  BY <1>2

(* Every id belongs to a file, and what is no id is known as such.         *)
LEMMA Ids ==
  /\ \A id \in SwapIds : id \in Nat /\ FileOf(id) \in FileIds /\ id # NoId
  /\ RamPointer \notin SwapIds /\ NoId \notin SwapIds /\ RamPointer # NoId
<1>1. ASSUME NEW id \in SwapIds PROVE id \in Nat /\ FileOf(id) \in FileIds /\ id # NoId
  <2> DEFINE q == id \div PerFile
  <2>1. id \in Nat /\ id < Files * PerFile
    BY Constants DEF SwapIds
  <2>2. q \in Nat /\ PerFile * q <= id
    BY <2>1, Constants, Euclid
  <2>3. ASSUME q >= Files PROVE FALSE
    <3> HIDE DEF q
    <3>1. PerFile * q >= PerFile * Files
      BY <2>2, <2>3, Constants, MoreIsMore
    <3>2. PerFile * Files = Files * PerFile
      BY Constants
    <3> QED
      BY <2>1, <2>2, <3>1, <3>2, Constants
  <2>4. q < Files
    BY <2>2, <2>3, Constants
  <2> QED
    BY <2>1, <2>2, <2>4, Constants DEF FileOf, FileIds, NoId
<1>2. RamPointer \notin SwapIds /\ NoId \notin SwapIds /\ RamPointer # NoId
  BY Constants DEF RamPointer, SwapIds, NoId
<1> QED
  BY <1>1, <1>2

(* The id after n: the first of a file, or the next of the same.           *)
LEMMA NextId ==
  ASSUME NEW n \in SwapIds, NEW m, m = (n + 1) % (Files * PerFile)
  PROVE  /\ m \in SwapIds
         /\ \/ m % PerFile = 0
            \/ m = n + 1 /\ FileOf(m) = FileOf(n) /\ m % PerFile = (n % PerFile) + 1
         /\ n % PerFile \in 0 .. PerFile - 1
<1> DEFINE k == Files * PerFile
<1>1. n \in Nat /\ k \in Nat /\ n < k /\ k > 0
  BY Constants DEF SwapIds
<1>2. n % PerFile \in 0 .. PerFile - 1
  BY <1>1, Constants, Euclid
<1>3. CASE n + 1 = k
  <2>1. k = k * 1 + 0 /\ 0 \in 0 .. k - 1
    BY <1>1
  <2>2. m = 0
    <3> HIDE DEF k
    <3>1. k % k = 0
      BY <1>1, <2>1, Quotient
    <3> QED
      BY <1>3, <3>1 DEF k
  <2>3. 0 % PerFile = 0
    <3>1. 0 = PerFile * 0 + 0 /\ 0 \in 0 .. PerFile - 1
      BY Constants
    <3> QED
      BY <3>1, Constants, Quotient
  <2> QED
    BY <1>1, <1>2, <2>2, <2>3 DEF SwapIds
<1>4. CASE n + 1 # k
  <2>1. m = n + 1
    <3>1. n + 1 = k * 0 + (n + 1) /\ n + 1 \in 0 .. k - 1 /\ n + 1 \in Nat
      BY <1>1, <1>4
    <3> HIDE DEF k
    <3>2. (n + 1) % k = n + 1
      BY <1>1, <3>1, Quotient
    <3> QED
      BY <3>2 DEF k
  <2>2. m \in SwapIds
    BY <1>1, <1>4, <2>1 DEF SwapIds
  <2> QED
    BY <1>1, <1>2, <2>1, <2>2, Constants, Successor DEF FileOf
<1> QED
  BY <1>3, <1>4

-----------------------------------------------------------------------------
LEMMA TypeFacts ==
  ASSUME QueueTypeOK
  PROVE  /\ location \in [Bufs -> {"free", "ram", "cfs"}]
         /\ ramData \in [Bufs -> Anything] /\ packet \in [Bufs -> Anything]
         /\ swapId \in [Bufs -> SwapIds \cup {NoId, RamPointer}]
         /\ swapped \in [SwapIds -> Anything]
         /\ tmpdata \in Anything /\ tmpdataQbuf \in Bufs \cup {NoBuf}
         /\ nextSwapId \in SwapIds /\ CurrentFile \in FileIds
         /\ usage \in [FileIds -> 0 .. PerFile] /\ leaked \in [FileIds -> 0 .. PerFile]
         /\ renewable \in [FileIds -> BOOLEAN] /\ spoiled \subseteq Live
  BY Ids DEF QueueTypeOK, Anything, CurrentFile

LEMMA BufFacts == NoBuf \notin Bufs /\ IsFiniteSet(Bufs)
<1>1. 0 \in Int /\ NumBufs - 1 \in Int
  BY Constants
<1>2. IsFiniteSet(0 .. NumBufs - 1)
  BY <1>1, FS_Interval
<1> QED
  BY <1>2, Constants DEF Bufs, NoBuf

LEMMA FileSets ==
  ASSUME NEW f, NEW q
  PROVE  /\ IsFiniteSet(InFile(f)) /\ Cardinality(InFile(f)) \in Nat
         /\ IsFiniteSet(InFile(f) \ {q}) /\ Cardinality(InFile(f) \ {q}) \in Nat
         /\ q \in InFile(f) => Cardinality(InFile(f) \ {q}) = Cardinality(InFile(f)) - 1
         /\ q \notin InFile(f) => InFile(f) \ {q} = InFile(f)
<1>1. InFile(f) \subseteq Bufs
  BY DEF InFile, Live
<1>2. IsFiniteSet(InFile(f)) /\ IsFiniteSet(InFile(f) \ {q})
  BY <1>1, BufFacts, FS_Subset
<1>3. Cardinality(InFile(f)) \in Nat /\ Cardinality(InFile(f) \ {q}) \in Nat
  BY <1>2, FS_CardinalityType
<1>4. q \in InFile(f) => Cardinality(InFile(f) \ {q}) = Cardinality(InFile(f)) - 1
  BY <1>2, FS_RemoveElement
<1> QED
  BY <1>2, <1>3, <1>4

(* A set of buffers that has a member is not counted as empty.             *)
LEMMA Counted ==
  ASSUME NEW f, NEW q, NEW x \in InFile(f) \ {q}
  PROVE  Cardinality(InFile(f) \ {q}) >= 1
<1>1. IsFiniteSet(InFile(f) \ {q}) /\ Cardinality(InFile(f) \ {q}) \in Nat
  BY FileSets
<1>2. Cardinality(InFile(f) \ {q}) # 0
  BY <1>1, FS_EmptySet
<1> QED
  BY <1>1, <1>2

(* A descriptor q that gives back its id old, or has none to give back.    *)
Giving(q, old) ==
  /\ q \in Bufs /\ location[q] # "ram"
  /\ IF old = NoId THEN ~(q \in Live /\ HasId(q))
                   ELSE q \in Filed /\ HasId(q) /\ old = swapId[q]

LEMMA GivingIn ==
  ASSUME NEW q, NEW old, Giving(q, old), NEW f
  PROVE  q \in InFile(f) <=> old # NoId /\ FileOf(old) = f
  BY DEF Giving, InFile, HasId, Filed, Live

LEMMA GiveUsage ==
  ASSUME QueueIInv, NEW q, NEW old, Giving(q, old)
  PROVE  /\ UsageWithout(old) \in [FileIds -> Nat]
         /\ \A f \in FileIds :
              /\ UsageWithout(old)[f] = leaked[f] + Cardinality(InFile(f) \ {q})
              /\ UsageWithout(old)[f] <= usage[f]
<1>0. /\ usage \in [FileIds -> 0 .. PerFile] /\ leaked \in [FileIds -> 0 .. PerFile]
      /\ PerFile \in Nat
  BY TypeFacts, Constants DEF QueueIInv
<1>1. \A f \in FileIds : usage[f] = leaked[f] + Cardinality(InFile(f))
  BY DEF QueueIInv, FilesInv, UsageCountsBuffers, InFile
<1>2. \A f \in FileIds : leaked[f] \in Nat /\ usage[f] \in Nat
  BY <1>0
<1>3. CASE old = NoId
  <2>1. \A f \in FileIds : InFile(f) \ {q} = InFile(f)
    BY <1>3, FileSets, GivingIn
  <2> QED
    BY <1>0, <1>1, <1>2, <1>3, <2>1 DEF UsageWithout
<1>4. CASE old # NoId
  <2>1. UsageWithout(old) = [usage EXCEPT ![FileOf(old)] = @ - 1]
    BY <1>4 DEF UsageWithout
  <2>2. ASSUME NEW f \in FileIds
        PROVE  /\ UsageWithout(old)[f] = leaked[f] + Cardinality(InFile(f) \ {q})
               /\ UsageWithout(old)[f] <= usage[f] /\ UsageWithout(old)[f] \in Nat
    <3>1. Cardinality(InFile(f)) \in Nat /\ Cardinality(InFile(f) \ {q}) \in Nat
      BY FileSets
    <3>2. CASE FileOf(old) = f
      <4>1. UsageWithout(old)[f] = usage[f] - 1
        BY <1>0, <2>1, <3>2
      <4>2. Cardinality(InFile(f) \ {q}) = Cardinality(InFile(f)) - 1
        BY <1>4, <3>2, GivingIn, FileSets
      <4> QED
        BY <1>1, <1>2, <3>1, <4>1, <4>2
    <3>3. CASE FileOf(old) # f
      <4>1. UsageWithout(old)[f] = usage[f]
        BY <1>0, <2>1, <3>3
      <4>2. InFile(f) \ {q} = InFile(f)
        BY <1>4, <3>3, GivingIn, FileSets
      <4> QED
        BY <1>1, <1>2, <4>1, <4>2
    <3> QED
      BY <3>2, <3>3
  <2>3. DOMAIN UsageWithout(old) = FileIds
    BY <1>0, <2>1
  <2>4. UsageWithout(old) = [f \in FileIds |-> UsageWithout(old)[f]]
    BY <1>0, <2>1
  <2> QED
    BY <2>2, <2>4
<1> QED
  BY <1>3, <1>4

(* What becomes renewable is empty, is not being filled, and gets erased.  *)
LEMMA GiveRenewable ==
  ASSUME QueueIInv, NEW q, NEW old, Giving(q, old)
  PROVE  /\ RenewableWithout(old) \in [FileIds -> BOOLEAN]
         /\ \A f \in FileIds : RenewableWithout(old)[f] =>
              /\ UsageWithout(old)[f] = 0
              /\ f = CurrentFile => StartsFile /\ renewable[f]
              /\ renewTimer \/ BecomesRenewable(old)
<1>0. renewable \in [FileIds -> BOOLEAN] /\ usage \in [FileIds -> 0 .. PerFile]
      /\ PerFile \in Nat
  BY TypeFacts, Constants DEF QueueIInv
<1>1. \A f \in FileIds : renewable[f] =>
        usage[f] = 0 /\ (f = CurrentFile => StartsFile) /\ renewTimer
  BY DEF QueueIInv, FilesInv, ErasedWhenEmpty
<1>2. \A f \in FileIds : UsageWithout(old)[f] \in Nat /\ UsageWithout(old)[f] <= usage[f]
  BY GiveUsage
<1>3. \A f \in FileIds : renewable[f] => UsageWithout(old)[f] = 0
  BY <1>1, <1>2
<1>4. CASE BecomesRenewable(old)
  <2>1. /\ FileOf(old) # CurrentFile /\ usage[FileOf(old)] = 1 /\ old # NoId
        /\ RenewableWithout(old) = [renewable EXCEPT ![FileOf(old)] = TRUE]
    BY <1>4 DEF BecomesRenewable, RenewableWithout, CurrentFile
  <2>2. FileOf(old) \in FileIds
    BY <2>1, Ids DEF Giving, HasId
  <2>3. UsageWithout(old)[FileOf(old)] = 0
    BY <1>0, <2>1, <2>2 DEF UsageWithout
  <2> QED
    BY <1>0, <1>1, <1>3, <1>4, <2>1, <2>3
<1>5. CASE ~BecomesRenewable(old)
  BY <1>0, <1>1, <1>3, <1>5 DEF RenewableWithout
<1> QED
  BY <1>4, <1>5

(* A file that is begun is empty.                                          *)
LEMMA BegunEmpty ==
  ASSUME QueueIInv, NEW q, NEW old, Giving(q, old),
         IdFree(UsageWithout(old), RenewableWithout(old))
  PROVE  /\ \A f \in Renewed(RenewableWithout(old)) :
              f = CurrentFile /\ UsageWithout(old)[f] = 0
         /\ StartsFile => UsageWithout(old)[CurrentFile] = 0
         /\ UsageWithout(old)[CurrentFile] <= nextSwapId % PerFile
<1>1. CurrentFile \in FileIds /\ nextSwapId \in SwapIds
      /\ usage \in [FileIds -> 0 .. PerFile] /\ PerFile \in Nat
  BY TypeFacts, Constants DEF QueueIInv
<1>2. \A f \in Renewed(RenewableWithout(old)) :
        f = CurrentFile /\ UsageWithout(old)[f] = 0
  BY <1>1, GiveRenewable DEF Renewed
<1>3. StartsFile => UsageWithout(old)[CurrentFile] = 0
  BY <1>2 DEF IdFree
<1>4. ASSUME ~StartsFile PROVE UsageWithout(old)[CurrentFile] <= nextSwapId % PerFile
  <2>1. usage[CurrentFile] <= nextSwapId % PerFile
    BY <1>4 DEF QueueIInv, FilesInv, UsageBound
  <2>2. UsageWithout(old)[CurrentFile] <= usage[CurrentFile]
        /\ UsageWithout(old)[CurrentFile] \in Nat /\ usage[CurrentFile] \in Nat
    <3>1. \A f \in FileIds : usage[f] \in Nat
      BY <1>1
    <3>2. \A f \in FileIds : UsageWithout(old)[f] <= usage[f]
      BY GiveUsage
    <3>3. \A f \in FileIds : UsageWithout(old)[f] \in Nat
      BY GiveUsage
    <3> QED
      BY <1>1, <3>1, <3>2, <3>3, Zenon
  <2>3. nextSwapId % PerFile \in Nat
    BY <1>1, NextId, Constants
  <2> HIDE DEF Giving
  <2> QED
    BY <2>1, <2>2, <2>3
<1>5. StartsFile => nextSwapId % PerFile = 0
  BY DEF StartsFile
<1> QED
  BY <1>2, <1>3, <1>4, <1>5

-----------------------------------------------------------------------------
(* The numbers of TakeId: what it erases was empty, so every file keeps its
   buffers and the current one gets one more.                              *)
LEMMA TakeUsage ==
  ASSUME QueueIInv, NEW q, NEW old, Giving(q, old), NEW kept \in BOOLEAN, TakeId(q, old, kept)
  PROVE  /\ usage' \in [FileIds -> Nat] /\ leaked' \in [FileIds -> Nat]
         /\ \A f \in FileIds :
              /\ usage'[f] = UsageWithout(old)[f] + (IF f = CurrentFile THEN 1 ELSE 0)
              /\ leaked'[f] = leaked[f] + (IF f = CurrentFile /\ ~kept THEN 1 ELSE 0)
<1>0. CurrentFile \in FileIds /\ leaked \in [FileIds -> 0 .. PerFile] /\ PerFile \in Nat
  BY TypeFacts, Constants DEF QueueIInv
<1>1. /\ \A f \in Renewed(RenewableWithout(old)) :
           f = CurrentFile /\ UsageWithout(old)[f] = 0
      /\ UsageWithout(old) \in [FileIds -> Nat]
  BY BegunEmpty, GiveUsage DEF TakeId
<1>2. \A f \in FileIds :
        usage'[f] = UsageWithout(old)[f] + (IF f = CurrentFile THEN 1 ELSE 0)
  BY <1>1 DEF TakeId
<1>3. usage' \in [FileIds -> Nat]
  <2>1. usage' = [f \in FileIds |-> usage'[f]]
    BY DEF TakeId
  <2>2. \A f \in FileIds : UsageWithout(old)[f] \in Nat
    BY <1>1
  <2>3. \A f \in FileIds : usage'[f] \in Nat
    BY <1>2, <2>2
  <2> QED
    BY <2>1, <2>3
<1>4. leaked' = [leaked EXCEPT ![CurrentFile] = @ + (IF kept THEN 0 ELSE 1)]
  BY DEF TakeId
<1> QED
  BY <1>0, <1>2, <1>3, <1>4

(* The descriptors after a flush: q has the new id, and is live if kept.   *)
Placed(q, kept) ==
  /\ location' \in [Bufs -> {"free", "ram", "cfs"}]
  /\ location'[q] = IF kept THEN "cfs" ELSE "free"
  /\ \A x \in Bufs : x # q => location'[x] = location[x]

LEMMA TakeMembers ==
  ASSUME QueueIInv, NEW q, NEW old, Giving(q, old), NEW kept \in BOOLEAN, TakeId(q, old, kept),
         Placed(q, kept), NEW f
  PROVE  InFile(f)' = (InFile(f) \ {q}) \cup (IF f = CurrentFile /\ kept THEN {q} ELSE {})
<1>1. /\ swapId \in [Bufs -> SwapIds \cup {NoId, RamPointer}] /\ q \in Bufs
      /\ nextSwapId \in SwapIds /\ swapId' = [swapId EXCEPT ![q] = nextSwapId]
  BY TypeFacts DEF QueueIInv, Giving, TakeId
<1>2. \A x \in Bufs : swapId'[x] = IF x = q THEN nextSwapId ELSE swapId[x]
  BY <1>1
<1>3. \A x \in Bufs : x \in Live' <=> IF x = q THEN kept ELSE x \in Live
  BY DEF Placed, Live
<1>4. ASSUME NEW x
      PROVE  x \in InFile(f)' <=> IF x = q THEN f = CurrentFile /\ kept ELSE x \in InFile(f)
  <2>1. CASE x \in Bufs
    BY <1>1, <1>2, <1>3, <2>1 DEF InFile, CurrentFile
  <2>2. CASE x \notin Bufs
    BY <1>1, <2>2 DEF InFile, Live
  <2> QED
    BY <2>1, <2>2
<1> QED
  BY <1>4

(* Nobody else has the id that is given back.                              *)
LEMMA OthersApart ==
  ASSUME QueueIInv, NEW q, NEW old, Giving(q, old), NEW x \in Filed, x # q, HasId(x)
  PROVE  swapId[x] # old
<1>1. CASE old = NoId
  BY <1>1, Ids DEF HasId
<1>2. CASE old # NoId
  BY <1>2 DEF Giving, QueueIInv, DataInv, IdsApart, Keepers
<1> QED
  BY <1>1, <1>2

(* Nobody else has the id that is handed out, or an id of a file that is
   erased.                                                                 *)
LEMMA OthersKept ==
  ASSUME QueueIInv, NEW q, NEW old, Giving(q, old),
         IdFree(UsageWithout(old), RenewableWithout(old)),
         NEW x \in Filed, x # q, HasId(x)
  PROVE  /\ swapId[x] # nextSwapId /\ swapId[x] # old
         /\ FileOf(swapId[x]) \notin Renewed(RenewableWithout(old))
         /\ FileOf(swapId[x]) = CurrentFile => ~StartsFile /\ swapId[x] < nextSwapId
<1> DEFINE f == FileOf(swapId[x])
<1>1. f \in FileIds /\ swapId[x] \in Nat
  BY Ids DEF HasId
<1>2. x \in InFile(f) \ {q}
  BY DEF InFile, HasId, Filed, Live
<1>3. UsageWithout(old)[f] # 0
  <2>1. Cardinality(InFile(f) \ {q}) >= 1 /\ Cardinality(InFile(f) \ {q}) \in Nat
    BY <1>2, Counted, FileSets
  <2>2. UsageWithout(old)[f] = leaked[f] + Cardinality(InFile(f) \ {q})
    BY <1>1, GiveUsage
  <2>3. leaked[f] \in Nat
    <3>1. leaked \in [FileIds -> 0 .. PerFile]
      BY TypeFacts DEF QueueIInv
    <3>2. \A g \in FileIds : leaked[g] \in Nat
      BY <3>1, Constants
    <3> QED
      BY <1>1, <3>2
  <2> HIDE DEF f
  <2> QED
    BY <2>1, <2>2, <2>3
<1>4. f \notin Renewed(RenewableWithout(old))
  BY <1>3, BegunEmpty
<1>5. f = CurrentFile => ~StartsFile
  BY <1>3, BegunEmpty
<1>6. f = CurrentFile => swapId[x] < nextSwapId
  BY <1>5 DEF QueueIInv, FilesInv, IdsTaken
<1>7. swapId[x] # nextSwapId
  <2>1. nextSwapId \in Nat
    BY TypeFacts, Ids DEF QueueIInv
  <2> QED
    BY <1>6, <2>1 DEF CurrentFile
<1>8. swapId[x] # old
  BY OthersApart
<1> QED
  BY <1>4, <1>5, <1>6, <1>7, <1>8

(* How many buffers a file has, and ids lost, after such a flush.          *)
LEMMA TakeCount ==
  ASSUME QueueIInv, NEW q, NEW old, Giving(q, old), NEW kept \in BOOLEAN, TakeId(q, old, kept),
         Placed(q, kept), NEW f \in FileIds
  PROVE  /\ usage'[f] \in 0 .. PerFile /\ leaked'[f] \in 0 .. PerFile
         /\ usage'[f] = leaked'[f] + Cardinality(InFile(f)')
         /\ f # CurrentFile => usage'[f] = UsageWithout(old)[f]
         /\ f = CurrentFile => usage'[f] <= (nextSwapId % PerFile) + 1
<1> DEFINE u == UsageWithout(old)[f]
           k == Cardinality(InFile(f) \ {q})
           r == nextSwapId % PerFile
<1>1. /\ usage'[f] = u + (IF f = CurrentFile THEN 1 ELSE 0)
      /\ leaked'[f] = leaked[f] + (IF f = CurrentFile /\ ~kept THEN 1 ELSE 0)
  BY TakeUsage
<1>2. u = leaked[f] + k /\ u <= usage[f]
  BY GiveUsage
<1>3. k \in Nat
  BY FileSets
<1>4. usage[f] \in 0 .. PerFile /\ leaked[f] \in 0 .. PerFile
  BY TypeFacts DEF QueueIInv
<1>5. r \in 0 .. PerFile - 1 /\ PerFile \in Nat
  BY TypeFacts, NextId, Constants DEF QueueIInv
<1>6. f = CurrentFile => u <= r
  BY BegunEmpty DEF TakeId
<1>7. Cardinality(InFile(f)') = k + (IF f = CurrentFile /\ kept THEN 1 ELSE 0)
  <2>1. InFile(f)' = (InFile(f) \ {q}) \cup (IF f = CurrentFile /\ kept THEN {q} ELSE {})
    BY TakeMembers
  <2>2. CASE f = CurrentFile /\ kept
    <3>1. Cardinality((InFile(f) \ {q}) \cup {q}) = Cardinality(InFile(f) \ {q}) + 1
      BY FileSets, FS_AddElement
    <3> QED
      BY <2>1, <2>2, <3>1
  <2>3. CASE ~(f = CurrentFile /\ kept)
    <3>1. InFile(f)' = InFile(f) \ {q}
      BY <2>1, <2>3
    <3> QED
      BY <1>3, <2>3, <3>1
  <2> QED
    BY <2>2, <2>3
<1> HIDE DEF u, k, r
<1>8. CASE f = CurrentFile
  <2>1. u + 1 <= PerFile /\ usage'[f] = u + 1
    BY <1>1, <1>2, <1>3, <1>4, <1>5, <1>6, <1>8
  <2> QED
    BY <1>1, <1>2, <1>3, <1>4, <1>5, <1>6, <1>7, <1>8, <2>1 DEF r
<1>9. CASE f # CurrentFile
  <2>1. usage'[f] = u /\ leaked'[f] = leaked[f] /\ Cardinality(InFile(f)') = k
    BY <1>1, <1>2, <1>3, <1>4, <1>7, <1>9
  <2> QED
    BY <1>2, <1>3, <1>4, <1>5, <1>9, <2>1 DEF u
<1> QED
  BY <1>8, <1>9

(* FilesInv is kept by a flush that gets an id.                            *)
LEMMA TakeFiles ==
  ASSUME QueueIInv, NEW q, NEW old, Giving(q, old), NEW kept \in BOOLEAN, TakeId(q, old, kept),
         Placed(q, kept)
  PROVE  /\ FilesInv'
         /\ usage' \in [FileIds -> 0 .. PerFile] /\ leaked' \in [FileIds -> 0 .. PerFile]
         /\ renewable' \in [FileIds -> BOOLEAN] /\ nextSwapId' \in SwapIds
         /\ swapId' \in [Bufs -> SwapIds \cup {NoId, RamPointer}]
<1> DEFINE u == UsageWithout(old)
           n == nextSwapId
           m == nextSwapId'
<1>0. /\ IdFree(u, RenewableWithout(old)) /\ q \in Bufs
      /\ swapId' = [swapId EXCEPT ![q] = n] /\ m = (n + 1) % (Files * PerFile)
      /\ renewTimer' = (renewTimer \/ BecomesRenewable(old))
      /\ renewable' = [f \in FileIds |-> RenewableWithout(old)[f]
                                         /\ f \notin Renewed(RenewableWithout(old))]
  BY DEF TakeId, Giving, GiveBack
<1>1. /\ n \in SwapIds /\ m \in SwapIds /\ CurrentFile \in FileIds /\ CurrentFile' \in FileIds
      /\ n \in Nat /\ m \in Nat /\ n % PerFile \in 0 .. PerFile - 1
      /\ swapId \in [Bufs -> SwapIds \cup {NoId, RamPointer}] /\ PerFile \in Nat
  BY <1>0, TypeFacts, Ids, NextId, Constants DEF QueueIInv, CurrentFile
<1>2. StartsFile' \/ (m = n + 1 /\ CurrentFile' = CurrentFile /\ m % PerFile = (n % PerFile) + 1)
  BY <1>0, <1>1, NextId DEF StartsFile, CurrentFile
<1> HIDE DEF u, n, m
<1>3. \A f \in FileIds : usage'[f] \in 0 .. PerFile /\ leaked'[f] \in 0 .. PerFile
  BY TakeCount
<1>7. UsageCountsBuffers'
  <2>1. \A f \in FileIds : usage'[f] = leaked'[f] + Cardinality(InFile(f)')
    BY TakeCount
  <2> QED
    BY <2>1 DEF UsageCountsBuffers, InFile
<1>8. ErasedWhenEmpty'
  <2> SUFFICES ASSUME NEW f \in FileIds, renewable'[f]
               PROVE  usage'[f] = 0 /\ (f = CurrentFile' => StartsFile') /\ renewTimer'
    BY DEF ErasedWhenEmpty
  <2>1. RenewableWithout(old)[f] /\ f \notin Renewed(RenewableWithout(old))
    BY <1>0
  <2>2. u[f] = 0 /\ (f = CurrentFile => StartsFile) /\ (renewTimer \/ BecomesRenewable(old))
    BY <2>1, GiveRenewable DEF u
  <2>3. f # CurrentFile
    BY <2>1, <2>2 DEF Renewed
  <2>4. usage'[f] = 0
    BY <2>2, <2>3, TakeCount DEF u
  <2>5. f = CurrentFile' => StartsFile'
    BY <1>2, <2>3
  <2> QED
    BY <1>0, <2>2, <2>4, <2>5
<1>9. UsageBound'
  <2> SUFFICES ASSUME ~StartsFile' PROVE usage'[CurrentFile'] <= nextSwapId' % PerFile
    BY DEF UsageBound
  <2>1. m = n + 1 /\ CurrentFile' = CurrentFile /\ m % PerFile = (n % PerFile) + 1
    BY <1>2
  <2>2. usage'[CurrentFile] <= (n % PerFile) + 1
    BY <1>1, TakeCount DEF n
  <2> QED
    BY <2>1, <2>2 DEF m
<1>10. IdsTaken'
  <2> SUFFICES ASSUME NEW b \in Filed', HasId(b)', FileOf(swapId'[b]) = CurrentFile', ~StartsFile'
               PROVE  swapId'[b] < m
    BY DEF IdsTaken, m
  <2>1. m = n + 1 /\ CurrentFile' = CurrentFile
    BY <1>2
  <2>2. CASE b = q
    BY <1>0, <1>1, <2>1, <2>2
  <2>3. CASE b # q
    <3>1. b \in Filed /\ swapId'[b] = swapId[b] /\ HasId(b)
      BY <1>0, <1>1, <2>3 DEF Filed, Placed, HasId
    <3>2. swapId[b] < n /\ swapId[b] \in Nat
      BY <1>0, <2>1, <2>3, <3>1, OthersKept, Ids DEF u, n, HasId
    <3> QED
      BY <1>1, <2>1, <3>1, <3>2
  <2> QED
    BY <2>2, <2>3
<1>11. usage' \in [FileIds -> 0 .. PerFile] /\ leaked' \in [FileIds -> 0 .. PerFile]
  BY <1>3, TakeUsage
<1>12. swapId' \in [Bufs -> SwapIds \cup {NoId, RamPointer}]
  BY <1>0, <1>1
<1>13. renewable' \in [FileIds -> BOOLEAN]
  BY <1>0
<1> QED
  BY <1>1, <1>7, <1>8, <1>9, <1>10, <1>11, <1>12, <1>13 DEF FilesInv, m

(* FilesInv is kept by a step that gives an id back and takes none.        *)
LEMMA GiveFiles ==
  ASSUME QueueIInv, NEW q, NEW old, Giving(q, old), GiveBack(old),
         usage' = UsageWithout(old), renewable' = RenewableWithout(old),
         nextSwapId' = nextSwapId, leaked' = leaked,
         \A f \in FileIds : InFile(f)' = InFile(f) \ {q},
         \A x \in Filed' : HasId(x)' => x \in Filed /\ swapId'[x] = swapId[x]
  PROVE  /\ FilesInv'
         /\ usage' \in [FileIds -> 0 .. PerFile] /\ leaked' \in [FileIds -> 0 .. PerFile]
         /\ renewable' \in [FileIds -> BOOLEAN]
<1>0. /\ usage \in [FileIds -> 0 .. PerFile] /\ leaked \in [FileIds -> 0 .. PerFile]
      /\ PerFile \in Nat /\ CurrentFile \in FileIds /\ nextSwapId \in SwapIds
  BY TypeFacts, Constants DEF QueueIInv
<1>1. CurrentFile' = CurrentFile /\ StartsFile' = StartsFile
  BY DEF CurrentFile, StartsFile
<1>2. \A f \in FileIds : usage'[f] = leaked'[f] + Cardinality(InFile(f)')
  BY GiveUsage
<1>3. usage' \in [FileIds -> Nat] /\ \A f \in FileIds : usage'[f] <= usage[f]
  BY GiveUsage
<1>4. ASSUME NEW f \in FileIds PROVE usage'[f] \in 0 .. PerFile
  <2>1. usage'[f] <= usage[f] /\ usage'[f] \in Nat /\ usage[f] \in 0 .. PerFile
    BY <1>0, <1>3
  <2> QED
    BY <1>0, <2>1
<1>5. usage' \in [FileIds -> 0 .. PerFile]
  BY <1>3, <1>4
<1>6. renewable' \in [FileIds -> BOOLEAN] /\ ErasedWhenEmpty'
  BY <1>1, GiveRenewable DEF ErasedWhenEmpty, GiveBack
<1>7. UsageBound'
  <2>1. StartsFile \/ usage[CurrentFile] <= nextSwapId % PerFile
    BY DEF QueueIInv, FilesInv, UsageBound
  <2>2. usage'[CurrentFile] <= usage[CurrentFile] /\ usage'[CurrentFile] \in Nat
        /\ usage[CurrentFile] \in Nat
    BY <1>0, <1>3
  <2>3. nextSwapId % PerFile \in Nat
    BY <1>0, NextId, Constants
  <2>4. StartsFile \/ usage'[CurrentFile] <= nextSwapId % PerFile
    BY <2>1, <2>2, <2>3
  <2> QED
    BY <1>1, <2>4 DEF UsageBound
<1>8. IdsTaken'
  BY <1>1 DEF QueueIInv, FilesInv, IdsTaken, HasId
<1>9. UsageCountsBuffers'
  BY <1>2 DEF UsageCountsBuffers, InFile
<1> QED
  BY <1>0, <1>5, <1>6, <1>7, <1>8, <1>9 DEF FilesInv

(* DataInv is kept by a flush, of q, if the other buffers keep what the
   files hold of them and q, unless spoiled, is written as it was stored.  *)
LEMMA FlushData ==
  ASSUME QueueIInv, NEW q \in Bufs, NEW kept \in BOOLEAN, location[q] # "ram", Placed(q, kept),
         tmpdataQbuf' = q, ramData' = ramData,
         NEW id \in SwapIds \cup {NoId}, swapId' = [swapId EXCEPT ![q] = id],
         \A x \in Filed : x # q /\ HasId(x) =>
           swapId[x] # id /\ swapped'[swapId[x]] = swapped[swapId[x]],
         \A x \in Bufs : x # q =>
           (x \in spoiled' <=> x \in spoiled) /\ (x \notin spoiled => packet'[x] = packet[x]),
         kept => \/ q \in spoiled'
                 \/ id \in SwapIds /\ swapped'[id] = packet'[q] /\ tmpdata' = packet'[q]
  PROVE  DataInv'
<1>0. swapId \in [Bufs -> SwapIds \cup {NoId, RamPointer}]
  BY TypeFacts DEF QueueIInv
<1>1. Places /\ IdsApart /\ Stored
  BY DEF QueueIInv, DataInv
<1>2. swapId'[q] = id /\ \A x \in Bufs : x # q => swapId'[x] = swapId[x]
  BY <1>0
<1>3. \A x \in Bufs : x # q => location'[x] = location[x]
  BY DEF Placed
<1>4. location'[q] # "ram" /\ (location'[q] = "cfs" <=> kept)
  BY DEF Placed
<1>5. \A x \in Bufs : x # q => (x \in Filed' <=> x \in Filed)
  BY <1>3 DEF Filed
<1>6. Places'
  <2>1. ASSUME NEW b \in Bufs, location'[b] = "ram"
        PROVE  swapId'[b] = RamPointer /\ ramData'[b] = packet'[b] /\ b \notin spoiled'
    BY <1>1, <1>2, <1>3, <1>4, <2>1 DEF Places
  <2>2. ASSUME NEW b \in Filed'
        PROVE  HasId(b)' \/ (swapId'[b] = NoId /\ b \in spoiled')
    <3>1. CASE b = q
      BY <1>2, <1>4, <2>2, <3>1 DEF HasId, Filed
    <3>2. CASE b # q
      BY <1>1, <1>2, <1>5, <2>2, <3>2 DEF Places, HasId, Filed
    <3> QED
      BY <3>1, <3>2
  <2> QED
    BY <2>1, <2>2 DEF Places
<1>7. IdsApart'
  <2> SUFFICES ASSUME NEW b \in Keepers', NEW c \in Keepers', b # c, HasId(b)'
               PROVE  swapId'[b] # swapId'[c]
    BY DEF IdsApart
  <2>1. \A x \in Keepers' : x \in Bufs /\ (x # q => x \in Filed)
    BY <1>5 DEF Keepers, Filed
  <2>2. \A x \in Filed : x # q => swapId[x] # id \/ ~HasId(x)
    OBVIOUS
  <2>3. CASE b = q
    BY <1>2, <2>1, <2>2, <2>3, Ids DEF HasId
  <2>4. CASE c = q
    BY <1>2, <2>1, <2>2, <2>4 DEF HasId
  <2>5. CASE b # q /\ c # q
    BY <1>1, <1>2, <2>1, <2>5 DEF HasId, IdsApart, Keepers
  <2> QED
    BY <2>3, <2>4, <2>5
<1>8. Stored'
  <2> SUFFICES ASSUME NEW b \in Filed', b \notin spoiled'
               PROVE  swapped'[swapId'[b]] = packet'[b]
                      /\ (tmpdataQbuf' = b => tmpdata' = packet'[b])
    BY DEF Stored
  <2>1. CASE b = q
    BY <1>2, <1>4, <2>1 DEF Filed
  <2>2. CASE b # q
    <3>1. b \in Filed /\ b \notin spoiled /\ packet'[b] = packet[b] /\ swapId'[b] = swapId[b]
      BY <1>2, <1>5, <2>2 DEF Filed
    <3>2. HasId(b)
      BY <1>1, <3>1 DEF Places
    <3>3. swapped[swapId[b]] = packet[b]
      BY <1>1, <3>1 DEF Stored
    <3> QED
      BY <2>2, <3>1, <3>2, <3>3
  <2> QED
    BY <2>1, <2>2
<1> QED
  BY <1>6, <1>7, <1>8 DEF DataInv

(* What the others have in the files outlives a flush.                     *)
LEMMA ErasedOthers ==
  ASSUME QueueIInv, NEW q, NEW old, Giving(q, old), NEW fs,
         NEW x \in Filed, x # q, HasId(x), FileOf(swapId[x]) \notin fs
  PROVE  Erased(fs, old)[swapId[x]] = swapped[swapId[x]]
<1>1. swapId[x] # old /\ swapId[x] \in SwapIds
  BY OthersApart DEF HasId
<1> QED
  BY <1>1 DEF Erased

LEMMA ErasedType ==
  ASSUME QueueTypeOK, NEW fs, NEW old
  PROVE  Erased(fs, old) \in [SwapIds -> Anything]
<1>1. swapped \in [SwapIds -> Anything] /\ Junk \in Anything
  BY TypeFacts DEF Anything, Junk
<1> QED
  BY <1>1 DEF Erased

(* A flush, with its three outcomes, keeps the invariant.                  *)
LEMMA FlushKeeps ==
  ASSUME QueueIInv, NEW q, NEW old, Giving(q, old), NEW kept \in BOOLEAN, NEW c \in Anything,
         Placed(q, kept), tmpdataQbuf' = q, tmpdata' = c, ramData' = ramData,
         packet' \in [Bufs -> Anything], spoiled' \subseteq Live',
         \A x \in Bufs : x # q =>
           (x \in spoiled' <=> x \in spoiled) /\ (x \notin spoiled => packet'[x] = packet[x]),
         \/ Flush(q, old, c, kept) /\ (kept => q \in spoiled' \/ packet'[q] = c)
         \/ FlushFails(q, old, kept) /\ (kept => q \in spoiled')
         \/ FlushWithoutId(q, old) /\ (kept => q \in spoiled')
  PROVE  QueueIInv'
<1>0. /\ q \in Bufs /\ location[q] # "ram" /\ faults \in 0 .. MaxFaults /\ MaxFaults \in Nat
      /\ location' \in [Bufs -> {"free", "ram", "cfs"}] /\ ramData' \in [Bufs -> Anything]
      /\ swapId \in [Bufs -> SwapIds \cup {NoId, RamPointer}]
      /\ nextSwapId \in SwapIds /\ renewTimer' \in BOOLEAN
  <2>1. renewTimer' = (renewTimer \/ BecomesRenewable(old))
    BY DEF Flush, FlushFails, FlushWithoutId, TakeId, GiveBack
  <2>2. faults \in 0 .. MaxFaults /\ renewTimer \in BOOLEAN
    BY DEF QueueIInv, QueueTypeOK
  <2>3. renewTimer' \in BOOLEAN
    BY <2>1
  <2> QED
    BY <2>2, <2>3, TypeFacts, Constants DEF QueueIInv, Giving, Placed
<1>1. CASE /\ TakeId(q, old, kept) /\ faults' \in 0 .. MaxFaults
           /\ swapped' \in [SwapIds -> Anything]
           /\ \A id \in SwapIds : id # nextSwapId =>
                swapped'[id] = Erased(Renewed(RenewableWithout(old)), old)[id]
           /\ (kept => q \in spoiled' \/ (packet'[q] = c /\ swapped'[nextSwapId] = c))
  <2>1. /\ FilesInv'
        /\ usage' \in [FileIds -> 0 .. PerFile] /\ leaked' \in [FileIds -> 0 .. PerFile]
        /\ renewable' \in [FileIds -> BOOLEAN] /\ nextSwapId' \in SwapIds
        /\ swapId' \in [Bufs -> SwapIds \cup {NoId, RamPointer}]
    BY <1>1, TakeFiles
  <2>2. swapId' = [swapId EXCEPT ![q] = nextSwapId]
        /\ IdFree(UsageWithout(old), RenewableWithout(old))
    BY <1>1 DEF TakeId
  <2>3. ASSUME NEW x \in Filed, x # q, HasId(x)
        PROVE  swapId[x] # nextSwapId /\ swapped'[swapId[x]] = swapped[swapId[x]]
    <3>1. swapId[x] # nextSwapId /\ FileOf(swapId[x]) \notin Renewed(RenewableWithout(old))
      BY <2>2, <2>3, OthersKept
    <3>2. Erased(Renewed(RenewableWithout(old)), old)[swapId[x]] = swapped[swapId[x]]
      BY <2>3, <3>1, ErasedOthers
    <3> QED
      BY <1>1, <2>3, <3>1, <3>2 DEF HasId
  <2>4. DataInv'
    <3>1. q \in Bufs /\ location[q] # "ram" /\ nextSwapId \in SwapIds \cup {NoId}
      BY <1>0
    <3>2. \A x \in Filed : x # q /\ HasId(x) =>
            swapId[x] # nextSwapId /\ swapped'[swapId[x]] = swapped[swapId[x]]
      BY <2>3
    <3>3. kept => \/ q \in spoiled'
                  \/ nextSwapId \in SwapIds /\ swapped'[nextSwapId] = packet'[q]
                     /\ tmpdata' = packet'[q]
      <4>1. kept => q \in spoiled' \/ (packet'[q] = c /\ swapped'[nextSwapId] = c)
        BY <1>1, Zenon
      <4>2. tmpdata' = c /\ nextSwapId \in SwapIds
        BY <1>0, Zenon
      <4> QED
        BY <4>1, <4>2, Zenon
    <3> QED
      BY <2>2, <3>1, <3>2, <3>3, FlushData, Zenon
  <2>5. QueueTypeOK'
    BY <1>0, <1>1, <2>1 DEF QueueTypeOK, Anything
  <2> QED
    BY <2>1, <2>4, <2>5 DEF QueueIInv
<1>2. CASE FlushWithoutId(q, old) /\ (kept => q \in spoiled')
  <2>1. /\ swapId' = [swapId EXCEPT ![q] = NoId] /\ swapped' = Erased({}, old)
        /\ GiveBack(old) /\ usage' = UsageWithout(old) /\ renewable' = RenewableWithout(old)
        /\ nextSwapId' = nextSwapId /\ leaked' = leaked /\ faults' = faults
    BY <1>2 DEF FlushWithoutId
  <2>2. \A x \in Bufs : swapId'[x] = IF x = q THEN NoId ELSE swapId[x]
    BY <1>0, <2>1
  <2>3. ASSUME NEW f \in FileIds PROVE InFile(f)' = InFile(f) \ {q}
    BY <1>0, <2>2, Ids DEF InFile, Live, Placed
  <2>4. \A x \in Filed' : HasId(x)' => x \in Filed /\ swapId'[x] = swapId[x]
    BY <2>2, Ids DEF Filed, HasId, Placed
  <2>5. /\ FilesInv'
        /\ usage' \in [FileIds -> 0 .. PerFile] /\ leaked' \in [FileIds -> 0 .. PerFile]
        /\ renewable' \in [FileIds -> BOOLEAN]
    BY <2>1, <2>3, <2>4, GiveFiles
  <2>6. ASSUME NEW x \in Filed, x # q, HasId(x)
        PROVE  swapId[x] # NoId /\ swapped'[swapId[x]] = swapped[swapId[x]]
    BY <2>1, <2>6, ErasedOthers, Ids DEF HasId
  <2>7. DataInv'
    <3>1. q \in Bufs /\ location[q] # "ram" /\ NoId \in SwapIds \cup {NoId}
      BY <1>0
    <3>2. \A x \in Filed : x # q /\ HasId(x) =>
            swapId[x] # NoId /\ swapped'[swapId[x]] = swapped[swapId[x]]
      BY <2>6
    <3>3. kept => \/ q \in spoiled'
                  \/ NoId \in SwapIds /\ swapped'[NoId] = packet'[q] /\ tmpdata' = packet'[q]
      BY <1>2
    <3> QED
      BY <2>1, <3>1, <3>2, <3>3, FlushData, Zenon
  <2>8. swapped' \in [SwapIds -> Anything]
    BY <2>1, ErasedType DEF QueueIInv
  <2>9. swapId' \in [Bufs -> SwapIds \cup {NoId, RamPointer}]
    BY <1>0, <2>1
  <2>10. QueueTypeOK'
    BY <1>0, <2>1, <2>5, <2>8, <2>9 DEF QueueTypeOK, Anything
  <2> QED
    BY <2>5, <2>7, <2>10 DEF QueueIInv
<1>3. CASE FlushFails(q, old, kept) /\ (kept => q \in spoiled')
  <2>1. swapped' = Erased(Renewed(RenewableWithout(old)), old) /\ TakeId(q, old, kept)
        /\ faults' = faults + 1 /\ faults < MaxFaults
    BY <1>3 DEF FlushFails
  <2>2. swapped' \in [SwapIds -> Anything]
    BY <2>1, ErasedType DEF QueueIInv
  <2>3. faults' \in 0 .. MaxFaults
    BY <1>0, <2>1
  <2> QED
    BY <1>1, <1>3, <2>1, <2>2, <2>3
<1>4. CASE Flush(q, old, c, kept) /\ (kept => q \in spoiled' \/ packet'[q] = c)
  <2>1. swapped' = [Erased(Renewed(RenewableWithout(old)), old) EXCEPT ![nextSwapId] = c]
        /\ TakeId(q, old, kept) /\ faults' = faults
    BY <1>4 DEF Flush
  <2>2. Erased(Renewed(RenewableWithout(old)), old) \in [SwapIds -> Anything]
    BY ErasedType DEF QueueIInv
  <2>3. /\ swapped' \in [SwapIds -> Anything]
        /\ \A id \in SwapIds : id # nextSwapId =>
             swapped'[id] = Erased(Renewed(RenewableWithout(old)), old)[id]
        /\ swapped'[nextSwapId] = c
    BY <1>0, <2>1, <2>2
  <2> QED
    BY <1>0, <1>1, <1>4, <2>1, <2>3
<1> QED
  BY <1>2, <1>3, <1>4

-----------------------------------------------------------------------------
(* The actions.  tmpdata is taken to belong to another buffer than b only   *)
(* when neither has an id, so b is one that lost its data.                  *)
LEMMA SharesNoId ==
  ASSUME QueueIInv, NEW b \in Filed, InTmpdata(b), tmpdataQbuf # b
  PROVE  tmpdataQbuf \in Bufs /\ swapId[b] = NoId /\ swapId[tmpdataQbuf] = NoId /\ b \in spoiled
<1>1. tmpdataQbuf \in Bufs /\ swapId[tmpdataQbuf] = swapId[b]
  BY TypeFacts DEF QueueIInv, InTmpdata
<1>2. b \in Keepers /\ tmpdataQbuf \in Keepers
  BY <1>1 DEF Keepers
<1>3. ~HasId(b)
  BY <1>1, <1>2 DEF QueueIInv, DataInv, IdsApart
<1> QED
  BY <1>1, <1>3 DEF QueueIInv, DataInv, Places

LEMMA NewInFileKeeps ==
  ASSUME QueueIInv, NEW b \in Bufs, NewInFile(b)
  PROVE  QueueIInv'
<1>1. location[b] = "free"
  BY DEF NewInFile, Allocated, Live
<1>2. Giving(b, NoId)
  BY <1>1 DEF Giving, Live
<1>3. /\ location \in [Bufs -> {"free", "ram", "cfs"}] /\ spoiled \subseteq Live
      /\ packet \in [Bufs -> Anything] /\ ramData \in [Bufs -> Anything]
  BY TypeFacts DEF QueueIInv
<1>4. PICK c \in Contents :
        /\ tmpdata' = c
        /\ \/ Flush(b, NoId, c, TRUE) /\ Queue(b, "cfs", c)
           \/ /\ FlushWithoutId(b, NoId) \/ FlushFails(b, NoId, FALSE)
              /\ UNCHANGED <<location, packet, spoiled>>
  BY DEF NewInFile
<1>5. c \in Anything /\ tmpdataQbuf' = b /\ ramData' = ramData
  BY DEF NewInFile, Contents, Anything
<1>6. CASE Flush(b, NoId, c, TRUE) /\ Queue(b, "cfs", c)
  <2>1. /\ location' = [location EXCEPT ![b] = "cfs"] /\ packet' = [packet EXCEPT ![b] = c]
        /\ spoiled' = spoiled \ {b}
    BY <1>6 DEF Queue
  <2>2. Placed(b, TRUE)
    BY <1>3, <2>1 DEF Placed
  <2>3. packet' \in [Bufs -> Anything] /\ packet'[b] = c
    BY <1>3, <1>5, <2>1
  <2>4. spoiled' \subseteq Live'
    BY <1>3, <2>1 DEF Live
  <2>5. \A x \in Bufs : x # b =>
          (x \in spoiled' <=> x \in spoiled) /\ (x \notin spoiled => packet'[x] = packet[x])
    BY <1>3, <2>1
  <2>6. Flush(b, NoId, c, TRUE) /\ (TRUE => b \in spoiled' \/ packet'[b] = c) /\ TRUE \in BOOLEAN
    BY <1>6, <2>3
  <2> QED
    BY <1>2, <1>4, <1>5, <2>2, <2>3, <2>4, <2>5, <2>6, FlushKeeps, Zenon
<1>7. CASE /\ FlushWithoutId(b, NoId) \/ FlushFails(b, NoId, FALSE)
           /\ UNCHANGED <<location, packet, spoiled>>
  <2>1. location' = location /\ packet' = packet /\ spoiled' = spoiled
    BY <1>7
  <2>2. Placed(b, FALSE)
    BY <1>1, <1>3, <2>1 DEF Placed
  <2>3. packet' \in [Bufs -> Anything]
    BY <1>3, <2>1
  <2>4. spoiled' \subseteq Live'
    BY <1>3, <2>1 DEF Live
  <2>5. \A x \in Bufs : x # b =>
          (x \in spoiled' <=> x \in spoiled) /\ (x \notin spoiled => packet'[x] = packet[x])
    BY <2>1
  <2>6. \/ FlushFails(b, NoId, FALSE) /\ (FALSE => b \in spoiled')
        \/ FlushWithoutId(b, NoId) /\ (FALSE => b \in spoiled')
    BY <1>7
  <2>7. FALSE \in BOOLEAN
    OBVIOUS
  <2> QED
    BY <1>2, <1>4, <1>5, <2>2, <2>3, <2>4, <2>5, <2>6, <2>7, FlushKeeps, Zenon
<1> QED
  BY <1>4, <1>6, <1>7

(* An update under the id of b itself, or, b being spoiled, under that of  *)
(* the buffer tmpdata is taken to belong to.                               *)
LEMMA UpdateInFileKeeps ==
  ASSUME QueueIInv, NEW b \in Bufs, NEW c \in Anything, NEW whole \in BOOLEAN,
         UpdateInFile(b, c, whole)
  PROVE  QueueIInv'
<1> DEFINE q == LoadedQbuf(b)
           kept == q \in Live
<1>0. /\ location[b] = "cfs" /\ tmpdata' = c /\ tmpdataQbuf' = q
      /\ \/ /\ Flush(q, swapId[q], c, kept)
            /\ spoiled' = IF whole /\ q = b THEN spoiled \ {b} ELSE spoiled
         \/ /\ FlushWithoutId(q, swapId[q]) \/ FlushFails(q, swapId[q], kept)
            /\ spoiled' = spoiled \cup {b}
      /\ packet' = [packet EXCEPT ![b] = IF b \in spoiled' THEN Junk ELSE c]
      /\ location' = location /\ ramData' = ramData
  BY DEF UpdateInFile
<1>1. /\ location \in [Bufs -> {"free", "ram", "cfs"}] /\ spoiled \subseteq Live
      /\ packet \in [Bufs -> Anything] /\ Junk \in Anything
      /\ swapId \in [Bufs -> SwapIds \cup {NoId, RamPointer}]
  BY TypeFacts DEF QueueIInv, Anything, Junk
<1>2. b \in Filed /\ b \in Live
  BY <1>0 DEF Filed, Live
<1>3. q = b \/ (q \in Bufs /\ swapId[q] = NoId /\ b \in spoiled)
  <2>1. CASE InTmpdata(b)
    BY <1>0, <1>2, <2>1, SharesNoId DEF LoadedQbuf
  <2>2. CASE ~InTmpdata(b)
    BY <1>0, <2>2 DEF LoadedQbuf
  <2> QED
    BY <2>1, <2>2
<1>4. q \in Bufs /\ location[q] # "ram"
  <2>1. \A x \in Bufs : location[x] = "ram" => swapId[x] = RamPointer
    BY DEF QueueIInv, DataInv, Places
  <2> HIDE DEF q
  <2> QED
    BY <1>0, <1>3, <2>1, Ids
<1>5. q \in Filed => q = b \/ q \in spoiled
  BY <1>3, Ids DEF QueueIInv, DataInv, Places, HasId
<1>6. b \in Filed => HasId(b) \/ swapId[b] = NoId
  BY DEF QueueIInv, DataInv, Places
<1> HIDE DEF q
<1>7. Giving(q, swapId[q])
  <2>1. swapId[q] = NoId => ~HasId(q)
    BY Ids DEF HasId
  <2>2. swapId[q] # NoId => q = b /\ q \in Filed /\ HasId(q)
    BY <1>2, <1>3, <1>6
  <2> QED
    BY <1>4, <2>1, <2>2 DEF Giving
<1>8. kept \in BOOLEAN /\ Placed(q, kept) /\ (kept => q \in Filed)
  <2>1. location[q] = "cfs" <=> q \in Live
    BY <1>1, <1>4 DEF Live
  <2> QED
    BY <1>0, <1>1, <1>4, <2>1 DEF Placed, Filed, Live
<1>9. packet' \in [Bufs -> Anything]
  BY <1>0, <1>1
<1>10. Live' = Live
  BY <1>0 DEF Live
<1>11. spoiled' \subseteq Live'
  BY <1>0, <1>1, <1>2, <1>10
<1>12. \A x \in Bufs : x # q =>
         (x \in spoiled' <=> x \in spoiled) /\ (x \notin spoiled => packet'[x] = packet[x])
  BY <1>0, <1>1, <1>3
<1>13. kept => q \in spoiled \/ q = b
  BY <1>5, <1>8
<1>14. \/ Flush(q, swapId[q], c, kept) /\ (kept => q \in spoiled' \/ packet'[q] = c)
       \/ FlushFails(q, swapId[q], kept) /\ (kept => q \in spoiled')
       \/ FlushWithoutId(q, swapId[q]) /\ (kept => q \in spoiled')
  <2>1. b \notin spoiled' => packet'[b] = c
    BY <1>0, <1>1
  <2>2. CASE /\ Flush(q, swapId[q], c, kept)
             /\ spoiled' = IF whole /\ q = b THEN spoiled \ {b} ELSE spoiled
    BY <1>13, <2>1, <2>2
  <2>3. CASE /\ FlushWithoutId(q, swapId[q]) \/ FlushFails(q, swapId[q], kept)
             /\ spoiled' = spoiled \cup {b}
    BY <1>13, <2>3
  <2> QED
    BY <1>0, <2>2, <2>3
<1> HIDE DEF kept
<1> QED
  BY <1>0, <1>7, <1>8, <1>9, <1>11, <1>12, <1>14, FlushKeeps, Zenon

(* FilesInv is kept by a step that leaves the files and the buffers in them*)
(* alone.                                                                  *)
LEMMA SameFiles ==
  ASSUME QueueIInv, usage' = usage, leaked' = leaked, renewable' = renewable,
         renewTimer' = renewTimer, nextSwapId' = nextSwapId,
         location' \in [Bufs -> {"free", "ram", "cfs"}],
         \A x \in Bufs : location'[x] = "ram" => swapId'[x] = RamPointer,
         \A x \in Bufs : location'[x] = "cfs" <=> location[x] = "cfs",
         \A x \in Filed : swapId'[x] = swapId[x]
  PROVE  FilesInv'
<1>1. CurrentFile' = CurrentFile /\ StartsFile' = StartsFile
  BY DEF CurrentFile, StartsFile
<1>2. location \in [Bufs -> {"free", "ram", "cfs"}]
  BY TypeFacts DEF QueueIInv
<1>3. \A x \in Bufs : location[x] = "ram" => swapId[x] = RamPointer
  BY DEF QueueIInv, DataInv, Places
<1>4. ASSUME NEW f PROVE InFile(f)' = InFile(f)
  <2>1. InFile(f) = {x \in Filed : swapId[x] \in SwapIds /\ FileOf(swapId[x]) = f}
    BY <1>2, <1>3, Ids DEF InFile, Live, Filed
  <2>2. InFile(f)' = {x \in Filed : swapId'[x] \in SwapIds /\ FileOf(swapId'[x]) = f}
    BY Ids DEF InFile, Live, Filed
  <2> QED
    BY <2>1, <2>2
<1>5. UsageCountsBuffers'
  <2>1. \A f \in FileIds : usage[f] = leaked[f] + Cardinality(InFile(f))
    BY DEF QueueIInv, FilesInv, UsageCountsBuffers, InFile
  <2>2. \A f \in FileIds : usage'[f] = leaked'[f] + Cardinality(InFile(f)')
    BY <1>4, <2>1
  <2> QED
    BY <2>2 DEF UsageCountsBuffers, InFile
<1>6. ErasedWhenEmpty' /\ UsageBound'
  BY <1>1 DEF QueueIInv, FilesInv, ErasedWhenEmpty, UsageBound
<1>7. IdsTaken'
  BY <1>1 DEF QueueIInv, FilesInv, IdsTaken, Filed, HasId
<1> QED
  BY <1>5, <1>6, <1>7 DEF FilesInv

LEMMA NewInRamKeeps ==
  ASSUME QueueIInv, NEW b \in Bufs, NewInRam(b)
  PROVE  QueueIInv'
<1>1. location[b] = "free"
  BY DEF NewInRam, Allocated, Live
<1>2. PICK c \in Contents :
        /\ location' = [location EXCEPT ![b] = "ram"] /\ packet' = [packet EXCEPT ![b] = c]
        /\ spoiled' = spoiled \ {b} /\ ramData' = [ramData EXCEPT ![b] = c]
  BY DEF NewInRam, Queue
<1>3. /\ swapId' = [swapId EXCEPT ![b] = RamPointer]
      /\ tmpdata' = tmpdata /\ tmpdataQbuf' = tmpdataQbuf /\ UNCHANGED fileVars
  BY DEF NewInRam
<1>4. /\ location \in [Bufs -> {"free", "ram", "cfs"}] /\ spoiled \subseteq Live
      /\ packet \in [Bufs -> Anything] /\ ramData \in [Bufs -> Anything]
      /\ swapId \in [Bufs -> SwapIds \cup {NoId, RamPointer}] /\ c \in Anything
  BY TypeFacts DEF QueueIInv, Contents, Anything
<1>5. Places /\ IdsApart /\ Stored
  BY DEF QueueIInv, DataInv
<1>6. \A x \in Bufs : location'[x] = "ram" => swapId'[x] = RamPointer /\ ramData'[x] = packet'[x]
                                              /\ x \notin spoiled'
  BY <1>2, <1>3, <1>4, <1>5 DEF Places
<1>7. Filed' = Filed /\ Keepers' = Keepers
  BY <1>1, <1>2, <1>3, <1>4 DEF Filed, Keepers
<1>8. \A x \in Bufs : x # b => swapId'[x] = swapId[x] /\ packet'[x] = packet[x]
                               /\ (x \in spoiled' <=> x \in spoiled)
  BY <1>2, <1>3, <1>4
<1>9. b \notin Filed /\ swapId'[b] = RamPointer
  BY <1>1, <1>3, <1>4 DEF Filed
<1>10. Places'
  BY <1>5, <1>6, <1>7, <1>8, <1>9 DEF Places, HasId, Filed
<1>11. IdsApart'
  <2> SUFFICES ASSUME NEW x \in Keepers, NEW y \in Keepers, x # y, HasId(x)'
               PROVE  swapId'[x] # swapId'[y]
    BY <1>7 DEF IdsApart
  <2>1. x \in Bufs /\ y \in Bufs /\ x # b
    BY <1>9, Ids DEF Keepers, Filed, HasId
  <2>2. CASE y = b
    BY <1>9, <2>2, Ids DEF HasId
  <2>3. CASE y # b
    BY <1>5, <1>8, <2>1, <2>3 DEF IdsApart, HasId
  <2> QED
    BY <2>2, <2>3
<1>12. Stored'
  BY <1>3, <1>5, <1>7, <1>8, <1>9 DEF Stored, Filed, fileVars
<1>13. FilesInv'
  <2>1. location' \in [Bufs -> {"free", "ram", "cfs"}]
    BY <1>2, <1>4
  <2>2. \A x \in Bufs : location'[x] = "cfs" <=> location[x] = "cfs"
    BY <1>7 DEF Filed
  <2>3. \A x \in Filed : swapId'[x] = swapId[x]
    BY <1>8, <1>9 DEF Filed
  <2>4. /\ usage' = usage /\ leaked' = leaked /\ renewable' = renewable
        /\ renewTimer' = renewTimer /\ nextSwapId' = nextSwapId
    BY <1>3 DEF fileVars
  <2>5. \A x \in Bufs : location'[x] = "ram" => swapId'[x] = RamPointer
    BY <1>6
  <2> QED
    BY <2>1, <2>2, <2>3, <2>4, <2>5, SameFiles, Zenon
<1>14. QueueTypeOK'
  <2>1. location' \in [Bufs -> {"free", "ram", "cfs"}] /\ spoiled' \subseteq Live'
    BY <1>2, <1>4 DEF Live
  <2>2. packet' \in [Bufs -> Anything] /\ ramData' \in [Bufs -> Anything]
        /\ swapId' \in [Bufs -> SwapIds \cup {NoId, RamPointer}]
    BY <1>2, <1>3, <1>4
  <2> QED
    BY <1>3, <2>1, <2>2 DEF QueueIInv, QueueTypeOK, Anything, fileVars
<1> QED
  BY <1>10, <1>11, <1>12, <1>13, <1>14 DEF QueueIInv, DataInv

LEMMA UpdateInRamKeeps ==
  ASSUME QueueIInv, NEW b \in Bufs, NEW c \in Anything, UpdateInRam(b, c)
  PROVE  QueueIInv'
<1>1. /\ location[b] = "ram" /\ ramData' = [ramData EXCEPT ![b] = c]
      /\ packet' = [packet EXCEPT ![b] = c] /\ location' = location /\ swapId' = swapId
      /\ tmpdata' = tmpdata /\ tmpdataQbuf' = tmpdataQbuf /\ UNCHANGED fileVars
      /\ spoiled' = spoiled
  BY DEF UpdateInRam
<1>2. /\ packet \in [Bufs -> Anything] /\ ramData \in [Bufs -> Anything]
      /\ location \in [Bufs -> {"free", "ram", "cfs"}]
  BY TypeFacts DEF QueueIInv
<1>3. Places /\ IdsApart /\ Stored
  BY DEF QueueIInv, DataInv
<1>4. Filed' = Filed /\ Keepers' = Keepers /\ b \notin Filed /\ Live' = Live
  BY <1>1 DEF Filed, Keepers, Live
<1>5. Places'
  BY <1>1, <1>2, <1>3, <1>4 DEF Places, HasId
<1>6. IdsApart'
  BY <1>1, <1>3, <1>4 DEF IdsApart, HasId
<1>7. Stored'
  BY <1>1, <1>2, <1>3, <1>4 DEF Stored, Filed, fileVars
<1>8. FilesInv'
  <2>1. \A x \in Bufs : location'[x] = "ram" => swapId'[x] = RamPointer
    BY <1>5 DEF Places
  <2>2. /\ usage' = usage /\ leaked' = leaked /\ renewable' = renewable
        /\ renewTimer' = renewTimer /\ nextSwapId' = nextSwapId
    BY <1>1 DEF fileVars
  <2>3. \A x \in Bufs : location'[x] = "cfs" <=> location[x] = "cfs"
    BY <1>1
  <2>4. \A x \in Filed : swapId'[x] = swapId[x]
    BY <1>1
  <2>5. location' \in [Bufs -> {"free", "ram", "cfs"}]
    BY <1>1, <1>2
  <2> QED
    BY <2>1, <2>2, <2>3, <2>4, <2>5, SameFiles, Zenon
<1>9. packet' \in [Bufs -> Anything] /\ ramData' \in [Bufs -> Anything]
  BY <1>1, <1>2
<1>10. QueueTypeOK'
  BY <1>1, <1>4, <1>9 DEF QueueIInv, QueueTypeOK, Anything, fileVars
<1> QED
  BY <1>5, <1>6, <1>7, <1>8, <1>10 DEF QueueIInv, DataInv

LEMMA LoadedType ==
  ASSUME QueueIInv, NEW b \in Live
  PROVE  Loaded(b) \in Anything
<1>1. /\ location \in [Bufs -> {"free", "ram", "cfs"}] /\ ramData \in [Bufs -> Anything]
      /\ swapped \in [SwapIds -> Anything] /\ tmpdata \in Anything /\ Junk \in Anything
  BY TypeFacts DEF QueueIInv, Anything, Junk
<1>2. b \in Bufs /\ location[b] \in {"ram", "cfs"}
  BY <1>1 DEF Live
<1>3. CASE location[b] = "ram"
  BY <1>1, <1>2, <1>3 DEF Loaded
<1>4. CASE location[b] = "cfs" /\ InTmpdata(b)
  BY <1>1, <1>4 DEF Loaded
<1>5. CASE location[b] = "cfs" /\ ~InTmpdata(b)
  <2>1. Loaded(b) = IF swapId[b] = NoId THEN Junk ELSE swapped[swapId[b]]
    BY <1>5 DEF Loaded
  <2>2. swapId[b] = NoId \/ swapId[b] \in SwapIds
    BY <1>2, <1>5 DEF QueueIInv, DataInv, Places, Filed, HasId
  <2> QED
    BY <1>1, <2>1, <2>2
<1> QED
  BY <1>2, <1>3, <1>4, <1>5

LEMMA ReadKeeps ==
  ASSUME QueueIInv, NEW b \in Bufs, Read(b)
  PROVE  QueueIInv'
<1>1. /\ location[b] = "cfs" /\ ~InTmpdata(b) /\ tmpdata' = Loaded(b) /\ tmpdataQbuf' = b
      /\ location' = location /\ ramData' = ramData /\ swapId' = swapId /\ UNCHANGED fileVars
      /\ packet' = packet /\ spoiled' = spoiled
  BY DEF Read
<1>2. Places /\ IdsApart /\ Stored
  BY DEF QueueIInv, DataInv
<1>3. /\ b \in Filed /\ b \in Live /\ Filed' = Filed /\ Live' = Live
      /\ Keepers' = Filed /\ Filed \subseteq Keepers
  BY <1>1 DEF Filed, Live, Keepers
<1>4. Places'
  BY <1>1, <1>2, <1>3 DEF Places, HasId
<1>5. IdsApart'
  BY <1>1, <1>2, <1>3 DEF IdsApart, HasId
<1>6. b \notin spoiled => tmpdata' = packet[b]
  <2>1. Loaded(b) = IF swapId[b] = NoId THEN Junk ELSE swapped[swapId[b]]
    BY <1>1 DEF Loaded
  <2>2. b \notin spoiled => swapId[b] # NoId /\ swapped[swapId[b]] = packet[b]
    BY <1>2, <1>3, Ids DEF Places, Stored, HasId
  <2> QED
    BY <1>1, <2>1, <2>2
<1>7. Stored'
  BY <1>1, <1>2, <1>3, <1>6 DEF Stored, fileVars
<1>8. FilesInv'
  BY <1>1, <1>3 DEF QueueIInv, FilesInv, UsageCountsBuffers, ErasedWhenEmpty, UsageBound, IdsTaken,
                    HasId, CurrentFile, StartsFile, fileVars
<1>9. QueueTypeOK'
  <2>1. tmpdata' \in Anything
    BY <1>1, <1>3, LoadedType
  <2> QED
    BY <1>1, <1>3, <2>1 DEF QueueIInv, QueueTypeOK, Anything, fileVars
<1> QED
  BY <1>4, <1>5, <1>7, <1>8, <1>9 DEF QueueIInv, DataInv

LEMMA FreeFromRamKeeps ==
  ASSUME QueueIInv, NEW b \in Bufs, FreeFromRam(b)
  PROVE  QueueIInv'
<1>1. /\ location[b] = "ram" /\ ramData' = [ramData EXCEPT ![b] = Junk]
      /\ location' = [location EXCEPT ![b] = "free"] /\ packet' = [packet EXCEPT ![b] = Junk]
      /\ spoiled' = spoiled \ {b} /\ swapped' = swapped /\ swapId' = swapId
      /\ tmpdata' = tmpdata /\ tmpdataQbuf' = tmpdataQbuf
      /\ nextSwapId' = nextSwapId /\ faults' = faults /\ leaked' = leaked
      /\ usage' = usage /\ renewable' = renewable /\ renewTimer' = renewTimer
  BY DEF FreeFromRam, Drop
<1>2. /\ packet \in [Bufs -> Anything] /\ ramData \in [Bufs -> Anything] /\ Junk \in Anything
      /\ location \in [Bufs -> {"free", "ram", "cfs"}] /\ spoiled \subseteq Live
  BY TypeFacts DEF QueueIInv, Anything, Junk
<1>3. Places /\ IdsApart /\ Stored
  BY DEF QueueIInv, DataInv
<1>4. Filed' = Filed /\ Keepers' = Keepers /\ b \notin Filed
  BY <1>1, <1>2 DEF Filed, Keepers
<1>5. location'[b] = "free" /\ \A x \in Bufs : x # b =>
        location'[x] = location[x] /\ packet'[x] = packet[x] /\ ramData'[x] = ramData[x]
        /\ (x \in spoiled' <=> x \in spoiled)
  BY <1>1, <1>2
<1>6. Places'
  BY <1>1, <1>3, <1>4, <1>5 DEF Places, HasId, Filed
<1>7. IdsApart'
  BY <1>1, <1>3, <1>4 DEF IdsApart, HasId
<1>8. Stored'
  BY <1>1, <1>3, <1>4, <1>5 DEF Stored, Filed
<1>9. FilesInv'
  <2>1. \A x \in Bufs : location'[x] = "ram" => swapId'[x] = RamPointer
    BY <1>6 DEF Places
  <2>2. \A x \in Bufs : location'[x] = "cfs" <=> location[x] = "cfs"
    BY <1>1, <1>5
  <2>3. \A x \in Filed : swapId'[x] = swapId[x]
    BY <1>1
  <2>4. location' \in [Bufs -> {"free", "ram", "cfs"}]
    BY <1>1, <1>2
  <2> QED
    BY <1>1, <2>1, <2>2, <2>3, <2>4, SameFiles, Zenon
<1>10. QueueTypeOK'
  <2>1. packet' \in [Bufs -> Anything] /\ ramData' \in [Bufs -> Anything]
        /\ location' \in [Bufs -> {"free", "ram", "cfs"}]
    BY <1>1, <1>2
  <2>2. spoiled' \subseteq Live'
    BY <1>1, <1>2, <1>5 DEF Live
  <2> QED
    BY <1>1, <2>1, <2>2 DEF QueueIInv, QueueTypeOK, Anything
<1> QED
  BY <1>6, <1>7, <1>8, <1>9, <1>10 DEF QueueIInv, DataInv

LEMMA FreeFromFileKeeps ==
  ASSUME QueueIInv, NEW b \in Bufs, FreeFromFile(b)
  PROVE  QueueIInv'
<1> DEFINE old == swapId[b]
<1>1. /\ location[b] = "cfs" /\ ramData' = ramData
      /\ usage' = UsageWithout(old) /\ renewable' = RenewableWithout(old) /\ GiveBack(old)
      /\ swapId' = IF InTmpdata(b) THEN [swapId EXCEPT ![tmpdataQbuf] = NoId] ELSE swapId
      /\ location' = [location EXCEPT ![b] = "free"] /\ packet' = [packet EXCEPT ![b] = Junk]
      /\ spoiled' = spoiled \ {b} /\ swapped' = Erased({}, old)
      /\ tmpdata' = tmpdata /\ tmpdataQbuf' = tmpdataQbuf
      /\ nextSwapId' = nextSwapId /\ faults' = faults /\ leaked' = leaked
  BY DEF FreeFromFile, Drop
<1>2. /\ packet \in [Bufs -> Anything] /\ ramData \in [Bufs -> Anything] /\ Junk \in Anything
      /\ location \in [Bufs -> {"free", "ram", "cfs"}] /\ spoiled \subseteq Live
      /\ swapId \in [Bufs -> SwapIds \cup {NoId, RamPointer}]
      /\ tmpdataQbuf \in Bufs \cup {NoBuf}
  BY TypeFacts DEF QueueIInv, Anything, Junk
<1>3. Places /\ IdsApart /\ Stored
  BY DEF QueueIInv, DataInv
<1>4. b \in Filed /\ Filed' = Filed \ {b}
  BY <1>1, <1>2 DEF Filed
<1>5. Giving(b, old)
  BY <1>1, <1>3, <1>4, Ids DEF Giving, Places, HasId
<1>6. swapId' \in [Bufs -> SwapIds \cup {NoId, RamPointer}]
      /\ \A x \in Bufs : x # b => swapId'[x] = swapId[x]
  <2>1. CASE InTmpdata(b) /\ tmpdataQbuf # b
    <3>1. tmpdataQbuf \in Bufs /\ swapId[tmpdataQbuf] = NoId
      BY <1>4, <2>1, SharesNoId
    <3> QED
      BY <1>1, <1>2, <2>1, <3>1
  <2>2. CASE InTmpdata(b) /\ tmpdataQbuf = b
    BY <1>1, <1>2, <2>2
  <2>3. CASE ~InTmpdata(b)
    BY <1>1, <1>2, <2>3
  <2> QED
    BY <2>1, <2>2, <2>3
<1>7. tmpdataQbuf = b => swapId'[b] = NoId
  BY <1>1, <1>2, <1>6, BufFacts DEF InTmpdata
<1>8. location'[b] = "free" /\ \A x \in Bufs : x # b =>
        location'[x] = location[x] /\ packet'[x] = packet[x]
        /\ (x \in spoiled' <=> x \in spoiled)
  BY <1>1, <1>2
<1> HIDE DEF old
<1>9. ASSUME NEW x \in Filed, x # b, HasId(x) PROVE swapped'[swapId[x]] = swapped[swapId[x]]
  BY <1>1, <1>5, <1>9, ErasedOthers
<1>10. Places'
  BY <1>1, <1>3, <1>4, <1>6, <1>8 DEF Places, HasId, Filed
<1>11. IdsApart'
  <2> SUFFICES ASSUME NEW x \in Keepers', NEW y \in Keepers', x # y, HasId(x)'
               PROVE  swapId'[x] # swapId'[y]
    BY DEF IdsApart
  <2>1. x \in Keepers /\ y \in Keepers /\ x \in Bufs /\ y \in Bufs
        /\ (x = b => tmpdataQbuf = b) /\ (y = b => tmpdataQbuf = b)
    BY <1>1, <1>4 DEF Keepers, Filed
  <2>2. x # b
    BY <1>7, <2>1, Ids DEF HasId
  <2>3. CASE y = b
    BY <1>7, <2>1, <2>3, Ids DEF HasId
  <2>4. CASE y # b
    BY <1>3, <1>6, <2>1, <2>2, <2>4 DEF IdsApart, HasId
  <2> QED
    BY <2>3, <2>4
<1>12. Stored'
  <2> SUFFICES ASSUME NEW x \in Filed', x \notin spoiled'
               PROVE  swapped'[swapId'[x]] = packet'[x]
                      /\ (tmpdataQbuf' = x => tmpdata' = packet'[x])
    BY DEF Stored
  <2>1. x \in Filed /\ x # b /\ x \in Bufs
    BY <1>4 DEF Filed
  <2>2. swapId'[x] = swapId[x] /\ packet'[x] = packet[x] /\ x \notin spoiled
    BY <1>6, <1>8, <2>1
  <2>3. HasId(x)
    BY <1>3, <2>1, <2>2 DEF Places
  <2> QED
    BY <1>1, <1>3, <1>9, <2>1, <2>2, <2>3 DEF Stored
<1>13. /\ FilesInv'
       /\ usage' \in [FileIds -> 0 .. PerFile] /\ leaked' \in [FileIds -> 0 .. PerFile]
       /\ renewable' \in [FileIds -> BOOLEAN]
  <2>1. ASSUME NEW f \in FileIds PROVE InFile(f)' = InFile(f) \ {b}
    BY <1>6, <1>8 DEF InFile, Live
  <2>2. \A x \in Filed' : HasId(x)' => x \in Filed /\ swapId'[x] = swapId[x]
    BY <1>4, <1>6 DEF Filed
  <2> QED
    BY <1>1, <1>5, <2>1, <2>2, GiveFiles
<1>14. QueueTypeOK'
  <2>1. packet' \in [Bufs -> Anything] /\ location' \in [Bufs -> {"free", "ram", "cfs"}]
    BY <1>1, <1>2
  <2>2. spoiled' \subseteq Live'
    BY <1>1, <1>2, <1>8 DEF Live
  <2>3. swapped' \in [SwapIds -> Anything]
    BY <1>1, ErasedType DEF QueueIInv
  <2>4. renewTimer' \in BOOLEAN
    <3>1. renewTimer' = (renewTimer \/ BecomesRenewable(old))
      BY <1>1 DEF GiveBack
    <3> QED
      BY <3>1
  <2> QED
    BY <1>1, <1>6, <1>13, <2>1, <2>2, <2>3, <2>4 DEF QueueIInv, QueueTypeOK, Anything
<1> QED
  BY <1>10, <1>11, <1>12, <1>13, <1>14 DEF QueueIInv, DataInv

(* What is erased when the timer runs held nothing.                        *)
LEMMA RenewAllKeeps ==
  ASSUME QueueIInv, RenewAll
  PROVE  QueueIInv'
<1> DEFINE gone == {f \in FileIds : renewable[f]}
<1>1. /\ renewTimer' = FALSE /\ swapped' = Erased(gone, NoId)
      /\ usage' = [f \in FileIds |-> IF f \in gone THEN 0 ELSE usage[f]]
      /\ renewable' = [f \in FileIds |-> FALSE]
      /\ location' = location /\ ramData' = ramData /\ swapId' = swapId /\ tmpdata' = tmpdata
      /\ tmpdataQbuf' = tmpdataQbuf /\ nextSwapId' = nextSwapId
      /\ faults' = faults /\ packet' = packet /\ spoiled' = spoiled /\ leaked' = leaked
  BY DEF RenewAll
<1>2. /\ usage \in [FileIds -> 0 .. PerFile] /\ leaked \in [FileIds -> 0 .. PerFile]
      /\ swapped \in [SwapIds -> Anything]
  BY TypeFacts DEF QueueIInv
<1>3. Places /\ IdsApart /\ Stored /\ UsageCountsBuffers /\ ErasedWhenEmpty
  BY DEF QueueIInv, DataInv, FilesInv
<1>4. \A f \in gone : usage[f] = 0
  BY <1>3 DEF ErasedWhenEmpty
<1>5. usage' = usage
  BY <1>1, <1>2, <1>4
<1>6. ASSUME NEW x \in Filed, HasId(x) PROVE swapped'[swapId[x]] = swapped[swapId[x]]
  <2>1. swapId[x] \in SwapIds /\ swapId[x] # NoId /\ FileOf(swapId[x]) \in FileIds
    BY <1>6, Ids DEF HasId
  <2>2. x \in InFile(FileOf(swapId[x])) \ {NoBuf}
    BY <2>1, BufFacts DEF InFile, Filed, Live
  <2>3. FileOf(swapId[x]) \notin gone
    <3> DEFINE f == FileOf(swapId[x])
    <3>1. Cardinality(InFile(f) \ {NoBuf}) >= 1 /\ InFile(f) \ {NoBuf} = InFile(f)
          /\ Cardinality(InFile(f)) \in Nat
      BY <2>2, Counted, FileSets, BufFacts DEF InFile, Live
    <3>2. usage[f] = leaked[f] + Cardinality(InFile(f))
      BY <1>3, <2>1 DEF UsageCountsBuffers, InFile
    <3>3. leaked[f] \in 0 .. PerFile
      BY <1>2, <2>1
    <3> HIDE DEF f
    <3>4. usage[f] # 0
      BY <3>1, <3>2, <3>3
    <3> QED
      BY <1>4, <3>4 DEF f
  <2> QED
    BY <1>1, <2>1, <2>3 DEF Erased
<1> HIDE DEF gone
<1>7. Filed' = Filed /\ Keepers' = Keepers /\ Live' = Live
  BY <1>1 DEF Filed, Keepers, Live
<1>8. Places' /\ IdsApart'
  BY <1>1, <1>3, <1>7 DEF Places, IdsApart, HasId
<1>9. Stored'
  BY <1>1, <1>3, <1>6, <1>7 DEF Stored, Places
<1>10. FilesInv'
  BY <1>1, <1>5, <1>7 DEF QueueIInv, FilesInv, UsageCountsBuffers, ErasedWhenEmpty, UsageBound,
                          IdsTaken, HasId, CurrentFile, StartsFile
<1>11. QueueTypeOK'
  <2>1. swapped' \in [SwapIds -> Anything] /\ renewable' \in [FileIds -> BOOLEAN]
    BY <1>1, ErasedType DEF QueueIInv
  <2>2. usage' \in [FileIds -> 0 .. PerFile] /\ leaked' \in [FileIds -> 0 .. PerFile]
    BY <1>1, <1>2, <1>5
  <2>3. renewTimer' \in BOOLEAN
    BY <1>1
  <2> QED
    BY <1>1, <1>7, <2>1, <2>2, <2>3 DEF QueueIInv, QueueTypeOK, Anything
<1> QED
  BY <1>8, <1>9, <1>10, <1>11 DEF QueueIInv, DataInv

-----------------------------------------------------------------------------
LEMMA QueueInvInit == QueueInit => QueueIInv
<1> SUFFICES ASSUME QueueInit PROVE QueueIInv
  OBVIOUS
<1>1. Filed = {} /\ Live = {} /\ Keepers = {}
  BY BufFacts DEF QueueInit, Filed, Live, Keepers
<1>2. 0 \in SwapIds
  <2>1. Files * PerFile > 0
    BY QueueAssumption
  <2> QED
    BY <2>1, Constants DEF SwapIds
<1>3. QueueTypeOK
  <2>1. Junk \in Anything
    BY DEF Junk, Anything
  <2>2. /\ location \in [Bufs -> {"free", "ram", "cfs"}]
        /\ ramData \in [Bufs -> Anything] /\ packet \in [Bufs -> Anything]
        /\ swapId \in [Bufs -> SwapIds \cup {NoId, RamPointer}]
        /\ swapped \in [SwapIds -> Anything]
    BY <2>1 DEF QueueInit
  <2>3. usage \in [FileIds -> 0 .. PerFile] /\ leaked \in [FileIds -> 0 .. PerFile]
        /\ renewable \in [FileIds -> BOOLEAN]
    <3>1. 0 \in 0 .. PerFile
      BY Constants
    <3> QED
      BY <3>1 DEF QueueInit
  <2>4. /\ tmpdata \in Anything /\ tmpdataQbuf \in Bufs \cup {NoBuf}
        /\ nextSwapId \in SwapIds /\ renewTimer \in BOOLEAN
        /\ faults \in 0 .. MaxFaults /\ spoiled \subseteq Live
    <3>1. 0 \in 0 .. MaxFaults
      BY Constants
    <3>2. /\ tmpdata = Junk /\ tmpdataQbuf = NoBuf /\ nextSwapId = 0
          /\ renewTimer = FALSE /\ faults = 0 /\ spoiled = {}
      BY DEF QueueInit
    <3> QED
      BY <1>2, <2>1, <3>1, <3>2
  <2> QED
    BY <2>2, <2>3, <2>4 DEF QueueTypeOK, Anything
<1>4. UsageCountsBuffers
  BY <1>1, FS_EmptySet DEF QueueInit, UsageCountsBuffers
<1>5. StartsFile
  <2>1. 0 = PerFile * 0 + 0 /\ 0 \in 0 .. PerFile - 1
    BY Constants
  <2>2. 0 % PerFile = 0
    BY <2>1, Constants, Quotient
  <2> QED
    BY <2>2 DEF QueueInit, StartsFile
<1>6. ErasedWhenEmpty /\ UsageBound /\ IdsTaken
  BY <1>1, <1>5 DEF QueueInit, ErasedWhenEmpty, UsageBound, IdsTaken
<1>7. Places /\ IdsApart /\ Stored
  BY <1>1 DEF QueueInit, Places, IdsApart, Stored
<1> QED
  BY <1>3, <1>4, <1>6, <1>7 DEF QueueIInv, FilesInv, DataInv

LEMMA QueueInvNext == QueueIInv /\ [QueueNext]_queueVars => QueueIInv'
<1> SUFFICES ASSUME QueueIInv, [QueueNext]_queueVars PROVE QueueIInv'
  OBVIOUS
<1>1. CASE RenewAll
  BY <1>1, RenewAllKeeps
<1>2. ASSUME NEW b \in Bufs, NewInRam(b) PROVE QueueIInv'
  BY <1>2, NewInRamKeeps
<1>3. ASSUME NEW b \in Bufs, NewInFile(b) PROVE QueueIInv'
  BY <1>3, NewInFileKeeps
<1>4. ASSUME NEW b \in Bufs, UpdateAll(b) PROVE QueueIInv'
  <2>1. PICK c \in Contents : UpdateInRam(b, c) \/ UpdateInFile(b, c, TRUE)
    BY <1>4 DEF UpdateAll
  <2>2. c \in Anything
    BY DEF Contents, Anything
  <2> QED
    BY <2>1, <2>2, UpdateInRamKeeps, UpdateInFileKeeps
<1>5. ASSUME NEW b \in Bufs, UpdateAttr(b) PROVE QueueIInv'
  <2> DEFINE Changed(a) == [Loaded(b) EXCEPT !.attr = a]
  <2>1. PICK a \in Attrs : UpdateInRam(b, Changed(a)) \/ UpdateInFile(b, Changed(a), FALSE)
    BY <1>5 DEF UpdateAttr
  <2>2. b \in Live
    BY <2>1 DEF UpdateInRam, UpdateInFile, Live
  <2>3. Changed(a) \in Anything
    BY <2>2, LoadedType DEF Anything
  <2> HIDE DEF Changed
  <2> QED
    BY <2>1, <2>3, UpdateInRamKeeps, UpdateInFileKeeps
<1>6. ASSUME NEW b \in Bufs, Read(b) PROVE QueueIInv'
  BY <1>6, ReadKeeps
<1>7. ASSUME NEW b \in Bufs, FreeFromRam(b) PROVE QueueIInv'
  BY <1>7, FreeFromRamKeeps
<1>8. ASSUME NEW b \in Bufs, FreeFromFile(b) PROVE QueueIInv'
  BY <1>8, FreeFromFileKeeps
<1>9. CASE UNCHANGED queueVars
  BY <1>9 DEF queueVars, QueueIInv, QueueTypeOK, FilesInv, DataInv, UsageCountsBuffers,
              ErasedWhenEmpty, UsageBound, IdsTaken, Places, IdsApart, Stored, Filed, Keepers,
              HasId, Live, CurrentFile, StartsFile
<1> QED
  BY <1>1, <1>2, <1>3, <1>4, <1>5, <1>6, <1>7, <1>8, <1>9 DEF QueueNext

(* The inductive invariant: files, ids and data are in order together, in  *)
(* every state of queuebuf.c the model reaches.                            *)
THEOREM QueueIInvHolds == QueueSpec => []QueueIInv
<1>1. QueueInit => QueueIInv
  BY QueueInvInit
<1>2. QueueIInv /\ [QueueNext]_queueVars => QueueIInv'
  BY QueueInvNext
<1> QED
  BY <1>1, <1>2, PTL DEF QueueSpec

(* The variables keep their types: every swap id is one of a file, and a   *)
(* file never counts more buffers than it holds ids.                       *)
THEOREM QueueTypeCorrect == QueueSpec => []QueueTypeOK
<1>1. QueueIInv => QueueTypeOK
  BY DEF QueueIInv
<1> QED
  BY <1>1, QueueIInvHolds, PTL

(* A file is erased, by qbuf_renew_file or by the timer, no sooner and no  *)
(* later than its last buffer has gone: its usage counts the buffers in it *)
(* and the ids that failed writes lost, and one marked for erasing holds   *)
(* nothing and hands out no id.                                            *)
THEOREM FilesStayInOrder == QueueSpec => []FilesKept
<1>1. QueueIInv => FilesKept
  BY DEF QueueIInv, FilesInv, FilesKept
<1> QED
  BY <1>1, QueueIInvHolds, PTL

(* Every queued packet reads back as queuebuf_new_from_packetbuf or the    *)
(* last update stored it, however it was moved meanwhile, unless an update *)
(* of that very buffer failed.                                             *)
THEOREM ReadsBack == QueueSpec => []ReadsBackAsStored
<1>1. QueueIInv => ReadsBackAsStored
  <2> SUFFICES ASSUME QueueIInv, NEW b \in Live, b \notin spoiled
               PROVE  Loaded(b) = packet[b]
    BY DEF ReadsBackAsStored
  <2>1. b \in Bufs /\ location[b] \in {"ram", "cfs"}
    BY TypeFacts DEF QueueIInv, Live
  <2>2. CASE location[b] = "ram"
    BY <2>1, <2>2 DEF QueueIInv, DataInv, Places, Loaded
  <2>3. CASE location[b] = "cfs"
    <3>1. b \in Filed /\ HasId(b) /\ swapId[b] # NoId
      BY <2>1, <2>3, Ids DEF Filed, HasId, QueueIInv, DataInv, Places
    <3>2. swapped[swapId[b]] = packet[b] /\ (tmpdataQbuf = b => tmpdata = packet[b])
      BY <3>1 DEF QueueIInv, DataInv, Stored
    <3>3. CASE InTmpdata(b)
      <4>1. tmpdataQbuf = b
        BY <3>1, <3>3, SharesNoId
      <4> QED
        BY <2>3, <3>2, <3>3, <4>1 DEF Loaded
    <3>4. CASE ~InTmpdata(b)
      BY <2>3, <3>1, <3>2, <3>4 DEF Loaded
    <3> QED
      BY <3>3, <3>4
  <2> QED
    BY <2>1, <2>2, <2>3
<1> QED
  BY <1>1, QueueIInvHolds, PTL
=============================================================================
