------------------------------ MODULE RingMem ------------------------------
(***************************************************************************)
(* core/lib/ringmem.c: a FIFO of memory blocks of different lengths in one *)
(* array.  A block is a two-byte length and its data, in consecutive       *)
(* bytes; a block that does not fit behind the newest one goes to the      *)
(* start of the array, and wrap_ptr remembers where the older ones end.    *)
(*                                                                         *)
(* The header asks for every operation to be atomic: alloc is called in an *)
(* interrupt, the other two in user context with interrupts masked.  What  *)
(* is not atomic is the use of a block: the user has its pointer from      *)
(* get_next_block_ptr until free_block, and interrupts allocate meanwhile. *)
(***************************************************************************)
EXTENDS Integers, Sequences

CONSTANTS
  MemSize,   (* r->size                                                    *)
  Lens,      (* lengths that are asked for                                 *)
  Tags,      (* contents of a block's data                                 *)
  NullPtr    (* the null pointer                                           *)

ASSUME MemAssumption ==
  /\ MemSize \in 1 .. 16383          \* RINGMEM_NOM_MAXSIZE
  /\ Lens \subseteq Nat /\ NullPtr \notin Nat

Mem == 0 .. MemSize - 1
BlockHeader == 2                      \* sizeof(uint16_t)
BlockOf == [len : Lens, tag : Tags]

VARIABLES
  put_ptr, get_ptr, wrap_ptr,
  a_len,     (* the bytes considered available                             *)
  mem,       (* every byte: the block it was written for, and its offset   *)
  held,      (* what the user has from get_next_block_ptr                  *)
  fifo       (* history: the blocks allocated and not freed, with address  *)

ptrVars == <<put_ptr, get_ptr, wrap_ptr, a_len>>
memVars == <<ptrVars, mem, held, fifo>>

(* The bytes of a block at address p.                                      *)
Bytes(p, b) == p .. p + BlockHeader + b.len - 1
Holds(m, p, b) == \A o \in Bytes(p, b) : o \in Mem /\ m[o] = [block |-> b, off |-> o - p]

(* Type invariant.                                                         *)
MemTypeOK ==
  /\ put_ptr \in 0 .. MemSize /\ get_ptr \in 0 .. MemSize /\ wrap_ptr \in 0 .. MemSize
  /\ a_len \in 0 .. MemSize
  /\ mem \in [Mem -> [block : BlockOf, off : Nat] \cup {NullPtr}]
  /\ held \in Mem \cup {NullPtr}
  /\ fifo \in Seq([at : Mem, block : BlockOf])

MemInit ==
  /\ put_ptr = 0 /\ get_ptr = 0 /\ wrap_ptr = 0 /\ a_len = MemSize
  /\ mem = [o \in Mem |-> NullPtr]
  /\ held = NullPtr /\ fifo = <<>>

-----------------------------------------------------------------------------
(* RINGMEM_STORE.                                                          *)
Store(p, b) ==
  /\ mem' = [o \in Mem |-> IF o \in Bytes(p, b) THEN [block |-> b, off |-> o - p] ELSE mem[o]]
  /\ fifo' = Append(fifo, [at |-> p, block |-> b])

(* Where ringmem_alloc puts a block of tot bytes, if it takes it.          *)
FitsBehind(tot) == tot <= a_len /\ put_ptr + tot <= MemSize
FitsInFrontUncounted(tot) == put_ptr + tot > MemSize /\ tot <= get_ptr
FitsInFront(tot) == tot <= a_len /\ put_ptr + tot > MemSize /\ tot <= get_ptr

AllocBehind(b) ==
  LET tot == b.len + BlockHeader IN
  /\ FitsBehind(tot)
  /\ Store(put_ptr, b)
  /\ put_ptr' = put_ptr + tot
  /\ a_len' = a_len - tot
  /\ UNCHANGED <<get_ptr, wrap_ptr, held>>

AllocWrap(b) ==
  LET tot == b.len + BlockHeader IN
  /\ FitsInFront(tot)
  /\ Store(0, b)
  /\ wrap_ptr' = put_ptr
  /\ put_ptr' = tot
  /\ a_len' = get_ptr - tot
  /\ UNCHANGED <<get_ptr, held>>

(* ringmem_alloc returns 0.                                                *)
AllocRefused(b) ==
  LET tot == b.len + BlockHeader IN
  /\ ~FitsBehind(tot) /\ ~FitsInFront(tot)
  /\ UNCHANGED memVars

(* A get_ptr that has reached the end of the blocks behind the wrap
   continues at the start of the array.                                    *)
AtWrapNever(g) == FALSE
AtWrap(g) == g = wrap_ptr /\ wrap_ptr # 0
Around(g) == IF AtWrap(g) THEN 0 ELSE g
SetWrap(g) == wrap_ptr' = IF AtWrap(g) THEN 0 ELSE wrap_ptr

GetNextBlockPtr ==
  IF a_len = MemSize
  THEN held' = NullPtr /\ UNCHANGED <<ptrVars, mem, fifo>>
  ELSE /\ get_ptr' = Around(get_ptr) /\ SetWrap(get_ptr)
       /\ held' = get_ptr'
       /\ UNCHANGED <<put_ptr, a_len, mem, fifo>>

(* a_len after a block was freed and others are left.                      *)
AvailableBehind(p, g) == IF g < p THEN MemSize - p ELSE g - p
Available(p, g) == IF g < p THEN (MemSize - p) + g ELSE g - p

(* The user frees the block it was given; the length is read from memory.
   The code asserts that there is a block.                                 *)
FreeBlock ==
  LET g == get_ptr + mem[get_ptr].block.len + BlockHeader IN
  /\ held # NullPtr /\ a_len # MemSize
  /\ SetWrap(g)
  /\ IF Around(g) = put_ptr
     THEN get_ptr' = 0 /\ put_ptr' = 0 /\ a_len' = MemSize
     ELSE get_ptr' = Around(g) /\ a_len' = Available(put_ptr, Around(g)) /\ UNCHANGED put_ptr
  /\ held' = NullPtr
  /\ fifo' = Tail(fifo)
  /\ UNCHANGED mem

MemNext ==
  \/ \E b \in BlockOf : AllocBehind(b) \/ AllocWrap(b) \/ AllocRefused(b)
  \/ GetNextBlockPtr
  \/ FreeBlock

MemSpec == MemInit /\ [][MemNext]_memVars

-----------------------------------------------------------------------------
(* No allocation overwrites a block that was not freed: each is whole, at  *)
(* its address, until the user frees it, the one in use included.          *)
BlocksIntact ==
  \A i \in 1 .. Len(fifo) : Holds(mem, fifo[i].at, fifo[i].block)

(* get_next_block_ptr hands out the oldest block, past every wrap, and     *)
(* null only when there is none.                                           *)
OldestFirst ==
  [][GetNextBlockPtr => held' = IF fifo = <<>> THEN NullPtr ELSE Head(fifo).at]_memVars

(* Room for n bytes, by what lies in memory and not by a_len: right behind *)
(* the newest block, or in front of the oldest if the blocks do not wrap.  *)
Used == UNION {Bytes(fifo[i].at, fifo[i].block) : i \in 1 .. Len(fifo)}
Room(n) ==
  LET newest == fifo[Len(fifo)]
      end == newest.at + BlockHeader + newest.block.len
  IN  IF fifo = <<>> THEN n <= MemSize
      ELSE \/ (end .. end + n - 1) \subseteq Mem \ Used
           \/ newest.at >= Head(fifo).at /\ (0 .. n - 1) \subseteq Mem \ Used

(* ringmem_alloc refuses no block there is room for: a_len counts every    *)
(* freed byte, around the wrap too.                                        *)
NoRoomWasted ==
  \A b \in BlockOf : LET tot == b.len + BlockHeader IN
     Room(tot) => FitsBehind(tot) \/ FitsInFront(tot)
=============================================================================
