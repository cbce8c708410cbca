------------------------------ MODULE NbrTable ------------------------------
(***************************************************************************)
(* nbr-table.c: several tables share one pool of neighbours.  A neighbour  *)
(* has a slot, a link-layer address (the key) and, in every table that     *)
(* uses the slot, an item.  A full pool evicts a neighbour to make room.   *)
(* Keys are never given back to the pool: a neighbour that no table uses   *)
(* stays listed until it is evicted.                                       *)
(***************************************************************************)
EXTENDS Naturals, FiniteSets, SequencesExt

CONSTANTS
  Slots,       (* 0 .. NBR_TABLE_MAX_NEIGHBORS - 1                         *)
  NbrTables,   (* the tables modules may register                          *)
  Notified,    (* those that register a callback                           *)
  MaxTables,   (* MAX_NUM_TABLES                                           *)
  LlAddrs,     (* link-layer addresses                                     *)
  NullAddr     (* linkaddr_null, for insertion without an address          *)

ASSUME NbrAssumption ==
  /\ Slots \in SUBSET Nat /\ IsFiniteSet(Slots)
  /\ Notified \subseteq NbrTables
  /\ MaxTables \in Nat
  /\ NullAddr \in LlAddrs

VARIABLES
  tables,    (* all_tables: the registered tables, in their order          *)
  keys,      (* nbr_table_keys: slots, oldest neighbour first              *)
  lladdr,    (* the key's address                                          *)
  usedMap, lockedMap,  (* per slot, the tables that use and lock it        *)
  item,      (* per table and slot, the address whose data the item holds  *)
  called     (* history: <<table, slot>> of the callbacks of the last step *)

nbrVars == <<tables, keys, lladdr, usedMap, lockedMap, item, called>>

Registered == ToSet(tables)
Listed == ToSet(keys)
Zeroed == "zeroed"

NbrInit ==
  /\ tables = <<>> /\ keys = <<>>
  /\ lladdr = [s \in Slots |-> NullAddr]
  /\ usedMap = [s \in Slots |-> {}]
  /\ lockedMap = [s \in Slots |-> {}]
  /\ item = [t \in NbrTables |-> [s \in Slots |-> Zeroed]]
  /\ called = {}

(* index_from_lladdr: the slots whose key has the address, at most one.    *)
KnownUnlessNull(a) == {s \in Listed : a # NullAddr /\ lladdr[s] = a}
Known(a) == {s \in Listed : lladdr[s] = a}

(* nbr_table_register.                                                     *)
TableFitsOneMore == Len(tables) <= MaxTables
TableFits == Len(tables) < MaxTables

Register(t) ==
  /\ t \notin Registered
  /\ TableFits
  /\ tables' = Append(tables, t)
  /\ called' = {}
  /\ UNCHANGED <<keys, lladdr, usedMap, lockedMap, item>>

(* nbr_table_allocate: a free slot, or else that of the neighbour to evict.*)
FreeSlots == Slots \ Listed
FirstFree(s) == s \in FreeSlots /\ \A r \in FreeSlots : s <= r

Uses(s) == Cardinality(usedMap[s])

(* The search for the neighbour to evict: it goes through the list, from the
   oldest on, with the position of the least used neighbour so far (0: none)
   and its use count.  Locked ones are passed over, and the loop is left at
   the first that no table uses.                                           *)
NobodyYet == [at |-> 0, count |-> 0]
Left(least) == least.at # 0 /\ least.count = 0

ScannedLast(least, i) ==
  IF /\ ~Left(least) /\ lockedMap[keys[i]] = {}
     /\ least.at = 0 \/ Uses(keys[i]) <= least.count
  THEN [at |-> i, count |-> Uses(keys[i])]
  ELSE least
Scanned(least, i) ==
  IF /\ ~Left(least) /\ lockedMap[keys[i]] = {}
     /\ least.at = 0 \/ Uses(keys[i]) < least.count
  THEN [at |-> i, count |-> Uses(keys[i])]
  ELSE least

LeastUsed ==
  LET upTo[i \in 0 .. Len(keys)] ==
        IF i = 0 THEN NobodyYet ELSE Scanned(upTo[i - 1], i)
  IN  upTo[Len(keys)].at

CalledFirst(s) ==
  {<<t, s>> : t \in {u \in Registered \cap Notified \cap usedMap[s] : u = tables[1]}}
Called(s) == {<<t, s>> : t \in Registered \cap Notified \cap usedMap[s]}

(* The rest of nbr_table_add_lladdr: the item is zeroed and marked used.   *)
TakeItem(t, s, users) ==
  /\ usedMap' = [usedMap EXCEPT ![s] = users \cup {t}]
  /\ item' = [item EXCEPT ![t][s] = Zeroed]
  /\ UNCHANGED <<tables, lockedMap>>

AddKnown(t, a) ==
  /\ t \in Registered
  /\ \E s \in Known(a) : TakeItem(t, s, usedMap[s])
  /\ called' = {}
  /\ UNCHANGED <<keys, lladdr>>

AddFresh(t, a) ==
  /\ t \in Registered
  /\ Known(a) = {}
  /\ \E s \in Slots : /\ FirstFree(s)
                      /\ keys' = Append(keys, s)
                      /\ lladdr' = [lladdr EXCEPT ![s] = a]
                      /\ TakeItem(t, s, usedMap[s])
  /\ called' = {}

EmptiedNot(s) == usedMap[s]
Emptied(s) == {}

AddEvicting(t, a) ==
  /\ t \in Registered
  /\ Known(a) = {} /\ FreeSlots = {} /\ LeastUsed # 0
  /\ LET s == keys[LeastUsed]
     IN  /\ keys' = Append(RemoveAt(keys, LeastUsed), s)
         /\ lladdr' = [lladdr EXCEPT ![s] = a]
         /\ TakeItem(t, s, Emptied(s))
         /\ called' = Called(s)

(* Every neighbour is locked: NULL.                                        *)
AddRefused(t, a) ==
  /\ t \in Registered
  /\ Known(a) = {} /\ FreeSlots = {} /\ LeastUsed = 0
  /\ called' = {}
  /\ UNCHANGED <<tables, keys, lladdr, usedMap, lockedMap, item>>

(* nbr_table_get_from_lladdr, then the module fills in its item.           *)
WriteItem(t, a) ==
  /\ \E s \in Known(a) :
       /\ t \in usedMap[s]
       /\ item' = [item EXCEPT ![t][s] = a]
  /\ called' = {}
  /\ UNCHANGED <<tables, keys, lladdr, usedMap, lockedMap>>

(* nbr_table_remove, nbr_table_lock and nbr_table_unlock, of an item the   *)
(* table holds.                                                            *)
RemoveItem(t, s) ==
  /\ t \in usedMap[s]
  /\ usedMap' = [usedMap EXCEPT ![s] = @ \ {t}]
  /\ lockedMap' = [lockedMap EXCEPT ![s] = @ \ {t}]
  /\ called' = {}
  /\ UNCHANGED <<tables, keys, lladdr, item>>

Lock(t, s) ==
  /\ t \in usedMap[s]
  /\ lockedMap' = [lockedMap EXCEPT ![s] = @ \cup {t}]
  /\ called' = {}
  /\ UNCHANGED <<tables, keys, lladdr, usedMap, item>>

Unlock(t, s) ==
  /\ t \in usedMap[s]
  /\ lockedMap' = [lockedMap EXCEPT ![s] = @ \ {t}]
  /\ called' = {}
  /\ UNCHANGED <<tables, keys, lladdr, usedMap, item>>

NbrNext ==
  \E t \in NbrTables :
    \/ Register(t)
    \/ \E a \in LlAddrs : \/ AddKnown(t, a) \/ AddFresh(t, a)
                          \/ AddEvicting(t, a) \/ AddRefused(t, a)
                          \/ WriteItem(t, a)
    \/ \E s \in Slots : RemoveItem(t, s) \/ Lock(t, s) \/ Unlock(t, s)

NbrSpec == NbrInit /\ [][NbrNext]_nbrVars

-----------------------------------------------------------------------------
(* nbr_table_head and nbr_table_next: the items a table iterates over.     *)
Items(t) ==
  LET upTo[i \in 0 .. Len(keys)] ==
        IF i = 0 THEN <<>>
        ELSE IF t \in usedMap[keys[i]] THEN Append(upTo[i - 1], keys[i]) ELSE upTo[i - 1]
  IN  upTo[Len(keys)]

(* Type invariant.                                                         *)
NbrTypeOK ==
  /\ tables \in Seq(NbrTables) /\ Len(tables) <= MaxTables
  /\ keys \in Seq(Slots)
  /\ lladdr \in [Slots -> LlAddrs]
  /\ usedMap \in [Slots -> SUBSET Registered]
  /\ lockedMap \in [Slots -> SUBSET Registered]
  /\ item \in [NbrTables -> [Slots -> LlAddrs \cup {Zeroed}]]
  /\ called \subseteq NbrTables \X Slots

(* An address names one neighbour, and a table's iteration meets each item *)
(* it uses exactly once: eviction re-lists a slot without duplicating it.  *)
KeysName ==
  /\ \A s, r \in Listed : lladdr[s] = lladdr[r] => s = r
  /\ \A t \in NbrTables : /\ IsInjective(Items(t))
                          /\ ToSet(Items(t)) = {s \in Slots : t \in usedMap[s]}

(* An item never shows what a table stored about another neighbour, though *)
(* slots change hands without the tables that use them being asked.        *)
ItemsOfTheirNeighbour ==
  \A s \in Slots : \A t \in usedMap[s] : item[t][s] \in {Zeroed, lladdr[s]}

(* A slot changes hands only if nobody locks it, and every table with a    *)
(* callback that used it is told; no callback comes for anything else.     *)
Announced ==
  \A s \in Listed :
    LET lost == {t \in usedMap[s] : lladdr'[s] # lladdr[s]}
    IN  /\ lladdr'[s] # lladdr[s] => lockedMap[s] = {}
        /\ called' \cap (NbrTables \X {s}) = (lost \cap Notified) \X {s}
EvictionAnnounced == [][Announced]_nbrVars

(* nbr-table.c:183 "remove neighbor that is: (1) not locked (2) used by    *)
(* fewest tables (3) oldest": whatever the search passed over or never     *)
(* reached, the neighbour lost is one that the fewest tables use, and of   *)
(* those the one that has been listed for longest.                         *)
LeastUsedLost ==
  \A s \in Listed : lladdr'[s] # lladdr[s] =>
    \A r \in Listed \ {s} : lockedMap[r] = {} =>
      /\ Uses(r) >= Uses(s)
      /\ Uses(r) = Uses(s) =>
           \A i, j \in DOMAIN keys : keys[i] = s /\ keys[j] = r => i < j
LeastUsedOldestFirst == [][LeastUsedLost]_nbrVars
=============================================================================
