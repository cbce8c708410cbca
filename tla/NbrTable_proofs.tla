-------------------------- MODULE NbrTable_proofs --------------------------
(***************************************************************************)
(* Proofs about NbrTable, for every number of neighbours, tables and       *)
(* addresses: no item outlives its neighbour, and an eviction takes the    *)
(* neighbour it should and tells the tables that used it.                  *)
(***************************************************************************)
EXTENDS NbrTable, FiniteSetTheorems, TLAPS

(* A sequence a new element is put behind, or an element of which moves to *)
(* the end.                                                                *)
LEMMA AppendIs ==
  ASSUME NEW S, NEW q \in Seq(S), NEW x \in S
  PROVE  /\ Append(q, x) \in Seq(S) /\ Len(q) \in Nat
         /\ DOMAIN Append(q, x) = 1 .. Len(q) + 1 /\ DOMAIN q = 1 .. Len(q)
         /\ \A i \in 1 .. Len(q) : Append(q, x)[i] = q[i]
         /\ Append(q, x)[Len(q) + 1] = x
OBVIOUS

LEMMA AppendNew ==
  ASSUME NEW S, NEW q \in Seq(S), IsInjective(q), NEW x \in S, x \notin ToSet(q)
  PROVE  /\ Append(q, x) \in Seq(S)
         /\ IsInjective(Append(q, x))
         /\ ToSet(Append(q, x)) = ToSet(q) \cup {x}
<1> DEFINE p == Append(q, x)
<1>1. /\ p \in Seq(S) /\ Len(q) \in Nat
      /\ DOMAIN p = 1 .. Len(q) + 1 /\ DOMAIN q = 1 .. Len(q)
      /\ \A i \in 1 .. Len(q) : p[i] = q[i]
      /\ p[Len(q) + 1] = x
  BY AppendIs
<1> HIDE DEF p
<1>2. \A i \in 1 .. Len(q) : q[i] # x
  BY <1>1 DEF ToSet
<1>3. IsInjective(p)
  BY <1>1, <1>2 DEF IsInjective
<1>4. ToSet(p) = ToSet(q) \cup {x}
  <2>1. \A i \in 1 .. Len(q) : i \in 1 .. Len(q) + 1
    BY <1>1
  <2>2. \A i \in 1 .. Len(q) + 1 : i \in 1 .. Len(q) \/ i = Len(q) + 1
    BY <1>1
  <2>3. Len(q) + 1 \in 1 .. Len(q) + 1
    BY <1>1
  <2> QED
    BY <1>1, <2>1, <2>2, <2>3 DEF ToSet
<1> QED
  BY <1>1, <1>3, <1>4 DEF p

(* An element of the result is the one that old says was there before.     *)
LEMMA MoveLast ==
  ASSUME NEW S, NEW q \in Seq(S), IsInjective(q), NEW k \in DOMAIN q
  PROVE  LET p == Append(RemoveAt(q, k), q[k])
         IN  p \in Seq(S) /\ IsInjective(p) /\ ToSet(p) = ToSet(q)
<1> DEFINE n == Len(q)
           a == SubSeq(q, 1, k - 1)
           b == SubSeq(q, k + 1, n)
           r == a \o b
           p == Append(r, q[k])
           old(i) == IF i = n THEN k ELSE IF i < k THEN i ELSE i + 1
<1>1. n \in Nat /\ k \in 1 .. n /\ DOMAIN q = 1 .. n /\ q[k] \in S
  OBVIOUS
<1>2. /\ a \in Seq(S) /\ Len(a) = k - 1
      /\ \A i \in 1 .. k - 1 : a[i] = q[i]
  BY <1>1
<1>3. /\ b \in Seq(S) /\ Len(b) = n - k
      /\ \A i \in 1 .. n - k : b[i] = q[k + i]
  BY <1>1
<1> HIDE DEF a, b
<1>4. /\ r \in Seq(S) /\ Len(r) = Len(a) + Len(b)
      /\ \A i \in 1 .. Len(a) + Len(b) :
           r[i] = IF i <= Len(a) THEN a[i] ELSE b[i - Len(a)]
  BY <1>2, <1>3
<1> HIDE DEF r
<1>5. /\ p \in Seq(S) /\ DOMAIN p = 1 .. Len(r) + 1 /\ p[Len(r) + 1] = q[k]
      /\ \A i \in 1 .. Len(r) : p[i] = r[i]
  <2>1. r \in Seq(S) /\ q[k] \in S
    BY <1>1, <1>4
  <2>2. ASSUME NEW x \in S
        PROVE  /\ Append(r, x) \in Seq(S)
               /\ DOMAIN Append(r, x) = 1 .. Len(r) + 1
               /\ Append(r, x)[Len(r) + 1] = x
               /\ \A i \in 1 .. Len(r) : Append(r, x)[i] = r[i]
    BY <2>1, <2>2, AppendIs
  <2> QED
    BY <2>1, <2>2
<1> HIDE DEF n, p
<1>6. Len(r) = n - 1 /\ DOMAIN p = 1 .. n /\ p[n] = q[k]
  <2>1. Len(r) = n - 1 /\ Len(r) + 1 = n
    BY <1>1, <1>2, <1>3, <1>4
  <2> QED
    BY <1>5, <2>1
<1>7. ASSUME NEW i \in 1 .. n PROVE p[i] = q[old(i)]
  <2>1. CASE i = n
    BY <1>6, <2>1
  <2>2. CASE i # n /\ i < k
    <3>1. i \in 1 .. Len(r) /\ i \in 1 .. k - 1 /\ i \in 1 .. Len(a) + Len(b) /\ i <= Len(a)
      BY <1>1, <1>2, <1>3, <1>6, <2>2
    <3>2. p[i] = q[i]
      BY <1>2, <1>4, <1>5, <3>1
    <3> QED
      BY <2>2, <3>2
  <2>3. CASE i # n /\ ~(i < k)
    <3>1. /\ i \in 1 .. Len(r) /\ i \in 1 .. Len(a) + Len(b) /\ ~(i <= Len(a))
          /\ i - Len(a) \in 1 .. n - k /\ k + (i - Len(a)) = i + 1
      BY <1>1, <1>2, <1>3, <1>6, <2>3
    <3>2. p[i] = b[i - Len(a)]
      BY <1>4, <1>5, <3>1
    <3>3. b[i - Len(a)] = q[i + 1]
      BY <1>3, <3>1
    <3> QED
      BY <2>3, <3>2, <3>3
  <2> QED
    BY <2>1, <2>2, <2>3
<1>8. \A i \in 1 .. n : old(i) \in 1 .. n
  BY <1>1
<1>9. \A i, j \in 1 .. n : old(i) = old(j) => i = j
  BY <1>1
<1>10. ASSUME NEW i \in 1 .. n PROVE \E j \in 1 .. n : old(j) = i
  <2>1. CASE i < k
    BY <1>1, <2>1
  <2>2. CASE i = k
    BY <1>1, <2>2
  <2>3. CASE i > k
    <3>1. i - 1 \in 1 .. n /\ old(i - 1) = i
      BY <1>1, <2>3
    <3> QED
      BY <3>1
  <2> QED
    BY <1>1, <2>1, <2>2, <2>3
<1> HIDE DEF old
<1>11. IsInjective(p)
  BY <1>1, <1>6, <1>7, <1>8, <1>9 DEF IsInjective
<1>12. ToSet(p) = ToSet(q)
  <2>1. ToSet(p) = {p[i] : i \in 1 .. n} /\ ToSet(q) = {q[i] : i \in 1 .. n}
    BY <1>1, <1>6 DEF ToSet
  <2>2. \A i \in 1 .. n : p[i] \in ToSet(q)
    BY <1>7, <1>8, <2>1
  <2>3. ASSUME NEW i \in 1 .. n PROVE q[i] \in ToSet(p)
    <3>1. PICK j \in 1 .. n : old(j) = i
      BY <1>10
    <3>2. p[j] = q[i]
      BY <1>7, <3>1
    <3> QED
      BY <2>1, <3>2
  <2> QED
    BY <2>1, <2>2, <2>3
<1>13. p = Append(RemoveAt(q, k), q[k])
  BY DEF p, r, a, b, n, RemoveAt
<1> QED
  BY <1>5, <1>11, <1>12, <1>13

LEMMA AppendSet ==
  ASSUME NEW S, NEW q \in Seq(S), NEW x \in S
  PROVE  ToSet(q) \subseteq ToSet(Append(q, x))
<1>1. \A i \in 1 .. Len(q) : i \in 1 .. Len(q) + 1
  BY AppendIs
<1> QED
  BY <1>1, AppendIs DEF ToSet

-----------------------------------------------------------------------------
(* Induction, for a set of numbers: the least number outside it would be   *)
(* missing from an injection of a finite set into itself.                  *)
LEMMA Induction ==
  ASSUME NEW P \in SUBSET Nat, 0 \in P, \A n \in P : n + 1 \in P
  PROVE  \A n \in Nat : n \in P
<1> SUFFICES ASSUME NEW m \in Nat, m \notin P PROVE FALSE
  OBVIOUS
<1> DEFINE T == {i \in 0 .. m : i \notin P}
           f == [i \in T |-> i - 1]
<1>1. IsFiniteSet(T)
  <2>1. IsFiniteSet(0 .. m)
    BY FS_Interval
  <2> QED
    BY <2>1, FS_Subset
<1>2. ASSUME NEW i \in T PROVE i - 1 \in T /\ i \in Nat /\ i - 1 # m
  <2>1. i \in 0 .. m /\ i \notin P /\ i # 0
    OBVIOUS
  <2>2. i - 1 \in 0 .. m /\ (i - 1) + 1 = i /\ i - 1 # m
    BY <2>1
  <2> QED
    BY <2>1, <2>2
<1>3. f \in Injection(T, T)
  <2>1. \A i, j \in T : i - 1 = j - 1 => i = j
    BY <1>2
  <2> QED
    BY <1>2, <2>1 DEF Injection, IsInjective
<1>4. f \in Surjection(T, T)
  BY <1>1, <1>3, FS_Injection
<1>5. m \in T
  OBVIOUS
<1>6. \E i \in T : i - 1 = m
  BY <1>4, <1>5 DEF Surjection
<1> QED
  BY <1>2, <1>6

(* A function over 0 .. n that is given by its first value and by a step   *)
(* from each value to the next.                                            *)
Runs(g, F, r0, n) == g[0] = r0 /\ \A i \in 1 .. n : g[i] = F[<<g[i - 1], i>>]

LEMMA RunExists ==
  ASSUME NEW R, NEW r0 \in R, NEW n \in Nat, NEW F \in [R \X (1 .. n) -> R]
  PROVE  \E g \in [0 .. n -> R] : Runs(g, F, r0, n)
<1> DEFINE Reached(m) == \E g \in [0 .. m -> R] : Runs(g, F, r0, m)
           P == {m \in Nat : m <= n => Reached(m)}
<1>1. Reached(0)
  <2> DEFINE g == [i \in 0 .. 0 |-> r0]
  <2>1. g \in [0 .. 0 -> R] /\ g[0] = r0
    OBVIOUS
  <2>2. Runs(g, F, r0, 0)
    BY <2>1 DEF Runs
  <2> QED
    BY <2>1, <2>2
<1>2. ASSUME NEW m \in Nat, m + 1 <= n, Reached(m) PROVE Reached(m + 1)
  <2>1. PICK g \in [0 .. m -> R] : Runs(g, F, r0, m)
    BY <1>2
  <2> DEFINE h == [i \in 0 .. m + 1 |-> IF i = m + 1 THEN F[<<g[m], m + 1>>] ELSE g[i]]
  <2>2. m \in 0 .. m /\ m + 1 \in 1 .. n /\ m + 1 \in 0 .. m + 1
    BY <1>2
  <2>3. F[<<g[m], m + 1>>] \in R
    BY <2>2
  <2>4. h \in [0 .. m + 1 -> R]
    BY <2>3
  <2>5. \A i \in 0 .. m : h[i] = g[i]
    OBVIOUS
  <2>6. h[m + 1] = F[<<h[m], m + 1>>]
    BY <2>2, <2>5
  <2> HIDE DEF h
  <2>7. ASSUME NEW i \in 1 .. m + 1 PROVE h[i] = F[<<h[i - 1], i>>]
    <3>1. CASE i = m + 1
      BY <2>6, <3>1
    <3>2. CASE i # m + 1
      <4>1. i \in 1 .. m /\ i \in 0 .. m /\ i - 1 \in 0 .. m
        BY <3>2
      <4> QED
        BY <2>1, <2>5, <4>1 DEF Runs
    <3> QED
      BY <3>1, <3>2
  <2>8. h[0] = r0
    BY <2>1, <2>5 DEF Runs
  <2> QED
    BY <2>4, <2>7, <2>8 DEF Runs
<1> HIDE DEF Reached
<1>3. 0 \in P
  BY <1>1
<1>4. \A m \in P : m + 1 \in P
  BY <1>2
<1>5. n \in P
  <2> HIDE DEF P
  <2>1. P \in SUBSET Nat
    BY DEF P
  <2> QED
    BY <1>3, <1>4, <2>1, Induction
<1> QED
  BY <1>5 DEF Reached

-----------------------------------------------------------------------------
(* What a slot is used for depends on it being listed, once, under an      *)
(* address no other slot has.                                              *)
UsedListed == \A s \in Slots : usedMap[s] # {} => s \in Listed
AddressesDiffer == \A s, r \in Listed : lladdr[s] = lladdr[r] => s = r

NbrIInv ==
  /\ NbrTypeOK
  /\ IsInjective(keys)
  /\ UsedListed
  /\ AddressesDiffer
  /\ ItemsOfTheirNeighbour

LEMMA SlotsAndTables ==
  ASSUME NbrTypeOK
  PROVE  Registered \subseteq NbrTables /\ Listed \subseteq Slots
BY DEF NbrTypeOK, Registered, Listed, ToSet

(* A table takes the item of a slot, listed by then, whose address may have*)
(* changed; its other users keep what they know of that address.           *)
LEMMA TakeStep ==
  ASSUME NbrIInv, NEW t \in Registered, NEW s \in Slots, NEW users \in SUBSET Registered,
         TakeItem(t, s, users),
         Listed' = Listed \cup {s},
         \A r \in Slots \ {s} : lladdr'[r] = lladdr[r],
         \A u \in users : item[u][s] \in {Zeroed, lladdr'[s]}
  PROVE  /\ usedMap' \in [Slots -> SUBSET Registered']
         /\ lockedMap' \in [Slots -> SUBSET Registered']
         /\ tables' = tables
         /\ item' \in [NbrTables -> [Slots -> LlAddrs \cup {Zeroed}]]
         /\ UsedListed' /\ ItemsOfTheirNeighbour'
<1>1. /\ usedMap \in [Slots -> SUBSET Registered]
      /\ lockedMap \in [Slots -> SUBSET Registered]
      /\ item \in [NbrTables -> [Slots -> LlAddrs \cup {Zeroed}]]
      /\ t \in NbrTables
  BY SlotsAndTables DEF NbrIInv, NbrTypeOK
<1>2. /\ tables' = tables /\ Registered' = Registered /\ lockedMap' = lockedMap
      /\ usedMap' = [usedMap EXCEPT ![s] = users \cup {t}]
      /\ item' = [item EXCEPT ![t][s] = Zeroed]
  BY DEF TakeItem, Registered
<1>3. /\ usedMap' \in [Slots -> SUBSET Registered]
      /\ item' \in [NbrTables -> [Slots -> LlAddrs \cup {Zeroed}]]
  BY <1>1, <1>2
<1>4. UsedListed'
  <2>1. SUFFICES ASSUME NEW r \in Slots, usedMap'[r] # {} PROVE r \in Listed'
    BY DEF UsedListed
  <2>2. CASE r = s
    BY <2>2
  <2>3. CASE r # s
    BY <1>1, <1>2, <2>1, <2>3 DEF NbrIInv, UsedListed
  <2> QED
    BY <2>2, <2>3
<1>5. ItemsOfTheirNeighbour'
  <2>1. SUFFICES ASSUME NEW r \in Slots, NEW u \in usedMap'[r]
                 PROVE  item'[u][r] \in {Zeroed, lladdr'[r]}
    BY DEF ItemsOfTheirNeighbour
  <2>2. CASE r = s /\ u = t
    BY <1>1, <1>2, <2>2
  <2>3. CASE r = s /\ u # t
    <3>1. u \in users
      BY <1>1, <1>2, <2>1, <2>3
    <3>2. u \in NbrTables
      BY <3>1, SlotsAndTables DEF NbrIInv
    <3>3. item'[u][s] = item[u][s]
      BY <1>1, <1>2, <2>3, <3>2
    <3> QED
      BY <2>3, <3>1, <3>3
  <2>4. CASE r # s
    <3>1. u \in usedMap[r]
      BY <1>1, <1>2, <2>1, <2>4
    <3>2. u \in NbrTables
      BY <1>1, <3>1, SlotsAndTables DEF NbrIInv
    <3>3. item'[u][r] = item[u][r] /\ lladdr'[r] = lladdr[r]
      BY <1>1, <1>2, <2>4, <3>2
    <3> QED
      BY <3>1, <3>3 DEF NbrIInv, ItemsOfTheirNeighbour
  <2> QED
    BY <2>2, <2>3, <2>4
<1> QED
  BY <1>1, <1>2, <1>3, <1>4, <1>5

LEMMA AddKnownStep ==
  ASSUME NbrIInv, NEW t \in NbrTables, NEW a \in LlAddrs, AddKnown(t, a)
  PROVE  NbrIInv'
<1>1. PICK s \in Known(a) : TakeItem(t, s, usedMap[s])
  BY DEF AddKnown
<1>2. t \in Registered /\ called' = {} /\ keys' = keys /\ lladdr' = lladdr
  BY DEF AddKnown
<1>3. s \in Listed /\ s \in Slots /\ Listed' = Listed
  BY <1>1, <1>2, SlotsAndTables DEF Known, NbrIInv, Listed
<1>4. usedMap[s] \in SUBSET Registered
  BY <1>3 DEF NbrIInv, NbrTypeOK
<1>5. \A u \in usedMap[s] : item[u][s] \in {Zeroed, lladdr'[s]}
  BY <1>2, <1>3 DEF NbrIInv, ItemsOfTheirNeighbour
<1>6. Listed' = Listed \cup {s} /\ \A r \in Slots \ {s} : lladdr'[r] = lladdr[r]
  BY <1>2, <1>3
<1>7. /\ usedMap' \in [Slots -> SUBSET Registered']
      /\ lockedMap' \in [Slots -> SUBSET Registered']
      /\ tables' = tables
      /\ item' \in [NbrTables -> [Slots -> LlAddrs \cup {Zeroed}]]
      /\ UsedListed' /\ ItemsOfTheirNeighbour'
  BY <1>1, <1>2, <1>3, <1>4, <1>5, <1>6, TakeStep
<1>8. NbrTypeOK'
  BY <1>2, <1>7 DEF NbrIInv, NbrTypeOK
<1>9. AddressesDiffer' /\ IsInjective(keys')
  BY <1>2, <1>3 DEF NbrIInv, AddressesDiffer
<1> QED
  BY <1>7, <1>8, <1>9 DEF NbrIInv

LEMMA AddFreshStep ==
  ASSUME NbrIInv, NEW t \in NbrTables, NEW a \in LlAddrs, AddFresh(t, a)
  PROVE  NbrIInv'
<1>1. PICK s \in Slots : /\ FirstFree(s)
                         /\ keys' = Append(keys, s)
                         /\ lladdr' = [lladdr EXCEPT ![s] = a]
                         /\ TakeItem(t, s, usedMap[s])
  BY DEF AddFresh
<1>2. t \in Registered /\ called' = {} /\ Known(a) = {}
  BY DEF AddFresh
<1>3. /\ keys \in Seq(Slots) /\ lladdr \in [Slots -> LlAddrs]
      /\ IsInjective(keys) /\ s \notin Listed
  BY <1>1 DEF NbrIInv, NbrTypeOK, FirstFree, FreeSlots
<1>4. keys' \in Seq(Slots) /\ IsInjective(keys') /\ Listed' = Listed \cup {s}
  BY <1>1, <1>3, AppendNew DEF Listed
<1>5. /\ lladdr' \in [Slots -> LlAddrs] /\ lladdr'[s] = a
      /\ \A r \in Slots \ {s} : lladdr'[r] = lladdr[r]
  BY <1>1, <1>3
<1>6. usedMap[s] = {}
  BY <1>3 DEF NbrIInv, UsedListed
<1>7. /\ usedMap' \in [Slots -> SUBSET Registered']
      /\ lockedMap' \in [Slots -> SUBSET Registered']
      /\ tables' = tables
      /\ item' \in [NbrTables -> [Slots -> LlAddrs \cup {Zeroed}]]
      /\ UsedListed' /\ ItemsOfTheirNeighbour'
  BY <1>1, <1>2, <1>4, <1>5, <1>6, TakeStep
<1>8. NbrTypeOK'
  BY <1>2, <1>4, <1>5, <1>7 DEF NbrIInv, NbrTypeOK
<1>9. AddressesDiffer'
  <2>1. \A r \in Listed : lladdr[r] # a /\ r \in Slots /\ r # s
    BY <1>2, <1>3, SlotsAndTables DEF Known, NbrIInv
  <2> QED
    BY <1>4, <1>5, <2>1 DEF NbrIInv, AddressesDiffer
<1> QED
  BY <1>4, <1>7, <1>8, <1>9 DEF NbrIInv

LEMMA UsesAreNumbers ==
  ASSUME NbrTypeOK, NEW s \in Slots PROVE Uses(s) \in Nat
<1>1. tables \in Seq(NbrTables) /\ usedMap[s] \in SUBSET Registered
  BY DEF NbrTypeOK
<1>2. IsFiniteSet(1 .. Len(tables))
  BY <1>1, FS_Interval
<1>3. tables \in Surjection(1 .. Len(tables), Registered)
  BY <1>1 DEF Surjection, Registered, ToSet
<1>4. IsFiniteSet(Registered)
  BY <1>2, <1>3, FS_Surjection
<1>5. IsFiniteSet(usedMap[s])
  BY <1>1, <1>4, FS_Subset
<1> QED
  BY <1>5, FS_CardinalityType DEF Uses

(* The search for the neighbour to evict, after the first m of the list:   *)
(* nobody was free to go, or the one found has its use count and none that *)
(* is free to go is used less, nor as little if it is older.               *)
BestOf(l, m) ==
  \/ l = NobodyYet /\ \A j \in 1 .. m : lockedMap[keys[j]] # {}
  \/ /\ l \in [at : 1 .. m, count : Nat]
     /\ lockedMap[keys[l.at]] = {} /\ l.count = Uses(keys[l.at])
     /\ \A j \in 1 .. m : lockedMap[keys[j]] = {} =>
          /\ l.count <= Uses(keys[j])
          /\ j < l.at => l.count < Uses(keys[j])

LEMMA ScanStep ==
  ASSUME NbrTypeOK, NEW m \in Nat, m + 1 <= Len(keys), NEW l, BestOf(l, m)
  PROVE  BestOf(Scanned(l, m + 1), m + 1)
<1> DEFINE u == Uses(keys[m + 1])
           free == lockedMap[keys[m + 1]] = {}
<1>1. /\ \A j \in 1 .. m + 1 : keys[j] \in Slots /\ Uses(keys[j]) \in Nat
      /\ m + 1 \in 1 .. m + 1
  BY UsesAreNumbers DEF NbrTypeOK
<1>2. u \in Nat /\ \A j \in 1 .. m + 1 : j = m + 1 \/ j \in 1 .. m
  BY <1>1
<1>3. NobodyYet.at = 0
  BY DEF NobodyYet
<1>4. CASE ~free
  <2>1. Scanned(l, m + 1) = l
    BY <1>4 DEF Scanned
  <2> QED
    BY <1>2, <1>4, <2>1 DEF BestOf
<1>5. CASE free /\ l = NobodyYet
  <2>1. Scanned(l, m + 1) = [at |-> m + 1, count |-> u]
    BY <1>3, <1>5 DEF Scanned, Left
  <2>2. \A j \in 1 .. m : lockedMap[keys[j]] # {}
    BY <1>3, <1>5 DEF BestOf
  <2> QED
    BY <1>1, <1>2, <1>5, <2>1, <2>2 DEF BestOf
<1>6. CASE free /\ l # NobodyYet
  <2>1. /\ l \in [at : 1 .. m, count : Nat] /\ l.at # 0
        /\ lockedMap[keys[l.at]] = {} /\ l.count = Uses(keys[l.at])
        /\ \A j \in 1 .. m : lockedMap[keys[j]] = {} =>
             l.count <= Uses(keys[j]) /\ (j < l.at => l.count < Uses(keys[j]))
    BY <1>6 DEF BestOf
  <2>2. CASE u < l.count
    <3>1. Scanned(l, m + 1) = [at |-> m + 1, count |-> u]
      BY <1>2, <1>6, <2>1, <2>2 DEF Scanned, Left
    <3>2. ASSUME NEW j \in 1 .. m, lockedMap[keys[j]] = {} PROVE u < Uses(keys[j])
      <4>1. l.count <= Uses(keys[j]) /\ l.count \in Nat
        BY <2>1, <3>2
      <4>2. u \in Nat /\ Uses(keys[j]) \in Nat /\ u < l.count
        BY <1>1, <1>2, <2>2
      <4> HIDE DEF u
      <4> QED
        BY <4>1, <4>2
    <3> QED
      BY <1>1, <1>2, <1>6, <3>1, <3>2 DEF BestOf
  <2>3. CASE ~(u < l.count)
    <3>1. Scanned(l, m + 1) = l
      BY <2>1, <2>3 DEF Scanned
    <3>2. l.count <= u /\ ~(m + 1 < l.at) /\ l.at \in 1 .. m + 1 /\ l.count \in Nat
      BY <1>2, <2>1, <2>3
    <3> QED
      BY <1>2, <2>1, <3>1, <3>2 DEF BestOf
  <2> QED
    BY <2>2, <2>3
<1> QED
  BY <1>4, <1>5, <1>6

LEMMA SearchFinds ==
  ASSUME NbrTypeOK
  PROVE  \E l : BestOf(l, Len(keys)) /\ LeastUsed = l.at
<1> DEFINE n == Len(keys)
           R == [at : 0 .. n, count : Nat]
           F == [c \in R \X (1 .. n) |-> Scanned(c[1], c[2])]
           Searches(g) == g = [i \in 0 .. n |-> IF i = 0 THEN NobodyYet
                                                ELSE Scanned(g[i - 1], i)]
           it == CHOOSE g : Searches(g)
           P == {m \in Nat : m <= n => BestOf(it[m], m)}
<1>1. n \in Nat /\ NobodyYet \in R
  BY DEF NbrTypeOK, NobodyYet
<1>2. ASSUME NEW l \in R, NEW i \in 1 .. n PROVE Scanned(l, i) \in R
  <2>1. keys[i] \in Slots
    BY DEF NbrTypeOK
  <2>2. Uses(keys[i]) \in Nat
    BY <2>1, UsesAreNumbers
  <2> QED
    BY <1>1, <2>2 DEF Scanned
<1>3. \A l \in R, i \in 1 .. n : F[<<l, i>>] = Scanned(l, i)
  OBVIOUS
<1>4. F \in [R \X (1 .. n) -> R]
  BY <1>2
<1> HIDE DEF F, R
<1>5. PICK g \in [0 .. n -> R] : Runs(g, F, NobodyYet, n)
  BY <1>1, <1>4, RunExists
<1>6. ASSUME NEW i \in 1 .. n PROVE g[i] = Scanned(g[i - 1], i)
  <2>1. g[i - 1] \in R
    BY <1>1
  <2> QED
    BY <1>3, <1>5, <2>1 DEF Runs
<1>7. Searches(g)
  <2>1. \A i \in 0 .. n : g[i] = IF i = 0 THEN NobodyYet ELSE Scanned(g[i - 1], i)
    BY <1>1, <1>5, <1>6 DEF Runs
  <2>2. g = [i \in 0 .. n |-> g[i]]
    OBVIOUS
  <2> QED
    BY <2>1, <2>2
<1>8. Searches(it)
  BY <1>7
<1>9. LeastUsed = it[n].at
  BY DEF LeastUsed
<1> HIDE DEF it
<1>10. 0 \in P
  <2>1. it[0] = NobodyYet
    BY <1>1, <1>8
  <2> QED
    BY <2>1 DEF BestOf
<1>11. ASSUME NEW m \in P PROVE m + 1 \in P
  <2>1. CASE m + 1 <= n
    <3>1. it[m + 1] = Scanned(it[(m + 1) - 1], m + 1) /\ (m + 1) - 1 = m /\ m <= n
      BY <1>1, <1>8, <2>1
    <3> QED
      BY <1>11, <2>1, <3>1, ScanStep
  <2> QED
    BY <2>1
<1>12. n \in P
  <2> HIDE DEF P
  <2>1. P \in SUBSET Nat
    BY DEF P
  <2> QED
    BY <1>1, <1>10, <1>11, <2>1, Induction
<1> QED
  BY <1>1, <1>9, <1>12

(* The slot an eviction takes: nothing but what the search found.          *)
Victim(s) == LeastUsed # 0 /\ s = keys[LeastUsed]

LEMMA VictimListed ==
  ASSUME NbrIInv, NEW s, Victim(s)
  PROVE  /\ s \in Listed /\ s \in Slots /\ lockedMap[s] = {}
         /\ LeastUsed \in DOMAIN keys /\ keys[LeastUsed] = s
         /\ \A j \in DOMAIN keys : lockedMap[keys[j]] = {} =>
              /\ Uses(s) <= Uses(keys[j])
              /\ j < LeastUsed => Uses(s) < Uses(keys[j])
<1>1. NbrTypeOK /\ keys \in Seq(Slots) /\ LeastUsed # 0 /\ s = keys[LeastUsed]
  BY DEF NbrIInv, NbrTypeOK, Victim
<1>2. PICK l : BestOf(l, Len(keys)) /\ LeastUsed = l.at
  BY <1>1, SearchFinds
<1>3. l # NobodyYet
  BY <1>1, <1>2 DEF NobodyYet
<1>4. LeastUsed \in DOMAIN keys
  BY <1>1, <1>2, <1>3 DEF BestOf
<1>5. s \in Listed /\ s \in Slots
  BY <1>1, <1>4, SlotsAndTables DEF Listed, ToSet
<1> QED
  BY <1>1, <1>2, <1>3, <1>4, <1>5 DEF BestOf

LEMMA AddEvictingStep ==
  ASSUME NbrIInv, NEW t \in NbrTables, NEW a \in LlAddrs, AddEvicting(t, a)
  PROVE  NbrIInv'
<1>1. PICK s : /\ Victim(s)
               /\ keys' = Append(RemoveAt(keys, LeastUsed), s)
               /\ lladdr' = [lladdr EXCEPT ![s] = a]
               /\ TakeItem(t, s, Emptied(s))
               /\ called' = Called(s)
  BY DEF AddEvicting, Victim
<1>2. t \in Registered /\ Known(a) = {}
  BY DEF AddEvicting
<1>3. /\ keys \in Seq(Slots) /\ lladdr \in [Slots -> LlAddrs] /\ IsInjective(keys)
      /\ s \in Listed /\ s \in Slots /\ LeastUsed \in DOMAIN keys /\ keys[LeastUsed] = s
  BY <1>1, VictimListed DEF NbrIInv, NbrTypeOK
<1>4. keys' \in Seq(Slots) /\ IsInjective(keys') /\ Listed' = Listed
  BY <1>1, <1>3, MoveLast DEF Listed
<1>5. /\ lladdr' \in [Slots -> LlAddrs] /\ lladdr'[s] = a
      /\ \A r \in Slots \ {s} : lladdr'[r] = lladdr[r]
  BY <1>1, <1>3
<1>6. Emptied(s) = {} /\ Listed' = Listed \cup {s}
  BY <1>3, <1>4 DEF Emptied
<1>7. /\ usedMap' \in [Slots -> SUBSET Registered']
      /\ lockedMap' \in [Slots -> SUBSET Registered']
      /\ tables' = tables
      /\ item' \in [NbrTables -> [Slots -> LlAddrs \cup {Zeroed}]]
      /\ UsedListed' /\ ItemsOfTheirNeighbour'
  BY <1>1, <1>2, <1>5, <1>6, TakeStep
<1>8. called' \subseteq NbrTables \X Slots
  BY <1>1, <1>3, SlotsAndTables DEF Called, NbrIInv
<1>9. NbrTypeOK'
  BY <1>4, <1>5, <1>7, <1>8 DEF NbrIInv, NbrTypeOK
<1>10. AddressesDiffer'
  <2>1. \A r \in Listed : lladdr[r] # a /\ r \in Slots
    BY <1>2, SlotsAndTables DEF Known, NbrIInv
  <2> QED
    BY <1>3, <1>4, <1>5, <2>1 DEF NbrIInv, AddressesDiffer
<1> QED
  BY <1>4, <1>7, <1>9, <1>10 DEF NbrIInv

LEMMA NbrInvNext ==
  ASSUME NbrIInv, [NbrNext]_nbrVars
  PROVE  NbrIInv'
<1>1. ASSUME NEW t \in NbrTables, Register(t) PROVE NbrIInv'
  <2>1. /\ tables' = Append(tables, t) /\ Len(tables) < MaxTables /\ called' = {}
        /\ UNCHANGED <<keys, lladdr, usedMap, lockedMap, item>>
    BY <1>1 DEF Register, TableFits
  <2>2. /\ tables \in Seq(NbrTables) /\ tables' \in Seq(NbrTables)
        /\ Len(tables') <= MaxTables
    BY <2>1, NbrAssumption DEF NbrIInv, NbrTypeOK
  <2>3. Registered \subseteq Registered'
    BY <2>1, <2>2, AppendSet DEF Registered
  <2>4. usedMap \in [Slots -> SUBSET Registered'] /\ lockedMap \in [Slots -> SUBSET Registered']
    BY <2>3 DEF NbrIInv, NbrTypeOK
  <2>5. NbrTypeOK'
    BY <2>1, <2>2, <2>4 DEF NbrIInv, NbrTypeOK
  <2> QED
    BY <2>1, <2>5 DEF NbrIInv, UsedListed, AddressesDiffer, ItemsOfTheirNeighbour, Listed
<1>2. ASSUME NEW t \in NbrTables, NEW a \in LlAddrs, AddRefused(t, a) PROVE NbrIInv'
  BY <1>2 DEF AddRefused, NbrIInv, NbrTypeOK, Registered, Listed, UsedListed,
              AddressesDiffer, ItemsOfTheirNeighbour
<1>3. ASSUME NEW t \in NbrTables, NEW a \in LlAddrs, WriteItem(t, a) PROVE NbrIInv'
  <2>1. PICK s \in Known(a) : t \in usedMap[s] /\ item' = [item EXCEPT ![t][s] = a]
    BY <1>3 DEF WriteItem
  <2>2. called' = {} /\ UNCHANGED <<tables, keys, lladdr, usedMap, lockedMap>>
    BY <1>3 DEF WriteItem
  <2>3. s \in Slots /\ lladdr[s] = a
    BY <2>1, SlotsAndTables DEF Known, NbrIInv
  <2>4. item \in [NbrTables -> [Slots -> LlAddrs \cup {Zeroed}]]
    BY DEF NbrIInv, NbrTypeOK
  <2>5. item' \in [NbrTables -> [Slots -> LlAddrs \cup {Zeroed}]]
    BY <2>1, <2>3, <2>4
  <2>6. NbrTypeOK'
    BY <2>2, <2>5 DEF NbrIInv, NbrTypeOK, Registered
  <2>7. ItemsOfTheirNeighbour'
    <3>1. SUFFICES ASSUME NEW r \in Slots, NEW u \in usedMap[r]
                   PROVE  item'[u][r] \in {Zeroed, lladdr[r]}
      BY <2>2 DEF ItemsOfTheirNeighbour
    <3>2. u \in NbrTables /\ item[u][r] \in {Zeroed, lladdr[r]}
      BY SlotsAndTables DEF NbrIInv, NbrTypeOK, ItemsOfTheirNeighbour
    <3>3. CASE u = t /\ r = s
      BY <2>1, <2>3, <2>4, <3>3
    <3>4. CASE ~(u = t /\ r = s)
      <4>1. item'[u][r] = item[u][r]
        BY <2>1, <2>3, <2>4, <3>2, <3>4
      <4> QED
        BY <3>2, <4>1
    <3> QED
      BY <3>3, <3>4
  <2> QED
    BY <2>2, <2>6, <2>7 DEF NbrIInv, Listed, UsedListed, AddressesDiffer
<1>4. ASSUME NEW t \in NbrTables, NEW s \in Slots,
             RemoveItem(t, s) \/ Lock(t, s) \/ Unlock(t, s)
      PROVE  NbrIInv'
  <2>1. called' = {} /\ UNCHANGED <<tables, keys, lladdr, item>>
    BY <1>4 DEF RemoveItem, Lock, Unlock
  <2>2. /\ usedMap \in [Slots -> SUBSET Registered] /\ t \in Registered
        /\ lockedMap \in [Slots -> SUBSET Registered]
    BY <1>4 DEF RemoveItem, Lock, Unlock, NbrIInv, NbrTypeOK
  <2>3. /\ usedMap' \in [Slots -> SUBSET Registered]
        /\ lockedMap' \in [Slots -> SUBSET Registered]
        /\ \A r \in Slots : usedMap'[r] \subseteq usedMap[r]
    BY <1>4, <2>2 DEF RemoveItem, Lock, Unlock
  <2>4. NbrTypeOK'
    BY <2>1, <2>3 DEF NbrIInv, NbrTypeOK, Registered
  <2>5. UsedListed' /\ ItemsOfTheirNeighbour'
    BY <2>1, <2>3 DEF NbrIInv, UsedListed, ItemsOfTheirNeighbour, Listed
  <2> QED
    BY <2>1, <2>4, <2>5 DEF NbrIInv, AddressesDiffer, Listed
<1>5. CASE UNCHANGED nbrVars
  BY <1>5 DEF nbrVars, NbrIInv, NbrTypeOK, Registered, Listed, UsedListed,
              AddressesDiffer, ItemsOfTheirNeighbour
<1> QED
  BY <1>1, <1>2, <1>3, <1>4, <1>5, AddKnownStep, AddFreshStep, AddEvictingStep
  DEF NbrNext

-----------------------------------------------------------------------------
LEMMA NbrInitInv == NbrInit => NbrIInv
<1>1. SUFFICES ASSUME NbrInit PROVE NbrIInv
  OBVIOUS
<1>2. /\ tables = <<>> /\ keys = <<>> /\ called = {}
      /\ lladdr = [s \in Slots |-> NullAddr]
      /\ usedMap = [s \in Slots |-> {}] /\ lockedMap = [s \in Slots |-> {}]
      /\ item = [t \in NbrTables |-> [s \in Slots |-> Zeroed]]
  BY <1>1 DEF NbrInit
<1>3. tables \in Seq(NbrTables) /\ Len(tables) <= MaxTables /\ keys \in Seq(Slots)
  BY <1>2, NbrAssumption
<1>4. NbrTypeOK
  BY <1>2, <1>3, NbrAssumption DEF NbrTypeOK
<1>5. IsInjective(keys) /\ Listed = {}
  BY <1>2 DEF IsInjective, Listed, ToSet
<1>6. UsedListed /\ ItemsOfTheirNeighbour
  BY <1>2 DEF UsedListed, ItemsOfTheirNeighbour
<1>7. AddressesDiffer
  BY <1>5 DEF AddressesDiffer
<1> QED
  BY <1>4, <1>5, <1>6, <1>7 DEF NbrIInv

LEMMA NbrIInvHolds == NbrSpec => []NbrIInv
BY NbrInitInv, NbrInvNext, PTL DEF NbrSpec

(* Only an eviction changes the address of a listed slot or calls back.    *)
LEMMA OnlyEvictionsReassign ==
  ASSUME NbrIInv, NbrNext,
         ~ \E t \in NbrTables, a \in LlAddrs : AddEvicting(t, a)
  PROVE  called' = {} /\ \A s \in Listed : lladdr'[s] = lladdr[s]
<1>1. ASSUME NEW t \in NbrTables, NEW a \in LlAddrs, AddFresh(t, a)
      PROVE  called' = {} /\ \A s \in Listed : lladdr'[s] = lladdr[s]
  <2>1. PICK f \in Slots : FirstFree(f) /\ lladdr' = [lladdr EXCEPT ![f] = a]
    BY <1>1 DEF AddFresh
  <2>2. f \notin Listed /\ Listed \subseteq Slots /\ lladdr \in [Slots -> LlAddrs]
    BY <2>1, SlotsAndTables DEF FirstFree, FreeSlots, NbrIInv, NbrTypeOK
  <2> QED
    BY <1>1, <2>1, <2>2 DEF AddFresh
<1> QED
  BY <1>1 DEF NbrNext, Register, AddKnown, AddRefused, WriteItem, RemoveItem, Lock, Unlock

(* An eviction gives the victim another address and leaves the others.     *)
LEMMA Evicts ==
  ASSUME NbrIInv, NEW t \in NbrTables, NEW a \in LlAddrs, AddEvicting(t, a)
  PROVE  \E v \in Listed :
           /\ Victim(v) /\ called' = Called(v) /\ lladdr'[v] # lladdr[v]
           /\ \A s \in Listed \ {v} : lladdr'[s] = lladdr[s]
<1>1. PICK v : /\ Victim(v) /\ lladdr' = [lladdr EXCEPT ![v] = a]
               /\ called' = Called(v)
  BY DEF AddEvicting, Victim
<1>2. Known(a) = {}
  BY DEF AddEvicting
<1>3. v \in Listed /\ Listed \subseteq Slots /\ lladdr \in [Slots -> LlAddrs]
  BY <1>1, VictimListed, SlotsAndTables DEF NbrIInv, NbrTypeOK
<1>4. lladdr[v] # a
  BY <1>2, <1>3 DEF Known
<1> QED
  BY <1>1, <1>3, <1>4

LEMMA AnnounceStep ==
  ASSUME NbrIInv, NbrNext PROVE Announced
<1>1. CASE ~ \E t \in NbrTables, a \in LlAddrs : AddEvicting(t, a)
  BY <1>1, OnlyEvictionsReassign DEF Announced
<1>2. ASSUME NEW t \in NbrTables, NEW a \in LlAddrs, AddEvicting(t, a) PROVE Announced
  <2>1. PICK v \in Listed :
           /\ Victim(v) /\ called' = Called(v) /\ lladdr'[v] # lladdr[v]
           /\ \A s \in Listed \ {v} : lladdr'[s] = lladdr[s]
    BY <1>2, Evicts
  <2>2. lockedMap[v] = {} /\ v \in Slots
    BY <2>1, VictimListed
  <2>3. usedMap[v] \subseteq Registered /\ Registered \subseteq NbrTables
    BY <2>2, SlotsAndTables DEF NbrIInv, NbrTypeOK
  <2>4. called' = (usedMap[v] \cap Notified) \X {v}
    BY <2>1, <2>3 DEF Called
  <2>5. ASSUME NEW s \in Listed, s = v
        PROVE  /\ {u \in usedMap[s] : lladdr'[s] # lladdr[s]} = usedMap[v]
               /\ called' \cap (NbrTables \X {s}) = (usedMap[v] \cap Notified) \X {s}
    BY <2>1, <2>3, <2>4, <2>5
  <2>6. ASSUME NEW s \in Listed, s # v
        PROVE  /\ {u \in usedMap[s] : lladdr'[s] # lladdr[s]} = {}
               /\ called' \cap (NbrTables \X {s}) = {}
    BY <2>1, <2>4, <2>6
  <2> QED
    BY <2>1, <2>2, <2>5, <2>6 DEF Announced
<1> QED
  BY <1>1, <1>2

LEMMA LeastUsedStep ==
  ASSUME NbrIInv, NbrNext PROVE LeastUsedLost
<1>1. SUFFICES ASSUME NEW s \in Listed, lladdr'[s] # lladdr[s],
                      NEW r \in Listed \ {s}, lockedMap[r] = {}
               PROVE  /\ Uses(r) >= Uses(s)
                      /\ Uses(r) = Uses(s) =>
                           \A i, j \in DOMAIN keys : keys[i] = s /\ keys[j] = r => i < j
  BY DEF LeastUsedLost
<1>2. Victim(s)
  BY <1>1, OnlyEvictionsReassign, Evicts
<1>3. /\ LeastUsed \in DOMAIN keys /\ keys[LeastUsed] = s
      /\ \A j \in DOMAIN keys : keys[j] = r =>
           Uses(s) <= Uses(r) /\ (j < LeastUsed => Uses(s) < Uses(r))
  BY <1>1, <1>2, VictimListed
<1>4. /\ Uses(s) \in Nat /\ Uses(r) \in Nat /\ \E j \in DOMAIN keys : keys[j] = r
  BY UsesAreNumbers, SlotsAndTables DEF NbrIInv, Listed, ToSet
<1>5. ASSUME NEW i \in DOMAIN keys, NEW j \in DOMAIN keys, keys[i] = s, keys[j] = r
      PROVE  i = LeastUsed /\ i # j /\ i \in Nat /\ j \in Nat
  <2>1. \A k, l \in DOMAIN keys : keys[k] = keys[l] => k = l
    BY DEF NbrIInv, IsInjective
  <2>2. keys \in Seq(Slots)
    BY DEF NbrIInv, NbrTypeOK
  <2> QED
    BY <1>1, <1>3, <1>5, <2>1, <2>2
<1> QED
  BY <1>3, <1>4, <1>5

-----------------------------------------------------------------------------
(* The functions that the iteration of a table computes, over a sequence q *)
(* of which it uses the elements in U.                                     *)
Step(q, U, r, i) == IF q[i] \in U THEN Append(r, q[i]) ELSE r
Collects(q, U, m, g) ==
  g[0] = <<>> /\ \A i \in 1 .. m : g[i] = Step(q, U, g[i - 1], i)

LEMMA StepType ==
  ASSUME NEW S, NEW q \in Seq(S), NEW U, NEW r \in Seq(S), NEW i \in 1 .. Len(q)
  PROVE  Step(q, U, r, i) \in Seq(S)
<1>1. q[i] \in S
  OBVIOUS
<1>2. Append(r, q[i]) \in Seq(S)
  BY <1>1, AppendIs
<1> QED
  BY <1>2 DEF Step

LEMMA CollectionExists ==
  ASSUME NEW S, NEW q \in Seq(S), NEW U
  PROVE  \E g \in [0 .. Len(q) -> Seq(S)] : Collects(q, U, Len(q), g)
<1> DEFINE n == Len(q)
           F == [c \in Seq(S) \X (1 .. n) |-> Step(q, U, c[1], c[2])]
<1>1. n \in Nat /\ <<>> \in Seq(S)
  OBVIOUS
<1>2. F \in [Seq(S) \X (1 .. n) -> Seq(S)]
  BY StepType
<1>3. \A r \in Seq(S), i \in 1 .. n : F[<<r, i>>] = Step(q, U, r, i)
  OBVIOUS
<1> HIDE DEF F
<1>4. PICK g \in [0 .. n -> Seq(S)] : Runs(g, F, <<>>, n)
  BY <1>1, <1>2, RunExists
<1>5. ASSUME NEW i \in 1 .. n PROVE g[i] = Step(q, U, g[i - 1], i)
  <2>1. g[i - 1] \in Seq(S)
    BY <1>1
  <2> QED
    BY <1>3, <1>4, <2>1 DEF Runs
<1> QED
  BY <1>4, <1>5 DEF Runs, Collects

(* What they compute: every element used, once, if q has each once.        *)
LEMMA CollectionIs ==
  ASSUME NEW S, NEW q \in Seq(S), IsInjective(q), NEW U,
         NEW g, Collects(q, U, Len(q), g)
  PROVE  IsInjective(g[Len(q)]) /\ ToSet(g[Len(q)]) = ToSet(q) \cap U
<1> DEFINE Before(m) == {q[i] : i \in 1 .. m}
           Right(r, m) == r \in Seq(S) /\ IsInjective(r) /\ ToSet(r) = Before(m) \cap U
           P == {m \in Nat : m <= Len(q) => Right(g[m], m)}
<1>1. Len(q) \in Nat /\ DOMAIN q = 1 .. Len(q)
  OBVIOUS
<1>2. Right(g[0], 0)
  <2>1. g[0] = <<>>
    BY DEF Collects
  <2>2. <<>> \in Seq(S) /\ IsInjective(<<>>) /\ ToSet(<<>>) = {}
    BY DEF IsInjective, ToSet
  <2>3. Before(0) = {}
    OBVIOUS
  <2> QED
    BY <2>1, <2>2, <2>3
<1>3. ASSUME NEW m \in Nat, m + 1 <= Len(q), Right(g[m], m) PROVE Right(g[m + 1], m + 1)
  <2>1. m + 1 \in 1 .. Len(q) /\ q[m + 1] \in S
    BY <1>1, <1>3
  <2>2. g[m + 1] = Step(q, U, g[m], m + 1)
    <3>1. g[m + 1] = Step(q, U, g[(m + 1) - 1], m + 1)
      BY <2>1 DEF Collects
    <3>2. (m + 1) - 1 = m
      OBVIOUS
    <3> QED
      BY <3>1, <3>2
  <2>3. Before(m + 1) = Before(m) \cup {q[m + 1]}
    <3>1. 1 .. m + 1 = (1 .. m) \cup {m + 1}
      OBVIOUS
    <3> QED
      BY <3>1
  <2>4. q[m + 1] \notin Before(m)
    <3>1. \A i \in 1 .. m : i \in 1 .. Len(q) /\ i # m + 1
      BY <1>1, <1>3
    <3>2. \A i \in 1 .. m : q[i] # q[m + 1]
      BY <1>1, <2>1, <3>1 DEF IsInjective
    <3> QED
      BY <3>2
  <2> HIDE DEF Before
  <2>5. CASE q[m + 1] \in U
    <3>1. g[m + 1] = Append(g[m], q[m + 1])
      BY <2>2, <2>5 DEF Step
    <3>2. q[m + 1] \notin ToSet(g[m])
      BY <1>3, <2>4
    <3>3. /\ Append(g[m], q[m + 1]) \in Seq(S) /\ IsInjective(Append(g[m], q[m + 1]))
          /\ ToSet(Append(g[m], q[m + 1])) = ToSet(g[m]) \cup {q[m + 1]}
      BY <1>3, <2>1, <3>2, AppendNew
    <3>4. ToSet(g[m]) \cup {q[m + 1]} = Before(m + 1) \cap U
      BY <1>3, <2>3, <2>5
    <3> QED
      BY <3>1, <3>3, <3>4
  <2>6. CASE q[m + 1] \notin U
    <3>1. g[m + 1] = g[m]
      BY <2>2, <2>6 DEF Step
    <3>2. Before(m) \cap U = Before(m + 1) \cap U
      BY <2>3, <2>6
    <3> QED
      BY <1>3, <3>1, <3>2
  <2> QED
    BY <2>5, <2>6
<1> HIDE DEF Right
<1>4. 0 \in P
  BY <1>2
<1>5. \A m \in P : m + 1 \in P
  BY <1>1, <1>3
<1>6. Len(q) \in P
  <2> HIDE DEF P
  <2>1. P \in SUBSET Nat
    BY DEF P
  <2> QED
    BY <1>1, <1>4, <1>5, <2>1, Induction
<1>7. Before(Len(q)) = ToSet(q)
  BY <1>1 DEF ToSet
<1> QED
  BY <1>1, <1>6, <1>7 DEF Right

LEMMA ItemsAre ==
  ASSUME NbrIInv, NEW t
  PROVE  /\ IsInjective(Items(t))
         /\ ToSet(Items(t)) = {s \in Slots : t \in usedMap[s]}
<1> DEFINE U == {s \in Slots : t \in usedMap[s]}
           n == Len(keys)
           Iterates(g) ==
             g = [i \in 0 .. n |->
                    IF i = 0 THEN <<>>
                    ELSE IF t \in usedMap[keys[i]] THEN Append(g[i - 1], keys[i])
                         ELSE g[i - 1]]
           it == CHOOSE g : Iterates(g)
<1>1. keys \in Seq(Slots) /\ IsInjective(keys) /\ n \in Nat
  BY DEF NbrIInv, NbrTypeOK
<1>2. \A i \in 1 .. n : keys[i] \in Slots
  BY <1>1
<1>3. \E g : Iterates(g)
  <2>1. PICK g \in [0 .. n -> Seq(Slots)] : Collects(keys, U, n, g)
    BY <1>1, CollectionExists
  <2>2. ASSUME NEW i \in 0 .. n
        PROVE  g[i] = IF i = 0 THEN <<>>
                      ELSE IF t \in usedMap[keys[i]] THEN Append(g[i - 1], keys[i])
                           ELSE g[i - 1]
    <3>1. CASE i = 0
      BY <2>1, <3>1 DEF Collects
    <3>2. CASE i # 0
      <4>1. i \in 1 .. n
        BY <1>1, <3>2
      <4>2. g[i] = Step(keys, U, g[i - 1], i) /\ keys[i] \in Slots
        BY <1>2, <2>1, <4>1 DEF Collects
      <4> QED
        BY <3>2, <4>2 DEF Step
    <3> QED
      BY <3>1, <3>2
  <2>3. g = [i \in 0 .. n |-> g[i]]
    OBVIOUS
  <2>4. Iterates(g)
    BY <2>2, <2>3
  <2> QED
    BY <2>4
<1>4. Iterates(it)
  BY <1>3
<1>5. Items(t) = it[n]
  BY DEF Items
<1> HIDE DEF it
<1>6. Collects(keys, U, n, it)
  <2>1. it[0] = <<>>
    BY <1>1, <1>4
  <2>2. ASSUME NEW i \in 1 .. n PROVE it[i] = Step(keys, U, it[i - 1], i)
    <3>1. i \in 0 .. n /\ i # 0 /\ keys[i] \in Slots
      BY <1>1, <1>2
    <3>2. it[i] = IF t \in usedMap[keys[i]] THEN Append(it[i - 1], keys[i]) ELSE it[i - 1]
      BY <1>4, <3>1
    <3> QED
      BY <3>1, <3>2 DEF Step
  <2> QED
    BY <2>1, <2>2 DEF Collects
<1>7. IsInjective(it[n]) /\ ToSet(it[n]) = ToSet(keys) \cap U
  BY <1>1, <1>6, CollectionIs
<1>8. ToSet(keys) \cap U = U
  BY DEF NbrIInv, UsedListed, Listed
<1> QED
  BY <1>5, <1>7, <1>8

-----------------------------------------------------------------------------
(* Type correctness of the neighbour tables.                               *)
THEOREM NbrTypeCorrect == NbrSpec => []NbrTypeOK
BY NbrIInvHolds, PTL DEF NbrIInv

(* No table finds, under a neighbour, what it stored about another one,    *)
(* for any number of neighbours, tables and evictions.                     *)
THEOREM ItemsFollowNeighbours == NbrSpec => []ItemsOfTheirNeighbour
BY NbrIInvHolds, PTL DEF NbrIInv

(* Evictions spare locked neighbours and tell every table concerned.       *)
THEOREM EvictionsAnnounced == NbrSpec => EvictionAnnounced
<1>1. NbrIInv /\ [NbrNext]_nbrVars => [Announced]_nbrVars
  BY AnnounceStep
<1> QED
  BY <1>1, NbrIInvHolds, PTL DEF NbrSpec, EvictionAnnounced

(* Evictions take the neighbour that the fewest tables use, and of those   *)
(* the one that has been in the list for longest: the search through the   *)
(* list, left at the first neighbour that nobody uses, computes it for     *)
(* every list, by induction over the neighbours it has looked at.          *)
THEOREM EvictsLeastUsed == NbrSpec => LeastUsedOldestFirst
<1>1. NbrIInv /\ [NbrNext]_nbrVars => [LeastUsedLost]_nbrVars
  BY LeastUsedStep
<1> QED
  BY <1>1, NbrIInvHolds, PTL DEF NbrSpec, LeastUsedOldestFirst

(* No two listed neighbours have the same address, and nbr_table_head with *)
(* nbr_table_next meet every item of a table, once: whatever was inserted, *)
(* evicted and removed before, in any order.                               *)
THEOREM IterationMeetsEachOnce == NbrSpec => []KeysName
<1>1. NbrIInv => KeysName
  BY ItemsAre DEF NbrIInv, AddressesDiffer, KeysName
<1> QED
  BY <1>1, NbrIInvHolds, PTL
=============================================================================
