--------------------------- MODULE RingMem_proofs ---------------------------
(***************************************************************************)
(* Proofs about module RingMem, for every size and every set of lengths.   *)
(* What makes BlocksIntact inductive is where blocks can lie: in order     *)
(* between get_ptr and put_ptr, or, once the ring has wrapped, between     *)
(* get_ptr and wrap_ptr and then between 0 and put_ptr.                    *)
(***************************************************************************)
EXTENDS RingMem, SequenceTheorems, TLAPS

(* The layout of n blocks, the i-th from S[i] up to E[i], with the values
   p, g, w, a of put_ptr, get_ptr, wrap_ptr and a_len.                     *)
Pointers(n, p, g, w, a) ==
  /\ n = 0 => p = 0 /\ g = 0 /\ w = 0 /\ a = MemSize
  /\ n > 0 /\ w = 0 => g < p /\ p <= MemSize /\ a = (MemSize - p) + g
  /\ w # 0 => n > 0 /\ 0 < p /\ p <= g /\ g < w /\ w <= MemSize /\ a = g - p

Behind(s, e, p, g, w) == g <= s /\ e <= IF w = 0 THEN p ELSE w
LiesInFront(e, p, w) == w # 0 /\ e <= p

Where(n, S, E, p, g, w) ==
  \A i \in 1 .. n : Behind(S[i], E[i], p, g, w) \/ LiesInFront(E[i], p, w)

(* The oldest block is at get_ptr, the newest ends at put_ptr, and each
   begins where the one before it ends or at 0 after the wrap.             *)
Adjacent(n, S, E, p, g, w) ==
  /\ n > 0 => S[1] = g /\ E[n] = p
  /\ \A i \in 1 .. n - 1 : S[i + 1] = E[i] \/ (w # 0 /\ E[i] = w /\ S[i + 1] = 0)

Ordered(n, S, E, p, g, w) ==
  \A i, j \in 1 .. n : i < j => E[i] <= S[j] \/ (LiesInFront(E[j], p, w) /\ g <= S[i])

Layout(n, S, E, p, g, w, a) ==
  /\ Pointers(n, p, g, w, a)
  /\ Where(n, S, E, p, g, w)
  /\ Adjacent(n, S, E, p, g, w)
  /\ Ordered(n, S, E, p, g, w)

Starts(f) == [i \in 1 .. Len(f) |-> f[i].at]
Ends(f)   == [i \in 1 .. Len(f) |-> f[i].at + BlockHeader + f[i].block.len]

LayoutInv == Layout(Len(fifo), Starts(fifo), Ends(fifo), put_ptr, get_ptr, wrap_ptr, a_len)

MemIInv == MemTypeOK /\ LayoutInv /\ BlocksIntact

-----------------------------------------------------------------------------
LEMMA MemConstants ==
  /\ MemSize \in Nat /\ MemSize > 0 /\ BlockHeader = 2
  /\ Mem \subseteq Nat /\ NullPtr \notin Mem
  /\ \A b \in BlockOf : b.len \in Nat
<1>1. MemSize \in Nat /\ MemSize > 0 /\ BlockHeader = 2
  BY MemAssumption DEF BlockHeader
<1>2. Lens \subseteq Nat /\ NullPtr \notin Nat
  BY MemAssumption
<1>3. \A b \in BlockOf : b.len \in Lens
  BY DEF BlockOf
<1>4. Mem \subseteq Nat
  BY <1>1 DEF Mem
<1>5. NullPtr \notin Mem
  BY <1>2, <1>4, Zenon
<1> QED
  BY <1>1, <1>2, <1>3, <1>4, <1>5

-----------------------------------------------------------------------------
(* Blocks from S[i] up to E[i], each with room for its header; the same
   with one more from s up to e; and without the first.                    *)
Spans(n, S, E) ==
  /\ n \in Nat /\ S \in [1 .. n -> Nat] /\ E \in [1 .. n -> Nat]
  /\ \A i \in 1 .. n : S[i] + 2 <= E[i]

Grown(n, S, E, S2, E2, s, e) ==
  /\ S2 \in [1 .. n + 1 -> Nat] /\ E2 \in [1 .. n + 1 -> Nat]
  /\ \A i \in 1 .. n : S2[i] = S[i] /\ E2[i] = E[i]
  /\ S2[n + 1] = s /\ E2[n + 1] = e

Shrunk(n, S, E, S2, E2) ==
  /\ S2 \in [1 .. n - 1 -> Nat] /\ E2 \in [1 .. n - 1 -> Nat]
  /\ \A i \in 1 .. n - 1 : S2[i] = S[i + 1] /\ E2[i] = E[i + 1]

(* A layout with a block added at its end, behind the newest one or, after
   the wrap, in front of the oldest: it is a layout again, and the new
   block is clear of the others.                                           *)
LEMMA AddBehind ==
  ASSUME NEW n, NEW S, NEW E, NEW S2, NEW E2,
         NEW p \in Nat, NEW g \in Nat, NEW w \in Nat, NEW a \in Nat, NEW tot \in Nat,
         Spans(n, S, E), Layout(n, S, E, p, g, w, a),
         Grown(n, S, E, S2, E2, p, p + tot),
         tot >= 2, tot <= a, p + tot <= MemSize
  PROVE  /\ Layout(n + 1, S2, E2, p + tot, g, w, a - tot)
         /\ \A i \in 1 .. n : E[i] <= p \/ p + tot <= S[i]
<1>a. n \in Nat /\ S \in [1 .. n -> Nat] /\ E \in [1 .. n -> Nat]
  BY DEF Spans
<1>b. \A i \in 1 .. n : S[i] + 2 <= E[i]
  BY DEF Spans
<1>c. S2 \in [1 .. n + 1 -> Nat] /\ E2 \in [1 .. n + 1 -> Nat]
  BY DEF Grown
<1>d. \A i \in 1 .. n : S2[i] = S[i] /\ E2[i] = E[i]
  BY DEF Grown
<1>e. S2[n + 1] = p /\ E2[n + 1] = p + tot
  BY DEF Grown
<1> USE <1>a, <1>b, <1>c, <1>d, <1>e, MemConstants DEF Layout, Behind, LiesInFront
<1>1. Pointers(n + 1, p + tot, g, w, a - tot)
  BY DEF Pointers
<1>2. \A i \in 1 .. n : E[i] <= p \/ p + tot <= S[i]
  BY DEF Pointers, Where
<1>3. Where(n + 1, S2, E2, p + tot, g, w)
  <2> SUFFICES ASSUME NEW i \in 1 .. n + 1
               PROVE  Behind(S2[i], E2[i], p + tot, g, w) \/ LiesInFront(E2[i], p + tot, w)
    BY DEF Where
  <2>1. CASE i \in 1 .. n
    <3>1. S2[i] = S[i] /\ E2[i] = E[i] /\ S[i] \in Nat /\ E[i] \in Nat
      BY <2>1
    <3>2. Behind(S[i], E[i], p, g, w) \/ LiesInFront(E[i], p, w)
      BY <2>1 DEF Where
    <3> QED
      BY <3>1, <3>2, SMTT(20) DEF Pointers
  <2>2. CASE i = n + 1
    BY <2>2 DEF Pointers
  <2> QED
    BY <2>1, <2>2
<1>4. Adjacent(n + 1, S2, E2, p + tot, g, w)
  <2>1. S2[1] = g /\ E2[n + 1] = p + tot
    <3>1. CASE n = 0
      BY <3>1 DEF Pointers
    <3>2. CASE n > 0
      <4>1. 1 \in 1 .. n
        BY <3>2
      <4> QED
        BY <3>2, <4>1 DEF Adjacent
    <3> QED
      BY <3>1, <3>2
  <2>2. ASSUME NEW i \in 1 .. n
        PROVE  S2[i + 1] = E2[i] \/ (w # 0 /\ E2[i] = w /\ S2[i + 1] = 0)
    <3>1. E2[i] = E[i]
      OBVIOUS
    <3>2. CASE i = n
      BY <3>1, <3>2 DEF Adjacent, Pointers
    <3>3. CASE i # n
      <4>1. i \in 1 .. n - 1 /\ i + 1 \in 1 .. n
        BY <3>3
      <4>2. S2[i + 1] = S[i + 1]
        BY <4>1
      <4>3. S[i + 1] = E[i] \/ (w # 0 /\ E[i] = w /\ S[i + 1] = 0)
        BY <4>1 DEF Adjacent
      <4> QED
        BY <3>1, <4>2, <4>3
    <3> QED
      BY <3>2, <3>3
  <2> QED
    BY <2>1, <2>2 DEF Adjacent
<1>5. Ordered(n + 1, S2, E2, p + tot, g, w)
  <2> SUFFICES ASSUME NEW i \in 1 .. n, NEW j \in 1 .. n + 1, i < j
               PROVE  E2[i] <= S2[j] \/ (LiesInFront(E2[j], p + tot, w) /\ g <= S2[i])
    <3>1. \A i, j \in 1 .. n + 1 : i < j => i \in 1 .. n
      OBVIOUS
    <3> QED
      BY <3>1 DEF Ordered
  <2>1. CASE j \in 1 .. n
    <3>1. E[i] <= S[j] \/ (LiesInFront(E[j], p, w) /\ g <= S[i])
      BY <2>1 DEF Ordered
    <3>2. /\ S2[i] = S[i] /\ E2[i] = E[i] /\ S2[j] = S[j] /\ E2[j] = E[j]
          /\ E[i] \in Nat /\ E[j] \in Nat
      BY <2>1
    <3>3. E[j] <= p => E[j] <= p + tot
      <4>1. \A x \in Nat : x <= p => x <= p + tot
        OBVIOUS
      <4> QED
        BY <3>2, <4>1, Zenon
    <3>4. E[i] <= S[j] \/ (w # 0 /\ E[j] <= p + tot /\ g <= S[i])
      BY <3>1, <3>3
    <3> QED
      BY <3>2, <3>4
  <2>2. CASE j = n + 1
    BY <2>2, SMTT(20) DEF Pointers, Where
  <2> QED
    BY <2>1, <2>2
<1> QED
  BY <1>1, <1>2, <1>3, <1>4, <1>5

LEMMA AddInFront ==
  ASSUME NEW n, NEW S, NEW E, NEW S2, NEW E2,
         NEW p \in Nat, NEW g \in Nat, NEW w \in Nat, NEW a \in Nat, NEW tot \in Nat,
         Spans(n, S, E), Layout(n, S, E, p, g, w, a),
         Grown(n, S, E, S2, E2, 0, tot),
         tot >= 2, tot <= a, p + tot > MemSize, tot <= g
  PROVE  /\ Layout(n + 1, S2, E2, tot, g, p, g - tot)
         /\ \A i \in 1 .. n : E[i] <= 0 \/ tot <= S[i]
<1>a. n \in Nat /\ S \in [1 .. n -> Nat] /\ E \in [1 .. n -> Nat]
  BY DEF Spans
<1>b. \A i \in 1 .. n : S[i] + 2 <= E[i]
  BY DEF Spans
<1>c. S2 \in [1 .. n + 1 -> Nat] /\ E2 \in [1 .. n + 1 -> Nat]
  BY DEF Grown
<1>d. \A i \in 1 .. n : S2[i] = S[i] /\ E2[i] = E[i]
  BY DEF Grown
<1>e. S2[n + 1] = 0 /\ E2[n + 1] = tot
  BY DEF Grown
<1> USE <1>a, <1>b, <1>c, <1>d, <1>e, MemConstants DEF Layout, Behind, LiesInFront
<1>0. n > 0 /\ w = 0 /\ g < p
  BY DEF Pointers
<1>1. Pointers(n + 1, tot, g, p, g - tot)
  BY <1>0 DEF Pointers
<1>2. \A i \in 1 .. n : E[i] <= 0 \/ tot <= S[i]
  BY <1>0 DEF Pointers, Where
<1>3. Where(n + 1, S2, E2, tot, g, p)
  <2> SUFFICES ASSUME NEW i \in 1 .. n + 1
               PROVE  Behind(S2[i], E2[i], tot, g, p) \/ LiesInFront(E2[i], tot, p)
    BY DEF Where
  <2>1. CASE i \in 1 .. n
    <3>1. S2[i] = S[i] /\ E2[i] = E[i] /\ S[i] \in Nat /\ E[i] \in Nat
      BY <2>1
    <3>2. Behind(S[i], E[i], p, g, w) \/ LiesInFront(E[i], p, w)
      BY <2>1 DEF Where
    <3> QED
      BY <1>0, <3>1, <3>2 DEF Pointers
  <2>2. CASE i = n + 1
    BY <1>0, <2>2 DEF Pointers
  <2> QED
    BY <2>1, <2>2
<1>4. Adjacent(n + 1, S2, E2, tot, g, p)
  <2>1. S2[1] = g /\ E2[n + 1] = tot
    <3>1. CASE n = 0
      BY <1>0, <3>1 DEF Pointers
    <3>2. CASE n > 0
      <4>1. 1 \in 1 .. n
        BY <3>2
      <4> QED
        BY <3>2, <4>1 DEF Adjacent
    <3> QED
      BY <3>1, <3>2
  <2>2. ASSUME NEW i \in 1 .. n
        PROVE  S2[i + 1] = E2[i] \/ (p # 0 /\ E2[i] = p /\ S2[i + 1] = 0)
    <3>1. E2[i] = E[i]
      OBVIOUS
    <3>2. CASE i = n
      BY <1>0, <3>1, <3>2 DEF Adjacent, Pointers
    <3>3. CASE i # n
      <4>1. i \in 1 .. n - 1 /\ i + 1 \in 1 .. n
        BY <3>3
      <4>2. S2[i + 1] = S[i + 1]
        BY <4>1
      <4>3. S[i + 1] = E[i] \/ (w # 0 /\ E[i] = w /\ S[i + 1] = 0)
        BY <4>1 DEF Adjacent
      <4> QED
        BY <1>0, <3>1, <4>2, <4>3
    <3> QED
      BY <3>2, <3>3
  <2> QED
    BY <2>1, <2>2 DEF Adjacent
<1>5. Ordered(n + 1, S2, E2, tot, g, p)
  <2> SUFFICES ASSUME NEW i \in 1 .. n, NEW j \in 1 .. n + 1, i < j
               PROVE  E2[i] <= S2[j] \/ (LiesInFront(E2[j], tot, p) /\ g <= S2[i])
    <3>1. \A i, j \in 1 .. n + 1 : i < j => i \in 1 .. n
      OBVIOUS
    <3> QED
      BY <3>1 DEF Ordered
  <2>1. CASE j \in 1 .. n
    BY <1>0, <2>1 DEF Ordered
  <2>2. CASE j = n + 1
    BY <1>0, <2>2, SMTT(20) DEF Where
  <2> QED
    BY <2>1, <2>2
<1> QED
  BY <1>1, <1>2, <1>3, <1>4, <1>5

(* The layout without its oldest block.                                    *)
LEMMA RemoveOldest ==
  ASSUME NEW n, NEW S, NEW E, NEW S2, NEW E2,
         NEW p \in Nat, NEW g \in Nat, NEW w \in Nat, NEW a \in Nat,
         NEW g2 \in Nat, NEW w2 \in Nat,
         Spans(n, S, E), Layout(n, S, E, p, g, w, a), Shrunk(n, S, E, S2, E2), n > 0,
         IF w # 0 /\ E[1] = w THEN g2 = 0 /\ w2 = 0 ELSE g2 = E[1] /\ w2 = w
  PROVE  /\ g2 <= MemSize
         /\ g2 = p => n = 1 /\ w2 = 0
         /\ g2 # p => Layout(n - 1, S2, E2, p, g2, w2, Available(p, g2))
<1> USE MemConstants DEF Layout, Behind, LiesInFront, Spans, Shrunk
<1>1. S[1] = g /\ E[1] <= MemSize /\ (w # 0 => E[1] <= w /\ g < E[1])
  BY DEF Pointers, Where, Adjacent
<1>2. \A j \in 1 .. n : j > 1 => S[j] >= E[1] \/ (w # 0 /\ E[j] <= p)
  BY DEF Ordered
<1>0. \A i \in 1 .. n - 1 :
        /\ i + 1 \in 1 .. n /\ i + 1 > 1
        /\ S2[i] = S[i + 1] /\ E2[i] = E[i + 1]
        /\ S[i + 1] \in Nat /\ E[i + 1] \in Nat /\ S[i + 1] + 2 <= E[i + 1]
  <2> TAKE i \in 1 .. n - 1
  <2>1. i + 1 \in 1 .. n /\ i + 1 > 1
    OBVIOUS
  <2>2. \A k \in 1 .. n : S[k] \in Nat /\ E[k] \in Nat /\ S[k] + 2 <= E[k]
    OBVIOUS
  <2>3. S2[i] = S[i + 1] /\ E2[i] = E[i + 1]
    OBVIOUS
  <2> QED
    BY <2>1, <2>2, <2>3
<1>3. CASE w # 0 /\ E[1] = w
  <2>1. g2 = 0 /\ w2 = 0 /\ p > 0 /\ n > 1
    BY <1>1, <1>3 DEF Pointers, Adjacent
  <2>2. \A j \in 1 .. n : j > 1 => E[j] <= p
    BY <1>2, <1>3, SMTT(20) DEF Pointers, Where
  <2>3. S[2] = 0
    BY <1>1, <1>3, <2>1, <2>2 DEF Pointers, Adjacent
  <2>4. Pointers(n - 1, p, g2, w2, Available(p, g2))
    BY <1>3, <2>1 DEF Pointers, Available
  <2>5. Where(n - 1, S2, E2, p, g2, w2)
    <3> SUFFICES ASSUME NEW i \in 1 .. n - 1 PROVE g2 <= S2[i] /\ E2[i] <= p
      BY <2>1 DEF Where
    <3> QED
      BY <1>0, <2>1, <2>2, SMTT(20)
  <2>6. Adjacent(n - 1, S2, E2, p, g2, w2)
    <3>1. S2[1] = g2 /\ E2[n - 1] = p
      BY <1>0, <2>1, <2>3 DEF Adjacent
    <3>2. ASSUME NEW i \in 1 .. n - 2 PROVE S2[i + 1] = E2[i]
      <4>1. i + 1 \in 1 .. n - 1 /\ i + 1 > 1
        OBVIOUS
      <4>2. S[(i + 1) + 1] = E[i + 1] \/ E[i + 1] = w
        BY <4>1 DEF Adjacent
      <4>3. i + 1 \in 1 .. n
        BY <4>1
      <4>4. E[i + 1] <= p /\ p < w
        BY <1>3, <2>2, <4>1, <4>3 DEF Pointers
      <4>5. E[i + 1] # w
        BY <4>3, <4>4
      <4> QED
        BY <1>0, <4>1, <4>2, <4>5
    <3> QED
      BY <3>1, <3>2 DEF Adjacent
  <2>7. Ordered(n - 1, S2, E2, p, g2, w2)
    <3> SUFFICES ASSUME NEW i \in 1 .. n - 1, NEW j \in 1 .. n - 1, i < j
                 PROVE  E2[i] <= S2[j]
      BY DEF Ordered
    <3>0. i + 1 \in 1 .. n /\ j + 1 \in 1 .. n /\ i + 1 > 1 /\ i + 1 < j + 1
      OBVIOUS
    <3>1. E[i + 1] <= S[j + 1] \/ g <= S[i + 1]
      BY <3>0 DEF Ordered
    <3>2. E[i + 1] <= p /\ p <= g
      BY <1>3, <2>2, <3>0 DEF Pointers
    <3>3. S[i + 1] \in Nat /\ E[i + 1] \in Nat /\ S[i + 1] + 2 <= E[i + 1]
      BY <1>0
    <3>4. E[i + 1] <= S[j + 1]
      <4> DEFINE s == S[i + 1]
                 e == E[i + 1]
      <4>1. ~(g <= s)
        <5>1. s \in Nat /\ e \in Nat /\ s + 2 <= e /\ e <= p /\ p <= g
          BY <3>2, <3>3
        <5> HIDE DEF s, e
        <5> QED
          BY <5>1
      <4> QED
        BY <3>1, <4>1
    <3>5. E2[i] = E[i + 1] /\ S2[j] = S[j + 1]
      BY <1>0
    <3> QED
      BY <3>4, <3>5
  <2> QED
    BY <2>1, <2>4, <2>5, <2>6, <2>7
<1>4. CASE ~(w # 0 /\ E[1] = w)
  <2>1. g2 = E[1] /\ w2 = w
    BY <1>4
  <2>2. g2 = p => n = 1 /\ w = 0
    BY <1>1, <1>2, <2>1 DEF Pointers, Where
  <2>3. ASSUME g2 # p PROVE Layout(n - 1, S2, E2, p, g2, w2, Available(p, g2))
    <3>1. n > 1 /\ S[2] = E[1]
      BY <1>4, <2>1, <2>3 DEF Adjacent
    <3>2. Pointers(n - 1, p, g2, w2, Available(p, g2))
      <4>1. CASE w = 0
        <5>1. E[1] <= p
          BY <4>1 DEF Where
        <5> QED
          BY <2>1, <2>3, <3>1, <4>1, <5>1 DEF Pointers, Available
      <4>2. CASE w # 0
        <5>1. p <= g /\ g < E[1] /\ E[1] < w /\ 0 < p /\ w <= MemSize
          BY <1>1, <1>4, <4>2 DEF Pointers
        <5> QED
          BY <2>1, <3>1, <4>2, <5>1, SMTT(20) DEF Pointers, Available
      <4> QED
        BY <4>1, <4>2
    <3>3. Where(n - 1, S2, E2, p, g2, w2)
      <4> SUFFICES ASSUME NEW i \in 1 .. n - 1
                   PROVE  Behind(S2[i], E2[i], p, g2, w2) \/ LiesInFront(E2[i], p, w2)
        BY DEF Where
      <4>1. Behind(S[i + 1], E[i + 1], p, g, w) \/ LiesInFront(E[i + 1], p, w)
        BY <1>0 DEF Where
      <4>2. S[i + 1] >= E[1] \/ LiesInFront(E[i + 1], p, w)
        <5>1. i + 1 \in 1 .. n /\ i + 1 > 1
          OBVIOUS
        <5> QED
          BY <1>2, <5>1
      <4> QED
        BY <1>0, <2>1, <4>1, <4>2
    <3>4. Adjacent(n - 1, S2, E2, p, g2, w2)
      <4>1. S2[1] = g2 /\ E2[n - 1] = p
        BY <1>0, <2>1, <3>1 DEF Adjacent
      <4>2. ASSUME NEW i \in 1 .. n - 2
            PROVE  S2[i + 1] = E2[i] \/ (w # 0 /\ E2[i] = w /\ S2[i + 1] = 0)
        <5>1. i + 1 \in 1 .. n - 1
          OBVIOUS
        <5>2. S[(i + 1) + 1] = E[i + 1] \/ (w # 0 /\ E[i + 1] = w /\ S[(i + 1) + 1] = 0)
          BY <5>1 DEF Adjacent
        <5>3. S2[i + 1] = S[(i + 1) + 1] /\ E2[i] = E[i + 1]
          <6>1. i \in 1 .. n - 1
            OBVIOUS
          <6> QED
            BY <1>0, <5>1, <6>1
        <5> QED
          BY <5>2, <5>3
      <4> QED
        BY <2>1, <4>1, <4>2 DEF Adjacent
    <3>5. Ordered(n - 1, S2, E2, p, g2, w2)
      <4> SUFFICES ASSUME NEW i \in 1 .. n - 1, NEW j \in 1 .. n - 1, i < j
                   PROVE  E2[i] <= S2[j] \/ (LiesInFront(E2[j], p, w2) /\ g2 <= S2[i])
        BY DEF Ordered
      <4>0. i + 1 \in 1 .. n /\ j + 1 \in 1 .. n /\ i + 1 > 1 /\ i + 1 < j + 1
        OBVIOUS
      <4>1. E[i + 1] <= S[j + 1] \/ (LiesInFront(E[j + 1], p, w) /\ g <= S[i + 1])
        BY <4>0 DEF Ordered
      <4>2. S[i + 1] >= E[1] \/ (w # 0 /\ E[i + 1] <= p)
        BY <1>2, <4>0
      <4>3. w # 0 => p <= g
        BY DEF Pointers
      <4>4. S[i + 1] \in Nat /\ E[i + 1] \in Nat /\ S[i + 1] + 2 <= E[i + 1]
        BY <1>0
      <4>5. /\ E2[i] = E[i + 1] /\ E2[j] = E[j + 1]
            /\ S2[i] = S[i + 1] /\ S2[j] = S[j + 1]
        BY <1>0
      <4> QED
        <5>1. CASE E[i + 1] <= S[j + 1]
          BY <4>5, <5>1
        <5>2. CASE LiesInFront(E[j + 1], p, w) /\ g <= S[i + 1]
          <6>1. S[i + 1] >= E[1]
            <7> DEFINE s == S[i + 1]
                       e == E[i + 1]
            <7>1. s \in Nat /\ e \in Nat /\ s + 2 <= e /\ g <= s
              BY <4>4, <5>2
            <7>2. (w # 0 /\ e <= p) => p <= g
              BY <4>3
            <7>3. s >= E[1] \/ (w # 0 /\ e <= p)
              BY <4>2
            <7> HIDE DEF s, e
            <7>4. ~(w # 0 /\ e <= p)
              BY <7>1, <7>2
            <7>5. s >= E[1]
              BY <7>3, <7>4
            <7> QED
              BY <7>5 DEF s
          <6>2. E[1] \in Nat /\ E[1] <= S[i + 1]
            BY <4>4, <6>1
          <6> QED
            BY <2>1, <4>5, <5>2, <6>2
        <5> QED
          BY <4>1, <5>1, <5>2
    <3> QED
      BY <3>2, <3>3, <3>4, <3>5
  <2> QED
    BY <1>1, <2>1, <2>2, <2>3
<1> QED
  BY <1>3, <1>4

-----------------------------------------------------------------------------
Entry == [at : Mem, block : BlockOf]
MemByte == [block : BlockOf, off : Nat] \cup {NullPtr}

LEMMA EntryType ==
  ASSUME NEW x \in Entry
  PROVE  /\ x.at \in Mem /\ x.at \in Nat
         /\ x.block \in BlockOf /\ x.block.len \in Nat
<1>1. x.at \in Mem /\ x.block \in BlockOf
  BY DEF Entry
<1> QED
  BY <1>1, MemConstants

LEMMA FifoType ==
  ASSUME NEW f \in Seq(Entry)
  PROVE  /\ Len(f) \in Nat
         /\ f = << >> <=> Len(f) = 0
         /\ \A i \in 1 .. Len(f) : f[i] \in Entry
         /\ Starts(f) \in [1 .. Len(f) -> Nat]
         /\ Ends(f) \in [1 .. Len(f) -> Nat]
         /\ \A i \in 1 .. Len(f) :
              /\ Starts(f)[i] = f[i].at
              /\ Ends(f)[i] = f[i].at + BlockHeader + f[i].block.len
              /\ Starts(f)[i] + 2 <= Ends(f)[i]
         /\ Spans(Len(f), Starts(f), Ends(f))
<1>1. Len(f) \in Nat /\ (f = << >> <=> Len(f) = 0)
  BY EmptySeq
<1>2. \A i \in 1 .. Len(f) : f[i] \in Entry
  BY ElementOfSeq
<1>3. \A i \in 1 .. Len(f) : f[i].at \in Nat /\ f[i].block.len \in Nat
  BY <1>2, EntryType
<1>4. Starts(f) \in [1 .. Len(f) -> Nat]
  BY <1>3 DEF Starts
<1>5. Ends(f) \in [1 .. Len(f) -> Nat]
  BY <1>3, MemConstants DEF Ends
<1>6. \A i \in 1 .. Len(f) : /\ Starts(f)[i] = f[i].at
                             /\ Ends(f)[i] = f[i].at + BlockHeader + f[i].block.len
  BY DEF Starts, Ends
<1>7. \A i \in 1 .. Len(f) : Starts(f)[i] + 2 <= Ends(f)[i]
  <2> TAKE i \in 1 .. Len(f)
  <2> DEFINE s == f[i].at
             l == f[i].block.len
  <2>1. s \in Nat /\ l \in Nat
    BY <1>3
  <2>2. Starts(f)[i] = s /\ Ends(f)[i] = s + 2 + l
    BY <1>6, MemConstants
  <2> HIDE DEF s, l
  <2> QED
    BY <2>1, <2>2
<1> QED
  BY <1>1, <1>2, <1>4, <1>5, <1>6, <1>7 DEF Spans

(* A block added to the sequence, and the oldest one taken from it.        *)
IsAdded(f, x, f2) ==
  /\ f2 \in Seq(Entry) /\ Len(f2) = Len(f) + 1
  /\ \A i \in 1 .. Len(f) : f2[i] = f[i]
  /\ f2[Len(f) + 1] = x

IsRemoved(f, f2) ==
  /\ f2 \in Seq(Entry) /\ Len(f2) = Len(f) - 1
  /\ \A i \in 1 .. Len(f) - 1 : f2[i] = f[i + 1]

LEMMA AppendAdds ==
  ASSUME NEW f \in Seq(Entry), NEW x \in Entry
  PROVE  IsAdded(f, x, Append(f, x))
  BY DEF IsAdded

LEMMA TailRemoves ==
  ASSUME NEW f \in Seq(Entry), f # << >>
  PROVE  IsRemoved(f, Tail(f))
  BY HeadTailProperties, LenProperties DEF IsRemoved

LEMMA Added ==
  ASSUME NEW f \in Seq(Entry), NEW x \in Entry, NEW f2, IsAdded(f, x, f2)
  PROVE  Grown(Len(f), Starts(f), Ends(f), Starts(f2), Ends(f2),
               x.at, x.at + BlockHeader + x.block.len)
<1>1. Len(f) \in Nat /\ Len(f2) = Len(f) + 1 /\ f2 \in Seq(Entry)
  BY FifoType DEF IsAdded
<1>2. \A i \in 1 .. Len(f) : i \in 1 .. Len(f2)
  BY <1>1
<1>3. Len(f) + 1 \in 1 .. Len(f2)
  BY <1>1
<1>4. \A i \in 1 .. Len(f) :
         Starts(f2)[i] = Starts(f)[i] /\ Ends(f2)[i] = Ends(f)[i]
  BY <1>2 DEF IsAdded, Starts, Ends
<1>5. Starts(f2)[Len(f) + 1] = x.at /\ Ends(f2)[Len(f) + 1] = x.at + BlockHeader + x.block.len
  BY <1>3 DEF IsAdded, Starts, Ends
<1>6. Starts(f2) \in [1 .. Len(f2) -> Nat] /\ Ends(f2) \in [1 .. Len(f2) -> Nat]
  BY <1>1, FifoType
<1> QED
  BY <1>1, <1>4, <1>5, <1>6 DEF Grown

LEMMA Removed ==
  ASSUME NEW f \in Seq(Entry), f # << >>, NEW f2, IsRemoved(f, f2)
  PROVE  Shrunk(Len(f), Starts(f), Ends(f), Starts(f2), Ends(f2))
<1>1. Len(f) \in Nat /\ Len(f2) = Len(f) - 1 /\ f2 \in Seq(Entry)
  BY FifoType DEF IsRemoved
<1>2. \A i \in 1 .. Len(f) - 1 : i \in 1 .. Len(f2) /\ i + 1 \in 1 .. Len(f)
  BY <1>1
<1>3. \A i \in 1 .. Len(f) - 1 :
         Starts(f2)[i] = Starts(f)[i + 1] /\ Ends(f2)[i] = Ends(f)[i + 1]
  BY <1>2 DEF IsRemoved, Starts, Ends
<1>4. Starts(f2) \in [1 .. Len(f2) -> Nat] /\ Ends(f2) \in [1 .. Len(f2) -> Nat]
  BY <1>1, FifoType
<1> QED
  BY <1>1, <1>3, <1>4 DEF Shrunk

(* Writing a block that is clear of the others leaves them whole.          *)
LEMMA WrittenWhole ==
  ASSUME NEW f \in Seq(Entry), NEW m \in [Mem -> MemByte],
         \A i \in 1 .. Len(f) : Holds(m, f[i].at, f[i].block),
         NEW x \in Entry, NEW m2, NEW f2, IsAdded(f, x, f2),
         m2 = [o \in Mem |-> IF o \in Bytes(x.at, x.block)
                             THEN [block |-> x.block, off |-> o - x.at] ELSE m[o]],
         x.at + BlockHeader + x.block.len <= MemSize,
         \A i \in 1 .. Len(f) : \/ Ends(f)[i] <= x.at
                                \/ x.at + BlockHeader + x.block.len <= Starts(f)[i]
  PROVE  /\ m2 \in [Mem -> MemByte]
         /\ \A i \in 1 .. Len(f2) : Holds(m2, f2[i].at, f2[i].block)
<1>1. x.at \in Nat /\ x.block.len \in Nat /\ x.block \in BlockOf
  BY EntryType
<1>2. \A o \in Bytes(x.at, x.block) : o \in Mem /\ o - x.at \in Nat
  <2> DEFINE s == x.at
             l == x.block.len
  <2>1. s \in Nat /\ l \in Nat /\ s + 2 + l <= MemSize
    BY <1>1, MemConstants
  <2>2. Bytes(x.at, x.block) = s .. s + 2 + l - 1
    BY MemConstants DEF Bytes
  <2> HIDE DEF s, l
  <2>3. \A o \in s .. s + 2 + l - 1 : o \in Mem /\ o - s \in Nat
    BY <2>1, MemConstants DEF Mem
  <2> QED
    BY <2>2, <2>3 DEF s
<1>3. m2 \in [Mem -> MemByte]
  <2>1. \A o \in Bytes(x.at, x.block) : [block |-> x.block, off |-> o - x.at] \in MemByte
    BY <1>1, <1>2 DEF MemByte
  <2> QED
    BY <2>1
<1>4. Holds(m2, x.at, x.block)
  BY <1>2 DEF Holds
<1>5. ASSUME NEW i \in 1 .. Len(f) PROVE Holds(m2, f[i].at, f[i].block)
  <2>1. f[i].at \in Nat /\ f[i].block.len \in Nat
    BY FifoType, EntryType
  <2>2. \/ f[i].at + BlockHeader + f[i].block.len <= x.at
        \/ x.at + BlockHeader + x.block.len <= f[i].at
    BY FifoType
  <2>3. \A o \in Bytes(f[i].at, f[i].block) : o \notin Bytes(x.at, x.block)
    <3> DEFINE s == x.at
               l == x.block.len
               t == f[i].at
               k == f[i].block.len
    <3>1. /\ s \in Nat /\ l \in Nat /\ t \in Nat /\ k \in Nat
          /\ t + 2 + k <= s \/ s + 2 + l <= t
      BY <1>1, <2>1, <2>2, MemConstants
    <3>2. /\ Bytes(x.at, x.block) = s .. s + 2 + l - 1
          /\ Bytes(f[i].at, f[i].block) = t .. t + 2 + k - 1
      BY MemConstants DEF Bytes
    <3> HIDE DEF s, l, t, k
    <3> QED
      BY <3>1, <3>2
  <2> QED
    BY <2>3 DEF Holds
<1>6. Len(f) \in Nat /\ Len(f2) = Len(f) + 1 /\ f2[Len(f) + 1] = x
  BY FifoType DEF IsAdded
<1>7. \A i \in 1 .. Len(f) : f2[i] = f[i]
  BY DEF IsAdded
<1>8. \A i \in 1 .. Len(f2) : i \in 1 .. Len(f) \/ i = Len(f) + 1
  BY <1>6
<1> QED
  BY <1>3, <1>4, <1>5, <1>6, <1>7, <1>8

-----------------------------------------------------------------------------
LEMMA MemTypeFacts ==
  ASSUME MemTypeOK
  PROVE  /\ fifo \in Seq(Entry) /\ mem \in [Mem -> MemByte]
         /\ put_ptr \in Nat /\ get_ptr \in Nat /\ wrap_ptr \in Nat /\ a_len \in Nat
  BY MemConstants DEF MemTypeOK, Entry, MemByte

LEMMA InitMemIInv == MemInit => MemIInv
<1> SUFFICES ASSUME MemInit PROVE MemIInv
  OBVIOUS
<1>1. fifo \in Seq(Entry) /\ Len(fifo) = 0
  BY EmptySeq DEF MemInit
<1>2. MemTypeOK
  BY <1>1, MemConstants DEF MemInit, MemTypeOK, Entry
<1>3. LayoutInv
  BY <1>1, MemConstants DEF MemInit, LayoutInv, Layout, Pointers, Where, Adjacent, Ordered
<1>4. BlocksIntact
  BY <1>1 DEF BlocksIntact
<1> QED
  BY <1>2, <1>3, <1>4 DEF MemIInv

LEMMA AllocBehindStep ==
  ASSUME MemIInv, NEW b \in BlockOf, AllocBehind(b)
  PROVE  MemIInv'
<1> DEFINE tot == b.len + BlockHeader
           x == [at |-> put_ptr, block |-> b]
<1>1. /\ tot \in Nat /\ tot >= 2 /\ tot <= a_len /\ put_ptr + tot <= MemSize
      /\ put_ptr' = put_ptr + tot /\ a_len' = a_len - tot
      /\ UNCHANGED <<get_ptr, wrap_ptr, held>> /\ Store(put_ptr, b)
  BY MemConstants DEF AllocBehind, FitsBehind
<1>2. MemTypeOK /\ LayoutInv /\ BlocksIntact
  BY DEF MemIInv
<1>3. /\ fifo \in Seq(Entry) /\ mem \in [Mem -> MemByte]
      /\ put_ptr \in Nat /\ get_ptr \in Nat /\ wrap_ptr \in Nat /\ a_len \in Nat
  BY <1>2, MemTypeFacts
<1>4. x \in Entry /\ x.at = put_ptr /\ x.block = b /\ IsAdded(fifo, x, fifo')
  <2>1. put_ptr \in Mem
    BY <1>1, <1>3, MemConstants DEF Mem
  <2> QED
    BY <1>1, <1>3, <2>1, AppendAdds DEF Entry, Store
<1> HIDE DEF x
<1>5. /\ fifo' \in Seq(Entry) /\ Len(fifo') = Len(fifo) + 1
      /\ Spans(Len(fifo), Starts(fifo), Ends(fifo))
  BY <1>3, <1>4, FifoType DEF IsAdded
<1>6. Grown(Len(fifo), Starts(fifo), Ends(fifo), Starts(fifo'), Ends(fifo'), put_ptr, put_ptr + tot)
  <2>1. x.at + BlockHeader + x.block.len = put_ptr + tot
    BY <1>3, <1>4, EntryType, MemConstants DEF tot
  <2> HIDE DEF tot
  <2> QED
    BY <1>3, <1>4, <2>1, Added
<1> HIDE DEF tot
<1>7. /\ Layout(Len(fifo) + 1, Starts(fifo'), Ends(fifo'), put_ptr + tot, get_ptr, wrap_ptr, a_len - tot)
      /\ \A i \in 1 .. Len(fifo) : Ends(fifo)[i] <= put_ptr \/ put_ptr + tot <= Starts(fifo)[i]
  BY <1>1, <1>2, <1>3, <1>5, <1>6, AddBehind DEF LayoutInv
<1>8. LayoutInv'
  BY <1>1, <1>5, <1>7 DEF LayoutInv
<1>9. mem' \in [Mem -> MemByte] /\ BlocksIntact'
  <2>1. x.at + BlockHeader + x.block.len = put_ptr + tot
    BY <1>3, <1>4, MemConstants DEF tot
  <2>2. mem' = [o \in Mem |-> IF o \in Bytes(x.at, x.block)
                              THEN [block |-> x.block, off |-> o - x.at] ELSE mem[o]]
    BY <1>1, <1>4 DEF Store
  <2> QED
    BY <1>1, <1>2, <1>3, <1>4, <1>7, <2>1, <2>2, WrittenWhole DEF BlocksIntact
<1>10. MemTypeOK'
  BY <1>1, <1>2, <1>3, <1>5, <1>9, MemConstants DEF MemTypeOK, Entry, MemByte
<1> QED
  BY <1>8, <1>9, <1>10 DEF MemIInv

LEMMA AllocWrapStep ==
  ASSUME MemIInv, NEW b \in BlockOf, AllocWrap(b)
  PROVE  MemIInv'
<1> DEFINE tot == b.len + BlockHeader
           x == [at |-> 0, block |-> b]
<1>1. /\ tot \in Nat /\ tot >= 2 /\ tot <= a_len /\ put_ptr + tot > MemSize /\ tot <= get_ptr
      /\ put_ptr' = tot /\ a_len' = get_ptr - tot /\ wrap_ptr' = put_ptr
      /\ UNCHANGED <<get_ptr, held>> /\ Store(0, b)
  BY MemConstants DEF AllocWrap, FitsInFront
<1>2. MemTypeOK /\ LayoutInv /\ BlocksIntact
  BY DEF MemIInv
<1>3. /\ fifo \in Seq(Entry) /\ mem \in [Mem -> MemByte]
      /\ put_ptr \in Nat /\ get_ptr \in Nat /\ wrap_ptr \in Nat /\ a_len \in Nat
  BY <1>2, MemTypeFacts
<1>4. x \in Entry /\ x.at = 0 /\ x.block = b /\ IsAdded(fifo, x, fifo')
  <2>1. 0 \in Mem
    BY MemConstants DEF Mem
  <2> QED
    BY <1>1, <1>3, <2>1, AppendAdds DEF Entry, Store
<1> HIDE DEF x
<1>5. /\ fifo' \in Seq(Entry) /\ Len(fifo') = Len(fifo) + 1
      /\ Spans(Len(fifo), Starts(fifo), Ends(fifo))
  BY <1>3, <1>4, FifoType DEF IsAdded
<1>6. Grown(Len(fifo), Starts(fifo), Ends(fifo), Starts(fifo'), Ends(fifo'), 0, tot)
  <2>1. x.at + BlockHeader + x.block.len = tot
    BY <1>3, <1>4, EntryType, MemConstants DEF tot
  <2> HIDE DEF tot
  <2> QED
    BY <1>3, <1>4, <2>1, Added
<1> HIDE DEF tot
<1>7. /\ Layout(Len(fifo) + 1, Starts(fifo'), Ends(fifo'), tot, get_ptr, put_ptr, get_ptr - tot)
      /\ \A i \in 1 .. Len(fifo) : Ends(fifo)[i] <= 0 \/ tot <= Starts(fifo)[i]
  BY <1>1, <1>2, <1>3, <1>5, <1>6, AddInFront DEF LayoutInv
<1>8. LayoutInv'
  BY <1>1, <1>5, <1>7 DEF LayoutInv
<1>9. mem' \in [Mem -> MemByte] /\ BlocksIntact'
  <2>1. x.at + BlockHeader + x.block.len = tot /\ tot <= MemSize
    BY <1>1, <1>2, <1>4, MemConstants, SMTT(20) DEF tot, MemTypeOK
  <2>2. mem' = [o \in Mem |-> IF o \in Bytes(x.at, x.block)
                              THEN [block |-> x.block, off |-> o - x.at] ELSE mem[o]]
    BY <1>1, <1>4 DEF Store
  <2> QED
    BY <1>1, <1>2, <1>3, <1>4, <1>7, <2>1, <2>2, WrittenWhole DEF BlocksIntact
<1>10. MemTypeOK'
  BY <1>1, <1>2, <1>3, <1>5, <1>9, MemConstants DEF MemTypeOK, Entry, MemByte
<1> QED
  BY <1>8, <1>9, <1>10 DEF MemIInv

(* The oldest block is at get_ptr, before the wrap.                        *)
LEMMA OldestAtGet ==
  ASSUME MemIInv, a_len # MemSize
  PROVE  /\ fifo # << >> /\ Len(fifo) > 0
         /\ fifo[1] \in Entry /\ fifo[1].at = get_ptr /\ get_ptr \in Mem
         /\ mem[get_ptr].block = fifo[1].block
         /\ ~AtWrap(get_ptr)
<1>1. /\ fifo \in Seq(Entry)
      /\ put_ptr \in Nat /\ get_ptr \in Nat /\ wrap_ptr \in Nat /\ a_len \in Nat
  BY MemTypeFacts DEF MemIInv
<1>2. fifo # << >> /\ Len(fifo) > 0 /\ 1 \in 1 .. Len(fifo)
  BY <1>1, FifoType DEF MemIInv, LayoutInv, Layout, Pointers
<1>3. fifo[1] \in Entry /\ fifo[1].at = get_ptr
  BY <1>1, <1>2, FifoType DEF MemIInv, LayoutInv, Layout, Adjacent
<1>4. get_ptr \in Mem
  BY <1>3, EntryType
<1>5. mem[get_ptr].block = fifo[1].block
  <2>1. fifo[1].at \in Bytes(fifo[1].at, fifo[1].block)
    BY <1>3, EntryType, MemConstants DEF Bytes
  <2>2. Holds(mem, fifo[1].at, fifo[1].block)
    BY <1>2 DEF MemIInv, BlocksIntact
  <2>3. mem[fifo[1].at] = [block |-> fifo[1].block, off |-> fifo[1].at - fifo[1].at]
    BY <2>1, <2>2 DEF Holds
  <2> QED
    BY <1>3, <2>3
<1>6. ~AtWrap(get_ptr)
  BY <1>1 DEF MemIInv, LayoutInv, Layout, Pointers, AtWrap
<1> QED
  BY <1>2, <1>3, <1>4, <1>5, <1>6

LEMMA MemGetStep ==
  ASSUME MemIInv, GetNextBlockPtr
  PROVE  MemIInv' /\ held' = IF fifo = << >> THEN NullPtr ELSE Head(fifo).at
<1>1. CASE a_len = MemSize
  <2>1. fifo = << >>
    <3>1. /\ fifo \in Seq(Entry)
          /\ put_ptr \in Nat /\ get_ptr \in Nat /\ wrap_ptr \in Nat /\ a_len \in Nat
      BY MemTypeFacts DEF MemIInv
    <3>2. Len(fifo) \in Nat /\ Pointers(Len(fifo), put_ptr, get_ptr, wrap_ptr, a_len)
      BY <3>1, FifoType DEF MemIInv, LayoutInv, Layout
    <3>3. Len(fifo) = 0
      BY <1>1, <3>1, <3>2, MemConstants DEF MemIInv, MemTypeOK, Pointers
    <3> QED
      BY <3>1, <3>3, FifoType
  <2> QED
    BY <1>1, <2>1
       DEF GetNextBlockPtr, MemIInv, MemTypeOK, LayoutInv, BlocksIntact, ptrVars
<1>2. CASE a_len # MemSize
  <2>1. UNCHANGED <<get_ptr, wrap_ptr, put_ptr, a_len, mem, fifo>> /\ held' = get_ptr
    BY <1>2, OldestAtGet DEF GetNextBlockPtr, Around, SetWrap
  <2> QED
    BY <1>2, <2>1, OldestAtGet DEF MemIInv, MemTypeOK, LayoutInv, BlocksIntact
<1> QED
  BY <1>1, <1>2

LEMMA MemFreeStep ==
  ASSUME MemIInv, FreeBlock
  PROVE  MemIInv'
<1> DEFINE n == Len(fifo)
           S == Starts(fifo)
           E == Ends(fifo)
           g2 == Around(E[1])
           w2 == IF AtWrap(E[1]) THEN 0 ELSE wrap_ptr
<1>1. /\ fifo \in Seq(Entry) /\ mem \in [Mem -> MemByte] /\ MemTypeOK /\ LayoutInv /\ BlocksIntact
      /\ put_ptr \in Nat /\ get_ptr \in Nat /\ wrap_ptr \in Nat /\ a_len \in Nat
  BY MemTypeFacts DEF MemIInv
<1>0. a_len # MemSize
  BY DEF FreeBlock
<1>2. fifo # << >> /\ n \in Nat /\ n > 0 /\ 1 \in 1 .. n /\ E[1] \in Nat
  <2>1. fifo # << >> /\ n \in Nat /\ n > 0
    BY <1>0, <1>1, OldestAtGet, FifoType
  <2>2. 1 \in 1 .. n
    BY <2>1
  <2> QED
    BY <1>1, <2>1, <2>2, FifoType
<1>3. get_ptr + mem[get_ptr].block.len + BlockHeader = E[1]
  <2> DEFINE l == fifo[1].block.len
             e == E[1]
  <2>1. e = fifo[1].at + BlockHeader + l
    BY <1>2 DEF Ends
  <2>2. fifo[1].at = get_ptr /\ mem[get_ptr].block.len = l /\ l \in Nat
    BY <1>0, OldestAtGet, EntryType
  <2> HIDE DEF l, e
  <2>3. get_ptr + l + BlockHeader = e
    BY <1>1, <2>1, <2>2, MemConstants
  <2> QED
    BY <2>2, <2>3 DEF e
<1>4. /\ wrap_ptr' = w2 /\ held' = NullPtr /\ fifo' = Tail(fifo) /\ mem' = mem
      /\ IF g2 = put_ptr THEN get_ptr' = 0 /\ put_ptr' = 0 /\ a_len' = MemSize
         ELSE get_ptr' = g2 /\ a_len' = Available(put_ptr, g2) /\ put_ptr' = put_ptr
  BY <1>3 DEF FreeBlock, SetWrap
<1>5. /\ fifo' \in Seq(Entry) /\ Len(fifo') = n - 1
      /\ \A i \in 1 .. n - 1 : fifo'[i] = fifo[i + 1]
  BY <1>1, <1>2, <1>4, TailRemoves DEF IsRemoved
<1>6. Spans(n, S, E) /\ Shrunk(n, S, E, Starts(fifo'), Ends(fifo'))
  <2>1. IsRemoved(fifo, fifo')
    BY <1>1, <1>2, <1>4, TailRemoves
  <2> QED
    BY <1>1, <1>2, <2>1, Removed, FifoType
<1>7. /\ g2 \in Nat /\ w2 \in Nat
      /\ IF wrap_ptr # 0 /\ E[1] = wrap_ptr THEN g2 = 0 /\ w2 = 0 ELSE g2 = E[1] /\ w2 = wrap_ptr
  BY <1>1, <1>2 DEF Around, AtWrap
<1> HIDE DEF n, S, E, g2, w2
<1>8. /\ g2 <= MemSize
      /\ g2 = put_ptr => n = 1 /\ w2 = 0
      /\ g2 # put_ptr => Layout(n - 1, Starts(fifo'), Ends(fifo'), put_ptr, g2, w2, Available(put_ptr, g2))
  <2>1. Layout(n, S, E, put_ptr, get_ptr, wrap_ptr, a_len)
    BY <1>1 DEF LayoutInv, n, S, E
  <2> QED
    BY <1>1, <1>2, <1>6, <1>7, <2>1, RemoveOldest
<1>9. LayoutInv'
  <2>1. CASE g2 = put_ptr
    <3>1. /\ Len(fifo') = 0 /\ wrap_ptr' = 0
          /\ get_ptr' = 0 /\ put_ptr' = 0 /\ a_len' = MemSize
      BY <1>4, <1>5, <1>8, <2>1
    <3> QED
      BY <3>1 DEF LayoutInv, Layout, Pointers, Where, Adjacent, Ordered
  <2>2. CASE g2 # put_ptr
    BY <1>4, <1>5, <1>8, <2>2 DEF LayoutInv
  <2> QED
    BY <2>1, <2>2
<1>10. BlocksIntact'
  <2>1. \A i \in 1 .. n - 1 : i + 1 \in 1 .. n
    BY <1>2
  <2>2. \A i \in 1 .. n : Holds(mem, fifo[i].at, fifo[i].block)
    BY <1>1 DEF BlocksIntact, n
  <2> QED
    BY <1>4, <1>5, <2>1, <2>2 DEF BlocksIntact
<1>11. MemTypeOK'
  <2>1. w2 \in 0 .. MemSize
    BY <1>1, MemConstants DEF w2, MemTypeOK
  <2>2. Available(put_ptr, g2) \in 0 .. MemSize
    BY <1>1, <1>7, <1>8, MemConstants DEF Available, MemTypeOK
  <2> QED
    BY <1>1, <1>4, <1>5, <1>7, <1>8, <2>1, <2>2, MemConstants DEF MemTypeOK, Entry
<1> QED
  BY <1>9, <1>10, <1>11 DEF MemIInv
-----------------------------------------------------------------------------
LEMMA StepMemIInv == MemIInv /\ [MemNext]_memVars => MemIInv'
<1> SUFFICES ASSUME MemIInv, [MemNext]_memVars PROVE MemIInv'
  OBVIOUS
<1>1. ASSUME NEW b \in BlockOf, AllocBehind(b) PROVE MemIInv'
  BY <1>1, AllocBehindStep
<1>2. ASSUME NEW b \in BlockOf, AllocWrap(b) PROVE MemIInv'
  BY <1>2, AllocWrapStep
<1>3. CASE UNCHANGED memVars
  BY <1>3 DEF memVars, ptrVars, MemIInv, MemTypeOK, LayoutInv, BlocksIntact
<1>4. ASSUME NEW b \in BlockOf, AllocRefused(b) PROVE MemIInv'
  BY <1>3, <1>4 DEF AllocRefused
<1>5. CASE GetNextBlockPtr
  BY <1>5, MemGetStep
<1>6. CASE FreeBlock
  BY <1>6, MemFreeStep
<1> QED
  BY <1>1, <1>2, <1>3, <1>4, <1>5, <1>6 DEF MemNext

(* Blocks lie in order between the pointers of struct ringmem, at every
   moment: the strengthening that the theorems below need.                 *)
THEOREM LayoutHolds == MemSpec => []MemIInv
  BY InitMemIInv, StepMemIInv, PTL DEF MemSpec

(* The pointers and a_len stay in their ranges, whatever is allocated and
   freed: none of the unsigned subtractions of ringmem.c wraps.            *)
THEOREM MemTypeCorrect == MemSpec => []MemTypeOK
<1>1. MemIInv => MemTypeOK
  BY DEF MemIInv
<1> QED
  BY <1>1, LayoutHolds, PTL

(* In a ring of any size up to RINGMEM_NOM_MAXSIZE, with blocks of any
   lengths, ringmem_alloc never writes over a block that was not freed.    *)
THEOREM NeverOverwritten == MemSpec => [](MemTypeOK /\ BlocksIntact)
<1>1. MemIInv => MemTypeOK /\ BlocksIntact
  BY DEF MemIInv
<1> QED
  BY <1>1, LayoutHolds, PTL

(* ringmem_get_next_block_ptr returns the oldest block, past every wrap,
   and null only when there is none.                                       *)
THEOREM GetsTheOldest == MemSpec => OldestFirst
<1>1. MemIInv /\ [MemNext]_memVars
        => [GetNextBlockPtr => held' = IF fifo = << >> THEN NullPtr ELSE Head(fifo).at]_memVars
  BY MemGetStep
<1> QED
  BY <1>1, LayoutHolds, PTL DEF MemSpec, OldestFirst

-----------------------------------------------------------------------------
(* The numbers behind NoRoomWasted: tot bytes from the end of the newest
   block, or from 0 when the blocks do not wrap, that are all in the array
   and clear of the first byte of the oldest block.                        *)
LEMMA RoomBehind ==
  ASSUME NEW n \in Nat, NEW p \in Nat, NEW g \in Nat, NEW w \in Nat, NEW a \in Nat,
         NEW tot \in Nat, n > 0, Pointers(n, p, g, w, a),
         p + tot <= MemSize, ~(p <= g /\ g < p + tot)
  PROVE  tot <= a
  BY MemConstants DEF Pointers

LEMMA RoomInFront ==
  ASSUME NEW n \in Nat, NEW p \in Nat, NEW g \in Nat, NEW w \in Nat, NEW a \in Nat,
         NEW s \in Nat, NEW tot \in Nat, n > 0, Pointers(n, p, g, w, a),
         s + 2 <= p, g <= s, tot <= g
  PROVE  tot <= a
  BY MemConstants DEF Pointers

LEMMA InvUsesRoom == MemIInv => NoRoomWasted
<1> SUFFICES ASSUME MemIInv, NEW b \in BlockOf, Room(b.len + BlockHeader)
             PROVE  FitsBehind(b.len + BlockHeader) \/ FitsInFront(b.len + BlockHeader)
  BY DEF NoRoomWasted
<1> DEFINE tot == b.len + BlockHeader
           n == Len(fifo)
           S == Starts(fifo)
           E == Ends(fifo)
<1>1. /\ fifo \in Seq(Entry) /\ put_ptr \in Nat /\ get_ptr \in Nat
      /\ wrap_ptr \in Nat /\ a_len \in Nat /\ put_ptr <= MemSize
  BY MemTypeFacts, MemConstants DEF MemIInv, MemTypeOK
<1>2. tot \in Nat /\ tot >= 2
  BY MemConstants
<1>3. Pointers(n, put_ptr, get_ptr, wrap_ptr, a_len)
  BY DEF MemIInv, LayoutInv, Layout
<1>4. Room(tot)
  OBVIOUS
<1>5. CASE fifo = << >>
  <2>1. tot <= MemSize
    BY <1>4, <1>5 DEF Room
  <2>2. put_ptr = 0 /\ a_len = MemSize
    BY <1>3, <1>5 DEF Pointers
  <2> HIDE DEF tot
  <2> QED
    BY <1>2, <2>1, <2>2, MemConstants DEF FitsBehind, tot
<1>6. CASE fifo # << >>
  <2>1. n \in Nat /\ n > 0 /\ 1 \in 1 .. n /\ n \in 1 .. n
    BY <1>1, <1>6, FifoType
  <2>2. /\ S[1] = get_ptr /\ E[n] = put_ptr /\ S[n] \in Nat /\ S[n] + 2 <= E[n]
        /\ S[1] = fifo[1].at /\ S[n] = fifo[n].at
        /\ E[n] = fifo[n].at + BlockHeader + fifo[n].block.len
    BY <1>1, <2>1, FifoType DEF MemIInv, LayoutInv, Layout, Adjacent
  <2>3. get_ptr \in Used
    <3>1. fifo[1].at \in Bytes(fifo[1].at, fifo[1].block)
      BY <1>1, <2>1, FifoType, EntryType, MemConstants DEF Bytes
    <3> QED
      BY <2>1, <2>2, <3>1 DEF Used
  <2>4. Head(fifo).at = get_ptr
    BY <1>1, <1>6, <2>2
  <2>5. \/ (put_ptr .. put_ptr + tot - 1) \subseteq Mem \ Used
        \/ fifo[n].at >= get_ptr /\ (0 .. tot - 1) \subseteq Mem \ Used
    BY <1>4, <1>6, <2>2, <2>4 DEF Room
  <2> HIDE DEF tot, n, S, E
  <2>6. CASE (put_ptr .. put_ptr + tot - 1) \subseteq Mem \ Used
    <3>1. put_ptr + tot - 1 \in Mem
      BY <1>1, <1>2, <2>6
    <3>2. put_ptr + tot <= MemSize
      BY <1>1, <1>2, <3>1, MemConstants DEF Mem
    <3>3. ~(put_ptr <= get_ptr /\ get_ptr < put_ptr + tot)
      BY <1>1, <1>2, <2>3, <2>6
    <3>4. tot <= a_len
      BY <1>1, <1>2, <1>3, <2>1, <3>2, <3>3, RoomBehind
    <3> QED
      BY <3>2, <3>4 DEF FitsBehind, tot
  <2>7. CASE fifo[n].at >= get_ptr /\ (0 .. tot - 1) \subseteq Mem \ Used
    <3>1. tot <= get_ptr
      BY <1>1, <1>2, <2>3, <2>7
    <3>2. S[n] + 2 <= put_ptr /\ get_ptr <= S[n]
      BY <1>1, <2>2, <2>7
    <3>3. tot <= a_len
      BY <1>1, <1>2, <1>3, <2>1, <2>2, <3>1, <3>2, RoomInFront
    <3>4. put_ptr + tot <= MemSize \/ put_ptr + tot > MemSize
      BY <1>1, <1>2, MemConstants
    <3> QED
      BY <3>1, <3>3, <3>4 DEF FitsBehind, FitsInFront, tot
  <2> QED
    BY <2>5, <2>6, <2>7
<1> QED
  BY <1>5, <1>6

(* ringmem_alloc refuses no block that fits in memory behind the newest
   one, or in front of the oldest: a_len, which is all it looks at, is
   never less than what is there (NoRoomWasted).                           *)
THEOREM RefusesOnlyWhenFull == MemSpec => []NoRoomWasted
  BY LayoutHolds, InvUsesRoom, PTL
=============================================================================
