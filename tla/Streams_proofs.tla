--------------------------- MODULE Streams_proofs ---------------------------
(***************************************************************************)
(* Proofs about Streams, for any number and size of cells.                 *)
(***************************************************************************)
EXTENDS Streams, FiniteSetTheorems, SequenceTheorems, NaturalsInduction,
        WellFoundedInduction, TLAPS

(***************************************************************************)
(* Numbers.                                                                *)
(***************************************************************************)
LEMMA Least ==
  ASSUME NEW T, T \subseteq Nat, T # {}
  PROVE  \E m \in T : \A n \in T : m <= n
<1> DEFINE R == {ss \in Nat \X Nat : ss[1] < ss[2]}
<1>1. OpToRel(<, Nat) = R
  BY DEF OpToRel
<1>2. IsWellFoundedOn(R, Nat)
  BY <1>1, NatLessThanWellFounded
<1>3. \A x, y \in Nat : <<x, y>> \in R <=> x < y
  OBVIOUS
<1> HIDE DEF R
<1>4. PICK m \in T : \A n \in T : <<n, m>> \notin R
  BY <1>2, WFMin
<1>5. ASSUME NEW n \in T PROVE m <= n
  <2>1. m \in Nat /\ n \in Nat
    OBVIOUS
  <2>2. <<n, m>> \notin R
    BY <1>4
  <2>3. ~ n < m
    BY <1>3, <2>1, <2>2
  <2> QED
    BY <2>1, <2>3
<1> QED
  BY <1>5

\* What holds of 0, and of n + 1 when of n, holds of every number up to k.
LEMMA Induction ==
  ASSUME NEW T, NEW k \in Nat, 0 \in T, \A n \in 0..k : n \in T /\ n < k => n + 1 \in T
  PROVE  0..k \subseteq T
<1> DEFINE N == (0..k) \ T
<1> SUFFICES ASSUME N # {} PROVE FALSE
  OBVIOUS
<1>1. PICK m \in N : \A n \in N : m <= n
  <2>1. N \subseteq Nat
    OBVIOUS
  <2> HIDE DEF N
  <2> QED
    BY <2>1, Least
<1>2. m \in 0..k /\ m \notin T /\ m # 0
  OBVIOUS
<1>3. m - 1 \in 0..k /\ m - 1 \notin N
  BY <1>1, <1>2
<1>4. m - 1 \in T
  BY <1>3
<1> QED
  BY <1>2, <1>3, <1>4

(***************************************************************************)
(* Extension cells.                                                        *)
(***************************************************************************)
\* The cells of r are linked in this order.
Chained(h, r) ==
  /\ r \in Seq(Cell) /\ r # <<>>
  /\ \A i, j \in 1..Len(r) : r[i] = r[j] => i = j
  /\ \A i \in 1..Len(r) : i < Len(r) => h.link[r[i]] = r[i + 1]

LEMMA LengthBound ==
  ASSUME NEW r \in Seq(Cell), \A i, j \in 1..Len(r) : r[i] = r[j] => i = j
  PROVE  Cardinality(Cell) \in Nat /\ Len(r) <= Cardinality(Cell)
<1>1. IsFiniteSet(Cell)
  BY StreamsAssumption
<1>2. r \in Injection(1..Len(r), Cell)
  BY LenProperties DEF Injection, IsInjective
<1>3. Cardinality(1..Len(r)) <= Cardinality(Cell)
  BY <1>1, <1>2, FS_Injection
<1>4. Cardinality(1..Len(r)) = Len(r)
  BY FS_Interval
<1> QED
  BY <1>1, <1>3, <1>4, FS_CardinalityType

LEMMA CellsAre ==
  ASSUME NEW h, NEW r, Chained(h, r), h.link[r[Len(r)]] \in {NULL, r[1]}
  PROVE  Cells(h, r[1]) = r
<1> DEFINE K == Cardinality(Cell)
           m(n) == IF n < Len(r) THEN n + 1 ELSE Len(r)
           f == [n \in 0..K |-> SubSeq(r, 1, m(n))]
           G(c) == IF h.link[Last(c)] \in {NULL, r[1]} THEN c
                   ELSE Append(c, h.link[Last(c)])
           W(g) == [n \in 0..K |-> IF n = 0 THEN <<r[1]>> ELSE G(g[n - 1])]
           walk == CHOOSE g : g = W(g)
<1>0. /\ r \in Seq(Cell) /\ Len(r) \in Nat \ {0}
      /\ \A i \in 1..Len(r) : r[i] \in Cell /\ r[i] # NULL
      /\ \A i \in 1..Len(r) : i # 1 => r[i] # r[1]
  BY StreamsAssumption DEF Chained
<1>1. K \in Nat /\ Len(r) <= K
  BY LengthBound DEF Chained
<1> HIDE DEF K
<1>2. \A n \in 1..Len(r) :
        /\ SubSeq(r, 1, n) \in Seq(Cell) /\ Len(SubSeq(r, 1, n)) = n
        /\ \A i \in 1..n : SubSeq(r, 1, n)[i] = r[i]
  <2> TAKE n \in 1..Len(r)
  <2>1. n \in Int /\ 1 <= n /\ \A i \in 1..n : r[i] \in Cell
    BY <1>0
  <2>2. /\ SubSeq(r, 1, n) \in Seq(Cell) /\ Len(SubSeq(r, 1, n)) = n - 1 + 1
        /\ \A i \in 1..n - 1 + 1 : SubSeq(r, 1, n)[i] = r[1 + i - 1]
    BY <2>1, SubSeqProperties
  <2>3. n - 1 + 1 = n /\ \A i \in 1..n : 1 + i - 1 = i
    BY <2>1
  <2> DEFINE p == SubSeq(r, 1, n)
  <2> HIDE DEF p
  <2>4. Len(p) = n
    BY <2>2, <2>3 DEF p
  <2>5. ASSUME NEW i \in 1..n PROVE p[i] = r[i]
    <3>1. p[i] = r[1 + i - 1]
      BY <2>2, <2>3 DEF p
    <3> QED
      BY <2>3, <3>1
  <2> QED
    BY <2>2, <2>4, <2>5 DEF p
<1>3. SubSeq(r, 1, 1) = <<r[1]>> /\ SubSeq(r, 1, Len(r)) = r
  <2>1. 1 \in 1..Len(r) /\ Len(r) \in 1..Len(r)
    BY <1>0
  <2>2. SubSeq(r, 1, 1)[1] = r[1] /\ Len(SubSeq(r, 1, 1)) = 1
        /\ SubSeq(r, 1, 1) \in Seq(Cell)
    BY <1>2, <2>1
  <2>3. SubSeq(r, 1, Len(r)) = r
    BY <1>0, SubSeqFull
  <2> DEFINE p == SubSeq(r, 1, 1)
             q == <<r[1]>>
  <2>4. q \in Seq(Cell) /\ Len(q) = 1 /\ q[1] = r[1]
    BY <1>0, <2>1
  <2>5. p \in Seq(Cell) /\ Len(p) = 1 /\ p[1] = r[1]
    BY <2>2
  <2> HIDE DEF p, q
  <2>6. p = q
    BY <2>4, <2>5, SeqEqual
  <2> QED
    BY <2>3, <2>6 DEF p, q
<1>4. ASSUME NEW n \in 1..Len(r), n < Len(r)
      PROVE  G(SubSeq(r, 1, n)) = SubSeq(r, 1, n + 1)
  <2>1. Last(SubSeq(r, 1, n)) = r[n]
    BY <1>2 DEF Last
  <2>2. h.link[r[n]] = r[n + 1] /\ n + 1 \in 1..Len(r)
    BY <1>4, <1>0 DEF Chained
  <2>3. r[n + 1] \notin {NULL, r[1]}
    BY <1>0, <2>2
  <2>4. Append(SubSeq(r, 1, n), r[n + 1]) = SubSeq(r, 1, n + 1)
    BY <1>0, <1>2, <2>2
  <2> QED
    BY <2>1, <2>2, <2>3, <2>4
<1>5. G(SubSeq(r, 1, Len(r))) = SubSeq(r, 1, Len(r))
  BY <1>3 DEF Last
<1>6. \A n \in 1..K : f[n] = G(f[n - 1])
  <2> TAKE n \in 1..K
  <2>1. f[n] = SubSeq(r, 1, m(n)) /\ f[n - 1] = SubSeq(r, 1, m(n - 1))
    BY <1>1
  <2>2. CASE n < Len(r)
    <3>1. m(n - 1) = n /\ m(n) = n + 1 /\ n \in 1..Len(r)
      BY <2>2, <1>0
    <3> HIDE DEF f, G, m
    <3> QED
      BY <2>1, <2>2, <3>1, <1>4
  <2>3. CASE ~ n < Len(r)
    <3>1. m(n - 1) = Len(r) /\ m(n) = Len(r)
      BY <2>3, <1>0
    <3> HIDE DEF f, G, m
    <3> QED
      BY <2>1, <3>1, <1>5
  <2> QED
    BY <2>2, <2>3
<1>7. f[0] = <<r[1]>> /\ f[K] = r
  <2>1. m(0) = 1 /\ m(K) = Len(r) /\ 0 \in 0..K /\ K \in 0..K
    BY <1>0, <1>1
  <2> QED
    BY <1>3, <2>1
<1>8. f = [n \in 0..K |-> f[n]]
  OBVIOUS
<1> HIDE DEF f, G, m
<1>9. f = W(f)
  <2>1. \A n \in 0..K : n # 0 => n \in 1..K
    BY <1>1
  <2> QED
    BY <1>6, <1>7, <1>8, <2>1
<1>10. walk = W(walk)
  <2> HIDE DEF W
  <2> QED
    BY <1>9
<1> HIDE DEF walk
<1> DEFINE T == {n \in 0..K : walk[n] = f[n]}
<1>11. walk[0] = <<r[1]>> /\ \A n \in 1..K : walk[n] = G(walk[n - 1])
  <2>1. 0 \in 0..K /\ \A n \in 1..K : n \in 0..K /\ n # 0
    BY <1>1
  <2> QED
    BY <1>10, <2>1
<1>12. 0 \in T
  BY <1>1, <1>7, <1>11
<1>13. \A n \in 0..K : n \in T /\ n < K => n + 1 \in T
  <2> TAKE n \in 0..K
  <2> HAVE n \in T /\ n < K
  <2>1. n + 1 \in 1..K /\ n + 1 \in 0..K /\ (n + 1) - 1 = n
    BY <1>1
  <2>2. walk[n + 1] = G(walk[n]) /\ f[n + 1] = G(f[n])
    BY <1>6, <1>11, <2>1
  <2> QED
    BY <2>1, <2>2
<1> HIDE DEF T
<1>14. 0..K \subseteq T
  BY <1>1, <1>12, <1>13, Induction
<1>15. walk[K] = r
  <2>1. K \in 0..K
    BY <1>1
  <2> QED
    BY <2>1, <1>14, <1>7 DEF T
<1> QED
  BY <1>15 DEF Cells, walk, W, G, K

(***************************************************************************)
(* Sequences of sequences.                                                 *)
(***************************************************************************)
\* The first sequences of s, one behind the other.
FlatTo(s, n, f) ==
  f = [i \in 1..n |-> IF i = 1 THEN s[i] ELSE f[i - 1] \o s[i]]

LEMMA FlatExists ==
  ASSUME NEW s, NEW n \in Nat
  PROVE  \E f : FlatTo(s, n, f)
<1> DEFINE T == {m \in 0..n : \E f : FlatTo(s, m, f)}
<1>1. 0 \in T
  <2> DEFINE f == [i \in 1..0 |-> i]
  <2>1. FlatTo(s, 0, f)
    BY DEF FlatTo
  <2> QED
    BY <2>1
<1>2. ASSUME NEW m \in 0..n, m \in T, m < n PROVE m + 1 \in T
  <2>1. PICK f : FlatTo(s, m, f)
    BY <1>2
  <2>2. \A i \in 1..m : f[i] = IF i = 1 THEN s[i] ELSE f[i - 1] \o s[i]
    BY <2>1 DEF FlatTo
  <2> DEFINE last == IF m = 0 THEN s[1] ELSE f[m] \o s[m + 1]
             g == [i \in 1..m + 1 |-> IF i <= m THEN f[i] ELSE last]
  <2>3. g[m + 1] = last /\ \A i \in 1..m : g[i] = f[i]
    <3>1. m + 1 \in 1..m + 1 /\ ~ m + 1 <= m /\ \A i \in 1..m : i \in 1..m + 1 /\ i <= m
      BY <1>2
    <3> HIDE DEF last
    <3> QED
      BY <3>1
  <2>4. ASSUME NEW i \in 1..m + 1
        PROVE  g[i] = IF i = 1 THEN s[i] ELSE g[i - 1] \o s[i]
    <3>1. CASE i \in 1..m
      <4>1. i = 1 \/ i - 1 \in 1..m
        BY <3>1
      <4> HIDE DEF g
      <4> QED
        BY <2>2, <2>3, <3>1, <4>1
    <3>2. CASE i = m + 1
      <4>1. i - 1 = m /\ (m = 0 <=> i = 1) /\ (m # 0 => m \in 1..m)
        BY <3>2, <1>2
      <4> HIDE DEF g
      <4>2. g[i] = last
        BY <2>3, <3>2
      <4>3. m # 0 => g[i - 1] = f[m]
        BY <2>3, <4>1
      <4> QED
        BY <3>2, <4>1, <4>2, <4>3
    <3> QED
      BY <3>1, <3>2
  <2>5. g = [i \in 1..m + 1 |-> g[i]]
    OBVIOUS
  <2>6. FlatTo(s, m + 1, g)
    <3> HIDE DEF g
    <3> QED
      BY <2>4, <2>5 DEF FlatTo
  <2>7. m + 1 \in 0..n
    BY <1>2
  <2> HIDE DEF g
  <2> QED
    BY <2>6, <2>7
<1> HIDE DEF T
<1>3. 0..n \subseteq T
  BY <1>1, <1>2, Induction
<1>4. n \in T
  BY <1>3
<1> QED
  BY <1>4 DEF T

LEMMA FlatUnique ==
  ASSUME NEW s, NEW t, NEW n \in Nat, NEW m \in Nat, n <= m, NEW f, NEW g,
         FlatTo(s, n, f), FlatTo(t, m, g), \A i \in 1..n : s[i] = t[i]
  PROVE  \A i \in 1..n : f[i] = g[i]
<1> DEFINE T == {k \in 0..n : k # 0 => f[k] = g[k]}
<1>1. \A i \in 1..n : f[i] = IF i = 1 THEN s[i] ELSE f[i - 1] \o s[i]
  BY DEF FlatTo
<1>2. \A i \in 1..m : g[i] = IF i = 1 THEN t[i] ELSE g[i - 1] \o t[i]
  BY DEF FlatTo
<1>3. 0 \in T
  OBVIOUS
<1>4. ASSUME NEW k \in 0..n, k \in T, k < n PROVE k + 1 \in T
  <2>1. k + 1 \in 1..n /\ k + 1 \in 1..m /\ (k + 1) - 1 = k /\ (k = 0 <=> k + 1 = 1)
        /\ k + 1 \in 0..n
    BY <1>4
  <2>2. k # 0 => f[k] = g[k]
    BY <1>4
  <2>3. f[k + 1] = g[k + 1]
    BY <1>1, <1>2, <2>1, <2>2
  <2> QED
    BY <2>1, <2>3
<1> HIDE DEF T
<1>5. 0..n \subseteq T
  BY <1>3, <1>4, Induction
<1>6. \A i \in 1..n : i \in 0..n /\ i # 0
  OBVIOUS
<1> QED
  BY <1>5, <1>6 DEF T

LEMMA FlattenIs ==
  ASSUME NEW s, Len(s) \in Nat, Len(s) # 0
  PROVE  \E f : FlatTo(s, Len(s), f) /\ FlattenSeq(s) = f[Len(s)]
<1> DEFINE W(f) == [i \in 1..Len(s) |-> IF i = 1 THEN s[i] ELSE f[i - 1] \o s[i]]
           flatten == CHOOSE f : f = W(f)
<1>1. PICK f : f = W(f)
  BY FlatExists DEF FlatTo
<1>2. flatten = W(flatten)
  <2> HIDE DEF W
  <2> QED
    BY <1>1
<1>3. FlattenSeq(s) = flatten[Len(s)]
  BY DEF FlattenSeq
<1>4. FlatTo(s, Len(s), flatten)
  <2> HIDE DEF flatten
  <2> QED
    BY <1>2 DEF FlatTo
<1> HIDE DEF flatten
<1> QED
  BY <1>3, <1>4

LEMMA FlattenEmpty ==
  ASSUME NEW s, Len(s) = 0 PROVE FlattenSeq(s) = s
BY DEF FlattenSeq

LEMMA FlattenType ==
  ASSUME NEW S, NEW s \in Seq(Seq(S))
  PROVE  FlattenSeq(s) \in Seq(S)
<1>0. Len(s) \in Nat /\ \A i \in 1..Len(s) : s[i] \in Seq(S)
  BY ElementOfSeq
<1>1. CASE Len(s) = 0
  <2>1. s = <<>> /\ <<>> \in Seq(S)
    BY <1>1
  <2> QED
    BY <1>1, <2>1, FlattenEmpty
<1>2. CASE Len(s) # 0
  <2>1. PICK f : FlatTo(s, Len(s), f) /\ FlattenSeq(s) = f[Len(s)]
    BY <1>0, <1>2, FlattenIs
  <2>2. \A i \in 1..Len(s) : f[i] = IF i = 1 THEN s[i] ELSE f[i - 1] \o s[i]
    BY <2>1 DEF FlatTo
  <2> DEFINE n == Len(s)
             T == {k \in 0..n : k # 0 => f[k] \in Seq(S)}
  <2>0. n \in Nat /\ n = Len(s)
    BY <1>0
  <2> HIDE DEF n
  <2>3. 0 \in T
    BY <2>0
  <2>4. ASSUME NEW k \in 0..n, k \in T, k < n PROVE k + 1 \in T
    <3>1. k + 1 \in 1..n /\ (k + 1) - 1 = k /\ (k = 0 <=> k + 1 = 1) /\ k + 1 \in 0..n
      BY <2>4, <2>0
    <3>2. f[k + 1] = IF k + 1 = 1 THEN s[k + 1] ELSE f[k] \o s[k + 1]
      BY <2>0, <2>2, <3>1
    <3>3. s[k + 1] \in Seq(S)
      BY <1>0, <2>0, <3>1
    <3>4. k # 0 => f[k] \in Seq(S)
      BY <2>4
    <3>5. k # 0 => f[k] \o s[k + 1] \in Seq(S)
      BY <3>3, <3>4, ConcatProperties
    <3>6. f[k + 1] \in Seq(S)
      BY <3>1, <3>2, <3>3, <3>5
    <3> QED
      BY <3>1, <3>6
  <2> HIDE DEF T
  <2>5. 0..n \subseteq T
    BY <2>0, <2>3, <2>4, Induction
  <2>6. n \in 0..n /\ n # 0
    BY <2>0, <1>2
  <2> QED
    BY <2>0, <2>1, <2>5, <2>6 DEF T
<1> QED
  BY <1>1, <1>2

LEMMA FlattenAppend ==
  ASSUME NEW S, NEW s \in Seq(Seq(S)), NEW e \in Seq(S)
  PROVE  FlattenSeq(Append(s, e)) = FlattenSeq(s) \o e
<1> DEFINE t == Append(s, e)
<1>0. /\ t \in Seq(Seq(S)) /\ Len(s) \in Nat /\ Len(t) = Len(s) + 1
      /\ \A i \in 1..Len(s) : t[i] = s[i]
      /\ t[Len(s) + 1] = e
  BY AppendProperties
<1> HIDE DEF t
<1>1. PICK g : FlatTo(t, Len(t), g) /\ FlattenSeq(t) = g[Len(t)]
  BY <1>0, FlattenIs
<1>2. \A i \in 1..Len(t) : g[i] = IF i = 1 THEN t[i] ELSE g[i - 1] \o t[i]
  BY <1>1 DEF FlatTo
<1>3. CASE Len(s) = 0
  <2>1. FlattenSeq(t) = e
    BY <1>0, <1>1, <1>2, <1>3
  <2>2. FlattenSeq(s) = s /\ s = <<>>
    BY <1>3, FlattenEmpty
  <2>3. <<>> \o e = e
    BY ConcatEmptySeq
  <2> QED
    BY <2>1, <2>2, <2>3 DEF t
<1>4. CASE Len(s) # 0
  <2>1. PICK f : FlatTo(s, Len(s), f) /\ FlattenSeq(s) = f[Len(s)]
    BY <1>0, <1>4, FlattenIs
  <2> DEFINE n == Len(s)
             m == Len(t)
  <2>2. n \in Nat /\ m = n + 1 /\ n # 0 /\ m \in Nat /\ n <= m
    BY <1>0, <1>4
  <2>3. FlatTo(s, n, f) /\ FlatTo(t, m, g) /\ \A i \in 1..n : s[i] = t[i]
    BY <1>0, <1>1, <2>1
  <2>4. FlattenSeq(t) = g[m] /\ FlattenSeq(s) = f[n] /\ t[m] = e
        /\ g[m] = IF m = 1 THEN t[m] ELSE g[m - 1] \o t[m]
    <3>1. m \in 1..Len(t)
      BY <2>2
    <3> QED
      BY <1>0, <1>1, <1>2, <2>1, <3>1
  <2> HIDE DEF n, m
  <2>5. f[n] = g[n]
    <3>1. n \in 1..n
      BY <2>2
    <3> QED
      BY <2>2, <2>3, <3>1, FlatUnique
  <2>6. m - 1 = n /\ m # 1
    BY <2>2
  <2> QED
    BY <2>4, <2>5, <2>6 DEF t
<1> QED
  BY <1>3, <1>4

(***************************************************************************)
(* Heaps.                                                                  *)
(***************************************************************************)
Contents == {b \in Seq(Data) : Len(b) <= Room}
Kept == SmallMessages \cup {Message(SysEx, d) : d \in Seq(Data)}
Heaps == [free : SUBSET Cell, ev : [Cell -> Kept \cup {NULL}],
          se : [Cell -> Cell \cup {NULL}], link : [Cell -> Cell \cup {NULL}],
          bytes : [Cell -> Contents]]

\* The cells of S are in g what they are in h.
Unchanged(h, g, S) ==
  \A x \in S : /\ g.ev[x] = h.ev[x] /\ g.se[x] = h.se[x]
               /\ g.link[x] = h.link[x] /\ g.bytes[x] = h.bytes[x]

\* The cells of T are taken from the free list, and only those of S are touched too.
Grown(h, g, S, T) ==
  /\ g \in Heaps /\ T \subseteq h.free /\ g.free = h.free \ T
  /\ Unchanged(h, g, Cell \ (S \cup T))

Ring(h, r) == Chained(h, r) /\ h.link[r[Len(r)]] = r[1]

\* The last cell has room for its count, the others have no room.
Packed(h, r) ==
  /\ Len(h.bytes[r[1]]) < Room
  /\ \A i \in 1..Len(r) : i > 1 => Len(h.bytes[r[i]]) = Room

Behind(h, r) == [i \in 1..Len(r) - 1 |-> h.bytes[r[i + 1]]]
Joined(h, r) == FlattenSeq(Behind(h, r)) \o h.bytes[r[1]]

RingOf(h, x, r, S) ==
  /\ Ring(h, r) /\ Packed(h, r)
  /\ h.se[x] = r[1] /\ h.ev[x].status = SysEx
  /\ x \notin ToSet(r) /\ S = {x} \cup ToSet(r)

\* The event of the header x, made of the cells of S, holds m.
Event(h, x, m, S) ==
  /\ x \in Cell
  /\ IF m.status = SysEx THEN \E r : RingOf(h, x, r, S) /\ Joined(h, r) = m.data
     ELSE S = {x} /\ h.ev[x] = m /\ h.se[x] = NULL

LEMMA Min1 ==
  ASSUME NEW T, T \subseteq Cell, T # {}
  PROVE  Min(T) \in T
<1>1. PICK m \in T : \A n \in T : m <= n
  BY Least, StreamsAssumption
<1> QED
  BY <1>1 DEF Min

LEMMA TakenIs ==
  ASSUME NEW h \in Heaps, h.free # {}
  PROVE  /\ Next1(h) \in h.free /\ Next1(h) \in Cell
         /\ Taken(h) \in Heaps /\ Taken(h).free = h.free \ {Next1(h)}
         /\ Taken(h).ev = h.ev /\ Taken(h).se = h.se
         /\ Taken(h).link = h.link /\ Taken(h).bytes = h.bytes
<1>1. h.free \subseteq Cell
  BY DEF Heaps
<1>2. Next1(h) \in h.free
  BY <1>1, Min1 DEF Next1
<1> QED
  BY <1>1, <1>2 DEF Taken, Heaps

LEMMA TwoTaken ==
  ASSUME NEW h \in Heaps, Cardinality(h.free) > 1
  PROVE  LET x == Next1(h)
             y == Next1(Taken(h))
             g == Taken(Taken(h))
         IN /\ x \in h.free /\ y \in h.free /\ x # y /\ x \in Cell /\ y \in Cell
            /\ g \in Heaps /\ g.free = h.free \ {x, y}
            /\ g.ev = h.ev /\ g.se = h.se /\ g.link = h.link /\ g.bytes = h.bytes
<1> DEFINE x == Next1(h)
           k == Taken(h)
<1>1. h.free \subseteq Cell /\ IsFiniteSet(h.free)
  BY StreamsAssumption, FS_Subset DEF Heaps
<1>2. h.free # {}
  BY FS_EmptySet
<1>3. /\ x \in h.free /\ x \in Cell
      /\ k \in Heaps /\ k.free = h.free \ {x}
      /\ k.ev = h.ev /\ k.se = h.se /\ k.link = h.link /\ k.bytes = h.bytes
  BY <1>2, TakenIs
<1> HIDE DEF x, k
<1>4. k.free # {}
  <2>1. Cardinality(h.free \ {x}) = Cardinality(h.free) - 1
    BY <1>1, <1>3, FS_RemoveElement
  <2>2. Cardinality(h.free) \in Nat
    BY <1>1, FS_CardinalityType
  <2> QED
    <3>1. Cardinality(k.free) # 0
      BY <2>1, <2>2, <1>3
    <3>2. Cardinality({}) = 0
      BY FS_EmptySet
    <3> QED
      BY <3>1, <3>2
<1>5. /\ Next1(k) \in k.free /\ Next1(k) \in Cell
      /\ Taken(k) \in Heaps /\ Taken(k).free = k.free \ {Next1(k)}
      /\ Taken(k).ev = k.ev /\ Taken(k).se = k.se
      /\ Taken(k).link = k.link /\ Taken(k).bytes = k.bytes
  BY <1>3, <1>4, TakenIs
<1>6. /\ x \in h.free /\ Next1(k) \in h.free /\ x # Next1(k)
      /\ x \in Cell /\ Next1(k) \in Cell
      /\ Taken(k) \in Heaps /\ Taken(k).free = h.free \ {x, Next1(k)}
      /\ Taken(k).ev = h.ev /\ Taken(k).se = h.se
      /\ Taken(k).link = h.link /\ Taken(k).bytes = h.bytes
  BY <1>3, <1>5
<1> QED
  BY <1>6 DEF x, k

LEMMA EventCells ==
  ASSUME NEW h, NEW x, NEW m, NEW S, Event(h, x, m, S)
  PROVE  x \in S /\ S \subseteq Cell
<1>1. CASE m.status # SysEx
  BY <1>1 DEF Event
<1>2. CASE m.status = SysEx
  <2>1. PICK r : RingOf(h, x, r, S)
    BY <1>2 DEF Event
  <2>2. r \in Seq(Cell) /\ S = {x} \cup ToSet(r) /\ x \in Cell
    BY <2>1 DEF RingOf, Ring, Chained, Event
  <2>3. ToSet(r) \subseteq Cell
    BY <2>2 DEF ToSet
  <2> QED
    BY <2>2, <2>3
<1> QED
  BY <1>1, <1>2

LEMMA RingFrame ==
  ASSUME NEW h, NEW g, NEW x, NEW r, NEW S, RingOf(h, x, r, S), Unchanged(h, g, S)
  PROVE  RingOf(g, x, r, S) /\ Joined(g, r) = Joined(h, r)
<1>1. /\ r \in Seq(Cell) /\ Len(r) \in Nat /\ Len(r) # 0
      /\ S = {x} \cup ToSet(r)
  BY DEF RingOf, Ring, Chained
<1>2. \A i \in 1..Len(r) : g.link[r[i]] = h.link[r[i]] /\ g.bytes[r[i]] = h.bytes[r[i]]
  <2>1. \A i \in 1..Len(r) : r[i] \in S
    BY <1>1 DEF ToSet
  <2> QED
    BY <2>1 DEF Unchanged
<1>3. g.se[x] = h.se[x] /\ g.ev[x] = h.ev[x]
  BY <1>1 DEF Unchanged
<1>4. 1 \in 1..Len(r) /\ Len(r) \in 1..Len(r) /\ \A i \in 1..Len(r) - 1 : i + 1 \in 1..Len(r)
  BY <1>1
<1>5. Ring(g, r)
  BY <1>2, <1>4 DEF RingOf, Ring, Chained
<1>6. Packed(g, r)
  BY <1>2, <1>4 DEF RingOf, Packed
<1>7. Behind(g, r) = Behind(h, r)
  BY <1>2, <1>4 DEF Behind
<1> QED
  BY <1>2, <1>3, <1>4, <1>5, <1>6, <1>7 DEF RingOf, Joined

LEMMA EventFrame ==
  ASSUME NEW h, NEW g, NEW x, NEW m, NEW S, Event(h, x, m, S), Unchanged(h, g, S)
  PROVE  Event(g, x, m, S)
<1>1. CASE m.status # SysEx
  <2>1. S = {x} /\ h.ev[x] = m /\ h.se[x] = NULL /\ x \in Cell
    BY <1>1 DEF Event
  <2>2. g.ev[x] = m /\ g.se[x] = NULL
    BY <2>1 DEF Unchanged
  <2> QED
    BY <1>1, <2>1, <2>2 DEF Event
<1>2. CASE m.status = SysEx
  <2>1. PICK r : RingOf(h, x, r, S) /\ Joined(h, r) = m.data
    BY <1>2 DEF Event
  <2>2. RingOf(g, x, r, S) /\ Joined(g, r) = m.data
    BY <2>1, RingFrame
  <2>3. x \in Cell
    BY DEF Event
  <2> QED
    BY <1>2, <2>2, <2>3 DEF Event
<1> QED
  BY <1>1, <1>2

\* The ring of an event is what Cells finds.
LEMMA RingCells ==
  ASSUME NEW h, NEW x, NEW r, NEW S, RingOf(h, x, r, S)
  PROVE  Cells(h, h.se[x]) = r /\ Content(h, x) = Joined(h, r)
<1>1. Cells(h, r[1]) = r
  BY CellsAre DEF RingOf, Ring
<1>2. h.se[x] = r[1]
  BY DEF RingOf
<1>3. Cells(h, h.se[x]) = r
  BY <1>1, <1>2
<1>4. Content(h, x) = Joined(h, r)
  BY <1>3 DEF Content, Joined, Behind
<1> QED
  BY <1>3, <1>4

(***************************************************************************)
(* New events, and events given back.                                      *)
(***************************************************************************)
LEMMA RoomIs == Room \in Nat /\ Room > 1
  BY StreamsAssumption

LEMMA NewSmallEvIs ==
  ASSUME NEW h \in Heaps, h.free # {}, h.se[Next1(h)] = NULL, NEW m \in SmallMessages
  PROVE  LET x == Next1(h)
         IN Grown(h, NewSmallEv(h, m), {}, {x}) /\ Event(NewSmallEv(h, m), x, m, {x})
<1> DEFINE x == Next1(h)
           k == Taken(h)
           g == [k EXCEPT !.ev[x] = m]
<1>1. /\ x \in h.free /\ x \in Cell
      /\ k \in Heaps /\ k.free = h.free \ {x}
      /\ k.ev = h.ev /\ k.se = h.se /\ k.link = h.link /\ k.bytes = h.bytes
  BY TakenIs
<1>2. NewSmallEv(h, m) = g
  BY DEF NewSmallEv
<1>3. h.se[x] = NULL
  OBVIOUS
<1> HIDE DEF x, k
<1>4. m \in Kept /\ m.status # SysEx
  BY DEF Kept, SmallMessages, Message, SysEx, NoteOn, ControlChg, Note, ProgramChg,
         MClock, Ctrl14b
<1>5. /\ g \in Heaps /\ g.free = k.free /\ g.se = k.se /\ g.link = k.link
      /\ g.bytes = k.bytes /\ g.ev[x] = m /\ \A c \in Cell : c # x => g.ev[c] = k.ev[c]
  BY <1>1, <1>4 DEF Heaps
<1> HIDE DEF g
<1>6. Grown(h, g, {}, {x})
  BY <1>1, <1>5 DEF Grown, Unchanged
<1>7. Event(g, x, m, {x})
  BY <1>1, <1>3, <1>4, <1>5 DEF Event
<1> QED
  BY <1>2, <1>6, <1>7 DEF x

LEMMA NewSexEvIs ==
  ASSUME NEW h \in Heaps, Cardinality(h.free) > 1
  PROVE  \E S : /\ Grown(h, NewSexEv(h), {}, S)
                /\ Event(NewSexEv(h), Next1(h), Message(SysEx, <<>>), S)
<1> DEFINE x == Next1(h)
           k == Taken(Taken(h))
           y == Next1(Taken(h))
           m == Message(SysEx, <<>>)
           g == [k EXCEPT !.ev[x] = m, !.se[x] = y, !.link[y] = y, !.bytes[y] = <<>>]
           r == <<y>>
<1>1. /\ x \in h.free /\ y \in h.free /\ x # y /\ x \in Cell /\ y \in Cell
      /\ k \in Heaps /\ k.free = h.free \ {x, y}
      /\ k.ev = h.ev /\ k.se = h.se /\ k.link = h.link /\ k.bytes = h.bytes
  BY TwoTaken
<1>2. NewSexEv(h) = g
  BY DEF NewSexEv
<1> HIDE DEF x, y, k
<1>3. m \in Kept /\ m.status = SysEx /\ m.data = <<>> /\ <<>> \in Contents
  <2>1. <<>> \in Seq(Data) /\ Len(<<>>) = 0 /\ 0 <= Room
    BY RoomIs
  <2> QED
    BY <2>1 DEF Kept, Contents, Message
<1> HIDE DEF m
<1>4. /\ g \in Heaps /\ g.free = k.free /\ g.se[x] = y /\ g.link[y] = y
      /\ g.bytes[y] = <<>> /\ g.ev[x] = m
      /\ \A c \in Cell : c # x => g.ev[c] = k.ev[c] /\ g.se[c] = k.se[c]
      /\ \A c \in Cell : c # y => g.link[c] = k.link[c] /\ g.bytes[c] = k.bytes[c]
  BY <1>1, <1>3 DEF Heaps
<1> HIDE DEF g
<1>5. r \in Seq(Cell) /\ Len(r) = 1 /\ r[1] = y /\ r # <<>> /\ ToSet(r) = {y}
  BY <1>1 DEF ToSet
<1> HIDE DEF r
<1>6. Ring(g, r) /\ Packed(g, r)
  BY <1>4, <1>5, RoomIs DEF Ring, Chained, Packed
<1>7. RingOf(g, x, r, {x, y})
  BY <1>1, <1>3, <1>4, <1>5, <1>6 DEF RingOf
<1>8. Joined(g, r) = <<>>
  <2>1. Behind(g, r) = <<>>
    BY <1>5 DEF Behind
  <2>2. FlattenSeq(<<>>) = <<>>
    BY FlattenEmpty
  <2>3. <<>> \o <<>> = <<>>
    OBVIOUS
  <2> QED
    BY <1>4, <1>5, <2>1, <2>2, <2>3 DEF Joined
<1>9. Grown(h, g, {}, {x, y})
  BY <1>1, <1>4 DEF Grown, Unchanged
<1>10. Event(g, x, m, {x, y})
  BY <1>1, <1>3, <1>7, <1>8 DEF Event
<1> QED
  BY <1>2, <1>9, <1>10 DEF x, m

\* The cells of S are given back, and nothing else changes.
Returned(h, g, S) == g \in Heaps /\ g.free = h.free \cup S /\ Unchanged(h, g, Cell)

LEMMA FreeSexEvIs ==
  ASSUME NEW h \in Heaps, NEW x \in Cell, NEW r, NEW S, RingOf(h, x, r, S)
  PROVE  Returned(h, FreeSexEv(h, x), S)
<1>1. Cells(h, h.se[x]) = r
  BY RingCells
<1>2. S = {x} \cup ToSet(r) /\ r \in Seq(Cell)
  BY DEF RingOf, Ring, Chained
<1>3. ToSet(r) \subseteq Cell
  BY <1>2 DEF ToSet
<1> HIDE DEF RingOf
<1>4. FreeSexEv(h, x) = [h EXCEPT !.free = h.free \cup {x} \cup ToSet(r)]
  BY <1>1 DEF FreeSexEv
<1> QED
  BY <1>2, <1>3, <1>4 DEF Returned, Unchanged, Heaps

LEMMA MSFreeEvIs ==
  ASSUME NEW h \in Heaps, NEW x, NEW m, NEW S, Event(h, x, m, S)
  PROVE  Returned(h, MSFreeEv(h, x), S) /\ (m.status = SysEx => Returned(h, FreeSexEv(h, x), S))
<1>0. x \in Cell
  BY DEF Event
<1>1. CASE m.status = SysEx
  <2>1. PICK r : RingOf(h, x, r, S)
    BY <1>1 DEF Event
  <2>2. h.ev[x].status = SysEx
    BY <2>1 DEF RingOf
  <2>3. Returned(h, FreeSexEv(h, x), S)
    BY <1>0, <2>1, FreeSexEvIs
  <2> QED
    BY <2>2, <2>3 DEF MSFreeEv
<1>2. CASE m.status # SysEx
  <2>1. S = {x} /\ h.ev[x] = m
    BY <1>2 DEF Event
  <2>2. MSFreeEv(h, x) = [h EXCEPT !.free = h.free \cup {x}]
    BY <1>2, <2>1 DEF MSFreeEv, FreeCell
  <2>3. Returned(h, MSFreeEv(h, x), S)
    BY <1>0, <2>1, <2>2 DEF Returned, Unchanged, Heaps
  <2> QED
    BY <1>2, <2>3
<1> QED
  BY <1>1, <1>2

\* A byte more.
LEMMA AddFSexEvIs ==
  ASSUME NEW h \in Heaps, NEW x, NEW d, NEW S, NEW v \in Data,
         Event(h, x, Message(SysEx, d), S), S \cap h.free = {},
         ~ (NeedsCell(h, x) /\ h.free = {})
  PROVE  \E T : /\ Grown(h, AddFSexEv(h, x, v), S, T)
                /\ Event(AddFSexEv(h, x, v), x, Message(SysEx, Append(d, v)), S \cup T)
<1> DEFINE g == AddFSexEv(h, x, v)
<1>0. \A e : Message(SysEx, e).status = SysEx /\ Message(SysEx, e).data = e
  BY DEF Message
<1>1. PICK r : RingOf(h, x, r, S) /\ Joined(h, r) = d
  BY <1>0 DEF Event
<1> DEFINE n == Len(r)
           last == r[1]
           b == h.bytes[last]
           F == FlattenSeq(Behind(h, r))
<1>2. /\ r \in Seq(Cell) /\ n \in Nat /\ n # 0 /\ n = Len(r)
      /\ \A i \in 1..n : r[i] \in Cell /\ r[i] \in S
      /\ \A i, j \in 1..n : r[i] = r[j] => i = j
      /\ 1 \in 1..n /\ n \in 1..n
  <2>1. r \in Seq(Cell) /\ r # <<>> /\ ToSet(r) \subseteq S
    BY <1>1 DEF RingOf, Ring, Chained
  <2>2. n \in Nat /\ n # 0
    BY <2>1
  <2>3. \A i \in 1..n : r[i] \in Cell /\ r[i] \in S
    BY <2>1 DEF ToSet
  <2>4. \A i, j \in 1..n : r[i] = r[j] => i = j
    BY <1>1 DEF RingOf, Ring, Chained
  <2> QED
    BY <2>1, <2>2, <2>3, <2>4
<1>3. /\ \A i \in 1..n : i < n => h.link[r[i]] = r[i + 1]
      /\ h.link[r[n]] = last
      /\ Len(h.bytes[last]) < Room /\ \A i \in 1..n : i > 1 => Len(h.bytes[r[i]]) = Room
      /\ h.se[x] = last /\ h.ev[x].status = SysEx
      /\ x \notin ToSet(r) /\ S = {x} \cup ToSet(r) /\ x \in Cell
      /\ last \in Cell /\ last # x
  BY <1>1, <1>2 DEF RingOf, Ring, Chained, Packed, ToSet, Event
<1>4. F \in Seq(Data) /\ b \in Seq(Data) /\ d = F \o b /\ Len(b) \in Nat
      /\ Append(b, v) \in Seq(Data) /\ Len(Append(b, v)) = Len(b) + 1
  <2>1. \A i \in 1..n : h.bytes[r[i]] \in Seq(Data)
    BY <1>2 DEF Heaps, Contents
  <2>2. Behind(h, r) \in Seq(Seq(Data))
    <3>1. n - 1 \in Nat /\ \A i \in 1..n - 1 : i + 1 \in 1..n
      BY <1>2
    <3> QED
      BY <2>1, <3>1, <1>2 DEF Behind
  <2>3. F \in Seq(Data)
    BY <2>2, FlattenType
  <2>4. b \in Seq(Data)
    BY <2>1, <1>2
  <2>5. d = F \o b
    BY <1>1 DEF Joined
  <2> HIDE DEF b, F
  <2> QED
    BY <2>3, <2>4, <2>5
<1>5. F \o Append(b, v) = Append(d, v)
  <2> HIDE DEF F, b
  <2>1. Append(b, v) = b \o <<v>> /\ <<v>> \in Seq(Data)
    BY <1>4, AppendIsConcat
  <2>2. F \o (b \o <<v>>) = (F \o b) \o <<v>>
    BY <1>4, <2>1, ConcatAssociative
  <2>3. F \o b \in Seq(Data)
    BY <1>4, ConcatProperties
  <2>4. Append(F \o b, v) = (F \o b) \o <<v>>
    BY <2>3, AppendIsConcat
  <2> QED
    BY <1>4, <2>1, <2>2, <2>4
<1>6. CASE ~ NeedsCell(h, x)
  <2> DEFINE k == [h EXCEPT !.bytes[last] = Append(h.bytes[last], v)]
  <2>1. g = k /\ Len(b) # Room - 1
    BY <1>3, <1>6 DEF AddFSexEv, NeedsCell
  <2>2. Len(b) + 1 < Room /\ Append(b, v) \in Contents
    BY <1>3, <1>4, <2>1, RoomIs DEF Contents
  <2>3. /\ k \in Heaps /\ k.free = h.free /\ k.se = h.se /\ k.link = h.link
        /\ k.ev = h.ev /\ k.bytes[last] = Append(b, v)
        /\ \A c \in Cell : c # last => k.bytes[c] = h.bytes[c]
    BY <1>3, <2>2 DEF Heaps
  <2> HIDE DEF k, g, b
  <2>4. Grown(h, k, S, {})
    BY <1>2, <2>3 DEF Grown, Unchanged
  <2>5. \A i \in 1..n : i > 1 => k.bytes[r[i]] = h.bytes[r[i]]
    BY <1>2, <2>3
  <2>6. Ring(k, r)
    BY <1>1, <2>3 DEF RingOf, Ring, Chained
  <2>7. Packed(k, r)
    BY <1>3, <1>4, <2>2, <2>3, <2>5 DEF Packed
  <2>8. RingOf(k, x, r, S)
    BY <1>3, <2>3, <2>6, <2>7 DEF RingOf
  <2>9. Behind(k, r) = Behind(h, r)
    <3>1. \A i \in 1..n - 1 : i + 1 \in 1..n /\ i + 1 > 1
      BY <1>2
    <3> QED
      BY <2>5, <3>1 DEF Behind
  <2>10. Joined(k, r) = Append(d, v)
    BY <1>5, <2>3, <2>9 DEF Joined
  <2>11. Event(k, x, Message(SysEx, Append(d, v)), S)
    BY <1>0, <1>3, <2>8, <2>10 DEF Event
  <2> QED
    BY <2>1, <2>4, <2>11 DEF g
<1>7. CASE NeedsCell(h, x)
  <2> DEFINE new == Next1(h)
             t == Taken(h)
             k == [t EXCEPT !.bytes[last] = Append(t.bytes[last], v), !.bytes[new] = <<>>,
                            !.link[new] = h.link[last], !.link[last] = new,
                            !.se[x] = new]
             q == [i \in 1..n + 1 |-> IF i = 1 THEN new ELSE IF i = n + 1 THEN last ELSE r[i]]
  <2>1. /\ new \in h.free /\ new \in Cell /\ t \in Heaps /\ t.free = h.free \ {new}
        /\ t.ev = h.ev /\ t.se = h.se /\ t.link = h.link /\ t.bytes = h.bytes
    BY <1>7, TakenIs
  <2>2. g = k /\ Len(b) = Room - 1
    BY <1>3, <1>7 DEF AddFSexEv, NeedsCell
  <2> HIDE DEF new, t
  <2>3. new \notin S /\ new # last /\ new # x
    BY <1>2, <1>3, <2>1
  <2>4. /\ Append(b, v) \in Contents /\ Len(Append(b, v)) = Room
        /\ <<>> \in Contents /\ Len(<<>>) = 0
    <3>1. Len(b) + 1 = Room
      BY <1>4, <2>2, RoomIs
    <3>2. <<>> \in Seq(Data) /\ Len(<<>>) = 0
      OBVIOUS
    <3> QED
      BY <1>4, <3>1, <3>2, RoomIs DEF Contents
  <2>5. h.link[last] \in Cell \cup {NULL}
    BY <1>3 DEF Heaps
  <2>6. /\ k \in Heaps /\ k.free = h.free \ {new} /\ k.ev = h.ev
        /\ k.bytes[last] = Append(b, v) /\ k.bytes[new] = <<>>
        /\ k.link[new] = h.link[last] /\ k.link[last] = new /\ k.se[x] = new
        /\ \A c \in Cell : c # x => k.se[c] = h.se[c]
        /\ \A c \in Cell : c \notin {last, new} =>
             k.bytes[c] = h.bytes[c] /\ k.link[c] = h.link[c]
    BY <1>3, <2>1, <2>3, <2>4, <2>5 DEF Heaps
  <2> HIDE DEF k, g, b
  <2>7. Grown(h, k, S, {new})
    BY <1>2, <1>3, <2>1, <2>6 DEF Grown, Unchanged
  <2>8. /\ q \in Seq(Cell) /\ Len(q) = n + 1 /\ q[1] = new /\ q[n + 1] = last /\ q # <<>>
        /\ \A i \in 1..n : i > 1 => q[i] = r[i]
    <3>1. q \in Seq(Cell) /\ Len(q) = n + 1
      BY <1>2, <2>1
    <3>2. q[1] = new /\ q[n + 1] = last /\ \A i \in 1..n : i > 1 => q[i] = r[i]
      BY <1>2
    <3>3. q # <<>>
      BY <1>2, <3>1
    <3> QED
      BY <3>1, <3>2, <3>3
  <2> HIDE DEF q
  <2>9. \A i \in 1..n + 1 : i = 1 \/ i = n + 1 \/ (i \in 1..n /\ i > 1)
    BY <1>2
  <2>10. \A i \in 1..n : i > 1 => r[i] # last /\ r[i] # new /\ r[i] # x /\ r[i] \in Cell
    BY <1>2, <1>3, <2>3 DEF ToSet
  <2>11. \A i, j \in 1..n + 1 : q[i] = q[j] => i = j
    BY <1>2, <2>3, <2>8, <2>9, <2>10
  <2>12. \A i \in 1..n + 1 : i < n + 1 => k.link[q[i]] = q[i + 1]
    <3> TAKE i \in 1..n + 1
    <3> HAVE i < n + 1
    <3>1. CASE i = 1 /\ n = 1
      BY <3>1, <1>3, <2>6, <2>8
    <3>2. CASE i = 1 /\ n # 1
      <4>1. 1 < n /\ 1 + 1 \in 1..n /\ 1 + 1 > 1
        <5>1. n \in Nat /\ n # 0 /\ n # 1
          BY <3>2, <1>2
        <5> HIDE DEF n
        <5> QED
          BY <5>1
      <4>2. h.link[last] = r[1 + 1]
        BY <1>2, <1>3, <4>1
      <4> QED
        BY <3>2, <2>6, <2>8, <4>1, <4>2
    <3>3. CASE i # 1
      <4>1. i \in 1..n /\ i > 1
        BY <3>3, <2>9
      <4>2. k.link[q[i]] = h.link[r[i]]
        BY <2>6, <2>8, <2>10, <4>1
      <4>3. CASE i = n
        BY <1>3, <2>8, <4>2, <4>3
      <4>4. CASE i # n
        <5>1. i < n /\ i + 1 \in 1..n /\ i + 1 > 1
          BY <4>1, <4>4
        <5> QED
          BY <1>3, <2>8, <4>1, <4>2, <5>1
      <4> QED
        BY <4>3, <4>4
    <3> QED
      BY <3>1, <3>2, <3>3
  <2>13. Ring(k, q)
    BY <1>2, <2>6, <2>8, <2>11, <2>12 DEF Ring, Chained
  <2>14. \A i \in 1..n : i > 1 => k.bytes[q[i]] = h.bytes[r[i]]
    BY <2>6, <2>8, <2>10
  <2>15. Packed(k, q)
    <3>1. Len(k.bytes[q[1]]) < Room
      BY <2>4, <2>6, <2>8, RoomIs
    <3>2. ASSUME NEW i \in 1..Len(q), i > 1 PROVE Len(k.bytes[q[i]]) = Room
      <4>1. CASE i = n + 1
        BY <2>4, <2>6, <2>8, <4>1
      <4>2. CASE i # n + 1
        <5>1. i \in 1..n
          BY <3>2, <4>2, <2>8, <2>9
        <5> QED
          BY <1>3, <2>14, <3>2, <5>1
      <4> QED
        BY <4>1, <4>2
    <3> QED
      BY <3>1, <3>2 DEF Packed
  <2>16. ToSet(q) = ToSet(r) \cup {new}
    <3>1. ASSUME NEW c \in ToSet(q) PROVE c \in ToSet(r) \cup {new}
      <4>1. PICK i \in 1..n + 1 : c = q[i]
        BY <2>8 DEF ToSet
      <4>2. last \in ToSet(r) /\ \A j \in 1..n : r[j] \in ToSet(r)
        BY <1>2 DEF ToSet
      <4> QED
        BY <2>8, <2>9, <4>1, <4>2
    <3>2. ASSUME NEW c \in ToSet(r) PROVE c \in ToSet(q)
      <4>1. PICK i \in 1..n : c = r[i]
        BY <1>2 DEF ToSet
      <4>2. \A j \in 1..n + 1 : q[j] \in ToSet(q)
        BY <2>8 DEF ToSet
      <4>3. i \in 1..n + 1 /\ n + 1 \in 1..n + 1 /\ (i = 1 \/ i > 1)
        BY <1>2
      <4> QED
        BY <2>8, <4>1, <4>2, <4>3
    <3>3. new \in ToSet(q)
      <4>1. 1 \in 1..n + 1
        BY <1>2
      <4> QED
        BY <4>1, <2>8 DEF ToSet
    <3> QED
      BY <3>1, <3>2, <3>3
  <2>17. RingOf(k, x, q, S \cup {new})
    BY <1>3, <2>3, <2>6, <2>8, <2>13, <2>15, <2>16 DEF RingOf
  <2>18. Behind(k, q) = Append(Behind(h, r), Append(b, v))
    <3> DEFINE B == Behind(h, r)
    <3>1. B \in Seq(Seq(Data)) /\ Len(B) = n - 1 /\ \A i \in 1..n - 1 : B[i] = h.bytes[r[i + 1]]
      <4>1. n - 1 \in Nat /\ \A i \in 1..n - 1 : i + 1 \in 1..n
        BY <1>2
      <4>2. \A i \in 1..n : h.bytes[r[i]] \in Seq(Data)
        BY <1>2 DEF Heaps, Contents
      <4> QED
        BY <4>1, <4>2 DEF Behind
    <3> HIDE DEF B
    <3>2. /\ Append(B, Append(b, v)) \in Seq(Seq(Data)) /\ Len(Append(B, Append(b, v))) = n
          /\ \A i \in 1..n - 1 : Append(B, Append(b, v))[i] = B[i]
          /\ Append(B, Append(b, v))[n] = Append(b, v)
      <4>1. n - 1 + 1 = n
        BY <1>2
      <4> QED
        BY <1>4, <3>1, <4>1, AppendProperties
    <3> DEFINE A == Append(B, Append(b, v))
               C == Behind(k, q)
    <3>3. C = [i \in 1..n |-> k.bytes[q[i + 1]]]
      <4>1. Len(q) - 1 = n
        BY <1>2, <2>8
      <4> QED
        BY <4>1 DEF Behind
    <3>4. \A i \in 1..n : k.bytes[q[i + 1]] = A[i]
      <4> TAKE i \in 1..n
      <4>1. CASE i = n
        BY <4>1, <2>6, <2>8, <3>2
      <4>2. CASE i # n
        <5>1. i \in 1..n - 1 /\ i + 1 \in 1..n /\ i + 1 > 1
          BY <4>2
        <5>2. k.bytes[q[i + 1]] = h.bytes[r[i + 1]] /\ A[i] = B[i]
          BY <2>14, <3>2, <5>1
        <5> QED
          BY <3>1, <5>1, <5>2
      <4> QED
        BY <4>1, <4>2
    <3>5. A = [i \in 1..n |-> A[i]]
      <4>1. A \in Seq(Seq(Data)) /\ Len(A) = n
        BY <3>2
      <4> HIDE DEF A, n
      <4>2. A \in [1..n -> Seq(Data)]
        BY <4>1, LenProperties
      <4> QED
        BY <4>2
    <3> HIDE DEF A, C
    <3>6. C = A
      BY <3>3, <3>4, <3>5
    <3> QED
      BY <3>6 DEF A, C, B
  <2>19. Joined(k, q) = Append(d, v)
    <3>1. Behind(h, r) \in Seq(Seq(Data))
      <4>1. n - 1 \in Nat /\ \A i \in 1..n - 1 : i + 1 \in 1..n
        BY <1>2
      <4>2. \A i \in 1..n : h.bytes[r[i]] \in Seq(Data)
        BY <1>2 DEF Heaps, Contents
      <4> QED
        BY <4>1, <4>2, <1>2 DEF Behind
    <3>2. FlattenSeq(Behind(k, q)) = F \o Append(b, v)
      BY <1>4, <2>18, <3>1, FlattenAppend
    <3>3. F \o Append(b, v) \in Seq(Data)
      BY <1>4, ConcatProperties
    <3> DEFINE G == F \o Append(b, v)
    <3>4. G \o <<>> = G
      BY <3>3, ConcatEmptySeq
    <3>5. Joined(k, q) = G \o <<>>
      BY <2>6, <2>8, <3>2 DEF Joined
    <3> HIDE DEF G
    <3>6. Joined(k, q) = G
      BY <3>4, <3>5
    <3> QED
      BY <3>6, <1>5 DEF G
  <2>20. Event(k, x, Message(SysEx, Append(d, v)), S \cup {new})
    BY <1>0, <1>3, <2>17, <2>19 DEF Event
  <2> QED
    BY <2>2, <2>7, <2>20 DEF g
<1> QED
  BY <1>6, <1>7

LEMMA Prefix ==
  ASSUME NEW S, NEW r \in Seq(S), NEW n \in Nat, n < Len(r)
  PROVE  Append(SubSeq(r, 1, n), r[n + 1]) = SubSeq(r, 1, n + 1)
<1> DEFINE p == SubSeq(r, 1, n)
           q == SubSeq(r, 1, n + 1)
           e == r[n + 1]
<1>1. Len(r) \in Nat /\ n + 1 \in 1..Len(r) /\ n + 1 \in Int /\ n \in Int /\ 1 \in Int
      /\ 1 <= n + 1 /\ \A i \in 1..n + 1 : r[i] \in S
  BY ElementOfSeq
<1>2. p \in Seq(S) /\ Len(p) = n /\ \A i \in 1..n : p[i] = r[i]
  <2>1. \A i \in 1..n : r[i] \in S
    BY <1>1
  <2>2. /\ p \in Seq(S) /\ Len(p) = IF 1 <= n THEN n - 1 + 1 ELSE 0
        /\ \A i \in 1..n - 1 + 1 : p[i] = r[1 + i - 1]
    BY <1>1, <2>1, SubSeqProperties
  <2> HIDE DEF p
  <2>3. n - 1 + 1 = n /\ \A i \in 1..n : 1 + i - 1 = i
    OBVIOUS
  <2>4. Len(p) = n
    BY <2>2, <2>3
  <2>5. ASSUME NEW i \in 1..n PROVE p[i] = r[i]
    <3>1. p[i] = r[1 + i - 1]
      BY <2>2, <2>3
    <3> QED
      BY <2>3, <3>1
  <2> QED
    BY <2>2, <2>4, <2>5
<1>3. q \in Seq(S) /\ Len(q) = n + 1 /\ \A i \in 1..n + 1 : q[i] = r[i]
  <2> DEFINE m == n + 1
  <2>1. m \in Nat /\ 1 <= m /\ m \in Int
    OBVIOUS
  <2>2. /\ q \in Seq(S) /\ Len(q) = IF 1 <= m THEN m - 1 + 1 ELSE 0
        /\ \A i \in 1..m - 1 + 1 : q[i] = r[1 + i - 1]
    BY <1>1, SubSeqProperties
  <2> HIDE DEF q, m
  <2>3. m - 1 + 1 = m /\ \A i \in 1..m : 1 + i - 1 = i
    BY <2>1
  <2>4. Len(q) = m
    BY <2>1, <2>2, <2>3
  <2>5. ASSUME NEW i \in 1..m PROVE q[i] = r[i]
    <3>1. q[i] = r[1 + i - 1]
      BY <2>2, <2>3
    <3> QED
      BY <2>3, <3>1
  <2> QED
    BY <2>2, <2>4, <2>5 DEF m
<1>4. e \in S
  BY <1>1
<1> HIDE DEF p, q
<1>5. /\ Append(p, e) \in Seq(S) /\ Len(Append(p, e)) = n + 1
      /\ \A i \in 1..n : Append(p, e)[i] = p[i]
      /\ Append(p, e)[n + 1] = e
  <2> HIDE DEF e
  <2> QED
    BY <1>2, <1>4, AppendProperties
<1>6. \A i \in 1..n + 1 : Append(p, e)[i] = q[i]
  <2>1. \A i \in 1..n + 1 : i \in 1..n \/ i = n + 1
    OBVIOUS
  <2>2. q[n + 1] = e
    BY <1>1, <1>3
  <2> HIDE DEF e
  <2> QED
    BY <1>2, <1>3, <1>5, <2>1, <2>2
<1>7. Append(p, e) = q
  <2> HIDE DEF e
  <2> QED
    BY <1>3, <1>5, <1>6, SeqEqual
<1> QED
  BY <1>7 DEF p, q

(***************************************************************************)
(* The bytes of a message, one after the other.                            *)
(***************************************************************************)
LEMMA GrownTwice ==
  ASSUME NEW h, NEW g, NEW k, NEW S, NEW T, NEW U, Grown(h, g, S, T), Grown(g, k, S \cup T, U)
  PROVE  Grown(h, k, S, T \cup U)
BY DEF Grown, Unchanged

LEMMA UnchangedTrans ==
  ASSUME NEW h, NEW g, NEW k, NEW S, Unchanged(h, g, S), Unchanged(g, k, S)
  PROVE  Unchanged(h, k, S)
BY DEF Unchanged

AddOne(x, text, s, n) ==
  IF ~s.ok \/ (NeedsCell(s.heap, x) /\ s.heap.free = {}) THEN [s EXCEPT !.ok = FALSE]
  ELSE [s EXCEPT !.heap = AddFSexEv(s.heap, x, text[n])]

AddedTo(h, x, text, n, f) ==
  f = [i \in 0..n |-> IF i = 0 THEN [heap |-> h, ok |-> TRUE] ELSE AddOne(x, text, f[i - 1], i)]

LEMMA AddedExists ==
  ASSUME NEW h, NEW x, NEW text, NEW n \in Nat
  PROVE  \E f : AddedTo(h, x, text, n, f)
<1> DEFINE T == {m \in 0..n : \E f : AddedTo(h, x, text, m, f)}
<1>1. 0 \in T
  <2> DEFINE f == [i \in 0..0 |-> [heap |-> h, ok |-> TRUE]]
  <2>1. \A i \in 0..0 : i = 0
    OBVIOUS
  <2>2. AddedTo(h, x, text, 0, f)
    BY <2>1 DEF AddedTo
  <2> QED
    BY <2>2
<1>2. ASSUME NEW m \in 0..n, m \in T, m < n PROVE m + 1 \in T
  <2>1. PICK f : AddedTo(h, x, text, m, f)
    BY <1>2
  <2>2. \A i \in 0..m : f[i] = IF i = 0 THEN [heap |-> h, ok |-> TRUE]
                               ELSE AddOne(x, text, f[i - 1], i)
    BY <2>1 DEF AddedTo
  <2> DEFINE last == AddOne(x, text, f[m], m + 1)
             g == [i \in 0..m + 1 |-> IF i <= m THEN f[i] ELSE last]
  <2>3. g[m + 1] = last /\ \A i \in 0..m : g[i] = f[i]
    <3>1. m + 1 \in 0..m + 1 /\ ~ m + 1 <= m /\ \A i \in 0..m : i \in 0..m + 1 /\ i <= m
      BY <1>2
    <3> HIDE DEF last
    <3> QED
      BY <3>1
  <2>4. ASSUME NEW i \in 0..m + 1
        PROVE  g[i] = IF i = 0 THEN [heap |-> h, ok |-> TRUE]
                      ELSE AddOne(x, text, g[i - 1], i)
    <3>1. CASE i \in 0..m
      <4>1. i = 0 \/ i - 1 \in 0..m
        BY <3>1
      <4> HIDE DEF g
      <4> QED
        BY <2>2, <2>3, <3>1, <4>1
    <3>2. CASE i = m + 1
      <4>1. i - 1 = m /\ i # 0 /\ m \in 0..m
        BY <3>2, <1>2
      <4> HIDE DEF g
      <4> QED
        BY <2>3, <3>2, <4>1
    <3> QED
      BY <3>1, <3>2
  <2>5. g = [i \in 0..m + 1 |-> g[i]]
    OBVIOUS
  <2>6. AddedTo(h, x, text, m + 1, g)
    <3> HIDE DEF g
    <3> QED
      BY <2>4, <2>5 DEF AddedTo
  <2>7. m + 1 \in 0..n
    BY <1>2
  <2> HIDE DEF g
  <2> QED
    BY <2>6, <2>7
<1> HIDE DEF T
<1>3. 0..n \subseteq T
  BY <1>1, <1>2, Induction
<1>4. n \in T
  BY <1>3
<1> QED
  BY <1>4 DEF T

LEMMA AddFieldsAre ==
  ASSUME NEW h, NEW x, NEW text, Len(text) \in Nat
  PROVE  \E f : AddedTo(h, x, text, Len(text), f) /\ AddFields(h, x, text) = f[Len(text)]
<1> DEFINE W(f) == [n \in 0..Len(text) |->
                      IF n = 0 THEN [heap |-> h, ok |-> TRUE]
                      ELSE AddOne(x, text, f[n - 1], n)]
           added == CHOOSE f : f = W(f)
<1>0. PICK f : AddedTo(h, x, text, Len(text), f)
  BY AddedExists
<1>1. f = W(f)
  BY <1>0 DEF AddedTo
<1>2. added = W(added)
  <2> HIDE DEF W
  <2> QED
    BY <1>1
<1>3. AddFields(h, x, text) = added[Len(text)]
  BY DEF AddFields, AddOne
<1>4. AddedTo(h, x, text, Len(text), added)
  <2> HIDE DEF added
  <2> QED
    BY <1>2 DEF AddedTo
<1> HIDE DEF added
<1> QED
  BY <1>3, <1>4

\* After n bytes the event holds them, or has failed.
Added(h, x, text, S, n, s) ==
  /\ s = [heap |-> s.heap, ok |-> s.ok] /\ s.ok \in BOOLEAN
  /\ \E T, d : /\ Grown(h, s.heap, S, T)
               /\ Event(s.heap, x, Message(SysEx, d), S \cup T)
               /\ s.ok => d = SubSeq(text, 1, n)

LEMMA AddOneIs ==
  ASSUME NEW h \in Heaps, NEW x, NEW text \in Seq(Data), NEW S, S \cap h.free = {},
         NEW n \in Nat, n < Len(text), NEW s, Added(h, x, text, S, n, s)
  PROVE  Added(h, x, text, S, n + 1, AddOne(x, text, s, n + 1))
<1> DEFINE u == AddOne(x, text, s, n + 1)
           v == text[n + 1]
<1>1. PICK T, d : /\ Grown(h, s.heap, S, T)
                  /\ Event(s.heap, x, Message(SysEx, d), S \cup T)
                  /\ s.ok => d = SubSeq(text, 1, n)
  BY DEF Added
<1>2. s = [heap |-> s.heap, ok |-> s.ok] /\ s.ok \in BOOLEAN
  BY DEF Added
<1>3. CASE ~s.ok \/ (NeedsCell(s.heap, x) /\ s.heap.free = {})
  <2>1. u = [heap |-> s.heap, ok |-> FALSE]
    <3>1. u = [s EXCEPT !.ok = FALSE]
      BY <1>3 DEF AddOne
    <3> QED
      BY <3>1, <1>2
  <2> HIDE DEF u
  <2>2. u.heap = s.heap /\ u.ok = FALSE
    BY <2>1
  <2> QED
    BY <1>1, <2>1, <2>2 DEF Added, u
<1>4. CASE s.ok /\ ~ (NeedsCell(s.heap, x) /\ s.heap.free = {})
  <2> DEFINE g == AddFSexEv(s.heap, x, v)
  <2>1. u = [heap |-> g, ok |-> TRUE]
    <3>1. u = [s EXCEPT !.heap = g]
      BY <1>4 DEF AddOne
    <3> HIDE DEF g, u
    <3>2. s.ok = TRUE
      BY <1>2, <1>4
    <3> QED
      BY <3>1, <3>2, <1>2
  <2>2. u.heap = g /\ u.ok = TRUE /\ u = [heap |-> u.heap, ok |-> u.ok]
    <3> HIDE DEF u, g
    <3> QED
      BY <2>1
  <2>3. v \in Data
    <3>1. n + 1 \in 1..Len(text)
      OBVIOUS
    <3> QED
      BY <3>1, ElementOfSeq
  <2>4. s.heap \in Heaps /\ (S \cup T) \cap s.heap.free = {}
    BY <1>1 DEF Grown
  <2> HIDE DEF v, u
  <2>5. PICK U : /\ Grown(s.heap, g, S \cup T, U)
                 /\ Event(g, x, Message(SysEx, Append(d, v)), S \cup T \cup U)
    BY <1>1, <1>4, <2>3, <2>4, AddFSexEvIs
  <2> HIDE DEF g
  <2>6. Grown(h, g, S, T \cup U)
    BY <1>1, <2>5, GrownTwice
  <2>7. Append(d, v) = SubSeq(text, 1, n + 1)
    BY <1>1, <1>4, Prefix DEF v
  <2>8. S \cup T \cup U = S \cup (T \cup U)
    OBVIOUS
  <2>9. Event(g, x, Message(SysEx, Append(d, v)), S \cup (T \cup U))
    BY <2>5, <2>8
  <2> QED
    BY <2>2, <2>6, <2>7, <2>9 DEF Added, u
<1> QED
  BY <1>2, <1>3, <1>4

LEMMA AddFieldsIs ==
  ASSUME NEW h \in Heaps, NEW x, NEW text \in Seq(Data), NEW S, S \cap h.free = {},
         Event(h, x, Message(SysEx, <<>>), S)
  PROVE  LET e == AddFields(h, x, text)
         IN /\ e.ok \in BOOLEAN
            /\ \E T, d : /\ Grown(h, e.heap, S, T)
                         /\ Event(e.heap, x, Message(SysEx, d), S \cup T)
                         /\ e.ok => d = text
<1> DEFINE n == Len(text)
<1>0. n \in Nat /\ n = Len(text)
  BY LenProperties
<1>1. PICK f : AddedTo(h, x, text, n, f) /\ AddFields(h, x, text) = f[n]
  BY <1>0, AddFieldsAre
<1> HIDE DEF n
<1>2. \A i \in 0..n : f[i] = IF i = 0 THEN [heap |-> h, ok |-> TRUE]
                             ELSE AddOne(x, text, f[i - 1], i)
  BY <1>1 DEF AddedTo
<1> DEFINE T == {i \in 0..n : Added(h, x, text, S, i, f[i])}
<1>3. 0 \in T
  <2>0. 0 \in 0..n
    BY <1>0
  <2>1. f[0] = [heap |-> h, ok |-> TRUE] /\ 0 \in 0..n
    BY <1>2, <2>0, Zenon
  <2>2. Grown(h, h, S, {}) /\ S \cup {} = S
    BY DEF Grown, Unchanged
  <2>3. SubSeq(text, 1, 0) = <<>>
    BY SubSeqEmpty
  <2>4. f[0].heap = h /\ f[0].ok = TRUE /\ f[0] = [heap |-> f[0].heap, ok |-> f[0].ok]
    BY <2>1
  <2>5. Added(h, x, text, S, 0, f[0])
    BY <2>2, <2>3, <2>4 DEF Added
  <2> QED
    BY <2>1, <2>5
<1>4. ASSUME NEW i \in 0..n, i \in T, i < n PROVE i + 1 \in T
  <2>1. i + 1 \in 0..n /\ i + 1 # 0 /\ (i + 1) - 1 = i /\ i \in Nat
    BY <1>0, <1>4
  <2>2. Added(h, x, text, S, i, f[i])
    BY <1>4
  <2>3. f[i + 1] = AddOne(x, text, f[i], i + 1)
    BY <1>2, <2>1
  <2>4. Added(h, x, text, S, i + 1, f[i + 1])
    BY <1>0, <1>4, <2>1, <2>2, <2>3, AddOneIs
  <2> QED
    BY <2>1, <2>4
<1> HIDE DEF T
<1>5. 0..n \subseteq T
  BY <1>0, <1>3, <1>4, Induction
<1>6. Added(h, x, text, S, n, f[n])
  <2>1. n \in 0..n
    BY <1>0
  <2> QED
    BY <1>5, <2>1 DEF T
<1>7. SubSeq(text, 1, n) = text
  BY <1>0, SubSeqFull
<1> QED
  BY <1>1, <1>6, <1>7 DEF Added

(***************************************************************************)
(* A copy, cell by cell.                                                   *)
(***************************************************************************)
CopyLinked(h, c, s, n, new) ==
  [Taken(s.heap) EXCEPT !.link[s.previous] = new, !.link[new] = h.link[c[n]],
                        !.bytes[new] = h.bytes[c[n]]]

CopyOne(h, copy, c, s, n) ==
  IF ~s.ok THEN s
  ELSE IF s.heap.free = {}
  THEN [s EXCEPT !.ok = FALSE, !.heap = RolledBack(s.heap, copy, s.previous)]
  ELSE [s EXCEPT !.previous = Next1(s.heap), !.heap = CopyLinked(h, c, s, n, Next1(s.heap))]

NoneCopied(h, copy) == [heap |-> h, previous |-> h.se[copy], ok |-> TRUE]

CopiedTo(h, copy, c, n, f) ==
  f = [i \in 1..n |-> IF i = 1 THEN NoneCopied(h, copy) ELSE CopyOne(h, copy, c, f[i - 1], i)]

LEMMA CopiedExists ==
  ASSUME NEW h, NEW copy, NEW c, NEW n \in Nat
  PROVE  \E f : CopiedTo(h, copy, c, n, f)
<1> DEFINE T == {m \in 0..n : \E f : CopiedTo(h, copy, c, m, f)}
<1>1. 0 \in T
  <2> DEFINE f == [i \in 1..0 |-> i]
  <2>1. CopiedTo(h, copy, c, 0, f)
    BY DEF CopiedTo
  <2> QED
    BY <2>1
<1>2. ASSUME NEW m \in 0..n, m \in T, m < n PROVE m + 1 \in T
  <2>1. PICK f : CopiedTo(h, copy, c, m, f)
    BY <1>2
  <2>2. \A i \in 1..m : f[i] = IF i = 1 THEN NoneCopied(h, copy)
                               ELSE CopyOne(h, copy, c, f[i - 1], i)
    BY <2>1 DEF CopiedTo
  <2> DEFINE last == IF m = 0 THEN NoneCopied(h, copy) ELSE CopyOne(h, copy, c, f[m], m + 1)
             g == [i \in 1..m + 1 |-> IF i <= m THEN f[i] ELSE last]
  <2>3. g[m + 1] = last /\ \A i \in 1..m : g[i] = f[i]
    <3>1. m + 1 \in 1..m + 1 /\ ~ m + 1 <= m /\ \A i \in 1..m : i \in 1..m + 1 /\ i <= m
      BY <1>2
    <3> HIDE DEF last
    <3> QED
      BY <3>1
  <2>4. ASSUME NEW i \in 1..m + 1
        PROVE  g[i] = IF i = 1 THEN NoneCopied(h, copy)
                      ELSE CopyOne(h, copy, c, g[i - 1], i)
    <3>1. CASE i \in 1..m
      <4>1. i = 1 \/ i - 1 \in 1..m
        BY <3>1
      <4> HIDE DEF g
      <4> QED
        BY <2>2, <2>3, <3>1, <4>1
    <3>2. CASE i = m + 1
      <4>1. i - 1 = m /\ (m = 0 <=> i = 1) /\ (m # 0 => m \in 1..m)
        BY <3>2, <1>2
      <4> HIDE DEF g
      <4>2. g[i] = last
        BY <2>3, <3>2
      <4>3. m # 0 => g[i - 1] = f[m]
        BY <2>3, <4>1
      <4> QED
        BY <3>2, <4>1, <4>2, <4>3
    <3> QED
      BY <3>1, <3>2
  <2>5. g = [i \in 1..m + 1 |-> g[i]]
    OBVIOUS
  <2>6. CopiedTo(h, copy, c, m + 1, g)
    <3> HIDE DEF g
    <3> QED
      BY <2>4, <2>5 DEF CopiedTo
  <2>7. m + 1 \in 0..n
    BY <1>2
  <2> HIDE DEF g
  <2> QED
    BY <2>6, <2>7
<1> HIDE DEF T
<1>3. 0..n \subseteq T
  BY <1>1, <1>2, Induction
<1>4. n \in T
  BY <1>3
<1> QED
  BY <1>4 DEF T

LEMMA CopyCellsAre ==
  ASSUME NEW h, NEW copy, NEW c, Len(c) \in Nat
  PROVE  \E f : CopiedTo(h, copy, c, Len(c), f) /\ CopyCells(h, copy, c) = f[Len(c)]
<1> DEFINE W(f) == [n \in 1..Len(c) |-> IF n = 1 THEN NoneCopied(h, copy)
                                         ELSE CopyOne(h, copy, c, f[n - 1], n)]
           copied == CHOOSE f : f = W(f)
<1>0. PICK f : CopiedTo(h, copy, c, Len(c), f)
  BY CopiedExists
<1>1. f = W(f)
  BY <1>0 DEF CopiedTo
<1>2. copied = W(copied)
  <2> HIDE DEF W
  <2> QED
    BY <1>1
<1>3. CopyCells(h, copy, c) = copied[Len(c)]
  BY DEF CopyCells, CopyOne, CopyLinked, NoneCopied
<1>4. CopiedTo(h, copy, c, Len(c), copied)
  <2> HIDE DEF copied
  <2> QED
    BY <1>2 DEF CopiedTo
<1> HIDE DEF copied
<1> QED
  BY <1>3, <1>4

\* The cells of d are the copy of the first n cells of c, but for the link of the
\* last one.
CopyOf(h, y, c, n, s, d) ==
  /\ Len(d) = n /\ d[1] = y /\ Chained(s.heap, d)
  /\ \A i \in 1..n : i > 1 => d[i] \in h.free /\ s.heap.bytes[d[i]] = h.bytes[c[i]]
  /\ s.heap.bytes[y] = h.bytes[y] /\ s.previous = d[n]
  /\ s.heap \in Heaps /\ s.heap.ev = h.ev /\ s.heap.se = h.se
  /\ s.heap.free = h.free \ ToSet(d)
  /\ Unchanged(h, s.heap, Cell \ ToSet(d))

GivenUp(h, copy, y, g) ==
  /\ g \in Heaps /\ g.free = h.free \cup {copy, y}
  /\ Unchanged(h, g, Cell \ (h.free \cup {copy, y}))

Copied(h, copy, c, n, s) ==
  /\ s = [heap |-> s.heap, previous |-> s.previous, ok |-> s.ok] /\ s.ok \in BOOLEAN
  /\ s.ok => \E d : CopyOf(h, h.se[copy], c, n, s, d)
  /\ ~s.ok => GivenUp(h, copy, h.se[copy], s.heap)

LEMMA RolledBackIs ==
  ASSUME NEW h \in Heaps, NEW copy \in Cell, NEW c, NEW n \in Nat, n # 0,
         h.se[copy] \in Cell, NEW s, NEW d, CopyOf(h, h.se[copy], c, n, s, d)
  PROVE  GivenUp(h, copy, h.se[copy], RolledBack(s.heap, copy, s.previous))
<1> DEFINE y == h.se[copy]
           k == [s.heap EXCEPT !.link[d[n]] = y]
           g == [k EXCEPT !.free = k.free \cup {copy} \cup ToSet(d)]
<1>1. /\ d \in Seq(Cell) /\ Len(d) = n /\ d[1] = y /\ Chained(s.heap, d)
      /\ s.previous = d[n] /\ s.heap \in Heaps /\ s.heap.ev = h.ev /\ s.heap.se = h.se
      /\ s.heap.free = h.free \ ToSet(d) /\ Unchanged(h, s.heap, Cell \ ToSet(d))
      /\ \A i \in 1..n : i > 1 => d[i] \in h.free
  BY DEF CopyOf, Chained
<1>2. /\ n \in 1..n /\ 1 \in 1..n /\ \A i \in 1..n : d[i] \in Cell /\ d[i] \in ToSet(d)
      /\ ToSet(d) \subseteq Cell /\ y \in ToSet(d) /\ ToSet(d) \subseteq h.free \cup {y}
  <2>1. n \in 1..n /\ 1 \in 1..n /\ \A i \in 1..n : i = 1 \/ i > 1
    OBVIOUS
  <2>2. \A i \in 1..n : d[i] \in Cell /\ d[i] \in ToSet(d)
    BY <1>1 DEF ToSet
  <2>3. \A e \in ToSet(d) : \E i \in 1..n : e = d[i]
    BY <1>1 DEF ToSet
  <2> QED
    BY <1>1, <2>1, <2>2, <2>3
<1>3. /\ k \in Heaps /\ k.free = s.heap.free /\ k.ev = s.heap.ev /\ k.se = s.heap.se
      /\ k.bytes = s.heap.bytes /\ k.link[d[n]] = y
      /\ \A e \in Cell : e # d[n] => k.link[e] = s.heap.link[e]
  BY <1>1, <1>2 DEF Heaps
<1> HIDE DEF k, y
<1>4. Chained(k, d)
  <2>1. \A i, j \in 1..n : d[i] = d[j] => i = j
    BY <1>1 DEF Chained
  <2>2. \A i \in 1..n : i < n => s.heap.link[d[i]] = d[i + 1]
    BY <1>1 DEF Chained
  <2>3. \A i \in 1..n : i < n => k.link[d[i]] = d[i + 1]
    <3> TAKE i \in 1..n
    <3> HAVE i < n
    <3>1. d[i] # d[n] /\ d[i] \in Cell
      BY <1>2, <2>1
    <3> QED
      BY <1>3, <2>2, <3>1
  <2>4. d # <<>>
    BY <1>1 DEF Chained
  <2> QED
    BY <1>1, <2>1, <2>3, <2>4 DEF Chained
<1>5. Cells(k, y) = d
  <2>1. k.link[d[Len(d)]] \in {NULL, d[1]}
    BY <1>1, <1>3
  <2> QED
    BY <1>1, <1>4, <2>1, CellsAre
<1>6. RolledBack(s.heap, copy, s.previous) = g
  <2>1. RolledBack(s.heap, copy, s.previous) = FreeSexEv(k, copy)
    BY <1>1 DEF RolledBack, k, y
  <2>2. Cells(k, k.se[copy]) = d
    BY <1>1, <1>3, <1>5 DEF y
  <2> QED
    BY <2>1, <2>2 DEF FreeSexEv
<1>7. /\ g \in Heaps /\ g.free = k.free \cup {copy} \cup ToSet(d) /\ g.ev = k.ev
      /\ g.se = k.se /\ g.link = k.link /\ g.bytes = k.bytes
  BY <1>2, <1>3 DEF Heaps
<1> HIDE DEF g
<1>8. g.free = h.free \cup {copy, y}
  BY <1>1, <1>2, <1>3, <1>7
<1>9. Unchanged(h, g, Cell \ (h.free \cup {copy, y}))
  BY <1>1, <1>2, <1>3, <1>7 DEF Unchanged
<1> QED
  BY <1>6, <1>7, <1>8, <1>9 DEF GivenUp, y

LEMMA CopyOneIs ==
  ASSUME NEW h \in Heaps, NEW copy \in Cell, h.se[copy] \in Cell, h.se[copy] \notin h.free,
         NEW c, NEW n \in Nat, n # 0, c[n + 1] \in Cell, NEW s, Copied(h, copy, c, n, s)
  PROVE  Copied(h, copy, c, n + 1, CopyOne(h, copy, c, s, n + 1))
<1> DEFINE u == CopyOne(h, copy, c, s, n + 1)
           y == h.se[copy]
<1>1. s = [heap |-> s.heap, previous |-> s.previous, ok |-> s.ok] /\ s.ok \in BOOLEAN
  BY DEF Copied
<1>2. CASE ~s.ok
  <2>1. u = s
    BY <1>2 DEF CopyOne
  <2> HIDE DEF u
  <2>2. Copied(h, copy, c, n + 1, s)
    BY <1>2 DEF Copied
  <2> QED
    BY <2>1, <2>2 DEF u
<1>3. CASE s.ok /\ s.heap.free = {}
  <2> DEFINE g == RolledBack(s.heap, copy, s.previous)
  <2>1. PICK d : CopyOf(h, y, c, n, s, d)
    BY <1>3 DEF Copied
  <2>2. GivenUp(h, copy, y, g)
    BY <2>1, RolledBackIs
  <2>3. u = [s EXCEPT !.ok = FALSE, !.heap = g]
    BY <1>3 DEF CopyOne
  <2> HIDE DEF g, u
  <2>4. u = [heap |-> g, previous |-> s.previous, ok |-> FALSE]
    BY <1>1, <2>3
  <2>5. u.heap = g /\ u.ok = FALSE /\ u = [heap |-> u.heap, previous |-> u.previous, ok |-> u.ok]
    BY <2>4
  <2> QED
    BY <2>2, <2>5 DEF Copied, u
<1>4. CASE s.ok /\ s.heap.free # {}
  <2>1. PICK d : CopyOf(h, y, c, n, s, d)
    BY <1>4 DEF Copied
  <2> DEFINE new == Next1(s.heap)
             t == Taken(s.heap)
             k == CopyLinked(h, c, s, n + 1, new)
             e == Append(d, new)
  <2>2. /\ d \in Seq(Cell) /\ Len(d) = n /\ d[1] = y
        /\ \A i, j \in 1..n : d[i] = d[j] => i = j
        /\ \A i \in 1..n : i < n => s.heap.link[d[i]] = d[i + 1]
        /\ s.previous = d[n] /\ s.heap \in Heaps /\ s.heap.ev = h.ev /\ s.heap.se = h.se
        /\ s.heap.free = h.free \ ToSet(d) /\ Unchanged(h, s.heap, Cell \ ToSet(d))
        /\ \A i \in 1..n : i > 1 => d[i] \in h.free /\ s.heap.bytes[d[i]] = h.bytes[c[i]]
        /\ s.heap.bytes[y] = h.bytes[y]
    BY <2>1 DEF CopyOf, Chained
  <2>3. /\ new \in s.heap.free /\ new \in Cell /\ t \in Heaps /\ t.free = s.heap.free \ {new}
        /\ t.ev = s.heap.ev /\ t.se = s.heap.se /\ t.link = s.heap.link
        /\ t.bytes = s.heap.bytes
    BY <1>4, <2>2, TakenIs
  <2>4. u = [s EXCEPT !.previous = new, !.heap = k]
    BY <1>4 DEF CopyOne
  <2>5. k = [t EXCEPT !.link[d[n]] = new, !.link[new] = h.link[c[n + 1]],
                      !.bytes[new] = h.bytes[c[n + 1]]]
    BY <2>2 DEF CopyLinked
  <2> HIDE DEF u, k, t, new
  <2>6. u = [heap |-> k, previous |-> new, ok |-> s.ok]
    BY <1>1, <2>4
  <2>7. u.heap = k /\ u.previous = new /\ u.ok = s.ok
        /\ u = [heap |-> u.heap, previous |-> u.previous, ok |-> u.ok]
    BY <2>6
  <2>8. /\ n \in 1..n /\ 1 \in 1..n /\ \A i \in 1..n : d[i] \in Cell /\ d[i] \in ToSet(d)
        /\ \A i \in 1..n : d[i] # new
        /\ new \in h.free /\ new # y /\ new \notin ToSet(d) /\ y \in ToSet(d)
    <3>1. n \in 1..n /\ 1 \in 1..n
      OBVIOUS
    <3>2. \A i \in 1..n : d[i] \in Cell /\ d[i] \in ToSet(d)
      BY <2>2 DEF ToSet
    <3>3. new \in h.free /\ new \notin ToSet(d)
      BY <2>2, <2>3
    <3> QED
      BY <2>2, <3>1, <3>2, <3>3
  <2>9. h.link[c[n + 1]] \in Cell \cup {NULL} /\ h.bytes[c[n + 1]] \in Contents
    BY DEF Heaps
  <2>10. /\ k \in Heaps /\ k.free = t.free /\ k.ev = t.ev /\ k.se = t.se
         /\ k.link[d[n]] = new /\ k.bytes[new] = h.bytes[c[n + 1]]
         /\ \A x \in Cell : x \notin {d[n], new} => k.link[x] = t.link[x]
         /\ \A x \in Cell : x # new => k.bytes[x] = t.bytes[x]
    BY <2>3, <2>5, <2>8, <2>9 DEF Heaps
  <2>11. /\ e \in Seq(Cell) /\ Len(e) = n + 1 /\ e[n + 1] = new /\ e # <<>>
         /\ \A i \in 1..n : e[i] = d[i]
    BY <2>2, <2>3, AppendProperties
  <2> HIDE DEF e
  <2>12. \A i \in 1..n + 1 : i \in 1..n \/ i = n + 1
    OBVIOUS
  <2>13. ToSet(e) = ToSet(d) \cup {new}
    <3>1. \A i \in 1..n + 1 : e[i] \in ToSet(d) \cup {new}
      BY <2>8, <2>11, <2>12
    <3>2. ToSet(e) \subseteq ToSet(d) \cup {new}
      BY <2>11, <3>1 DEF ToSet
    <3>3. \A i \in 1..n + 1 : e[i] \in ToSet(e)
      BY <2>11 DEF ToSet
    <3>4. \A i \in 1..n : i \in 1..n + 1 /\ d[i] = e[i]
      BY <2>11
    <3>5. \A i \in 1..n : d[i] \in ToSet(e)
      BY <3>3, <3>4
    <3>6. ToSet(d) \subseteq ToSet(e)
      BY <2>2, <3>5 DEF ToSet
    <3>7. n + 1 \in 1..n + 1
      OBVIOUS
    <3> QED
      BY <2>11, <3>2, <3>3, <3>6, <3>7
  <2>14. \A i, j \in 1..n + 1 : e[i] = e[j] => i = j
    BY <2>2, <2>8, <2>11, <2>12
  <2>15. \A i \in 1..n + 1 : i < n + 1 => k.link[e[i]] = e[i + 1]
    <3> TAKE i \in 1..n + 1
    <3> HAVE i < n + 1
    <3>1. i \in 1..n
      OBVIOUS
    <3>2. CASE i = n
      BY <2>10, <2>11, <3>1, <3>2
    <3>3. CASE i # n
      <4>1. i < n /\ i + 1 \in 1..n
        BY <3>1, <3>3
      <4>2. d[i] # d[n] /\ d[i] # new /\ d[i] \in Cell
        BY <2>2, <2>8, <3>1, <3>3
      <4>3. k.link[d[i]] = d[i + 1]
        BY <2>2, <2>3, <2>10, <3>1, <4>1, <4>2
      <4> QED
        BY <2>11, <3>1, <4>1, <4>3
    <3> QED
      BY <3>2, <3>3
  <2>16. Chained(k, e)
    BY <2>11, <2>14, <2>15 DEF Chained
  <2>17. \A i \in 1..n + 1 : i > 1 => e[i] \in h.free /\ k.bytes[e[i]] = h.bytes[c[i]]
    <3> TAKE i \in 1..n + 1
    <3> HAVE i > 1
    <3>1. CASE i = n + 1
      BY <2>8, <2>10, <2>11, <3>1
    <3>2. CASE i # n + 1
      <4>1. i \in 1..n
        BY <2>12, <3>2
      <4> QED
        BY <2>2, <2>3, <2>8, <2>10, <2>11, <4>1
    <3> QED
      BY <3>1, <3>2
  <2>18. k.bytes[y] = h.bytes[y] /\ e[1] = y
    BY <2>2, <2>3, <2>8, <2>10, <2>11
  <2>19. k.ev = h.ev /\ k.se = h.se /\ k.free = h.free \ ToSet(e)
    BY <2>2, <2>3, <2>10, <2>13
  <2>20. Unchanged(h, k, Cell \ ToSet(e))
    <3> SUFFICES ASSUME NEW x \in Cell, x \notin ToSet(e)
                 PROVE  /\ k.ev[x] = h.ev[x] /\ k.se[x] = h.se[x]
                        /\ k.link[x] = h.link[x] /\ k.bytes[x] = h.bytes[x]
      BY DEF Unchanged
    <3>1. x \notin ToSet(d) /\ x # new /\ x # d[n]
      BY <2>8, <2>13
    <3>2. s.heap.link[x] = h.link[x] /\ s.heap.bytes[x] = h.bytes[x]
      BY <2>2, <3>1 DEF Unchanged
    <3> QED
      BY <2>3, <2>10, <2>19, <3>1, <3>2
  <2>21. CopyOf(h, y, c, n + 1, u, e)
    BY <2>7, <2>10, <2>11, <2>16, <2>17, <2>18, <2>19, <2>20 DEF CopyOf
  <2>22. u.ok = TRUE
    BY <1>1, <1>4, <2>7
  <2> HIDE DEF y
  <2> QED
    BY <2>7, <2>21, <2>22 DEF Copied, u, y
<1> QED
  BY <1>1, <1>2, <1>3, <1>4

LEMMA CopyCellsIs ==
  ASSUME NEW h \in Heaps, NEW copy \in Cell, h.se[copy] \in Cell, h.se[copy] \notin h.free,
         NEW c \in Seq(Cell), c # <<>>
  PROVE  Copied(h, copy, c, Len(c), CopyCells(h, copy, c))
<1> DEFINE n == Len(c)
           y == h.se[copy]
<1>0. n \in Nat /\ n = Len(c) /\ n # 0
  OBVIOUS
<1>1. PICK f : CopiedTo(h, copy, c, n, f) /\ CopyCells(h, copy, c) = f[n]
  BY <1>0, CopyCellsAre
<1>c. \A i \in 1..n : c[i] \in Cell
  BY <1>0
<1> HIDE DEF n
<1>2. \A i \in 1..n : f[i] = IF i = 1 THEN NoneCopied(h, copy)
                             ELSE CopyOne(h, copy, c, f[i - 1], i)
  BY <1>1 DEF CopiedTo
<1> DEFINE T == {i \in 0..n : i # 0 => Copied(h, copy, c, i, f[i])}
<1>3. 0 \in T
  BY <1>0
<1>4. ASSUME NEW i \in 0..n, i \in T, i < n PROVE i + 1 \in T
  <2>1. i + 1 \in 0..n /\ i + 1 \in 1..n /\ (i + 1) - 1 = i /\ i \in Nat /\ (i = 0 <=> i + 1 = 1)
    BY <1>0, <1>4
  <2>2. CASE i = 0
    <3> DEFINE s == NoneCopied(h, copy)
               d == <<y>>
    <3>1. f[i + 1] = s /\ i + 1 = 1
      BY <1>2, <2>1, <2>2
    <3>2. s.heap = h /\ s.previous = y /\ s.ok = TRUE
          /\ s = [heap |-> s.heap, previous |-> s.previous, ok |-> s.ok]
      BY DEF NoneCopied
    <3> HIDE DEF s
    <3>3. d \in Seq(Cell) /\ Len(d) = 1 /\ d[1] = y /\ d # <<>> /\ ToSet(d) = {y}
      BY DEF ToSet
    <3> HIDE DEF d
    <3>4. Chained(h, d)
      BY <3>3 DEF Chained
    <3>5. h.free \ {y} = h.free
      OBVIOUS
    <3>6. CopyOf(h, y, c, 1, s, d)
      BY <3>2, <3>3, <3>4, <3>5 DEF CopyOf, Unchanged
    <3>7. Copied(h, copy, c, 1, s)
      BY <3>2, <3>6 DEF Copied
    <3> QED
      BY <2>1, <3>1, <3>7
  <2>3. CASE i # 0
    <3>1. Copied(h, copy, c, i, f[i])
      BY <1>4, <2>3
    <3>2. f[i + 1] = CopyOne(h, copy, c, f[i], i + 1) /\ c[i + 1] \in Cell
      BY <1>2, <1>c, <2>1, <2>3
    <3>3. Copied(h, copy, c, i + 1, f[i + 1])
      BY <2>1, <2>3, <3>1, <3>2, CopyOneIs
    <3> QED
      BY <2>1, <3>3
  <2> QED
    BY <2>2, <2>3
<1> HIDE DEF T
<1>5. 0..n \subseteq T
  BY <1>0, <1>3, <1>4, Induction
<1>6. n \in 0..n
  BY <1>0
<1>7. Copied(h, copy, c, n, f[n])
  BY <1>0, <1>5, <1>6 DEF T
<1> QED
  BY <1>0, <1>1, <1>7

LEMMA CopySexEvIs ==
  ASSUME NEW h \in Heaps, Cardinality(h.free) > 1, NEW x, NEW m, m.status = SysEx, NEW S,
         Event(h, x, m, S), S \cap h.free = {}
  PROVE  LET e == CopySexEv(h, x)
         IN /\ e.ok \in BOOLEAN
            /\ e.ok => \E T : Grown(h, e.heap, {}, T) /\ Event(e.heap, Next1(h), m, T)
            /\ ~e.ok => Grown(h, e.heap, h.free, {})
<1> DEFINE copy == Next1(h)
           y == Next1(Taken(h))
           t == Taken(Taken(h))
           k == CopyPrivateEv(h, x)
           e == CopyCells(k, copy, Cells(h, h.se[x]))
<1>0. PICK r : RingOf(h, x, r, S) /\ Joined(h, r) = m.data
  BY DEF Event
<1>1. /\ copy \in h.free /\ y \in h.free /\ copy # y /\ copy \in Cell /\ y \in Cell
      /\ t \in Heaps /\ t.free = h.free \ {copy, y}
      /\ t.ev = h.ev /\ t.se = h.se /\ t.link = h.link /\ t.bytes = h.bytes
  BY TwoTaken
<1>2. k = [t EXCEPT !.ev[copy] = h.ev[x], !.se[copy] = y, !.link[y] = h.link[h.se[x]],
                    !.bytes[y] = h.bytes[h.se[x]]]
  BY DEF CopyPrivateEv
<1>c. CopySexEv(h, x) = IF e.ok THEN [e EXCEPT !.heap.link[e.previous] = e.heap.se[copy]] ELSE e
  BY DEF CopySexEv
<1> HIDE DEF copy, y, t, k
<1>3. /\ x \in Cell /\ r \in Seq(Cell) /\ r # <<>> /\ h.se[x] = r[1] /\ r[1] \in Cell
      /\ h.ev[x].status = SysEx /\ Len(r) \in Nat /\ Len(r) # 0
      /\ \A i \in 1..Len(r) : r[i] \in Cell /\ r[i] \in S
      /\ S = {x} \cup ToSet(r) /\ Packed(h, r)
  <2>1. x \in Cell /\ r \in Seq(Cell) /\ r # <<>> /\ h.se[x] = r[1] /\ h.ev[x].status = SysEx
        /\ S = {x} \cup ToSet(r) /\ Packed(h, r)
    BY <1>0 DEF Event, RingOf, Ring, Chained
  <2>2. Len(r) \in Nat /\ Len(r) # 0
    BY <2>1
  <2>3. \A i \in 1..Len(r) : r[i] \in Cell /\ r[i] \in S
    BY <2>1 DEF ToSet
  <2>4. 1 \in 1..Len(r)
    BY <2>2
  <2> QED
    BY <2>1, <2>2, <2>3, <2>4
<1>4. Cells(h, h.se[x]) = r
  BY <1>0, RingCells
<1>5. /\ k \in Heaps /\ k.free = t.free /\ k.ev[copy] = h.ev[x] /\ k.se[copy] = y
      /\ k.bytes[y] = h.bytes[r[1]]
      /\ \A c \in Cell : c # copy => k.ev[c] = h.ev[c] /\ k.se[c] = h.se[c]
      /\ \A c \in Cell : c # y => k.link[c] = h.link[c] /\ k.bytes[c] = h.bytes[c]
  <2>1. /\ h.ev[x] \in Kept \cup {NULL} /\ h.link[r[1]] \in Cell \cup {NULL}
        /\ h.bytes[r[1]] \in Contents
    BY <1>3 DEF Heaps
  <2> QED
    BY <1>1, <1>2, <1>3, <2>1 DEF Heaps
<1>6. k.free = h.free \ {copy, y}
  BY <1>1, <1>5
<1> DEFINE n == Len(r)
<1>7. Copied(k, copy, r, n, e)
  <2>1. k.se[copy] \in Cell /\ k.se[copy] \notin k.free
    BY <1>1, <1>5, <1>6
  <2> QED
    BY <1>1, <1>3, <1>4, <1>5, <2>1, CopyCellsIs
<1> HIDE DEF e
<1>8. e.ok \in BOOLEAN /\ e = [heap |-> e.heap, previous |-> e.previous, ok |-> e.ok]
  BY <1>7 DEF Copied
<1>9. CASE ~e.ok
  <2>1. GivenUp(k, copy, y, e.heap)
    BY <1>5, <1>7, <1>9 DEF Copied
  <2>2. e.heap.free = h.free
    BY <1>1, <1>6, <2>1 DEF GivenUp
  <2>3. Unchanged(h, e.heap, Cell \ h.free)
    <3> SUFFICES ASSUME NEW c \in Cell, c \notin h.free
                 PROVE  /\ e.heap.ev[c] = h.ev[c] /\ e.heap.se[c] = h.se[c]
                        /\ e.heap.link[c] = h.link[c] /\ e.heap.bytes[c] = h.bytes[c]
      BY DEF Unchanged
    <3>1. c # copy /\ c # y /\ c \notin k.free \cup {copy, y}
      BY <1>1, <1>6
    <3> QED
      BY <1>5, <2>1, <3>1 DEF GivenUp, Unchanged
  <2>4. Grown(h, e.heap, h.free, {})
    BY <2>1, <2>2, <2>3 DEF Grown, GivenUp
  <2>5. CopySexEv(h, x) = e
    BY <1>c, <1>9
  <2> QED
    BY <1>8, <1>9, <2>4, <2>5
<1>10. CASE e.ok
  <2>1. PICK d : CopyOf(k, y, r, n, e, d)
    BY <1>5, <1>7, <1>10 DEF Copied
  <2>2. /\ d \in Seq(Cell) /\ Len(d) = n /\ d[1] = y /\ d # <<>>
        /\ \A i, j \in 1..n : d[i] = d[j] => i = j
        /\ \A i \in 1..n : i < n => e.heap.link[d[i]] = d[i + 1]
        /\ e.previous = d[n] /\ e.heap \in Heaps /\ e.heap.ev = k.ev /\ e.heap.se = k.se
        /\ e.heap.free = k.free \ ToSet(d) /\ Unchanged(k, e.heap, Cell \ ToSet(d))
        /\ \A i \in 1..n : i > 1 => d[i] \in k.free /\ e.heap.bytes[d[i]] = k.bytes[r[i]]
        /\ e.heap.bytes[y] = k.bytes[y]
    BY <2>1 DEF CopyOf, Chained
  <2>3. /\ n \in Nat /\ n \in 1..n /\ 1 \in 1..n /\ \A i \in 1..n : i = 1 \/ i > 1
        /\ \A i \in 1..n - 1 : i + 1 \in 1..n /\ i + 1 > 1
    BY <1>3
  <2> HIDE DEF n
  <2>4. /\ \A i \in 1..n : d[i] \in Cell /\ d[i] \in ToSet(d)
        /\ ToSet(d) \subseteq k.free \cup {y} /\ y \in ToSet(d) /\ copy \notin ToSet(d)
    <3>1. \A i \in 1..n : d[i] \in Cell /\ d[i] \in ToSet(d)
      BY <2>2 DEF ToSet
    <3>2. \A i \in 1..n : d[i] \in k.free \cup {y}
      BY <2>2, <2>3
    <3>3. ToSet(d) \subseteq k.free \cup {y}
      BY <2>2, <3>2 DEF ToSet
    <3> QED
      BY <1>1, <1>6, <2>2, <2>3, <3>1, <3>3
  <2> DEFINE q == CopySexEv(h, x)
             g == q.heap
  <2>5. q = [e EXCEPT !.heap.link[d[n]] = y]
    <3>1. e.heap.se[copy] = y
      BY <1>5, <2>2
    <3> QED
      BY <1>c, <1>10, <2>2, <3>1
  <2>6. q.ok = e.ok /\ g = [e.heap EXCEPT !.link[d[n]] = y]
    <3> HIDE DEF q
    <3> QED
      BY <1>8, <2>5
  <2> HIDE DEF g
  <2>7. /\ g \in Heaps /\ g.free = e.heap.free /\ g.ev = k.ev /\ g.se = k.se
        /\ g.bytes = e.heap.bytes /\ g.link[d[n]] = y
        /\ \A c \in Cell : c # d[n] => g.link[c] = e.heap.link[c]
    BY <1>1, <2>2, <2>3, <2>4, <2>6 DEF Heaps
  <2>8. \A i \in 1..n : i < n => g.link[d[i]] = d[i + 1]
    <3> TAKE i \in 1..n
    <3> HAVE i < n
    <3>1. d[i] # d[n] /\ d[i] \in Cell
      BY <2>2, <2>3, <2>4
    <3> QED
      BY <2>2, <2>7, <3>1
  <2>9. Ring(g, d)
    BY <2>2, <2>7, <2>8 DEF Ring, Chained
  <2>10. \A i \in 1..n : g.bytes[d[i]] = h.bytes[r[i]]
    <3> TAKE i \in 1..n
    <3>1. CASE i = 1
      BY <1>5, <2>2, <2>7, <3>1
    <3>2. CASE i > 1
      <4>1. r[i] # y /\ r[i] \in Cell
        <5>1. r[i] \in S /\ r[i] \in Cell
          BY <1>3 DEF n
        <5> QED
          BY <1>1, <5>1
      <4> QED
        BY <1>5, <2>2, <2>7, <3>2, <4>1
    <3> QED
      BY <2>3, <3>1, <3>2
  <2>11. Packed(g, d) /\ Joined(g, d) = m.data
    <3>1. \A i \in 1..n : i > 1 => Len(h.bytes[r[i]]) = Room
      BY <1>3 DEF Packed, n
    <3>2. Packed(g, d)
      BY <1>3, <2>2, <2>3, <2>10, <3>1 DEF Packed
    <3>3. Behind(g, d) = Behind(h, r)
      BY <2>2, <2>3, <2>10 DEF Behind, n
    <3> QED
      BY <1>0, <2>3, <2>10, <3>2, <3>3 DEF Joined
  <2> DEFINE T == {copy} \cup ToSet(d)
  <2>12. RingOf(g, copy, d, T)
    BY <1>3, <1>5, <2>2, <2>4, <2>7, <2>9, <2>11 DEF RingOf
  <2>13. Event(g, copy, m, T)
    BY <1>1, <2>11, <2>12 DEF Event
  <2>14. T \subseteq h.free /\ g.free = h.free \ T
    BY <1>1, <1>6, <2>2, <2>4, <2>7
  <2>15. Unchanged(h, g, Cell \ T)
    <3> SUFFICES ASSUME NEW c \in Cell, c \notin T
                 PROVE  /\ g.ev[c] = h.ev[c] /\ g.se[c] = h.se[c]
                        /\ g.link[c] = h.link[c] /\ g.bytes[c] = h.bytes[c]
      BY DEF Unchanged
    <3>1. c # copy /\ c # y /\ c \notin ToSet(d) /\ c # d[n]
      BY <2>3, <2>4
    <3>2. e.heap.link[c] = k.link[c] /\ e.heap.bytes[c] = k.bytes[c]
      BY <2>2, <3>1 DEF Unchanged
    <3> QED
      BY <1>5, <2>7, <3>1, <3>2
  <2>16. Grown(h, g, {}, T)
    BY <2>7, <2>14, <2>15 DEF Grown
  <2> HIDE DEF T, q
  <2>17. q.ok /\ q.ok \in BOOLEAN
    BY <1>8, <1>10, <2>6
  <2> QED
    BY <2>13, <2>16, <2>17 DEF q, g, copy
<1> QED
  BY <1>8, <1>9, <1>10

(***************************************************************************)
(* The stream of a message being sent.                                     *)
(***************************************************************************)
\* The cells of S are those of the list that begins with y.
Line(h, y, S) ==
  \/ y = NULL /\ S = {}
  \/ \E r : /\ Chained(h, r) /\ h.link[r[Len(r)]] = NULL /\ y = r[1] /\ S = ToSet(r)
            /\ Len(h.bytes[r[Len(r)]]) < Room
            /\ \A i \in 1..Len(r) : i < Len(r) => Len(h.bytes[r[i]]) = Room

LEMMA LineFrame ==
  ASSUME NEW h, NEW g, NEW y, NEW S, Line(h, y, S), Unchanged(h, g, S)
  PROVE  Line(g, y, S)
<1>1. CASE y = NULL /\ S = {}
  BY <1>1 DEF Line
<1>2. CASE ~ (y = NULL /\ S = {})
  <2>1. PICK r : /\ Chained(h, r) /\ h.link[r[Len(r)]] = NULL /\ y = r[1] /\ S = ToSet(r)
                 /\ Len(h.bytes[r[Len(r)]]) < Room
                 /\ \A i \in 1..Len(r) : i < Len(r) => Len(h.bytes[r[i]]) = Room
    BY <1>2 DEF Line
  <2>2. Len(r) \in Nat /\ Len(r) # 0 /\ r \in Seq(Cell)
    BY <2>1 DEF Chained
  <2>3. \A i \in 1..Len(r) : r[i] \in S
    BY <2>1, <2>2 DEF ToSet
  <2>4. \A i \in 1..Len(r) : g.link[r[i]] = h.link[r[i]] /\ g.bytes[r[i]] = h.bytes[r[i]]
    BY <2>3 DEF Unchanged
  <2>5. Len(r) \in 1..Len(r)
    BY <2>2
  <2>6. Chained(g, r)
    BY <2>1, <2>4 DEF Chained
  <2> QED
    BY <2>1, <2>4, <2>5, <2>6 DEF Line
<1> QED
  BY <1>1, <1>2

LEMMA LineCells ==
  ASSUME NEW h, NEW y, NEW S, Line(h, y, S), y # NULL
  PROVE  ToSet(Cells(h, y)) = S /\ S \subseteq Cell /\ y \in S
<1>1. PICK r : Chained(h, r) /\ h.link[r[Len(r)]] = NULL /\ y = r[1] /\ S = ToSet(r)
  BY DEF Line
<1>2. Cells(h, y) = r
  BY <1>1, CellsAre
<1>3. r \in Seq(Cell) /\ 1 \in 1..Len(r)
  BY <1>1 DEF Chained
<1>4. S \subseteq Cell /\ y \in S
  BY <1>1, <1>3 DEF ToSet
<1> QED
  BY <1>1, <1>2, <1>4

\* The first cell of a list is followed by the others.
LEMMA LineTail ==
  ASSUME NEW h, NEW y, NEW S, Line(h, y, S), y # NULL
  PROVE  /\ Line(h, h.link[y], S \ {y})
         /\ h.link[y] = NULL => Len(h.bytes[y]) < Room
         /\ h.link[y] # NULL => Len(h.bytes[y]) = Room
<1>1. PICK r : /\ Chained(h, r) /\ h.link[r[Len(r)]] = NULL /\ y = r[1] /\ S = ToSet(r)
               /\ Len(h.bytes[r[Len(r)]]) < Room
               /\ \A i \in 1..Len(r) : i < Len(r) => Len(h.bytes[r[i]]) = Room
  BY DEF Line
<1> DEFINE n == Len(r)
           q == [i \in 1..n - 1 |-> r[i + 1]]
<1>2. /\ r \in Seq(Cell) /\ n \in Nat /\ n # 0 /\ \A i \in 1..n : r[i] \in Cell
      /\ \A i, j \in 1..n : r[i] = r[j] => i = j
      /\ \A i \in 1..n : i < n => h.link[r[i]] = r[i + 1]
      /\ 1 \in 1..n /\ n \in 1..n
  <2>1. r \in Seq(Cell) /\ r # <<>>
    BY <1>1 DEF Chained
  <2>2. n \in Nat /\ n # 0 /\ \A i \in 1..n : r[i] \in Cell
    BY <2>1
  <2>3. 1 \in 1..n /\ n \in 1..n
    BY <2>2
  <2> QED
    BY <1>1, <2>1, <2>2, <2>3 DEF Chained
<1>3. \A e : e \in S <=> \E i \in 1..n : e = r[i]
  BY <1>1, <1>2 DEF ToSet
<1>4. CASE n = 1
  <2>1. S = {y}
    BY <1>1, <1>3, <1>4
  <2> QED
    BY <1>1, <1>4, <2>1 DEF Line
<1>5. CASE n # 1
  <2>1. /\ n - 1 \in Nat /\ n - 1 # 0 /\ 1 < n
        /\ \A i \in 1..n - 1 : i + 1 \in 1..n /\ i + 1 # 1
        /\ n - 1 \in 1..n - 1 /\ (n - 1) + 1 = n /\ 1 \in 1..n - 1
    <3>1. n \in Nat /\ n # 0 /\ n # 1
      BY <1>2, <1>5
    <3> HIDE DEF n
    <3> QED
      BY <3>1
  <2> HIDE DEF n
  <2>2. q \in Seq(Cell) /\ Len(q) = n - 1 /\ \A i \in 1..n - 1 : q[i] = r[i + 1]
    BY <1>2, <2>1
  <2>3. q # <<>>
    BY <2>1, <2>2
  <2> HIDE DEF q
  <2>4. \A i, j \in 1..n - 1 : q[i] = q[j] => i = j
    <3> TAKE i, j \in 1..n - 1
    <3> HAVE q[i] = q[j]
    <3>1. r[i + 1] = r[j + 1] /\ i + 1 \in 1..n /\ j + 1 \in 1..n
      BY <2>1, <2>2
    <3>2. i + 1 = j + 1
      BY <1>2, <3>1
    <3> QED
      BY <3>2
  <2>5. \A i \in 1..n - 1 : i < n - 1 => h.link[q[i]] = q[i + 1]
    <3> TAKE i \in 1..n - 1
    <3> HAVE i < n - 1
    <3>1. i + 1 \in 1..n - 1 /\ i + 1 \in 1..n /\ i + 1 < n
      BY <2>1
    <3> QED
      BY <1>2, <2>2, <3>1
  <2>6. Chained(h, q)
    BY <2>2, <2>3, <2>4, <2>5 DEF Chained
  <2>7. q[n - 1] = r[n] /\ q[1] = h.link[y]
    <3>1. 1 + 1 = 2 /\ h.link[r[1]] = r[1 + 1]
      BY <1>2, <2>1
    <3> QED
      BY <1>1, <2>1, <2>2, <3>1
  <2>8. \A e : e \in ToSet(q) <=> \E i \in 1..n - 1 : e = q[i]
    BY <2>2 DEF ToSet
  <2>9. ToSet(q) = S \ {y}
    <3>1. ASSUME NEW e \in ToSet(q) PROVE e \in S \ {y}
      <4>1. PICK i \in 1..n - 1 : e = r[i + 1]
        BY <2>2, <2>8
      <4> QED
        BY <1>1, <1>2, <1>3, <2>1, <4>1
    <3>2. ASSUME NEW e \in S, e # y PROVE e \in ToSet(q)
      <4>1. PICK i \in 1..n : e = r[i]
        BY <1>3
      <4>2. i # 1
        BY <1>1, <3>2, <4>1
      <4>3. i - 1 \in 1..n - 1 /\ (i - 1) + 1 = i
        BY <1>2, <4>2
      <4>4. q[i - 1] = e
        BY <2>2, <4>1, <4>3
      <4> QED
        BY <2>8, <4>3, <4>4
    <3> QED
      BY <3>1, <3>2
  <2>10. h.link[q[Len(q)]] = NULL /\ Len(h.bytes[q[Len(q)]]) < Room
    BY <1>1, <2>2, <2>7 DEF n
  <2>12. \A i \in 1..Len(q) : i < Len(q) => Len(h.bytes[q[i]]) = Room
    <3> SUFFICES ASSUME NEW i \in 1..n - 1, i < n - 1 PROVE Len(h.bytes[q[i]]) = Room
      BY <2>2
    <3>1. i + 1 \in 1..n /\ i + 1 < n /\ q[i] = r[i + 1]
      BY <2>1, <2>2
    <3> QED
      BY <1>1, <3>1 DEF n
  <2>13. Len(h.bytes[y]) = Room
    BY <1>1, <1>2, <2>1 DEF n
  <2>11. h.link[y] # NULL
    <3>1. q[1] \in Cell
      BY <2>1, <2>2
    <3> QED
      BY <2>7, <3>1, StreamsAssumption
  <2> QED
    BY <2>6, <2>7, <2>9, <2>10, <2>11, <2>12, <2>13 DEF Line
<1> QED
  BY <1>4, <1>5

\* A ring whose last cell is told so is a list from its first cell on.
OpenedTo(h, x, S, g) ==
  /\ g \in Heaps /\ g.free = h.free /\ g.ev = h.ev /\ g.se = h.se /\ g.bytes = h.bytes
  /\ \A c \in Cell : c # h.se[x] => g.link[c] = h.link[c]
  /\ Line(g, h.link[h.se[x]], S \ {x})
  /\ h.link[h.se[x]] \in Cell
  /\ h.link[h.se[x]] = h.se[x] => Len(h.bytes[h.se[x]]) < Room
  /\ \A c \in S \ {x} : h.link[c] # NULL

\* The cells of the ring r, from the first on.
Turned(r) == [i \in 1..Len(r) |-> IF i = Len(r) THEN r[1] ELSE r[i + 1]]
TurnedTo(h, x, r, g) ==
  /\ Chained(g, Turned(r)) /\ g.link[Turned(r)[Len(Turned(r))]] = NULL
  /\ Turned(r)[1] = h.link[h.se[x]]

LEMMA RingOpened ==
  ASSUME NEW h \in Heaps, NEW x, NEW r, NEW S, RingOf(h, x, r, S)
  PROVE  /\ OpenedTo(h, x, S, [h EXCEPT !.link[h.se[x]] = NULL])
         /\ TurnedTo(h, x, r, [h EXCEPT !.link[h.se[x]] = NULL])
<1> DEFINE g == [h EXCEPT !.link[h.se[x]] = NULL]
<1>0. g = [h EXCEPT !.link[h.se[x]] = NULL]
  OBVIOUS
<1> HIDE DEF g
<1> DEFINE n == Len(r)
           last == r[1]
           q == [i \in 1..n |-> IF i = n THEN last ELSE r[i + 1]]
<1>1. /\ r \in Seq(Cell) /\ n \in Nat /\ n # 0 /\ \A i \in 1..n : r[i] \in Cell
      /\ \A i, j \in 1..n : r[i] = r[j] => i = j
      /\ \A i \in 1..n : i < n => h.link[r[i]] = r[i + 1]
      /\ 1 \in 1..n /\ n \in 1..n
      /\ h.link[r[n]] = last /\ h.se[x] = last /\ Len(h.bytes[last]) < Room
      /\ S \ {x} = ToSet(r)
  <2>1. r \in Seq(Cell) /\ r # <<>>
    BY DEF RingOf, Ring, Chained
  <2>2. n \in Nat /\ n # 0 /\ \A i \in 1..n : r[i] \in Cell
    BY <2>1
  <2>3. 1 \in 1..n /\ n \in 1..n
    BY <2>2
  <2> QED
    BY <2>1, <2>2, <2>3 DEF RingOf, Ring, Chained, Packed
<1>2. /\ g \in Heaps /\ g.free = h.free /\ g.ev = h.ev /\ g.se = h.se /\ g.bytes = h.bytes
      /\ g.link[last] = NULL /\ \A c \in Cell : c # last => g.link[c] = h.link[c]
  <2>1. g = [h EXCEPT !.link = [h.link EXCEPT ![last] = NULL]]
    BY <1>0, <1>1
  <2>2. [h.link EXCEPT ![last] = NULL] \in [Cell -> Cell \cup {NULL}]
    BY <1>1 DEF Heaps
  <2> DEFINE f == [h.link EXCEPT ![last] = NULL]
  <2>3. f[last] = NULL /\ \A c \in Cell : c # last => f[c] = h.link[c]
    BY <1>1 DEF Heaps
  <2> HIDE DEF f
  <2>4. g = [h EXCEPT !.link = f] /\ f \in [Cell -> Cell \cup {NULL}]
    BY <2>1, <2>2 DEF f
  <2> QED
    BY <2>3, <2>4 DEF Heaps
<1>3. \A i \in 1..n : i # n => i + 1 \in 1..n /\ i < n /\ i + 1 # 1
  BY <1>1
<1>15. q = Turned(r)
  BY DEF Turned
<1>4. /\ q \in Seq(Cell) /\ Len(q) = n /\ q # <<>> /\ q[n] = last
      /\ \A i \in 1..n : i # n => q[i] = r[i + 1]
  <2>1. \A i \in 1..n : q[i] \in Cell
    BY <1>1, <1>3
  <2>2. q \in Seq(Cell) /\ Len(q) = n
    BY <1>1, <2>1
  <2>3. q[n] = last /\ \A i \in 1..n : i # n => q[i] = r[i + 1]
    BY <1>1
  <2> HIDE DEF q
  <2>4. q # <<>>
    BY <1>1, <2>2
  <2> QED
    BY <2>2, <2>3, <2>4
<1> HIDE DEF q, n
<1>5. \A i, j \in 1..n : q[i] = q[j] => i = j
  <2> TAKE i, j \in 1..n
  <2> HAVE q[i] = q[j]
  <2>1. CASE i = n /\ j # n
    BY <1>1, <1>3, <1>4, <2>1
  <2>2. CASE i # n /\ j = n
    BY <1>1, <1>3, <1>4, <2>2
  <2>3. CASE i # n /\ j # n
    <3>1. r[i + 1] = r[j + 1]
      BY <1>4, <2>3
    <3>2. i + 1 = j + 1
      BY <1>1, <1>3, <2>3, <3>1
    <3> QED
      BY <3>2
  <2> QED
    BY <2>1, <2>2, <2>3
<1>6. \A i \in 1..n : i < n => g.link[q[i]] = q[i + 1]
  <2> TAKE i \in 1..n
  <2> HAVE i < n
  <2>1. i # n /\ i + 1 \in 1..n /\ i + 1 # 1
    BY <1>1, <1>3
  <2>2. q[i] = r[i + 1] /\ r[i + 1] # last /\ r[i + 1] \in Cell
    BY <1>1, <1>4, <2>1
  <2>3. g.link[q[i]] = h.link[r[i + 1]]
    BY <1>2, <2>2
  <2>4. CASE i + 1 = n
    BY <1>1, <1>4, <2>3, <2>4
  <2>5. CASE i + 1 # n
    <3>1. i + 1 < n
      BY <1>1, <2>1, <2>5
    <3> QED
      BY <1>1, <1>4, <2>1, <2>3, <2>5, <3>1
  <2> QED
    BY <2>4, <2>5
<1>7. Chained(g, q)
  BY <1>4, <1>5, <1>6 DEF Chained
<1>8. q[1] = h.link[last]
  <2>1. CASE n = 1
    BY <1>1, <1>4, <2>1
  <2>2. CASE n # 1
    <3>1. 1 < n
      BY <1>1, <2>2
    <3> QED
      BY <1>1, <1>4, <2>2, <3>1
  <2> QED
    BY <2>1, <2>2
<1>9. ToSet(q) = ToSet(r)
  <2>1. (\A e : e \in ToSet(q) <=> \E i \in 1..n : e = q[i])
        /\ (\A e : e \in ToSet(r) <=> \E i \in 1..n : e = r[i])
    BY <1>1, <1>4 DEF ToSet, n
  <2>2. ASSUME NEW e \in ToSet(q) PROVE e \in ToSet(r)
    <3>1. PICK i \in 1..n : e = q[i]
      BY <2>1
    <3> QED
      BY <1>1, <1>3, <1>4, <2>1, <3>1
  <2>3. ASSUME NEW e \in ToSet(r) PROVE e \in ToSet(q)
    <3>1. PICK i \in 1..n : e = r[i]
      BY <2>1
    <3>2. CASE i = 1
      BY <1>1, <1>4, <2>1, <3>1, <3>2
    <3>3. CASE i # 1
      <4>1. i - 1 \in 1..n /\ i - 1 # n /\ (i - 1) + 1 = i
        BY <1>1, <3>3
      <4>2. q[i - 1] = e
        BY <1>4, <3>1, <4>1
      <4> QED
        BY <2>1, <4>1, <4>2
    <3> QED
      BY <3>2, <3>3
  <2> QED
    BY <2>2, <2>3
<1>10. Line(g, h.link[last], S \ {x})
  <2>1. g.link[q[Len(q)]] = NULL /\ Len(g.bytes[q[Len(q)]]) < Room
    BY <1>1, <1>2, <1>4
  <2>2. \A i \in 1..n : i # 1 => Len(h.bytes[r[i]]) = Room
    <3> SUFFICES ASSUME NEW i \in 1..n, i # 1 PROVE Len(h.bytes[r[i]]) = Room
      OBVIOUS
    <3>1. i > 1
      BY <1>1
    <3>2. Packed(h, r) /\ i \in 1..Len(r)
      BY DEF RingOf, n
    <3> QED
      BY <3>1, <3>2 DEF Packed
  <2>3. \A i \in 1..Len(q) : i < Len(q) => Len(g.bytes[q[i]]) = Room
    <3> SUFFICES ASSUME NEW i \in 1..n, i < n PROVE Len(h.bytes[q[i]]) = Room
      BY <1>2, <1>4
    <3>1. i # n /\ i + 1 \in 1..n /\ i + 1 # 1
      BY <1>1
    <3> QED
      BY <1>4, <2>2, <3>1
  <2> QED
    BY <1>1, <1>7, <1>8, <1>9, <2>1, <2>3 DEF Line
<1>11. h.link[last] \in Cell
  BY <1>1, <1>4, <1>8
<1>13. \A c \in S \ {x} : h.link[c] # NULL
  <2> TAKE c \in S \ {x}
  <2>1. PICK i \in 1..n : c = r[i]
    BY <1>1 DEF ToSet, n
  <2>2. h.link[c] \in Cell
    <3>1. CASE i = n
      BY <1>1, <2>1, <3>1
    <3>2. CASE i # n
      BY <1>1, <1>3, <2>1, <3>2
    <3> QED
      BY <3>1, <3>2
  <2> QED
    BY <2>2, StreamsAssumption
<1>14. OpenedTo(h, x, S, g)
  BY <1>1, <1>2, <1>10, <1>11, <1>13 DEF OpenedTo
<1>16. TurnedTo(h, x, r, g)
  BY <1>1, <1>2, <1>4, <1>7, <1>8, <1>15 DEF TurnedTo
<1> QED
  BY <1>14, <1>16 DEF g

(***************************************************************************)
(* The owner of each cell.                                                 *)
(***************************************************************************)
OfFree == -1
OfOut == -2
OfNone == -3
Shares == [Cell -> Cell \cup {OfFree, OfOut, OfNone}]

Of(w, k) == {c \in Cell : w[c] = k}

\* The heap h is shared out, by w, among the free list, the events o of the
\* sender, the list from y on and the event c of the parser; nothing is lost if e is 0.
Apportioned(h, o, y, c, w, e) ==
  /\ h \in Heaps /\ o \in [Cell -> Kept \cup {None}] /\ w \in Shares
  /\ Of(w, OfFree) = h.free
  /\ \A x \in Cell : o[x] # None => Event(h, x, o[x], Of(w, x))
  /\ Line(h, y, Of(w, OfOut))
  /\ c # NULL => c \in Cell /\ o[c] = None /\ \E d : Event(h, c, Message(SysEx, d), Of(w, c))
  /\ \A x \in Cell : w[x] \in Cell => o[w[x]] # None \/ w[x] = c
  /\ e = 0 => Of(w, OfNone) = {}

LEMMA OwnersDiffer ==
  /\ OfFree \notin Cell /\ OfOut \notin Cell /\ OfNone \notin Cell /\ NULL \notin Cell
  /\ OfFree # OfOut /\ OfFree # OfNone /\ OfOut # OfNone
BY StreamsAssumption DEF OfFree, OfOut, OfNone

LEMMA NotKept == None \notin Kept
<1>1. \A m \in Kept : m.status # 0
  <2>1. \A s, d : Message(s, d).status = s
    BY DEF Message
  <2>2. NoteOn # 0 /\ ControlChg # 0 /\ Note # 0 /\ ProgramChg # 0 /\ MClock # 0
        /\ Ctrl14b # 0 /\ SysEx # 0
    BY DEF NoteOn, ControlChg, Note, ProgramChg, MClock, Ctrl14b, SysEx
  <2>3. ASSUME NEW m \in SmallMessages PROVE m.status # 0
    <3> DEFINE A == {Message(s, d) : s \in {NoteOn, ControlChg, Note}, d \in Data \X Data}
               B == {Message(ProgramChg, <<v>>) : v \in Data}
               C == {Message(Ctrl14b, d) : d \in Data \X Data \X Data \X Data}
    <3>0. m \in A \/ m \in B \/ m = Message(MClock, <<>>) \/ m \in C
      BY DEF SmallMessages
    <3>1. CASE m \in A
      BY <2>1, <2>2, <3>1
    <3>2. CASE m \in B \/ m = Message(MClock, <<>>)
      BY <2>1, <2>2, <3>2
    <3>3. CASE m \in C
      BY <2>1, <2>2, <3>3
    <3> HIDE DEF A, B, C
    <3> QED
      BY <3>0, <3>1, <3>2, <3>3
  <2>4. ASSUME NEW d \in Seq(Data) PROVE Message(SysEx, d).status # 0
    BY <2>1, <2>2
  <2> QED
    BY <2>3, <2>4 DEF Kept
<1>2. None.status = 0
  BY DEF None, Message
<1> QED
  BY <1>1, <1>2

\* A header is its own.
LEMMA HeaderOwned ==
  ASSUME NEW h, NEW o, NEW y, NEW c, NEW w, NEW e, Apportioned(h, o, y, c, w, e)
  PROVE  /\ \A x \in Cell : o[x] # None => w[x] = x /\ x \notin h.free
         /\ c # NULL => w[c] = c /\ c \notin h.free
<1>1. ASSUME NEW x \in Cell, o[x] # None PROVE w[x] = x /\ x \notin h.free
  <2>1. Event(h, x, o[x], Of(w, x))
    BY <1>1 DEF Apportioned
  <2>2. x \in Of(w, x)
    BY <2>1, EventCells
  <2>3. w[x] = x
    BY <2>2 DEF Of
  <2>4. x \notin Of(w, OfFree)
    BY <2>3, OwnersDiffer DEF Of
  <2> QED
    BY <2>3, <2>4 DEF Apportioned
<1>2. ASSUME c # NULL PROVE w[c] = c /\ c \notin h.free
  <2>1. PICK d : Event(h, c, Message(SysEx, d), Of(w, c))
    BY <1>2 DEF Apportioned
  <2>2. c \in Of(w, c)
    BY <2>1, EventCells
  <2>3. w[c] = c /\ c \in Cell
    BY <2>2 DEF Of
  <2>4. c \notin Of(w, OfFree)
    BY <2>3, OwnersDiffer DEF Of
  <2> QED
    BY <2>3, <2>4 DEF Apportioned
<1> QED
  BY <1>1, <1>2

\* What changes hands: for every owner, either nothing has changed, or what it
\* has now is right.
OwnsRight(h, o, w, g, p, v) ==
  \A x \in Cell : p[x] # None =>
    \/ p[x] = o[x] /\ Of(v, x) = Of(w, x) /\ Unchanged(h, g, Of(w, x))
    \/ Event(g, x, p[x], Of(v, x))

LineRight(h, y, w, g, z, v) ==
  \/ z = y /\ Of(v, OfOut) = Of(w, OfOut) /\ Unchanged(h, g, Of(w, OfOut))
  \/ Line(g, z, Of(v, OfOut))

ParserRight(h, c, w, g, p, b, v) ==
  b # NULL => /\ b \in Cell /\ p[b] = None
              /\ \/ b = c /\ Of(v, b) = Of(w, b) /\ Unchanged(h, g, Of(w, b))
                 \/ \E d : Event(g, b, Message(SysEx, d), Of(v, b))

AllOwned(p, b, v) == \A x \in Cell : v[x] \in Cell => p[v[x]] # None \/ v[x] = b

NoneLost(v, f) == f = 0 => Of(v, OfNone) = {}

LEMMA Reshared ==
  ASSUME NEW h, NEW o, NEW y, NEW c, NEW w, NEW e, Apportioned(h, o, y, c, w, e),
         NEW g \in Heaps, NEW p \in [Cell -> Kept \cup {None}], NEW z, NEW b,
         NEW v \in Shares, NEW f, Of(v, OfFree) = g.free, OwnsRight(h, o, w, g, p, v),
         LineRight(h, y, w, g, z, v), ParserRight(h, c, w, g, p, b, v),
         AllOwned(p, b, v), NoneLost(v, f)
  PROVE  Apportioned(g, p, z, b, v, f)
<1>1. ASSUME NEW x \in Cell, p[x] # None PROVE Event(g, x, p[x], Of(v, x))
  <2>1. CASE p[x] = o[x] /\ Of(v, x) = Of(w, x) /\ Unchanged(h, g, Of(w, x))
    <3>1. Event(h, x, o[x], Of(w, x))
      BY <1>1, <2>1 DEF Apportioned
    <3>2. Event(g, x, o[x], Of(w, x))
      BY <2>1, <3>1, EventFrame
    <3> QED
      BY <2>1, <3>2
  <2> QED
    BY <1>1, <2>1 DEF OwnsRight
<1>2. Line(g, z, Of(v, OfOut))
  <2>1. CASE z = y /\ Of(v, OfOut) = Of(w, OfOut) /\ Unchanged(h, g, Of(w, OfOut))
    <3>1. Line(h, y, Of(w, OfOut))
      BY DEF Apportioned
    <3>2. Line(g, y, Of(w, OfOut))
      BY <2>1, <3>1, LineFrame
    <3> QED
      BY <2>1, <3>2
  <2> QED
    BY <2>1 DEF LineRight
<1>3. ASSUME b # NULL PROVE \E d : Event(g, b, Message(SysEx, d), Of(v, b))
  <2>1. CASE b = c /\ Of(v, b) = Of(w, b) /\ Unchanged(h, g, Of(w, b))
    <3>1. PICK d : Event(h, c, Message(SysEx, d), Of(w, c))
      BY <1>3, <2>1 DEF Apportioned
    <3>2. Event(g, c, Message(SysEx, d), Of(w, c))
      BY <2>1, <3>1, EventFrame
    <3> QED
      BY <2>1, <3>2
  <2> QED
    BY <1>3, <2>1 DEF ParserRight
<1>4. b # NULL => b \in Cell /\ p[b] = None
  BY DEF ParserRight
<1> QED
  BY <1>1, <1>2, <1>3, <1>4 DEF Apportioned, AllOwned, NoneLost

\* Nothing changes hands.
LEMMA SameShares ==
  ASSUME NEW h, NEW o, NEW y, NEW c, NEW w, NEW e, Apportioned(h, o, y, c, w, e),
         NEW g \in Heaps, g.free = h.free, Unchanged(h, g, Cell \ h.free)
  PROVE  Apportioned(g, o, y, c, w, e)
<1>1. \A k : k # OfFree => Unchanged(h, g, Of(w, k))
  <2> TAKE k
  <2> HAVE k # OfFree
  <2>1. Of(w, k) \subseteq Cell \ h.free
    BY DEF Of, Apportioned
  <2> QED
    BY <2>1 DEF Unchanged
<1>2. (\A x \in Cell : x # OfFree) /\ OfOut # OfFree
  BY OwnersDiffer
<1>3. /\ \A x \in Cell : Unchanged(h, g, Of(w, x))
      /\ Unchanged(h, g, Of(w, OfOut))
  BY <1>1, <1>2
<1>4. /\ o \in [Cell -> Kept \cup {None}] /\ w \in Shares /\ Of(w, OfFree) = g.free
      /\ AllOwned(o, c, w) /\ NoneLost(w, e)
  BY DEF Apportioned, AllOwned, NoneLost
<1>5. OwnsRight(h, o, w, g, o, w) /\ LineRight(h, y, w, g, y, w)
  BY <1>3 DEF OwnsRight, LineRight
<1>6. ParserRight(h, c, w, g, o, c, w)
  <2>1. c # NULL => c \in Cell /\ o[c] = None
    BY DEF Apportioned
  <2> QED
    BY <1>3, <2>1 DEF ParserRight
<1> QED
  BY <1>4, <1>5, <1>6, Reshared

\* Free cells become cells of k.
Given(w, T, k) == [c \in Cell |-> IF c \in T THEN k ELSE w[c]]

LEMMA GivenOf ==
  ASSUME NEW w, NEW T, T \subseteq Cell, NEW k
  PROVE  /\ Of(Given(w, T, k), k) = Of(w, k) \cup T
         /\ \A l : l # k => Of(Given(w, T, k), l) = Of(w, l) \ T
BY DEF Of, Given

LEMMA FreeApart ==
  ASSUME NEW h, NEW o, NEW y, NEW c, NEW w, NEW e, Apportioned(h, o, y, c, w, e)
  PROVE  h.free \subseteq Cell /\ \A k : k # OfFree => Of(w, k) \cap h.free = {}
BY DEF Apportioned, Of, Heaps

\* A new event of the sender.
LEMMA OwnGrows ==
  ASSUME NEW h, NEW o, NEW y, NEW c, NEW w, NEW e, Apportioned(h, o, y, c, w, e),
         NEW g, NEW T, Grown(h, g, {}, T), NEW x, NEW m \in Kept, Event(g, x, m, T)
  PROVE  Apportioned(g, [o EXCEPT ![x] = m], y, c, Given(w, T, x), e)
<1> DEFINE v == Given(w, T, x)
           p == [o EXCEPT ![x] = m]
<1>1. /\ x \in T /\ x \in Cell /\ T \subseteq h.free /\ h.free \subseteq Cell
      /\ g \in Heaps /\ g.free = h.free \ T /\ Unchanged(h, g, Cell \ T)
  BY EventCells, FreeApart DEF Grown
<1>2. /\ x # OfFree /\ x # OfOut /\ x # OfNone
      /\ \A z \in Cell : z # OfFree
      /\ OfOut # OfFree /\ OfNone # OfFree
  BY <1>1, OwnersDiffer
<1>3. /\ w \in Shares /\ o \in [Cell -> Kept \cup {None}] /\ Of(w, OfFree) = h.free
      /\ e = 0 => Of(w, OfNone) = {}
  BY DEF Apportioned
<1>4. /\ Of(v, x) = Of(w, x) \cup T
      /\ \A k : k # x => Of(v, k) = Of(w, k) \ T
  BY <1>1, GivenOf
<1>5. \A k : k # OfFree => Of(w, k) \cap T = {}
  BY <1>1, FreeApart
<1>6. o[x] = None /\ c # x
  BY <1>1, HeaderOwned, OwnersDiffer
<1>7. Of(w, x) = {}
  <2>1. \A z \in Cell : w[z] # x
    BY <1>1, <1>6 DEF Apportioned
  <2> QED
    BY <2>1 DEF Of
<1>8. v \in Shares
  BY <1>1, <1>3 DEF Given, Shares
<1>9. \A k : k # OfFree => Unchanged(h, g, Of(w, k))
  BY <1>1, <1>5 DEF Unchanged, Of
<1>10. p \in [Cell -> Kept \cup {None}] /\ p[x] = m /\ \A z \in Cell : z # x => p[z] = o[z]
  BY <1>1, <1>3
<1> HIDE DEF p
<1>11. \A z \in Cell : v[z] \in Cell => p[v[z]] # None \/ v[z] = c
  <2> TAKE z \in Cell
  <2> HAVE v[z] \in Cell
  <2>1. CASE z \in T
    <3>1. v[z] = x
      BY <2>1 DEF Given
    <3> QED
      BY <1>10, <3>1, NotKept
  <2>2. CASE z \notin T
    <3>1. v[z] = w[z]
      BY <2>2 DEF Given
    <3>2. o[w[z]] # None \/ w[z] = c
      BY <3>1 DEF Apportioned
    <3> QED
      BY <1>10, <3>1, <3>2, NotKept
  <2> QED
    BY <2>1, <2>2
<1> HIDE DEF v
<1>12. Of(v, OfFree) = g.free
  BY <1>1, <1>2, <1>3, <1>4
<1>13. ASSUME NEW z \in Cell, p[z] # None
       PROVE  \/ p[z] = o[z] /\ Of(v, z) = Of(w, z) /\ Unchanged(h, g, Of(w, z))
              \/ Event(g, z, p[z], Of(v, z))
  <2>1. CASE z = x
    BY <1>4, <1>7, <1>10, <2>1
  <2>2. CASE z # x
    <3>1. Of(v, z) = Of(w, z)
      BY <1>2, <1>4, <1>5, <2>2
    <3> QED
      BY <1>2, <1>9, <1>10, <2>2, <3>1
  <2> QED
    BY <2>1, <2>2
<1>14. Of(v, OfOut) = Of(w, OfOut) /\ Unchanged(h, g, Of(w, OfOut))
  BY <1>2, <1>4, <1>5, <1>9
<1>15. ASSUME c # NULL
       PROVE  /\ c \in Cell /\ p[c] = None /\ Of(v, c) = Of(w, c)
              /\ Unchanged(h, g, Of(w, c))
  <2>1. c \in Cell /\ o[c] = None
    BY <1>15 DEF Apportioned
  <2> QED
    BY <1>2, <1>4, <1>5, <1>6, <1>9, <1>10, <2>1
<1>16. e = 0 => Of(v, OfNone) = {}
  BY <1>2, <1>3, <1>4
<1>17. g \in Heaps /\ p \in [Cell -> Kept \cup {None}]
  BY <1>1, <1>10
<1>18. OwnsRight(h, o, w, g, p, v) /\ LineRight(h, y, w, g, y, v)
  BY <1>13, <1>14 DEF OwnsRight, LineRight
<1>19. ParserRight(h, c, w, g, p, c, v)
  BY <1>15 DEF ParserRight
<1>20. AllOwned(p, c, v) /\ NoneLost(v, e)
  BY <1>11, <1>16 DEF AllOwned, NoneLost
<1>21. Apportioned(g, p, y, c, v, e)
  BY <1>8, <1>12, <1>17, <1>18, <1>19, <1>20, Reshared
<1> QED
  BY <1>21 DEF v, p

\* The parser takes free cells for its event x, and changes those that it has.
LEMMA ParserTakes ==
  ASSUME NEW h, NEW o, NEW y, NEW c, NEW w, NEW e, Apportioned(h, o, y, c, w, e),
         NEW x \in Cell, c = x \/ (c = NULL /\ x \in h.free),
         NEW g, NEW T, Grown(h, g, Of(w, x), T), NEW d,
         Event(g, x, Message(SysEx, d), Of(w, x) \cup T)
  PROVE  Apportioned(g, o, y, x, Given(w, T, x), e)
<1> DEFINE v == Given(w, T, x)
<1>1. /\ T \subseteq h.free /\ h.free \subseteq Cell
      /\ g \in Heaps /\ g.free = h.free \ T /\ Unchanged(h, g, Cell \ (Of(w, x) \cup T))
  BY FreeApart DEF Grown
<1>2. /\ x # OfFree /\ x # OfOut /\ x # OfNone
      /\ \A z \in Cell : z # OfFree
      /\ OfOut # OfFree /\ OfNone # OfFree
  BY OwnersDiffer
<1>3. /\ w \in Shares /\ o \in [Cell -> Kept \cup {None}] /\ Of(w, OfFree) = h.free
      /\ e = 0 => Of(w, OfNone) = {}
  BY DEF Apportioned
<1>4. /\ Of(v, x) = Of(w, x) \cup T
      /\ \A k : k # x => Of(v, k) = Of(w, k) \ T
  BY <1>1, GivenOf
<1>5. \A k : k # OfFree => Of(w, k) \cap T = {}
  BY <1>1, FreeApart
<1>6. o[x] = None
  <2>1. CASE c = x
    <3>1. c # NULL
      BY <2>1, StreamsAssumption
    <3> QED
      BY <2>1, <3>1 DEF Apportioned
  <2>2. CASE x \in h.free
    BY <2>2, HeaderOwned
  <2> QED
    BY <2>1, <2>2
<1>7. v \in Shares
  BY <1>1, <1>3 DEF Given, Shares
<1>8. \A k : k # OfFree /\ k # x => Unchanged(h, g, Of(w, k))
  <2> TAKE k
  <2> HAVE k # OfFree /\ k # x
  <2>1. Of(w, k) \subseteq Cell \ (Of(w, x) \cup T)
    BY <1>5 DEF Of
  <2> QED
    BY <1>1, <2>1 DEF Unchanged
<1>9. AllOwned(o, x, v)
  <2> SUFFICES ASSUME NEW z \in Cell, v[z] \in Cell PROVE o[v[z]] # None \/ v[z] = x
    BY DEF AllOwned
  <2>1. CASE z \in T
    BY <2>1 DEF Given
  <2>2. CASE z \notin T
    <3>1. v[z] = w[z]
      BY <2>2 DEF Given
    <3>2. o[w[z]] # None \/ w[z] = c
      BY <3>1 DEF Apportioned
    <3>3. c = NULL => w[z] # c
      BY <3>1, StreamsAssumption
    <3> QED
      BY <3>1, <3>2, <3>3
  <2> QED
    BY <2>1, <2>2
<1> HIDE DEF v
<1>10. Of(v, OfFree) = g.free
  BY <1>1, <1>2, <1>3, <1>4
<1>11. OwnsRight(h, o, w, g, o, v)
  <2> SUFFICES ASSUME NEW z \in Cell, o[z] # None
               PROVE  Of(v, z) = Of(w, z) /\ Unchanged(h, g, Of(w, z))
    BY DEF OwnsRight
  <2>1. z # x /\ z # OfFree
    BY <1>2, <1>6
  <2> QED
    BY <1>4, <1>5, <1>8, <2>1
<1>12. LineRight(h, y, w, g, y, v)
  BY <1>2, <1>4, <1>5, <1>8 DEF LineRight
<1>13. ParserRight(h, c, w, g, o, x, v)
  BY <1>4, <1>6 DEF ParserRight
<1>14. NoneLost(v, e)
  BY <1>2, <1>3, <1>4 DEF NoneLost
<1>15. Apportioned(g, o, y, x, v, e)
  BY <1>1, <1>3, <1>7, <1>9, <1>10, <1>11, <1>12, <1>13, <1>14, Reshared
<1> QED
  BY <1>15 DEF v

\* The parser forgets its event: its cells are lost.
LEMMA ParserForgets ==
  ASSUME NEW h, NEW o, NEW y, NEW c, NEW w, NEW e, Apportioned(h, o, y, c, w, e), e # 0
  PROVE  \E v : Apportioned(h, o, y, NULL, v, e)
<1>1. CASE c = NULL
  BY <1>1
<1>2. CASE c # NULL
  <2> DEFINE v == Given(w, Of(w, c), OfNone)
  <2>1. c \in Cell /\ Of(w, c) \subseteq Cell /\ h \in Heaps /\ w \in Shares
        /\ o \in [Cell -> Kept \cup {None}] /\ Of(w, OfFree) = h.free /\ o[c] = None
    BY <1>2 DEF Apportioned, Of
  <2>2. \A k : k # OfNone => Of(v, k) = Of(w, k) \ Of(w, c)
    BY <2>1, GivenOf
  <2>3. \A k : k # OfNone /\ k # c => Of(v, k) = Of(w, k)
    BY <2>2 DEF Of
  <2>4. c # OfFree /\ c # OfOut /\ OfFree # OfNone /\ OfOut # OfNone
        /\ \A z \in Cell : z # OfNone
    BY <2>1, OwnersDiffer
  <2>5. v \in Shares
    BY <2>1 DEF Given, Shares
  <2>6. AllOwned(o, NULL, v)
    <3> SUFFICES ASSUME NEW z \in Cell, v[z] \in Cell PROVE o[v[z]] # None
      BY DEF AllOwned
    <3>1. z \notin Of(w, c)
      <4>1. z \in Of(w, c) => v[z] = OfNone
        BY DEF Given
      <4> QED
        BY <4>1, OwnersDiffer
    <3>2. v[z] = w[z]
      BY <3>1 DEF Given
    <3>3. w[z] # c
      BY <3>1 DEF Of
    <3> QED
      BY <3>2, <3>3 DEF Apportioned
  <2> HIDE DEF v
  <2>7. \A S : Unchanged(h, h, S)
    BY DEF Unchanged
  <2>8. OwnsRight(h, o, w, h, o, v)
    <3> SUFFICES ASSUME NEW z \in Cell, o[z] # None
                 PROVE  Of(v, z) = Of(w, z)
      BY <2>7 DEF OwnsRight
    <3>1. z # c /\ z # OfNone
      BY <2>1, <2>4
    <3> QED
      BY <2>3, <3>1
  <2>9. LineRight(h, y, w, h, y, v)
    BY <2>3, <2>4, <2>7 DEF LineRight
  <2>10. Of(v, OfFree) = h.free
    BY <2>1, <2>3, <2>4
  <2>11. ParserRight(h, c, w, h, o, NULL, v) /\ NoneLost(v, e)
    BY DEF ParserRight, NoneLost
  <2>12. Apportioned(h, o, y, NULL, v, e)
    BY <2>1, <2>5, <2>6, <2>8, <2>9, <2>10, <2>11, Reshared
  <2> QED
    BY <2>12
<1> QED
  BY <1>1, <1>2

\* Cells of k are given back.
LEMMA FreedFacts ==
  ASSUME NEW h, NEW o, NEW y, NEW c, NEW w, NEW e, Apportioned(h, o, y, c, w, e),
         NEW k, k # OfFree, NEW S, S \subseteq Of(w, k), NEW g, Returned(h, g, S)
  PROVE  LET v == Given(w, S, OfFree)
         IN /\ g \in Heaps /\ v \in Shares /\ Of(v, OfFree) = g.free
            /\ \A l : l # k /\ l # OfFree => Of(v, l) = Of(w, l)
            /\ Of(v, k) = Of(w, k) \ S
            /\ \A l : Unchanged(h, g, Of(w, l))
            /\ \A z \in Cell : v[z] = IF z \in S THEN OfFree ELSE w[z]
<1> DEFINE v == Given(w, S, OfFree)
<1>1. S \subseteq Cell /\ \A l : Of(w, l) \subseteq Cell
  BY DEF Of
<1>2. g \in Heaps /\ g.free = h.free \cup S /\ Unchanged(h, g, Cell)
  BY DEF Returned
<1>3. w \in Shares /\ Of(w, OfFree) = h.free
  BY DEF Apportioned
<1>4. /\ Of(v, OfFree) = Of(w, OfFree) \cup S
      /\ \A l : l # OfFree => Of(v, l) = Of(w, l) \ S
  BY <1>1, GivenOf
<1>5. \A l : l # k => Of(w, l) \cap S = {}
  BY DEF Of
<1>6. v \in Shares
  BY <1>1, <1>3 DEF Given, Shares
<1>7. \A l : Unchanged(h, g, Of(w, l))
  BY <1>1, <1>2 DEF Unchanged
<1>8. \A z \in Cell : v[z] = IF z \in S THEN OfFree ELSE w[z]
  BY DEF Given
<1> HIDE DEF v
<1>9. \A l : l # k /\ l # OfFree => Of(v, l) = Of(w, l)
  BY <1>4, <1>5
<1> QED
  BY <1>2, <1>3, <1>4, <1>6, <1>7, <1>8, <1>9 DEF v

LEMMA OwnFreed ==
  ASSUME NEW h, NEW o, NEW y, NEW c, NEW w, NEW e, Apportioned(h, o, y, c, w, e),
         NEW x \in Cell, o[x] # None, NEW g, Returned(h, g, Of(w, x))
  PROVE  \E v : Apportioned(g, [o EXCEPT ![x] = None], y, c, v, e)
<1> DEFINE v == Given(w, Of(w, x), OfFree)
           p == [o EXCEPT ![x] = None]
<1>1. /\ x # OfFree /\ x # OfOut /\ x # OfNone
      /\ \A z \in Cell : z # OfFree
      /\ OfOut # OfFree /\ OfNone # OfFree
  BY OwnersDiffer
<1>2. /\ g \in Heaps /\ v \in Shares /\ Of(v, OfFree) = g.free
      /\ \A l : l # x /\ l # OfFree => Of(v, l) = Of(w, l)
      /\ \A l : Unchanged(h, g, Of(w, l))
      /\ \A z \in Cell : v[z] = IF z \in Of(w, x) THEN OfFree ELSE w[z]
  BY <1>1, FreedFacts
<1>3. /\ o \in [Cell -> Kept \cup {None}]
      /\ e = 0 => Of(w, OfNone) = {}
      /\ \A z \in Cell : w[z] \in Cell => o[w[z]] # None \/ w[z] = c
      /\ c # NULL => c \in Cell /\ o[c] = None
  BY DEF Apportioned
<1>4. p \in [Cell -> Kept \cup {None}] /\ p[x] = None /\ \A z \in Cell : z # x => p[z] = o[z]
  BY <1>3
<1> HIDE DEF v, p
<1>5. AllOwned(p, c, v)
  <2> SUFFICES ASSUME NEW z \in Cell, v[z] \in Cell PROVE p[v[z]] # None \/ v[z] = c
    BY DEF AllOwned
  <2>1. z \notin Of(w, x) /\ v[z] = w[z]
    BY <1>1, <1>2
  <2>2. w[z] # x
    BY <2>1 DEF Of
  <2> QED
    BY <1>3, <1>4, <2>1, <2>2
<1>6. OwnsRight(h, o, w, g, p, v)
  <2> SUFFICES ASSUME NEW z \in Cell, p[z] # None
               PROVE  p[z] = o[z] /\ Of(v, z) = Of(w, z) /\ Unchanged(h, g, Of(w, z))
    BY DEF OwnsRight
  <2>1. z # x /\ z # OfFree
    BY <1>1, <1>4
  <2> QED
    BY <1>2, <1>4, <2>1
<1>7. LineRight(h, y, w, g, y, v) /\ NoneLost(v, e)
  BY <1>1, <1>2, <1>3 DEF LineRight, NoneLost
<1>8. ParserRight(h, c, w, g, p, c, v)
  <2> SUFFICES ASSUME c # NULL
               PROVE  /\ c \in Cell /\ p[c] = None
                      /\ Of(v, c) = Of(w, c) /\ Unchanged(h, g, Of(w, c))
    BY DEF ParserRight
  <2>1. c # x /\ c \in Cell /\ o[c] = None /\ c # OfFree
    BY <1>1, <1>3
  <2> QED
    BY <1>2, <1>4, <2>1
<1>9. Apportioned(g, p, y, c, v, e)
  BY <1>2, <1>4, <1>5, <1>6, <1>7, <1>8, Reshared
<1> QED
  BY <1>9 DEF p

LEMMA ParserFreed ==
  ASSUME NEW h, NEW o, NEW y, NEW c, NEW w, NEW e, Apportioned(h, o, y, c, w, e),
         c # NULL, NEW g, Returned(h, g, Of(w, c))
  PROVE  \E v : Apportioned(g, o, y, NULL, v, e)
<1> DEFINE v == Given(w, Of(w, c), OfFree)
<1>0. c \in Cell /\ o[c] = None
  BY DEF Apportioned
<1>1. /\ c # OfFree /\ c # OfOut /\ c # OfNone
      /\ \A z \in Cell : z # OfFree
      /\ OfOut # OfFree /\ OfNone # OfFree
  BY <1>0, OwnersDiffer
<1>2. /\ g \in Heaps /\ v \in Shares /\ Of(v, OfFree) = g.free
      /\ \A l : l # c /\ l # OfFree => Of(v, l) = Of(w, l)
      /\ \A l : Unchanged(h, g, Of(w, l))
      /\ \A z \in Cell : v[z] = IF z \in Of(w, c) THEN OfFree ELSE w[z]
  BY <1>1, FreedFacts
<1>3. /\ o \in [Cell -> Kept \cup {None}]
      /\ e = 0 => Of(w, OfNone) = {}
      /\ \A z \in Cell : w[z] \in Cell => o[w[z]] # None \/ w[z] = c
  BY DEF Apportioned
<1> HIDE DEF v
<1>5. AllOwned(o, NULL, v)
  <2> SUFFICES ASSUME NEW z \in Cell, v[z] \in Cell PROVE o[v[z]] # None
    BY DEF AllOwned
  <2>1. z \notin Of(w, c) /\ v[z] = w[z]
    BY <1>1, <1>2
  <2>2. w[z] # c
    BY <2>1 DEF Of
  <2> QED
    BY <1>3, <2>1, <2>2
<1>6. OwnsRight(h, o, w, g, o, v)
  <2> SUFFICES ASSUME NEW z \in Cell, o[z] # None
               PROVE  Of(v, z) = Of(w, z) /\ Unchanged(h, g, Of(w, z))
    BY DEF OwnsRight
  <2>1. z # c /\ z # OfFree
    BY <1>0, <1>1
  <2> QED
    BY <1>2, <2>1
<1>7. LineRight(h, y, w, g, y, v) /\ NoneLost(v, e)
  BY <1>1, <1>2, <1>3 DEF LineRight, NoneLost
<1>8. ParserRight(h, c, w, g, o, NULL, v)
  BY DEF ParserRight
<1>9. Apportioned(g, o, y, NULL, v, e)
  BY <1>2, <1>3, <1>5, <1>6, <1>7, <1>8, Reshared
<1> QED
  BY <1>9

\* Cells of the list are given back: what is left of it is the list from z on.
LEMMA LineFreed ==
  ASSUME NEW h, NEW o, NEW y, NEW c, NEW w, NEW e, Apportioned(h, o, y, c, w, e),
         NEW S, S \subseteq Of(w, OfOut), NEW g, Returned(h, g, S),
         NEW z, Line(h, z, Of(w, OfOut) \ S)
  PROVE  \E v : Apportioned(g, o, z, c, v, e)
<1> DEFINE v == Given(w, S, OfFree)
<1>1. /\ \A k \in Cell : k # OfFree /\ k # OfOut
      /\ OfOut # OfFree /\ OfNone # OfFree /\ OfNone # OfOut /\ OfOut \notin Cell
      /\ OfFree \notin Cell
  BY OwnersDiffer
<1>2. /\ g \in Heaps /\ v \in Shares /\ Of(v, OfFree) = g.free
      /\ \A l : l # OfOut /\ l # OfFree => Of(v, l) = Of(w, l)
      /\ Of(v, OfOut) = Of(w, OfOut) \ S
      /\ \A l : Unchanged(h, g, Of(w, l))
      /\ \A k \in Cell : v[k] = IF k \in S THEN OfFree ELSE w[k]
  BY <1>1, FreedFacts
<1>3. /\ o \in [Cell -> Kept \cup {None}]
      /\ e = 0 => Of(w, OfNone) = {}
      /\ \A k \in Cell : w[k] \in Cell => o[w[k]] # None \/ w[k] = c
      /\ c # NULL => c \in Cell /\ o[c] = None
  BY DEF Apportioned
<1> HIDE DEF v
<1>5. AllOwned(o, c, v)
  <2> SUFFICES ASSUME NEW k \in Cell, v[k] \in Cell PROVE o[v[k]] # None \/ v[k] = c
    BY DEF AllOwned
  <2>1. v[k] = w[k]
    BY <1>1, <1>2
  <2> QED
    BY <1>3, <2>1
<1>6. OwnsRight(h, o, w, g, o, v)
  BY <1>1, <1>2 DEF OwnsRight
<1>7. LineRight(h, y, w, g, z, v)
  <2>1. Unchanged(h, g, Of(w, OfOut) \ S)
    BY <1>2 DEF Unchanged
  <2>2. Line(g, z, Of(w, OfOut) \ S)
    BY <2>1, LineFrame
  <2> QED
    BY <1>2, <2>2 DEF LineRight
<1>8. ParserRight(h, c, w, g, o, c, v) /\ NoneLost(v, e)
  BY <1>1, <1>2, <1>3 DEF ParserRight, NoneLost
<1>9. Apportioned(g, o, z, c, v, e)
  BY <1>2, <1>3, <1>5, <1>6, <1>7, <1>8, Reshared
<1> QED
  BY <1>9

\* The event x of the sender is rewritten.
LEMMA OwnChanged ==
  ASSUME NEW h, NEW o, NEW y, NEW c, NEW w, NEW e, Apportioned(h, o, y, c, w, e),
         NEW x \in Cell, o[x] # None, NEW g \in Heaps, g.free = h.free,
         Unchanged(h, g, Cell \ {x}), NEW m \in Kept, Event(g, x, m, Of(w, x))
  PROVE  Apportioned(g, [o EXCEPT ![x] = m], y, c, w, e)
<1> DEFINE p == [o EXCEPT ![x] = m]
<1>1. /\ o \in [Cell -> Kept \cup {None}] /\ w \in Shares /\ Of(w, OfFree) = g.free
      /\ e = 0 => Of(w, OfNone) = {}
      /\ \A z \in Cell : w[z] \in Cell => o[w[z]] # None \/ w[z] = c
      /\ c # NULL => c \in Cell /\ o[c] = None
  BY DEF Apportioned
<1>2. p \in [Cell -> Kept \cup {None}] /\ p[x] = m /\ \A z \in Cell : z # x => p[z] = o[z]
  BY <1>1
<1> HIDE DEF p
<1>3. w[x] = x
  BY HeaderOwned
<1>4. \A k : k # x => Unchanged(h, g, Of(w, k))
  BY <1>3 DEF Unchanged, Of
<1>5. OwnsRight(h, o, w, g, p, w)
  BY <1>2, <1>4 DEF OwnsRight
<1>6. LineRight(h, y, w, g, y, w) /\ NoneLost(w, e)
  BY <1>1, <1>4, OwnersDiffer DEF LineRight, NoneLost
<1>7. ParserRight(h, c, w, g, p, c, w)
  BY <1>1, <1>2, <1>4 DEF ParserRight
<1>8. AllOwned(p, c, w)
  BY <1>1, <1>2, NotKept DEF AllOwned
<1>9. Apportioned(g, p, y, c, w, e)
  BY <1>1, <1>2, <1>5, <1>6, <1>7, <1>8, Reshared
<1> QED
  BY <1>9 DEF p

\* The ring of the event x becomes the list, and x and the first cell are given back.
LEMMA OwnPut ==
  ASSUME NEW h, NEW o, NEW c, NEW w, NEW e, Apportioned(h, o, NULL, c, w, e),
         NEW x \in Cell, o[x].status = SysEx
  PROVE  LET first == h.link[h.se[x]]
             g == [h EXCEPT !.link[h.se[x]] = NULL]
         IN /\ \E v : Apportioned(FreeCell(FreeCell(g, x), first), [o EXCEPT ![x] = None],
                                  g.link[first], c, v, e)
            /\ first \in Cell
            /\ first = h.se[x] => Len(h.bytes[first]) < Room
            /\ g.link[first] = NULL => first = h.se[x]
<1> DEFINE first == h.link[h.se[x]]
           g == [h EXCEPT !.link[h.se[x]] = NULL]
           k == FreeCell(FreeCell(g, x), first)
           z == g.link[first]
           p == [o EXCEPT ![x] = None]
           S == Of(w, x)
           L == S \ {x, first}
           v == [b \in Cell |-> IF b = x \/ b = first THEN OfFree
                                ELSE IF b \in L THEN OfOut ELSE w[b]]
<1>0. o[x] # None /\ h \in Heaps
  <2>1. None.status # SysEx
    BY DEF None, Message, SysEx
  <2> QED
    BY <2>1 DEF Apportioned
<1>1. PICK r : RingOf(h, x, r, S)
  <2>1. Event(h, x, o[x], Of(w, x))
    BY <1>0 DEF Apportioned
  <2> QED
    BY <2>1 DEF Event
<1>2. /\ g \in Heaps /\ g.free = h.free /\ g.ev = h.ev /\ g.se = h.se /\ g.bytes = h.bytes
      /\ \A b \in Cell : b # h.se[x] => g.link[b] = h.link[b]
      /\ Line(g, first, S \ {x})
      /\ first \in Cell
      /\ first = h.se[x] => Len(h.bytes[first]) < Room
      /\ \A b \in S \ {x} : h.link[b] # NULL
  <2>1. OpenedTo(h, x, S, g)
    BY <1>0, <1>1, RingOpened
  <2> HIDE DEF g, S
  <2> QED
    BY <2>1 DEF OpenedTo
<1>3. first \in S /\ first # x /\ first # NULL /\ h.se[x] \in S
  <2>1. first # NULL
    BY <1>2, StreamsAssumption
  <2>2. first \in S \ {x}
    BY <1>2, <2>1, LineCells
  <2>3. h.se[x] = r[1] /\ S = {x} \cup ToSet(r) /\ r \in Seq(Cell) /\ r # <<>>
    BY <1>1 DEF RingOf, Ring, Chained
  <2>4. r[1] \in ToSet(r)
    <3>1. 1 \in DOMAIN r
      BY <2>3
    <3> QED
      BY <3>1 DEF ToSet
  <2> QED
    BY <2>1, <2>2, <2>3, <2>4
<1>4. z = NULL => first = h.se[x]
  BY <1>2, <1>3
<1>5. k = [g EXCEPT !.free = (g.free \cup {x}) \cup {first}]
  BY DEF FreeCell
<1> HIDE DEF k
<1>6. /\ k \in Heaps /\ k.free = h.free \cup {x, first} /\ k.ev = h.ev /\ k.se = h.se
      /\ k.bytes = h.bytes /\ k.link = g.link
  <2> HIDE DEF g, first
  <2> QED
    BY <1>2, <1>5 DEF Heaps
<1>7. Line(k, z, L)
  <2>1. Line(g, z, (S \ {x}) \ {first})
    BY <1>2, <1>3, LineTail
  <2>2. (S \ {x}) \ {first} = L
    OBVIOUS
  <2>3. Unchanged(g, k, L)
    BY <1>2, <1>6 DEF Unchanged
  <2> HIDE DEF z, L
  <2> QED
    BY <2>1, <2>2, <2>3, LineFrame
<1>8. /\ o \in [Cell -> Kept \cup {None}] /\ w \in Shares /\ Of(w, OfFree) = h.free
      /\ e = 0 => Of(w, OfNone) = {}
      /\ \A b \in Cell : w[b] \in Cell => o[w[b]] # None \/ w[b] = c
      /\ c # NULL => c \in Cell /\ o[c] = None
      /\ Line(h, NULL, Of(w, OfOut))
  BY DEF Apportioned
<1>9. Of(w, OfOut) = {}
  <2>1. ASSUME NEW q, Chained(h, q) PROVE q[1] # NULL
    <3>1. q[1] \in Cell
      BY <2>1 DEF Chained
    <3> QED
      BY <3>1, StreamsAssumption
  <2> QED
    BY <1>8, <2>1 DEF Line
<1>10. p \in [Cell -> Kept \cup {None}] /\ p[x] = None /\ \A b \in Cell : b # x => p[b] = o[b]
  BY <1>8
<1>11. v \in Shares
  BY <1>8 DEF Shares
<1>12. x \in S /\ S \subseteq Cell /\ \A b \in S : w[b] = x
  BY <1>0, HeaderOwned DEF Of
<1>13. \A b \in Cell : v[b] = IF b = x \/ b = first THEN OfFree
                              ELSE IF b \in L THEN OfOut ELSE w[b]
  OBVIOUS
<1> HIDE DEF v, p, z, g, first
<1>14. /\ x # OfFree /\ x # OfOut /\ OfOut # OfFree /\ OfNone # OfFree /\ OfNone # OfOut
       /\ OfNone # x /\ OfOut \notin Cell /\ OfFree \notin Cell
       /\ \A b \in Cell : b # OfFree /\ b # OfOut
  BY OwnersDiffer
<1>15. \A b \in Cell : b \in S <=> w[b] = x
  BY DEF Of
<1>16. Of(v, OfFree) = k.free
  <2>1. \A b \in Cell : v[b] = OfFree <=> b \in {x, first} \/ w[b] = OfFree
    BY <1>12, <1>13, <1>14, <1>15
  <2>2. \A b \in Cell : w[b] = OfFree <=> b \in h.free
    BY <1>8 DEF Of
  <2>3. h.free \subseteq Cell
    BY <1>0 DEF Heaps
  <2> QED
    BY <1>2, <1>6, <2>1, <2>2, <2>3 DEF Of
<1>17. Of(v, OfOut) = L
  <2>1. \A b \in Cell : v[b] = OfOut <=> b \in L
    <3> TAKE b \in Cell
    <3>1. w[b] # OfOut
      BY <1>9 DEF Of
    <3> QED
      BY <1>13, <1>14, <3>1
  <2> QED
    BY <1>12, <2>1 DEF Of
<1>18. \A l : l # OfFree /\ l # OfOut /\ l # x => Of(v, l) = Of(w, l) /\ Unchanged(h, k, Of(w, l))
  <2> TAKE l
  <2> HAVE l # OfFree /\ l # OfOut /\ l # x
  <2>1. \A b \in Cell : v[b] = l <=> w[b] = l
    BY <1>3, <1>12, <1>13
  <2>2. \A b \in Cell : w[b] = l => b # h.se[x]
    BY <1>3, <1>12
  <2> QED
    BY <1>2, <1>6, <2>1, <2>2 DEF Of, Unchanged
<1>19. OwnsRight(h, o, w, k, p, v)
  <2> SUFFICES ASSUME NEW b \in Cell, p[b] # None
               PROVE  p[b] = o[b] /\ Of(v, b) = Of(w, b) /\ Unchanged(h, k, Of(w, b))
    BY DEF OwnsRight
  <2>1. b # x /\ b # OfFree /\ b # OfOut
    BY <1>10, <1>14
  <2> QED
    BY <1>10, <1>18, <2>1
<1>20. LineRight(h, NULL, w, k, z, v)
  BY <1>7, <1>17 DEF LineRight
<1>21. ParserRight(h, c, w, k, p, c, v)
  <2> SUFFICES ASSUME c # NULL
               PROVE  /\ c \in Cell /\ p[c] = None
                      /\ Of(v, c) = Of(w, c) /\ Unchanged(h, k, Of(w, c))
    BY DEF ParserRight
  <2>1. c # x /\ c \in Cell /\ o[c] = None /\ c # OfFree /\ c # OfOut
    BY <1>0, <1>8, <1>14
  <2> QED
    BY <1>10, <1>18, <2>1
<1>22. AllOwned(p, c, v)
  <2> SUFFICES ASSUME NEW b \in Cell, v[b] \in Cell PROVE p[v[b]] # None \/ v[b] = c
    BY DEF AllOwned
  <2>1. v[b] = w[b] /\ w[b] # x
    BY <1>3, <1>13, <1>14, <1>15
  <2> QED
    BY <1>8, <1>10, <2>1
<1>23. NoneLost(v, e)
  BY <1>8, <1>14, <1>18 DEF NoneLost
<1>24. Apportioned(k, p, z, c, v, e)
  BY <1>6, <1>10, <1>11, <1>16, <1>19, <1>20, <1>21, <1>22, <1>23, Reshared
<1> QED
  BY <1>2, <1>4, <1>24 DEF k, p, z, g, first

(***************************************************************************)
(* The bytes on their way.                                                 *)
(***************************************************************************)
\* Bytes that do not belong inside a system exclusive message.
Openers == {NoteOn, ControlChg, ProgramChg, SysEx}

Begins(s, a, open) == IF a = 0 THEN open ELSE s[a] = SysEx
Interrupts(s, b, closed) == IF b = Len(s) + 1 THEN closed ELSE s[b] \in Openers
Ends(s, a, b) == \E k \in a + 1..b - 1 : s[k] = EndSysX

\* In the bytes s the end of a message comes before what cannot be inside it.  A
\* message is open at their beginning if open; no byte of it follows them if closed.
Paired(s, closed, open) ==
  \A a \in 0..Len(s), b \in 1..Len(s) + 1 :
    a < b /\ Begins(s, a, open) /\ Interrupts(s, b, closed) => Ends(s, a, b)

LEMMA Distinct ==
  /\ EndSysX # SysEx /\ EndSysX \notin Openers /\ MClock \notin Openers /\ MClock # SysEx
  /\ SysEx \in Openers /\ SysEx \notin Data /\ EndSysX \notin Data
  /\ Data \cap Openers = {} /\ Data \subseteq Byte /\ Openers \subseteq Byte
  /\ EndSysX \in Byte /\ MClock \in Byte /\ Byte \subseteq Int
  /\ (\A c \in Data : c >= 0) /\ (\A c \in Byte : ~ c < 0 => c \in Data)
BY DEF Openers, Data, Byte, NoteOn, ControlChg, ProgramChg, SysEx, EndSysX, MClock

\* The same bytes behind others.
LEMMA PairedBehind ==
  ASSUME NEW s \in Seq(Byte), NEW t \in Seq(Byte), NEW open, NEW closed,
         Paired(s, TRUE, open), Paired(t, closed, FALSE)
  PROVE  Paired(s \o t, closed, open)
<1> DEFINE n == Len(s)
           m == Len(t)
           u == s \o t
<1>1. /\ n \in Nat /\ m \in Nat /\ u \in Seq(Byte) /\ Len(u) = n + m
      /\ \A i \in 1..n + m : u[i] = IF i <= n THEN s[i] ELSE t[i - n]
  BY ConcatProperties
<1> HIDE DEF n, m, u
<1>2. SUFFICES ASSUME NEW a \in 0..n + m, NEW b \in 1..n + m + 1, a < b,
                      Begins(u, a, open), Interrupts(u, b, closed)
               PROVE  Ends(u, a, b)
  BY <1>1 DEF Paired, u
<1>3. CASE b <= n
  <2>1. a \in 0..n /\ b \in 1..n + 1 /\ b # n + 1 /\ b # n + m + 1 /\ b \in 1..n + m /\ a <= n
    BY <1>1, <1>2, <1>3
  <2>2. (a # 0 => u[a] = s[a]) /\ u[b] = s[b]
    BY <1>1, <1>3, <2>1
  <2>3. Begins(s, a, open) /\ Interrupts(s, b, TRUE)
    BY <1>1, <1>2, <2>1, <2>2 DEF Begins, Interrupts, n
  <2>4. PICK k \in a + 1..b - 1 : s[k] = EndSysX
    BY <1>2, <2>1, <2>3 DEF Paired, Ends, n
  <2>5. u[k] = s[k]
    BY <1>1, <1>3, <2>1
  <2> QED
    BY <2>4, <2>5 DEF Ends
<1>4. CASE a <= n /\ n < b
  <2>1. a \in 0..n /\ n + 1 \in 1..n + 1 /\ a < n + 1 /\ (a # 0 => a \in 1..n + m)
    BY <1>1, <1>2, <1>4
  <2>2. Begins(s, a, open) /\ Interrupts(s, n + 1, TRUE)
    BY <1>1, <1>2, <1>4, <2>1 DEF Begins, Interrupts, n
  <2>3. PICK k \in a + 1..(n + 1) - 1 : s[k] = EndSysX
    BY <2>1, <2>2 DEF Paired, Ends, n
  <2>4. u[k] = s[k] /\ k \in a + 1..b - 1
    BY <1>1, <1>4, <2>1
  <2> QED
    BY <2>3, <2>4 DEF Ends
<1>5. CASE n < a
  <2>1. /\ a - n \in 0..m /\ b - n \in 1..m + 1 /\ a - n < b - n /\ a - n # 0 /\ a # 0
        /\ a \in 1..n + m /\ b = n + m + 1 <=> b - n = m + 1
        /\ b # n + m + 1 => b \in 1..n + m
    BY <1>1, <1>2, <1>5
  <2>2. u[a] = t[a - n] /\ (b # n + m + 1 => u[b] = t[b - n])
    BY <1>1, <1>2, <1>5, <2>1
  <2>3. Begins(t, a - n, FALSE) /\ Interrupts(t, b - n, closed)
    BY <1>1, <1>2, <2>1, <2>2 DEF Begins, Interrupts, m
  <2>4. PICK k \in (a - n) + 1..(b - n) - 1 : t[k] = EndSysX
    BY <2>1, <2>3 DEF Paired, Ends, m
  <2>5. k + n \in a + 1..b - 1 /\ k + n \in 1..n + m /\ ~ k + n <= n /\ (k + n) - n = k
    BY <1>1, <1>2, <1>5, <2>1
  <2>6. u[k + n] = t[k]
    BY <1>1, <2>5
  <2> QED
    BY <2>4, <2>5, <2>6 DEF Ends
<1> QED
  BY <1>1, <1>2, <1>3, <1>4, <1>5

\* Bytes of the same message follow.
LEMMA PairedMore ==
  ASSUME NEW s \in Seq(Byte), NEW t \in Seq(Byte), NEW open, NEW closed,
         Paired(s, FALSE, open), \A i \in 1..Len(t) : t[i] \notin Openers,
         closed => t # <<>> /\ t[Len(t)] = EndSysX
  PROVE  Paired(s \o t, closed, open)
<1> DEFINE n == Len(s)
           m == Len(t)
           u == s \o t
<1>1. /\ n \in Nat /\ m \in Nat /\ u \in Seq(Byte) /\ Len(u) = n + m
      /\ \A i \in 1..n + m : u[i] = IF i <= n THEN s[i] ELSE t[i - n]
      /\ t # <<>> => m # 0
  BY ConcatProperties
<1> HIDE DEF n, m, u
<1>2. SUFFICES ASSUME NEW a \in 0..n + m, NEW b \in 1..n + m + 1, a < b,
                      Begins(u, a, open), Interrupts(u, b, closed)
               PROVE  Ends(u, a, b)
  BY <1>1 DEF Paired, u
<1>3. CASE b <= n
  <2>1. a \in 0..n /\ b \in 1..n + 1 /\ b # n + 1 /\ b # n + m + 1 /\ b \in 1..n + m /\ a <= n
    BY <1>1, <1>2, <1>3
  <2>2. (a # 0 => u[a] = s[a]) /\ u[b] = s[b]
    <3>1. u[b] = s[b]
      BY <1>1, <1>3, <2>1
    <3>2. ASSUME a # 0 PROVE u[a] = s[a]
      <4>1. a \in 1..n + m
        BY <1>1, <2>1, <3>2
      <4> QED
        BY <1>1, <2>1, <4>1
    <3> QED
      BY <3>1, <3>2
  <2>3. Begins(s, a, open) /\ Interrupts(s, b, FALSE)
    BY <1>1, <1>2, <2>1, <2>2 DEF Begins, Interrupts, n
  <2>4. PICK k \in a + 1..b - 1 : s[k] = EndSysX
    BY <1>2, <2>1, <2>3 DEF Paired, Ends, n
  <2>5. u[k] = s[k]
    <3>1. k \in 1..n + m /\ k <= n
      BY <1>1, <1>3, <2>1
    <3> QED
      BY <1>1, <3>1
  <2> QED
    BY <2>4, <2>5 DEF Ends
<1>4. CASE n < b /\ b # n + m + 1
  <2>1. b \in 1..n + m /\ ~ b <= n /\ b - n \in 1..m
    BY <1>1, <1>4
  <2>2. u[b] = t[b - n] /\ t[b - n] \notin Openers
    BY <1>1, <2>1 DEF m
  <2> QED
    BY <1>1, <1>2, <1>4, <2>2 DEF Interrupts
<1>5. CASE b = n + m + 1
  <2>1. closed
    BY <1>1, <1>2, <1>5 DEF Interrupts
  <2>2. m # 0 /\ t[m] = EndSysX
    BY <1>1, <2>1 DEF m
  <2>3. n + m \in 1..n + m /\ ~ n + m <= n /\ (n + m) - n = m
    BY <1>1, <2>2
  <2>4. u[n + m] = EndSysX
    BY <1>1, <2>2, <2>3
  <2>5. a # n + m
    <3>1. n + m # 0
      BY <1>1, <2>2
    <3>2. u[n + m] # SysEx
      BY <2>4, Distinct
    <3> QED
      BY <1>2, <3>1, <3>2 DEF Begins
  <2>6. n + m \in a + 1..b - 1
    BY <1>1, <1>5, <2>5
  <2> QED
    BY <2>4, <2>6 DEF Ends
<1> QED
  BY <1>1, <1>3, <1>4, <1>5

\* The first byte is taken.
LEMMA PairedTail ==
  ASSUME NEW s \in Seq(Byte), s # <<>>, NEW open, NEW closed, Paired(s, closed, open),
         NEW o, o => (open /\ s[1] # EndSysX) \/ s[1] = SysEx
  PROVE  Paired(Tail(s), closed, o)
<1> DEFINE n == Len(s)
           u == Tail(s)
<1>1. /\ n \in Nat /\ n # 0 /\ Len(u) = n - 1 /\ n - 1 \in Nat /\ \A i \in 1..n - 1 : u[i] = s[i + 1]
  <2>1. n \in Nat /\ n # 0
    OBVIOUS
  <2>2. Len(u) = n - 1 /\ \A i \in 1..Len(u) : u[i] = s[i + 1]
    BY HeadTailProperties
  <2> HIDE DEF n, u
  <2> QED
    BY <2>1, <2>2
<1> HIDE DEF n, u
<1>2. SUFFICES ASSUME NEW a \in 0..n - 1, NEW b \in 1..n, a < b,
                      Begins(u, a, o), Interrupts(u, b, closed)
               PROVE  Ends(u, a, b)
  <2>1. (n - 1) + 1 = n
    BY <1>1
  <2> QED
    BY <1>1, <1>2, <2>1 DEF Paired, u
<1>3. b + 1 \in 1..n + 1 /\ Interrupts(s, b + 1, closed)
  <2>1. CASE b = n
    <3>1. closed /\ b + 1 \in 1..n + 1 /\ b + 1 = n + 1
      BY <1>1, <1>2, <2>1 DEF Interrupts
    <3> QED
      BY <3>1 DEF Interrupts, n
  <2>2. CASE b # n
    <3>1. b \in 1..n - 1 /\ b # (n - 1) + 1 /\ b + 1 # n + 1 /\ b + 1 \in 1..n + 1
      BY <1>1, <2>2
    <3> QED
      BY <1>1, <1>2, <3>1 DEF Interrupts, n
  <2> QED
    BY <2>1, <2>2
<1>4. ASSUME NEW k \in 2..b, s[k] = EndSysX, k > a + 1 PROVE Ends(u, a, b)
  <2>1. k - 1 \in 1..n - 1 /\ k - 1 \in a + 1..b - 1 /\ (k - 1) + 1 = k
    BY <1>1, <1>4
  <2> QED
    BY <1>1, <1>4, <2>1 DEF Ends
<1>5. CASE a # 0 \/ s[1] = SysEx
  <2>1. a + 1 \in 0..n /\ a + 1 < b + 1 /\ a + 1 # 0 /\ (a # 0 => a \in 1..n - 1)
    BY <1>1, <1>2
  <2>2. s[a + 1] = SysEx
    <3>1. CASE a = 0
      <4>1. a + 1 = 1
        BY <3>1
      <4> QED
        BY <1>5, <3>1, <4>1
    <3>2. CASE a # 0
      BY <1>1, <1>2, <2>1, <3>2 DEF Begins
    <3> QED
      BY <3>1, <3>2
  <2>3. Begins(s, a + 1, open)
    BY <2>1, <2>2 DEF Begins
  <2>4. PICK k \in (a + 1) + 1..(b + 1) - 1 : s[k] = EndSysX
    BY <1>3, <2>1, <2>3 DEF Paired, Ends, n
  <2>5. k \in 2..b /\ k > a + 1
    BY <1>2
  <2> QED
    BY <1>4, <2>4, <2>5
<1>6. CASE a = 0 /\ s[1] # SysEx
  <2>1. open /\ s[1] # EndSysX
    BY <1>2, <1>6 DEF Begins
  <2>2. Begins(s, 0, open) /\ 0 \in 0..n /\ 0 < b + 1
    BY <1>1, <1>2, <2>1 DEF Begins
  <2>3. PICK k \in 0 + 1..(b + 1) - 1 : s[k] = EndSysX
    BY <1>3, <2>2 DEF Paired, Ends, n
  <2>4. k # 1
    BY <2>1, <2>3
  <2>5. k \in 2..b /\ k > a + 1
    BY <1>2, <1>6, <2>4
  <2> QED
    BY <1>4, <2>3, <2>5
<1> QED
  BY <1>5, <1>6

\* What follows an open message does not interrupt it.
LEMMA PairedHead ==
  ASSUME NEW s \in Seq(Byte), s # <<>>, NEW closed, Paired(s, closed, TRUE)
  PROVE  s[1] \notin Openers
<1>1. Len(s) \in Nat /\ Len(s) # 0
  OBVIOUS
<1>2. 0 \in 0..Len(s) /\ 1 \in 1..Len(s) + 1 /\ 1 # Len(s) + 1 /\ 0 < 1
  BY <1>1
<1>3. ~ Ends(s, 0, 1)
  <2>1. \A k \in 0 + 1..1 - 1 : FALSE
    OBVIOUS
  <2> QED
    BY <2>1 DEF Ends
<1>4. Begins(s, 0, TRUE)
  BY DEF Begins
<1>5. ~ Interrupts(s, 1, closed)
  BY <1>2, <1>3, <1>4 DEF Paired
<1> QED
  BY <1>2, <1>5 DEF Interrupts

\* Nothing begins.
LEMMA PairedNone ==
  ASSUME NEW s \in Seq(Byte), \A i \in 1..Len(s) : s[i] # SysEx, NEW closed
  PROVE  Paired(s, closed, FALSE)
<1> SUFFICES ASSUME NEW a \in 0..Len(s), Begins(s, a, FALSE) PROVE FALSE
  BY DEF Paired
<1>1. a # 0 /\ s[a] = SysEx
  BY DEF Begins
<1>2. a \in 1..Len(s)
  BY <1>1
<1> QED
  BY <1>1, <1>2

\* A message begins.
LEMMA PairedOne == Paired(<<SysEx>>, FALSE, FALSE)
<1>1. Len(<<SysEx>>) = 1 /\ 1 + 1 = 2
  OBVIOUS
<1> DEFINE s == <<SysEx>>
<1> HIDE DEF s
<1> SUFFICES ASSUME NEW a \in 0..1, NEW b \in 1..2, a < b,
                    Begins(s, a, FALSE), Interrupts(s, b, FALSE)
             PROVE  FALSE
  <2>1. Len(s) = 1
    BY <1>1 DEF s
  <2>2. Paired(s, FALSE, FALSE)
    BY <1>1, <2>1 DEF Paired
  <2> QED
    BY <2>2 DEF s
<1>2. a # 0 /\ b # 2
  <2>1. Len(s) = 1
    BY <1>1 DEF s
  <2> QED
    BY <1>1, <2>1 DEF Begins, Interrupts
<1> QED
  BY <1>2

\* A byte that neither begins nor interrupts a message comes in between.
LEMMA PairedWithin ==
  ASSUME NEW s \in Seq(Byte), NEW t \in Seq(Byte), NEW c \in Byte, c \notin Openers,
         NEW open, NEW closed, Paired(s \o t, closed, open)
  PROVE  Paired(Append(s, c) \o t, closed, open)
<1> DEFINE n == Len(s)
           m == Len(t)
           v == s \o t
           u == Append(s, c) \o t
           F(i) == IF i <= n THEN i ELSE i - 1
<1>1. /\ n \in Nat /\ m \in Nat /\ Len(v) = n + m
      /\ \A i \in 1..n + m : v[i] = IF i <= n THEN s[i] ELSE t[i - n]
  BY ConcatProperties
<1>2. /\ Len(u) = n + m + 1 /\ u[n + 1] = c
      /\ \A i \in 1..n + m + 1 : i # n + 1 => u[i] = v[F(i)] /\ F(i) \in 1..n + m
  <2>1. /\ Append(s, c) \in Seq(Byte) /\ Len(Append(s, c)) = n + 1
        /\ \A i \in 1..n : Append(s, c)[i] = s[i]
        /\ Append(s, c)[n + 1] = c
    BY AppendProperties
  <2>2. /\ Len(u) = (n + 1) + m
        /\ \A i \in 1..(n + 1) + m : u[i] = IF i <= n + 1 THEN Append(s, c)[i] ELSE t[i - (n + 1)]
    BY <2>1, ConcatProperties
  <2> HIDE DEF n, m, u, v
  <2>3. (n + 1) + m = n + m + 1 /\ n + 1 \in 1..n + m + 1 /\ n + 1 <= n + 1
    BY <1>1
  <2>4. u[n + 1] = c
    BY <2>1, <2>2, <2>3
  <2>5. ASSUME NEW i \in 1..n + m + 1, i # n + 1
        PROVE  u[i] = v[F(i)] /\ F(i) \in 1..n + m
    <3>1. CASE i <= n
      <4>1. i \in 1..n /\ i \in 1..n + m /\ i <= n + 1 /\ F(i) = i
        BY <1>1, <3>1
      <4> QED
        BY <1>1, <2>1, <2>2, <2>3, <3>1, <4>1
    <3>2. CASE ~ i <= n
      <4>1. /\ ~ i <= n + 1 /\ F(i) = i - 1 /\ i - 1 \in 1..n + m /\ ~ i - 1 <= n
            /\ (i - 1) - n = i - (n + 1)
        BY <1>1, <2>5, <3>2
      <4> QED
        BY <1>1, <2>2, <2>3, <4>1
    <3> QED
      BY <3>1, <3>2
  <2> QED
    BY <2>2, <2>3, <2>4, <2>5
<1> HIDE DEF n, m, u, v
<1>3. SUFFICES ASSUME NEW a \in 0..n + m + 1, NEW b \in 1..n + m + 2, a < b,
                      Begins(u, a, open), Interrupts(u, b, closed)
               PROVE  Ends(u, a, b)
  <2>1. (n + m + 1) + 1 = n + m + 2
    BY <1>1
  <2> QED
    BY <1>2, <1>3, <2>1 DEF Paired, u
<1>4. a # n + 1
  <2>1. n + 1 # 0 /\ u[n + 1] # SysEx
    BY <1>1, <1>2, Distinct
  <2> QED
    BY <1>3, <2>1 DEF Begins
<1>5. b # n + 1
  <2>1. n + 1 # Len(u) + 1 /\ u[n + 1] \notin Openers
    BY <1>1, <1>2
  <2> QED
    BY <1>3, <2>1 DEF Interrupts
<1>6. /\ F(a) \in 0..n + m /\ F(b) \in 1..n + m + 1 /\ F(a) < F(b)
      /\ a = 0 <=> F(a) = 0
      /\ b = n + m + 2 <=> F(b) = n + m + 1
      /\ a # 0 => a \in 1..n + m + 1
      /\ b # n + m + 2 => b \in 1..n + m + 1
  BY <1>1, <1>3, <1>4, <1>5
<1>7. (a # 0 => u[a] = v[F(a)]) /\ (b # n + m + 2 => u[b] = v[F(b)])
  BY <1>2, <1>4, <1>5, <1>6
<1>8. Begins(v, F(a), open)
  BY <1>3, <1>6, <1>7 DEF Begins
<1>9. Interrupts(v, F(b), closed)
  <2>1. (n + m + 1) + 1 = n + m + 2
    BY <1>1
  <2> QED
    BY <1>1, <1>2, <1>3, <1>6, <1>7, <2>1 DEF Interrupts
<1>10. PICK k \in F(a) + 1..F(b) - 1 : v[k] = EndSysX
  <2> HIDE DEF F
  <2>1. Paired(v, closed, open)
    BY DEF v
  <2> QED
    BY <1>1, <1>6, <1>8, <1>9, <2>1 DEF Paired, Ends
<1> DEFINE g == IF k <= n THEN k ELSE k + 1
<1>11. g \in a + 1..b - 1 /\ g \in 1..n + m + 1 /\ g # n + 1 /\ F(g) = k
  BY <1>1, <1>3, <1>4, <1>5, <1>6
<1>12. u[g] = EndSysX
  BY <1>2, <1>10, <1>11
<1> QED
  BY <1>11, <1>12 DEF Ends

(***************************************************************************)
(* The inductive invariant.                                                *)
(***************************************************************************)
Clean(h) == \A x \in h.free : h.se[x] = NULL
Shared(h, o, y, c, e) == Clean(h) /\ \E w : Apportioned(h, o, y, c, w, e)

LineTyped(s, t) ==
  /\ s \in Seq(Byte) /\ Len(s) <= MaxWire
  /\ t \in [data : Seq(Byte), next : Cell \cup {NULL}] /\ Len(t.data) <= Max({5, Room + 1})
  /\ t.data = <<>> => t.next = NULL

ParserTyped(i) ==
  /\ i \in [parse : {"Status", "DataM", "DataD", "DataU", "SysExNext"},
            status : Byte, data : Byte, cur : Cell \cup {NULL}]
  /\ i.parse = "SysExNext" => i.cur # NULL

\* Unless the device has failed, the parser never forgets a message.
Awaited(s, t, i, e) ==
  e = 0 => /\ Paired(s \o t.data, t.next = NULL, i.cur # NULL)
           /\ i.cur # NULL => i.parse = "SysExNext"

IInv ==
  /\ resets \in Nat
  /\ Shared(heap, own, out.next, in.cur, resets)
  /\ LineTyped(wire, out)
  /\ ParserTyped(in)
  /\ Awaited(wire, out, in, resets)

LEMMA HeapIs ==
  heap.free = free /\ heap.ev = ev /\ heap.se = se /\ heap.link = link /\ heap.bytes = bytes
BY DEF heap

LEMMA BecomesIs ==
  ASSUME NEW h \in Heaps, Becomes(h)
  PROVE  /\ heap' \in Heaps /\ heap'.free = h.free
         /\ Unchanged(h, heap', Cell \ h.free) /\ Clean(heap')
<1> DEFINE e == [x \in Cell |-> IF x \in h.free THEN NULL ELSE h.ev[x]]
           s == [x \in Cell |-> IF x \in h.free THEN NULL ELSE h.se[x]]
           l == [x \in Cell |-> IF x \in h.free THEN NULL ELSE h.link[x]]
           b == [x \in Cell |-> IF x \in h.free THEN <<>> ELSE h.bytes[x]]
           g == [free |-> h.free, ev |-> e, se |-> s, link |-> l, bytes |-> b]
<1>1. heap' = g
  BY DEF heap, Becomes
<1>2. /\ h.free \subseteq Cell /\ e \in [Cell -> Kept \cup {NULL}]
      /\ s \in [Cell -> Cell \cup {NULL}] /\ l \in [Cell -> Cell \cup {NULL}]
  BY DEF Heaps
<1>3. b \in [Cell -> Contents]
  <2>1. <<>> \in Contents
    BY RoomIs DEF Contents
  <2> QED
    BY <2>1 DEF Heaps
<1>4. /\ \A x \in Cell \ h.free : e[x] = h.ev[x] /\ s[x] = h.se[x] /\ l[x] = h.link[x]
                                  /\ b[x] = h.bytes[x]
      /\ \A x \in h.free : s[x] = NULL
  BY <1>2
<1> HIDE DEF e, s, l, b
<1>5. g \in Heaps /\ g.free = h.free /\ g.ev = e /\ g.se = s /\ g.link = l /\ g.bytes = b
  BY <1>2, <1>3 DEF Heaps
<1> HIDE DEF g
<1> QED
  BY <1>1, <1>4, <1>5 DEF Unchanged, Clean

LEMMA BecomesShared ==
  ASSUME NEW h, Becomes(h), NEW o, NEW y, NEW c, NEW w, NEW e, Apportioned(h, o, y, c, w, e)
  PROVE  Shared(heap', o, y, c, e)
<1>1. h \in Heaps
  BY DEF Apportioned
<1>2. /\ heap' \in Heaps /\ heap'.free = h.free
      /\ Unchanged(h, heap', Cell \ h.free) /\ Clean(heap')
  BY <1>1, BecomesIs
<1> DEFINE g == heap'
<1> HIDE DEF g
<1>3. Apportioned(g, o, y, c, w, e)
  BY <1>2, SameShares DEF g
<1> QED
  BY <1>2, <1>3 DEF Shared, g

\* Steps of the sender that leave the line alone.
LEMMA SenderStep ==
  ASSUME IInv, UNCHANGED lineVars, Shared(heap', own', out.next, in.cur, resets)
  PROVE  IInv'
<1>1. out' = out /\ wire' = wire /\ in' = in /\ resets' = resets
  BY DEF lineVars
<1> QED
  BY <1>1 DEF IInv

LEMMA SysExKept ==
  /\ \A d : Message(SysEx, d).status = SysEx
  /\ \A d \in Seq(Data) : Message(SysEx, d) \in Kept
  /\ SmallMessages \subseteq Kept
  /\ \A m : m.status = SysEx => m # None
  /\ \A m \in Kept : m.status # SysEx => m \in SmallMessages
<1>1. \A s, d : Message(s, d).status = s
  BY DEF Message
<1>2. \A m : m.status = SysEx => m # None
  <2>1. None.status # SysEx
    BY <1>1 DEF None, SysEx
  <2> QED
    BY <2>1
<1> QED
  BY <1>1, <1>2 DEF Kept

LEMMA NewEvStep ==
  ASSUME IInv, NEW m \in Small, MidiNewEv(m)
  PROVE  IInv'
<1> DEFINE h == heap
           x == Next1(h)
<1>1. PICK w : Apportioned(h, own, out.next, in.cur, w, resets)
  BY DEF IInv, Shared
<1>2. h \in Heaps /\ h.free # {} /\ Clean(h)
  BY <1>1, HeapIs DEF MidiNewEv, IInv, Shared, Apportioned
<1>3. m \in SmallMessages /\ m \in Kept
  BY SysExKept, StreamsAssumption
<1>4. Becomes(NewSmallEv(h, m)) /\ own' = [own EXCEPT ![x] = m] /\ UNCHANGED lineVars
  BY DEF MidiNewEv
<1> HIDE DEF h
<1>5. h.se[x] = NULL
  BY <1>2, TakenIs DEF Clean
<1>6. Grown(h, NewSmallEv(h, m), {}, {x}) /\ Event(NewSmallEv(h, m), x, m, {x})
  BY <1>2, <1>3, <1>5, NewSmallEvIs
<1> HIDE DEF x
<1>7. Apportioned(NewSmallEv(h, m), [own EXCEPT ![x] = m], out.next, in.cur,
                  Given(w, {x}, x), resets)
  BY <1>1, <1>3, <1>6, OwnGrows
<1>8. Shared(heap', own', out.next, in.cur, resets)
  BY <1>4, <1>7, BecomesShared
<1> QED
  BY <1>4, <1>8, SenderStep

LEMMA NewSysExStep ==
  ASSUME IInv, NEW text \in Text, MidiNewSysEx(text)
  PROVE  IInv'
<1> DEFINE h == heap
           x == Next1(h)
           g == NewSexEv(h)
           end == AddFields(g, x, text)
           k == end.heap
<1>1. PICK w : Apportioned(h, own, out.next, in.cur, w, resets)
  BY DEF IInv, Shared
<1>2. h \in Heaps /\ Cardinality(h.free) > 1
  BY <1>1, HeapIs DEF MidiNewSysEx, Apportioned
<1>3. text \in Seq(Data)
  BY StreamsAssumption
<1>4. /\ UNCHANGED lineVars
      /\ end.ok => Becomes(k) /\ own' = [own EXCEPT ![x] = Message(SysEx, text)]
      /\ ~end.ok => Becomes(FreeSexEv(k, x)) /\ own' = own
  BY DEF MidiNewSysEx
<1> HIDE DEF h
<1>5. PICK S : Grown(h, g, {}, S) /\ Event(g, x, Message(SysEx, <<>>), S)
  BY <1>2, NewSexEvIs
<1> HIDE DEF x, g
<1>6. g \in Heaps /\ S \cap g.free = {}
  BY <1>5 DEF Grown
<1>7. /\ end.ok \in BOOLEAN
      /\ \E T, d : /\ Grown(g, k, S, T) /\ Event(k, x, Message(SysEx, d), S \cup T)
                   /\ end.ok => d = text
  BY <1>3, <1>5, <1>6, AddFieldsIs
<1> HIDE DEF end
<1>8. PICK T, d : /\ Grown(g, k, S, T) /\ Event(k, x, Message(SysEx, d), S \cup T)
                  /\ end.ok => d = text
  BY <1>7
<1> HIDE DEF k
<1> DEFINE U == S \cup T
<1>9. Grown(h, k, {}, U)
  <2>1. {} \cup S = S
    OBVIOUS
  <2> QED
    BY <1>5, <1>8, <2>1, GrownTwice
<1>10. Event(k, x, Message(SysEx, d), U)
  BY <1>8
<1> HIDE DEF U
<1>11. Shared(heap', own', out.next, in.cur, resets)
  <2>1. CASE end.ok
    <3>1. Apportioned(k, [own EXCEPT ![x] = Message(SysEx, text)], out.next, in.cur,
                      Given(w, U, x), resets)
      <4>1. Message(SysEx, text) \in Kept /\ Event(k, x, Message(SysEx, text), U)
        BY <1>3, <1>8, <1>10, <2>1, SysExKept
      <4> QED
        BY <1>1, <1>9, <4>1, OwnGrows
    <3> QED
      BY <1>4, <2>1, <3>1, BecomesShared
  <2>2. CASE ~end.ok
    <3> DEFINE f == FreeSexEv(k, x)
    <3>1. Returned(k, f, U)
      <4>1. k \in Heaps /\ Message(SysEx, d).status = SysEx
        BY <1>9, SysExKept DEF Grown
      <4> QED
        BY <1>10, <4>1, MSFreeEvIs
    <3> HIDE DEF f
    <3>2. f \in Heaps /\ f.free = h.free /\ Unchanged(h, f, Cell \ h.free)
      BY <1>9, <3>1 DEF Returned, Grown, Unchanged
    <3>3. Apportioned(f, own, out.next, in.cur, w, resets)
      BY <1>1, <3>2, SameShares
    <3> QED
      BY <1>4, <2>2, <3>3, BecomesShared DEF f
  <2> QED
    BY <1>7, <2>1, <2>2
<1> QED
  BY <1>4, <1>11, SenderStep

LEMMA OwnEvent ==
  ASSUME NEW h, NEW o, NEW y, NEW c, NEW w, NEW e, Apportioned(h, o, y, c, w, e),
         NEW x \in Cell, o[x] # None
  PROVE  /\ o[x] \in Kept /\ Event(h, x, o[x], Of(w, x))
         /\ Of(w, x) \cap h.free = {} /\ h \in Heaps
<1>1. x # OfFree
  BY OwnersDiffer
<1> QED
  BY <1>1, FreeApart DEF Apportioned

LEMMA CopyStep ==
  ASSUME IInv, NEW x \in Cell, MidiCopyEv(x)
  PROVE  IInv'
<1> DEFINE h == heap
           end == CopySexEv(h, x)
           k == end.heap
           c == Next1(h)
<1>1. PICK w : Apportioned(h, own, out.next, in.cur, w, resets)
  BY DEF IInv, Shared
<1>2. own[x].status = SysEx /\ Cardinality(h.free) > 1 /\ own[x] # None
  BY HeapIs, SysExKept DEF MidiCopyEv
<1>3. /\ UNCHANGED lineVars /\ Becomes(k)
      /\ own' = IF end.ok THEN [own EXCEPT ![c] = own[x]] ELSE own
  BY DEF MidiCopyEv
<1> HIDE DEF h
<1>4. /\ own[x] \in Kept /\ Event(h, x, own[x], Of(w, x))
      /\ Of(w, x) \cap h.free = {} /\ h \in Heaps
  BY <1>1, <1>2, OwnEvent
<1>5. /\ end.ok \in BOOLEAN
      /\ end.ok => \E T : Grown(h, k, {}, T) /\ Event(k, c, own[x], T)
      /\ ~end.ok => Grown(h, k, h.free, {})
  BY <1>2, <1>4, CopySexEvIs
<1> HIDE DEF end, c
<1>6. Shared(heap', own', out.next, in.cur, resets)
  <2>1. CASE end.ok
    <3>1. PICK T : Grown(h, k, {}, T) /\ Event(k, c, own[x], T)
      BY <1>5, <2>1
    <3>2. Apportioned(k, [own EXCEPT ![c] = own[x]], out.next, in.cur, Given(w, T, c), resets)
      BY <1>1, <1>4, <3>1, OwnGrows
    <3> QED
      BY <1>3, <2>1, <3>2, BecomesShared
  <2>2. CASE ~end.ok
    <3>1. k \in Heaps /\ k.free = h.free /\ Unchanged(h, k, Cell \ h.free)
      BY <1>5, <2>2 DEF Grown, Unchanged
    <3>2. Apportioned(k, own, out.next, in.cur, w, resets)
      BY <1>1, <3>1, SameShares
    <3> QED
      BY <1>3, <2>2, <3>2, BecomesShared
  <2> QED
    BY <1>5, <2>1, <2>2
<1> QED
  BY <1>3, <1>6, SenderStep

LEMMA FreeStep ==
  ASSUME IInv, NEW x \in Cell, MidiFreeEv(x)
  PROVE  IInv'
<1> DEFINE h == heap
<1>1. PICK w : Apportioned(h, own, out.next, in.cur, w, resets)
  BY DEF IInv, Shared
<1>2. /\ own[x] # None /\ UNCHANGED lineVars /\ Becomes(MSFreeEv(h, x))
      /\ own' = [own EXCEPT ![x] = None]
  BY DEF MidiFreeEv
<1> HIDE DEF h
<1>3. Event(h, x, own[x], Of(w, x)) /\ h \in Heaps
  BY <1>1, <1>2, OwnEvent
<1>4. Returned(h, MSFreeEv(h, x), Of(w, x))
  BY <1>3, MSFreeEvIs
<1>5. PICK v : Apportioned(MSFreeEv(h, x), [own EXCEPT ![x] = None], out.next, in.cur, v, resets)
  BY <1>1, <1>2, <1>4, OwnFreed
<1>6. Shared(heap', own', out.next, in.cur, resets)
  BY <1>2, <1>5, BecomesShared
<1> QED
  BY <1>2, <1>6, SenderStep

LEMMA MaxIs ==
  Max({5, Room + 1}) \in Nat /\ Max({5, Room + 1}) >= 5 /\ Max({5, Room + 1}) >= Room + 1
<1> DEFINE T == {5, Room + 1}
<1>1. Room + 1 \in Nat
  BY RoomIs
<1>2. \E m \in T : \A n \in T : m >= n
  BY <1>1
<1>3. Max(T) \in T /\ \A n \in T : Max(T) >= n
  BY <1>2 DEF Max
<1> QED
  BY <1>1, <1>3

LEMMA WireEmpty ==
  ASSUME NEW s \in Seq(Byte) PROVE s \o <<>> = s
BY ConcatEmptySeq

\* The bytes of a message without extensions.
LEMMA SmallData ==
  ASSUME NEW m \in SmallMessages
  PROVE  /\ m.data \in Seq(Data) /\ Len(m.data) <= 4
         /\ Head(Messages(m)).status \in {NoteOn, ControlChg, ProgramChg, MClock}
         /\ m.status = Note => Message(NoteOn, <<m.data[1], 0>>) \in SmallMessages
<1> DEFINE A == {Message(s, d) : s \in {NoteOn, ControlChg, Note}, d \in Data \X Data}
           B == {Message(ProgramChg, <<v>>) : v \in Data}
           C == {Message(Ctrl14b, d) : d \in Data \X Data \X Data \X Data}
<1>0. m \in A \/ m \in B \/ m = Message(MClock, <<>>) \/ m \in C
  BY DEF SmallMessages
<1>1. \A s, d : Message(s, d).status = s /\ Message(s, d).data = d
  BY DEF Message
<1>2. /\ Note # NoteOn /\ Note # ControlChg /\ Note # ProgramChg /\ Note # MClock
      /\ Note # Ctrl14b /\ Ctrl14b # NoteOn /\ Ctrl14b # ControlChg /\ Ctrl14b # ProgramChg
      /\ Ctrl14b # MClock
  BY DEF NoteOn, ControlChg, Note, ProgramChg, MClock, Ctrl14b
<1>3. \A q : Head(<<q>>) = q
  OBVIOUS
<1>4. m.status # Note /\ m.status # Ctrl14b => Head(Messages(m)).status = m.status
  BY <1>3 DEF Messages
<1>5. CASE m \in A
  <2>1. PICK s \in {NoteOn, ControlChg, Note}, d \in Data \X Data : m = Message(s, d)
    BY <1>5
  <2>2. PICK a \in Data, b \in Data : d = <<a, b>>
    OBVIOUS
  <2>3. d \in Seq(Data) /\ Len(d) <= 4
    BY <2>2
  <2>4. m.status = s /\ m.data = d
    BY <1>1, <2>1
  <2>5. CASE s = Note
    <3>1. Messages(m) = <<Message(NoteOn, d)>>
      BY <2>4, <2>5 DEF Messages
    <3>2. Head(Messages(m)).status = NoteOn
      BY <1>1, <1>3, <3>1
    <3>3. <<m.data[1], 0>> \in Data \X Data
      BY <2>2, <2>4 DEF Data
    <3>4. Message(NoteOn, <<m.data[1], 0>>) \in SmallMessages
      BY <3>3 DEF SmallMessages
    <3> QED
      BY <2>3, <2>4, <3>2, <3>4
  <2>6. CASE s # Note
    BY <1>2, <1>4, <2>3, <2>4, <2>6
  <2> QED
    BY <2>5, <2>6
<1>6. CASE m \in B
  <2>1. PICK v \in Data : m = Message(ProgramChg, <<v>>)
    BY <1>6
  <2>2. <<v>> \in Seq(Data) /\ Len(<<v>>) <= 4
    OBVIOUS
  <2> QED
    BY <1>1, <1>2, <1>4, <2>1, <2>2
<1>7. CASE m = Message(MClock, <<>>)
  <2>1. <<>> \in Seq(Data) /\ Len(<<>>) <= 4
    OBVIOUS
  <2> QED
    BY <1>1, <1>2, <1>4, <1>7, <2>1
<1>8. CASE m \in C
  <2>1. PICK d \in Data \X Data \X Data \X Data : m = Message(Ctrl14b, d)
    BY <1>8
  <2>2. PICK a \in Data, b \in Data, p \in Data, q \in Data : d = <<a, b, p, q>>
    OBVIOUS
  <2>3. d \in Seq(Data) /\ Len(d) <= 4
    BY <2>2
  <2>4. m.status = Ctrl14b /\ m.data = d
    BY <1>1, <2>1
  <2>5. Messages(m) = <<Message(ControlChg, SubSeq(d, 1, 2)), Message(ControlChg, SubSeq(d, 3, 4))>>
    BY <1>2, <2>4 DEF Messages
  <2>6. Head(Messages(m)) = Message(ControlChg, SubSeq(d, 1, 2))
    BY <2>5
  <2> QED
    BY <1>1, <1>2, <2>3, <2>4, <2>6
<1> HIDE DEF A, B, C
<1> QED
  BY <1>0, <1>5, <1>6, <1>7, <1>8

LEMMA SmallBytes ==
  ASSUME NEW m \in SmallMessages, NEW t, t = <<Head(Messages(m)).status>> \o m.data
  PROVE  t \in Seq(Byte) /\ t # <<>> /\ Len(t) <= 5 /\ \A i \in 1..Len(t) : t[i] # SysEx
<1> DEFINE c == Head(Messages(m)).status
           d == m.data
<1>1. d \in Seq(Data) /\ Len(d) <= 4 /\ c \in {NoteOn, ControlChg, ProgramChg, MClock}
  BY SmallData
<1> HIDE DEF c, d
<1>2. c \in Byte /\ c # SysEx
  BY <1>1 DEF Byte, NoteOn, ControlChg, ProgramChg, MClock, SysEx
<1>3. <<c>> \in Seq(Byte) /\ Len(<<c>>) = 1 /\ <<c>>[1] = c
  BY <1>2
<1>4. d \in Seq(Byte) /\ \A i \in 1..Len(d) : d[i] # SysEx
  <2>1. \A i \in 1..Len(d) : d[i] \in Data
    BY <1>1
  <2>2. Data \subseteq Byte /\ SysEx \notin Data
    BY Distinct
  <2>3. d \in Seq(Byte)
    BY <1>1, <2>2
  <2> QED
    BY <2>1, <2>2, <2>3
<1>5. /\ t \in Seq(Byte) /\ Len(t) = 1 + Len(d)
      /\ \A i \in 1..1 + Len(d) : t[i] = IF i <= 1 THEN c ELSE d[i - 1]
  <2>1. t = <<c>> \o d
    BY DEF c, d
  <2>2. /\ <<c>> \o d \in Seq(Byte) /\ Len(<<c>> \o d) = Len(<<c>>) + Len(d)
        /\ \A i \in 1..Len(<<c>>) + Len(d) :
             (<<c>> \o d)[i] = IF i <= Len(<<c>>) THEN <<c>>[i] ELSE d[i - Len(<<c>>)]
    BY <1>3, <1>4, ConcatProperties
  <2>3. ASSUME NEW i \in 1..1 + Len(d) PROVE t[i] = IF i <= 1 THEN c ELSE d[i - 1]
    <3>1. i <= 1 => i = 1
      BY <1>1
    <3> QED
      BY <1>3, <2>1, <2>2, <3>1
  <2> QED
    BY <1>3, <2>1, <2>2, <2>3
<1>6. \A i \in 1..Len(t) : t[i] # SysEx
  <2> TAKE i \in 1..Len(t)
  <2>1. CASE i <= 1
    BY <1>2, <1>5, <2>1
  <2>2. CASE ~ i <= 1
    <3>1. i - 1 \in 1..Len(d)
      BY <1>1, <1>5, <2>2
    <3> QED
      BY <1>4, <1>5, <2>2, <3>1
  <2> QED
    BY <2>1, <2>2
<1> QED
  BY <1>1, <1>5, <1>6

LEMMA PutSmallStep ==
  ASSUME IInv, NEW x \in Cell, PutSmall(x)
  PROVE  IInv'
<1> DEFINE h == heap
           m == own[x]
           t == <<Head(Messages(m)).status>> \o m.data
<1>1. PICK w : Apportioned(h, own, out.next, in.cur, w, resets)
  BY DEF IInv, Shared
<1>2. /\ out.data = <<>> /\ m # None /\ m.status # SysEx
      /\ wire' = wire /\ in' = in /\ resets' = resets
  BY DEF PutSmall, Idle
<1>3. m \in Kept /\ Event(h, x, m, Of(w, x)) /\ h \in Heaps
  BY <1>1, <1>2, OwnEvent
<1>4. h.ev[x] = m /\ h.se[x] = NULL /\ Of(w, x) = {x} /\ m \in SmallMessages
  BY <1>2, <1>3, SysExKept DEF Event
<1>5. ev[x] = m
  BY <1>4, HeapIs
<1>6. out' = [out EXCEPT !.data = t]
  BY <1>5 DEF PutSmall
<1>7. /\ m.status = Note =>
           /\ Becomes([h EXCEPT !.ev[x] = Message(NoteOn, <<m.data[1], 0>>)])
           /\ own' = [own EXCEPT ![x] = Message(NoteOn, <<m.data[1], 0>>)]
      /\ m.status # Note => Becomes(FreeCell(h, x)) /\ own' = [own EXCEPT ![x] = None]
  BY <1>5 DEF PutSmall
<1>8. m.status = Note => Message(NoteOn, <<m.data[1], 0>>) \in SmallMessages
  BY <1>4, SmallData
<1>9. t \in Seq(Byte) /\ t # <<>> /\ Len(t) <= 5 /\ \A i \in 1..Len(t) : t[i] # SysEx
  BY <1>4, SmallBytes
<1> HIDE DEF h, m, t
<1>10. Shared(heap', own', out.next, in.cur, resets)
  <2>1. CASE m.status = Note
    <3> DEFINE end == Message(NoteOn, <<m.data[1], 0>>)
               g == [h EXCEPT !.ev[x] = end]
    <3>1. end \in SmallMessages /\ end \in Kept /\ end.status # SysEx
      <4>1. end.status = NoteOn
        BY DEF Message
      <4> QED
        BY <1>8, <2>1, <4>1, SysExKept DEF NoteOn, SysEx
    <3>2. Becomes(g) /\ own' = [own EXCEPT ![x] = end]
      BY <1>7, <2>1
    <3> HIDE DEF end
    <3>3. /\ g \in Heaps /\ g.free = h.free /\ g.se = h.se /\ g.link = h.link
          /\ g.bytes = h.bytes /\ g.ev[x] = end /\ \A b \in Cell : b # x => g.ev[b] = h.ev[b]
      <4> DEFINE f == [h.ev EXCEPT ![x] = end]
      <4>1. /\ f \in [Cell -> Kept \cup {NULL}] /\ f[x] = end
            /\ \A b \in Cell : b # x => f[b] = h.ev[b]
        BY <1>3, <3>1 DEF Heaps
      <4>2. g = [h EXCEPT !.ev = f]
        OBVIOUS
      <4> HIDE DEF f, g
      <4> QED
        BY <1>3, <4>1, <4>2 DEF Heaps
    <3> HIDE DEF g
    <3>4. Unchanged(h, g, Cell \ {x})
      BY <3>3 DEF Unchanged
    <3>5. Event(g, x, end, Of(w, x))
      BY <1>4, <3>1, <3>3 DEF Event
    <3>6. Apportioned(g, [own EXCEPT ![x] = end], out.next, in.cur, w, resets)
      BY <1>1, <1>2, <3>1, <3>3, <3>4, <3>5, OwnChanged DEF m
    <3> QED
      BY <3>2, <3>6, BecomesShared
  <2>2. CASE m.status # Note
    <3> DEFINE g == FreeCell(h, x)
    <3>1. Returned(h, g, Of(w, x))
      BY <1>3, <1>4, MSFreeEvIs, <1>2 DEF MSFreeEv
    <3> HIDE DEF g
    <3>2. PICK v : Apportioned(g, [own EXCEPT ![x] = None], out.next, in.cur, v, resets)
      BY <1>1, <1>2, <3>1, OwnFreed DEF m
    <3> QED
      BY <1>7, <2>2, <3>2, BecomesShared DEF g
  <2> QED
    BY <2>1, <2>2
<1>11. out'.data = t /\ out'.next = out.next /\ out'.next = NULL
       /\ out' \in [data : Seq(Byte), next : Cell \cup {NULL}]
  BY <1>2, <1>6, <1>9 DEF IInv, LineTyped
<1>12. LineTyped(wire', out')
  <2>1. Len(t) <= Max({5, Room + 1})
    BY <1>9, MaxIs
  <2> QED
    BY <1>2, <1>9, <1>11, <2>1 DEF IInv, LineTyped
<1>13. Awaited(wire', out', in', resets')
  <2> SUFFICES ASSUME resets = 0
               PROVE  /\ Paired(wire \o t, TRUE, in.cur # NULL)
                      /\ in.cur # NULL => in.parse = "SysExNext"
    BY <1>2, <1>11 DEF Awaited
  <2>1. wire \in Seq(Byte) /\ out.next = NULL
    BY <1>2 DEF IInv, LineTyped
  <2>2. Paired(wire, TRUE, in.cur # NULL) /\ (in.cur # NULL => in.parse = "SysExNext")
    BY <1>2, <2>1, WireEmpty DEF IInv, Awaited
  <2>3. Paired(t, TRUE, FALSE)
    BY <1>9, PairedNone
  <2> QED
    BY <1>9, <2>1, <2>2, <2>3, PairedBehind
<1> QED
  BY <1>2, <1>10, <1>11, <1>12, <1>13 DEF IInv

\* What extensions hold, the end of the message perhaps behind it.
LEMMA DataBytes ==
  ASSUME NEW b \in Contents, NEW end \in {<<>>, <<EndSysX>>}
  PROVE  /\ b \o end \in Seq(Byte) /\ Len(b \o end) = Len(b) + Len(end)
         /\ \A i \in 1..Len(b \o end) : (b \o end)[i] \notin Openers
         /\ end = <<EndSysX>> => b \o end # <<>> /\ (b \o end)[Len(b \o end)] = EndSysX
         /\ b \in Seq(Byte) /\ end \in Seq(Byte) /\ Len(b) \in Nat /\ Len(b) <= Room
<1> DEFINE t == b \o end
<1>1. /\ b \in Seq(Data) /\ Len(b) \in Nat /\ Len(b) <= Room
      /\ \A i \in 1..Len(b) : b[i] \in Data
  BY DEF Contents
<1>2. b \in Seq(Byte) /\ \A i \in 1..Len(b) : b[i] \notin Openers
  <2>1. Data \subseteq Byte /\ Data \cap Openers = {}
    BY Distinct
  <2> QED
    BY <1>1, <2>1
<1>3. EndSysX \in Byte /\ EndSysX \notin Openers
  BY Distinct
<1>4. end \in Seq(Byte)
  <2>1. <<>> \in Seq(Byte) /\ <<EndSysX>> \in Seq(Byte)
    BY <1>3
  <2> QED
    BY <2>1
<1>5. CASE end = <<>>
  <2>1. t = b
    BY <1>2, <1>5, ConcatEmptySeq
  <2>2. Len(end) = 0 /\ end # <<EndSysX>>
    BY <1>5
  <2> QED
    BY <1>1, <1>2, <1>4, <2>1, <2>2
<1>6. CASE end = <<EndSysX>>
  <2>1. t = Append(b, EndSysX)
    BY <1>2, <1>3, <1>6, AppendIsConcat
  <2>2. /\ t \in Seq(Byte) /\ t # <<>> /\ Len(t) = Len(b) + 1
        /\ \A i \in 1..Len(b) : t[i] = b[i]
        /\ t[Len(b) + 1] = EndSysX
    BY <1>2, <1>3, <2>1, AppendProperties
  <2>3. Len(end) = 1
    BY <1>6
  <2> HIDE DEF t
  <2>4. \A i \in 1..Len(t) : t[i] \notin Openers
    <3> TAKE i \in 1..Len(t)
    <3>1. CASE i = Len(b) + 1
      BY <1>3, <2>2, <3>1
    <3>2. CASE i # Len(b) + 1
      <4>1. i \in 1..Len(b)
        BY <1>1, <2>2, <3>2
      <4> QED
        BY <1>2, <2>2, <4>1
    <3> QED
      BY <3>1, <3>2
  <2> QED
    BY <1>1, <1>2, <1>4, <2>2, <2>3, <2>4 DEF t
<1> QED
  BY <1>5, <1>6

LEMMA PutSysExStep ==
  ASSUME IInv, NEW x \in Cell, PutSysEx(x)
  PROVE  IInv'
<1> DEFINE h == heap
           first == h.link[h.se[x]]
           g == [h EXCEPT !.link[h.se[x]] = NULL]
           end == IF first = h.se[x] THEN <<EndSysX>> ELSE <<>>
           b == h.bytes[first]
           t == b \o end
           z == g.link[first]
           k == FreeCell(FreeCell(g, x), first)
<1>1. PICK w : Apportioned(h, own, out.next, in.cur, w, resets)
  BY DEF IInv, Shared
<1>2. /\ out.data = <<>> /\ own[x].status = SysEx
      /\ wire' = wire /\ in' = in /\ resets' = resets
      /\ own' = [own EXCEPT ![x] = None]
  BY DEF PutSysEx, Idle
<1>3. out' = [data |-> <<SysEx>> \o b \o end, next |-> z] /\ Becomes(k)
  BY HeapIs DEF PutSysEx
<1>4. out.next = NULL /\ wire \in Seq(Byte) /\ Len(wire) <= MaxWire
  BY <1>2 DEF IInv, LineTyped
<1> HIDE DEF h
<1>5. Apportioned(h, own, NULL, in.cur, w, resets) /\ h \in Heaps
  BY <1>1, <1>4 DEF Apportioned
<1>6. /\ \E v : Apportioned(k, [own EXCEPT ![x] = None], z, in.cur, v, resets)
      /\ first \in Cell
      /\ first = h.se[x] => Len(h.bytes[first]) < Room
      /\ z = NULL => first = h.se[x]
  BY <1>2, <1>5, OwnPut
<1>7. b \in Contents /\ end \in {<<>>, <<EndSysX>>}
  BY <1>5, <1>6 DEF Heaps
<1> HIDE DEF k, z, first
<1>8. /\ (first = h.se[x] => Len(b) < Room)
      /\ (z = NULL => end = <<EndSysX>>)
      /\ (end = <<EndSysX>> => first = h.se[x])
  BY <1>6
<1> HIDE DEF b, end
<1>9. /\ t \in Seq(Byte) /\ Len(t) = Len(b) + Len(end)
      /\ \A i \in 1..Len(t) : t[i] \notin Openers
      /\ end = <<EndSysX>> => t # <<>> /\ t[Len(t)] = EndSysX
      /\ b \in Seq(Byte) /\ end \in Seq(Byte) /\ Len(b) \in Nat /\ Len(b) <= Room
  BY <1>7, DataBytes
<1>10. <<SysEx>> \in Seq(Byte) /\ Len(<<SysEx>>) = 1
  <2>1. SysEx \in Byte
    BY Distinct
  <2> QED
    BY <2>1
<1>11. <<SysEx>> \o b \o end = <<SysEx>> \o t
  BY <1>9, <1>10, ConcatAssociative
<1> HIDE DEF t
<1> DEFINE u == <<SysEx>> \o t
<1>12. u \in Seq(Byte) /\ Len(u) = 1 + Len(t) /\ u # <<>>
  <2>1. u \in Seq(Byte) /\ Len(u) = 1 + Len(t) /\ Len(t) \in Nat
    BY <1>9, <1>10, ConcatProperties
  <2> HIDE DEF u
  <2> QED
    BY <2>1
<1>13. Len(u) <= Room + 1
  <2>1. Len(<<>>) = 0 /\ Len(<<EndSysX>>) = 1
    OBVIOUS
  <2>2. Len(b) + Len(end) <= Room
    <3>1. CASE end = <<>>
      BY <1>9, <2>1, <3>1, RoomIs
    <3>2. CASE end = <<EndSysX>>
      <4>1. Len(b) < Room /\ Len(end) = 1
        BY <1>8, <2>1, <3>2
      <4> QED
        BY <1>9, <4>1, RoomIs
    <3> QED
      BY <1>7, <3>1, <3>2
  <2> QED
    BY <1>9, <1>12, <2>2, RoomIs
<1>14. out'.data = u /\ out'.next = z
  BY <1>3, <1>11
<1>15. Shared(heap', own', out'.next, in'.cur, resets')
  <2>1. Shared(heap', own', z, in.cur, resets)
    BY <1>2, <1>3, <1>6, BecomesShared
  <2> QED
    BY <1>2, <1>14, <2>1
<1>16. z \in Cell \cup {NULL}
  <2>1. PICK v : Line(k, z, Of(v, OfOut))
    BY <1>6 DEF Apportioned
  <2> QED
    BY <2>1, LineCells
<1>17. Paired(u, z = NULL, FALSE)
  <2>1. <<SysEx>> \in Seq(Byte) /\ Paired(<<SysEx>>, FALSE, FALSE)
    BY <1>10, PairedOne
  <2>2. z = NULL => t # <<>> /\ t[Len(t)] = EndSysX
    BY <1>8, <1>9
  <2> QED
    BY <1>9, <2>1, <2>2, PairedMore
<1> HIDE DEF u
<1>18. LineTyped(wire', out')
  <2>1. Len(u) <= Max({5, Room + 1})
    BY <1>12, <1>13, MaxIs, RoomIs
  <2>2. out' = [data |-> u, next |-> z]
    BY <1>3, <1>11 DEF u
  <2> QED
    BY <1>2, <1>4, <1>12, <1>16, <2>1, <2>2 DEF LineTyped
<1>19. Awaited(wire', out', in', resets')
  <2> SUFFICES ASSUME resets = 0
               PROVE  /\ Paired(wire \o u, z = NULL, in.cur # NULL)
                      /\ in.cur # NULL => in.parse = "SysExNext"
    BY <1>2, <1>14 DEF Awaited
  <2>1. Paired(wire, TRUE, in.cur # NULL) /\ (in.cur # NULL => in.parse = "SysExNext")
    BY <1>2, <1>4, WireEmpty DEF IInv, Awaited
  <2> QED
    BY <1>4, <1>12, <1>17, <2>1, PairedBehind
<1> QED
  BY <1>2, <1>15, <1>18, <1>19 DEF IInv

LEMMA MergeStep ==
  ASSUME IInv, Merge
  PROVE  IInv'
<1>1. /\ wire' = Append(wire, MClock) /\ Len(wire) < MaxWire
      /\ heap' = heap /\ own' = own /\ out' = out /\ in' = in /\ resets' = resets
  BY DEF Merge, heapVars, heap
<1>2. wire \in Seq(Byte) /\ out.data \in Seq(Byte)
  BY DEF IInv, LineTyped
<1>3. MClock \in Byte /\ MClock \notin Openers
  BY Distinct
<1>4. wire' \in Seq(Byte) /\ Len(wire') <= MaxWire
  BY <1>1, <1>2, <1>3, AppendProperties, StreamsAssumption
<1>5. LineTyped(wire', out')
  BY <1>1, <1>4 DEF IInv, LineTyped
<1>6. Awaited(wire', out', in', resets')
  <2> SUFFICES ASSUME resets = 0
               PROVE  /\ Paired(Append(wire, MClock) \o out.data, out.next = NULL, in.cur # NULL)
                      /\ in.cur # NULL => in.parse = "SysExNext"
    BY <1>1 DEF Awaited
  <2>1. /\ Paired(wire \o out.data, out.next = NULL, in.cur # NULL)
        /\ in.cur # NULL => in.parse = "SysExNext"
    BY DEF IInv, Awaited
  <2> QED
    BY <1>2, <1>3, <2>1, PairedWithin
<1> QED
  BY <1>1, <1>5, <1>6 DEF IInv

LEMMA ResetStep ==
  ASSUME IInv, MidiStreamReset
  PROVE  IInv'
<1> DEFINE h == heap
           S == ToSet(Cells(h, out.next))
           g == [h EXCEPT !.free = @ \cup S]
<1>1. PICK w : Apportioned(h, own, out.next, in.cur, w, resets)
  BY DEF IInv, Shared
<1>2. /\ own' = own /\ wire' = wire /\ in' = in
      /\ resets' = resets + 1 /\ out' = [data |-> <<>>, next |-> NULL]
      /\ out.next = NULL => Becomes(h)
      /\ out.next # NULL => Becomes(g)
  BY DEF MidiStreamReset
<1>3. resets' \in Nat /\ resets' # 0
  BY <1>2 DEF IInv
<1> HIDE DEF h
<1>4. \A v, k : Apportioned(k, own, NULL, in.cur, v, resets)
                => Apportioned(k, own, NULL, in.cur, v, resets')
  BY <1>3 DEF Apportioned
<1>5. Shared(heap', own', NULL, in.cur, resets')
  <2>1. CASE out.next = NULL
    BY <1>1, <1>2, <1>4, <2>1, BecomesShared
  <2>2. CASE out.next # NULL
    <3>1. Line(h, out.next, Of(w, OfOut)) /\ h \in Heaps
      BY <1>1 DEF Apportioned
    <3>2. S = Of(w, OfOut) /\ S \subseteq Cell
      BY <2>2, <3>1, LineCells
    <3> HIDE DEF S
    <3>3. Returned(h, g, S)
      BY <3>1, <3>2 DEF Returned, Heaps, Unchanged
    <3> HIDE DEF g
    <3>4. Line(h, NULL, Of(w, OfOut) \ S)
      BY <3>2 DEF Line
    <3>5. PICK v : Apportioned(g, own, NULL, in.cur, v, resets)
      BY <1>1, <3>2, <3>3, <3>4, LineFreed
    <3> QED
      BY <1>2, <1>4, <2>2, <3>5, BecomesShared
  <2> QED
    BY <2>1, <2>2
<1>6. LineTyped(wire', out')
  <2>1. <<>> \in Seq(Byte) /\ Len(<<>>) <= Max({5, Room + 1})
    BY MaxIs
  <2> QED
    BY <1>2, <2>1 DEF IInv, LineTyped
<1>7. Awaited(wire', out', in', resets')
  BY <1>3 DEF Awaited
<1> QED
  BY <1>2, <1>3, <1>5, <1>6, <1>7 DEF IInv

LEMMA GetByteStep ==
  ASSUME IInv, MidiStreamGetByte
  PROVE  IInv'
<1> DEFINE h == heap
           d == out.data
           c == Head(d)
           y == out.next
<1>1. PICK w : Apportioned(h, own, y, in.cur, w, resets)
  BY DEF IInv, Shared
<1>2. /\ d # <<>> /\ Len(wire) < MaxWire /\ wire' = Append(wire, c)
      /\ own' = own /\ in' = in /\ resets' = resets
  BY DEF MidiStreamGetByte, Idle
<1>3. /\ wire \in Seq(Byte) /\ d \in Seq(Byte) /\ Len(d) <= Max({5, Room + 1})
      /\ out = [data |-> d, next |-> y] /\ y \in Cell \cup {NULL}
  BY DEF IInv, LineTyped
<1>4. resets = 0 => /\ Paired(wire \o d, y = NULL, in.cur # NULL)
                    /\ in.cur # NULL => in.parse = "SysExNext"
  BY DEF IInv, Awaited
<1>5. \/ (Len(d) > 1 \/ y = NULL) /\ out' = [out EXCEPT !.data = Tail(d)] /\ heap' = heap
      \/ /\ ~ (Len(d) > 1 \/ y = NULL)
         /\ out' = [data |-> Continued(y), next |-> h.link[y]] /\ Becomes(FreeCell(h, y))
  BY HeapIs DEF MidiStreamGetByte, heapVars, heap
<1>6. c \in Byte /\ Len(d) \in Nat /\ Len(d) # 0
  BY <1>2, <1>3
<1>7. wire' \in Seq(Byte) /\ Len(wire') <= MaxWire /\ wire' = wire \o <<c>> /\ <<c>> \in Seq(Byte)
  <2>1. wire' = wire \o <<c>> /\ <<c>> \in Seq(Byte)
    BY <1>2, <1>3, <1>6, AppendIsConcat
  <2>2. wire' \in Seq(Byte) /\ Len(wire') = Len(wire) + 1
    BY <1>2, <1>3, <1>6, AppendProperties
  <2>3. Len(wire) \in Nat /\ MaxWire \in Nat
    BY <1>3, StreamsAssumption
  <2> QED
    BY <1>2, <2>1, <2>2, <2>3
<1> HIDE DEF h, d, c, y
<1>8. CASE (Len(d) > 1 \/ y = NULL) /\ out' = [out EXCEPT !.data = Tail(d)] /\ heap' = heap
  <2>1. Tail(d) \in Seq(Byte) /\ Len(Tail(d)) = Len(d) - 1
    BY <1>2, <1>3, HeadTailProperties
  <2>2. out' = [data |-> Tail(d), next |-> y]
    BY <1>3, <1>8
  <2>3. Tail(d) = <<>> => y = NULL
    <3>1. Len(d) > 1 \/ y = NULL
      BY <1>8
    <3>2. Tail(d) = <<>> => Len(d) - 1 = 0
      BY <2>1
    <3>3. Len(d) - 1 = 0 => ~ Len(d) > 1
      <4>1. \A n \in Nat : n - 1 = 0 => ~ n > 1
        OBVIOUS
      <4>2. Len(d) \in Nat
        BY <1>6
      <4> QED
        BY <4>1, <4>2, Zenon
    <3> QED
      BY <3>1, <3>2, <3>3
  <2>4. wire' \o Tail(d) = wire \o d
    <3>1. d = <<c>> \o Tail(d)
      <4>1. <<c>> \o Tail(d) \in Seq(Byte) /\ Len(<<c>> \o Tail(d)) = Len(d)
            /\ \A i \in 1..Len(d) : (<<c>> \o Tail(d))[i] = d[i]
        BY <1>2, <1>3, <1>6, <1>7, <2>1, HeadTailProperties, ConcatProperties DEF c
      <4> QED
        BY <1>3, <4>1, SeqEqual
    <3>2. (wire \o <<c>>) \o Tail(d) = wire \o (<<c>> \o Tail(d))
      BY <1>3, <1>7, <2>1, ConcatAssociative
    <3> QED
      BY <1>7, <3>1, <3>2
  <2>5. LineTyped(wire', out')
    <3>1. Len(Tail(d)) <= Max({5, Room + 1})
      BY <1>3, <1>6, <2>1, MaxIs
    <3> QED
      BY <1>3, <1>7, <2>1, <2>2, <2>3, <3>1 DEF LineTyped
  <2>6. Awaited(wire', out', in', resets')
    BY <1>2, <1>4, <2>2, <2>4 DEF Awaited
  <2>7. Shared(heap', own', out'.next, in'.cur, resets')
    BY <1>2, <1>8, <2>2 DEF IInv, y
  <2> QED
    BY <1>2, <2>5, <2>6, <2>7 DEF IInv
<1>9. CASE /\ ~ (Len(d) > 1 \/ y = NULL)
           /\ out' = [data |-> Continued(y), next |-> h.link[y]] /\ Becomes(FreeCell(h, y))
  <2> DEFINE z == h.link[y]
             b == h.bytes[y]
             end == IF z = NULL THEN <<EndSysX>> ELSE <<>>
             t == b \o end
  <2>1. Continued(y) = t
    BY HeapIs DEF Continued, h
  <2>2. y # NULL /\ y \in Cell /\ Line(h, y, Of(w, OfOut)) /\ h \in Heaps
    BY <1>1, <1>3, <1>9 DEF Apportioned
  <2>3. /\ Line(h, z, Of(w, OfOut) \ {y})
        /\ z = NULL => Len(b) < Room
        /\ z # NULL => Len(b) = Room
    BY <2>2, LineTail
  <2>4. {y} \subseteq Of(w, OfOut)
    BY <2>2, LineCells
  <2>5. z \in Cell \cup {NULL} /\ b \in Contents /\ end \in {<<>>, <<EndSysX>>}
    BY <2>2 DEF Heaps
  <2> DEFINE g == FreeCell(h, y)
  <2>6. Returned(h, g, {y})
    BY <2>2 DEF Returned, Heaps, Unchanged, FreeCell
  <2> HIDE DEF g, z, b
  <2>7. PICK v : Apportioned(g, own, z, in.cur, v, resets)
    BY <1>1, <2>3, <2>4, <2>6, LineFreed
  <2>8. Shared(heap', own', z, in.cur, resets)
    BY <1>2, <1>9, <2>7, BecomesShared DEF g
  <2>9. /\ z = NULL <=> end = <<EndSysX>>
        /\ Len(end) = IF z = NULL THEN 1 ELSE 0
    OBVIOUS
  <2> HIDE DEF end
  <2>10. /\ t \in Seq(Byte) /\ Len(t) = Len(b) + Len(end)
         /\ \A i \in 1..Len(t) : t[i] \notin Openers
         /\ end = <<EndSysX>> => t # <<>> /\ t[Len(t)] = EndSysX
         /\ Len(b) \in Nat
    BY <2>5, DataBytes
  <2> HIDE DEF t
  <2>11. Len(t) <= Room /\ Len(t) # 0 /\ Len(t) \in Nat
    BY <2>3, <2>9, <2>10, RoomIs
  <2>12. out' = [data |-> t, next |-> z]
    BY <1>9, <2>1 DEF z
  <2>13. LineTyped(wire', out')
    <3>1. Len(t) <= Max({5, Room + 1})
      BY <2>11, MaxIs, RoomIs
    <3>2. t # <<>>
      BY <2>11
    <3> QED
      BY <1>7, <2>5, <2>10, <2>12, <3>1, <3>2 DEF LineTyped
  <2>14. wire' = wire \o d
    <3>1. Len(d) = 1
      <4>1. ~ Len(d) > 1
        BY <1>9
      <4>2. \A n \in Nat : n # 0 /\ ~ n > 1 => n = 1
        OBVIOUS
      <4>3. Len(d) \in Nat /\ Len(d) # 0
        BY <1>6
      <4> QED
        BY <4>1, <4>2, <4>3, Zenon
    <3>2. d = <<c>>
      BY <1>3, <3>1 DEF c
    <3> QED
      BY <1>7, <3>2
  <2>15. Awaited(wire', out', in', resets')
    <3> SUFFICES ASSUME resets = 0
                 PROVE  /\ Paired(wire' \o t, z = NULL, in.cur # NULL)
                        /\ in.cur # NULL => in.parse = "SysExNext"
      BY <1>2, <2>12 DEF Awaited
    <3>1. y # NULL /\ Paired(wire \o d, y = NULL, in.cur # NULL)
      BY <1>4, <2>2
    <3>2. Paired(wire', FALSE, in.cur # NULL)
      BY <2>14, <3>1
    <3>3. z = NULL => t # <<>> /\ t[Len(t)] = EndSysX
      BY <2>9, <2>10
    <3>4. Paired(wire' \o t, z = NULL, in.cur # NULL)
      BY <1>7, <2>10, <3>2, <3>3, PairedMore
    <3> QED
      BY <1>4, <3>4
  <2> QED
    BY <1>2, <2>8, <2>12, <2>13, <2>15 DEF IInv
<1> QED
  BY <1>5, <1>8, <1>9

\* What a byte does to the event that the parser makes: nothing, or it begins it,
\* ends it, or adds to it.
Kept1(i, c, r) ==
  r.heap = heap /\ r.in.cur = i.cur
  /\ (i.parse = "SysExNext" /\ c \notin Openers => r.in = i /\ c # EndSysX)
Begun(c, r) ==
  /\ c = SysEx /\ Cardinality(free) > 1 /\ r.heap = NewSexEv(heap)
  /\ r.in.parse = "SysExNext" /\ r.in.cur = Next1(heap)
Ended(i, r) ==
  i.parse = "SysExNext" /\ r.heap = FreeSexEv(heap, i.cur) /\ r.in.cur = NULL
Filled(i, c, r) ==
  /\ i.parse = "SysExNext" /\ c \in Data /\ ~ (NeedsCell(heap, i.cur) /\ free = {})
  /\ r.heap = AddFSexEv(heap, i.cur, c) /\ r.in = i

LEMMA StoreIs ==
  ASSUME NEW i, NEW m
  PROVE  Store(i, m).heap = heap /\ Store(i, m).in = i
BY DEF Store, Result

LEMMA GoesIs ==
  ASSUME NEW i
  PROVE  Goes(i).heap = heap /\ Goes(i).in = i
BY DEF Goes, Result

LEMMA StatusIs ==
  ASSUME NEW i, ParserTyped(i), NEW c \in Byte, free \subseteq Cell
  PROVE  LET r == rcvStatus(i, c)
         IN /\ ParserTyped(r.in)
            /\ \/ r.heap = heap /\ r.in.cur = i.cur /\ (c \notin Openers => r.in = i)
               \/ Begun(c, r)
<1> DEFINE r == rcvStatus(i, c)
<1>0. i.cur \in Cell \cup {NULL} /\ 0 \in Byte
  BY DEF ParserTyped, Byte, Data
<1>1. CASE c \in {NoteOn, ControlChg, ProgramChg}
  <2> DEFINE p == IF c = ProgramChg THEN "DataU" ELSE "DataM"
             j == [parse |-> p, status |-> c, data |-> 0, cur |-> i.cur]
  <2>1. r = Goes(j)
    BY <1>1 DEF rcvStatus
  <2>2. r.heap = heap /\ r.in = j
    BY <2>1, GoesIs
  <2>3. p \in {"Status", "DataM", "DataD", "DataU"}
    OBVIOUS
  <2> HIDE DEF p, r
  <2>4. ParserTyped(j) /\ j.cur = i.cur
    BY <1>0, <2>3 DEF ParserTyped
  <2>5. c \in Openers
    BY <1>1 DEF Openers
  <2> QED
    BY <2>2, <2>4, <2>5 DEF r
<1>2. CASE c \notin {NoteOn, ControlChg, ProgramChg} /\ c = SysEx
  <2>1. r = rcvSysExBeg(i)
    BY <1>2 DEF rcvStatus
  <2>2. CASE Cardinality(free) < 2
    <3> DEFINE j == [i EXCEPT !.parse = "Status"]
    <3>1. r = Result(j, heap, None, TRUE)
      BY <2>1, <2>2 DEF rcvSysExBeg
    <3>2. r.heap = heap /\ r.in = j
      BY <3>1 DEF Result
    <3>3. ParserTyped(j) /\ j.cur = i.cur
      BY <1>0 DEF ParserTyped
    <3> HIDE DEF r, j
    <3> QED
      BY <1>2, <3>2, <3>3, Distinct DEF r
  <2>3. CASE ~ Cardinality(free) < 2
    <3> DEFINE j == [parse |-> "SysExNext", status |-> 0, data |-> 0, cur |-> Next1(heap)]
    <3>1. r = Result(j, NewSexEv(heap), None, FALSE)
      BY <2>1, <2>3 DEF rcvSysExBeg
    <3>2. r.heap = NewSexEv(heap) /\ r.in = j
      BY <3>1 DEF Result
    <3>3. IsFiniteSet(free) /\ Cardinality(free) \in Nat
      BY FS_Subset, FS_CardinalityType, StreamsAssumption
    <3>4. Cardinality(free) > 1 /\ free # {}
      <4>1. \A n \in Nat : ~ n < 2 => n > 1 /\ n # 0
        OBVIOUS
      <4>2. Cardinality(free) > 1 /\ Cardinality(free) # 0
        BY <2>3, <3>3, <4>1
      <4> QED
        BY <4>2, FS_EmptySet
    <3>5. Next1(heap) \in Cell /\ Next1(heap) # NULL
      <4>1. Min(free) \in free
        BY <3>4, Min1
      <4> QED
        BY <4>1, HeapIs, StreamsAssumption DEF Next1
    <3>6. ParserTyped(j) /\ j.parse = "SysExNext" /\ j.cur = Next1(heap)
      BY <1>0, <3>5 DEF ParserTyped
    <3> HIDE DEF r, j
    <3>7. Begun(c, r)
      BY <1>2, <3>2, <3>4, <3>6 DEF Begun
    <3> QED
      BY <3>2, <3>6, <3>7 DEF r
  <2> QED
    BY <2>2, <2>3
<1>3. CASE c \notin {NoteOn, ControlChg, ProgramChg} /\ c # SysEx
  <2>1. r = Store(i, Message(MClock, <<>>)) \/ r = Goes(i)
    BY <1>3 DEF rcvStatus
  <2>2. r.heap = heap /\ r.in = i
    BY <2>1, StoreIs, GoesIs
  <2> HIDE DEF r
  <2> QED
    BY <2>2 DEF r
<1> QED
  BY <1>1, <1>2, <1>3

LEMMA ParseCases ==
  ASSUME NEW i, ParserTyped(i), NEW c \in Byte, free \subseteq Cell
  PROVE  LET r == MidiParseByte(i, c)
         IN /\ ParserTyped(r.in)
            /\ Kept1(i, c, r) \/ Begun(c, r) \/ Ended(i, r) \/ Filled(i, c, r)
<1> DEFINE r == MidiParseByte(i, c)
           s == rcvStatus(i, c)
<1>0. /\ i \in [parse : {"Status", "DataM", "DataD", "DataU", "SysExNext"},
                status : Byte, data : Byte, cur : Cell \cup {NULL}]
      /\ 0 \in Byte
  BY DEF ParserTyped, Byte, Data
<1>1. /\ ParserTyped(s.in)
      /\ \/ s.heap = heap /\ s.in.cur = i.cur /\ (c \notin Openers => s.in = i)
         \/ Begun(c, s)
  BY StatusIs
<1> HIDE DEF s
<1>2. ASSUME i.parse # "SysExNext" PROVE r = s \/ \E j : /\ ParserTyped(j) /\ j.cur = i.cur
                                                         /\ r.heap = heap /\ r.in = j
  <2> DEFINE p == [i EXCEPT !.parse = "DataD", !.data = c]
             q == [i EXCEPT !.parse = "DataM", !.data = 0]
  <2>1. ParserTyped(p) /\ p.cur = i.cur /\ ParserTyped(q) /\ q.cur = i.cur
    BY <1>0 DEF ParserTyped
  <2> HIDE DEF p, q
  <2>2. CASE i.parse = "Status"
    BY <2>2 DEF MidiParseByte, s
  <2>3. CASE i.parse = "DataM"
    <3>1. r = s \/ r = Goes(p)
      BY <2>3 DEF MidiParseByte, rcvDataM, s, p
    <3> HIDE DEF r
    <3> QED
      BY <2>1, <3>1, GoesIs
  <2>4. CASE i.parse = "DataD"
    <3>1. r = s \/ r = Store(q, Message(i.status, <<i.data, c>>))
      BY <2>4 DEF MidiParseByte, rcvDataD, s, q
    <3> HIDE DEF r
    <3> QED
      BY <2>1, <3>1, StoreIs
  <2>5. CASE i.parse = "DataU"
    <3>1. r = s \/ r = Store(i, Message(i.status, <<c>>))
      BY <2>5 DEF MidiParseByte, rcvDataU, s
    <3> HIDE DEF r
    <3> QED
      BY <3>1, StoreIs
  <2> QED
    BY <1>0, <1>2, <2>2, <2>3, <2>4, <2>5
<1>3. CASE i.parse # "SysExNext"
  <2> HIDE DEF r
  <2>1. CASE r = s
    BY <1>1, <1>3, <2>1 DEF Kept1, r
  <2>2. CASE \E j : ParserTyped(j) /\ j.cur = i.cur /\ r.heap = heap /\ r.in = j
    BY <1>3, <2>2 DEF Kept1, r
  <2> QED
    BY <1>2, <1>3, <2>1, <2>2
<1>4. CASE i.parse = "SysExNext"
  <2> DEFINE j == [i EXCEPT !.parse = "Status", !.cur = NULL]
             f == FreeSexEv(heap, i.cur)
  <2>1. ParserTyped(j) /\ j.cur = NULL
    BY <1>0 DEF ParserTyped
  <2>2. r = rcvSysExNext(i, c)
    BY <1>4 DEF MidiParseByte
  <2> HIDE DEF r, j
  <2>3. CASE c < 0 /\ c # EndSysX
    <3>1. r = s
      BY <2>2, <2>3 DEF rcvSysExNext, rcvSysExEnd, s
    <3> QED
      BY <1>1, <2>3, <3>1 DEF Kept1, r
  <2>4. CASE c < 0 /\ c = EndSysX
    <3>1. r = Result(j, f, Message(SysEx, Content(heap, i.cur)), FALSE)
      BY <2>2, <2>4 DEF rcvSysExNext, rcvSysExEnd, j
    <3> HIDE DEF f
    <3>2. r.heap = f /\ r.in = j
      BY <3>1 DEF Result
    <3> QED
      BY <1>4, <2>1, <3>2 DEF Ended, r, f
  <2>5. CASE ~ c < 0 /\ NeedsCell(heap, i.cur) /\ free = {}
    <3>1. r = Result(j, f, None, TRUE)
      BY <2>2, <2>5 DEF rcvSysExNext, j
    <3> HIDE DEF f
    <3>2. r.heap = f /\ r.in = j
      BY <3>1 DEF Result
    <3> QED
      BY <1>4, <2>1, <3>2 DEF Ended, r, f
  <2>6. CASE ~ c < 0 /\ ~ (NeedsCell(heap, i.cur) /\ free = {})
    <3> DEFINE g == AddFSexEv(heap, i.cur, c)
    <3>1. r = Result(i, g, None, FALSE)
      BY <2>2, <2>6 DEF rcvSysExNext
    <3> HIDE DEF g
    <3>2. r.heap = g /\ r.in = i
      BY <3>1 DEF Result
    <3>3. c \in Data
      BY <2>6, Distinct
    <3> QED
      BY <1>4, <2>6, <3>2, <3>3 DEF Filled, r, g
  <2> QED
    BY <2>3, <2>4, <2>5, <2>6
<1> QED
  BY <1>3, <1>4

LEMMA FirstByte ==
  ASSUME NEW s \in Seq(Byte), s # <<>>, NEW t \in Seq(Byte)
  PROVE  /\ s \o t \in Seq(Byte) /\ s \o t # <<>> /\ (s \o t)[1] = Head(s)
         /\ Tail(s \o t) = Tail(s) \o t
<1> DEFINE u == s \o t
           v == Tail(s) \o t
<1>1. /\ Len(s) \in Nat /\ Len(s) # 0 /\ Len(t) \in Nat /\ Head(s) = s[1]
      /\ Tail(s) \in Seq(Byte) /\ Len(Tail(s)) = Len(s) - 1
      /\ \A i \in 1..Len(s) - 1 : Tail(s)[i] = s[i + 1]
  BY HeadTailProperties
<1>2. /\ u \in Seq(Byte) /\ Len(u) = Len(s) + Len(t)
      /\ \A i \in 1..Len(s) + Len(t) : u[i] = IF i <= Len(s) THEN s[i] ELSE t[i - Len(s)]
  BY ConcatProperties
<1>3. /\ v \in Seq(Byte) /\ Len(v) = Len(Tail(s)) + Len(t)
      /\ \A i \in 1..Len(Tail(s)) + Len(t) :
           v[i] = IF i <= Len(Tail(s)) THEN Tail(s)[i] ELSE t[i - Len(Tail(s))]
  BY <1>1, ConcatProperties
<1> HIDE DEF u, v
<1>4. u # <<>> /\ u[1] = s[1]
  <2>1. Len(u) # 0 /\ 1 \in 1..Len(s) + Len(t) /\ 1 <= Len(s)
    BY <1>1, <1>2
  <2> QED
    BY <1>2, <2>1
<1>5. /\ Tail(u) \in Seq(Byte) /\ Len(Tail(u)) = Len(u) - 1
      /\ \A i \in 1..Len(u) - 1 : Tail(u)[i] = u[i + 1]
  BY <1>2, <1>4, HeadTailProperties
<1>6. Tail(u) = v
  <2>1. Len(Tail(u)) = Len(v) /\ Len(v) = Len(u) - 1
    BY <1>1, <1>2, <1>3, <1>5
  <2>2. ASSUME NEW i \in 1..Len(u) - 1 PROVE Tail(u)[i] = v[i]
    <3>1. i + 1 \in 1..Len(s) + Len(t) /\ i \in 1..Len(Tail(s)) + Len(t)
      BY <1>1, <1>2
    <3>2. CASE i + 1 <= Len(s)
      <4>1. i <= Len(Tail(s)) /\ i \in 1..Len(s) - 1
        BY <1>1, <3>2
      <4> QED
        BY <1>1, <1>2, <1>3, <1>5, <3>1, <3>2, <4>1
    <3>3. CASE ~ i + 1 <= Len(s)
      <4>1. ~ i <= Len(Tail(s)) /\ (i + 1) - Len(s) = i - Len(Tail(s))
        BY <1>1, <3>3
      <4> QED
        BY <1>2, <1>3, <1>5, <3>1, <3>3, <4>1
    <3> QED
      BY <3>2, <3>3
  <2> QED
    BY <1>3, <1>5, <2>1, <2>2, SeqEqual
<1> QED
  BY <1>1, <1>2, <1>4, <1>6 DEF u, v

LEMMA ReceiveStep ==
  ASSUME IInv, Receive
  PROVE  IInv'
<1> DEFINE h == heap
           c == Head(wire)
           r == MidiParseByte(in, c)
           k == r.heap
           j == r.in
           d == out.data
           s == wire \o d
           x == in.cur
           y == out.next
<1>1. PICK w : Apportioned(h, own, y, x, w, resets)
  BY DEF IInv, Shared
<1>2. /\ wire # <<>> /\ wire' = Tail(wire) /\ in' = j /\ Becomes(k)
      /\ own' = own /\ out' = out /\ resets' = resets
  BY DEF Receive
<1>3. /\ wire \in Seq(Byte) /\ Len(wire) <= MaxWire /\ d \in Seq(Byte) /\ ParserTyped(in)
      /\ resets \in Nat
  BY DEF IInv, LineTyped
<1>4. c \in Byte /\ wire' \in Seq(Byte) /\ Len(wire') <= MaxWire
  <2>1. c \in Byte /\ wire' \in Seq(Byte) /\ Len(wire') = Len(wire) - 1
    BY <1>2, <1>3, HeadTailProperties
  <2>2. Len(wire) \in Nat /\ MaxWire \in Nat
    BY <1>3, StreamsAssumption
  <2> QED
    BY <1>3, <2>1, <2>2
<1>5. s \in Seq(Byte) /\ s # <<>> /\ s[1] = c /\ wire' \o d = Tail(s)
  BY <1>2, <1>3, FirstByte
<1>6. resets = 0 => Paired(s, y = NULL, x # NULL) /\ (x # NULL => in.parse = "SysExNext")
  BY DEF IInv, Awaited
<1>7. h \in Heaps /\ free \subseteq Cell /\ h.free = free /\ Clean(h)
  <2>1. h \in Heaps /\ Clean(h)
    BY <1>1 DEF Apportioned, IInv, Shared
  <2>2. h.free = free
    BY HeapIs
  <2> QED
    BY <2>1, <2>2 DEF Heaps
<1>8. /\ ParserTyped(j)
      /\ Kept1(in, c, r) \/ Begun(c, r) \/ Ended(in, r) \/ Filled(in, c, r)
  BY <1>3, <1>4, <1>7, ParseCases
<1>9. in.parse = "SysExNext" => x # NULL
  BY <1>3 DEF ParserTyped
<1>10. ASSUME x # NULL
       PROVE  /\ x \in Cell /\ Of(w, x) \cap h.free = {}
              /\ \E t : Event(h, x, Message(SysEx, t), Of(w, x))
  <2>1. x \in Cell /\ \E t : Event(h, x, Message(SysEx, t), Of(w, x))
    BY <1>1, <1>10 DEF Apportioned
  <2>2. x # OfFree
    BY <2>1, OwnersDiffer
  <2> QED
    BY <1>1, <2>1, <2>2, FreeApart
<1> HIDE DEF r, c, h, s, d, x, y
<1>11. resets = 0 /\ x # NULL => c \notin Openers
  BY <1>5, <1>6, PairedHead
<1>12. /\ Shared(heap', own', y, j.cur, resets)
       /\ resets = 0 /\ j.cur # NULL => /\ j.parse = "SysExNext"
                                        /\ (x # NULL /\ c # EndSysX) \/ c = SysEx
  <2>1. CASE Kept1(in, c, r)
    <3>1. k = h /\ j.cur = x /\ (in.parse = "SysExNext" /\ c \notin Openers => j = in /\ c # EndSysX)
      BY <2>1 DEF Kept1, h, x
    <3>2. Shared(heap', own', y, j.cur, resets)
      BY <1>1, <1>2, <3>1, BecomesShared
    <3> QED
      BY <1>6, <1>11, <3>1, <3>2
  <2>2. CASE Begun(c, r)
    <3> DEFINE b == Next1(h)
               g == NewSexEv(h)
    <3>1. c = SysEx /\ Cardinality(h.free) > 1 /\ k = g /\ j.parse = "SysExNext" /\ j.cur = b
      BY <1>7, <2>2 DEF Begun, h
    <3>2. PICK S : Grown(h, g, {}, S) /\ Event(g, b, Message(SysEx, <<>>), S)
      BY <1>7, <3>1, NewSexEvIs
    <3> HIDE DEF b, g
    <3>3. x # NULL => resets # 0
      BY <1>11, <3>1, Distinct
    <3>4. PICK v : Apportioned(h, own, y, NULL, v, resets)
      <4>1. CASE x = NULL
        BY <1>1, <4>1
      <4>2. CASE x # NULL
        BY <1>1, <3>3, <4>2, ParserForgets
      <4> QED
        BY <4>1, <4>2
    <3>5. b \in Cell /\ b \in h.free
      BY <3>2, EventCells DEF Grown
    <3>6. Of(v, b) = {}
      <4>1. ASSUME NEW z \in Cell, v[z] = b PROVE FALSE
        <5>1. own[b] # None \/ b = NULL
          BY <3>4, <3>5, <4>1 DEF Apportioned
        <5>2. own[b] # None => b \notin h.free
          BY <3>4, <3>5, HeaderOwned
        <5> QED
          BY <3>5, <5>1, <5>2, StreamsAssumption
      <4> QED
        BY <4>1 DEF Of
    <3>7. Grown(h, g, Of(v, b), S) /\ Event(g, b, Message(SysEx, <<>>), Of(v, b) \cup S)
      <4>1. {} \cup S = S
        OBVIOUS
      <4> QED
        BY <3>2, <3>6, <4>1
    <3>8. Apportioned(g, own, y, b, Given(v, S, b), resets)
      BY <3>4, <3>5, <3>7, ParserTakes
    <3>9. Shared(heap', own', y, j.cur, resets)
      BY <1>2, <3>1, <3>8, BecomesShared
    <3> QED
      BY <3>1, <3>9
  <2>3. CASE Ended(in, r)
    <3>1. x # NULL /\ k = FreeSexEv(h, x) /\ j.cur = NULL
      BY <1>9, <2>3 DEF Ended, h, x
    <3>2. PICK t : Event(h, x, Message(SysEx, t), Of(w, x))
      BY <1>10, <3>1
    <3>3. Returned(h, k, Of(w, x))
      BY <1>7, <3>1, <3>2, MSFreeEvIs, SysExKept
    <3>4. PICK v : Apportioned(k, own, y, NULL, v, resets)
      BY <1>1, <3>1, <3>3, ParserFreed
    <3>5. Shared(heap', own', y, j.cur, resets)
      BY <1>2, <3>1, <3>4, BecomesShared
    <3> QED
      BY <3>1, <3>5
  <2>4. CASE Filled(in, c, r)
    <3>1. /\ x # NULL /\ c \in Data /\ ~ (NeedsCell(h, x) /\ h.free = {})
          /\ k = AddFSexEv(h, x, c) /\ j = in /\ in.parse = "SysExNext"
      BY <1>7, <1>9, <2>4 DEF Filled, h, x
    <3>2. PICK t : Event(h, x, Message(SysEx, t), Of(w, x))
      BY <1>10, <3>1
    <3>3. x \in Cell /\ Of(w, x) \cap h.free = {}
      BY <1>10, <3>1
    <3>4. PICK T : /\ Grown(h, AddFSexEv(h, x, c), Of(w, x), T)
                   /\ Event(AddFSexEv(h, x, c), x, Message(SysEx, Append(t, c)), Of(w, x) \cup T)
      BY <1>7, <3>1, <3>2, <3>3, AddFSexEvIs
    <3>5. Apportioned(AddFSexEv(h, x, c), own, y, x, Given(w, T, x), resets)
      BY <1>1, <3>3, <3>4, ParserTakes
    <3>6. j.cur = x
      BY <3>1 DEF x
    <3>7. Shared(heap', own', y, j.cur, resets)
      BY <1>2, <3>1, <3>5, <3>6, BecomesShared
    <3>8. c # EndSysX
      BY <3>1, Distinct
    <3> QED
      BY <3>1, <3>7, <3>8
  <2> QED
    BY <1>8, <2>1, <2>2, <2>3, <2>4
<1>13. LineTyped(wire', out')
  BY <1>2, <1>4 DEF IInv, LineTyped
<1>14. Awaited(wire', out', in', resets')
  <2> SUFFICES ASSUME resets = 0
               PROVE  /\ Paired(Tail(s), y = NULL, j.cur # NULL)
                      /\ j.cur # NULL => j.parse = "SysExNext"
    BY <1>2, <1>5 DEF Awaited, d, y
  <2>1. Paired(s, y = NULL, x # NULL)
    BY <1>6
  <2>2. j.cur # NULL => ((x # NULL) /\ s[1] # EndSysX) \/ s[1] = SysEx
    BY <1>5, <1>12
  <2>3. Paired(Tail(s), y = NULL, j.cur # NULL)
    BY <1>5, <2>1, <2>2, PairedTail
  <2> QED
    BY <1>12, <2>3
<1>15. Shared(heap', own', out'.next, in'.cur, resets')
  BY <1>2, <1>12 DEF y
<1> QED
  BY <1>2, <1>3, <1>8, <1>13, <1>14, <1>15 DEF IInv

LEMMA InitOK == Init => IInv
<1> SUFFICES ASSUME Init PROVE IInv
  OBVIOUS
<1> DEFINE h == heap
           w == [x \in Cell |-> OfFree]
<1>1. /\ h.free = Cell /\ h.ev = [x \in Cell |-> NULL] /\ h.se = [x \in Cell |-> NULL]
      /\ h.link = [x \in Cell |-> NULL] /\ h.bytes = [x \in Cell |-> <<>>]
      /\ own = [x \in Cell |-> None]
      /\ out = [data |-> <<>>, next |-> NULL] /\ wire = <<>> /\ resets = 0
      /\ in = [parse |-> "Status", status |-> 0, data |-> 0, cur |-> NULL]
  BY HeapIs DEF Init
<1>2. h = [free |-> h.free, ev |-> h.ev, se |-> h.se, link |-> h.link, bytes |-> h.bytes]
  BY HeapIs DEF heap
<1> HIDE DEF h
<1>3. h \in Heaps
  <2>1. <<>> \in Contents
    BY RoomIs DEF Contents
  <2> QED
    BY <1>1, <1>2, <2>1 DEF Heaps
<1>4. /\ w \in Shares /\ Of(w, OfFree) = Cell /\ Of(w, OfOut) = {} /\ Of(w, OfNone) = {}
      /\ \A x \in Cell : w[x] \notin Cell
  BY OwnersDiffer DEF Shares, Of
<1> HIDE DEF w
<1>5. Apportioned(h, own, NULL, NULL, w, 0)
  <2>1. Line(h, NULL, {})
    BY DEF Line
  <2> QED
    BY <1>1, <1>3, <1>4, <2>1 DEF Apportioned
<1>6. Clean(h)
  BY <1>1 DEF Clean
<1>7. Shared(heap, own, out.next, in.cur, resets)
  BY <1>1, <1>5, <1>6 DEF Shared, h
<1>8. <<>> \in Seq(Byte) /\ Len(<<>>) = 0
  OBVIOUS
<1>9. LineTyped(wire, out)
  BY <1>1, <1>8, MaxIs, StreamsAssumption DEF LineTyped
<1>10. ParserTyped(in)
  <2>1. 0 \in Byte
    BY DEF Byte, Data
  <2> QED
    BY <1>1, <2>1 DEF ParserTyped
<1>11. Awaited(wire, out, in, resets)
  <2>1. <<>> \o <<>> = <<>>
    BY <1>8, WireEmpty
  <2>2. \A i \in 1..Len(<<>>) : <<>>[i] # SysEx
    BY <1>8
  <2>3. Paired(<<>>, TRUE, FALSE)
    BY <1>8, <2>2, PairedNone
  <2> QED
    BY <1>1, <2>1, <2>3 DEF Awaited
<1> QED
  BY <1>1, <1>7, <1>9, <1>10, <1>11 DEF IInv

LEMMA NextOK == IInv /\ [Next]_vars => IInv'
<1> SUFFICES ASSUME IInv, [Next]_vars PROVE IInv'
  OBVIOUS
<1>1. ASSUME NEW m \in Small, MidiNewEv(m) PROVE IInv'
  BY <1>1, NewEvStep
<1>2. ASSUME NEW text \in Text, MidiNewSysEx(text) PROVE IInv'
  BY <1>2, NewSysExStep
<1>3. ASSUME NEW x \in Cell, MidiCopyEv(x) PROVE IInv'
  BY <1>3, CopyStep
<1>4. ASSUME NEW x \in Cell, MidiFreeEv(x) PROVE IInv'
  BY <1>4, FreeStep
<1>5. ASSUME NEW x \in Cell, PutSmall(x) PROVE IInv'
  BY <1>5, PutSmallStep
<1>6. ASSUME NEW x \in Cell, PutSysEx(x) PROVE IInv'
  BY <1>6, PutSysExStep
<1>7. CASE MidiStreamGetByte
  BY <1>7, GetByteStep
<1>8. CASE MidiStreamReset
  BY <1>8, ResetStep
<1>9. CASE Merge
  BY <1>9, MergeStep
<1>10. CASE Receive
  BY <1>10, ReceiveStep
<1>11. CASE UNCHANGED vars
  <2>1. heap' = heap /\ own' = own /\ out' = out /\ wire' = wire /\ in' = in /\ resets' = resets
    BY <1>11 DEF vars, heapVars, heap
  <2> QED
    BY <2>1 DEF IInv
<1> QED
  BY <1>1, <1>2, <1>3, <1>4, <1>5, <1>6, <1>7, <1>8, <1>9, <1>10, <1>11 DEF Next

\* The inductive invariant holds in every reachable state.
THEOREM Invariance == Spec => []IInv
BY InitOK, NextOK, PTL DEF Spec

LEMMA TypeImplied == IInv => TypeOK
<1> SUFFICES ASSUME IInv PROVE TypeOK
  OBVIOUS
<1>1. PICK w : Apportioned(heap, own, out.next, in.cur, w, resets)
  BY DEF IInv, Shared
<1>2. /\ free \subseteq Cell /\ se \in [Cell -> Cell \cup {NULL}]
      /\ link \in [Cell -> Cell \cup {NULL}] /\ \A x \in Cell : Len(bytes[x]) <= Room
  <2>1. heap \in Heaps
    BY <1>1 DEF Apportioned
  <2>2. /\ heap.free \subseteq Cell /\ heap.se \in [Cell -> Cell \cup {NULL}]
        /\ heap.link \in [Cell -> Cell \cup {NULL}]
        /\ \A x \in Cell : Len(heap.bytes[x]) <= Room
    BY <2>1 DEF Heaps, Contents
  <2> QED
    BY <2>2, HeapIs
<1>3. \A x \in Cell : own[x] # None => x \notin free
  BY <1>1, HeaderOwned, HeapIs
<1>4. /\ out.next \in Cell \cup {NULL} /\ out.data \in Seq(Byte) /\ wire \in Seq(Byte)
      /\ Len(out.data) <= Max({5, Room + 1}) /\ Len(wire) <= MaxWire
  BY DEF IInv, LineTyped
<1>5. ToSet(out.data) \cup ToSet(wire) \subseteq Byte
  BY <1>4 DEF ToSet
<1>6. /\ in.parse \in {"Status", "DataM", "DataD", "DataU", "SysExNext"}
      /\ in.parse = "SysExNext" => in.cur # NULL
  BY DEF IInv, ParserTyped
<1> QED
  BY <1>2, <1>3, <1>4, <1>5, <1>6 DEF TypeOK

\* The cells of an event are those that the shares give it.
LEMMA CellsShared ==
  ASSUME NEW x \in Cell, NEW m, NEW S, Event(heap, x, m, S)
  PROVE  CellsOf(x) = S
<1>1. CASE m.status = SysEx
  <2>1. PICK r : RingOf(heap, x, r, S)
    BY <1>1 DEF Event
  <2>2. Cells(heap, se[x]) = r
    BY <2>1, RingCells, HeapIs
  <2>3. se[x] = r[1] /\ r \in Seq(Cell) /\ r # <<>> /\ S = {x} \cup ToSet(r)
    BY <2>1, HeapIs DEF RingOf, Ring, Chained
  <2>4. se[x] # NULL
    <3>1. r[1] \in Cell
      BY <2>3
    <3> QED
      BY <2>3, <3>1, StreamsAssumption
  <2> QED
    BY <2>2, <2>3, <2>4 DEF CellsOf
<1>2. CASE m.status # SysEx
  BY <1>2, HeapIs DEF Event, CellsOf
<1> QED
  BY <1>1, <1>2

\* An event that is kept has the contents that were written into it.
LEMMA ContentKept ==
  ASSUME NEW x \in Cell, NEW m, NEW S, Event(heap, x, m, S)
  PROVE  (IF m.status = SysEx THEN Content(heap, x) ELSE ev[x].data) = m.data
<1>1. CASE m.status = SysEx
  <2>1. PICK r : RingOf(heap, x, r, S) /\ Joined(heap, r) = m.data
    BY <1>1 DEF Event
  <2>2. Content(heap, x) = m.data
    BY <2>1, RingCells
  <2> QED
    BY <1>1, <2>2
<1>2. CASE m.status # SysEx
  BY <1>2, HeapIs DEF Event
<1> QED
  BY <1>1, <1>2

\* The cells of the owner k, by the shares w, and the number by which w names it.
Named(k) ==
  IF k[1] = "own" THEN k[2]
  ELSE IF k[1] = "free" THEN OfFree ELSE IF k[1] = "out" THEN OfOut ELSE in.cur
Part(w, k) == IF k[1] = "in" /\ in.cur = NULL THEN {} ELSE Of(w, Named(k))

LEMMA HeldIs ==
  ASSUME NEW w, Apportioned(heap, own, out.next, in.cur, w, resets)
  PROVE  \A k \in Owners : Held[k] = Part(w, k)
<1>1. \A x \in Owned : CellsOf(x) = Of(w, x)
  BY CellsShared DEF Owned, Apportioned
<1>2. free = Of(w, OfFree)
  BY HeapIs DEF Apportioned
<1>3. (IF out.next = NULL THEN {} ELSE ToSet(Cells(heap, out.next))) = Of(w, OfOut)
  <2>1. Line(heap, out.next, Of(w, OfOut))
    BY DEF Apportioned
  <2>2. CASE out.next # NULL
    BY <2>1, <2>2, LineCells
  <2>3. CASE out.next = NULL
    <3>1. ASSUME NEW q, Chained(heap, q) PROVE q[1] # NULL
      <4>1. q[1] \in Cell
        BY <3>1 DEF Chained
      <4> QED
        BY <4>1, StreamsAssumption
    <3>2. Of(w, OfOut) = {}
      BY <2>1, <2>3, <3>1 DEF Line
    <3> QED
      BY <2>3, <3>2
  <2> QED
    BY <2>2, <2>3
<1>4. in.cur # NULL => CellsOf(in.cur) = Of(w, in.cur)
  BY CellsShared DEF Apportioned
<1> DEFINE o == IF out.next = NULL THEN {} ELSE ToSet(Cells(heap, out.next))
           H(k) == IF k[1] = "own" THEN CellsOf(k[2])
                   ELSE IF k[1] = "free" THEN free
                   ELSE IF k[1] = "out" THEN o
                   ELSE IF in.cur = NULL THEN {} ELSE CellsOf(in.cur)
<1>5. \A k \in Owners : Held[k] = H(k)
  BY DEF Held
<1> HIDE DEF o
<1>6. o = Of(w, OfOut)
  BY <1>3 DEF o
<1>7. ASSUME NEW k \in Owners PROVE H(k) = Part(w, k)
  <2>1. \/ \E x \in Owned : k = <<"own", x>>
        \/ k = <<"free", 0>> \/ k = <<"out", 0>> \/ k = <<"in", 0>>
    BY DEF Owners
  <2>2. CASE \E x \in Owned : k = <<"own", x>>
    <3>1. PICK x \in Owned : k[1] = "own" /\ k[2] = x
      BY <2>2
    <3> QED
      BY <1>1, <3>1 DEF Part, Named
  <2>3. CASE k = <<"free", 0>>
    <3>1. k[1] = "free"
      BY <2>3
    <3> QED
      BY <1>2, <3>1 DEF Part, Named
  <2>4. CASE k = <<"out", 0>>
    <3>1. k[1] = "out"
      BY <2>4
    <3> QED
      BY <1>6, <3>1 DEF Part, Named
  <2>5. CASE k = <<"in", 0>>
    <3>1. k[1] = "in"
      BY <2>5
    <3> QED
      BY <1>4, <3>1 DEF Part, Named
  <2> QED
    BY <2>1, <2>2, <2>3, <2>4, <2>5
<1> HIDE DEF H
<1> QED
  BY <1>5, <1>7

LEMMA IntactImplied == IInv => Intact
<1> SUFFICES ASSUME IInv PROVE Intact
  OBVIOUS
<1>1. PICK w : Apportioned(heap, own, out.next, in.cur, w, resets)
  BY DEF IInv, Shared
<1>2. \A x \in Owned : (IF own[x].status = SysEx THEN Content(heap, x) ELSE ev[x].data)
                       = own[x].data
  <2> TAKE x \in Owned
  <2>1. x \in Cell /\ Event(heap, x, own[x], Of(w, x))
    BY <1>1 DEF Owned, Apportioned
  <2> QED
    BY <2>1, ContentKept
<1>3. \A k \in Owners : Held[k] = Part(w, k)
  BY <1>1, HeldIs
<1>4. \A k \in Owners : \/ k[1] = "own" /\ k[2] \in Owned /\ k = <<"own", k[2]>>
                        \/ k = <<"free", 0>> /\ k[1] = "free"
                        \/ k = <<"out", 0>> /\ k[1] = "out"
                        \/ k = <<"in", 0>> /\ k[1] = "in"
  BY DEF Owners
<1>5. /\ \A x \in Owned : /\ x \in Cell /\ x # OfFree /\ x # OfOut
                          /\ in.cur # NULL => x # in.cur
      /\ in.cur # NULL => in.cur # OfFree /\ in.cur # OfOut
      /\ OfFree # OfOut
  BY <1>1, OwnersDiffer DEF Apportioned, Owned
<1>6. ASSUME NEW k \in Owners, NEW l \in Owners, k # l
      PROVE  Held[k] \cap Held[l] = {}
  <2>1. CASE (k[1] = "in" \/ l[1] = "in") /\ in.cur = NULL
    BY <1>3, <2>1 DEF Part
  <2>2. CASE ~ ((k[1] = "in" \/ l[1] = "in") /\ in.cur = NULL)
    <3>1. Named(k) # Named(l)
      BY <1>4, <1>5, <1>6, <2>2 DEF Named
    <3>2. Of(w, Named(k)) \cap Of(w, Named(l)) = {}
      BY <3>1 DEF Of
    <3>3. Part(w, k) = Of(w, Named(k)) /\ Part(w, l) = Of(w, Named(l))
      BY <2>2 DEF Part
    <3> QED
      BY <1>3, <3>2, <3>3
  <2> QED
    BY <2>1, <2>2
<1>7. \A k \in Owners : Held[k] \subseteq Cell
  BY <1>3 DEF Part, Of
<1>8. ASSUME resets = 0, NEW z \in Cell PROVE \E k \in Owners : z \in Held[k]
  <2>1. w[z] \in Cell \cup {OfFree, OfOut} /\ z \in Of(w, w[z])
    BY <1>1, <1>8 DEF Apportioned, Shares, Of
  <2>2. /\ <<"free", 0>> \in Owners /\ <<"out", 0>> \in Owners /\ <<"in", 0>> \in Owners
        /\ \A x \in Owned : <<"own", x>> \in Owners
    BY DEF Owners
  <2>3. /\ <<"free", 0>>[1] = "free" /\ <<"out", 0>>[1] = "out" /\ <<"in", 0>>[1] = "in"
        /\ \A x : <<"own", x>>[1] = "own" /\ <<"own", x>>[2] = x
    OBVIOUS
  <2>4. /\ Part(w, <<"free", 0>>) = Of(w, OfFree) /\ Part(w, <<"out", 0>>) = Of(w, OfOut)
        /\ in.cur # NULL => Part(w, <<"in", 0>>) = Of(w, in.cur)
        /\ \A x : Part(w, <<"own", x>>) = Of(w, x)
    BY <2>3 DEF Part, Named
  <2>5. CASE w[z] = OfFree
    BY <1>3, <2>1, <2>2, <2>4, <2>5
  <2>6. CASE w[z] = OfOut
    BY <1>3, <2>1, <2>2, <2>4, <2>6
  <2>7. CASE w[z] \in Cell
    <3>1. own[w[z]] # None \/ w[z] = in.cur
      BY <1>1, <2>7 DEF Apportioned
    <3>2. CASE own[w[z]] # None
      <4>1. w[z] \in Owned
        BY <2>7, <3>2 DEF Owned
      <4> QED
        BY <1>3, <2>1, <2>2, <2>4, <4>1
    <3>3. CASE w[z] = in.cur
      <4>1. in.cur # NULL
        BY <2>7, <3>3, StreamsAssumption
      <4> QED
        BY <1>3, <2>1, <2>2, <2>4, <3>3, <4>1
    <3> QED
      BY <3>1, <3>2, <3>3
  <2> QED
    BY <2>1, <2>5, <2>6, <2>7
<1>9. resets = 0 => UNION {Held[k] : k \in Owners} = Cell
  <2> SUFFICES ASSUME resets = 0 PROVE UNION {Held[k] : k \in Owners} = Cell
    OBVIOUS
  <2>1. \A z \in Cell : \E k \in Owners : z \in Held[k]
    BY <1>8
  <2> QED
    BY <1>7, <2>1
<1> QED
  BY <1>2, <1>6, <1>9 DEF Intact

\* No extension of any event ever holds more bytes than a cell has room for, and
\* the bytes ready to be sent always fit into the record of the stream
\* (msEvents.c:197, EventToMidiStream.c:155).
THEOREM TypeCorrect == Spec => []TypeOK
BY Invariance, TypeImplied, PTL

\* Whatever allocation fails, in a copy half way or in a message half received,
\* events keep what was written into them, every cell has one owner, and none is
\* lost unless a device has cut off a message (msEvents.c:551, MidiStreamToEvent.c:328).
THEOREM IntactAlways == Spec => []Intact
BY Invariance, IntactImplied, PTL

(***************************************************************************)
(* The bytes of the messages that are due.                                 *)
(***************************************************************************)
\* The messages on a line, the bytes of one and how many they are.
Lined ==
  {Message(s, d) : s \in {NoteOn, ControlChg}, d \in Data \X Data}
  \cup {Message(ProgramChg, <<v>>) : v \in Data} \cup {Message(SysEx, d) : d \in Seq(Data)}

LenOf(m) == Len(m.data) + IF m.status = SysEx THEN 2 ELSE 1
ByteOf(m, k) ==
  IF k = 1 THEN m.status ELSE IF k = Len(m.data) + 2 THEN EndSysX ELSE m.data[k - 1]

\* A place in the messages D: p.j of them are behind it, and p.k bytes of the next.
At(j, k) == [j |-> j, k |-> k]
Places(D) ==
  {p \in [j : Nat, k : Nat] :
     p.j <= Len(D) /\ (p.k # 0 => p.j < Len(D) /\ p.k < LenOf(D[p.j + 1]))}

\* The byte b goes from p to q: it begins a message, the next one unless something was
\* missed; is within one; or ends one, so that another control change may follow
\* without its status.
Enters(D, p, b, q, l) ==
  /\ q.k = 1 /\ q.j < Len(D) /\ b = D[q.j + 1].status
  /\ p.j <= q.j /\ (p.k # 0 => p.j < q.j)
  /\ l \/ (p.k = 0 /\ p.j = q.j)
Inside(D, p, b, q) ==
  /\ p.k # 0 /\ p.k + 1 < LenOf(D[p.j + 1])
  /\ b = ByteOf(D[p.j + 1], p.k + 1) /\ q = At(p.j, p.k + 1)
Running(D, q) ==
  q.j < Len(D) /\ D[q.j].status = ControlChg /\ D[q.j + 1].status = ControlChg
Leaves(D, p, b, q) ==
  /\ p.k # 0 /\ p.k + 1 = LenOf(D[p.j + 1])
  /\ b = ByteOf(D[p.j + 1], p.k + 1)
  /\ q.j = p.j + 1 /\ (q.k = 0 \/ (q.k = 1 /\ Running(D, q)))
Moves(D, p, b, q, l) ==
  (b = MClock /\ q = p) \/ Enters(D, p, b, q, l) \/ Inside(D, p, b, q) \/ Leaves(D, p, b, q)

\* The bytes s lead from p to q.
Route(D, s, u, l) ==
  /\ u \in [0..Len(s) -> Places(D)]
  /\ \A i \in 1..Len(s) : Moves(D, u[i - 1], s[i], u[i], l)
Leads(D, s, p, q, l) == \E u : Route(D, s, u, l) /\ u[0] = p /\ u[Len(s)] = q

LEMMA AtIs ==
  /\ \A j, k : At(j, k).j = j /\ At(j, k).k = k
  /\ \A D, p : p \in Places(D) => p.j \in Nat /\ p.k \in Nat /\ p = At(p.j, p.k)
BY DEF At, Places

LEMMA LeadsNone ==
  ASSUME NEW D, NEW p \in Places(D), NEW l
  PROVE  Leads(D, <<>>, p, p, l)
<1> DEFINE u == [i \in 0..0 |-> p]
<1>1. Len(<<>>) = 0 /\ u \in [0..0 -> Places(D)] /\ u[0] = p
  OBVIOUS
<1>2. Route(D, <<>>, u, l)
  BY <1>1 DEF Route
<1> QED
  BY <1>1, <1>2 DEF Leads

LEMMA LeadsOne ==
  ASSUME NEW D, NEW p \in Places(D), NEW q \in Places(D), NEW b, NEW l, Moves(D, p, b, q, l)
  PROVE  Leads(D, <<b>>, p, q, l)
<1> DEFINE u == [i \in 0..1 |-> IF i = 0 THEN p ELSE q]
           s == <<b>>
<1>1. Len(s) = 1 /\ s[1] = b /\ u \in [0..1 -> Places(D)] /\ u[0] = p /\ u[1] = q
  OBVIOUS
<1> HIDE DEF u, s
<1>2. Route(D, s, u, l)
  <2>1. \A i \in 1..1 : i = 1 /\ i - 1 = 0
    OBVIOUS
  <2> QED
    BY <1>1, <2>1 DEF Route
<1>3. Leads(D, s, p, q, l)
  BY <1>1, <1>2 DEF Leads
<1> QED
  BY <1>3 DEF s

LEMMA LeadsJoin ==
  ASSUME NEW D, NEW S, NEW s \in Seq(S), NEW t \in Seq(S), NEW p, NEW q, NEW r, NEW l,
         Leads(D, s, p, q, l), Leads(D, t, q, r, l)
  PROVE  Leads(D, s \o t, p, r, l)
<1>1. PICK u : Route(D, s, u, l) /\ u[0] = p /\ u[Len(s)] = q
  BY DEF Leads
<1>2. PICK v : Route(D, t, v, l) /\ v[0] = q /\ v[Len(t)] = r
  BY DEF Leads
<1> DEFINE n == Len(s)
           m == Len(t)
           z == s \o t
           x == [i \in 0..n + m |-> IF i <= n THEN u[i] ELSE v[i - n]]
<1>3. /\ n \in Nat /\ m \in Nat /\ Len(z) = n + m
      /\ \A i \in 1..n + m : z[i] = IF i <= n THEN s[i] ELSE t[i - n]
  BY ConcatProperties
<1>4. /\ u \in [0..n -> Places(D)] /\ \A i \in 1..n : Moves(D, u[i - 1], s[i], u[i], l)
      /\ v \in [0..m -> Places(D)] /\ \A i \in 1..m : Moves(D, v[i - 1], t[i], v[i], l)
      /\ u[n] = v[0] /\ u[0] = p /\ v[m] = r
  BY <1>1, <1>2 DEF Route
<1> HIDE DEF n, m, z
<1>5. /\ \A i \in 0..n + m : x[i] = IF i <= n THEN u[i] ELSE v[i - n]
      /\ x = [i \in 0..n + m |-> x[i]]
  OBVIOUS
<1> HIDE DEF x
<1>6. x \in [0..n + m -> Places(D)]
  <2>1. ASSUME NEW i \in 0..n + m PROVE x[i] \in Places(D)
    <3>1. CASE i <= n
      <4>1. i \in 0..n
        BY <1>3, <3>1
      <4> QED
        BY <1>4, <1>5, <3>1, <4>1
    <3>2. CASE ~ i <= n
      <4>1. i - n \in 0..m
        BY <1>3, <3>2
      <4> QED
        BY <1>4, <1>5, <3>2, <4>1
    <3> QED
      BY <3>1, <3>2
  <2> QED
    BY <1>5, <2>1
<1>7. ASSUME NEW i \in 1..n + m PROVE Moves(D, x[i - 1], z[i], x[i], l)
  <2>1. i \in 0..n + m /\ i - 1 \in 0..n + m
    BY <1>3
  <2>2. CASE i <= n
    <3>1. i \in 1..n /\ i - 1 <= n
      BY <1>3, <2>2
    <3> QED
      BY <1>3, <1>4, <1>5, <2>1, <2>2, <3>1
  <2>3. CASE i = n + 1
    <3>1. 1 \in 1..m /\ i - 1 = n /\ i - n = 1 /\ ~ i <= n /\ n <= n /\ 1 - 1 = 0
      BY <1>3, <2>3
    <3>2. x[i - 1] = v[0] /\ x[i] = v[1] /\ z[i] = t[1]
      BY <1>3, <1>4, <1>5, <2>1, <3>1
    <3> QED
      BY <1>4, <3>1, <3>2
  <2>4. CASE ~ i <= n /\ i # n + 1
    <3>1. i - n \in 1..m /\ ~ i - 1 <= n /\ (i - 1) - n = (i - n) - 1
      BY <1>3, <2>4
    <3>2. x[i - 1] = v[(i - n) - 1] /\ x[i] = v[i - n] /\ z[i] = t[i - n]
      BY <1>3, <1>5, <2>1, <2>4, <3>1
    <3> QED
      BY <1>4, <3>1, <3>2
  <2> QED
    BY <2>2, <2>3, <2>4
<1>8. x[0] = p /\ x[n + m] = r
  <2>1. 0 \in 0..n + m /\ n + m \in 0..n + m /\ 0 <= n /\ (n + m <= n => m = 0 /\ n + m = n)
        /\ (n + m) - n = m
    BY <1>3
  <2> QED
    BY <1>4, <1>5, <2>1
<1>9. Route(D, z, x, l)
  BY <1>3, <1>6, <1>7 DEF Route
<1>10. Leads(D, z, p, r, l)
  BY <1>3, <1>8, <1>9 DEF Leads
<1> QED
  BY <1>10 DEF z

LEMMA LeadsFirst ==
  ASSUME NEW D, NEW S, NEW s \in Seq(S), s # <<>>, NEW p, NEW r, NEW l, Leads(D, s, p, r, l)
  PROVE  p \in Places(D) /\ \E q \in Places(D) : /\ Moves(D, p, Head(s), q, l)
                                                /\ Leads(D, Tail(s), q, r, l)
<1>1. PICK u : Route(D, s, u, l) /\ u[0] = p /\ u[Len(s)] = r
  BY DEF Leads
<1> DEFINE n == Len(s)
           t == Tail(s)
           v == [i \in 0..n - 1 |-> u[i + 1]]
<1>2. /\ n \in Nat /\ n # 0 /\ Head(s) = s[1] /\ Len(t) = n - 1
      /\ \A i \in 1..n - 1 : t[i] = s[i + 1]
  BY HeadTailProperties
<1>3. u \in [0..n -> Places(D)] /\ \A i \in 1..n : Moves(D, u[i - 1], s[i], u[i], l)
  BY <1>1 DEF Route
<1>4. u[n] = r /\ u[0] = p
  BY <1>1
<1> HIDE DEF n, t
<1>5. /\ 0 \in 0..n /\ 1 \in 0..n /\ 1 \in 1..n /\ 1 - 1 = 0 /\ n - 1 \in Nat
      /\ 0 \in 0..n - 1 /\ n - 1 \in 0..n - 1 /\ 0 + 1 = 1 /\ (n - 1) + 1 = n
      /\ \A i \in 0..n - 1 : i + 1 \in 0..n
      /\ \A i \in 1..n - 1 : /\ i + 1 \in 1..n /\ i \in 0..n - 1 /\ i - 1 \in 0..n - 1
                             /\ (i - 1) + 1 = i /\ (i + 1) - 1 = i
  BY <1>2
<1>6. v \in [0..n - 1 -> Places(D)] /\ \A i \in 0..n - 1 : v[i] = u[i + 1]
  BY <1>3, <1>5
<1> HIDE DEF v
<1>7. \A i \in 1..n - 1 : Moves(D, v[i - 1], t[i], v[i], l)
  <2> TAKE i \in 1..n - 1
  <2>1. v[i - 1] = u[i] /\ v[i] = u[i + 1] /\ t[i] = s[i + 1]
    BY <1>2, <1>5, <1>6
  <2>2. Moves(D, u[(i + 1) - 1], s[i + 1], u[i + 1], l) /\ (i + 1) - 1 = i
    BY <1>3, <1>5
  <2> QED
    BY <2>1, <2>2
<1>8. v[0] = u[1] /\ v[n - 1] = r
  BY <1>4, <1>5, <1>6
<1>9. Leads(D, t, u[1], r, l)
  BY <1>2, <1>6, <1>7, <1>8 DEF Leads, Route
<1>10. u[1] \in Places(D) /\ p \in Places(D) /\ Moves(D, p, s[1], u[1], l)
  BY <1>3, <1>4, <1>5
<1> QED
  BY <1>2, <1>9, <1>10 DEF t

LEMMA LeadsEmpty ==
  ASSUME NEW D, NEW p, NEW r, NEW l, Leads(D, <<>>, p, r, l)
  PROVE  p = r /\ p \in Places(D)
<1>1. PICK u : Route(D, <<>>, u, l) /\ u[0] = p /\ u[Len(<<>>)] = r
  BY DEF Leads
<1>2. Len(<<>>) = 0 /\ 0 \in 0..0
  OBVIOUS
<1> QED
  BY <1>1, <1>2 DEF Route

LEMMA MovesOrder ==
  ASSUME NEW D, NEW p \in Places(D), NEW q \in Places(D), NEW b, NEW l, Moves(D, p, b, q, l)
  PROVE  p.j <= q.j
<1>1. p.j \in Nat /\ p.k \in Nat /\ q.j \in Nat /\ At(p.j, p.k + 1).j = p.j
  BY AtIs
<1> QED
  BY <1>1 DEF Moves, Enters, Inside, Leaves

LEMMA RouteOrder ==
  ASSUME NEW D, NEW s, NEW u, NEW l, Route(D, s, u, l), Len(s) \in Nat
  PROVE  \A i \in 0..Len(s) : u[0].j <= u[i].j
<1> DEFINE n == Len(s)
           T == {i \in 0..n : u[0].j <= u[i].j}
<1>1. /\ n \in Nat /\ u \in [0..n -> Places(D)]
      /\ \A i \in 1..n : Moves(D, u[i - 1], s[i], u[i], l)
  BY DEF Route
<1> HIDE DEF n
<1>2. \A i \in 0..n : u[i] \in Places(D) /\ u[i].j \in Nat
  BY <1>1, AtIs
<1>3. 0 \in T
  <2>1. 0 \in 0..n
    BY <1>1
  <2> QED
    BY <1>2, <2>1
<1>4. ASSUME NEW i \in 0..n, i \in T, i < n PROVE i + 1 \in T
  <2>1. i + 1 \in 1..n /\ (i + 1) - 1 = i /\ i + 1 \in 0..n /\ 0 \in 0..n
    BY <1>1, <1>4
  <2>2. Moves(D, u[i], s[i + 1], u[i + 1], l)
    BY <1>1, <2>1
  <2>3. u[i].j <= u[i + 1].j
    BY <1>2, <2>1, <2>2, MovesOrder
  <2>4. u[0].j <= u[i].j
    BY <1>4
  <2>5. u[0].j <= u[i + 1].j
    BY <1>2, <2>1, <2>3, <2>4
  <2> QED
    BY <2>1, <2>5
<1> HIDE DEF T
<1>5. 0..n \subseteq T
  BY <1>1, <1>3, <1>4, Induction
<1> QED
  BY <1>5 DEF T, n

\* When the first i messages are due no more.
Cut(D, i) == SubSeq(D, i + 1, Len(D))
Back(p, i) == At(p.j - i, p.k)

LEMMA CutIs ==
  ASSUME NEW D \in Seq(Lined), NEW i \in 0..Len(D)
  PROVE  /\ Cut(D, i) \in Seq(Lined) /\ Len(Cut(D, i)) = Len(D) - i
         /\ \A j \in 1..Len(D) - i : Cut(D, i)[j] = D[j + i]
<1> DEFINE n == Len(D)
           C == Cut(D, i)
<1>1. n \in Nat /\ i \in Int /\ i >= 0 /\ i <= n /\ i + 1 \in Int /\ n \in Int
  OBVIOUS
<1>2. \A j \in i + 1..n : D[j] \in Lined
  BY <1>1
<1>3. CASE i < n
  <2>1. i + 1 <= n /\ n - (i + 1) + 1 = n - i
    BY <1>1, <1>3
  <2>2. /\ C \in Seq(Lined) /\ Len(C) = n - (i + 1) + 1
        /\ \A j \in 1..n - (i + 1) + 1 : C[j] = D[(i + 1) + j - 1]
    BY <1>1, <1>2, <2>1, SubSeqProperties DEF Cut
  <2>3. \A j \in 1..n - i : (i + 1) + j - 1 = j + i
    BY <1>1
  <2> HIDE DEF C, n
  <2>4. ASSUME NEW j \in 1..n - i PROVE C[j] = D[j + i]
    <3>1. C[j] = D[(i + 1) + j - 1]
      BY <2>1, <2>2
    <3> QED
      BY <2>3, <3>1
  <2> QED
    BY <2>1, <2>2, <2>4 DEF C, n
<1>4. CASE ~ i < n
  <2>1. i = n /\ i + 1 > n /\ n - i = 0
    BY <1>1, <1>4
  <2>2. C = <<>>
    BY <1>1, <2>1, SubSeqEmpty DEF Cut
  <2> HIDE DEF C
  <2>3. C \in Seq(Lined) /\ Len(C) = 0 /\ 1..n - i = {}
    BY <1>1, <2>1, <2>2
  <2> HIDE DEF n
  <2> QED
    BY <2>1, <2>3 DEF C, n
<1> QED
  BY <1>3, <1>4

LEMMA PlaceBack ==
  ASSUME NEW D \in Seq(Lined), NEW i \in Nat, NEW p \in Places(D), i <= p.j
  PROVE  /\ Back(p, i) \in Places(Cut(D, i)) /\ Back(p, i).j = p.j - i /\ Back(p, i).k = p.k
         /\ p.k # 0 => Cut(D, i)[Back(p, i).j + 1] = D[p.j + 1]
         /\ i \in 0..Len(D)
<1> DEFINE n == Len(D)
           C == Cut(D, i)
<1>1. n \in Nat /\ p.j \in Nat /\ p.k \in Nat /\ p.j <= n /\ p = At(p.j, p.k)
      /\ (p.k # 0 => p.j < n /\ p.k < LenOf(D[p.j + 1]))
  BY AtIs DEF Places
<1>2. i \in 0..n
  BY <1>1
<1>3. C \in Seq(Lined) /\ Len(C) = n - i /\ \A j \in 1..n - i : C[j] = D[j + i]
  BY <1>2, CutIs
<1> HIDE DEF C, n
<1>4. Back(p, i).j = p.j - i /\ Back(p, i).k = p.k
  BY AtIs DEF Back
<1>5. ASSUME p.k # 0 PROVE C[(p.j - i) + 1] = D[p.j + 1] /\ p.j - i < n - i
  <2>1. (p.j - i) + 1 \in 1..n - i /\ ((p.j - i) + 1) + i = p.j + 1 /\ p.j - i < n - i
    BY <1>1, <1>2, <1>5
  <2> QED
    BY <1>3, <2>1
<1>6. p.j - i \in Nat /\ p.j - i <= n - i
  BY <1>1, <1>2
<1>7. Back(p, i) \in Places(C)
  BY <1>1, <1>3, <1>4, <1>5, <1>6 DEF Places, Back, At
<1> QED
  BY <1>2, <1>4, <1>5, <1>7 DEF C, n

LEMMA MovesBack ==
  ASSUME NEW D \in Seq(Lined), NEW i \in Nat, NEW p \in Places(D), NEW q \in Places(D),
         i <= p.j, NEW b, NEW l, Moves(D, p, b, q, l)
  PROVE  Moves(Cut(D, i), Back(p, i), b, Back(q, i), l)
<1> DEFINE n == Len(D)
           C == Cut(D, i)
           e == Back(p, i)
           f == Back(q, i)
<1>1. p.j \in Nat /\ p.k \in Nat /\ q.j \in Nat /\ q.k \in Nat /\ p.j <= q.j /\ i <= q.j
  BY AtIs, MovesOrder
<1>2. /\ e.j = p.j - i /\ e.k = p.k /\ (p.k # 0 => C[e.j + 1] = D[p.j + 1])
      /\ i \in 0..n
  BY PlaceBack
<1>3. f.j = q.j - i /\ f.k = q.k /\ (q.k # 0 => C[f.j + 1] = D[q.j + 1])
  BY <1>1, PlaceBack
<1>4. Len(C) = n - i /\ \A j \in 1..n - i : C[j] = D[j + i]
  BY <1>2, CutIs
<1>5. n \in Nat /\ q.j <= n
  BY DEF Places
<1>6. p = q => e = f
  OBVIOUS
<1>7. q = At(p.j, p.k + 1) => f = At(e.j, e.k + 1)
  <2> HAVE q = At(p.j, p.k + 1)
  <2>1. q.j = p.j /\ q.k = p.k + 1
    BY AtIs
  <2>2. f = At(p.j - i, p.k + 1)
    BY <2>1 DEF Back
  <2> QED
    BY <1>2, <2>2
<1> HIDE DEF n, C, e, f
<1>8. CASE b = MClock /\ q = p
  BY <1>6, <1>8 DEF Moves, C, e, f
<1>9. CASE Enters(D, p, b, q, l)
  <2>1. q.k = 1 /\ q.j < n /\ b = D[q.j + 1].status /\ p.j <= q.j /\ (p.k # 0 => p.j < q.j)
        /\ (l \/ (p.k = 0 /\ p.j = q.j))
    BY <1>9 DEF Enters, n
  <2>2. f.k = 1 /\ f.j < Len(C) /\ e.j <= f.j /\ (e.k # 0 => e.j < f.j)
        /\ (l \/ (e.k = 0 /\ e.j = f.j))
    BY <1>1, <1>2, <1>3, <1>4, <1>5, <2>1
  <2>3. b = C[f.j + 1].status
    BY <1>3, <2>1
  <2> QED
    BY <2>2, <2>3 DEF Moves, Enters, C, e, f
<1>10. CASE Inside(D, p, b, q)
  <2>1. Inside(C, e, b, f)
    BY <1>2, <1>7, <1>10 DEF Inside
  <2> QED
    BY <2>1 DEF Moves, C, e, f
<1>11. CASE Leaves(D, p, b, q)
  <2>1. /\ p.k # 0 /\ p.k + 1 = LenOf(D[p.j + 1]) /\ b = ByteOf(D[p.j + 1], p.k + 1)
        /\ q.j = p.j + 1 /\ (q.k = 0 \/ (q.k = 1 /\ Running(D, q)))
    BY <1>11 DEF Leaves
  <2>2. f.j = e.j + 1
    BY <1>1, <1>2, <1>3, <2>1
  <2>3. ASSUME q.k = 1, Running(D, q) PROVE Running(C, f)
    <3>1. q.j < n /\ D[q.j].status = ControlChg /\ D[q.j + 1].status = ControlChg
      BY <2>3 DEF Running, n
    <3>2. f.j < Len(C) /\ C[f.j + 1] = D[q.j + 1]
      BY <1>1, <1>2, <1>3, <1>4, <1>5, <2>3, <3>1
    <3>3. C[f.j] = D[q.j]
      <4>1. f.j \in 1..n - i /\ f.j + i = q.j
        BY <1>1, <1>2, <1>3, <1>5, <2>1
      <4> QED
        BY <1>4, <4>1
    <3> QED
      BY <3>1, <3>2, <3>3 DEF Running
  <2>4. Leaves(C, e, b, f)
    BY <1>2, <1>3, <2>1, <2>2, <2>3 DEF Leaves
  <2> QED
    BY <2>4 DEF Moves, C, e, f
<1> QED
  BY <1>8, <1>9, <1>10, <1>11 DEF Moves

LEMMA LeadsBack ==
  ASSUME NEW D \in Seq(Lined), NEW i \in Nat, NEW s, Len(s) \in Nat, NEW p, NEW r, NEW l,
         i <= p.j, Leads(D, s, p, r, l)
  PROVE  i <= r.j /\ r \in Places(D) /\ Leads(Cut(D, i), s, Back(p, i), Back(r, i), l)
<1> DEFINE n == Len(s)
<1>1. PICK u : Route(D, s, u, l) /\ u[0] = p /\ u[n] = r
  BY DEF Leads
<1>2. u \in [0..n -> Places(D)] /\ \A j \in 1..n : Moves(D, u[j - 1], s[j], u[j], l)
  BY <1>1 DEF Route
<1>3. \A j \in 0..n : u[j] \in Places(D) /\ i <= u[j].j
  <2> TAKE j \in 0..n
  <2>1. u[0].j <= u[j].j /\ u[j] \in Places(D) /\ u[0] \in Places(D)
    BY <1>1, <1>2, RouteOrder
  <2>2. u[0].j \in Nat /\ u[j].j \in Nat
    BY <2>1, AtIs
  <2> QED
    BY <1>1, <2>1, <2>2
<1> DEFINE v == [j \in 0..n |-> Back(u[j], i)]
           C == Cut(D, i)
<1>4. n \in Nat /\ 0 \in 0..n /\ n \in 0..n /\ \A j \in 1..n : j \in 0..n /\ j - 1 \in 0..n
  OBVIOUS
<1> HIDE DEF n
<1>5. v \in [0..n -> Places(C)] /\ \A j \in 0..n : v[j] = Back(u[j], i)
  BY <1>3, PlaceBack
<1> HIDE DEF v, C
<1>6. ASSUME NEW j \in 1..n PROVE Moves(C, v[j - 1], s[j], v[j], l)
  <2>1. u[j - 1] \in Places(D) /\ u[j] \in Places(D) /\ i <= u[j - 1].j
        /\ Moves(D, u[j - 1], s[j], u[j], l) /\ v[j - 1] = Back(u[j - 1], i)
        /\ v[j] = Back(u[j], i)
    BY <1>2, <1>3, <1>4, <1>5
  <2> QED
    BY <2>1, MovesBack DEF C
<1>7. Route(C, s, v, l)
  BY <1>5, <1>6 DEF Route, n
<1>8. v[0] = Back(p, i) /\ v[n] = Back(r, i)
  BY <1>1, <1>4, <1>5
<1>9. i <= r.j /\ r \in Places(D)
  BY <1>1, <1>3, <1>4
<1> QED
  BY <1>7, <1>8, <1>9 DEF Leads, C, n

\* When other messages become due.
LEMMA PlacesMore ==
  ASSUME NEW D \in Seq(Lined), NEW E \in Seq(Lined)
  PROVE  /\ D \o E \in Seq(Lined) /\ Len(D \o E) = Len(D) + Len(E)
         /\ \A j \in 1..Len(D) : (D \o E)[j] = D[j]
         /\ \A j \in 1..Len(E) : (D \o E)[Len(D) + j] = E[j]
         /\ \A p \in Places(D) : p \in Places(D \o E)
         /\ \A p \in Places(D) : p.k # 0 => (D \o E)[p.j + 1] = D[p.j + 1]
<1> DEFINE n == Len(D)
           m == Len(E)
           F == D \o E
<1>1. /\ n \in Nat /\ m \in Nat /\ F \in Seq(Lined) /\ Len(F) = n + m
      /\ \A j \in 1..n + m : F[j] = IF j <= n THEN D[j] ELSE E[j - n]
  BY ConcatProperties
<1>2. \A p \in Places(D) : /\ p \in [j : Nat, k : Nat] /\ p.j <= n
                           /\ p.k # 0 => p.j < n /\ p.k < LenOf(D[p.j + 1])
  BY DEF Places
<1> HIDE DEF n, m, F
<1>3. \A j \in 1..n : F[j] = D[j]
  BY <1>1
<1>4. \A j \in 1..m : F[n + j] = E[j]
  <2> TAKE j \in 1..m
  <2>1. n + j \in 1..n + m /\ ~ n + j <= n /\ (n + j) - n = j
    BY <1>1
  <2> QED
    BY <1>1, <2>1
<1>5. ASSUME NEW p \in Places(D)
      PROVE  p \in Places(F) /\ (p.k # 0 => F[p.j + 1] = D[p.j + 1])
  <2>1. p.k # 0 => F[p.j + 1] = D[p.j + 1]
    <3> HAVE p.k # 0
    <3>1. p.j + 1 \in 1..n
      BY <1>1, <1>2
    <3> QED
      BY <1>3, <3>1
  <2>2. p.j <= n + m /\ (p.k # 0 => p.j < n + m)
    BY <1>1, <1>2
  <2> QED
    BY <1>1, <1>2, <2>1, <2>2 DEF Places
<1> QED
  BY <1>1, <1>3, <1>4, <1>5 DEF n, m, F

LEMMA MovesMore ==
  ASSUME NEW D \in Seq(Lined), NEW E \in Seq(Lined), NEW p \in Places(D), NEW q \in Places(D),
         NEW b, NEW l, Moves(D, p, b, q, l)
  PROVE  Moves(D \o E, p, b, q, l)
<1> DEFINE F == D \o E
           n == Len(D)
<1>1. /\ n \in Nat /\ Len(E) \in Nat /\ Len(F) = n + Len(E)
      /\ \A j \in 1..n : F[j] = D[j]
      /\ p.k # 0 => F[p.j + 1] = D[p.j + 1]
      /\ q.k # 0 => F[q.j + 1] = D[q.j + 1]
  <2>1. /\ Len(F) = n + Len(E) /\ \A j \in 1..n : F[j] = D[j]
        /\ \A c \in Places(D) : c.k # 0 => F[c.j + 1] = D[c.j + 1]
    BY PlacesMore
  <2>2. n \in Nat /\ Len(E) \in Nat
    OBVIOUS
  <2> HIDE DEF F, n
  <2> QED
    BY <2>1, <2>2
<1>2. p.j \in Nat /\ p.k \in Nat /\ q.j \in Nat /\ q.k \in Nat
  BY AtIs
<1> HIDE DEF F, n
<1>3. CASE b = MClock /\ q = p
  BY <1>3 DEF Moves
<1>4. CASE Enters(D, p, b, q, l)
  <2>1. q.j < n /\ q.k # 0
    BY <1>4 DEF Enters, n
  <2>2. q.j < Len(F)
    BY <1>1, <1>2, <2>1
  <2>3. Enters(F, p, b, q, l)
    BY <1>1, <1>4, <2>1, <2>2 DEF Enters
  <2> QED
    BY <2>3 DEF Moves, F
<1>5. CASE Inside(D, p, b, q)
  <2>1. Inside(F, p, b, q)
    BY <1>1, <1>5 DEF Inside
  <2> QED
    BY <2>1 DEF Moves, F
<1>6. CASE Leaves(D, p, b, q)
  <2>1. ASSUME q.k = 1, Running(D, q) PROVE Running(F, q)
    <3>1. q.j < n /\ q.j = p.j + 1 /\ D[q.j].status = ControlChg /\ D[q.j + 1].status = ControlChg
      BY <1>6, <2>1 DEF Running, Leaves, n
    <3>2. q.j \in 1..n /\ q.j < Len(F) /\ F[q.j + 1] = D[q.j + 1]
      BY <1>1, <1>2, <2>1, <3>1
    <3> QED
      BY <1>1, <3>1, <3>2 DEF Running
  <2>2. Leaves(F, p, b, q)
    BY <1>1, <1>6, <2>1 DEF Leaves
  <2> QED
    BY <2>2 DEF Moves, F
<1> QED
  BY <1>3, <1>4, <1>5, <1>6 DEF Moves

LEMMA LeadsMore ==
  ASSUME NEW D \in Seq(Lined), NEW E \in Seq(Lined), NEW s, Len(s) \in Nat,
         NEW p, NEW r, NEW l, Leads(D, s, p, r, l)
  PROVE  Leads(D \o E, s, p, r, l)
<1>1. PICK u : Route(D, s, u, l) /\ u[0] = p /\ u[Len(s)] = r
  BY DEF Leads
<1> DEFINE n == Len(s)
           F == D \o E
<1>2. u \in [0..n -> Places(D)] /\ \A j \in 1..n : Moves(D, u[j - 1], s[j], u[j], l)
  BY <1>1 DEF Route
<1>3. Places(D) \subseteq Places(F)
  BY PlacesMore
<1>4. u \in [0..n -> Places(F)]
  <2> HIDE DEF F
  <2> QED
    BY <1>2, <1>3
<1>5. ASSUME NEW j \in 1..n PROVE Moves(F, u[j - 1], s[j], u[j], l)
  <2>1. j \in 0..n /\ j - 1 \in 0..n
    OBVIOUS
  <2> QED
    BY <1>2, <2>1, MovesMore
<1>6. Route(F, s, u, l)
  BY <1>4, <1>5 DEF Route
<1> QED
  BY <1>1, <1>6 DEF Leads

\* When something is missed.
LEMMA LeadsMissed ==
  ASSUME NEW D, NEW s, NEW p, NEW r, NEW l, NEW k, l => k, Leads(D, s, p, r, l)
  PROVE  Leads(D, s, p, r, k)
<1>1. \A a, b, c : Moves(D, a, b, c, l) => Moves(D, a, b, c, k)
  BY DEF Moves, Enters
<1>2. \A u : Route(D, s, u, l) => Route(D, s, u, k)
  BY <1>1 DEF Route
<1> QED
  BY <1>2 DEF Leads

\* A real-time byte leads nowhere.
LEMMA LeadsClock ==
  ASSUME NEW D, NEW S, NEW s \in Seq(S), MClock \in S, NEW p, NEW r, NEW l,
         Leads(D, s, p, r, l)
  PROVE  Leads(D, Append(s, MClock), p, r, l)
<1>1. r \in Places(D)
  <2>1. PICK u : Route(D, s, u, l) /\ u[Len(s)] = r
    BY DEF Leads
  <2>2. Len(s) \in Nat /\ Len(s) \in 0..Len(s)
    OBVIOUS
  <2> QED
    BY <2>1, <2>2 DEF Route
<1>2. Leads(D, <<MClock>>, r, r, l)
  BY <1>1, LeadsOne DEF Moves
<1>3. <<MClock>> \in Seq(S) /\ Append(s, MClock) = s \o <<MClock>>
  BY AppendIsConcat
<1> QED
  BY <1>2, <1>3, LeadsJoin

LEMMA LeadsPlaces ==
  ASSUME NEW D, NEW s, Len(s) \in Nat, NEW p, NEW r, NEW l, Leads(D, s, p, r, l)
  PROVE  p \in Places(D) /\ r \in Places(D)
<1>1. PICK u : Route(D, s, u, l) /\ u[0] = p /\ u[Len(s)] = r
  BY DEF Leads
<1>2. 0 \in 0..Len(s) /\ Len(s) \in 0..Len(s)
  OBVIOUS
<1> QED
  BY <1>1, <1>2 DEF Route

LEMMA LinedIs ==
  ASSUME NEW m \in Lined
  PROVE  /\ Len(m.data) \in Nat /\ LenOf(m) \in Nat
         /\ \/ /\ m.status \in {NoteOn, ControlChg} /\ m.data \in Data \X Data
               /\ LenOf(m) = 3 /\ Len(m.data) = 2 /\ m = Message(m.status, m.data)
            \/ /\ m.status = ProgramChg /\ LenOf(m) = 2 /\ Len(m.data) = 1
               /\ m.data[1] \in Data /\ m = Message(ProgramChg, <<m.data[1]>>)
            \/ /\ m.status = SysEx /\ m.data \in Seq(Data) /\ LenOf(m) = Len(m.data) + 2
               /\ m = Message(SysEx, m.data)
         /\ m.status \in Openers
<1>0. /\ \A s, d : Message(s, d).status = s /\ Message(s, d).data = d
      /\ NoteOn # SysEx /\ ControlChg # SysEx /\ ProgramChg # SysEx
  BY DEF Message, NoteOn, ControlChg, ProgramChg, SysEx
<1>1. CASE \E s \in {NoteOn, ControlChg}, d \in Data \X Data : m = Message(s, d)
  <2>1. PICK s \in {NoteOn, ControlChg}, d \in Data \X Data : m = Message(s, d)
    BY <1>1
  <2>2. m.status = s /\ m.data = d /\ Len(d) = 2 /\ s # SysEx /\ s \in Openers
    BY <1>0, <2>1 DEF Openers
  <2>3. LenOf(m) = 3
    BY <2>2 DEF LenOf
  <2> QED
    BY <2>1, <2>2, <2>3
<1>2. CASE \E v \in Data : m = Message(ProgramChg, <<v>>)
  <2>1. PICK v \in Data : m = Message(ProgramChg, <<v>>)
    BY <1>2
  <2>2. m.status = ProgramChg /\ m.data = <<v>> /\ Len(m.data) = 1 /\ m.data[1] = v
    BY <1>0, <2>1
  <2>3. LenOf(m) = 2 /\ ProgramChg \in Openers
    BY <1>0, <2>2 DEF LenOf, Openers
  <2> QED
    BY <2>1, <2>2, <2>3
<1>3. CASE \E d \in Seq(Data) : m = Message(SysEx, d)
  <2>1. PICK d \in Seq(Data) : m = Message(SysEx, d)
    BY <1>3
  <2>2. m.status = SysEx /\ m.data = d
    BY <1>0, <2>1
  <2> QED
    BY <1>0, <2>1, <2>2 DEF LenOf, Openers
<1> QED
  BY <1>1, <1>2, <1>3 DEF Lined

LEMMA Regrouped ==
  ASSUME NEW S, NEW a \in Seq(S), NEW b \in Seq(S), NEW c \in Seq(S)
  PROVE  (a \o b) \o c = a \o (b \o c)
BY ConcatAssociative

LEMMA RegroupedAll ==
  ASSUME NEW S
  PROVE  \A a, b, c \in Seq(S) : (a \o b) \o c = a \o (b \o c)
BY Regrouped

LEMMA FlattenCons ==
  ASSUME NEW S, NEW s \in Seq(Seq(S)), NEW t \in Seq(Seq(S)), Len(t) = Len(s) + 1,
         \A i \in 1..Len(s) : t[i + 1] = s[i]
  PROVE  FlattenSeq(t) = t[1] \o FlattenSeq(s) /\ t[1] \in Seq(S)
<1> DEFINE n == Len(s)
           m == Len(t)
<1>0. /\ n \in Nat /\ m = n + 1 /\ m \in Nat /\ m # 0
      /\ \A i \in 1..n : s[i] \in Seq(S) /\ t[i + 1] = s[i]
      /\ \A i \in 1..m : t[i] \in Seq(S)
      /\ 1 \in 1..m
  OBVIOUS
<1>1. PICK g : FlatTo(t, m, g) /\ FlattenSeq(t) = g[m]
  BY <1>0, FlattenIs
<1>2. \A i \in 1..m : g[i] = IF i = 1 THEN t[i] ELSE g[i - 1] \o t[i]
  BY <1>1 DEF FlatTo
<1>3. CASE n = 0
  <2>1. FlattenSeq(s) = <<>>
    BY <1>3, FlattenEmpty
  <2>2. FlattenSeq(t) = t[1] /\ t[1] \in Seq(S)
    BY <1>0, <1>1, <1>2, <1>3
  <2>3. t[1] \o <<>> = t[1]
    BY <2>2, ConcatEmptySeq
  <2> QED
    BY <2>1, <2>2, <2>3
<1>4. CASE n # 0
  <2>1. PICK f : FlatTo(s, n, f) /\ FlattenSeq(s) = f[n]
    BY <1>0, <1>4, FlattenIs
  <2>2. \A i \in 1..n : f[i] = IF i = 1 THEN s[i] ELSE f[i - 1] \o s[i]
    BY <2>1 DEF FlatTo
  <2> DEFINE e == t[1]
             T == {i \in 0..n : i # 0 => f[i] \in Seq(S) /\ g[i + 1] = e \o f[i]}
  <2>3. e \in Seq(S) /\ g[1] = e
    BY <1>0, <1>2
  <2> HIDE DEF n, m, e
  <2>4. 0 \in T
    BY <1>0
  <2>5. ASSUME NEW i \in 0..n, i \in T, i < n PROVE i + 1 \in T
    <3>1. /\ i + 1 \in 1..n /\ i + 1 \in 0..n /\ (i + 1) - 1 = i /\ (i + 1) + 1 \in 1..m
          /\ (i + 1) + 1 # 1 /\ ((i + 1) + 1) - 1 = i + 1
      BY <1>0, <2>5
    <3>2. s[i + 1] \in Seq(S) /\ t[(i + 1) + 1] = s[i + 1]
      BY <1>0, <3>1
    <3>3. g[(i + 1) + 1] = g[i + 1] \o s[i + 1]
      BY <1>2, <3>1, <3>2
    <3>4. CASE i = 0
      <4>1. i + 1 = 1 /\ f[i + 1] = s[i + 1]
        BY <2>2, <3>1, <3>4
      <4> QED
        BY <2>3, <3>1, <3>2, <3>3, <4>1
    <3>5. CASE i # 0
      <4>1. f[i] \in Seq(S) /\ g[i + 1] = e \o f[i]
        BY <2>5, <3>5
      <4>2. f[i + 1] = f[i] \o s[i + 1]
        <5>1. i + 1 # 1
          BY <3>5
        <5> QED
          BY <2>2, <3>1, <5>1
      <4> DEFINE a == f[i]
                 b == s[i + 1]
      <4>3. a \in Seq(S) /\ b \in Seq(S) /\ f[i + 1] = a \o b /\ g[(i + 1) + 1] = (e \o a) \o b
        BY <3>2, <3>3, <4>1, <4>2
      <4> HIDE DEF a, b
      <4>4. a \o b \in Seq(S)
        BY <4>3, ConcatProperties
      <4>5. (e \o a) \o b = e \o (a \o b)
        <5>1. e \in Seq(S) /\ a \in Seq(S) /\ b \in Seq(S)
          BY <2>3, <4>3
        <5>2. \A x, y, z \in Seq(S) : (x \o y) \o z = x \o (y \o z)
          BY RegroupedAll
        <5> QED
          BY ONLY <5>1, <5>2, Zenon
      <4> QED
        BY <3>1, <4>3, <4>4, <4>5
    <3> QED
      BY <3>4, <3>5
  <2> HIDE DEF T
  <2>6. 0..n \subseteq T
    BY <1>0, <2>4, <2>5, Induction
  <2>7. n \in 0..n
    BY <1>0
  <2>8. g[n + 1] = e \o f[n]
    BY <1>4, <2>6, <2>7 DEF T
  <2> QED
    BY <1>0, <1>1, <2>1, <2>3, <2>8 DEF e
<1> QED
  BY <1>3, <1>4

\* What the list of cells from y on holds.
TextOf(h, r) == FlattenSeq([i \in 1..Len(r) |-> h.bytes[r[i]]])
LineText(h, y) == IF y = NULL THEN <<>> ELSE TextOf(h, Cells(h, y))

LEMMA BytesOf ==
  ASSUME NEW h \in Heaps, NEW r \in Seq(Cell)
  PROVE  /\ [i \in 1..Len(r) |-> h.bytes[r[i]]] \in Seq(Seq(Data))
         /\ Len([i \in 1..Len(r) |-> h.bytes[r[i]]]) = Len(r)
         /\ TextOf(h, r) \in Seq(Data)
<1> DEFINE n == Len(r)
           s == [i \in 1..n |-> h.bytes[r[i]]]
<1>1. n \in Nat /\ \A i \in 1..n : r[i] \in Cell
  OBVIOUS
<1>2. \A c \in Cell : h.bytes[c] \in Seq(Data)
  BY DEF Heaps, Contents
<1> HIDE DEF n
<1>3. \A i \in 1..n : h.bytes[r[i]] \in Seq(Data)
  BY <1>1, <1>2
<1>4. s \in Seq(Seq(Data)) /\ Len(s) = n
  BY <1>1, <1>3
<1> HIDE DEF s
<1>5. FlattenSeq(s) \in Seq(Data)
  BY <1>4, FlattenType
<1> QED
  BY <1>4, <1>5 DEF s, n, TextOf

LEMMA LineTextFrame ==
  ASSUME NEW h, NEW g, NEW y, NEW S, Line(h, y, S), Unchanged(h, g, S)
  PROVE  LineText(g, y) = LineText(h, y)
<1>1. CASE y = NULL
  BY <1>1 DEF LineText
<1>2. CASE y # NULL
  <2>1. PICK r : Chained(h, r) /\ h.link[r[Len(r)]] = NULL /\ y = r[1] /\ S = ToSet(r)
    BY <1>2 DEF Line
  <2>2. Len(r) \in Nat /\ Len(r) # 0 /\ r \in Seq(Cell)
    BY <2>1 DEF Chained
  <2>3. \A i \in 1..Len(r) : r[i] \in S
    BY <2>1, <2>2 DEF ToSet
  <2>4. \A i \in 1..Len(r) : g.link[r[i]] = h.link[r[i]] /\ g.bytes[r[i]] = h.bytes[r[i]]
    BY <2>3 DEF Unchanged
  <2>5. Len(r) \in 1..Len(r)
    BY <2>2
  <2>6. Chained(g, r) /\ g.link[r[Len(r)]] = NULL
    BY <2>1, <2>4, <2>5 DEF Chained
  <2>7. Cells(h, y) = r /\ Cells(g, y) = r
    BY <2>1, <2>6, CellsAre
  <2>8. TextOf(g, r) = TextOf(h, r)
    BY <2>4 DEF TextOf
  <2> QED
    BY <1>2, <2>7, <2>8 DEF LineText
<1> QED
  BY <1>1, <1>2

\* What the first cell holds comes first.
LEMMA LineTextHead ==
  ASSUME NEW h \in Heaps, NEW y, NEW S, Line(h, y, S), y # NULL
  PROVE  /\ LineText(h, y) = h.bytes[y] \o LineText(h, h.link[y])
         /\ LineText(h, y) \in Seq(Data) /\ h.bytes[y] \in Seq(Data)
<1>1. PICK r : Chained(h, r) /\ h.link[r[Len(r)]] = NULL /\ y = r[1] /\ S = ToSet(r)
  BY DEF Line
<1> DEFINE n == Len(r)
           q == [i \in 1..n - 1 |-> r[i + 1]]
           s == [i \in 1..n |-> h.bytes[r[i]]]
<1>2. /\ r \in Seq(Cell) /\ n \in Nat /\ n # 0 /\ \A i \in 1..n : r[i] \in Cell
      /\ \A i, j \in 1..n : r[i] = r[j] => i = j
      /\ \A i \in 1..n : i < n => h.link[r[i]] = r[i + 1]
      /\ 1 \in 1..n /\ n \in 1..n
  <2>1. r \in Seq(Cell) /\ r # <<>>
    BY <1>1 DEF Chained
  <2>2. n \in Nat /\ n # 0 /\ \A i \in 1..n : r[i] \in Cell
    BY <2>1
  <2>3. 1 \in 1..n /\ n \in 1..n
    BY <2>2
  <2> QED
    BY <1>1, <2>1, <2>2, <2>3 DEF Chained
<1>3. Cells(h, y) = r
  BY <1>1, CellsAre
<1>4. /\ s \in Seq(Seq(Data)) /\ Len(s) = n /\ FlattenSeq(s) \in Seq(Data)
      /\ s[1] = h.bytes[y]
  BY <1>1, <1>2, BytesOf DEF TextOf
<1>5. LineText(h, y) = FlattenSeq(s)
  BY <1>3 DEF LineText, TextOf
<1> HIDE DEF s
<1>6. CASE n = 1
  <2>1. h.link[y] = NULL
    BY <1>1, <1>6
  <2>2. LineText(h, h.link[y]) = <<>>
    BY <2>1 DEF LineText
  <2> DEFINE z == <<>>
  <2>3. z \in Seq(Seq(Data)) /\ Len(z) = 0
    OBVIOUS
  <2>5. FlattenSeq(z) = <<>>
    BY <2>3, FlattenEmpty
  <2> HIDE DEF z
  <2>4. FlattenSeq(s) = s[1] \o FlattenSeq(z) /\ s[1] \in Seq(Data)
    <3>1. Len(s) = Len(z) + 1 /\ \A i \in 1..Len(z) : s[i + 1] = z[i]
      BY <1>4, <1>6, <2>3
    <3> QED
      BY <1>4, <2>3, <3>1, FlattenCons
  <2> QED
    BY <1>4, <1>5, <2>2, <2>4, <2>5
<1>7. CASE n # 1
  <2>1. /\ n - 1 \in Nat /\ n - 1 # 0 /\ 1 < n /\ n = (n - 1) + 1
        /\ \A i \in 1..n - 1 : i + 1 \in 1..n /\ i + 1 # 1
        /\ n - 1 \in 1..n - 1 /\ (n - 1) + 1 = n /\ 1 \in 1..n - 1
    <3>1. n \in Nat /\ n # 0 /\ n # 1
      BY <1>2, <1>7
    <3> HIDE DEF n
    <3> QED
      BY <3>1
  <2> HIDE DEF n
  <2>2. q \in Seq(Cell) /\ Len(q) = n - 1 /\ \A i \in 1..n - 1 : q[i] = r[i + 1]
    BY <1>2, <2>1
  <2>3. q # <<>>
    BY <2>1, <2>2
  <2> HIDE DEF q
  <2>4. \A i, j \in 1..n - 1 : q[i] = q[j] => i = j
    <3> TAKE i, j \in 1..n - 1
    <3> HAVE q[i] = q[j]
    <3>1. r[i + 1] = r[j + 1] /\ i + 1 \in 1..n /\ j + 1 \in 1..n
      BY <2>1, <2>2
    <3>2. i + 1 = j + 1
      BY <1>2, <3>1
    <3> QED
      BY <3>2
  <2>5. \A i \in 1..n - 1 : i < n - 1 => h.link[q[i]] = q[i + 1]
    <3> TAKE i \in 1..n - 1
    <3> HAVE i < n - 1
    <3>1. i + 1 \in 1..n - 1 /\ i + 1 \in 1..n /\ i + 1 < n
      BY <2>1
    <3> QED
      BY <1>2, <2>2, <3>1
  <2>6. Chained(h, q)
    BY <2>2, <2>3, <2>4, <2>5 DEF Chained
  <2>7. q[n - 1] = r[n] /\ q[1] = h.link[y]
    <3>1. 1 + 1 = 2 /\ h.link[r[1]] = r[1 + 1]
      BY <1>2, <2>1
    <3> QED
      BY <1>1, <2>1, <2>2, <3>1
  <2>8. h.link[q[Len(q)]] = NULL
    BY <1>1, <2>2, <2>7 DEF n
  <2>9. Cells(h, h.link[y]) = q
    BY <2>6, <2>7, <2>8, CellsAre
  <2>10. h.link[y] # NULL
    <3>1. q[1] \in Cell
      BY <2>1, <2>2
    <3> QED
      BY <2>7, <3>1, StreamsAssumption
  <2> DEFINE t == [i \in 1..Len(q) |-> h.bytes[q[i]]]
  <2>11. LineText(h, h.link[y]) = FlattenSeq(t)
    BY <2>9, <2>10 DEF LineText, TextOf
  <2>12. t \in Seq(Seq(Data)) /\ Len(t) = n - 1
    BY <2>2, BytesOf
  <2>13. \A i \in 1..n - 1 : s[i + 1] = t[i]
    BY <2>1, <2>2 DEF s, n
  <2> HIDE DEF t
  <2>14. FlattenSeq(s) = s[1] \o FlattenSeq(t) /\ s[1] \in Seq(Data)
    <3>1. Len(s) = Len(t) + 1 /\ \A i \in 1..Len(t) : s[i + 1] = t[i]
      BY <1>4, <2>1, <2>12, <2>13
    <3> QED
      BY <1>4, <2>12, <3>1, FlattenCons
  <2> QED
    BY <1>4, <1>5, <2>11, <2>14
<1> QED
  BY <1>6, <1>7

\* The event whose ring is opened, and the text of its cells from the first on.
LEMMA RingText ==
  ASSUME NEW h \in Heaps, NEW x, NEW r, NEW S, RingOf(h, x, r, S), NEW g,
         TurnedTo(h, x, r, g), g.bytes = h.bytes, h.link[h.se[x]] # NULL
  PROVE  LineText(g, h.link[h.se[x]]) = Joined(h, r)
<1> DEFINE n == Len(r)
           q == Turned(r)
           first == h.link[h.se[x]]
           s == [i \in 1..Len(q) |-> g.bytes[q[i]]]
           b == Behind(h, r)
<1>1. /\ r \in Seq(Cell) /\ n \in Nat /\ n # 0 /\ \A i \in 1..n : r[i] \in Cell
      /\ 1 \in 1..n /\ n - 1 \in Nat /\ (n - 1) + 1 = n
      /\ \A i \in 1..n - 1 : i \in 1..n /\ i # n /\ i + 1 \in 1..n
      /\ \A i \in 1..n : i # n => i \in 1..n - 1
  <2>1. r \in Seq(Cell) /\ r # <<>>
    BY DEF RingOf, Ring, Chained
  <2>2. n \in Nat /\ n # 0 /\ \A i \in 1..n : r[i] \in Cell
    BY <2>1
  <2> HIDE DEF n
  <2> QED
    BY <2>1, <2>2
<1>2. Chained(g, q) /\ g.link[q[Len(q)]] = NULL /\ q[1] = first
  BY DEF TurnedTo
<1>3. Cells(g, first) = q
  BY <1>2, CellsAre
<1>4. LineText(g, first) = FlattenSeq(s)
  BY <1>3 DEF LineText, TextOf
<1>5. \A c \in Cell : h.bytes[c] \in Seq(Data)
  BY DEF Heaps, Contents
<1>6. /\ Len(q) = n /\ \A i \in 1..n : q[i] = IF i = n THEN r[1] ELSE r[i + 1]
  <2>1. q = [i \in 1..n |-> IF i = n THEN r[1] ELSE r[i + 1]]
    BY DEF Turned
  <2> HIDE DEF q, n
  <2>2. \A i \in 1..n : (IF i = n THEN r[1] ELSE r[i + 1]) \in Cell
    BY <1>1
  <2>3. q \in Seq(Cell) /\ Len(q) = n
    BY <1>1, <2>1, <2>2
  <2> QED
    BY <2>1, <2>3
<1> HIDE DEF q, first
<1>7. /\ b \in Seq(Seq(Data)) /\ Len(b) = n - 1
      /\ \A i \in 1..n - 1 : b[i] = h.bytes[r[i + 1]]
  <2>1. b = [i \in 1..n - 1 |-> h.bytes[r[i + 1]]]
    BY DEF Behind
  <2> HIDE DEF b, n
  <2>2. \A i \in 1..n - 1 : h.bytes[r[i + 1]] \in Seq(Data)
    BY <1>1, <1>5
  <2> QED
    BY <1>1, <2>1, <2>2
<1>8. h.bytes[r[1]] \in Seq(Data)
  BY <1>1, <1>5
<1> HIDE DEF b
<1> DEFINE e == h.bytes[r[1]]
           t == Append(b, e)
<1>9. /\ t \in Seq(Seq(Data)) /\ Len(t) = n
      /\ \A i \in 1..n - 1 : t[i] = b[i]
      /\ t[n] = e
  <2>1. b \in Seq(Seq(Data)) /\ e \in Seq(Data) /\ Len(b) = n - 1
    BY <1>7, <1>8
  <2> HIDE DEF e, n
  <2>2. /\ t \in Seq(Seq(Data)) /\ Len(t) = Len(b) + 1
        /\ \A i \in 1..Len(b) : t[i] = b[i]
        /\ t[Len(b) + 1] = e
    BY <2>1, AppendProperties
  <2> HIDE DEF t
  <2> QED
    BY <1>1, <2>1, <2>2
<1> HIDE DEF n, t, e
<1>10. \A i \in 1..n : g.bytes[q[i]] = t[i]
  <2> TAKE i \in 1..n
  <2>1. CASE i = n
    BY <1>6, <1>9, <2>1 DEF e
  <2>2. CASE i # n
    BY <1>1, <1>6, <1>7, <1>9, <2>2
  <2> QED
    BY <2>1, <2>2
<1>11. s = t
  <2>1. s = [i \in 1..n |-> t[i]]
    BY <1>6, <1>10
  <2>2. t = [i \in 1..n |-> t[i]]
    BY <1>9
  <2> QED
    BY <2>1, <2>2
<1>12. FlattenSeq(t) = FlattenSeq(b) \o e
  BY <1>7, <1>8, FlattenAppend DEF t, e
<1> QED
  BY <1>4, <1>11, <1>12 DEF Joined, b, e, first

\* What a system exclusive held is now in its first cell and in the list z.
Opened(h, o, c, w, x, first, z, k) ==
  /\ o[x].data = h.bytes[first] \o LineText(k, z)
  /\ c # NULL => Unchanged(h, k, Of(w, c))
  /\ first = h.se[x] => z = NULL

LEMMA PutText ==
  ASSUME NEW h, NEW o, NEW c, NEW w, NEW e, Apportioned(h, o, NULL, c, w, e),
         NEW x \in Cell, o[x].status = SysEx
  PROVE  LET first == h.link[h.se[x]]
             g == [h EXCEPT !.link[h.se[x]] = NULL]
             k == FreeCell(FreeCell(g, x), first)
         IN Opened(h, o, c, w, x, first, g.link[first], k)
<1> DEFINE first == h.link[h.se[x]]
           g == [h EXCEPT !.link[h.se[x]] = NULL]
           k == FreeCell(FreeCell(g, x), first)
           z == g.link[first]
           S == Of(w, x)
           L == (S \ {x}) \ {first}
<1>0. o[x] # None /\ h \in Heaps
  <2>1. None.status # SysEx
    BY DEF None, Message, SysEx
  <2> QED
    BY <2>1 DEF Apportioned
<1>1. PICK r : RingOf(h, x, r, S) /\ Joined(h, r) = o[x].data
  <2>1. Event(h, x, o[x], Of(w, x))
    BY <1>0 DEF Apportioned
  <2> QED
    BY <2>1 DEF Event
<1>2. OpenedTo(h, x, S, g) /\ TurnedTo(h, x, r, g)
  BY <1>0, <1>1, RingOpened
<1>3. /\ g \in Heaps /\ g.free = h.free /\ g.ev = h.ev /\ g.se = h.se /\ g.bytes = h.bytes
      /\ \A b \in Cell : b # h.se[x] => g.link[b] = h.link[b]
      /\ Line(g, first, S \ {x})
      /\ first \in Cell
  <2> HIDE DEF g, S
  <2> QED
    BY <1>2 DEF OpenedTo
<1>4. first # NULL /\ g.link[h.se[x]] = NULL /\ h.se[x] \in S
  <2>1. first # NULL
    BY <1>3, StreamsAssumption
  <2>3. h.se[x] = r[1] /\ S = {x} \cup ToSet(r) /\ r \in Seq(Cell) /\ r # <<>>
    BY <1>1 DEF RingOf, Ring, Chained
  <2>4. r[1] \in ToSet(r) /\ h.se[x] \in Cell
    <3>1. 1 \in DOMAIN r /\ r[1] \in Cell
      BY <2>3
    <3> QED
      BY <2>3, <3>1 DEF ToSet
  <2>5. g = [h EXCEPT !.link = [h.link EXCEPT ![h.se[x]] = NULL]]
    OBVIOUS
  <2>6. g.link[h.se[x]] = NULL
    <3> DEFINE f == [h.link EXCEPT ![h.se[x]] = NULL]
    <3>1. f[h.se[x]] = NULL
      BY <1>0, <2>4 DEF Heaps
    <3> HIDE DEF f, g
    <3>2. g = [h EXCEPT !.link = f]
      BY <2>5 DEF f
    <3> QED
      BY <1>0, <3>1, <3>2 DEF Heaps
  <2> QED
    BY <2>1, <2>3, <2>4, <2>6
<1>5. LineText(g, first) = o[x].data
  <2> HIDE DEF g
  <2> QED
    BY <1>0, <1>1, <1>2, <1>3, <1>4, RingText
<1>6. k = [g EXCEPT !.free = (g.free \cup {x}) \cup {first}]
  BY DEF FreeCell
<1> HIDE DEF k
<1>7. /\ k \in Heaps /\ k.free = h.free \cup {x, first} /\ k.ev = h.ev /\ k.se = h.se
      /\ k.bytes = h.bytes /\ k.link = g.link
  <2> HIDE DEF g, first
  <2> QED
    BY <1>3, <1>6 DEF Heaps
<1>8. Line(g, z, L)
  BY <1>3, <1>4, LineTail
<1> HIDE DEF g, first
<1>9. LineText(g, first) = g.bytes[first] \o LineText(g, z)
  BY <1>3, <1>4, LineTextHead
<1>10. LineText(k, z) = LineText(g, z)
  <2>1. Unchanged(g, k, L)
    BY <1>3, <1>7 DEF Unchanged
  <2> HIDE DEF z, L
  <2> QED
    BY <1>8, <2>1, LineTextFrame
<1>11. c # NULL => Unchanged(h, k, Of(w, c))
  <2> HAVE c # NULL
  <2>1. c # x /\ c \in Cell
    BY <1>0 DEF Apportioned
  <2>2. \A b \in Of(w, c) : b \in Cell /\ b # h.se[x]
    BY <1>4, <2>1 DEF Of
  <2> QED
    BY <1>3, <1>7, <2>2 DEF Unchanged
<1>12. first = h.se[x] => z = NULL
  BY <1>4
<1>13. Opened(h, o, c, w, x, first, z, k)
  BY <1>3, <1>5, <1>9, <1>10, <1>11, <1>12 DEF Opened
<1> QED
  BY <1>13 DEF k, z, g, first

LEMMA StatusesDiffer ==
  /\ \A s, d : Message(s, d).status = s /\ Message(s, d).data = d
  /\ None.status = 0
  /\ NoteOn \notin {0, MClock} /\ ControlChg \notin {0, MClock} /\ ProgramChg \notin {0, MClock}
  /\ SysEx \notin {0, MClock}
  /\ SysEx \notin {NoteOn, ControlChg, ProgramChg} /\ ProgramChg \notin {NoteOn, ControlChg}
  /\ NoteOn # ControlChg /\ ControlChg \notin {ProgramChg, SysEx}
BY DEF None, Message, NoteOn, ControlChg, ProgramChg, SysEx, MClock

\* A byte is one of a message: its status, one of its data, or its end.
ByteIs(D, p, b, q, l) ==
  \/ b = MClock /\ q = p
  \/ Enters(D, p, b, q, l) /\ D[q.j + 1] \in Lined
  \/ /\ p.k # 0 /\ D[p.j + 1] \in Lined /\ b \in Data /\ b = D[p.j + 1].data[p.k]
     /\ p.k \in 1..Len(D[p.j + 1].data)
     /\ \/ q = At(p.j, p.k + 1) /\ p.k + 1 < LenOf(D[p.j + 1])
        \/ /\ D[p.j + 1].status # SysEx /\ q.j = p.j + 1 /\ p.k + 1 = LenOf(D[p.j + 1])
           /\ q.k = 0 \/ (q.k = 1 /\ Running(D, q))
  \/ /\ p.k # 0 /\ D[p.j + 1] \in Lined /\ D[p.j + 1].status = SysEx /\ b = EndSysX
     /\ p.k = Len(D[p.j + 1].data) + 1 /\ q.j = p.j + 1 /\ q.k = 0

LEMMA DataIs ==
  ASSUME NEW m \in Lined
  PROVE  m.data \in Seq(Data) /\ \A k \in 1..Len(m.data) : m.data[k] \in Data
<1>1. m.data \in Seq(Data)
  <2>1. CASE m.data \in Data \X Data
    <3>1. PICK a \in Data, b \in Data : m.data = <<a, b>>
      BY <2>1
    <3> QED
      BY <3>1
  <2>2. CASE m = Message(ProgramChg, <<m.data[1]>>) /\ m.data[1] \in Data
    <3> DEFINE v == m.data[1]
    <3>1. m.data = <<v>> /\ v \in Data
      BY <2>2, StatusesDiffer
    <3> HIDE DEF v
    <3> QED
      BY <3>1
  <2> QED
    BY <2>1, <2>2, LinedIs
<1> QED
  BY <1>1

LEMMA MovesByte ==
  ASSUME NEW D \in Seq(Lined), NEW p \in Places(D), NEW q \in Places(D), NEW b, NEW l,
         Moves(D, p, b, q, l)
  PROVE  ByteIs(D, p, b, q, l)
<1> DEFINE n == Len(D)
           m == D[p.j + 1]
<1>1. /\ n \in Nat /\ p.j \in Nat /\ p.k \in Nat /\ q.j \in Nat /\ q.k \in Nat
      /\ (p.k # 0 => p.j < n /\ p.k < LenOf(m))
      /\ (q.k # 0 => q.j < n)
  BY AtIs DEF Places
<1>2. \A j \in 1..n : D[j] \in Lined
  OBVIOUS
<1>3. p.k # 0 => m \in Lined
  <2> HAVE p.k # 0
  <2> HIDE DEF n
  <2>1. p.j + 1 \in 1..n
    BY <1>1
  <2> QED
    BY <1>2, <2>1
<1>4. CASE b = MClock /\ q = p
  BY <1>4 DEF ByteIs
<1>5. CASE Enters(D, p, b, q, l)
  <2>1. q.j < n
    BY <1>5 DEF Enters
  <2> HIDE DEF n
  <2>2. q.j + 1 \in 1..n
    BY <1>1, <2>1
  <2>3. D[q.j + 1] \in Lined
    BY <1>2, <2>2
  <2> QED
    BY <1>5, <2>3 DEF ByteIs
<1>6. ASSUME p.k # 0
      PROVE  /\ m \in Lined /\ Len(m.data) \in Nat /\ \A k \in 1..Len(m.data) : m.data[k] \in Data
             /\ LenOf(m) = Len(m.data) + IF m.status = SysEx THEN 2 ELSE 1
  BY <1>3, <1>6, DataIs, LinedIs DEF LenOf
<1> DEFINE L == Len(m.data)
           K == LenOf(m)
<1>10. p.k # 0 => /\ L \in Nat /\ (m.status = SysEx => K = L + 2)
                  /\ (m.status # SysEx => K = L + 1)
  BY <1>6
<1> HIDE DEF n, L, K
<1>7. ASSUME p.k # 0, p.k + 1 # L + 2, p.k <= L
      PROVE  p.k \in 1..L /\ ByteOf(m, p.k + 1) = m.data[p.k] /\ m.data[p.k] \in Data
  <2>1. p.k \in 1..L /\ p.k + 1 # 1 /\ (p.k + 1) - 1 = p.k
    BY <1>1, <1>7, <1>10
  <2> QED
    BY <1>6, <1>7, <2>1 DEF ByteOf, L
<1>8. CASE Inside(D, p, b, q)
  <2>1. p.k # 0 /\ p.k + 1 < LenOf(m) /\ b = ByteOf(m, p.k + 1) /\ q = At(p.j, p.k + 1)
    BY <1>8 DEF Inside
  <2>2. p.k + 1 # L + 2 /\ p.k <= L
    <3>1. p.k + 1 < K
      BY <2>1 DEF K
    <3> HIDE DEF m
    <3> QED
      BY <1>1, <1>10, <2>1, <3>1
  <2> QED
    BY <1>6, <1>7, <2>1, <2>2 DEF ByteIs, L
<1>9. CASE Leaves(D, p, b, q)
  <2>1. /\ p.k # 0 /\ p.k + 1 = LenOf(m) /\ b = ByteOf(m, p.k + 1) /\ q.j = p.j + 1
        /\ (q.k = 0 \/ (q.k = 1 /\ Running(D, q)))
    BY <1>9 DEF Leaves
  <2>2. CASE m.status = SysEx
    <3>1. p.k = L + 1 /\ p.k + 1 = L + 2 /\ p.k + 1 # 1
      BY <1>1, <1>10, <2>1, <2>2 DEF K
    <3>2. b = EndSysX
      BY <2>1, <3>1 DEF ByteOf, L
    <3>3. q.k = 0
      <4> SUFFICES ASSUME Running(D, q) PROVE FALSE
        BY <2>1
      <4>1. D[q.j].status = ControlChg /\ q.j = p.j + 1
        BY <2>1 DEF Running
      <4> QED
        BY <2>2, <4>1, StatusesDiffer
    <3> QED
      BY <1>6, <2>1, <2>2, <3>1, <3>2, <3>3 DEF ByteIs, L
  <2>3. CASE m.status # SysEx
    <3>1. p.k + 1 # L + 2 /\ p.k <= L
      BY <1>1, <1>10, <2>1, <2>3 DEF K
    <3> QED
      BY <1>6, <1>7, <2>1, <2>3, <3>1 DEF ByteIs, L
  <2> QED
    BY <2>2, <2>3
<1> QED
  BY <1>4, <1>5, <1>8, <1>9 DEF Moves

\* The parser i is where the place p is; s is the text of the event it makes.
AtPlace(D, p, i, s, l) ==
  p.k # 0 =>
    LET m == D[p.j + 1] IN
    \/ /\ m.status \in {NoteOn, ControlChg} /\ i.status = m.status
       /\ \/ p.k = 1 /\ i.parse = "DataM"
          \/ p.k = 2 /\ i.parse = "DataD" /\ i.data = m.data[1]
    \/ m.status = ProgramChg /\ i.status = m.status /\ i.parse = "DataU"
    \/ /\ m.status = SysEx
       /\ \/ i.parse = "SysExNext" /\ s = SubSeq(m.data, 1, p.k - 1)
          \/ l /\ i.parse = "Status"

\* The byte c takes the parser from i to j, and the text of its event from s to t;
\* m is the message that it completes, if any, and x that a cell was missing.
Effect(i, c, s, j, t, m, x) ==
  /\ c \in {NoteOn, ControlChg} => m = None /\ j.parse = "DataM" /\ j.status = c
  /\ c = ProgramChg => m = None /\ j.parse = "DataU" /\ j.status = c
  /\ c = SysEx => /\ m = None
                  /\ (x /\ j.parse = "Status") \/ (j.parse = "SysExNext" /\ t = <<>>)
  /\ c = EndSysX => IF i.parse = "SysExNext" THEN m = Message(SysEx, s) ELSE m = None /\ j = i
  /\ c = MClock => /\ j = i /\ m \in {None, Message(MClock, <<>>)}
                   /\ i.parse = "SysExNext" => t = s
  /\ c \in Data /\ i.parse = "Status" => m = None /\ j = i
  /\ c \in Data /\ i.parse = "DataM" =>
       m = None /\ j.parse = "DataD" /\ j.status = i.status /\ j.data = c
  /\ c \in Data /\ i.parse = "DataD" =>
       /\ j.parse = "DataM" /\ j.status = i.status
       /\ m = Message(i.status, <<i.data, c>>) \/ (x /\ m = None)
  /\ c \in Data /\ i.parse = "DataU" =>
       j = i /\ (m = Message(i.status, <<c>>) \/ (x /\ m = None))
  /\ c \in Data /\ i.parse = "SysExNext" =>
       m = None /\ ((x /\ j.parse = "Status") \/ (j = i /\ t = Append(s, c)))

\* What arrives is the message that the byte ends.
Arrives(D, p, q, m, l) ==
  /\ m.status \notin {0, MClock} => p.k # 0 /\ m = D[p.j + 1] /\ q.j = p.j + 1
  /\ ~l /\ m.status \in {0, MClock} => q.j = p.j

LEMMA EffectMoves ==
  ASSUME NEW D \in Seq(Lined), NEW p \in Places(D), NEW q \in Places(D), NEW c, NEW l, NEW x,
         Moves(D, p, c, q, l), NEW i, NEW s, NEW j, NEW t, NEW m,
         AtPlace(D, p, i, s, l), Effect(i, c, s, j, t, m, x)
  PROVE  AtPlace(D, q, j, t, l \/ x) /\ Arrives(D, p, q, m, l \/ x)
<1>1. ByteIs(D, p, c, q, l)
  BY MovesByte
<1>2. /\ p.j \in Nat /\ p.k \in Nat /\ q.j \in Nat /\ q.k \in Nat
      /\ At(p.j, p.k + 1).j = p.j /\ At(p.j, p.k + 1).k = p.k + 1
  BY AtIs
<1>3. CASE c = MClock /\ q = p
  <2>1. j = i /\ m.status \in {0, MClock} /\ (i.parse = "SysExNext" => t = s)
    BY <1>3, StatusesDiffer DEF Effect
  <2> QED
    BY <1>3, <2>1 DEF AtPlace, Arrives
<1>4. CASE Enters(D, p, c, q, l) /\ D[q.j + 1] \in Lined
  <2> DEFINE g == D[q.j + 1]
  <2>1. q.k = 1 /\ c = g.status /\ (l \/ p.j = q.j) /\ g \in Lined
    BY <1>4 DEF Enters
  <2>2. m = None /\ m.status = 0 /\ g.status \in {NoteOn, ControlChg, ProgramChg, SysEx}
    BY <2>1, LinedIs, StatusesDiffer DEF Effect, Openers
  <2>3. Arrives(D, p, q, m, l \/ x)
    BY <2>1, <2>2 DEF Arrives
  <2>4. CASE g.status \in {NoteOn, ControlChg}
    BY <2>1, <2>3, <2>4 DEF Effect, AtPlace
  <2>5. CASE g.status = ProgramChg
    BY <2>1, <2>3, <2>5 DEF Effect, AtPlace
  <2>6. CASE g.status = SysEx
    <3>1. SubSeq(g.data, 1, 0) = <<>> /\ 1 - 1 = 0
      BY <2>1, DataIs, SubSeqEmpty
    <3>2. (x /\ j.parse = "Status") \/ (j.parse = "SysExNext" /\ t = <<>>)
      BY <2>1, <2>6 DEF Effect
    <3> HIDE DEF g
    <3> QED
      BY <2>1, <2>3, <2>6, <3>1, <3>2 DEF AtPlace, g
  <2> QED
    BY <2>2, <2>4, <2>5, <2>6
<1> DEFINE g == D[p.j + 1]
<1>5. CASE /\ p.k # 0 /\ g \in Lined /\ c \in Data /\ c = g.data[p.k]
           /\ p.k \in 1..Len(g.data)
           /\ \/ q = At(p.j, p.k + 1) /\ p.k + 1 < LenOf(g)
              \/ /\ g.status # SysEx /\ q.j = p.j + 1 /\ p.k + 1 = LenOf(g)
                 /\ q.k = 0 \/ (q.k = 1 /\ Running(D, q))
  <2>1. \/ /\ g.status \in {NoteOn, ControlChg} /\ i.status = g.status
           /\ \/ p.k = 1 /\ i.parse = "DataM"
              \/ p.k = 2 /\ i.parse = "DataD" /\ i.data = g.data[1]
        \/ g.status = ProgramChg /\ i.status = g.status /\ i.parse = "DataU"
        \/ /\ g.status = SysEx
           /\ \/ i.parse = "SysExNext" /\ s = SubSeq(g.data, 1, p.k - 1)
              \/ l /\ i.parse = "Status"
    BY <1>5 DEF AtPlace
  <2>2. /\ g.data \in Seq(Data) /\ Len(g.data) \in Nat
        /\ g.status \in {NoteOn, ControlChg} =>
             LenOf(g) = 3 /\ g.data \in Data \X Data /\ g = Message(g.status, g.data)
        /\ g.status = ProgramChg =>
             LenOf(g) = 2 /\ Len(g.data) = 1 /\ g = Message(ProgramChg, <<g.data[1]>>)
        /\ g.status = SysEx => LenOf(g) = Len(g.data) + 2
    <3>1. g \in Lined
      BY <1>5
    <3> HIDE DEF g
    <3> QED
      BY <3>1, LinedIs, DataIs, StatusesDiffer
  <2>3. /\ q = At(p.j, p.k + 1) => D[q.j + 1] = g /\ q.j = p.j /\ q.k = p.k + 1
        /\ q.j = p.j + 1 => D[q.j] = g
    BY <1>2
  <2>4. CASE g.status \in {NoteOn, ControlChg} /\ p.k = 1
    <3>1. i.parse = "DataM" /\ i.status = g.status
      BY <2>1, <2>4, StatusesDiffer
    <3>2. m = None /\ m.status = 0 /\ j.parse = "DataD" /\ j.status = g.status /\ j.data = g.data[1]
      BY <1>5, <2>4, <3>1, StatusesDiffer DEF Effect
    <3>3. q = At(p.j, p.k + 1)
      BY <1>5, <2>2, <2>4
    <3>4. q.k = 2 /\ q.j = p.j /\ D[q.j + 1] = g
      BY <2>3, <2>4, <3>3
    <3> HIDE DEF g
    <3> QED
      BY <2>4, <3>2, <3>4 DEF AtPlace, Arrives
  <2>5. CASE g.status \in {NoteOn, ControlChg} /\ p.k # 1
    <3>1. i.parse = "DataD" /\ i.status = g.status /\ i.data = g.data[1] /\ p.k = 2
      BY <2>1, <2>5, StatusesDiffer
    <3>2. /\ j.parse = "DataM" /\ j.status = g.status
          /\ m = Message(g.status, <<g.data[1], g.data[2]>>) \/ (x /\ m = None)
      BY <1>5, <3>1 DEF Effect
    <3>3. q.j = p.j + 1 /\ (q.k = 0 \/ (q.k = 1 /\ Running(D, q))) /\ g.status # SysEx
      BY <1>5, <2>2, <2>5, <3>1
    <3>4. D[q.j] = g
      BY <2>3, <3>3
    <3>5. g.data = <<g.data[1], g.data[2]>> /\ g = Message(g.status, g.data)
      <4> HIDE DEF g
      <4>1. g.data \in Data \X Data /\ g = Message(g.status, g.data)
        BY <2>2, <2>5
      <4> QED
        BY <4>1
    <3> HIDE DEF g
    <3>6. m = g \/ (x /\ m = None)
      BY <3>2, <3>5
    <3>7. Arrives(D, p, q, m, l \/ x)
      <4>1. g.status \notin {0, MClock} /\ None.status = 0 /\ p.k # 0
        BY <1>5, <2>5, StatusesDiffer
      <4> QED
        BY <3>3, <3>6, <4>1 DEF Arrives, g
    <3>8. AtPlace(D, q, j, t, l \/ x)
      <4>1. q.k = 0 \/ (q.k = 1 /\ g.status = ControlChg /\ D[q.j + 1].status = ControlChg)
        BY <3>3, <3>4 DEF Running
      <4> QED
        BY <3>2, <4>1 DEF AtPlace
    <3> QED
      BY <3>7, <3>8
  <2>6. CASE g.status = ProgramChg
    <3>1. i.parse = "DataU" /\ i.status = ProgramChg /\ p.k = 1
      <4>1. Len(g.data) = 1
        BY <2>2, <2>6
      <4>2. i.parse = "DataU" /\ i.status = ProgramChg
        BY <2>1, <2>6, StatusesDiffer
      <4>3. p.k \in 1..Len(g.data)
        BY <1>5
      <4> HIDE DEF g
      <4> QED
        BY <4>1, <4>2, <4>3
    <3>2. m = Message(ProgramChg, <<g.data[1]>>) \/ (x /\ m = None)
      BY <1>5, <3>1 DEF Effect
    <3>3. q.j = p.j + 1 /\ (q.k = 0 \/ Running(D, q))
      BY <1>5, <2>2, <2>6, <3>1
    <3>4. D[q.j] = g /\ g = Message(ProgramChg, <<g.data[1]>>)
      BY <2>2, <2>3, <2>6, <3>3
    <3>5. q.k = 0
      BY <2>6, <3>3, <3>4, StatusesDiffer DEF Running
    <3> HIDE DEF g
    <3>6. m = g \/ (x /\ m = None)
      BY <3>2, <3>4
    <3>7. Arrives(D, p, q, m, l \/ x)
      <4>1. g.status \notin {0, MClock} /\ None.status = 0 /\ p.k # 0
        BY <1>5, <2>6, StatusesDiffer
      <4> QED
        BY <3>3, <3>6, <4>1 DEF Arrives, g
    <3> QED
      BY <3>5, <3>7 DEF AtPlace
  <2>7. CASE g.status = SysEx
    <3>1. q = At(p.j, p.k + 1)
      BY <1>5, <2>7
    <3>2. q.j = p.j /\ q.k = p.k + 1 /\ D[q.j + 1] = g /\ q.k - 1 = p.k
      BY <1>2, <2>3, <3>1
    <3>3. m = None
      BY <1>5, <2>1, <2>7, StatusesDiffer DEF Effect
    <3>4. Arrives(D, p, q, m, l \/ x)
      BY <3>2, <3>3, StatusesDiffer DEF Arrives
    <3>5. \/ (l \/ x) /\ j.parse = "Status"
          \/ j.parse = "SysExNext" /\ t = Append(SubSeq(g.data, 1, p.k - 1), g.data[p.k])
      <4>1. CASE i.parse = "SysExNext" /\ s = SubSeq(g.data, 1, p.k - 1)
        BY <1>5, <4>1 DEF Effect
      <4>2. CASE l /\ i.parse = "Status"
        BY <1>5, <4>2 DEF Effect
      <4> QED
        BY <2>1, <2>7, <4>1, <4>2, StatusesDiffer
    <3>6. Append(SubSeq(g.data, 1, p.k - 1), g.data[p.k]) = SubSeq(g.data, 1, p.k)
      <4> DEFINE e == p.k - 1
      <4>1. e \in Nat /\ e < Len(g.data) /\ e + 1 = p.k /\ g.data \in Seq(Data)
        <5>1. p.k \in 1..Len(g.data) /\ Len(g.data) \in Nat /\ g.data \in Seq(Data)
          BY <1>5, <2>2
        <5> HIDE DEF g
        <5> QED
          BY <5>1
      <4> HIDE DEF e, g
      <4>2. Append(SubSeq(g.data, 1, e), g.data[e + 1]) = SubSeq(g.data, 1, e + 1)
        BY <4>1, Prefix
      <4> QED
        BY <4>1, <4>2 DEF e
    <3> HIDE DEF g
    <3>7. AtPlace(D, q, j, t, l \/ x)
      BY <2>7, <3>2, <3>5, <3>6 DEF AtPlace
    <3> QED
      BY <3>4, <3>7
  <2>8. g.status \in {NoteOn, ControlChg} \/ g.status = ProgramChg \/ g.status = SysEx
    BY <2>1
  <2> QED
    BY <2>4, <2>5, <2>6, <2>7, <2>8
<1>6. CASE /\ p.k # 0 /\ g \in Lined /\ g.status = SysEx /\ c = EndSysX
           /\ p.k = Len(g.data) + 1 /\ q.j = p.j + 1 /\ q.k = 0
  <2>1. \/ i.parse = "SysExNext" /\ s = SubSeq(g.data, 1, p.k - 1)
        \/ l /\ i.parse = "Status"
    BY <1>6, StatusesDiffer DEF AtPlace
  <2>2. AtPlace(D, q, j, t, l \/ x)
    BY <1>6 DEF AtPlace
  <2>3. CASE i.parse = "SysExNext" /\ s = SubSeq(g.data, 1, p.k - 1)
    <3>1. m = Message(SysEx, s)
      BY <1>6, <2>3 DEF Effect
    <3>2. g.data \in Seq(Data) /\ g = Message(SysEx, g.data) /\ p.k - 1 = Len(g.data)
      <4>1. g \in Lined /\ g.status = SysEx /\ p.k = Len(g.data) + 1
        BY <1>6
      <4> HIDE DEF g
      <4>2. g.data \in Seq(Data) /\ g = Message(SysEx, g.data)
        BY <4>1, LinedIs, DataIs, StatusesDiffer
      <4>3. Len(g.data) \in Nat
        BY <4>2
      <4> QED
        BY <1>2, <4>1, <4>2, <4>3
    <3>3. s = g.data
      BY <2>3, <3>2, SubSeqFull
    <3>4. m = g /\ g.status \notin {0, MClock}
      BY <1>6, <3>1, <3>2, <3>3, StatusesDiffer
    <3> QED
      BY <1>6, <2>2, <3>4 DEF Arrives
  <2>4. CASE l /\ i.parse = "Status"
    <3>1. m = None
      BY <1>6, <2>4 DEF Effect
    <3> QED
      BY <2>2, <2>4, <3>1, StatusesDiffer DEF Arrives
  <2> QED
    BY <2>1, <2>3, <2>4
<1> QED
  BY <1>1, <1>3, <1>4, <1>5, <1>6 DEF ByteIs

\* A place within the message after n others.
LEMMA PlaceIn ==
  ASSUME NEW F \in Seq(Lined), NEW n \in Nat, n < Len(F)
  PROVE  /\ F[n + 1] \in Lined
         /\ \A k \in Nat : k < LenOf(F[n + 1]) => At(n, k) \in Places(F)
         /\ At(n + 1, 0) \in Places(F)
         /\ \A k \in Nat : n + 1 < Len(F) /\ k < LenOf(F[(n + 1) + 1]) => At(n + 1, k) \in Places(F)
<1> DEFINE N == Len(F)
<1>1. N \in Nat /\ \A j \in 1..N : F[j] \in Lined
  OBVIOUS
<1> HIDE DEF N
<1>2. n < N /\ n + 1 \in 1..N /\ n + 1 \in Nat /\ n + 1 <= N /\ n <= N
  BY <1>1 DEF N
<1>3. \A j \in Nat, k \in Nat : At(j, k) \in [j : Nat, k : Nat]
  BY DEF At
<1>4. \A j \in Nat, k \in Nat : j <= N /\ (k # 0 => j < N /\ k < LenOf(F[j + 1])) => At(j, k) \in Places(F)
  <2> TAKE j \in Nat, k \in Nat
  <2> HAVE j <= N /\ (k # 0 => j < N /\ k < LenOf(F[j + 1]))
  <2> DEFINE p == At(j, k)
  <2>1. p \in [j : Nat, k : Nat] /\ p.j = j /\ p.k = k
    BY <1>3, AtIs
  <2> HIDE DEF p
  <2>2. p.j <= Len(F) /\ (p.k # 0 => p.j < Len(F) /\ p.k < LenOf(F[p.j + 1]))
    BY <2>1 DEF N
  <2>3. p \in Places(F)
    BY <2>1, <2>2 DEF Places
  <2> QED
    BY <2>3 DEF p
<1>5. ASSUME NEW k \in Nat, k < LenOf(F[n + 1]) PROVE At(n, k) \in Places(F)
  BY <1>2, <1>4, <1>5
<1>6. At(n + 1, 0) \in Places(F)
  BY <1>2, <1>4
<1>7. ASSUME NEW k \in Nat, n + 1 < N, k < LenOf(F[(n + 1) + 1]) PROVE At(n + 1, k) \in Places(F)
  BY <1>2, <1>4, <1>7
<1> QED
  BY <1>1, <1>2, <1>5, <1>6, <1>7 DEF N

\* The bytes of the data of a message, and what they lead to.
LEMMA PairLeads ==
  ASSUME NEW F \in Seq(Lined), NEW n \in Nat, n < Len(F), NEW a \in Data, NEW b \in Data,
         F[n + 1].status \in {NoteOn, ControlChg}, F[n + 1].data = <<a, b>>, NEW l,
         NEW z \in Places(F), z.j = n + 1, z.k = 0 \/ (z.k = 1 /\ Running(F, z))
  PROVE  Leads(F, <<a, b>>, At(n, 1), z, l)
<1> DEFINE m == F[n + 1]
<1>1. m \in Lined /\ \A k \in Nat : k < LenOf(m) => At(n, k) \in Places(F)
  BY PlaceIn
<1>2. m.status # SysEx /\ m.status \in {NoteOn, ControlChg} /\ m.data = <<a, b>>
  BY StatusesDiffer
<1> HIDE DEF m
<1>3. LenOf(m) = 3 /\ Len(m.data) = 2 /\ m.data[1] = a /\ m.data[2] = b
  BY <1>2 DEF LenOf
<1>4. At(n, 1) \in Places(F) /\ At(n, 2) \in Places(F)
  BY <1>1, <1>3
<1>5. ByteOf(m, 2) = a /\ ByteOf(m, 3) = b
  BY <1>3 DEF ByteOf
<1>6. At(n, 1).j = n /\ At(n, 1).k = 1 /\ At(n, 2).j = n /\ At(n, 2).k = 2
  BY AtIs
<1>7. Inside(F, At(n, 1), a, At(n, 2))
  BY <1>3, <1>5, <1>6 DEF Inside, m
<1>8. Leaves(F, At(n, 2), b, z)
  BY <1>3, <1>5, <1>6 DEF Leaves, m
<1>9. Leads(F, <<a>>, At(n, 1), At(n, 2), l) /\ Leads(F, <<b>>, At(n, 2), z, l)
  BY <1>4, <1>7, <1>8, LeadsOne DEF Moves
<1>10. <<a>> \in Seq(Data) /\ <<b>> \in Seq(Data) /\ <<a>> \o <<b>> = <<a, b>>
  <2>1. <<a>> \in Seq(Data) /\ <<b>> \in Seq(Data)
    OBVIOUS
  <2>2. <<a>> \o <<b>> = <<a, b>>
    <3> DEFINE v == <<a>>
               w == <<b>>
               y == <<a, b>>
    <3>1. /\ v \in Seq(Data) /\ w \in Seq(Data) /\ y \in Seq(Data)
          /\ Len(v) = 1 /\ Len(w) = 1 /\ Len(y) = 2
          /\ v[1] = a /\ w[1] = b /\ y[1] = a /\ y[2] = b
      OBVIOUS
    <3> HIDE DEF v, w, y
    <3>5. /\ v \o w \in Seq(Data) /\ Len(v \o w) = Len(v) + Len(w)
          /\ \A i \in 1..Len(v) + Len(w) :
               (v \o w)[i] = IF i <= Len(v) THEN v[i] ELSE w[i - Len(v)]
      BY <3>1, ConcatProperties
    <3>2. /\ v \o w \in Seq(Data) /\ Len(v \o w) = 2
          /\ \A i \in 1..2 : (v \o w)[i] = IF i <= 1 THEN v[i] ELSE w[i - 1]
      BY <3>1, <3>5
    <3>3. \A i \in 1..2 : (v \o w)[i] = y[i]
      BY <3>1, <3>2
    <3>4. v \o w = y
      BY <3>1, <3>2, <3>3, SeqEqual
    <3> QED
      BY <3>4 DEF v, w, y
  <2> QED
    BY <2>1, <2>2
<1> QED
  BY <1>9, <1>10, LeadsJoin

LEMMA OneLeads ==
  ASSUME NEW F \in Seq(Lined), NEW n \in Nat, n < Len(F), NEW a \in Data,
         F[n + 1].status = ProgramChg, F[n + 1].data = <<a>>, NEW l
  PROVE  Leads(F, <<a>>, At(n, 1), At(n + 1, 0), l)
<1> DEFINE m == F[n + 1]
<1>1. /\ m \in Lined /\ \A k \in Nat : k < LenOf(m) => At(n, k) \in Places(F)
      /\ At(n + 1, 0) \in Places(F)
  BY PlaceIn
<1>2. m.status # SysEx /\ m.data = <<a>>
  BY StatusesDiffer
<1> HIDE DEF m
<1>3. LenOf(m) = 2 /\ Len(m.data) = 1 /\ m.data[1] = a
  BY <1>2 DEF LenOf
<1>4. At(n, 1) \in Places(F)
  BY <1>1, <1>3
<1>5. ByteOf(m, 2) = a
  BY <1>3 DEF ByteOf
<1>6. At(n, 1).j = n /\ At(n, 1).k = 1 /\ At(n + 1, 0).j = n + 1 /\ At(n + 1, 0).k = 0
  BY AtIs
<1>7. Leaves(F, At(n, 1), a, At(n + 1, 0))
  BY <1>3, <1>5, <1>6 DEF Leaves, m
<1> QED
  BY <1>1, <1>4, <1>7, LeadsOne DEF Moves

\* The status of a message that becomes due leads into it.
LEMMA StatusLeads ==
  ASSUME NEW D \in Seq(Lined), NEW E \in Seq(Lined), E # <<>>, NEW q \in Places(D), NEW l,
         l \/ q = At(Len(D), 0)
  PROVE  /\ Leads(D \o E, <<E[1].status>>, q, At(Len(D), 1), l)
         /\ (D \o E)[Len(D) + 1] = E[1] /\ Len(D) < Len(D \o E) /\ Len(D) \in Nat
<1> DEFINE F == D \o E
           n == Len(D)
           m == E[1]
<1>1. /\ F \in Seq(Lined) /\ Len(F) = n + Len(E) /\ q \in Places(F)
      /\ \A j \in 1..Len(E) : F[n + j] = E[j]
  BY PlacesMore
<1>2. n \in Nat /\ Len(E) \in Nat /\ Len(E) # 0 /\ q.j <= n /\ (q.k # 0 => q.j < n)
  BY DEF Places
<1> HIDE DEF F, n
<1>3. n < Len(F) /\ F[n + 1] = m
  <2>1. 1 \in 1..Len(E)
    BY <1>2
  <2> QED
    BY <1>1, <1>2, <2>1
<1>4. At(n, 1) \in Places(F) /\ m \in Lined
  <2>1. m \in Lined /\ \A k \in Nat : k < LenOf(m) => At(n, k) \in Places(F)
    BY <1>1, <1>2, <1>3, PlaceIn
  <2> HIDE DEF m
  <2>2. 1 < LenOf(m)
    <3>1. LenOf(m) \in {2, 3} \/ (LenOf(m) = Len(m.data) + 2 /\ Len(m.data) \in Nat)
      BY <2>1, LinedIs
    <3> QED
      BY <3>1
  <2> QED
    BY <2>1, <2>2
<1> HIDE DEF m
<1>5. At(n, 1).j = n /\ At(n, 1).k = 1 /\ At(n, 0).j = n /\ At(n, 0).k = 0
  BY AtIs
<1>6. q.j \in Nat /\ q.k \in Nat
  BY AtIs
<1>7. Enters(F, q, m.status, At(n, 1), l)
  <2>1. l \/ (q.k = 0 /\ q.j = n)
    BY <1>5 DEF n
  <2> QED
    BY <1>2, <1>3, <1>5, <1>6, <2>1 DEF Enters
<1>8. Leads(F, <<m.status>>, q, At(n, 1), l)
  BY <1>1, <1>4, <1>7, LeadsOne DEF Moves
<1> QED
  BY <1>2, <1>3, <1>8 DEF F, n, m

\* The bytes of a system exclusive from place k on.
LEMMA SexLeads ==
  ASSUME NEW F \in Seq(Lined), NEW n \in Nat, n < Len(F), F[n + 1].status = SysEx,
         NEW k \in Nat, k # 0, k <= Len(F[n + 1].data) + 1,
         NEW b \in Seq(Data), NEW c \in Seq(Data), NEW l,
         SubSeq(F[n + 1].data, k, Len(F[n + 1].data)) = b \o c
  PROVE  /\ Leads(F, b, At(n, k), At(n, k + Len(b)), l)
         /\ k + Len(b) <= Len(F[n + 1].data) + 1 /\ k + Len(b) \in Nat /\ k + Len(b) # 0
         /\ c = SubSeq(F[n + 1].data, k + Len(b), Len(F[n + 1].data))
         /\ c = <<>> => Leads(F, <<EndSysX>>, At(n, k + Len(b)), At(n + 1, 0), l)
<1> DEFINE m == F[n + 1]
           d == m.data
           L == Len(d)
           B == Len(b)
           C == Len(c)
<1>1. /\ m \in Lined /\ \A i \in Nat : i < LenOf(m) => At(n, i) \in Places(F)
      /\ At(n + 1, 0) \in Places(F)
  BY PlaceIn
<1>2. m.status = SysEx /\ k <= L + 1 /\ SubSeq(d, k, L) = b \o c
  OBVIOUS
<1> HIDE DEF m
<1>3. d \in Seq(Data) /\ LenOf(m) = L + 2 /\ L \in Nat
  BY <1>1, <1>2, DataIs DEF LenOf
<1>4. /\ B \in Nat /\ C \in Nat /\ Len(b \o c) = B + C
      /\ \A i \in 1..B + C : (b \o c)[i] = IF i <= B THEN b[i] ELSE c[i - B]
  BY ConcatProperties
<1> HIDE DEF d, L
<1>5. /\ L - k + 1 = B + C
      /\ \A i \in 1..B + C : (b \o c)[i] = d[k + i - 1]
  <2>1. CASE k <= L
    <3>1. \A i \in k..L : d[i] \in Data
      BY <1>3 DEF L
    <3>2. /\ Len(SubSeq(d, k, L)) = L - k + 1
          /\ \A i \in 1..L - k + 1 : SubSeq(d, k, L)[i] = d[k + i - 1]
      BY <1>3, <2>1, <3>1, SubSeqProperties
    <3>3. L - k + 1 = B + C
      BY <1>2, <1>4, <3>2
    <3> QED
      BY <1>2, <3>2, <3>3
  <2>2. CASE ~ k <= L
    <3>1. L - k + 1 = 0 /\ k > L
      BY <1>2, <1>3, <2>2
    <3>2. SubSeq(d, k, L) = <<>>
      BY <1>3, <3>1, SubSeqEmpty
    <3>3. Len(b \o c) = 0
      BY <1>2, <3>2
    <3>4. B + C = 0 /\ 1..B + C = {}
      BY <1>4, <3>3
    <3> QED
      BY <3>1, <3>4
  <2> QED
    BY <2>1, <2>2
<1> HIDE DEF B, C
<1>6. /\ k + B \in Nat /\ k + B # 0 /\ k + B <= L + 1
      /\ \A i \in 0..B : k + i \in Nat /\ k + i < L + 2
  BY <1>2, <1>3, <1>4, <1>5
<1>14. C = L - (k + B) + 1 /\ (C = 0 => k + B = L + 1)
  <2>1. L \in Nat /\ B \in Nat /\ C \in Nat /\ L - k + 1 = B + C
    BY <1>3, <1>4, <1>5
  <2>2. C = L - (k + B) + 1
    BY <2>1
  <2>3. C = 0 => k + B = L + 1
    BY <2>1
  <2> QED
    BY <2>2, <2>3
<1>7. c = SubSeq(d, k + B, L)
  <2>1. \A i \in 1..C : c[i] = d[(k + B) + i - 1]
    <3> TAKE i \in 1..C
    <3>1. B + i \in 1..B + C /\ ~ B + i <= B /\ (B + i) - B = i /\ k + (B + i) - 1 = (k + B) + i - 1
      BY <1>4
    <3> QED
      BY <1>4, <1>5, <3>1
  <2>2. CASE k + B <= L
    <3>1. \A i \in k + B..L : d[i] \in Data
      BY <1>3, <1>6 DEF L
    <3>2. /\ SubSeq(d, k + B, L) \in Seq(Data) /\ Len(SubSeq(d, k + B, L)) = L - (k + B) + 1
          /\ \A i \in 1..L - (k + B) + 1 : SubSeq(d, k + B, L)[i] = d[(k + B) + i - 1]
      BY <1>3, <1>6, <2>2, <3>1, SubSeqProperties
    <3>3. L - (k + B) + 1 = C
      BY <1>14
    <3> QED
      BY <2>1, <3>2, <3>3, SeqEqual DEF C
  <2>3. CASE ~ k + B <= L
    <3>1. SubSeq(d, k + B, L) = <<>>
      BY <1>3, <1>6, <2>3, SubSeqEmpty
    <3>2. C = 0
      BY <1>3, <1>4, <1>5, <1>6, <2>3
    <3>3. c = <<>>
      BY <3>2 DEF C
    <3> QED
      BY <3>1, <3>3
  <2> QED
    BY <2>2, <2>3
<1> DEFINE u == [i \in 0..B |-> At(n, k + i)]
<1>8. u \in [0..B -> Places(F)] /\ \A i \in 0..B : u[i] = At(n, k + i)
  BY <1>1, <1>3, <1>6
<1> HIDE DEF u
<1>9. ASSUME NEW i \in 1..B PROVE Inside(F, u[i - 1], b[i], u[i])
  <2>1. i \in 0..B /\ i - 1 \in 0..B /\ i \in 1..B + C /\ i <= B
    BY <1>4
  <2> DEFINE e == k + (i - 1)
  <2>2. e + 1 = k + i /\ e \in Nat /\ e # 0 /\ e + 1 # 1 /\ (e + 1) - 1 = k + i - 1
        /\ e + 1 # L + 2 /\ e + 1 < L + 2
    BY <1>6, <2>1
  <2>3. u[i - 1] = At(n, e) /\ u[i] = At(n, e + 1)
    BY <1>8, <2>1, <2>2
  <2> HIDE DEF e
  <2>4. b[i] = d[k + i - 1]
    BY <1>4, <1>5, <2>1
  <2>5. ByteOf(m, e + 1) = d[(e + 1) - 1]
    BY <2>2 DEF ByteOf, d, L
  <2>6. b[i] = ByteOf(m, e + 1)
    BY <2>2, <2>4, <2>5
  <2>7. At(n, e).j = n /\ At(n, e).k = e
    BY AtIs
  <2> QED
    BY <1>3, <2>2, <2>3, <2>6, <2>7 DEF Inside, m
<1>10. Route(F, b, u, l)
  BY <1>8, <1>9 DEF Route, Moves, B
<1>11. u[0] = At(n, k) /\ u[B] = At(n, k + B)
  <2>1. 0 \in 0..B /\ B \in 0..B /\ k + 0 = k
    BY <1>4
  <2> QED
    BY <1>8, <2>1
<1>12. Leads(F, b, At(n, k), At(n, k + B), l)
  BY <1>10, <1>11 DEF Leads, B
<1>13. ASSUME c = <<>> PROVE Leads(F, <<EndSysX>>, At(n, k + B), At(n + 1, 0), l)
  <2>1. C = 0
    BY <1>13 DEF C
  <2>2. k + B = L + 1 /\ (k + B) + 1 = L + 2 /\ (k + B) + 1 # 1 /\ k + B < LenOf(m)
    BY <1>3, <1>6, <1>14, <2>1
  <2>3. ByteOf(m, (k + B) + 1) = EndSysX
    BY <2>2 DEF ByteOf, d, L
  <2>4. At(n, k + B).j = n /\ At(n, k + B).k = k + B /\ At(n + 1, 0).j = n + 1 /\ At(n + 1, 0).k = 0
    BY AtIs
  <2>5. Leaves(F, At(n, k + B), EndSysX, At(n + 1, 0))
    BY <1>3, <1>6, <2>2, <2>3, <2>4 DEF Leaves, m
  <2>6. At(n, k + B) \in Places(F)
    BY <1>1, <1>6, <2>2
  <2> QED
    BY <1>1, <2>5, <2>6, LeadsOne DEF Moves
<1> QED
  BY <1>6, <1>7, <1>12, <1>13 DEF m, d, L, B

LEMMA SmallIs ==
  ASSUME NEW m \in SmallMessages
  PROVE  \/ m \in {Message(s, d) : s \in {NoteOn, ControlChg, Note}, d \in Data \X Data}
         \/ m \in {Message(ProgramChg, <<v>>) : v \in Data}
         \/ m = Message(MClock, <<>>)
         \/ m \in {Message(Ctrl14b, d) : d \in Data \X Data \X Data \X Data}
BY DEF SmallMessages

\* The messages that an event of the sender stands for.
LEMMA MessagesAre ==
  ASSUME NEW x \in SmallMessages, x.status # MClock
  PROVE  LET E == Messages(x)
         IN \/ \E s \in {NoteOn, ControlChg}, a, b \in Data :
                 E = <<Message(s, <<a, b>>)>> /\ x.data = <<a, b>>
            \/ \E a \in Data : E = <<Message(ProgramChg, <<a>>)>> /\ x.data = <<a>>
            \/ \E a, b, c, d \in Data :
                 /\ E = <<Message(ControlChg, <<a, b>>), Message(ControlChg, <<c, d>>)>>
                 /\ x.data = <<a, b, c, d>>
<1> DEFINE A == {Message(s, d) : s \in {NoteOn, ControlChg, Note}, d \in Data \X Data}
           B == {Message(ProgramChg, <<v>>) : v \in Data}
           C == {Message(Ctrl14b, d) : d \in Data \X Data \X Data \X Data}
<1>0. x \in A \/ x \in B \/ x \in C
  <2>1. Message(MClock, <<>>).status = MClock
    BY StatusesDiffer
  <2>2. x \in A \/ x \in B \/ x = Message(MClock, <<>>) \/ x \in C
    BY SmallIs
  <2> QED
    BY <2>1, <2>2
<1>1. \A s, d : Message(s, d).status = s /\ Message(s, d).data = d
  BY StatusesDiffer
<1>2. /\ Note # NoteOn /\ Note # ControlChg /\ Note # ProgramChg /\ Note # Ctrl14b
      /\ Ctrl14b # NoteOn /\ Ctrl14b # ControlChg /\ Ctrl14b # ProgramChg
  BY DEF NoteOn, ControlChg, Note, ProgramChg, Ctrl14b
<1>5. CASE x \in A
  <2>1. PICK s \in {NoteOn, ControlChg, Note}, d \in Data \X Data : x = Message(s, d)
    BY <1>5
  <2>2. PICK a \in Data, b \in Data : d = <<a, b>>
    OBVIOUS
  <2>3. x.status = s /\ x.data = <<a, b>>
    BY <1>1, <2>1, <2>2
  <2>4. CASE s = Note
    <3>1. Messages(x) = <<Message(NoteOn, <<a, b>>)>>
      BY <2>3, <2>4 DEF Messages
    <3> QED
      BY <2>3, <3>1
  <2>5. CASE s # Note
    <3>1. Messages(x) = <<Message(s, <<a, b>>)>>
      BY <1>2, <2>1, <2>2, <2>3, <2>5 DEF Messages
    <3> QED
      BY <2>3, <2>5, <3>1
  <2> QED
    BY <2>4, <2>5
<1>6. CASE x \in B
  <2>1. PICK v \in Data : x = Message(ProgramChg, <<v>>)
    BY <1>6
  <2>2. x.status = ProgramChg /\ x.data = <<v>>
    BY <1>1, <2>1
  <2>3. Messages(x) = <<Message(ProgramChg, <<v>>)>>
    BY <1>2, <2>1, <2>2 DEF Messages
  <2> QED
    BY <2>2, <2>3
<1>7. CASE x \in C
  <2>1. PICK e \in Data \X Data \X Data \X Data : x = Message(Ctrl14b, e)
    BY <1>7
  <2>2. PICK a \in Data, b \in Data, c \in Data, d \in Data : e = <<a, b, c, d>>
    OBVIOUS
  <2>3. x.status = Ctrl14b /\ x.data = e
    BY <1>1, <2>1
  <2>4. SubSeq(e, 1, 2) = <<a, b>> /\ SubSeq(e, 3, 4) = <<c, d>>
    <3> DEFINE v == <<a, b>>
               w == <<c, d>>
    <3>1. /\ v \in Seq(Data) /\ w \in Seq(Data) /\ e \in Seq(Data)
          /\ Len(v) = 2 /\ Len(w) = 2 /\ Len(e) = 4
          /\ v[1] = a /\ v[2] = b /\ w[1] = c /\ w[2] = d
          /\ e[1] = a /\ e[2] = b /\ e[3] = c /\ e[4] = d
      BY <2>2
    <3> HIDE DEF v, w
    <3>2. /\ SubSeq(e, 1, 2) \in Seq(Data) /\ Len(SubSeq(e, 1, 2)) = 2
          /\ SubSeq(e, 1, 2)[1] = a /\ SubSeq(e, 1, 2)[2] = b
      BY <3>1
    <3>3. /\ SubSeq(e, 3, 4) \in Seq(Data) /\ Len(SubSeq(e, 3, 4)) = 2
          /\ SubSeq(e, 3, 4)[1] = c /\ SubSeq(e, 3, 4)[2] = d
      BY <3>1
    <3> DEFINE y == SubSeq(e, 1, 2)
               z == SubSeq(e, 3, 4)
    <3> HIDE DEF y, z
    <3>4. y = v
      <4>1. \A i \in 1..2 : y[i] = v[i]
        BY <3>1, <3>2 DEF y
      <4> QED
        BY <3>1, <3>2, <4>1, SeqEqual DEF y
    <3>5. z = w
      <4>1. \A i \in 1..2 : z[i] = w[i]
        BY <3>1, <3>3 DEF z
      <4> QED
        BY <3>1, <3>3, <4>1, SeqEqual DEF z
    <3> QED
      BY <3>4, <3>5 DEF v, w, y, z
  <2>5. Messages(x) = <<Message(ControlChg, <<a, b>>), Message(ControlChg, <<c, d>>)>>
    BY <1>2, <2>3, <2>4 DEF Messages
  <2> QED
    BY <2>2, <2>3, <2>5
<1> HIDE DEF A, B, C
<1> QED
  BY <1>0, <1>5, <1>6, <1>7

LEMMA LinedAre ==
  /\ \A s \in {NoteOn, ControlChg}, a, b \in Data : Message(s, <<a, b>>) \in Lined
  /\ \A a \in Data : Message(ProgramChg, <<a>>) \in Lined
  /\ \A d \in Seq(Data) : Message(SysEx, d) \in Lined
<1>1. ASSUME NEW s \in {NoteOn, ControlChg}, NEW a \in Data, NEW b \in Data
      PROVE  Message(s, <<a, b>>) \in Lined
  <2> DEFINE d == <<a, b>>
  <2>1. d \in Data \X Data
    OBVIOUS
  <2> HIDE DEF d
  <2>2. Message(s, d) \in Lined
    BY <2>1 DEF Lined
  <2> QED
    BY <2>2 DEF d
<1>2. ASSUME NEW a \in Data PROVE Message(ProgramChg, <<a>>) \in Lined
  <2>1. Message(ProgramChg, <<a>>) \in {Message(ProgramChg, <<v>>) : v \in Data}
    OBVIOUS
  <2> QED
    BY <2>1 DEF Lined
<1>3. \A d \in Seq(Data) : Message(SysEx, d) \in Lined
  BY DEF Lined
<1> QED
  BY <1>1, <1>2, <1>3

\* What PutSmall puts on the line leads from the end of what was due to the end.
PutLeads(D, E, d, l) ==
  \A q \in Places(D) : l \/ q = At(Len(D), 0) => Leads(D \o E, d, q, At(Len(D \o E), 0), l)

LEMMA SmallLeads ==
  ASSUME NEW x \in SmallMessages, x.status # MClock, NEW D \in Seq(Lined), NEW l
  PROVE  /\ Messages(x) \in Seq(Lined)
         /\ PutLeads(D, Messages(x), <<Head(Messages(x)).status>> \o x.data, l)
<1> DEFINE E == Messages(x)
           n == Len(D)
<1>1. \/ \E s \in {NoteOn, ControlChg}, a, b \in Data :
           E = <<Message(s, <<a, b>>)>> /\ x.data = <<a, b>>
      \/ \E a \in Data : E = <<Message(ProgramChg, <<a>>)>> /\ x.data = <<a>>
      \/ \E a, b, c, d \in Data :
           /\ E = <<Message(ControlChg, <<a, b>>), Message(ControlChg, <<c, d>>)>>
           /\ x.data = <<a, b, c, d>>
  BY MessagesAre
<1>2. Data \subseteq Byte /\ Openers \subseteq Byte
  BY Distinct
<1> HIDE DEF E
<1> SUFFICES /\ E \in Seq(Lined)
             /\ \A q \in Places(D) :
                  l \/ q = At(n, 0) =>
                     Leads(D \o E, <<E[1].status>> \o x.data, q, At(Len(D \o E), 0), l)
  <2>1. E # <<>> => Head(E) = E[1]
    OBVIOUS
  <2>2. E # <<>>
    <3>1. (\A u : <<u>> # <<>>) /\ (\A u, v : <<u, v>> # <<>>)
      OBVIOUS
    <3> QED
      BY <1>1, <3>1, Zenon
  <2> QED
    BY <2>1, <2>2 DEF PutLeads, E
<1>3. n \in Nat
  OBVIOUS
<1>4. ASSUME NEW s \in {NoteOn, ControlChg}, NEW a \in Data, NEW b \in Data,
             E = <<Message(s, <<a, b>>)>>, x.data = <<a, b>>
      PROVE  /\ E \in Seq(Lined)
             /\ \A q \in Places(D) :
                  l \/ q = At(n, 0) =>
                     Leads(D \o E, <<E[1].status>> \o x.data, q, At(Len(D \o E), 0), l)
  <2> DEFINE m == Message(s, <<a, b>>)
             F == D \o E
  <2>1. m \in Lined /\ m.status = s /\ m.data = <<a, b>> /\ s \in Openers
    BY LinedAre, StatusesDiffer DEF Openers
  <2> HIDE DEF m
  <2>2. E \in Seq(Lined) /\ Len(E) = 1 /\ E[1] = m /\ E # <<>>
    BY <1>4, <2>1 DEF m
  <2>3. F \in Seq(Lined) /\ Len(F) = n + 1
    BY <2>2, PlacesMore
  <2> SUFFICES ASSUME NEW q \in Places(D), l \/ q = At(n, 0)
               PROVE  Leads(F, <<E[1].status>> \o x.data, q, At(Len(F), 0), l)
    BY <2>2
  <2>4. /\ Leads(F, <<s>>, q, At(n, 1), l) /\ F[n + 1] = m /\ n < Len(F)
    BY <2>1, <2>2, StatusLeads
  <2> HIDE DEF n, F
  <2>5. At(n + 1, 0) \in Places(F) /\ At(n + 1, 0).j = n + 1 /\ At(n + 1, 0).k = 0
    BY <1>3, <2>3, <2>4, PlaceIn, AtIs
  <2>6. Leads(F, <<a, b>>, At(n, 1), At(n + 1, 0), l)
    BY <1>3, <2>1, <2>3, <2>4, <2>5, PairLeads
  <2>7. <<s>> \in Seq(Byte) /\ <<a, b>> \in Seq(Byte)
    <3>1. s \in Byte /\ a \in Byte /\ b \in Byte
      BY <1>2, <2>1
    <3> QED
      BY <3>1
  <2>8. Leads(F, <<s>> \o <<a, b>>, q, At(n + 1, 0), l)
    BY <2>4, <2>6, <2>7, LeadsJoin
  <2> QED
    BY <1>4, <2>1, <2>2, <2>3, <2>8
<1>5. ASSUME NEW a \in Data, E = <<Message(ProgramChg, <<a>>)>>, x.data = <<a>>
      PROVE  /\ E \in Seq(Lined)
             /\ \A q \in Places(D) :
                  l \/ q = At(n, 0) =>
                     Leads(D \o E, <<E[1].status>> \o x.data, q, At(Len(D \o E), 0), l)
  <2> DEFINE m == Message(ProgramChg, <<a>>)
             F == D \o E
  <2>1. m \in Lined /\ m.status = ProgramChg /\ m.data = <<a>> /\ ProgramChg \in Openers
    BY LinedAre, StatusesDiffer DEF Openers
  <2> HIDE DEF m
  <2>2. E \in Seq(Lined) /\ Len(E) = 1 /\ E[1] = m /\ E # <<>>
    BY <1>5, <2>1 DEF m
  <2>3. F \in Seq(Lined) /\ Len(F) = n + 1
    BY <2>2, PlacesMore
  <2> SUFFICES ASSUME NEW q \in Places(D), l \/ q = At(n, 0)
               PROVE  Leads(F, <<E[1].status>> \o x.data, q, At(Len(F), 0), l)
    BY <2>2
  <2>4. /\ Leads(F, <<ProgramChg>>, q, At(n, 1), l) /\ F[n + 1] = m /\ n < Len(F)
    BY <2>1, <2>2, StatusLeads
  <2> HIDE DEF n, F
  <2>6. Leads(F, <<a>>, At(n, 1), At(n + 1, 0), l)
    BY <1>3, <2>1, <2>3, <2>4, OneLeads
  <2>7. <<ProgramChg>> \in Seq(Byte) /\ <<a>> \in Seq(Byte)
    <3>1. ProgramChg \in Byte /\ a \in Byte
      BY <1>2, <2>1
    <3> QED
      BY <3>1
  <2>8. Leads(F, <<ProgramChg>> \o <<a>>, q, At(n + 1, 0), l)
    BY <2>4, <2>6, <2>7, LeadsJoin
  <2> QED
    BY <1>5, <2>1, <2>2, <2>3, <2>8
<1>6. ASSUME NEW a \in Data, NEW b \in Data, NEW c \in Data, NEW d \in Data,
             E = <<Message(ControlChg, <<a, b>>), Message(ControlChg, <<c, d>>)>>,
             x.data = <<a, b, c, d>>
      PROVE  /\ E \in Seq(Lined)
             /\ \A q \in Places(D) :
                  l \/ q = At(n, 0) =>
                     Leads(D \o E, <<E[1].status>> \o x.data, q, At(Len(D \o E), 0), l)
  <2> DEFINE m == Message(ControlChg, <<a, b>>)
             g == Message(ControlChg, <<c, d>>)
             F == D \o E
  <2>1. /\ m \in Lined /\ m.status = ControlChg /\ m.data = <<a, b>> /\ ControlChg \in Openers
        /\ g \in Lined /\ g.status = ControlChg /\ g.data = <<c, d>>
    BY LinedAre, StatusesDiffer DEF Openers
  <2> HIDE DEF m, g
  <2>2. E \in Seq(Lined) /\ Len(E) = 2 /\ E[1] = m /\ E[2] = g /\ E # <<>>
    BY <1>6, <2>1 DEF m, g
  <2>3. /\ F \in Seq(Lined) /\ Len(F) = n + 2
        /\ \A j \in 1..Len(E) : F[n + j] = E[j]
    <3>1. /\ F \in Seq(Lined) /\ Len(F) = n + Len(E)
          /\ \A j \in 1..Len(E) : F[n + j] = E[j]
      BY <2>2, PlacesMore
    <3> HIDE DEF F, n
    <3> QED
      BY <2>2, <3>1
  <2> SUFFICES ASSUME NEW q \in Places(D), l \/ q = At(n, 0)
               PROVE  Leads(F, <<E[1].status>> \o x.data, q, At(Len(F), 0), l)
    BY <2>2
  <2>4. /\ Leads(F, <<ControlChg>>, q, At(n, 1), l) /\ F[n + 1] = m
    BY <2>1, <2>2, StatusLeads
  <2> HIDE DEF n, F
  <2>5. /\ n + 1 < Len(F) /\ n < Len(F) /\ (n + 1) + 1 = Len(F) /\ n + 1 \in Nat
        /\ F[(n + 1) + 1] = g
    <3>1. 2 \in 1..Len(E) /\ n + 2 = (n + 1) + 1
      BY <1>3, <2>2
    <3>2. F[n + 2] = g
      BY <2>2, <2>3, <3>1
    <3> QED
      BY <1>3, <2>3, <3>1, <3>2
  <2> DEFINE z == At(n + 1, 1)
             y == At((n + 1) + 1, 0)
  <2>6. /\ z \in Places(F) /\ z.j = n + 1 /\ z.k = 1 /\ y \in Places(F) /\ y.j = (n + 1) + 1
        /\ y.k = 0
    <3>1. LenOf(g) = 3
      BY <2>1, StatusesDiffer DEF LenOf
    <3>2. 1 < LenOf(F[(n + 1) + 1])
      BY <2>5, <3>1
    <3>3. z \in Places(F)
      BY <1>3, <2>3, <2>5, <3>2, PlaceIn
    <3>4. y \in Places(F)
      BY <2>3, <2>5, PlaceIn
    <3> QED
      BY <3>3, <3>4, AtIs
  <2>7. Running(F, z)
    BY <2>1, <2>4, <2>5, <2>6 DEF Running
  <2> HIDE DEF y
  <2>8. Leads(F, <<a, b>>, At(n, 1), z, l)
    <3> HIDE DEF z
    <3> QED
      BY <1>3, <2>1, <2>3, <2>4, <2>5, <2>6, <2>7, PairLeads
  <2>9. Leads(F, <<c, d>>, z, y, l)
    BY <2>1, <2>3, <2>5, <2>6, PairLeads
  <2> HIDE DEF z
  <2>10. <<ControlChg>> \in Seq(Byte) /\ <<a, b>> \in Seq(Byte) /\ <<c, d>> \in Seq(Byte)
    <3>1. ControlChg \in Byte /\ a \in Byte /\ b \in Byte /\ c \in Byte /\ d \in Byte
      BY <1>2, <2>1
    <3> QED
      BY <3>1
  <2>11. <<a, b>> \o <<c, d>> = <<a, b, c, d>>
    <3> DEFINE v == <<a, b>>
               w == <<c, d>>
               e == <<a, b, c, d>>
    <3>1. /\ v \in Seq(Data) /\ w \in Seq(Data) /\ e \in Seq(Data)
          /\ Len(v) = 2 /\ Len(w) = 2 /\ Len(e) = 4
          /\ v[1] = a /\ v[2] = b /\ w[1] = c /\ w[2] = d
          /\ e[1] = a /\ e[2] = b /\ e[3] = c /\ e[4] = d
      OBVIOUS
    <3> HIDE DEF v, w, e
    <3>2. /\ v \o w \in Seq(Data) /\ Len(v \o w) = Len(v) + Len(w)
          /\ \A i \in 1..Len(v) + Len(w) :
               (v \o w)[i] = IF i <= Len(v) THEN v[i] ELSE w[i - Len(v)]
      BY <3>1, ConcatProperties
    <3>3. /\ v \o w \in Seq(Data) /\ Len(v \o w) = 4
          /\ \A i \in 1..4 : (v \o w)[i] = IF i <= 2 THEN v[i] ELSE w[i - 2]
      BY <3>1, <3>2
    <3>4. \A i \in 1..4 : (v \o w)[i] = e[i]
      BY <3>1, <3>3
    <3>5. v \o w = e
      BY <3>1, <3>3, <3>4, SeqEqual
    <3> QED
      BY <3>5 DEF v, w, e
  <2>12. <<a, b>> \o <<c, d>> \in Seq(Byte)
    BY <2>10, ConcatProperties
  <2>13. Leads(F, <<a, b>> \o <<c, d>>, At(n, 1), y, l)
    BY <2>8, <2>9, <2>10, LeadsJoin
  <2>14. Leads(F, <<ControlChg>> \o (<<a, b>> \o <<c, d>>), q, y, l)
    BY <2>4, <2>10, <2>12, <2>13, LeadsJoin
  <2> QED
    BY <1>6, <2>1, <2>2, <2>5, <2>11, <2>14 DEF y
<1> QED
  BY <1>1, <1>4, <1>5, <1>6

\* The place r that all the bytes lead to: the end, unless the device has failed; or
\* within a system exclusive, t being what its other cells hold.
Remains(D, r, d, y, t, l) ==
  IF y = NULL THEN r = At(Len(D), 0) \/ (l /\ d = <<>>)
  ELSE /\ r.k # 0 /\ r.j + 1 = Len(D) /\ D[Len(D)].status = SysEx
       /\ t = SubSeq(D[Len(D)].data, r.k, Len(D[Len(D)].data))

\* The parser i, whose event holds s, is at a place of D from which the bytes w lead
\* to q: at the first message, unless something was missed.
Ready(D, w, i, s, l, q) ==
  \E p : Leads(D, w, p, q, l) /\ AtPlace(D, p, i, s, l) /\ (~l => p.j = 0)

\* So do the bytes w and d; the cells from y on, which hold t, remain.
Carried(D, w, d, y, i, s, t, l) ==
  \E q, r : /\ Ready(D, w, i, s, l, q) /\ Leads(D, d, q, r, l)
            /\ Remains(D, r, d, y, t, l)

\* Messages may be put behind those of D.
Settled(D, w, i, s, l) ==
  \E q \in Places(D) : Ready(D, w, i, s, l, q) /\ (l \/ q = At(Len(D), 0))

LEMMA IdleSettled ==
  ASSUME NEW D, NEW w, NEW i, NEW s, NEW t, NEW l, Carried(D, w, <<>>, NULL, i, s, t, l)
  PROVE  Settled(D, w, i, s, l)
<1>1. PICK q, r : /\ Ready(D, w, i, s, l, q) /\ Leads(D, <<>>, q, r, l)
                  /\ Remains(D, r, <<>>, NULL, t, l)
  BY DEF Carried
<1>2. q = r /\ q \in Places(D)
  BY <1>1, LeadsEmpty
<1>3. l \/ q = At(Len(D), 0)
  BY <1>1, <1>2 DEF Remains
<1> QED
  BY <1>1, <1>2, <1>3 DEF Settled

LEMMA FreshSettled ==
  ASSUME NEW i, NEW s, NEW l
  PROVE  Settled(<<>>, <<>>, i, s, l)
<1> DEFINE q == At(0, 0)
<1>1. q.j = 0 /\ q.k = 0 /\ q \in [j : Nat, k : Nat] /\ Len(<<>>) = 0
  BY DEF At
<1> HIDE DEF q
<1>2. q \in Places(<<>>)
  BY <1>1 DEF Places
<1>3. Leads(<<>>, <<>>, q, q, l)
  BY <1>2, LeadsNone
<1>4. AtPlace(<<>>, q, i, s, l)
  BY <1>1 DEF AtPlace
<1>5. Ready(<<>>, <<>>, i, s, l, q)
  BY <1>1, <1>3, <1>4 DEF Ready
<1>6. q = At(Len(<<>>), 0)
  BY <1>1 DEF q
<1> QED
  BY <1>2, <1>5, <1>6 DEF Settled

LEMMA ReadyMore ==
  ASSUME NEW D \in Seq(Lined), NEW E \in Seq(Lined), NEW w, Len(w) \in Nat, NEW i, NEW s,
         NEW l, NEW q, Ready(D, w, i, s, l, q)
  PROVE  Ready(D \o E, w, i, s, l, q)
<1>1. PICK p : Leads(D, w, p, q, l) /\ AtPlace(D, p, i, s, l) /\ (~l => p.j = 0)
  BY DEF Ready
<1> DEFINE F == D \o E
<1>2. Leads(F, w, p, q, l)
  BY <1>1, LeadsMore
<1>3. p.k # 0 => F[p.j + 1] = D[p.j + 1]
  <2>1. p \in Places(D)
    BY <1>1, LeadsPlaces
  <2> QED
    BY <2>1, PlacesMore
<1> HIDE DEF F
<1>4. AtPlace(F, p, i, s, l)
  BY <1>1, <1>3 DEF AtPlace
<1>5. Ready(F, w, i, s, l, q)
  BY <1>1, <1>2, <1>4 DEF Ready
<1> QED
  BY <1>5 DEF F

\* A message without extensions is put on the line.
LEMMA CarriedSmall ==
  ASSUME NEW x \in SmallMessages, x.status # MClock, NEW D \in Seq(Lined), NEW w,
         Len(w) \in Nat, NEW i, NEW s, NEW t, NEW l, Settled(D, w, i, s, l)
  PROVE  /\ Carried(D \o Messages(x), w, <<Head(Messages(x)).status>> \o x.data, NULL, i, s, t, l)
         /\ D \o Messages(x) \in Seq(Lined)
<1> DEFINE E == Messages(x)
           d == <<Head(Messages(x)).status>> \o x.data
           F == D \o E
<1>1. E \in Seq(Lined) /\ PutLeads(D, E, d, l)
  BY SmallLeads
<1> HIDE DEF E, d
<1>2. PICK q \in Places(D) : Ready(D, w, i, s, l, q) /\ (l \/ q = At(Len(D), 0))
  BY DEF Settled
<1>3. Ready(F, w, i, s, l, q)
  BY <1>1, <1>2, ReadyMore
<1>4. Leads(F, d, q, At(Len(F), 0), l)
  BY <1>1, <1>2 DEF PutLeads
<1>5. F \in Seq(Lined)
  BY <1>1, PlacesMore
<1> HIDE DEF F
<1>6. Remains(F, At(Len(F), 0), d, NULL, t, l)
  BY DEF Remains
<1>7. Carried(F, w, d, NULL, i, s, t, l)
  BY <1>3, <1>4, <1>6 DEF Carried
<1> QED
  BY <1>5, <1>7 DEF E, d, F

\* What a cell holds leads to what the next ones hold, or to the end of the message.
LEMMA CellLeads ==
  ASSUME NEW F \in Seq(Lined), NEW n \in Nat, n + 1 = Len(F), F[n + 1].status = SysEx,
         NEW k \in Nat, k # 0, k <= Len(F[n + 1].data) + 1,
         NEW b \in Seq(Data), NEW t \in Seq(Data), NEW l, NEW z, z = NULL => t = <<>>,
         SubSeq(F[n + 1].data, k, Len(F[n + 1].data)) = b \o t,
         NEW end, end = IF z = NULL THEN <<EndSysX>> ELSE <<>>
  PROVE  \E r : Leads(F, b \o end, At(n, k), r, l) /\ \A d : Remains(F, r, d, z, t, l)
<1> DEFINE m == Len(b)
           a == F[n + 1].data
<1>1. /\ Leads(F, b, At(n, k), At(n, k + m), l)
      /\ k + m # 0
      /\ t = SubSeq(a, k + m, Len(a))
      /\ t = <<>> => Leads(F, <<EndSysX>>, At(n, k + m), At(n + 1, 0), l)
  <2>1. n < Len(F)
    OBVIOUS
  <2>2. /\ Leads(F, b, At(n, k), At(n, k + Len(b)), l)
        /\ k + Len(b) <= Len(F[n + 1].data) + 1 /\ k + Len(b) \in Nat /\ k + Len(b) # 0
        /\ t = SubSeq(F[n + 1].data, k + Len(b), Len(F[n + 1].data))
        /\ t = <<>> => Leads(F, <<EndSysX>>, At(n, k + Len(b)), At(n + 1, 0), l)
    BY <2>1, SexLeads
  <2> QED
    BY <2>2
<1> HIDE DEF m
<1>2. CASE z = NULL
  <2>1. end = <<EndSysX>> /\ t = <<>>
    BY <1>2
  <2>2. b \in Seq(Byte) /\ end \in Seq(Byte)
    <3>1. Data \subseteq Byte /\ EndSysX \in Byte
      BY DEF Byte
    <3> QED
      BY <2>1, <3>1
  <2>3. Leads(F, b \o end, At(n, k), At(n + 1, 0), l)
    BY <1>1, <2>1, <2>2, LeadsJoin
  <2>4. \A d : Remains(F, At(n + 1, 0), d, z, t, l)
    BY <1>2 DEF Remains
  <2> QED
    BY <2>3, <2>4
<1>3. CASE z # NULL
  <2>1. b \o end = b
    BY <1>3, ConcatEmptySeq
  <2>2. Leads(F, b \o end, At(n, k), At(n, k + m), l)
    BY <1>1, <2>1
  <2>3. At(n, k + m).j = n /\ At(n, k + m).k = k + m
    BY AtIs
  <2>4. \A d : Remains(F, At(n, k + m), d, z, t, l)
    BY <1>1, <1>3, <2>3 DEF Remains
  <2> QED
    BY <2>2, <2>4
<1> QED
  BY <1>2, <1>3

\* A system exclusive is put on the line, with its first cell.
LEMMA CarriedSysEx ==
  ASSUME NEW D \in Seq(Lined), NEW w, Len(w) \in Nat, NEW i, NEW s, NEW l,
         Settled(D, w, i, s, l), NEW m, m.status = SysEx, m \in Lined,
         NEW b \in Seq(Data), NEW t \in Seq(Data), m.data = b \o t,
         NEW z, z = NULL => t = <<>>, NEW end, end = IF z = NULL THEN <<EndSysX>> ELSE <<>>
  PROVE  /\ Carried(D \o <<m>>, w, <<SysEx>> \o (b \o end), z, i, s, t, l)
         /\ D \o <<m>> \in Seq(Lined)
<1> DEFINE E == <<m>>
           F == D \o E
           n == Len(D)
           d == <<SysEx>> \o (b \o end)
<1>1. E \in Seq(Lined) /\ E # <<>> /\ E[1] = m /\ Len(E) = 1
  OBVIOUS
<1> HIDE DEF E
<1>2. PICK q \in Places(D) : Ready(D, w, i, s, l, q) /\ (l \/ q = At(Len(D), 0))
  BY DEF Settled
<1>3. Ready(F, w, i, s, l, q)
  BY <1>1, <1>2, ReadyMore
<1>4. /\ Leads(F, <<SysEx>>, q, At(n, 1), l)
      /\ F[n + 1] = m /\ n \in Nat
  <2>1. /\ Leads(F, <<E[1].status>>, q, At(n, 1), l)
        /\ F[n + 1] = E[1] /\ n \in Nat
    BY <1>1, <1>2, StatusLeads
  <2> QED
    BY <1>1, <2>1
<1>5. F \in Seq(Lined) /\ n + 1 = Len(F)
  <2>1. F \in Seq(Lined) /\ Len(F) = Len(D) + Len(E)
    BY <1>1, PlacesMore
  <2> QED
    BY <1>1, <1>4, <2>1
<1> HIDE DEF F, n
<1>6. /\ Len(m.data) \in Nat /\ 1 <= Len(m.data) + 1
      /\ SubSeq(m.data, 1, Len(m.data)) = b \o t
  <2>1. m.data \in Seq(Data)
    BY DataIs
  <2>2. SubSeq(m.data, 1, Len(m.data)) = m.data
    BY <2>1
  <2> QED
    BY <2>1, <2>2
<1>7. PICK r : Leads(F, b \o end, At(n, 1), r, l) /\ \A c : Remains(F, r, c, z, t, l)
  <2>1. /\ F[n + 1].status = SysEx /\ 1 <= Len(F[n + 1].data) + 1
        /\ SubSeq(F[n + 1].data, 1, Len(F[n + 1].data)) = b \o t
    BY <1>4, <1>6
  <2>2. 1 \in Nat /\ 1 # 0
    OBVIOUS
  <2> QED
    BY <1>4, <1>5, <2>1, <2>2, CellLeads
<1>8. <<SysEx>> \in Seq(Byte) /\ b \o end \in Seq(Byte)
  <2>1. Data \subseteq Byte /\ EndSysX \in Byte /\ SysEx \in Byte
    BY DEF Byte
  <2>2. end \in Seq(Byte) /\ b \in Seq(Byte)
    <3>1. <<>> \in Seq(Byte) /\ <<EndSysX>> \in Seq(Byte) /\ b \in Seq(Byte)
      BY <2>1
    <3> QED
      BY <3>1
  <2>3. b \o end \in Seq(Byte)
    BY <2>2, ConcatProperties
  <2> QED
    BY <2>1, <2>3
<1>9. Leads(F, d, q, r, l)
  BY <1>4, <1>7, <1>8, LeadsJoin
<1>10. Carried(F, w, d, z, i, s, t, l)
  BY <1>3, <1>7, <1>9 DEF Carried
<1> QED
  BY <1>5, <1>10 DEF F, E

\* A byte goes from the stream to the line.
LEMMA CarriedByte ==
  ASSUME NEW D, NEW w \in Seq(Byte), NEW d \in Seq(Byte), d # <<>>, NEW y, NEW i, NEW s,
         NEW t, NEW l, Carried(D, w, d, y, i, s, t, l)
  PROVE  Carried(D, w \o <<Head(d)>>, Tail(d), y, i, s, t, l)
<1> DEFINE c == Head(d)
<1>1. PICK q, r : /\ Ready(D, w, i, s, l, q) /\ Leads(D, d, q, r, l)
                  /\ Remains(D, r, d, y, t, l)
  BY DEF Carried
<1>2. PICK p : Leads(D, w, p, q, l) /\ AtPlace(D, p, i, s, l) /\ (~l => p.j = 0)
  BY <1>1 DEF Ready
<1>3. PICK z \in Places(D) : Moves(D, q, c, z, l) /\ Leads(D, Tail(d), z, r, l)
  BY <1>1, LeadsFirst
<1>4. q \in Places(D) /\ c \in Byte /\ <<c>> \in Seq(Byte)
  <2>1. q \in Places(D)
    BY <1>1, LeadsFirst
  <2>2. c \in Byte
    OBVIOUS
  <2> QED
    BY <2>1, <2>2
<1> HIDE DEF c
<1>5. Leads(D, w \o <<c>>, p, z, l)
  <2>1. Leads(D, <<c>>, q, z, l)
    BY <1>3, <1>4, LeadsOne
  <2> QED
    BY <1>2, <1>4, <2>1, LeadsJoin
<1>6. Ready(D, w \o <<c>>, i, s, l, z)
  BY <1>2, <1>5 DEF Ready
<1>7. Remains(D, r, Tail(d), y, t, l)
  BY <1>1 DEF Remains
<1>8. Carried(D, w \o <<c>>, Tail(d), y, i, s, t, l)
  BY <1>3, <1>6, <1>7 DEF Carried
<1> QED
  BY <1>8 DEF c

\* The next cell is taken when no byte is left.
LEMMA CarriedCell ==
  ASSUME NEW D \in Seq(Lined), NEW w, NEW y, y # NULL, NEW i, NEW s, NEW t, NEW l,
         Carried(D, w, <<>>, y, i, s, t, l),
         NEW b \in Seq(Data), NEW c \in Seq(Data), t = b \o c,
         NEW z, z = NULL => c = <<>>, NEW end, end = IF z = NULL THEN <<EndSysX>> ELSE <<>>
  PROVE  Carried(D, w, b \o end, z, i, s, c, l)
<1>1. PICK q, r : /\ Ready(D, w, i, s, l, q) /\ Leads(D, <<>>, q, r, l)
                  /\ Remains(D, r, <<>>, y, t, l)
  BY DEF Carried
<1>2. q = r /\ r \in Places(D)
  BY <1>1, LeadsEmpty
<1>3. /\ r.k # 0 /\ r.j + 1 = Len(D) /\ D[r.j + 1].status = SysEx
      /\ t = SubSeq(D[r.j + 1].data, r.k, Len(D[r.j + 1].data))
  BY <1>1 DEF Remains
<1>4. /\ r.j \in Nat /\ r.k \in Nat /\ r = At(r.j, r.k)
      /\ r.k < LenOf(D[r.j + 1]) /\ D[r.j + 1] \in Lined
  <2>1. r.j \in Nat /\ r.k \in Nat /\ r = At(r.j, r.k) /\ r.k < LenOf(D[r.j + 1])
    BY <1>2, <1>3, AtIs DEF Places
  <2>2. r.j + 1 \in 1..Len(D)
    BY <1>3, <2>1
  <2> QED
    BY <2>1, <2>2
<1>5. r.k <= Len(D[r.j + 1].data) + 1
  <2>1. LenOf(D[r.j + 1]) = Len(D[r.j + 1].data) + 2 /\ Len(D[r.j + 1].data) \in Nat
    BY <1>3, <1>4, LinedIs DEF LenOf
  <2> QED
    BY <1>4, <2>1
<1>6. PICK v : Leads(D, b \o end, At(r.j, r.k), v, l) /\ \A d : Remains(D, v, d, z, c, l)
  <2>1. SubSeq(D[r.j + 1].data, r.k, Len(D[r.j + 1].data)) = b \o c
    BY <1>3
  <2> QED
    BY <1>3, <1>4, <1>5, <2>1, CellLeads
<1>7. Leads(D, b \o end, q, v, l)
  BY <1>2, <1>4, <1>6
<1> QED
  BY <1>1, <1>6, <1>7 DEF Carried

\* The parser's event matters only while it is being filled.
LEMMA CarriedFrame ==
  ASSUME NEW D, NEW w, NEW d, NEW y, NEW i, NEW s, NEW t, NEW l, NEW u,
         Carried(D, w, d, y, i, s, t, l), i.parse = "SysExNext" => u = s
  PROVE  Carried(D, w, d, y, i, u, t, l)
<1>1. \A p : AtPlace(D, p, i, s, l) => AtPlace(D, p, i, u, l)
  BY DEF AtPlace
<1>2. \A q : Ready(D, w, i, s, l, q) => Ready(D, w, i, u, l, q)
  BY <1>1 DEF Ready
<1> QED
  BY <1>2 DEF Carried

LEMMA CarriedReset ==
  ASSUME NEW D, NEW w, NEW d, Len(d) \in Nat, NEW y, NEW i, NEW s, NEW t, NEW l, NEW u,
         Carried(D, w, d, y, i, s, t, l)
  PROVE  Carried(D, w, <<>>, NULL, i, s, u, TRUE)
<1>1. PICK q, r : Ready(D, w, i, s, l, q) /\ Leads(D, d, q, r, l)
  BY DEF Carried
<1>2. PICK p : Leads(D, w, p, q, l) /\ AtPlace(D, p, i, s, l)
  BY <1>1 DEF Ready
<1>3. q \in Places(D)
  BY <1>1, LeadsPlaces
<1>4. Leads(D, w, p, q, TRUE)
  BY <1>2, LeadsMissed
<1>5. AtPlace(D, p, i, s, TRUE)
  BY <1>2 DEF AtPlace
<1>6. Ready(D, w, i, s, TRUE, q)
  BY <1>4, <1>5 DEF Ready
<1>7. Leads(D, <<>>, q, q, TRUE)
  BY <1>3, LeadsNone
<1>8. Remains(D, q, <<>>, NULL, u, TRUE)
  BY DEF Remains
<1> QED
  BY <1>6, <1>7, <1>8 DEF Carried

LEMMA CarriedMerge ==
  ASSUME NEW D, NEW w \in Seq(Byte), NEW d, NEW y, NEW i, NEW s, NEW t, NEW l,
         Carried(D, w, d, y, i, s, t, l)
  PROVE  Carried(D, Append(w, MClock), d, y, i, s, t, l)
<1>1. PICK q, r : /\ Ready(D, w, i, s, l, q) /\ Leads(D, d, q, r, l)
                  /\ Remains(D, r, d, y, t, l)
  BY DEF Carried
<1>2. PICK p : Leads(D, w, p, q, l) /\ AtPlace(D, p, i, s, l) /\ (~l => p.j = 0)
  BY <1>1 DEF Ready
<1>3. MClock \in Byte
  BY DEF Byte
<1>4. Leads(D, Append(w, MClock), p, q, l)
  BY <1>2, <1>3, LeadsClock
<1>5. Ready(D, Append(w, MClock), i, s, l, q)
  BY <1>2, <1>4 DEF Ready
<1> QED
  BY <1>1, <1>5 DEF Carried

\* What is due when m has arrived.
After(D, m) ==
  LET at == {i \in 1..Len(D) : D[i] = m}
  IN IF m.status \in {0, MClock} \/ at = {} THEN D
     ELSE SubSeq(D, Min(at) + 1, Len(D))

\* The first of the places where m is.
LEMMA AfterIs ==
  ASSUME NEW D \in Seq(Lined), NEW m, NEW n \in Nat, n < Len(D), D[n + 1] = m,
         m.status \notin {0, MClock}
  PROVE  \E k \in Nat : /\ k # 0 /\ k <= n + 1 /\ k <= Len(D)
                        /\ After(D, m) = Cut(D, k)
<1> DEFINE at == {i \in 1..Len(D) : D[i] = m}
           k == Min(at)
<1>1. n + 1 \in at
  OBVIOUS
<1>2. at \subseteq Nat /\ at # {}
  BY <1>1
<1>3. k \in at /\ k <= n + 1
  <2> HIDE DEF at
  <2>1. PICK j \in at : \A i \in at : j <= i
    BY <1>2, Least
  <2>2. k = j
    <3>1. \A i \in at : (\A e \in at : i <= e) => i = j
      <4>1. ASSUME NEW i \in at, \A e \in at : i <= e PROVE i = j
        <5>1. i <= j /\ j <= i /\ i \in Nat /\ j \in Nat
          BY <1>2, <2>1, <4>1
        <5> QED
          BY <5>1
      <4> QED
        BY <4>1
    <3> QED
      BY <2>1, <3>1 DEF Min
  <2> QED
    BY <1>1, <2>1, <2>2
<1>4. After(D, m) = Cut(D, k)
  BY <1>2 DEF After, Cut
<1>5. k \in Nat /\ k # 0 /\ k <= Len(D)
  BY <1>3
<1> QED
  BY <1>3, <1>4, <1>5

\* When the first k messages are due no more.
LEMMA CarriedBack ==
  ASSUME NEW D \in Seq(Lined), NEW w, Len(w) \in Nat, NEW d, Len(d) \in Nat, NEW y, NEW i,
         NEW s, NEW t, NEW l, NEW p, NEW q, NEW r, NEW k \in Nat, k <= p.j, ~l => p.j = k,
         Leads(D, w, p, q, l), AtPlace(D, p, i, s, l), Leads(D, d, q, r, l),
         Remains(D, r, d, y, t, l)
  PROVE  Carried(Cut(D, k), w, d, y, i, s, t, l) /\ Cut(D, k) \in Seq(Lined)
<1> DEFINE C == Cut(D, k)
           a == Back(p, k)
           b == Back(q, k)
           c == Back(r, k)
<1>1. p \in Places(D)
  BY LeadsPlaces
<1>2. k <= q.j /\ q \in Places(D) /\ Leads(C, w, a, b, l)
  BY LeadsBack
<1>3. k <= r.j /\ r \in Places(D) /\ Leads(C, d, b, c, l)
  BY <1>2, LeadsBack
<1>4. /\ a.j = p.j - k /\ a.k = p.k /\ k \in 0..Len(D)
      /\ p.k # 0 => C[a.j + 1] = D[p.j + 1]
  BY <1>1, PlaceBack
<1>5. /\ c.j = r.j - k /\ c.k = r.k
      /\ r.k # 0 => C[c.j + 1] = D[r.j + 1]
  BY <1>3, PlaceBack
<1>6. C \in Seq(Lined) /\ Len(C) = Len(D) - k /\ Len(D) \in Nat
  BY <1>4, CutIs
<1>7. p.j \in Nat /\ r.j \in Nat
  BY <1>1, <1>3, AtIs
<1>8. r = At(Len(D), 0) => c = At(Len(C), 0)
  <2>1. r = At(Len(D), 0) => c = At(Len(D) - k, 0)
    BY AtIs DEF Back
  <2> QED
    BY <1>6, <2>1
<1> HIDE DEF C, a, b, c
<1>9. AtPlace(C, a, i, s, l)
  BY <1>4 DEF AtPlace
<1>10. ~l => a.j = 0
  BY <1>4, <1>7
<1>11. Ready(C, w, i, s, l, b)
  BY <1>2, <1>9, <1>10 DEF Ready
<1>12. Remains(C, c, d, y, t, l)
  <2>1. CASE y = NULL
    BY <1>8, <2>1 DEF Remains
  <2>2. CASE y # NULL
    <3>1. /\ r.k # 0 /\ r.j + 1 = Len(D) /\ D[Len(D)].status = SysEx
          /\ t = SubSeq(D[Len(D)].data, r.k, Len(D[Len(D)].data))
      BY <2>2 DEF Remains
    <3>2. c.k # 0 /\ c.j + 1 = Len(C)
      BY <1>5, <1>6, <1>7, <3>1
    <3>3. C[Len(C)] = D[Len(D)]
      <4>1. C[c.j + 1] = D[r.j + 1]
        BY <1>5, <3>1
      <4> QED
        BY <3>1, <3>2, <4>1
    <3> QED
      BY <1>5, <2>2, <3>1, <3>2, <3>3 DEF Remains
  <2> QED
    BY <2>1, <2>2
<1>13. Carried(C, w, d, y, i, s, t, l)
  BY <1>3, <1>11, <1>12 DEF Carried
<1> QED
  BY <1>6, <1>13 DEF C

\* m is the next message that is due, or a later one if something was missed.
Expected(D, m, l) == \E i \in 1..Len(D) : D[i] = m /\ (i = 1 \/ l)

\* A byte goes from the line to the parser.
LEMMA CarriedReceive ==
  ASSUME NEW D \in Seq(Lined), NEW w \in Seq(Byte), w # <<>>, NEW d \in Seq(Byte), NEW y,
         NEW i, NEW s, NEW t, NEW l, Carried(D, w, d, y, i, s, t, l),
         NEW j, NEW u, NEW m, NEW x, Effect(i, Head(w), s, j, u, m, x)
  PROVE  /\ Carried(After(D, m), Tail(w), d, y, j, u, t, l \/ x)
         /\ After(D, m) \in Seq(Lined)
         /\ m.status \notin {0, MClock} => Expected(D, m, l)
<1> DEFINE k == l \/ x
           v == Tail(w)
           c == Head(w)
<1>1. PICK q, r : /\ Ready(D, w, i, s, l, q) /\ Leads(D, d, q, r, l)
                  /\ Remains(D, r, d, y, t, l)
  BY DEF Carried
<1>2. PICK p : Leads(D, w, p, q, l) /\ AtPlace(D, p, i, s, l) /\ (~l => p.j = 0)
  BY <1>1 DEF Ready
<1>3. p \in Places(D)
  BY <1>2, LeadsFirst
<1>4. PICK z \in Places(D) : Moves(D, p, c, z, l) /\ Leads(D, v, z, q, l)
  BY <1>2, LeadsFirst
<1>5. AtPlace(D, z, j, u, k) /\ Arrives(D, p, z, m, k)
  BY <1>2, <1>3, <1>4, EffectMoves
<1>6. /\ Len(v) \in Nat /\ Len(d) \in Nat
      /\ Leads(D, v, z, q, k) /\ Leads(D, d, q, r, k)
  <2>1. v \in Seq(Byte)
    OBVIOUS
  <2>2. l => k
    OBVIOUS
  <2> HIDE DEF k, v, c
  <2>3. Leads(D, v, z, q, l) /\ Leads(D, d, q, r, l)
    BY <1>1, <1>4
  <2>4. Leads(D, v, z, q, k)
    BY <2>2, <2>3, LeadsMissed
  <2>5. Leads(D, d, q, r, k)
    BY <2>2, <2>3, LeadsMissed
  <2> QED
    BY <2>1, <2>4, <2>5
<1>7. Remains(D, r, d, y, t, k)
  BY <1>1 DEF Remains
<1>8. ~k => ~l
  OBVIOUS
<1> HIDE DEF k, v, c
<1>9. p.j \in Nat /\ p.k \in Nat /\ (p.k # 0 => p.j < Len(D)) /\ Len(D) \in Nat
  BY <1>3, AtIs DEF Places
<1>10. CASE m.status \in {0, MClock}
  <2>1. After(D, m) = D
    BY <1>10 DEF After
  <2>2. ~k => z.j = 0
    <3>1. ~k => z.j = p.j
      BY <1>5, <1>10 DEF Arrives
    <3> QED
      BY <1>2, <1>8, <3>1
  <2>3. Ready(D, v, j, u, k, q)
    BY <1>5, <1>6, <2>2 DEF Ready
  <2>4. Carried(D, v, d, y, j, u, t, k)
    BY <1>6, <1>7, <2>3 DEF Carried
  <2> QED
    BY <1>10, <2>1, <2>4 DEF k, v
<1>11. CASE m.status \notin {0, MClock}
  <2>1. p.k # 0 /\ m = D[p.j + 1] /\ z.j = p.j + 1
    BY <1>5, <1>11 DEF Arrives
  <2>2. PICK n \in Nat : n # 0 /\ n <= p.j + 1 /\ n <= Len(D) /\ After(D, m) = Cut(D, n)
    BY <1>9, <1>11, <2>1, AfterIs
  <2>3. n <= z.j /\ (~k => z.j = n)
    <3>1. ~k => p.j = 0
      BY <1>2, <1>8
    <3> QED
      BY <1>9, <2>1, <2>2, <3>1
  <2>4. Carried(Cut(D, n), v, d, y, j, u, t, k) /\ Cut(D, n) \in Seq(Lined)
    BY <1>5, <1>6, <1>7, <2>3, CarriedBack
  <2>5. Expected(D, m, l)
    <3>1. p.j + 1 \in 1..Len(D) /\ D[p.j + 1] = m
      BY <1>9, <2>1
    <3>2. p.j + 1 = 1 \/ l
      BY <1>2
    <3> QED
      BY <3>1, <3>2 DEF Expected
  <2> QED
    BY <2>2, <2>4, <2>5 DEF k, v
<1> QED
  BY <1>10, <1>11

\* When nothing is under way, and nothing was missed, nothing is due.
LEMMA CarriedAll ==
  ASSUME NEW D \in Seq(Lined), NEW i, NEW s, NEW t, NEW l, ~l,
         Carried(D, <<>>, <<>>, NULL, i, s, t, l)
  PROVE  D = <<>>
<1>1. PICK q, r : /\ Ready(D, <<>>, i, s, l, q) /\ Leads(D, <<>>, q, r, l)
                  /\ Remains(D, r, <<>>, NULL, t, l)
  BY DEF Carried
<1>2. PICK p : Leads(D, <<>>, p, q, l) /\ p.j = 0
  BY <1>1 DEF Ready
<1>3. p = q /\ q = r
  BY <1>1, <1>2, LeadsEmpty
<1>4. r = At(Len(D), 0)
  BY <1>1 DEF Remains
<1>5. Len(D) = 0
  BY <1>2, <1>3, <1>4, AtIs
<1> QED
  BY <1>5

(***************************************************************************)
(* What a byte does to the parser.                                         *)
(***************************************************************************)
StatusOf(i, c, r) ==
  /\ c \in {NoteOn, ControlChg} => r.msg = None /\ r.in.parse = "DataM" /\ r.in.status = c
  /\ c = ProgramChg => r.msg = None /\ r.in.parse = "DataU" /\ r.in.status = c
  /\ c = SysEx =>
       /\ r.msg = None
       /\ (r.miss /\ r.in.parse = "Status") \/ Begun(c, r)
  /\ c = EndSysX => r.msg = None /\ r.in = i
  /\ c = MClock => /\ r.in = i /\ r.msg \in {None, Message(MClock, <<>>)}
                   /\ r.heap = heap

EndOf(i, c, r) == c = EndSysX => r.msg = Message(SysEx, Content(heap, i.cur))

DataOf(i, c, r) ==
  /\ i.parse = "Status" => r.msg = None /\ r.in = i
  /\ i.parse = "DataM" =>
       r.msg = None /\ r.in.parse = "DataD" /\ r.in.status = i.status /\ r.in.data = c
  /\ i.parse = "DataD" =>
       /\ r.in.parse = "DataM" /\ r.in.status = i.status
       /\ r.msg = Message(i.status, <<i.data, c>>) \/ (r.miss /\ r.msg = None)
  /\ i.parse = "DataU" =>
       r.in = i /\ (r.msg = Message(i.status, <<c>>) \/ (r.miss /\ r.msg = None))
  /\ i.parse = "SysExNext" =>
       /\ r.msg = None
       /\ (r.miss /\ r.in.parse = "Status") \/ Filled(i, c, r)

LEMMA StatusesNegative ==
  /\ NoteOn < 0 /\ ControlChg < 0 /\ ProgramChg < 0 /\ SysEx < 0 /\ EndSysX < 0 /\ MClock < 0
  /\ MClock \notin {NoteOn, ControlChg, ProgramChg, SysEx, EndSysX}
  /\ EndSysX \notin {NoteOn, ControlChg, ProgramChg, SysEx, MClock}
  /\ SysEx \notin {NoteOn, ControlChg, ProgramChg}
  /\ \A c \in Data : ~ c < 0
BY DEF NoteOn, ControlChg, ProgramChg, SysEx, EndSysX, MClock, Data

LEMMA StoreGives ==
  ASSUME NEW i, NEW m
  PROVE  /\ Store(i, m).in = i /\ Store(i, m).heap = heap
         /\ Store(i, m).msg = m \/ (Store(i, m).miss /\ Store(i, m).msg = None)
BY DEF Store, Result

LEMMA GoesGives ==
  ASSUME NEW i
  PROVE  Goes(i).in = i /\ Goes(i).heap = heap /\ Goes(i).msg = None
BY DEF Goes, Result

LEMMA StatusParsed ==
  ASSUME NEW i, ParserTyped(i), NEW c, free \subseteq Cell
  PROVE  StatusOf(i, c, rcvStatus(i, c))
<1> DEFINE r == rcvStatus(i, c)
<1>1. CASE c \in {NoteOn, ControlChg}
  <2> DEFINE j == [parse |-> "DataM", status |-> c, data |-> 0, cur |-> i.cur]
  <2>1. c # ProgramChg /\ c # SysEx /\ c # EndSysX /\ c # MClock
    BY <1>1, StatusesDiffer, StatusesNegative
  <2>2. r = Goes(j)
    BY <1>1, <2>1 DEF rcvStatus
  <2>3. j.parse = "DataM" /\ j.status = c
    OBVIOUS
  <2> HIDE DEF r, j
  <2>4. r.in = j /\ r.msg = None
    BY <2>2, GoesGives
  <2> QED
    BY <2>1, <2>3, <2>4 DEF StatusOf, r
<1>2. CASE c = ProgramChg
  <2> DEFINE j == [parse |-> "DataU", status |-> c, data |-> 0, cur |-> i.cur]
  <2>1. c \notin {NoteOn, ControlChg} /\ c # SysEx /\ c # EndSysX /\ c # MClock
    BY <1>2, StatusesDiffer, StatusesNegative
  <2>2. r = Goes(j)
    BY <1>2 DEF rcvStatus
  <2>3. j.parse = "DataU" /\ j.status = c
    OBVIOUS
  <2> HIDE DEF r, j
  <2>4. r.in = j /\ r.msg = None
    BY <2>2, GoesGives
  <2> QED
    BY <2>1, <2>3, <2>4 DEF StatusOf, r
<1>3. CASE c = SysEx
  <2>1. c \notin {NoteOn, ControlChg, ProgramChg} /\ c # EndSysX /\ c # MClock /\ c \in Byte
    <3>1. SysEx \in Byte
      BY Distinct
    <3> QED
      BY <1>3, <3>1, StatusesNegative
  <2>2. r = rcvSysExBeg(i)
    BY <1>3, <2>1 DEF rcvStatus
  <2>3. r.msg = None /\ ((r.miss /\ r.in.parse = "Status") \/ Begun(c, r))
    <3>1. CASE Cardinality(free) < 2
      <4> DEFINE j == [i EXCEPT !.parse = "Status"]
      <4>1. r = Result(j, heap, None, TRUE)
        BY <2>2, <3>1 DEF rcvSysExBeg
      <4>2. j.parse = "Status"
        BY DEF ParserTyped
      <4> HIDE DEF r, j
      <4>3. r.in = j /\ r.msg = None /\ r.miss
        BY <4>1 DEF Result
      <4> QED
        BY <4>2, <4>3
    <3>2. CASE ~ Cardinality(free) < 2
      <4> DEFINE j == [parse |-> "SysExNext", status |-> 0, data |-> 0, cur |-> Next1(heap)]
      <4>1. r = Result(j, NewSexEv(heap), None, FALSE)
        BY <2>2, <3>2 DEF rcvSysExBeg
      <4>2. j.parse = "SysExNext" /\ j.cur = Next1(heap)
        OBVIOUS
      <4>3. Cardinality(free) > 1
        <5>1. Cardinality(free) \in Nat
          BY FS_Subset, FS_CardinalityType, StreamsAssumption
        <5>2. \A n \in Nat : ~ n < 2 => n > 1
          OBVIOUS
        <5> QED
          BY <3>2, <5>1, <5>2
      <4> HIDE DEF r, j
      <4>4. r.in = j /\ r.msg = None /\ r.heap = NewSexEv(heap)
        BY <4>1 DEF Result
      <4>5. Begun(c, r)
        BY <1>3, <4>2, <4>3, <4>4 DEF Begun
      <4> QED
        BY <4>4, <4>5
    <3> QED
      BY <3>1, <3>2
  <2> HIDE DEF r
  <2> QED
    BY <2>1, <2>3 DEF StatusOf, r
<1>4. CASE c = MClock
  <2>1. c \notin {NoteOn, ControlChg, ProgramChg} /\ c # SysEx /\ c # EndSysX
    BY <1>4, StatusesNegative
  <2>2. r = Store(i, Message(MClock, <<>>))
    BY <1>4, <2>1 DEF rcvStatus
  <2> HIDE DEF r
  <2>3. r.in = i /\ r.heap = heap /\ r.msg \in {None, Message(MClock, <<>>)}
    BY <2>2, StoreGives
  <2> QED
    BY <2>1, <2>3 DEF StatusOf, r
<1>5. CASE c \notin {NoteOn, ControlChg, ProgramChg, SysEx, MClock}
  <2>1. r = Goes(i)
    BY <1>5 DEF rcvStatus
  <2> HIDE DEF r
  <2>2. r.in = i /\ r.msg = None
    BY <2>1, GoesGives
  <2> QED
    BY <1>5, <2>2 DEF StatusOf, r
<1> QED
  BY <1>1, <1>2, <1>3, <1>4, <1>5

\* A status, within a system exclusive or not.
LEMMA ParsedStatus ==
  ASSUME NEW i, ParserTyped(i), NEW c, c < 0, free \subseteq Cell
  PROVE  LET r == MidiParseByte(i, c)
         IN IF i.parse = "SysExNext" /\ c = EndSysX THEN EndOf(i, c, r) ELSE StatusOf(i, c, r)
<1> DEFINE r == MidiParseByte(i, c)
<1>1. i.parse \in {"Status", "DataM", "DataD", "DataU", "SysExNext"}
  BY DEF ParserTyped
<1>2. CASE ~ (i.parse = "SysExNext" /\ c = EndSysX)
  <2>1. r = rcvStatus(i, c)
    <3>1. CASE i.parse = "SysExNext"
      BY <1>2, <3>1 DEF MidiParseByte, rcvSysExNext, rcvSysExEnd
    <3>2. CASE i.parse # "SysExNext"
      BY <1>1, <3>2 DEF MidiParseByte, rcvDataM, rcvDataD, rcvDataU
    <3> QED
      BY <3>1, <3>2
  <2> QED
    BY <1>2, <2>1, StatusParsed
<1>3. CASE i.parse = "SysExNext" /\ c = EndSysX
  <2> DEFINE j == [i EXCEPT !.parse = "Status", !.cur = NULL]
  <2>1. r = Result(j, FreeSexEv(heap, i.cur), Message(SysEx, Content(heap, i.cur)), FALSE)
    BY <1>3 DEF MidiParseByte, rcvSysExNext, rcvSysExEnd
  <2> HIDE DEF r, j
  <2>2. r.msg = Message(SysEx, Content(heap, i.cur))
    BY <2>1 DEF Result
  <2> QED
    BY <1>3, <2>2 DEF EndOf, r
<1> QED
  BY <1>2, <1>3

LEMMA ParsedData ==
  ASSUME NEW i, ParserTyped(i), NEW c \in Data
  PROVE  DataOf(i, c, MidiParseByte(i, c))
<1> DEFINE r == MidiParseByte(i, c)
<1>0. /\ i \in [parse : {"Status", "DataM", "DataD", "DataU", "SysExNext"},
                status : Byte, data : Byte, cur : Cell \cup {NULL}]
      /\ ~ c < 0
  BY StatusesNegative DEF ParserTyped
<1>1. CASE i.parse = "Status"
  <2>1. c \notin {NoteOn, ControlChg, ProgramChg} /\ c # SysEx /\ c # MClock
    BY <1>0, StatusesNegative
  <2>2. r = Goes(i)
    BY <1>1, <2>1 DEF MidiParseByte, rcvStatus
  <2> HIDE DEF r
  <2>3. r.in = i /\ r.msg = None
    BY <2>2, GoesGives
  <2> QED
    BY <1>1, <2>3 DEF DataOf, r
<1>2. CASE i.parse = "DataM"
  <2> DEFINE j == [i EXCEPT !.parse = "DataD", !.data = c]
  <2>1. r = Goes(j)
    BY <1>0, <1>2 DEF MidiParseByte, rcvDataM
  <2>2. j.parse = "DataD" /\ j.status = i.status /\ j.data = c
    BY <1>0
  <2> HIDE DEF r, j
  <2>3. r.in = j /\ r.msg = None
    BY <2>1, GoesGives
  <2> QED
    BY <1>2, <2>2, <2>3 DEF DataOf, r
<1>3. CASE i.parse = "DataD"
  <2> DEFINE j == [i EXCEPT !.parse = "DataM", !.data = 0]
             m == Message(i.status, <<i.data, c>>)
  <2>1. r = Store(j, m)
    BY <1>0, <1>3 DEF MidiParseByte, rcvDataD
  <2>2. j.parse = "DataM" /\ j.status = i.status
    BY <1>0
  <2> HIDE DEF r, j, m
  <2>3. r.in = j /\ (r.msg = m \/ (r.miss /\ r.msg = None))
    BY <2>1, StoreGives
  <2> QED
    BY <1>3, <2>2, <2>3 DEF DataOf, r, m
<1>4. CASE i.parse = "DataU"
  <2> DEFINE m == Message(i.status, <<c>>)
  <2>1. r = Store(i, m)
    BY <1>0, <1>4 DEF MidiParseByte, rcvDataU
  <2> HIDE DEF r, m
  <2>2. r.in = i /\ (r.msg = m \/ (r.miss /\ r.msg = None))
    BY <2>1, StoreGives
  <2> QED
    BY <1>4, <2>2 DEF DataOf, r, m
<1>5. CASE i.parse = "SysExNext"
  <2>1. r = rcvSysExNext(i, c)
    BY <1>5 DEF MidiParseByte
  <2>2. r.msg = None /\ ((r.miss /\ r.in.parse = "Status") \/ Filled(i, c, r))
    <3>1. CASE NeedsCell(heap, i.cur) /\ free = {}
      <4> DEFINE j == [i EXCEPT !.parse = "Status", !.cur = NULL]
      <4>1. r = Result(j, FreeSexEv(heap, i.cur), None, TRUE)
        BY <1>0, <2>1, <3>1 DEF rcvSysExNext
      <4>2. j.parse = "Status"
        BY <1>0
      <4> HIDE DEF r, j
      <4>3. r.in = j /\ r.msg = None /\ r.miss
        BY <4>1 DEF Result
      <4> QED
        BY <4>2, <4>3
    <3>2. CASE ~ (NeedsCell(heap, i.cur) /\ free = {})
      <4> DEFINE g == AddFSexEv(heap, i.cur, c)
      <4>1. r = Result(i, g, None, FALSE)
        BY <1>0, <2>1, <3>2 DEF rcvSysExNext
      <4> HIDE DEF r, g
      <4>2. r.in = i /\ r.msg = None /\ r.heap = g
        BY <4>1 DEF Result
      <4>3. Filled(i, c, r)
        BY <1>5, <3>2, <4>2 DEF Filled, g
      <4> QED
        BY <4>2, <4>3
    <3> QED
      BY <3>1, <3>2
  <2> HIDE DEF r
  <2> QED
    BY <1>5, <2>2 DEF DataOf, r
<1> QED
  BY <1>0, <1>1, <1>2, <1>3, <1>4, <1>5

(***************************************************************************)
(* What a step leaves in the stream and in the parser's event.             *)
(***************************************************************************)
LEMMA OfApart ==
  ASSUME NEW w, NEW k, NEW l, k # l
  PROVE  Of(w, k) \cap Of(w, l) = {}
BY DEF Of

\* The heap k has the cells of R as heap has them, and none of them is free.
Keeps(h, k, R) == k \in Heaps /\ Unchanged(h, k, R) /\ R \subseteq Cell /\ R \cap k.free = {}

LEMMA GrownKeeps ==
  ASSUME NEW h \in Heaps, NEW k, NEW S, NEW T, Grown(h, k, S, T),
         NEW R, R \subseteq Cell, R \cap h.free = {}, R \cap S = {}
  PROVE  Keeps(h, k, R)
<1>1. k \in Heaps /\ T \subseteq h.free /\ k.free = h.free \ T
      /\ Unchanged(h, k, Cell \ (S \cup T))
  BY DEF Grown
<1>2. R \subseteq Cell \ (S \cup T) /\ R \cap k.free = {}
  BY <1>1
<1>3. Unchanged(h, k, R)
  BY <1>1, <1>2 DEF Unchanged
<1> QED
  BY <1>1, <1>2, <1>3 DEF Keeps

LEMMA ReturnedKeeps ==
  ASSUME NEW h \in Heaps, NEW k, NEW T, Returned(h, k, T),
         NEW R, R \subseteq Cell, R \cap h.free = {}, R \cap T = {}
  PROVE  Keeps(h, k, R)
<1>1. k \in Heaps /\ k.free = h.free \cup T /\ Unchanged(h, k, Cell)
  BY DEF Returned
<1>2. R \cap k.free = {}
  BY <1>1
<1>3. Unchanged(h, k, R)
  BY <1>1 DEF Unchanged
<1> QED
  BY <1>1, <1>2, <1>3 DEF Keeps

LEMMA SameKeeps ==
  ASSUME NEW h \in Heaps, NEW k \in Heaps, k.free = h.free, Unchanged(h, k, Cell \ h.free),
         NEW R, R \subseteq Cell, R \cap h.free = {}
  PROVE  Keeps(h, k, R)
<1>1. R \subseteq Cell \ h.free
  OBVIOUS
<1>2. Unchanged(h, k, R)
  BY <1>1 DEF Unchanged
<1> QED
  BY <1>2 DEF Keeps

LEMMA BecomesKeeps ==
  ASSUME NEW h, NEW k, NEW R, Keeps(h, k, R), Becomes(k)
  PROVE  Unchanged(h, heap', R)
<1>1. k \in Heaps /\ Unchanged(h, k, R) /\ R \subseteq Cell \ k.free
  BY DEF Keeps
<1>2. Unchanged(k, heap', Cell \ k.free)
  BY <1>1, BecomesIs
<1> QED
  BY <1>1, <1>2 DEF Unchanged

LEMMA ContentIs ==
  ASSUME NEW h, NEW x, NEW d, NEW S, Event(h, x, Message(SysEx, d), S)
  PROVE  Content(h, x) = d
<1>1. Message(SysEx, d).status = SysEx /\ Message(SysEx, d).data = d
  BY StatusesDiffer
<1>2. PICK r : RingOf(h, x, r, S) /\ Joined(h, r) = d
  BY <1>1 DEF Event
<1> QED
  BY <1>2, RingCells

\* The cells of the output stream and those of the parser are kept.
Spared(w, k) ==
  /\ Keeps(heap, k, Of(w, OfOut))
  /\ in.cur # NULL => Keeps(heap, k, Of(w, in.cur))

SameTexts ==
  /\ LineText(heap', out.next) = LineText(heap, out.next)
  /\ in.cur # NULL => Content(heap', in.cur) = Content(heap, in.cur)

LEMMA ContentKeeps ==
  ASSUME NEW o, NEW y, NEW c, NEW w, NEW e, Apportioned(heap, o, y, c, w, e),
         c # NULL, NEW k, Keeps(heap, k, Of(w, c)), Becomes(k)
  PROVE  Content(heap', c) = Content(heap, c)
<1> DEFINE h == heap
           g == heap'
<1>1. PICK d : Event(h, c, Message(SysEx, d), Of(w, c))
  BY DEF Apportioned
<1>2. Unchanged(h, g, Of(w, c))
  BY BecomesKeeps
<1> HIDE DEF h, g
<1>3. Event(g, c, Message(SysEx, d), Of(w, c))
  BY <1>1, <1>2, EventFrame
<1>4. Content(g, c) = Content(h, c)
  BY <1>1, <1>3, ContentIs
<1> QED
  BY <1>4 DEF h, g

LEMMA LineKeeps ==
  ASSUME NEW o, NEW y, NEW c, NEW w, NEW e, Apportioned(heap, o, y, c, w, e),
         NEW k, Keeps(heap, k, Of(w, OfOut)), Becomes(k)
  PROVE  LineText(heap', y) = LineText(heap, y)
<1> DEFINE h == heap
           g == heap'
<1>1. Line(h, y, Of(w, OfOut))
  BY DEF Apportioned
<1>2. Unchanged(h, g, Of(w, OfOut))
  BY BecomesKeeps
<1> HIDE DEF h, g
<1>3. LineText(g, y) = LineText(h, y)
  BY <1>1, <1>2, LineTextFrame
<1> QED
  BY <1>3 DEF h, g

LEMMA SparedTexts ==
  ASSUME NEW w, Apportioned(heap, own, out.next, in.cur, w, resets),
         NEW k, Spared(w, k), Becomes(k)
  PROVE  SameTexts
<1>1. LineText(heap', out.next) = LineText(heap, out.next)
  BY LineKeeps DEF Spared
<1>2. ASSUME in.cur # NULL PROVE Content(heap', in.cur) = Content(heap, in.cur)
  BY <1>2, ContentKeeps DEF Spared
<1> QED
  BY <1>1, <1>2 DEF SameTexts

\* The parts of the heap that are not the sender's.
LEMMA Parts ==
  ASSUME NEW w, Apportioned(heap, own, out.next, in.cur, w, resets)
  PROVE  /\ heap \in Heaps /\ heap.free \subseteq Cell
         /\ Of(w, OfOut) \subseteq Cell /\ Of(w, OfOut) \cap heap.free = {}
         /\ in.cur # NULL =>
              /\ in.cur \in Cell /\ own[in.cur] = None /\ in.cur # OfOut
              /\ Of(w, in.cur) \subseteq Cell /\ Of(w, in.cur) \cap heap.free = {}
              /\ Of(w, in.cur) \cap Of(w, OfOut) = {}
              /\ \E d : Event(heap, in.cur, Message(SysEx, d), Of(w, in.cur))
         /\ \A x \in Cell : own[x] # None =>
              /\ Of(w, x) \cap Of(w, OfOut) = {}
              /\ in.cur # NULL => Of(w, x) \cap Of(w, in.cur) = {}
<1>1. \A k : Of(w, k) \subseteq Cell
  BY DEF Of
<1>2. heap.free \subseteq Cell /\ \A k : k # OfFree => Of(w, k) \cap heap.free = {}
  BY FreeApart
<1>3. OfOut # OfFree
  BY OwnersDiffer
<1>4. ASSUME in.cur # NULL
      PROVE  /\ in.cur \in Cell /\ own[in.cur] = None /\ in.cur # OfOut /\ in.cur # OfFree
             /\ \E d : Event(heap, in.cur, Message(SysEx, d), Of(w, in.cur))
  <2>1. in.cur \in Cell /\ own[in.cur] = None
        /\ \E d : Event(heap, in.cur, Message(SysEx, d), Of(w, in.cur))
    BY <1>4 DEF Apportioned
  <2> QED
    BY <2>1, OwnersDiffer
<1>5. ASSUME in.cur # NULL PROVE Of(w, in.cur) \cap Of(w, OfOut) = {}
  BY <1>4, <1>5, OfApart
<1>6. ASSUME NEW x \in Cell, own[x] # None
      PROVE  /\ Of(w, x) \cap Of(w, OfOut) = {}
             /\ in.cur # NULL => Of(w, x) \cap Of(w, in.cur) = {}
  <2>1. x # OfOut
    BY OwnersDiffer
  <2>2. in.cur # NULL => x # in.cur
    BY <1>4, <1>6
  <2>3. Of(w, x) \cap Of(w, OfOut) = {}
    BY <2>1, OfApart
  <2>4. ASSUME in.cur # NULL PROVE Of(w, x) \cap Of(w, in.cur) = {}
    BY <2>2, <2>4, OfApart
  <2> QED
    BY <2>3, <2>4
<1>7. heap \in Heaps
  BY DEF Apportioned
<1> QED
  BY <1>1, <1>2, <1>3, <1>4, <1>5, <1>6, <1>7

LEMMA SparedGrown ==
  ASSUME NEW w, Apportioned(heap, own, out.next, in.cur, w, resets),
         NEW k, NEW T, Grown(heap, k, {}, T)
  PROVE  Spared(w, k)
<1>1. Keeps(heap, k, Of(w, OfOut))
  BY Parts, GrownKeeps
<1>2. ASSUME in.cur # NULL PROVE Keeps(heap, k, Of(w, in.cur))
  BY <1>2, Parts, GrownKeeps
<1> QED
  BY <1>1, <1>2 DEF Spared

LEMMA SparedSame ==
  ASSUME NEW w, Apportioned(heap, own, out.next, in.cur, w, resets),
         NEW k \in Heaps, k.free = heap.free, Unchanged(heap, k, Cell \ heap.free)
  PROVE  Spared(w, k)
<1>1. Keeps(heap, k, Of(w, OfOut))
  BY Parts, SameKeeps
<1>2. ASSUME in.cur # NULL PROVE Keeps(heap, k, Of(w, in.cur))
  BY <1>2, Parts, SameKeeps
<1> QED
  BY <1>1, <1>2 DEF Spared

LEMMA SparedReturned ==
  ASSUME NEW w, Apportioned(heap, own, out.next, in.cur, w, resets),
         NEW k, NEW x \in Cell, own[x] # None, Returned(heap, k, Of(w, x))
  PROVE  Spared(w, k)
<1>1. /\ Of(w, OfOut) \cap Of(w, x) = {}
      /\ in.cur # NULL => Of(w, in.cur) \cap Of(w, x) = {}
  BY Parts
<1>2. Keeps(heap, k, Of(w, OfOut))
  BY <1>1, Parts, ReturnedKeeps
<1>3. ASSUME in.cur # NULL PROVE Keeps(heap, k, Of(w, in.cur))
  BY <1>1, <1>3, Parts, ReturnedKeeps
<1> QED
  BY <1>2, <1>3 DEF Spared

\* The header of an event of the sender is written.
LEMMA SparedWritten ==
  ASSUME NEW w, Apportioned(heap, own, out.next, in.cur, w, resets),
         NEW k \in Heaps, k.free = heap.free, NEW x \in Cell, own[x] # None,
         Unchanged(heap, k, Cell \ Of(w, x))
  PROVE  Spared(w, k)
<1>1. /\ Of(w, OfOut) \subseteq Cell \ Of(w, x) /\ Of(w, OfOut) \cap k.free = {}
      /\ in.cur # NULL => /\ Of(w, in.cur) \subseteq Cell \ Of(w, x)
                          /\ Of(w, in.cur) \cap k.free = {}
  BY Parts
<1>2. Keeps(heap, k, Of(w, OfOut))
  BY <1>1 DEF Keeps, Unchanged
<1>3. ASSUME in.cur # NULL PROVE Keeps(heap, k, Of(w, in.cur))
  BY <1>1, <1>3 DEF Keeps, Unchanged
<1> QED
  BY <1>2, <1>3 DEF Spared

\* The heap after a byte is received: the stream's cells are kept, and the text of the
\* parser's event changes as the byte says.
ReceivedHeap(w, i, c, r) ==
  /\ Keeps(heap, r.heap, Of(w, OfOut))
  /\ r.heap = heap /\ in.cur # NULL => Keeps(heap, r.heap, Of(w, in.cur))

LEMMA ReceiveHeap ==
  ASSUME NEW w, Apportioned(heap, own, out.next, in.cur, w, resets),
         ParserTyped(in), NEW c \in Byte,
         NEW r, r = MidiParseByte(in, c)
  PROVE  ReceivedHeap(w, in, c, r)
<1> DEFINE h == heap
           k == r.heap
           x == in.cur
<1>1. /\ h \in Heaps /\ h.free \subseteq Cell /\ h.free = free
      /\ Of(w, OfOut) \subseteq Cell /\ Of(w, OfOut) \cap h.free = {}
      /\ x # NULL =>
           /\ x \in Cell /\ Of(w, x) \subseteq Cell /\ Of(w, x) \cap h.free = {}
           /\ Of(w, x) \cap Of(w, OfOut) = {}
           /\ \E d : Event(h, x, Message(SysEx, d), Of(w, x))
  BY Parts, HeapIs
<1>2. Kept1(in, c, r) \/ Begun(c, r) \/ Ended(in, r) \/ Filled(in, c, r)
  <2>1. free \subseteq Cell
    BY <1>1
  <2> QED
    BY <2>1, ParseCases
<1>3. in.parse = "SysExNext" => x # NULL
  BY DEF ParserTyped
<1>4. k = h /\ x # NULL => Keeps(h, k, Of(w, x))
  BY <1>1 DEF Keeps, Unchanged
<1> HIDE DEF h, k, x
<1>5. Keeps(h, k, Of(w, OfOut))
  <2>1. CASE Kept1(in, c, r)
    <3>1. k = h
      BY <2>1 DEF Kept1, h, k
    <3> QED
      BY <1>1, <3>1 DEF Keeps, Unchanged
  <2>2. CASE Begun(c, r)
    <3>1. k = NewSexEv(h) /\ Cardinality(h.free) > 1
      BY <1>1, <2>2 DEF Begun, h, k
    <3>2. PICK S : Grown(h, k, {}, S)
      BY <1>1, <3>1, NewSexEvIs
    <3> QED
      BY <1>1, <3>2, GrownKeeps
  <2>3. CASE Ended(in, r)
    <3>1. k = FreeSexEv(h, x) /\ x # NULL
      BY <1>3, <2>3 DEF Ended, h, k, x
    <3>2. PICK d : Event(h, x, Message(SysEx, d), Of(w, x))
      BY <1>1, <3>1
    <3>3. Returned(h, k, Of(w, x))
      BY <1>1, <3>1, <3>2, MSFreeEvIs, SysExKept
    <3> QED
      BY <1>1, <3>1, <3>3, ReturnedKeeps
  <2>4. CASE Filled(in, c, r)
    <3>1. /\ k = AddFSexEv(h, x, c) /\ x # NULL /\ c \in Data
          /\ ~ (NeedsCell(h, x) /\ h.free = {})
      BY <1>1, <1>3, <2>4 DEF Filled, h, k, x
    <3>2. PICK d : Event(h, x, Message(SysEx, d), Of(w, x))
      BY <1>1, <3>1
    <3>3. PICK T : Grown(h, k, Of(w, x), T)
      BY <1>1, <3>1, <3>2, AddFSexEvIs
    <3> QED
      BY <1>1, <3>1, <3>3, GrownKeeps
  <2> QED
    BY <1>2, <2>1, <2>2, <2>3, <2>4
<1> QED
  BY <1>4, <1>5 DEF ReceivedHeap, h, k, x

\* The text of a new event is empty, that of an event that is filled grows by a byte.
LEMMA BegunText ==
  ASSUME NEW c, NEW r, Begun(c, r), Becomes(r.heap), heap \in Heaps
  PROVE  Content(heap', r.in.cur) = <<>>
<1> DEFINE h == heap
           g == heap'
           b == Next1(h)
           k == NewSexEv(h)
           m == Message(SysEx, <<>>)
<1>1. r.in.cur = b /\ r.heap = k /\ Cardinality(h.free) > 1
  BY HeapIs DEF Begun
<1>2. h \in Heaps
  OBVIOUS
<1>3. PICK S : Grown(h, k, {}, S) /\ Event(k, b, m, S)
  <2> HIDE DEF h
  <2> QED
    BY <1>1, <1>2, NewSexEvIs
<1> HIDE DEF h, k, b
<1>4. k \in Heaps /\ S \cap k.free = {} /\ S \subseteq Cell
  <2>1. S \subseteq Cell
    BY <1>3, EventCells
  <2> QED
    BY <1>3, <2>1 DEF Grown
<1>5. Unchanged(k, g, Cell \ k.free)
  BY <1>1, <1>4, BecomesIs
<1> HIDE DEF g
<1>6. Unchanged(k, g, S)
  BY <1>4, <1>5 DEF Unchanged
<1>7. Event(g, b, m, S)
  BY <1>3, <1>6, EventFrame
<1>8. Content(g, b) = <<>>
  BY <1>7, ContentIs
<1> QED
  BY <1>1, <1>8 DEF g

LEMMA FilledText ==
  ASSUME NEW i, NEW c, NEW r, Filled(i, c, r), Becomes(r.heap), heap \in Heaps,
         NEW d, NEW S, Event(heap, i.cur, Message(SysEx, d), S), S \cap heap.free = {}
  PROVE  Content(heap', i.cur) = Append(Content(heap, i.cur), c)
<1> DEFINE h == heap
           g == heap'
           x == i.cur
           k == AddFSexEv(h, x, c)
           m == Message(SysEx, Append(d, c))
<1>1. r.heap = k /\ c \in Data /\ ~ (NeedsCell(h, x) /\ h.free = {})
  BY HeapIs DEF Filled
<1>2. h \in Heaps /\ Event(h, x, Message(SysEx, d), S) /\ S \cap h.free = {}
  OBVIOUS
<1> HIDE DEF h, x, k
<1>3. PICK T : Grown(h, k, S, T) /\ Event(k, x, m, S \cup T)
  BY <1>1, <1>2, AddFSexEvIs DEF k
<1>4. k \in Heaps /\ (S \cup T) \cap k.free = {} /\ S \cup T \subseteq Cell
  <2>1. S \cup T \subseteq Cell
    BY <1>3, EventCells
  <2> QED
    BY <1>2, <1>3, <2>1 DEF Grown
<1>5. Unchanged(k, g, Cell \ k.free)
  BY <1>1, <1>4, BecomesIs
<1> HIDE DEF g
<1>6. Unchanged(k, g, S \cup T)
  BY <1>4, <1>5 DEF Unchanged
<1>7. Event(g, x, m, S \cup T)
  BY <1>3, <1>6, EventFrame
<1>8. Content(g, x) = Append(d, c) /\ Content(h, x) = d
  BY <1>2, <1>7, ContentIs
<1> QED
  BY <1>8 DEF g, h, x

\* What a byte that is received does, to the parser and to its event.
LEMMA ReceiveEffect ==
  ASSUME NEW w, Apportioned(heap, own, out.next, in.cur, w, resets),
         ParserTyped(in), NEW c \in Byte,
         NEW r, r = MidiParseByte(in, c), Becomes(r.heap)
  PROVE  /\ Effect(in, c, Content(heap, in.cur), r.in, Content(heap', r.in.cur), r.msg, r.miss)
         /\ LineText(heap', out.next) = LineText(heap, out.next)
<1> DEFINE s == Content(heap, in.cur)
           u == Content(heap', r.in.cur)
           j == r.in
           m == r.msg
           x == r.miss
<1>1. ReceivedHeap(w, in, c, r)
  BY ReceiveHeap
<1>2. LineText(heap', out.next) = LineText(heap, out.next)
  <2>1. Keeps(heap, r.heap, Of(w, OfOut))
    BY <1>1 DEF ReceivedHeap
  <2> QED
    BY <2>1, LineKeeps
<1>3. in.parse = "SysExNext" => in.cur # NULL
  BY DEF ParserTyped
<1>4. heap \in Heaps /\ free \subseteq Cell
  BY Parts, HeapIs
<1>5. Begun(c, r) => j.parse = "SysExNext" /\ u = <<>>
  BY <1>4, BegunText DEF Begun
<1>6. in.parse = "SysExNext" /\ Filled(in, c, r) => j = in /\ u = Append(s, c)
  <2> SUFFICES ASSUME in.parse = "SysExNext", Filled(in, c, r)
               PROVE  j = in /\ u = Append(s, c)
    OBVIOUS
  <2>1. PICK d : Event(heap, in.cur, Message(SysEx, d), Of(w, in.cur))
    BY <1>3, Parts
  <2>2. Of(w, in.cur) \cap heap.free = {}
    BY <1>3, Parts
  <2>3. j = in
    BY DEF Filled
  <2>4. Content(heap', in.cur) = Append(Content(heap, in.cur), c)
    BY <1>4, <2>1, <2>2, FilledText
  <2> QED
    BY <2>3, <2>4
<1>7. in.parse = "SysExNext" /\ r.heap = heap /\ j = in => u = s
  <2> SUFFICES ASSUME in.parse = "SysExNext", r.heap = heap, j = in PROVE u = s
    OBVIOUS
  <2>1. Keeps(heap, r.heap, Of(w, in.cur)) /\ in.cur # NULL
    BY <1>1, <1>3 DEF ReceivedHeap
  <2>2. Content(heap', in.cur) = Content(heap, in.cur)
    BY <2>1, ContentKeeps
  <2> QED
    BY <2>2
<1>8. c \in Data => DataOf(in, c, r)
  BY ParsedData
<1>9. c < 0 => IF in.parse = "SysExNext" /\ c = EndSysX THEN EndOf(in, c, r)
               ELSE StatusOf(in, c, r)
  BY <1>4, ParsedStatus
<1>10. EndOf(in, c, r) /\ c = EndSysX => m = Message(SysEx, s)
  BY DEF EndOf
<1> HIDE DEF s, u
<1>11. CASE c \in Data
  <2>1. c \notin {NoteOn, ControlChg} /\ c # ProgramChg /\ c # SysEx /\ c # EndSysX /\ c # MClock
    BY <1>11, StatusesNegative
  <2>2. DataOf(in, c, r)
    BY <1>8, <1>11
  <2>3. Effect(in, c, s, j, u, m, x)
    BY <1>6, <2>1, <2>2 DEF Effect, DataOf
  <2> QED
    BY <1>2, <2>3 DEF s, u
<1>12. CASE c \notin Data
  <2>1. c < 0
    BY <1>12, Distinct
  <2>2. CASE in.parse = "SysExNext" /\ c = EndSysX
    <3>1. c \notin {NoteOn, ControlChg} /\ c # ProgramChg /\ c # SysEx /\ c # MClock
      BY <2>2, StatusesNegative
    <3>2. m = Message(SysEx, s)
      BY <1>9, <1>10, <2>1, <2>2
    <3>3. Effect(in, c, s, j, u, m, x)
      BY <1>12, <2>2, <3>1, <3>2 DEF Effect
    <3> QED
      BY <1>2, <3>3 DEF s, u
  <2>3. CASE ~ (in.parse = "SysExNext" /\ c = EndSysX)
    <3>1. StatusOf(in, c, r)
      BY <1>9, <2>1, <2>3
    <3>2. Effect(in, c, s, j, u, m, x)
      BY <1>5, <1>7, <1>12, <2>3, <3>1 DEF Effect, StatusOf
    <3> QED
      BY <1>2, <3>2 DEF s, u
  <2> QED
    BY <2>2, <2>3
<1> QED
  BY <1>11, <1>12

(***************************************************************************)
(* What is due is what the bytes under way will give.                      *)
(***************************************************************************)
InText == Content(heap, in.cur)
OutText == LineText(heap, out.next)

OnItsWay == Carried(due, wire, out.data, out.next, in, InText, OutText, missed)
NoClock == \A x \in Cell : own[x].status # MClock

Tracked == IInv /\ due \in Seq(Lined) /\ missed \in BOOLEAN /\ NoClock /\ OnItsWay

LEMMA LineTypes ==
  ASSUME IInv
  PROVE  /\ wire \in Seq(Byte) /\ Len(wire) \in Nat
         /\ out.data \in Seq(Byte) /\ Len(out.data) \in Nat
         /\ out.data = <<>> => out.next = NULL
         /\ ParserTyped(in) /\ (in.parse = "SysExNext" => in.cur # NULL)
         /\ \E w : Apportioned(heap, own, out.next, in.cur, w, resets)
<1>1. wire \in Seq(Byte) /\ out.data \in Seq(Byte) /\ (out.data = <<>> => out.next = NULL)
  BY DEF IInv, LineTyped
<1>2. ParserTyped(in) /\ (in.parse = "SysExNext" => in.cur # NULL)
  BY DEF IInv, ParserTyped
<1>3. \E w : Apportioned(heap, own, out.next, in.cur, w, resets)
  BY DEF IInv, Shared
<1> QED
  BY <1>1, <1>2, <1>3

\* Steps of the sender that leave the line alone.
LEMMA SenderTracked ==
  ASSUME Tracked, IInv', UNCHANGED lineVars, SameTexts, NoClock'
  PROVE  Tracked'
<1>1. out' = out /\ wire' = wire /\ in' = in /\ due' = due /\ missed' = missed
  BY DEF lineVars
<1>2. InText' = Content(heap', in.cur) /\ OutText' = LineText(heap', out.next)
  BY <1>1 DEF InText, OutText
<1>3. in.parse = "SysExNext" => InText' = InText
  <2>1. in.parse = "SysExNext" => in.cur # NULL
    BY LineTypes DEF Tracked
  <2> QED
    BY <1>2, <2>1 DEF SameTexts, InText
<1>4. OutText' = OutText
  BY <1>2 DEF SameTexts, OutText
<1>5. Carried(due, wire, out.data, out.next, in, InText, OutText, missed)
  BY DEF Tracked, OnItsWay
<1>6. Carried(due, wire, out.data, out.next, in, InText', OutText, missed)
  BY <1>3, <1>5, CarriedFrame
<1>7. OnItsWay'
  BY <1>1, <1>4, <1>6 DEF OnItsWay
<1> QED
  BY <1>1, <1>7 DEF Tracked

LEMMA NewEvTracked ==
  ASSUME Tracked, NEW m \in Small, m.status # MClock, MidiNewEv(m)
  PROVE  Tracked'
<1> DEFINE h == heap
           x == Next1(h)
           k == NewSmallEv(h, m)
<1>1. PICK w : Apportioned(h, own, out.next, in.cur, w, resets)
  BY DEF Tracked, IInv, Shared
<1>2. h \in Heaps /\ h.free # {} /\ Clean(h)
  BY <1>1, HeapIs DEF MidiNewEv, Tracked, IInv, Shared, Apportioned
<1>3. m \in SmallMessages
  BY StreamsAssumption
<1>4. Becomes(k) /\ own' = [own EXCEPT ![x] = m] /\ UNCHANGED lineVars
  BY DEF MidiNewEv
<1>5. Grown(h, k, {}, {x})
  <2>1. h.se[x] = NULL
    <3> HIDE DEF h
    <3> QED
      BY <1>2, TakenIs DEF Clean
  <2> HIDE DEF h
  <2> QED
    BY <1>2, <1>3, <2>1, NewSmallEvIs
<1> HIDE DEF k, x
<1>6. Spared(w, k)
  BY <1>1, <1>5, SparedGrown
<1>7. SameTexts
  BY <1>1, <1>4, <1>6, SparedTexts
<1>8. NoClock'
  <2>1. own \in [Cell -> Kept \cup {None}] /\ NoClock
    BY <1>1 DEF Apportioned, Tracked
  <2> QED
    BY <1>4, <2>1 DEF NoClock
<1>9. IInv'
  BY NewEvStep DEF Tracked
<1> QED
  BY <1>4, <1>7, <1>8, <1>9, SenderTracked

LEMMA NewSysExTracked ==
  ASSUME Tracked, NEW text \in Text, MidiNewSysEx(text)
  PROVE  Tracked'
<1> DEFINE h == heap
           x == Next1(h)
           g == NewSexEv(h)
           end == AddFields(g, x, text)
           k == end.heap
<1>1. PICK w : Apportioned(h, own, out.next, in.cur, w, resets)
  BY DEF Tracked, IInv, Shared
<1>2. h \in Heaps /\ Cardinality(h.free) > 1
  BY <1>1, HeapIs DEF MidiNewSysEx, Apportioned
<1>3. text \in Seq(Data)
  BY StreamsAssumption
<1>4. /\ UNCHANGED lineVars
      /\ end.ok => Becomes(k) /\ own' = [own EXCEPT ![x] = Message(SysEx, text)]
      /\ ~end.ok => Becomes(FreeSexEv(k, x)) /\ own' = own
  BY DEF MidiNewSysEx
<1>5. \A f : Spared(w, f) /\ Becomes(f) => SameTexts
  BY <1>1, SparedTexts
<1>6. \A f, T : Grown(h, f, {}, T) => Spared(w, f)
  BY <1>1, SparedGrown
<1>7. \A f \in Heaps : f.free = h.free /\ Unchanged(h, f, Cell \ h.free) => Spared(w, f)
  BY <1>1, SparedSame
<1>8. NoClock'
  <2>1. own \in [Cell -> Kept \cup {None}] /\ NoClock
    BY <1>1 DEF Apportioned, Tracked
  <2>2. Message(SysEx, text).status # MClock
    BY StatusesDiffer
  <2> QED
    BY <1>4, <2>1, <2>2 DEF NoClock
<1> HIDE DEF h
<1>9. PICK S : Grown(h, g, {}, S) /\ Event(g, x, Message(SysEx, <<>>), S)
  BY <1>2, NewSexEvIs
<1> HIDE DEF x, g
<1>10. g \in Heaps /\ S \cap g.free = {}
  BY <1>9 DEF Grown
<1>11. /\ end.ok \in BOOLEAN
       /\ \E T, d : Grown(g, k, S, T) /\ Event(k, x, Message(SysEx, d), S \cup T)
  BY <1>3, <1>9, <1>10, AddFieldsIs
<1> HIDE DEF end
<1>12. PICK T, d : Grown(g, k, S, T) /\ Event(k, x, Message(SysEx, d), S \cup T)
  BY <1>11
<1> HIDE DEF k
<1>13. Grown(h, k, {}, S \cup T)
  <2>1. {} \cup S = S
    OBVIOUS
  <2> QED
    BY <1>9, <1>12, <2>1, GrownTwice
<1>14. SameTexts
  <2>1. CASE end.ok
    BY <1>4, <1>5, <1>6, <1>13, <2>1
  <2>2. CASE ~end.ok
    <3> DEFINE f == FreeSexEv(k, x)
    <3>1. Returned(k, f, S \cup T)
      <4>1. k \in Heaps /\ Message(SysEx, d).status = SysEx
        BY <1>13, SysExKept DEF Grown
      <4> QED
        BY <1>12, <4>1, MSFreeEvIs
    <3> HIDE DEF f
    <3>2. f \in Heaps /\ f.free = h.free /\ Unchanged(h, f, Cell \ h.free)
      BY <1>13, <3>1 DEF Returned, Grown, Unchanged
    <3>3. Becomes(f)
      BY <1>4, <2>2 DEF f
    <3> QED
      BY <1>5, <1>7, <3>2, <3>3
  <2> QED
    BY <1>11, <2>1, <2>2
<1>15. IInv'
  BY NewSysExStep DEF Tracked
<1> QED
  BY <1>4, <1>8, <1>14, <1>15, SenderTracked

LEMMA CopyTracked ==
  ASSUME Tracked, NEW x \in Cell, MidiCopyEv(x)
  PROVE  Tracked'
<1> DEFINE h == heap
           end == CopySexEv(h, x)
           k == end.heap
           c == Next1(h)
<1>1. PICK w : Apportioned(h, own, out.next, in.cur, w, resets)
  BY DEF Tracked, IInv, Shared
<1>2. own[x].status = SysEx /\ Cardinality(h.free) > 1 /\ own[x] # None
  BY HeapIs, SysExKept DEF MidiCopyEv
<1>3. /\ UNCHANGED lineVars /\ Becomes(k)
      /\ own' = IF end.ok THEN [own EXCEPT ![c] = own[x]] ELSE own
  BY DEF MidiCopyEv
<1>4. \A f, T : Grown(h, f, {}, T) => Spared(w, f)
  BY <1>1, SparedGrown
<1>5. \A f \in Heaps : f.free = h.free /\ Unchanged(h, f, Cell \ h.free) => Spared(w, f)
  BY <1>1, SparedSame
<1>6. \A f : Spared(w, f) /\ Becomes(f) => SameTexts
  BY <1>1, SparedTexts
<1> HIDE DEF h
<1>7. /\ own[x] \in Kept /\ Event(h, x, own[x], Of(w, x))
      /\ Of(w, x) \cap h.free = {} /\ h \in Heaps
  BY <1>1, <1>2, OwnEvent
<1>8. /\ end.ok \in BOOLEAN
      /\ end.ok => \E T : Grown(h, k, {}, T)
      /\ ~end.ok => Grown(h, k, h.free, {})
  BY <1>2, <1>7, CopySexEvIs
<1> HIDE DEF end, c, k
<1>9. Spared(w, k)
  <2>1. CASE end.ok
    BY <1>4, <1>8, <2>1
  <2>2. CASE ~end.ok
    <3>1. k \in Heaps /\ k.free = h.free /\ Unchanged(h, k, Cell \ h.free)
      BY <1>8, <2>2 DEF Grown, Unchanged
    <3> QED
      BY <1>5, <3>1
  <2> QED
    BY <1>8, <2>1, <2>2
<1>10. SameTexts
  BY <1>3, <1>6, <1>9
<1>11. NoClock'
  <2>1. own \in [Cell -> Kept \cup {None}] /\ NoClock
    BY <1>1 DEF Apportioned, Tracked
  <2> QED
    BY <1>3, <2>1 DEF NoClock
<1>12. IInv'
  BY CopyStep DEF Tracked
<1> QED
  BY <1>3, <1>10, <1>11, <1>12, SenderTracked

LEMMA FreeTracked ==
  ASSUME Tracked, NEW x \in Cell, MidiFreeEv(x)
  PROVE  Tracked'
<1> DEFINE h == heap
           k == MSFreeEv(h, x)
<1>1. PICK w : Apportioned(h, own, out.next, in.cur, w, resets)
  BY DEF Tracked, IInv, Shared
<1>2. /\ own[x] # None /\ UNCHANGED lineVars /\ Becomes(k)
      /\ own' = [own EXCEPT ![x] = None]
  BY DEF MidiFreeEv
<1>3. Returned(h, k, Of(w, x))
  <2> HIDE DEF h
  <2>1. Event(h, x, own[x], Of(w, x)) /\ h \in Heaps
    BY <1>1, <1>2, OwnEvent
  <2> QED
    BY <2>1, MSFreeEvIs
<1> HIDE DEF k
<1>4. Spared(w, k)
  BY <1>1, <1>2, <1>3, SparedReturned
<1>5. SameTexts
  BY <1>1, <1>2, <1>4, SparedTexts
<1>6. NoClock'
  <2>1. own \in [Cell -> Kept \cup {None}] /\ NoClock /\ None.status # MClock
    BY <1>1, StatusesDiffer DEF Apportioned, Tracked, MClock
  <2> QED
    BY <1>2, <2>1 DEF NoClock
<1>7. IInv'
  BY FreeStep DEF Tracked
<1> QED
  BY <1>2, <1>5, <1>6, <1>7, SenderTracked

\* What is due before a message is put on the line.
StillDue == IF wire = <<>> THEN <<>> ELSE due

LEMMA PutSettled ==
  ASSUME Tracked, Idle, NEW m, Put(m)
  PROVE  /\ StillDue \in Seq(Lined) /\ Settled(StillDue, wire, in, InText, missed')
         /\ due' = StillDue \o Messages(m) /\ missed' \in BOOLEAN
         /\ out.next = NULL /\ out.data = <<>>
<1>1. out.data = <<>> /\ out.next = NULL
  BY LineTypes DEF Idle, Tracked
<1>2. /\ due' = StillDue \o Messages(m)
      /\ missed' = (missed /\ wire # <<>>)
  BY DEF Put, StillDue
<1>3. missed \in BOOLEAN /\ due \in Seq(Lined)
  BY DEF Tracked
<1>4. CASE wire = <<>>
  <2>1. StillDue = <<>> /\ missed' = FALSE
    BY <1>2, <1>4 DEF StillDue
  <2>2. Settled(<<>>, <<>>, in, InText, missed')
    BY FreshSettled
  <2> QED
    BY <1>1, <1>2, <1>4, <2>1, <2>2
<1>5. CASE wire # <<>>
  <2>1. StillDue = due /\ missed' = missed
    BY <1>2, <1>3, <1>5 DEF StillDue
  <2>2. Carried(due, wire, <<>>, NULL, in, InText, OutText, missed)
    BY <1>1 DEF Tracked, OnItsWay
  <2>3. Settled(due, wire, in, InText, missed)
    BY <2>2, IdleSettled
  <2> QED
    BY <1>1, <1>2, <1>3, <2>1, <2>3
<1> QED
  BY <1>4, <1>5

LEMMA PutSmallTracked ==
  ASSUME Tracked, NEW x \in Cell, PutSmall(x)
  PROVE  Tracked'
<1> DEFINE h == heap
           m == own[x]
           t == <<Head(Messages(m)).status>> \o m.data
           end == Message(NoteOn, <<m.data[1], 0>>)
           g == [h EXCEPT !.ev[x] = end]
<1>1. PICK w : Apportioned(h, own, out.next, in.cur, w, resets)
  BY DEF Tracked, IInv, Shared
<1>2. /\ Idle /\ m # None /\ m.status # SysEx /\ Put(m)
      /\ wire' = wire /\ in' = in
  BY DEF PutSmall
<1>3. m \in Kept /\ Event(h, x, m, Of(w, x)) /\ h \in Heaps
  <2> HIDE DEF h
  <2> QED
    BY <1>1, <1>2, OwnEvent
<1>4. h.ev[x] = m /\ h.se[x] = NULL /\ Of(w, x) = {x} /\ m \in SmallMessages
  <2> HIDE DEF h, m
  <2> QED
    BY <1>2, <1>3, SysExKept DEF Event
<1>5. ev[x] = m
  BY <1>4, HeapIs
<1>6. out' = [out EXCEPT !.data = t]
  BY <1>5 DEF PutSmall
<1>7. /\ m.status = Note => Becomes(g) /\ own' = [own EXCEPT ![x] = end]
      /\ m.status # Note => Becomes(FreeCell(h, x)) /\ own' = [own EXCEPT ![x] = None]
  BY <1>5 DEF PutSmall
<1>8. m.status # MClock
  BY DEF Tracked, NoClock
<1>9. /\ \A f : Returned(h, f, Of(w, x)) => Spared(w, f)
      /\ \A f \in Heaps : f.free = h.free /\ Unchanged(h, f, Cell \ Of(w, x)) => Spared(w, f)
      /\ \A f : Spared(w, f) /\ Becomes(f) => SameTexts
  <2>1. \A f : Returned(h, f, Of(w, x)) => Spared(w, f)
    BY <1>1, <1>2, SparedReturned
  <2>2. \A f \in Heaps : f.free = h.free /\ Unchanged(h, f, Cell \ Of(w, x)) => Spared(w, f)
    BY <1>1, <1>2, SparedWritten
  <2>3. \A f : Spared(w, f) /\ Becomes(f) => SameTexts
    BY <1>1, SparedTexts
  <2> QED
    BY <2>1, <2>2, <2>3
<1>10. SameTexts
  <2>1. CASE m.status = Note
    <3>1. Becomes(g)
      BY <1>7, <2>1
    <3>2. end \in Kept
      BY <1>4, <2>1, SmallData, SysExKept
    <3> HIDE DEF h, end
    <3>3. /\ g \in Heaps /\ g.free = h.free /\ g.se = h.se /\ g.link = h.link
          /\ g.bytes = h.bytes /\ \A b \in Cell : b # x => g.ev[b] = h.ev[b]
      <4> DEFINE f == [h.ev EXCEPT ![x] = end]
      <4>1. /\ f \in [Cell -> Kept \cup {NULL}]
            /\ \A b \in Cell : b # x => f[b] = h.ev[b]
        BY <1>3, <3>2 DEF Heaps
      <4>2. g = [h EXCEPT !.ev = f]
        OBVIOUS
      <4> HIDE DEF f, g
      <4> QED
        BY <1>3, <4>1, <4>2 DEF Heaps
    <3> HIDE DEF g
    <3>4. Unchanged(h, g, Cell \ Of(w, x))
      BY <1>4, <3>3 DEF Unchanged
    <3> QED
      BY <1>9, <3>1, <3>3, <3>4
  <2>2. CASE m.status # Note
    <3> DEFINE f == FreeCell(h, x)
    <3>1. Returned(h, f, Of(w, x))
      <4> HIDE DEF h, m
      <4> QED
        BY <1>2, <1>3, <1>4, MSFreeEvIs DEF MSFreeEv
    <3>2. Becomes(f)
      BY <1>7, <2>2
    <3> HIDE DEF f
    <3> QED
      BY <1>9, <3>1, <3>2
  <2> QED
    BY <2>1, <2>2
<1>11. NoClock'
  <2>1. own \in [Cell -> Kept \cup {None}] /\ NoClock
    BY <1>1 DEF Apportioned, Tracked
  <2>2. end.status # MClock /\ None.status # MClock
    BY StatusesDiffer DEF MClock
  <2> HIDE DEF end, g
  <2>3. own' = [own EXCEPT ![x] = end] \/ own' = [own EXCEPT ![x] = None]
    BY <1>7
  <2> QED
    BY <2>1, <2>2, <2>3 DEF NoClock
<1>12. /\ StillDue \in Seq(Lined) /\ Settled(StillDue, wire, in, InText, missed')
       /\ due' = StillDue \o Messages(m) /\ missed' \in BOOLEAN
       /\ out.next = NULL
  BY <1>2, PutSettled
<1>13. out'.data = t /\ out'.next = NULL
  <2>1. out \in [data : Seq(Byte), next : Cell \cup {NULL}]
    BY DEF Tracked, IInv, LineTyped
  <2> HIDE DEF t
  <2> QED
    BY <1>6, <1>12, <2>1
<1>14. Len(wire) \in Nat /\ (in.parse = "SysExNext" => in.cur # NULL)
  BY LineTypes DEF Tracked
<1>15. Carried(due', wire, t, NULL, in, InText, OutText', missed') /\ due' \in Seq(Lined)
  <2> HIDE DEF m
  <2> QED
    BY <1>4, <1>8, <1>12, <1>14, CarriedSmall
<1>16. in.parse = "SysExNext" => InText' = InText
  BY <1>2, <1>10, <1>14 DEF SameTexts, InText
<1> HIDE DEF t
<1>17. Carried(due', wire, t, NULL, in, InText', OutText', missed')
  BY <1>15, <1>16, CarriedFrame
<1>18. OnItsWay'
  BY <1>2, <1>13, <1>17 DEF OnItsWay
<1>19. IInv'
  BY PutSmallStep DEF Tracked
<1> QED
  BY <1>11, <1>12, <1>15, <1>18, <1>19 DEF Tracked

LEMMA ResetTracked ==
  ASSUME Tracked, MidiStreamReset
  PROVE  Tracked'
<1> DEFINE h == heap
           S == ToSet(Cells(h, out.next))
           g == [h EXCEPT !.free = @ \cup S]
<1>1. PICK w : Apportioned(h, own, out.next, in.cur, w, resets)
  BY DEF Tracked, IInv, Shared
<1>2. /\ own' = own /\ wire' = wire /\ in' = in /\ due' = due
      /\ out' = [data |-> <<>>, next |-> NULL] /\ missed' = TRUE
      /\ out.next = NULL => Becomes(h)
      /\ out.next # NULL => Becomes(g)
  BY DEF MidiStreamReset
<1>3. ASSUME in.cur # NULL PROVE Content(heap', in.cur) = Content(heap, in.cur)
  <2>1. /\ h \in Heaps /\ in.cur \in Cell /\ Of(w, in.cur) \subseteq Cell
        /\ Of(w, in.cur) \cap h.free = {} /\ Of(w, in.cur) \cap Of(w, OfOut) = {}
    BY <1>1, <1>3, Parts
  <2>2. CASE out.next = NULL
    <3>1. Keeps(h, h, Of(w, in.cur))
      BY <2>1 DEF Keeps, Unchanged
    <3>2. Becomes(h)
      BY <1>2, <2>2
    <3> QED
      BY <1>1, <1>3, <3>1, <3>2, ContentKeeps
  <2>3. CASE out.next # NULL
    <3>1. Becomes(g)
      BY <1>2, <2>3
    <3>2. S = Of(w, OfOut) /\ S \subseteq Cell
      <4>1. Line(h, out.next, Of(w, OfOut))
        BY <1>1 DEF Apportioned
      <4> HIDE DEF h
      <4> QED
        BY <2>3, <4>1, LineCells
    <3>3. Keeps(h, g, Of(w, in.cur))
      <4> HIDE DEF h, S
      <4>1. Returned(h, g, S)
        BY <2>1, <3>2 DEF Returned, Heaps, Unchanged
      <4> HIDE DEF g
      <4> QED
        BY <2>1, <3>2, <4>1, ReturnedKeeps
    <3> HIDE DEF g
    <3> QED
      BY <1>1, <1>3, <3>1, <3>3, ContentKeeps
  <2> QED
    BY <2>2, <2>3
<1>4. /\ Len(out.data) \in Nat /\ (in.parse = "SysExNext" => in.cur # NULL)
  BY LineTypes DEF Tracked
<1>5. Carried(due, wire, <<>>, NULL, in, InText, OutText', TRUE)
  <2>1. Carried(due, wire, out.data, out.next, in, InText, OutText, missed)
    BY DEF Tracked, OnItsWay
  <2> QED
    BY <1>4, <2>1, CarriedReset
<1>6. in.parse = "SysExNext" => InText' = InText
  BY <1>2, <1>3, <1>4 DEF InText
<1>7. Carried(due, wire, <<>>, NULL, in, InText', OutText', TRUE)
  BY <1>5, <1>6, CarriedFrame
<1>8. OnItsWay'
  BY <1>2, <1>7 DEF OnItsWay
<1>9. IInv'
  BY ResetStep DEF Tracked
<1> QED
  BY <1>2, <1>8, <1>9 DEF Tracked, NoClock

LEMMA MergeTracked ==
  ASSUME Tracked, Merge
  PROVE  Tracked'
<1>1. /\ wire' = Append(wire, MClock) /\ due' = due /\ missed' = missed
      /\ heap' = heap /\ own' = own /\ out' = out /\ in' = in
  BY DEF Merge, heapVars, heap
<1>2. InText' = InText /\ OutText' = OutText
  BY <1>1 DEF InText, OutText
<1>3. wire \in Seq(Byte)
  BY LineTypes DEF Tracked
<1>4. Carried(due, wire', out.data, out.next, in, InText, OutText, missed)
  <2>1. Carried(due, wire, out.data, out.next, in, InText, OutText, missed)
    BY DEF Tracked, OnItsWay
  <2> QED
    BY <1>1, <1>3, <2>1, CarriedMerge
<1>5. OnItsWay'
  BY <1>1, <1>2, <1>4 DEF OnItsWay
<1>6. IInv'
  BY MergeStep DEF Tracked
<1> QED
  BY <1>1, <1>5, <1>6 DEF Tracked, NoClock

\* What a list holds.
LEMMA LineTextTypes ==
  ASSUME NEW h \in Heaps, NEW y, NEW S, Line(h, y, S)
  PROVE  LineText(h, y) \in Seq(Data) /\ (y = NULL => LineText(h, y) = <<>>)
<1>1. CASE y = NULL
  BY <1>1 DEF LineText
<1>2. CASE y # NULL
  BY <1>2, LineTextHead
<1> QED
  BY <1>1, <1>2

LEMMA SmallShort ==
  ASSUME NEW m \in SmallMessages
  PROVE  m.status # SysEx
BY DEF SmallMessages, Message, SysEx, NoteOn, ControlChg, Note, ProgramChg, MClock, Ctrl14b

LEMMA PutSysExTracked ==
  ASSUME Tracked, NEW x \in Cell, PutSysEx(x)
  PROVE  Tracked'
<1> DEFINE h == heap
           m == own[x]
           first == h.link[h.se[x]]
           g == [h EXCEPT !.link[h.se[x]] = NULL]
           end == IF first = h.se[x] THEN <<EndSysX>> ELSE <<>>
           b == h.bytes[first]
           z == g.link[first]
           k == FreeCell(FreeCell(g, x), first)
           t == LineText(k, z)
           c == in.cur
<1>1. PICK w : Apportioned(h, own, out.next, c, w, resets)
  BY DEF Tracked, IInv, Shared
<1>2. /\ Idle /\ m.status = SysEx /\ Put(m)
      /\ wire' = wire /\ in' = in /\ own' = [own EXCEPT ![x] = None]
  BY DEF PutSysEx
<1>3. out' = [data |-> <<SysEx>> \o b \o end, next |-> z] /\ Becomes(k)
  BY HeapIs DEF PutSysEx
<1>4. /\ StillDue \in Seq(Lined) /\ Settled(StillDue, wire, in, InText, missed')
      /\ due' = StillDue \o Messages(m) /\ missed' \in BOOLEAN
      /\ out.next = NULL
  BY <1>2, PutSettled
<1>5. Len(wire) \in Nat /\ (in.parse = "SysExNext" => in.cur # NULL)
  BY LineTypes DEF Tracked
<1>6. NoClock'
  <2>1. own \in [Cell -> Kept \cup {None}] /\ NoClock /\ None.status # MClock
    BY <1>1, StatusesDiffer DEF Apportioned, Tracked, MClock
  <2> QED
    BY <1>2, <2>1 DEF NoClock
<1>7. m \in Lined /\ Messages(m) = <<m>> /\ m # None
  <2>1. m \in Kept \cup {None} /\ m # None
    BY <1>1, <1>2, SysExKept DEF Apportioned
  <2>2. m \notin SmallMessages
    BY <1>2, SmallShort
  <2>3. m \in {Message(SysEx, d) : d \in Seq(Data)}
    BY <2>1, <2>2 DEF Kept
  <2>4. m \in Lined
    BY <2>3 DEF Lined
  <2>5. Messages(m) = <<m>>
    BY <1>2 DEF Messages, SysEx, Note, Ctrl14b
  <2> QED
    BY <2>1, <2>4, <2>5
<1> HIDE DEF h
<1>8. Apportioned(h, own, NULL, c, w, resets) /\ h \in Heaps
  BY <1>1, <1>4 DEF Apportioned
<1>9. /\ m.data = b \o LineText(k, z)
      /\ c # NULL => Unchanged(h, k, Of(w, c))
      /\ first = h.se[x] => z = NULL
  <2>1. Opened(h, own, c, w, x, first, z, k)
    BY <1>2, <1>8, PutText
  <2> HIDE DEF k, z, first
  <2> QED
    BY <2>1 DEF Opened
<1>10. /\ \E v : Apportioned(k, [own EXCEPT ![x] = None], z, c, v, resets)
       /\ first \in Cell
       /\ z = NULL => first = h.se[x]
  BY <1>2, <1>8, OwnPut
<1>11. PICK v : Apportioned(k, [own EXCEPT ![x] = None], z, c, v, resets)
  BY <1>10
<1>12. b \in Seq(Data)
  BY <1>8, <1>10 DEF Heaps, Contents
<1>13. end = IF z = NULL THEN <<EndSysX>> ELSE <<>>
  BY <1>9, <1>10
<1> HIDE DEF k, z, first, b, end
<1>14. /\ k \in Heaps /\ Line(k, z, Of(v, OfOut)) /\ Of(v, OfFree) = k.free
       /\ \A a : a # OfFree => Of(v, a) \subseteq Cell \ k.free
  <2>1. k \in Heaps /\ Line(k, z, Of(v, OfOut)) /\ Of(v, OfFree) = k.free
    BY <1>11 DEF Apportioned
  <2>2. \A a : a # OfFree => Of(v, a) \cap k.free = {}
    BY <1>11, FreeApart
  <2> QED
    BY <2>1, <2>2 DEF Of
<1>15. t \in Seq(Data) /\ (z = NULL => t = <<>>) /\ m.data = b \o t
  BY <1>9, <1>14, LineTextTypes
<1>16. Unchanged(k, heap', Cell \ k.free)
  BY <1>3, <1>14, BecomesIs
<1>17. OutText' = t
  <2>1. Unchanged(k, heap', Of(v, OfOut))
    <3>1. Of(v, OfOut) \subseteq Cell \ k.free
      BY <1>14, OwnersDiffer
    <3> QED
      BY <1>16, <3>1 DEF Unchanged
  <2> DEFINE f == heap'
  <2> HIDE DEF f
  <2>2. LineText(f, z) = LineText(k, z)
    <3>1. Unchanged(k, f, Of(v, OfOut))
      BY <2>1 DEF f
    <3> QED
      BY <1>14, <3>1, LineTextFrame
  <2>3. out'.next = z
    BY <1>3
  <2> QED
    BY <2>2, <2>3 DEF OutText, f
<1> HIDE DEF t
<1>18. ASSUME c # NULL PROVE Content(heap', c) = Content(h, c)
  <2>1. PICK d : Event(h, c, Message(SysEx, d), Of(w, c))
    BY <1>8, <1>18 DEF Apportioned
  <2>2. Event(k, c, Message(SysEx, d), Of(w, c))
    BY <1>9, <1>18, <2>1, EventFrame
  <2>3. PICK a : Event(k, c, Message(SysEx, a), Of(v, c))
    BY <1>11, <1>18 DEF Apportioned
  <2>4. Content(k, c) = d /\ Content(k, c) = a /\ Content(h, c) = d
    BY <2>1, <2>2, <2>3, ContentIs
  <2>5. c # OfFree
    BY <1>11, <1>18, OwnersDiffer DEF Apportioned
  <2> DEFINE f == heap'
  <2>6. Unchanged(k, f, Of(v, c))
    <3>1. Of(v, c) \subseteq Cell \ k.free
      BY <1>14, <2>5
    <3> QED
      BY <1>16, <3>1 DEF Unchanged
  <2> HIDE DEF f
  <2>7. Event(f, c, Message(SysEx, a), Of(v, c))
    BY <2>3, <2>6, EventFrame
  <2>8. Content(f, c) = a
    BY <2>7, ContentIs
  <2> QED
    BY <2>4, <2>8 DEF f
<1>19. in.parse = "SysExNext" => InText' = InText
  BY <1>2, <1>5, <1>18 DEF InText, h
<1>20. /\ Carried(due', wire, <<SysEx>> \o (b \o end), z, in, InText, t, missed')
       /\ due' \in Seq(Lined)
  <2> HIDE DEF m
  <2>1. /\ Carried(StillDue \o <<m>>, wire, <<SysEx>> \o (b \o end), z, in, InText, t, missed')
        /\ StillDue \o <<m>> \in Seq(Lined)
    BY <1>2, <1>4, <1>5, <1>7, <1>12, <1>13, <1>15, CarriedSysEx
  <2> QED
    BY <1>4, <1>7, <2>1
<1>21. <<SysEx>> \o b \o end = <<SysEx>> \o (b \o end)
  <2>1. Data \subseteq Byte /\ EndSysX \in Byte /\ SysEx \in Byte
    BY DEF Byte
  <2>2. <<SysEx>> \in Seq(Byte) /\ b \in Seq(Byte) /\ end \in Seq(Byte)
    <3>1. b \in Seq(Byte) /\ <<SysEx>> \in Seq(Byte)
      BY <1>12, <2>1
    <3>2. end \in Seq(Byte)
      <4>1. <<EndSysX>> \in Seq(Byte) /\ <<>> \in Seq(Byte)
        BY <2>1
      <4> QED
        BY <1>13, <4>1
    <3> QED
      BY <3>1, <3>2
  <2> QED
    BY <2>2, Regrouped
<1>22. Carried(due', wire, <<SysEx>> \o (b \o end), z, in, InText', t, missed')
  BY <1>19, <1>20, CarriedFrame
<1>23. OnItsWay'
  <2>1. out'.data = <<SysEx>> \o (b \o end) /\ out'.next = z
    BY <1>3, <1>21
  <2> QED
    BY <1>2, <1>17, <1>22, <2>1 DEF OnItsWay
<1>24. IInv'
  BY PutSysExStep DEF Tracked
<1> QED
  BY <1>4, <1>6, <1>20, <1>23, <1>24 DEF Tracked

LEMMA GetByteTracked ==
  ASSUME Tracked, MidiStreamGetByte
  PROVE  Tracked'
<1> DEFINE h == heap
           d == out.data
           y == out.next
           a == Head(d)
<1>1. PICK w : Apportioned(h, own, y, in.cur, w, resets)
  BY DEF Tracked, IInv, Shared
<1>2. /\ d # <<>> /\ wire' = Append(wire, a) /\ own' = own /\ in' = in
      /\ due' = due /\ missed' = missed
  BY DEF MidiStreamGetByte, Idle
<1>3. \/ (Len(d) > 1 \/ y = NULL) /\ out' = [out EXCEPT !.data = Tail(d)] /\ heap' = heap
      \/ /\ ~ (Len(d) > 1 \/ y = NULL)
         /\ out' = [data |-> Continued(y), next |-> h.link[y]] /\ Becomes(FreeCell(h, y))
  BY HeapIs DEF MidiStreamGetByte, heapVars, heap
<1>4. /\ wire \in Seq(Byte) /\ d \in Seq(Byte) /\ Len(d) \in Nat
      /\ in.parse = "SysExNext" => in.cur # NULL
  BY LineTypes DEF Tracked
<1>5. out \in [data : Seq(Byte), next : Cell \cup {NULL}]
  BY DEF Tracked, IInv, LineTyped
<1>6. IInv' /\ NoClock' /\ due' \in Seq(Lined) /\ missed' \in BOOLEAN
  BY <1>2, GetByteStep DEF Tracked, NoClock
<1>7. Carried(due, wire \o <<a>>, Tail(d), y, in, InText, OutText, missed)
  <2>1. Carried(due, wire, d, y, in, InText, OutText, missed)
    BY DEF Tracked, OnItsWay
  <2> HIDE DEF d, y
  <2> QED
    BY <1>2, <1>4, <2>1, CarriedByte
<1>8. wire' = wire \o <<a>>
  <2>1. a \in Byte
    BY <1>2, <1>4
  <2> QED
    BY <1>2, <1>4, <2>1, AppendIsConcat
<1>9. CASE (Len(d) > 1 \/ y = NULL) /\ out' = [out EXCEPT !.data = Tail(d)] /\ heap' = heap
  <2>1. out'.data = Tail(d) /\ out'.next = y
    BY <1>5, <1>9
  <2>2. InText' = InText /\ OutText' = OutText
    BY <1>2, <1>9, <2>1 DEF InText, OutText
  <2>3. OnItsWay'
    BY <1>2, <1>7, <1>8, <2>1, <2>2 DEF OnItsWay
  <2> QED
    BY <1>6, <2>3 DEF Tracked
<1>10. CASE /\ ~ (Len(d) > 1 \/ y = NULL)
            /\ out' = [data |-> Continued(y), next |-> h.link[y]] /\ Becomes(FreeCell(h, y))
  <2> DEFINE k == FreeCell(h, y)
             z == h.link[y]
             b == h.bytes[y]
             end == IF z = NULL THEN <<EndSysX>> ELSE <<>>
             c == LineText(h, z)
  <2>1. y # NULL /\ Becomes(k) /\ Tail(d) = <<>>
    <3>1. y # NULL /\ Becomes(k) /\ ~ Len(d) > 1
      BY <1>10
    <3>2. Len(Tail(d)) = Len(d) - 1 /\ Tail(d) \in Seq(Byte)
      BY <1>2, <1>4, HeadTailProperties
    <3>3. Len(d) # 0
      BY <1>2, <1>4
    <3>4. Len(Tail(d)) = 0
      <4>1. \A n \in Nat : ~ n > 1 /\ n # 0 => n - 1 = 0
        OBVIOUS
      <4>2. Len(d) \in Nat
        BY <1>4
      <4> QED
        BY <3>1, <3>2, <3>3, <4>1, <4>2
    <3> QED
      BY <3>1, <3>2, <3>4
  <2>2. out'.data = b \o end /\ out'.next = z
    BY <1>10, HeapIs DEF Continued
  <2>3. OutText = LineText(h, y)
    BY DEF OutText
  <2>4. /\ h \in Heaps /\ h.free \subseteq Cell
        /\ Of(w, OfOut) \subseteq Cell /\ Of(w, OfOut) \cap h.free = {}
        /\ in.cur # NULL =>
             /\ Of(w, in.cur) \subseteq Cell /\ Of(w, in.cur) \cap h.free = {}
             /\ Of(w, in.cur) \cap Of(w, OfOut) = {}
    BY <1>1, Parts
  <2>5. Line(h, y, Of(w, OfOut))
    BY <1>1 DEF Apportioned
  <2>6. ASSUME NEW R, Keeps(h, k, R) PROVE Unchanged(h, heap', R)
    BY <2>1, <2>6, BecomesKeeps
  <2>7. ASSUME in.cur # NULL, Keeps(h, k, Of(w, in.cur))
        PROVE  Content(heap', in.cur) = Content(h, in.cur)
    BY <1>1, <2>1, <2>7, ContentKeeps
  <2> HIDE DEF h, y, d
  <2>8. /\ Line(h, z, Of(w, OfOut) \ {y}) /\ y \in Of(w, OfOut)
    BY <2>1, <2>5, LineTail, LineCells
  <2>9. LineText(h, y) = b \o c /\ b \in Seq(Data) /\ c \in Seq(Data) /\ (z = NULL => c = <<>>)
    BY <2>1, <2>4, <2>5, <2>8, LineTextHead, LineTextTypes
  <2>10. Returned(h, k, {y})
    <3>1. y \in Cell
      BY <2>4, <2>8
    <3> QED
      BY <2>4, <3>1 DEF FreeCell, Returned, Heaps, Unchanged
  <2> HIDE DEF k
  <2>11. Keeps(h, k, Of(w, OfOut) \ {y})
    <3>1. /\ Of(w, OfOut) \ {y} \subseteq Cell /\ (Of(w, OfOut) \ {y}) \cap h.free = {}
          /\ (Of(w, OfOut) \ {y}) \cap {y} = {}
      BY <2>4
    <3> QED
      BY <2>4, <2>10, <3>1, ReturnedKeeps
  <2>12. ASSUME in.cur # NULL PROVE Keeps(h, k, Of(w, in.cur))
    <3>1. Of(w, in.cur) \cap {y} = {}
      BY <2>4, <2>8, <2>12
    <3> QED
      BY <2>4, <2>10, <2>12, <3>1, ReturnedKeeps
  <2>13. OutText' = c
    <3> DEFINE f == heap'
    <3>1. Unchanged(h, f, Of(w, OfOut) \ {y})
      BY <2>6, <2>11
    <3> HIDE DEF f, z
    <3>2. LineText(f, z) = LineText(h, z)
      BY <2>8, <3>1, LineTextFrame
    <3> QED
      BY <2>2, <3>2 DEF OutText, f
  <2>14. in.parse = "SysExNext" => InText' = InText
    BY <1>2, <1>4, <2>7, <2>12 DEF InText, h
  <2>15. Carried(due, wire', b \o end, z, in, InText, c, missed)
    <3>1. Carried(due, wire', <<>>, y, in, InText, LineText(h, y), missed)
      BY <1>7, <1>8, <2>1, <2>3
    <3>2. due \in Seq(Lined)
      BY DEF Tracked
    <3> HIDE DEF z, b, c
    <3> QED
      BY <2>1, <2>9, <3>1, <3>2, CarriedCell
  <2> HIDE DEF end, b, z, c
  <2>16. Carried(due, wire', b \o end, z, in, InText', c, missed)
    BY <2>14, <2>15, CarriedFrame
  <2>17. OnItsWay'
    BY <1>2, <2>2, <2>13, <2>16 DEF OnItsWay
  <2> QED
    BY <1>6, <2>17 DEF Tracked
<1> QED
  BY <1>3, <1>9, <1>10

\* A byte is received, and the message that it ends, if any, is the one expected.
LEMMA ReceiveTracked ==
  ASSUME Tracked, Receive
  PROVE  /\ Tracked'
         /\ Arrived.status \notin {0, MClock} => Expected(due, Arrived, missed)
<1> DEFINE c == Head(wire)
           r == MidiParseByte(in, c)
           m == r.msg
           x == r.miss
           u == Content(heap', r.in.cur)
<1>1. PICK w : Apportioned(heap, own, out.next, in.cur, w, resets)
  BY DEF Tracked, IInv, Shared
<1>2. /\ wire # <<>> /\ wire' = Tail(wire) /\ in' = r.in /\ Becomes(r.heap)
      /\ missed' = (missed \/ x) /\ due' = Later(m)
      /\ own' = own /\ out' = out
  BY DEF Receive
<1>3. due' = After(due, m) /\ Arrived = m
  BY <1>2 DEF Later, After, Arrived
<1>4. wire \in Seq(Byte) /\ out.data \in Seq(Byte) /\ ParserTyped(in)
  BY LineTypes DEF Tracked
<1>5. c \in Byte
  BY <1>2, <1>4
<1>6. IInv' /\ NoClock' /\ missed' \in BOOLEAN
  BY <1>2, ReceiveStep DEF Tracked, NoClock
<1>7. due \in Seq(Lined)
      /\ Carried(due, wire, out.data, out.next, in, InText, OutText, missed)
  BY DEF Tracked, OnItsWay
<1>8. /\ Effect(in, c, InText, r.in, u, m, x)
      /\ OutText' = OutText
  <2>1. /\ Effect(in, c, Content(heap, in.cur), r.in, u, m, x)
        /\ LineText(heap', out.next) = LineText(heap, out.next)
    BY <1>1, <1>2, <1>4, <1>5, ReceiveEffect
  <2> QED
    BY <1>2, <2>1 DEF InText, OutText
<1>9. u = InText'
  BY <1>2 DEF InText
<1> HIDE DEF r, m, x, u
<1>10. /\ Carried(After(due, m), Tail(wire), out.data, out.next, r.in, u, OutText, missed \/ x)
       /\ After(due, m) \in Seq(Lined)
       /\ m.status \notin {0, MClock} => Expected(due, m, missed)
  BY <1>2, <1>4, <1>7, <1>8, CarriedReceive DEF c
<1>11. OnItsWay'
  BY <1>2, <1>3, <1>8, <1>9, <1>10 DEF OnItsWay
<1> QED
  BY <1>3, <1>6, <1>10, <1>11 DEF Tracked

LEMMA InitTracked == Init => Tracked
<1> SUFFICES ASSUME Init PROVE Tracked
  OBVIOUS
<1>1. /\ own = [x \in Cell |-> None] /\ out = [data |-> <<>>, next |-> NULL] /\ wire = <<>>
      /\ due = <<>> /\ missed = FALSE
  BY DEF Init
<1>2. PICK q \in Places(<<>>) : /\ Ready(<<>>, <<>>, in, InText, FALSE, q)
                                /\ FALSE \/ q = At(Len(<<>>), 0)
  BY FreshSettled DEF Settled
<1>3. Leads(<<>>, <<>>, q, q, FALSE)
  BY LeadsNone
<1>4. Remains(<<>>, q, <<>>, NULL, OutText, FALSE)
  BY <1>2 DEF Remains
<1>5. Carried(<<>>, <<>>, <<>>, NULL, in, InText, OutText, FALSE)
  BY <1>2, <1>3, <1>4 DEF Carried
<1>6. OnItsWay
  BY <1>1, <1>5 DEF OnItsWay
<1>7. NoClock
  BY <1>1, StatusesDiffer DEF NoClock, MClock
<1>8. due \in Seq(Lined) /\ missed \in BOOLEAN
  <2>1. <<>> \in Seq(Lined)
    OBVIOUS
  <2> QED
    BY <1>1, <2>1
<1> QED
  BY <1>6, <1>7, <1>8, InitOK DEF Tracked

\* The sender's small messages are no real-time messages: those come from Merge, and
\* Arrived does not count them. One that the sender put would stay due for ever.
NoRealTime == \A m \in Small : m.status # MClock

LEMMA NextTracked ==
  ASSUME NoRealTime, Tracked, [Next]_vars
  PROVE  Tracked'
<1>1. ASSUME NEW m \in Small, MidiNewEv(m) PROVE Tracked'
  BY <1>1, NewEvTracked DEF NoRealTime
<1>2. ASSUME NEW text \in Text, MidiNewSysEx(text) PROVE Tracked'
  BY <1>2, NewSysExTracked
<1>3. ASSUME NEW x \in Cell, MidiCopyEv(x) PROVE Tracked'
  BY <1>3, CopyTracked
<1>4. ASSUME NEW x \in Cell, MidiFreeEv(x) PROVE Tracked'
  BY <1>4, FreeTracked
<1>5. ASSUME NEW x \in Cell, PutSmall(x) PROVE Tracked'
  BY <1>5, PutSmallTracked
<1>6. ASSUME NEW x \in Cell, PutSysEx(x) PROVE Tracked'
  BY <1>6, PutSysExTracked
<1>7. CASE MidiStreamGetByte
  BY <1>7, GetByteTracked
<1>8. CASE MidiStreamReset
  BY <1>8, ResetTracked
<1>9. CASE Merge
  BY <1>9, MergeTracked
<1>10. CASE Receive
  BY <1>10, ReceiveTracked
<1>11. CASE UNCHANGED vars
  <2>1. /\ heap' = heap /\ own' = own /\ out' = out /\ wire' = wire /\ in' = in
        /\ due' = due /\ missed' = missed
    BY <1>11 DEF vars, heapVars, heap
  <2>2. InText' = InText /\ OutText' = OutText
    BY <2>1 DEF InText, OutText
  <2>3. IInv'
    BY <1>11, NextOK DEF Tracked
  <2>4. OnItsWay' /\ NoClock'
    BY <2>1, <2>2 DEF Tracked, OnItsWay, NoClock
  <2> QED
    BY <2>1, <2>3, <2>4 DEF Tracked
<1> QED
  BY <1>1, <1>2, <1>3, <1>4, <1>5, <1>6, <1>7, <1>8, <1>9, <1>10, <1>11 DEF Next

\* Only Receive takes a byte from the line.
LEMMA OnlyReceive ==
  ASSUME Tracked, [Next]_vars, wire # <<>>, wire' = Tail(wire)
  PROVE  Receive
<1>1. wire \in Seq(Byte) /\ out.data \in Seq(Byte)
  BY LineTypes DEF Tracked
<1>2. Len(wire) \in Nat /\ Len(wire') = Len(wire) - 1
  BY <1>1, HeadTailProperties
<1>3. wire' # wire
  <2>1. \A n \in Nat : n - 1 # n
    OBVIOUS
  <2>2. Len(wire') # Len(wire)
    BY <1>2, <2>1
  <2> QED
    BY <2>2
<1>4. ASSUME NEW b \in Byte, wire' = Append(wire, b) PROVE FALSE
  <2>1. Len(wire') = Len(wire) + 1
    BY <1>1, <1>4, AppendProperties
  <2> QED
    BY <1>2, <2>1
<1>5. \A m : ~ MidiNewEv(m) /\ ~ MidiNewSysEx(m) /\ ~ MidiCopyEv(m) /\ ~ MidiFreeEv(m)
             /\ ~ PutSmall(m) /\ ~ PutSysEx(m)
  BY <1>3 DEF MidiNewEv, MidiNewSysEx, MidiCopyEv, MidiFreeEv, PutSmall, PutSysEx, lineVars
<1>6. ~ MidiStreamGetByte
  <2> SUFFICES ASSUME MidiStreamGetByte PROVE FALSE
    OBVIOUS
  <2>1. wire' = Append(wire, Head(out.data)) /\ Head(out.data) \in Byte
    BY <1>1 DEF MidiStreamGetByte, Idle
  <2> QED
    BY <1>4, <2>1
<1>7. ~ MidiStreamReset
  BY <1>3 DEF MidiStreamReset
<1>8. ~ Merge
  <2>1. MClock \in Byte
    BY Distinct
  <2> QED
    BY <1>4, <2>1 DEF Merge
<1>9. ~ UNCHANGED vars
  BY <1>3 DEF vars
<1> QED
  BY <1>5, <1>6, <1>7, <1>8, <1>9 DEF Next

\* What arrives is what was sent, in that order, and all of it arrives when no cell was
\* missing and the device did not fail: for any number of cells, of messages and of
\* bytes on the line, when the real-time messages come from elsewhere.
THEOREM FaithfulAlways ==
  ASSUME NoRealTime
  PROVE  Spec => Faithful
<1>1. Tracked => (Idle /\ wire = <<>> /\ ~missed => due = <<>>)
  <2> SUFFICES ASSUME Tracked, Idle, wire = <<>>, ~missed PROVE due = <<>>
    OBVIOUS
  <2>1. out.data = <<>> /\ out.next = NULL
    BY LineTypes DEF Tracked, Idle
  <2>2. Carried(due, <<>>, <<>>, NULL, in, InText, OutText, missed) /\ due \in Seq(Lined)
    BY <2>1 DEF Tracked, OnItsWay
  <2> QED
    BY <2>2, CarriedAll
<1>2. Tracked /\ [Next]_vars =>
        [LET m == Arrived IN
          wire # <<>> /\ wire' = Tail(wire) /\ m.status \notin {None.status, MClock} =>
             \E i \in 1..Len(due) : due[i] = m /\ (i = 1 \/ missed)]_vars
  <2> SUFFICES ASSUME Tracked, [Next]_vars, wire # <<>>, wire' = Tail(wire),
                      Arrived.status \notin {None.status, MClock}
               PROVE  \E i \in 1..Len(due) : due[i] = Arrived /\ (i = 1 \/ missed)
    OBVIOUS
  <2>1. Receive
    BY OnlyReceive
  <2>2. Expected(due, Arrived, missed)
    BY <2>1, ReceiveTracked, StatusesDiffer
  <2> QED
    BY <2>2 DEF Expected
<1>3. Tracked /\ [Next]_vars => Tracked'
  BY NextTracked
<1> QED
  BY <1>1, <1>2, <1>3, InitTracked, PTL DEF Spec, Faithful
=============================================================================
