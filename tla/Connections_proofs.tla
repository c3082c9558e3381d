-------------------------- MODULE Connections_proofs --------------------------
(***************************************************************************)
(* Proofs about Connections, for any clients and any number of cells,      *)
(* where no alarm or task changes connections (the hypothesis Interrupts = *)
(* {}): the README tells what happens otherwise.                           *)
(***************************************************************************)
EXTENDS Connections, SequenceTheorems, FiniteSetTheorems, WellFoundedInduction,
        NaturalsInduction, TLAPS

Quiet == Interrupts = {}

(***************************************************************************)
(* Lists.  s is what one meets from h on along the field f, each cell      *)
(* once.                                                                   *)
(***************************************************************************)
IsPath(f, h, s) ==
  /\ s \in Seq(Cells) /\ NoDouble(s)
  /\ Len(s) = 0 => h = NULL
  /\ Len(s) # 0 => h = s[1] /\ f[s[Len(s)]] = NULL
  /\ \A i \in 1..Len(s) - 1 : f[s[i]] = s[i + 1]

IsList(f, h) == \E s : IsPath(f, h, s)

On(f, h) == Members(Chain(f, h))

LEMMA LeastOf ==
  ASSUME NEW T, T \subseteq Nat, T # {}
  PROVE  \E m \in T : \A n \in T : m <= n
<1> DEFINE R == {ss \in Nat \X Nat : ss[1] < ss[2]}
<1>1. OpToRel(<, Nat) = R
  BY DEF OpToRel
<1>2. IsWellFoundedOn(R, Nat)
  BY <1>1, NatLessThanWellFounded
<1>3. \A x, y \in Nat : <<x, y>> \in R <=> x < y
  OBVIOUS
<1> HIDE DEF R
<1>4. PICK m \in T : \A n \in T : <<n, m>> \notin R
  BY <1>2, WFMin
<1>5. ASSUME NEW n \in T PROVE m <= n
  <2>1. m \in Nat /\ n \in Nat
    OBVIOUS
  <2>2. <<n, m>> \notin R
    BY <1>4
  <2>3. ~ n < m
    BY <1>3, <2>1, <2>2
  <2> QED
    BY <2>1, <2>3
<1> QED
  BY <1>5

LEMMA LeastIsThere ==
  ASSUME NEW T, T \subseteq Nat, T # {}
  PROVE  Least(T) \in T
BY LeastOf DEF Least

LEMMA PathShort ==
  ASSUME NEW f, NEW h, NEW s, IsPath(f, h, s)
  PROVE  /\ Cardinality(Cells) \in Nat /\ Len(s) \in Nat
         /\ Len(s) <= Cardinality(Cells)
<1>1. IsFiniteSet(Cells) /\ Cardinality(Cells) \in Nat
  BY ConnectionsAssumption, FS_CardinalityType
<1>2. Len(s) \in Nat
  BY DEF IsPath
<1>3. s \in Injection(1..Len(s), Cells)
  BY LenProperties DEF IsPath, NoDouble, Injection, IsInjective
<1>4. Cardinality(1..Len(s)) <= Cardinality(Cells)
  BY <1>1, <1>3, FS_Injection
<1>5. \A n \in Nat : Cardinality(1..n) = n
  <2> TAKE n \in Nat
  <2>1. 1 \in Int /\ n \in Int
    OBVIOUS
  <2>2. Cardinality(1..n) = IF 1 > n THEN 0 ELSE n - 1 + 1
    BY <2>1, FS_Interval
  <2> QED
    BY <2>2
<1> QED
  BY <1>1, <1>2, <1>4, <1>5

(***************************************************************************)
(* Chain finds the path.                                                   *)
(***************************************************************************)
Points == Cells \cup {NULL}

Step(f, v, n) == [x \in Points |-> IF x = NULL \/ n = 0 THEN <<>> ELSE <<x>> \o v[f[x]]]

Walk(f, w, m) == [n \in 0..m |-> Step(f, w[n - 1], n)]

\* The recursion of Chain has a solution.
LEMMA WalkExists ==
  ASSUME NEW f, NEW m \in Nat
  PROVE  \E w : w = Walk(f, w, m)
<1> DEFINE Bad == {k \in Nat : ~ \E w : w = Walk(f, w, k)}
<1> SUFFICES ASSUME Bad # {} PROVE FALSE
  OBVIOUS
<1>1. PICK k \in Bad : \A n \in Bad : k <= n
  BY LeastOf
<1>2. k \in Nat /\ ~ \E w : w = Walk(f, w, k)
  BY <1>1
<1>3. CASE k = 0
  <2> DEFINE e == [x \in Points |-> <<>>]
             w == [n \in 0..0 |-> e]
  <2>1. \A v : Step(f, v, 0) = e
    BY DEF Step
  <2> HIDE DEF e
  <2>2. w = Walk(f, w, 0)
    BY <2>1 DEF Walk
  <2> QED
    BY <1>2, <1>3, <2>2
<1>4. CASE k # 0
  <2>1. k - 1 \in Nat /\ ~ k <= k - 1
    BY <1>2, <1>4
  <2>2. k - 1 \notin Bad
    BY <1>1, <2>1
  <2>3. PICK v : v = Walk(f, v, k - 1)
    BY <2>1, <2>2
  <2> DEFINE w == [n \in 0..k |-> Step(f, v[n - 1], n)]
  <2>4. ASSUME NEW n \in 0..k - 1
        PROVE  w[n] = v[n]
    <3>1. v[n] = Step(f, v[n - 1], n)
      BY <2>3 DEF Walk
    <3>2. n \in 0..k
      BY <1>2
    <3> QED
      BY <3>1, <3>2
  <2>5. ASSUME NEW n \in 0..k
        PROVE  Step(f, v[n - 1], n) = Step(f, w[n - 1], n)
    <3>1. CASE n = 0
      BY <3>1 DEF Step
    <3>2. CASE n # 0
      <4>1. n - 1 \in 0..k - 1
        BY <1>2, <3>2
      <4>2. w[n - 1] = v[n - 1]
        BY <2>4, <4>1
      <4> HIDE DEF w
      <4> QED
        BY <4>2
    <3> QED
      BY <3>1, <3>2
  <2>6. w = Walk(f, w, k)
    <3>1. w = [n \in 0..k |-> Step(f, w[n - 1], n)]
      BY <2>5
    <3> QED
      BY <3>1 DEF Walk
  <2> QED
    BY <1>2, <2>6
<1> QED
  BY <1>3, <1>4

LEMMA ChainPath ==
  ASSUME NEW f \in [Cells -> Points], NEW h, NEW s, IsPath(f, h, s)
  PROVE  Chain(f, h) = s
<1> DEFINE K == Cardinality(Cells) + 1
           walk == CHOOSE w : w = Walk(f, w, K)
           at(i) == IF i <= Len(s) THEN s[i] ELSE NULL
           rest(i) == SubSeq(s, i, Len(s))
<1>1. Chain(f, h) = walk[K][h]
  BY DEF Chain, Walk, Step, Points
<1>2. /\ K \in Nat /\ Len(s) \in Nat /\ Len(s) < K
      /\ Cardinality(Cells) \in Nat
      /\ s \in Seq(Cells)
  <2>1. Cardinality(Cells) \in Nat /\ Len(s) \in Nat /\ Len(s) <= Cardinality(Cells)
    BY PathShort
  <2> QED
    BY <2>1 DEF IsPath
<1> HIDE DEF K
<1>3. walk = Walk(f, walk, K)
  <2>1. \E w : w = Walk(f, w, K)
    BY <1>2, WalkExists
  <2> QED
    BY <2>1
<1> HIDE DEF walk
<1>4. \A x \in Points, n \in 0..K :
         walk[n][x] = IF x = NULL \/ n = 0 THEN <<>> ELSE <<x>> \o walk[n - 1][f[x]]
  <2>1. \A n \in 0..K : walk[n] = Step(f, walk[n - 1], n)
    BY <1>3 DEF Walk
  <2> QED
    BY <2>1 DEF Step
<1>5. ASSUME NEW i \in 1..Len(s)
      PROVE  /\ at(i) \in Points /\ at(i) # NULL /\ at(i) = s[i]
             /\ f[at(i)] = at(i + 1)
             /\ rest(i) = <<s[i]>> \o rest(i + 1)
  <2>1. s[i] \in Cells /\ s[i] # NULL /\ at(i) = s[i]
    BY <1>2, ConnectionsAssumption DEF Points
  <2>2. f[s[i]] = at(i + 1)
    <3>1. CASE i = Len(s)
      BY <3>1, <1>2 DEF IsPath
    <3>2. CASE i # Len(s)
      BY <3>2, <1>2 DEF IsPath
    <3> QED
      BY <3>1, <3>2
  <2>3. rest(i) = <<s[i]>> \o rest(i + 1)
    BY <1>2, SubSeqRecursiveFirst
  <2> QED
    BY <2>1, <2>2, <2>3 DEF Points
<1>6. at(Len(s) + 1) = NULL /\ rest(Len(s) + 1) = <<>>
  BY <1>2, SubSeqEmpty
<1>7. \A n \in 0..K : \A i \in 1..Len(s) + 1 : Len(s) + 1 - i <= n => walk[n][at(i)] = rest(i)
  <2> DEFINE Good(n) == \A i \in 1..Len(s) + 1 :
                           Len(s) + 1 - i <= n => walk[n][at(i)] = rest(i)
             Bad == {n \in 0..K : ~ Good(n)}
  <2> SUFFICES ASSUME Bad # {} PROVE FALSE
    OBVIOUS
  <2>1. Bad \subseteq Nat
    BY <1>2
  <2>2. PICK n \in Bad : \A k \in Bad : n <= k
    <3> HIDE DEF Bad
    <3> QED
      BY <2>1, LeastOf
  <2>3. n \in 0..K /\ ~ Good(n)
    BY <2>2
  <2>4. n - 1 \in 0..K => Good(n - 1)
    <3>1. n - 1 \in 0..K => ~ n <= n - 1
      BY <1>2, <2>3
    <3>2. n - 1 \in 0..K => n - 1 \notin Bad
      BY <2>2, <3>1
    <3> QED
      BY <3>2
  <2>5. PICK i \in 1..Len(s) + 1 : Len(s) + 1 - i <= n /\ walk[n][at(i)] # rest(i)
    BY <2>3
  <2>6. CASE i = Len(s) + 1
    <3>1. NULL \in Points
      BY DEF Points
    <3> HIDE DEF at, rest
    <3>2. walk[n][NULL] = <<>>
      BY <1>4, <2>3, <3>1
    <3> QED
      BY <1>6, <2>5, <2>6, <3>2
  <2>7. CASE i # Len(s) + 1
    <3>1. /\ i \in 1..Len(s) /\ i + 1 \in 1..Len(s) + 1 /\ n # 0
          /\ n - 1 \in 0..K /\ Len(s) + 1 - (i + 1) <= n - 1
      <4>1. Len(s) \in Nat /\ K \in Nat /\ n \in 0..K /\ Len(s) + 1 - i <= n
        BY <1>2, <2>3, <2>5
      <4> HIDE DEF at, rest, Good, Bad
      <4> QED
        BY <4>1, <2>7
    <3>2. walk[n - 1][at(i + 1)] = rest(i + 1)
      BY <2>4, <3>1
    <3>3. /\ at(i) \in Points /\ at(i) # NULL /\ at(i) = s[i]
          /\ f[at(i)] = at(i + 1)
          /\ rest(i) = <<s[i]>> \o rest(i + 1)
      BY <1>5, <3>1
    <3> HIDE DEF at, rest
    <3>4. walk[n][at(i)] = <<at(i)>> \o walk[n - 1][f[at(i)]]
      BY <1>4, <2>3, <3>1, <3>3
    <3> QED
      BY <2>5, <3>2, <3>3, <3>4
  <2> QED
    BY <2>6, <2>7
<1>8. h = at(1)
  BY <1>2 DEF IsPath
<1>9. K \in 0..K /\ 1 \in 1..Len(s) + 1 /\ Len(s) + 1 - 1 <= K
  BY <1>2
<1>10. walk[K][at(1)] = rest(1)
  <2> HIDE DEF at, rest
  <2> QED
    BY <1>7, <1>9
<1>11. rest(1) = s
  BY <1>2, SubSeqFull
<1> QED
  BY <1>1, <1>8, <1>10, <1>11

(***************************************************************************)
(* What the writes of msConnx.c do to a list.                              *)
(***************************************************************************)
LEMMA ListChain ==
  ASSUME NEW f \in [Cells -> Points], NEW h, IsList(f, h)
  PROVE  IsPath(f, h, Chain(f, h))
BY ChainPath DEF IsList

LEMMA PathMembers ==
  ASSUME NEW f \in [Cells -> Points], NEW h, NEW s, IsPath(f, h, s)
  PROVE  On(f, h) = {s[i] : i \in 1..Len(s)} /\ IsList(f, h)
BY ChainPath DEF IsList, On, Members

LEMMA OnCells ==
  ASSUME NEW f \in [Cells -> Points], NEW h, IsList(f, h)
  PROVE  /\ On(f, h) \subseteq Cells
         /\ h = NULL <=> On(f, h) = {}
         /\ h # NULL => h \in On(f, h)
         /\ h \in Points
         /\ NoDouble(Chain(f, h))
<1> DEFINE s == Chain(f, h)
<1>1. IsPath(f, h, s)
  BY ListChain
<1>2. s \in Seq(Cells) /\ Len(s) \in Nat
  BY <1>1 DEF IsPath
<1> HIDE DEF s
<1>3. On(f, h) = {s[i] : i \in 1..Len(s)}
  BY DEF On, Members, s
<1>4. \A i \in 1..Len(s) : s[i] \in Cells
  BY <1>2
<1>5. CASE Len(s) = 0
  BY <1>1, <1>3, <1>5, ConnectionsAssumption DEF IsPath, Points, s
<1>6. CASE Len(s) # 0
  <2>1. 1 \in 1..Len(s) /\ h = s[1]
    BY <1>1, <1>2, <1>6 DEF IsPath
  <2>2. h \in On(f, h) /\ h \in Cells
    BY <1>3, <1>4, <2>1
  <2>3. h # NULL /\ h \in Points
    BY <2>2, ConnectionsAssumption DEF Points
  <2>4. On(f, h) \subseteq Cells
    BY <1>3, <1>4
  <2>5. NoDouble(Chain(f, h))
    BY <1>1 DEF IsPath, s
  <2> QED
    BY <2>2, <2>3, <2>4, <2>5
<1> QED
  BY <1>5, <1>6

LEMMA EmptyList ==
  ASSUME NEW f \in [Cells -> Points]
  PROVE  IsList(f, NULL) /\ On(f, NULL) = {}
<1>1. IsPath(f, NULL, <<>>)
  BY DEF IsPath, NoDouble
<1> QED
  BY <1>1, PathMembers

\* A write elsewhere leaves the list as it is.
LEMMA SameList ==
  ASSUME NEW f \in [Cells -> Points], NEW g \in [Cells -> Points], NEW h,
         IsList(f, h), \A c \in On(f, h) : g[c] = f[c]
  PROVE  IsList(g, h) /\ On(g, h) = On(f, h) /\ Chain(g, h) = Chain(f, h)
<1> DEFINE s == Chain(f, h)
<1>1. IsPath(f, h, s)
  BY ListChain
<1>2. \A i \in 1..Len(s) : g[s[i]] = f[s[i]]
  BY DEF On, Members
<1>3. Len(s) \in Nat
  BY <1>1 DEF IsPath
<1> HIDE DEF s
<1>4. Len(s) # 0 => g[s[Len(s)]] = f[s[Len(s)]]
  BY <1>2, <1>3
<1>5. \A i \in 1..Len(s) - 1 : g[s[i]] = f[s[i]]
  BY <1>2, <1>3
<1>6. IsPath(g, h, s)
  BY <1>1, <1>4, <1>5 DEF IsPath
<1> QED
  BY <1>6, ChainPath DEF IsList, On, s

\* A cell before the first one.
LEMMA LongerList ==
  ASSUME NEW f \in [Cells -> Points], NEW h, IsList(f, h),
         NEW c \in Cells, c \notin On(f, h), f[c] = h
  PROVE  IsList(f, c) /\ On(f, c) = On(f, h) \cup {c}
<1> DEFINE s == Chain(f, h)
           t == <<c>> \o s
<1>1. IsPath(f, h, s)
  BY ListChain
<1>2. s \in Seq(Cells) /\ Len(s) \in Nat
  BY <1>1 DEF IsPath
<1>3. On(f, h) = {s[i] : i \in 1..Len(s)}
  BY DEF On, Members
<1> HIDE DEF s
<1>4. /\ t \in Seq(Cells) /\ Len(t) = Len(s) + 1
      /\ \A i \in 1..Len(s) + 1 : t[i] = IF i = 1 THEN c ELSE s[i - 1]
  <2>1. <<c>> \in Seq(Cells) /\ Len(<<c>>) = 1 /\ <<c>>[1] = c
    OBVIOUS
  <2>2. /\ t \in Seq(Cells) /\ Len(t) = 1 + Len(s)
        /\ \A i \in 1..1 + Len(s) : t[i] = IF i <= 1 THEN <<c>>[i] ELSE s[i - 1]
    BY <1>2, <2>1, ConcatProperties
  <2> HIDE DEF t
  <2> QED
    BY <1>2, <2>1, <2>2
<1> HIDE DEF t
<1>5. \A i \in 1..Len(s) : s[i] # c
  BY <1>3
<1>6. NoDouble(t)
  <2> SUFFICES ASSUME NEW i \in 1..Len(s) + 1, NEW j \in 1..Len(s) + 1, t[i] = t[j]
               PROVE  i = j
    BY <1>4 DEF NoDouble
  <2>1. t[i] = (IF i = 1 THEN c ELSE s[i - 1]) /\ t[j] = IF j = 1 THEN c ELSE s[j - 1]
    BY <1>4
  <2>2. /\ i # 1 => i - 1 \in 1..Len(s)
        /\ j # 1 => j - 1 \in 1..Len(s)
    BY <1>2
  <2>3. i # 1 /\ j # 1 => i - 1 = j - 1
    BY <1>1, <2>1, <2>2 DEF IsPath, NoDouble
  <2>4. CASE i = 1
    BY <1>5, <2>1, <2>2, <2>4
  <2>5. CASE j = 1
    BY <1>5, <2>1, <2>2, <2>5
  <2>6. CASE i # 1 /\ j # 1
    <3>1. i - 1 = j - 1 /\ i \in Int /\ j \in Int
      BY <1>2, <2>3, <2>6
    <3> QED
      BY <3>1
  <2> QED
    BY <2>4, <2>5, <2>6
<1>7. f[t[Len(t)]] = NULL
  <2>1. CASE Len(s) = 0
    BY <1>1, <1>4, <2>1 DEF IsPath
  <2>2. CASE Len(s) # 0
    <3>1. t[Len(s) + 1] = s[Len(s)]
      BY <1>2, <1>4, <2>2
    <3> QED
      BY <1>1, <1>4, <2>2, <3>1 DEF IsPath
  <2> QED
    BY <2>1, <2>2
<1>8. \A i \in 1..Len(t) - 1 : f[t[i]] = t[i + 1]
  <2> TAKE i \in 1..Len(t) - 1
  <2>1. i \in 1..Len(s) /\ i \in 1..Len(s) + 1 /\ i + 1 \in 1..Len(s) + 1
    BY <1>2, <1>4
  <2>2. t[i + 1] = s[i]
    BY <1>2, <1>4, <2>1
  <2>3. CASE i = 1
    BY <1>1, <1>2, <1>4, <2>1, <2>2, <2>3 DEF IsPath
  <2>4. CASE i # 1
    <3>1. i - 1 \in 1..Len(s) - 1 /\ (i - 1) + 1 = i /\ t[i] = s[i - 1]
      BY <1>2, <1>4, <2>1, <2>4
    <3>2. f[s[i - 1]] = s[(i - 1) + 1]
      BY <1>1, <3>1 DEF IsPath
    <3> QED
      BY <2>2, <3>1, <3>2
  <2> QED
    BY <2>3, <2>4
<1>9. IsPath(f, c, t)
  <2>1. Len(t) # 0 /\ c = t[1]
    BY <1>2, <1>4
  <2> QED
    BY <1>4, <1>6, <1>7, <1>8, <2>1 DEF IsPath
<1>10. {t[i] : i \in 1..Len(t)} = {s[i] : i \in 1..Len(s)} \cup {c}
  <2>1. ASSUME NEW i \in 1..Len(t)
        PROVE  t[i] \in {s[j] : j \in 1..Len(s)} \cup {c}
    <3>1. t[i] = (IF i = 1 THEN c ELSE s[i - 1]) /\ (i # 1 => i - 1 \in 1..Len(s))
      BY <1>2, <1>4
    <3> QED
      BY <3>1
  <2>2. ASSUME NEW i \in 1..Len(s)
        PROVE  s[i] \in {t[j] : j \in 1..Len(t)}
    <3>1. i + 1 \in 1..Len(t) /\ t[i + 1] = s[i]
      BY <1>2, <1>4
    <3> QED
      BY <3>1
  <2>3. c \in {t[j] : j \in 1..Len(t)}
    <3>1. 1 \in 1..Len(t) /\ t[1] = c
      BY <1>2, <1>4
    <3> QED
      BY <3>1
  <2> QED
    BY <2>1, <2>2, <2>3
<1>11. On(f, c) = {t[i] : i \in 1..Len(t)} /\ IsList(f, c)
  BY <1>9, PathMembers
<1> QED
  BY <1>3, <1>10, <1>11

\* The list from its second cell on.
LEMMA ShorterList ==
  ASSUME NEW f \in [Cells -> Points], NEW h, IsList(f, h), h # NULL
  PROVE  IsList(f, f[h]) /\ On(f, f[h]) = On(f, h) \ {h}
<1> DEFINE s == Chain(f, h)
           n == Len(s) - 1
           t == [i \in 1..n |-> s[i + 1]]
<1>1. IsPath(f, h, s)
  BY ListChain
<1>2. s \in Seq(Cells) /\ Len(s) \in Nat /\ Len(s) # 0
  BY <1>1 DEF IsPath
<1>3. On(f, h) = {s[i] : i \in 1..Len(s)}
  BY DEF On, Members
<1> HIDE DEF s
<1>4. h = s[1] /\ f[s[Len(s)]] = NULL /\ \A i \in 1..Len(s) - 1 : f[s[i]] = s[i + 1]
  BY <1>1, <1>2 DEF IsPath
<1>5. n \in Nat /\ Len(s) = n + 1
  BY <1>2
<1> HIDE DEF n
<1>6. \A i \in 1..n : i + 1 \in 1..Len(s) /\ s[i + 1] \in Cells /\ t[i] = s[i + 1]
  BY <1>2, <1>5
<1>7. t \in Seq(Cells) /\ Len(t) = n
  BY <1>5, <1>6, LenProperties
<1> HIDE DEF t
<1>8. NoDouble(t)
  <2> SUFFICES ASSUME NEW i \in 1..n, NEW j \in 1..n, t[i] = t[j]
               PROVE  i = j
    BY <1>7 DEF NoDouble
  <2>1. i + 1 = j + 1
    BY <1>1, <1>6 DEF IsPath, NoDouble
  <2> QED
    BY <1>5, <2>1
<1>9. IsPath(f, f[h], t)
  <2>1. CASE n = 0
    <3>1. f[h] = NULL
      BY <1>4, <1>5, <2>1
    <3>2. Len(t) = 0 /\ 1..Len(t) - 1 = {}
      BY <1>7, <2>1
    <3> QED
      BY <1>7, <1>8, <3>1, <3>2 DEF IsPath
  <2>2. CASE n # 0
    <3>1. t[1] = f[h]
      <4>1. 1 \in 1..n /\ 1 \in 1..Len(s) - 1 /\ 1 + 1 = 2
        BY <1>5, <2>2
      <4>2. t[1] = s[1 + 1]
        BY <1>6, <4>1
      <4>3. f[s[1]] = s[1 + 1]
        BY <1>4, <4>1
      <4> QED
        BY <1>4, <4>2, <4>3
    <3>2. f[t[n]] = NULL
      <4>1. n \in 1..n /\ n + 1 = Len(s)
        BY <1>5, <2>2
      <4> QED
        BY <1>4, <1>6, <4>1
    <3>3. ASSUME NEW i \in 1..n - 1 PROVE f[t[i]] = t[i + 1]
      <4>1. i \in 1..n /\ i + 1 \in 1..n /\ i + 1 \in 1..Len(s) - 1
        BY <1>5
      <4>2. t[i] = s[i + 1] /\ t[i + 1] = s[(i + 1) + 1]
        BY <1>6, <4>1
      <4> QED
        BY <1>4, <4>1, <4>2
    <3> QED
      BY <1>7, <1>8, <2>2, <3>1, <3>2, <3>3 DEF IsPath
  <2> QED
    BY <2>1, <2>2
<1>10. {t[i] : i \in 1..Len(t)} = {s[i] : i \in 1..Len(s)} \ {h}
  <2>1. ASSUME NEW i \in 1..n
        PROVE  t[i] \in {s[j] : j \in 1..Len(s)} \ {h}
    <3>1. i + 1 \in 1..Len(s) /\ 1 \in 1..Len(s) /\ i + 1 # 1 /\ t[i] = s[i + 1]
      BY <1>5, <1>6
    <3>2. s[i + 1] # s[1]
      BY <1>1, <3>1 DEF IsPath, NoDouble
    <3> QED
      BY <1>4, <3>1, <3>2
  <2>2. ASSUME NEW i \in 1..Len(s), s[i] # h
        PROVE  s[i] \in {t[j] : j \in 1..n}
    <3>1. i # 1
      BY <1>4, <2>2
    <3>2. i - 1 \in 1..n /\ (i - 1) + 1 = i
      BY <1>5, <3>1
    <3>3. t[i - 1] = s[i]
      BY <1>6, <3>2
    <3> QED
      BY <3>2, <3>3
  <2> QED
    BY <1>7, <2>1, <2>2
<1>11. On(f, f[h]) = {t[i] : i \in 1..Len(t)} /\ IsList(f, f[h])
  BY <1>9, PathMembers
<1> QED
  BY <1>3, <1>10, <1>11

\* A cell that is not the first is taken out: the field of the one before it then
\* leads to the one after it.
LEMMA CutList ==
  ASSUME NEW f \in [Cells -> Points], NEW h, IsList(f, h),
         NEW c \in On(f, h), NEW x \in On(f, h), f[c] = x,
         NEW g \in [Cells -> Points], g[c] = f[x],
         \A y \in Cells \ {c} : g[y] = f[y]
  PROVE  IsList(g, h) /\ On(g, h) = On(f, h) \ {x}
<1> DEFINE s == Chain(f, h)
<1>1. IsPath(f, h, s)
  BY ListChain
<1>2. s \in Seq(Cells) /\ Len(s) \in Nat
  BY <1>1 DEF IsPath
<1>3. On(f, h) = {s[i] : i \in 1..Len(s)}
  BY DEF On, Members
<1> HIDE DEF s
<1>4. \A i \in 1..Len(s) : s[i] \in Cells
  BY <1>2
<1>5. \A i, j \in 1..Len(s) : s[i] = s[j] => i = j
  BY <1>1 DEF IsPath, NoDouble
<1>6. \A i \in 1..Len(s) - 1 : f[s[i]] = s[i + 1]
  BY <1>1 DEF IsPath
<1>7. PICK k \in 1..Len(s) : s[k] = c
  BY <1>3
<1>8. /\ k \in 1..Len(s) - 1 /\ k + 1 \in 1..Len(s) /\ x = s[k + 1]
      /\ c \in Cells /\ x \in Cells
  <2>1. c \in Cells /\ x \in Cells /\ x # NULL
    BY <1>3, <1>4, ConnectionsAssumption
  <2>2. Len(s) # 0 /\ f[s[Len(s)]] = NULL
    BY <1>1, <1>2, <1>7 DEF IsPath
  <2>3. k # Len(s)
    BY <1>7, <2>1, <2>2
  <2>4. k \in 1..Len(s) - 1 /\ k + 1 \in 1..Len(s)
    BY <1>2, <2>3
  <2> QED
    BY <1>6, <1>7, <2>1, <2>4
<1> DEFINE n == Len(s) - 1
           old(i) == IF i <= k THEN i ELSE i + 1
           t == [i \in 1..n |-> s[old(i)]]
<1>10. n \in Nat /\ Len(s) = n + 1 /\ k \in 1..n /\ k \in Nat
  BY <1>2, <1>8
<1> HIDE DEF n
<1>11. ASSUME NEW i \in 1..n
       PROVE  /\ old(i) \in 1..Len(s) /\ old(i) # k + 1
              /\ t[i] = s[old(i)] /\ t[i] \in Cells
  <2>1. old(i) \in 1..Len(s) /\ old(i) # k + 1
    BY <1>10
  <2> HIDE DEF old
  <2> QED
    BY <1>4, <2>1
<1>12. t \in Seq(Cells) /\ Len(t) = n
  <2>1. \A i \in 1..n : s[old(i)] \in Cells
    BY <1>11
  <2> HIDE DEF old
  <2> QED
    BY <1>10, <2>1, LenProperties
<1> HIDE DEF t
<1>13. NoDouble(t)
  <2> SUFFICES ASSUME NEW i \in 1..n, NEW j \in 1..n, t[i] = t[j]
               PROVE  i = j
    BY <1>12 DEF NoDouble
  <2>1. old(i) = old(j)
    <3> HIDE DEF old
    <3> QED
      BY <1>5, <1>11
  <2> QED
    BY <1>10, <2>1
<1>14. t[1] = s[1]
  <2>1. 1 \in 1..n /\ old(1) = 1
    BY <1>10
  <2> HIDE DEF old
  <2> QED
    BY <1>11, <2>1
<1>15. g[t[n]] = NULL
  <2>1. n \in 1..n /\ Len(s) \in 1..Len(s) /\ Len(s) # 0
    BY <1>10
  <2>2. f[s[Len(s)]] = NULL
    BY <1>1, <2>1 DEF IsPath
  <2>3. CASE k = n
    <3>1. old(n) = n
      BY <1>10, <2>3
    <3> HIDE DEF old
    <3>2. t[n] = c
      BY <1>7, <1>11, <2>1, <2>3, <3>1
    <3>3. x = s[Len(s)]
      BY <1>8, <1>10, <2>3
    <3> QED
      BY <2>2, <3>2, <3>3
  <2>4. CASE k # n
    <3>1. old(n) = Len(s) /\ Len(s) # k
      BY <1>10, <2>4
    <3> HIDE DEF old
    <3>2. t[n] = s[Len(s)] /\ t[n] \in Cells
      BY <1>11, <2>1, <3>1
    <3>3. t[n] # c
      BY <1>5, <1>7, <2>1, <3>1, <3>2
    <3> QED
      BY <2>2, <3>2, <3>3
  <2> QED
    BY <2>3, <2>4
<1>16. ASSUME NEW i \in 1..n - 1
       PROVE  g[t[i]] = t[i + 1]
  <2>1. i \in 1..n /\ i + 1 \in 1..n /\ i \in Nat
    BY <1>10
  <2>2. CASE i = k
    <3>1. old(i) = k /\ old(i + 1) = (k + 1) + 1 /\ k + 1 \in 1..Len(s) - 1
      BY <1>10, <2>1, <2>2
    <3> HIDE DEF old
    <3>2. t[i] = c /\ t[i + 1] = s[(k + 1) + 1]
      BY <1>7, <1>11, <2>1, <3>1
    <3>3. f[x] = s[(k + 1) + 1]
      BY <1>6, <1>8, <3>1
    <3> QED
      BY <3>2, <3>3
  <2>3. CASE i # k
    <3>1. /\ old(i) \in 1..Len(s) - 1 /\ old(i) # k
          /\ old(i + 1) = old(i) + 1
      BY <1>10, <2>1, <2>3
    <3> HIDE DEF old
    <3>2. t[i] = s[old(i)] /\ t[i] \in Cells /\ t[i + 1] = s[old(i) + 1]
      BY <1>11, <2>1, <3>1
    <3>3. t[i] # c
      BY <1>5, <1>7, <1>11, <2>1, <3>1, <3>2
    <3>4. f[s[old(i)]] = s[old(i) + 1]
      BY <1>6, <3>1
    <3> QED
      BY <3>2, <3>3, <3>4
  <2> QED
    BY <2>2, <2>3
<1>17. IsPath(g, h, t)
  <2>1. h = s[1] /\ Len(t) # 0
    BY <1>1, <1>10, <1>12 DEF IsPath
  <2> QED
    BY <1>12, <1>13, <1>14, <1>15, <1>16, <2>1 DEF IsPath
<1>18. {t[i] : i \in 1..n} = {s[i] : i \in 1..Len(s)} \ {x}
  <2>1. ASSUME NEW i \in 1..n
        PROVE  t[i] \in {s[j] : j \in 1..Len(s)} \ {x}
    <3> HIDE DEF old
    <3>1. old(i) \in 1..Len(s) /\ old(i) # k + 1 /\ t[i] = s[old(i)]
      BY <1>11
    <3>2. s[old(i)] # s[k + 1]
      BY <1>5, <1>8, <3>1
    <3> QED
      BY <1>8, <3>1, <3>2
  <2>2. ASSUME NEW i \in 1..Len(s), s[i] # x
        PROVE  s[i] \in {t[j] : j \in 1..n}
    <3>1. i # k + 1
      BY <1>8, <2>2
    <3>2. CASE i <= k
      <4>1. i \in 1..n /\ old(i) = i
        BY <1>10, <3>2
      <4> HIDE DEF old
      <4> QED
        BY <1>11, <4>1
    <3>3. CASE ~ i <= k
      <4>1. i - 1 \in 1..n /\ old(i - 1) = i
        BY <1>10, <3>1, <3>3
      <4> HIDE DEF old
      <4> QED
        BY <1>11, <4>1
    <3> QED
      BY <3>2, <3>3
  <2> QED
    BY <2>1, <2>2
<1>19. On(g, h) = {t[i] : i \in 1..Len(t)} /\ IsList(g, h)
  BY <1>17, PathMembers
<1> QED
  BY <1>3, <1>12, <1>18, <1>19

\* Lists that share no cell, one for each client; and what Rem1SrcCon, Rem1DstCon
\* make of the fields and the first cells: the list of r loses the cell x.
Sheaf(f, h) ==
  /\ f \in [Cells -> Points] /\ h \in [Refs -> Points]
  /\ \A q \in Refs : IsList(f, h[q])
  /\ \A q, r \in Refs : \A c \in On(f, h[q]) \cap On(f, h[r]) : q = r

Removed(f, h, r, x, g, k) ==
  \/ h[r] = x /\ k = [h EXCEPT ![r] = f[x]] /\ g = f
  \/ /\ h[r] # x /\ k = h
     /\ \E c \in On(f, h[r]) : f[c] = x /\ g = [f EXCEPT ![c] = f[x]]

Shorter(f, h, x, g, k) ==
  /\ g \in [Cells -> Points] /\ k \in [Refs -> Points]
  /\ \A q \in Refs : /\ IsList(g, k[q])
                     /\ On(g, k[q]) = On(f, h[q]) \ {x}

LEMMA RemoveOne ==
  ASSUME NEW f, NEW h, NEW r, r \in Refs, NEW x, NEW g, NEW k,
         Sheaf(f, h), x \in On(f, h[r]), Removed(f, h, r, x, g, k)
  PROVE  Shorter(f, h, x, g, k)
<1>0. /\ f \in [Cells -> Points] /\ h \in [Refs -> Points]
      /\ \A q \in Refs : IsList(f, h[q])
      /\ \A p, q \in Refs : \A c \in On(f, h[p]) \cap On(f, h[q]) : p = q
  BY DEF Sheaf
<1>1. \A q \in Refs : On(f, h[q]) \subseteq Cells
  BY <1>0, OnCells
<1>2. x \in Cells /\ f[x] \in Points
  BY <1>0, <1>1
<1>3. \A q \in Refs \ {r} : On(f, h[q]) \ {x} = On(f, h[q])
  BY <1>0
<1>4. CASE h[r] = x /\ k = [h EXCEPT ![r] = f[x]] /\ g = f
  <2>1. k \in [Refs -> Points] /\ k[r] = f[x] /\ \A q \in Refs \ {r} : k[q] = h[q]
    BY <1>0, <1>2, <1>4
  <2>2. x # NULL
    BY <1>2, ConnectionsAssumption
  <2>3. IsList(f, f[x]) /\ On(f, f[x]) = On(f, x) \ {x}
    BY <1>0, <1>4, <2>2, ShorterList
  <2> QED
    BY <1>0, <1>3, <1>4, <2>1, <2>3 DEF Shorter
<1>5. CASE /\ h[r] # x /\ k = h
           /\ \E c \in On(f, h[r]) : f[c] = x /\ g = [f EXCEPT ![c] = f[x]]
  <2>1. PICK c \in On(f, h[r]) : f[c] = x /\ g = [f EXCEPT ![c] = f[x]]
    BY <1>5
  <2>2. g \in [Cells -> Points] /\ g[c] = f[x] /\ \A d \in Cells \ {c} : g[d] = f[d]
    BY <1>0, <1>1, <1>2, <2>1
  <2>3. IsList(g, h[r]) /\ On(g, h[r]) = On(f, h[r]) \ {x}
    <3>1. IsList(f, h[r]) /\ f[c] = x
      BY <1>0, <2>1
    <3> QED
      BY <1>0, <2>2, <3>1, CutList
  <2>4. ASSUME NEW q \in Refs \ {r}
        PROVE  IsList(g, h[q]) /\ On(g, h[q]) = On(f, h[q])
    <3>1. c \notin On(f, h[q])
      BY <1>0, <2>1
    <3>2. \A d \in On(f, h[q]) : g[d] = f[d]
      BY <1>1, <2>2, <3>1
    <3>3. IsList(f, h[q])
      BY <1>0
    <3> QED
      BY <1>0, <2>2, <3>2, <3>3, SameList
  <2> QED
    BY <1>0, <1>3, <1>5, <2>2, <2>3, <2>4 DEF Shorter
<1> QED
  BY <1>4, <1>5 DEF Removed

(***************************************************************************)
(* The inductive invariant.  Clients make one call at a time: where it is, *)
(* its arguments, and the cell it works on.                                *)
(***************************************************************************)
Where == pc[Client]
Src == app[Client][1]
Dst == app[Client][2]
Cnx == cell[Client]

\* The first cell of the lists of r; of a client that is being closed, the first
\* that has not been freed yet.
DstFrom(r) == IF Src = r /\ Where \in {"close_dst", "free_dst"} THEN Cnx ELSE dstList[r]
SrcFrom(r) == IF Src = r /\ Where = "close_src" THEN Cnx
              ELSE IF Src = r /\ Where = "free_src" THEN next[Client] ELSE srcList[r]

Out(r) == On(nextDst, DstFrom(r))
In(r) == On(nextSrc, SrcFrom(r))
AllOut == {c \in Cells : \E r \in Refs : c \in Out(r)}
AllIn == {c \in Cells : \E r \in Refs : c \in In(r)}

\* The lists are lists, also at each write, and lead to connections between
\* clients that exist.
Wired ==
  \A r \in Refs :
    /\ IsList(nextDst, DstFrom(r)) /\ IsList(nextSrc, SrcFrom(r))
    /\ \A c \in Out(r) : itsSrc[c] = r /\ r \in open /\ itsDst[c] \in open
    /\ \A c \in In(r) : itsDst[c] = r /\ r \in open /\ itsSrc[c] \in open

\* A connection is on two lists, but for the one that a call is about to put on
\* its second list, or to take out of it.
Twins ==
  /\ Where \in {"set_dst", "put_dst"} => Cnx \notin AllOut /\ AllIn = AllOut \cup {Cnx}
  /\ Where \in {"clear_dst", "free_dst"} => Cnx \in AllOut /\ AllIn = AllOut \ {Cnx}
  /\ Where \notin {"set_dst", "put_dst", "clear_dst", "free_dst"} => AllIn = AllOut

Pairs == \A c, d \in AllOut : itsSrc[c] = itsSrc[d] /\ itsDst[c] = itsDst[d] => c = d

\* The cell that a call has taken and not yet linked, or not yet freed.
Limbo == IF Where \in {"set_src", "clear_free", "free_src"} THEN {Cnx} ELSE {}

Apart ==
  /\ free \cup Events \cup AllOut \cup AllIn \cup Limbo = Cells
  /\ free \cap Events = {}
  /\ (free \cup Events) \cap (AllOut \cup AllIn \cup Limbo) = {}
  /\ Limbo \cap (AllOut \cup AllIn) = {}

Once ==
  /\ \A c \in Cells : sender[c] # NULL => \A r \in Refs : c \notin rcv[r]
  /\ \A q, r \in Refs : \A c \in rcv[q] \cap rcv[r] : q = r

\* What each step of a call knows from those before it.
Wiring == {"set_find", "set_pop", "clear_find"} \cup SettingUp \cup Clearing

Calls ==
  /\ Where \in Wiring => {Src, Dst} \subseteq open
  /\ Where \in {"set_pop"} \cup SettingUp => \A c \in Out(Src) : itsDst[c] # Dst
  /\ Where \in SettingUp \cup Clearing => itsSrc[Cnx] = Src /\ itsDst[Cnx] = Dst
  /\ Where = "set_src" => nextSrc[Cnx] = srcList[Dst]
  /\ Where = "put_dst" => nextDst[Cnx] = dstList[Src]
  /\ Where \in {"clear_src", "clear_dst"} => Cnx \in Out(Src)
  /\ Where \in ClosingSteps => Src \in open \ {MidiShare}
  /\ Where = "free_dst" => nextDst[Cnx] = next[Client] /\ Cnx \in Out(Src)
  /\ Where \in {"close_dst", "free_dst"} =>
       Cnx = dstList[Src] \/ dstList[Src] \notin Out(Src) \cup {NULL}
  /\ Where \in {"close_dst", "free_dst", "flush", "free_appl"} => In(Src) = {}
  /\ Where \in {"flush", "free_appl"} => Out(Src) = {}
  /\ Where = "free_appl" => rcv[Src] = {}

\* What a step does to the connections.
SameConnections ==
  /\ AllOut' = AllOut
  /\ \A c \in AllOut : itsSrc'[c] = itsSrc[c] /\ itsDst'[c] = itsDst[c]
Gained(x) == x \notin AllOut /\ AllOut' = AllOut \cup {x} /\ UNCHANGED <<itsSrc, itsDst>>
Lost(x) ==
  /\ x \in AllOut /\ AllOut' = AllOut \ {x}
  /\ \A c \in AllOut \ {x} : itsSrc'[c] = itsSrc[c] /\ itsDst'[c] = itsDst[c]

IInv == TypeOK /\ Wired /\ Twins /\ Pairs /\ Apart /\ Once /\ Calls

(***************************************************************************)
(* What a step sees.                                                       *)
(***************************************************************************)
LEMMA OneLevel ==
  ASSUME Quiet
  PROVE  /\ Levels = {Client}
         /\ \A label : At(Client, label) <=> Where = label
BY DEF Quiet, Levels, At, Runs, Where

LEMMA Types ==
  ASSUME Quiet, TypeOK
  PROVE  /\ open \subseteq Refs /\ free \subseteq Cells
         /\ srcList \in [Refs -> Points] /\ dstList \in [Refs -> Points]
         /\ itsSrc \in [Cells -> Refs \cup {NULL}] /\ itsDst \in [Cells -> Refs \cup {NULL}]
         /\ nextSrc \in [Cells -> Points] /\ nextDst \in [Cells -> Points]
         /\ sender \in [Cells -> Refs \cup {NULL}] /\ rcv \in [Refs -> SUBSET Cells]
         /\ pc \in [Levels -> PcValues]
         /\ app \in [Levels -> (Refs \cup {NULL}) \X (Refs \cup {NULL})]
         /\ cell \in [Levels -> Points] /\ next \in [Levels -> Points]
         /\ Where \in PcValues /\ Cnx \in Points /\ next[Client] \in Points
         /\ Src \in Refs \cup {NULL} /\ Dst \in Refs \cup {NULL}
         /\ Where \in SettingUp \cup Clearing \cup Freeing => Cnx \in Cells
         /\ NULL \notin Cells /\ NULL \notin Refs /\ 0 \in Refs
         /\ \A r \in Refs : DstFrom(r) \in Points /\ SrcFrom(r) \in Points
<1>1. Client \in Levels
  BY OneLevel
<1>2. /\ open \subseteq Refs /\ free \subseteq Cells
      /\ srcList \in [Refs -> Points] /\ dstList \in [Refs -> Points]
      /\ itsSrc \in [Cells -> Refs \cup {NULL}] /\ itsDst \in [Cells -> Refs \cup {NULL}]
      /\ nextSrc \in [Cells -> Points] /\ nextDst \in [Cells -> Points]
      /\ sender \in [Cells -> Refs \cup {NULL}] /\ rcv \in [Refs -> SUBSET Cells]
      /\ pc \in [Levels -> PcValues]
      /\ app \in [Levels -> (Refs \cup {NULL}) \X (Refs \cup {NULL})]
      /\ cell \in [Levels -> Points] /\ next \in [Levels -> Points]
  BY DEF TypeOK, Points
<1>3. /\ Where \in PcValues /\ Cnx \in Points /\ next[Client] \in Points
      /\ Src \in Refs \cup {NULL} /\ Dst \in Refs \cup {NULL}
  BY <1>1, <1>2 DEF Where, Cnx, Src, Dst
<1>4. Where \in SettingUp \cup Clearing \cup Freeing => Cnx \in Cells
  BY <1>1 DEF TypeOK, Where, Cnx
<1>5. NULL \notin Cells /\ NULL \notin Refs /\ 0 \in Refs
  BY ConnectionsAssumption DEF Refs, MidiShare
<1>6. \A r \in Refs : DstFrom(r) \in Points /\ SrcFrom(r) \in Points
  BY <1>2, <1>3 DEF DstFrom, SrcFrom
<1> QED
  BY <1>2, <1>3, <1>4, <1>5, <1>6

\* The lists have cells, each in one of them.
LEMMA ListFacts ==
  ASSUME Quiet, TypeOK, Wired
  PROVE  /\ \A r \in Refs : Out(r) \subseteq Cells /\ In(r) \subseteq Cells
         /\ \A r \in Refs : /\ DstFrom(r) = NULL <=> Out(r) = {}
                            /\ SrcFrom(r) = NULL <=> In(r) = {}
                            /\ DstFrom(r) # NULL => DstFrom(r) \in Out(r)
                            /\ SrcFrom(r) # NULL => SrcFrom(r) \in In(r)
         /\ \A q, r \in Refs : \A c \in Out(q) \cap Out(r) : q = r
         /\ \A q, r \in Refs : \A c \in In(q) \cap In(r) : q = r
         /\ \A c \in AllOut : itsSrc[c] \in Refs /\ c \in Out(itsSrc[c])
         /\ \A c \in AllIn : itsDst[c] \in Refs /\ c \in In(itsDst[c])
         /\ AllOut \subseteq Cells /\ AllIn \subseteq Cells
<1>1. nextDst \in [Cells -> Points] /\ nextSrc \in [Cells -> Points]
  BY Types
<1>2. ASSUME NEW r \in Refs
      PROVE  /\ Out(r) \subseteq Cells
             /\ DstFrom(r) = NULL <=> Out(r) = {}
             /\ DstFrom(r) # NULL => DstFrom(r) \in Out(r)
  <2>1. IsList(nextDst, DstFrom(r))
    BY DEF Wired
  <2> QED
    BY <1>1, <2>1, OnCells DEF Out
<1>3. ASSUME NEW r \in Refs
      PROVE  /\ In(r) \subseteq Cells
             /\ SrcFrom(r) = NULL <=> In(r) = {}
             /\ SrcFrom(r) # NULL => SrcFrom(r) \in In(r)
  <2>1. IsList(nextSrc, SrcFrom(r))
    BY DEF Wired
  <2> QED
    BY <1>1, <2>1, OnCells DEF In
<1>4. /\ \A r \in Refs : \A c \in Out(r) : itsSrc[c] = r
      /\ \A r \in Refs : \A c \in In(r) : itsDst[c] = r
  BY DEF Wired
<1> QED
  BY <1>2, <1>3, <1>4 DEF AllOut, AllIn

\* A step that changes no list.
LEMMA SameLists ==
  ASSUME IInv, UNCHANGED <<nextSrc, nextDst, itsSrc, itsDst>>, open \subseteq open',
         \A r \in Refs : DstFrom(r)' = DstFrom(r) /\ SrcFrom(r)' = SrcFrom(r)
  PROVE  /\ \A r \in Refs : Out(r)' = Out(r) /\ In(r)' = In(r)
         /\ AllOut' = AllOut /\ AllIn' = AllIn
         /\ Wired' /\ Pairs'
<1>1. \A r \in Refs : Out(r)' = Out(r) /\ In(r)' = In(r)
  BY DEF Out, In
<1>2. AllOut' = AllOut /\ AllIn' = AllIn
  BY <1>1 DEF AllOut, AllIn
<1>3. Wired'
  <2>1. \A r \in Refs : IsList(nextDst, DstFrom(r))' /\ IsList(nextSrc, SrcFrom(r))'
    BY DEF IInv, Wired
  <2>2. \A r \in Refs :
          /\ \A c \in Out(r) : itsSrc[c] = r /\ r \in open /\ itsDst[c] \in open
          /\ \A c \in In(r) : itsDst[c] = r /\ r \in open /\ itsSrc[c] \in open
    BY DEF IInv, Wired
  <2>3. \A r \in Refs :
          /\ \A c \in Out(r)' : itsSrc'[c] = r /\ r \in open' /\ itsDst'[c] \in open'
          /\ \A c \in In(r)' : itsDst'[c] = r /\ r \in open' /\ itsSrc'[c] \in open'
    BY <1>1, <2>2
  <2> QED
    BY <2>1, <2>3 DEF Wired
<1>4. Pairs'
  BY <1>2 DEF IInv, Pairs
<1> QED
  BY <1>1, <1>2, <1>3, <1>4

LEMMA Going ==
  ASSUME Quiet, TypeOK, NEW label, Goto(Client, label)
  PROVE  /\ Where' = label
         /\ label \in PcValues => pc' \in [Levels -> PcValues]
BY OneLevel, Types DEF Goto, Where

LEMMA Returning ==
  ASSUME Quiet, TypeOK, Return(Client)
  PROVE  /\ Where' = "idle" /\ Src' = NULL /\ Dst' = NULL /\ Cnx' = NULL
         /\ pc' \in [Levels -> PcValues]
         /\ app' \in [Levels -> (Refs \cup {NULL}) \X (Refs \cup {NULL})]
         /\ cell' \in [Levels -> Points] /\ next' \in [Levels -> Points]
<1>1. Where' = "idle" /\ pc' \in [Levels -> PcValues]
  BY Going DEF Return, PcValues
<1>2. /\ app' = [app EXCEPT ![Client] = <<NULL, NULL>>]
      /\ cell' = [cell EXCEPT ![Client] = NULL]
      /\ next' = [next EXCEPT ![Client] = NULL]
  BY DEF Return
<1> QED
  BY <1>1, <1>2, OneLevel, Types DEF Src, Dst, Cnx, Points

\* Once a call is over, the lists begin where the table of clients says.
LEMMA IdleTops ==
  ASSUME Where \notin {"close_src", "free_src", "close_dst", "free_dst"}
  PROVE  \A r : DstFrom(r) = dstList[r] /\ SrcFrom(r) = srcList[r]
BY DEF DstFrom, SrcFrom

LEMMA IdleCalls ==
  ASSUME Where = "idle"
  PROVE  Calls /\ Limbo = {}
BY DEF Calls, Wiring, SettingUp, Clearing, ClosingSteps, Freeing, Limbo

LEMMA MakeTypes ==
  ASSUME Quiet, open \subseteq Refs, free \subseteq Cells,
         srcList \in [Refs -> Points], dstList \in [Refs -> Points],
         itsSrc \in [Cells -> Refs \cup {NULL}], itsDst \in [Cells -> Refs \cup {NULL}],
         nextSrc \in [Cells -> Points], nextDst \in [Cells -> Points],
         sender \in [Cells -> Refs \cup {NULL}], rcv \in [Refs -> SUBSET Cells],
         pc \in [Levels -> PcValues],
         app \in [Levels -> (Refs \cup {NULL}) \X (Refs \cup {NULL})],
         cell \in [Levels -> Points], next \in [Levels -> Points],
         Where \in SettingUp \cup Clearing \cup Freeing => Cnx \in Cells
  PROVE  TypeOK
BY OneLevel DEF TypeOK, Points, Where, Cnx

(***************************************************************************)
(* The initial states satisfy the invariant.                               *)
(***************************************************************************)
LEMMA InitIInv == Quiet /\ Init => IInv
<1> SUFFICES ASSUME Quiet, Init PROVE IInv
  OBVIOUS
<1>1. Client \in Levels /\ Where = "idle"
  BY OneLevel DEF Init, Where
<1>2. TypeOK
  BY <1>1 DEF Init, TypeOK, NoApps, Blank, PcValues, SettingUp, Clearing, Freeing
<1>3. Refs # {} => \A r \in Refs : DstFrom(r) = NULL /\ SrcFrom(r) = NULL
  BY <1>1 DEF Init, DstFrom, SrcFrom, NoApps
<1>4. \A r \in Refs : /\ IsList(nextDst, DstFrom(r)) /\ Out(r) = {}
                      /\ IsList(nextSrc, SrcFrom(r)) /\ In(r) = {}
  BY <1>2, <1>3, EmptyList, Types DEF Out, In
<1>5. AllOut = {} /\ AllIn = {}
  BY <1>4 DEF AllOut, AllIn
<1>6. Events = {}
  BY <1>2, Types DEF Init, Events, Blank
<1>7. Wired /\ Twins /\ Pairs
  BY <1>1, <1>4, <1>5 DEF Wired, Twins, Pairs
<1>8. Apart
  BY <1>1, <1>5, <1>6, IdleCalls DEF Init, Apart
<1>9. Once
  BY <1>2, Types DEF Init, Once, Blank
<1> QED
  BY <1>1, <1>2, <1>7, <1>8, <1>9, IdleCalls DEF IInv

(***************************************************************************)
(* One lemma per action: clients come, send and receive.                   *)
(***************************************************************************)
LEMMA MSOpenStep ==
  ASSUME Quiet, IInv, MSOpen
  PROVE  IInv' /\ SameConnections
<1>1. TypeOK /\ Where = "idle"
  BY OneLevel DEF IInv, MSOpen
<1>2. /\ UNCHANGED <<srcList, dstList, itsSrc, itsDst, nextSrc, nextDst, free, sender, rcv,
                     pc, app, cell, next>>
      /\ open' = open \cup {MidiShare, Least(Apps \ open)}
  BY DEF MSOpen, lists, events, locals
<1>3. Least(Apps \ open) \in Apps
  <2>1. Apps \ open \subseteq Nat /\ Apps \ open # {}
    BY ConnectionsAssumption DEF MSOpen
  <2> QED
    BY <2>1, LeastIsThere
<1>4. open' \subseteq Refs
  BY <1>1, <1>2, <1>3, Types DEF Refs
<1>5. TypeOK'
  BY <1>1, <1>2, <1>4 DEF TypeOK
<1>6. Where' = "idle" /\ \A r \in Refs : DstFrom(r)' = DstFrom(r) /\ SrcFrom(r)' = SrcFrom(r)
  BY <1>1, <1>2 DEF Where, DstFrom, SrcFrom, Src, Cnx
<1>7. AllOut' = AllOut /\ AllIn' = AllIn /\ Wired' /\ Pairs'
  BY <1>2, <1>6, SameLists
<1>8. Twins'
  BY <1>1, <1>6, <1>7 DEF IInv, Twins
<1>9. Apart'
  <2>1. Limbo' = {} /\ Limbo = {}
    BY <1>1, <1>6 DEF Limbo
  <2>2. Events' = Events
    BY <1>2 DEF Events
  <2> QED
    BY <1>2, <1>7, <2>1, <2>2 DEF IInv, Apart
<1>10. Once'
  BY <1>2 DEF IInv, Once
<1>11. Calls'
  BY <1>6 DEF Calls, Wiring, SettingUp, Clearing, ClosingSteps, Freeing
<1> QED
  BY <1>2, <1>5, <1>7, <1>8, <1>9, <1>10, <1>11 DEF IInv, SameConnections

LEMMA MSSendStep ==
  ASSUME Quiet, IInv, NEW r \in Refs, MSSend(r)
  PROVE  IInv' /\ SameConnections
<1>1. TypeOK /\ r \in Refs /\ r # NULL /\ r \in open \ {MidiShare} /\ ~ Closing(r)
  BY Types DEF IInv, MSSend
<1>2. PICK c \in free : free' = free \ {c} /\ sender' = [sender EXCEPT ![c] = r]
  BY DEF MSSend
<1>3. UNCHANGED <<open, srcList, dstList, itsSrc, itsDst, nextSrc, nextDst, rcv,
                  pc, app, cell, next>>
  BY DEF MSSend, lists, locals
<1>4. c \in Cells /\ sender'[c] = r /\ \A d \in Cells \ {c} : sender'[d] = sender[d]
  BY <1>1, <1>2, Types
<1>5. TypeOK'
  <2>1. sender' \in [Cells -> Refs \cup {NULL}] /\ free' \subseteq Cells
    BY <1>1, <1>2, Types
  <2> QED
    BY <1>1, <1>3, <2>1 DEF TypeOK
<1>6. /\ Where' = Where /\ Src' = Src /\ Dst' = Dst /\ Cnx' = Cnx
      /\ \A q \in Refs : DstFrom(q)' = DstFrom(q) /\ SrcFrom(q)' = SrcFrom(q)
  BY <1>3 DEF Where, DstFrom, SrcFrom, Src, Dst, Cnx
<1>7. /\ \A q \in Refs : Out(q)' = Out(q) /\ In(q)' = In(q)
      /\ AllOut' = AllOut /\ AllIn' = AllIn /\ Wired' /\ Pairs'
  BY <1>3, <1>6, SameLists
<1>8. Twins'
  BY <1>6, <1>7 DEF IInv, Twins
<1>9. Events' = Events \cup {c} /\ c \notin Events
  <2>1. c \notin Events
    BY DEF IInv, Apart
  <2> QED
    BY <1>1, <1>3, <1>4, <2>1 DEF Events
<1>10. Apart'
  <2>1. Limbo' = Limbo
    BY <1>6 DEF Limbo
  <2> QED
    BY <1>2, <1>4, <1>7, <1>9, <2>1 DEF IInv, Apart
<1>11. Once'
  <2>1. \A q \in Refs : c \notin rcv[q]
    BY <1>9 DEF Events
  <2> QED
    BY <1>3, <1>4, <2>1 DEF IInv, Once
<1>12. Calls'
  <2>2. Where \in Wiring => Src \in Refs
    BY <1>1, Types DEF IInv, Calls
  <2>3. Where \in ClosingSteps => Src \in Refs
    BY <1>1, Types DEF IInv, Calls
  <2>5. Calls
    BY DEF IInv
  <2> QED
    BY <1>3, <1>6, <1>7, <2>2, <2>3, <2>5
       DEF Calls, Wiring, SettingUp, Clearing, ClosingSteps, Freeing
<1> QED
  BY <1>3, <1>5, <1>7, <1>8, <1>10, <1>11, <1>12 DEF IInv, SameConnections

LEMMA MSGetEvStep ==
  ASSUME Quiet, IInv, NEW r \in Refs, MSGetEv(r)
  PROVE  IInv' /\ SameConnections
<1>1. TypeOK
  BY DEF IInv
<1>2. PICK c \in rcv[r] : rcv' = [rcv EXCEPT ![r] = @ \ {c}] /\ free' = free \cup {c}
  BY DEF MSGetEv
<1>3. UNCHANGED <<open, srcList, dstList, itsSrc, itsDst, nextSrc, nextDst, sender,
                  pc, app, cell, next>>
  BY DEF MSGetEv, lists, locals
<1>4. /\ c \in Cells /\ rcv'[r] = rcv[r] \ {c} /\ \A q \in Refs \ {r} : rcv'[q] = rcv[q]
      /\ rcv' \in [Refs -> SUBSET Cells] /\ free' \subseteq Cells
  BY <1>1, <1>2, Types
<1>5. TypeOK'
  BY <1>1, <1>3, <1>4 DEF TypeOK
<1>6. /\ Where' = Where /\ Src' = Src /\ Dst' = Dst /\ Cnx' = Cnx
      /\ \A q \in Refs : DstFrom(q)' = DstFrom(q) /\ SrcFrom(q)' = SrcFrom(q)
  BY <1>3 DEF Where, DstFrom, SrcFrom, Src, Dst, Cnx
<1>7. /\ \A q \in Refs : Out(q)' = Out(q) /\ In(q)' = In(q)
      /\ AllOut' = AllOut /\ AllIn' = AllIn /\ Wired' /\ Pairs'
  BY <1>3, <1>6, SameLists
<1>8. Twins'
  BY <1>6, <1>7 DEF IInv, Twins
<1>9. Events' = Events \ {c} /\ c \in Events
  <2>1. sender[c] = NULL /\ \A q \in Refs \ {r} : c \notin rcv[q]
    BY <1>2, <1>4 DEF IInv, Once
  <2>2. ASSUME NEW d \in Events' PROVE d \in Events \ {c}
    BY <1>3, <1>4, <2>1, <2>2 DEF Events
  <2>3. ASSUME NEW d \in Events \ {c} PROVE d \in Events'
    BY <1>3, <1>4, <2>3 DEF Events
  <2>4. c \in Events
    BY <1>2 DEF Events
  <2> QED
    BY <2>2, <2>3, <2>4
<1>10. Apart'
  <2>1. Limbo' = Limbo
    BY <1>6 DEF Limbo
  <2> QED
    BY <1>2, <1>4, <1>7, <1>9, <2>1 DEF IInv, Apart
<1>11. Once'
  <2>1. \A q \in Refs : rcv'[q] \subseteq rcv[q]
    BY <1>4
  <2> QED
    BY <1>3, <2>1 DEF IInv, Once
<1>12. Calls'
  <2>1. Where \in Wiring \cup ClosingSteps => Src \in Refs
    BY <1>1, Types DEF IInv, Calls
  <2>2. \A q \in Refs : rcv'[q] \subseteq rcv[q]
    BY <1>4
  <2> QED
    BY <1>3, <1>6, <1>7, <2>1, <2>2
       DEF IInv, Calls, Wiring, SettingUp, Clearing, ClosingSteps, Freeing
<1> QED
  BY <1>3, <1>5, <1>7, <1>8, <1>10, <1>11, <1>12 DEF IInv, SameConnections

\* The clock handler: an event becomes its copies.
LEMMA DeliverStep ==
  ASSUME Quiet, IInv, NEW e \in Cells, sender[e] # NULL, NEW to, Deliver(e, to),
         \A i \in DOMAIN to : to[i] \in Refs /\ (Where = "free_appl" => to[i] # Src)
  PROVE  IInv' /\ SameConnections
<1> DEFINE served == DOMAIN to
<1>1. TypeOK /\ sender[e] # NULL
  BY DEF IInv
<1>2. PICK copy \in [served -> free] :
        /\ \A i, j \in served : copy[i] = copy[j] => i = j
        /\ rcv' = [r \in Refs |-> rcv[r] \cup {copy[i] : i \in {j \in served : to[j] = r}}]
        /\ free' = (free \ {copy[i] : i \in served}) \cup {e}
  BY DEF Deliver
<1>3. /\ UNCHANGED <<open, srcList, dstList, itsSrc, itsDst, nextSrc, nextDst,
                     pc, app, cell, next>>
      /\ sender' = [sender EXCEPT ![e] = NULL]
  BY DEF Deliver, lists, locals
<1>4. \A i \in served : to[i] \in Refs
  OBVIOUS
<1> DEFINE Copies == {copy[i] : i \in served}
           For(r) == {copy[i] : i \in {j \in served : to[j] = r}}
<1>5. rcv' = [r \in Refs |-> rcv[r] \cup For(r)] /\ free' = (free \ Copies) \cup {e}
  BY <1>2
<1>6. Copies \subseteq free /\ \A r \in Refs : For(r) \subseteq Copies
  OBVIOUS
<1>7. \A q, r \in Refs : \A c \in For(q) \cap For(r) : q = r
  <2> SUFFICES ASSUME NEW q \in Refs, NEW r \in Refs, NEW c \in For(q) \cap For(r)
               PROVE  q = r
    OBVIOUS
  <2> HIDE DEF served
  <2>1. PICK i \in served : to[i] = q /\ c = copy[i]
    OBVIOUS
  <2>2. PICK j \in served : to[j] = r /\ c = copy[j]
    OBVIOUS
  <2>3. i = j
    BY <1>2, <2>1, <2>2
  <2> QED
    BY <2>1, <2>2, <2>3
<1>8. \A c \in Copies : \E r \in Refs : c \in For(r)
  <2> HIDE DEF served
  <2> QED
    BY <1>4
<1> HIDE DEF served, For, Copies
<1>9. /\ rcv' \in [Refs -> SUBSET Cells] /\ free' \subseteq Cells
      /\ sender' \in [Cells -> Refs \cup {NULL}]
      /\ \A r \in Refs : rcv'[r] = rcv[r] \cup For(r)
      /\ sender'[e] = NULL /\ \A c \in Cells \ {e} : sender'[c] = sender[c]
  BY <1>1, <1>3, <1>5, <1>6, Types
<1>10. TypeOK'
  BY <1>1, <1>3, <1>9 DEF TypeOK
<1>11. /\ Where' = Where /\ Src' = Src /\ Dst' = Dst /\ Cnx' = Cnx
       /\ \A q \in Refs : DstFrom(q)' = DstFrom(q) /\ SrcFrom(q)' = SrcFrom(q)
  BY <1>3 DEF Where, DstFrom, SrcFrom, Src, Dst, Cnx
<1>12. /\ \A q \in Refs : Out(q)' = Out(q) /\ In(q)' = In(q)
       /\ AllOut' = AllOut /\ AllIn' = AllIn /\ Wired' /\ Pairs'
  BY <1>3, <1>11, SameLists
<1>13. Twins'
  BY <1>11, <1>12 DEF IInv, Twins
<1>14. /\ e \in Events /\ \A r \in Refs : e \notin rcv[r]
       /\ Events' = (Events \ {e}) \cup Copies
       /\ Copies \cap Events = {} /\ e \notin Copies
  <2>1. e \in Events /\ \A r \in Refs : e \notin rcv[r]
    BY <1>1 DEF IInv, Once, Events
  <2>2. Copies \cap Events = {} /\ e \notin Copies
    BY <1>6, <2>1 DEF IInv, Apart
  <2>3. ASSUME NEW c \in Events' PROVE c \in (Events \ {e}) \cup Copies
    <3>1. CASE c \in Cells /\ sender'[c] # NULL
      BY <1>9, <3>1 DEF Events
    <3>2. CASE \E r \in Refs : c \in rcv'[r]
      <4>1. PICK r \in Refs : c \in rcv[r] \cup For(r)
        BY <1>9, <3>2
      <4> QED
        BY <1>6, <2>1, <4>1 DEF Events
    <3> QED
      BY <2>3, <3>1, <3>2 DEF Events
  <2>4. ASSUME NEW c \in Events \ {e} PROVE c \in Events'
    BY <1>9, <2>4 DEF Events
  <2>5. ASSUME NEW c \in Copies PROVE c \in Events'
    BY <1>8, <1>9, <2>5 DEF Events
  <2> QED
    BY <2>1, <2>2, <2>3, <2>4, <2>5
<1>15. Apart'
  <2>1. Limbo' = Limbo
    BY <1>11 DEF Limbo
  <2>2. e \notin free \cup AllOut \cup AllIn \cup Limbo
    BY <1>14 DEF IInv, Apart
  <2> QED
    BY <1>5, <1>6, <1>12, <1>14, <2>1, <2>2 DEF IInv, Apart
<1>16. Once'
  <2>1. \A c \in Copies : sender'[c] = NULL /\ \A r \in Refs : c \notin rcv[r]
    <3>1. \A c \in Copies : c \in Cells /\ c \notin Events /\ c # e
      BY <1>1, <1>6, <1>14, Types
    <3> QED
      BY <1>9, <3>1 DEF Events
  <2>2. ASSUME NEW c \in Cells, sender'[c] # NULL, NEW r \in Refs
        PROVE  c \notin rcv'[r]
    <3>1. sender[c] # NULL
      BY <1>9, <2>2
    <3> QED
      BY <1>6, <1>9, <2>1, <2>2, <3>1 DEF IInv, Once
  <2>3. ASSUME NEW q \in Refs, NEW r \in Refs, NEW c \in rcv'[q] \cap rcv'[r]
        PROVE  q = r
    <3>1. c \in rcv[q] \cup For(q) /\ c \in rcv[r] \cup For(r)
      BY <1>9
    <3>2. CASE c \in Copies
      BY <1>7, <2>1, <3>1, <3>2
    <3>3. CASE c \notin Copies
      BY <1>6, <3>1, <3>3 DEF IInv, Once
    <3> QED
      BY <3>2, <3>3
  <2> QED
    BY <2>2, <2>3 DEF Once
<1>17. Calls'
  <2>1. Where \in Wiring \cup ClosingSteps => Src \in Refs
    BY <1>1, Types DEF IInv, Calls
  <2>3. Calls
    BY DEF IInv
  <2>4. Where = "free_appl" => rcv'[Src] = {}
    <3>1. SUFFICES ASSUME Where = "free_appl" PROVE rcv'[Src] = {}
      OBVIOUS
    <3>2. Src \in Refs /\ rcv[Src] = {}
      BY <2>1, <2>3, <3>1 DEF Calls, ClosingSteps
    <3>3. For(Src) = {}
      BY <3>1 DEF For, served
    <3> QED
      BY <1>9, <3>2, <3>3
  <2> QED
    BY <1>3, <1>11, <1>12, <2>1, <2>3, <2>4
       DEF Calls, Wiring, SettingUp, Clearing, ClosingSteps, Freeing
<1> QED
  BY <1>3, <1>10, <1>12, <1>13, <1>15, <1>16, <1>17 DEF IInv, SameConnections

\* Unless a client is emptying its list, what the handler follows is the list.
LEMMA Followed ==
  ASSUME NEW r, ~ Emptying(r)
  PROVE  DstFrom(r) = dstList[r]
BY DEF Emptying, Closing, DstFrom, Where, Src, Cnx, ClosingSteps, Freeing

LEMMA DispatchStep ==
  ASSUME Quiet, IInv, NEW e \in Cells, Dispatch(e)
  PROVE  IInv' /\ SameConnections
<1> DEFINE s == sender[e]
           D == Destinations(s)
           to == [i \in Served(s) |-> itsDst[D[i]]]
<1>1. TypeOK /\ s # NULL /\ ~ Emptying(s) /\ Deliver(e, to)
  BY DEF IInv, Dispatch
<1>2. ASSUME NEW i \in Served(s)
      PROVE  itsDst[D[i]] \in Refs /\ (Where = "free_appl" => itsDst[D[i]] # Src)
  <2>1. s \in open /\ i \in 1..Len(D)
    BY DEF Served, Kept
  <2>2. s \in Refs /\ DstFrom(s) = dstList[s]
    BY <1>1, <2>1, Followed, Types
  <2>3. D[i] \in Out(s)
    BY <2>1, <2>2 DEF Out, On, Members, Destinations
  <2> HIDE DEF D, s
  <2>4. itsDst[D[i]] \in Refs
    BY <1>1, <2>2, <2>3, Types DEF IInv, Wired
  <2>5. ASSUME Where = "free_appl", itsDst[D[i]] = Src PROVE FALSE
    <3>1. In(Src) = {} /\ AllIn = AllOut
      BY <2>5 DEF IInv, Calls, Twins
    <3>2. D[i] \in AllOut
      BY <1>1, <2>2, <2>3, ListFacts DEF IInv, AllOut
    <3> QED
      BY <1>1, <2>5, <3>1, <3>2, ListFacts DEF IInv
  <2> QED
    BY <2>4, <2>5
<1>3. DOMAIN to = Served(s) /\ \A i \in Served(s) : to[i] = itsDst[D[i]]
  OBVIOUS
<1> HIDE DEF to, D
<1> QED
  BY <1>1, <1>2, <1>3, DeliverStep

\* While a client empties its list the copies may go to anybody.
LEMMA DispatchLostStep ==
  ASSUME Quiet, IInv, NEW e \in Cells, DispatchLost(e)
  PROVE  IInv' /\ SameConnections
<1>1. TypeOK /\ sender[e] # NULL /\ Where # "free_appl"
  BY DEF IInv, DispatchLost, Emptying, Where
<1>2. PICK D \in SUBSET (open \ {MidiShare}) : Deliver(e, [d \in D |-> d])
  BY DEF DispatchLost
<1> DEFINE to == [d \in D |-> d]
<1>3. D \subseteq Refs
  BY <1>1, Types
<1>4. DOMAIN to = D /\ \A d \in D : to[d] = d
  OBVIOUS
<1>5. Deliver(e, to)
  BY <1>2
<1> HIDE DEF to
<1> QED
  BY <1>1, <1>3, <1>4, <1>5, DeliverStep

(***************************************************************************)
(* MSConnect and SetConnection.                                            *)
(***************************************************************************)
LEMMA MSConnectStep ==
  ASSUME Quiet, IInv, NEW s \in Refs, NEW d \in Refs, NEW state \in BOOLEAN,
         MSConnect(Client, s, d, state)
  PROVE  IInv' /\ SameConnections
<1>1. TypeOK /\ Where = "idle" /\ {s, d} \subseteq open
  BY OneLevel DEF IInv, MSConnect
<1>2. /\ UNCHANGED <<open, srcList, dstList, itsSrc, itsDst, nextSrc, nextDst, free, sender,
                     rcv, cell, next>>
      /\ app' = [app EXCEPT ![Client] = <<s, d>>]
  BY DEF MSConnect, lists, events
<1>3. Where' \in {"set_find", "clear_find"} /\ pc' \in [Levels -> PcValues]
  <2>1. Goto(Client, "set_find") \/ Goto(Client, "clear_find")
    BY DEF MSConnect
  <2>2. "set_find" \in PcValues /\ "clear_find" \in PcValues
    BY DEF PcValues
  <2> QED
    BY <1>1, <2>1, <2>2, Going
<1>4. /\ Src' = s /\ Dst' = d
      /\ app' \in [Levels -> (Refs \cup {NULL}) \X (Refs \cup {NULL})]
  BY <1>1, <1>2, OneLevel, Types DEF Src, Dst
<1>5. TypeOK'
  <2>1. Where' \notin SettingUp \cup Clearing \cup Freeing
    BY <1>3 DEF SettingUp, Clearing, Freeing
  <2>2. pc'[Client] = Where' /\ Levels = {Client}
    BY OneLevel DEF Where
  <2> QED
    BY <1>1, <1>2, <1>3, <1>4, <2>1, <2>2 DEF TypeOK
<1>6. \A q \in Refs : DstFrom(q)' = DstFrom(q) /\ SrcFrom(q)' = SrcFrom(q)
  BY <1>1, <1>2, <1>3 DEF DstFrom, SrcFrom
<1>7. /\ \A q \in Refs : Out(q)' = Out(q) /\ In(q)' = In(q)
      /\ AllOut' = AllOut /\ AllIn' = AllIn /\ Wired' /\ Pairs'
  BY <1>2, <1>6, SameLists
<1>8. Twins'
  BY <1>1, <1>3, <1>7 DEF IInv, Twins
<1>9. Apart'
  <2>1. Limbo' = {} /\ Limbo = {}
    BY <1>1, <1>3 DEF Limbo
  <2>2. Events' = Events
    BY <1>2 DEF Events
  <2> QED
    BY <1>2, <1>7, <2>1, <2>2 DEF IInv, Apart
<1>10. Once'
  BY <1>2 DEF IInv, Once
<1>11. Calls'
  BY <1>1, <1>2, <1>3, <1>4
     DEF Calls, Wiring, SettingUp, Clearing, ClosingSteps, Freeing
<1> QED
  BY <1>2, <1>5, <1>7, <1>8, <1>9, <1>10, <1>11 DEF IInv, SameConnections

\* A call returns, and has changed no list since its last step.
LEMMA GiveUp ==
  ASSUME Quiet, IInv, Return(Client),
         Where \in {"set_find", "set_pop", "clear_find"},
         UNCHANGED <<open, srcList, dstList, itsSrc, itsDst, nextSrc, nextDst, free, sender, rcv>>
  PROVE  IInv' /\ SameConnections
<1>1. TypeOK
  BY DEF IInv
<1>2. /\ Where' = "idle" /\ pc' \in [Levels -> PcValues]
      /\ app' \in [Levels -> (Refs \cup {NULL}) \X (Refs \cup {NULL})]
      /\ cell' \in [Levels -> Points] /\ next' \in [Levels -> Points]
  BY <1>1, Returning
<1>3. TypeOK'
  <2>1. pc'[Client] = "idle" /\ Levels = {Client}
    BY <1>2, OneLevel DEF Where
  <2> QED
    BY <1>1, <1>2, <2>1 DEF TypeOK, Points, SettingUp, Clearing, Freeing
<1>4. \A q \in Refs : DstFrom(q)' = DstFrom(q) /\ SrcFrom(q)' = SrcFrom(q)
  BY <1>2 DEF DstFrom, SrcFrom
<1>5. AllOut' = AllOut /\ AllIn' = AllIn /\ Wired' /\ Pairs'
  BY <1>4, SameLists
<1>6. Twins'
  BY <1>2, <1>5 DEF IInv, Twins
<1>7. Apart'
  <2>1. Limbo' = {} /\ Limbo = {}
    BY <1>2 DEF Limbo
  <2>2. Events' = Events
    BY DEF Events
  <2> QED
    BY <1>5, <2>1, <2>2 DEF IInv, Apart
<1>8. Once'
  BY DEF IInv, Once
<1>9. Calls'
  BY <1>2 DEF Calls, Wiring, SettingUp, Clearing, ClosingSteps, Freeing
<1> QED
  BY <1>3, <1>5, <1>6, <1>7, <1>8, <1>9 DEF IInv, SameConnections

LEMMA SetFindStep ==
  ASSUME Quiet, IInv, SetFind(Client)
  PROVE  IInv' /\ SameConnections
<1>1. /\ TypeOK /\ Where = "set_find"
      /\ UNCHANGED <<open, srcList, dstList, itsSrc, itsDst, nextSrc, nextDst, free, sender, rcv>>
  BY OneLevel DEF IInv, SetFind, lists, events
<1>2. CASE Found(Client) # {} /\ Return(Client)
  BY <1>1, <1>2, GiveUp
<1>3. CASE Found(Client) = {} /\ Goto(Client, "set_pop") /\ UNCHANGED <<app, cell, next>>
  <2>1. Where' = "set_pop" /\ pc' \in [Levels -> PcValues]
    <3>1. "set_pop" \in PcValues
      BY DEF PcValues
    <3> QED
      BY <1>1, <1>3, <3>1, Going
  <2>2. TypeOK'
    <3>1. pc'[Client] = "set_pop" /\ Levels = {Client}
      BY <2>1, OneLevel DEF Where
    <3> QED
      BY <1>1, <1>3, <2>1, <3>1 DEF TypeOK, SettingUp, Clearing, Freeing
  <2>3. /\ Src' = Src /\ Dst' = Dst
        /\ \A q \in Refs : DstFrom(q)' = DstFrom(q) /\ SrcFrom(q)' = SrcFrom(q)
    BY <1>1, <1>3, <2>1 DEF DstFrom, SrcFrom, Src, Dst
  <2>4. /\ \A q \in Refs : Out(q)' = Out(q) /\ In(q)' = In(q)
        /\ AllOut' = AllOut /\ AllIn' = AllIn /\ Wired' /\ Pairs'
    BY <1>1, <2>3, SameLists
  <2>5. Twins'
    BY <1>1, <2>1, <2>4 DEF IInv, Twins
  <2>6. Apart'
    <3>1. Limbo' = {} /\ Limbo = {}
      BY <1>1, <2>1 DEF Limbo
    <3>2. Events' = Events
      BY <1>1 DEF Events
    <3> QED
      BY <1>1, <2>4, <3>1, <3>2 DEF IInv, Apart
  <2>7. Once'
    BY <1>1 DEF IInv, Once
  <2>8. Calls'
    <3>1. {Src, Dst} \subseteq open
      BY <1>1 DEF IInv, Calls, Wiring
    <3>2. \A c \in Out(Src) : itsDst[c] # Dst
      <4>1. DstFrom(Src) = dstList[Src]
        BY <1>1 DEF DstFrom
      <4> QED
        BY <1>3, <4>1 DEF Found, Destinations, Out, On, Src, Dst
    <3>3. Src \in Refs
      BY <1>1, <3>1, Types
    <3>4. Out(Src)' = Out(Src)
      BY <2>3, <2>4, <3>3
    <3> QED
      BY <1>1, <2>1, <2>3, <3>1, <3>2, <3>4
         DEF Calls, Wiring, SettingUp, Clearing, ClosingSteps, Freeing
  <2> QED
    BY <1>1, <2>2, <2>4, <2>5, <2>6, <2>7, <2>8 DEF IInv, SameConnections
<1> QED
  BY <1>2, <1>3 DEF SetFind

\* A step that writes to no field by which a list leads, and to no other field of
\* a connection.
LEMMA OffList ==
  ASSUME Quiet, IInv, nextSrc' \in [Cells -> Points], nextDst' \in [Cells -> Points],
         open' = open,
         \A c \in AllIn : nextSrc'[c] = nextSrc[c],
         \A c \in AllOut : nextDst'[c] = nextDst[c],
         \A c \in AllOut \cup AllIn : itsSrc'[c] = itsSrc[c] /\ itsDst'[c] = itsDst[c],
         \A r \in Refs : DstFrom(r)' = DstFrom(r) /\ SrcFrom(r)' = SrcFrom(r)
  PROVE  /\ \A r \in Refs : Out(r)' = Out(r) /\ In(r)' = In(r)
         /\ AllOut' = AllOut /\ AllIn' = AllIn
         /\ Wired' /\ Pairs'
<1>1. /\ nextSrc \in [Cells -> Points] /\ nextDst \in [Cells -> Points]
      /\ \A r \in Refs : Out(r) \subseteq AllOut /\ In(r) \subseteq AllIn
  <2>1. \A r \in Refs : Out(r) \subseteq Cells /\ In(r) \subseteq Cells
    BY ListFacts DEF IInv
  <2> QED
    BY <2>1, Types DEF IInv, AllOut, AllIn
<1>2. ASSUME NEW r \in Refs
      PROVE  IsList(nextDst, DstFrom(r))' /\ Out(r)' = Out(r)
  <2>1. IsList(nextDst, DstFrom(r)) /\ \A c \in On(nextDst, DstFrom(r)) : nextDst'[c] = nextDst[c]
    BY <1>1 DEF IInv, Wired, Out
  <2>2. IsList(nextDst', DstFrom(r)) /\ On(nextDst', DstFrom(r)) = On(nextDst, DstFrom(r))
    BY <1>1, <2>1, SameList
  <2> QED
    BY <2>2 DEF Out
<1>3. ASSUME NEW r \in Refs
      PROVE  IsList(nextSrc, SrcFrom(r))' /\ In(r)' = In(r)
  <2>1. IsList(nextSrc, SrcFrom(r)) /\ \A c \in On(nextSrc, SrcFrom(r)) : nextSrc'[c] = nextSrc[c]
    BY <1>1 DEF IInv, Wired, In
  <2>2. IsList(nextSrc', SrcFrom(r)) /\ On(nextSrc', SrcFrom(r)) = On(nextSrc, SrcFrom(r))
    BY <1>1, <2>1, SameList
  <2> QED
    BY <2>2 DEF In
<1>4. AllOut' = AllOut /\ AllIn' = AllIn
  BY <1>2, <1>3 DEF AllOut, AllIn
<1>5. Wired'
  <2>1. ASSUME NEW r \in Refs
        PROVE  /\ \A c \in Out(r)' : itsSrc'[c] = r /\ r \in open' /\ itsDst'[c] \in open'
               /\ \A c \in In(r)' : itsDst'[c] = r /\ r \in open' /\ itsSrc'[c] \in open'
    BY <1>1, <1>2, <1>3 DEF IInv, Wired
  <2> QED
    BY <1>2, <1>3, <2>1 DEF Wired
<1>6. Pairs'
  BY <1>4 DEF IInv, Pairs
<1> QED
  BY <1>2, <1>3, <1>4, <1>5, <1>6

LEMMA SetPopStep ==
  ASSUME Quiet, IInv, SetPop(Client)
  PROVE  IInv' /\ SameConnections
<1>1. /\ TypeOK /\ Where = "set_pop"
      /\ UNCHANGED <<open, srcList, dstList, nextDst, sender, rcv>>
  BY OneLevel DEF IInv, SetPop, events
<1>2. CASE Return(Client) /\ UNCHANGED <<free, itsSrc, itsDst, nextSrc>>
  BY <1>1, <1>2, GiveUp
<1>3. ASSUME NEW c \in free,
             free' = free \ {c}, cell' = [cell EXCEPT ![Client] = c],
             itsSrc' = [itsSrc EXCEPT ![c] = app[Client][1]],
             itsDst' = [itsDst EXCEPT ![c] = app[Client][2]],
             nextSrc' = [nextSrc EXCEPT ![c] = srcList[app[Client][2]]],
             Goto(Client, "set_src"), UNCHANGED <<app, next>>
      PROVE  IInv' /\ SameConnections
  <2>1. Where' = "set_src" /\ pc' \in [Levels -> PcValues]
    <3>1. "set_src" \in PcValues
      BY DEF PcValues, SettingUp
    <3> QED
      BY <1>1, <1>3, <3>1, Going
  <2>2. /\ c \in Cells /\ Src \in open /\ Dst \in open /\ Src \in Refs /\ Dst \in Refs
        /\ \A d \in Out(Src) : itsDst[d] # Dst
    <3>1. {Src, Dst} \subseteq open /\ \A d \in Out(Src) : itsDst[d] # Dst
      BY <1>1 DEF IInv, Calls, Wiring
    <3> QED
      BY <1>1, <1>3, <3>1, Types
  <2>3. Src' = Src /\ Dst' = Dst /\ Cnx' = c /\ cell' \in [Levels -> Points]
    BY <1>1, <1>3, <2>2, OneLevel, Types DEF Src, Dst, Cnx, Points
  <2>4. /\ itsSrc' \in [Cells -> Refs \cup {NULL}] /\ itsSrc'[c] = Src
        /\ itsDst' \in [Cells -> Refs \cup {NULL}] /\ itsDst'[c] = Dst
        /\ nextSrc' \in [Cells -> Points] /\ nextSrc'[c] = srcList[Dst]
        /\ \A d \in Cells \ {c} : /\ itsSrc'[d] = itsSrc[d] /\ itsDst'[d] = itsDst[d]
                                  /\ nextSrc'[d] = nextSrc[d]
    BY <1>1, <1>3, <2>2, Types DEF Src, Dst
  <2>5. TypeOK'
    <3>1. Cnx' \in Cells /\ free' \subseteq Cells
      BY <1>1, <1>3, <2>2, <2>3, Types
    <3> QED
      BY <1>1, <1>3, <2>1, <2>3, <2>4, <3>1, Types, MakeTypes, OneLevel DEF TypeOK, Points, Where, Cnx
  <2>6. \A q \in Refs : DstFrom(q)' = DstFrom(q) /\ SrcFrom(q)' = SrcFrom(q)
    BY <1>1, <2>1 DEF DstFrom, SrcFrom
  <2>7. c \notin AllOut /\ c \notin AllIn /\ c \notin Events
    BY <1>3 DEF IInv, Apart
  <2>8. /\ \A q \in Refs : Out(q)' = Out(q) /\ In(q)' = In(q)
        /\ AllOut' = AllOut /\ AllIn' = AllIn /\ Wired' /\ Pairs'
    <3>1. nextDst' \in [Cells -> Points] /\ AllOut \subseteq Cells /\ AllIn \subseteq Cells
      BY <1>1, Types DEF AllOut, AllIn
    <3>2. \A d \in AllOut \cup AllIn : d \in Cells \ {c}
      BY <2>7, <3>1
    <3> QED
      BY <1>1, <2>4, <2>6, <3>1, <3>2, OffList
  <2>9. Twins'
    BY <1>1, <2>1, <2>8 DEF IInv, Twins
  <2>10. Apart'
    <3>1. Limbo' = {c} /\ Limbo = {}
      BY <1>1, <2>1, <2>3 DEF Limbo
    <3>2. Events' = Events
      BY <1>1 DEF Events
    <3> QED
      BY <1>3, <2>7, <2>8, <3>1, <3>2 DEF IInv, Apart
  <2>11. Once'
    BY <1>1 DEF IInv, Once
  <2>12. Calls'
    <3>1. \A d \in Out(Src)' : itsDst'[d] # Dst
      <4>1. Out(Src) \subseteq AllOut /\ AllOut \subseteq Cells
        <5>1. Out(Src) \subseteq Cells
          BY <2>2, ListFacts DEF IInv
        <5> QED
          BY <2>2, <5>1 DEF AllOut
      <4> QED
        BY <2>2, <2>3, <2>4, <2>7, <2>8, <4>1
    <3> QED
      BY <1>1, <2>1, <2>2, <2>3, <2>4, <3>1
         DEF Calls, Wiring, SettingUp, Clearing, ClosingSteps, Freeing
  <2>13. \A d \in AllOut : itsSrc'[d] = itsSrc[d] /\ itsDst'[d] = itsDst[d]
    BY <2>4, <2>7 DEF AllOut
  <2> QED
    BY <2>13, <2>5, <2>8, <2>9, <2>10, <2>11, <2>12 DEF IInv, SameConnections
<1> QED
  BY <1>2, <1>3 DEF SetPop

LEMMA SetSrcStep ==
  ASSUME Quiet, IInv, SetSrc(Client)
  PROVE  IInv' /\ SameConnections
<1>1. /\ TypeOK /\ Where = "set_src"
      /\ UNCHANGED <<open, dstList, itsSrc, itsDst, nextSrc, nextDst, free, sender, rcv,
                     app, cell, next>>
      /\ srcList' = [srcList EXCEPT ![Dst] = Cnx]
  BY OneLevel DEF IInv, SetSrc, events, Dst, Cnx
<1>2. Where' = "set_dst" /\ pc' \in [Levels -> PcValues]
  <2>1. "set_dst" \in PcValues /\ Goto(Client, "set_dst")
    BY DEF PcValues, SettingUp, SetSrc
  <2> QED
    BY <1>1, <2>1, Going
<1>3. Src' = Src /\ Dst' = Dst /\ Cnx' = Cnx
  BY <1>1 DEF Src, Dst, Cnx
<1>4. /\ Src \in open /\ Dst \in open /\ Src \in Refs /\ Dst \in Refs /\ Cnx \in Cells
      /\ itsSrc[Cnx] = Src /\ itsDst[Cnx] = Dst /\ nextSrc[Cnx] = srcList[Dst]
      /\ \A c \in Out(Src) : itsDst[c] # Dst
  <2>1. {Src, Dst} \subseteq open /\ \A c \in Out(Src) : itsDst[c] # Dst
    BY <1>1 DEF IInv, Calls, Wiring, SettingUp
  <2>2. itsSrc[Cnx] = Src /\ itsDst[Cnx] = Dst /\ nextSrc[Cnx] = srcList[Dst]
    BY <1>1 DEF IInv, Calls, SettingUp
  <2>3. Cnx \in Cells
    BY <1>1, Types DEF SettingUp
  <2> QED
    BY <1>1, <2>1, <2>2, <2>3, Types
<1>5. /\ srcList' \in [Refs -> Points] /\ srcList'[Dst] = Cnx
      /\ \A q \in Refs \ {Dst} : srcList'[q] = srcList[q]
  BY <1>1, <1>4, Types DEF Points
<1>6. TypeOK'
  <2>1. Cnx' \in Cells
    BY <1>3, <1>4
  <2> QED
    BY <1>1, <1>2, <1>5, <2>1, OneLevel DEF TypeOK, Points, Where, Cnx
<1>7. \A q \in Refs : /\ DstFrom(q)' = DstFrom(q) /\ SrcFrom(q) = srcList[q]
                      /\ SrcFrom(q)' = srcList'[q]
  BY <1>1, <1>2 DEF DstFrom, SrcFrom
<1>8. Cnx \notin AllOut /\ Cnx \notin AllIn /\ Cnx \notin free \cup Events
  BY <1>1 DEF IInv, Apart, Limbo
<1>9. \A q \in Refs : Out(q)' = Out(q) /\ IsList(nextDst, DstFrom(q))'
  BY <1>1, <1>7 DEF IInv, Wired, Out
<1>10. /\ \A q \in Refs \ {Dst} : In(q)' = In(q)
       /\ In(Dst)' = In(Dst) \cup {Cnx}
       /\ \A q \in Refs : IsList(nextSrc, SrcFrom(q))'
  <2>1. \A q \in Refs \ {Dst} : In(q)' = In(q) /\ IsList(nextSrc, SrcFrom(q))'
    BY <1>1, <1>5, <1>7 DEF IInv, Wired, In
  <2>2. /\ nextSrc \in [Cells -> Points] /\ IsList(nextSrc, srcList[Dst])
        /\ In(Dst) = On(nextSrc, srcList[Dst]) /\ Cnx \notin On(nextSrc, srcList[Dst])
    BY <1>1, <1>4, <1>7, <1>8, Types DEF IInv, Wired, In, AllIn
  <2>3. IsList(nextSrc, Cnx) /\ On(nextSrc, Cnx) = On(nextSrc, srcList[Dst]) \cup {Cnx}
    BY <1>4, <2>2, LongerList
  <2>4. SrcFrom(Dst)' = Cnx /\ nextSrc' = nextSrc
    BY <1>1, <1>3, <1>4, <1>5, <1>7
  <2>5. IsList(nextSrc, SrcFrom(Dst))' /\ In(Dst)' = In(Dst) \cup {Cnx}
    <3>1. \A q \in Refs : SrcFrom(q)' = srcList'[q]
      BY <1>7
    <3>2. srcList'[Dst] = Cnx /\ Dst' = Dst
      BY <1>3, <1>5
    <3> QED
      BY <1>4, <2>2, <2>3, <2>4, <3>1, <3>2 DEF In
  <2> QED
    BY <1>3, <2>1, <2>5
<1>11. AllOut' = AllOut /\ AllIn' = AllIn \cup {Cnx}
  BY <1>3, <1>4, <1>9, <1>10 DEF AllOut, AllIn
<1>12. Wired'
  <2>1. ASSUME NEW q \in Refs
        PROVE  /\ \A c \in Out(q)' : itsSrc'[c] = q /\ q \in open' /\ itsDst'[c] \in open'
               /\ \A c \in In(q)' : itsDst'[c] = q /\ q \in open' /\ itsSrc'[c] \in open'
    <3>1. /\ \A c \in Out(q) : itsSrc[c] = q /\ q \in open /\ itsDst[c] \in open
          /\ \A c \in In(q) : itsDst[c] = q /\ q \in open /\ itsSrc[c] \in open
      BY DEF IInv, Wired
    <3>2. \A c \in In(q)' : c \in In(q) \/ (q = Dst /\ c = Cnx)
      BY <1>3, <1>10
    <3> QED
      BY <1>1, <1>4, <1>9, <3>1, <3>2
  <2> QED
    BY <1>9, <1>10, <2>1 DEF Wired
<1>13. Twins'
  BY <1>1, <1>2, <1>3, <1>8, <1>11 DEF IInv, Twins
<1>14. Pairs'
  BY <1>1, <1>11 DEF IInv, Pairs
<1>15. Apart'
  <2>1. Limbo' = {} /\ Limbo = {Cnx}
    BY <1>1, <1>2 DEF Limbo
  <2>2. Events' = Events
    BY <1>1 DEF Events
  <2> QED
    BY <1>1, <1>11, <2>1, <2>2 DEF IInv, Apart
<1>16. Once'
  BY <1>1 DEF IInv, Once
<1>17. Calls'
  <2>1. Out(Src)' = Out(Src)
    BY <1>3, <1>4, <1>9
  <2> QED
    BY <1>1, <1>2, <1>3, <1>4, <2>1
       DEF Calls, Wiring, SettingUp, Clearing, ClosingSteps, Freeing
<1> QED
  BY <1>1, <1>11, <1>6, <1>12, <1>13, <1>14, <1>15, <1>16, <1>17 DEF IInv, SameConnections

LEMMA SetDstStep ==
  ASSUME Quiet, IInv, SetDst(Client)
  PROVE  IInv' /\ SameConnections
<1>1. /\ TypeOK /\ Where = "set_dst"
      /\ UNCHANGED <<open, srcList, dstList, itsSrc, itsDst, nextSrc, free, sender, rcv,
                     app, cell, next>>
      /\ nextDst' = [nextDst EXCEPT ![Cnx] = dstList[Src]]
  BY OneLevel DEF IInv, SetDst, events, Src, Cnx
<1>2. Where' = "put_dst" /\ pc' \in [Levels -> PcValues]
  <2>1. "put_dst" \in PcValues /\ Goto(Client, "put_dst")
    BY DEF PcValues, SettingUp, SetDst
  <2> QED
    BY <1>1, <2>1, Going
<1>3. Src' = Src /\ Dst' = Dst /\ Cnx' = Cnx
  BY <1>1 DEF Src, Dst, Cnx
<1>4. /\ Src \in open /\ Dst \in open /\ Src \in Refs /\ Dst \in Refs /\ Cnx \in Cells
      /\ itsSrc[Cnx] = Src /\ itsDst[Cnx] = Dst
      /\ \A c \in Out(Src) : itsDst[c] # Dst
  <2>1. {Src, Dst} \subseteq open /\ \A c \in Out(Src) : itsDst[c] # Dst
    BY <1>1 DEF IInv, Calls, Wiring, SettingUp
  <2>2. itsSrc[Cnx] = Src /\ itsDst[Cnx] = Dst
    BY <1>1 DEF IInv, Calls, SettingUp
  <2>3. Cnx \in Cells
    BY <1>1, Types DEF SettingUp
  <2> QED
    BY <1>1, <2>1, <2>2, <2>3, Types
<1>5. /\ nextDst' \in [Cells -> Points] /\ nextDst'[Cnx] = dstList[Src]
      /\ \A c \in Cells \ {Cnx} : nextDst'[c] = nextDst[c]
  BY <1>1, <1>4, Types
<1>6. TypeOK'
  <2>1. Cnx' \in Cells
    BY <1>3, <1>4
  <2> QED
    BY <1>1, <1>2, <1>5, <2>1, OneLevel DEF TypeOK, Points, Where, Cnx
<1>7. \A q \in Refs : DstFrom(q)' = DstFrom(q) /\ SrcFrom(q)' = SrcFrom(q)
  BY <1>1, <1>2 DEF DstFrom, SrcFrom
<1>8. Cnx \notin AllOut /\ AllIn = AllOut \cup {Cnx}
  BY <1>1 DEF IInv, Twins
<1>9. /\ \A q \in Refs : Out(q)' = Out(q) /\ In(q)' = In(q)
      /\ AllOut' = AllOut /\ AllIn' = AllIn /\ Wired' /\ Pairs'
  <2>1. nextSrc' \in [Cells -> Points] /\ AllOut \subseteq Cells
    BY <1>1, Types DEF AllOut
  <2>2. \A c \in AllOut : nextDst'[c] = nextDst[c]
    BY <1>5, <1>8, <2>1
  <2> QED
    BY <1>1, <1>5, <1>7, <2>1, <2>2, OffList
<1>10. Twins'
  BY <1>2, <1>3, <1>8, <1>9 DEF IInv, Twins
<1>11. Apart'
  <2>1. Limbo' = {} /\ Limbo = {}
    BY <1>1, <1>2 DEF Limbo
  <2>2. Events' = Events
    BY <1>1 DEF Events
  <2> QED
    BY <1>1, <1>9, <2>1, <2>2 DEF IInv, Apart
<1>12. Once'
  BY <1>1 DEF IInv, Once
<1>13. Calls'
  <2>1. Out(Src)' = Out(Src)
    BY <1>3, <1>4, <1>9
  <2> QED
    BY <1>1, <1>2, <1>3, <1>4, <1>5, <2>1
       DEF Calls, Wiring, SettingUp, Clearing, ClosingSteps, Freeing
<1> QED
  BY <1>1, <1>6, <1>9, <1>10, <1>11, <1>12, <1>13 DEF IInv, SameConnections

LEMMA PutDstStep ==
  ASSUME Quiet, IInv, PutDst(Client)
  PROVE  IInv' /\ Gained(Cnx)
<1>1. /\ TypeOK /\ Where = "put_dst"
      /\ UNCHANGED <<open, srcList, itsSrc, itsDst, nextSrc, nextDst, free, sender, rcv>>
      /\ dstList' = [dstList EXCEPT ![Src] = Cnx]
  BY OneLevel DEF IInv, PutDst, events, Src, Cnx
<1>2. /\ Where' = "idle" /\ pc' \in [Levels -> PcValues]
      /\ app' \in [Levels -> (Refs \cup {NULL}) \X (Refs \cup {NULL})]
      /\ cell' \in [Levels -> Points] /\ next' \in [Levels -> Points]
  BY <1>1, Returning DEF PutDst
<1>3. /\ Src \in open /\ Dst \in open /\ Src \in Refs /\ Dst \in Refs /\ Cnx \in Cells
      /\ itsSrc[Cnx] = Src /\ itsDst[Cnx] = Dst /\ nextDst[Cnx] = dstList[Src]
      /\ \A c \in Out(Src) : itsDst[c] # Dst
  <2>1. {Src, Dst} \subseteq open /\ \A c \in Out(Src) : itsDst[c] # Dst
    BY <1>1 DEF IInv, Calls, Wiring, SettingUp
  <2>2. itsSrc[Cnx] = Src /\ itsDst[Cnx] = Dst /\ nextDst[Cnx] = dstList[Src]
    BY <1>1 DEF IInv, Calls, SettingUp
  <2>3. Cnx \in Cells
    BY <1>1, Types DEF SettingUp
  <2> QED
    BY <1>1, <2>1, <2>2, <2>3, Types
<1> DEFINE s == Src
           x == Cnx
<1>4. /\ dstList' \in [Refs -> Points] /\ dstList'[s] = x
      /\ \A q \in Refs \ {s} : dstList'[q] = dstList[q]
  BY <1>1, <1>3, Types DEF Points
<1>5. TypeOK'
  <2>1. pc'[Client] = "idle" /\ Levels = {Client}
    BY <1>2, OneLevel DEF Where
  <2> QED
    BY <1>1, <1>2, <1>4, <2>1 DEF TypeOK, Points, SettingUp, Clearing, Freeing
<1>6. \A q \in Refs : /\ SrcFrom(q)' = SrcFrom(q) /\ DstFrom(q) = dstList[q]
                      /\ DstFrom(q)' = dstList'[q]
  BY <1>1, <1>2 DEF DstFrom, SrcFrom
<1>7. x \notin AllOut /\ AllIn = AllOut \cup {x}
  BY <1>1 DEF IInv, Twins
<1>8. \A q \in Refs : In(q)' = In(q) /\ IsList(nextSrc, SrcFrom(q))'
  BY <1>1, <1>6 DEF IInv, Wired, In
<1>9. \A q \in Refs : /\ Out(q)' = IF q = s THEN Out(q) \cup {x} ELSE Out(q)
                      /\ IsList(nextDst, DstFrom(q))'
  <2>1. \A q \in Refs \ {s} : Out(q)' = Out(q) /\ IsList(nextDst, DstFrom(q))'
    BY <1>1, <1>4, <1>6 DEF IInv, Wired, Out
  <2>2. /\ nextDst \in [Cells -> Points] /\ IsList(nextDst, dstList[s])
        /\ Out(s) = On(nextDst, dstList[s]) /\ x \notin On(nextDst, dstList[s])
    BY <1>1, <1>3, <1>6, <1>7, Types DEF IInv, Wired, Out, AllOut
  <2>3. IsList(nextDst, x) /\ On(nextDst, x) = On(nextDst, dstList[s]) \cup {x}
    BY <1>3, <2>2, LongerList
  <2> HIDE DEF s, x
  <2>4. ASSUME NEW q \in Refs, q = s
        PROVE  Out(q)' = Out(q) \cup {x} /\ IsList(nextDst, DstFrom(q))'
    <3>1. DstFrom(q)' = x
      BY <1>4, <1>6, <2>4
    <3>2. nextDst' = nextDst
      BY <1>1
    <3> QED
      BY <2>2, <2>3, <2>4, <3>1, <3>2 DEF Out
  <2> QED
    BY <2>1, <2>4
<1>10. AllIn' = AllIn
  BY <1>8 DEF AllIn
<1>11. AllOut' = AllOut \cup {x}
  <2> HIDE DEF s, x
  <2>1. s \in Refs /\ x \in Cells
    BY <1>3 DEF s, x
  <2> QED
    BY <1>9, <2>1 DEF AllOut
<1>12. Wired'
  <2>1. ASSUME NEW q \in Refs
        PROVE  /\ \A c \in Out(q)' : itsSrc'[c] = q /\ q \in open' /\ itsDst'[c] \in open'
               /\ \A c \in In(q)' : itsDst'[c] = q /\ q \in open' /\ itsSrc'[c] \in open'
    <3>1. /\ \A c \in Out(q) : itsSrc[c] = q /\ q \in open /\ itsDst[c] \in open
          /\ \A c \in In(q) : itsDst[c] = q /\ q \in open /\ itsSrc[c] \in open
      BY DEF IInv, Wired
    <3>2. \A c \in Out(q)' : c \in Out(q) \/ (q = Src /\ c = Cnx)
      BY <1>9
    <3> QED
      BY <1>1, <1>3, <1>8, <3>1, <3>2
  <2> QED
    BY <1>8, <1>9, <2>1 DEF Wired
<1>13. Twins'
  BY <1>2, <1>7, <1>10, <1>11 DEF Twins
<1>14. Pairs'
  <2>1. ASSUME NEW c \in AllOut, itsSrc[c] = itsSrc[x], itsDst[c] = itsDst[x]
        PROVE  FALSE
    <3>1. c \in Out(Src)
      BY <1>3, <2>1, ListFacts DEF IInv
    <3> QED
      BY <1>3, <2>1, <3>1
  <2> QED
    BY <1>1, <1>11, <2>1 DEF IInv, Pairs
<1>15. Apart'
  <2>1. Limbo' = {} /\ Limbo = {}
    BY <1>1, <1>2 DEF Limbo
  <2>2. Events' = Events
    BY <1>1 DEF Events
  <2> QED
    BY <1>1, <1>7, <1>10, <1>11, <2>1, <2>2 DEF IInv, Apart
<1>16. Once'
  BY <1>1 DEF IInv, Once
<1>17. Calls'
  BY <1>2 DEF Calls, Wiring, SettingUp, Clearing, ClosingSteps, Freeing
<1> QED
  BY <1>1, <1>7, <1>11, <1>5, <1>12, <1>13, <1>14, <1>15, <1>16, <1>17 DEF IInv, Gained

(***************************************************************************)
(* ClearConnection.                                                        *)
(***************************************************************************)
LEMMA Rem1Src ==
  ASSUME Quiet, IInv, NEW r \in Refs, NEW x \in In(r), Rem1SrcCon(r, x),
         \A q \in Refs : SrcFrom(q) = srcList[q]
  PROVE  /\ nextSrc' \in [Cells -> Points] /\ srcList' \in [Refs -> Points]
         /\ UNCHANGED <<dstList, nextDst>>
         /\ \A q \in Refs : /\ IsList(nextSrc', srcList'[q])
                            /\ On(nextSrc', srcList'[q]) = In(q) \ {x}
<1>1. nextSrc \in [Cells -> Points] /\ srcList \in [Refs -> Points]
  BY Types DEF IInv
<1>2. \A q \in Refs : In(q) = On(nextSrc, srcList[q]) /\ IsList(nextSrc, srcList[q])
  BY DEF In, IInv, Wired
<1>3. \A p, q \in Refs : \A c \in On(nextSrc, srcList[p]) \cap On(nextSrc, srcList[q]) : p = q
  <2>1. \A p, q \in Refs : \A c \in In(p) \cap In(q) : p = q
    BY ListFacts DEF IInv
  <2> QED
    BY <1>2, <2>1
<1>4. \/ /\ srcList[r] = x /\ srcList' = [srcList EXCEPT ![r] = nextSrc[x]]
         /\ nextSrc' = nextSrc
      \/ /\ srcList[r] # x /\ srcList' = srcList
         /\ \E c \in On(nextSrc, srcList[r]) :
               nextSrc[c] = x /\ nextSrc' = [nextSrc EXCEPT ![c] = nextSrc[x]]
  BY DEF Rem1SrcCon, On, Sources
<1>5. x \in On(nextSrc, srcList[r]) /\ \A q \in Refs : IsList(nextSrc, srcList[q])
  BY <1>2
<1>6. Sheaf(nextSrc, srcList) /\ Removed(nextSrc, srcList, r, x, nextSrc', srcList')
  BY <1>1, <1>3, <1>4, <1>5 DEF Sheaf, Removed
<1>7. Shorter(nextSrc, srcList, x, nextSrc', srcList')
  BY ONLY <1>5, <1>6, r \in Refs, RemoveOne, Zenon
<1> QED
  BY <1>2, <1>7 DEF Rem1SrcCon, Shorter

LEMMA Rem1Dst ==
  ASSUME Quiet, IInv, NEW r \in Refs, NEW x \in Out(r), Rem1DstCon(r, x),
         \A q \in Refs : DstFrom(q) = dstList[q]
  PROVE  /\ nextDst' \in [Cells -> Points] /\ dstList' \in [Refs -> Points]
         /\ UNCHANGED <<srcList, nextSrc>>
         /\ \A q \in Refs : /\ IsList(nextDst', dstList'[q])
                            /\ On(nextDst', dstList'[q]) = Out(q) \ {x}
<1>1. nextDst \in [Cells -> Points] /\ dstList \in [Refs -> Points]
  BY Types DEF IInv
<1>2. \A q \in Refs : Out(q) = On(nextDst, dstList[q]) /\ IsList(nextDst, dstList[q])
  BY DEF Out, IInv, Wired
<1>3. \A p, q \in Refs : \A c \in On(nextDst, dstList[p]) \cap On(nextDst, dstList[q]) : p = q
  <2>1. \A p, q \in Refs : \A c \in Out(p) \cap Out(q) : p = q
    BY ListFacts DEF IInv
  <2> QED
    BY <1>2, <2>1
<1>4. \/ /\ dstList[r] = x /\ dstList' = [dstList EXCEPT ![r] = nextDst[x]]
         /\ nextDst' = nextDst
      \/ /\ dstList[r] # x /\ dstList' = dstList
         /\ \E c \in On(nextDst, dstList[r]) :
               nextDst[c] = x /\ nextDst' = [nextDst EXCEPT ![c] = nextDst[x]]
  BY DEF Rem1DstCon, On, Destinations
<1>5. x \in On(nextDst, dstList[r]) /\ \A q \in Refs : IsList(nextDst, dstList[q])
  BY <1>2
<1>6. Sheaf(nextDst, dstList) /\ Removed(nextDst, dstList, r, x, nextDst', dstList')
  BY <1>1, <1>3, <1>4, <1>5 DEF Sheaf, Removed
<1>7. Shorter(nextDst, dstList, x, nextDst', dstList')
  BY ONLY <1>5, <1>6, r \in Refs, RemoveOne, Zenon
<1> QED
  BY <1>2, <1>7 DEF Rem1DstCon, Shorter

LEMMA ClearFindStep ==
  ASSUME Quiet, IInv, ClearFind(Client)
  PROVE  IInv' /\ SameConnections
<1>1. /\ TypeOK /\ Where = "clear_find"
      /\ UNCHANGED <<open, srcList, dstList, itsSrc, itsDst, nextSrc, nextDst, free, sender, rcv>>
  BY OneLevel DEF IInv, ClearFind, lists, events
<1>2. CASE Return(Client)
  BY <1>1, <1>2, GiveUp
<1>3. ASSUME NEW c \in Found(Client), cell' = [cell EXCEPT ![Client] = c],
             Goto(Client, "clear_src"), UNCHANGED <<app, next>>
      PROVE  IInv' /\ SameConnections
  <2>1. Where' = "clear_src" /\ pc' \in [Levels -> PcValues]
    <3>1. "clear_src" \in PcValues
      BY DEF PcValues, Clearing
    <3> QED
      BY <1>1, <1>3, <3>1, Going
  <2>2. Src \in open /\ Dst \in open /\ Src \in Refs
    <3>1. {Src, Dst} \subseteq open
      BY <1>1 DEF IInv, Calls, Wiring
    <3> QED
      BY <1>1, <3>1, Types
  <2>3. /\ c \in Out(Src) /\ itsSrc[c] = Src /\ itsDst[c] = Dst /\ c \in Cells
    <3>1. DstFrom(Src) = dstList[Src]
      BY <1>1 DEF DstFrom
    <3>2. c \in Out(Src) /\ itsDst[c] = Dst
      BY <3>1 DEF Found, Destinations, Out, On, Src, Dst
    <3>3. c \in Cells
      BY <2>2, <3>2, ListFacts DEF IInv
    <3> QED
      BY <2>2, <3>2, <3>3 DEF IInv, Wired
  <2>4. Src' = Src /\ Dst' = Dst /\ Cnx' = c /\ cell' \in [Levels -> Points]
    BY <1>1, <1>3, <2>3, OneLevel, Types DEF Src, Dst, Cnx, Points
  <2>5. TypeOK'
    BY <1>1, <1>3, <2>1, <2>3, <2>4, OneLevel DEF TypeOK, Points, Where, Cnx
  <2>6. \A q \in Refs : DstFrom(q)' = DstFrom(q) /\ SrcFrom(q)' = SrcFrom(q)
    BY <1>1, <2>1 DEF DstFrom, SrcFrom
  <2>7. /\ \A q \in Refs : Out(q)' = Out(q) /\ In(q)' = In(q)
        /\ AllOut' = AllOut /\ AllIn' = AllIn /\ Wired' /\ Pairs'
    BY <1>1, <2>6, SameLists
  <2>8. Twins'
    BY <1>1, <2>1, <2>7 DEF IInv, Twins
  <2>9. Apart'
    <3>1. Limbo' = {} /\ Limbo = {}
      BY <1>1, <2>1 DEF Limbo
    <3>2. Events' = Events
      BY <1>1 DEF Events
    <3> QED
      BY <1>1, <2>7, <3>1, <3>2 DEF IInv, Apart
  <2>10. Once'
    BY <1>1 DEF IInv, Once
  <2>11. Calls'
    <3>1. Out(Src)' = Out(Src)
      BY <2>2, <2>4, <2>7
    <3> QED
      BY <1>1, <2>1, <2>2, <2>3, <2>4, <3>1
         DEF Calls, Wiring, SettingUp, Clearing, ClosingSteps, Freeing
  <2> QED
    BY <1>1, <2>5, <2>7, <2>8, <2>9, <2>10, <2>11 DEF IInv, SameConnections
<1> QED
  BY <1>2, <1>3 DEF ClearFind

LEMMA ClearSrcStep ==
  ASSUME Quiet, IInv, ClearSrc(Client)
  PROVE  IInv' /\ SameConnections
<1>1. /\ TypeOK /\ Where = "clear_src" /\ Rem1SrcCon(Dst, Cnx)
      /\ UNCHANGED <<open, itsSrc, itsDst, free, sender, rcv, app, cell, next>>
  BY OneLevel DEF IInv, ClearSrc, events, Dst, Cnx
<1>2. Where' = "clear_dst" /\ pc' \in [Levels -> PcValues]
  <2>1. "clear_dst" \in PcValues /\ Goto(Client, "clear_dst")
    BY DEF PcValues, Clearing, ClearSrc
  <2> QED
    BY <1>1, <2>1, Going
<1>3. Src' = Src /\ Dst' = Dst /\ Cnx' = Cnx
  BY <1>1 DEF Src, Dst, Cnx
<1>4. /\ Src \in open /\ Dst \in open /\ Src \in Refs /\ Dst \in Refs /\ Cnx \in Cells
      /\ itsSrc[Cnx] = Src /\ itsDst[Cnx] = Dst /\ Cnx \in Out(Src)
  <2>1. {Src, Dst} \subseteq open /\ Cnx \in Out(Src)
    BY <1>1 DEF IInv, Calls, Wiring, Clearing
  <2>2. itsSrc[Cnx] = Src /\ itsDst[Cnx] = Dst
    BY <1>1 DEF IInv, Calls, Clearing
  <2>3. Cnx \in Cells
    BY <1>1, Types DEF Clearing
  <2> QED
    BY <1>1, <2>1, <2>2, <2>3, Types
<1>5. Cnx \in AllOut /\ AllIn = AllOut /\ Cnx \in In(Dst)
  <2>1. Cnx \in AllOut /\ AllIn = AllOut
    BY <1>1, <1>4 DEF IInv, Twins, AllOut
  <2> QED
    BY <1>4, <2>1, ListFacts DEF IInv
<1>6. \A q \in Refs : /\ SrcFrom(q) = srcList[q] /\ SrcFrom(q)' = srcList'[q]
                      /\ DstFrom(q) = dstList[q] /\ DstFrom(q)' = dstList'[q]
  BY <1>1, <1>2 DEF DstFrom, SrcFrom
<1>7. /\ nextSrc' \in [Cells -> Points] /\ srcList' \in [Refs -> Points]
      /\ UNCHANGED <<dstList, nextDst>>
      /\ \A q \in Refs : /\ IsList(nextSrc', srcList'[q])
                         /\ On(nextSrc', srcList'[q]) = In(q) \ {Cnx}
  BY <1>1, <1>4, <1>5, <1>6, Rem1Src
<1>8. TypeOK'
  <2>1. Cnx' \in Cells
    BY <1>3, <1>4
  <2> QED
    BY <1>1, <1>2, <1>7, <2>1, OneLevel DEF TypeOK, Points, Where, Cnx
<1>9. \A q \in Refs : Out(q)' = Out(q) /\ IsList(nextDst, DstFrom(q))'
  BY <1>6, <1>7 DEF IInv, Wired, Out
<1>10. \A q \in Refs : In(q)' = In(q) \ {Cnx} /\ IsList(nextSrc, SrcFrom(q))'
  BY <1>6, <1>7 DEF In
<1>11. AllOut' = AllOut /\ AllIn' = AllIn \ {Cnx}
  BY <1>9, <1>10 DEF AllOut, AllIn
<1>12. Wired'
  <2>1. ASSUME NEW q \in Refs
        PROVE  /\ \A c \in Out(q)' : itsSrc'[c] = q /\ q \in open' /\ itsDst'[c] \in open'
               /\ \A c \in In(q)' : itsDst'[c] = q /\ q \in open' /\ itsSrc'[c] \in open'
    BY <1>1, <1>9, <1>10 DEF IInv, Wired
  <2> QED
    BY <1>9, <1>10, <2>1 DEF Wired
<1>13. Twins'
  BY <1>2, <1>3, <1>5, <1>11 DEF Twins
<1>14. Pairs'
  BY <1>1, <1>11 DEF IInv, Pairs
<1>15. Apart'
  <2>1. Limbo' = {} /\ Limbo = {}
    BY <1>1, <1>2 DEF Limbo
  <2>2. Events' = Events
    BY <1>1 DEF Events
  <2> QED
    BY <1>1, <1>5, <1>11, <2>1, <2>2 DEF IInv, Apart
<1>16. Once'
  BY <1>1 DEF IInv, Once
<1>17. Calls'
  <2>1. Out(Src)' = Out(Src)
    BY <1>3, <1>4, <1>9
  <2> QED
    BY <1>1, <1>2, <1>3, <1>4, <2>1
       DEF Calls, Wiring, SettingUp, Clearing, ClosingSteps, Freeing
<1> QED
  BY <1>1, <1>11, <1>8, <1>12, <1>13, <1>14, <1>15, <1>16, <1>17 DEF IInv, SameConnections

LEMMA ClearDstStep ==
  ASSUME Quiet, IInv, ClearDst(Client)
  PROVE  IInv' /\ Lost(Cnx)
<1>1. /\ TypeOK /\ Where = "clear_dst" /\ Rem1DstCon(Src, Cnx)
      /\ UNCHANGED <<open, itsSrc, itsDst, free, sender, rcv, app, cell, next>>
  BY OneLevel DEF IInv, ClearDst, events, Src, Cnx
<1>2. Where' = "clear_free" /\ pc' \in [Levels -> PcValues]
  <2>1. "clear_free" \in PcValues /\ Goto(Client, "clear_free")
    BY DEF PcValues, Clearing, ClearDst
  <2> QED
    BY <1>1, <2>1, Going
<1>3. Src' = Src /\ Dst' = Dst /\ Cnx' = Cnx
  BY <1>1 DEF Src, Dst, Cnx
<1>4. /\ Src \in open /\ Dst \in open /\ Src \in Refs /\ Cnx \in Cells
      /\ itsSrc[Cnx] = Src /\ itsDst[Cnx] = Dst /\ Cnx \in Out(Src)
  <2>1. {Src, Dst} \subseteq open /\ Cnx \in Out(Src)
    BY <1>1 DEF IInv, Calls, Wiring, Clearing
  <2>2. itsSrc[Cnx] = Src /\ itsDst[Cnx] = Dst
    BY <1>1 DEF IInv, Calls, Clearing
  <2>3. Cnx \in Cells
    BY <1>1, Types DEF Clearing
  <2> QED
    BY <1>1, <2>1, <2>2, <2>3, Types
<1>5. Cnx \in AllOut /\ AllIn = AllOut \ {Cnx}
  BY <1>1 DEF IInv, Twins
<1>6. \A q \in Refs : /\ SrcFrom(q) = srcList[q] /\ SrcFrom(q)' = srcList'[q]
                      /\ DstFrom(q) = dstList[q] /\ DstFrom(q)' = dstList'[q]
  BY <1>1, <1>2 DEF DstFrom, SrcFrom
<1>7. /\ nextDst' \in [Cells -> Points] /\ dstList' \in [Refs -> Points]
      /\ UNCHANGED <<srcList, nextSrc>>
      /\ \A q \in Refs : /\ IsList(nextDst', dstList'[q])
                         /\ On(nextDst', dstList'[q]) = Out(q) \ {Cnx}
  BY <1>1, <1>4, <1>6, Rem1Dst
<1>8. TypeOK'
  <2>1. Cnx' \in Cells
    BY <1>3, <1>4
  <2> QED
    BY <1>1, <1>2, <1>7, <2>1, OneLevel DEF TypeOK, Points, Where, Cnx
<1>9. \A q \in Refs : In(q)' = In(q) /\ IsList(nextSrc, SrcFrom(q))'
  BY <1>6, <1>7 DEF IInv, Wired, In
<1>10. \A q \in Refs : Out(q)' = Out(q) \ {Cnx} /\ IsList(nextDst, DstFrom(q))'
  BY <1>6, <1>7 DEF Out
<1>11. AllIn' = AllIn /\ AllOut' = AllOut \ {Cnx}
  BY <1>9, <1>10 DEF AllOut, AllIn
<1>12. Wired'
  <2>1. ASSUME NEW q \in Refs
        PROVE  /\ \A c \in Out(q)' : itsSrc'[c] = q /\ q \in open' /\ itsDst'[c] \in open'
               /\ \A c \in In(q)' : itsDst'[c] = q /\ q \in open' /\ itsSrc'[c] \in open'
    BY <1>1, <1>9, <1>10 DEF IInv, Wired
  <2> QED
    BY <1>9, <1>10, <2>1 DEF Wired
<1>13. Twins'
  BY <1>2, <1>5, <1>11 DEF Twins
<1>14. Pairs'
  BY <1>1, <1>11 DEF IInv, Pairs
<1>15. Apart'
  <2>1. Limbo' = {Cnx} /\ Limbo = {}
    BY <1>1, <1>2, <1>3 DEF Limbo
  <2>2. Events' = Events
    BY <1>1 DEF Events
  <2> QED
    BY <1>1, <1>4, <1>5, <1>11, <2>1, <2>2 DEF IInv, Apart
<1>16. Once'
  BY <1>1 DEF IInv, Once
<1>17. Calls'
  BY <1>1, <1>2, <1>3, <1>4
     DEF Calls, Wiring, SettingUp, Clearing, ClosingSteps, Freeing
<1> QED
  BY <1>1, <1>5, <1>11, <1>8, <1>12, <1>13, <1>14, <1>15, <1>16, <1>17 DEF IInv, Lost

LEMMA PushFacts ==
  ASSUME Quiet, IInv, Where \in {"clear_free", "free_src"}, Push(Cnx), open' = open,
         UNCHANGED <<sender, rcv>>, Limbo' = {},
         \A r \in Refs : DstFrom(r)' = DstFrom(r) /\ SrcFrom(r)' = SrcFrom(r)
  PROVE  /\ free' \subseteq Cells
         /\ UNCHANGED <<srcList, dstList>>
         /\ itsSrc' \in [Cells -> Refs \cup {NULL}] /\ itsDst' \in [Cells -> Refs \cup {NULL}]
         /\ nextSrc' \in [Cells -> Points] /\ nextDst' \in [Cells -> Points]
         /\ \A r \in Refs : Out(r)' = Out(r) /\ In(r)' = In(r)
         /\ AllOut' = AllOut /\ AllIn' = AllIn
         /\ Wired' /\ Pairs' /\ Apart' /\ Once' /\ SameConnections
<1>1. TypeOK /\ Limbo = {Cnx}
  BY DEF IInv, Limbo
<1>2. Cnx \in Cells
  BY <1>1, Types DEF Clearing, Freeing
<1>3. /\ free' = free \cup {Cnx} /\ UNCHANGED <<srcList, dstList>>
      /\ itsSrc' = [itsSrc EXCEPT ![Cnx] = NULL] /\ itsDst' = [itsDst EXCEPT ![Cnx] = NULL]
      /\ nextSrc' = [nextSrc EXCEPT ![Cnx] = NULL] /\ nextDst' = [nextDst EXCEPT ![Cnx] = NULL]
  BY DEF Push
<1>4. /\ itsSrc' \in [Cells -> Refs \cup {NULL}] /\ itsDst' \in [Cells -> Refs \cup {NULL}]
      /\ nextSrc' \in [Cells -> Points] /\ nextDst' \in [Cells -> Points]
      /\ \A c \in Cells \ {Cnx} : /\ itsSrc'[c] = itsSrc[c] /\ itsDst'[c] = itsDst[c]
                                  /\ nextSrc'[c] = nextSrc[c] /\ nextDst'[c] = nextDst[c]
  BY <1>1, <1>2, <1>3, Types DEF Points
<1>5. Cnx \notin AllOut \cup AllIn /\ AllOut \cup AllIn \subseteq Cells
  BY <1>1 DEF IInv, Apart, AllOut, AllIn
<1>6. /\ \A r \in Refs : Out(r)' = Out(r) /\ In(r)' = In(r)
      /\ AllOut' = AllOut /\ AllIn' = AllIn /\ Wired' /\ Pairs'
  <2>1. \A c \in AllOut \cup AllIn : c \in Cells \ {Cnx}
    BY <1>5
  <2> QED
    BY <1>4, <2>1, OffList
<1>7. Apart'
  <2>1. Events' = Events
    BY DEF Events
  <2> QED
    BY <1>1, <1>3, <1>6, <2>1 DEF IInv, Apart
<1>8. Once'
  BY DEF IInv, Once
<1>9. free' \subseteq Cells
  BY <1>1, <1>2, <1>3, Types
<1>10. SameConnections
  BY <1>4, <1>5, <1>6 DEF SameConnections
<1> QED
  BY <1>3, <1>4, <1>6, <1>7, <1>8, <1>9, <1>10

LEMMA ClearFreeStep ==
  ASSUME Quiet, IInv, ClearFree(Client)
  PROVE  IInv' /\ SameConnections
<1>1. /\ TypeOK /\ Where = "clear_free" /\ Push(Cnx) /\ Return(Client)
      /\ UNCHANGED <<open, sender, rcv>>
  BY OneLevel DEF IInv, ClearFree, events, Cnx
<1>2. /\ Where' = "idle" /\ pc' \in [Levels -> PcValues]
      /\ app' \in [Levels -> (Refs \cup {NULL}) \X (Refs \cup {NULL})]
      /\ cell' \in [Levels -> Points] /\ next' \in [Levels -> Points]
  BY <1>1, Returning
<1>3. \A q \in Refs : DstFrom(q)' = DstFrom(q) /\ SrcFrom(q)' = SrcFrom(q)
  BY <1>1, <1>2 DEF DstFrom, SrcFrom, Push
<1>4. Limbo' = {}
  BY <1>2 DEF Limbo
<1>5. /\ free' \subseteq Cells
      /\ UNCHANGED <<srcList, dstList>>
      /\ itsSrc' \in [Cells -> Refs \cup {NULL}] /\ itsDst' \in [Cells -> Refs \cup {NULL}]
      /\ nextSrc' \in [Cells -> Points] /\ nextDst' \in [Cells -> Points]
      /\ AllOut' = AllOut /\ AllIn' = AllIn
      /\ Wired' /\ Pairs' /\ Apart' /\ Once' /\ SameConnections
  BY <1>1, <1>3, <1>4, PushFacts
<1>6. TypeOK'
  <2>1. pc'[Client] = "idle" /\ Levels = {Client}
    BY <1>2, OneLevel DEF Where
  <2> QED
    BY <1>1, <1>2, <1>5, <2>1 DEF TypeOK, Points, SettingUp, Clearing, Freeing
<1>7. Twins'
  BY <1>1, <1>2, <1>5 DEF IInv, Twins
<1>8. Calls'
  BY <1>2 DEF Calls, Wiring, SettingUp, Clearing, ClosingSteps, Freeing
<1> QED
  BY <1>5, <1>6, <1>7, <1>8 DEF IInv, SameConnections

LEMMA CloseFreeSrc ==
  ASSUME Quiet, IInv, CloseFree, Where = "free_src"
  PROVE  IInv' /\ SameConnections
<1>1. /\ TypeOK /\ Push(Cnx)
      /\ UNCHANGED <<open, sender, rcv, app>>
      /\ cell' = [cell EXCEPT ![Client] = next[Client]]
      /\ next' = [next EXCEPT ![Client] = NULL]
  BY DEF IInv, CloseFree, events, Cnx
<1>2. Goto(Client, "close_src")
  BY OneLevel DEF CloseFree, Freeing
<1>3. Where' = "close_src" /\ pc' \in [Levels -> PcValues]
  <2>1. "close_src" \in PcValues
    BY DEF PcValues, ClosingSteps
  <2> QED
    BY <1>1, <1>2, <2>1, Going
<1>4. /\ cell' \in [Levels -> Points] /\ next' \in [Levels -> Points]
      /\ Cnx' = next[Client] /\ Src' = Src /\ Dst' = Dst
  BY <1>1, OneLevel, Types DEF Cnx, Src, Dst, Points
<1>5. \A q \in Refs : DstFrom(q)' = DstFrom(q) /\ SrcFrom(q)' = SrcFrom(q)
  BY <1>1, <1>3, <1>4 DEF DstFrom, SrcFrom, Push
<1>6. Limbo' = {}
  BY <1>3 DEF Limbo
<1>7. /\ free' \subseteq Cells
      /\ UNCHANGED <<srcList, dstList>>
      /\ itsSrc' \in [Cells -> Refs \cup {NULL}] /\ itsDst' \in [Cells -> Refs \cup {NULL}]
      /\ nextSrc' \in [Cells -> Points] /\ nextDst' \in [Cells -> Points]
      /\ AllOut' = AllOut /\ AllIn' = AllIn
      /\ Wired' /\ Pairs' /\ Apart' /\ Once' /\ SameConnections
  BY <1>1, <1>5, <1>6, PushFacts
<1>8. TypeOK'
  <2>1. pc'[Client] = "close_src" /\ Levels = {Client}
    BY <1>3, OneLevel DEF Where
  <2> QED
    BY <1>1, <1>3, <1>4, <1>7, <2>1 DEF TypeOK, Points, SettingUp, Clearing, Freeing
<1>9. Twins'
  BY <1>3, <1>7 DEF IInv, Twins
<1>10. Calls'
  <2>1. Src \in open \ {MidiShare}
    BY DEF IInv, Calls, ClosingSteps, Freeing
  <2> QED
    BY <1>1, <1>3, <1>4, <2>1
       DEF Calls, Wiring, SettingUp, Clearing, ClosingSteps, Freeing
<1> QED
  BY <1>7, <1>8, <1>9, <1>10 DEF IInv, SameConnections

\* The connection leaves the list of its source when it is freed.
LEMMA CloseFreeDst ==
  ASSUME Quiet, IInv, CloseFree, Where = "free_dst"
  PROVE  IInv' /\ Lost(Cnx)
<1>1. /\ TypeOK /\ Push(Cnx)
      /\ UNCHANGED <<open, sender, rcv, app>>
      /\ cell' = [cell EXCEPT ![Client] = next[Client]]
      /\ next' = [next EXCEPT ![Client] = NULL]
  BY DEF IInv, CloseFree, events, Cnx
<1>2. Goto(Client, "close_dst")
  BY OneLevel DEF CloseFree, Freeing
<1>3. Where' = "close_dst" /\ pc' \in [Levels -> PcValues]
  <2>1. "close_dst" \in PcValues
    BY DEF PcValues, ClosingSteps
  <2> QED
    BY <1>1, <1>2, <2>1, Going
<1>4. /\ cell' \in [Levels -> Points] /\ next' \in [Levels -> Points]
      /\ Cnx' = next[Client] /\ Src' = Src /\ Dst' = Dst
  BY <1>1, OneLevel, Types DEF Cnx, Src, Dst, Points
<1>5. /\ Src \in open \ {MidiShare} /\ Src \in Refs /\ In(Src) = {}
      /\ nextDst[Cnx] = next[Client] /\ Cnx \in Out(Src)
      /\ Cnx = dstList[Src] \/ dstList[Src] \notin Out(Src) \cup {NULL}
      /\ Cnx \in AllOut /\ AllIn = AllOut \ {Cnx} /\ Cnx \in Cells /\ Cnx # NULL
  <2>1. Src \in open \ {MidiShare}
    BY DEF IInv, Calls, ClosingSteps, Freeing
  <2>2. /\ In(Src) = {} /\ nextDst[Cnx] = next[Client] /\ Cnx \in Out(Src)
        /\ Cnx = dstList[Src] \/ dstList[Src] \notin Out(Src) \cup {NULL}
    BY DEF IInv, Calls
  <2>3. Cnx \in AllOut /\ AllIn = AllOut \ {Cnx}
    BY DEF IInv, Twins
  <2>4. Cnx \in Cells /\ NULL \notin Cells
    BY <1>1, Types DEF Freeing
  <2> QED
    BY <1>1, <2>1, <2>2, <2>3, <2>4, Types
<1>6. /\ \A q \in Refs : DstFrom(q) = IF q = Src THEN Cnx ELSE dstList[q]
      /\ \A q \in Refs : DstFrom(q)' = IF q = Src THEN nextDst[Cnx] ELSE dstList[q]
      /\ \A q \in Refs : SrcFrom(q) = srcList[q] /\ SrcFrom(q)' = srcList[q]
  BY <1>1, <1>3, <1>4, <1>5 DEF DstFrom, SrcFrom, Push
<1>7. /\ free' = free \cup {Cnx} /\ UNCHANGED <<srcList, dstList>>
      /\ itsSrc' = [itsSrc EXCEPT ![Cnx] = NULL] /\ itsDst' = [itsDst EXCEPT ![Cnx] = NULL]
      /\ nextSrc' = [nextSrc EXCEPT ![Cnx] = NULL] /\ nextDst' = [nextDst EXCEPT ![Cnx] = NULL]
  BY <1>1 DEF Push
<1>8. /\ itsSrc' \in [Cells -> Refs \cup {NULL}] /\ itsDst' \in [Cells -> Refs \cup {NULL}]
      /\ nextSrc' \in [Cells -> Points] /\ nextDst' \in [Cells -> Points]
      /\ nextSrc \in [Cells -> Points] /\ nextDst \in [Cells -> Points]
      /\ \A c \in Cells \ {Cnx} : /\ itsSrc'[c] = itsSrc[c] /\ itsDst'[c] = itsDst[c]
                                  /\ nextSrc'[c] = nextSrc[c] /\ nextDst'[c] = nextDst[c]
  BY <1>1, <1>5, <1>7, Types DEF Points
<1>9. \A q \in Refs : Out(q) \subseteq Cells /\ In(q) \subseteq Cells
  BY <1>1, ListFacts DEF IInv
<1>10. ASSUME NEW q \in Refs
       PROVE  IsList(nextDst, DstFrom(q))' /\ Out(q)' = Out(q) \ {Cnx}
  <2>1. CASE q = Src
    <3>1. IsList(nextDst, Cnx) /\ On(nextDst, Cnx) = Out(q) /\ DstFrom(q)' = nextDst[Cnx]
      BY <1>6, <2>1 DEF IInv, Wired, Out
    <3>2. IsList(nextDst, nextDst[Cnx]) /\ On(nextDst, nextDst[Cnx]) = Out(q) \ {Cnx}
      BY <1>5, <1>8, <3>1, ShorterList
    <3>3. \A c \in On(nextDst, nextDst[Cnx]) : nextDst'[c] = nextDst[c]
      BY <1>8, <1>9, <3>2
    <3>4. IsList(nextDst', nextDst[Cnx]) /\ On(nextDst', nextDst[Cnx]) = Out(q) \ {Cnx}
      BY <1>8, <3>2, <3>3, SameList
    <3> QED
      BY <3>1, <3>4 DEF Out
  <2>2. CASE q # Src
    <3>1. IsList(nextDst, dstList[q]) /\ On(nextDst, dstList[q]) = Out(q) /\ DstFrom(q)' = dstList[q]
      BY <1>6, <2>2 DEF IInv, Wired, Out
    <3>2. Cnx \notin Out(q)
      BY <1>1, <1>5, <2>2, ListFacts DEF IInv
    <3>3. \A c \in On(nextDst, dstList[q]) : nextDst'[c] = nextDst[c]
      BY <1>8, <1>9, <3>1, <3>2
    <3>4. IsList(nextDst', dstList[q]) /\ On(nextDst', dstList[q]) = Out(q)
      BY <1>8, <3>1, <3>3, SameList
    <3> QED
      BY <3>1, <3>2, <3>4 DEF Out
  <2> QED
    BY <2>1, <2>2
<1>11. ASSUME NEW q \in Refs
       PROVE  IsList(nextSrc, SrcFrom(q))' /\ In(q)' = In(q)
  <2>1. IsList(nextSrc, srcList[q]) /\ On(nextSrc, srcList[q]) = In(q) /\ SrcFrom(q)' = srcList[q]
    BY <1>6 DEF IInv, Wired, In
  <2>2. Cnx \notin In(q)
    BY <1>5, <1>9 DEF AllIn
  <2>3. \A c \in On(nextSrc, srcList[q]) : nextSrc'[c] = nextSrc[c]
    BY <1>8, <1>9, <2>1, <2>2
  <2>4. IsList(nextSrc', srcList[q]) /\ On(nextSrc', srcList[q]) = In(q)
    BY <1>8, <2>1, <2>3, SameList
  <2> QED
    BY <2>1, <2>4 DEF In
<1>12. AllOut' = AllOut \ {Cnx} /\ AllIn' = AllOut \ {Cnx}
  BY <1>5, <1>10, <1>11 DEF AllOut, AllIn
<1>13. Wired'
  <2>1. ASSUME NEW q \in Refs
        PROVE  /\ \A c \in Out(q)' : itsSrc'[c] = q /\ q \in open' /\ itsDst'[c] \in open'
               /\ \A c \in In(q)' : itsDst'[c] = q /\ q \in open' /\ itsSrc'[c] \in open'
    <3>1. Cnx \notin In(q)
      BY <1>5, <1>9 DEF AllIn
    <3> QED
      BY <1>1, <1>8, <1>9, <1>10, <1>11, <3>1 DEF IInv, Wired
  <2> QED
    BY <1>10, <1>11, <2>1 DEF Wired
<1>14. AllOut \subseteq Cells
  BY DEF AllOut
<1>15. Pairs'
  BY <1>8, <1>12, <1>14 DEF IInv, Pairs
<1>16. Apart'
  <2>1. Limbo' = {} /\ Limbo = {} /\ Events' = Events
    BY <1>1, <1>3 DEF Limbo, Events
  <2> QED
    BY <1>5, <1>7, <1>12, <2>1 DEF IInv, Apart
<1>17. Once'
  BY <1>1 DEF IInv, Once
<1>18. TypeOK'
  <2>1. pc'[Client] = "close_dst" /\ Levels = {Client} /\ free' \subseteq Cells
    BY <1>1, <1>3, <1>5, <1>7, OneLevel, Types DEF Where
  <2> QED
    BY <1>1, <1>3, <1>4, <1>7, <1>8, <2>1 DEF TypeOK, Points, SettingUp, Clearing, Freeing
<1>19. Twins'
  BY <1>3, <1>12 DEF Twins
<1>20. Calls'
  <2>1. In(Src)' = {} /\ dstList'[Src'] \notin Out(Src)' \cup {NULL}
    BY <1>4, <1>5, <1>7, <1>10, <1>11
  <2> QED
    BY <1>1, <1>3, <1>4, <1>5, <2>1
       DEF Calls, Wiring, SettingUp, Clearing, ClosingSteps, Freeing
<1> QED
  BY <1>5, <1>8, <1>12, <1>13, <1>14, <1>15, <1>16, <1>17, <1>18, <1>19, <1>20 DEF IInv, Lost

(***************************************************************************)
(* MSClose.                                                                *)
(***************************************************************************)
LEMMA MSCloseStep ==
  ASSUME Quiet, IInv, NEW r \in Refs, MSClose(r)
  PROVE  IInv' /\ SameConnections
<1>1. /\ TypeOK /\ Where = "idle" /\ r \in open \ {MidiShare}
      /\ UNCHANGED <<open, srcList, dstList, itsSrc, itsDst, nextSrc, nextDst, free, sender, rcv, next>>
      /\ app' = [app EXCEPT ![Client] = <<r, NULL>>]
      /\ cell' = [cell EXCEPT ![Client] = srcList[r]]
  BY OneLevel DEF IInv, MSClose, lists, events
<1>2. Where' = "close_src" /\ pc' \in [Levels -> PcValues]
  <2>1. "close_src" \in PcValues /\ Goto(Client, "close_src")
    BY DEF PcValues, ClosingSteps, MSClose
  <2> QED
    BY <1>1, <2>1, Going
<1>3. /\ Src' = r /\ Dst' = NULL /\ Cnx' = srcList[r]
      /\ app' \in [Levels -> (Refs \cup {NULL}) \X (Refs \cup {NULL})]
      /\ cell' \in [Levels -> Points]
  BY <1>1, OneLevel, Types DEF Src, Dst, Cnx
<1>4. TypeOK'
  <2>1. pc'[Client] = "close_src" /\ Levels = {Client}
    BY <1>2, OneLevel DEF Where
  <2> QED
    BY <1>1, <1>2, <1>3, <2>1 DEF TypeOK, Points, SettingUp, Clearing, Freeing
<1>5. \A q \in Refs : DstFrom(q)' = DstFrom(q) /\ SrcFrom(q)' = SrcFrom(q)
  BY <1>1, <1>2, <1>3 DEF DstFrom, SrcFrom
<1>6. AllOut' = AllOut /\ AllIn' = AllIn /\ Wired' /\ Pairs'
  BY <1>1, <1>5, SameLists
<1>7. Twins'
  BY <1>1, <1>2, <1>6 DEF IInv, Twins
<1>8. Apart'
  <2>1. Limbo' = {} /\ Limbo = {}
    BY <1>1, <1>2 DEF Limbo
  <2>2. Events' = Events
    BY <1>1 DEF Events
  <2> QED
    BY <1>1, <1>6, <2>1, <2>2 DEF IInv, Apart
<1>9. Once'
  BY <1>1 DEF IInv, Once
<1>10. Calls'
  BY <1>1, <1>2, <1>3 DEF Calls, Wiring, SettingUp, Clearing, ClosingSteps, Freeing
<1> QED
  BY <1>1, <1>4, <1>6, <1>7, <1>8, <1>9, <1>10 DEF IInv, SameConnections

\* A client that closes takes the connection x out of one list; the other, which
\* began with x, is left behind.
LEMMA Unlinked ==
  ASSUME Quiet, IInv, NEW x, x \in AllOut, AllIn = AllOut,
         UNCHANGED <<open, itsSrc, itsDst, free, sender, rcv>>,
         Limbo = {}, Limbo' = {x},
         \A q \in Refs : /\ IsList(nextDst, DstFrom(q))' /\ IsList(nextSrc, SrcFrom(q))'
                         /\ Out(q)' = Out(q) \ {x} /\ In(q)' = In(q) \ {x}
  PROVE  /\ AllOut' = AllOut \ {x} /\ AllIn' = AllOut \ {x}
         /\ Wired' /\ Pairs' /\ Apart' /\ Once'
<1>1. AllOut' = AllOut \ {x} /\ AllIn' = AllOut \ {x}
  BY DEF AllOut, AllIn
<1>2. Wired'
  <2>1. ASSUME NEW q \in Refs
        PROVE  /\ \A c \in Out(q)' : itsSrc'[c] = q /\ q \in open' /\ itsDst'[c] \in open'
               /\ \A c \in In(q)' : itsDst'[c] = q /\ q \in open' /\ itsSrc'[c] \in open'
    BY DEF IInv, Wired
  <2> QED
    BY <2>1 DEF Wired
<1>3. Pairs'
  BY <1>1 DEF IInv, Pairs
<1>4. Apart'
  <2>1. Events' = Events
    BY DEF Events
  <2> QED
    BY <1>1, <2>1 DEF IInv, Apart
<1>5. Once'
  BY DEF IInv, Once
<1> QED
  BY <1>1, <1>2, <1>3, <1>4, <1>5

LEMMA CloseSrcStep ==
  ASSUME Quiet, IInv, NEW r \in Refs, CloseSrc(r)
  PROVE  IInv' /\ (Lost(Cnx) \/ SameConnections)
<1>1. /\ TypeOK /\ Where = "close_src" /\ Src = r
      /\ UNCHANGED <<open, itsSrc, itsDst, free, sender, rcv, app>>
  BY OneLevel DEF IInv, CloseSrc, events, Src
<1>2. /\ Src' = r /\ Dst' = Dst /\ Limbo = {} /\ AllIn = AllOut
      /\ r \in open \ {MidiShare}
  <2>1. r \in open \ {MidiShare}
    BY <1>1 DEF IInv, Calls, ClosingSteps
  <2>2. AllIn = AllOut
    BY <1>1 DEF IInv, Twins
  <2> QED
    BY <1>1, <2>1, <2>2 DEF Src, Dst, Limbo
<1>3. /\ \A q \in Refs : DstFrom(q) = dstList[q]
      /\ \A q \in Refs : SrcFrom(q) = IF q = r THEN Cnx ELSE srcList[q]
  BY <1>1 DEF DstFrom, SrcFrom
<1>4. CASE /\ Cnx # NULL
           /\ next' = [next EXCEPT ![Client] = nextSrc[Cnx]]
           /\ Rem1DstCon(itsSrc[Cnx], Cnx)
           /\ Goto(Client, "free_src")
           /\ UNCHANGED cell
  <2>1. Cnx \in In(r) /\ Cnx \in Cells /\ Cnx \in AllOut
    <3>1. Cnx \in In(r) /\ In(r) \subseteq Cells
      BY <1>1, <1>3, <1>4, ListFacts DEF IInv
    <3> QED
      BY <1>2, <3>1 DEF AllIn
  <2>2. Where' = "free_src" /\ pc' \in [Levels -> PcValues] /\ Cnx' = Cnx
    <3>1. "free_src" \in PcValues
      BY DEF PcValues, ClosingSteps, Freeing
    <3> QED
      BY <1>1, <1>4, <3>1, Going DEF Cnx
  <2>3. next' \in [Levels -> Points] /\ next'[Client] = nextSrc[Cnx]
    BY <1>1, <1>4, <2>1, OneLevel, Types
  <2>4. itsSrc[Cnx] \in Refs /\ Cnx \in Out(itsSrc[Cnx])
    BY <1>1, <2>1, ListFacts DEF IInv
  <2>5. /\ nextDst' \in [Cells -> Points] /\ dstList' \in [Refs -> Points]
        /\ UNCHANGED <<srcList, nextSrc>>
        /\ \A q \in Refs : /\ IsList(nextDst', dstList'[q])
                           /\ On(nextDst', dstList'[q]) = Out(q) \ {Cnx}
    BY <1>3, <1>4, <2>4, Rem1Dst
  <2>6. TypeOK'
    BY <1>1, <1>4, <2>1, <2>2, <2>3, <2>5, OneLevel DEF TypeOK, Points, Where, Cnx
  <2>7. /\ \A q \in Refs : DstFrom(q)' = dstList'[q]
        /\ \A q \in Refs : SrcFrom(q)' = IF q = r THEN nextSrc[Cnx] ELSE srcList[q]
    BY <1>2, <2>2, <2>3, <2>5 DEF DstFrom, SrcFrom
  <2>8. \A q \in Refs : Out(q)' = Out(q) \ {Cnx} /\ IsList(nextDst, DstFrom(q))'
    BY <2>5, <2>7 DEF Out
  <2>9. \A q \in Refs : In(q)' = In(q) \ {Cnx} /\ IsList(nextSrc, SrcFrom(q))'
    <3>1. ASSUME NEW q \in Refs, q # r
          PROVE  In(q)' = In(q) /\ Cnx \notin In(q) /\ IsList(nextSrc, SrcFrom(q))'
      <4>1. Cnx \notin In(q)
        BY <1>1, <2>1, <3>1, ListFacts DEF IInv
      <4>2. SrcFrom(q)' = SrcFrom(q) /\ IsList(nextSrc, SrcFrom(q))
        BY <1>3, <2>7, <3>1 DEF IInv, Wired
      <4> QED
        BY <2>5, <4>1, <4>2 DEF In
    <3>2. In(r)' = In(r) \ {Cnx} /\ IsList(nextSrc, SrcFrom(r))'
      <4>1. SrcFrom(r)' = nextSrc[Cnx] /\ SrcFrom(r) = Cnx /\ nextSrc' = nextSrc
        BY <1>3, <2>5, <2>7
      <4>2. IsList(nextSrc, Cnx) /\ nextSrc \in [Cells -> Points]
        BY <1>1, <4>1, Types DEF IInv, Wired
      <4>3. IsList(nextSrc, nextSrc[Cnx]) /\ On(nextSrc, nextSrc[Cnx]) = On(nextSrc, Cnx) \ {Cnx}
        BY <1>4, <4>2, ShorterList
      <4> QED
        BY <4>1, <4>3 DEF In
    <3> QED
      BY <3>1, <3>2
  <2>10. Limbo' = {Cnx}
    BY <2>2 DEF Limbo
  <2>11. AllOut' = AllOut \ {Cnx} /\ AllIn' = AllOut \ {Cnx} /\ Wired' /\ Pairs' /\ Apart' /\ Once'
    BY <1>1, <1>2, <2>1, <2>8, <2>9, <2>10, Unlinked
  <2>12. Twins'
    BY <2>2, <2>11 DEF Twins
  <2>13. Calls'
    BY <1>1, <1>2, <2>2 DEF Calls, Wiring, SettingUp, Clearing, ClosingSteps, Freeing
  <2> QED
    BY <1>1, <2>1, <2>6, <2>11, <2>12, <2>13 DEF IInv, Lost, SameConnections
<1>5. CASE /\ Cnx = NULL
           /\ srcList' = [srcList EXCEPT ![r] = NULL]
           /\ cell' = [cell EXCEPT ![Client] = dstList[r]]
           /\ Goto(Client, "close_dst")
           /\ UNCHANGED <<dstList, nextSrc, nextDst, next>>
  <2>1. Where' = "close_dst" /\ pc' \in [Levels -> PcValues]
    <3>1. "close_dst" \in PcValues
      BY DEF PcValues, ClosingSteps
    <3> QED
      BY <1>1, <1>5, <3>1, Going
  <2>2. /\ cell' \in [Levels -> Points] /\ Cnx' = dstList[r]
        /\ srcList' \in [Refs -> Points] /\ srcList'[r] = NULL
        /\ \A q \in Refs \ {r} : srcList'[q] = srcList[q]
    BY <1>1, <1>5, OneLevel, Types DEF Cnx, Points
  <2>3. TypeOK'
    <3>1. pc'[Client] = "close_dst" /\ Levels = {Client}
      BY <2>1, OneLevel DEF Where
    <3> QED
      BY <1>1, <1>5, <2>1, <2>2, <3>1 DEF TypeOK, Points, SettingUp, Clearing, Freeing
  <2>4. \A q \in Refs : DstFrom(q)' = DstFrom(q) /\ SrcFrom(q)' = SrcFrom(q)
    <3>1. /\ \A q \in Refs : DstFrom(q)' = IF q = r THEN Cnx' ELSE dstList[q]
          /\ \A q \in Refs : SrcFrom(q)' = srcList'[q]
      BY <1>2, <1>5, <2>1 DEF DstFrom, SrcFrom
    <3> QED
      BY <1>3, <1>5, <2>2, <3>1
  <2>5. /\ \A q \in Refs : Out(q)' = Out(q) /\ In(q)' = In(q)
        /\ AllOut' = AllOut /\ AllIn' = AllIn /\ Wired' /\ Pairs'
    BY <1>1, <1>5, <2>4, SameLists
  <2>6. In(r)' = {}
    BY <1>1, <1>3, <1>5, <2>5, ListFacts DEF IInv
  <2>7. Twins'
    BY <1>2, <2>1, <2>5 DEF Twins
  <2>8. Apart'
    <3>1. Limbo' = {} /\ Events' = Events
      BY <1>1, <2>1 DEF Limbo, Events
    <3> QED
      BY <1>1, <1>2, <2>5, <3>1 DEF IInv, Apart
  <2>9. Once'
    BY <1>1 DEF IInv, Once
  <2>10. Calls'
    <3>1. In(Src)' = {} /\ Cnx' = dstList'[Src']
      BY <1>2, <1>5, <2>2, <2>6
    <3> QED
      BY <1>1, <1>2, <2>1, <3>1 DEF Calls, Wiring, SettingUp, Clearing, ClosingSteps, Freeing
  <2> QED
    BY <1>1, <2>3, <2>5, <2>7, <2>8, <2>9, <2>10 DEF IInv, Lost, SameConnections
<1> QED
  BY <1>4, <1>5 DEF CloseSrc, Cnx

LEMMA CloseDstStep ==
  ASSUME Quiet, IInv, NEW r \in Refs, CloseDst(r)
  PROVE  IInv' /\ SameConnections
<1>1. /\ TypeOK /\ Where = "close_dst" /\ Src = r
      /\ UNCHANGED <<open, itsSrc, itsDst, free, sender, rcv, app>>
  BY OneLevel DEF IInv, CloseDst, events, Src
<1>2. /\ Src' = r /\ Dst' = Dst /\ Limbo = {} /\ AllIn = AllOut /\ In(r) = {}
      /\ r \in open \ {MidiShare}
      /\ Cnx = dstList[r] \/ dstList[r] \notin Out(r) \cup {NULL}
  <2>1. /\ r \in open \ {MidiShare} /\ In(r) = {}
        /\ Cnx = dstList[r] \/ dstList[r] \notin Out(r) \cup {NULL}
    BY <1>1 DEF IInv, Calls, ClosingSteps
  <2>2. AllIn = AllOut
    BY <1>1 DEF IInv, Twins
  <2> QED
    BY <1>1, <2>1, <2>2 DEF Src, Dst, Limbo
<1>3. /\ \A q \in Refs : DstFrom(q) = IF q = r THEN Cnx ELSE dstList[q]
      /\ \A q \in Refs : SrcFrom(q) = srcList[q]
  BY <1>1 DEF DstFrom, SrcFrom
<1>4. CASE /\ Cnx # NULL
           /\ next' = [next EXCEPT ![Client] = nextDst[Cnx]]
           /\ Rem1SrcCon(itsDst[Cnx], Cnx)
           /\ Goto(Client, "free_dst")
           /\ UNCHANGED cell
  <2>1. Cnx \in Out(r) /\ Cnx \in Cells /\ Cnx \in AllOut
    <3>1. Cnx \in Out(r) /\ Out(r) \subseteq Cells
      BY <1>1, <1>3, <1>4, ListFacts DEF IInv
    <3> QED
      BY <3>1 DEF AllOut
  <2>2. Where' = "free_dst" /\ pc' \in [Levels -> PcValues] /\ Cnx' = Cnx
    <3>1. "free_dst" \in PcValues
      BY DEF PcValues, ClosingSteps, Freeing
    <3> QED
      BY <1>1, <1>4, <3>1, Going DEF Cnx
  <2>3. next' \in [Levels -> Points] /\ next'[Client] = nextDst[Cnx]
    BY <1>1, <1>4, <2>1, OneLevel, Types
  <2>4. itsDst[Cnx] \in Refs /\ Cnx \in In(itsDst[Cnx])
    BY <1>1, <1>2, <2>1, ListFacts DEF IInv
  <2>5. /\ nextSrc' \in [Cells -> Points] /\ srcList' \in [Refs -> Points]
        /\ UNCHANGED <<dstList, nextDst>>
        /\ \A q \in Refs : /\ IsList(nextSrc', srcList'[q])
                           /\ On(nextSrc', srcList'[q]) = In(q) \ {Cnx}
    BY <1>3, <1>4, <2>4, Rem1Src
  <2>6. TypeOK'
    BY <1>1, <1>4, <2>1, <2>2, <2>3, <2>5, OneLevel DEF TypeOK, Points, Where, Cnx
  <2>7. \A q \in Refs : DstFrom(q)' = DstFrom(q) /\ SrcFrom(q)' = srcList'[q]
    BY <1>2, <1>3, <2>2, <2>5 DEF DstFrom, SrcFrom
  <2>8. \A q \in Refs : In(q)' = In(q) \ {Cnx} /\ IsList(nextSrc, SrcFrom(q))'
    BY <2>5, <2>7 DEF In
  <2>9. \A q \in Refs : Out(q)' = Out(q) /\ IsList(nextDst, DstFrom(q))'
    BY <2>5, <2>7 DEF IInv, Wired, Out
  <2>10. AllOut' = AllOut /\ AllIn' = AllOut \ {Cnx}
    BY <1>2, <2>8, <2>9 DEF AllOut, AllIn
  <2>11. Wired'
    <3>1. ASSUME NEW q \in Refs
          PROVE  /\ \A c \in Out(q)' : itsSrc'[c] = q /\ q \in open' /\ itsDst'[c] \in open'
                 /\ \A c \in In(q)' : itsDst'[c] = q /\ q \in open' /\ itsSrc'[c] \in open'
      BY <1>1, <2>8, <2>9 DEF IInv, Wired
    <3> QED
      BY <2>8, <2>9, <3>1 DEF Wired
  <2>12. Twins' /\ Pairs'
    BY <1>1, <2>1, <2>2, <2>10 DEF IInv, Twins, Pairs
  <2>13. Apart'
    <3>1. Limbo' = {} /\ Events' = Events
      BY <1>1, <2>2 DEF Limbo, Events
    <3> QED
      BY <1>1, <1>2, <2>10, <3>1 DEF IInv, Apart
  <2>14. Once'
    BY <1>1 DEF IInv, Once
  <2>15. Calls'
    <3>1. /\ In(Src)' = {} /\ Cnx' \in Out(Src)' /\ nextDst'[Cnx'] = next'[Client]
          /\ Cnx' = dstList'[Src'] \/ dstList'[Src'] \notin Out(Src)' \cup {NULL}
      BY <1>2, <2>1, <2>2, <2>3, <2>5, <2>8, <2>9
    <3> QED
      BY <1>1, <1>2, <2>2, <3>1 DEF Calls, Wiring, SettingUp, Clearing, ClosingSteps, Freeing
  <2> QED
    BY <1>1, <2>6, <2>10, <2>11, <2>12, <2>13, <2>14, <2>15 DEF IInv, SameConnections
<1>5. CASE /\ Cnx = NULL
           /\ dstList' = [dstList EXCEPT ![r] = NULL]
           /\ Goto(Client, "flush")
           /\ UNCHANGED <<srcList, nextSrc, nextDst, cell, next>>
  <2>1. Where' = "flush" /\ pc' \in [Levels -> PcValues]
    <3>1. "flush" \in PcValues
      BY DEF PcValues, ClosingSteps
    <3> QED
      BY <1>1, <1>5, <3>1, Going
  <2>2. /\ dstList' \in [Refs -> Points] /\ dstList'[r] = NULL
        /\ \A q \in Refs \ {r} : dstList'[q] = dstList[q]
    BY <1>1, <1>5, OneLevel, Types DEF Points
  <2>3. TypeOK'
    <3>1. pc'[Client] = "flush" /\ Levels = {Client}
      BY <2>1, OneLevel DEF Where
    <3> QED
      BY <1>1, <1>5, <2>1, <2>2, <3>1 DEF TypeOK, Points, SettingUp, Clearing, Freeing
  <2>4. \A q \in Refs : DstFrom(q)' = DstFrom(q) /\ SrcFrom(q)' = SrcFrom(q)
    <3>1. \A q \in Refs : DstFrom(q)' = dstList'[q] /\ SrcFrom(q)' = srcList[q]
      BY <1>5, <2>1 DEF DstFrom, SrcFrom
    <3> QED
      BY <1>3, <1>5, <2>2, <3>1
  <2>5. /\ \A q \in Refs : Out(q)' = Out(q) /\ In(q)' = In(q)
        /\ AllOut' = AllOut /\ AllIn' = AllIn /\ Wired' /\ Pairs'
    BY <1>1, <1>5, <2>4, SameLists
  <2>6. Out(r)' = {} /\ In(r)' = {}
    BY <1>1, <1>2, <1>3, <1>5, <2>5, ListFacts DEF IInv
  <2>7. Twins'
    BY <1>2, <2>1, <2>5 DEF Twins
  <2>8. Apart'
    <3>1. Limbo' = {} /\ Events' = Events
      BY <1>1, <2>1 DEF Limbo, Events
    <3> QED
      BY <1>1, <1>2, <2>5, <3>1 DEF IInv, Apart
  <2>9. Once'
    BY <1>1 DEF IInv, Once
  <2>10. Calls'
    <3>1. In(Src)' = {} /\ Out(Src)' = {}
      BY <1>2, <2>6
    <3> QED
      BY <1>1, <1>2, <2>1, <3>1 DEF Calls, Wiring, SettingUp, Clearing, ClosingSteps, Freeing
  <2> QED
    BY <1>1, <2>3, <2>5, <2>7, <2>8, <2>9, <2>10 DEF IInv, SameConnections
<1> QED
  BY <1>4, <1>5 DEF CloseDst, Cnx

LEMMA FlushStep ==
  ASSUME Quiet, IInv, NEW r \in Refs, Flush(r)
  PROVE  IInv' /\ SameConnections
<1>1. /\ TypeOK /\ Where = "flush" /\ Src = r
      /\ UNCHANGED <<open, srcList, dstList, itsSrc, itsDst, nextSrc, nextDst, sender, app, cell, next>>
      /\ free' = free \cup rcv[r] /\ rcv' = [rcv EXCEPT ![r] = {}]
  BY OneLevel DEF IInv, Flush, lists, Src
<1>2. Where' = "free_appl" /\ pc' \in [Levels -> PcValues] /\ Src' = r
  <2>1. "free_appl" \in PcValues /\ Goto(Client, "free_appl")
    BY DEF PcValues, ClosingSteps, Flush
  <2> QED
    BY <1>1, <2>1, Going DEF Src
<1>3. /\ r \in open \ {MidiShare}
      /\ In(r) = {} /\ Out(r) = {}
  BY <1>1 DEF IInv, Calls, ClosingSteps
<1>4. /\ rcv' \in [Refs -> SUBSET Cells] /\ rcv'[r] = {}
      /\ \A q \in Refs \ {r} : rcv'[q] = rcv[q]
      /\ rcv[r] \subseteq Cells /\ free' \subseteq Cells
  BY <1>1, Types
<1>5. TypeOK'
  <2>1. pc'[Client] = "free_appl" /\ Levels = {Client}
    BY <1>2, OneLevel DEF Where
  <2> QED
    BY <1>1, <1>2, <1>4, <2>1 DEF TypeOK, SettingUp, Clearing, Freeing
<1>6. \A q \in Refs : DstFrom(q)' = DstFrom(q) /\ SrcFrom(q)' = SrcFrom(q)
  BY <1>1, <1>2 DEF DstFrom, SrcFrom
<1>7. /\ \A q \in Refs : Out(q)' = Out(q) /\ In(q)' = In(q)
      /\ AllOut' = AllOut /\ AllIn' = AllIn /\ Wired' /\ Pairs'
  BY <1>1, <1>6, SameLists
<1>8. Twins'
  BY <1>1, <1>2, <1>7 DEF IInv, Twins
<1>9. Events' = Events \ rcv[r] /\ rcv[r] \subseteq Events
  <2>1. \A c \in rcv[r] : sender[c] = NULL /\ \A q \in Refs \ {r} : c \notin rcv[q]
    BY <1>4 DEF IInv, Once
  <2>2. Events = {c \in Cells : sender[c] # NULL \/ \E q \in Refs : c \in rcv[q]}
    BY <1>1, Types DEF Events
  <2>3. Events' = {c \in Cells : sender[c] # NULL \/ \E q \in Refs : c \in rcv'[q]}
    BY <1>1, <1>4 DEF Events
  <2> QED
    BY <1>4, <2>1, <2>2, <2>3
<1>10. Apart'
  <2>1. Limbo' = {} /\ Limbo = {}
    BY <1>1, <1>2 DEF Limbo
  <2> QED
    BY <1>1, <1>7, <1>9, <2>1 DEF IInv, Apart
<1>11. Once'
  <2>1. \A q \in Refs : rcv'[q] \subseteq rcv[q]
    BY <1>4
  <2> QED
    BY <1>1, <2>1 DEF IInv, Once
<1>12. Calls'
  <2>1. In(Src)' = {} /\ Out(Src)' = {} /\ rcv[Src]' = {}
    BY <1>2, <1>3, <1>4, <1>7
  <2> QED
    BY <1>1, <1>2, <1>3, <2>1 DEF Calls, Wiring, SettingUp, Clearing, ClosingSteps, Freeing
<1> QED
  BY <1>1, <1>5, <1>7, <1>8, <1>10, <1>11, <1>12 DEF IInv, SameConnections

LEMMA FreeStep ==
  ASSUME Quiet, IInv, NEW r \in Refs, Free(r)
  PROVE  /\ IInv'
         /\ open # {MidiShare, r} => SameConnections
         /\ open = {MidiShare, r} => AllOut' = {}
<1>1. /\ TypeOK /\ Where = "free_appl" /\ Src = r /\ Return(Client)
  BY OneLevel DEF IInv, Free, Src
<1>2. /\ Where' = "idle" /\ pc' \in [Levels -> PcValues]
      /\ app' \in [Levels -> (Refs \cup {NULL}) \X (Refs \cup {NULL})]
      /\ cell' \in [Levels -> Points] /\ next' \in [Levels -> Points]
      /\ pc'[Client] = "idle" /\ Levels = {Client}
  BY <1>1, Returning, OneLevel DEF Where
<1>3. In(r) = {} /\ Out(r) = {}
  BY <1>1 DEF IInv, Calls, ClosingSteps
<1>4. Calls' /\ Limbo' = {} /\ Limbo = {}
  BY <1>1, <1>2 DEF Calls, Limbo, Wiring, SettingUp, Clearing, ClosingSteps, Freeing
<1>5. CASE open # {MidiShare, r} /\ open' = open \ {r} /\ UNCHANGED <<lists, free, events>>
  <2>1. UNCHANGED <<srcList, dstList, itsSrc, itsDst, nextSrc, nextDst, free, sender, rcv>>
    BY <1>5 DEF lists, events
  <2>2. TypeOK'
    BY <1>1, <1>2, <1>5, <2>1 DEF TypeOK, Points, SettingUp, Clearing, Freeing
  <2>3. \A q \in Refs : DstFrom(q)' = DstFrom(q) /\ SrcFrom(q)' = SrcFrom(q)
    BY <1>1, <1>2, <2>1 DEF DstFrom, SrcFrom
  <2>4. \A q \in Refs : Out(q)' = Out(q) /\ In(q)' = In(q)
    BY <2>1, <2>3 DEF Out, In
  <2>5. AllOut' = AllOut /\ AllIn' = AllIn /\ AllIn = AllOut
    <3>1. AllIn = AllOut
      BY <1>1 DEF IInv, Twins
    <3> QED
      BY <2>4, <3>1 DEF AllOut, AllIn
  <2>6. Wired'
    <3>1. \A q \in Refs : IsList(nextDst, DstFrom(q))' /\ IsList(nextSrc, SrcFrom(q))'
      BY <2>1, <2>3 DEF IInv, Wired
    <3>2. ASSUME NEW q \in Refs, NEW c \in Out(q)
          PROVE  itsSrc[c] = q /\ q \in open \ {r} /\ itsDst[c] \in open \ {r}
      <4>1. itsSrc[c] = q /\ q \in open /\ itsDst[c] \in open
        BY DEF IInv, Wired
      <4>2. c \in In(itsDst[c])
        <5>1. c \in AllOut
          BY <1>1, ListFacts DEF IInv, AllOut
        <5> QED
          BY <1>1, <2>5, <5>1, ListFacts DEF IInv
      <4> QED
        BY <1>3, <4>1, <4>2
    <3>3. ASSUME NEW q \in Refs, NEW c \in In(q)
          PROVE  itsDst[c] = q /\ q \in open \ {r} /\ itsSrc[c] \in open \ {r}
      <4>1. itsDst[c] = q /\ q \in open /\ itsSrc[c] \in open
        BY DEF IInv, Wired
      <4>2. c \in Out(itsSrc[c])
        <5>1. c \in AllIn
          BY <1>1, ListFacts DEF IInv, AllIn
        <5> QED
          BY <1>1, <2>5, <5>1, ListFacts DEF IInv
      <4> QED
        BY <1>3, <4>1, <4>2
    <3> QED
      BY <1>5, <2>1, <2>4, <3>1, <3>2, <3>3 DEF Wired
  <2>7. Twins' /\ Pairs'
    BY <1>2, <2>1, <2>5 DEF IInv, Twins, Pairs
  <2>8. Apart'
    <3>1. Events' = Events
      BY <2>1 DEF Events
    <3> QED
      BY <1>4, <2>1, <2>5, <3>1 DEF IInv, Apart
  <2>9. Once'
    BY <2>1 DEF IInv, Once
  <2> QED
    BY <1>4, <1>5, <2>1, <2>2, <2>5, <2>6, <2>7, <2>8, <2>9 DEF IInv, SameConnections
<1>6. CASE /\ open = {MidiShare, r} /\ open' = {}
           /\ srcList' = NoApps /\ dstList' = NoApps
           /\ free' = Cells
           /\ sender' = Blank
           /\ rcv' = [s \in Refs |-> {}]
           /\ itsSrc' = Blank /\ itsDst' = Blank
           /\ nextSrc' = Blank /\ nextDst' = Blank
  <2>1. TypeOK'
    BY <1>2, <1>6 DEF TypeOK, NoApps, Blank, Points, SettingUp, Clearing, Freeing
  <2>2. nextDst' \in [Cells -> Points] /\ nextSrc' \in [Cells -> Points]
    BY <1>6 DEF Blank, Points
  <2>3. \A q \in Refs : DstFrom(q)' = NULL /\ SrcFrom(q)' = NULL
    BY <1>2, <1>6 DEF DstFrom, SrcFrom, NoApps
  <2>4. \A q \in Refs : /\ IsList(nextDst, DstFrom(q))' /\ Out(q)' = {}
                        /\ IsList(nextSrc, SrcFrom(q))' /\ In(q)' = {}
    BY <2>2, <2>3, EmptyList DEF Out, In
  <2>5. AllOut' = {} /\ AllIn' = {}
    BY <2>4 DEF AllOut, AllIn
  <2>6. Events' = {}
    BY <1>6 DEF Events, Blank
  <2>7. Wired' /\ Twins' /\ Pairs'
    BY <1>2, <2>4, <2>5 DEF Wired, Twins, Pairs
  <2>8. Apart'
    BY <1>4, <1>6, <2>5, <2>6 DEF Apart
  <2>9. Once'
    BY <1>6 DEF Once, Blank
  <2> QED
    BY <1>4, <1>6, <2>1, <2>5, <2>7, <2>8, <2>9 DEF IInv
<1> QED
  BY <1>5, <1>6 DEF Free

(***************************************************************************)
(* The theorems.                                                           *)
(***************************************************************************)
LEMMA NextStep == Quiet /\ IInv /\ [Next]_vars => IInv'
<1> SUFFICES ASSUME Quiet, IInv, [Next]_vars PROVE IInv'
  OBVIOUS
<1>1. CASE MSOpen
  BY <1>1, MSOpenStep
<1>2. CASE CloseFree
  <2>1. Where \in Freeing
    BY <1>2, OneLevel DEF CloseFree
  <2> QED
    BY <1>2, <2>1, CloseFreeSrc, CloseFreeDst DEF Freeing
<1>3. ASSUME NEW r \in Refs,
             \/ MSSend(r) \/ MSGetEv(r) \/ MSClose(r) \/ CloseSrc(r)
             \/ CloseDst(r) \/ Flush(r) \/ Free(r)
      PROVE  IInv'
  BY <1>3, MSSendStep, MSGetEvStep, MSCloseStep, CloseSrcStep, CloseDstStep, FlushStep, FreeStep
<1>4. ASSUME NEW e \in Cells, Dispatch(e) \/ DispatchLost(e) PROVE IInv'
  BY <1>4, DispatchStep, DispatchLostStep
<1>5. ASSUME NEW l \in Levels, Connecting(l) PROVE IInv'
  <2>1. l = Client
    BY OneLevel
  <2> QED
    BY <1>5, <2>1, SetFindStep, SetPopStep, SetSrcStep, SetDstStep, PutDstStep, ClearFindStep,
       ClearSrcStep, ClearDstStep, ClearFreeStep DEF Connecting
<1>6. ASSUME NEW l \in Levels, NEW s \in Refs, NEW d \in Refs, NEW state \in BOOLEAN,
             MSConnect(l, s, d, state)
      PROVE  IInv'
  <2>1. l = Client
    BY OneLevel
  <2> QED
    BY <1>6, <2>1, MSConnectStep
<1>7. CASE UNCHANGED vars
  <2>1. UNCHANGED <<open, srcList, dstList, itsSrc, itsDst, nextSrc, nextDst, free, sender, rcv,
                    pc, app, cell, next>>
    BY <1>7 DEF vars, lists, events, locals
  <2>2. /\ Where' = Where /\ Src' = Src /\ Dst' = Dst /\ Cnx' = Cnx
        /\ \A q \in Refs : DstFrom(q)' = DstFrom(q) /\ SrcFrom(q)' = SrcFrom(q)
    BY <2>1 DEF Where, Src, Dst, Cnx, DstFrom, SrcFrom
  <2>3. /\ AllOut' = AllOut /\ AllIn' = AllIn /\ Wired' /\ Pairs'
    BY <2>1, <2>2, SameLists
  <2>4. Out(Src)' = Out(Src) /\ In(Src)' = In(Src)
    BY <2>1, <2>2 DEF Out, In, DstFrom, SrcFrom, Src, Where, Cnx
  <2>5. TypeOK'
    BY <2>1 DEF IInv, TypeOK
  <2>6. Twins'
    BY <2>2, <2>3 DEF IInv, Twins
  <2>7. Apart'
    <3>1. Limbo' = Limbo /\ Events' = Events
      BY <2>1, <2>2 DEF Limbo, Events
    <3> QED
      BY <2>1, <2>3, <3>1 DEF IInv, Apart
  <2>8. Once'
    BY <2>1 DEF IInv, Once
  <2>9. Calls'
    BY <2>1, <2>2, <2>4 DEF IInv, Calls
  <2> QED
    BY <2>3, <2>5, <2>6, <2>7, <2>8, <2>9 DEF IInv
<1> QED
  BY <1>1, <1>2, <1>3, <1>4, <1>5, <1>6, <1>7 DEF Next

\* The invariant holds of every behaviour, for any number of clients and cells,
\* at every write of SetConnection, ClearConnection, RemAllSrcCon and RemAllDstCon.
THEOREM Invariance ==
  ASSUME Interrupts = {}
  PROVE  Spec => []IInv
<1> SUFFICES ASSUME Quiet PROVE Spec => []IInv
  BY DEF Quiet
<1>1. Init => IInv
  BY InitIInv
<1>2. IInv /\ [Next]_vars => IInv'
  BY NextStep
<1> QED
  BY <1>1, <1>2, PTL DEF Spec

\* The lists begin and lead only where the code's types say, and a call that works
\* on a connection has one.
THEOREM TypeCorrect ==
  ASSUME Interrupts = {}
  PROVE  Spec => []TypeOK
<1> SUFFICES ASSUME Quiet PROVE Spec => []TypeOK
  BY DEF Quiet
<1>1. IInv => TypeOK
  BY DEF IInv
<1>2. Spec => []IInv
  BY Invariance DEF Quiet
<1> QED
  BY <1>1, <1>2, PTL

\* Between two calls the lists of destinations and the lists of sources tell the
\* same connections, no pair is connected twice, and no cell is lost or used twice
\* (SetConnection, ClearConnection, RemAllSrcCon, RemAllDstCon).
THEOREM ListsAgreeAlways ==
  ASSUME Interrupts = {}
  PROVE  Spec => []ListsAgree
<1> SUFFICES ASSUME Quiet PROVE Spec => []ListsAgree
  BY DEF Quiet
<1>1. IInv => ListsAgree
  <2> SUFFICES ASSUME IInv, \A l \in Levels : pc[l] = "idle"
               PROVE  ListsAgree
    BY DEF ListsAgree
  <2>1. TypeOK /\ Where = "idle"
    BY OneLevel DEF IInv, Where
  <2>2. \A r \in Refs : /\ Members(Destinations(r)) = Out(r) /\ Members(Sources(r)) = In(r)
                        /\ NoDouble(Destinations(r)) /\ NoDouble(Sources(r))
    <3> TAKE r \in Refs
    <3>1. DstFrom(r) = dstList[r] /\ SrcFrom(r) = srcList[r]
      BY <2>1, IdleTops
    <3>2. /\ IsList(nextDst, dstList[r]) /\ IsList(nextSrc, srcList[r])
          /\ nextDst \in [Cells -> Points] /\ nextSrc \in [Cells -> Points]
      BY <2>1, <3>1, Types DEF IInv, Wired
    <3>3. NoDouble(Destinations(r)) /\ NoDouble(Sources(r))
      BY <3>2, OnCells DEF Destinations, Sources
    <3> QED
      BY <3>1, <3>3 DEF Destinations, Sources, Out, In, On
  <2>3. /\ open \subseteq Refs
        /\ \A r \in Refs : /\ Out(r) \subseteq Cells /\ In(r) \subseteq Cells
                           /\ \A c \in Out(r) : itsSrc[c] = r /\ r \in open
                           /\ \A c \in In(r) : itsDst[c] = r /\ r \in open
    BY <2>1, ListFacts, Types DEF IInv, Wired
  <2>4. /\ UNION {Members(Destinations(r)) : r \in open} = AllOut
        /\ UNION {Members(Sources(r)) : r \in open} = AllIn
    <3>1. /\ \A r \in open : Members(Destinations(r)) = Out(r) /\ Members(Sources(r)) = In(r)
          /\ \A c \in AllOut : \E r \in open : c \in Out(r)
          /\ \A c \in AllIn : \E r \in open : c \in In(r)
      BY <2>2, <2>3 DEF AllOut, AllIn
    <3>2. /\ \A r \in open : Out(r) \subseteq AllOut
          /\ \A r \in open : In(r) \subseteq AllIn
      BY <2>3 DEF AllOut, AllIn
    <3> QED
      BY <3>1, <3>2
  <2>5. AllIn = AllOut /\ Limbo = {}
    BY <2>1, IdleCalls DEF IInv, Twins
  <2>6. \A c, d \in AllOut : itsSrc[c] = itsSrc[d] /\ itsDst[c] = itsDst[d] => c = d
    BY DEF IInv, Pairs
  <2>7. /\ AllOut \cup Events \cup free = Cells
        /\ AllOut \cap Events = {} /\ AllOut \cap free = {} /\ Events \cap free = {}
    BY <2>5 DEF IInv, Apart
  <2>8. \A r \in open : /\ NoDouble(Destinations(r)) /\ NoDouble(Sources(r))
                        /\ \A c \in Members(Destinations(r)) : itsSrc[c] = r
                        /\ \A c \in Members(Sources(r)) : itsDst[c] = r
    BY <2>2, <2>3
  <2> QED
    BY <2>4, <2>5, <2>6, <2>7, <2>8 DEF ListsAgree
<1>2. Spec => []IInv
  BY Invariance DEF Quiet
<1> QED
  BY <1>1, <1>2, PTL

\* Whenever the clock handler may follow the destinations of a client, at any write
\* to the lists, it meets each connection once, and none that is free or an event
\* (ConnectionsLoop), but for the list that RemAllDstCon is freeing; no alarm
\* changes connections.
THEOREM NothingDangles ==
  ASSUME Interrupts = {}
  PROVE  Spec => []NoDangling
<1> SUFFICES ASSUME Quiet PROVE Spec => []NoDangling
  BY DEF Quiet
<1>1. IInv => NoDangling
  <2> SUFFICES ASSUME IInv, NEW r \in open, ~ Emptying(r)
               PROVE  /\ NoDouble(Destinations(r))
                      /\ \A c \in Members(Destinations(r)) :
                           c \notin free \cup Events /\ itsSrc[c] = r /\ itsDst[c] \in open
    BY DEF NoDangling
  <2>1. TypeOK /\ r \in Refs
    BY Types DEF IInv
  <2>2. DstFrom(r) = dstList[r]
    BY Followed
  <2>3. IsList(nextDst, dstList[r]) /\ nextDst \in [Cells -> Points]
    BY <2>1, <2>2, Types DEF IInv, Wired
  <2>4. NoDouble(Destinations(r)) /\ Members(Destinations(r)) = Out(r)
    <3>1. NoDouble(Destinations(r))
      BY <2>3, OnCells DEF Destinations
    <3> QED
      BY <2>2, <3>1 DEF Destinations, Out, On
  <2>5. ASSUME NEW c \in Out(r)
        PROVE  c \notin free \cup Events /\ itsSrc[c] = r /\ itsDst[c] \in open
    <3>1. c \in AllOut
      BY <2>1, ListFacts DEF IInv, AllOut
    <3>2. c \notin free \cup Events
      BY <3>1 DEF IInv, Apart
    <3> QED
      BY <2>1, <3>2 DEF IInv, Wired
  <2> QED
    BY <2>4, <2>5
<1>2. Spec => []IInv
  BY Invariance DEF Quiet
<1> QED
  BY <1>1, <1>2, PTL

(***************************************************************************)
(* The kernel is a patchbay.  The variables of Patchbay, as Connections    *)
(* substitutes them.                                                       *)
(***************************************************************************)
Conn == UNION {{<<r, itsDst[c]>> : c \in Members(Outgoing(r))} : r \in open}
SentBy(r) == {c \in Cells : sender[c] = r}
Sent == [r \in Refs |-> Cardinality(SentBy(r))]
Got == [r \in Refs |-> Cardinality(rcv[r])]

\* The client that is emptying its list, from the first connection it has freed.
Leaving == {r \in open : Emptying(r)}

\* Connections are pairs, one for each cell on a list of destinations.
PairOf(c) == <<itsSrc[c], itsDst[c]>>
Paired == Conn = {PairOf(c) : c \in AllOut}

LEMMA PairedHolds == Quiet /\ IInv => Paired
<1> SUFFICES ASSUME Quiet, IInv PROVE Conn = {PairOf(c) : c \in AllOut}
  BY DEF Paired
<1>1. TypeOK /\ open \subseteq Refs
  BY Types DEF IInv
<1>2. ASSUME NEW r \in open
      PROVE  Members(Outgoing(r)) = Out(r)
  <2>1. CASE Closing(r) /\ pc[Client] \in {"close_dst", "free_dst"}
    BY <2>1 DEF Outgoing, Closing, Out, On, DstFrom, Where, Src, Cnx
  <2>3. CASE ~ Closing(r) \/ pc[Client] \notin {"close_dst", "free_dst"}
    <3>1. DstFrom(r) = dstList[r]
      BY <2>3 DEF Closing, DstFrom, Where, Src, ClosingSteps, Freeing
    <3>2. Outgoing(r) = Destinations(r)
      BY <2>3 DEF Outgoing
    <3> QED
      BY <3>1, <3>2 DEF Out, On, Destinations
  <2> QED
    BY <2>1, <2>3
<1>3. \A r \in open : \A c \in Out(r) : c \in AllOut /\ itsSrc[c] = r
  BY <1>1, ListFacts DEF IInv, Wired, AllOut
<1>4. \A c \in AllOut : itsSrc[c] \in open /\ c \in Out(itsSrc[c])
  BY <1>1, ListFacts DEF IInv, Wired
<1>5. ASSUME NEW p \in Conn PROVE p \in {PairOf(c) : c \in AllOut}
  <2>1. PICK r \in open : \E c \in Out(r) : p = <<r, itsDst[c]>>
    BY <1>2, <1>5 DEF Conn
  <2>2. PICK c \in Out(r) : p = <<r, itsDst[c]>>
    BY <2>1
  <2> QED
    BY <1>3, <2>2 DEF PairOf
<1>6. ASSUME NEW c \in AllOut PROVE PairOf(c) \in Conn
  <2>1. c \in Members(Outgoing(itsSrc[c]))
    BY <1>2, <1>4
  <2> QED
    BY <1>4, <2>1 DEF Conn, PairOf
<1> QED
  BY <1>5, <1>6

LEMMA EmptyingIs ==
  ASSUME NEW r
  PROVE  Emptying(r) <=> Src = r /\ Where \in {"close_dst", "free_dst"} /\ Cnx # dstList[r]
BY DEF Emptying, Closing, ClosingSteps, Freeing, Src, Where, Cnx

LEMMA NobodyLeaves ==
  ASSUME Where \notin {"close_dst", "free_dst"}
  PROVE  Leaving = {}
BY EmptyingIs DEF Leaving

\* Most steps leave it as it is.
LEMMA SameLeaving ==
  \/ Where \notin {"close_dst", "free_dst"} /\ Where' \notin {"close_dst", "free_dst"}
  \/ UNCHANGED <<open, pc, app, cell, dstList>>
  => Leaving' = Leaving
<1>1. ASSUME UNCHANGED <<open, pc, app, cell, dstList>> PROVE Leaving' = Leaving
  BY <1>1 DEF Leaving, Emptying, Closing
<1>2. ASSUME Where \notin {"close_dst", "free_dst"}, Where' \notin {"close_dst", "free_dst"}
      PROVE  Leaving' = Leaving
  <2>1. Leaving = {}
    BY <1>2, NobodyLeaves
  <2>2. Leaving' = {}
    BY <1>2 DEF Leaving, Emptying, Closing, Where
  <2> QED
    BY <2>1, <2>2
<1> QED
  BY <1>1, <1>2

LEMMA SmallSets == \A S \in SUBSET Cells : IsFiniteSet(S) /\ Cardinality(S) \in Nat
BY ConnectionsAssumption, FS_Subset, FS_CardinalityType

\* What Patchbay says in these terms.
LEMMA BayWork ==
  ASSUME Cardinality(free') \in Nat, UNCHANGED <<open, Conn, Sent, Got, Leaving>>
  PROVE  Bay!Work
BY DEF Bay!Work, Conn, Sent, SentBy, Got, Leaving

LEMMA SameCounts ==
  ASSUME TRUE
  PROVE  /\ sender' = sender => Sent' = Sent
         /\ rcv' = rcv => Got' = Got
BY DEF Sent, SentBy, Got

LEMMA SameConn ==
  ASSUME Paired, Paired', SameConnections
  PROVE  Conn' = Conn
BY DEF Paired, PairOf, SameConnections

\* A step that only works.
LEMMA Works ==
  ASSUME Quiet, IInv', Paired, Paired', SameConnections, Leaving' = Leaving,
         UNCHANGED <<open, sender, rcv>>
  PROVE  Bay!Work
<1>1. free' \subseteq Cells
  BY DEF IInv, TypeOK
<1> QED
  BY <1>1, SmallSets, SameConn, SameCounts, BayWork

LEMMA GainedConn ==
  ASSUME Paired, Paired', NEW x, Gained(x)
  PROVE  Conn' = Conn \cup {PairOf(x)}
BY DEF Paired, PairOf, Gained

LEMMA LostConn ==
  ASSUME Quiet, IInv, Paired, Paired', NEW x, Lost(x)
  PROVE  Conn' = Conn \ {PairOf(x)} /\ PairOf(x) \in Conn
<1>1. /\ x \in AllOut /\ AllOut' = AllOut \ {x}
      /\ \A c \in AllOut \ {x} : itsSrc'[c] = itsSrc[c] /\ itsDst'[c] = itsDst[c]
      /\ \A c, d \in AllOut : itsSrc[c] = itsSrc[d] /\ itsDst[c] = itsDst[d] => c = d
  BY DEF Lost, IInv, Pairs
<1>2. Conn = {PairOf(c) : c \in AllOut} /\ Conn' = {PairOf(c) : c \in AllOut \ {x}}
  BY <1>1 DEF Paired, PairOf
<1>3. \A c \in AllOut \ {x} : PairOf(c) # PairOf(x)
  BY <1>1 DEF PairOf
<1> QED
  BY <1>1, <1>2, <1>3

LEMMA BayOpen ==
  ASSUME Quiet, IInv, IInv', Paired, Paired', MSOpen
  PROVE  Bay!Open
<1>1. /\ Apps \ open # {} /\ open' = open \cup {0, Least(Apps \ open)}
      /\ UNCHANGED <<sender, rcv>> /\ free' \subseteq Cells
  BY DEF MSOpen, events, MidiShare, IInv, TypeOK
<1>2. Refs \ (open \cup {0}) = Apps \ open
  BY ConnectionsAssumption DEF Refs, MidiShare
<1>3. Bay!Least(Apps \ open) = Least(Apps \ open)
  BY DEF Bay!Least, Least
<1>4. Conn' = Conn /\ Sent' = Sent /\ Got' = Got /\ Cardinality(free') \in Nat
  BY <1>1, MSOpenStep, SameConn, SameCounts, SmallSets
<1>5. /\ Refs \ (open \cup {0}) # {}
      /\ open' = open \cup {0, Bay!Least(Refs \ (open \cup {0}))}
  BY <1>1, <1>2, <1>3
<1>6. Leaving' = Leaving
  <2>1. Where = "idle" /\ Where' = "idle"
    BY OneLevel DEF MSOpen, locals, Where
  <2> QED
    BY <2>1, SameLeaving
<1> QED
  BY <1>4, <1>5, <1>6 DEF Bay!Open, Conn, Sent, SentBy, Got, Leaving

LEMMA BaySend ==
  ASSUME Quiet, IInv, IInv', Paired, Paired', NEW r \in Refs, MSSend(r)
  PROVE  Bay!Send(r)
<1>1. /\ TypeOK /\ r \in open /\ UNCHANGED <<open, rcv>> /\ free' \subseteq Cells
  BY DEF MSSend, IInv, TypeOK
<1>2. PICK c \in free : sender' = [sender EXCEPT ![c] = r]
  BY DEF MSSend
<1>3. c \in Cells /\ sender[c] = NULL /\ r # NULL
  <2>1. c \in Cells /\ c \notin Events
    BY <1>1, Types DEF IInv, Apart
  <2> QED
    BY <1>1, <2>1, Types DEF Events
<1>4. sender'[c] = r /\ \A d \in Cells \ {c} : sender'[d] = sender[d]
  BY <1>1, <1>2, <1>3, Types
<1>5. c \notin SentBy(r) /\ SentBy(r)' = SentBy(r) \cup {c}
  BY <1>3, <1>4 DEF SentBy
<1>6. ASSUME NEW q \in Refs, q # r PROVE SentBy(q)' = SentBy(q)
  <2>1. q # NULL
    BY <1>1, Types
  <2> QED
    BY <1>3, <1>4, <1>6, <2>1 DEF SentBy
<1>7. Cardinality(SentBy(r)') = Cardinality(SentBy(r)) + 1
  <2>1. SentBy(r) \in SUBSET Cells
    BY DEF SentBy
  <2>2. IsFiniteSet(SentBy(r))
    BY <2>1, SmallSets
  <2> QED
    BY <1>5, <2>2, FS_AddElement
<1>8. Sent' = [Sent EXCEPT ![r] = @ + 1]
  <2>1. Sent' = [q \in Refs |-> Cardinality(SentBy(q)')]
    BY DEF Sent
  <2>2. \A q \in Refs : Cardinality(SentBy(q)') = IF q = r THEN Sent[r] + 1 ELSE Sent[q]
    BY <1>6, <1>7 DEF Sent
  <2>3. [Sent EXCEPT ![r] = @ + 1] = [q \in Refs |-> IF q = r THEN Sent[r] + 1 ELSE Sent[q]]
    BY DEF Sent
  <2> QED
    BY <2>1, <2>2, <2>3
<1>9. Conn' = Conn /\ Got' = Got /\ Cardinality(free') \in Nat
  BY <1>1, MSSendStep, SameConn, SameCounts, SmallSets
<1>10. Leaving' = Leaving
  BY SameLeaving DEF MSSend, lists, locals
<1> QED
  BY <1>1, <1>8, <1>9, <1>10 DEF Bay!Send, Conn, Sent, SentBy, Got, Leaving

LEMMA BayTake ==
  ASSUME Quiet, IInv, IInv', Paired, Paired', NEW r \in Refs, MSGetEv(r)
  PROVE  Bay!Take(r)
<1>1. /\ TypeOK /\ UNCHANGED <<open, sender>> /\ free' \subseteq Cells
  BY DEF MSGetEv, IInv, TypeOK
<1>2. PICK c \in rcv[r] : rcv' = [rcv EXCEPT ![r] = @ \ {c}]
  BY DEF MSGetEv
<1>3. /\ IsFiniteSet(rcv[r]) /\ Cardinality(rcv[r]) \in Nat /\ Cardinality(rcv[r]) # 0
      /\ Cardinality(rcv[r] \ {c}) = Cardinality(rcv[r]) - 1
  <2>1. rcv[r] \in SUBSET Cells
    BY <1>1, Types
  <2>2. IsFiniteSet(rcv[r]) /\ Cardinality(rcv[r]) \in Nat
    BY <2>1, SmallSets
  <2>3. Cardinality(rcv[r]) # 0
    BY <1>2, <2>2, FS_EmptySet
  <2>4. Cardinality(rcv[r] \ {c}) = Cardinality(rcv[r]) - 1
    BY <2>2, FS_RemoveElement
  <2> QED
    BY <2>2, <2>3, <2>4
<1>4. Got[r] > 0
  BY <1>3 DEF Got
<1>5. Got' = [Got EXCEPT ![r] = Got[r] - 1]
  <2>1. rcv'[r] = rcv[r] \ {c} /\ \A q \in Refs \ {r} : rcv'[q] = rcv[q]
    BY <1>1, <1>2, Types
  <2>2. Got' = [q \in Refs |-> Cardinality(rcv'[q])]
    BY DEF Got
  <2>3. \A q \in Refs : Cardinality(rcv'[q]) = IF q = r THEN Got[r] - 1 ELSE Got[q]
    BY <1>3, <2>1 DEF Got
  <2>4. [Got EXCEPT ![r] = Got[r] - 1] = [q \in Refs |-> IF q = r THEN Got[r] - 1 ELSE Got[q]]
    BY DEF Got
  <2> QED
    BY <2>2, <2>3, <2>4
<1>6. Conn' = Conn /\ Sent' = Sent /\ Cardinality(free') \in Nat
  BY <1>1, MSGetEvStep, SameConn, SameCounts, SmallSets
<1>7. \E n \in {Got[r] - 1, 0} : Got[r] > 0 /\ Got' = [Got EXCEPT ![r] = n]
  BY <1>4, <1>5
<1>8. Leaving' = Leaving
  BY SameLeaving DEF MSGetEv, lists, locals
<1> QED
  BY <1>1, <1>6, <1>7, <1>8 DEF Bay!Take, Conn, Sent, SentBy, Got, Leaving

\* MSFlushEvs: a client that leaves takes what it has received, if anything.
LEMMA BayFlush ==
  ASSUME Quiet, IInv, IInv', Paired, Paired', NEW r \in Refs, Flush(r)
  PROVE  Bay!Take(r) \/ Bay!Work
<1>1. /\ TypeOK /\ UNCHANGED <<open, sender>> /\ free' \subseteq Cells
      /\ rcv' = [rcv EXCEPT ![r] = {}]
  BY DEF Flush, IInv, TypeOK
<1>2. rcv'[r] = {} /\ \A q \in Refs \ {r} : rcv'[q] = rcv[q]
  BY <1>1, Types
<1>3. SameConnections /\ Leaving' = Leaving
  <2>1. Where = "flush" /\ Where' = "free_appl"
    BY <1>1, OneLevel, Going DEF Flush
  <2> QED
    BY <2>1, FlushStep, SameLeaving
<1>4. CASE rcv[r] = {}
  <2>1. rcv' = rcv
    BY <1>1, <1>4, Types
  <2> QED
    BY <1>1, <1>3, <2>1, Works
<1>5. CASE rcv[r] # {}
  <2>1. IsFiniteSet(rcv[r]) /\ Cardinality(rcv[r]) \in Nat
    <3>1. rcv[r] \in SUBSET Cells
      BY <1>1, Types
    <3> QED
      BY <3>1, SmallSets
  <2>2. Cardinality(rcv[r]) # 0 /\ Cardinality({}) = 0
    BY <1>5, <2>1, FS_EmptySet
  <2>3. Got[r] > 0
    BY <2>1, <2>2 DEF Got
  <2>4. Got' = [Got EXCEPT ![r] = 0]
    <3>1. Got' = [q \in Refs |-> Cardinality(rcv'[q])]
      BY DEF Got
    <3>2. \A q \in Refs : Cardinality(rcv'[q]) = IF q = r THEN 0 ELSE Got[q]
      BY <1>2, <2>2 DEF Got
    <3>3. [Got EXCEPT ![r] = 0] = [q \in Refs |-> IF q = r THEN 0 ELSE Got[q]]
      BY DEF Got
    <3> QED
      BY <3>1, <3>2, <3>3
  <2>5. Conn' = Conn /\ Sent' = Sent /\ Cardinality(free') \in Nat
    BY <1>1, <1>3, SameConn, SameCounts, SmallSets
  <2>6. \E n \in {Got[r] - 1, 0} : Got[r] > 0 /\ Got' = [Got EXCEPT ![r] = n]
    BY <2>3, <2>4
  <2> QED
    BY <1>1, <1>3, <2>5, <2>6 DEF Bay!Take, Conn, Sent, SentBy, Got, Leaving
<1> QED
  BY <1>4, <1>5

LEMMA BayConnect ==
  ASSUME Quiet, IInv, IInv', Paired, Paired', PutDst(Client)
  PROVE  Bay!Connect
<1>1. /\ TypeOK /\ Where = "put_dst" /\ UNCHANGED <<open, sender, rcv>> /\ free' \subseteq Cells
  BY OneLevel DEF PutDst, events, IInv, TypeOK
<1>2. /\ Src \in open /\ Dst \in open /\ Src \in Refs
      /\ itsSrc[Cnx] = Src /\ itsDst[Cnx] = Dst
      /\ \A c \in Out(Src) : itsDst[c] # Dst
  <2>1. {Src, Dst} \subseteq open /\ \A c \in Out(Src) : itsDst[c] # Dst
    BY <1>1 DEF IInv, Calls, Wiring, SettingUp
  <2>2. itsSrc[Cnx] = Src /\ itsDst[Cnx] = Dst
    BY <1>1 DEF IInv, Calls, SettingUp
  <2> QED
    BY <1>1, <2>1, <2>2, Types
<1>3. PairOf(Cnx) \in open \X open /\ PairOf(Cnx) \notin Conn
  <2>1. ASSUME NEW c \in AllOut, PairOf(c) = PairOf(Cnx) PROVE FALSE
    <3>1. c \in Out(Src) /\ itsDst[c] = Dst
      BY <1>1, <1>2, <2>1, ListFacts DEF IInv, PairOf
    <3> QED
      BY <1>2, <3>1
  <2> QED
    BY <1>2, <2>1 DEF Paired, PairOf
<1>4. Conn' = Conn \cup {PairOf(Cnx)}
  BY PutDstStep, GainedConn
<1>5. Sent' = Sent /\ Got' = Got /\ Cardinality(free') \in Nat
  BY <1>1, SameCounts, SmallSets
<1>6. \E p \in open \X open : p \notin Conn /\ Conn' = Conn \cup {p}
  BY <1>3, <1>4
<1>7. Leaving' = Leaving
  <2>1. Where' = "idle"
    BY <1>1, Returning DEF PutDst
  <2> QED
    BY <1>1, <2>1, SameLeaving
<1> QED
  BY <1>1, <1>5, <1>6, <1>7 DEF Bay!Connect, Conn, Sent, SentBy, Got, Leaving

LEMMA BayDisconnect ==
  ASSUME Quiet, IInv, IInv', Paired, Paired', NEW x, Lost(x), UNCHANGED <<open, sender, rcv>>,
         Leaving' \in {Leaving, Leaving \cup {itsSrc[x]}}
  PROVE  Bay!Disconnect
<1>1. free' \subseteq Cells
  BY DEF IInv, TypeOK
<1>2. Sent' = Sent /\ Got' = Got /\ Cardinality(free') \in Nat
  BY <1>1, SameCounts, SmallSets
<1>3. \E p \in Conn : Conn' = Conn \ {p} /\ Leaving' \in {Leaving, Leaving \cup {p[1]}}
  <2>1. PairOf(x)[1] = itsSrc[x]
    BY DEF PairOf
  <2> QED
    BY <2>1, LostConn
<1> QED
  BY <1>2, <1>3 DEF Bay!Disconnect, Conn, Sent, SentBy, Got, Leaving

\* RemAllDstCon: the client goes to the next connection, whose predecessor has been
\* freed.
LEMMA BayFreed ==
  ASSUME Quiet, IInv, IInv', Paired, Paired', CloseFree
  PROVE  Bay!Work \/ Bay!Disconnect
<1>1. /\ Where \in Freeing /\ TypeOK /\ UNCHANGED <<open, sender, rcv, app, dstList>>
      /\ cell' = [cell EXCEPT ![Client] = next[Client]]
  BY OneLevel DEF CloseFree, IInv, events, Push
<1>2. Src' = Src /\ Cnx' = next[Client]
  BY <1>1, OneLevel, Types DEF Src, Cnx
<1>3. CASE Where = "free_src"
  <2>1. Where' = "close_src"
    BY <1>1, <1>3, OneLevel, Going DEF CloseFree, Freeing
  <2> QED
    BY <1>1, <1>3, <2>1, CloseFreeSrc, SameLeaving, Works
<1>4. CASE Where = "free_dst"
  <2>1. Where' = "close_dst"
    BY <1>1, <1>4, OneLevel, Going DEF CloseFree, Freeing
  <2>2. /\ Src \in open /\ nextDst[Cnx] = next[Client] /\ Cnx \in Out(Src)
        /\ Cnx = dstList[Src] \/ dstList[Src] \notin Out(Src) \cup {NULL}
    BY <1>4 DEF IInv, Calls, ClosingSteps, Freeing
  <2>3. Src \in Refs /\ itsSrc[Cnx] = Src /\ Cnx \in Cells /\ Cnx # NULL
    <3>1. Src \in Refs /\ Cnx \in Cells /\ NULL \notin Cells
      BY <1>1, <1>4, <2>2, Types DEF Freeing
    <3> QED
      BY <2>2, <3>1 DEF IInv, Wired
  <2>4. next[Client] \in (Out(Src) \ {Cnx}) \cup {NULL}
    <3>1. IsList(nextDst, Cnx) /\ On(nextDst, Cnx) = Out(Src)
      BY <1>4, <2>3 DEF IInv, Wired, Out, DstFrom
    <3>2. nextDst \in [Cells -> Points]
      BY <1>1, Types
    <3>3. /\ IsList(nextDst, next[Client])
          /\ On(nextDst, next[Client]) = Out(Src) \ {Cnx}
      BY <2>2, <2>3, <3>1, <3>2, ShorterList
    <3> QED
      BY <3>2, <3>3, OnCells
  <2>5. Leaving' = {Src}
    <3>1. next[Client] # dstList[Src]
      BY <2>2, <2>3, <2>4
    <3>2. Cnx' # dstList'[Src'] /\ Src' \in open'
      BY <1>1, <1>2, <2>2, <3>1
    <3> QED
      BY <1>2, <2>1, <3>2 DEF Leaving, Emptying, Closing, ClosingSteps, Freeing, Src, Where, Cnx
  <2>6. Leaving \subseteq {Src}
    BY EmptyingIs DEF Leaving
  <2> QED
    BY <1>1, <1>4, <2>3, <2>5, <2>6, CloseFreeDst, BayDisconnect
<1> QED
  BY <1>1, <1>3, <1>4 DEF Freeing

\* RemAllDstCon: a step of its loop, or the end of it.
LEMMA BayLeft ==
  ASSUME Quiet, IInv, IInv', Paired, Paired', NEW r \in Refs, CloseDst(r)
  PROVE  Bay!Work \/ Bay!Left(r)
<1>1. /\ Where = "close_dst" /\ Src = r /\ TypeOK /\ UNCHANGED <<open, sender, rcv, app>>
      /\ free' \subseteq Cells
  BY OneLevel DEF CloseDst, IInv, TypeOK, events, Src
<1>2. SameConnections
  BY CloseDstStep
<1>3. CASE Cnx # NULL
  <2>1. UNCHANGED <<cell, dstList>> /\ Goto(Client, "free_dst")
    BY <1>3 DEF CloseDst, Cnx, Rem1SrcCon
  <2>2. Where' = "free_dst"
    BY <1>1, <2>1, Going
  <2>3. Leaving' = Leaving
    BY <1>1, <2>1, <2>2 DEF Leaving, Emptying, Closing, ClosingSteps, Freeing, Where, Src
  <2> QED
    BY <1>1, <1>2, <2>3, Works
<1>4. CASE Cnx = NULL
  <2>1. Where' = "flush"
    BY <1>1, <1>4, Going DEF CloseDst, Cnx
  <2>2. Leaving' = {}
    BY <2>1 DEF Leaving, Emptying, Closing, Where
  <2>3. Leaving \subseteq {r}
    BY <1>1, EmptyingIs DEF Leaving
  <2>4. CASE Leaving = {}
    BY <1>1, <1>2, <2>2, <2>4, Works
  <2>5. CASE Leaving # {}
    <3>1. Leaving = {r}
      BY <2>3, <2>5
    <3>2. DstFrom(r) = NULL
      BY <1>1, <1>4 DEF DstFrom
    <3>3. Out(r) = {}
      BY <3>2, ListFacts DEF IInv
    <3>4. \A d \in Refs : <<r, d>> \notin Conn
      <4>1. ASSUME NEW c \in AllOut PROVE itsSrc[c] # r
        BY <1>1, <3>3, ListFacts DEF IInv
      <4> QED
        BY <4>1 DEF Paired, PairOf
    <3>5. Conn' = Conn /\ Sent' = Sent /\ Got' = Got /\ Cardinality(free') \in Nat
      BY <1>1, <1>2, SameConn, SameCounts, SmallSets
    <3> QED
      BY <1>1, <2>2, <3>1, <3>4, <3>5 DEF Bay!Left, Conn, Sent, SentBy, Got, Leaving
  <2> QED
    BY <2>4, <2>5
<1> QED
  BY <1>3, <1>4

\* FreeAppl: the client is connected to nobody and has nothing left.
LEMMA BayClose ==
  ASSUME Quiet, IInv, IInv', Paired, Paired', NEW r \in Refs, Free(r)
  PROVE  Bay!Close(r)
<1>1. TypeOK /\ Where = "free_appl" /\ Src = r /\ free' \subseteq Cells
  BY OneLevel DEF Free, Src, IInv, TypeOK
<1>2. /\ r \in open \ {0} /\ rcv[r] = {} /\ In(r) = {} /\ Out(r) = {}
      /\ AllIn = AllOut
  BY <1>1 DEF IInv, Calls, Twins, ClosingSteps, MidiShare
<1>3. \A s \in Refs : <<s, r>> \notin Conn /\ <<r, s>> \notin Conn
  <2>1. ASSUME NEW c \in AllOut PROVE itsSrc[c] # r /\ itsDst[c] # r
    BY <1>1, <1>2, ListFacts DEF IInv
  <2> QED
    BY <2>1 DEF Paired, PairOf
<1>4. Got[r] = 0
  BY <1>2, FS_EmptySet DEF Got
<1>5. Cardinality(free') \in Nat
  BY <1>1, SmallSets
<1>6. Leaving = {} /\ Leaving' = {}
  <2>1. Where' = "idle"
    BY <1>1, Returning DEF Free
  <2> QED
    BY <1>1, <2>1, NobodyLeaves, SameLeaving
<1>7. CASE open # {0, r}
  <2>1. open' = open \ {r} /\ UNCHANGED <<sender, rcv>>
    BY <1>7 DEF Free, events, MidiShare
  <2>2. SameConnections
    BY <1>7, FreeStep DEF MidiShare
  <2>3. Conn' = Conn /\ Sent' = Sent /\ Got' = Got
    BY <2>1, <2>2, SameConn, SameCounts
  <2> QED
    BY <1>2, <1>3, <1>4, <1>5, <1>7, <1>6, <2>1, <2>3
       DEF Bay!Close, Conn, Sent, SentBy, Got, Leaving
<1>8. CASE open = {0, r}
  <2>1. open' = {} /\ sender' = Blank /\ rcv' = [s \in Refs |-> {}]
    BY <1>8 DEF Free, MidiShare
  <2>2. Conn' = {}
    BY <1>8, FreeStep DEF MidiShare, Paired
  <2>3. Sent' = Bay!None /\ Got' = Bay!None
    <3>1. \A q \in Refs : SentBy(q)' = {}
      <4>1. \A q \in Refs : q # NULL
        BY <1>1, Types
      <4> QED
        BY <2>1, <4>1 DEF SentBy, Blank
    <3>2. Sent' = [q \in Refs |-> Cardinality(SentBy(q)')] /\ Got' = [q \in Refs |-> Cardinality(rcv'[q])]
      BY DEF Sent, Got
    <3>3. Bay!None = [q \in Refs |-> 0]
      BY DEF Bay!None
    <3>4. Cardinality({}) = 0
      BY FS_EmptySet
    <3>5. Sent' = [q \in Refs |-> 0]
      BY <3>1, <3>2, <3>4
    <3>6. \A q \in Refs : Cardinality(rcv'[q]) = 0
      BY <2>1, <3>4
    <3>7. Got' = [q \in Refs |-> 0]
      BY <3>2, <3>6
    <3> QED
      BY <3>3, <3>5, <3>7
  <2> QED
    BY <1>2, <1>3, <1>4, <1>5, <1>8, <1>6, <2>1, <2>2, <2>3
       DEF Bay!Close, Conn, Sent, SentBy, Got, Leaving
<1> QED
  BY <1>7, <1>8

(***************************************************************************)
(* Who gets a copy: the first of those that keep the event, as many as     *)
(* there are cells.                                                        *)
(***************************************************************************)
Rank(K, i) == Cardinality({j \in K : j <= i})

LEMMA Ranks ==
  ASSUME NEW K, IsFiniteSet(K), K \subseteq Nat
  PROVE  [i \in K |-> Rank(K, i)] \in Bijection(K, 1..Cardinality(K))
<1> DEFINE n == Cardinality(K)
           rank == [i \in K |-> Rank(K, i)]
           Upto(i) == {j \in K : j <= i}
<1>1. n \in Nat
  BY FS_CardinalityType
<1>2. \A i \in K : IsFiniteSet(Upto(i)) /\ Cardinality(Upto(i)) \in Nat /\ Cardinality(Upto(i)) <= n
  <2>1. ASSUME NEW i \in K PROVE Upto(i) \in SUBSET K
    OBVIOUS
  <2>2. ASSUME NEW i \in K
        PROVE  IsFiniteSet(Upto(i)) /\ Cardinality(Upto(i)) <= n
    BY <2>1, FS_Subset
  <2> QED
    BY <2>2, FS_CardinalityType
<1>3. \A i \in K : Cardinality(Upto(i)) # 0
  <2>1. ASSUME NEW i \in K PROVE i \in Upto(i)
    OBVIOUS
  <2> QED
    BY <1>2, <2>1, FS_EmptySet
<1>4. \A i \in K : rank[i] = Cardinality(Upto(i))
  BY DEF Rank
<1>5. rank \in [K -> 1..n]
  <2>1. \A i \in K : Cardinality(Upto(i)) \in 1..n
    BY <1>1, <1>2, <1>3
  <2> QED
    BY <2>1 DEF Rank
<1>6. ASSUME NEW i \in K, NEW j \in K, i < j PROVE Cardinality(Upto(i)) # Cardinality(Upto(j))
  <2>1. i \in Nat /\ j \in Nat
    OBVIOUS
  <2>2. ASSUME NEW k \in Upto(i) PROVE k \in Upto(j)
    <3>1. k \in K /\ k \in Nat /\ k <= i
      OBVIOUS
    <3> QED
      BY <1>6, <2>1, <3>1
  <2>3. j \in Upto(j) /\ j \notin Upto(i)
    BY <1>6, <2>1
  <2>4. Upto(i) \in SUBSET Upto(j)
    BY <2>2
  <2> QED
    BY <1>2, <2>3, <2>4, FS_Subset
<1>7. \A i, j \in K : rank[i] = rank[j] => i = j
  <2>1. \A i, j \in K : i # j => i < j \/ j < i
    OBVIOUS
  <2>2. ASSUME NEW i \in K, NEW j \in K, i # j PROVE rank[i] # rank[j]
    BY <1>4, <1>6, <2>1, <2>2
  <2> QED
    BY <2>2
<1>8. rank \in Injection(K, 1..n)
  <2> HIDE DEF rank
  <2> QED
    BY <1>5, <1>7 DEF Injection, IsInjective
<1>9. IsFiniteSet(1..n) /\ Cardinality(1..n) = n
  <2>1. /\ IsFiniteSet(1..n)
        /\ Cardinality(1..n) = IF 1 > n THEN 0 ELSE n - 1 + 1
    BY <1>1, FS_Interval
  <2> QED
    BY <1>1, <2>1
<1>10. rank \in Surjection(K, 1..n)
  <2> HIDE DEF rank
  <2> QED
    BY <1>8, <1>9, FS_Injection
<1> QED
  BY <1>8, <1>10 DEF Bijection

LEMMA FirstOf ==
  ASSUME NEW K, IsFiniteSet(K), K \subseteq Nat, NEW F \in Nat
  PROVE  LET S == {i \in K : Rank(K, i) <= F}
             m == IF F <= Cardinality(K) THEN F ELSE Cardinality(K)
         IN  IsFiniteSet(S) /\ Cardinality(S) = m
<1> DEFINE n == Cardinality(K)
           rank == [i \in K |-> Rank(K, i)]
           S == {i \in K : Rank(K, i) <= F}
           m == IF F <= n THEN F ELSE n
           f == [i \in S |-> Rank(K, i)]
<1>1. n \in Nat
  BY FS_CardinalityType
<1>2. /\ \A i \in K : Rank(K, i) \in 1..n
      /\ \A i, j \in K : Rank(K, i) = Rank(K, j) => i = j
      /\ \A k \in 1..n : \E i \in K : Rank(K, i) = k
  <2>1. rank \in Bijection(K, 1..n)
    BY Ranks
  <2>2. \A i \in K : rank[i] = Rank(K, i)
    OBVIOUS
  <2> HIDE DEF rank
  <2> QED
    BY <2>1, <2>2 DEF Bijection, Injection, IsInjective, Surjection
<1>3. \A i \in S : Rank(K, i) \in 1..m
  BY <1>1, <1>2
<1>4. f \in [S -> 1..m]
  BY <1>3
<1>5. \A i \in S : f[i] = Rank(K, i) /\ i \in K
  OBVIOUS
<1>6. \A k \in 1..m : \E i \in S : f[i] = k
  <2>1. ASSUME NEW k \in 1..m PROVE \E i \in S : Rank(K, i) = k
    BY <1>1, <1>2
  <2> QED
    BY <1>5, <2>1
<1>7. f \in Injection(S, 1..m) /\ f \in Surjection(S, 1..m)
  <2> HIDE DEF f, S, m
  <2>1. \A i, j \in S : f[i] = f[j] => i = j
    BY <1>2, <1>5
  <2> QED
    BY <1>4, <1>6, <2>1 DEF Injection, IsInjective, Surjection
<1>8. m \in Nat
  BY <1>1
<1>9. IsFiniteSet(1..m) /\ Cardinality(1..m) = m
  <2>1. /\ IsFiniteSet(1..m)
        /\ Cardinality(1..m) = IF 1 > m THEN 0 ELSE m - 1 + 1
    <3> HIDE DEF m
    <3> QED
      BY <1>8, FS_Interval
  <2> HIDE DEF m
  <2> QED
    BY <1>8, <2>1
<1>10. IsFiniteSet(S) /\ Cardinality(S) = Cardinality(1..m)
  <2> HIDE DEF f, S, m
  <2> QED
    BY <1>7, <1>9, FS_Injection
<1> QED
  BY <1>9, <1>10

LEMMA ImageSize ==
  ASSUME NEW S, IsFiniteSet(S), NEW f, \A i, j \in S : f[i] = f[j] => i = j
  PROVE  Cardinality({f[i] : i \in S}) = Cardinality(S)
<1> DEFINE T == {f[i] : i \in S}
           g == [i \in S |-> f[i]]
<1>1. g \in [S -> T] /\ \A i \in S : g[i] = f[i]
  OBVIOUS
<1>2. \A t \in T : \E i \in S : g[i] = t
  OBVIOUS
<1>3. g \in Injection(S, T) /\ g \in Surjection(S, T)
  <2> HIDE DEF g, T
  <2>1. \A i, j \in S : g[i] = g[j] => i = j
    BY <1>1
  <2> QED
    BY <1>1, <1>2, <2>1 DEF Injection, IsInjective, Surjection
<1> HIDE DEF g, T
<1>4. Cardinality(T) = Cardinality(S)
  BY <1>3, FS_Surjection
<1> QED
  BY <1>4 DEF T

\* The places on the list of s of those that keep what s sends, and who they are.
Keep(s) == IF s \in open THEN Kept(s) ELSE {}
To(s) == [i \in 1..Len(Destinations(s)) |-> itsDst[Destinations(s)[i]]]
HeardOf(s) == {d \in Refs \ {0} : <<s, d>> \in Conn}

LEMMA Keepers ==
  ASSUME Quiet, IInv, Paired, NEW s \in Refs, ~ Emptying(s)
  PROVE  /\ IsFiniteSet(Keep(s)) /\ Keep(s) \subseteq Nat
         /\ \A i \in Keep(s) : To(s)[i] = itsDst[Destinations(s)[i]] /\ To(s)[i] \in Refs
         /\ \A i, j \in Keep(s) : To(s)[i] = To(s)[j] => i = j
         /\ HeardOf(s) = {To(s)[i] : i \in Keep(s)}
<1> DEFINE D == Destinations(s)
<1>1. TypeOK /\ Wired /\ Pairs /\ open \subseteq Refs /\ nextDst \in [Cells -> Points]
  BY Types DEF IInv
<1>2. DstFrom(s) = dstList[s]
  BY Followed
<1>3. /\ Out(s) = {D[i] : i \in 1..Len(D)} /\ NoDouble(D)
      /\ D \in Seq(Cells) /\ Len(D) \in Nat
  <2>1. IsList(nextDst, dstList[s]) /\ D = Chain(nextDst, dstList[s])
    BY <1>1, <1>2 DEF Wired, Destinations
  <2>2. IsPath(nextDst, dstList[s], D)
    BY <1>1, <2>1, ListChain
  <2>3. D \in Seq(Cells) /\ NoDouble(D)
    BY <2>2 DEF IsPath
  <2> HIDE DEF D
  <2>4. Out(s) = {D[i] : i \in 1..Len(D)}
    BY <1>2, <2>1 DEF Out, On, Members
  <2> QED
    BY <2>3, <2>4, LenProperties
<1>4. Keep(s) = {i \in 1..Len(D) : s \in open /\ itsDst[D[i]] # 0}
  BY DEF Keep, Kept, MidiShare
<1>5. \A i \in 1..Len(D) : To(s)[i] = itsDst[D[i]]
  BY DEF To
<1> HIDE DEF D
<1>6. ASSUME NEW i \in 1..Len(D)
      PROVE  /\ D[i] \in AllOut /\ itsSrc[D[i]] = s /\ s \in open
             /\ itsDst[D[i]] \in open /\ itsDst[D[i]] \in Refs
  <2>1. D[i] \in Out(s)
    BY <1>3
  <2>2. itsSrc[D[i]] = s /\ s \in open /\ itsDst[D[i]] \in open
    BY <1>1, <2>1 DEF Wired
  <2>3. D[i] \in AllOut
    BY <1>1, <2>1, ListFacts DEF AllOut
  <2> QED
    BY <1>1, <2>2, <2>3
<1>7. IsFiniteSet(Keep(s)) /\ Keep(s) \subseteq Nat
  <2>1. Keep(s) \in SUBSET (1..Len(D))
    BY <1>4
  <2>2. IsFiniteSet(1..Len(D))
    BY <1>3, FS_Interval
  <2> QED
    BY <1>3, <2>1, <2>2, FS_Subset
<1>8. \A i \in Keep(s) : To(s)[i] = itsDst[D[i]] /\ To(s)[i] \in Refs
  BY <1>4, <1>5, <1>6
<1>9. ASSUME NEW i \in Keep(s), NEW j \in Keep(s), To(s)[i] = To(s)[j] PROVE i = j
  <2>1. i \in 1..Len(D) /\ j \in 1..Len(D) /\ itsDst[D[i]] = itsDst[D[j]]
    BY <1>4, <1>8, <1>9
  <2>2. D[i] = D[j]
    BY <1>1, <1>6, <2>1 DEF Pairs
  <2> QED
    BY <1>3, <2>1, <2>2 DEF NoDouble
<1>10. ASSUME NEW d \in HeardOf(s) PROVE d \in {To(s)[i] : i \in Keep(s)}
  <2>1. d # 0 /\ <<s, d>> \in Conn
    BY <1>10 DEF HeardOf
  <2>2. PICK c \in AllOut : <<s, d>> = PairOf(c)
    BY <2>1 DEF Paired
  <2>3. itsSrc[c] = s /\ itsDst[c] = d
    BY <2>2 DEF PairOf
  <2>4. c \in Out(s)
    BY <1>1, <2>3, ListFacts
  <2>5. PICK i \in 1..Len(D) : c = D[i]
    BY <1>3, <2>4
  <2> QED
    BY <1>4, <1>5, <1>6, <2>1, <2>3, <2>5
<1>11. ASSUME NEW i \in Keep(s) PROVE To(s)[i] \in HeardOf(s)
  <2>1. i \in 1..Len(D) /\ itsDst[D[i]] # 0
    BY <1>4
  <2>2. PairOf(D[i]) \in Conn /\ PairOf(D[i]) = <<s, itsDst[D[i]]>>
    BY <1>6, <2>1 DEF Paired, PairOf
  <2> QED
    BY <1>6, <1>8, <2>1, <2>2 DEF HeardOf
<1>12. HeardOf(s) = {To(s)[i] : i \in Keep(s)}
  BY <1>10, <1>11
<1> QED
  BY <1>7, <1>8, <1>9, <1>12 DEF D

LEMMA LeastOfTwo ==
  ASSUME NEW m \in Nat, NEW n \in Nat
  PROVE  Bay!Least({m, n}) = IF m <= n THEN m ELSE n
BY DEF Bay!Least

LEMMA BayCardinality == \A S : Bay!Cardinality(S) = Cardinality(S)
BY DEF Bay!Cardinality, Cardinality, Bay!IsFiniteSet, IsFiniteSet

LEMMA ServedIs == \A s : Served(s) = {i \in Keep(s) : Rank(Keep(s), i) <= Cardinality(free)}
BY DEF Served, Keep, Rank

\* One event less of its sender.
LEMMA SentLess ==
  ASSUME Quiet, TypeOK, NEW e \in Cells, NEW s \in Refs, sender[e] = s,
         sender' = [sender EXCEPT ![e] = NULL]
  PROVE  Sent[s] > 0 /\ Sent' = [Sent EXCEPT ![s] = Sent[s] - 1]
<1>1. SentBy(s) \in SUBSET Cells
  BY DEF SentBy
<1>2. IsFiniteSet(SentBy(s)) /\ Cardinality(SentBy(s)) \in Nat
  BY <1>1, SmallSets
<1>3. e \in SentBy(s) /\ SentBy(s)' = SentBy(s) \ {e} /\ \A r \in Refs \ {s} : SentBy(r)' = SentBy(r)
  <2>1. sender'[e] = NULL /\ \A c \in Cells \ {e} : sender'[c] = sender[c]
    BY Types
  <2>2. NULL \notin Refs
    BY Types
  <2>3. e \in SentBy(s) /\ \A r \in Refs : e \notin SentBy(r)'
    BY <2>1, <2>2 DEF SentBy
  <2>4. \A r \in Refs : \A c \in Cells \ {e} : c \in SentBy(r)' <=> c \in SentBy(r)
    BY <2>1 DEF SentBy
  <2>5. \A r \in Refs \ {s} : e \notin SentBy(r)
    BY DEF SentBy
  <2>6. \A r \in Refs : SentBy(r)' \subseteq Cells /\ SentBy(r) \subseteq Cells
    BY DEF SentBy
  <2>7. SentBy(s)' = SentBy(s) \ {e}
    BY <2>3, <2>4, <2>6
  <2>8. ASSUME NEW r \in Refs, r # s PROVE SentBy(r)' = SentBy(r)
    <3>1. e \notin SentBy(r)' /\ e \notin SentBy(r)
      BY <2>3, <2>5, <2>8
    <3>2. \A c \in Cells : c \in SentBy(r)' <=> c \in SentBy(r)
      BY <2>4, <3>1
    <3> QED
      BY <2>6, <3>2
  <2> QED
    BY <2>3, <2>7, <2>8
<1>4. Cardinality(SentBy(s)) # 0 /\ Cardinality(SentBy(s) \ {e}) = Cardinality(SentBy(s)) - 1
  BY <1>2, <1>3, FS_EmptySet, FS_RemoveElement
<1>5. Sent[s] = Cardinality(SentBy(s))
  BY DEF Sent
<1>6. Sent' = [r \in Refs |-> Cardinality(SentBy(r)')]
  BY DEF Sent
<1>7. \A r \in Refs : Cardinality(SentBy(r)') = IF r = s THEN Sent[s] - 1 ELSE Sent[r]
  <2>1. \A r \in Refs : Sent[r] = Cardinality(SentBy(r))
    BY DEF Sent
  <2> QED
    BY <1>3, <1>4, <1>5, <2>1
<1>8. [Sent EXCEPT ![s] = Sent[s] - 1] = [r \in Refs |-> IF r = s THEN Sent[s] - 1 ELSE Sent[r]]
  BY DEF Sent
<1> QED
  BY <1>2, <1>4, <1>5, <1>6, <1>7, <1>8

LEMMA BayDeliver ==
  ASSUME Quiet, IInv, IInv', Paired, Paired', NEW e \in Cells, Dispatch(e)
  PROVE  \E s \in Refs : Bay!Deliver(s)
<1>0. PICK s \in Refs : s = sender[e]
  <2>1. TypeOK /\ sender[e] # NULL
    BY DEF IInv, Dispatch
  <2> QED
    BY <2>1, Types
<1> DEFINE Here(r) == {i \in Served(s) : itsDst[Destinations(s)[i]] = r}
           Reached == {To(s)[i] : i \in Served(s)}
<1> DEFINE to == [i \in Served(s) |-> itsDst[Destinations(s)[i]]]
<1>1. /\ TypeOK /\ free' \subseteq Cells /\ Cardinality(free) \in Nat
      /\ ~ Emptying(s) /\ Deliver(e, to)
  <2>1. TypeOK
    BY DEF IInv
  <2>2. ~ Emptying(s) /\ Deliver(e, to)
    BY <1>0 DEF Dispatch
  <2> QED
    BY <2>1, <2>2, Types, SmallSets DEF IInv, TypeOK
<1>2. PICK copy \in [Served(s) -> free] :
        /\ \A i, j \in Served(s) : copy[i] = copy[j] => i = j
        /\ rcv' = [r \in Refs |-> rcv[r] \cup {copy[i] : i \in Here(r)}]
  <2>1. DOMAIN to = Served(s) /\ \A i \in Served(s) : to[i] = itsDst[Destinations(s)[i]]
    OBVIOUS
  <2>2. \A r : {j \in DOMAIN to : to[j] = r} = Here(r)
    BY <2>1
  <2> HIDE DEF to, Here
  <2> QED
    BY <1>1, <2>1, <2>2 DEF Deliver
<1>3. UNCHANGED <<open, pc, app, cell, dstList>> /\ sender' = [sender EXCEPT ![e] = NULL]
  BY <1>1 DEF Deliver, lists, locals
<1> HIDE DEF to
<1>4. Conn' = Conn
  BY DispatchStep, SameConn
<1>5. /\ IsFiniteSet(Keep(s)) /\ Keep(s) \subseteq Nat
      /\ \A i \in Keep(s) : To(s)[i] = itsDst[Destinations(s)[i]] /\ To(s)[i] \in Refs
      /\ \A i, j \in Keep(s) : To(s)[i] = To(s)[j] => i = j
      /\ HeardOf(s) = {To(s)[i] : i \in Keep(s)}
  BY <1>1, Keepers
<1>6. Sent[s] > 0 /\ Sent' = [Sent EXCEPT ![s] = Sent[s] - 1]
  BY <1>0, <1>1, <1>3, SentLess
<1>7. Reached \subseteq HeardOf(s) /\ Served(s) \subseteq Keep(s)
  BY <1>5, ServedIs
<1>8. Cardinality(Reached) = Bay!Least({Cardinality(free), Cardinality(HeardOf(s))})
  <2>1. /\ IsFiniteSet(Served(s))
        /\ Cardinality(Served(s)) = IF Cardinality(free) <= Cardinality(Keep(s))
                                 THEN Cardinality(free) ELSE Cardinality(Keep(s))
    BY <1>1, <1>5, FirstOf, ServedIs
  <2>2. Cardinality(HeardOf(s)) = Cardinality(Keep(s))
    <3>1. Cardinality({To(s)[i] : i \in Keep(s)}) = Cardinality(Keep(s))
      BY <1>5, ImageSize
    <3> QED
      BY <1>5, <3>1
  <2>3. \A i, j \in Served(s) : To(s)[i] = To(s)[j] => i = j
    BY <1>5, <1>7
  <2>4. Cardinality(Reached) = Cardinality(Served(s))
    <3> QED
      BY <2>1, <2>3, ImageSize
  <2>5. Cardinality(Keep(s)) \in Nat
    BY <1>5, FS_CardinalityType
  <2> HIDE DEF Reached
  <2> QED
    BY <1>1, <2>1, <2>2, <2>4, <2>5, LeastOfTwo
<1>9. Got' = [r \in Refs |-> IF r \in Reached THEN Got[r] + 1 ELSE Got[r]]
  <2>1. Got' = [r \in Refs |-> Cardinality(rcv'[r])]
    BY DEF Got
  <2>2. ASSUME NEW r \in Refs
        PROVE  Cardinality(rcv'[r]) = IF r \in Reached THEN Got[r] + 1 ELSE Got[r]
    <3>1. rcv'[r] = rcv[r] \cup {copy[i] : i \in Here(r)} /\ Got[r] = Cardinality(rcv[r])
      BY <1>2 DEF Got
    <3>2. IsFiniteSet(rcv[r])
      <4>1. rcv[r] \in SUBSET Cells
        BY <1>1, Types
      <4> QED
        BY <4>1, SmallSets
    <3>3. ASSUME r \in Reached
          PROVE  Cardinality(rcv'[r]) = Got[r] + 1
      <4>1. PICK i \in Served(s) : To(s)[i] = r
        BY <3>3
      <4>2. Here(r) = {i}
        BY <1>5, <1>7, <4>1
      <4>3. rcv'[r] = rcv[r] \cup {copy[i]}
        BY <3>1, <4>2
      <4>4. copy[i] \in free
        BY <4>1, <1>2
      <4>5. copy[i] \notin rcv[r]
        BY <4>4 DEF IInv, Apart, Events
      <4> QED
        BY <3>1, <3>2, <4>3, <4>5, FS_AddElement
    <3>4. ASSUME r \notin Reached
          PROVE  Cardinality(rcv'[r]) = Got[r]
      <4>1. Here(r) = {}
        BY <1>5, <1>7, <3>4
      <4>2. rcv'[r] = rcv[r]
        BY <3>1, <4>1
      <4> QED
        BY <3>1, <4>2
    <3> QED
      BY <3>3, <3>4
  <2> HIDE DEF Reached
  <2> QED
    BY <2>1, <2>2
<1>10. Cardinality(free') \in Nat
  BY <1>1, SmallSets
<1>11. \E R \in SUBSET HeardOf(s) :
         /\ Cardinality(R) = Bay!Least({Cardinality(free), Cardinality(HeardOf(s))})
         /\ Got' = [r \in Refs |-> IF r \in R THEN Got[r] + 1 ELSE Got[r]]
  <2> HIDE DEF Reached
  <2> QED
    BY <1>7, <1>8, <1>9
<1> HIDE DEF Here, Reached
<1>12. Bay!Deliver(s)
  <2>1. Bay!Heard(s) = HeardOf(s)
    BY DEF Bay!Heard, HeardOf, Conn
  <2> HIDE DEF HeardOf
  <2>2. s \notin Leaving /\ Leaving' = Leaving
    BY <1>1, <1>3, SameLeaving DEF Leaving
  <2>3. \E D \in Bay!Hearers(s) :
          Got' = [r \in Refs |-> IF r \in D THEN Got[r] + 1 ELSE Got[r]]
    BY <1>11, <2>1, <2>2, BayCardinality DEF Bay!Hearers, Leaving
  <2> QED
    BY <1>3, <1>4, <1>6, <1>10, <2>2, <2>3 DEF Bay!Deliver, Conn, Sent, SentBy, Got, Leaving
<1> QED
  BY <1>1, <1>12

\* Of a client that is emptying its list, anybody.
LEMMA BayLost ==
  ASSUME Quiet, IInv, IInv', Paired, Paired', NEW e \in Cells, DispatchLost(e)
  PROVE  \E s \in Refs : Bay!Deliver(s)
<1>0. PICK s \in Refs : s = sender[e]
  <2>1. TypeOK /\ sender[e] # NULL
    BY DEF IInv, DispatchLost
  <2> QED
    BY <2>1, Types
<1>1. PICK D \in SUBSET (open \ {MidiShare}) : Deliver(e, [d \in D |-> d])
  BY DEF DispatchLost
<1> DEFINE to == [d \in D |-> d]
<1>2. /\ TypeOK /\ free' \subseteq Cells /\ s \in open /\ s \in Leaving
      /\ D \subseteq Refs \ {0} /\ free \in SUBSET Cells
  <2>1. TypeOK /\ Emptying(s)
    BY <1>0 DEF IInv, DispatchLost
  <2>2. s \in open
    BY <2>1, EmptyingIs DEF IInv, Calls, ClosingSteps, Freeing
  <2> QED
    BY <2>1, <2>2, Types DEF Leaving, MidiShare, IInv, TypeOK
<1>3. PICK copy \in [D -> free] :
        /\ \A i, j \in D : copy[i] = copy[j] => i = j
        /\ rcv' = [r \in Refs |-> rcv[r] \cup {copy[i] : i \in {j \in D : j = r}}]
  <2>1. DOMAIN to = D /\ \A i \in D : to[i] = i
    OBVIOUS
  <2>2. Deliver(e, to)
    BY <1>1
  <2>3. \A r : {j \in DOMAIN to : to[j] = r} = {j \in D : j = r}
    BY <2>1
  <2> HIDE DEF to
  <2> QED
    BY <2>1, <2>2, <2>3 DEF Deliver
<1>4. UNCHANGED <<open, pc, app, cell, dstList>> /\ sender' = [sender EXCEPT ![e] = NULL]
  BY <1>1 DEF Deliver, lists, locals
<1>5. Conn' = Conn /\ Leaving' = Leaving
  BY <1>4, DispatchLostStep, SameConn, SameLeaving
<1>6. Sent[s] > 0 /\ Sent' = [Sent EXCEPT ![s] = Sent[s] - 1]
  BY <1>0, <1>2, <1>4, SentLess
<1>7. Cardinality(D) <= Cardinality(free)
  <2>1. copy \in Injection(D, free)
    BY <1>3 DEF Injection, IsInjective
  <2>2. IsFiniteSet(free)
    BY <1>2, SmallSets
  <2> QED
    BY <2>1, <2>2, FS_Injection
<1>8. Got' = [r \in Refs |-> IF r \in D THEN Got[r] + 1 ELSE Got[r]]
  <2>1. Got' = [r \in Refs |-> Cardinality(rcv'[r])]
    BY DEF Got
  <2>2. ASSUME NEW r \in Refs
        PROVE  Cardinality(rcv'[r]) = IF r \in D THEN Got[r] + 1 ELSE Got[r]
    <3>1. /\ rcv'[r] = rcv[r] \cup {copy[i] : i \in {j \in D : j = r}}
          /\ Got[r] = Cardinality(rcv[r])
      BY <1>3 DEF Got
    <3>2. IsFiniteSet(rcv[r])
      <4>1. rcv[r] \in SUBSET Cells
        BY <1>2, Types
      <4> QED
        BY <4>1, SmallSets
    <3>3. ASSUME r \in D
          PROVE  Cardinality(rcv'[r]) = Got[r] + 1
      <4>1. rcv'[r] = rcv[r] \cup {copy[r]}
        BY <3>1, <3>3
      <4>2. copy[r] \in free
        BY <3>3
      <4>3. copy[r] \notin rcv[r]
        BY <4>2 DEF IInv, Apart, Events
      <4> DEFINE before == rcv[r]
                 new == copy[r]
      <4>4. IsFiniteSet(before) /\ new \notin before /\ Got[r] = Cardinality(before)
        BY <3>1, <3>2, <4>3
      <4>5. rcv'[r] = before \cup {new}
        BY <4>1
      <4> HIDE DEF before, new
      <4>6. Cardinality(before \cup {new}) = Cardinality(before) + 1
        BY <4>4, FS_AddElement
      <4> QED
        BY <4>4, <4>5, <4>6
    <3>4. ASSUME r \notin D
          PROVE  Cardinality(rcv'[r]) = Got[r]
      BY <3>1, <3>4
    <3> QED
      BY <3>3, <3>4
  <2> QED
    BY <2>1, <2>2
<1>9. Cardinality(free') \in Nat
  BY <1>2, SmallSets
<1>10. D \in Bay!Hearers(s)
  BY <1>2, <1>7, BayCardinality DEF Bay!Hearers, Leaving
<1> QED
  BY <1>2, <1>4, <1>5, <1>6, <1>8, <1>9, <1>10 DEF Bay!Deliver, Conn, Sent, SentBy, Got, Leaving

LEMMA BayStep ==
  ASSUME Quiet, IInv, IInv', Paired, Paired', Next
  PROVE  Bay!Next
<1>1. CASE MSOpen
  BY <1>1, BayOpen DEF Bay!Next
<1>2. CASE CloseFree
  BY <1>2, BayFreed DEF Bay!Next
<1>3. ASSUME NEW r \in Refs, MSSend(r) PROVE Bay!Next
  BY <1>3, BaySend DEF Bay!Next
<1>4. ASSUME NEW r \in Refs, MSGetEv(r) PROVE Bay!Next
  BY <1>4, BayTake DEF Bay!Next
<1>5. ASSUME NEW r \in Refs, MSClose(r) PROVE Bay!Next
  <2>1. UNCHANGED <<open, sender, rcv>>
    BY <1>5 DEF MSClose, events
  <2>2. Where = "idle" /\ Where' = "close_src"
    BY <1>5, OneLevel, Going DEF MSClose, IInv
  <2> QED
    BY <1>5, <2>1, <2>2, MSCloseStep, SameLeaving, Works DEF Bay!Next
<1>6. ASSUME NEW r \in Refs, CloseSrc(r) PROVE Bay!Next
  <2>1. UNCHANGED <<open, sender, rcv>>
    BY <1>6 DEF CloseSrc, events
  <2>2. Lost(Cnx) \/ SameConnections
    BY <1>6, CloseSrcStep
  <2>3. Leaving' = Leaving
    <3>1. /\ TypeOK /\ Where = "close_src" /\ Src = r
          /\ \/ Goto(Client, "free_src")
             \/ Goto(Client, "close_dst") /\ cell' = [cell EXCEPT ![Client] = dstList[r]]
                /\ UNCHANGED <<dstList, app>>
      BY <1>6, OneLevel DEF CloseSrc, IInv, Src
    <3>2. CASE Goto(Client, "free_src")
      <4>1. Where' = "free_src"
        BY <3>1, <3>2, Going
      <4> QED
        BY <3>1, <4>1, SameLeaving
    <3>3. CASE Goto(Client, "close_dst") /\ cell' = [cell EXCEPT ![Client] = dstList[r]]
               /\ UNCHANGED <<dstList, app>>
      <4>1. Cnx' = dstList'[Src'] /\ Src' = r
        BY <3>1, <3>3, OneLevel, Types DEF Cnx, Src
      <4>2. Leaving' = {}
        BY <4>1 DEF Leaving, Emptying, Closing, Cnx, Src
      <4> QED
        BY <3>1, <4>2, NobodyLeaves
    <3> QED
      BY <3>1, <3>2, <3>3
  <2>4. CASE Lost(Cnx)
    BY <2>1, <2>3, <2>4, BayDisconnect DEF Bay!Next
  <2>5. CASE SameConnections
    BY <2>1, <2>3, <2>5, Works DEF Bay!Next
  <2> QED
    BY <2>2, <2>4, <2>5
<1>12. ASSUME NEW r \in Refs, CloseDst(r) PROVE Bay!Next
  BY <1>12, BayLeft DEF Bay!Next
<1>7. ASSUME NEW r \in Refs, Flush(r) PROVE Bay!Next
  BY <1>7, BayFlush DEF Bay!Next
<1>8. ASSUME NEW r \in Refs, Free(r) PROVE Bay!Next
  BY <1>8, BayClose DEF Bay!Next
<1>9. ASSUME NEW e \in Cells, Dispatch(e) \/ DispatchLost(e) PROVE Bay!Next
  <2>1. PICK s \in Refs : Bay!Deliver(s)
    BY <1>9, BayDeliver, BayLost
  <2> QED
    BY <2>1 DEF Bay!Next
<1>10. ASSUME Connecting(Client) PROVE Bay!Next
  <2>1. UNCHANGED <<open, sender, rcv>>
    BY <1>10 DEF Connecting, SetFind, SetPop, SetSrc, SetDst, PutDst, ClearFind,
                 ClearSrc, ClearDst, ClearFree, events
  <2>5. Leaving' = Leaving
    <3>1. TypeOK /\ Where \in Wiring
      BY <1>10, OneLevel DEF Connecting, SetFind, SetPop, SetSrc, SetDst, PutDst, ClearFind,
         ClearSrc, ClearDst, ClearFree, IInv, Wiring, SettingUp, Clearing
    <3>2. \/ \E label \in Wiring : Goto(Client, label)
          \/ Return(Client)
      BY <1>10 DEF Connecting, SetFind, SetPop, SetSrc, SetDst, PutDst, ClearFind,
         ClearSrc, ClearDst, ClearFree, Wiring, SettingUp, Clearing
    <3>3. Where' \in Wiring \cup {"idle"}
      BY <3>1, <3>2, Going, Returning
    <3> QED
      BY <3>1, <3>3, SameLeaving DEF Wiring, SettingUp, Clearing
  <2>2. CASE PutDst(Client)
    BY <2>2, BayConnect DEF Bay!Next
  <2>3. CASE ClearDst(Client)
    BY <2>1, <2>3, <2>5, ClearDstStep, BayDisconnect DEF Bay!Next
  <2>4. CASE ~ PutDst(Client) /\ ~ ClearDst(Client)
    <3>1. SameConnections
      BY <1>10, <2>4, SetFindStep, SetPopStep, SetSrcStep, SetDstStep, ClearFindStep,
         ClearSrcStep, ClearFreeStep DEF Connecting
    <3> QED
      BY <2>1, <2>5, <3>1, Works DEF Bay!Next
  <2> QED
    BY <2>2, <2>3, <2>4
<1>11. ASSUME NEW s \in Refs, NEW d \in Refs, NEW state \in BOOLEAN, MSConnect(Client, s, d, state)
       PROVE  Bay!Next
  <2>1. UNCHANGED <<open, sender, rcv>>
    BY <1>11 DEF MSConnect, events
  <2>2. Where = "idle" /\ Where' \in {"set_find", "clear_find"}
    BY <1>11, OneLevel, Going DEF MSConnect, IInv
  <2> QED
    BY <1>11, <2>1, <2>2, MSConnectStep, SameLeaving, Works DEF Bay!Next
<1> QED
  BY <1>1, <1>2, <1>3, <1>4, <1>5, <1>6, <1>7, <1>8, <1>9, <1>10, <1>11, <1>12, OneLevel DEF Next

LEMMA BayStutter ==
  ASSUME IInv, Paired, Paired', UNCHANGED vars
  PROVE  UNCHANGED Bay!vars
<1>1. UNCHANGED <<open, lists, free, sender, rcv, pc, app, cell, next>>
  BY DEF vars, events, locals
<1>2. \A q \in Refs : DstFrom(q)' = DstFrom(q) /\ SrcFrom(q)' = SrcFrom(q)
  BY <1>1 DEF DstFrom, SrcFrom, Where, Src, Cnx, lists
<1>3. SameConnections
  BY <1>1, <1>2, SameLists DEF SameConnections, lists
<1>4. Conn' = Conn /\ Sent' = Sent /\ Got' = Got
  BY <1>1, <1>3, SameConn, SameCounts
<1>5. Cardinality(free)' = Cardinality(free) /\ Leaving' = Leaving
  BY <1>1, SameLeaving DEF lists
<1> QED
  BY <1>1, <1>4, <1>5 DEF Bay!vars, Conn, Sent, SentBy, Got, Leaving

LEMMA BayInit ==
  ASSUME Quiet, Init
  PROVE  Bay!Init
<1>1. open = {} /\ free = Cells /\ \A r \in Refs : SentBy(r) = {} /\ rcv[r] = {}
  <2>1. NULL \notin Refs
    BY ConnectionsAssumption
  <2> QED
    BY <2>1 DEF Init, Blank, SentBy
<1>2. Conn = {}
  BY <1>1 DEF Conn
<1>3. Cardinality({}) = 0 /\ Cardinality(free) \in Nat
  BY <1>1, SmallSets, FS_EmptySet
<1>4. Sent = [r \in Refs |-> 0] /\ Got = [r \in Refs |-> 0]
  BY <1>1, <1>3 DEF Sent, Got
<1>5. Sent = Bay!None /\ Got = Bay!None
  BY <1>4 DEF Bay!None
<1>6. Leaving = {}
  BY <1>1 DEF Leaving
<1> QED
  BY <1>1, <1>2, <1>3, <1>5, <1>6 DEF Bay!Init, Conn, Sent, SentBy, Got, Leaving

\* The kernel is a patchbay, wherever the clock handler comes between the writes of
\* a call: a connection appears when SetConnection puts its cell on the list of its
\* source, disappears when Rem1DstCon takes it out of that list or when the source,
\* as it closes, frees it (RemAllDstCon), and DispatchEvents gives a copy to as many
\* of those connected at that instant as there are cells, but for the events of a
\* client that is emptying its list; no alarm changes connections.
THEOREM Refinement ==
  ASSUME Interrupts = {}
  PROVE  Spec => IsAPatchbay
<1> SUFFICES ASSUME Quiet PROVE Spec => IsAPatchbay
  BY DEF Quiet
<1>1. Init => Bay!Init
  BY BayInit
<1>2. IInv => Paired
  BY PairedHolds
<1>3. IInv /\ IInv' /\ Paired /\ Paired' /\ [Next]_vars => [Bay!Next]_(Bay!vars)
  BY BayStep, BayStutter
<1>4. Spec => []IInv
  BY Invariance DEF Quiet
<1> QED
  BY <1>1, <1>2, <1>3, <1>4, PTL DEF Spec, IsAPatchbay, Bay!Spec
=============================================================================
