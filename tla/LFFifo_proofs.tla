---------------------------- MODULE LFFifo_proofs ----------------------------
(***************************************************************************)
(* Proofs about LFFifo, for any threads, any cells and any bounds on the   *)
(* calls: the list is never broken, no cell is lost and the count is right; *)
(* and, at the end, about the queue of commands that CommandQueue makes of *)
(* it, whoever sends, when one handler reads it (OneReader).               *)
(***************************************************************************)
EXTENDS CommandQueue, SequenceTheorems, FiniteSetTheorems, WellFoundedInduction,
        NaturalsInduction, TLAPS

Node == Cells \cup {Dummy}

(***************************************************************************)
(* The inductive invariant.  It speaks of strands, cells linked one to the *)
(* next: the list is one (its place is <<>>), and what each thread p is to *)
(* link, with what others have linked behind it, is another (its place is  *)
(* <<p>>).  The strand x has N[x] cells, F[x][1], F[x][2], ...             *)
(***************************************************************************)
Place == {<<>>} \cup {<<p>> : p \in Procs}

Linking == {"put_ic", "put_tail", "put_link", "put_next", "put_help"}
Carrying == {"put_end", "get_dec", "return"}

HasCell(p) == pc[p] \in Linking \/ (pc[p] \in Carrying /\ cell[p] # NULL)

InStrand(F, N, x, c) == \E i \in 1..N[x] : F[x][i] = c

\* A cell is in one strand, once.
OnePlace(F, N) ==
  \A x, y \in Place : \A i \in 1..N[x], j \in 1..N[y] :
     F[x][i] = F[y][j] => x = y /\ i = j

\* The links lead from each cell of a strand to the next, and those of the list
\* and of the strands that are being linked end with End.
Threaded(F, N) ==
  /\ \A x \in Place : \A i \in 1..N[x] - 1 : link[F[x][i]] = F[x][i + 1]
  /\ link[F[<<>>][N[<<>>]]] = End
  /\ \A p \in Procs : pc[p] \in Linking => link[F[<<p>>][N[<<p>>]]] = End

\* The list begins with the head and has the tail; the strand of a thread begins
\* with its cell, and has no other before its link is End.
Anchored(F, N) ==
  /\ N[<<>>] >= 1 /\ F[<<>>][1] = head /\ InStrand(F, N, <<>>, tail)
  /\ \A p \in Procs :
       /\ HasCell(p) => N[<<p>>] >= 1 /\ F[<<p>>][1] = cell[p]
       /\ ~ HasCell(p) => N[<<p>>] = 0
       /\ pc[p] \in Carrying /\ cell[p] # NULL =>
             N[<<p>>] = 1 /\ link[cell[p]] # End

\* A cell is in a strand or with one thread; the word of one that a thread owns
\* is not End, so that nobody can link another behind it.
Somewhere(F, N) ==
  /\ \A c \in Node : \/ \E x \in Place : InStrand(F, N, x, c)
                     \/ \E p \in Procs : c \in holds[p]
  /\ \A p \in Procs : \A c \in holds[p] :
       /\ link[c] # End
       /\ \A x \in Place : ~ InStrand(F, N, x, c)
       /\ \A q \in Procs : c \in holds[q] => q = p

Shape(F, N) ==
  /\ F \in [Place -> [Nat -> Node]] /\ N \in [Place -> Nat]
  /\ OnePlace(F, N) /\ Threaded(F, N) /\ Anchored(F, N) /\ Somewhere(F, N)

\* A thread may be about to link its strand behind that of another, when the tail
\* it has read has been taken out and is being put again.  It then read it before
\* the other began to put, so that they cannot both go on in a circle.
Ordered(F, N, B) ==
  /\ B \subseteq Procs \X Procs
  /\ \A p \in Procs : <<p, p>> \notin B
  /\ \A p, q, r \in Procs : <<p, q>> \in B /\ <<q, r>> \in B => <<p, r>> \in B
  /\ \A p, q \in Procs :
        pc[p] = "put_link" /\ InStrand(F, N, <<q>>, lptr[p]) => <<p, q>> \in B

\* The cells that are linked behind another, and the head.
Behind(F, N) ==
  {c \in Node : \/ c = head
                \/ \E x \in Place : \E i \in 2..N[x] : F[x][i] = c}

Late == At("put_swing") \cup At("put_inc")

Tallied(F, N) ==
  count = Cardinality(Behind(F, N)) - 1 - Cardinality(Late) + Cardinality(At("get_dec"))

\* What the locals of a thread say when the counters show that nothing moved.
TailSeen(p) ==
  /\ lic[p] <= ic
  /\ lic[p] = ic =>
       /\ pc[p] \in {"put_link", "put_next", "put_help", "put_swing"} => lptr[p] = tail
       /\ pc[p] \in {"put_next", "put_help", "put_swing"} => link[tail] # End
       /\ pc[p] = "put_help" => lnext[p] = link[tail]
       /\ pc[p] = "put_swing" => cell[p] = link[tail]
       /\ pc[p] \in {"get_check", "get_tail", "get_help"}
            /\ lptr[p] = tail /\ lnext[p] # End => lnext[p] = link[tail]
       /\ pc[p] = "get_help" => lptr[p] = tail /\ lnext[p] # End

HeadSeen(p) ==
  /\ loc[p] <= oc
  /\ pc[p] = "get_cas" => lnext[p] # End
  /\ loc[p] = oc =>
       /\ pc[p] \in {"get_next", "get_check", "get_tail", "get_cas"} => lptr[p] = head
       /\ pc[p] \in {"get_check", "get_tail", "get_cas"} /\ lnext[p] # End =>
             lnext[p] = link[head]
       /\ pc[p] = "get_cas" => head # tail

\* The cell a thread has, where it is.
CellHeld(p) ==
  /\ pc[p] \in Linking \cup {"put_end", "get_dec", "put_swing", "put_inc"} => cell[p] \in Node
  /\ pc[p] = "return" => cell[p] \in Cells \cup {NULL}
  /\ pc[p] \in {"idle", "get_oc", "get_ic", "get_head", "get_next", "get_check",
                "get_tail", "get_help", "get_cas"} => cell[p] = NULL
  /\ pc[p] \in {"put_link", "put_next", "get_next", "avail_link"} => lptr[p] \in Node

Locals == \A p \in Procs : TailSeen(p) /\ HeadSeen(p) /\ CellHeld(p)

IInv == /\ TypeOK
        /\ Locals
        /\ \E F, N, B : Shape(F, N) /\ Ordered(F, N, B) /\ Tallied(F, N)

(***************************************************************************)
(* What Follow finds.                                                      *)
(***************************************************************************)
LEMMA Least ==
  ASSUME NEW T, T \subseteq Nat, T # {}
  PROVE  \E m \in T : \A n \in T : m <= n
<1> DEFINE R == {ss \in Nat \X Nat : ss[1] < ss[2]}
<1>1. OpToRel(<, Nat) = R
  BY DEF OpToRel
<1>2. IsWellFoundedOn(R, Nat)
  BY <1>1, NatLessThanWellFounded
<1>3. \A x, y \in Nat : <<x, y>> \in R <=> x < y
  OBVIOUS
<1> HIDE DEF R
<1>4. PICK m \in T : \A n \in T : <<n, m>> \notin R
  BY <1>2, WFMin
<1>5. ASSUME NEW n \in T PROVE m <= n
  <2>1. m \in Nat /\ n \in Nat
    OBVIOUS
  <2>2. <<n, m>> \notin R
    BY <1>4
  <2>3. ~ n < m
    BY <1>3, <2>1, <2>2
  <2> QED
    BY <2>1, <2>3
<1> QED
  BY <1>5

\* The walk along the links lk, from c, as Follow takes it along link.
Walk(lk, c) ==
  LET next(s) == lk[Last(s)]
      walk[n \in 0 .. Cardinality(Cells) + 2] ==
        IF n = 0 THEN <<c>>
        ELSE LET s == walk[n - 1]
             IN  IF next(s) \in Cells \cup {Dummy} THEN Append(s, next(s)) ELSE s
  IN  walk[Cardinality(Cells) + 2]

\* A sequence of distinct cells along the links lk, to a cell that leads nowhere.
IsPath(lk, s) ==
  /\ s \in Seq(Node) /\ s # <<>>
  /\ \A i, j \in 1..Len(s) : s[i] = s[j] => i = j
  /\ \A i \in 1..Len(s) - 1 : lk[s[i]] = s[i + 1]
  /\ lk[s[Len(s)]] \notin Node

LEMMA PathShort ==
  ASSUME IsFiniteSet(Cells), NEW lk, NEW s, IsPath(lk, s)
  PROVE  /\ Cardinality(Cells) \in Nat /\ Len(s) \in Nat
         /\ 1 <= Len(s) /\ Len(s) <= Cardinality(Cells) + 1
<1>1. IsFiniteSet(Node) /\ Cardinality(Node) <= Cardinality(Cells) + 1 /\ Cardinality(Cells) \in Nat
  BY FS_AddElement, FS_CardinalityType DEF Node
<1>2. Len(s) \in Nat /\ 1 <= Len(s)
  BY EmptySeq DEF IsPath
<1>3. s \in Injection(1..Len(s), Node)
  BY LenProperties DEF IsPath, Injection, IsInjective
<1>4. Cardinality(1..Len(s)) <= Cardinality(Node)
  BY <1>1, <1>3, FS_Injection
<1>5. Cardinality(1..Len(s)) = Len(s)
  BY <1>2, FS_Interval
<1>6. Cardinality(Node) \in Nat
  BY <1>1, FS_CardinalityType
<1> QED
  BY <1>1, <1>2, <1>4, <1>5, <1>6

LEMMA WalkPath ==
  ASSUME IsFiniteSet(Cells), NEW lk, NEW s, IsPath(lk, s)
  PROVE  Walk(lk, s[1]) = s
<1> DEFINE K == Cardinality(Cells) + 2
           Grow(t) == IF lk[Last(t)] \in Node THEN Append(t, lk[Last(t)]) ELSE t
           W(f) == [n \in 0..K |-> IF n = 0 THEN <<s[1]>> ELSE Grow(f[n - 1])]
           w == [n \in 0..K |-> SubSeq(s, 1, IF n + 1 <= Len(s) THEN n + 1 ELSE Len(s))]
           walk == CHOOSE f : f = W(f)
<1>1. Walk(lk, s[1]) = walk[K]
  BY DEF Walk, Node
<1>2. K \in Nat /\ Len(s) \in Nat /\ 1 <= Len(s) /\ Len(s) <= K
  BY PathShort
<1>3. ASSUME NEW n \in 1..Len(s)
      PROVE  /\ SubSeq(s, 1, n) \in Seq(Node)
             /\ Len(SubSeq(s, 1, n)) = n
             /\ Last(SubSeq(s, 1, n)) = s[n]
  <2>1. \A i \in 1..n : s[i] \in Node
    BY <1>2 DEF IsPath
  <2>2. /\ SubSeq(s, 1, n) \in Seq(Node)
        /\ Len(SubSeq(s, 1, n)) = IF 1 <= n THEN n - 1 + 1 ELSE 0
        /\ \A i \in 1..n - 1 + 1 : SubSeq(s, 1, n)[i] = s[1 + i - 1]
    BY <2>1, SubSeqProperties
  <2>3. Len(SubSeq(s, 1, n)) = n
    BY <2>2
  <2>4. SubSeq(s, 1, n)[n] = s[n]
    BY <2>2
  <2> QED
    BY <2>2, <2>3, <2>4 DEF Last
<1>4. ASSUME NEW n \in 1..Len(s) - 1
      PROVE  Grow(SubSeq(s, 1, n)) = SubSeq(s, 1, n + 1)
  <2>0. n \in 1..Len(s) /\ n + 1 \in 1..Len(s) /\ s \in Seq(Node)
    BY <1>2 DEF IsPath
  <2>1. lk[Last(SubSeq(s, 1, n))] = s[n + 1] /\ s[n + 1] \in Node
    BY <1>2, <1>3, <2>0 DEF IsPath
  <2>2. SubSeq(s, 1, n + 1) = SubSeq(s, 1, n) \o <<s[n + 1]>>
    BY <1>2, <2>0, SubSeqRecursiveSecond
  <2>3. Append(SubSeq(s, 1, n), s[n + 1]) = SubSeq(s, 1, n) \o <<s[n + 1]>>
    BY <1>3, <2>0, <2>1, AppendIsConcat
  <2> QED
    BY <2>1, <2>2, <2>3
<1>5. Grow(s) = s /\ SubSeq(s, 1, Len(s)) = s
  BY SubSeqFull DEF IsPath, Last
<1>6. <<s[1]>> = SubSeq(s, 1, 1)
  <2>1. s[1] \in Node /\ s \in Seq(Node)
    BY <1>2 DEF IsPath
  <2>2. <<s[1]>> \in Seq(Node) /\ Len(<<s[1]>>) = 1 /\ <<s[1]>>[1] = s[1]
    BY <2>1
  <2> QED
    BY <1>2, <1>3, <2>1, <2>2, SeqEqual DEF Last
<1>7. w = W(w)
  <2>1. ASSUME NEW n \in 0..K
        PROVE  w[n] = IF n = 0 THEN <<s[1]>> ELSE Grow(w[n - 1])
    <3>1. CASE n = 0
      <4>1. 0 \in 0..K /\ w[0] = SubSeq(s, 1, 1)
        BY <1>2
      <4> HIDE DEF w
      <4> QED
        BY <1>6, <3>1, <4>1
    <3>2. CASE n # 0 /\ n + 1 <= Len(s)
      <4>1. n \in 1..Len(s) - 1 /\ n - 1 \in 0..K /\ w[n - 1] = SubSeq(s, 1, n)
        BY <1>2, <3>2
      <4>2. w[n] = SubSeq(s, 1, n + 1)
        BY <3>2
      <4> HIDE DEF w, Grow
      <4> QED
        BY <1>4, <3>2, <4>1, <4>2
    <3>3. CASE n # 0 /\ ~ n + 1 <= Len(s)
      <4>1. n - 1 \in 0..K /\ w[n - 1] = SubSeq(s, 1, Len(s))
        BY <1>2, <3>3
      <4>2. w[n] = SubSeq(s, 1, Len(s))
        BY <3>3
      <4> HIDE DEF w, Grow
      <4> QED
        BY <1>5, <3>3, <4>1, <4>2
    <3> QED
      BY <3>1, <3>2, <3>3
  <2> HIDE DEF Grow, K
  <2> QED
    BY <2>1
<1>8. walk = W(walk)
  <2> HIDE DEF W, w
  <2> QED
    BY <1>7
<1>9. \A n \in 0..K : walk[n] = w[n]
  <2> HIDE DEF walk
  <2> SUFFICES ASSUME {n \in 0..K : walk[n] # w[n]} # {} PROVE FALSE
    OBVIOUS
  <2>1. {n \in 0..K : walk[n] # w[n]} \subseteq Nat
    BY <1>2
  <2>2. PICK m \in {n \in 0..K : walk[n] # w[n]} :
               \A n \in {i \in 0..K : walk[i] # w[i]} : m <= n
    <3> HIDE DEF w
    <3> QED
    BY <2>1, Least
  <2>3. m \in 0..K /\ walk[m] # w[m]
    BY <2>2
  <2>4. CASE m = 0
    <3>1. walk[0] = <<s[1]>>
      BY <1>2, <1>8
    <3>2. w[0] = <<s[1]>>
      <4>1. 0 \in 0..K /\ w[0] = SubSeq(s, 1, 1)
        BY <1>2
      <4> HIDE DEF w
      <4> QED
        BY <1>6, <4>1
    <3> QED
      BY <2>3, <2>4, <3>1, <3>2
  <2>5. CASE m # 0
    <3>1. m - 1 \in 0..K /\ ~ m <= m - 1
      BY <1>2, <2>3, <2>5
    <3>2. walk[m - 1] = w[m - 1]
      BY <2>2, <3>1
    <3> HIDE DEF w, Grow, K
    <3>3. walk[m] = Grow(walk[m - 1])
      BY <1>8, <2>3, <2>5
    <3>4. w[m] = Grow(w[m - 1])
      BY <1>7, <2>3, <2>5
    <3> QED
      BY <2>3, <3>2, <3>3, <3>4
  <2> QED
    BY <2>4, <2>5
<1>10. K \in 0..K /\ w[K] = SubSeq(s, 1, Len(s))
  BY <1>2
<1> HIDE DEF walk, w
<1> QED
  BY <1>1, <1>5, <1>9, <1>10

(***************************************************************************)
(* What the shape says of a strand, of the tail, and of a cell whose link  *)
(* is End.                                                                 *)
(***************************************************************************)
LEMMA Places ==
  /\ <<>> \in Place
  /\ \A p \in Procs : <<p>> \in Place /\ <<p>> # <<>>
  /\ \A p, q \in Procs : <<p>> = <<q>> => p = q
  /\ \A x \in Place : x = <<>> \/ \E p \in Procs : x = <<p>>
BY DEF Place

LEMMA Strands ==
  ASSUME NEW F, NEW N, Shape(F, N)
  PROVE  /\ \A x \in Place : N[x] \in Nat /\ \A i \in 1..N[x] : F[x][i] \in Node
         /\ N[<<>>] \in Nat /\ N[<<>>] >= 1
         /\ \A p \in Procs : /\ N[<<p>>] \in Nat
                             /\ HasCell(p) => N[<<p>>] >= 1
                             /\ ~ HasCell(p) => N[<<p>>] = 0
<1>1. ASSUME NEW x \in Place PROVE N[x] \in Nat /\ \A i \in 1..N[x] : F[x][i] \in Node
  <2>1. N[x] \in Nat /\ F[x] \in [Nat -> Node]
    BY DEF Shape
  <2>2. \A i \in 1..N[x] : i \in Nat
    BY <2>1
  <2> QED
    BY <2>1, <2>2
<1> QED
  BY <1>1, Places DEF Shape, Anchored

LEMMA ListApart ==
  ASSUME NEW F, NEW N, Shape(F, N), NEW c, InStrand(F, N, <<>>, c), NEW p \in Procs
  PROVE  ~ InStrand(F, N, <<p>>, c)
BY Places DEF Shape, OnePlace, InStrand

LEMMA NextInList ==
  ASSUME NEW F, NEW N, Shape(F, N), NEW c, InStrand(F, N, <<>>, c), link[c] # End
  PROVE  InStrand(F, N, <<>>, link[c]) /\ link[c] \in Node /\ link[c] # head
<1>1. PICK i \in 1..N[<<>>] : F[<<>>][i] = c
  BY DEF InStrand
<1>2. N[<<>>] \in Nat /\ <<>> \in Place
  BY Strands, Places
<1>3. i # N[<<>>]
  BY <1>1 DEF Shape, Threaded
<1>4. i \in 1..N[<<>>] - 1 /\ i + 1 \in 1..N[<<>>] /\ 1 \in 1..N[<<>>] /\ i + 1 # 1
  BY <1>2, <1>3
<1>5. F[<<>>][i + 1] = link[c]
  BY <1>1, <1>2, <1>4 DEF Shape, Threaded
<1>6. link[c] # head
  BY <1>2, <1>4, <1>5 DEF Shape, OnePlace, Anchored
<1> QED
  BY <1>2, <1>4, <1>5, <1>6, Strands DEF InStrand

LEMMA WhereEnd ==
  ASSUME LFFifoAssumption, NEW F, NEW N, Shape(F, N), NEW c \in Node, link[c] = End
  PROVE  \E y \in Place : /\ N[y] >= 1 /\ F[y][N[y]] = c
                          /\ \A q \in Procs : y = <<q>> => pc[q] \in Linking
<1>0. End \notin Node
  BY DEF Node, LFFifoAssumption
<1>1. PICK y \in Place : InStrand(F, N, y, c)
  BY DEF Shape, Somewhere
<1>2. PICK i \in 1..N[y] : F[y][i] = c
  BY <1>1 DEF InStrand
<1>3. N[y] \in Nat
  BY Strands
<1>4. i = N[y]
  <2> SUFFICES ASSUME i # N[y] PROVE FALSE
    OBVIOUS
  <2>1. i \in 1..N[y] - 1 /\ i + 1 \in 1..N[y]
    BY <1>3
  <2>2. link[c] = F[y][i + 1] /\ F[y][i + 1] \in Node
    BY <1>2, <2>1, Strands DEF Shape, Threaded
  <2> QED
    BY <1>0, <2>2
<1>5. ASSUME NEW q \in Procs, y = <<q>> PROVE pc[q] \in Linking
  <2>1. HasCell(q)
    BY <1>3, <1>5, Strands
  <2>2. pc[q] \in Carrying /\ cell[q] # NULL => N[y] = 1 /\ F[y][1] = cell[q] /\ link[cell[q]] # End
    BY <1>5, <2>1 DEF Shape, Anchored
  <2> QED
    BY <1>2, <1>4, <2>1, <2>2 DEF HasCell
<1> QED
  BY <1>2, <1>3, <1>4, <1>5

(***************************************************************************)
(* Steps that leave every strand as it is.                                 *)
(***************************************************************************)
LEMMA SameStrands ==
  ASSUME NEW F, NEW N, NEW B, Shape(F, N), Ordered(F, N, B), NEW p \in Procs,
         UNCHANGED <<head, link, holds>>, InStrand(F, N, <<>>, tail'),
         \A q \in Procs \ {p} : pc'[q] = pc[q] /\ cell'[q] = cell[q] /\ lptr'[q] = lptr[q],
         HasCell(p)' <=> HasCell(p), HasCell(p) => cell'[p] = cell[p],
         pc'[p] \in Linking => pc[p] \in Linking,
         pc'[p] \in Carrying /\ cell'[p] # NULL => pc[p] \in Carrying,
         pc'[p] = "put_link" => InStrand(F, N, <<>>, lptr'[p])
  PROVE  Shape(F, N)' /\ Ordered(F, N, B)' /\ Behind(F, N)' = Behind(F, N)
<1>1. OnePlace(F, N)' /\ Somewhere(F, N)' /\ Behind(F, N)' = Behind(F, N)
  BY DEF Shape, OnePlace, Somewhere, Behind, InStrand
<1>2. Threaded(F, N)'
  BY DEF Shape, Threaded
<1>3. ASSUME NEW q \in Procs PROVE HasCell(q)' <=> HasCell(q)
  BY DEF HasCell
<1>4. Anchored(F, N)'
  <2>1. ASSUME NEW q \in Procs
        PROVE  /\ HasCell(q)' => N[<<q>>] >= 1 /\ F[<<q>>][1] = cell'[q]
               /\ ~ HasCell(q)' => N[<<q>>] = 0
               /\ pc'[q] \in Carrying /\ cell'[q] # NULL =>
                    N[<<q>>] = 1 /\ link'[cell'[q]] # End
    <3>1. CASE q # p
      BY <1>3, <3>1 DEF Shape, Anchored
    <3>2. CASE q = p
      <4>1. /\ HasCell(q)' => N[<<q>>] >= 1 /\ F[<<q>>][1] = cell'[q]
            /\ ~ HasCell(q)' => N[<<q>>] = 0
        BY <1>3, <3>2 DEF Shape, Anchored
      <4>2. ASSUME pc'[q] \in Carrying, cell'[q] # NULL
            PROVE  N[<<q>>] = 1 /\ link'[cell'[q]] # End
        <5>1. HasCell(q)'
          BY <4>2 DEF HasCell
        <5>2. pc[q] \in Carrying /\ cell'[q] = cell[q]
          BY <1>3, <3>2, <4>2, <5>1
        <5> QED
          BY <4>2, <5>2 DEF Shape, Anchored
      <4> QED
        BY <4>1, <4>2
    <3> QED
      BY <3>1, <3>2
  <2> QED
    BY <2>1 DEF Shape, Anchored, InStrand
<1>5. Ordered(F, N, B)'
  <2>1. ASSUME NEW q \in Procs, NEW r \in Procs,
               pc'[q] = "put_link", InStrand(F, N, <<r>>, lptr'[q])
        PROVE  <<q, r>> \in B
    <3>1. CASE q # p
      BY <2>1, <3>1 DEF Ordered
    <3>2. CASE q = p
      BY <2>1, <3>2, ListApart
    <3> QED
      BY <3>1, <3>2
  <2> QED
    BY <2>1 DEF Ordered, InStrand
<1> QED
  BY <1>1, <1>2, <1>4, <1>5 DEF Shape

(***************************************************************************)
(* Linking the strand of a thread behind the list, or behind a strand of   *)
(* another thread.                                                         *)
(***************************************************************************)
LEMMA JoinStrands ==
  ASSUME LFFifoAssumption, TypeOK, NEW F, NEW N, NEW B, Shape(F, N), Ordered(F, N, B),
         NEW p \in Procs, pc[p] = "put_link", lptr[p] \in Node, link[lptr[p]] = End,
         link' = [link EXCEPT ![lptr[p]] = cell[p]], pc' = [pc EXCEPT ![p] = "put_swing"],
         UNCHANGED <<head, tail, cell, lptr, holds>>
  PROVE  /\ \E G, M : Shape(G, M)' /\ Ordered(G, M, B)' /\ Behind(G, M)' = Behind(F, N) \cup {cell[p]}
         /\ cell[p] \notin Behind(F, N)
<1>0. pc[p] \in Linking /\ HasCell(p) /\ <<p>> \in Place /\ <<>> \in Place /\ <<p>> # <<>>
  BY Places DEF HasCell, Linking
<1>1. PICK y \in Place : /\ N[y] >= 1 /\ F[y][N[y]] = lptr[p]
                         /\ \A q \in Procs : y = <<q>> => pc[q] \in Linking
  BY WhereEnd
<1> DEFINE n == N[y]
           m == N[<<p>>]
           G == [x \in Place |-> IF x = y THEN [i \in Nat |-> IF i <= n THEN F[y][i] ELSE F[<<p>>][i - n]]
                                 ELSE F[x]]
           M == [x \in Place |-> IF x = y THEN n + m ELSE IF x = <<p>> THEN 0 ELSE N[x]]
<1>2. n \in Nat /\ m \in Nat /\ n >= 1 /\ m >= 1
  BY <1>0, <1>1, Strands
<1>l. /\ N[y] = n /\ N[<<p>>] = m
      /\ F[y] \in [Nat -> Node] /\ F[<<p>>] \in [Nat -> Node]
      /\ \A x \in Place : F[x] \in [Nat -> Node] /\ N[x] \in Nat
  BY <1>0, <1>1, Strands DEF Shape
<1> HIDE DEF n, m
<1>a. n \in 1..n /\ 1 \in 1..n /\ 1 \in 1..m /\ m \in 1..m
  BY <1>2
<1>3. y # <<p>>
  <2> SUFFICES ASSUME y = <<p>> PROVE FALSE
    OBVIOUS
  <2>1. InStrand(F, N, <<p>>, lptr[p])
    BY <1>l, <1>1, <1>2, <1>a DEF InStrand
  <2> QED
    BY <2>1 DEF Ordered
<1>4. /\ M[y] = n + m
      /\ \A i \in 1..n : G[y][i] = F[y][i]
      /\ \A i \in 1..m : G[y][n + i] = F[<<p>>][i]
  <2>1. M[y] = n + m /\ \A i \in Nat : G[y][i] = IF i <= n THEN F[y][i] ELSE F[<<p>>][i - n]
    OBVIOUS
  <2>2. \A i \in 1..n : i \in Nat /\ i <= n
    BY <1>2
  <2> HIDE DEF G, M
  <2>4. ASSUME NEW i \in 1..m PROVE G[y][n + i] = F[<<p>>][i]
    <3> DEFINE k == n + i
    <3>1. k \in Nat /\ ~ k <= n /\ k - n = i
      BY <1>2
    <3> HIDE DEF k
    <3>2. G[y][k] = F[<<p>>][k - n]
      BY <2>1, <3>1
    <3>3. G[y][k] = F[<<p>>][i]
      BY <3>1, <3>2
    <3> QED
      BY <3>3 DEF k
  <2>5. \A i \in 1..n : G[y][i] = F[y][i]
    BY <2>1, <2>2
  <2> QED
    BY <2>1, <2>4, <2>5
<1>5. M[<<p>>] = 0
  BY <1>0, <1>3
<1>6. \A x \in Place : x # y /\ x # <<p>> => G[x] = F[x] /\ M[x] = N[x]
  OBVIOUS
<1>7. G \in [Place -> [Nat -> Node]] /\ M \in [Place -> Nat]
  <2>1. \A x \in Place : x # y => G[x] \in [Nat -> Node]
    BY <1>l
  <2>2. G[y] \in [Nat -> Node]
    <3>1. \A i \in Nat : F[y][i] \in Node /\ (~ i <= n => F[<<p>>][i - n] \in Node)
      <4>1. \A i \in Nat : ~ i <= n => i - n \in Nat
        BY <1>2
      <4>2. \A i \in Nat : F[<<p>>][i] \in Node /\ F[y][i] \in Node
        BY <1>l
      <4> QED
        BY <4>1, <4>2
    <3> QED
      BY <3>1
  <2>3. \A x \in Place : M[x] \in Nat
    BY <1>2, <1>l
  <2> QED
    BY <2>1, <2>2, <2>3
<1> HIDE DEF M
<1> HIDE DEF G
<1>8. ASSUME NEW x \in Place, NEW i \in 1..M[x]
      PROVE  \/ x # <<p>> /\ i \in 1..N[x] /\ G[x][i] = F[x][i]
             \/ x = y /\ i - n \in 1..m /\ i > n /\ G[x][i] = F[<<p>>][i - n]
  <2>1. CASE x = y /\ i <= n
    BY <1>l, <1>2, <1>3, <1>4, <2>1
  <2>2. CASE x = y /\ ~ i <= n
    <3>1. i - n \in 1..m /\ i > n /\ n + (i - n) = i
      BY <1>2, <1>4, <2>2
    <3> QED
      BY <1>4, <2>2, <3>1
  <2>3. CASE x # y
    BY <1>2, <1>5, <1>6, <2>3
  <2> QED
    BY <2>1, <2>2, <2>3
<1>9. OnePlace(F, N)
  BY DEF Shape
<1>10. OnePlace(G, M)
  <2> SUFFICES ASSUME NEW x \in Place, NEW z \in Place, NEW i \in 1..M[x],
                      NEW j \in 1..M[z], G[x][i] = G[z][j]
               PROVE  x = z /\ i = j
    BY DEF OnePlace
  <2>1. CASE x # <<p>> /\ i \in 1..N[x] /\ G[x][i] = F[x][i]
    <3>1. z # <<p>> /\ j \in 1..N[z] /\ G[z][j] = F[z][j]
      <4>1. ~ (j - n \in 1..m /\ G[z][j] = F[<<p>>][j - n])
        <5>1. \A k \in 1..m : F[x][i] # F[<<p>>][k]
          BY <1>l, <1>0, <1>9, <2>1 DEF OnePlace
        <5> QED
          BY <2>1, <5>1
      <4> QED
        BY <1>8, <4>1
    <3>2. F[x][i] = F[z][j] /\ i \in 1..N[x] /\ j \in 1..N[z]
      BY <2>1, <3>1
    <3> QED
      BY <1>9, <3>2 DEF OnePlace
  <2>2. CASE x = y /\ i - n \in 1..m /\ i > n /\ G[x][i] = F[<<p>>][i - n]
    <3>1. z = y /\ j - n \in 1..m /\ j > n /\ G[z][j] = F[<<p>>][j - n]
      BY <1>l, <1>0, <1>8, <1>9, <2>2 DEF OnePlace
    <3>2. i - n = j - n
      BY <1>l, <1>0, <1>9, <2>2, <3>1 DEF OnePlace
    <3> QED
      BY <1>2, <2>2, <3>1, <3>2
  <2> QED
    BY <1>8, <2>1, <2>2
<1>11. \A c : \A x \in Place :
          InStrand(G, M, x, c) <=> \/ x # <<p>> /\ InStrand(F, N, x, c)
                                   \/ x = y /\ InStrand(F, N, <<p>>, c)
  <2> SUFFICES ASSUME NEW x \in Place, NEW c
               PROVE  InStrand(G, M, x, c) <=> \/ x # <<p>> /\ InStrand(F, N, x, c)
                                               \/ x = y /\ InStrand(F, N, <<p>>, c)
    OBVIOUS
  <2>1. InStrand(G, M, x, c) => \/ x # <<p>> /\ InStrand(F, N, x, c)
                                \/ x = y /\ InStrand(F, N, <<p>>, c)
    <3> SUFFICES ASSUME NEW i \in 1..M[x], G[x][i] = c
                 PROVE  \/ x # <<p>> /\ InStrand(F, N, x, c)
                        \/ x = y /\ InStrand(F, N, <<p>>, c)
      BY DEF InStrand
    <3>1. CASE x # <<p>> /\ i \in 1..N[x] /\ G[x][i] = F[x][i]
      BY <3>1 DEF InStrand
    <3>2. CASE x = y /\ i - n \in 1..m /\ i > n /\ G[x][i] = F[<<p>>][i - n]
      BY <1>l, <3>2 DEF InStrand
    <3> QED
      BY <1>8, <3>1, <3>2
  <2>2. x # <<p>> /\ InStrand(F, N, x, c) => InStrand(G, M, x, c)
    <3>1. \A i \in 1..n : i \in 1..n + m
      BY <1>2
    <3> QED
      BY <1>l, <1>4, <1>6, <3>1 DEF InStrand
  <2>3. x = y /\ InStrand(F, N, <<p>>, c) => InStrand(G, M, x, c)
    <3>1. \A i \in 1..m : n + i \in 1..n + m
      BY <1>2
    <3> QED
      BY <1>l, <1>4, <3>1 DEF InStrand
  <2> QED
    BY <2>1, <2>2, <2>3
<1>12. \A x \in Place : x # <<p>> =>
          /\ N[x] >= 1 => M[x] >= 1 /\ G[x][1] = F[x][1]
          /\ N[x] = 0 => M[x] = 0
  <2>1. 1 \in 1..n /\ n + m >= 1
    BY <1>2
  <2> QED
    BY <1>l, <1>2, <1>4, <1>6, <2>1
<1>13. cell[p] = F[<<p>>][1] /\ cell[p] \in Node
  BY <1>0, <1>2, <1>a, Strands DEF Shape, Anchored
<1>14. \A c \in Node : link'[c] = IF c = lptr[p] THEN cell[p] ELSE link[c]
  BY DEF TypeOK, Node
<1>15. \A x \in Place : \A i \in 1..N[x] : F[x][i] = lptr[p] => x = y /\ i = n
  BY <1>l, <1>1, <1>2, <1>a, <1>9 DEF OnePlace
<1>16. Threaded(G, M)'
  <2>1. ASSUME NEW x \in Place, NEW i \in 1..M[x] - 1
        PROVE  link'[G[x][i]] = G[x][i + 1]
    <3>0. i \in Nat /\ i >= 1
      BY <1>7
    <3>1. CASE x = y /\ i < n
      <4>1. i \in 1..n /\ i + 1 \in 1..n /\ i \in 1..n - 1
        BY <1>2, <3>0, <3>1
      <4>2. link[F[y][i]] = F[y][i + 1]
        BY <1>l, <4>1 DEF Shape, Threaded
      <4>3. F[y][i] # lptr[p]
        BY <1>l, <1>15, <3>1, <4>1
      <4>4. F[y][i] \in Node
        BY <1>l, <4>1, Strands
      <4> QED
        BY <1>4, <1>14, <3>1, <4>1, <4>2, <4>3, <4>4
    <3>2. CASE x = y /\ i = n
      <4>1. G[x][i] = lptr[p] /\ G[x][i + 1] = F[<<p>>][1]
        BY <1>l, <1>1, <1>2, <1>a, <1>4, <3>2
      <4> QED
        BY <1>13, <1>14, <4>1
    <3>3. CASE x = y /\ i > n
      <4>1. i - n \in 1..m - 1 /\ i - n \in 1..m /\ (i - n) + 1 \in 1..m
            /\ n + (i - n) = i /\ n + ((i - n) + 1) = i + 1
        BY <1>2, <1>4, <3>0, <3>3
      <4>2. G[x][i] = F[<<p>>][i - n] /\ G[x][i + 1] = F[<<p>>][(i - n) + 1]
        BY <1>4, <3>3, <4>1
      <4>3. link[F[<<p>>][i - n]] = F[<<p>>][(i - n) + 1]
        BY <1>l, <1>0, <4>1 DEF Shape, Threaded
      <4>4. F[<<p>>][i - n] # lptr[p] /\ F[<<p>>][i - n] \in Node
        BY <1>l, <1>0, <1>3, <1>15, <4>1, Strands
      <4> QED
        BY <1>14, <4>2, <4>3, <4>4
    <3>4. CASE x # y
      <4>1. x # <<p>> /\ G[x] = F[x] /\ M[x] = N[x]
        BY <1>5, <1>6, <3>4
      <4>2. i \in 1..N[x] /\ i \in 1..N[x] - 1
        BY <1>l, <4>1
      <4>3. link[F[x][i]] = F[x][i + 1] /\ F[x][i] # lptr[p] /\ F[x][i] \in Node
        BY <1>15, <3>4, <4>2, Strands DEF Shape, Threaded
      <4> QED
        BY <1>14, <4>1, <4>3
    <3> QED
      BY <1>2, <3>0, <3>1, <3>2, <3>3, <3>4
  <2>2. ASSUME NEW x \in Place, x # <<p>>, link[F[x][N[x]]] = End, N[x] >= 1
        PROVE  link'[G[x][M[x]]] = End
    <3>1. CASE x = y
      <4>1. G[x][M[x]] = F[<<p>>][m]
        BY <1>2, <1>4, <3>1
      <4>2. link[F[<<p>>][m]] = End
        BY <1>l, <1>0 DEF Shape, Threaded
      <4>3. F[<<p>>][m] # lptr[p] /\ F[<<p>>][m] \in Node
        BY <1>l, <1>0, <1>2, <1>a, <1>3, <1>15, Strands
      <4> QED
        BY <1>14, <4>1, <4>2, <4>3
    <3>2. CASE x # y
      <4>1. N[x] \in 1..N[x]
        BY <1>l, <1>2, <2>2
      <4>2. F[x][N[x]] # lptr[p] /\ F[x][N[x]] \in Node
        BY <1>15, <3>2, <4>1, Strands
      <4> QED
        BY <1>6, <1>14, <2>2, <3>2, <4>2
    <3> QED
      BY <3>1, <3>2
  <2>3. link'[G[<<>>][M[<<>>]]] = End
    BY <1>0, <2>2, Strands DEF Shape, Threaded
  <2>4. ASSUME NEW q \in Procs, pc'[q] \in Linking
        PROVE  link'[G[<<q>>][M[<<q>>]]] = End
    <3>1. q # p /\ pc[q] \in Linking
      BY <2>4 DEF TypeOK, Linking
    <3>2. HasCell(q) /\ <<q>> \in Place /\ <<q>> # <<p>>
      BY <3>1, Places DEF HasCell
    <3> QED
      BY <2>2, <3>1, <3>2, Strands DEF Shape, Threaded
  <2> QED
    BY <2>1, <2>3, <2>4 DEF Threaded
<1>17. Anchored(G, M)'
  <2>1. M[<<>>] >= 1 /\ G[<<>>][1] = head'
    BY <1>0, <1>12, Strands, EmptySeq DEF Shape, Anchored
  <2>2. InStrand(G, M, <<>>, tail')
    <3>1. InStrand(F, N, <<>>, tail)
      BY DEF Shape, Anchored
    <3> QED
      BY <1>0, <1>11, <3>1
  <2>3. ASSUME NEW q \in Procs
        PROVE  /\ HasCell(q)' => M[<<q>>] >= 1 /\ G[<<q>>][1] = cell'[q]
               /\ ~ HasCell(q)' => M[<<q>>] = 0
               /\ pc'[q] \in Carrying /\ cell'[q] # NULL =>
                    M[<<q>>] = 1 /\ link'[cell'[q]] # End
    <3>1. CASE q = p
      <4>1. pc'[q] = "put_swing"
        BY <3>1 DEF TypeOK
      <4> QED
        BY <1>5, <3>1, <4>1 DEF HasCell, Linking, Carrying
    <3>2. CASE q # p
      <4>1. <<q>> \in Place /\ <<q>> # <<p>> /\ pc'[q] = pc[q] /\ (HasCell(q)' <=> HasCell(q))
        BY <3>2, Places DEF HasCell, TypeOK
      <4>2. HasCell(q) => F[<<q>>][1] = cell[q] /\ N[<<q>>] >= 1
        BY Strands DEF Shape, Anchored
      <4>3. HasCell(q) => M[<<q>>] >= 1 /\ G[<<q>>][1] = cell[q]
        BY <1>12, <4>1, <4>2, EmptySeq
      <4>4. ~ HasCell(q) => M[<<q>>] = 0
        <5>1. ~ HasCell(q) => <<q>> # y
          BY <1>1, <4>1 DEF HasCell
        <5> QED
          BY <1>6, <4>1, <5>1 DEF Shape, Anchored
      <4>5. ASSUME pc[q] \in Carrying, cell[q] # NULL
            PROVE  M[<<q>>] = 1 /\ link'[cell[q]] # End
        <5>1. <<q>> # y
          BY <1>1, <4>5 DEF Linking, Carrying
        <5>2. HasCell(q) /\ N[<<q>>] = 1 /\ link[cell[q]] # End
          BY <4>5 DEF Shape, Anchored, HasCell
        <5>3. cell[q] \in Node
          BY <1>2, <4>1, <4>2, <5>2, Strands
        <5>4. link'[cell[q]] = link[cell[q]]
          BY <1>14, <5>2, <5>3
        <5> QED
          BY <1>6, <4>1, <5>1, <5>2, <5>4
      <4> QED
        BY <4>1, <4>3, <4>4, <4>5
    <3> QED
      BY <3>1, <3>2
  <2> QED
    BY <2>1, <2>2, <2>3 DEF Anchored, InStrand
<1>18. Somewhere(G, M)'
  <2>1. ASSUME NEW c \in Node
        PROVE  (\E x \in Place : InStrand(G, M, x, c)) \/ \E q \in Procs : c \in holds[q]
    <3>1. CASE \E x \in Place : InStrand(F, N, x, c)
      <4>1. PICK x \in Place : InStrand(F, N, x, c)
        BY <3>1
      <4>2. InStrand(G, M, x, c) \/ InStrand(G, M, y, c)
        BY <1>11, <4>1
      <4> QED
        BY <4>2
    <3> QED
      BY <3>1 DEF Shape, Somewhere
  <2>2. ASSUME NEW q \in Procs, NEW c \in holds[q]
        PROVE  /\ link'[c] # End /\ \A x \in Place : ~ InStrand(G, M, x, c)
               /\ \A r \in Procs : c \in holds[r] => r = q
    <3>1. c \in Node /\ link[c] # End
      BY DEF Shape, Somewhere, TypeOK, Node
    <3>2. link'[c] = link[c]
      BY <1>14, <3>1
    <3>3. /\ \A x \in Place : ~ InStrand(F, N, x, c)
          /\ \A r \in Procs : c \in holds[r] => r = q
      BY DEF Shape, Somewhere
    <3> QED
      BY <1>0, <1>11, <3>1, <3>2, <3>3
  <2> QED
    BY <2>1, <2>2 DEF Somewhere, InStrand
<1>19. Ordered(G, M, B)'
  <2>1. ASSUME NEW r \in Procs, NEW q \in Procs,
               pc'[r] = "put_link", InStrand(G, M, <<q>>, lptr[r])
        PROVE  <<r, q>> \in B
    <3>1. r # p /\ pc[r] = "put_link"
      BY <2>1 DEF TypeOK
    <3>2. CASE InStrand(F, N, <<q>>, lptr[r])
      BY <3>1, <3>2 DEF Ordered
    <3>3. CASE <<q>> = y /\ InStrand(F, N, <<p>>, lptr[r])
      <4>1. InStrand(F, N, <<q>>, lptr[p])
        BY <1>l, <1>1, <1>2, <1>a, <3>3 DEF InStrand
      <4> QED
        BY <3>1, <3>3, <4>1 DEF Ordered
    <3> QED
      BY <1>11, <2>1, <3>2, <3>3, Places
  <2> QED
    BY <2>1 DEF Ordered, InStrand
<1>20. \A c : InStrand(F, N, <<p>>, c) => c \in Node
  BY <1>0, Strands DEF InStrand
<1>21. Behind(G, M)' = Behind(F, N) \cup {cell[p]}
  <2>1. ASSUME NEW x \in Place, NEW i \in 2..M[x]
        PROVE  \/ G[x][i] = cell[p]
               \/ \E z \in Place : \E j \in 2..N[z] : F[z][j] = G[x][i]
    <3>0. i \in 1..M[x]
      BY <1>7
    <3>1. CASE x # <<p>> /\ i \in 1..N[x] /\ G[x][i] = F[x][i]
      BY <1>2, <3>1
    <3>2. CASE x = y /\ i - n \in 1..m /\ i > n /\ G[x][i] = F[<<p>>][i - n]
      <4>1. i - n = 1 \/ i - n \in 2..m
        BY <1>2, <3>2
      <4> QED
        BY <1>l, <1>0, <1>13, <3>2, <4>1
    <3> QED
      BY <1>8, <3>0, <3>1, <3>2
  <2>2. ASSUME NEW x \in Place, NEW i \in 2..N[x]
        PROVE  \E z \in Place : \E j \in 2..M[z] : G[z][j] = F[x][i]
    <3>1. CASE x = <<p>>
      <4>1. i \in 1..m /\ n + i \in 2..n + m
        BY <1>l, <1>2, <3>1
      <4> QED
        BY <1>4, <3>1, <4>1
    <3>2. CASE x = y
      <4>1. i \in 1..n /\ i \in 2..n + m
        BY <1>l, <1>2, <3>2
      <4> QED
        BY <1>4, <3>2, <4>1
    <3>3. CASE x # <<p>> /\ x # y
      BY <1>6, <3>3
    <3> QED
      BY <3>1, <3>2, <3>3
  <2>3. n + 1 \in 2..n + m /\ G[y][n + 1] = cell[p]
    BY <1>2, <1>4, <1>13
  <2>4. n + 1 \in 2..M[y]
    BY <1>4, <2>3
  <2> DEFINE S == {c \in Node : \/ c = head
                                \/ \E x \in Place : \E i \in 2..M[x] : G[x][i] = c}
  <2>5. Behind(G, M)' = S
    BY DEF Behind
  <2>6. \A c \in S : c \in Behind(F, N) \cup {cell[p]}
    BY <2>1 DEF Behind
  <2>7. \A c \in Behind(F, N) : c \in S
    BY <2>2 DEF Behind
  <2>8. cell[p] \in S
    BY <1>13, <2>3, <2>4
  <2> HIDE DEF S
  <2> QED
    BY <2>5, <2>6, <2>7, <2>8
<1>22. cell[p] \notin Behind(F, N)
  <2>1. cell[p] # head
    <3>1. head = F[<<>>][1] /\ 1 \in 1..N[<<>>]
      BY <1>0, <1>2, <1>a, Strands DEF Shape, Anchored
    <3> QED
      BY <1>l, <1>0, <1>2, <1>a, <1>9, <1>13, <3>1 DEF OnePlace
  <2>2. ASSUME NEW x \in Place, NEW i \in 2..N[x] PROVE F[x][i] # cell[p]
    <3>1. i \in 1..N[x] /\ i # 1
      BY <1>2
    <3> QED
      BY <1>l, <1>0, <1>2, <1>a, <1>9, <1>13, <3>1 DEF OnePlace
  <2> QED
    BY <2>1, <2>2 DEF Behind
<1> QED
  BY <1>7, <1>10, <1>16, <1>17, <1>18, <1>19, <1>21, <1>22 DEF Shape, OnePlace

(***************************************************************************)
(* Giving a thread a strand of one cell: the head of the list, or a cell   *)
(* that it owns.                                                           *)
(***************************************************************************)
\* The order in which p comes last: nobody whose tail it may link behind had
\* read it later.
Latest(B, p) == {qr \in Procs \X Procs : qr[1] # p /\ (qr[2] = p \/ qr \in B)}

LEMMA LatestOrders ==
  ASSUME NEW B, NEW p \in Procs, \A q \in Procs : <<q, q>> \notin B,
         \A q, r, s \in Procs : <<q, r>> \in B /\ <<r, s>> \in B => <<q, s>> \in B
  PROVE  /\ Latest(B, p) \subseteq Procs \X Procs
         /\ \A q \in Procs : <<q, q>> \notin Latest(B, p)
         /\ \A q, r, s \in Procs :
              <<q, r>> \in Latest(B, p) /\ <<r, s>> \in Latest(B, p) => <<q, s>> \in Latest(B, p)
         /\ \A q, r \in Procs : <<q, r>> \in Latest(B, p) <=> q # p /\ (r = p \/ <<q, r>> \in B)
<1>1. \A q, r \in Procs : <<q, r>> \in Latest(B, p) <=> q # p /\ (r = p \/ <<q, r>> \in B)
  BY DEF Latest
<1>2. Latest(B, p) \subseteq Procs \X Procs
  BY DEF Latest
<1>3. \A q \in Procs : <<q, q>> \notin Latest(B, p)
  BY <1>1
<1>4. ASSUME NEW q \in Procs, NEW r \in Procs, NEW s \in Procs,
             <<q, r>> \in Latest(B, p), <<r, s>> \in Latest(B, p)
      PROVE  <<q, s>> \in Latest(B, p)
  <2>1. q # p /\ r # p /\ <<q, r>> \in B /\ (s = p \/ <<r, s>> \in B)
    BY <1>1, <1>4
  <2>2. s = p \/ <<q, s>> \in B
    BY <2>1
  <2> QED
    BY <1>1, <2>1, <2>2
<1> QED
  BY <1>1, <1>2, <1>3, <1>4

LEMMA TakeHead ==
  ASSUME LFFifoAssumption, TypeOK, NEW F, NEW N, NEW B, Shape(F, N), Ordered(F, N, B),
         NEW p \in Procs, pc[p] = "get_cas", link[head] # End, head # tail,
         head' = link[head], cell' = [cell EXCEPT ![p] = head],
         pc' = [pc EXCEPT ![p] = "get_dec"], UNCHANGED <<tail, link, lptr, holds>>
  PROVE  /\ \E G, M, C : /\ Shape(G, M)' /\ Ordered(G, M, C)'
                         /\ Behind(G, M)' = Behind(F, N) \ {head}
         /\ head \in Behind(F, N)
<1>0. /\ <<p>> \in Place /\ <<>> \in Place /\ <<p>> # <<>> /\ ~ HasCell(p)
      /\ head \in Node /\ NULL \notin Node
  BY Places DEF HasCell, Linking, Carrying, TypeOK, LFFifoAssumption, Node
<1> DEFINE n == N[<<>>]
           G == [x \in Place |-> IF x = <<>> THEN [i \in Nat |-> F[<<>>][i + 1]]
                                 ELSE IF x = <<p>> THEN [i \in Nat |-> F[<<>>][1]] ELSE F[x]]
           M == [x \in Place |-> IF x = <<>> THEN n - 1 ELSE IF x = <<p>> THEN 1 ELSE N[x]]
<1>l. /\ N[<<>>] = n /\ N[<<p>>] = 0 /\ F[<<>>][1] = head
      /\ F[<<>>] \in [Nat -> Node]
      /\ \A x \in Place : F[x] \in [Nat -> Node] /\ N[x] \in Nat
  BY <1>0, Strands DEF Shape, Anchored
<1>1. n \in Nat /\ n >= 2
  <2>1. n \in Nat /\ n >= 1
    BY Strands
  <2>2. n # 1
    BY <1>l DEF Shape, Threaded
  <2> QED
    BY <2>1, <2>2
<1> HIDE DEF n
<1>2. /\ M[<<>>] = n - 1 /\ \A i \in 1..n - 1 : G[<<>>][i] = F[<<>>][i + 1]
      /\ M[<<p>>] = 1 /\ G[<<p>>][1] = head
  <2>1. \A i \in 1..n - 1 : i \in Nat
    BY <1>1
  <2> QED
    BY <1>0, <1>l, <2>1
<1>3. \A x \in Place : x # <<>> /\ x # <<p>> => G[x] = F[x] /\ M[x] = N[x]
  OBVIOUS
<1>4. G \in [Place -> [Nat -> Node]] /\ M \in [Place -> Nat]
  <2>1. \A i \in Nat : F[<<>>][i + 1] \in Node
    <3>1. \A i \in Nat : i + 1 \in Nat
      OBVIOUS
    <3> QED
      BY <1>l, <3>1
  <2>2. G[<<>>] \in [Nat -> Node] /\ G[<<p>>] \in [Nat -> Node]
    BY <1>0, <1>l, <2>1
  <2>3. \A x \in Place : G[x] \in [Nat -> Node]
    BY <1>l, <2>2
  <2>4. n - 1 \in Nat
    BY <1>1
  <2>5. \A x \in Place : M[x] \in Nat
    BY <1>l, <2>4
  <2> QED
    BY <2>3, <2>5
<1> HIDE DEF G, M
<1>5. OnePlace(F, N) /\ Somewhere(F, N) /\ 1 \in 1..n
  BY <1>1 DEF Shape
<1>6. \A i \in 1..n : F[<<>>][i] = head => i = 1
  BY <1>0, <1>l, <1>5 DEF OnePlace
\* A cell of the new strands, where it was.
<1>7. ASSUME NEW x \in Place, NEW i \in 1..M[x]
      PROVE  \/ x = <<p>> /\ i = 1 /\ G[x][i] = head
             \/ x = <<>> /\ i + 1 \in 1..n /\ i + 1 # 1 /\ G[x][i] = F[<<>>][i + 1]
             \/ x # <<p>> /\ x # <<>> /\ i \in 1..N[x] /\ G[x][i] = F[x][i]
  <2>1. CASE x = <<p>>
    <3>1. i = 1
      BY <1>2, <2>1
    <3> QED
      BY <1>2, <2>1, <3>1
  <2>2. CASE x = <<>>
    <3>1. i \in 1..n - 1
      BY <1>2, <2>2
    <3>2. i + 1 \in 1..n /\ i + 1 # 1
      BY <1>1, <3>1
    <3> QED
      BY <1>2, <2>2, <3>1, <3>2
  <2>3. CASE x # <<>> /\ x # <<p>>
    BY <1>3, <2>3
  <2> QED
    BY <2>1, <2>2, <2>3
<1>8. OnePlace(G, M)
  <2> SUFFICES ASSUME NEW x \in Place, NEW z \in Place, NEW i \in 1..M[x],
                      NEW j \in 1..M[z], G[x][i] = G[z][j]
               PROVE  x = z /\ i = j
    BY DEF OnePlace
  <2>h. \A y \in Place : \A k \in 1..N[y] : F[y][k] = head => y = <<>> /\ k = 1
    BY <1>0, <1>l, <1>5 DEF OnePlace
  <2>1. CASE x = <<p>> /\ i = 1 /\ G[x][i] = head
    BY <1>0, <1>7, <1>l, <2>1, <2>h
  <2>2. CASE x = <<>> /\ i + 1 \in 1..n /\ i + 1 # 1 /\ G[x][i] = F[<<>>][i + 1]
    <3>1. G[x][i] # head
      BY <1>0, <1>l, <2>2, <2>h
    <3>2. z = <<>> /\ j + 1 \in 1..n /\ G[z][j] = F[<<>>][j + 1]
      <4>1. CASE z = <<p>> /\ G[z][j] = head
        BY <3>1, <4>1
      <4>2. CASE z # <<p>> /\ z # <<>> /\ j \in 1..N[z] /\ G[z][j] = F[z][j]
        <5>1. F[<<>>][i + 1] = F[z][j] /\ i + 1 \in 1..N[<<>>]
          BY <1>l, <2>2, <4>2
        <5> QED
          BY <1>0, <1>5, <4>2, <5>1 DEF OnePlace
      <4> QED
        BY <1>7, <4>1, <4>2
    <3>3. F[<<>>][i + 1] = F[<<>>][j + 1] /\ i + 1 \in 1..N[<<>>] /\ j + 1 \in 1..N[<<>>]
      BY <1>l, <2>2, <3>2
    <3>4. i + 1 = j + 1
      BY <1>0, <1>5, <3>3 DEF OnePlace
    <3>5. i \in Nat /\ j \in Nat
      BY <1>4
    <3> QED
      BY <2>2, <3>2, <3>4, <3>5
  <2>3. CASE x # <<p>> /\ x # <<>> /\ i \in 1..N[x] /\ G[x][i] = F[x][i]
    <3>1. z # <<p>> /\ z # <<>> /\ j \in 1..N[z] /\ G[z][j] = F[z][j]
      <4>1. CASE z = <<p>> /\ G[z][j] = head
        BY <2>3, <2>h, <4>1
      <4>2. CASE z = <<>> /\ j + 1 \in 1..n /\ G[z][j] = F[<<>>][j + 1]
        <5>1. F[<<>>][j + 1] = F[x][i] /\ j + 1 \in 1..N[<<>>]
          BY <1>l, <2>3, <4>2
        <5> QED
          BY <1>0, <1>5, <2>3, <5>1 DEF OnePlace
      <4> QED
        BY <1>7, <4>1, <4>2
    <3>2. F[x][i] = F[z][j]
      BY <2>3, <3>1
    <3> QED
      BY <1>5, <2>3, <3>1, <3>2 DEF OnePlace
  <2> QED
    BY <1>7, <2>1, <2>2, <2>3
<1>9. /\ \A c : \A x \in Place : x # <<>> /\ x # <<p>> => (InStrand(G, M, x, c) <=> InStrand(F, N, x, c))
      /\ \A c : InStrand(G, M, <<p>>, c) <=> c = head
      /\ \A c : InStrand(G, M, <<>>, c) <=> InStrand(F, N, <<>>, c) /\ c # head
      /\ \A c : ~ InStrand(F, N, <<p>>, c)
  <2>1. ASSUME NEW x \in Place, x # <<>>, x # <<p>>, NEW c
        PROVE  InStrand(G, M, x, c) <=> InStrand(F, N, x, c)
    BY <1>3, <2>1 DEF InStrand
  <2>2. \A c : InStrand(G, M, <<p>>, c) <=> c = head
    BY <1>2 DEF InStrand
  <2>3. ASSUME NEW c, InStrand(G, M, <<>>, c) PROVE InStrand(F, N, <<>>, c) /\ c # head
    <3>1. PICK i \in 1..M[<<>>] : G[<<>>][i] = c
      BY <2>3 DEF InStrand
    <3>2. i + 1 \in 1..n /\ i + 1 # 1 /\ c = F[<<>>][i + 1]
      BY <1>0, <1>7, <3>1
    <3> QED
      BY <1>6, <1>l, <3>2 DEF InStrand
  <2>4. ASSUME NEW c, InStrand(F, N, <<>>, c), c # head PROVE InStrand(G, M, <<>>, c)
    <3>1. PICK i \in 1..n : F[<<>>][i] = c
      BY <1>l, <2>4 DEF InStrand
    <3>2. i # 1
      BY <1>l, <2>4, <3>1
    <3>3. i - 1 \in 1..n - 1 /\ (i - 1) + 1 = i
      BY <1>1, <3>2
    <3>4. G[<<>>][i - 1] = c
      BY <1>2, <3>1, <3>3
    <3> QED
      BY <1>2, <3>3, <3>4 DEF InStrand
  <2>5. \A c : ~ InStrand(F, N, <<p>>, c)
    BY <1>l DEF InStrand
  <2> QED
    BY <2>1, <2>2, <2>3, <2>4, <2>5
<1>10. \A q \in Procs \ {p} : /\ pc'[q] = pc[q] /\ cell'[q] = cell[q] /\ (HasCell(q)' <=> HasCell(q))
                              /\ <<q>> \in Place /\ <<q>> # <<p>> /\ <<q>> # <<>>
  BY Places DEF HasCell, TypeOK
<1>11. pc'[p] = "get_dec" /\ cell'[p] = head
  BY DEF TypeOK
<1>12. Threaded(G, M)'
  <2>1. ASSUME NEW x \in Place, NEW i \in 1..M[x] - 1
        PROVE  link[G[x][i]] = G[x][i + 1]
    <3>1. CASE x = <<p>>
      BY <1>2, <3>1
    <3>2. CASE x = <<>>
      <4>1. i \in 1..n - 1 /\ i + 1 \in 1..n - 1 /\ i + 1 \in 1..n
        BY <1>1, <1>2, <3>2
      <4>2. G[<<>>][i] = F[<<>>][i + 1] /\ G[<<>>][i + 1] = F[<<>>][(i + 1) + 1]
        BY <1>2, <4>1
      <4>3. link[F[<<>>][i + 1]] = F[<<>>][(i + 1) + 1]
        BY <1>0, <1>l, <4>1 DEF Shape, Threaded
      <4> QED
        BY <3>2, <4>2, <4>3
    <3>3. CASE x # <<>> /\ x # <<p>>
      BY <1>3, <3>3 DEF Shape, Threaded
    <3> QED
      BY <3>1, <3>2, <3>3
  <2>2. link[G[<<>>][M[<<>>]]] = End
    <3>1. n - 1 \in 1..n - 1 /\ (n - 1) + 1 = n
      BY <1>1
    <3>2. G[<<>>][n - 1] = F[<<>>][n]
      BY <1>2, <3>1
    <3>3. link[F[<<>>][n]] = End
      BY <1>l DEF Shape, Threaded
    <3> QED
      BY <1>2, <3>2, <3>3
  <2>3. ASSUME NEW q \in Procs, pc'[q] \in Linking PROVE link[G[<<q>>][M[<<q>>]]] = End
    <3>1. q # p
      BY <1>11, <2>3 DEF Linking
    <3> QED
      BY <1>3, <1>10, <2>3, <3>1 DEF Shape, Threaded
  <2> QED
    BY <2>1, <2>2, <2>3 DEF Threaded
<1>13. Anchored(G, M)'
  <2>1. M[<<>>] >= 1 /\ G[<<>>][1] = head'
    <3>1. 1 \in 1..n - 1 /\ n - 1 >= 1
      BY <1>1
    <3>2. G[<<>>][1] = F[<<>>][1 + 1]
      BY <1>2, <3>1
    <3>3. link[F[<<>>][1]] = F[<<>>][1 + 1]
      BY <1>0, <1>l, <3>1 DEF Shape, Threaded
    <3> QED
      BY <1>2, <1>l, <3>1, <3>2, <3>3
  <2>2. InStrand(G, M, <<>>, tail')
    <3>1. InStrand(F, N, <<>>, tail)
      BY DEF Shape, Anchored
    <3> QED
      BY <1>9, <3>1
  <2>3. ASSUME NEW q \in Procs
        PROVE  /\ HasCell(q)' => M[<<q>>] >= 1 /\ G[<<q>>][1] = cell'[q]
               /\ ~ HasCell(q)' => M[<<q>>] = 0
               /\ pc'[q] \in Carrying /\ cell'[q] # NULL =>
                    M[<<q>>] = 1 /\ link'[cell'[q]] # End
    <3>1. CASE q = p
      <4>1. HasCell(q)'
        BY <1>0, <1>11, <3>1 DEF HasCell, Carrying
      <4> QED
        BY <1>2, <1>11, <3>1, <4>1
    <3>2. CASE q # p
      <4>1. G[<<q>>] = F[<<q>>] /\ M[<<q>>] = N[<<q>>]
        BY <1>3, <1>10, <3>2
      <4> QED
        BY <1>10, <3>2, <4>1 DEF Shape, Anchored
    <3> QED
      BY <3>1, <3>2
  <2> QED
    BY <2>1, <2>2, <2>3 DEF Anchored, InStrand
<1>14. Somewhere(G, M)'
  <2>1. ASSUME NEW c \in Node
        PROVE  (\E x \in Place : InStrand(G, M, x, c)) \/ \E q \in Procs : c \in holds[q]
    <3>1. CASE \E x \in Place : InStrand(F, N, x, c)
      <4>1. PICK x \in Place : InStrand(F, N, x, c)
        BY <3>1
      <4>2. InStrand(G, M, <<p>>, c) \/ InStrand(G, M, x, c)
        BY <1>9, <4>1
      <4> QED
        BY <1>0, <4>2
    <3> QED
      BY <1>5, <3>1 DEF Somewhere
  <2>2. ASSUME NEW q \in Procs, NEW c \in holds[q]
        PROVE  /\ link[c] # End /\ \A x \in Place : ~ InStrand(G, M, x, c)
               /\ \A r \in Procs : c \in holds[r] => r = q
    <3>1. /\ link[c] # End /\ \A x \in Place : ~ InStrand(F, N, x, c)
          /\ \A r \in Procs : c \in holds[r] => r = q
      BY <1>5 DEF Somewhere
    <3>2. InStrand(F, N, <<>>, head)
      BY <1>5, <1>l DEF InStrand
    <3>3. c # head
      BY <1>0, <3>1, <3>2
    <3>4. \A x \in Place : ~ InStrand(G, M, x, c)
      BY <1>0, <1>9, <3>1, <3>3
    <3> QED
      BY <3>1, <3>4
  <2> QED
    BY <2>1, <2>2 DEF Somewhere, InStrand
<1>15. Ordered(G, M, Latest(B, p))'
  <2>1. ASSUME NEW r \in Procs, NEW q \in Procs,
               pc'[r] = "put_link", InStrand(G, M, <<q>>, lptr[r])
        PROVE  <<r, q>> \in Latest(B, p)
    <3>1. r # p /\ pc[r] = "put_link"
      BY <1>10, <1>11, <2>1
    <3>2. q = p \/ <<r, q>> \in B
      <4>1. ASSUME q # p PROVE <<r, q>> \in B
        <5>1. InStrand(F, N, <<q>>, lptr[r])
          BY <1>9, <1>10, <2>1, <4>1
        <5> QED
          BY <3>1, <5>1 DEF Ordered
      <4> QED
        BY <4>1
    <3> QED
      BY <3>1, <3>2, LatestOrders DEF Ordered
  <2> QED
    BY <2>1, LatestOrders DEF Ordered, InStrand
<1>16. Behind(G, M)' = Behind(F, N) \ {head}
  <2> DEFINE S == {c \in Node : \/ c = link[head]
                                \/ \E x \in Place : \E i \in 2..M[x] : G[x][i] = c}
  <2>1. Behind(G, M)' = S
    BY DEF Behind
  <2>2. link[head] = F[<<>>][2] /\ 2 \in 2..n /\ 2 \in 1..n
    <3>1. 1 \in 1..n - 1 /\ 2 \in 1..n /\ 2 \in 2..n
      BY <1>1
    <3> QED
      BY <1>0, <1>l, <3>1 DEF Shape, Threaded
  <2>3. ASSUME NEW x \in Place, NEW i \in 2..M[x]
        PROVE  \E z \in Place : \E j \in 2..N[z] : F[z][j] = G[x][i] /\ G[x][i] # head
    <3>1. CASE x = <<p>>
      BY <1>2, <3>1
    <3>2. CASE x = <<>>
      <4>1. i \in 1..n - 1 /\ i + 1 \in 2..n /\ i + 1 \in 1..n /\ i + 1 # 1
        BY <1>1, <1>2, <3>2
      <4>2. G[x][i] = F[<<>>][i + 1] /\ F[<<>>][i + 1] # head
        BY <1>2, <1>6, <3>2, <4>1
      <4> QED
        BY <1>0, <1>l, <4>1, <4>2
    <3>3. CASE x # <<>> /\ x # <<p>>
      <4>1. G[x] = F[x] /\ M[x] = N[x]
        BY <1>3, <3>3
      <4>2. i \in 1..N[x] /\ i \in 2..N[x]
        BY <4>1
      <4>3. F[x][i] # head
        BY <1>0, <1>l, <1>5, <3>3, <4>2 DEF OnePlace
      <4> QED
        BY <4>1, <4>2, <4>3
    <3> QED
      BY <3>1, <3>2, <3>3
  <2>4. ASSUME NEW x \in Place, NEW i \in 2..N[x], F[x][i] # link[head]
        PROVE  \E z \in Place : \E j \in 2..M[z] : G[z][j] = F[x][i]
    <3>1. CASE x = <<p>>
      BY <1>l, <3>1
    <3>2. CASE x = <<>>
      <4>1. i \in 2..n
        BY <1>l, <3>2
      <4>2. i # 2
        BY <2>2, <2>4, <3>2
      <4>3. i - 1 \in 1..n - 1 /\ i - 1 \in 2..n - 1 /\ (i - 1) + 1 = i
        BY <1>1, <4>1, <4>2
      <4>4. G[<<>>][i - 1] = F[<<>>][i]
        BY <1>2, <4>3
      <4> QED
        BY <1>0, <1>2, <3>2, <4>3, <4>4
    <3>3. CASE x # <<>> /\ x # <<p>>
      BY <1>3, <3>3
    <3> QED
      BY <3>1, <3>2, <3>3
  <2>5. link[head] \in Behind(F, N) \ {head}
    <3>1. link[head] # head /\ link[head] \in Node
      BY <1>6, <2>2, <1>l, Strands, <1>0
    <3> QED
      BY <1>0, <1>l, <2>2, <3>1 DEF Behind
  <2>6. ASSUME NEW c \in S PROVE c \in Behind(F, N) \ {head}
    <3>1. CASE c = link[head]
      BY <2>5, <3>1
    <3>2. CASE \E x \in Place : \E i \in 2..M[x] : G[x][i] = c
      BY <2>3, <3>2 DEF Behind
    <3> QED
      BY <3>1, <3>2
  <2>7. ASSUME NEW c \in Behind(F, N) \ {head} PROVE c \in S
    BY <2>4, <2>7 DEF Behind
  <2> HIDE DEF S
  <2> QED
    BY <2>1, <2>6, <2>7
<1>17. head \in Behind(F, N)
  BY <1>0 DEF Behind
<1>18. Shape(G, M)'
  BY <1>4, <1>8, <1>12, <1>13, <1>14 DEF Shape, OnePlace
<1> QED
  BY <1>15, <1>16, <1>17, <1>18

LEMMA TakeOwn ==
  ASSUME LFFifoAssumption, TypeOK, NEW F, NEW N, NEW B, Shape(F, N), Ordered(F, N, B),
         NEW p \in Procs, pc[p] = "idle", NEW c \in holds[p],
         holds' = [holds EXCEPT ![p] = @ \ {c}], cell' = [cell EXCEPT ![p] = c],
         pc' = [pc EXCEPT ![p] = "put_end"], UNCHANGED <<head, tail, link, lptr>>
  PROVE  \E G, M, C : /\ Shape(G, M)' /\ Ordered(G, M, C)' /\ Behind(G, M)' = Behind(F, N)
<1>0. /\ <<p>> \in Place /\ <<>> \in Place /\ <<p>> # <<>> /\ ~ HasCell(p)
      /\ c \in Node /\ NULL \notin Node
  BY Places DEF HasCell, Linking, Carrying, TypeOK, LFFifoAssumption, Node
<1> DEFINE G == [x \in Place |-> IF x = <<p>> THEN [i \in Nat |-> c] ELSE F[x]]
           M == [x \in Place |-> IF x = <<p>> THEN 1 ELSE N[x]]
<1>l. /\ N[<<p>>] = 0
      /\ \A x \in Place : F[x] \in [Nat -> Node] /\ N[x] \in Nat
  BY <1>0, Strands DEF Shape
<1>1. /\ link[c] # End /\ \A x \in Place : ~ InStrand(F, N, x, c)
      /\ \A r \in Procs : c \in holds[r] => r = p
  BY DEF Shape, Somewhere
<1>2. M[<<p>>] = 1 /\ G[<<p>>][1] = c
  BY <1>0
<1>3. \A x \in Place : x # <<p>> => G[x] = F[x] /\ M[x] = N[x]
  OBVIOUS
<1>4. G \in [Place -> [Nat -> Node]] /\ M \in [Place -> Nat]
  BY <1>0, <1>l
<1> HIDE DEF G, M
<1>5. OnePlace(F, N) /\ Somewhere(F, N)
  BY DEF Shape
<1>6. \A i \in 1..M[<<p>>] : i = 1 /\ G[<<p>>][i] = c
  BY <1>2
<1>7. \A x \in Place : \A i \in 1..N[x] : F[x][i] # c
  BY <1>1 DEF InStrand
<1>8. OnePlace(G, M)
  <2> SUFFICES ASSUME NEW x \in Place, NEW z \in Place, NEW i \in 1..M[x],
                      NEW j \in 1..M[z], G[x][i] = G[z][j]
               PROVE  x = z /\ i = j
    BY DEF OnePlace
  <2>1. CASE x = <<p>>
    BY <1>3, <1>6, <1>7, <2>1
  <2>2. CASE x # <<p>>
    <3>1. z # <<p>>
      BY <1>3, <1>6, <1>7, <2>2
    <3> QED
      BY <1>3, <1>5, <2>2, <3>1 DEF OnePlace
  <2> QED
    BY <2>1, <2>2
<1>9. /\ \A d : \A x \in Place : x # <<p>> => (InStrand(G, M, x, d) <=> InStrand(F, N, x, d))
      /\ \A d : InStrand(G, M, <<p>>, d) <=> d = c
      /\ \A d : ~ InStrand(F, N, <<p>>, d)
  <2>1. ASSUME NEW x \in Place, x # <<p>>, NEW d
        PROVE  InStrand(G, M, x, d) <=> InStrand(F, N, x, d)
    BY <1>3, <2>1 DEF InStrand
  <2>2. \A d : InStrand(G, M, <<p>>, d) <=> d = c
    BY <1>2 DEF InStrand
  <2>3. \A d : ~ InStrand(F, N, <<p>>, d)
    BY <1>l DEF InStrand
  <2> QED
    BY <2>1, <2>2, <2>3
<1>10. \A q \in Procs \ {p} : /\ pc'[q] = pc[q] /\ cell'[q] = cell[q] /\ (HasCell(q)' <=> HasCell(q))
                              /\ holds'[q] = holds[q] /\ <<q>> \in Place /\ <<q>> # <<p>>
  BY Places DEF HasCell, TypeOK
<1>11. pc'[p] = "put_end" /\ cell'[p] = c /\ holds'[p] = holds[p] \ {c}
  BY DEF TypeOK
<1>12. Threaded(G, M)'
  <2>1. ASSUME NEW x \in Place, NEW i \in 1..M[x] - 1
        PROVE  link[G[x][i]] = G[x][i + 1]
    <3>1. CASE x = <<p>>
      BY <1>2, <3>1
    <3>2. CASE x # <<p>>
      BY <1>3, <3>2 DEF Shape, Threaded
    <3> QED
      BY <3>1, <3>2
  <2>2. link[G[<<>>][M[<<>>]]] = End
    BY <1>0, <1>3 DEF Shape, Threaded
  <2>3. ASSUME NEW q \in Procs, pc'[q] \in Linking PROVE link[G[<<q>>][M[<<q>>]]] = End
    <3>1. q # p
      BY <1>11, <2>3 DEF Linking
    <3> QED
      BY <1>3, <1>10, <2>3, <3>1 DEF Shape, Threaded
  <2> QED
    BY <2>1, <2>2, <2>3 DEF Threaded
<1>13. Anchored(G, M)'
  <2>1. M[<<>>] >= 1 /\ G[<<>>][1] = head'
    BY <1>0, <1>3 DEF Shape, Anchored
  <2>2. InStrand(G, M, <<>>, tail')
    <3>1. InStrand(F, N, <<>>, tail)
      BY DEF Shape, Anchored
    <3> QED
      BY <1>0, <1>9, <3>1
  <2>3. ASSUME NEW q \in Procs
        PROVE  /\ HasCell(q)' => M[<<q>>] >= 1 /\ G[<<q>>][1] = cell'[q]
               /\ ~ HasCell(q)' => M[<<q>>] = 0
               /\ pc'[q] \in Carrying /\ cell'[q] # NULL =>
                    M[<<q>>] = 1 /\ link'[cell'[q]] # End
    <3>1. CASE q = p
      <4>1. HasCell(q)'
        BY <1>0, <1>11, <3>1 DEF HasCell, Carrying
      <4> QED
        BY <1>1, <1>2, <1>11, <3>1, <4>1
    <3>2. CASE q # p
      <4>1. G[<<q>>] = F[<<q>>] /\ M[<<q>>] = N[<<q>>]
        BY <1>3, <1>10, <3>2
      <4> QED
        BY <1>10, <3>2, <4>1 DEF Shape, Anchored
    <3> QED
      BY <3>1, <3>2
  <2> QED
    BY <2>1, <2>2, <2>3 DEF Anchored, InStrand
<1>14. Somewhere(G, M)'
  <2>1. ASSUME NEW d \in Node
        PROVE  (\E x \in Place : InStrand(G, M, x, d)) \/ \E q \in Procs : d \in holds'[q]
    <3>1. CASE d = c
      BY <1>0, <1>9, <3>1
    <3>2. CASE \E x \in Place : InStrand(F, N, x, d)
      <4>1. PICK x \in Place : InStrand(F, N, x, d)
        BY <3>2
      <4> QED
        BY <1>9, <4>1
    <3>3. CASE d # c /\ \E q \in Procs : d \in holds[q]
      BY <1>10, <1>11, <3>3
    <3> QED
      BY <1>5, <3>1, <3>2, <3>3 DEF Somewhere
  <2>2. ASSUME NEW q \in Procs, NEW d \in holds'[q]
        PROVE  /\ link[d] # End /\ \A x \in Place : ~ InStrand(G, M, x, d)
               /\ \A r \in Procs : d \in holds'[r] => r = q
    <3>1. d \in holds[q] /\ d # c
      BY <1>1, <1>10, <1>11
    <3>2. /\ link[d] # End /\ \A x \in Place : ~ InStrand(F, N, x, d)
          /\ \A r \in Procs : d \in holds[r] => r = q
      BY <1>5, <3>1 DEF Somewhere
    <3>3. \A x \in Place : ~ InStrand(G, M, x, d)
      BY <1>9, <3>1, <3>2
    <3>4. \A r \in Procs : d \in holds'[r] => d \in holds[r]
      BY <1>10, <1>11
    <3> QED
      BY <3>2, <3>3, <3>4
  <2> QED
    BY <2>1, <2>2 DEF Somewhere, InStrand
<1>15. Ordered(G, M, Latest(B, p))'
  <2>1. ASSUME NEW r \in Procs, NEW q \in Procs,
               pc'[r] = "put_link", InStrand(G, M, <<q>>, lptr[r])
        PROVE  <<r, q>> \in Latest(B, p)
    <3>1. r # p /\ pc[r] = "put_link"
      BY <1>10, <1>11, <2>1
    <3>2. q = p \/ <<r, q>> \in B
      <4>1. ASSUME q # p PROVE <<r, q>> \in B
        <5>1. InStrand(F, N, <<q>>, lptr[r])
          BY <1>9, <1>10, <2>1, <4>1
        <5> QED
          BY <3>1, <5>1 DEF Ordered
      <4> QED
        BY <4>1
    <3> QED
      BY <3>1, <3>2, LatestOrders DEF Ordered
  <2> QED
    BY <2>1, LatestOrders DEF Ordered, InStrand
<1>16. Behind(G, M)' = Behind(F, N)
  <2>1. \A d : (\E x \in Place : \E i \in 2..M[x] : G[x][i] = d)
                 <=> (\E x \in Place : \E i \in 2..N[x] : F[x][i] = d)
    <3> SUFFICES ASSUME NEW d
                 PROVE  (\E x \in Place : \E i \in 2..M[x] : G[x][i] = d)
                          <=> (\E x \in Place : \E i \in 2..N[x] : F[x][i] = d)
      OBVIOUS
    <3>1. \A i \in 2..M[<<p>>] : FALSE
      BY <1>2
    <3>2. \A i \in 2..N[<<p>>] : FALSE
      BY <1>l
    <3> QED
      BY <1>3, <3>1, <3>2
  <2> QED
    BY <2>1 DEF Behind
<1>17. Shape(G, M)'
  BY <1>4, <1>8, <1>12, <1>13, <1>14 DEF Shape, OnePlace
<1> QED
  BY <1>15, <1>16, <1>17

(***************************************************************************)
(* The caller of fifoget owns the cell it brings.                          *)
(***************************************************************************)
LEMMA GiveCell ==
  ASSUME LFFifoAssumption, TypeOK, NEW F, NEW N, NEW B, Shape(F, N), Ordered(F, N, B),
         NEW p \in Procs, pc[p] = "return", cell[p] \in Cells,
         holds' = [holds EXCEPT ![p] = @ \cup {cell[p]}], cell' = [cell EXCEPT ![p] = NULL],
         pc' = [pc EXCEPT ![p] = "idle"], lptr' = [lptr EXCEPT ![p] = NULL],
         UNCHANGED <<head, tail, link>>
  PROVE  \E M : /\ Shape(F, M)' /\ Ordered(F, M, B)' /\ Behind(F, M)' = Behind(F, N)
<1>0. /\ <<p>> \in Place /\ <<>> \in Place /\ <<p>> # <<>>
      /\ cell[p] # NULL /\ pc[p] \in Carrying /\ HasCell(p)
  BY Places DEF HasCell, Carrying, LFFifoAssumption
<1> DEFINE M == [x \in Place |-> IF x = <<p>> THEN 0 ELSE N[x]]
<1>l. /\ N[<<p>>] = 1 /\ F[<<p>>][1] = cell[p] /\ link[cell[p]] # End
      /\ \A x \in Place : N[x] \in Nat
  BY <1>0, Strands DEF Shape, Anchored
<1>2. M[<<p>>] = 0 /\ M \in [Place -> Nat]
  BY <1>0, <1>l
<1>3. \A x \in Place : x # <<p>> => M[x] = N[x]
  OBVIOUS
<1> HIDE DEF M
<1>4. OnePlace(F, N) /\ Somewhere(F, N)
  BY DEF Shape
<1>5. \A x \in Place : \A i \in 1..M[x] : x # <<p>> /\ i \in 1..N[x]
  BY <1>2, <1>3
<1>6. /\ \A d : \A x \in Place : InStrand(F, M, x, d) <=> x # <<p>> /\ InStrand(F, N, x, d)
      /\ \A d : InStrand(F, N, <<p>>, d) <=> d = cell[p]
  <2>1. ASSUME NEW d, NEW x \in Place
        PROVE  InStrand(F, M, x, d) <=> x # <<p>> /\ InStrand(F, N, x, d)
    BY <1>3, <1>5 DEF InStrand
  <2>2. \A d : InStrand(F, N, <<p>>, d) <=> d = cell[p]
    BY <1>l DEF InStrand
  <2> QED
    BY <2>1, <2>2
<1>7. OnePlace(F, M)
  BY <1>4, <1>5 DEF OnePlace
<1>8. \A x \in Place : x # <<p>> => ~ InStrand(F, N, x, cell[p])
  BY <1>0, <1>4, <1>l DEF InStrand, OnePlace
<1>9. \A q \in Procs : cell[p] \notin holds[q]
  BY <1>0, <1>4, <1>6 DEF Somewhere
<1>10. \A q \in Procs \ {p} : /\ pc'[q] = pc[q] /\ cell'[q] = cell[q] /\ (HasCell(q)' <=> HasCell(q))
                              /\ holds'[q] = holds[q] /\ lptr'[q] = lptr[q]
                              /\ <<q>> \in Place /\ <<q>> # <<p>>
  BY Places DEF HasCell, TypeOK
<1>11. pc'[p] = "idle" /\ cell'[p] = NULL /\ holds'[p] = holds[p] \cup {cell[p]}
  BY DEF TypeOK
<1>12. Threaded(F, M)'
  <2>1. ASSUME NEW x \in Place, NEW i \in 1..M[x] - 1
        PROVE  link[F[x][i]] = F[x][i + 1]
    <3>1. CASE x = <<p>>
      BY <1>2, <3>1
    <3>2. CASE x # <<p>>
      BY <1>3, <3>2 DEF Shape, Threaded
    <3> QED
      BY <3>1, <3>2
  <2>2. link[F[<<>>][M[<<>>]]] = End
    BY <1>0, <1>3 DEF Shape, Threaded
  <2>3. ASSUME NEW q \in Procs, pc'[q] \in Linking PROVE link[F[<<q>>][M[<<q>>]]] = End
    <3>1. q # p
      BY <1>11, <2>3 DEF Linking
    <3> QED
      BY <1>3, <1>10, <2>3, <3>1 DEF Shape, Threaded
  <2> QED
    BY <2>1, <2>2, <2>3 DEF Threaded
<1>13. Anchored(F, M)'
  <2>1. M[<<>>] >= 1 /\ F[<<>>][1] = head'
    BY <1>0, <1>3 DEF Shape, Anchored
  <2>2. InStrand(F, M, <<>>, tail')
    <3>1. InStrand(F, N, <<>>, tail)
      BY DEF Shape, Anchored
    <3> QED
      BY <1>0, <1>6, <3>1
  <2>3. ASSUME NEW q \in Procs
        PROVE  /\ HasCell(q)' => M[<<q>>] >= 1 /\ F[<<q>>][1] = cell'[q]
               /\ ~ HasCell(q)' => M[<<q>>] = 0
               /\ pc'[q] \in Carrying /\ cell'[q] # NULL =>
                    M[<<q>>] = 1 /\ link'[cell'[q]] # End
    <3>1. CASE q = p
      <4>1. ~ HasCell(q)'
        BY <1>11, <3>1 DEF HasCell, Linking, Carrying
      <4> QED
        BY <1>2, <1>11, <3>1, <4>1
    <3>2. CASE q # p
      <4>1. M[<<q>>] = N[<<q>>]
        BY <1>3, <1>10, <3>2
      <4> QED
        BY <1>10, <3>2, <4>1 DEF Shape, Anchored
    <3> QED
      BY <3>1, <3>2
  <2> QED
    BY <2>1, <2>2, <2>3 DEF Anchored, InStrand
<1>14. Somewhere(F, M)'
  <2>1. ASSUME NEW d \in Node
        PROVE  (\E x \in Place : InStrand(F, M, x, d)) \/ \E q \in Procs : d \in holds'[q]
    <3>1. CASE d = cell[p]
      BY <1>11, <3>1
    <3>2. CASE d # cell[p] /\ \E x \in Place : InStrand(F, N, x, d)
      <4>1. PICK x \in Place : InStrand(F, N, x, d)
        BY <3>2
      <4> QED
        BY <1>6, <3>2, <4>1
    <3>3. CASE \E q \in Procs : d \in holds[q]
      BY <1>10, <1>11, <3>3
    <3> QED
      BY <1>4, <3>1, <3>2, <3>3 DEF Somewhere
  <2>2. ASSUME NEW q \in Procs, NEW d \in holds'[q]
        PROVE  /\ link[d] # End /\ \A x \in Place : ~ InStrand(F, M, x, d)
               /\ \A r \in Procs : d \in holds'[r] => r = q
    <3>1. CASE d = cell[p]
      <4>1. \A r \in Procs : d \in holds'[r] => r = p
        BY <1>9, <1>10, <3>1
      <4> QED
        BY <1>6, <1>8, <1>l, <3>1, <4>1
    <3>2. CASE d # cell[p]
      <4>1. \A r \in Procs : d \in holds'[r] => d \in holds[r]
        BY <1>10, <1>11, <3>2
      <4>2. /\ link[d] # End /\ \A x \in Place : ~ InStrand(F, N, x, d)
            /\ \A r \in Procs : d \in holds[r] => r = q
        BY <1>4, <4>1 DEF Somewhere
      <4> QED
        BY <1>6, <4>1, <4>2
    <3> QED
      BY <3>1, <3>2
  <2> QED
    BY <2>1, <2>2 DEF Somewhere, InStrand
<1>15. Ordered(F, M, B)'
  <2>1. ASSUME NEW r \in Procs, NEW q \in Procs,
               pc'[r] = "put_link", InStrand(F, M, <<q>>, lptr'[r])
        PROVE  <<r, q>> \in B
    <3>1. r # p /\ pc[r] = "put_link" /\ lptr'[r] = lptr[r]
      BY <1>10, <1>11, <2>1
    <3>2. InStrand(F, N, <<q>>, lptr[r])
      BY <1>6, <2>1, <3>1, Places
    <3> QED
      BY <3>1, <3>2 DEF Ordered
  <2> QED
    BY <2>1 DEF Ordered, InStrand
<1>16. Behind(F, M)' = Behind(F, N)
  <2>1. \A d : (\E x \in Place : \E i \in 2..M[x] : F[x][i] = d)
                 <=> (\E x \in Place : \E i \in 2..N[x] : F[x][i] = d)
    <3> SUFFICES ASSUME NEW d
                 PROVE  (\E x \in Place : \E i \in 2..M[x] : F[x][i] = d)
                          <=> (\E x \in Place : \E i \in 2..N[x] : F[x][i] = d)
      OBVIOUS
    <3>1. \A i \in 2..M[<<p>>] : FALSE
      BY <1>2
    <3>2. \A i \in 2..N[<<p>>] : FALSE
      BY <1>l
    <3> QED
      BY <1>3, <3>1, <3>2
  <2> QED
    BY <2>1 DEF Behind
<1>17. Shape(F, M)'
  BY <1>2, <1>7, <1>12, <1>13, <1>14 DEF Shape, OnePlace
<1> QED
  BY <1>15, <1>16, <1>17

(***************************************************************************)
(* Writing the word of a cell that a thread is to link, or that it owns.   *)
(***************************************************************************)
LEMMA EndCell ==
  ASSUME LFFifoAssumption, TypeOK, NEW F, NEW N, NEW B, Shape(F, N), Ordered(F, N, B),
         NEW p \in Procs, pc[p] = "put_end", cell[p] \in Node,
         link' = [link EXCEPT ![cell[p]] = End], pc' = [pc EXCEPT ![p] = "put_ic"],
         UNCHANGED <<head, tail, cell, lptr, holds>>
  PROVE  Shape(F, N)' /\ Ordered(F, N, B)' /\ Behind(F, N)' = Behind(F, N)
<1>0. /\ <<p>> \in Place /\ <<>> \in Place /\ <<p>> # <<>>
      /\ cell[p] # NULL /\ pc[p] \in Carrying /\ HasCell(p)
  BY Places DEF HasCell, Carrying, LFFifoAssumption, Node
<1>l. /\ N[<<p>>] = 1 /\ F[<<p>>][1] = cell[p]
      /\ \A x \in Place : N[x] \in Nat
  BY <1>0, Strands DEF Shape, Anchored
<1>1. OnePlace(F, N) /\ Somewhere(F, N)
  BY DEF Shape
<1>2. \A x \in Place : \A i \in 1..N[x] : F[x][i] = cell[p] => x = <<p>> /\ i = 1
  BY <1>0, <1>1, <1>l DEF OnePlace
<1>3. \A c \in Node : link'[c] = IF c = cell[p] THEN End ELSE link[c]
  BY DEF TypeOK, Node
<1>4. \A q \in Procs \ {p} : pc'[q] = pc[q] /\ (HasCell(q)' <=> HasCell(q))
                             /\ <<q>> \in Place /\ <<q>> # <<p>>
  BY Places DEF HasCell, TypeOK
<1>5. pc'[p] = "put_ic"
  BY DEF TypeOK
<1>6. \A x \in Place : x # <<p>> => \A i \in 1..N[x] : link'[F[x][i]] = link[F[x][i]]
  BY <1>2, <1>3, Strands
<1>7. Threaded(F, N)'
  <2>1. ASSUME NEW x \in Place, NEW i \in 1..N[x] - 1
        PROVE  link'[F[x][i]] = F[x][i + 1]
    <3>1. CASE x = <<p>>
      BY <1>l, <3>1
    <3>2. CASE x # <<p>>
      <4>1. i \in 1..N[x]
        BY <1>l
      <4> QED
        BY <1>6, <3>2, <4>1 DEF Shape, Threaded
    <3> QED
      BY <3>1, <3>2
  <2>2. link'[F[<<>>][N[<<>>]]] = End
    <3>1. N[<<>>] \in 1..N[<<>>]
      BY Strands
    <3> QED
      BY <1>0, <1>6, <3>1 DEF Shape, Threaded
  <2>3. ASSUME NEW q \in Procs, pc'[q] \in Linking PROVE link'[F[<<q>>][N[<<q>>]]] = End
    <3>1. CASE q = p
      BY <1>3, <1>l, <3>1
    <3>2. CASE q # p
      <4>1. pc[q] \in Linking /\ HasCell(q)
        BY <1>4, <2>3, <3>2 DEF HasCell
      <4>2. N[<<q>>] \in 1..N[<<q>>]
        BY <4>1, Strands
      <4> QED
        BY <1>4, <1>6, <3>2, <4>1, <4>2 DEF Shape, Threaded
    <3> QED
      BY <3>1, <3>2
  <2> QED
    BY <2>1, <2>2, <2>3 DEF Threaded
<1>8. Anchored(F, N)'
  <2>1. ASSUME NEW q \in Procs
        PROVE  /\ HasCell(q)' => N[<<q>>] >= 1 /\ F[<<q>>][1] = cell'[q]
               /\ ~ HasCell(q)' => N[<<q>>] = 0
               /\ pc'[q] \in Carrying /\ cell'[q] # NULL =>
                    N[<<q>>] = 1 /\ link'[cell'[q]] # End
    <3>1. CASE q = p
      <4>1. HasCell(q)' /\ ~ pc'[q] \in Carrying
        BY <1>5, <3>1 DEF HasCell, Linking, Carrying
      <4> QED
        BY <1>l, <3>1, <4>1
    <3>2. CASE q # p
      <4>1. /\ HasCell(q)' => N[<<q>>] >= 1 /\ F[<<q>>][1] = cell'[q]
            /\ ~ HasCell(q)' => N[<<q>>] = 0
        BY <1>4, <3>2 DEF Shape, Anchored
      <4>2. ASSUME pc'[q] \in Carrying, cell'[q] # NULL
            PROVE  N[<<q>>] = 1 /\ link'[cell'[q]] # End
        <5>1. N[<<q>>] = 1 /\ link[cell[q]] # End /\ F[<<q>>][1] = cell[q]
          BY <1>4, <3>2, <4>2 DEF Shape, Anchored, HasCell
        <5>2. link'[F[<<q>>][1]] = link[F[<<q>>][1]]
          BY <1>4, <1>6, <3>2, <5>1
        <5> QED
          BY <5>1, <5>2
      <4> QED
        BY <4>1, <4>2
    <3> QED
      BY <3>1, <3>2
  <2> QED
    BY <2>1 DEF Shape, Anchored, InStrand
<1>9. Somewhere(F, N)'
  <2>1. ASSUME NEW q \in Procs, NEW c \in holds[q] PROVE link'[c] # End
    <3>1. InStrand(F, N, <<p>>, cell[p])
      BY <1>l DEF InStrand
    <3>2. c \in Node /\ c # cell[p] /\ link[c] # End
      BY <1>0, <1>1, <3>1 DEF Somewhere, TypeOK, Node
    <3> QED
      BY <1>3, <3>2
  <2> QED
    BY <1>1, <2>1 DEF Somewhere, InStrand
<1>10. Ordered(F, N, B)'
  <2>1. \A q \in Procs : pc'[q] = "put_link" => pc[q] = "put_link"
    BY <1>4, <1>5
  <2> QED
    BY <2>1 DEF Ordered, InStrand
<1>11. Behind(F, N)' = Behind(F, N)
  BY DEF Behind
<1> QED
  BY <1>1, <1>7, <1>8, <1>9, <1>10, <1>11 DEF Shape, OnePlace

LEMMA PassCell ==
  ASSUME LFFifoAssumption, TypeOK, NEW F, NEW N, NEW B, Shape(F, N), Ordered(F, N, B),
         NEW p \in Procs, NEW q \in Producers, NEW c \in Cells, Recycle(p, q, c)
  PROVE  Shape(F, N)' /\ Ordered(F, N, B)' /\ Behind(F, N)' = Behind(F, N)
<1>0. p # q /\ q \in Procs /\ c \in holds[p] /\ NULL # End /\ End \notin Node /\ c \in Node
  BY DEF Recycle, Procs, LFFifoAssumption, Node
<1>1. OnePlace(F, N) /\ Somewhere(F, N)
  BY DEF Shape
<1>2. \A x \in Place : \A i \in 1..N[x] : F[x][i] # c
  BY <1>0, <1>1 DEF Somewhere, InStrand
<1>3. \A d \in Node : link'[d] = IF d = c THEN NULL ELSE link[d]
  BY DEF Recycle, TypeOK, Node
<1>4. \A x \in Place : \A i \in 1..N[x] : link'[F[x][i]] = link[F[x][i]]
  BY <1>2, <1>3, Strands
<1>5. /\ \A r \in Procs : r # p /\ r # q => holds'[r] = holds[r]
      /\ holds'[p] = holds[p] \ {c} /\ holds'[q] = holds[q] \cup {c}
  BY <1>0 DEF Recycle, TypeOK
<1>6. UNCHANGED <<head, tail, pc, cell, lptr>>
  BY DEF Recycle
<1>7. \A r \in Procs : HasCell(r)' <=> HasCell(r)
  BY <1>6 DEF HasCell
<1>8. \A r \in Procs : HasCell(r) =>
        /\ <<r>> \in Place /\ 1 \in 1..N[<<r>>] /\ N[<<r>>] \in 1..N[<<r>>]
        /\ F[<<r>>][1] = cell[r]
  <2> SUFFICES ASSUME NEW r \in Procs, HasCell(r)
               PROVE  /\ <<r>> \in Place /\ 1 \in 1..N[<<r>>] /\ N[<<r>>] \in 1..N[<<r>>]
                      /\ F[<<r>>][1] = cell[r]
    OBVIOUS
  <2>1. N[<<r>>] \in Nat /\ N[<<r>>] >= 1
    BY Strands
  <2>2. 1 \in 1..N[<<r>>] /\ N[<<r>>] \in 1..N[<<r>>]
    BY <2>1
  <2> QED
    BY <2>2, Places DEF Shape, Anchored
<1>9. Threaded(F, N)'
  <2>1. ASSUME NEW x \in Place, NEW i \in 1..N[x] - 1
        PROVE  link'[F[x][i]] = F[x][i + 1]
    <3>1. i \in 1..N[x]
      BY Strands
    <3> QED
      BY <1>4, <3>1 DEF Shape, Threaded
  <2>2. link'[F[<<>>][N[<<>>]]] = End
    <3>1. N[<<>>] \in 1..N[<<>>]
      BY Strands
    <3> QED
      BY <1>4, <3>1, Places DEF Shape, Threaded
  <2>3. ASSUME NEW r \in Procs, pc'[r] \in Linking PROVE link'[F[<<r>>][N[<<r>>]]] = End
    <3>1. pc[r] \in Linking /\ HasCell(r)
      BY <1>6, <2>3 DEF HasCell
    <3> QED
      BY <1>4, <1>8, <3>1 DEF Shape, Threaded
  <2> QED
    BY <2>1, <2>2, <2>3 DEF Threaded
<1>10. Anchored(F, N)'
  <2>1. ASSUME NEW r \in Procs
        PROVE  /\ HasCell(r)' => N[<<r>>] >= 1 /\ F[<<r>>][1] = cell'[r]
               /\ ~ HasCell(r)' => N[<<r>>] = 0
               /\ pc'[r] \in Carrying /\ cell'[r] # NULL =>
                    N[<<r>>] = 1 /\ link'[cell'[r]] # End
    <3>1. /\ HasCell(r)' => N[<<r>>] >= 1 /\ F[<<r>>][1] = cell'[r]
          /\ ~ HasCell(r)' => N[<<r>>] = 0
      BY <1>6, <1>7 DEF Shape, Anchored
    <3>2. ASSUME pc'[r] \in Carrying, cell'[r] # NULL
          PROVE  N[<<r>>] = 1 /\ link'[cell'[r]] # End
      <4>1. N[<<r>>] = 1 /\ link[cell[r]] # End /\ HasCell(r)
        BY <1>6, <3>2 DEF Shape, Anchored, HasCell
      <4>2. link'[F[<<r>>][1]] = link[F[<<r>>][1]] /\ F[<<r>>][1] = cell[r]
        BY <1>4, <1>8, <4>1
      <4> QED
        BY <1>6, <4>1, <4>2
    <3> QED
      BY <3>1, <3>2
  <2> QED
    BY <1>6, <2>1 DEF Shape, Anchored, InStrand
<1>11. Somewhere(F, N)'
  <2>1. ASSUME NEW d \in Node
        PROVE  (\E x \in Place : InStrand(F, N, x, d)) \/ \E r \in Procs : d \in holds'[r]
    <3>1. CASE d = c
      BY <1>0, <1>5, <3>1
    <3>2. CASE d # c
      <4>1. \A r \in Procs : d \in holds[r] => d \in holds'[r]
        BY <1>5, <3>2
      <4> QED
        BY <1>1, <4>1 DEF Somewhere
    <3> QED
      BY <3>1, <3>2
  <2>2. ASSUME NEW r \in Procs, NEW d \in holds'[r]
        PROVE  /\ link'[d] # End /\ \A x \in Place : ~ InStrand(F, N, x, d)
               /\ \A s \in Procs : d \in holds'[s] => s = r
    <3>1. CASE d = c
      <4>1. \A s \in Procs : c \in holds[s] => s = p
        BY <1>0, <1>1 DEF Somewhere
      <4>2. \A s \in Procs : c \in holds'[s] => s = q
        BY <1>0, <1>5, <4>1
      <4> QED
        BY <1>0, <1>2, <1>3, <3>1, <4>2 DEF InStrand
    <3>2. CASE d # c
      <4>1. \A s \in Procs : d \in holds'[s] => d \in holds[s]
        BY <1>5, <3>2
      <4>2. /\ link[d] # End /\ \A x \in Place : ~ InStrand(F, N, x, d)
            /\ \A s \in Procs : d \in holds[s] => s = r
        BY <1>1, <4>1 DEF Somewhere
      <4>3. d \in Node
        BY <4>1 DEF TypeOK, Node
      <4> QED
        BY <1>3, <3>2, <4>1, <4>2, <4>3
    <3> QED
      BY <3>1, <3>2
  <2> QED
    BY <2>1, <2>2 DEF Somewhere, InStrand
<1>12. Ordered(F, N, B)' /\ Behind(F, N)' = Behind(F, N)
  BY <1>6 DEF Ordered, InStrand, Behind
<1> QED
  BY <1>1, <1>9, <1>10, <1>11, <1>12 DEF Shape, OnePlace

(***************************************************************************)
(* The history and the counts.                                             *)
(***************************************************************************)
LEMMA RemoveFirstType ==
  ASSUME NEW S, NEW s \in Seq(S), NEW e
  PROVE  RemoveFirst(s, e) \in Seq(S)
<1>1. CASE ~ \E i \in 1..Len(s) : s[i] = e
  BY <1>1 DEF RemoveFirst
<1>2. CASE \E i \in 1..Len(s) : s[i] = e
  <2> DEFINE I == {i \in 1..Len(s) : s[i] = e}
  <2>1. Len(s) \in Nat /\ I \subseteq Nat /\ I # {}
    BY <1>2
  <2>2. \E m \in I : \A i \in I : m <= i
    <3> HIDE DEF I
    <3> QED
      BY <2>1, Least
  <2>3. Min(I) \in I
    <3> HIDE DEF I
    <3> QED
      BY <2>2 DEF Min
  <2>4. RemoveFirst(s, e) = RemoveAt(s, Min(I))
    BY <1>2, <2>1 DEF RemoveFirst, SelectInSeq
  <2> DEFINE n == Min(I)
  <2>5. n \in 1..Len(s)
    BY <2>3
  <2> HIDE DEF n, I
  <2>6. n - 1 \in Int /\ n + 1 \in Int /\ Len(s) \in Int /\ 1 \in Int
    BY <2>1, <2>5
  <2>7. \A i \in 1..n - 1 : s[i] \in S
    BY <2>1, <2>5, ElementOfSeq
  <2>8. \A i \in n + 1..Len(s) : s[i] \in S
    BY <2>1, <2>5, ElementOfSeq
  <2>9. SubSeq(s, 1, n - 1) \in Seq(S)
    BY <2>6, <2>7, SubSeqProperties
  <2>10. SubSeq(s, n + 1, Len(s)) \in Seq(S)
    BY <2>6, <2>8, SubSeqProperties
  <2>11. RemoveAt(s, n) \in Seq(S)
    BY <2>9, <2>10, ConcatProperties DEF RemoveAt
  <2> QED
    BY <2>4, <2>11 DEF n
<1> QED
  BY <1>1, <1>2

\* How the size of a set changes when only p may enter or leave it.
LEMMA OneMoves ==
  ASSUME NEW S, IsFiniteSet(S), NEW T, NEW p, \A q : q # p => (q \in T <=> q \in S)
  PROVE  /\ Cardinality(S) \in Nat /\ Cardinality(T) \in Nat
         /\ p \in S /\ p \notin T => Cardinality(T) = Cardinality(S) - 1
         /\ p \notin S /\ p \in T => Cardinality(T) = Cardinality(S) + 1
         /\ (p \in S <=> p \in T) => T = S
<1>1. p \in S /\ p \notin T => T = S \ {p}
  OBVIOUS
<1>2. p \notin S /\ p \in T => T = S \cup {p}
  OBVIOUS
<1>3. (p \in S <=> p \in T) => T = S
  OBVIOUS
<1>4. IsFiniteSet(T)
  BY <1>1, <1>2, <1>3, FS_AddElement, FS_RemoveElement
<1>5. Cardinality(S) \in Nat /\ Cardinality(T) \in Nat
  BY <1>4, FS_CardinalityType
<1> QED
  BY <1>1, <1>2, <1>3, <1>5, FS_AddElement, FS_RemoveElement

LEMMA CountsMove ==
  ASSUME LFFifoAssumption, TypeOK, NEW p \in Procs, NEW l, pc' = [pc EXCEPT ![p] = l]
  PROVE  /\ Cardinality(Late) \in Nat /\ Cardinality(At("get_dec")) \in Nat
         /\ Cardinality(Late') =
              Cardinality(Late) - (IF pc[p] \in {"put_swing", "put_inc"} THEN 1 ELSE 0)
                                + (IF l \in {"put_swing", "put_inc"} THEN 1 ELSE 0)
         /\ Cardinality(At("get_dec")') =
              Cardinality(At("get_dec")) - (IF pc[p] = "get_dec" THEN 1 ELSE 0)
                                         + (IF l = "get_dec" THEN 1 ELSE 0)
<1>1. IsFiniteSet(Procs)
  BY FS_Union DEF LFFifoAssumption, Procs
<1>2. \A q \in Procs : pc'[q] = IF q = p THEN l ELSE pc[q]
  BY DEF TypeOK
<1> DEFINE D == At("get_dec")
<1>3. IsFiniteSet(Late) /\ IsFiniteSet(D)
  <2>1. Late \in SUBSET Procs /\ D \in SUBSET Procs
    BY DEF Late, At
  <2> QED
    BY <1>1, <2>1, FS_Subset
<1>4. /\ \A q : q # p => (q \in Late' <=> q \in Late)
      /\ p \in Late <=> pc[p] \in {"put_swing", "put_inc"}
      /\ p \in Late' <=> l \in {"put_swing", "put_inc"}
  BY <1>2 DEF Late, At
<1>5. /\ \A q : q # p => (q \in D' <=> q \in D)
      /\ p \in D <=> pc[p] = "get_dec"
      /\ p \in D' <=> l = "get_dec"
  BY <1>2 DEF At
<1>6. /\ Cardinality(Late) \in Nat /\ Cardinality(Late') \in Nat
      /\ p \in Late /\ p \notin Late' => Cardinality(Late') = Cardinality(Late) - 1
      /\ p \notin Late /\ p \in Late' => Cardinality(Late') = Cardinality(Late) + 1
      /\ (p \in Late <=> p \in Late') => Cardinality(Late') = Cardinality(Late)
  BY <1>3, <1>4, OneMoves
<1> HIDE DEF D
<1>7. /\ Cardinality(D) \in Nat /\ Cardinality(D') \in Nat
      /\ p \in D /\ p \notin D' => Cardinality(D') = Cardinality(D) - 1
      /\ p \notin D /\ p \in D' => Cardinality(D') = Cardinality(D) + 1
      /\ (p \in D <=> p \in D') => Cardinality(D') = Cardinality(D)
  BY <1>3, <1>5, OneMoves
<1>8. Cardinality(Late') =
        Cardinality(Late) - (IF pc[p] \in {"put_swing", "put_inc"} THEN 1 ELSE 0)
                          + (IF l \in {"put_swing", "put_inc"} THEN 1 ELSE 0)
  BY <1>4, <1>6
<1>9. Cardinality(D') = Cardinality(D) - (IF pc[p] = "get_dec" THEN 1 ELSE 0)
                                       + (IF l = "get_dec" THEN 1 ELSE 0)
  BY <1>5, <1>7
<1> QED
  BY <1>6, <1>7, <1>8, <1>9 DEF D

LEMMA CountsChange ==
  ASSUME LFFifoAssumption, TypeOK, NEW p \in Procs, NEW l, pc' = [pc EXCEPT ![p] = l],
         pc[p] \notin {"put_swing", "put_inc", "get_dec"}
  PROVE  /\ l \notin {"put_swing", "put_inc", "get_dec"} =>
              /\ Cardinality(Late') = Cardinality(Late)
              /\ Cardinality(At("get_dec")') = Cardinality(At("get_dec"))
         /\ l = "put_swing" =>
              /\ Cardinality(Late') = Cardinality(Late) + 1
              /\ Cardinality(At("get_dec")') = Cardinality(At("get_dec"))
         /\ l = "get_dec" =>
              /\ Cardinality(Late') = Cardinality(Late)
              /\ Cardinality(At("get_dec")') = Cardinality(At("get_dec")) + 1
<1>1. /\ Cardinality(Late) \in Nat /\ Cardinality(At("get_dec")) \in Nat
      /\ Cardinality(Late') =
              Cardinality(Late) - (IF pc[p] \in {"put_swing", "put_inc"} THEN 1 ELSE 0)
                                + (IF l \in {"put_swing", "put_inc"} THEN 1 ELSE 0)
      /\ Cardinality(At("get_dec")') =
              Cardinality(At("get_dec")) - (IF pc[p] = "get_dec" THEN 1 ELSE 0)
                                         + (IF l = "get_dec" THEN 1 ELSE 0)
  BY CountsMove
<1> QED
  BY <1>1

LEMMA BehindSize ==
  ASSUME LFFifoAssumption, NEW F, NEW N
  PROVE  /\ IsFiniteSet(Behind(F, N)) /\ Cardinality(Behind(F, N)) \in Nat
         /\ \A c : c \notin Behind(F, N) =>
              Cardinality(Behind(F, N) \cup {c}) = Cardinality(Behind(F, N)) + 1
         /\ \A c : c \in Behind(F, N) =>
              Cardinality(Behind(F, N) \ {c}) = Cardinality(Behind(F, N)) - 1
<1>1. IsFiniteSet(Node)
  BY FS_AddElement DEF Node, LFFifoAssumption
<1>2. Behind(F, N) \in SUBSET Node
  BY DEF Behind
<1>3. IsFiniteSet(Behind(F, N))
  BY <1>1, <1>2, FS_Subset
<1> QED
  BY <1>3, FS_CardinalityType, FS_AddElement, FS_RemoveElement

(***************************************************************************)
(* What the steps of a thread leave true of the locals of the others, and  *)
(* what a thread knows when its CAS succeeds.                              *)
(***************************************************************************)
LEMMA OthersSee ==
  ASSUME TypeOK, Locals, NEW q \in Procs, ic' \in Nat, oc' \in Nat, ic <= ic', oc <= oc',
         ic' = ic => tail' = tail /\ (link[tail] # End => link'[tail] = link[tail]),
         oc' = oc => head' = head /\ (link[head] # End => link'[head] = link[head])
                     /\ (head # tail => head' # tail'),
         pc'[q] = pc[q], cell'[q] = cell[q], lptr'[q] = lptr[q], lnext'[q] = lnext[q],
         lic'[q] = lic[q], loc'[q] = loc[q]
  PROVE  TailSeen(q)' /\ HeadSeen(q)' /\ CellHeld(q)'
<1>0. TailSeen(q) /\ HeadSeen(q) /\ CellHeld(q)
  BY DEF Locals
<1>1. ic \in Nat /\ oc \in Nat /\ lic[q] \in Nat /\ loc[q] \in Nat
  BY DEF TypeOK
<1>2. lic'[q] <= ic' /\ (lic'[q] = ic' => ic' = ic /\ lic[q] = ic)
  BY <1>0, <1>1 DEF TailSeen
<1>3. loc'[q] <= oc' /\ (loc'[q] = oc' => oc' = oc /\ loc[q] = oc)
  BY <1>0, <1>1 DEF HeadSeen
<1>4. TailSeen(q)'
  BY <1>0, <1>2 DEF TailSeen
<1>5. HeadSeen(q)'
  BY <1>0, <1>3 DEF HeadSeen
<1>6. CellHeld(q)'
  BY <1>0 DEF CellHeld
<1> QED
  BY <1>4, <1>5, <1>6

LEMMA Swings ==
  ASSUME TypeOK, Locals, NEW F, NEW N, Shape(F, N), NEW p \in Procs,
         pc[p] \in {"put_help", "put_swing", "get_help"},
         SwingTail(p, IF pc[p] = "put_swing" THEN cell[p] ELSE lnext[p]),
         UNCHANGED <<head, link>>
  PROVE  /\ tail' \in Node /\ InStrand(F, N, <<>>, tail')
         /\ ic' \in Nat /\ ic <= ic' /\ (ic' = ic => tail' = tail)
         /\ head # tail => head' # tail'
         /\ lic[p] <= ic'
<1>0. /\ TailSeen(p) /\ lic[p] \in Nat /\ ic \in Nat /\ lic[p] <= ic
      /\ tail \in Node /\ InStrand(F, N, <<>>, tail)
  BY DEF Locals, TailSeen, TypeOK, Node, Shape, Anchored
<1>1. CASE tail = lptr[p] /\ ic = lic[p]
  <2>1. /\ link[tail] # End
        /\ tail' = link[tail] /\ ic' = ic + 1
    BY <1>0, <1>1 DEF TailSeen, SwingTail
  <2>2. InStrand(F, N, <<>>, link[tail]) /\ link[tail] \in Node /\ link[tail] # head
    BY <1>0, <2>1, NextInList
  <2> QED
    BY <1>0, <1>1, <2>1, <2>2
<1>2. CASE ~ (tail = lptr[p] /\ ic = lic[p])
  BY <1>0, <1>2 DEF SwingTail
<1> QED
  BY <1>1, <1>2

LEMMA Takes ==
  ASSUME TypeOK, Locals, NEW F, NEW N, Shape(F, N), NEW p \in Procs,
         pc[p] = "get_cas", HeadUnmoved(p)
  PROVE  /\ lnext[p] = link[head] /\ link[head] # End /\ head # tail
         /\ link[head] \in Node /\ head \in Node
<1>1. lnext[p] = link[head] /\ link[head] # End /\ head # tail /\ head \in Node
  BY DEF Locals, HeadSeen, HeadUnmoved, TypeOK, Node
<1>2. InStrand(F, N, <<>>, head)
  <2>1. 1 \in 1..N[<<>>]
    BY Strands
  <2> QED
    BY <2>1 DEF InStrand, Shape, Anchored
<1> QED
  BY <1>1, <1>2, NextInList

(***************************************************************************)
(* The steps.                                                              *)
(***************************************************************************)
LEMMA Typed ==
  ASSUME LFFifoAssumption, TypeOK, Locals, NEW F, NEW N, Shape(F, N), Next
  PROVE  TypeOK'
<1> USE DEF TypeOK, PcValues, Pointers, Goto
<1>1. PICK p \in Procs : \/ Step(p) \/ fifoget(p) \/ fifoavail(p)
                         \/ \E c \in Cells : \/ fifoput(p, c)
                                             \/ \E q \in Producers : Recycle(p, q, c)
  BY DEF Next
<1>0. CellHeld(p)
  BY DEF Locals
<1>2. CASE PutEnd(p)
  BY <1>2 DEF PutEnd
<1>3. CASE PutIc(p)
  BY <1>3 DEF PutIc
<1>4. CASE PutTail(p)
  BY <1>4 DEF PutTail
<1>5. CASE PutLink(p)
  BY <1>5 DEF PutLink
<1>6. CASE PutNext(p)
  <2>1. link[lptr[p]] \in Pointers
    BY <1>0, <1>6 DEF PutNext, CellHeld, Node
  <2> QED
    BY <1>6, <2>1 DEF PutNext
<1>7. CASE PutHelp(p)
  <2>1. tail' \in Node /\ ic' \in Nat
    BY <1>7, Swings DEF PutHelp
  <2> QED
    BY <1>7, <2>1 DEF PutHelp, Node
<1>8. CASE PutSwing(p)
  <2>1. tail' \in Node /\ ic' \in Nat
    BY <1>8, Swings DEF PutSwing
  <2> QED
    BY <1>8, <2>1 DEF PutSwing, Node
<1>9. CASE PutInc(p)
  BY <1>9 DEF PutInc
<1>10. CASE GetOc(p)
  BY <1>10 DEF GetOc
<1>11. CASE GetIc(p)
  BY <1>11 DEF GetIc
<1>12. CASE GetHead(p)
  BY <1>12 DEF GetHead
<1>13. CASE GetNext(p)
  <2>1. link[lptr[p]] \in Pointers
    BY <1>0, <1>13 DEF GetNext, CellHeld, Node
  <2> QED
    BY <1>13, <2>1 DEF GetNext
<1>14. CASE GetCheck(p)
  BY <1>14 DEF GetCheck
<1>15. CASE GetTail(p)
  BY <1>15 DEF GetTail
<1>16. CASE GetHelp(p)
  <2>1. tail' \in Node /\ ic' \in Nat
    BY <1>16, Swings DEF GetHelp
  <2> QED
    BY <1>16, <2>1 DEF GetHelp, Node
<1>17. CASE GetCAS(p)
  <2>1. CASE HeadUnmoved(p)
    <3>1. lnext[p] \in Node
      BY <1>17, <2>1, Takes DEF GetCAS
    <3>2. sent' \in [Procs -> Seq(Cells)]
      BY <1>17, <2>1, RemoveFirstType DEF GetCAS
    <3>3. cell' \in [Procs -> Pointers] /\ pc' \in [Procs -> PcValues]
      <4>1. cell' = [cell EXCEPT ![p] = head] /\ pc' = [pc EXCEPT ![p] = "get_dec"]
        BY <1>17, <2>1 DEF GetCAS
      <4> QED
        BY <4>1
    <3>4. head' \in Cells \cup {Dummy} /\ oc' \in Nat
      BY <1>17, <2>1, <3>1 DEF GetCAS, Node
    <3> QED
      BY <1>17, <3>2, <3>3, <3>4 DEF GetCAS
  <2>2. CASE ~ HeadUnmoved(p)
    BY <1>17, <2>2 DEF GetCAS
  <2> QED
    BY <2>1, <2>2
<1>18. CASE GetDec(p)
  BY <1>18 DEF GetDec
<1>19. CASE AvailOc(p)
  BY <1>19 DEF AvailOc
<1>20. CASE AvailHead(p)
  BY <1>20 DEF AvailHead
<1>21. CASE AvailLink(p)
  <2>1. link[lptr[p]] \in Pointers
    BY <1>0, <1>21 DEF AvailLink, CellHeld, Node
  <2> QED
    BY <1>21, <2>1 DEF AvailLink
<1>22. CASE AvailTail(p)
  BY <1>22 DEF AvailTail, AvailValue
<1>23. CASE AvailCheck(p)
  BY <1>23 DEF AvailCheck
<1>24. CASE Return(p)
  <2>1. holds' \in [Procs -> SUBSET Cells]
    <3>1. CASE pc[p] = "return"
      <4>1. {cell[p]} \ {NULL} \subseteq Cells
        BY <1>0, <3>1 DEF CellHeld
      <4> QED
        BY <1>24, <3>1, <4>1 DEF Return
    <3>2. CASE pc[p] # "return"
      BY <1>24, <3>2 DEF Return
    <3> QED
      BY <3>1, <3>2
  <2> QED
    BY <1>24, <2>1 DEF Return
<1>25. CASE fifoget(p)
  BY <1>25 DEF fifoget
<1>26. CASE fifoavail(p)
  BY <1>26 DEF fifoavail
<1>27. ASSUME NEW c \in Cells, fifoput(p, c) PROVE TypeOK'
  <2>1. sent' \in [Procs -> Seq(Cells)]
    BY <1>27, AppendProperties DEF fifoput
  <2> QED
    BY <1>27, <2>1 DEF fifoput
<1>28. ASSUME NEW c \in Cells, NEW q \in Producers, Recycle(p, q, c) PROVE TypeOK'
  <2>1. holds' \in [Procs -> SUBSET Cells]
    BY <1>28 DEF Recycle, Procs
  <2> QED
    BY <1>28, <2>1 DEF Recycle
<1> QED
  BY <1>1, <1>2, <1>3, <1>4, <1>5, <1>6, <1>7, <1>8, <1>9, <1>10, <1>11, <1>12, <1>13,
     <1>14, <1>15, <1>16, <1>17, <1>18, <1>19, <1>20, <1>21, <1>22, <1>23, <1>24, <1>25,
     <1>26, <1>27, <1>28 DEF Step

\* The locals of a thread are its own.
OnlyLocals(p) ==
  \A q \in Procs \ {p} : /\ pc'[q] = pc[q] /\ cell'[q] = cell[q] /\ lptr'[q] = lptr[q]
                         /\ lnext'[q] = lnext[q] /\ lic'[q] = lic[q] /\ loc'[q] = loc[q]

LEMMA Own ==
  ASSUME TypeOK, NEW p \in Procs, Step(p) \/ fifoget(p) \/ fifoavail(p)
                                  \/ \E c \in Cells : fifoput(p, c)
  PROVE  OnlyLocals(p)
<1> USE DEF OnlyLocals, TypeOK, Goto
<1>1. CASE PutEnd(p)
  BY <1>1 DEF PutEnd
<1>2. CASE PutIc(p)
  BY <1>2 DEF PutIc
<1>3. CASE PutTail(p)
  BY <1>3 DEF PutTail
<1>4. CASE PutLink(p)
  BY <1>4 DEF PutLink
<1>5. CASE PutNext(p)
  BY <1>5 DEF PutNext
<1>6. CASE PutHelp(p)
  BY <1>6 DEF PutHelp
<1>7. CASE PutSwing(p)
  BY <1>7 DEF PutSwing
<1>8. CASE PutInc(p)
  BY <1>8 DEF PutInc
<1>9. CASE GetOc(p)
  BY <1>9 DEF GetOc
<1>10. CASE GetIc(p)
  BY <1>10 DEF GetIc
<1>11. CASE GetHead(p)
  BY <1>11 DEF GetHead
<1>12. CASE GetNext(p)
  BY <1>12 DEF GetNext
<1>13. CASE GetCheck(p)
  BY <1>13 DEF GetCheck
<1>14. CASE GetTail(p)
  BY <1>14 DEF GetTail
<1>15. CASE GetHelp(p)
  BY <1>15 DEF GetHelp
<1>16. CASE GetCAS(p)
  BY <1>16 DEF GetCAS
<1>17. CASE GetDec(p)
  BY <1>17 DEF GetDec
<1>18. CASE AvailOc(p)
  BY <1>18 DEF AvailOc
<1>19. CASE AvailHead(p)
  BY <1>19 DEF AvailHead
<1>20. CASE AvailLink(p)
  BY <1>20 DEF AvailLink
<1>21. CASE AvailTail(p)
  BY <1>21 DEF AvailTail
<1>22. CASE AvailCheck(p)
  BY <1>22 DEF AvailCheck
<1>23. CASE Return(p)
  BY <1>23 DEF Return
<1>24. CASE fifoget(p)
  BY <1>24 DEF fifoget
<1>25. CASE fifoavail(p)
  BY <1>25 DEF fifoavail
<1>26. ASSUME NEW c \in Cells, fifoput(p, c) PROVE OnlyLocals(p)
  BY <1>26 DEF fifoput
<1> QED
  BY <1>1, <1>2, <1>3, <1>4, <1>5, <1>6, <1>7, <1>8, <1>9, <1>10, <1>11, <1>12, <1>13,
     <1>14, <1>15, <1>16, <1>17, <1>18, <1>19, <1>20, <1>21, <1>22, <1>23, <1>24, <1>25, <1>26 DEF Step

LEMMA Seen ==
  ASSUME LFFifoAssumption, TypeOK, Locals, NEW F, NEW N, Shape(F, N), Next
  PROVE  Locals'
<1>1. PICK p \in Procs : \/ Step(p) \/ fifoget(p) \/ fifoavail(p)
                         \/ \E c \in Cells : \/ fifoput(p, c)
                                             \/ \E q \in Producers : Recycle(p, q, c)
  BY DEF Next
<1>0. TailSeen(p) /\ HeadSeen(p) /\ CellHeld(p)
  BY DEF Locals
<1>t. /\ ic \in Nat /\ oc \in Nat /\ lic[p] \in Nat /\ loc[p] \in Nat
      /\ tail \in Node /\ head \in Node
      /\ End \notin Node /\ NULL \notin Node /\ Cells \subseteq Node
  BY DEF TypeOK, Node, LFFifoAssumption
<1>i. ic' \in Nat /\ oc' \in Nat
  BY Typed DEF TypeOK
\* The threads that see no change of the shared words.
<1>q. ASSUME OnlyLocals(p), UNCHANGED <<head, oc, tail, ic, link>>,
             TailSeen(p)' /\ HeadSeen(p)' /\ CellHeld(p)'
      PROVE  Locals'
  <2>1. ASSUME NEW q \in Procs \ {p} PROVE TailSeen(q)' /\ HeadSeen(q)' /\ CellHeld(q)'
    BY <1>q, <1>i, <1>t, OthersSee DEF OnlyLocals
  <2> QED
    BY <1>q, <2>1 DEF Locals
<1>2. CASE PutEnd(p)
  <2>1. UNCHANGED <<head, oc, tail, ic>> /\ OnlyLocals(p)
    BY <1>2, Own DEF PutEnd, Step
  <2>2. link'[tail] = link[tail] /\ link'[head] = link[head]
    <3>1. pc[p] = "put_end" /\ link' = [link EXCEPT ![cell[p]] = End]
      BY <1>2 DEF PutEnd
    <3>2. HasCell(p)
      BY <1>0, <1>t, <3>1 DEF CellHeld, HasCell, Carrying
    <3>3. InStrand(F, N, <<p>>, cell[p])
      BY <3>2, Strands DEF Shape, Anchored, InStrand
    <3>4. InStrand(F, N, <<>>, tail) /\ InStrand(F, N, <<>>, head)
      BY Strands DEF Shape, Anchored, InStrand
    <3>5. tail # cell[p] /\ head # cell[p]
      BY <3>3, <3>4, ListApart
    <3> QED
      BY <1>t, <3>1, <3>5 DEF TypeOK, Node
  <2>3. ASSUME NEW q \in Procs \ {p} PROVE TailSeen(q)' /\ HeadSeen(q)' /\ CellHeld(q)'
    BY <1>i, <1>t, <2>1, <2>2, OthersSee DEF OnlyLocals
  <2>4. TailSeen(p)'
    BY <1>0, <1>2 DEF PutEnd, Goto, TypeOK, TailSeen
  <2>5. HeadSeen(p)'
    BY <1>0, <1>2 DEF PutEnd, Goto, TypeOK, HeadSeen
  <2>6. CellHeld(p)'
    BY <1>0, <1>2 DEF PutEnd, Goto, TypeOK, CellHeld, Linking
  <2> QED
    BY <2>3, <2>4, <2>5, <2>6 DEF Locals
<1>3. CASE PutIc(p)
  <2>1. UNCHANGED <<head, oc, tail, ic, link>> /\ OnlyLocals(p)
    BY <1>3, Own DEF PutIc, Step
  <2>2. TailSeen(p)'
    BY <1>0, <1>t, <1>3 DEF PutIc, Goto, TypeOK, TailSeen, CellHeld
  <2>3. HeadSeen(p)'
    BY <1>0, <1>t, <1>3 DEF PutIc, Goto, TypeOK, HeadSeen
  <2>4. CellHeld(p)'
    BY <1>0, <1>t, <1>3 DEF PutIc, Goto, TypeOK, CellHeld, Linking, Node
  <2> QED
    BY <1>q, <2>1, <2>2, <2>3, <2>4
<1>4. CASE PutTail(p)
  <2>1. UNCHANGED <<head, oc, tail, ic, link>> /\ OnlyLocals(p)
    BY <1>4, Own DEF PutTail, Step
  <2>2. TailSeen(p)'
    BY <1>0, <1>t, <1>4 DEF PutTail, Goto, TypeOK, TailSeen, CellHeld
  <2>3. HeadSeen(p)'
    BY <1>0, <1>t, <1>4 DEF PutTail, Goto, TypeOK, HeadSeen
  <2>4. CellHeld(p)'
    BY <1>0, <1>t, <1>4 DEF PutTail, Goto, TypeOK, CellHeld, Linking, Node
  <2> QED
    BY <1>q, <2>1, <2>2, <2>3, <2>4
<1>5. CASE PutLink(p)
  <2>1. UNCHANGED <<head, oc, tail, ic>> /\ OnlyLocals(p)
    BY <1>5, Own DEF PutLink, Step
  <2>2. CASE link[lptr[p]] = End
    <3>1. link' = [link EXCEPT ![lptr[p]] = cell[p]]
      BY <1>5, <2>2 DEF PutLink
    <3>2. /\ link[tail] # End => link'[tail] = link[tail]
          /\ link[head] # End => link'[head] = link[head]
      BY <1>t, <2>2, <3>1 DEF TypeOK, Node
    <3>3. ASSUME NEW q \in Procs \ {p} PROVE TailSeen(q)' /\ HeadSeen(q)' /\ CellHeld(q)'
      BY <1>i, <1>t, <2>1, <3>2, OthersSee DEF OnlyLocals
    <3>4. cell[p] \in Node /\ (lic[p] = ic => lptr[p] = tail) /\ lic[p] <= ic
      BY <1>0, <1>5 DEF PutLink, CellHeld, TailSeen, Linking
    <3>5. lic[p] = ic => link'[tail] = cell[p] /\ link'[tail] # End
      BY <1>t, <3>1, <3>4 DEF TypeOK, Node
    <3>6. TailSeen(p)'
      BY <1>5, <2>2, <3>4, <3>5 DEF PutLink, Goto, TypeOK, TailSeen
    <3>7. HeadSeen(p)'
      BY <1>0, <1>5, <2>2 DEF PutLink, Goto, TypeOK, HeadSeen
    <3>8. CellHeld(p)'
      BY <1>0, <1>5, <2>2 DEF PutLink, Goto, TypeOK, CellHeld, Linking
    <3> QED
      BY <3>3, <3>6, <3>7, <3>8 DEF Locals
  <2>3. CASE link[lptr[p]] # End
    <3>1. UNCHANGED link
      BY <1>5, <2>3 DEF PutLink
    <3>2. TailSeen(p)'
      BY <1>0, <1>5, <2>3 DEF PutLink, Goto, TypeOK, TailSeen
    <3>3. HeadSeen(p)'
      BY <1>0, <1>5, <2>3 DEF PutLink, Goto, TypeOK, HeadSeen
    <3>4. CellHeld(p)'
      BY <1>0, <1>5, <2>3 DEF PutLink, Goto, TypeOK, CellHeld, Linking
    <3> QED
      BY <1>q, <2>1, <3>1, <3>2, <3>3, <3>4
  <2> QED
    BY <2>2, <2>3
<1>6. CASE PutNext(p)
  <2>1. UNCHANGED <<head, oc, tail, ic, link>> /\ OnlyLocals(p)
    BY <1>6, Own DEF PutNext, Step
  <2>2. TailSeen(p)'
    BY <1>0, <1>t, <1>6 DEF PutNext, Goto, TypeOK, TailSeen, CellHeld
  <2>3. HeadSeen(p)'
    BY <1>0, <1>t, <1>6 DEF PutNext, Goto, TypeOK, HeadSeen
  <2>4. CellHeld(p)'
    BY <1>0, <1>t, <1>6 DEF PutNext, Goto, TypeOK, CellHeld, Linking, Node
  <2> QED
    BY <1>q, <2>1, <2>2, <2>3, <2>4
<1>7. CASE PutHelp(p)
  <2>1. UNCHANGED <<head, oc, link>> /\ OnlyLocals(p)
    BY <1>7, Own DEF PutHelp, Step
  <2>2. /\ ic <= ic' /\ (ic' = ic => tail' = tail)
        /\ (head # tail => head' # tail') /\ lic[p] <= ic'
    BY <1>7, <2>1, Swings DEF PutHelp
  <2>3. ASSUME NEW q \in Procs \ {p} PROVE TailSeen(q)' /\ HeadSeen(q)' /\ CellHeld(q)'
    BY <1>i, <1>t, <2>1, <2>2, OthersSee DEF OnlyLocals
  <2>4. TailSeen(p)'
    BY <1>7, <2>2 DEF PutHelp, Goto, TypeOK, TailSeen
  <2>5. HeadSeen(p)'
    BY <1>0, <1>7 DEF PutHelp, Goto, TypeOK, HeadSeen
  <2>6. CellHeld(p)'
    BY <1>0, <1>7 DEF PutHelp, Goto, TypeOK, CellHeld, Linking
  <2> QED
    BY <2>3, <2>4, <2>5, <2>6 DEF Locals
<1>8. CASE PutSwing(p)
  <2>1. UNCHANGED <<head, oc, link>> /\ OnlyLocals(p)
    BY <1>8, Own DEF PutSwing, Step
  <2>2. /\ ic <= ic' /\ (ic' = ic => tail' = tail)
        /\ (head # tail => head' # tail') /\ lic[p] <= ic'
    BY <1>8, <2>1, Swings DEF PutSwing
  <2>3. ASSUME NEW q \in Procs \ {p} PROVE TailSeen(q)' /\ HeadSeen(q)' /\ CellHeld(q)'
    BY <1>i, <1>t, <2>1, <2>2, OthersSee DEF OnlyLocals
  <2>4. TailSeen(p)'
    BY <1>8, <2>2 DEF PutSwing, Goto, TypeOK, TailSeen
  <2>5. HeadSeen(p)'
    BY <1>0, <1>8 DEF PutSwing, Goto, TypeOK, HeadSeen
  <2>6. CellHeld(p)'
    BY <1>0, <1>8 DEF PutSwing, Goto, TypeOK, CellHeld, Linking
  <2> QED
    BY <2>3, <2>4, <2>5, <2>6 DEF Locals
<1>9. CASE PutInc(p)
  <2>1. UNCHANGED <<head, oc, tail, ic, link>> /\ OnlyLocals(p)
    BY <1>9, Own DEF PutInc, Step
  <2>2. TailSeen(p)'
    BY <1>0, <1>t, <1>9 DEF PutInc, Goto, TypeOK, TailSeen, CellHeld
  <2>3. HeadSeen(p)'
    BY <1>0, <1>t, <1>9 DEF PutInc, Goto, TypeOK, HeadSeen
  <2>4. CellHeld(p)'
    BY <1>0, <1>t, <1>9 DEF PutInc, Goto, TypeOK, CellHeld, Linking, Node
  <2> QED
    BY <1>q, <2>1, <2>2, <2>3, <2>4
<1>10. CASE GetOc(p)
  <2>1. UNCHANGED <<head, oc, tail, ic, link>> /\ OnlyLocals(p)
    BY <1>10, Own DEF GetOc, Step
  <2>2. TailSeen(p)'
    BY <1>0, <1>t, <1>10 DEF GetOc, Goto, TypeOK, TailSeen, CellHeld
  <2>3. HeadSeen(p)'
    BY <1>0, <1>t, <1>10 DEF GetOc, Goto, TypeOK, HeadSeen
  <2>4. CellHeld(p)'
    BY <1>0, <1>t, <1>10 DEF GetOc, Goto, TypeOK, CellHeld, Linking, Node
  <2> QED
    BY <1>q, <2>1, <2>2, <2>3, <2>4
<1>11. CASE GetIc(p)
  <2>1. UNCHANGED <<head, oc, tail, ic, link>> /\ OnlyLocals(p)
    BY <1>11, Own DEF GetIc, Step
  <2>2. TailSeen(p)'
    BY <1>0, <1>t, <1>11 DEF GetIc, Goto, TypeOK, TailSeen, CellHeld
  <2>3. HeadSeen(p)'
    BY <1>0, <1>t, <1>11 DEF GetIc, Goto, TypeOK, HeadSeen
  <2>4. CellHeld(p)'
    BY <1>0, <1>t, <1>11 DEF GetIc, Goto, TypeOK, CellHeld, Linking, Node
  <2> QED
    BY <1>q, <2>1, <2>2, <2>3, <2>4
<1>12. CASE GetHead(p)
  <2>1. UNCHANGED <<head, oc, tail, ic, link>> /\ OnlyLocals(p)
    BY <1>12, Own DEF GetHead, Step
  <2>2. TailSeen(p)'
    BY <1>0, <1>t, <1>12 DEF GetHead, Goto, TypeOK, TailSeen, CellHeld
  <2>3. HeadSeen(p)'
    BY <1>0, <1>t, <1>12 DEF GetHead, Goto, TypeOK, HeadSeen
  <2>4. CellHeld(p)'
    BY <1>0, <1>t, <1>12 DEF GetHead, Goto, TypeOK, CellHeld, Linking, Node
  <2> QED
    BY <1>q, <2>1, <2>2, <2>3, <2>4
<1>13. CASE GetNext(p)
  <2>1. UNCHANGED <<head, oc, tail, ic, link>> /\ OnlyLocals(p)
    BY <1>13, Own DEF GetNext, Step
  <2>2. TailSeen(p)'
    BY <1>0, <1>t, <1>13 DEF GetNext, Goto, TypeOK, TailSeen, CellHeld
  <2>3. HeadSeen(p)'
    BY <1>0, <1>t, <1>13 DEF GetNext, Goto, TypeOK, HeadSeen
  <2>4. CellHeld(p)'
    BY <1>0, <1>t, <1>13 DEF GetNext, Goto, TypeOK, CellHeld, Linking, Node
  <2> QED
    BY <1>q, <2>1, <2>2, <2>3, <2>4
<1>14. CASE GetCheck(p)
  <2>1. UNCHANGED <<head, oc, tail, ic, link>> /\ OnlyLocals(p)
    BY <1>14, Own DEF GetCheck, Step
  <2>2. TailSeen(p)'
    BY <1>0, <1>t, <1>14 DEF GetCheck, Goto, TypeOK, TailSeen, CellHeld
  <2>3. HeadSeen(p)'
    BY <1>0, <1>t, <1>14 DEF GetCheck, Goto, TypeOK, HeadSeen
  <2>4. CellHeld(p)'
    BY <1>0, <1>t, <1>14 DEF GetCheck, Goto, TypeOK, CellHeld, Linking, Node
  <2> QED
    BY <1>q, <2>1, <2>2, <2>3, <2>4
<1>15. CASE GetTail(p)
  <2>1. UNCHANGED <<head, oc, tail, ic, link>> /\ OnlyLocals(p)
    BY <1>15, Own DEF GetTail, Step
  <2>2. TailSeen(p)'
    BY <1>0, <1>t, <1>15 DEF GetTail, Goto, TypeOK, TailSeen, CellHeld
  <2>3. HeadSeen(p)'
    BY <1>0, <1>t, <1>15 DEF GetTail, Goto, TypeOK, HeadSeen
  <2>4. CellHeld(p)'
    BY <1>0, <1>t, <1>15 DEF GetTail, Goto, TypeOK, CellHeld, Linking, Node
  <2> QED
    BY <1>q, <2>1, <2>2, <2>3, <2>4
<1>16. CASE GetHelp(p)
  <2>1. UNCHANGED <<head, oc, link>> /\ OnlyLocals(p)
    BY <1>16, Own DEF GetHelp, Step
  <2>2. /\ ic <= ic' /\ (ic' = ic => tail' = tail)
        /\ (head # tail => head' # tail') /\ lic[p] <= ic'
    BY <1>16, <2>1, Swings DEF GetHelp
  <2>3. ASSUME NEW q \in Procs \ {p} PROVE TailSeen(q)' /\ HeadSeen(q)' /\ CellHeld(q)'
    BY <1>i, <1>t, <2>1, <2>2, OthersSee DEF OnlyLocals
  <2>4. TailSeen(p)'
    BY <1>16, <2>2 DEF GetHelp, Goto, TypeOK, TailSeen
  <2>5. HeadSeen(p)'
    BY <1>0, <1>16 DEF GetHelp, Goto, TypeOK, HeadSeen
  <2>6. CellHeld(p)'
    BY <1>0, <1>16 DEF GetHelp, Goto, TypeOK, CellHeld, Linking
  <2> QED
    BY <2>3, <2>4, <2>5, <2>6 DEF Locals
<1>17. CASE GetCAS(p)
  <2>1. UNCHANGED <<tail, ic, link>> /\ OnlyLocals(p)
    BY <1>17, Own DEF GetCAS, Step
  <2>2. CASE HeadUnmoved(p)
    <3>1. oc' = oc + 1
      BY <1>17, <2>2 DEF GetCAS
    <3>2. ASSUME NEW q \in Procs \ {p} PROVE TailSeen(q)' /\ HeadSeen(q)' /\ CellHeld(q)'
      BY <1>i, <1>t, <2>1, <3>1, OthersSee DEF OnlyLocals
    <3>3. pc'[p] = "get_dec" /\ cell'[p] = head
      BY <1>17, <2>2 DEF GetCAS, Goto, TypeOK
    <3>4. TailSeen(p)'
      BY <1>0, <1>17, <2>1, <3>3 DEF GetCAS, TailSeen
    <3>5. HeadSeen(p)'
      BY <1>0, <1>t, <1>17, <3>1, <3>3 DEF GetCAS, HeadSeen
    <3>6. CellHeld(p)'
      BY <1>t, <3>3 DEF CellHeld, Linking
    <3> QED
      BY <3>2, <3>4, <3>5, <3>6 DEF Locals
  <2>3. CASE ~ HeadUnmoved(p)
    <3>1. UNCHANGED <<head, oc>>
      BY <1>17, <2>3 DEF GetCAS
    <3>2. TailSeen(p)'
      BY <1>0, <1>17, <2>3 DEF GetCAS, Goto, TypeOK, TailSeen
    <3>3. HeadSeen(p)'
      BY <1>0, <1>17, <2>3 DEF GetCAS, Goto, TypeOK, HeadSeen
    <3>4. CellHeld(p)'
      BY <1>0, <1>17, <2>3 DEF GetCAS, Goto, TypeOK, CellHeld, Linking
    <3> QED
      BY <1>q, <2>1, <3>1, <3>2, <3>3, <3>4
  <2> QED
    BY <2>2, <2>3
<1>18. CASE GetDec(p)
  <2>1. UNCHANGED <<head, oc, tail, ic, link>> /\ OnlyLocals(p)
    BY <1>18, Own DEF GetDec, Step
  <2>2. TailSeen(p)'
    BY <1>0, <1>t, <1>18 DEF GetDec, Goto, TypeOK, TailSeen, CellHeld
  <2>3. HeadSeen(p)'
    BY <1>0, <1>t, <1>18 DEF GetDec, Goto, TypeOK, HeadSeen
  <2>4. CellHeld(p)'
    BY <1>0, <1>t, <1>18 DEF GetDec, Goto, TypeOK, CellHeld, Linking, Node
  <2> QED
    BY <1>q, <2>1, <2>2, <2>3, <2>4
<1>19. CASE AvailOc(p)
  <2>1. UNCHANGED <<head, oc, tail, ic, link>> /\ OnlyLocals(p)
    BY <1>19, Own DEF AvailOc, Step
  <2>2. TailSeen(p)'
    BY <1>0, <1>t, <1>19 DEF AvailOc, Goto, TypeOK, TailSeen, CellHeld
  <2>3. HeadSeen(p)'
    BY <1>0, <1>t, <1>19 DEF AvailOc, Goto, TypeOK, HeadSeen
  <2>4. CellHeld(p)'
    BY <1>0, <1>t, <1>19 DEF AvailOc, Goto, TypeOK, CellHeld, Linking, Node
  <2> QED
    BY <1>q, <2>1, <2>2, <2>3, <2>4
<1>20. CASE AvailHead(p)
  <2>1. UNCHANGED <<head, oc, tail, ic, link>> /\ OnlyLocals(p)
    BY <1>20, Own DEF AvailHead, Step
  <2>2. TailSeen(p)'
    BY <1>0, <1>t, <1>20 DEF AvailHead, Goto, TypeOK, TailSeen, CellHeld
  <2>3. HeadSeen(p)'
    BY <1>0, <1>t, <1>20 DEF AvailHead, Goto, TypeOK, HeadSeen
  <2>4. CellHeld(p)'
    BY <1>0, <1>t, <1>20 DEF AvailHead, Goto, TypeOK, CellHeld, Linking, Node
  <2> QED
    BY <1>q, <2>1, <2>2, <2>3, <2>4
<1>21. CASE AvailLink(p)
  <2>1. UNCHANGED <<head, oc, tail, ic, link>> /\ OnlyLocals(p)
    BY <1>21, Own DEF AvailLink, Step
  <2>2. TailSeen(p)'
    BY <1>0, <1>t, <1>21 DEF AvailLink, Goto, TypeOK, TailSeen, CellHeld
  <2>3. HeadSeen(p)'
    BY <1>0, <1>t, <1>21 DEF AvailLink, Goto, TypeOK, HeadSeen
  <2>4. CellHeld(p)'
    BY <1>0, <1>t, <1>21 DEF AvailLink, Goto, TypeOK, CellHeld, Linking, Node
  <2> QED
    BY <1>q, <2>1, <2>2, <2>3, <2>4
<1>22. CASE AvailTail(p)
  <2>1. UNCHANGED <<head, oc, tail, ic, link>> /\ OnlyLocals(p)
    BY <1>22, Own DEF AvailTail, Step
  <2>2. TailSeen(p)'
    BY <1>0, <1>t, <1>22 DEF AvailTail, Goto, TypeOK, TailSeen, CellHeld
  <2>3. HeadSeen(p)'
    BY <1>0, <1>t, <1>22 DEF AvailTail, Goto, TypeOK, HeadSeen
  <2>4. CellHeld(p)'
    BY <1>0, <1>t, <1>22 DEF AvailTail, Goto, TypeOK, CellHeld, Linking, Node
  <2> QED
    BY <1>q, <2>1, <2>2, <2>3, <2>4
<1>23. CASE AvailCheck(p)
  <2>1. UNCHANGED <<head, oc, tail, ic, link>> /\ OnlyLocals(p)
    BY <1>23, Own DEF AvailCheck, Step
  <2>2. TailSeen(p)'
    BY <1>0, <1>t, <1>23 DEF AvailCheck, Goto, TypeOK, TailSeen, CellHeld
  <2>3. HeadSeen(p)'
    BY <1>0, <1>t, <1>23 DEF AvailCheck, Goto, TypeOK, HeadSeen
  <2>4. CellHeld(p)'
    BY <1>0, <1>t, <1>23 DEF AvailCheck, Goto, TypeOK, CellHeld, Linking, Node
  <2> QED
    BY <1>q, <2>1, <2>2, <2>3, <2>4
<1>24. CASE Return(p)
  <2>1. UNCHANGED <<head, oc, tail, ic, link>> /\ OnlyLocals(p)
    BY <1>24, Own DEF Return, Step
  <2>2. TailSeen(p)'
    BY <1>0, <1>t, <1>24 DEF Return, Goto, TypeOK, TailSeen, CellHeld
  <2>3. HeadSeen(p)'
    BY <1>0, <1>t, <1>24 DEF Return, Goto, TypeOK, HeadSeen
  <2>4. CellHeld(p)'
    BY <1>0, <1>t, <1>24 DEF Return, Goto, TypeOK, CellHeld, Linking, Node
  <2> QED
    BY <1>q, <2>1, <2>2, <2>3, <2>4
<1>25. CASE fifoget(p)
  <2>1. UNCHANGED <<head, oc, tail, ic, link>> /\ OnlyLocals(p)
    BY <1>25, Own DEF fifoget, Step
  <2>2. TailSeen(p)'
    BY <1>0, <1>t, <1>25 DEF fifoget, Goto, TypeOK, TailSeen, CellHeld
  <2>3. HeadSeen(p)'
    BY <1>0, <1>t, <1>25 DEF fifoget, Goto, TypeOK, HeadSeen
  <2>4. CellHeld(p)'
    BY <1>0, <1>t, <1>25 DEF fifoget, Goto, TypeOK, CellHeld, Linking, Node
  <2> QED
    BY <1>q, <2>1, <2>2, <2>3, <2>4
<1>26. CASE fifoavail(p)
  <2>1. UNCHANGED <<head, oc, tail, ic, link>> /\ OnlyLocals(p)
    BY <1>26, Own DEF fifoavail, Step
  <2>2. TailSeen(p)'
    BY <1>0, <1>t, <1>26 DEF fifoavail, Goto, TypeOK, TailSeen, CellHeld
  <2>3. HeadSeen(p)'
    BY <1>0, <1>t, <1>26 DEF fifoavail, Goto, TypeOK, HeadSeen
  <2>4. CellHeld(p)'
    BY <1>0, <1>t, <1>26 DEF fifoavail, Goto, TypeOK, CellHeld, Linking, Node
  <2> QED
    BY <1>q, <2>1, <2>2, <2>3, <2>4
<1>27. ASSUME NEW c \in Cells, fifoput(p, c) PROVE Locals'
  <2>1. UNCHANGED <<head, oc, tail, ic, link>> /\ OnlyLocals(p)
    BY <1>27, Own DEF fifoput
  <2>2. TailSeen(p)'
    BY <1>0, <1>27 DEF fifoput, Goto, TypeOK, TailSeen
  <2>3. HeadSeen(p)'
    BY <1>0, <1>27 DEF fifoput, Goto, TypeOK, HeadSeen
  <2>4. CellHeld(p)'
    BY <1>0, <1>27, <1>t DEF fifoput, Goto, TypeOK, CellHeld, Linking
  <2> QED
    BY <1>q, <2>1, <2>2, <2>3, <2>4
<1>28. ASSUME NEW c \in Cells, NEW r \in Producers, Recycle(p, r, c) PROVE Locals'
  <2>1. UNCHANGED <<head, oc, tail, ic, pc, cell, lptr, lnext, lic, loc>>
    BY <1>28 DEF Recycle
  <2>2. link'[tail] = link[tail] /\ link'[head] = link[head]
    <3>1. c \in holds[p] /\ link' = [link EXCEPT ![c] = NULL]
      BY <1>28 DEF Recycle
    <3>2. InStrand(F, N, <<>>, tail) /\ InStrand(F, N, <<>>, head)
      BY Strands DEF Shape, Anchored, InStrand
    <3>3. tail # c /\ head # c
      BY <3>1, <3>2, Places DEF Shape, Somewhere
    <3> QED
      BY <1>t, <3>1, <3>3 DEF TypeOK, Node
  <2>3. ASSUME NEW q \in Procs PROVE TailSeen(q)' /\ HeadSeen(q)' /\ CellHeld(q)'
    BY <1>i, <1>t, <2>1, <2>2, OthersSee
  <2> QED
    BY <2>3 DEF Locals
<1> QED
  BY <1>1, <1>2, <1>3, <1>4, <1>5, <1>6, <1>7, <1>8, <1>9, <1>10, <1>11, <1>12,
     <1>13, <1>14, <1>15, <1>16, <1>17, <1>18, <1>19, <1>20, <1>21, <1>22, <1>23, <1>24, <1>25, <1>26,
     <1>27, <1>28 DEF Step

LEMMA Calm ==
  ASSUME LFFifoAssumption, TypeOK, NEW F, NEW N, NEW B,
         Shape(F, N), Ordered(F, N, B), Tallied(F, N), NEW p \in Procs, NEW l,
         OnlyLocals(p), pc' = [pc EXCEPT ![p] = l],
         UNCHANGED <<head, link, holds>>, InStrand(F, N, <<>>, tail'),
         HasCell(p)' <=> HasCell(p), HasCell(p) => cell'[p] = cell[p],
         l \in Linking => pc[p] \in Linking,
         l \in Carrying /\ cell'[p] # NULL => pc[p] \in Carrying,
         l = "put_link" => InStrand(F, N, <<>>, lptr'[p]),
         count' = count + (IF pc[p] \in {"put_swing", "put_inc"} THEN 1 ELSE 0)
                        - (IF l \in {"put_swing", "put_inc"} THEN 1 ELSE 0)
                        - (IF pc[p] = "get_dec" THEN 1 ELSE 0)
                        + (IF l = "get_dec" THEN 1 ELSE 0)
  PROVE  Shape(F, N)' /\ Ordered(F, N, B)' /\ Tallied(F, N)'
<1>1. pc'[p] = l
  BY DEF TypeOK
<1>2. Shape(F, N)' /\ Ordered(F, N, B)' /\ Behind(F, N)' = Behind(F, N)
  BY <1>1, SameStrands DEF OnlyLocals
<1>3. Tallied(F, N)'
  <2> DEFINE b == Cardinality(Behind(F, N))
             t == Cardinality(Late)
             d == Cardinality(At("get_dec"))
  <2>1. b \in Nat /\ t \in Nat /\ d \in Nat /\ count \in Int /\ count = b - 1 - t + d
    BY BehindSize, CountsMove DEF TypeOK, Tallied
  <2>2. /\ Cardinality(Late') = t - (IF pc[p] \in {"put_swing", "put_inc"} THEN 1 ELSE 0)
                                  + (IF l \in {"put_swing", "put_inc"} THEN 1 ELSE 0)
        /\ Cardinality(At("get_dec")') = d - (IF pc[p] = "get_dec" THEN 1 ELSE 0)
                                           + (IF l = "get_dec" THEN 1 ELSE 0)
    BY CountsMove
  <2>3. Cardinality(Behind(F, N)') = b
    BY <1>2
  <2> HIDE DEF b, t, d
  <2>4. count' = b - 1 - Cardinality(Late') + Cardinality(At("get_dec")')
    BY <2>1, <2>2
  <2> QED
    BY <2>3, <2>4 DEF Tallied
<1> QED
  BY <1>2, <1>3

LEMMA Stranded ==
  ASSUME LFFifoAssumption, TypeOK, Locals, NEW F, NEW N, NEW B,
         Shape(F, N), Ordered(F, N, B), Tallied(F, N), Next
  PROVE  \E G, M, C : Shape(G, M)' /\ Ordered(G, M, C)' /\ Tallied(G, M)'
<1>1. PICK p \in Procs : \/ Step(p) \/ fifoget(p) \/ fifoavail(p)
                         \/ \E c \in Cells : \/ fifoput(p, c)
                                             \/ \E q \in Producers : Recycle(p, q, c)
  BY DEF Next
<1>0. CellHeld(p)
  BY DEF Locals
<1>t. /\ InStrand(F, N, <<>>, tail) /\ count \in Int /\ NULL \notin Node
      /\ Cells \subseteq Node /\ Dummy \in Node
  BY DEF Shape, Anchored, TypeOK, Node, LFFifoAssumption
<1>b. /\ Cardinality(Late) \in Nat /\ Cardinality(At("get_dec")) \in Nat
      /\ Cardinality(Behind(F, N)) \in Nat
      /\ count = Cardinality(Behind(F, N)) - 1 - Cardinality(Late) + Cardinality(At("get_dec"))
  <2>2. IsFiniteSet(Procs) /\ Late \in SUBSET Procs /\ At("get_dec") \in SUBSET Procs
    BY FS_Union DEF LFFifoAssumption, Procs, Late, At
  <2>3. IsFiniteSet(Late) /\ IsFiniteSet(At("get_dec"))
    BY <2>2, FS_Subset
  <2> QED
    BY <2>3, FS_CardinalityType, BehindSize DEF Tallied
<1>2. CASE PutIc(p)
  <2> DEFINE l == "put_tail"
  <2>1. /\ pc[p] = "put_ic" /\ pc' = [pc EXCEPT ![p] = l]
        /\ UNCHANGED <<head, link, holds, tail, count, cell>>
    BY <1>2 DEF PutIc, Goto
  <2>2. InStrand(F, N, <<>>, tail')
    BY <1>t, <2>1
  <2>3. /\ HasCell(p)' <=> HasCell(p)
        /\ HasCell(p) => cell'[p] = cell[p]
        /\ l \in Linking => pc[p] \in Linking
        /\ l \in Carrying /\ cell'[p] # NULL => pc[p] \in Carrying
    BY <1>0, <1>t, <2>1 DEF HasCell, Linking, Carrying, CellHeld, TypeOK
  <2>4. l = "put_link" => InStrand(F, N, <<>>, lptr'[p])
    BY <2>1
  <2>5. count' = count + (IF pc[p] \in {"put_swing", "put_inc"} THEN 1 ELSE 0)
                       - (IF l \in {"put_swing", "put_inc"} THEN 1 ELSE 0)
                       - (IF pc[p] = "get_dec" THEN 1 ELSE 0)
                       + (IF l = "get_dec" THEN 1 ELSE 0)
    BY <1>t, <2>1
  <2>6. OnlyLocals(p)
    BY <1>2, Own DEF Step
  <2> HIDE DEF l
  <2> QED
    BY <2>1, <2>2, <2>3, <2>4, <2>5, <2>6, Calm
<1>3. CASE PutTail(p)
  <2> DEFINE l == "put_link"
  <2>1. /\ pc[p] = "put_tail" /\ pc' = [pc EXCEPT ![p] = l]
        /\ UNCHANGED <<head, link, holds, tail, count, cell>>
    BY <1>3 DEF PutTail, Goto
  <2>2. InStrand(F, N, <<>>, tail')
    BY <1>t, <2>1
  <2>3. /\ HasCell(p)' <=> HasCell(p)
        /\ HasCell(p) => cell'[p] = cell[p]
        /\ l \in Linking => pc[p] \in Linking
        /\ l \in Carrying /\ cell'[p] # NULL => pc[p] \in Carrying
    BY <1>0, <1>t, <2>1 DEF HasCell, Linking, Carrying, CellHeld, TypeOK
  <2>4. l = "put_link" => InStrand(F, N, <<>>, lptr'[p])
    BY <1>t, <1>3, <2>1 DEF PutTail, TypeOK
  <2>5. count' = count + (IF pc[p] \in {"put_swing", "put_inc"} THEN 1 ELSE 0)
                       - (IF l \in {"put_swing", "put_inc"} THEN 1 ELSE 0)
                       - (IF pc[p] = "get_dec" THEN 1 ELSE 0)
                       + (IF l = "get_dec" THEN 1 ELSE 0)
    BY <1>t, <2>1
  <2>6. OnlyLocals(p)
    BY <1>3, Own DEF Step
  <2> HIDE DEF l
  <2> QED
    BY <2>1, <2>2, <2>3, <2>4, <2>5, <2>6, Calm
<1>4. CASE PutNext(p)
  <2> DEFINE l == "put_help"
  <2>1. /\ pc[p] = "put_next" /\ pc' = [pc EXCEPT ![p] = l]
        /\ UNCHANGED <<head, link, holds, tail, count, cell>>
    BY <1>4 DEF PutNext, Goto
  <2>2. InStrand(F, N, <<>>, tail')
    BY <1>t, <2>1
  <2>3. /\ HasCell(p)' <=> HasCell(p)
        /\ HasCell(p) => cell'[p] = cell[p]
        /\ l \in Linking => pc[p] \in Linking
        /\ l \in Carrying /\ cell'[p] # NULL => pc[p] \in Carrying
    BY <1>0, <1>t, <2>1 DEF HasCell, Linking, Carrying, CellHeld, TypeOK
  <2>4. l = "put_link" => InStrand(F, N, <<>>, lptr'[p])
    BY <2>1
  <2>5. count' = count + (IF pc[p] \in {"put_swing", "put_inc"} THEN 1 ELSE 0)
                       - (IF l \in {"put_swing", "put_inc"} THEN 1 ELSE 0)
                       - (IF pc[p] = "get_dec" THEN 1 ELSE 0)
                       + (IF l = "get_dec" THEN 1 ELSE 0)
    BY <1>t, <2>1
  <2>6. OnlyLocals(p)
    BY <1>4, Own DEF Step
  <2> HIDE DEF l
  <2> QED
    BY <2>1, <2>2, <2>3, <2>4, <2>5, <2>6, Calm
<1>5. CASE PutHelp(p)
  <2> DEFINE l == "put_ic"
  <2>1. /\ pc[p] = "put_help" /\ pc' = [pc EXCEPT ![p] = l]
        /\ UNCHANGED <<head, link, holds, count, cell>>
    BY <1>5 DEF PutHelp, Goto
  <2>2. InStrand(F, N, <<>>, tail')
    BY <1>5, <2>1, Swings DEF PutHelp
  <2>3. /\ HasCell(p)' <=> HasCell(p)
        /\ HasCell(p) => cell'[p] = cell[p]
        /\ l \in Linking => pc[p] \in Linking
        /\ l \in Carrying /\ cell'[p] # NULL => pc[p] \in Carrying
    BY <1>0, <1>t, <2>1 DEF HasCell, Linking, Carrying, CellHeld, TypeOK
  <2>4. l = "put_link" => InStrand(F, N, <<>>, lptr'[p])
    BY <2>1
  <2>5. count' = count + (IF pc[p] \in {"put_swing", "put_inc"} THEN 1 ELSE 0)
                       - (IF l \in {"put_swing", "put_inc"} THEN 1 ELSE 0)
                       - (IF pc[p] = "get_dec" THEN 1 ELSE 0)
                       + (IF l = "get_dec" THEN 1 ELSE 0)
    BY <1>t, <2>1
  <2>6. OnlyLocals(p)
    BY <1>5, Own DEF Step
  <2> HIDE DEF l
  <2> QED
    BY <2>1, <2>2, <2>3, <2>4, <2>5, <2>6, Calm
<1>6. CASE PutSwing(p)
  <2> DEFINE l == "put_inc"
  <2>1. /\ pc[p] = "put_swing" /\ pc' = [pc EXCEPT ![p] = l]
        /\ UNCHANGED <<head, link, holds, count, cell>>
    BY <1>6 DEF PutSwing, Goto
  <2>2. InStrand(F, N, <<>>, tail')
    BY <1>6, <2>1, Swings DEF PutSwing
  <2>3. /\ HasCell(p)' <=> HasCell(p)
        /\ HasCell(p) => cell'[p] = cell[p]
        /\ l \in Linking => pc[p] \in Linking
        /\ l \in Carrying /\ cell'[p] # NULL => pc[p] \in Carrying
    BY <1>0, <1>t, <2>1 DEF HasCell, Linking, Carrying, CellHeld, TypeOK
  <2>4. l = "put_link" => InStrand(F, N, <<>>, lptr'[p])
    BY <2>1
  <2>5. count' = count + (IF pc[p] \in {"put_swing", "put_inc"} THEN 1 ELSE 0)
                       - (IF l \in {"put_swing", "put_inc"} THEN 1 ELSE 0)
                       - (IF pc[p] = "get_dec" THEN 1 ELSE 0)
                       + (IF l = "get_dec" THEN 1 ELSE 0)
    BY <1>t, <2>1
  <2>6. OnlyLocals(p)
    BY <1>6, Own DEF Step
  <2> HIDE DEF l
  <2> QED
    BY <2>1, <2>2, <2>3, <2>4, <2>5, <2>6, Calm
<1>7. CASE PutInc(p)
  <2> DEFINE l == IF cell[p] = Dummy THEN "get_oc" ELSE "return"
  <2>1. /\ pc[p] = "put_inc" /\ pc' = [pc EXCEPT ![p] = l]
        /\ UNCHANGED <<head, link, holds, tail>>
    BY <1>7 DEF PutInc, Goto
  <2>2. InStrand(F, N, <<>>, tail')
    BY <1>t, <2>1
  <2>3. /\ HasCell(p)' <=> HasCell(p)
        /\ HasCell(p) => cell'[p] = cell[p]
        /\ l \in Linking => pc[p] \in Linking
        /\ l \in Carrying /\ cell'[p] # NULL => pc[p] \in Carrying
    BY <1>0, <1>t, <2>1, <1>7 DEF PutInc, Goto, HasCell, Linking, Carrying, CellHeld, TypeOK
  <2>4. l = "put_link" => InStrand(F, N, <<>>, lptr'[p])
    BY <2>1
  <2>5. count' = count + (IF pc[p] \in {"put_swing", "put_inc"} THEN 1 ELSE 0)
                       - (IF l \in {"put_swing", "put_inc"} THEN 1 ELSE 0)
                       - (IF pc[p] = "get_dec" THEN 1 ELSE 0)
                       + (IF l = "get_dec" THEN 1 ELSE 0)
    BY <1>t, <1>7, <2>1 DEF PutInc
  <2>6. OnlyLocals(p)
    BY <1>7, Own DEF Step
  <2> HIDE DEF l
  <2> QED
    BY <2>1, <2>2, <2>3, <2>4, <2>5, <2>6, Calm
<1>8. CASE GetOc(p)
  <2> DEFINE l == "get_ic"
  <2>1. /\ pc[p] = "get_oc" /\ pc' = [pc EXCEPT ![p] = l]
        /\ UNCHANGED <<head, link, holds, tail, count, cell>>
    BY <1>8 DEF GetOc, Goto
  <2>2. InStrand(F, N, <<>>, tail')
    BY <1>t, <2>1
  <2>3. /\ HasCell(p)' <=> HasCell(p)
        /\ HasCell(p) => cell'[p] = cell[p]
        /\ l \in Linking => pc[p] \in Linking
        /\ l \in Carrying /\ cell'[p] # NULL => pc[p] \in Carrying
    BY <1>0, <1>t, <2>1 DEF HasCell, Linking, Carrying, CellHeld, TypeOK
  <2>4. l = "put_link" => InStrand(F, N, <<>>, lptr'[p])
    BY <2>1
  <2>5. count' = count + (IF pc[p] \in {"put_swing", "put_inc"} THEN 1 ELSE 0)
                       - (IF l \in {"put_swing", "put_inc"} THEN 1 ELSE 0)
                       - (IF pc[p] = "get_dec" THEN 1 ELSE 0)
                       + (IF l = "get_dec" THEN 1 ELSE 0)
    BY <1>t, <2>1
  <2>6. OnlyLocals(p)
    BY <1>8, Own DEF Step
  <2> HIDE DEF l
  <2> QED
    BY <2>1, <2>2, <2>3, <2>4, <2>5, <2>6, Calm
<1>9. CASE GetIc(p)
  <2> DEFINE l == "get_head"
  <2>1. /\ pc[p] = "get_ic" /\ pc' = [pc EXCEPT ![p] = l]
        /\ UNCHANGED <<head, link, holds, tail, count, cell>>
    BY <1>9 DEF GetIc, Goto
  <2>2. InStrand(F, N, <<>>, tail')
    BY <1>t, <2>1
  <2>3. /\ HasCell(p)' <=> HasCell(p)
        /\ HasCell(p) => cell'[p] = cell[p]
        /\ l \in Linking => pc[p] \in Linking
        /\ l \in Carrying /\ cell'[p] # NULL => pc[p] \in Carrying
    BY <1>0, <1>t, <2>1 DEF HasCell, Linking, Carrying, CellHeld, TypeOK
  <2>4. l = "put_link" => InStrand(F, N, <<>>, lptr'[p])
    BY <2>1
  <2>5. count' = count + (IF pc[p] \in {"put_swing", "put_inc"} THEN 1 ELSE 0)
                       - (IF l \in {"put_swing", "put_inc"} THEN 1 ELSE 0)
                       - (IF pc[p] = "get_dec" THEN 1 ELSE 0)
                       + (IF l = "get_dec" THEN 1 ELSE 0)
    BY <1>t, <2>1
  <2>6. OnlyLocals(p)
    BY <1>9, Own DEF Step
  <2> HIDE DEF l
  <2> QED
    BY <2>1, <2>2, <2>3, <2>4, <2>5, <2>6, Calm
<1>10. CASE GetHead(p)
  <2> DEFINE l == "get_next"
  <2>1. /\ pc[p] = "get_head" /\ pc' = [pc EXCEPT ![p] = l]
        /\ UNCHANGED <<head, link, holds, tail, count, cell>>
    BY <1>10 DEF GetHead, Goto
  <2>2. InStrand(F, N, <<>>, tail')
    BY <1>t, <2>1
  <2>3. /\ HasCell(p)' <=> HasCell(p)
        /\ HasCell(p) => cell'[p] = cell[p]
        /\ l \in Linking => pc[p] \in Linking
        /\ l \in Carrying /\ cell'[p] # NULL => pc[p] \in Carrying
    BY <1>0, <1>t, <2>1 DEF HasCell, Linking, Carrying, CellHeld, TypeOK
  <2>4. l = "put_link" => InStrand(F, N, <<>>, lptr'[p])
    BY <2>1
  <2>5. count' = count + (IF pc[p] \in {"put_swing", "put_inc"} THEN 1 ELSE 0)
                       - (IF l \in {"put_swing", "put_inc"} THEN 1 ELSE 0)
                       - (IF pc[p] = "get_dec" THEN 1 ELSE 0)
                       + (IF l = "get_dec" THEN 1 ELSE 0)
    BY <1>t, <2>1
  <2>6. OnlyLocals(p)
    BY <1>10, Own DEF Step
  <2> HIDE DEF l
  <2> QED
    BY <2>1, <2>2, <2>3, <2>4, <2>5, <2>6, Calm
<1>11. CASE GetNext(p)
  <2> DEFINE l == "get_check"
  <2>1. /\ pc[p] = "get_next" /\ pc' = [pc EXCEPT ![p] = l]
        /\ UNCHANGED <<head, link, holds, tail, count, cell>>
    BY <1>11 DEF GetNext, Goto
  <2>2. InStrand(F, N, <<>>, tail')
    BY <1>t, <2>1
  <2>3. /\ HasCell(p)' <=> HasCell(p)
        /\ HasCell(p) => cell'[p] = cell[p]
        /\ l \in Linking => pc[p] \in Linking
        /\ l \in Carrying /\ cell'[p] # NULL => pc[p] \in Carrying
    BY <1>0, <1>t, <2>1 DEF HasCell, Linking, Carrying, CellHeld, TypeOK
  <2>4. l = "put_link" => InStrand(F, N, <<>>, lptr'[p])
    BY <2>1
  <2>5. count' = count + (IF pc[p] \in {"put_swing", "put_inc"} THEN 1 ELSE 0)
                       - (IF l \in {"put_swing", "put_inc"} THEN 1 ELSE 0)
                       - (IF pc[p] = "get_dec" THEN 1 ELSE 0)
                       + (IF l = "get_dec" THEN 1 ELSE 0)
    BY <1>t, <2>1
  <2>6. OnlyLocals(p)
    BY <1>11, Own DEF Step
  <2> HIDE DEF l
  <2> QED
    BY <2>1, <2>2, <2>3, <2>4, <2>5, <2>6, Calm
<1>12. CASE GetCheck(p)
  <2> DEFINE l == IF loc[p] = oc THEN "get_tail" ELSE "get_oc"
  <2>1. /\ pc[p] = "get_check" /\ pc' = [pc EXCEPT ![p] = l]
        /\ UNCHANGED <<head, link, holds, tail, count, cell>>
    BY <1>12 DEF GetCheck, Goto
  <2>2. InStrand(F, N, <<>>, tail')
    BY <1>t, <2>1
  <2>3. /\ HasCell(p)' <=> HasCell(p)
        /\ HasCell(p) => cell'[p] = cell[p]
        /\ l \in Linking => pc[p] \in Linking
        /\ l \in Carrying /\ cell'[p] # NULL => pc[p] \in Carrying
    BY <1>0, <1>t, <2>1 DEF HasCell, Linking, Carrying, CellHeld, TypeOK
  <2>4. l = "put_link" => InStrand(F, N, <<>>, lptr'[p])
    BY <2>1
  <2>5. count' = count + (IF pc[p] \in {"put_swing", "put_inc"} THEN 1 ELSE 0)
                       - (IF l \in {"put_swing", "put_inc"} THEN 1 ELSE 0)
                       - (IF pc[p] = "get_dec" THEN 1 ELSE 0)
                       + (IF l = "get_dec" THEN 1 ELSE 0)
    BY <1>t, <2>1
  <2>6. OnlyLocals(p)
    BY <1>12, Own DEF Step
  <2> HIDE DEF l
  <2> QED
    BY <2>1, <2>2, <2>3, <2>4, <2>5, <2>6, Calm
<1>13. CASE GetTail(p)
  <2> DEFINE l == pc'[p]
  <2>1. /\ pc[p] = "get_tail" /\ pc' = [pc EXCEPT ![p] = l]
        /\ l \in {"return", "get_help", "get_cas", "get_oc"}
        /\ UNCHANGED <<head, link, holds, tail, count, cell>>
    BY <1>13 DEF GetTail, Goto, TypeOK
  <2> HIDE DEF l
  <2>2. InStrand(F, N, <<>>, tail')
    BY <1>t, <2>1
  <2>3. /\ HasCell(p)' <=> HasCell(p)
        /\ HasCell(p) => cell'[p] = cell[p]
        /\ l \in Linking => pc[p] \in Linking
        /\ l \in Carrying /\ cell'[p] # NULL => pc[p] \in Carrying
    BY <1>0, <1>t, <2>1 DEF HasCell, Linking, Carrying, CellHeld, TypeOK
  <2>4. l = "put_link" => InStrand(F, N, <<>>, lptr'[p])
    BY <2>1
  <2>5. count' = count + (IF pc[p] \in {"put_swing", "put_inc"} THEN 1 ELSE 0)
                       - (IF l \in {"put_swing", "put_inc"} THEN 1 ELSE 0)
                       - (IF pc[p] = "get_dec" THEN 1 ELSE 0)
                       + (IF l = "get_dec" THEN 1 ELSE 0)
    BY <1>t, <2>1
  <2>6. OnlyLocals(p)
    BY <1>13, Own DEF Step
  <2> HIDE DEF l
  <2> QED
    BY <2>1, <2>2, <2>3, <2>4, <2>5, <2>6, Calm
<1>14. CASE GetHelp(p)
  <2> DEFINE l == "get_oc"
  <2>1. /\ pc[p] = "get_help" /\ pc' = [pc EXCEPT ![p] = l]
        /\ UNCHANGED <<head, link, holds, count, cell>>
    BY <1>14 DEF GetHelp, Goto
  <2>2. InStrand(F, N, <<>>, tail')
    BY <1>14, <2>1, Swings DEF GetHelp
  <2>3. /\ HasCell(p)' <=> HasCell(p)
        /\ HasCell(p) => cell'[p] = cell[p]
        /\ l \in Linking => pc[p] \in Linking
        /\ l \in Carrying /\ cell'[p] # NULL => pc[p] \in Carrying
    BY <1>0, <1>t, <2>1 DEF HasCell, Linking, Carrying, CellHeld, TypeOK
  <2>4. l = "put_link" => InStrand(F, N, <<>>, lptr'[p])
    BY <2>1
  <2>5. count' = count + (IF pc[p] \in {"put_swing", "put_inc"} THEN 1 ELSE 0)
                       - (IF l \in {"put_swing", "put_inc"} THEN 1 ELSE 0)
                       - (IF pc[p] = "get_dec" THEN 1 ELSE 0)
                       + (IF l = "get_dec" THEN 1 ELSE 0)
    BY <1>t, <2>1
  <2>6. OnlyLocals(p)
    BY <1>14, Own DEF Step
  <2> HIDE DEF l
  <2> QED
    BY <2>1, <2>2, <2>3, <2>4, <2>5, <2>6, Calm
<1>15. CASE GetDec(p)
  <2> DEFINE l == IF cell[p] = Dummy THEN "put_end" ELSE "return"
  <2>1. /\ pc[p] = "get_dec" /\ pc' = [pc EXCEPT ![p] = l]
        /\ UNCHANGED <<head, link, holds, tail, cell>>
    BY <1>15 DEF GetDec, Goto
  <2>2. InStrand(F, N, <<>>, tail')
    BY <1>t, <2>1
  <2>3. /\ HasCell(p)' <=> HasCell(p)
        /\ HasCell(p) => cell'[p] = cell[p]
        /\ l \in Linking => pc[p] \in Linking
        /\ l \in Carrying /\ cell'[p] # NULL => pc[p] \in Carrying
    BY <1>0, <1>t, <2>1 DEF HasCell, Linking, Carrying, CellHeld, TypeOK
  <2>4. l = "put_link" => InStrand(F, N, <<>>, lptr'[p])
    BY <2>1
  <2>5. count' = count + (IF pc[p] \in {"put_swing", "put_inc"} THEN 1 ELSE 0)
                       - (IF l \in {"put_swing", "put_inc"} THEN 1 ELSE 0)
                       - (IF pc[p] = "get_dec" THEN 1 ELSE 0)
                       + (IF l = "get_dec" THEN 1 ELSE 0)
    BY <1>t, <1>15, <2>1 DEF GetDec
  <2>6. OnlyLocals(p)
    BY <1>15, Own DEF Step
  <2> HIDE DEF l
  <2> QED
    BY <2>1, <2>2, <2>3, <2>4, <2>5, <2>6, Calm
<1>16. CASE AvailOc(p)
  <2> DEFINE l == "avail_head"
  <2>1. /\ pc[p] = "avail_oc" /\ pc' = [pc EXCEPT ![p] = l]
        /\ UNCHANGED <<head, link, holds, tail, count, cell>>
    BY <1>16 DEF AvailOc, Goto
  <2>2. InStrand(F, N, <<>>, tail')
    BY <1>t, <2>1
  <2>3. /\ HasCell(p)' <=> HasCell(p)
        /\ HasCell(p) => cell'[p] = cell[p]
        /\ l \in Linking => pc[p] \in Linking
        /\ l \in Carrying /\ cell'[p] # NULL => pc[p] \in Carrying
    BY <1>0, <1>t, <2>1 DEF HasCell, Linking, Carrying, CellHeld, TypeOK
  <2>4. l = "put_link" => InStrand(F, N, <<>>, lptr'[p])
    BY <2>1
  <2>5. count' = count + (IF pc[p] \in {"put_swing", "put_inc"} THEN 1 ELSE 0)
                       - (IF l \in {"put_swing", "put_inc"} THEN 1 ELSE 0)
                       - (IF pc[p] = "get_dec" THEN 1 ELSE 0)
                       + (IF l = "get_dec" THEN 1 ELSE 0)
    BY <1>t, <2>1
  <2>6. OnlyLocals(p)
    BY <1>16, Own DEF Step
  <2> HIDE DEF l
  <2> QED
    BY <2>1, <2>2, <2>3, <2>4, <2>5, <2>6, Calm
<1>17. CASE AvailHead(p)
  <2> DEFINE l == "avail_link"
  <2>1. /\ pc[p] = "avail_head" /\ pc' = [pc EXCEPT ![p] = l]
        /\ UNCHANGED <<head, link, holds, tail, count, cell>>
    BY <1>17 DEF AvailHead, Goto
  <2>2. InStrand(F, N, <<>>, tail')
    BY <1>t, <2>1
  <2>3. /\ HasCell(p)' <=> HasCell(p)
        /\ HasCell(p) => cell'[p] = cell[p]
        /\ l \in Linking => pc[p] \in Linking
        /\ l \in Carrying /\ cell'[p] # NULL => pc[p] \in Carrying
    BY <1>0, <1>t, <2>1 DEF HasCell, Linking, Carrying, CellHeld, TypeOK
  <2>4. l = "put_link" => InStrand(F, N, <<>>, lptr'[p])
    BY <2>1
  <2>5. count' = count + (IF pc[p] \in {"put_swing", "put_inc"} THEN 1 ELSE 0)
                       - (IF l \in {"put_swing", "put_inc"} THEN 1 ELSE 0)
                       - (IF pc[p] = "get_dec" THEN 1 ELSE 0)
                       + (IF l = "get_dec" THEN 1 ELSE 0)
    BY <1>t, <2>1
  <2>6. OnlyLocals(p)
    BY <1>17, Own DEF Step
  <2> HIDE DEF l
  <2> QED
    BY <2>1, <2>2, <2>3, <2>4, <2>5, <2>6, Calm
<1>18. CASE AvailLink(p)
  <2> DEFINE l == "avail_tail"
  <2>1. /\ pc[p] = "avail_link" /\ pc' = [pc EXCEPT ![p] = l]
        /\ UNCHANGED <<head, link, holds, tail, count, cell>>
    BY <1>18 DEF AvailLink, Goto
  <2>2. InStrand(F, N, <<>>, tail')
    BY <1>t, <2>1
  <2>3. /\ HasCell(p)' <=> HasCell(p)
        /\ HasCell(p) => cell'[p] = cell[p]
        /\ l \in Linking => pc[p] \in Linking
        /\ l \in Carrying /\ cell'[p] # NULL => pc[p] \in Carrying
    BY <1>0, <1>t, <2>1 DEF HasCell, Linking, Carrying, CellHeld, TypeOK
  <2>4. l = "put_link" => InStrand(F, N, <<>>, lptr'[p])
    BY <2>1
  <2>5. count' = count + (IF pc[p] \in {"put_swing", "put_inc"} THEN 1 ELSE 0)
                       - (IF l \in {"put_swing", "put_inc"} THEN 1 ELSE 0)
                       - (IF pc[p] = "get_dec" THEN 1 ELSE 0)
                       + (IF l = "get_dec" THEN 1 ELSE 0)
    BY <1>t, <2>1
  <2>6. OnlyLocals(p)
    BY <1>18, Own DEF Step
  <2> HIDE DEF l
  <2> QED
    BY <2>1, <2>2, <2>3, <2>4, <2>5, <2>6, Calm
<1>19. CASE AvailTail(p)
  <2> DEFINE l == "avail_check"
  <2>1. /\ pc[p] = "avail_tail" /\ pc' = [pc EXCEPT ![p] = l]
        /\ UNCHANGED <<head, link, holds, tail, count>>
    BY <1>19 DEF AvailTail, Goto
  <2>2. InStrand(F, N, <<>>, tail')
    BY <1>t, <2>1
  <2>3. /\ HasCell(p)' <=> HasCell(p)
        /\ HasCell(p) => cell'[p] = cell[p]
        /\ l \in Linking => pc[p] \in Linking
        /\ l \in Carrying /\ cell'[p] # NULL => pc[p] \in Carrying
    BY <1>0, <1>t, <2>1, <1>19 DEF AvailTail, Goto, HasCell, Linking, Carrying, CellHeld, TypeOK
  <2>4. l = "put_link" => InStrand(F, N, <<>>, lptr'[p])
    BY <2>1
  <2>5. count' = count + (IF pc[p] \in {"put_swing", "put_inc"} THEN 1 ELSE 0)
                       - (IF l \in {"put_swing", "put_inc"} THEN 1 ELSE 0)
                       - (IF pc[p] = "get_dec" THEN 1 ELSE 0)
                       + (IF l = "get_dec" THEN 1 ELSE 0)
    BY <1>t, <2>1
  <2>6. OnlyLocals(p)
    BY <1>19, Own DEF Step
  <2> HIDE DEF l
  <2> QED
    BY <2>1, <2>2, <2>3, <2>4, <2>5, <2>6, Calm
<1>20. CASE AvailCheck(p)
  <2> DEFINE l == pc'[p]
  <2>1. /\ pc[p] = "avail_check" /\ pc' = [pc EXCEPT ![p] = l]
        /\ l \in {"avail_return", "avail_oc"}
        /\ UNCHANGED <<head, link, holds, tail, count>>
    BY <1>20 DEF AvailCheck, Goto, TypeOK
  <2> HIDE DEF l
  <2>2. InStrand(F, N, <<>>, tail')
    BY <1>t, <2>1
  <2>3. /\ HasCell(p)' <=> HasCell(p)
        /\ HasCell(p) => cell'[p] = cell[p]
        /\ l \in Linking => pc[p] \in Linking
        /\ l \in Carrying /\ cell'[p] # NULL => pc[p] \in Carrying
    BY <1>0, <1>t, <2>1, <1>20 DEF AvailCheck, Goto, HasCell, Linking, Carrying, CellHeld, TypeOK
  <2>4. l = "put_link" => InStrand(F, N, <<>>, lptr'[p])
    BY <2>1
  <2>5. count' = count + (IF pc[p] \in {"put_swing", "put_inc"} THEN 1 ELSE 0)
                       - (IF l \in {"put_swing", "put_inc"} THEN 1 ELSE 0)
                       - (IF pc[p] = "get_dec" THEN 1 ELSE 0)
                       + (IF l = "get_dec" THEN 1 ELSE 0)
    BY <1>t, <2>1
  <2>6. OnlyLocals(p)
    BY <1>20, Own DEF Step
  <2> HIDE DEF l
  <2> QED
    BY <2>1, <2>2, <2>3, <2>4, <2>5, <2>6, Calm
<1>21. CASE fifoget(p)
  <2> DEFINE l == "get_oc"
  <2>1. /\ pc[p] = "idle" /\ pc' = [pc EXCEPT ![p] = l]
        /\ UNCHANGED <<head, link, holds, tail, count, cell>>
    BY <1>21 DEF fifoget, Goto
  <2>2. InStrand(F, N, <<>>, tail')
    BY <1>t, <2>1
  <2>3. /\ HasCell(p)' <=> HasCell(p)
        /\ HasCell(p) => cell'[p] = cell[p]
        /\ l \in Linking => pc[p] \in Linking
        /\ l \in Carrying /\ cell'[p] # NULL => pc[p] \in Carrying
    BY <1>0, <1>t, <2>1 DEF HasCell, Linking, Carrying, CellHeld, TypeOK
  <2>4. l = "put_link" => InStrand(F, N, <<>>, lptr'[p])
    BY <2>1
  <2>5. count' = count + (IF pc[p] \in {"put_swing", "put_inc"} THEN 1 ELSE 0)
                       - (IF l \in {"put_swing", "put_inc"} THEN 1 ELSE 0)
                       - (IF pc[p] = "get_dec" THEN 1 ELSE 0)
                       + (IF l = "get_dec" THEN 1 ELSE 0)
    BY <1>t, <2>1
  <2>6. OnlyLocals(p)
    BY <1>21, Own
  <2> HIDE DEF l
  <2> QED
    BY <2>1, <2>2, <2>3, <2>4, <2>5, <2>6, Calm
<1>22. CASE fifoavail(p)
  <2> DEFINE l == "avail_oc"
  <2>1. /\ pc[p] = "idle" /\ pc' = [pc EXCEPT ![p] = l]
        /\ UNCHANGED <<head, link, holds, tail, count, cell>>
    BY <1>22 DEF fifoavail, Goto
  <2>2. InStrand(F, N, <<>>, tail')
    BY <1>t, <2>1
  <2>3. /\ HasCell(p)' <=> HasCell(p)
        /\ HasCell(p) => cell'[p] = cell[p]
        /\ l \in Linking => pc[p] \in Linking
        /\ l \in Carrying /\ cell'[p] # NULL => pc[p] \in Carrying
    BY <1>0, <1>t, <2>1 DEF HasCell, Linking, Carrying, CellHeld, TypeOK
  <2>4. l = "put_link" => InStrand(F, N, <<>>, lptr'[p])
    BY <2>1
  <2>5. count' = count + (IF pc[p] \in {"put_swing", "put_inc"} THEN 1 ELSE 0)
                       - (IF l \in {"put_swing", "put_inc"} THEN 1 ELSE 0)
                       - (IF pc[p] = "get_dec" THEN 1 ELSE 0)
                       + (IF l = "get_dec" THEN 1 ELSE 0)
    BY <1>t, <2>1
  <2>6. OnlyLocals(p)
    BY <1>22, Own
  <2> HIDE DEF l
  <2> QED
    BY <2>1, <2>2, <2>3, <2>4, <2>5, <2>6, Calm
<1>23. CASE PutEnd(p)
  <2>1. /\ pc[p] = "put_end" /\ link' = [link EXCEPT ![cell[p]] = End]
        /\ pc' = [pc EXCEPT ![p] = "put_ic"]
        /\ UNCHANGED <<head, tail, cell, lptr, holds, count>>
    BY <1>23 DEF PutEnd, Goto
  <2>2. cell[p] \in Node
    BY <1>0, <2>1 DEF CellHeld
  <2>3. Shape(F, N)' /\ Ordered(F, N, B)' /\ Behind(F, N)' = Behind(F, N)
    BY <2>1, <2>2, EndCell
  <2>4. /\ Cardinality(Late') = Cardinality(Late)
       /\ Cardinality(At("get_dec")') = Cardinality(At("get_dec"))
    <3> DEFINE l == "put_ic"
    <3>1. pc' = [pc EXCEPT ![p] = l]
      BY <2>1
    <3>2. pc[p] \notin {"put_swing", "put_inc", "get_dec"} /\ l \notin {"put_swing", "put_inc", "get_dec"}
      BY <2>1
    <3> HIDE DEF l
    <3> QED
      BY <3>1, <3>2, CountsChange
  <2>5. Tallied(F, N)'
    BY <2>1, <2>3, <2>4 DEF Tallied
  <2> QED
    BY <2>3, <2>5
<1>24. CASE PutLink(p)
  <2>1. pc[p] = "put_link" /\ UNCHANGED <<head, tail, cell, lptr, holds, count>>
    BY <1>24 DEF PutLink
  <2>2. CASE link[lptr[p]] = End
    <3>1. link' = [link EXCEPT ![lptr[p]] = cell[p]] /\ pc' = [pc EXCEPT ![p] = "put_swing"]
      BY <1>24, <2>2 DEF PutLink, Goto
    <3>2. lptr[p] \in Node
      BY <1>0, <2>1 DEF CellHeld
    <3>a. UNCHANGED <<head, tail, cell, lptr, holds>>
      BY <2>1
    <3>b. /\ \E G, M : /\ Shape(G, M)' /\ Ordered(G, M, B)'
                      /\ Behind(G, M)' = Behind(F, N) \cup {cell[p]}
          /\ cell[p] \notin Behind(F, N)
      BY <2>1, <2>2, <3>a, <3>1, <3>2, JoinStrands
    <3>3. PICK G, M : Shape(G, M)' /\ Ordered(G, M, B)' /\ Behind(G, M)' = Behind(F, N) \cup {cell[p]}
      BY <3>b
    <3>4. cell[p] \notin Behind(F, N)
      BY <3>b
    <3>5. Cardinality(Behind(G, M)') = Cardinality(Behind(F, N)) + 1
      BY <3>3, <3>4, BehindSize
    <3>6. /\ Cardinality(Late') = Cardinality(Late) + 1
         /\ Cardinality(At("get_dec")') = Cardinality(At("get_dec"))
      <4> DEFINE l == "put_swing"
      <4>1. pc' = [pc EXCEPT ![p] = l]
        BY <2>1, <3>1
      <4>2. pc[p] \notin {"put_swing", "put_inc", "get_dec"} /\ l = "put_swing"
        BY <2>1, <3>1
      <4> HIDE DEF l
      <4> QED
        BY <4>1, <4>2, CountsChange
    <3>7. count' = Cardinality(Behind(G, M)') - 1 - Cardinality(Late') + Cardinality(At("get_dec")')
      BY <1>b, <2>1, <3>5, <3>6
    <3> QED
      BY <3>3, <3>7 DEF Tallied
  <2>3. CASE link[lptr[p]] # End
    <3> DEFINE l == "put_next"
    <3>1. pc' = [pc EXCEPT ![p] = l] /\ UNCHANGED link
      BY <1>24, <2>3 DEF PutLink, Goto
    <3>2. InStrand(F, N, <<>>, tail')
      BY <1>t, <2>1
    <3>3. /\ HasCell(p)' <=> HasCell(p)
          /\ HasCell(p) => cell'[p] = cell[p]
          /\ l \in Linking => pc[p] \in Linking
          /\ l \in Carrying /\ cell'[p] # NULL => pc[p] \in Carrying
      BY <2>1, <3>1 DEF HasCell, Linking, Carrying, TypeOK
    <3>4. count' = count + (IF pc[p] \in {"put_swing", "put_inc"} THEN 1 ELSE 0)
                         - (IF l \in {"put_swing", "put_inc"} THEN 1 ELSE 0)
                         - (IF pc[p] = "get_dec" THEN 1 ELSE 0)
                         + (IF l = "get_dec" THEN 1 ELSE 0)
      BY <1>t, <2>1
    <3>5. OnlyLocals(p) /\ l # "put_link"
      BY <1>24, Own DEF Step
    <3> HIDE DEF l
    <3> QED
      BY <2>1, <3>1, <3>2, <3>3, <3>4, <3>5, Calm
  <2> QED
    BY <2>2, <2>3
<1>25. CASE GetCAS(p)
  <2>1. pc[p] = "get_cas" /\ UNCHANGED <<tail, count, link, lptr, holds>>
    BY <1>25 DEF GetCAS
  <2>2. CASE HeadUnmoved(p)
    <3>1. lnext[p] = link[head] /\ link[head] # End /\ head # tail
      BY <2>1, <2>2, Takes
    <3>2. /\ head' = link[head] /\ cell' = [cell EXCEPT ![p] = head]
          /\ pc' = [pc EXCEPT ![p] = "get_dec"]
      BY <1>25, <2>2, <3>1 DEF GetCAS, Goto
    <3>3. PICK G, M, C : Shape(G, M)' /\ Ordered(G, M, C)' /\ Behind(G, M)' = Behind(F, N) \ {head}
      BY <2>1, <3>1, <3>2, TakeHead
    <3>4. head \in Behind(F, N)
      BY <2>1, <3>1, <3>2, TakeHead
    <3>5. Cardinality(Behind(G, M)') = Cardinality(Behind(F, N)) - 1
      BY <3>3, <3>4, BehindSize
    <3>6. /\ Cardinality(Late') = Cardinality(Late)
         /\ Cardinality(At("get_dec")') = Cardinality(At("get_dec")) + 1
      <4> DEFINE l == "get_dec"
      <4>1. pc' = [pc EXCEPT ![p] = l]
        BY <2>1, <3>2
      <4>2. pc[p] \notin {"put_swing", "put_inc", "get_dec"} /\ l = "get_dec"
        BY <2>1, <3>2
      <4> HIDE DEF l
      <4> QED
        BY <4>1, <4>2, CountsChange
    <3>7. count' = Cardinality(Behind(G, M)') - 1 - Cardinality(Late') + Cardinality(At("get_dec")')
      BY <1>b, <2>1, <3>5, <3>6
    <3> QED
      BY <3>3, <3>7 DEF Tallied
  <2>3. CASE ~ HeadUnmoved(p)
    <3> DEFINE l == "get_oc"
    <3>1. pc' = [pc EXCEPT ![p] = l] /\ UNCHANGED <<head, cell>>
      BY <1>25, <2>3 DEF GetCAS, Goto
    <3>2. InStrand(F, N, <<>>, tail')
      BY <1>t, <2>1
    <3>3. /\ HasCell(p)' <=> HasCell(p)
          /\ HasCell(p) => cell'[p] = cell[p]
          /\ l \in Linking => pc[p] \in Linking
          /\ l \in Carrying /\ cell'[p] # NULL => pc[p] \in Carrying
      BY <2>1, <3>1 DEF HasCell, Linking, Carrying, TypeOK
    <3>4. count' = count + (IF pc[p] \in {"put_swing", "put_inc"} THEN 1 ELSE 0)
                         - (IF l \in {"put_swing", "put_inc"} THEN 1 ELSE 0)
                         - (IF pc[p] = "get_dec" THEN 1 ELSE 0)
                         + (IF l = "get_dec" THEN 1 ELSE 0)
      BY <1>t, <2>1
    <3>5. OnlyLocals(p) /\ l # "put_link"
      BY <1>25, Own DEF Step
    <3> HIDE DEF l
    <3> QED
      BY <2>1, <3>1, <3>2, <3>3, <3>4, <3>5, Calm
  <2> QED
    BY <2>2, <2>3
<1>26. CASE Return(p)
  <2>1. /\ pc[p] \in {"return", "avail_return"} /\ pc' = [pc EXCEPT ![p] = "idle"]
        /\ cell' = [cell EXCEPT ![p] = NULL] /\ lptr' = [lptr EXCEPT ![p] = NULL]
        /\ holds' = IF pc[p] = "return"
                    THEN [holds EXCEPT ![p] = @ \cup ({cell[p]} \ {NULL})]
                    ELSE holds
        /\ UNCHANGED <<head, tail, link, count>>
    BY <1>26 DEF Return, Goto
  <2>2. CASE pc[p] = "return" /\ cell[p] # NULL
    <3>1. cell[p] \in Cells
      BY <1>0, <2>2 DEF CellHeld
    <3>2. holds' = [holds EXCEPT ![p] = @ \cup {cell[p]}]
      <4>1. {cell[p]} \ {NULL} = {cell[p]}
        BY <2>2
      <4> QED
        BY <2>1, <2>2, <4>1
    <3>3. PICK M : Shape(F, M)' /\ Ordered(F, M, B)' /\ Behind(F, M)' = Behind(F, N)
      BY <2>1, <2>2, <3>1, <3>2, GiveCell
    <3>4. /\ Cardinality(Late') = Cardinality(Late)
         /\ Cardinality(At("get_dec")') = Cardinality(At("get_dec"))
      <4> DEFINE l == "idle"
      <4>1. pc' = [pc EXCEPT ![p] = l]
        BY <2>1
      <4>2. pc[p] \notin {"put_swing", "put_inc", "get_dec"} /\ l \notin {"put_swing", "put_inc", "get_dec"}
        BY <2>1, <2>2
      <4> HIDE DEF l
      <4> QED
        BY <4>1, <4>2, CountsChange
    <3>5. Tallied(F, M)'
      BY <2>1, <3>3, <3>4 DEF Tallied
    <3> QED
      BY <3>3, <3>5
  <2>3. CASE ~ (pc[p] = "return" /\ cell[p] # NULL)
    <3> DEFINE l == "idle"
    <3>1. UNCHANGED holds
      <4>1. CASE pc[p] = "return"
        <5>1. holds[p] \cup ({cell[p]} \ {NULL}) = holds[p]
          BY <2>3, <4>1
        <5> QED
          BY <2>1, <4>1, <5>1 DEF TypeOK
      <4>2. CASE pc[p] # "return"
        BY <2>1, <4>2
      <4> QED
        BY <4>1, <4>2
    <3>2. InStrand(F, N, <<>>, tail')
      BY <1>t, <2>1
    <3>3. /\ HasCell(p)' <=> HasCell(p)
          /\ HasCell(p) => cell'[p] = cell[p]
          /\ l \in Linking => pc[p] \in Linking
          /\ l \in Carrying /\ cell'[p] # NULL => pc[p] \in Carrying
      BY <2>1, <2>3 DEF HasCell, Linking, Carrying, TypeOK
    <3>4. count' = count + (IF pc[p] \in {"put_swing", "put_inc"} THEN 1 ELSE 0)
                         - (IF l \in {"put_swing", "put_inc"} THEN 1 ELSE 0)
                         - (IF pc[p] = "get_dec" THEN 1 ELSE 0)
                         + (IF l = "get_dec" THEN 1 ELSE 0)
      BY <1>t, <2>1
    <3>5. OnlyLocals(p) /\ l # "put_link" /\ pc' = [pc EXCEPT ![p] = l]
      BY <1>26, <2>1, Own DEF Step
    <3> HIDE DEF l
    <3> QED
      BY <2>1, <3>1, <3>2, <3>3, <3>4, <3>5, Calm
  <2> QED
    BY <2>2, <2>3
<1>27. ASSUME NEW c \in Cells, fifoput(p, c)
      PROVE  \E G, M, C : Shape(G, M)' /\ Ordered(G, M, C)' /\ Tallied(G, M)'
  <2>1. /\ pc[p] = "idle" /\ c \in holds[p] /\ holds' = [holds EXCEPT ![p] = @ \ {c}]
        /\ cell' = [cell EXCEPT ![p] = c] /\ pc' = [pc EXCEPT ![p] = "put_end"]
        /\ UNCHANGED <<head, tail, link, lptr, count>>
    BY <1>27 DEF fifoput, Goto
  <2>2. PICK G, M, C : Shape(G, M)' /\ Ordered(G, M, C)' /\ Behind(G, M)' = Behind(F, N)
    BY <2>1, TakeOwn
  <2>3. /\ Cardinality(Late') = Cardinality(Late)
       /\ Cardinality(At("get_dec")') = Cardinality(At("get_dec"))
    <3> DEFINE l == "put_end"
    <3>1. pc' = [pc EXCEPT ![p] = l]
      BY <2>1
    <3>2. pc[p] \notin {"put_swing", "put_inc", "get_dec"} /\ l \notin {"put_swing", "put_inc", "get_dec"}
      BY <2>1
    <3> HIDE DEF l
    <3> QED
      BY <3>1, <3>2, CountsChange
  <2>4. Tallied(G, M)'
    BY <2>1, <2>2, <2>3 DEF Tallied
  <2> QED
    BY <2>2, <2>4
<1>28. ASSUME NEW c \in Cells, NEW q \in Producers, Recycle(p, q, c)
      PROVE  \E G, M, C : Shape(G, M)' /\ Ordered(G, M, C)' /\ Tallied(G, M)'
  <2>1. Shape(F, N)' /\ Ordered(F, N, B)' /\ Behind(F, N)' = Behind(F, N)
    BY <1>28, PassCell
  <2>2. UNCHANGED <<pc, count>>
    BY <1>28 DEF Recycle
  <2>3. Tallied(F, N)'
    BY <2>1, <2>2 DEF Tallied, Late, At
  <2> QED
    BY <2>1, <2>3
<1> QED
  BY <1>1, <1>2, <1>3, <1>4, <1>5, <1>6, <1>7, <1>8, <1>9, <1>10, <1>11, <1>12,
     <1>13, <1>14, <1>15, <1>16, <1>17, <1>18, <1>19, <1>20, <1>21, <1>22, <1>23, <1>24, <1>25, <1>26, <1>27, <1>28 DEF Step

(***************************************************************************)
(* The invariant.                                                          *)
(***************************************************************************)
LEMMA Starts == LFFifoAssumption /\ Init => IInv
<1> SUFFICES ASSUME LFFifoAssumption, Init PROVE IInv
  OBVIOUS
<1>0. /\ Dummy \in Node /\ Dummy \notin Cells /\ NULL \notin Node /\ NULL # End
      /\ \A p \in Procs : pc[p] = "idle" /\ cell[p] = NULL
      /\ head = Dummy /\ tail = Dummy /\ link[Dummy] = End /\ count = 0
      /\ \A c \in Cells : link[c] = NULL
  BY DEF Init, Node, LFFifoAssumption
<1>h. PICK owner \in [Cells -> Producers] : holds = [p \in Procs |-> {c \in Cells : owner[c] = p}]
  BY DEF Init
<1>1. TypeOK
  <2>1. <<>> \in Seq(Cells)
    BY EmptySeq
  <2>2. holds \in [Procs -> SUBSET Cells]
    BY <1>h
  <2>3. sent \in [Procs -> Seq(Cells)]
    BY <2>1 DEF Init
  <2>4. link \in [Cells \cup {Dummy} -> Pointers]
    BY DEF Init, Pointers
  <2>5. pc \in [Procs -> PcValues] /\ cell \in [Procs -> Pointers]
    BY DEF Init, PcValues, Pointers
  <2>6. lptr \in [Procs -> Pointers] /\ lnext \in [Procs -> Pointers]
    BY DEF Init, Pointers
  <2>7. lic \in [Procs -> Nat] /\ loc \in [Procs -> Nat]
    BY DEF Init
  <2> QED
    BY <2>2, <2>3, <2>4, <2>5, <2>6, <2>7 DEF Init, TypeOK
<1>2. Locals
  BY <1>0 DEF Locals, TailSeen, HeadSeen, CellHeld, Linking, Init
<1> DEFINE F == [x \in Place |-> [i \in Nat |-> Dummy]]
           N == [x \in Place |-> IF x = <<>> THEN 1 ELSE 0]
<1>3. /\ N[<<>>] = 1 /\ F[<<>>][1] = Dummy
      /\ \A p \in Procs : N[<<p>>] = 0
      /\ \A x \in Place : \A i \in 1..N[x] : x = <<>> /\ i = 1 /\ F[x][i] = Dummy
      /\ F \in [Place -> [Nat -> Node]] /\ N \in [Place -> Nat]
  <2>1. \A x \in Place : N[x] \in Nat
    OBVIOUS
  <2> QED
    BY <1>0, <2>1, Places
<1> HIDE DEF F, N
<1>4. \A p \in Procs : ~ HasCell(p) /\ pc[p] \notin Linking /\ pc[p] \notin Carrying
  BY <1>0 DEF HasCell, Linking, Carrying
<1>5. Shape(F, N)
  <2>1. OnePlace(F, N)
    BY <1>3 DEF OnePlace
  <2>2. Threaded(F, N)
    <3>1. \A x \in Place : \A i \in 1..N[x] - 1 : FALSE
      <4>1. \A x \in Place : N[x] = 1 \/ N[x] = 0
        BY <1>3, Places
      <4> QED
        BY <4>1
    <3> QED
      BY <1>0, <1>3, <1>4, <3>1 DEF Threaded
  <2>3. Anchored(F, N)
    BY <1>0, <1>3, <1>4 DEF Anchored, InStrand
  <2>4. Somewhere(F, N)
    <3>1. ASSUME NEW c \in Node
          PROVE  (\E x \in Place : InStrand(F, N, x, c)) \/ \E p \in Procs : c \in holds[p]
      <4>1. CASE c = Dummy
        BY <1>3, <4>1, Places DEF InStrand
      <4>2. CASE c \in Cells
        BY <1>h, <4>2 DEF Procs
      <4> QED
        BY <4>1, <4>2 DEF Node
    <3>2. ASSUME NEW p \in Procs, NEW c \in holds[p]
          PROVE  /\ link[c] # End /\ \A x \in Place : ~ InStrand(F, N, x, c)
                 /\ \A q \in Procs : c \in holds[q] => q = p
      <4>1. c \in Cells /\ c # Dummy
        BY <1>0, <1>h
      <4>2. \A x \in Place : ~ InStrand(F, N, x, c)
        BY <1>3, <4>1 DEF InStrand
      <4>3. \A q \in Procs : c \in holds[q] => q = p
        BY <1>h
      <4> QED
        BY <1>0, <4>1, <4>2, <4>3
    <3> QED
      BY <3>1, <3>2 DEF Somewhere
  <2> QED
    BY <1>3, <2>1, <2>2, <2>3, <2>4 DEF Shape
<1>6. Ordered(F, N, {})
  BY <1>0 DEF Ordered
<1>7. Tallied(F, N)
  <2>1. Behind(F, N) = {Dummy}
    <3>1. \A x \in Place : \A i \in 2..N[x] : FALSE
      <4>1. \A x \in Place : N[x] = 1 \/ N[x] = 0
        BY <1>3, Places
      <4> QED
        BY <4>1
    <3> QED
      BY <1>0, <3>1 DEF Behind
  <2>2. Late = {} /\ At("get_dec") = {}
    BY <1>0 DEF Late, At
  <2>3. Cardinality({Dummy}) = 1 /\ Cardinality({}) = 0
    BY FS_Singleton, FS_EmptySet
  <2> QED
    BY <1>0, <2>1, <2>2, <2>3 DEF Tallied
<1> QED
  BY <1>1, <1>2, <1>5, <1>6, <1>7 DEF IInv

LEMMA Keeps == LFFifoAssumption /\ IInv /\ [Next]_vars => IInv'
<1> SUFFICES ASSUME LFFifoAssumption, IInv, [Next]_vars PROVE IInv'
  OBVIOUS
<1>0. TypeOK /\ Locals
  BY DEF IInv
<1>1. PICK F, N, B : Shape(F, N) /\ Ordered(F, N, B) /\ Tallied(F, N)
  BY DEF IInv
<1>2. CASE Next
  <2>1. TypeOK'
    BY <1>0, <1>1, <1>2, Typed
  <2>2. Locals'
    BY <1>0, <1>1, <1>2, Seen
  <2>3. \E G, M, C : Shape(G, M)' /\ Ordered(G, M, C)' /\ Tallied(G, M)'
    BY <1>0, <1>1, <1>2, Stranded
  <2> QED
    BY <2>1, <2>2, <2>3 DEF IInv
<1>3. CASE UNCHANGED vars
  <2>1. TypeOK'
    BY <1>0, <1>3 DEF TypeOK, vars
  <2>2. Locals'
    BY <1>0, <1>3 DEF Locals, TailSeen, HeadSeen, CellHeld, vars
  <2>3. Shape(F, N)'
    BY <1>1, <1>3 DEF Shape, OnePlace, Threaded, Anchored, Somewhere, InStrand, HasCell, vars
  <2>4. Ordered(F, N, B)'
    BY <1>1, <1>3 DEF Ordered, InStrand, vars
  <2>5. Tallied(F, N)'
    BY <1>1, <1>3 DEF Tallied, Behind, Late, At, vars
  <2> QED
    BY <2>1, <2>2, <2>3, <2>4, <2>5 DEF IInv
<1> QED
  BY <1>2, <1>3

\* The inductive invariant holds in every state.
THEOREM Invariance == Spec => []IInv
<1>1. Init => IInv
  BY LFFifoAssumption, Starts
<1>2. IInv /\ [Next]_vars => IInv'
  BY LFFifoAssumption, Keeps
<1> QED
  BY <1>1, <1>2, PTL DEF Spec

(***************************************************************************)
(* What it says of the list.                                               *)
(***************************************************************************)
\* The cells of a strand, as a sequence.
Strand(F, N, x) == [i \in 1..N[x] |-> F[x][i]]

LEMMA StrandPath ==
  ASSUME LFFifoAssumption, NEW F, NEW N, Shape(F, N), NEW x \in Place, N[x] >= 1,
         link[F[x][N[x]]] = End
  PROVE  /\ Strand(F, N, x) \in Seq(Node) /\ Len(Strand(F, N, x)) = N[x]
         /\ \A i \in 1..N[x] : Strand(F, N, x)[i] = F[x][i]
         /\ Follow(F[x][1]) = Strand(F, N, x)
         /\ IsPath(link, Strand(F, N, x))
<1> DEFINE s == Strand(F, N, x)
           n == N[x]
<1>1. n \in Nat /\ n >= 1 /\ \A i \in 1..n : F[x][i] \in Node
  BY Strands
<1>2. s \in [1..n -> Node] /\ \A i \in 1..n : s[i] = F[x][i]
  BY <1>1 DEF Strand
<1> HIDE DEF s
<1>3. s \in Seq(Node)
  BY <1>1, <1>2, SeqDef
<1>4. Len(s) = n
  <2>1. Len(s) \in Nat /\ DOMAIN s = 1..Len(s) /\ DOMAIN s = 1..n
    BY <1>2, <1>3, LenProperties
  <2> HIDE DEF n
  <2>2. \A a, b \in Nat : 1..a = 1..b => a = b
    <3> SUFFICES ASSUME NEW a \in Nat, NEW b \in Nat, 1..a = 1..b PROVE a = b
      OBVIOUS
    <3>1. ~ a < b
      <4>1. a < b => b \in 1..b /\ b \notin 1..a
        OBVIOUS
      <4> QED
        BY <4>1
    <3>2. ~ b < a
      <4>1. b < a => a \in 1..a /\ a \notin 1..b
        OBVIOUS
      <4> QED
        BY <4>1
    <3> QED
      BY <3>1, <3>2
  <2> QED
    BY <1>1, <2>1, <2>2
<1>5. IsPath(link, s)
  <2>1. s # <<>>
    BY <1>1, <1>4, EmptySeq
  <2>2. \A i, j \in 1..n : s[i] = s[j] => i = j
    BY <1>2 DEF Shape, OnePlace
  <2>3. ASSUME NEW i \in 1..n - 1 PROVE link[s[i]] = s[i + 1]
    <3>1. i \in 1..n /\ i + 1 \in 1..n
      BY <1>1
    <3> QED
      BY <1>2, <3>1 DEF Shape, Threaded
  <2>4. link[s[n]] \notin Node
    <3>1. n \in 1..n
      BY <1>1
    <3> QED
      BY <1>2, <3>1 DEF Node, LFFifoAssumption
  <2> HIDE DEF n
  <2> QED
    BY <1>3, <1>4, <2>1, <2>2, <2>3, <2>4 DEF IsPath
<1>6. Follow(s[1]) = s
  <2>1. Walk(link, s[1]) = s
    BY <1>5, WalkPath DEF LFFifoAssumption
  <2> QED
    BY <2>1 DEF Follow, Walk
<1>7. s[1] = F[x][1]
  BY <1>1, <1>2
<1> QED
  BY <1>2, <1>3, <1>4, <1>5, <1>6, <1>7 DEF s

LEMMA ChainStrand ==
  ASSUME LFFifoAssumption, NEW F, NEW N, Shape(F, N)
  PROVE  /\ Chain = Strand(F, N, <<>>) /\ Len(Chain) = N[<<>>] /\ N[<<>>] >= 1
         /\ \A i \in 1..N[<<>>] : Chain[i] = F[<<>>][i]
         /\ link[Chain[Len(Chain)]] = End
         /\ Len(Chain) <= Cardinality(Cells) + 1
         /\ \A c : Contains(Chain, c) <=> InStrand(F, N, <<>>, c)
<1>1. <<>> \in Place /\ N[<<>>] \in Nat /\ N[<<>>] >= 1 /\ link[F[<<>>][N[<<>>]]] = End
  BY Places, Strands DEF Shape, Threaded
<1>2. F[<<>>][1] = head
  BY DEF Shape, Anchored
<1>3. /\ Chain = Strand(F, N, <<>>) /\ Len(Chain) = N[<<>>]
      /\ \A i \in 1..N[<<>>] : Chain[i] = F[<<>>][i]
      /\ IsPath(link, Chain)
  BY <1>1, <1>2, StrandPath DEF Chain
<1>4. Len(Chain) <= Cardinality(Cells) + 1
  BY <1>3, PathShort DEF LFFifoAssumption
<1>5. N[<<>>] \in 1..N[<<>>]
  BY <1>1
<1>6. link[Chain[Len(Chain)]] = End
  BY <1>1, <1>3, <1>5
<1>7. \A c : Contains(Chain, c) <=> InStrand(F, N, <<>>, c)
  BY <1>3 DEF Contains, InStrand
<1> QED
  BY <1>1, <1>3, <1>4, <1>6, <1>7

LEMMA HangingStrand ==
  ASSUME LFFifoAssumption, NEW F, NEW N, Shape(F, N), NEW p \in Procs
  PROVE  /\ Len(Hanging(p)) = N[<<p>>]
         /\ \A i \in 1..N[<<p>>] : Hanging(p)[i] = F[<<p>>][i]
         /\ \A c : Contains(Hanging(p), c) <=> InStrand(F, N, <<p>>, c)
<1>0. <<p>> \in Place /\ N[<<p>>] \in Nat
  BY Places, Strands
<1>1. CASE pc[p] \in Linking
  <2>1. HasCell(p) /\ N[<<p>>] >= 1 /\ F[<<p>>][1] = cell[p] /\ link[F[<<p>>][N[<<p>>]]] = End
    BY <1>1 DEF HasCell, Shape, Anchored, Threaded
  <2>2. Hanging(p) = Follow(cell[p])
    BY <1>1 DEF Hanging, Linking
  <2>3. Len(Hanging(p)) = N[<<p>>] /\ \A i \in 1..N[<<p>>] : Hanging(p)[i] = F[<<p>>][i]
    BY <1>0, <2>1, <2>2, StrandPath
  <2> QED
    BY <2>3 DEF Contains, InStrand
<1>2. CASE pc[p] \notin Linking /\ pc[p] \in Carrying /\ cell[p] # NULL
  <2>1. N[<<p>>] = 1 /\ F[<<p>>][1] = cell[p]
    BY <1>2 DEF HasCell, Shape, Anchored
  <2>2. Hanging(p) = <<cell[p]>>
    BY <1>2 DEF Hanging, Linking, Carrying
  <2>3. Len(Hanging(p)) = 1 /\ Hanging(p)[1] = cell[p]
    BY <2>2
  <2> QED
    BY <2>1, <2>3 DEF Contains, InStrand
<1>3. CASE ~ HasCell(p)
  <2>1. N[<<p>>] = 0
    BY <1>3, Strands
  <2>2. Hanging(p) = <<>> /\ Len(<<>>) = 0
    BY <1>3, EmptySeq DEF Hanging, HasCell, Linking, Carrying
  <2> QED
    BY <2>1, <2>2 DEF Contains, InStrand
<1> QED
  BY <1>1, <1>2, <1>3 DEF HasCell

\* The types of the words of the list and of the locals of its calls.
THEOREM TypeCorrect == Spec => []TypeOK
<1>1. IInv => TypeOK
  BY DEF IInv
<1> QED
  BY <1>1, Invariance, PTL

\* The list always ends with End, without a loop, and its tail is one of its cells.
THEOREM ChainIntact == Spec => []ChainOK
<1>1. IInv => ChainOK
  <2> SUFFICES ASSUME IInv PROVE ChainOK
    OBVIOUS
  <2>1. PICK F, N, B : Shape(F, N) /\ Ordered(F, N, B) /\ Tallied(F, N)
    BY DEF IInv
  <2>2. InStrand(F, N, <<>>, tail)
    BY <2>1 DEF Shape, Anchored
  <2>3. /\ link[Chain[Len(Chain)]] = End /\ Len(Chain) <= Cardinality(Cells) + 1
        /\ Contains(Chain, tail)
    BY <2>1, <2>2, LFFifoAssumption, ChainStrand
  <2> QED
    BY <2>3 DEF ChainOK, Last
<1> QED
  BY <1>1, Invariance, PTL

\* A cell is in the list, in the hands of one thread or owned by one thread.
THEOREM NoCellLost == Spec => []NothingLost
<1>1. IInv => NothingLost
  <2> SUFFICES ASSUME IInv, NEW c \in Node
               PROVE  LET inHand == {p \in Procs : Contains(Hanging(p), c)}
                          owners == {p \in Procs : c \in holds[p]}
                      IN  IF Contains(Chain, c) THEN inHand = {} /\ owners = {}
                          ELSE Cardinality(inHand) + Cardinality(owners) = 1
    BY DEF NothingLost, Node
  <2> DEFINE inHand == {p \in Procs : Contains(Hanging(p), c)}
             owners == {p \in Procs : c \in holds[p]}
  <2>1. PICK F, N, B : Shape(F, N) /\ Ordered(F, N, B) /\ Tallied(F, N)
    BY DEF IInv
  <2>2. \A p \in Procs : p \in inHand <=> InStrand(F, N, <<p>>, c)
    BY <2>1, LFFifoAssumption, HangingStrand
  <2>3. Contains(Chain, c) <=> InStrand(F, N, <<>>, c)
    BY <2>1, LFFifoAssumption, ChainStrand
  <2>4. inHand \subseteq Procs /\ owners \subseteq Procs
    OBVIOUS
  <2>5. /\ \A p, q \in Procs : InStrand(F, N, <<p>>, c) /\ InStrand(F, N, <<q>>, c) => p = q
        /\ \A p \in Procs : InStrand(F, N, <<p>>, c) => ~ InStrand(F, N, <<>>, c)
    <3>1. \A x, y \in Place : InStrand(F, N, x, c) /\ InStrand(F, N, y, c) => x = y
      BY <2>1 DEF Shape, OnePlace, InStrand
    <3> QED
      BY <3>1, Places
  <2>6. /\ \A p \in owners : \A x \in Place : ~ InStrand(F, N, x, c)
        /\ \A p, q \in owners : p = q
        /\ (\E x \in Place : InStrand(F, N, x, c)) \/ owners # {}
    BY <2>1 DEF Shape, Somewhere
  <2> HIDE DEF inHand, owners
  <2>8. CASE Contains(Chain, c)
    BY <2>2, <2>3, <2>4, <2>5, <2>6, <2>8, Places DEF inHand, owners
  <2>9. CASE ~ Contains(Chain, c) /\ owners = {}
    <3>1. PICK x \in Place : InStrand(F, N, x, c)
      BY <2>6, <2>9
    <3>2. PICK p \in Procs : x = <<p>>
      BY <2>3, <2>9, <3>1, Places
    <3>3. inHand = {p}
      BY <2>2, <2>4, <2>5, <3>1, <3>2
    <3>4. Cardinality(inHand) = 1 /\ Cardinality(owners) = 0
      BY <2>9, <3>3, FS_EmptySet, FS_Singleton
    <3>5. Cardinality(inHand) + Cardinality(owners) = 1
      BY <3>4
    <3> QED
      BY <2>9, <3>5 DEF inHand, owners
  <2>10. CASE ~ Contains(Chain, c) /\ owners # {}
    <3>1. PICK p \in owners : TRUE
      BY <2>10
    <3>2. owners = {p}
      BY <2>6, <3>1
    <3>3. inHand = {}
      BY <2>2, <2>4, <2>6, <3>1, Places
    <3>4. Cardinality(inHand) = 0 /\ Cardinality(owners) = 1
      BY <3>2, <3>3, FS_EmptySet, FS_Singleton
    <3>5. Cardinality(inHand) + Cardinality(owners) = 1
      BY <3>4
    <3> QED
      BY <2>10, <3>5 DEF inHand, owners
  <2> QED
    BY <2>8, <2>9, <2>10
<1> QED
  BY <1>1, Invariance, PTL

\* The counter is the number of linked cells, but the dummy, up to the calls that
\* have not yet counted theirs.
THEOREM CountCorrect == Spec => []CountAccurate
<1>1. IInv => CountAccurate
  <2> SUFFICES ASSUME IInv PROVE CountAccurate
    OBVIOUS
  <2>1. PICK F, N, B : Shape(F, N) /\ Ordered(F, N, B) /\ Tallied(F, N)
    BY DEF IInv
  <2>2. ASSUME NEW c \in Node, Contains(Chain, c) PROVE c \in Behind(F, N)
    <3>1. PICK i \in 1..N[<<>>] : F[<<>>][i] = c
      BY <2>1, <2>2, LFFifoAssumption, ChainStrand DEF InStrand
    <3>2. CASE i = 1
      BY <2>1, <3>1, <3>2 DEF Shape, Anchored, Behind
    <3>3. CASE i # 1
      <4>1. i \in 2..N[<<>>]
        BY <2>1, <3>3, Strands
      <4> QED
        BY <3>1, <4>1, Places DEF Behind
    <3> QED
      BY <3>2, <3>3
  <2>3. ASSUME NEW c \in Node, NEW p \in Procs, NEW i \in 2..Len(Hanging(p)), Hanging(p)[i] = c
        PROVE  c \in Behind(F, N)
    <3>1. Len(Hanging(p)) = N[<<p>>] /\ N[<<p>>] \in Nat
      BY <2>1, LFFifoAssumption, HangingStrand, Strands
    <3>2. i \in 1..N[<<p>>] /\ i \in 2..N[<<p>>]
      BY <3>1
    <3>3. F[<<p>>][i] = c
      BY <2>1, <2>3, <3>2, LFFifoAssumption, HangingStrand
    <3> QED
      BY <3>2, <3>3, Places DEF Behind
  <2>4. ASSUME NEW c \in Behind(F, N) PROVE c \in Counted
    <3>1. CASE c = head
      <4>1. 1 \in 1..N[<<>>] /\ F[<<>>][1] = head
        BY <2>1, Strands DEF Shape, Anchored
      <4>2. InStrand(F, N, <<>>, c)
        BY <3>1, <4>1 DEF InStrand
      <4>3. Contains(Chain, c)
        BY <2>1, <4>2, LFFifoAssumption, ChainStrand
      <4> QED
        BY <4>3 DEF Counted, Behind, Node
    <3>2. ASSUME NEW x \in Place, NEW i \in 2..N[x], F[x][i] = c PROVE c \in Counted
      <4>1. i \in 1..N[x]
        BY <2>1, Strands
      <4>2. CASE x = <<>>
        <5>1. Contains(Chain, c)
          BY <2>1, <3>2, <4>1, <4>2, LFFifoAssumption, ChainStrand DEF InStrand
        <5> QED
          BY <5>1 DEF Counted, Behind, Node
      <4>3. ASSUME NEW p \in Procs, x = <<p>> PROVE c \in Counted
        <5>1. i \in 2..Len(Hanging(p)) /\ Hanging(p)[i] = c
          BY <2>1, <3>2, <4>1, <4>3, LFFifoAssumption, HangingStrand
        <5> QED
          BY <5>1 DEF Counted, Behind, Node
      <4> QED
        BY <4>2, <4>3, Places
    <3> QED
      BY <3>1, <3>2 DEF Behind
  <2>5. Counted = Behind(F, N)
    BY <2>2, <2>3, <2>4 DEF Counted, Node
  <2> QED
    BY <2>1, <2>5 DEF Tallied, CountAccurate, Late
<1> QED
  BY <1>1, Invariance, PTL

(***************************************************************************)
(* The refinement of FifoPool, where one thread puts and one gets.  The    *)
(* cells of the pool are those that nobody has.                            *)
(***************************************************************************)
OneEach == /\ \A p, q \in Producers : p = q
           /\ \A p, q \in Consumers : p = q

Away == {c \in Node : \/ \E p \in Procs : c \in holds[p]
                      \/ \E p \in Procs : HasCell(p) /\ cell[p] = c}

\* Who is where: the one that gets also puts the dummy back.
Putting == Linking \cup {"put_end", "put_swing", "put_inc"}
Getting == {"get_oc", "get_ic", "get_head", "get_next", "get_check", "get_tail",
            "get_help", "get_cas", "get_dec"}
Roles ==
  \A p \in Procs :
    /\ pc[p] \in Putting /\ cell[p] = Dummy => p \in Consumers
    /\ pc[p] \in Putting /\ cell[p] # Dummy => p \in Producers
    /\ pc[p] \in Getting => p \in Consumers

\* Nobody links a cell behind one that is still to be linked, but for the dummy.
Alone == \A p \in Procs : pc[p] \in Linking /\ cell[p] # Dummy => link[cell[p]] = End

\* The tail that the dummy is to be linked to is still in the list: who takes cells
\* out is busy putting it back.
Stays == \A p \in Procs : pc[p] = "put_link" /\ cell[p] = Dummy => lptr[p] \notin Away

\* Nobody else moves the head while a get looks at it.
Fresh == \A p \in Procs : pc[p] \in {"get_ic", "get_head", "get_next"} => loc[p] = oc

PoolInv == Roles /\ Alone /\ Stays /\ Fresh

LEMMA Unique ==
  ASSUME IInv
  PROVE  /\ \A p \in Procs : HasCell(p) =>
              /\ cell[p] \in Node
              /\ \A q \in Procs : cell[p] \notin holds[q]
              /\ \A q \in Procs : HasCell(q) /\ cell[q] = cell[p] => q = p
         /\ head \notin Away /\ tail \notin Away
<1>1. PICK F, N, B : Shape(F, N) /\ Ordered(F, N, B) /\ Tallied(F, N)
  BY DEF IInv
<1>2. \A c, x, y : x \in Place /\ y \in Place /\ InStrand(F, N, x, c) /\ InStrand(F, N, y, c) => x = y
  BY <1>1 DEF Shape, OnePlace, InStrand
<1>3. \A p \in Procs : \A c \in holds[p] : \A x \in Place : ~ InStrand(F, N, x, c)
  BY <1>1 DEF Shape, Somewhere
<1>4. \A p \in Procs : HasCell(p) => InStrand(F, N, <<p>>, cell[p]) /\ cell[p] \in Node
  <2> SUFFICES ASSUME NEW p \in Procs, HasCell(p)
               PROVE  InStrand(F, N, <<p>>, cell[p]) /\ cell[p] \in Node
    OBVIOUS
  <2>1. N[<<p>>] \in Nat /\ N[<<p>>] >= 1 /\ F[<<p>>][1] = cell[p] /\ <<p>> \in Place
    BY <1>1, Strands, Places DEF Shape, Anchored
  <2>2. 1 \in 1..N[<<p>>]
    BY <2>1
  <2> QED
    BY <1>1, <2>1, <2>2, Strands DEF InStrand
<1>5. InStrand(F, N, <<>>, head) /\ InStrand(F, N, <<>>, tail)
  <2>1. 1 \in 1..N[<<>>]
    BY <1>1, Strands
  <2> QED
    BY <1>1, <2>1 DEF Shape, Anchored, InStrand
<1>6. \A c : InStrand(F, N, <<>>, c) => c \notin Away
  BY <1>2, <1>3, <1>4, Places DEF Away
<1>7. \A p \in Procs : HasCell(p) => \A q \in Procs : cell[p] \notin holds[q]
  BY <1>3, <1>4, Places
<1>8. \A p, q \in Procs : HasCell(p) /\ HasCell(q) /\ cell[q] = cell[p] => q = p
  BY <1>2, <1>4, Places
<1> QED
  BY <1>4, <1>5, <1>6, <1>7, <1>8

\* A thread that has a cell, not the dummy, has no other behind it.
LEMMA Short ==
  ASSUME LFFifoAssumption, NEW F, NEW N, Shape(F, N), Alone,
         NEW p \in Procs, HasCell(p), cell[p] # Dummy
  PROVE  N[<<p>>] = 1 /\ F[<<p>>][1] = cell[p]
<1>1. N[<<p>>] \in Nat /\ N[<<p>>] >= 1 /\ F[<<p>>][1] = cell[p] /\ <<p>> \in Place
  BY Strands, Places DEF Shape, Anchored
<1>2. CASE pc[p] \in Carrying /\ cell[p] # NULL
  BY <1>1, <1>2 DEF Shape, Anchored
<1>3. CASE pc[p] \in Linking
  <2>1. link[cell[p]] = End
    BY <1>3 DEF Alone
  <2>2. N[<<p>>] # 1 => FALSE
    <3> SUFFICES ASSUME N[<<p>>] # 1 PROVE FALSE
      OBVIOUS
    <3>1. 1 \in 1..N[<<p>>] - 1 /\ 1 + 1 \in 1..N[<<p>>]
      BY <1>1
    <3>2. link[F[<<p>>][1]] = F[<<p>>][1 + 1]
      BY <1>1, <3>1 DEF Shape, Threaded
    <3>3. F[<<p>>][1 + 1] \in Node
      BY <1>1, <3>1, Strands
    <3> QED
      BY <1>1, <2>1, <3>2, <3>3 DEF Node, LFFifoAssumption
  <2> QED
    BY <1>1, <2>2
<1> QED
  BY <1>2, <1>3 DEF HasCell

LEMMA LinkedIs ==
  ASSUME LFFifoAssumption, IInv, Alone
  PROVE  Linked = Cells \ Away
<1>1. PICK F, N, B : Shape(F, N) /\ Ordered(F, N, B) /\ Tallied(F, N)
  BY DEF IInv
<1>2. \A c : Contains(Chain, c) <=> InStrand(F, N, <<>>, c)
  BY <1>1, ChainStrand
<1>3. \A p \in Procs : \A c : Contains(Hanging(p), c) <=> InStrand(F, N, <<p>>, c)
  BY <1>1, HangingStrand
<1>4. \A c, x, y : x \in Place /\ y \in Place /\ InStrand(F, N, x, c) /\ InStrand(F, N, y, c) => x = y
  BY <1>1 DEF Shape, OnePlace, InStrand
<1>5. \A x \in Place : \A c : InStrand(F, N, x, c) => c \in Node /\ \A p \in Procs : c \notin holds[p]
  <2>1. \A x \in Place : \A c : InStrand(F, N, x, c) => c \in Node
    BY <1>1, Strands DEF InStrand
  <2> QED
    BY <1>1, <2>1 DEF Shape, Somewhere
<1>6. \A p \in Procs : HasCell(p) => InStrand(F, N, <<p>>, cell[p])
  <2> SUFFICES ASSUME NEW p \in Procs, HasCell(p)
               PROVE  InStrand(F, N, <<p>>, cell[p])
    OBVIOUS
  <2>1. N[<<p>>] \in Nat /\ N[<<p>>] >= 1 /\ F[<<p>>][1] = cell[p]
    BY <1>1, Strands DEF Shape, Anchored
  <2>2. 1 \in 1..N[<<p>>]
    BY <2>1
  <2> QED
    BY <2>1, <2>2 DEF InStrand
<1>7. ASSUME NEW c \in Linked PROVE c \in Cells \ Away
  <2>1. PICK x \in Place : /\ InStrand(F, N, x, c)
                           /\ \A p \in Procs : x = <<p>> => cell[p] = Dummy
    <3>1. CASE Contains(Chain, c)
      BY <1>2, <3>1, Places
    <3>2. ASSUME NEW p \in Procs, cell[p] = Dummy, Contains(Hanging(p), c)
          PROVE  /\ <<p>> \in Place /\ InStrand(F, N, <<p>>, c)
                 /\ \A q \in Procs : <<p>> = <<q>> => cell[q] = Dummy
      BY <1>3, <3>2, Places
    <3> QED
      BY <3>1, <3>2 DEF Linked
  <2>2. c # Dummy /\ c \in Cells /\ \A p \in Procs : c \notin holds[p]
    BY <1>5, <2>1 DEF Linked, LFFifoAssumption
  <2>3. ASSUME NEW p \in Procs, HasCell(p), cell[p] = c PROVE FALSE
    <3>1. InStrand(F, N, <<p>>, c)
      BY <1>6, <2>3
    <3>2. x = <<p>>
      BY <1>4, <2>1, <3>1, Places
    <3> QED
      BY <2>1, <2>2, <2>3, <3>2
  <2> QED
    BY <2>2, <2>3 DEF Away, Node
<1>8. ASSUME NEW c \in Cells \ Away PROVE c \in Linked
  <2>1. c \in Node /\ c # Dummy
    BY DEF Node, LFFifoAssumption
  <2>2. PICK x \in Place : InStrand(F, N, x, c)
    BY <1>1, <2>1 DEF Shape, Somewhere, Away
  <2>3. CASE x = <<>>
    BY <1>2, <2>1, <2>2, <2>3 DEF Linked
  <2>4. ASSUME NEW p \in Procs, x = <<p>> PROVE c \in Linked
    <3>1. CASE cell[p] = Dummy
      BY <1>3, <2>1, <2>2, <2>4, <3>1 DEF Linked
    <3>2. CASE cell[p] # Dummy
      <4>1. PICK i \in 1..N[<<p>>] : F[<<p>>][i] = c
        BY <2>2, <2>4 DEF InStrand
      <4>2. HasCell(p)
        BY <1>1, <4>1, Strands
      <4>3. N[<<p>>] = 1 /\ F[<<p>>][1] = cell[p]
        BY <1>1, <3>2, <4>2, Short
      <4>4. c = cell[p]
        BY <4>1, <4>3
      <4> QED
        BY <2>1, <4>2, <4>4 DEF Away
    <3> QED
      BY <3>1, <3>2
  <2> QED
    BY <2>2, <2>3, <2>4, Places
<1> QED
  BY <1>7, <1>8

\* What a step does to the cells that somebody has.
LEMMA SameAway ==
  ASSUME holds' = holds, \A q \in Procs : HasCell(q)' <=> HasCell(q),
         \A q \in Procs : HasCell(q) => cell'[q] = cell[q]
  PROVE  Away' = Away
BY DEF Away

\* A step of p, in the locals of the others.
Mine(p) ==
  \A q \in Procs \ {p} :
    /\ pc'[q] = pc[q] /\ cell'[q] = cell[q] /\ lptr'[q] = lptr[q]
    /\ lnext'[q] = lnext[q] /\ loc'[q] = loc[q]

LEMMA StepsMine ==
  ASSUME TypeOK, NEW p \in Procs,
         \/ Step(p) \/ fifoget(p) \/ fifoavail(p)
         \/ \E c \in Cells : fifoput(p, c) \/ \E q \in Producers : Recycle(p, q, c)
  PROVE  Mine(p)
<1>1. ASSUME NEW q \in Procs \ {p} PROVE pc'[q] = pc[q] /\ cell'[q] = cell[q]
  BY DEF TypeOK, Step, fifoget, fifoavail, fifoput, Recycle, PutEnd, PutIc, PutTail, PutLink,
     PutNext, PutHelp, PutSwing, PutInc, GetOc, GetIc, GetHead, GetNext, GetCheck, GetTail,
     GetHelp, GetCAS, GetDec, AvailOc, AvailHead, AvailLink, AvailTail, AvailCheck, Return, Goto
<1>2. ASSUME NEW q \in Procs \ {p}
      PROVE  lptr'[q] = lptr[q] /\ lnext'[q] = lnext[q] /\ loc'[q] = loc[q]
  BY DEF TypeOK, Step, fifoget, fifoavail, fifoput, Recycle, PutEnd, PutIc, PutTail, PutLink,
     PutNext, PutHelp, PutSwing, PutInc, GetOc, GetIc, GetHead, GetNext, GetCheck, GetTail,
     GetHelp, GetCAS, GetDec, AvailOc, AvailHead, AvailLink, AvailTail, AvailCheck, Return
<1> QED
  BY <1>1, <1>2 DEF Mine

LEMMA AwayMoves ==
  ASSUME LFFifoAssumption, IInv, NEW p \in Procs,
         \/ Step(p) \/ fifoget(p) \/ fifoavail(p)
         \/ \E c \in Cells : fifoput(p, c) \/ \E q \in Producers : Recycle(p, q, c)
  PROVE  /\ PutLink(p) /\ link[lptr[p]] = End => Away' = Away \ {cell[p]}
         /\ GetCAS(p) /\ HeadUnmoved(p) => Away' = Away \cup {head}
         /\ \/ Away' = Away
            \/ PutLink(p) /\ link[lptr[p]] = End
            \/ GetCAS(p) /\ HeadUnmoved(p)
<1>1. TypeOK /\ Mine(p) /\ CellHeld(p)
  BY StepsMine DEF IInv, Locals
<1>2. \A q \in Procs \ {p} : (HasCell(q)' <=> HasCell(q)) /\ cell'[q] = cell[q]
  BY <1>1 DEF Mine, HasCell
<1>3. ASSUME holds' = holds, HasCell(p)' <=> HasCell(p), HasCell(p) => cell'[p] = cell[p]
      PROVE  Away' = Away
  BY <1>2, <1>3, SameAway
<1>4. ASSUME \/ PutEnd(p) \/ PutIc(p) \/ PutTail(p) \/ PutNext(p) \/ PutHelp(p) \/ PutSwing(p)
             \/ PutInc(p) \/ (PutLink(p) /\ link[lptr[p]] # End)
      PROVE  Away' = Away
  <2>1. holds' = holds /\ (pc[p] # "put_inc" => cell'[p] = cell[p])
    BY <1>4 DEF PutEnd, PutIc, PutTail, PutNext, PutHelp, PutSwing, PutInc, PutLink
  <2>2. /\ pc[p] \in Putting /\ cell[p] # NULL
        /\ pc[p] \in Linking \cup {"put_end"} /\ pc[p] # "put_inc" => pc'[p] \in Linking
        /\ pc[p] \in {"put_swing"} => pc'[p] = "put_inc"
        /\ pc[p] = "put_inc" => cell'[p] = NULL /\ pc'[p] \in {"get_oc", "return"}
    <3>1. cell[p] # NULL
      BY <1>1, <1>4 DEF CellHeld, Node, LFFifoAssumption, Linking, PutEnd, PutIc, PutTail, PutNext,
         PutHelp, PutSwing, PutInc, PutLink
    <3> QED
      BY <1>1, <1>4, <3>1 DEF TypeOK, Putting, Linking, PutEnd, PutIc, PutTail, PutNext, PutHelp,
         PutSwing, PutInc, PutLink, Goto
  <2>3. HasCell(p)' <=> HasCell(p)
    BY <2>1, <2>2 DEF HasCell, Putting, Linking, Carrying
  <2>4. HasCell(p) => cell'[p] = cell[p]
    BY <2>1 DEF HasCell, Linking, Carrying
  <2> QED
    BY <1>3, <2>1, <2>3, <2>4
<1>5. ASSUME PutLink(p) /\ link[lptr[p]] = End
      PROVE  Away' = Away \ {cell[p]}
  <2>1. /\ pc[p] = "put_link" /\ pc'[p] = "put_swing" /\ holds' = holds
        /\ cell' = cell
    BY <1>1, <1>5 DEF PutLink, Goto, TypeOK
  <2>2. HasCell(p) /\ ~ HasCell(p)'
    BY <2>1 DEF HasCell, Linking, Carrying
  <2>3. /\ \A q \in Procs : cell[p] \notin holds[q]
        /\ \A q \in Procs : HasCell(q) /\ cell[q] = cell[p] => q = p
    BY <2>2, Unique
  <2>4. ASSUME NEW c PROVE c \in Away' <=> c \in Away \ {cell[p]}
    BY <1>2, <2>1, <2>2, <2>3 DEF Away
  <2>5. Away' = Away \ {cell[p]}
    BY <2>4
  <2> QED
    BY <1>5, <2>5
<1>6. ASSUME \/ fifoget(p) \/ fifoavail(p) \/ GetOc(p) \/ GetIc(p) \/ GetHead(p) \/ GetNext(p)
             \/ GetCheck(p) \/ GetTail(p) \/ GetHelp(p) \/ (GetCAS(p) /\ ~ HeadUnmoved(p))
             \/ AvailOc(p) \/ AvailHead(p) \/ AvailLink(p) \/ AvailTail(p) \/ AvailCheck(p)
             \/ Return(p) /\ pc[p] = "avail_return"
      PROVE  Away' = Away
  <2>1. holds' = holds
    BY <1>6 DEF fifoget, fifoavail, GetOc, GetIc, GetHead, GetNext, GetCheck, GetTail, GetHelp,
       GetCAS, AvailOc, AvailHead, AvailLink, AvailTail, AvailCheck, Return
  <2>2. ~ HasCell(p)
    BY <1>6 DEF HasCell, Linking, Carrying, fifoget, fifoavail, GetOc, GetIc, GetHead, GetNext,
       GetCheck, GetTail, GetHelp, GetCAS, AvailOc, AvailHead, AvailLink, AvailTail, AvailCheck,
       Return
  <2>3. pc'[p] \notin Linking \cup {"put_end", "get_dec"} /\ (pc'[p] = "return" => cell'[p] = NULL)
    BY <1>1, <1>6 DEF CellHeld, TypeOK, Linking, fifoget, fifoavail, GetOc, GetIc, GetHead, GetNext,
       GetCheck, GetTail, GetHelp, GetCAS, AvailOc, AvailHead, AvailLink, AvailTail, AvailCheck,
       Return, Goto
  <2>4. ~ HasCell(p)'
    BY <2>3 DEF HasCell, Carrying, Linking
  <2> QED
    BY <1>3, <2>1, <2>2, <2>4
<1>7. ASSUME GetCAS(p) /\ HeadUnmoved(p)
      PROVE  Away' = Away \cup {head}
  <2>1. /\ pc[p] = "get_cas" /\ pc'[p] = "get_dec" /\ cell'[p] = head /\ holds' = holds
    BY <1>1, <1>7 DEF GetCAS, TypeOK, Goto
  <2>2. head \in Node /\ head # NULL
    BY <1>1 DEF TypeOK, Node, LFFifoAssumption
  <2>3. ~ HasCell(p) /\ HasCell(p)'
    BY <2>1, <2>2 DEF HasCell, Linking, Carrying
  <2>4. ASSUME NEW c PROVE c \in Away' <=> c \in Away \cup {head}
    BY <1>2, <2>1, <2>2, <2>3 DEF Away
  <2>5. Away' = Away \cup {head}
    BY <2>4
  <2> QED
    BY <1>7, <2>5
<1>8. ASSUME GetDec(p)
      PROVE  Away' = Away
  <2>1. /\ pc[p] = "get_dec" /\ pc'[p] \in {"put_end", "return"} /\ cell' = cell /\ holds' = holds
    BY <1>1, <1>8 DEF GetDec, TypeOK, Goto
  <2>2. cell[p] # NULL
    BY <1>1, <2>1 DEF CellHeld, Node, LFFifoAssumption
  <2>3. HasCell(p)' /\ HasCell(p)
    BY <2>1, <2>2 DEF HasCell, Carrying
  <2> QED
    BY <1>3, <2>1, <2>3
<1>9. ASSUME Return(p) /\ pc[p] = "return"
      PROVE  Away' = Away
  <2>1. /\ pc'[p] = "idle" /\ cell[p] \in Cells \cup {NULL}
        /\ holds'[p] = holds[p] \cup ({cell[p]} \ {NULL})
        /\ \A q \in Procs \ {p} : holds'[q] = holds[q]
    BY <1>1, <1>9 DEF Return, TypeOK, Goto, CellHeld
  <2>2. ~ HasCell(p)' /\ (HasCell(p) <=> cell[p] # NULL)
    BY <1>9, <2>1 DEF HasCell, Linking, Carrying
  <2>3. NULL \notin Node
    BY DEF Node, LFFifoAssumption
  <2>4. ASSUME NEW c \in Node PROVE c \in Away' <=> c \in Away
    BY <1>2, <2>1, <2>2, <2>3 DEF Away
  <2> QED
    BY <2>4 DEF Away
<1>10. ASSUME NEW c \in Cells, fifoput(p, c) PROVE Away' = Away
  <2>1. /\ pc[p] = "idle" /\ pc'[p] = "put_end" /\ cell'[p] = c /\ c # NULL
        /\ c \in holds[p] /\ holds'[p] = holds[p] \ {c}
        /\ \A q \in Procs \ {p} : holds'[q] = holds[q]
    BY <1>1, <1>10 DEF fifoput, TypeOK, Goto, LFFifoAssumption
  <2>2. ~ HasCell(p) /\ HasCell(p)'
    BY <2>1 DEF HasCell, Linking, Carrying
  <2>3. ASSUME NEW d \in Node PROVE d \in Away' <=> d \in Away
    BY <1>2, <2>1, <2>2 DEF Away
  <2> QED
    BY <2>3 DEF Away
<1>11. ASSUME NEW c \in Cells, NEW q \in Producers, Recycle(p, q, c) PROVE Away' = Away
  <2>1. /\ q \in Procs /\ p # q /\ c \in holds[p] /\ UNCHANGED <<pc, cell>>
        /\ holds'[p] = holds[p] \ {c} /\ holds'[q] = holds[q] \cup {c}
        /\ \A r \in Procs \ {p, q} : holds'[r] = holds[r]
    BY <1>1, <1>11 DEF Recycle, TypeOK, Procs
  <2>2. \A r \in Procs : HasCell(r)' <=> HasCell(r)
    BY <2>1 DEF HasCell
  <2>3. ASSUME NEW d \in Node PROVE (\E r \in Procs : d \in holds'[r]) <=> \E r \in Procs : d \in holds[r]
    BY <2>1
  <2>4. ASSUME NEW d \in Node PROVE d \in Away' <=> d \in Away
    BY <2>1, <2>2, <2>3 DEF Away
  <2> QED
    BY <2>4 DEF Away
<1> DEFINE Same == Away' = Away
           PutIn == Away' = Away \ {cell[p]}
           TakenOut == Away' = Away \cup {head}
           Ended == link[lptr[p]] = End
           Apart == pc[p] = "return"
<1>12. Return(p) => Apart \/ pc[p] = "avail_return"
  BY DEF Return
<1>13. /\ (PutLink(p) /\ Ended => PutIn) /\ (PutLink(p) /\ ~ Ended => Same)
       /\ (GetCAS(p) /\ HeadUnmoved(p) => TakenOut) /\ (GetCAS(p) /\ ~ HeadUnmoved(p) => Same)
  BY <1>4, <1>5, <1>6, <1>7
<1>14. (Return(p) => Same) /\ (GetDec(p) => Same)
  BY <1>6, <1>8, <1>9, <1>12
<1>15. /\ (PutEnd(p) => Same) /\ (PutIc(p) => Same) /\ (PutTail(p) => Same)
       /\ (PutNext(p) => Same) /\ (PutHelp(p) => Same) /\ (PutSwing(p) => Same)
       /\ (PutInc(p) => Same)
  BY <1>4
<1>16. /\ (fifoget(p) => Same) /\ (fifoavail(p) => Same)
       /\ (GetOc(p) => Same) /\ (GetIc(p) => Same) /\ (GetHead(p) => Same)
       /\ (GetNext(p) => Same) /\ (GetCheck(p) => Same) /\ (GetTail(p) => Same)
       /\ (GetHelp(p) => Same) /\ (AvailOc(p) => Same) /\ (AvailHead(p) => Same)
       /\ (AvailLink(p) => Same) /\ (AvailTail(p) => Same) /\ (AvailCheck(p) => Same)
  BY <1>6
<1>17. (\E c \in Cells : fifoput(p, c) \/ \E q \in Producers : Recycle(p, q, c)) => Same
  BY <1>10, <1>11
<1>18. Same \/ (PutLink(p) /\ Ended) \/ (GetCAS(p) /\ HeadUnmoved(p))
  <2> HIDE DEF Same, PutIn, TakenOut, Ended
  <2> QED
    BY <1>13, <1>14, <1>15, <1>16, <1>17 DEF Step
<1> QED
  BY <1>13, <1>18

AnyStep(p) ==
  \/ Step(p) \/ fifoget(p) \/ fifoavail(p)
  \/ \E c \in Cells : fifoput(p, c) \/ \E q \in Producers : Recycle(p, q, c)

\* What a step of p does to its own locals, as far as PoolInv looks at them.
LEMMA OwnRole ==
  ASSUME LFFifoAssumption, TypeOK, NEW p \in Procs, CellHeld(p), AnyStep(p)
  PROVE  /\ pc'[p] \in Putting /\ cell'[p] = Dummy =>
              (pc[p] \in Putting /\ cell[p] = Dummy) \/ pc[p] \in Getting
         /\ pc'[p] \in Putting /\ cell'[p] # Dummy =>
              (pc[p] \in Putting /\ cell[p] # Dummy) \/ p \in Producers
         /\ pc'[p] \in Getting =>
              \/ pc[p] \in Getting \/ p \in Consumers
              \/ pc[p] \in Putting /\ cell[p] = Dummy
<1>1. ASSUME \/ PutEnd(p) \/ PutIc(p) \/ PutTail(p) \/ PutLink(p) \/ PutNext(p) \/ PutHelp(p)
             \/ PutSwing(p)
      PROVE  pc[p] \in Putting /\ pc'[p] \in Putting /\ cell'[p] = cell[p]
  BY <1>1 DEF TypeOK, Putting, Linking, PutEnd, PutIc, PutTail, PutLink, PutNext, PutHelp, PutSwing,
     Goto
<1>2. ASSUME PutInc(p)
      PROVE  /\ pc[p] \in Putting
             /\ pc'[p] = IF cell[p] = Dummy THEN "get_oc" ELSE "return"
  BY <1>2 DEF TypeOK, Putting, PutInc, Goto
<1>3. ASSUME \/ GetOc(p) \/ GetIc(p) \/ GetHead(p) \/ GetNext(p) \/ GetCheck(p) \/ GetTail(p)
             \/ GetHelp(p) \/ GetCAS(p)
      PROVE  pc[p] \in Getting /\ pc'[p] \in Getting \cup {"return"}
  BY <1>3 DEF TypeOK, Getting, GetOc, GetIc, GetHead, GetNext, GetCheck, GetTail, GetHelp, GetCAS,
     Goto
<1>4. ASSUME GetDec(p)
      PROVE  /\ pc[p] \in Getting /\ cell'[p] = cell[p]
             /\ pc'[p] = IF cell[p] = Dummy THEN "put_end" ELSE "return"
  BY <1>4 DEF TypeOK, Getting, GetDec, Goto
<1>5. ASSUME \/ fifoavail(p) \/ AvailOc(p) \/ AvailHead(p) \/ AvailLink(p) \/ AvailTail(p)
             \/ AvailCheck(p) \/ Return(p)
      PROVE  pc'[p] \in {"idle", "avail_oc", "avail_head", "avail_link", "avail_tail",
                         "avail_check", "avail_return"}
  BY <1>5 DEF TypeOK, fifoavail, AvailOc, AvailHead, AvailLink, AvailTail, AvailCheck, Return, Goto
<1>6. fifoget(p) => p \in Consumers /\ pc'[p] = "get_oc"
  BY DEF TypeOK, fifoget, Goto
<1>7. ASSUME NEW c \in Cells, fifoput(p, c)
      PROVE  p \in Producers /\ pc'[p] = "put_end" /\ cell'[p] # Dummy
  BY <1>7 DEF LFFifoAssumption, TypeOK, fifoput, Goto
<1>8. ASSUME NEW c \in Cells, NEW q \in Producers, Recycle(p, q, c)
      PROVE  pc' = pc /\ cell' = cell
  BY <1>8 DEF Recycle
<1>9. /\ "return" \notin Putting \cup Getting /\ "get_oc" \in Getting /\ "get_oc" \notin Putting
      /\ "put_end" \in Putting /\ Putting \cap Getting = {}
      /\ {"idle", "avail_oc", "avail_head", "avail_link", "avail_tail", "avail_check",
          "avail_return"} \cap (Putting \cup Getting) = {}
  BY DEF Putting, Getting, Linking
<1> DEFINE Role ==
      /\ pc'[p] \in Putting /\ cell'[p] = Dummy =>
              (pc[p] \in Putting /\ cell[p] = Dummy) \/ pc[p] \in Getting
      /\ pc'[p] \in Putting /\ cell'[p] # Dummy =>
              (pc[p] \in Putting /\ cell[p] # Dummy) \/ p \in Producers
      /\ pc'[p] \in Getting =>
              \/ pc[p] \in Getting \/ p \in Consumers
              \/ pc[p] \in Putting /\ cell[p] = Dummy
<1>10. /\ (PutEnd(p) => Role) /\ (PutIc(p) => Role) /\ (PutTail(p) => Role) /\ (PutLink(p) => Role)
       /\ (PutNext(p) => Role) /\ (PutHelp(p) => Role) /\ (PutSwing(p) => Role)
  <2> SUFFICES ASSUME pc[p] \in Putting /\ pc'[p] \in Putting /\ cell'[p] = cell[p] PROVE Role
    <3> HIDE DEF Role
    <3> QED
      BY <1>1
  <2> QED
    BY <1>9
<1>11. (PutInc(p) => Role) /\ (GetDec(p) => Role)
  BY <1>2, <1>4, <1>9
<1>12. /\ (GetOc(p) => Role) /\ (GetIc(p) => Role) /\ (GetHead(p) => Role) /\ (GetNext(p) => Role)
       /\ (GetCheck(p) => Role) /\ (GetTail(p) => Role) /\ (GetHelp(p) => Role)
       /\ (GetCAS(p) => Role)
  <2> SUFFICES ASSUME pc[p] \in Getting /\ pc'[p] \in Getting \cup {"return"} PROVE Role
    <3> HIDE DEF Role
    <3> QED
      BY <1>3
  <2> QED
    BY <1>9
<1>13. /\ (fifoavail(p) => Role) /\ (AvailOc(p) => Role) /\ (AvailHead(p) => Role)
       /\ (AvailLink(p) => Role) /\ (AvailTail(p) => Role) /\ (AvailCheck(p) => Role)
       /\ (Return(p) => Role)
  <2> SUFFICES ASSUME pc'[p] \notin Putting /\ pc'[p] \notin Getting PROVE Role
    <3> HIDE DEF Role
    <3> QED
      BY <1>5, <1>9
  <2> QED
    OBVIOUS
<1>14. fifoget(p) => Role
  BY <1>6, <1>9
<1>15. (\E c \in Cells : fifoput(p, c) \/ \E q \in Producers : Recycle(p, q, c)) => Role
  BY <1>7, <1>8, <1>9
<1>16. Role
  <2> HIDE DEF Role
  <2> QED
    BY <1>10, <1>11, <1>12, <1>13, <1>14, <1>15 DEF AnyStep, Step
<1> QED
  BY <1>16

LEMMA RolesKept ==
  ASSUME LFFifoAssumption, IInv, Roles, NEW p \in Procs, AnyStep(p)
  PROVE  Roles'
<1>1. TypeOK /\ CellHeld(p) /\ Mine(p)
  BY StepsMine DEF IInv, Locals, AnyStep
<1> DEFINE Role(q) == /\ pc[q] \in Putting /\ cell[q] = Dummy => q \in Consumers
                      /\ pc[q] \in Putting /\ cell[q] # Dummy => q \in Producers
                      /\ pc[q] \in Getting => q \in Consumers
<1>2. Role(p)'
  BY <1>1, OwnRole DEF Roles
<1>3. ASSUME NEW q \in Procs \ {p} PROVE Role(q)'
  BY <1>1, <1>3 DEF Roles, Mine
<1> QED
  BY <1>2, <1>3 DEF Roles

\* Who changes a link, and the counter of the head.
LEMMA LinkMoves ==
  ASSUME NEW p \in Procs, AnyStep(p)
  PROVE  \/ link' = link
         \/ PutEnd(p) /\ link' = [link EXCEPT ![cell[p]] = End]
         \/ /\ PutLink(p) /\ link[lptr[p]] = End
            /\ link' = [link EXCEPT ![lptr[p]] = cell[p]]
         \/ \E c \in Cells : \E q \in Producers :
               Recycle(p, q, c) /\ link' = [link EXCEPT ![c] = NULL]
<1>1. CASE \/ PutEnd(p) \/ PutLink(p)
           \/ \E c \in Cells : \E q \in Producers : Recycle(p, q, c)
  BY <1>1 DEF PutEnd, PutLink, Recycle
<1>2. CASE \/ fifoget(p) \/ fifoavail(p) \/ PutIc(p) \/ PutTail(p) \/ PutNext(p) \/ PutHelp(p)
           \/ PutSwing(p) \/ PutInc(p) \/ GetOc(p) \/ GetIc(p) \/ GetHead(p) \/ GetNext(p)
           \/ GetCheck(p) \/ GetTail(p) \/ GetHelp(p) \/ GetCAS(p) \/ GetDec(p) \/ AvailOc(p)
           \/ AvailHead(p) \/ AvailLink(p) \/ AvailTail(p) \/ AvailCheck(p) \/ Return(p)
           \/ \E c \in Cells : fifoput(p, c)
  <2>1. link' = link
    BY <1>2 DEF fifoget, fifoavail, PutIc, PutTail, PutNext, PutHelp, PutSwing, PutInc, GetOc,
       GetIc, GetHead, GetNext, GetCheck, GetTail, GetHelp, GetCAS, GetDec, AvailOc, AvailHead,
       AvailLink, AvailTail, AvailCheck, Return, fifoput
  <2> QED
    BY <2>1
<1> QED
  BY <1>1, <1>2 DEF AnyStep, Step

LEMMA OcMoves ==
  ASSUME NEW p \in Procs, AnyStep(p)
  PROVE  oc' = oc \/ (GetCAS(p) /\ HeadUnmoved(p))
BY DEF AnyStep, Step, PutEnd, PutIc, PutTail, PutLink, PutNext, PutHelp, PutSwing, PutInc, GetOc,
   GetIc, GetHead, GetNext, GetCheck, GetTail, GetHelp, GetCAS, GetDec, AvailOc, AvailHead,
   AvailLink, AvailTail, AvailCheck, Return, fifoget, fifoavail, fifoput, Recycle

\* Where p may come from when it goes to a line that PoolInv speaks of.
LEMMA Arrives ==
  ASSUME TypeOK, NEW p \in Procs, AnyStep(p)
  PROVE  /\ pc'[p] \in Linking => PutEnd(p) \/ (pc[p] \in Linking /\ cell'[p] = cell[p])
         /\ pc'[p] = "put_link" => PutTail(p) \/ (pc[p] = "put_link" /\ UNCHANGED <<cell, lptr>>)
         /\ pc'[p] \in {"get_ic", "get_head", "get_next"} =>
               GetOc(p) \/ (pc[p] \in {"get_ic", "get_head", "get_next"} /\ loc'[p] = loc[p])
<1>1. CASE \/ PutEnd(p) \/ PutIc(p) \/ PutTail(p) \/ PutLink(p) \/ PutNext(p) \/ PutHelp(p)
           \/ PutSwing(p) \/ PutInc(p)
  BY <1>1 DEF TypeOK, Linking, PutEnd, PutIc, PutTail, PutLink, PutNext, PutHelp, PutSwing, PutInc,
     Goto
<1>2. CASE \/ GetOc(p) \/ GetIc(p) \/ GetHead(p) \/ GetNext(p) \/ GetCheck(p) \/ GetTail(p)
           \/ GetHelp(p) \/ GetCAS(p) \/ GetDec(p)
  BY <1>2 DEF TypeOK, Linking, GetOc, GetIc, GetHead, GetNext, GetCheck, GetTail, GetHelp, GetCAS,
     GetDec, Goto
<1>3. CASE \/ AvailOc(p) \/ AvailHead(p) \/ AvailLink(p) \/ AvailTail(p) \/ AvailCheck(p)
           \/ Return(p) \/ fifoget(p) \/ fifoavail(p) \/ \E c \in Cells : fifoput(p, c)
  BY <1>3 DEF TypeOK, Linking, AvailOc, AvailHead, AvailLink, AvailTail, AvailCheck, Return, fifoget,
     fifoavail, fifoput, Goto
<1>4. CASE \E c \in Cells : \E q \in Producers : Recycle(p, q, c)
  BY <1>4 DEF Recycle
<1> QED
  BY <1>1, <1>2, <1>3, <1>4 DEF AnyStep, Step

LEMMA AloneKept ==
  ASSUME LFFifoAssumption, OneEach, IInv, Roles, Alone, Stays, NEW p \in Procs, AnyStep(p)
  PROVE  Alone'
<1>1. TypeOK /\ Mine(p) /\ \A q \in Procs : CellHeld(q)
  BY StepsMine DEF IInv, Locals, AnyStep
<1> SUFFICES ASSUME NEW q \in Procs, pc'[q] \in Linking, cell'[q] # Dummy
             PROVE  link'[cell'[q]] = End
  BY DEF Alone
<1>2. CASE q = p /\ PutEnd(p)
  <2>1. pc[p] = "put_end" /\ cell' = cell /\ link' = [link EXCEPT ![cell[p]] = End]
    BY <1>2 DEF PutEnd
  <2>2. cell[p] \in Cells \cup {Dummy}
    BY <1>1, <2>1 DEF CellHeld, Node
  <2> QED
    BY <1>1, <1>2, <2>1, <2>2 DEF TypeOK
<1>3. CASE ~ (q = p /\ PutEnd(p))
  <2>1. pc[q] \in Linking /\ cell'[q] = cell[q]
    BY <1>1, <1>3, Arrives DEF Mine
  <2>2. link[cell[q]] = End /\ cell[q] \in Node /\ cell[q] # Dummy
    BY <1>1, <2>1 DEF Alone, CellHeld
  <2>3. HasCell(q) /\ cell[q] \in Away
    BY <2>1, <2>2 DEF HasCell, Away
  <2>4. CASE link' = link
    BY <2>1, <2>2, <2>4
  <2>5. CASE link' = [link EXCEPT ![cell[p]] = End]
    BY <1>1, <2>1, <2>2, <2>5 DEF TypeOK, Node
  <2>6. CASE /\ PutLink(p) /\ link[lptr[p]] = End
             /\ link' = [link EXCEPT ![lptr[p]] = cell[p]]
    <3>1. pc[p] = "put_link" /\ pc'[p] = "put_swing"
      BY <1>1, <2>6 DEF PutLink, Goto, TypeOK
    <3>2. q # p
      BY <3>1 DEF Linking
    <3>3. pc[p] \in Putting /\ pc[q] \in Putting
      BY <2>1, <3>1 DEF Putting, Linking
    <3>4. cell[p] = Dummy
      BY <2>2, <3>2, <3>3 DEF Roles, OneEach
    <3>5. lptr[p] # cell[q]
      BY <2>3, <3>1, <3>4 DEF Stays
    <3> QED
      BY <1>1, <2>1, <2>2, <2>6, <3>5 DEF TypeOK, Node
  <2>7. ASSUME NEW c \in Cells, NEW r \in Producers,
               Recycle(p, r, c), link' = [link EXCEPT ![c] = NULL]
        PROVE  link'[cell'[q]] = End
    <3>1. c \in holds[p]
      BY <2>7 DEF Recycle
    <3>2. c # cell[q]
      BY <2>3, <3>1, Unique
    <3> QED
      BY <1>1, <2>1, <2>2, <2>7, <3>2 DEF TypeOK, Node
  <2> QED
    BY <2>4, <2>5, <2>6, <2>7, LinkMoves
<1> QED
  BY <1>2, <1>3

LEMMA StaysKept ==
  ASSUME LFFifoAssumption, OneEach, IInv, Roles, Stays, NEW p \in Procs, AnyStep(p)
  PROVE  Stays'
<1>1. TypeOK /\ Mine(p)
  BY StepsMine DEF IInv, AnyStep
<1> SUFFICES ASSUME NEW q \in Procs, pc'[q] = "put_link", cell'[q] = Dummy
             PROVE  lptr'[q] \notin Away'
  BY DEF Stays
<1>2. CASE q = p /\ PutTail(p)
  <2>1. lptr'[p] = tail /\ pc[p] = "put_tail"
    BY <1>1, <1>2 DEF PutTail, TypeOK
  <2>2. Away' = Away
    BY <2>1, AwayMoves DEF AnyStep, PutLink, GetCAS
  <2> QED
    BY <1>2, <2>1, <2>2, Unique
<1>3. CASE ~ (q = p /\ PutTail(p))
  <2>1. pc[q] = "put_link" /\ cell[q] = Dummy /\ lptr'[q] = lptr[q]
    BY <1>1, <1>3, Arrives DEF Mine
  <2>2. lptr[q] \notin Away /\ q \in Consumers
    BY <2>1 DEF Stays, Roles, Putting, Linking
  <2>3. ASSUME GetCAS(p) PROVE FALSE
    <3>1. pc[p] = "get_cas" /\ pc[p] \in Getting
      BY <2>3 DEF GetCAS, Getting
    <3> QED
      BY <2>1, <2>2, <3>1 DEF Roles, OneEach
  <2>4. Away' \subseteq Away
    BY <2>3, AwayMoves DEF AnyStep
  <2> QED
    BY <2>1, <2>2, <2>4
<1> QED
  BY <1>2, <1>3

LEMMA FreshKept ==
  ASSUME LFFifoAssumption, OneEach, IInv, Roles, Fresh, NEW p \in Procs, AnyStep(p)
  PROVE  Fresh'
<1>1. TypeOK /\ Mine(p)
  BY StepsMine DEF IInv, AnyStep
<1> DEFINE Looking == {"get_ic", "get_head", "get_next"}
<1> SUFFICES ASSUME NEW q \in Procs, pc'[q] \in Looking PROVE loc'[q] = oc'
  BY DEF Fresh
<1>2. CASE q = p /\ GetOc(p)
  BY <1>1, <1>2 DEF GetOc, TypeOK
<1>3. CASE ~ (q = p /\ GetOc(p))
  <2>1. pc[q] \in Looking /\ loc'[q] = loc[q]
    BY <1>1, <1>3, Arrives DEF Mine
  <2>2. loc[q] = oc /\ q \in Consumers
    BY <2>1 DEF Fresh, Roles, Getting
  <2>3. ASSUME GetCAS(p) PROVE FALSE
    <3>1. pc[p] = "get_cas" /\ pc[p] \in Getting
      BY <2>3 DEF GetCAS, Getting
    <3>2. p = q
      BY <2>2, <3>1 DEF Roles, OneEach
    <3> QED
      BY <2>1, <3>1, <3>2
  <2>4. oc' = oc
    BY <2>3, OcMoves
  <2> QED
    BY <2>1, <2>2, <2>4
<1> QED
  BY <1>2, <1>3

LEMMA PoolKeeps ==
  ASSUME LFFifoAssumption, OneEach, IInv, PoolInv, NEW p \in Procs, AnyStep(p)
  PROVE  PoolInv'
BY RolesKept, AloneKept, StaysKept, FreshKept DEF PoolInv

LEMMA PoolStarts == Init => PoolInv
BY DEF Init, PoolInv, Roles, Alone, Stays, Fresh, Putting, Getting, Linking

\* A get that finds End behind the head finds the list empty: all it has is the
\* dummy, which nobody else may have.
LEMMA SeesEmpty ==
  ASSUME LFFifoAssumption, OneEach, IInv, PoolInv, NEW p \in Procs,
         pc[p] = "get_next", link[lptr[p]] = End
  PROVE  Linked = {}
<1>1. PICK F, N, B : Shape(F, N) /\ Ordered(F, N, B) /\ Tallied(F, N)
  BY DEF IInv
<1>2. /\ TypeOK /\ Roles /\ Alone /\ p \in Consumers
      /\ \A q \in Procs : CellHeld(q)
  BY DEF PoolInv, Roles, Getting, IInv, Locals
<1>3. lptr[p] = head
  BY DEF PoolInv, Fresh, IInv, Locals, HeadSeen
<1>4. N[<<>>] = 1 /\ F[<<>>][1] = head
  <2>1. N[<<>>] \in Nat /\ N[<<>>] >= 1 /\ F[<<>>][1] = head /\ <<>> \in Place
    BY <1>1, Strands, Places DEF Shape, Anchored
  <2>2. ASSUME N[<<>>] # 1 PROVE FALSE
    <3>1. 1 \in 1..N[<<>>] - 1 /\ 1 + 1 \in 1..N[<<>>]
      BY <2>1, <2>2
    <3>2. link[F[<<>>][1]] = F[<<>>][1 + 1] /\ F[<<>>][1 + 1] \in Node
      BY <1>1, <2>1, <3>1, Strands DEF Shape, Threaded
    <3> QED
      BY <1>3, <2>1, <3>2 DEF Node, LFFifoAssumption
  <2> QED
    BY <2>1, <2>2
<1>5. ASSUME NEW q \in Procs, HasCell(q), cell[q] = Dummy PROVE FALSE
  <2>1. pc[q] # "return"
    BY <1>2, <1>5 DEF CellHeld, LFFifoAssumption
  <2>2. q \in Consumers /\ pc[q] # "get_next"
    BY <1>2, <1>5, <2>1 DEF Roles, HasCell, Putting, Getting, Linking, Carrying
  <2> QED
    BY <1>2, <2>2 DEF OneEach
<1>6. \A q \in Procs : \A c : InStrand(F, N, <<q>>, c) => HasCell(q)
  BY <1>1, Strands DEF InStrand
<1>7. head = Dummy
  <2>1. \A q \in Procs : Dummy \notin holds[q]
    BY <1>2 DEF TypeOK, LFFifoAssumption
  <2>2. PICK x \in Place : InStrand(F, N, x, Dummy)
    BY <1>1, <2>1 DEF Shape, Somewhere, Node
  <2>3. ASSUME NEW q \in Procs, x = <<q>> PROVE FALSE
    <3>1. HasCell(q) /\ cell[q] # Dummy
      BY <1>5, <1>6, <2>2, <2>3
    <3>2. N[<<q>>] = 1 /\ F[<<q>>][1] = cell[q]
      BY <1>1, <1>2, <3>1, Short
    <3> QED
      BY <2>2, <2>3, <3>1, <3>2 DEF InStrand
  <2>4. x = <<>>
    BY <2>3, Places
  <2> QED
    BY <1>4, <2>2, <2>4 DEF InStrand
<1>8. ASSUME NEW c \in Linked PROVE FALSE
  <2>1. c \in Cells /\ c # Dummy
    BY DEF Linked, LFFifoAssumption
  <2>2. ASSUME Contains(Chain, c) PROVE FALSE
    <3>1. InStrand(F, N, <<>>, c)
      BY <1>1, <2>2, ChainStrand
    <3> QED
      BY <1>4, <1>7, <2>1, <3>1 DEF InStrand
  <2>3. ASSUME NEW q \in Procs, cell[q] = Dummy, Contains(Hanging(q), c) PROVE FALSE
    <3>1. InStrand(F, N, <<q>>, c)
      BY <1>1, <2>3, HangingStrand
    <3> QED
      BY <1>5, <1>6, <2>3, <3>1
  <2> QED
    BY <2>2, <2>3 DEF Linked
<1> QED
  BY <1>8

\* The call of a thread that is at line l with the locals c and n.
Is(o, c) == [op |-> o, cell |-> c]
Outside == {"idle", "avail_oc", "avail_head", "avail_link", "avail_tail", "avail_check",
          "avail_return"}

View(l, c, n) ==
  CASE l \in {"put_end", "put_ic", "put_tail", "put_link", "put_next",
              "put_help"} /\ c # Dummy -> Is("put", c)
    [] l \in {"put_swing", "put_inc"} /\ c # Dummy -> Is("ended", NULL)
    [] l \in {"get_check", "get_tail"} /\ n = End -> Is("empty", NULL)
    [] l = "return" \/ (l = "get_dec" /\ c # Dummy) -> Is("ended", c)
    [] l \in Outside -> Is("none", NULL)
    [] OTHER -> Is("get", NULL)

LEMMA Views ==
  ASSUME NEW l, NEW c, NEW n
  PROVE  /\ l \in Linking \cup {"put_end"} /\ c # Dummy => View(l, c, n) = Is("put", c)
         /\ l \in {"put_swing", "put_inc"} /\ c # Dummy => View(l, c, n) = Is("ended", NULL)
         /\ l \in Putting /\ c = Dummy => View(l, c, n) = Is("get", NULL)
         /\ l \in {"get_oc", "get_ic", "get_head", "get_next", "get_help", "get_cas"} =>
              View(l, c, n) = Is("get", NULL)
         /\ l \in {"get_check", "get_tail"} =>
              View(l, c, n) = IF n = End THEN Is("empty", NULL) ELSE Is("get", NULL)
         /\ l = "get_dec" => View(l, c, n) = IF c = Dummy THEN Is("get", NULL) ELSE Is("ended", c)
         /\ l = "return" => View(l, c, n) = Is("ended", c)
         /\ l \in Outside => View(l, c, n) = Is("none", NULL)
<1>0. l \in Linking \cup {"put_end"} /\ c # Dummy => View(l, c, n) = Is("put", c)
  BY DEF View, Linking, Outside, Is
<1>1. l \in {"put_swing", "put_inc"} /\ c # Dummy => View(l, c, n) = Is("ended", NULL)
  BY DEF View, Outside, Is
<1>2. l \in Putting /\ c = Dummy => View(l, c, n) = Is("get", NULL)
  BY DEF View, Putting, Linking, Outside
<1>3. l \in {"get_oc", "get_ic", "get_head", "get_next", "get_help", "get_cas"} =>
              View(l, c, n) = Is("get", NULL)
  BY DEF View, Outside
<1>4. l \in {"get_check", "get_tail"} =>
              View(l, c, n) = IF n = End THEN Is("empty", NULL) ELSE Is("get", NULL)
  BY DEF View, Outside
<1>5. l = "get_dec" => View(l, c, n) = IF c = Dummy THEN Is("get", NULL) ELSE Is("ended", c)
  BY DEF View, Outside
<1>6. /\ l = "return" => View(l, c, n) = Is("ended", c)
      /\ l \in Outside => View(l, c, n) = Is("none", NULL)
  BY DEF View, Outside
<1> QED
  BY <1>0, <1>1, <1>2, <1>3, <1>4, <1>5, <1>6

Calls == [p \in Procs |-> AbsCall(p)]

LEMMA CallsAre ==
  Calls = [p \in Procs |-> View(pc[p], cell[p], lnext[p])]
BY DEF Calls, AbsCall, View, Is, Outside

LEMMA NextCalls ==
  Calls' = [p \in Procs |-> View(pc'[p], cell'[p], lnext'[p])]
BY DEF Calls, AbsCall, View, Is, Outside

\* A step of p changes the call of p only.
LEMMA OneCall ==
  ASSUME NEW p \in Procs, Mine(p)
  PROVE  Calls' = [Calls EXCEPT ![p] = Calls'[p]]
BY CallsAre, NextCalls DEF Mine

\* What each step does to the call of p: those of a put ...
LEMMA PutSteps ==
  ASSUME LFFifoAssumption, TypeOK, NEW p \in Procs, CellHeld(p),
         \/ PutEnd(p) \/ PutIc(p) \/ PutTail(p) \/ PutLink(p) \/ PutNext(p) \/ PutHelp(p)
         \/ PutSwing(p) \/ PutInc(p)
  PROVE  /\ holds' = holds
         /\ \/ ~ (PutLink(p) /\ link[lptr[p]] = End /\ cell[p] # Dummy) /\ Calls'[p] = Calls[p]
            \/ /\ PutLink(p) /\ link[lptr[p]] = End /\ cell[p] # Dummy
               /\ Calls[p] = Is("put", cell[p]) /\ Calls'[p] = Is("ended", NULL)
<1> DEFINE now == View(pc[p], cell[p], lnext[p])
           next == View(pc'[p], cell'[p], lnext'[p])
<1>1. Calls[p] = now /\ Calls'[p] = next
  BY CallsAre, NextCalls
<1>2. holds' = holds
  BY DEF PutEnd, PutIc, PutTail, PutLink, PutNext, PutHelp, PutSwing, PutInc
<1>3. CASE PutEnd(p) \/ PutIc(p) \/ PutTail(p) \/ PutNext(p) \/ PutHelp(p)
  <2>1. /\ pc[p] \in Linking \cup {"put_end"} /\ pc'[p] \in Linking /\ cell' = cell
        /\ pc[p] \in Putting /\ pc'[p] \in Putting
    BY <1>3 DEF TypeOK, PutEnd, PutIc, PutTail, PutNext, PutHelp, Goto, Linking, Putting
  <2>2. next = now
    BY <2>1, Views
  <2>3. ~ PutLink(p)
    BY <1>3 DEF PutEnd, PutIc, PutTail, PutNext, PutHelp, PutLink
  <2> QED
    BY <1>1, <1>2, <2>2, <2>3
<1>4. CASE PutLink(p)
  <2>1. /\ pc[p] = "put_link" /\ cell' = cell
        /\ pc'[p] = IF link[lptr[p]] = End THEN "put_swing" ELSE "put_next"
    BY <1>4 DEF TypeOK, PutLink, Goto
  <2>2. /\ cell[p] = Dummy => now = Is("get", NULL) /\ next = Is("get", NULL)
        /\ cell[p] # Dummy => now = Is("put", cell[p])
        /\ cell[p] # Dummy /\ link[lptr[p]] = End => next = Is("ended", NULL)
        /\ cell[p] # Dummy /\ link[lptr[p]] # End => next = Is("put", cell[p])
    BY <2>1, Views DEF Linking, Putting
  <2> HIDE DEF now, next
  <2> QED
    BY <1>1, <1>2, <1>4, <2>2
<1>5. CASE PutSwing(p) \/ PutInc(p)
  <2>1. /\ pc[p] \in {"put_swing", "put_inc"} /\ ~ PutLink(p)
        /\ pc[p] = "put_swing" => pc'[p] = "put_inc" /\ cell'[p] = cell[p]
        /\ pc[p] = "put_inc" => /\ cell'[p] = NULL
                                /\ pc'[p] = IF cell[p] = Dummy THEN "get_oc" ELSE "return"
    BY <1>5 DEF TypeOK, PutSwing, PutInc, PutLink, Goto
  <2>2. /\ cell[p] = Dummy => now = Is("get", NULL) /\ next = Is("get", NULL)
        /\ cell[p] # Dummy => now = Is("ended", NULL) /\ next = Is("ended", NULL)
    BY <2>1, Views DEF Putting
  <2> HIDE DEF now, next
  <2> QED
    BY <1>1, <1>2, <2>1, <2>2
<1> QED
  BY <1>3, <1>4, <1>5

\* ... those of a get ...
LEMMA GetSteps ==
  ASSUME LFFifoAssumption, TypeOK, NEW p \in Procs, CellHeld(p),
         \/ GetOc(p) \/ GetIc(p) \/ GetHead(p) \/ GetNext(p) \/ GetCheck(p) \/ GetTail(p)
         \/ GetHelp(p) \/ GetCAS(p) \/ GetDec(p)
  PROVE  /\ holds' = holds
         /\ \/ /\ ~ (GetCAS(p) /\ HeadUnmoved(p) /\ head # Dummy) /\ Calls'[p] = Calls[p]
            \/ /\ GetNext(p) /\ link[lptr[p]] = End
               /\ Calls[p] = Is("get", NULL) /\ Calls'[p] = Is("empty", NULL)
            \/ /\ ~ GetCAS(p) /\ Calls[p] = Is("empty", NULL)
               /\ Calls'[p] \in {Is("get", NULL), Is("ended", NULL)}
            \/ /\ GetCAS(p) /\ HeadUnmoved(p) /\ head # Dummy
               /\ Calls[p] = Is("get", NULL) /\ Calls'[p] = Is("ended", head)
<1> DEFINE now == View(pc[p], cell[p], lnext[p])
           next == View(pc'[p], cell'[p], lnext'[p])
           taking == GetCAS(p) /\ HeadUnmoved(p) /\ head # Dummy
<1>1. Calls[p] = now /\ Calls'[p] = next
  BY CallsAre, NextCalls
<1>2. holds' = holds
  BY DEF GetOc, GetIc, GetHead, GetNext, GetCheck, GetTail, GetHelp, GetCAS, GetDec
<1>3. CASE GetOc(p) \/ GetIc(p) \/ GetHead(p) \/ GetHelp(p)
  <2>1. /\ pc[p] \in {"get_oc", "get_ic", "get_head", "get_help"} /\ ~ GetCAS(p)
        /\ pc'[p] \in {"get_oc", "get_ic", "get_head", "get_next"}
    BY <1>3 DEF TypeOK, GetOc, GetIc, GetHead, GetHelp, GetCAS, Goto
  <2>2. next = now
    BY <2>1, Views
  <2> HIDE DEF now, next
  <2> QED
    BY <1>1, <1>2, <2>1, <2>2
<1>4. CASE GetNext(p)
  <2>1. /\ pc[p] = "get_next" /\ pc'[p] = "get_check" /\ ~ GetCAS(p)
        /\ lnext'[p] = link[lptr[p]]
    BY <1>4 DEF TypeOK, GetNext, GetCAS, Goto
  <2>2. /\ now = Is("get", NULL)
        /\ next = IF link[lptr[p]] = End THEN Is("empty", NULL) ELSE Is("get", NULL)
    BY <2>1, Views
  <2> HIDE DEF now, next
  <2> QED
    BY <1>1, <1>2, <1>4, <2>1, <2>2
<1>5. CASE GetCheck(p) \/ GetTail(p)
  <2>1. /\ pc[p] \in {"get_check", "get_tail"} /\ lnext' = lnext /\ ~ GetCAS(p) /\ cell' = cell
        /\ pc'[p] \in {"get_tail", "get_oc", "return", "get_help", "get_cas"}
        /\ pc'[p] = "return" => lnext[p] = End
        /\ cell[p] = NULL
    BY <1>5 DEF CellHeld, TypeOK, GetCheck, GetTail, GetCAS, Goto
  <2>2. now = IF lnext[p] = End THEN Is("empty", NULL) ELSE Is("get", NULL)
    BY <2>1, Views
  <2>3. /\ pc'[p] = "get_tail" => next = now
        /\ pc'[p] = "return" => lnext[p] = End /\ next = Is("ended", NULL)
        /\ pc'[p] \in {"get_oc", "get_help", "get_cas"} => next = Is("get", NULL)
    BY <2>1, <2>2, Views
  <2> HIDE DEF now, next
  <2>4. \/ next = now
        \/ now = Is("empty", NULL) /\ next \in {Is("get", NULL), Is("ended", NULL)}
    BY <2>1, <2>2, <2>3
  <2> QED
    BY <1>1, <1>2, <2>1, <2>4
<1>6. CASE GetCAS(p)
  <2>1. /\ pc[p] = "get_cas"
        /\ HeadUnmoved(p) => pc'[p] = "get_dec" /\ cell'[p] = head
        /\ ~ HeadUnmoved(p) => pc'[p] = "get_oc"
    BY <1>6 DEF TypeOK, GetCAS, Goto
  <2>2. /\ now = Is("get", NULL)
        /\ HeadUnmoved(p) => next = IF head = Dummy THEN Is("get", NULL) ELSE Is("ended", head)
        /\ ~ HeadUnmoved(p) => next = Is("get", NULL)
    BY <2>1, Views
  <2> HIDE DEF now, next
  <2> QED
    BY <1>1, <1>2, <1>6, <2>2
<1>7. CASE GetDec(p)
  <2>1. /\ pc[p] = "get_dec" /\ cell' = cell /\ ~ GetCAS(p)
        /\ pc'[p] = IF cell[p] = Dummy THEN "put_end" ELSE "return"
    BY <1>7 DEF TypeOK, GetDec, GetCAS, Goto
  <2>2. next = now
    BY <2>1, Views DEF Putting
  <2> HIDE DEF now, next
  <2> QED
    BY <1>1, <1>2, <2>1, <2>2
<1> QED
  BY <1>3, <1>4, <1>5, <1>6, <1>7

\* ... those of fifoavail, which its caller does not see ...
LEMMA AvailSteps ==
  ASSUME TypeOK, NEW p \in Procs,
         \/ fifoavail(p) \/ AvailOc(p) \/ AvailHead(p) \/ AvailLink(p) \/ AvailTail(p)
         \/ AvailCheck(p) \/ (Return(p) /\ pc[p] = "avail_return")
  PROVE  holds' = holds /\ Calls'[p] = Calls[p]
<1>1. holds' = holds
  BY DEF fifoavail, AvailOc, AvailHead, AvailLink, AvailTail, AvailCheck, Return
<1>2. pc[p] \in Outside /\ pc'[p] \in Outside
  BY DEF TypeOK, Outside, fifoavail, AvailOc, AvailHead, AvailLink, AvailTail, AvailCheck, Return, Goto
<1>3. View(pc[p], cell[p], lnext[p]) = View(pc'[p], cell'[p], lnext'[p])
  BY <1>2, Views
<1> QED
  BY <1>1, <1>3, CallsAre, NextCalls

\* ... and where calls begin and end.
LEMMA CallSteps ==
  ASSUME LFFifoAssumption, TypeOK, NEW p \in Procs
  PROVE  /\ Return(p) /\ pc[p] = "return" =>
              /\ Calls[p] = Is("ended", cell[p]) /\ Calls'[p] = Is("none", NULL)
              /\ holds' = [holds EXCEPT ![p] = @ \cup ({cell[p]} \ {NULL})]
         /\ fifoget(p) =>
              /\ p \in Consumers /\ holds' = holds
              /\ Calls[p] = Is("none", NULL) /\ Calls'[p] = Is("get", NULL)
         /\ \A c \in Cells : fifoput(p, c) =>
              /\ p \in Producers /\ c \in holds[p] /\ holds' = [holds EXCEPT ![p] = @ \ {c}]
              /\ Calls[p] = Is("none", NULL) /\ Calls'[p] = Is("put", c)
<1> DEFINE now == View(pc[p], cell[p], lnext[p])
           next == View(pc'[p], cell'[p], lnext'[p])
<1>1. Calls[p] = now /\ Calls'[p] = next
  BY CallsAre, NextCalls
<1>2. ASSUME Return(p), pc[p] = "return"
      PROVE  /\ now = Is("ended", cell[p]) /\ next = Is("none", NULL)
             /\ holds' = [holds EXCEPT ![p] = @ \cup ({cell[p]} \ {NULL})]
  <2>1. pc'[p] = "idle" /\ holds' = [holds EXCEPT ![p] = @ \cup ({cell[p]} \ {NULL})]
    BY <1>2 DEF TypeOK, Return, Goto
  <2>2. "idle" \in Outside
    BY DEF Outside
  <2> QED
    BY <1>2, <2>1, <2>2, Views
<1>3. ASSUME fifoget(p)
      PROVE  p \in Consumers /\ holds' = holds /\ now = Is("none", NULL) /\ next = Is("get", NULL)
  <2>1. pc[p] = "idle" /\ pc'[p] = "get_oc" /\ p \in Consumers /\ holds' = holds
    BY <1>3 DEF TypeOK, fifoget, Goto
  <2>2. "idle" \in Outside
    BY DEF Outside
  <2> QED
    BY <2>1, <2>2, Views
<1>4. ASSUME NEW c \in Cells, fifoput(p, c)
      PROVE  /\ p \in Producers /\ c \in holds[p] /\ holds' = [holds EXCEPT ![p] = @ \ {c}]
             /\ now = Is("none", NULL) /\ next = Is("put", c)
  <2>1. /\ pc[p] = "idle" /\ pc'[p] = "put_end" /\ cell'[p] = c /\ c # Dummy
        /\ p \in Producers /\ c \in holds[p] /\ holds' = [holds EXCEPT ![p] = @ \ {c}]
    BY <1>4 DEF TypeOK, fifoput, Goto, LFFifoAssumption
  <2>2. "idle" \in Outside
    BY DEF Outside
  <2> QED
    BY <2>1, <2>2, Views
<1> HIDE DEF now, next
<1> QED
  BY <1>1, <1>2, <1>3, <1>4

PoolIs == Linked = Cells \ Away

LEMMA Seeing ==
  /\ Pool!vars = <<Linked, holds, Calls>> /\ Pool!vars' = <<Linked', holds', Calls'>>
  /\ \A p \in Procs : \A o, c :
       Pool!Becomes(p, o, c) <=> Calls' = [Calls EXCEPT ![p] = Is(o, c)]
  /\ Pool!None = Is("none", NULL)
<1>1. Pool!vars = <<Linked, holds, Calls>> /\ Pool!vars' = <<Linked', holds', Calls'>>
  BY DEF Pool!vars, Calls
<1>2. \A p \in Procs : \A o, c :
        Pool!Becomes(p, o, c) <=> Calls' = [Calls EXCEPT ![p] = Is(o, c)]
  BY DEF Pool!Becomes, Calls, Is
<1>3. Pool!None = Is("none", NULL)
  BY DEF Pool!None, Is
<1> QED
  BY <1>1, <1>2, <1>3

\* A step that nobody sees.
LEMMA Unseen ==
  ASSUME NEW p \in Procs, Mine(p), holds' = holds, Calls'[p] = Calls[p], Linked' = Linked
  PROVE  UNCHANGED Pool!vars
<1>1. Calls' = [Calls EXCEPT ![p] = Calls[p]]
  BY OneCall
<1>2. Calls' = Calls
  BY <1>1 DEF Calls
<1> QED
  BY <1>2, Seeing

LEMMA PutSimulates ==
  ASSUME LFFifoAssumption, IInv, PoolInv, PoolIs, PoolIs', NEW p \in Procs,
         \/ PutEnd(p) \/ PutIc(p) \/ PutTail(p) \/ PutLink(p) \/ PutNext(p) \/ PutHelp(p)
         \/ PutSwing(p) \/ PutInc(p)
  PROVE  [Pool!Next]_(Pool!vars)
<1>1. TypeOK /\ Mine(p) /\ CellHeld(p) /\ Step(p)
  BY StepsMine DEF IInv, Locals, Step
<1>2. holds' = holds
  BY <1>1, PutSteps
<1>3. CASE PutLink(p) /\ link[lptr[p]] = End /\ cell[p] # Dummy
  <2>1. pc[p] = "put_link" /\ cell[p] \in Cells
    BY <1>1, <1>3 DEF PutLink, CellHeld, Linking, Node
  <2>2. p \in Producers
    BY <1>3, <2>1 DEF PoolInv, Roles, Putting, Linking
  <2>3. Linked' = Linked \cup {cell[p]}
    BY <1>1, <1>3, <2>1, AwayMoves DEF PoolIs
  <2>4. Calls[p] = Is("put", cell[p]) /\ Calls'[p] = Is("ended", NULL)
    BY <1>1, <1>3, PutSteps
  <2>5. Pool!Becomes(p, "ended", NULL)
    BY <1>1, <2>4, OneCall, Seeing
  <2>6. Calls[p].op = "put" /\ Calls[p].cell = cell[p]
    BY <2>4 DEF Is
  <2>7. Pool!Put(p)
    BY <1>2, <2>3, <2>5, <2>6 DEF Pool!Put, Calls
  <2> QED
    BY <2>2, <2>7 DEF Pool!Next
<1>4. CASE ~ (PutLink(p) /\ link[lptr[p]] = End /\ cell[p] # Dummy)
  <2>1. Calls'[p] = Calls[p]
    BY <1>1, <1>4, PutSteps
  <2>2. ~ GetCAS(p)
    <3>1. pc[p] \in Putting
      BY DEF Putting, Linking, PutEnd, PutIc, PutTail, PutLink, PutNext, PutHelp, PutSwing, PutInc
    <3> QED
      BY <3>1 DEF GetCAS, Putting, Linking
  <2>3. Linked' = Linked
    <3>1. CASE PutLink(p) /\ link[lptr[p]] = End
      <4>1. cell[p] = Dummy /\ Away' = Away \ {Dummy}
        BY <1>1, <1>4, <3>1, AwayMoves
      <4> QED
        BY <4>1 DEF PoolIs, LFFifoAssumption
    <3>2. CASE ~ (PutLink(p) /\ link[lptr[p]] = End)
      BY <1>1, <2>2, <3>2, AwayMoves DEF PoolIs
    <3> QED
      BY <3>1, <3>2
  <2> QED
    BY <1>1, <1>2, <2>1, <2>3, Unseen
<1> QED
  BY <1>3, <1>4

LEMMA GetSimulates ==
  ASSUME LFFifoAssumption, OneEach, IInv, PoolInv, PoolIs, PoolIs', NEW p \in Procs,
         \/ GetOc(p) \/ GetIc(p) \/ GetHead(p) \/ GetNext(p) \/ GetCheck(p) \/ GetTail(p)
         \/ GetHelp(p) \/ GetCAS(p) \/ GetDec(p)
  PROVE  [Pool!Next]_(Pool!vars)
<1>1. TypeOK /\ Mine(p) /\ CellHeld(p) /\ Step(p)
  BY StepsMine DEF IInv, Locals, Step
<1>2. p \in Consumers /\ ~ PutLink(p)
  <2>1. pc[p] \in Getting
    BY DEF Getting, GetOc, GetIc, GetHead, GetNext, GetCheck, GetTail, GetHelp, GetCAS, GetDec
  <2> QED
    BY <2>1 DEF PoolInv, Roles, PutLink, Getting
<1>3. holds' = holds
  BY <1>1, GetSteps
<1>4. CASE ~ (GetCAS(p) /\ HeadUnmoved(p) /\ head # Dummy)
  <2>1. Linked' = Linked
    <3>1. CASE GetCAS(p) /\ HeadUnmoved(p)
      <4>1. head = Dummy /\ Away' = Away \cup {Dummy}
        BY <1>1, <1>4, <3>1, AwayMoves
      <4> QED
        BY <4>1 DEF PoolIs, LFFifoAssumption
    <3>2. CASE ~ (GetCAS(p) /\ HeadUnmoved(p))
      BY <1>1, <1>2, <3>2, AwayMoves DEF PoolIs
    <3> QED
      BY <3>1, <3>2
  <2>2. CASE Calls'[p] = Calls[p]
    BY <1>1, <1>3, <2>1, <2>2, Unseen
  <2>3. CASE /\ GetNext(p) /\ link[lptr[p]] = End
             /\ Calls[p] = Is("get", NULL) /\ Calls'[p] = Is("empty", NULL)
    <3>1. Linked = {}
      BY <2>3, SeesEmpty DEF GetNext
    <3>2. Pool!Becomes(p, "empty", NULL)
      BY <1>1, <2>3, OneCall, Seeing
    <3>3. Calls[p].op = "get"
      BY <2>3 DEF Is
    <3>4. Pool!SeeEmpty(p)
      BY <1>3, <2>1, <3>1, <3>2, <3>3 DEF Pool!SeeEmpty, Calls
    <3> QED
      BY <1>2, <3>4 DEF Pool!Next
  <2>4. CASE Calls[p] = Is("empty", NULL) /\ Calls'[p] = Is("get", NULL)
    <3>1. Pool!Becomes(p, "get", NULL) /\ Calls[p].op = "empty"
      BY <1>1, <2>4, OneCall, Seeing DEF Is
    <3>2. Pool!LookAgain(p)
      BY <1>3, <2>1, <3>1 DEF Pool!LookAgain, Calls
    <3> QED
      BY <1>2, <3>2 DEF Pool!Next
  <2>5. CASE Calls[p] = Is("empty", NULL) /\ Calls'[p] = Is("ended", NULL)
    <3>1. Pool!Becomes(p, "ended", NULL) /\ Calls[p].op = "empty"
      BY <1>1, <2>5, OneCall, Seeing DEF Is
    <3>2. Pool!GetNothing(p)
      BY <1>3, <2>1, <3>1 DEF Pool!GetNothing, Calls
    <3> QED
      BY <1>2, <3>2 DEF Pool!Next
  <2> QED
    BY <1>1, <1>4, <2>2, <2>3, <2>4, <2>5, GetSteps
<1>5. CASE GetCAS(p) /\ HeadUnmoved(p) /\ head # Dummy
  <2>1. Calls[p] = Is("get", NULL) /\ Calls'[p] = Is("ended", head)
    BY <1>1, <1>5, GetSteps DEF GetCAS, GetNext
  <2>2. head \in Linked
    BY <1>1, <1>5, Unique DEF PoolIs, TypeOK
  <2>3. Linked' = Linked \ {head}
    BY <1>1, <1>5, AwayMoves DEF PoolIs
  <2>4. Pool!Becomes(p, "ended", head) /\ Calls[p].op = "get"
    BY <1>1, <2>1, OneCall, Seeing DEF Is
  <2>5. Pool!Get(p, head)
    BY <1>3, <2>2, <2>3, <2>4 DEF Pool!Get, Calls
  <2>6. head \in Cells
    BY <2>2 DEF PoolIs
  <2> QED
    BY <1>2, <2>5, <2>6 DEF Pool!Next
<1> QED
  BY <1>4, <1>5

LEMMA CallsSimulate ==
  ASSUME LFFifoAssumption, IInv, PoolIs, PoolIs', NEW p \in Procs,
         \/ Return(p) \/ fifoget(p) \/ \E c \in Cells : fifoput(p, c)
         \/ fifoavail(p) \/ AvailOc(p) \/ AvailHead(p) \/ AvailLink(p) \/ AvailTail(p)
         \/ AvailCheck(p)
  PROVE  [Pool!Next]_(Pool!vars)
<1>1. TypeOK /\ Mine(p) /\ AnyStep(p)
  BY StepsMine DEF IInv, Step, AnyStep
<1>2. ~ PutLink(p) /\ ~ GetCAS(p)
  BY DEF PutLink, GetCAS, Return, fifoget, fifoput, fifoavail, AvailOc, AvailHead, AvailLink,
     AvailTail, AvailCheck
<1>3. Linked' = Linked
  BY <1>1, <1>2, AwayMoves DEF PoolIs, AnyStep
<1>4. CASE Return(p) /\ pc[p] = "return"
  <2>1. /\ Calls[p] = Is("ended", cell[p]) /\ Calls'[p] = Is("none", NULL)
        /\ holds' = [holds EXCEPT ![p] = @ \cup ({cell[p]} \ {NULL})]
    BY <1>1, <1>4, CallSteps
  <2>2. Calls' = [Calls EXCEPT ![p] = Pool!None]
    BY <1>1, <2>1, OneCall, Seeing
  <2>3. Calls[p].op = "ended" /\ Calls[p].cell = cell[p]
    BY <2>1 DEF Is
  <2>4. Pool!Return(p)
    BY <1>3, <2>1, <2>2, <2>3 DEF Pool!Return, Calls
  <2> QED
    BY <2>4 DEF Pool!Next, Pool!Procs, Procs
<1>5. CASE fifoget(p)
  <2>1. /\ p \in Consumers /\ holds' = holds
        /\ Calls[p] = Is("none", NULL) /\ Calls'[p] = Is("get", NULL)
    BY <1>1, <1>5, CallSteps
  <2>2. Pool!Becomes(p, "get", NULL) /\ Calls[p] = Pool!None
    BY <1>1, <2>1, OneCall, Seeing
  <2>3. Pool!CallGet(p)
    BY <1>3, <2>1, <2>2 DEF Pool!CallGet, Calls
  <2> QED
    BY <2>1, <2>3 DEF Pool!Next
<1>6. ASSUME NEW c \in Cells, fifoput(p, c) PROVE Pool!Next
  <2>1. /\ p \in Producers /\ c \in holds[p] /\ holds' = [holds EXCEPT ![p] = @ \ {c}]
        /\ Calls[p] = Is("none", NULL) /\ Calls'[p] = Is("put", c)
    BY <1>1, <1>6, CallSteps
  <2>2. Pool!Becomes(p, "put", c) /\ Calls[p] = Pool!None
    BY <1>1, <2>1, OneCall, Seeing
  <2>3. Pool!CallPut(p, c)
    BY <1>3, <2>1, <2>2 DEF Pool!CallPut, Calls
  <2> QED
    BY <2>1, <2>3 DEF Pool!Next
<1>7. CASE \/ fifoavail(p) \/ AvailOc(p) \/ AvailHead(p) \/ AvailLink(p) \/ AvailTail(p)
           \/ AvailCheck(p) \/ (Return(p) /\ pc[p] = "avail_return")
  BY <1>1, <1>3, <1>7, AvailSteps, Unseen
<1>8. Return(p) => pc[p] \in {"return", "avail_return"}
  BY DEF Return
<1> QED
  BY <1>4, <1>5, <1>6, <1>7, <1>8

LEMMA RecycleSimulates ==
  ASSUME LFFifoAssumption, IInv, PoolIs, PoolIs', NEW p \in Procs, NEW q \in Producers,
         NEW c \in Cells, Recycle(p, q, c)
  PROVE  Pool!Next
<1>1. TypeOK /\ AnyStep(p)
  BY DEF IInv, AnyStep
<1>2. ~ PutLink(p) /\ ~ GetCAS(p)
  BY <1>1 DEF PutLink, GetCAS, Recycle, Goto, TypeOK
<1>3. Linked' = Linked
  BY <1>1, <1>2, AwayMoves DEF PoolIs, AnyStep
<1>4. Calls' = Calls
  BY CallsAre, NextCalls DEF Recycle
<1>5. /\ p # q /\ c \in holds[p]
      /\ holds' = [holds EXCEPT ![p] = @ \ {c}, ![q] = @ \cup {c}]
  BY DEF Recycle
<1>6. Pool!Recycle(p, q, c)
  BY <1>3, <1>4, <1>5 DEF Pool!Recycle, Calls
<1> QED
  BY <1>6 DEF Pool!Next, Pool!Procs, Procs

LEMMA Simulates ==
  ASSUME LFFifoAssumption, OneEach, IInv, PoolInv, PoolIs, PoolIs', [Next]_vars
  PROVE  [Pool!Next]_(Pool!vars)
<1>1. CASE UNCHANGED vars
  <2>1. Calls' = Calls /\ holds' = holds
    BY <1>1, CallsAre, NextCalls DEF vars
  <2>2. Away' = Away
    BY <1>1 DEF vars, Away, HasCell
  <2> QED
    BY <2>1, <2>2, Seeing DEF PoolIs
<1>2. ASSUME NEW p \in Procs, Step(p) PROVE [Pool!Next]_(Pool!vars)
  <2>1. CASE \/ PutEnd(p) \/ PutIc(p) \/ PutTail(p) \/ PutLink(p) \/ PutNext(p) \/ PutHelp(p)
             \/ PutSwing(p) \/ PutInc(p)
    BY <2>1, PutSimulates
  <2>2. CASE \/ GetOc(p) \/ GetIc(p) \/ GetHead(p) \/ GetNext(p) \/ GetCheck(p) \/ GetTail(p)
             \/ GetHelp(p) \/ GetCAS(p) \/ GetDec(p)
    BY <2>2, GetSimulates
  <2>3. CASE \/ Return(p) \/ AvailOc(p) \/ AvailHead(p) \/ AvailLink(p) \/ AvailTail(p)
             \/ AvailCheck(p)
    BY <2>3, CallsSimulate
  <2> QED
    BY <1>2, <2>1, <2>2, <2>3 DEF Step
<1>3. ASSUME NEW p \in Procs, fifoget(p) \/ fifoavail(p) \/ \E c \in Cells : fifoput(p, c)
      PROVE  [Pool!Next]_(Pool!vars)
  BY <1>3, CallsSimulate
<1>4. ASSUME NEW p \in Procs, NEW q \in Producers, NEW c \in Cells, Recycle(p, q, c)
      PROVE  [Pool!Next]_(Pool!vars)
  BY <1>4, RecycleSimulates
<1>5. CASE Next
  BY <1>2, <1>3, <1>4, <1>5 DEF Next
<1> QED
  BY <1>1, <1>5

LEMMA PoolInitially ==
  ASSUME LFFifoAssumption, Init, PoolIs
  PROVE  Pool!Init
<1>1. PICK owner \in [Cells -> Producers] : holds = [p \in Procs |-> {c \in Cells : owner[c] = p}]
  BY DEF Init
<1>2. Cells \subseteq Away
  <2> SUFFICES ASSUME NEW c \in Cells PROVE c \in Away
    OBVIOUS
  <2>1. owner[c] \in Procs /\ c \in holds[owner[c]]
    BY <1>1 DEF Procs
  <2> QED
    BY <2>1 DEF Away, Node
<1>3. Linked = {}
  BY <1>2 DEF PoolIs
<1>4. Calls = [p \in Procs |-> Is("none", NULL)]
  <2>1. \A p \in Procs : View(pc[p], cell[p], lnext[p]) = Is("none", NULL)
    BY Views DEF Init, Outside
  <2> QED
    BY <2>1, CallsAre
<1>5. Pool!Procs = Procs
  BY DEF Pool!Procs, Procs
<1> QED
  BY <1>1, <1>3, <1>4, <1>5, Seeing DEF Pool!Init, Calls

LEMMA PoolNext ==
  ASSUME LFFifoAssumption, OneEach, IInv, PoolInv, [Next]_vars
  PROVE  PoolInv'
<1>1. CASE UNCHANGED vars
  <2>1. Away' = Away
    BY <1>1 DEF vars, Away, HasCell
  <2> QED
    BY <1>1, <2>1 DEF vars, PoolInv, Roles, Alone, Stays, Fresh
<1>2. CASE Next
  BY <1>2, PoolKeeps DEF Next, AnyStep
<1> QED
  BY <1>1, <1>2

\* With one thread that puts and one that gets, the FIFO is a pool: each call
\* takes effect at one instant, every cell put is taken once, and fifoget brings
\* nothing only when it has seen nothing in the list.
THEOREM Refinement == OneEach => (Spec => IsAPool)
<1> SUFFICES ASSUME OneEach PROVE Spec => IsAPool
  OBVIOUS
<1>1. Init => PoolInv
  BY PoolStarts
<1>2. IInv /\ PoolInv /\ [Next]_vars => PoolInv'
  BY LFFifoAssumption, PoolNext
<1>3. IInv /\ PoolInv => PoolIs
  BY LFFifoAssumption, LinkedIs DEF PoolInv, PoolIs
<1>4. Init /\ PoolIs => Pool!Init
  BY LFFifoAssumption, PoolInitially
<1>5. IInv /\ PoolInv /\ PoolIs /\ PoolIs' /\ [Next]_vars => [Pool!Next]_(Pool!vars)
  BY LFFifoAssumption, Simulates
<1> QED
  BY <1>1, <1>2, <1>3, <1>4, <1>5, Invariance, PTL DEF Spec, IsAPool, Pool!Spec

(***************************************************************************)
(* The command queue, which only its handler reads, whoever puts in it.    *)
(* The steps of its threads are those of the FIFO, so that IInv holds; the *)
(* rest says what the handler has seen of the head and of its link, which  *)
(* nobody else changes as long as a command is behind it.                  *)
(***************************************************************************)
Availing == {"avail_oc", "avail_head", "avail_link", "avail_tail", "avail_check", "avail_return"}

\* a is the command that the next fifoget takes.
IsFirst(a) == a \in Cells /\ \/ head = a /\ link[a] # End
                             \/ head = Dummy /\ link[Dummy] = a

\* The commands that have not been linked.
Unsent == {c \in Node : \E p \in Producers : c \in holds[p] \/ (HasCell(p) /\ cell[p] = c)}

\* The tail that anyone has read was linked once,
TailLinked == \A p \in Procs : pc[p] = "put_link" => lptr[p] \notin Unsent

\* so that nothing is linked behind a command that is not yet in the list.
Single == \A p \in Producers : pc[p] \in Linking => link[cell[p]] = End

\* The handler is where the head cannot have moved since it read its counter.
Watched ==
  pc[Thread] \in {"get_ic", "get_head", "get_next", "get_check", "get_tail", "get_cas",
                  "avail_head", "avail_link", "avail_tail", "avail_check", "avail_return"}
    => loc[Thread] = oc

AvailSees ==
  /\ pc[Thread] \in {"avail_link", "avail_tail", "avail_check", "avail_return"} =>
        lptr[Thread] = head
  /\ pc[Thread] = "avail_tail" => lnext[Thread] \in {End, link[head]}
  /\ pc[Thread] \in {"avail_check", "avail_return"} =>
        cell[Thread] \in {NULL, End} \/ IsFirst(cell[Thread])

\* The command that fifoavail returned is what fifoget takes: either at once, or
\* after the dummy, once this one is behind it.
GetSees ==
  avail \in Cells =>
    /\ pc[Thread] \in {"idle", "get_oc", "get_ic", "get_head", "get_next", "get_check",
                       "get_tail", "get_help", "get_cas"} => IsFirst(avail)
    /\ pc[Thread] \in {"get_check", "get_tail"} => lnext[Thread] # End
    /\ pc[Thread] = "get_dec" => cell[Thread] = avail \/ (cell[Thread] = Dummy /\ head = avail)
    /\ pc[Thread] \in Putting => head = avail
    /\ pc[Thread] \in {"put_swing", "put_inc"} => link[head] # End
    /\ pc[Thread] = "return" => cell[Thread] = avail

\* The calls of mskGetCommand, and what was freed.
Fits == /\ pc[Thread] \in Availing => call = "avail"
        /\ place = "copy" => avail \in Cells \cup {End}
        /\ call = "avail" /\ place # "copy" => avail = NULL
        /\ dropped \subseteq holds[Thread]

Senders == Roles /\ TailLinked /\ Single
Sight == Watched /\ AvailSees /\ GetSees
QueueInv == Senders /\ Sight /\ Fits /\ QueueTypeOK /\ SameCommand /\ OnceOnly

\* The head and what is behind it are in the list.
LEMMA HeadLink ==
  ASSUME LFFifoAssumption, IInv
  PROVE  /\ head \in Node /\ head \notin Away
         /\ head # tail => link[head] # End
         /\ link[head] # End => /\ link[head] \in Node /\ link[head] # head
                                /\ \A p \in Procs : link[head] \notin holds[p]
<1>1. PICK F, N, B : Shape(F, N) /\ Ordered(F, N, B) /\ Tallied(F, N)
  BY DEF IInv
<1>2. TypeOK /\ head \in Node /\ head \notin Away
  BY Unique DEF IInv, TypeOK, Node
<1>3. N[<<>>] \in Nat /\ N[<<>>] >= 1 /\ F[<<>>][1] = head /\ InStrand(F, N, <<>>, head) /\ <<>> \in Place
  <2>1. N[<<>>] \in Nat /\ N[<<>>] >= 1 /\ F[<<>>][1] = head
    BY <1>1, Strands DEF Shape, Anchored
  <2>2. 1 \in 1..N[<<>>]
    BY <2>1
  <2> QED
    BY <2>1, <2>2, Places DEF InStrand
<1>4. ASSUME head # tail PROVE link[head] # End
  <2>1. PICK i \in 1..N[<<>>] : F[<<>>][i] = tail
    BY <1>1 DEF Shape, Anchored, InStrand
  <2>2. i # 1
    BY <1>3, <1>4, <2>1
  <2>3. 1 \in 1..N[<<>>] - 1 /\ 1 + 1 \in 1..N[<<>>]
    BY <1>3, <2>2
  <2>4. link[F[<<>>][1]] = F[<<>>][1 + 1]
    BY <1>1, <1>3, <2>3 DEF Shape, Threaded
  <2>5. F[<<>>][1 + 1] \in Node
    BY <1>1, <1>3, <2>3, Strands
  <2> QED
    BY <1>3, <2>4, <2>5 DEF LFFifoAssumption, Node
<1>5. ASSUME link[head] # End
      PROVE  /\ link[head] \in Node /\ link[head] # head
             /\ \A p \in Procs : link[head] \notin holds[p]
  <2>1. InStrand(F, N, <<>>, link[head]) /\ link[head] \in Node /\ link[head] # head
    BY <1>1, <1>3, <1>5, NextInList
  <2> QED
    BY <1>1, <1>3, <2>1 DEF Shape, Somewhere
<1> QED
  BY <1>2, <1>4, <1>5

\* The command that is first is in nobody's hands.
LEMMA FirstListed ==
  ASSUME LFFifoAssumption, IInv, NEW a, IsFirst(a)
  PROVE  /\ link[head] # End /\ a # Dummy /\ a # NULL /\ a # End
         /\ \A p \in Procs : a \notin holds[p]
<1>1. a \in Cells /\ a # Dummy /\ a # NULL /\ a # End /\ a \in Node
  BY DEF IsFirst, LFFifoAssumption, Node
<1>2. link[head] # End
  BY <1>1 DEF IsFirst
<1>3. CASE head = a
  BY <1>1, <1>2, <1>3, HeadLink DEF Away
<1>4. CASE head = Dummy /\ link[Dummy] = a
  BY <1>1, <1>2, <1>4, HeadLink
<1> QED
  BY <1>1, <1>2, <1>3, <1>4 DEF IsFirst

\* A step of the queue in the FIFO.
Moves(p) == Step(p) \/ fifoget(p) \/ fifoavail(p) \/ \E c \in Cells : fifoput(p, c)

\* What is behind the head stays there until the head moves.
LEMMA HeadLinkStays ==
  ASSUME LFFifoAssumption, IInv, NEW p \in Procs, Moves(p), link[head] # End
  PROVE  link'[head] = link[head]
<1>1. TypeOK /\ CellHeld(p) /\ head \in Node /\ head \notin Away
  BY HeadLink DEF IInv, Locals
<1>2. CASE link' = link
  BY <1>2
<1>3. CASE PutEnd(p) /\ link' = [link EXCEPT ![cell[p]] = End]
  <2>1. pc[p] = "put_end"
    BY <1>3 DEF PutEnd
  <2>2. cell[p] \in Node /\ cell[p] # NULL
    BY <1>1, <2>1 DEF CellHeld, Node, LFFifoAssumption
  <2>3. cell[p] \in Away
    BY <2>1, <2>2 DEF Away, HasCell, Carrying
  <2> QED
    BY <1>1, <1>3, <2>3 DEF TypeOK, Node
<1>4. CASE PutLink(p) /\ link[lptr[p]] = End /\ link' = [link EXCEPT ![lptr[p]] = cell[p]]
  BY <1>1, <1>4 DEF TypeOK, Node
<1>5. AnyStep(p)
  BY DEF AnyStep, Moves
<1>6. ASSUME NEW c \in Cells, NEW q \in Producers, Recycle(p, q, c),
             link' = [link EXCEPT ![c] = NULL]
      PROVE  link'[head] = link[head]
  <2>1. c \in Away
    BY <1>6 DEF Recycle, Away, Node
  <2> QED
    BY <1>1, <1>6, <2>1 DEF TypeOK, Node
<1> QED
  BY <1>2, <1>3, <1>4, <1>5, <1>6, LinkMoves

LEMMA HoldsMoves ==
  ASSUME TypeOK, NEW p \in Procs, Moves(p)
  PROVE  /\ \A q \in Procs \ {p} : holds'[q] = holds[q]
         /\ \/ holds' = holds
            \/ \E c \in Cells : fifoput(p, c)
            \/ Return(p)
<1>1. CASE \/ PutEnd(p) \/ PutIc(p) \/ PutTail(p) \/ PutLink(p) \/ PutNext(p) \/ PutHelp(p)
           \/ PutSwing(p) \/ PutInc(p) \/ GetOc(p) \/ GetIc(p) \/ GetHead(p) \/ GetNext(p)
           \/ GetCheck(p) \/ GetTail(p) \/ GetHelp(p) \/ GetCAS(p) \/ GetDec(p)
           \/ AvailOc(p) \/ AvailHead(p) \/ AvailLink(p) \/ AvailTail(p) \/ AvailCheck(p)
           \/ fifoget(p) \/ fifoavail(p)
  <2>1. holds' = holds
    BY <1>1 DEF PutEnd, PutIc, PutTail, PutLink, PutNext, PutHelp, PutSwing, PutInc, GetOc,
       GetIc, GetHead, GetNext, GetCheck, GetTail, GetHelp, GetCAS, GetDec, AvailOc, AvailHead,
       AvailLink, AvailTail, AvailCheck, fifoget, fifoavail
  <2> QED
    BY <2>1
<1>2. CASE Return(p)
  BY <1>2 DEF TypeOK, Return
<1>3. CASE \E c \in Cells : fifoput(p, c)
  BY <1>3 DEF TypeOK, fifoput
<1> QED
  BY <1>1, <1>2, <1>3 DEF Moves, Step

\* What has not been linked is with its sender, or in its fifoput.
LEMMA UnsentKept ==
  ASSUME LFFifoAssumption, TypeOK, Roles, OneReader, NEW p \in Procs, CellHeld(p), Moves(p)
  PROVE  Unsent' \subseteq Unsent
<1>0. Mine(p) /\ \A q \in Procs \ {p} : holds'[q] = holds[q]
  BY StepsMine, HoldsMoves DEF Moves
<1> DEFINE Has(q, c) == c \in holds[q] \/ (HasCell(q) /\ cell[q] = c)
<1>1. ASSUME NEW q \in Producers, q # p, NEW c, Has(q, c)' PROVE Has(q, c)
  BY <1>0, <1>1 DEF Mine, HasCell, Procs
<1>2. ASSUME p \in Producers, NEW c, Has(p, c)' PROVE Has(p, c)
  <2>1. pc[p] \notin Getting /\ ~ fifoget(p) /\ ~ fifoavail(p)
    BY <1>2 DEF Roles, OneReader, fifoget, fifoavail
  <2>2. pc[p] \in Linking \cup {"put_end", "put_swing", "put_inc"} => cell[p] # NULL
    BY DEF CellHeld, Node, LFFifoAssumption
  <2>3. CASE PutEnd(p) \/ PutIc(p) \/ PutTail(p) \/ PutNext(p) \/ PutHelp(p)
    <3>1. cell' = cell /\ holds' = holds /\ pc[p] \in Linking \cup {"put_end"}
      BY <2>3 DEF PutEnd, PutIc, PutTail, PutNext, PutHelp, Linking
    <3>2. HasCell(p)
      BY <2>2, <3>1 DEF HasCell, Carrying
    <3> QED
      BY <1>2, <3>1, <3>2
  <2>4. CASE PutLink(p)
    <3>1. cell' = cell /\ holds' = holds /\ pc[p] \in Linking
      BY <2>4 DEF PutLink, Linking
    <3>2. HasCell(p)
      BY <3>1 DEF HasCell
    <3> QED
      BY <1>2, <3>1, <3>2
  <2>5. CASE PutSwing(p) \/ PutInc(p)
    <3>1. /\ holds' = holds
          /\ pc'[p] = "put_inc" \/ cell'[p] = NULL
          /\ pc'[p] \in {"put_inc", "get_oc", "return"}
      BY <2>5 DEF PutSwing, PutInc, Goto, TypeOK
    <3>2. ~ HasCell(p)'
      BY <3>1 DEF HasCell, Linking, Carrying
    <3> QED
      BY <1>2, <3>1, <3>2
  <2>6. CASE AvailOc(p) \/ AvailHead(p) \/ AvailLink(p) \/ AvailTail(p) \/ AvailCheck(p)
    <3>1. holds' = holds /\ pc'[p] \in Availing
      BY <2>6 DEF AvailOc, AvailHead, AvailLink, AvailTail, AvailCheck, Goto, TypeOK, Availing
    <3>2. ~ HasCell(p)'
      BY <3>1 DEF HasCell, Linking, Carrying, Availing
    <3> QED
      BY <1>2, <3>1, <3>2
  <2>7. CASE Return(p)
    <3>1. /\ pc'[p] = "idle"
          /\ holds'[p] = IF pc[p] = "return" THEN holds[p] \cup ({cell[p]} \ {NULL}) ELSE holds[p]
      BY <2>7 DEF Return, Goto, TypeOK
    <3>2. ~ HasCell(p)'
      BY <3>1 DEF HasCell, Linking, Carrying
    <3> QED
      BY <1>2, <3>1, <3>2 DEF HasCell, Carrying
  <2>8. ASSUME NEW d \in Cells, fifoput(p, d) PROVE Has(p, c)
    <3>1. d \in holds[p] /\ holds'[p] = holds[p] \ {d} /\ cell'[p] = d
      BY <2>8 DEF fifoput, TypeOK
    <3> QED
      BY <1>2, <3>1
  <2>9. ~ (GetOc(p) \/ GetIc(p) \/ GetHead(p) \/ GetNext(p) \/ GetCheck(p) \/ GetTail(p)
           \/ GetHelp(p) \/ GetCAS(p) \/ GetDec(p))
    BY <2>1 DEF GetOc, GetIc, GetHead, GetNext, GetCheck, GetTail, GetHelp, GetCAS, GetDec, Getting
  <2> HIDE DEF Has
  <2> QED
    BY <2>1, <2>3, <2>4, <2>5, <2>6, <2>7, <2>8, <2>9 DEF Moves, Step
<1>3. ASSUME NEW c \in Unsent' PROVE c \in Unsent
  <2>1. c \in Node
    BY DEF Unsent
  <2>2. PICK q \in Producers : Has(q, c)'
    BY DEF Unsent
  <2>3. Has(q, c)
    <3> HIDE DEF Has
    <3> QED
      BY <1>1, <1>2, <2>2
  <2> QED
    BY <2>1, <2>3 DEF Unsent
<1> QED
  BY <1>3

LEMMA UnsentAway == Unsent \subseteq Away
BY DEF Unsent, Away, Procs

LEMMA SendersKept ==
  ASSUME LFFifoAssumption, IInv, Senders, OneReader, NEW p \in Procs, Moves(p)
  PROVE  Senders'
<1>0. AnyStep(p)
  BY DEF AnyStep, Moves
<1>1. TypeOK /\ Mine(p) /\ \A q \in Procs : CellHeld(q)
  BY <1>0, StepsMine DEF IInv, Locals, AnyStep
<1>2. Roles'
  BY <1>0, RolesKept DEF Senders
<1>3. Unsent' \subseteq Unsent
  BY <1>1, UnsentKept DEF Senders
<1>4. ASSUME NEW q \in Procs, pc'[q] = "put_link" PROVE lptr'[q] \notin Unsent'
  <2>1. CASE q = p /\ PutTail(p)
    <3>1. lptr'[p] = tail
      BY <1>1, <2>1 DEF PutTail, TypeOK
    <3>2. tail \notin Unsent
      BY Unique, UnsentAway
    <3> QED
      BY <1>3, <2>1, <3>1, <3>2
  <2>2. CASE ~ (q = p /\ PutTail(p))
    <3>1. pc[q] = "put_link" /\ lptr'[q] = lptr[q]
      BY <1>0, <1>1, <1>4, <2>2, Arrives DEF Mine
    <3> QED
      BY <1>3, <3>1 DEF Senders, TailLinked
  <2> QED
    BY <2>1, <2>2
<1>5. ASSUME NEW q \in Producers, pc'[q] \in Linking PROVE link'[cell'[q]] = End
  <2>0. q \in Procs
    BY DEF Procs
  <2>1. CASE q = p /\ PutEnd(p)
    <3>1. pc[p] = "put_end" /\ cell' = cell /\ link' = [link EXCEPT ![cell[p]] = End]
      BY <2>1 DEF PutEnd
    <3>2. cell[p] \in Cells \cup {Dummy}
      BY <1>1, <3>1 DEF CellHeld, Node
    <3> QED
      BY <1>1, <2>1, <3>1, <3>2 DEF TypeOK
  <2>2. CASE ~ (q = p /\ PutEnd(p))
    <3>1. pc[q] \in Linking /\ cell'[q] = cell[q]
      BY <1>0, <1>1, <1>5, <2>0, <2>2, Arrives DEF Mine
    <3>2. link[cell[q]] = End /\ cell[q] \in Node
      BY <1>1, <2>0, <3>1 DEF Senders, Single, CellHeld
    <3>3. cell[q] \in Unsent
      BY <3>1, <3>2 DEF HasCell, Unsent
    <3>4. CASE link' = link
      BY <3>1, <3>2, <3>4
    <3>5. CASE link' = [link EXCEPT ![cell[p]] = End]
      BY <1>1, <3>1, <3>2, <3>5 DEF TypeOK, Node
    <3>6. CASE PutLink(p) /\ link' = [link EXCEPT ![lptr[p]] = cell[p]]
      <4>1. pc[p] = "put_link"
        BY <3>6 DEF PutLink
      <4>2. lptr[p] # cell[q]
        BY <3>3, <4>1 DEF Senders, TailLinked
      <4> QED
        BY <1>1, <3>1, <3>2, <3>6, <4>2 DEF TypeOK, Node
    <3>7. ASSUME NEW c \in Cells, NEW r \in Producers, Recycle(p, r, c),
                 link' = [link EXCEPT ![c] = NULL]
          PROVE  link'[cell'[q]] = End
      <4>1. c # cell[q]
        BY <2>0, <3>1, <3>7, Unique DEF Recycle, HasCell
      <4> QED
        BY <1>1, <3>1, <3>2, <3>7, <4>1 DEF TypeOK, Node
    <3> QED
      BY <1>0, <3>4, <3>5, <3>6, <3>7, LinkMoves
  <2> QED
    BY <2>1, <2>2
<1> QED
  BY <1>2, <1>4, <1>5 DEF Senders, TailLinked, Single

\* Who puts the dummy back links it to the last cell of the list.
LEMMA DummyLast ==
  ASSUME LFFifoAssumption, IInv, Senders, OneReader, pc[Thread] = "put_link",
         link[lptr[Thread]] = End
  PROVE  lptr[Thread] = head \/ link[head] # End
<1>0. /\ Thread \in Procs /\ \A q \in Procs : q = Thread \/ q \in Producers
      /\ CellHeld(Thread) /\ End \notin Node
  BY DEF OneReader, Procs, IInv, Locals, LFFifoAssumption, Node
<1>1. PICK F, N, B : Shape(F, N) /\ Ordered(F, N, B) /\ Tallied(F, N)
  BY DEF IInv
<1>2. lptr[Thread] \in Node
  BY <1>0 DEF CellHeld
<1>3. PICK y \in Place : /\ N[y] >= 1 /\ F[y][N[y]] = lptr[Thread]
                         /\ \A q \in Procs : y = <<q>> => pc[q] \in Linking
  BY <1>1, <1>2, WhereEnd
<1>4. N[y] \in Nat
  BY <1>1, Strands
<1>5. CASE y = <<>>
  <2>1. F[y][1] = head
    BY <1>1, <1>5 DEF Shape, Anchored
  <2>2. CASE N[y] = 1
    BY <1>3, <2>1, <2>2
  <2>3. CASE N[y] # 1
    <3>1. 1 \in 1..N[y] - 1 /\ 1 + 1 \in 1..N[y]
      BY <1>3, <1>4, <2>3
    <3>2. link[F[y][1]] = F[y][1 + 1]
      BY <1>1, <3>1 DEF Shape, Threaded
    <3>3. F[y][1 + 1] \in Node
      BY <1>1, <3>1, Strands
    <3> QED
      BY <1>0, <2>1, <3>2, <3>3
  <2> QED
    BY <2>2, <2>3
<1>6. ASSUME NEW q \in Procs, y = <<q>> PROVE FALSE
  <2>1. pc[q] \in Linking
    BY <1>3, <1>6
  <2>2. q # Thread
    <3>1. N[y] \in 1..N[y]
      BY <1>3, <1>4
    <3>2. InStrand(F, N, <<q>>, lptr[Thread])
      BY <1>3, <1>6, <3>1 DEF InStrand
    <3> QED
      BY <1>0, <1>1, <3>2 DEF Ordered
  <2>3. q \in Producers /\ link[cell[q]] = End /\ HasCell(q)
    BY <1>0, <2>1, <2>2 DEF Senders, Single, HasCell
  <2>4. F[y][1] = cell[q]
    BY <1>1, <1>6, <2>3 DEF Shape, Anchored
  <2>5. N[y] = 1
    <3> SUFFICES ASSUME N[y] # 1 PROVE FALSE
      OBVIOUS
    <3>1. 1 \in 1..N[y] - 1 /\ 1 + 1 \in 1..N[y]
      BY <1>3, <1>4
    <3>2. link[F[y][1]] = F[y][1 + 1]
      BY <1>1, <3>1 DEF Shape, Threaded
    <3>3. F[y][1 + 1] \in Node
      BY <1>1, <3>1, Strands
    <3> QED
      BY <1>0, <2>3, <2>4, <3>2, <3>3
  <2>6. lptr[Thread] = cell[q]
    BY <1>3, <2>4, <2>5
  <2>7. lptr[Thread] \in Unsent
    BY <1>2, <2>3, <2>6 DEF Unsent
  <2> QED
    BY <1>0, <2>7 DEF Senders, TailLinked
<1> QED
  BY <1>5, <1>6, Places

LEMMA FirstStays ==
  ASSUME LFFifoAssumption, IInv, NEW p \in Procs, Moves(p), head' = head, NEW a, IsFirst(a)
  PROVE  IsFirst(a)'
<1>1. link[head] # End
  BY FirstListed
<1>2. link'[head] = link[head]
  BY <1>1, HeadLinkStays
<1> QED
  BY <1>1, <1>2 DEF IsFirst

LEMMA HeadMoves ==
  ASSUME NEW p \in Procs, Moves(p), ~ GetCAS(p)
  PROVE  head' = head /\ oc' = oc
BY DEF Moves, Step, PutEnd, PutIc, PutTail, PutLink, PutNext, PutHelp, PutSwing, PutInc, GetOc,
   GetIc, GetHead, GetNext, GetCheck, GetTail, GetHelp, GetDec,
   AvailOc, AvailHead, AvailLink, AvailTail, AvailCheck, Return, fifoget, fifoavail, fifoput

\* Senders do not disturb what the handler has seen.
LEMMA SendersUnseen ==
  ASSUME LFFifoAssumption, IInv, Roles, OneReader, Sight,
         NEW p \in Producers, Moves(p), avail' = avail
  PROVE  Sight'
<1>0. p \in Procs /\ Thread \in Procs \ {p} /\ TypeOK /\ Mine(p)
  BY StepsMine DEF Procs, OneReader, IInv, Moves
<1>1. head' = head /\ oc' = oc
  <2>1. ~ GetCAS(p)
    BY <1>0 DEF Roles, OneReader, GetCAS, Getting
  <2> QED
    BY <1>0, <2>1, HeadMoves
<1>2. /\ pc'[Thread] = pc[Thread] /\ cell'[Thread] = cell[Thread] /\ lptr'[Thread] = lptr[Thread]
      /\ lnext'[Thread] = lnext[Thread] /\ loc'[Thread] = loc[Thread]
  BY <1>0 DEF Mine
<1>3. \A a : IsFirst(a) => IsFirst(a)'
  BY <1>0, <1>1, FirstStays
<1>4. link[head] # End => link'[head] = link[head]
  BY <1>0, HeadLinkStays
<1>5. Watched'
  BY <1>1, <1>2 DEF Sight, Watched
<1>6. AvailSees'
  <2>1. pc[Thread] = "avail_tail" => lnext[Thread] \in {End, link'[head]}
    BY <1>4 DEF Sight, AvailSees
  <2> QED
    BY <1>1, <1>2, <1>3, <2>1 DEF Sight, AvailSees
<1>7. GetSees'
  BY <1>1, <1>2, <1>3, <1>4 DEF Sight, GetSees
<1> QED
  BY <1>5, <1>6, <1>7 DEF Sight

\* Steps of the handler.
LEMMA AvailReads ==
  ASSUME LFFifoAssumption, IInv, OneReader, Sight, avail' = avail,
         \/ AvailOc(Thread) \/ AvailHead(Thread) \/ AvailLink(Thread) \/ AvailTail(Thread)
         \/ AvailCheck(Thread)
  PROVE  Sight'
<1>0. Thread \in Procs /\ TypeOK /\ End \notin Node /\ NULL \notin Node
  BY DEF Procs, OneReader, IInv, LFFifoAssumption, Node
<1>1. /\ head \in Node /\ (head # tail => link[head] # End)
      /\ link[head] # End => link[head] \in Node /\ link[head] # head
  BY HeadLink
<1>2. head' = head /\ oc' = oc /\ link' = link
  BY DEF AvailOc, AvailHead, AvailLink, AvailTail, AvailCheck
<1>3. pc'[Thread] \in Availing
  BY <1>0 DEF TypeOK, Goto, AvailOc, AvailHead, AvailLink, AvailTail, AvailCheck, Availing
<1>4. GetSees'
  BY <1>3 DEF GetSees, Availing, Putting, Linking
<1>5. Watched'
  BY <1>0, <1>2 DEF Sight, Watched, TypeOK, Goto, AvailOc, AvailHead, AvailLink, AvailTail, AvailCheck
<1>6. AvailSees'
  <2>1. CASE AvailOc(Thread) \/ AvailHead(Thread) \/ AvailLink(Thread)
    BY <1>0, <1>2, <2>1 DEF Sight, AvailSees, TypeOK, Goto, AvailOc, AvailHead, AvailLink
  <2>2. CASE AvailTail(Thread)
    <3>1. /\ lptr[Thread] = head /\ lnext[Thread] \in {End, link[head]}
          /\ lptr' = lptr /\ pc'[Thread] = "avail_check"
          /\ cell'[Thread] = AvailValue(head, lnext[Thread], tail)
      BY <1>0, <2>2 DEF Sight, AvailSees, TypeOK, Goto, AvailTail
    <3>2. cell'[Thread] \in {NULL, End} \/ IsFirst(cell'[Thread])
      <4>1. CASE head = tail
        BY <3>1, <4>1 DEF AvailValue
      <4>2. CASE head # tail /\ head # Dummy
        <5>1. cell'[Thread] = head /\ head \in Cells /\ link[head] # End
          BY <1>1, <3>1, <4>2 DEF AvailValue, Node
        <5> QED
          BY <5>1 DEF IsFirst
      <4>3. CASE head # tail /\ head = Dummy
        <5>1. cell'[Thread] = lnext[Thread]
          BY <3>1, <4>3 DEF AvailValue
        <5>2. link[Dummy] \in Cells
          BY <1>1, <4>3 DEF Node
        <5> QED
          BY <3>1, <4>3, <5>1, <5>2 DEF IsFirst
      <4> QED
        BY <4>1, <4>2, <4>3
    <3>3. IsFirst(cell'[Thread]) => IsFirst(cell[Thread])'
      BY <1>2 DEF IsFirst
    <3> QED
      BY <1>2, <3>1, <3>2, <3>3 DEF AvailSees
  <2>3. CASE AvailCheck(Thread)
    <3>1. /\ lptr[Thread] = head /\ lptr' = lptr
          /\ pc'[Thread] \in {"avail_oc", "avail_return"}
          /\ cell'[Thread] \in {NULL, cell[Thread]}
          /\ cell[Thread] \in {NULL, End} \/ IsFirst(cell[Thread])
      BY <1>0, <2>3 DEF Sight, AvailSees, TypeOK, Goto, AvailCheck
    <3>2. IsFirst(cell'[Thread]) => IsFirst(cell[Thread])'
      BY <1>2 DEF IsFirst
    <3> QED
      BY <1>2, <3>1, <3>2 DEF AvailSees
  <2> QED
    BY <2>1, <2>2, <2>3
<1> QED
  BY <1>4, <1>5, <1>6 DEF Sight

LEMMA GetReads ==
  ASSUME LFFifoAssumption, IInv, OneReader, Sight, avail' = avail,
         \/ GetOc(Thread) \/ GetIc(Thread) \/ GetHead(Thread) \/ GetNext(Thread)
         \/ GetCheck(Thread) \/ GetTail(Thread) \/ GetHelp(Thread)
  PROVE  Sight'
<1>0. Thread \in Procs /\ TypeOK /\ CellHeld(Thread) /\ HeadSeen(Thread)
  BY DEF Procs, OneReader, IInv, Locals
<1>1. head' = head /\ oc' = oc /\ link' = link
  BY DEF GetOc, GetIc, GetHead, GetNext, GetCheck, GetTail, GetHelp
<1>2. /\ pc[Thread] \in {"get_oc", "get_ic", "get_head", "get_next", "get_check", "get_tail",
                         "get_help"}
      /\ pc'[Thread] \in {"get_oc", "get_ic", "get_head", "get_next", "get_check", "get_tail",
                          "get_help", "get_cas", "return"}
  BY <1>0 DEF TypeOK, Goto, GetOc, GetIc, GetHead, GetNext, GetCheck, GetTail, GetHelp
<1>3. Watched'
  BY <1>0, <1>1 DEF Sight, Watched, TypeOK, Goto, GetOc, GetIc, GetHead, GetNext, GetCheck,
     GetTail, GetHelp
<1>4. AvailSees'
  BY <1>2 DEF AvailSees
<1>5. ASSUME avail \in Cells
      PROVE  /\ IsFirst(avail)'
             /\ pc'[Thread] \in {"get_check", "get_tail"} => lnext'[Thread] # End
             /\ pc'[Thread] # "return"
  <2>1. IsFirst(avail) /\ (pc[Thread] \in {"get_check", "get_tail"} => lnext[Thread] # End)
    BY <1>2, <1>5 DEF Sight, GetSees
  <2>2. IsFirst(avail)' /\ link[head] # End
    BY <1>1, <2>1, FirstListed DEF IsFirst
  <2>3. CASE GetNext(Thread)
    <3>1. lptr[Thread] = head
      BY <1>0, <2>3 DEF Sight, Watched, HeadSeen, GetNext
    <3> QED
      BY <1>0, <2>2, <2>3, <3>1 DEF GetNext, TypeOK, Goto
  <2>4. CASE GetCheck(Thread) \/ GetTail(Thread)
    BY <1>0, <2>1, <2>2, <2>4 DEF GetCheck, GetTail, TypeOK, Goto
  <2>5. CASE GetOc(Thread) \/ GetIc(Thread) \/ GetHead(Thread) \/ GetHelp(Thread)
    BY <1>0, <2>2, <2>5 DEF GetOc, GetIc, GetHead, GetHelp, TypeOK, Goto
  <2> QED
    BY <2>3, <2>4, <2>5
<1>6. GetSees'
  BY <1>2, <1>5 DEF GetSees, Putting, Linking
<1> QED
  BY <1>3, <1>4, <1>6 DEF Sight

LEMMA GetTakes ==
  ASSUME LFFifoAssumption, IInv, OneReader, Sight, avail' = avail,
         GetCAS(Thread) \/ GetDec(Thread)
  PROVE  Sight'
<1>0. Thread \in Procs /\ TypeOK /\ HeadSeen(Thread)
  BY DEF Procs, OneReader, IInv, Locals
<1>1. CASE GetCAS(Thread)
  <2>1. /\ pc[Thread] = "get_cas" /\ loc[Thread] = oc /\ lptr[Thread] = head
        /\ lnext[Thread] = link[head]
    BY <1>0, <1>1 DEF Sight, Watched, HeadSeen, GetCAS
  <2>2. pc'[Thread] = "get_dec" /\ head' = link[head] /\ cell'[Thread] = head
    BY <1>0, <1>1, <2>1 DEF GetCAS, HeadUnmoved, TypeOK, Goto
  <2>3. ASSUME avail \in Cells PROVE cell'[Thread] = avail \/ (cell'[Thread] = Dummy /\ head' = avail)
    <3>1. IsFirst(avail)
      BY <2>1, <2>3 DEF Sight, GetSees
    <3> QED
      BY <2>2, <3>1 DEF IsFirst
  <2> QED
    BY <2>2, <2>3 DEF Sight, Watched, AvailSees, GetSees, Putting, Linking
<1>2. CASE GetDec(Thread)
  <2>1. /\ pc[Thread] = "get_dec" /\ head' = head /\ cell' = cell
        /\ pc'[Thread] = IF cell[Thread] = Dummy THEN "put_end" ELSE "return"
    BY <1>0, <1>2 DEF GetDec, TypeOK, Goto
  <2>2. avail \in Cells => /\ avail # Dummy
                           /\ cell[Thread] = avail \/ (cell[Thread] = Dummy /\ head = avail)
    BY <2>1 DEF Sight, GetSees, LFFifoAssumption
  <2>3. pc'[Thread] \in {"put_end", "return"}
    BY <2>1
  <2>4. GetSees'
    BY <2>1, <2>2, <2>3 DEF GetSees, Putting, Linking
  <2> QED
    BY <2>3, <2>4 DEF Sight, Watched, AvailSees
<1> QED
  BY <1>1, <1>2

LEMMA PutsBack ==
  ASSUME LFFifoAssumption, IInv, Senders, OneReader, Sight, avail' = avail,
         \/ PutEnd(Thread) \/ PutIc(Thread) \/ PutTail(Thread) \/ PutLink(Thread)
         \/ PutNext(Thread) \/ PutHelp(Thread) \/ PutSwing(Thread) \/ PutInc(Thread)
  PROVE  Sight'
<1>0. Thread \in Procs /\ TypeOK /\ CellHeld(Thread) /\ End \notin Node
  BY DEF Procs, OneReader, IInv, Locals, LFFifoAssumption, Node
<1>1. pc[Thread] \in Putting
  BY DEF PutEnd, PutIc, PutTail, PutLink, PutNext, PutHelp, PutSwing, PutInc, Putting, Linking
<1>2. cell[Thread] = Dummy
  BY <1>0, <1>1 DEF Senders, Roles, OneReader
<1>3. pc'[Thread] \in Putting \cup {"get_oc"} /\ head' = head
  BY <1>0, <1>2 DEF TypeOK, Goto, PutEnd, PutIc, PutTail, PutLink, PutNext, PutHelp, PutSwing, PutInc,
     Putting, Linking
<1>4. Moves(Thread)
  BY DEF Moves, Step
<1>5. link[head] # End => link'[head] # End
  BY <1>0, <1>4, HeadLinkStays
<1>6. ASSUME avail \in Cells
      PROVE  /\ head = avail
             /\ pc'[Thread] \in {"put_swing", "put_inc", "get_oc"} => link'[head] # End
  <2>1. head = avail /\ (pc[Thread] \in {"put_swing", "put_inc"} => link[head] # End)
    BY <1>1, <1>6 DEF Sight, GetSees
  <2>2. CASE PutLink(Thread)
    <3>1. pc[Thread] = "put_link"
      BY <2>2 DEF PutLink
    <3>2. CASE link[lptr[Thread]] = End
      <4>1. link' = [link EXCEPT ![lptr[Thread]] = Dummy]
        BY <1>2, <2>2, <3>2 DEF PutLink
      <4>2. lptr[Thread] = head \/ link[head] # End
        BY <3>1, <3>2, DummyLast
      <4>3. head \in Cells \cup {Dummy} /\ Dummy # End
        BY <1>0 DEF TypeOK, LFFifoAssumption
      <4> QED
        BY <1>0, <1>5, <2>1, <4>1, <4>2, <4>3 DEF TypeOK
    <3>3. CASE link[lptr[Thread]] # End
      <4>1. pc'[Thread] = "put_next"
        BY <1>0, <2>2, <3>3 DEF PutLink, TypeOK, Goto
      <4> QED
        BY <2>1, <4>1
    <3> QED
      BY <3>2, <3>3
  <2>3. CASE PutSwing(Thread) \/ PutInc(Thread)
    <3>1. pc[Thread] \in {"put_swing", "put_inc"}
      BY <2>3 DEF PutSwing, PutInc
    <3> QED
      BY <1>5, <2>1, <3>1
  <2>4. CASE PutEnd(Thread) \/ PutIc(Thread) \/ PutTail(Thread) \/ PutNext(Thread) \/ PutHelp(Thread)
    BY <1>0, <2>1, <2>4 DEF TypeOK, Goto, PutEnd, PutIc, PutTail, PutNext, PutHelp
  <2> QED
    BY <2>2, <2>3, <2>4
<1>7. GetSees'
  <2> SUFFICES ASSUME avail \in Cells
               PROVE  /\ pc'[Thread] = "get_oc" => IsFirst(avail)'
                      /\ pc'[Thread] \in Putting => head' = avail
                      /\ pc'[Thread] \in {"put_swing", "put_inc"} => link'[head'] # End
    BY <1>3 DEF GetSees, Putting, Linking
  <2> QED
    BY <1>3, <1>6 DEF IsFirst
<1>8. Watched' /\ AvailSees'
  BY <1>3 DEF Watched, AvailSees, Putting, Linking
<1> QED
  BY <1>7, <1>8 DEF Sight

\* The calls begin, and return.
LEMMA CallBegins ==
  ASSUME LFFifoAssumption, TypeOK, OneReader, Sight, avail' = avail,
         fifoget(Thread) \/ (fifoavail(Thread) /\ avail = NULL)
  PROVE  Sight'
<1>0. Thread \in Procs /\ NULL \notin Cells
  BY DEF Procs, OneReader, LFFifoAssumption
<1>1. CASE fifoget(Thread)
  <2>1. pc[Thread] = "idle" /\ pc'[Thread] = "get_oc" /\ head' = head /\ link' = link
    BY <1>0, <1>1 DEF fifoget, TypeOK, Goto
  <2> QED
    BY <2>1 DEF Sight, Watched, AvailSees, GetSees, IsFirst, Putting, Linking
<1>2. CASE fifoavail(Thread) /\ avail = NULL
  <2>1. pc'[Thread] = "avail_oc"
    BY <1>0, <1>2 DEF fifoavail, TypeOK, Goto
  <2> QED
    BY <1>0, <1>2, <2>1 DEF Sight, Watched, AvailSees, GetSees
<1> QED
  BY <1>1, <1>2

LEMMA AvailSeen ==
  ASSUME LFFifoAssumption, TypeOK, OneReader, Sight, pc[Thread] = "avail_return",
         Return(Thread), avail' = cell[Thread]
  PROVE  Sight' /\ avail' \in Cells \cup {NULL, End}
<1>0. Thread \in Procs /\ NULL \notin Cells /\ End \notin Cells
  BY DEF Procs, OneReader, LFFifoAssumption
<1>1. cell[Thread] \in {NULL, End} \/ IsFirst(cell[Thread])
  BY DEF Sight, AvailSees
<1>2. pc'[Thread] = "idle" /\ head' = head /\ link' = link
  BY <1>0 DEF Return, TypeOK, Goto
<1>3. avail' \in Cells => IsFirst(avail)'
  BY <1>0, <1>1, <1>2 DEF IsFirst
<1>4. GetSees'
  BY <1>2, <1>3 DEF GetSees, Putting, Linking
<1>5. Watched' /\ AvailSees'
  BY <1>2 DEF Watched, AvailSees
<1> QED
  BY <1>1, <1>4, <1>5 DEF Sight, IsFirst

\* The steps of the queue are steps of the FIFO.
LEMMA QueueSteps ==
  ASSUME OneReader, QueueNext
  PROVE  [Next]_vars
<1>0. Thread \in Procs /\ \A s \in Producers : s \in Procs
  BY DEF OneReader, Procs
<1>1. CASE \/ MidiGetCommand \/ Size \/ Clear \/ Wake \/ Interrupted \/ Copy
           \/ \E s \in Producers : WakeTest(s) \/ WakeSet(s)
           \/ \E c \in Cells : Forget(c)
  BY <1>1 DEF MidiGetCommand, Size, Clear, Wake, Interrupted, Copy, WakeTest, WakeSet, Forget, vars
<1>2. CASE Call \/ Run \/ MSAvailCommand \/ MSGetCommand
  <2>1. fifoavail(Thread) \/ fifoget(Thread) \/ Step(Thread)
    BY <1>2 DEF Call, Run, MSAvailCommand, MSGetCommand, Step
  <2> QED
    BY <1>0, <2>1 DEF Next
<1>3. ASSUME NEW s \in Producers, Put(s) PROVE Next
  <2>1. Step(s)
    BY <1>3 DEF Put
  <2> QED
    BY <1>0, <2>1 DEF Next
<1>4. ASSUME NEW s \in Producers, NEW c \in Cells, Command(s, c) PROVE Next
  <2>1. fifoput(s, c)
    BY <1>4 DEF Command
  <2> QED
    BY <1>0, <2>1 DEF Next
<1> QED
  BY <1>1, <1>2, <1>3, <1>4 DEF QueueNext, Handler, Sender

Book == Fits /\ QueueTypeOK /\ SameCommand /\ OnceOnly

\* What is not the handler's leaves its books as they are.
LEMMA BookKept ==
  ASSUME Book, UNCHANGED <<reader, delivered, dropped, signals>>,
         pc'[Thread] = pc[Thread], cell'[Thread] = cell[Thread], holds'[Thread] = holds[Thread],
         dead \subseteq dead', dead' \subseteq Cells, wakeFlag' \in BOOLEAN,
         waking' \in [Producers -> {"rest", "test", "set"}]
  PROVE  Book'
<1>1. /\ place' = place /\ call' = call /\ avail' = avail /\ cells' = cells
      /\ delivered' = delivered /\ dropped' = dropped /\ signals' = signals
  BY DEF reader
<1>2. QueueTypeOK'
  BY <1>1 DEF Book, QueueTypeOK
<1>3. Fits'
  BY <1>1 DEF Book, Fits
<1>4. SameCommand'
  BY <1>1 DEF Book, SameCommand, Copied
<1>5. OnceOnly'
  BY <1>1 DEF Book, OnceOnly, Copied
<1> QED
  BY <1>2, <1>3, <1>4, <1>5 DEF Book

LEMMA SendersBook ==
  ASSUME LFFifoAssumption, OneReader, IInv, QueueInv, NEW s \in Producers,
         Put(s) \/ WakeTest(s) \/ WakeSet(s) \/ \E c \in Cells : Command(s, c)
  PROVE  QueueInv'
<1>0. Thread \in Procs \ {s} /\ s \in Procs /\ TypeOK /\ Book
  BY DEF OneReader, Procs, IInv, QueueInv, Book
<1>1. CASE Put(s) \/ \E c \in Cells : Command(s, c)
  <2>1. Moves(s) /\ avail' = avail
    BY <1>1 DEF Put, Command, Moves, reader
  <2>2. Mine(s) /\ holds'[Thread] = holds[Thread]
    BY <1>0, <2>1, StepsMine, HoldsMoves DEF Moves
  <2>3. Senders' /\ Sight'
    BY <1>0, <2>1, SendersKept, SendersUnseen DEF QueueInv, Senders
  <2>4. /\ UNCHANGED <<reader, delivered, dropped, signals>>
        /\ dead' = dead /\ wakeFlag' = wakeFlag
    BY <1>1 DEF Put, Command, record
  <2>5. waking' \in [Producers -> {"rest", "test", "set"}]
    BY <1>0, <1>1 DEF Put, Command, Book, QueueTypeOK
  <2>6. pc'[Thread] = pc[Thread] /\ cell'[Thread] = cell[Thread]
    BY <1>0, <2>2 DEF Mine
  <2>7. dead' \subseteq Cells /\ dead \subseteq dead' /\ wakeFlag' \in BOOLEAN
    BY <1>0, <2>4 DEF Book, QueueTypeOK
  <2>8. Book'
    BY <1>0, <2>2, <2>4, <2>5, <2>6, <2>7, BookKept
  <2> QED
    BY <2>3, <2>8 DEF QueueInv, Book
<1>2. CASE WakeTest(s) \/ WakeSet(s)
  <2>1. /\ UNCHANGED <<reader, delivered, dropped, signals>> /\ UNCHANGED vars
        /\ dead' = dead /\ wakeFlag' \in BOOLEAN
        /\ waking' \in [Producers -> {"rest", "test", "set"}]
    BY <1>0, <1>2 DEF WakeTest, WakeSet, record, Book, QueueTypeOK
  <2>2. dead' \subseteq Cells /\ dead \subseteq dead'
    BY <1>0, <2>1 DEF Book, QueueTypeOK
  <2>3. Book'
    BY <1>0, <2>1, <2>2, BookKept DEF vars
  <2>4. Senders' /\ Sight'
    BY <2>1 DEF vars, reader, QueueInv, Senders, Sight, Roles, TailLinked, Single, Unsent, HasCell,
       Watched, AvailSees, GetSees, IsFirst
  <2> QED
    BY <2>3, <2>4 DEF QueueInv, Book
<1> QED
  BY <1>1, <1>2

LEMMA ForgetBook ==
  ASSUME QueueInv, NEW c \in Cells, Forget(c)
  PROVE  QueueInv'
<1>1. /\ UNCHANGED <<reader, delivered, dropped, signals>> /\ UNCHANGED vars
      /\ dead' = dead \cup {c} /\ wakeFlag' = wakeFlag /\ waking' = waking
  BY DEF Forget
<1>2. Book /\ dead' \subseteq Cells /\ dead \subseteq dead' /\ wakeFlag' \in BOOLEAN
      /\ waking' \in [Producers -> {"rest", "test", "set"}]
  BY <1>1 DEF QueueInv, Book, QueueTypeOK
<1>3. Book'
  BY <1>1, <1>2, BookKept DEF vars
<1>4. Senders' /\ Sight'
  BY <1>1 DEF vars, reader, QueueInv, Senders, Sight, Roles, TailLinked, Single, Unsent, HasCell,
     Watched, AvailSees, GetSees, IsFirst
<1> QED
  BY <1>3, <1>4 DEF QueueInv, Book

\* The handler outside the FIFO: what it does there changes no cell.
LEMMA OutsideSight ==
  ASSUME LFFifoAssumption, QueueInv, UNCHANGED vars, avail' \in {avail, NULL}
  PROVE  Senders' /\ Sight'
<1>1. NULL \notin Cells
  BY DEF LFFifoAssumption
<1>2. Senders'
  BY DEF vars, QueueInv, Senders, Roles, TailLinked, Single, Unsent, HasCell
<1>3. Watched' /\ AvailSees'
  BY DEF vars, QueueInv, Sight, Watched, AvailSees, IsFirst
<1>4. GetSees'
  BY <1>1 DEF vars, QueueInv, Sight, GetSees, IsFirst
<1> QED
  BY <1>2, <1>3, <1>4 DEF Sight

LEMMA SleepBook ==
  ASSUME LFFifoAssumption, CommandQueueAssumption, QueueInv,
         MidiGetCommand \/ Size \/ Clear \/ Wake \/ Interrupted
  PROVE  QueueInv'
<1>1. UNCHANGED vars /\ UNCHANGED <<call, avail, cells, waking, dead, delivered, dropped>>
  BY DEF MidiGetCommand, Size, Clear, Wake, Interrupted, record
<1>2. /\ place \in {"user", "size", "clear", "wait"}
      /\ place' \in {"size", "clear", "wait", "fifo"}
  BY DEF MidiGetCommand, Size, Clear, Wake, Interrupted
<1>6. wakeFlag' \in BOOLEAN /\ signals' \in 0..Interrupts
  <2>1. wakeFlag \in BOOLEAN /\ signals \in 0..Interrupts /\ Interrupts \in Nat
    BY DEF QueueInv, QueueTypeOK, CommandQueueAssumption
  <2>2. wakeFlag' \in BOOLEAN
    BY <2>1 DEF MidiGetCommand, Size, Clear, Wake, Interrupted
  <2>3. signals' = signals \/ (signals < Interrupts /\ signals' = signals + 1)
    BY DEF MidiGetCommand, Size, Clear, Wake, Interrupted
  <2>4. signals' \in 0..Interrupts
    BY <2>1, <2>3
  <2> QED
    BY <2>2, <2>4
<1>3. Senders' /\ Sight'
  BY <1>1, OutsideSight
<1>4. QueueTypeOK'
  BY <1>1, <1>2, <1>6 DEF vars, QueueInv, QueueTypeOK
<1>5. Fits' /\ SameCommand' /\ OnceOnly'
  BY <1>1, <1>2 DEF vars, QueueInv, Fits, SameCommand, OnceOnly, Copied
<1> QED
  BY <1>3, <1>4, <1>5 DEF QueueInv

\* The handler in the FIFO.
LEMMA CallBook ==
  ASSUME LFFifoAssumption, OneReader, IInv, QueueInv, Call
  PROVE  QueueInv'
<1>0. Thread \in Procs /\ TypeOK
  BY DEF OneReader, Procs, IInv
<1>1. place = "fifo" /\ place' = "calling"
      /\ UNCHANGED <<wakeFlag, call, avail, cells, waking, dead, delivered, dropped, signals>>
  BY DEF Call, record
<1>2. (call = "avail" /\ fifoavail(Thread)) \/ (call # "avail" /\ fifoget(Thread))
  BY DEF Call
<1>3. /\ holds' = holds
      /\ pc'[Thread] = IF call = "avail" THEN "avail_oc" ELSE "get_oc"
  BY <1>0, <1>2 DEF fifoavail, fifoget, TypeOK, Goto
<1>4. call = "avail" => avail = NULL
  BY <1>1 DEF QueueInv, Fits
<1>5. Senders' /\ Sight'
  <2>1. Moves(Thread)
    BY <1>2 DEF Moves
  <2>2. Sight'
    BY <1>0, <1>1, <1>2, <1>4, CallBegins DEF QueueInv
  <2> QED
    BY <1>0, <2>1, <2>2, SendersKept DEF QueueInv
<1>6. pc'[Thread] \notin {"idle", "return"} /\ (pc'[Thread] \in Availing => call = "avail")
  BY <1>3 DEF Availing
<1>7. QueueTypeOK'
  BY <1>1, <1>6 DEF QueueInv, QueueTypeOK
<1>8. Fits' /\ SameCommand' /\ OnceOnly'
  BY <1>1, <1>3, <1>4, <1>6 DEF QueueInv, Fits, SameCommand, OnceOnly, Copied
<1> QED
  BY <1>5, <1>7, <1>8 DEF QueueInv

LEMMA Running ==
  ASSUME TypeOK, NEW p \in Procs, Step(p), pc[p] \notin {"return", "avail_return"}
  PROVE  /\ pc'[p] # "idle" /\ holds' = holds
         /\ pc'[p] \in Availing => pc[p] \in Availing
         /\ ~ Return(p)
<1>1. ~ Return(p)
  BY DEF Return
<1>2. holds' = holds
  BY <1>1 DEF Step, PutEnd, PutIc, PutTail, PutLink, PutNext, PutHelp, PutSwing, PutInc, GetOc,
     GetIc, GetHead, GetNext, GetCheck, GetTail, GetHelp, GetCAS, GetDec, AvailOc, AvailHead,
     AvailLink, AvailTail, AvailCheck
<1>3. CASE \/ PutEnd(p) \/ PutIc(p) \/ PutTail(p) \/ PutLink(p) \/ PutNext(p) \/ PutHelp(p)
           \/ PutSwing(p) \/ PutInc(p)
  <2>1. pc'[p] \in Putting \cup {"get_oc", "return"}
    BY <1>3 DEF TypeOK, Goto, PutEnd, PutIc, PutTail, PutLink, PutNext, PutHelp, PutSwing, PutInc,
       Putting, Linking
  <2> QED
    BY <1>1, <1>2, <2>1 DEF Putting, Linking, Availing
<1>4. CASE \/ GetOc(p) \/ GetIc(p) \/ GetHead(p) \/ GetNext(p) \/ GetCheck(p) \/ GetTail(p)
           \/ GetHelp(p) \/ GetCAS(p) \/ GetDec(p)
  <2>1. pc'[p] \in Getting \cup {"put_end", "return"}
    BY <1>4 DEF TypeOK, Goto, GetOc, GetIc, GetHead, GetNext, GetCheck, GetTail, GetHelp, GetCAS,
       GetDec, Getting
  <2> QED
    BY <1>1, <1>2, <2>1 DEF Getting, Availing
<1>5. CASE AvailOc(p) \/ AvailHead(p) \/ AvailLink(p) \/ AvailTail(p) \/ AvailCheck(p)
  <2>1. pc'[p] \in Availing /\ pc[p] \in Availing
    BY <1>5 DEF TypeOK, Goto, AvailOc, AvailHead, AvailLink, AvailTail, AvailCheck, Availing
  <2> QED
    BY <1>1, <1>2, <2>1 DEF Availing
<1> QED
  BY <1>1, <1>3, <1>4, <1>5 DEF Step

LEMMA RunBook ==
  ASSUME LFFifoAssumption, OneReader, IInv, QueueInv, Run
  PROVE  QueueInv'
<1>0. Thread \in Procs /\ TypeOK
  BY DEF OneReader, Procs, IInv
<1>1. /\ place = "calling" /\ Step(Thread) /\ pc[Thread] \notin {"return", "avail_return"}
      /\ UNCHANGED <<wakeFlag, place, call, avail, cells, waking, dead, delivered, dropped, signals>>
  BY DEF Run, reader, record
<1>2. /\ pc'[Thread] # "idle" /\ holds' = holds /\ ~ Return(Thread)
      /\ pc'[Thread] \in Availing => pc[Thread] \in Availing
  BY <1>0, <1>1, Running
<1>3. Sight'
  BY <1>1, <1>2, AvailReads, GetReads, GetTakes, PutsBack DEF Step, QueueInv
<1>4. Senders'
  BY <1>0, <1>1, SendersKept DEF Moves, QueueInv
<1>5. QueueTypeOK'
  BY <1>1, <1>2 DEF QueueInv, QueueTypeOK
<1>6. pc'[Thread] = "return" /\ avail' \in Cells => cell'[Thread] = avail'
  BY <1>3 DEF Sight, GetSees
<1>7. Fits' /\ SameCommand' /\ OnceOnly'
  BY <1>1, <1>2, <1>6 DEF QueueInv, Fits, SameCommand, OnceOnly, Copied
<1> QED
  BY <1>3, <1>4, <1>5, <1>7 DEF QueueInv

\* MSAvailCommand returns: what it has seen is in nobody's hands.
LEMMA AvailBook ==
  ASSUME LFFifoAssumption, OneReader, IInv, QueueInv, MSAvailCommand
  PROVE  QueueInv'
<1>0. Thread \in Procs /\ TypeOK /\ NULL \notin Cells /\ End # NULL
  BY DEF OneReader, Procs, IInv, LFFifoAssumption
<1>1. /\ pc[Thread] = "avail_return" /\ Return(Thread) /\ avail' = cell[Thread]
      /\ Looked(avail')
      /\ UNCHANGED <<wakeFlag, cells, waking, dead, delivered, dropped, signals>>
  BY DEF MSAvailCommand, record
<1>2. Sight' /\ avail' \in Cells \cup {NULL, End}
  BY <1>0, <1>1, AvailSeen DEF QueueInv
<1>3. Senders'
  BY <1>0, <1>1, SendersKept DEF Moves, Step, QueueInv
<1>4. pc'[Thread] = "idle" /\ holds' = holds
  BY <1>0, <1>1 DEF Return, TypeOK, Goto
<1>5. call = "avail"
  BY <1>1 DEF QueueInv, Fits, Availing
<1>6. /\ place' \in {"size", "copy"} /\ call' \in {"avail", "drop", "get"}
      /\ place' = "copy" <=> call' = "avail"
      /\ place' = "copy" => avail' # NULL
      /\ call' = "drop" => avail' \in dead \cup {End}
      /\ call' = "get" => avail' = NULL
  BY <1>1 DEF Looked, Kinds
<1>7. QueueTypeOK'
  BY <1>1, <1>2, <1>4, <1>6 DEF QueueInv, QueueTypeOK
<1>8. Fits' /\ SameCommand'
  BY <1>0, <1>1, <1>2, <1>4, <1>6 DEF QueueInv, Fits, SameCommand, Copied, Availing
<1>9. OnceOnly'
  BY <1>1, <1>4, <1>5 DEF QueueInv, OnceOnly, Copied
<1> QED
  BY <1>2, <1>3, <1>7, <1>8, <1>9 DEF QueueInv

\* MSGetCommand returns: the command is the one that was looked at.
LEMMA GetBook ==
  ASSUME LFFifoAssumption, OneReader, IInv, QueueInv, MSGetCommand
  PROVE  QueueInv'
<1>0. Thread \in Procs /\ TypeOK /\ NULL \notin Cells /\ CellHeld(Thread)
  BY DEF OneReader, Procs, IInv, Locals, LFFifoAssumption
<1>1. /\ pc[Thread] = "return" /\ Return(Thread)
      /\ dropped' = dropped \cup ({cell[Thread]} \ (Copied \cup {NULL}))
      /\ call' = "avail" /\ avail' = NULL /\ place' \in {"size", "user"}
      /\ cells' \in {cells, 1}
      /\ UNCHANGED <<wakeFlag, waking, dead, delivered, signals>>
  BY DEF MSGetCommand, Removed
<1>2. cell[Thread] \in Cells \cup {NULL}
  BY <1>0, <1>1 DEF CellHeld
<1>3. /\ pc'[Thread] = "idle"
      /\ holds'[Thread] = holds[Thread] \cup ({cell[Thread]} \ {NULL})
  BY <1>0, <1>1 DEF Return, TypeOK, Goto
<1>4. Senders'
  BY <1>0, <1>1, SendersKept DEF Moves, Step, QueueInv
<1>5. Sight'
  BY <1>0, <1>1, <1>3 DEF Sight, Watched, AvailSees, GetSees
<1>6. QueueTypeOK'
  BY <1>1, <1>2, <1>3 DEF QueueInv, QueueTypeOK
<1>7. Fits' /\ SameCommand'
  BY <1>0, <1>1, <1>3 DEF QueueInv, Fits, SameCommand, Copied, Availing
<1>8. OnceOnly'
  <2>1. Copied' = Copied
    BY <1>1 DEF Copied
  <2>2. ASSUME NEW c \in Copied PROVE c \in holds'[Thread]
    <3>1. CASE c \in holds[Thread]
      BY <1>3, <3>1
    <3>2. CASE avail = c /\ call = "get"
      <4>1. c \in Cells
        BY <2>2 DEF Copied, QueueInv, QueueTypeOK
      <4>2. cell[Thread] = c /\ c # NULL
        BY <1>0, <1>1, <3>2, <4>1 DEF QueueInv, SameCommand
      <4> QED
        BY <1>3, <4>2
    <3> QED
      BY <2>2, <3>1, <3>2 DEF QueueInv, OnceOnly
  <2>3. Copied \cap dropped' = {}
    BY <1>1 DEF QueueInv, OnceOnly
  <2> QED
    BY <1>1, <2>1, <2>2, <2>3 DEF QueueInv, OnceOnly
<1> QED
  BY <1>4, <1>5, <1>6, <1>7, <1>8 DEF QueueInv

\* mskGetEvAux: a command is copied once, for it is still in the list.
LEMMA CopyBook ==
  ASSUME LFFifoAssumption, OneReader, IInv, QueueInv, Copy
  PROVE  QueueInv'
<1>0. NULL \notin Cells /\ End \notin Cells
  BY DEF LFFifoAssumption
<1>1. place = "copy" /\ UNCHANGED vars /\ UNCHANGED <<wakeFlag, waking, signals>>
  BY DEF Copy
<1>2. /\ call = "avail" /\ avail \in Cells \cup {End} /\ pc[Thread] = "idle"
      /\ cells \in 1..2
  BY <1>1 DEF QueueInv, QueueTypeOK, Fits
<1>3. avail \in Cells => avail \notin holds[Thread]
  <2>1. Thread \in Procs
    BY DEF OneReader, Procs
  <2> QED
    BY <1>2, <2>1, FirstListed DEF QueueInv, Sight, GetSees
<1> DEFINE Died == /\ avail \in dead \cup {End}
                   /\ place' = "size" /\ call' = "get" /\ avail' = avail /\ cells' = cells
                   /\ delivered' = delivered /\ dropped' = dropped /\ dead' = dead
           Missed == /\ place' \in {"size", "user"} /\ cells' \in 1..2
                     /\ avail' = NULL /\ call' = call
                     /\ delivered' = delivered /\ dropped' = dropped /\ dead' = dead
           Went == /\ place' = "size" /\ call' = "get" /\ avail' = avail /\ cells' = cells
                   /\ delivered' = IF avail = End THEN delivered ELSE Append(delivered, avail)
                   /\ dropped' = dropped /\ dead' = dead
<1>4. Died \/ Missed \/ Went
  <2>1. PICK kind \in Kinds(avail) :
         \/ /\ kind = "dead"
            /\ place' = "size" /\ call' = "get"
            /\ UNCHANGED <<avail, cells, record>>
         \/ /\ kind = "large" /\ ~ HasCells(kind)
            /\ \/ place' = "size" /\ cells' = cells + 1
               \/ place' = "user" /\ cells' = 1
            /\ avail' = NULL
            /\ UNCHANGED <<call, record>>
         \/ /\ HasCells(kind)
            /\ delivered' = IF avail = End THEN delivered ELSE Append(delivered, avail)
            /\ place' = "size" /\ call' = "get"
            /\ UNCHANGED <<avail, cells, dead, dropped>>
    BY DEF Copy
  <2>2. CASE kind = "dead" /\ UNCHANGED <<avail, cells, record>> /\ place' = "size" /\ call' = "get"
    <3>1. avail \in dead \cup {End}
      BY <2>1, <2>2 DEF Kinds
    <3> QED
      BY <2>2, <3>1 DEF record
  <2>3. CASE /\ kind = "large" /\ ~ HasCells(kind)
             /\ \/ place' = "size" /\ cells' = cells + 1
                \/ place' = "user" /\ cells' = 1
             /\ avail' = NULL /\ UNCHANGED <<call, record>>
    <3>1. cells = 1
      BY <1>2, <2>3 DEF HasCells
    <3>2. cells' \in 1..2
      BY <2>3, <3>1
    <3> QED
      BY <2>3, <3>2 DEF record
  <2>4. CASE /\ delivered' = IF avail = End THEN delivered ELSE Append(delivered, avail)
             /\ place' = "size" /\ call' = "get" /\ UNCHANGED <<avail, cells, dead, dropped>>
    BY <2>4
  <2> QED
    BY <2>1, <2>2, <2>3, <2>4
<1>5. avail' \in {avail, NULL} /\ place' \in {"size", "user"}
  BY <1>4
<1>6. Senders' /\ Sight'
  BY <1>1, <1>5, OutsideSight
<1>7. CASE Died
  <2>1. Copied' = Copied
    BY <1>7 DEF Copied
  <2>2. QueueTypeOK'
    BY <1>1, <1>2, <1>7 DEF vars, QueueInv, QueueTypeOK
  <2>3. Fits' /\ SameCommand'
    BY <1>0, <1>1, <1>2, <1>7, <2>1 DEF vars, QueueInv, Fits, SameCommand, Availing
  <2>4. OnceOnly'
    BY <1>1, <1>2, <1>7, <2>1 DEF vars, QueueInv, OnceOnly
  <2> QED
    BY <1>6, <2>2, <2>3, <2>4 DEF QueueInv
<1>8. CASE Missed
  <2>1. Copied' = Copied
    BY <1>8 DEF Copied
  <2>2. QueueTypeOK'
    BY <1>1, <1>2, <1>8 DEF vars, QueueInv, QueueTypeOK
  <2>3. Fits' /\ SameCommand'
    BY <1>0, <1>1, <1>2, <1>8, <2>1 DEF vars, QueueInv, Fits, SameCommand, Availing
  <2>4. OnceOnly'
    BY <1>1, <1>2, <1>8, <2>1 DEF vars, QueueInv, OnceOnly
  <2> QED
    BY <1>6, <2>2, <2>3, <2>4 DEF QueueInv
<1>9. CASE Went
  <2>0. delivered \in Seq(Cells) /\ Len(delivered) \in Nat
    BY DEF QueueInv, QueueTypeOK
  <2>1. CASE avail = End
    <3>1. delivered' = delivered /\ Copied' = Copied
      BY <1>9, <2>1 DEF Copied
    <3>2. QueueTypeOK'
      BY <1>1, <1>2, <1>9, <3>1 DEF vars, QueueInv, QueueTypeOK
    <3>3. Fits' /\ SameCommand'
      BY <1>0, <1>1, <1>2, <1>9, <2>1, <3>1 DEF vars, QueueInv, Fits, SameCommand, Availing
    <3>4. OnceOnly'
      BY <1>1, <1>2, <1>9, <3>1 DEF vars, QueueInv, OnceOnly
    <3> QED
      BY <1>6, <3>2, <3>3, <3>4 DEF QueueInv
  <2>2. CASE avail # End
    <3>1. delivered' = Append(delivered, avail) /\ avail \in Cells
      BY <1>2, <1>9, <2>2
    <3>2. /\ delivered' \in Seq(Cells) /\ Len(delivered') = Len(delivered) + 1
          /\ \A i \in 1..Len(delivered) : delivered'[i] = delivered[i]
          /\ delivered'[Len(delivered) + 1] = avail
      BY <2>0, <3>1
    <3>3. \A i \in 1..Len(delivered') : i \in 1..Len(delivered) \/ i = Len(delivered) + 1
      BY <2>0, <3>2
    <3>4. Copied' \subseteq Copied \cup {avail} /\ avail \in Copied'
      <4>1. Len(delivered) + 1 \in 1..Len(delivered')
        BY <2>0, <3>2
      <4> QED
        BY <3>2, <3>3, <4>1 DEF Copied
    <3>5. avail \notin Copied /\ avail \notin dropped
      BY <1>2, <1>3, <3>1 DEF QueueInv, OnceOnly, Fits
    <3>6. ASSUME NEW i \in 1..Len(delivered'), NEW j \in 1..Len(delivered'),
                 delivered'[i] = delivered'[j]
          PROVE  i = j
      <4>1. \A k \in 1..Len(delivered) : delivered[k] # avail
        BY <3>5 DEF Copied
      <4>2. \A k, l \in 1..Len(delivered) : delivered[k] = delivered[l] => k = l
        BY DEF QueueInv, OnceOnly
      <4> QED
        BY <3>2, <3>3, <3>6, <4>1, <4>2
    <3>7. QueueTypeOK'
      BY <1>1, <1>2, <1>9, <3>2 DEF vars, QueueInv, QueueTypeOK
    <3>8. Fits' /\ SameCommand'
      BY <1>0, <1>1, <1>2, <1>9, <3>1, <3>4 DEF vars, QueueInv, Fits, SameCommand, Availing
    <3>9. ASSUME NEW c \in Copied' PROVE c \in holds'[Thread] \/ (avail' = c /\ call' = "get")
      <4>1. CASE c = avail
        BY <1>9, <4>1
      <4>2. CASE c \in Copied
        BY <1>1, <1>2, <4>2 DEF vars, QueueInv, OnceOnly
      <4> QED
        BY <3>4, <3>9, <4>1, <4>2
    <3>10. Copied' \cap dropped' = {}
      BY <1>9, <3>4, <3>5 DEF QueueInv, OnceOnly
    <3>11. OnceOnly'
      BY <3>6, <3>9, <3>10 DEF OnceOnly
    <3> QED
      BY <1>6, <3>7, <3>8, <3>11 DEF QueueInv
  <2> QED
    BY <2>1, <2>2
<1> QED
  BY <1>4, <1>7, <1>8, <1>9

LEMMA QueueKeeps ==
  ASSUME LFFifoAssumption, CommandQueueAssumption, OneReader, IInv, QueueInv, [QueueNext]_queueVars
  PROVE  QueueInv'
<1>1. CASE Handler
  BY <1>1, SleepBook, CallBook, RunBook, AvailBook, CopyBook, GetBook DEF Handler
<1>2. CASE Interrupted
  BY <1>2, SleepBook
<1>3. CASE \E s \in Producers : Sender(s) \/ \E c \in Cells : Command(s, c)
  BY <1>3, SendersBook DEF Sender
<1>4. CASE \E c \in Cells : Forget(c)
  BY <1>4, ForgetBook
<1>5. CASE UNCHANGED queueVars
  <2>1. /\ UNCHANGED vars /\ UNCHANGED <<reader, delivered, dropped, signals>>
        /\ avail' = avail /\ dead' = dead /\ wakeFlag' = wakeFlag /\ waking' = waking
    BY <1>5 DEF queueVars, reader, record
  <2>2. Senders' /\ Sight'
    BY <2>1, OutsideSight
  <2>3. /\ Book /\ dead \subseteq dead' /\ dead' \subseteq Cells /\ wakeFlag' \in BOOLEAN
        /\ waking' \in [Producers -> {"rest", "test", "set"}]
    BY <2>1 DEF QueueInv, Book, QueueTypeOK
  <2>4. Book'
    BY <2>1, <2>3, BookKept DEF vars
  <2> QED
    BY <2>2, <2>4 DEF QueueInv, Book
<1> QED
  BY <1>1, <1>2, <1>3, <1>4, <1>5 DEF QueueNext

LEMMA QueueStarts ==
  ASSUME LFFifoAssumption, CommandQueueAssumption, OneReader, QueueInit
  PROVE  QueueInv
<1>1. /\ Init /\ wakeFlag = FALSE
      /\ place = "user" /\ call = "avail" /\ avail = NULL /\ cells = 1
      /\ waking = [s \in Producers |-> "rest"]
      /\ dead = {} /\ delivered = <<>> /\ dropped = {} /\ signals = 0
  BY DEF QueueInit
<1>2. Thread \in Procs /\ NULL \notin Cells /\ \A p \in Procs : pc[p] = "idle"
  BY <1>1 DEF OneReader, Procs, LFFifoAssumption, Init
<1>3. Senders
  BY <1>2 DEF Senders, Roles, TailLinked, Single, Putting, Getting, Linking, Procs
<1>4. Sight
  BY <1>1, <1>2 DEF Sight, Watched, AvailSees, GetSees
<1>5. QueueTypeOK
  <2>1. signals \in 0..Interrupts /\ cells \in 1..2
    BY <1>1 DEF CommandQueueAssumption
  <2>2. delivered \in Seq(Cells) /\ dead \subseteq Cells /\ dropped \subseteq Cells
    BY <1>1
  <2>3. waking \in [Producers -> {"rest", "test", "set"}]
    BY <1>1
  <2>4. wakeFlag \in BOOLEAN
    BY <1>1
  <2> QED
    BY <1>1, <1>2, <2>1, <2>2, <2>3, <2>4 DEF QueueTypeOK
<1>6. Copied = {}
  BY <1>1 DEF Copied
<1>7. Fits /\ SameCommand
  BY <1>1, <1>2 DEF Fits, SameCommand, Availing
<1>8. OnceOnly
  BY <1>1, <1>6 DEF OnceOnly
<1> QED
  BY <1>3, <1>4, <1>5, <1>7, <1>8 DEF QueueInv

\* The threads of the queue keep the invariant of the FIFO and that of the queue:
\* what fifoavail returned is what the next fifoget takes.
THEOREM QueueInvariance == OneReader => (QueueSpec => [](IInv /\ QueueInv))
<1> SUFFICES ASSUME OneReader PROVE QueueSpec => [](IInv /\ QueueInv)
  OBVIOUS
<1>1. QueueInit => IInv /\ QueueInv
  BY LFFifoAssumption, CommandQueueAssumption, Starts, QueueStarts DEF QueueInit
<1>2. IInv /\ QueueInv /\ [QueueNext]_queueVars => (IInv /\ QueueInv)'
  <2> SUFFICES ASSUME IInv, QueueInv, [QueueNext]_queueVars PROVE IInv' /\ QueueInv'
    OBVIOUS
  <2>1. [Next]_vars
    BY QueueSteps DEF queueVars
  <2> QED
    BY <2>1, LFFifoAssumption, CommandQueueAssumption, Keeps, QueueKeeps
<1> QED
  BY <1>1, <1>2, PTL DEF QueueSpec

\* Every variable of the queue has its type, and each call of mskGetCommand its
\* call of the FIFO.
THEOREM QueueTypeCorrect == OneReader => (QueueSpec => []QueueTypeOK)
<1>1. QueueInv => QueueTypeOK
  BY DEF QueueInv
<1> QED
  BY <1>1, QueueInvariance, PTL

\* The command that MSAvailCommand returned is the one that MSGetCommand takes,
\* however many senders put commands between the two.
THEOREM HandlerKeepsItsCommand == OneReader => (QueueSpec => []SameCommand)
<1>1. QueueInv => SameCommand
  BY DEF QueueInv
<1> QED
  BY <1>1, QueueInvariance, PTL

\* No command is executed twice, or executed and dropped.
THEOREM ExecutedOnce == OneReader => (QueueSpec => []OnceOnly)
<1>1. QueueInv => OnceOnly
  BY DEF QueueInv
<1> QED
  BY <1>1, QueueInvariance, PTL
=============================================================================
