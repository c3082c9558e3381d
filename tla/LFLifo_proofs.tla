---------------------------- MODULE LFLifo_proofs ----------------------------
(***************************************************************************)
(* Proofs about LFLifo, for any set of threads, any set of cells and any   *)
(* bound on the number of pops.                                            *)
(***************************************************************************)
EXTENDS LFLifo, SequenceTheorems, FiniteSetTheorems, TLAPS

(***************************************************************************)
(* The two changes lfpush and lfpop make to the list.                      *)
(***************************************************************************)
LEMMA PushSeq ==
  ASSUME NEW S, NEW s \in Seq(S), NEW c \in S, NEW t, t = <<c>> \o s
  PROVE  /\ t \in Seq(S)
         /\ Len(s) \in Nat
         /\ Len(t) = Len(s) + 1
         /\ t # <<>>
         /\ t[1] = c
         /\ \A i \in 2..Len(t) : t[i] = s[i - 1]
         /\ {t[i] : i \in 1..Len(t)} = {s[i] : i \in 1..Len(s)} \cup {c}
<1>1. <<c>> \in Seq(S) /\ Len(<<c>>) = 1 /\ <<c>>[1] = c
  OBVIOUS
<1>2. Len(s) \in Nat
  BY LenProperties
<1>3. /\ t \in Seq(S)
      /\ Len(t) = Len(s) + 1
      /\ \A i \in 1..Len(t) : t[i] = IF i = 1 THEN c ELSE s[i - 1]
  BY <1>1, <1>2, ConcatProperties
<1>4. \A i \in 1..Len(s) : i + 1 \in 1..Len(t) /\ t[i + 1] = s[i]
  BY <1>2, <1>3
<1>5. \A i \in 1..Len(t) : i = 1 \/ (i - 1 \in 1..Len(s) /\ t[i] = s[i - 1])
  BY <1>2, <1>3
<1>6. 1 \in 1..Len(t) /\ t[1] = c
  BY <1>2, <1>3
<1>7. {t[i] : i \in 1..Len(t)} \subseteq {s[i] : i \in 1..Len(s)} \cup {c}
  BY <1>5, <1>6
<1>8. {s[i] : i \in 1..Len(s)} \cup {c} \subseteq {t[i] : i \in 1..Len(t)}
  BY <1>4, <1>6
<1> QED
  BY <1>2, <1>3, <1>6, <1>7, <1>8, EmptySeq

LEMMA PopSeq ==
  ASSUME NEW S, NEW s \in Seq(S), s # <<>>, NEW t, t = Tail(s)
  PROVE  /\ t \in Seq(S)
         /\ Len(s) \in Nat \ {0}
         /\ Len(t) = Len(s) - 1
         /\ \A i \in 1..Len(t) : t[i] = s[i + 1]
BY HeadTailProperties, EmptySeq

(***************************************************************************)
(* The initial states satisfy the invariant.                               *)
(***************************************************************************)
LEMMA InitIInv == Init => IInv
<1> SUFFICES ASSUME Init PROVE IInv
  OBVIOUS
<1> PICK owner \in [Cells -> Procs] :
           holds = [p \in Procs |-> {c \in Cells : owner[c] = p}]
  BY DEF Init
<1>0. stack \in Seq(Cells) /\ Len(stack) = 0 /\ stack = <<>>
  BY DEF Init
<1>1. TypeOK
  BY <1>0 DEF Init, TypeOK, PcValues, Pushing, Popping
<1>2. Linked
  BY <1>0 DEF Init, Linked
<1>3. OneOwner
  BY <1>0, LFLifoAssumption DEF Init, OneOwner, InList
<1>4. Snapshot
  BY DEF Init, Snapshot
<1> QED
  BY <1>1, <1>2, <1>3, <1>4 DEF IInv

(***************************************************************************)
(* Steps that leave the list and the ownership of the cells alone.         *)
(***************************************************************************)
LEMMA QuietStep ==
  ASSUME IInv, UNCHANGED <<top, link, stack, cell, holds>>
  PROVE  Linked' /\ OneOwner' /\ InList' = InList
BY DEF IInv, Linked, OneOwner, InList

(***************************************************************************)
(* One lemma per action.                                                   *)
(***************************************************************************)
LEMMA UseStep ==
  ASSUME IInv, NEW p \in Procs, NEW c \in Cells, Use(p, c)
  PROVE  IInv'
<1> USE DEF IInv, Use
<1>1. TypeOK'
  BY DEF TypeOK
<1>2. \A d \in InList : link'[d] = link[d]
  BY DEF OneOwner, TypeOK, InList
<1>3. Linked'
  BY <1>2 DEF Linked, InList
<1>4. OneOwner'
  BY DEF OneOwner, InList
<1>5. \A q \in Procs : cell[q] # c /\ link'[cell[q]] = link[cell[q]]
  BY DEF OneOwner, TypeOK
<1>6. Snapshot'
  BY <1>2, <1>5 DEF Snapshot, InList
<1> QED
  BY <1>1, <1>3, <1>4, <1>6

LEMMA lfpushStep ==
  ASSUME IInv, NEW p \in Procs, NEW c \in Cells, lfpush(p, c)
  PROVE  IInv'
<1> USE DEF IInv, lfpush, Goto
<1>1. TypeOK'
  BY DEF TypeOK, PcValues, Pushing, Popping
<1>2. Linked'
  BY DEF Linked
<1>3. OneOwner'
  <2>1. /\ InList' = InList
        /\ \A q \in Procs : /\ holds'[q] = IF q = p THEN holds[p] \ {c} ELSE holds[q]
                            /\ cell'[q] = IF q = p THEN c ELSE cell[q]
    BY DEF InList, TypeOK
  <2>2. c \in Cells /\ c \in holds[p] /\ c \notin InList /\ cell[p] = NULL
    BY DEF OneOwner, TypeOK
  <2>3. \A q \in Procs : q # p => c \notin holds[q] /\ cell[q] # c
    BY <2>2 DEF OneOwner
  <2>4. \A d \in Cells : \/ d \in InList'
                         \/ \E q \in Procs : d \in holds'[q] \/ cell'[q] = d
    BY <2>1, <2>2, LFLifoAssumption DEF OneOwner
  <2> QED
    BY <2>1, <2>2, <2>3, <2>4 DEF OneOwner
<1>4. Snapshot'
  BY DEF Snapshot, InList, TypeOK
<1> QED
  BY <1>1, <1>2, <1>3, <1>4

LEMMA PushReadStep ==
  ASSUME IInv, NEW p \in Procs, PushRead(p)
  PROVE  IInv'
<1> USE DEF IInv, PushRead, Goto
<1>1. TypeOK'
  BY DEF TypeOK, PcValues, Pushing, Popping
<1>2. Snapshot'
  BY DEF Snapshot, InList, TypeOK
<1> QED
  BY <1>1, <1>2, QuietStep

LEMMA PushLinkStep ==
  ASSUME IInv, NEW p \in Procs, PushLink(p)
  PROVE  IInv'
<1> USE DEF IInv, PushLink, Goto
<1>0. /\ cell[p] \in Cells /\ cell[p] \notin InList
      /\ \A q \in Procs : q # p => cell[q] # cell[p]
  BY LFLifoAssumption DEF TypeOK, OneOwner, Pushing
<1>1. TypeOK'
  BY DEF TypeOK, PcValues, Pushing, Popping
<1>2. \A d \in InList : link'[d] = link[d]
  BY <1>0 DEF TypeOK
<1>3. Linked'
  BY <1>2 DEF Linked, InList
<1>4. OneOwner'
  BY DEF OneOwner, InList
<1>5. /\ \A q \in Procs : pc'[q] = "push_cas" => link'[cell'[q]] = ltop'[q]
      /\ UNCHANGED <<oc, loc, ltop, lnext>>
      /\ \A q \in Procs : pc'[q] \in {"pop_link", "pop_cas"} => pc[q] = pc'[q]
      /\ InList' = InList
  BY <1>0 DEF Snapshot, TypeOK, InList
<1>6. Snapshot'
  BY <1>2, <1>5 DEF Snapshot
<1> QED
  BY <1>1, <1>3, <1>4, <1>6

LEMMA PushCASStep ==
  ASSUME IInv, NEW p \in Procs, PushCAS(p)
  PROVE  IInv'
<1>0. TypeOK /\ Linked /\ OneOwner /\ Snapshot
  BY DEF IInv
<1>1. CASE top = ltop[p]
  <2>1. /\ pc[p] = "push_cas"
        /\ top' = cell[p]
        /\ stack' = <<cell[p]>> \o stack
        /\ cell' = [cell EXCEPT ![p] = NULL]
        /\ pc' = [pc EXCEPT ![p] = "push_inc"]
        /\ UNCHANGED <<oc, count, link, ltop, loc, lnext, holds>>
    BY <1>1 DEF PushCAS, Goto
  <2>2. cell[p] \in Cells /\ cell[p] \notin InList
    BY <1>0, <2>1 DEF TypeOK, OneOwner, Pushing
  <2>3. /\ stack' \in Seq(Cells)
        /\ Len(stack) \in Nat
        /\ Len(stack') = Len(stack) + 1
        /\ stack' # <<>>
        /\ stack'[1] = cell[p]
        /\ \A i \in 2..Len(stack') : stack'[i] = stack[i - 1]
        /\ InList' = InList \cup {cell[p]}
    <3> HIDE <1>0
    <3>1. stack \in Seq(Cells)
      BY <1>0 DEF TypeOK
    <3> QED
      BY <3>1, <2>1, <2>2, PushSeq DEF InList
  <2>4. TypeOK'
    BY <1>0, <2>1, <2>2, <2>3 DEF TypeOK, PcValues, Pushing, Popping
  <2>5. Linked'
    <3>1. top' = IF stack' = <<>> THEN NULL ELSE stack'[1]
      BY <2>1, <2>3
    <3>2. link[cell[p]] = top
      BY <1>0, <1>1, <2>1 DEF Snapshot
    <3>3. stack = <<>> <=> Len(stack) = 0
      BY <1>0, EmptySeq DEF TypeOK
    <3>4. ASSUME NEW i \in 1..Len(stack')
          PROVE  link'[stack'[i]] = IF i = Len(stack') THEN NULL ELSE stack'[i + 1]
      <4>1. CASE i = 1
        BY <4>1, <3>2, <3>3, <1>0, <2>1, <2>3 DEF Linked
      <4>2. CASE i # 1
        <5>1. i - 1 \in 1..Len(stack) /\ stack'[i] = stack[i - 1]
          BY <4>2, <2>3
        <5>2. i # Len(stack') => i + 1 \in 2..Len(stack') /\ stack'[i + 1] = stack[i]
          BY <4>2, <2>3
        <5> QED
          BY <5>1, <5>2, <1>0, <2>1, <2>3 DEF Linked
      <4> QED
        BY <4>1, <4>2
    <3> QED
      BY <3>1, <3>4 DEF Linked
  <2>6. OneOwner'
    <3>1. \A i, j \in 1..Len(stack') : stack'[i] = stack'[j] => i = j
      <4>1. \A i \in 2..Len(stack') : i - 1 \in 1..Len(stack) /\ stack'[i] \in InList
        BY <2>3 DEF InList
      <4> QED
        BY <4>1, <1>0, <2>2, <2>3, SMTT(30) DEF OneOwner
    <3>2. \A q \in Procs : cell'[q] = IF q = p THEN NULL ELSE cell[q]
      BY <1>0, <2>1 DEF TypeOK
    <3>3. NULL \notin InList' /\ \A q \in Procs : NULL \notin holds'[q]
      BY <1>0, <2>1, <2>3, LFLifoAssumption DEF TypeOK, InList
    <3>4. \A q \in Procs : cell[p] \notin holds[q] /\ (q # p => cell[q] # cell[p])
      BY <1>0, <2>2, LFLifoAssumption DEF OneOwner
    <3>5. \A d \in Cells : \/ d \in InList'
                           \/ \E q \in Procs : d \in holds'[q] \/ cell'[q] = d
      BY <1>0, <2>1, <2>3, <3>2 DEF OneOwner
    <3> QED
      BY <1>0, <2>1, <2>3, <3>1, <3>2, <3>3, <3>4, <3>5 DEF OneOwner
  <2>7. Snapshot'
    BY <1>0, <2>1, <2>3 DEF Snapshot, TypeOK
  <2> QED
    BY <2>4, <2>5, <2>6, <2>7 DEF IInv
<1>2. CASE top # ltop[p]
  <2>1. /\ pc' = [pc EXCEPT ![p] = "push_read"]
        /\ UNCHANGED <<top, stack, cell, oc, count, link, ltop, loc, lnext, holds>>
    BY <1>2 DEF PushCAS, Goto
  <2>2. pc[p] = "push_cas"
    BY DEF PushCAS
  <2>3. TypeOK'
    BY <1>0, <2>1, <2>2 DEF TypeOK, PcValues, Pushing, Popping
  <2>4. Snapshot'
    BY <1>0, <2>1 DEF Snapshot, InList, TypeOK
  <2> QED
    BY <2>1, <2>3, <2>4, QuietStep DEF IInv
<1> QED
  BY <1>1, <1>2

LEMMA PushIncStep ==
  ASSUME IInv, NEW p \in Procs, PushInc(p)
  PROVE  IInv'
<1> USE DEF IInv, PushInc, Goto
<1>1. TypeOK'
  BY DEF TypeOK, PcValues, Pushing, Popping
<1>2. Snapshot'
  BY DEF Snapshot, InList, TypeOK
<1> QED
  BY <1>1, <1>2, QuietStep

LEMMA lfpopStep ==
  ASSUME IInv, NEW p \in Procs, lfpop(p)
  PROVE  IInv'
<1> USE DEF IInv, lfpop, Goto
<1>1. TypeOK'
  BY DEF TypeOK, PcValues, Pushing, Popping
<1>2. cell' = cell
  BY DEF TypeOK
<1>3. Snapshot'
  BY <1>2 DEF Snapshot, InList, TypeOK
<1> QED
  BY <1>1, <1>2, <1>3, QuietStep

LEMMA PopOcStep ==
  ASSUME IInv, NEW p \in Procs, PopOc(p)
  PROVE  IInv'
<1> USE DEF IInv, PopOc, Goto
<1>1. TypeOK'
  BY DEF TypeOK, PcValues, Pushing, Popping
<1>2. Snapshot'
  BY DEF Snapshot, InList, TypeOK
<1> QED
  BY <1>1, <1>2, QuietStep

LEMMA PopTopStep ==
  ASSUME IInv, NEW p \in Procs, PopTop(p)
  PROVE  IInv'
<1> USE DEF IInv, PopTop, Goto
<1>1. TypeOK'
  BY DEF TypeOK, PcValues, Pushing, Popping
<1>2. top # NULL => top \in InList
  <2>1. top # NULL => 1 \in 1..Len(stack) /\ top = stack[1]
    BY EmptySeq, LenProperties DEF Linked, TypeOK
  <2> QED
    BY <2>1 DEF InList
<1>3. InList' = InList
  BY DEF InList
<1>4. Snapshot'
  BY <1>2, <1>3 DEF Snapshot, TypeOK
<1> QED
  BY <1>1, <1>4, QuietStep

LEMMA PopLinkStep ==
  ASSUME IInv, NEW p \in Procs, PopLink(p)
  PROVE  IInv'
<1> USE DEF IInv, PopLink, Goto
<1>1. TypeOK'
  BY DEF TypeOK, PcValues, Pushing, Popping
<1>2. Snapshot'
  BY DEF Snapshot, InList, TypeOK
<1> QED
  BY <1>1, <1>2, QuietStep

LEMMA PopDecStep ==
  ASSUME IInv, NEW p \in Procs, PopDec(p)
  PROVE  IInv'
<1> USE DEF IInv, PopDec, Goto
<1>1. TypeOK'
  BY DEF TypeOK, PcValues, Pushing, Popping
<1>2. Snapshot'
  BY DEF Snapshot, InList, TypeOK
<1> QED
  BY <1>1, <1>2, QuietStep

LEMMA PopCAS2Step ==
  ASSUME IInv, NEW p \in Procs, PopCAS2(p)
  PROVE  IInv'
<1>0. TypeOK /\ Linked /\ OneOwner /\ Snapshot /\ pc[p] = "pop_cas"
  BY DEF IInv, PopCAS2
<1>1. CASE CAS2Holds(p)
  <2>1. /\ top = ltop[p] /\ oc = loc[p]
        /\ top' = lnext[p]
        /\ oc' = oc + 1
        /\ stack' = Tail(stack)
        /\ cell' = [cell EXCEPT ![p] = ltop[p]]
        /\ pc' = [pc EXCEPT ![p] = "pop_dec"]
        /\ UNCHANGED <<count, link, ltop, loc, lnext, holds>>
    BY <1>1 DEF PopCAS2, CAS2Holds, Goto
  <2>2. top \in Cells /\ stack # <<>> /\ top = stack[1] /\ cell[p] = NULL
    BY <1>0, <2>1, LFLifoAssumption DEF TypeOK, Linked, Popping
  <2>3. /\ stack' \in Seq(Cells)
        /\ Len(stack) \in Nat \ {0}
        /\ Len(stack') = Len(stack) - 1
        /\ \A i \in 1..Len(stack') : stack'[i] = stack[i + 1]
        /\ InList' \subseteq InList
        /\ \A d \in InList : d = top \/ d \in InList'
    <3>1. stack \in Seq(Cells)
      BY <1>0 DEF TypeOK
    <3>2. /\ stack' \in Seq(Cells)
          /\ Len(stack) \in Nat \ {0}
          /\ Len(stack') = Len(stack) - 1
          /\ \A i \in 1..Len(stack') : stack'[i] = stack[i + 1]
      BY <3>1, <2>1, <2>2, PopSeq
    <3>3. \A i \in 1..Len(stack') : i + 1 \in 1..Len(stack)
      BY <3>2
    <3>4. \A i \in 1..Len(stack) :
             i = 1 \/ (i - 1 \in 1..Len(stack') /\ stack'[i - 1] = stack[i])
      BY <3>2
    <3>5. InList' \subseteq InList
      BY <3>2, <3>3 DEF InList
    <3>6. \A d \in InList : d = top \/ d \in InList'
      BY <3>4, <2>2 DEF InList
    <3> QED
      BY <3>2, <3>5, <3>6
  <2>4. TypeOK'
    BY <1>0, <2>1, <2>2, <2>3 DEF TypeOK, PcValues, Pushing, Popping
  <2>5. Linked'
    <3>1. lnext[p] = link[top]
      BY <1>0, <2>1 DEF Snapshot
    <3>2. stack' = <<>> <=> Len(stack') = 0
      BY <2>3, EmptySeq
    <3>3. lnext[p] = IF Len(stack) = 1 THEN NULL ELSE stack[2]
      BY <1>0, <2>2, <2>3, <3>1 DEF Linked
    <3>4. top' = IF stack' = <<>> THEN NULL ELSE stack'[1]
      BY <2>1, <2>3, <3>2, <3>3
    <3>5. \A i \in 1..Len(stack') :
             link'[stack'[i]] = IF i = Len(stack') THEN NULL ELSE stack'[i + 1]
      <4> TAKE i \in 1..Len(stack')
      <4>1. i + 1 \in 1..Len(stack) /\ stack'[i] = stack[i + 1]
        BY <2>3
      <4>2. i # Len(stack') => /\ i + 1 # Len(stack)
                               /\ stack'[i + 1] = stack[(i + 1) + 1]
        BY <2>3
      <4>3. i = Len(stack') => i + 1 = Len(stack)
        BY <2>3
      <4> QED
        BY <4>1, <4>2, <4>3, <1>0, <2>1 DEF Linked
    <3> QED
      BY <3>4, <3>5 DEF Linked
  <2>6. OneOwner'
    <3>1. \A i, j \in 1..Len(stack') : stack'[i] = stack'[j] => i = j
      BY <1>0, <2>3 DEF OneOwner
    <3>2. top \in InList /\ top \notin InList'
      <4>1. 1 \in 1..Len(stack) /\ top = stack[1]
        BY <2>2, <2>3
      <4>2. \A i \in 1..Len(stack') : i + 1 \in 1..Len(stack) /\ i + 1 # 1
        BY <2>3
      <4> QED
        BY <4>1, <4>2, <1>0, <2>3 DEF OneOwner, InList
    <3>3. \A q \in Procs : cell'[q] = IF q = p THEN top ELSE cell[q]
      BY <1>0, <2>1 DEF TypeOK
    <3>4. \A d \in Cells : \/ d \in InList'
                           \/ \E q \in Procs : d \in holds'[q] \/ cell'[q] = d
      BY <1>0, <2>1, <2>2, <2>3, <3>3, LFLifoAssumption DEF OneOwner
    <3>5. \A q \in Procs : /\ top \notin holds[q]
                          /\ cell[q] # top
                          /\ cell'[q] \notin InList' \cup holds[q]
                          /\ holds[q] \cap InList' = {}
      BY <1>0, <2>3, <3>2, <3>3 DEF OneOwner
    <3>6. \A q, r \in Procs : q # r =>
             /\ cell'[q] \notin holds[r]
             /\ cell'[q] = cell'[r] => cell'[q] = NULL
      BY <1>0, <3>3, <3>5 DEF OneOwner
    <3> QED
      BY <1>0, <2>1, <3>1, <3>4, <3>5, <3>6 DEF OneOwner
  <2>7. Snapshot'
    BY <1>0, <2>1, <2>2 DEF Snapshot, TypeOK
  <2> QED
    BY <2>4, <2>5, <2>6, <2>7 DEF IInv
<1>2. CASE ~ CAS2Holds(p)
  <2>1. /\ pc' = [pc EXCEPT ![p] = "pop_oc"]
        /\ UNCHANGED <<top, oc, stack, cell, count, link, ltop, loc, lnext, holds>>
    BY <1>2 DEF PopCAS2, Goto
  <2>2. TypeOK'
    BY <1>0, <2>1 DEF TypeOK, PcValues, Pushing, Popping
  <2>3. Snapshot'
    BY <1>0, <2>1 DEF Snapshot, InList, TypeOK
  <2> QED
    BY <2>1, <2>2, <2>3, QuietStep DEF IInv
<1> QED
  BY <1>1, <1>2

LEMMA ReturnStep ==
  ASSUME IInv, NEW p \in Procs, Return(p)
  PROVE  IInv'
<1>0. /\ TypeOK /\ Linked /\ OneOwner /\ Snapshot
      /\ pc[p] = "return"
      /\ holds' = [holds EXCEPT ![p] = @ \cup ({cell[p]} \ {NULL})]
      /\ cell' = [cell EXCEPT ![p] = NULL]
      /\ ltop' = [ltop EXCEPT ![p] = NULL]
      /\ lnext' = [lnext EXCEPT ![p] = NULL]
      /\ loc' = [loc EXCEPT ![p] = 0]
      /\ pc' = [pc EXCEPT ![p] = "idle"]
      /\ UNCHANGED <<top, oc, count, link, stack>>
  BY DEF IInv, Return, Goto
<1>1. TypeOK'
  BY <1>0 DEF TypeOK, PcValues, Pushing, Popping
<1>2. Linked'
  BY <1>0 DEF Linked
<1>3. OneOwner'
  <2>1. /\ InList' = InList
        /\ \A q \in Procs :
              /\ holds'[q] = IF q = p THEN holds[p] \cup ({cell[p]} \ {NULL})
                                      ELSE holds[q]
              /\ cell'[q] = IF q = p THEN NULL ELSE cell[q]
    BY <1>0 DEF InList, TypeOK
  <2>2. NULL \notin InList' /\ \A q \in Procs : NULL \notin holds'[q]
    BY <1>0, <1>1, LFLifoAssumption DEF TypeOK, InList
  <2>3. \A q \in Procs : q # p =>
           /\ cell[q] \notin holds'[p]
           /\ holds[q] \cap holds'[p] = {}
    BY <1>0, <2>1 DEF OneOwner
  <2>4. holds'[p] \cap InList = {}
    BY <1>0, <2>1 DEF OneOwner
  <2>5. \A d \in Cells : \/ d \in InList'
                         \/ \E q \in Procs : d \in holds'[q] \/ cell'[q] = d
    BY <1>0, <2>1, LFLifoAssumption DEF OneOwner
  <2> QED
    BY <1>0, <2>1, <2>2, <2>3, <2>4, <2>5 DEF OneOwner
<1>4. Snapshot'
  BY <1>0 DEF Snapshot, InList, TypeOK
<1> QED
  BY <1>1, <1>2, <1>3, <1>4 DEF IInv

LEMMA NextIInv == IInv /\ [Next]_vars => IInv'
<1> SUFFICES ASSUME IInv, [Next]_vars PROVE IInv'
  OBVIOUS
<1>1. ASSUME NEW p \in Procs, Step(p) PROVE IInv'
  BY <1>1, PushReadStep, PushLinkStep, PushCASStep, PushIncStep, PopOcStep,
     PopTopStep, PopLinkStep, PopCAS2Step, PopDecStep, ReturnStep DEF Step
<1>2. ASSUME NEW p \in Procs, lfpop(p) PROVE IInv'
  BY <1>2, lfpopStep
<1>3. ASSUME NEW p \in Procs, NEW c \in Cells, lfpush(p, c) \/ Use(p, c)
      PROVE  IInv'
  BY <1>3, lfpushStep, UseStep
<1>4. CASE UNCHANGED vars
  BY <1>4 DEF vars, IInv, TypeOK, Linked, OneOwner, Snapshot, InList
<1> QED
  BY <1>1, <1>2, <1>3, <1>4 DEF Next

(***************************************************************************)
(* The list in memory is always the list of the history, and every cell    *)
(* has one owner: no interleaving of lfpush and lfpop loses a cell or      *)
(* hands one to two threads.                                               *)
(***************************************************************************)
THEOREM Invariance == Spec => []IInv
<1>1. Init => IInv
  BY InitIInv
<1>2. IInv /\ [Next]_vars => IInv'
  BY NextIInv
<1> QED
  BY <1>1, <1>2, PTL DEF Spec

\* Type correctness of the lock-free list (lflifoIntel.c).
THEOREM TypeCorrect == Spec => []TypeOK
<1>1. IInv => TypeOK
  BY DEF IInv
<1> QED
  BY <1>1, Invariance, PTL

\* top and the link fields always form the list of the history (lfpush, lfpop).
THEOREM ListIntact == Spec => []Linked
<1>1. IInv => Linked
  BY DEF IInv
<1> QED
  BY <1>1, Invariance, PTL

\* The pop counter defeats the ABA problem: a cell is on the list or with one
\* thread, never both, never twice, never nowhere (lfpop's CAS2 on top and oc).
THEOREM CellsHaveOneOwner == Spec => []OneOwner
<1>1. IInv => OneOwner
  BY DEF IInv
<1> QED
  BY <1>1, Invariance, PTL

(***************************************************************************)
(* The refinement.  Every step of LFLifo is a step of the abstract stack   *)
(* or leaves it as it is.                                                  *)
(***************************************************************************)
LEMMA AbsCallAt ==
  ASSUME IInv, NEW p \in Procs
  PROVE  /\ pc[p] = "idle" => AbsCall(p) = [op |-> "none", cell |-> NULL]
         /\ pc[p] \in Pushing => AbsCall(p) = [op |-> "put", cell |-> cell[p]]
         /\ pc[p] \in Popping => AbsCall(p) = [op |-> "take", cell |-> NULL]
         /\ pc[p] \in {"push_inc", "pop_dec", "return"} =>
               AbsCall(p) = [op |-> "ended", cell |-> cell[p]]
BY DEF AbsCall, Pushing, Popping, IInv, TypeOK, PcValues

\* A step of p leaves the calls of the other threads as they are.
LEMMA AbsCallStep ==
  ASSUME IInv, IInv', NEW p \in Procs,
         NEW l, pc' = [pc EXCEPT ![p] = l],
         \A q \in Procs : q # p => cell'[q] = cell[q]
  PROVE  [q \in Procs |-> AbsCall(q)]' =
         [[q \in Procs |-> AbsCall(q)] EXCEPT ![p] = AbsCall(p)']
<1>1. \A q \in Procs : q # p => AbsCall(q)' = AbsCall(q)
  BY DEF AbsCall, IInv, TypeOK
<1> QED
  BY <1>1

LEMMA InitAbstract == Init => Abstract!Init
BY DEF Init, Abstract!Init, Abstract!NoCall, AbsCall, Pushing, Popping

LEMMA StepAbstract ==
  ASSUME IInv, IInv', NEW p \in Procs, Step(p)
  PROVE  Abstract!Next \/ UNCHANGED Abstract!vars
<1> DEFINE call == [q \in Procs |-> AbsCall(q)]
<1>0. TypeOK /\ TypeOK' /\ Linked /\ \A q \in Procs : call[q] = AbsCall(q)
  BY DEF IInv
<1>1. CASE PushRead(p) \/ PushLink(p) \/ PopOc(p) \/ PopLink(p)
           \/ PushInc(p) \/ PopDec(p)
  <2>1. /\ UNCHANGED <<stack, holds, cell>>
        /\ \/ pc[p] \in Pushing /\ pc'[p] \in Pushing
           \/ pc[p] \in Popping /\ pc'[p] \in Popping
           \/ pc[p] \in {"push_inc", "pop_dec"} /\ pc'[p] = "return"
        /\ pc' = [pc EXCEPT ![p] = pc'[p]]
    BY <1>0, <1>1 DEF PushRead, PushLink, PopOc, PopLink, PushInc, PopDec, Goto,
                      TypeOK, Pushing, Popping
  <2>2. AbsCall(p)' = AbsCall(p)
    BY <2>1 DEF AbsCall, Pushing, Popping
  <2>3. call' = call
    BY <2>1, <2>2, AbsCallStep
  <2> QED
    BY <2>1, <2>3 DEF Abstract!vars
<1>2. CASE PushCAS(p)
  <2>1. CASE top = ltop[p]
    <3>1. /\ call[p].op = "put" /\ call[p].cell = cell[p]
          /\ stack' = <<cell[p]>> \o stack
          /\ holds' = holds
          /\ pc' = [pc EXCEPT ![p] = "push_inc"]
          /\ cell' = [cell EXCEPT ![p] = NULL]
      BY <1>2, <2>1, AbsCallAt DEF PushCAS, Goto, Pushing
    <3>2. AbsCall(p)' = [op |-> "ended", cell |-> NULL]
      BY <1>0, <3>1 DEF AbsCall, Pushing, Popping, TypeOK
    <3>3. call' = [call EXCEPT ![p] = [op |-> "ended", cell |-> NULL]]
      BY <1>0, <3>1, <3>2, AbsCallStep DEF TypeOK
    <3>4. Abstract!Put(p)
      BY <3>1, <3>3 DEF Abstract!Put
    <3> QED
      BY <3>4 DEF Abstract!Next
  <2>2. CASE top # ltop[p]
    <3>1. /\ UNCHANGED <<stack, holds, cell>>
          /\ pc[p] = "push_cas" /\ pc' = [pc EXCEPT ![p] = "push_read"]
      BY <1>2, <2>2 DEF PushCAS, Goto
    <3>2. AbsCall(p)' = AbsCall(p)
      BY <1>0, <3>1 DEF AbsCall, Pushing, Popping, TypeOK
    <3>3. call' = call
      BY <3>1, <3>2, AbsCallStep
    <3> QED
      BY <3>1, <3>3 DEF Abstract!vars
  <2> QED
    BY <2>1, <2>2
<1>3. CASE PopTop(p)
  <2>1. /\ UNCHANGED <<stack, holds, cell>>
        /\ pc[p] = "pop_top"
        /\ pc' = [pc EXCEPT ![p] = IF top = NULL THEN "return" ELSE "pop_link"]
        /\ AbsCall(p) = [op |-> "take", cell |-> NULL]
        /\ cell[p] = NULL
    BY <1>0, <1>3, AbsCallAt DEF PopTop, Goto, Popping, TypeOK
  <2>2. CASE top = NULL
    <3>1. stack = <<>>
      <4> SUFFICES ASSUME stack # <<>> PROVE FALSE
        OBVIOUS
      <4>1. 1 \in 1..Len(stack) /\ stack[1] = NULL
        BY <1>0, <2>2, EmptySeq DEF Linked, TypeOK
      <4> QED
        BY <1>0, <4>1, ElementOfSeq, LFLifoAssumption DEF TypeOK
    <3>2. AbsCall(p)' = [op |-> "ended", cell |-> NULL]
      BY <1>0, <2>1, <2>2 DEF AbsCall, Pushing, Popping, TypeOK
    <3>3. call' = [call EXCEPT ![p] = [op |-> "ended", cell |-> NULL]]
      BY <2>1, <3>2, AbsCallStep
    <3>4. Abstract!TakeNothing(p)
      BY <1>0, <2>1, <3>1, <3>3 DEF Abstract!TakeNothing
    <3> QED
      BY <3>4 DEF Abstract!Next
  <2>3. CASE top # NULL
    <3>1. AbsCall(p)' = AbsCall(p)
      BY <1>0, <2>1, <2>3 DEF AbsCall, Pushing, Popping, TypeOK
    <3>2. call' = call
      BY <2>1, <3>1, AbsCallStep
    <3> QED
      BY <2>1, <3>2 DEF Abstract!vars
  <2> QED
    BY <2>2, <2>3
<1>4. CASE PopCAS2(p)
  <2>1. CASE CAS2Holds(p)
    <3>1. /\ AbsCall(p) = [op |-> "take", cell |-> NULL]
          /\ top = ltop[p] /\ top \in Cells
          /\ stack' = Tail(stack)
          /\ holds' = holds
          /\ pc' = [pc EXCEPT ![p] = "pop_dec"]
          /\ cell' = [cell EXCEPT ![p] = ltop[p]]
      BY <1>0, <1>4, <2>1, AbsCallAt DEF PopCAS2, CAS2Holds, Goto, Popping, TypeOK
    <3>2. stack # <<>> /\ top = Head(stack)
      BY <1>0, <3>1, LFLifoAssumption DEF Linked, TypeOK
    <3>3. AbsCall(p)' = [op |-> "ended", cell |-> Head(stack)]
      BY <1>0, <3>1, <3>2 DEF AbsCall, Pushing, Popping, TypeOK
    <3>4. call' = [call EXCEPT ![p] = [op |-> "ended", cell |-> Head(stack)]]
      BY <1>0, <3>1, <3>3, AbsCallStep DEF TypeOK
    <3>5. Abstract!Take(p)
      BY <1>0, <3>1, <3>2, <3>4 DEF Abstract!Take
    <3> QED
      BY <3>5 DEF Abstract!Next
  <2>2. CASE ~ CAS2Holds(p)
    <3>1. /\ UNCHANGED <<stack, holds, cell>>
          /\ pc[p] = "pop_cas" /\ pc' = [pc EXCEPT ![p] = "pop_oc"]
      BY <1>4, <2>2 DEF PopCAS2, Goto
    <3>2. AbsCall(p)' = AbsCall(p)
      BY <1>0, <3>1 DEF AbsCall, Pushing, Popping, TypeOK
    <3>3. call' = call
      BY <3>1, <3>2, AbsCallStep
    <3> QED
      BY <3>1, <3>3 DEF Abstract!vars
  <2> QED
    BY <2>1, <2>2
<1>5. CASE Return(p)
  <2>1. /\ AbsCall(p) = [op |-> "ended", cell |-> cell[p]]
        /\ stack' = stack
        /\ holds' = [holds EXCEPT ![p] = @ \cup ({cell[p]} \ {NULL})]
        /\ pc' = [pc EXCEPT ![p] = "idle"]
        /\ cell' = [cell EXCEPT ![p] = NULL]
    BY <1>5, AbsCallAt DEF Return, Goto
  <2>2. AbsCall(p)' = [op |-> "none", cell |-> NULL]
    BY <1>0, <2>1 DEF AbsCall, Pushing, Popping, TypeOK
  <2>3. call' = [call EXCEPT ![p] = [op |-> "none", cell |-> NULL]]
    BY <1>0, <2>1, <2>2, AbsCallStep DEF TypeOK
  <2>4. call[p].op = "ended" /\ call[p].cell = cell[p]
    BY <1>0, <2>1
  <2>5. Abstract!Return(p)
    BY <2>1, <2>3, <2>4 DEF Abstract!Return, Abstract!NoCall
  <2> QED
    BY <2>5 DEF Abstract!Next
<1> QED
  BY <1>1, <1>2, <1>3, <1>4, <1>5 DEF Step

LEMMA NextAbstract ==
  IInv /\ IInv' /\ [Next]_vars => [Abstract!Next]_(Abstract!vars)
<1> SUFFICES ASSUME IInv, IInv', [Next]_vars
             PROVE  Abstract!Next \/ UNCHANGED Abstract!vars
  OBVIOUS
<1> DEFINE call == [q \in Procs |-> AbsCall(q)]
<1>0. TypeOK /\ TypeOK' /\ \A q \in Procs : call[q] = AbsCall(q)
  BY DEF IInv
<1>1. ASSUME NEW p \in Procs, Step(p)
      PROVE  Abstract!Next \/ UNCHANGED Abstract!vars
  BY <1>1, StepAbstract
<1>2. ASSUME NEW p \in Procs, lfpop(p)
      PROVE  Abstract!Next
  <2>1. /\ AbsCall(p) = Abstract!NoCall
        /\ UNCHANGED <<stack, holds>>
        /\ pc' = [pc EXCEPT ![p] = "pop_oc"]
        /\ cell' = [cell EXCEPT ![p] = NULL]
    BY <1>2, AbsCallAt DEF lfpop, Goto, Abstract!NoCall
  <2>2. AbsCall(p)' = [op |-> "take", cell |-> NULL]
    BY <1>0, <2>1 DEF AbsCall, Pushing, Popping, TypeOK
  <2>3. call' = [call EXCEPT ![p] = [op |-> "take", cell |-> NULL]]
    BY <1>0, <2>1, <2>2, AbsCallStep DEF TypeOK
  <2>4. Abstract!CallTake(p)
    BY <1>0, <2>1, <2>3 DEF Abstract!CallTake
  <2> QED
    BY <2>4 DEF Abstract!Next
<1>3. ASSUME NEW p \in Procs, NEW c \in Cells, lfpush(p, c)
      PROVE  Abstract!Next
  <2>1. /\ AbsCall(p) = Abstract!NoCall
        /\ c \in holds[p]
        /\ stack' = stack
        /\ holds' = [holds EXCEPT ![p] = @ \ {c}]
        /\ pc' = [pc EXCEPT ![p] = "push_read"]
        /\ cell' = [cell EXCEPT ![p] = c]
    BY <1>3, AbsCallAt DEF lfpush, Goto, Abstract!NoCall
  <2>2. AbsCall(p)' = [op |-> "put", cell |-> c]
    BY <1>0, <2>1 DEF AbsCall, Pushing, Popping, TypeOK
  <2>3. call' = [call EXCEPT ![p] = [op |-> "put", cell |-> c]]
    BY <1>0, <2>1, <2>2, AbsCallStep DEF TypeOK
  <2>4. Abstract!CallPut(p, c)
    BY <1>0, <2>1, <2>3 DEF Abstract!CallPut
  <2> QED
    BY <2>4 DEF Abstract!Next
<1>4. ASSUME NEW p \in Procs, NEW c \in Cells, Use(p, c)
      PROVE  UNCHANGED Abstract!vars
  BY <1>4 DEF Use, Abstract!vars, AbsCall
<1>5. CASE UNCHANGED vars
  BY <1>5 DEF vars, Abstract!vars, AbsCall
<1> QED
  BY <1>1, <1>2, <1>3, <1>4, <1>5 DEF Next

\* lfpush and lfpop implement a stack whose calls take effect one at a time: a
\* pop returns the last cell pushed and not popped, and NULL only if the list
\* was empty at that instant.
THEOREM Refinement == Spec => IsAStack
<1>1. Init => Abstract!Init
  BY InitAbstract
<1>2. IInv /\ IInv' /\ [Next]_vars => [Abstract!Next]_(Abstract!vars)
  BY NextAbstract
<1> QED
  BY <1>1, <1>2, Invariance, PTL DEF Spec, IsAStack, Abstract!Spec

(***************************************************************************)
(* The count.                                                              *)
(***************************************************************************)
LEMMA AtFinite ==
  ASSUME NEW l
  PROVE  /\ IsFiniteSet(At(l))
         /\ Cardinality(At(l)) \in Nat
BY LFLifoAssumption, FS_Subset, FS_CardinalityType DEF At

\* p goes to label l: only the sets of l and of the label it leaves change.
LEMMA AtMoves ==
  ASSUME TypeOK, NEW p \in Procs, NEW l, pc' = [pc EXCEPT ![p] = l], pc[p] # l,
         NEW m
  PROVE  Cardinality(At(m)') = IF m = l THEN Cardinality(At(m)) + 1
                               ELSE IF m = pc[p] THEN Cardinality(At(m)) - 1
                               ELSE Cardinality(At(m))
<1>1. CASE m = l
  <2>1. At(m)' = At(m) \cup {p} /\ p \notin At(m)
    BY <1>1 DEF At, TypeOK
  <2> QED
    BY <1>1, <2>1, AtFinite, FS_AddElement
<1>2. CASE m # l /\ m = pc[p]
  <2>1. At(m)' = At(m) \ {p} /\ p \in At(m)
    BY <1>2 DEF At, TypeOK
  <2> QED
    BY <1>2, <2>1, AtFinite, FS_RemoveElement
<1>3. CASE m # l /\ m # pc[p]
  <2>1. At(m)' = At(m)
    BY <1>3 DEF At, TypeOK
  <2> QED
    BY <1>3, <2>1
<1> QED
  BY <1>1, <1>2, <1>3

LEMMA CountersMove ==
  ASSUME TypeOK, NEW p \in Procs, NEW l, pc' = [pc EXCEPT ![p] = l], pc[p] # l
  PROVE  /\ l = "push_inc" => Cardinality(At("push_inc"))' = Cardinality(At("push_inc")) + 1
         /\ pc[p] = "push_inc" => Cardinality(At("push_inc"))' = Cardinality(At("push_inc")) - 1
         /\ "push_inc" \notin {l, pc[p]} => Cardinality(At("push_inc"))' = Cardinality(At("push_inc"))
         /\ l = "pop_dec" => Cardinality(At("pop_dec"))' = Cardinality(At("pop_dec")) + 1
         /\ pc[p] = "pop_dec" => Cardinality(At("pop_dec"))' = Cardinality(At("pop_dec")) - 1
         /\ "pop_dec" \notin {l, pc[p]} => Cardinality(At("pop_dec"))' = Cardinality(At("pop_dec"))
<1>1. \A m \in {"push_inc", "pop_dec"} :
         /\ l = m => Cardinality(At(m)') = Cardinality(At(m)) + 1
         /\ pc[p] = m => Cardinality(At(m)') = Cardinality(At(m)) - 1
         /\ m \notin {l, pc[p]} => Cardinality(At(m)') = Cardinality(At(m))
  BY AtMoves
<1> QED
  BY <1>1

\* The count of the list (lfsize, what MidiFreeSpace returns) is its length, up
\* to the calls that have moved their cell and not yet counted it.
THEOREM CountCorrect == Spec => []CountAccurate
<1>1. Init => CountAccurate
  <2> SUFFICES ASSUME Init PROVE CountAccurate
    OBVIOUS
  <2>1. At("push_inc") = {} /\ At("pop_dec") = {}
    BY DEF Init, At
  <2>2. Cardinality(At("push_inc")) = 0 /\ Cardinality(At("pop_dec")) = 0
    BY <2>1, FS_EmptySet
  <2>3. Len(stack) = 0 /\ count = 0
    BY DEF Init
  <2> QED
    BY <2>2, <2>3 DEF CountAccurate
<1>2. IInv /\ CountAccurate /\ [Next]_vars => CountAccurate'
  <2> SUFFICES ASSUME IInv, CountAccurate, [Next]_vars PROVE CountAccurate'
    OBVIOUS
  <2>0. /\ TypeOK /\ Linked /\ Len(stack) \in Nat /\ count \in Int
        /\ Cardinality(At("push_inc")) \in Nat
        /\ Cardinality(At("pop_dec")) \in Nat
    BY AtFinite, LenProperties DEF IInv, TypeOK
  <2>1. ASSUME NEW p \in Procs, NEW l,
               pc' = [pc EXCEPT ![p] = l], pc[p] # l,
               {pc[p], l} \cap {"push_inc", "pop_dec"} = {},
               UNCHANGED <<stack, count>>
        PROVE  CountAccurate'
    BY <2>0, <2>1, CountersMove DEF CountAccurate
  <2>2. ASSUME NEW p \in Procs, Step(p) PROVE CountAccurate'
    <3>1. CASE PushRead(p) \/ PushLink(p) \/ PopOc(p) \/ PopLink(p)
               \/ PopTop(p) \/ Return(p)
      <4>1. PushRead(p) => CountAccurate'
        BY <2>1 DEF PushRead, Goto
      <4>2. PushLink(p) => CountAccurate'
        BY <2>1 DEF PushLink, Goto
      <4>3. PopOc(p) => CountAccurate'
        BY <2>1 DEF PopOc, Goto
      <4>4. PopLink(p) => CountAccurate'
        BY <2>1 DEF PopLink, Goto
      <4>5. PopTop(p) => CountAccurate'
        BY <2>1 DEF PopTop, Goto
      <4>6. Return(p) => CountAccurate'
        BY <2>1 DEF Return, Goto
      <4> QED
        BY <3>1, <4>1, <4>2, <4>3, <4>4, <4>5, <4>6
    <3>2. CASE PushCAS(p)
      <4>1. CASE top = ltop[p]
        <5>1. /\ pc[p] = "push_cas" /\ pc' = [pc EXCEPT ![p] = "push_inc"]
              /\ stack' = <<cell[p]>> \o stack /\ count' = count
              /\ cell[p] \in Cells
          BY <2>0, <3>2, <4>1 DEF PushCAS, Goto, TypeOK, Pushing
        <5>2. Len(stack') = Len(stack) + 1
          BY <2>0, <5>1, PushSeq DEF TypeOK
        <5>3. /\ Cardinality(At("push_inc"))' = Cardinality(At("push_inc")) + 1
              /\ Cardinality(At("pop_dec"))' = Cardinality(At("pop_dec"))
          BY <2>0, <5>1, CountersMove
        <5> QED
          BY <2>0, <5>1, <5>2, <5>3 DEF CountAccurate
      <4>2. CASE top # ltop[p]
        BY <2>1, <3>2, <4>2 DEF PushCAS, Goto
      <4> QED
        BY <4>1, <4>2
    <3>3. CASE PopCAS2(p)
      <4>1. CASE CAS2Holds(p)
        <5>1. /\ pc[p] = "pop_cas" /\ pc' = [pc EXCEPT ![p] = "pop_dec"]
              /\ stack' = Tail(stack) /\ count' = count
              /\ stack # <<>>
          BY <2>0, <3>3, <4>1, LFLifoAssumption
          DEF PopCAS2, CAS2Holds, Goto, TypeOK, Linked
        <5>2. Len(stack') = Len(stack) - 1
          BY <2>0, <5>1, PopSeq DEF TypeOK
        <5>3. /\ Cardinality(At("push_inc"))' = Cardinality(At("push_inc"))
              /\ Cardinality(At("pop_dec"))' = Cardinality(At("pop_dec")) + 1
          BY <2>0, <5>1, CountersMove
        <5> QED
          BY <2>0, <5>1, <5>2, <5>3 DEF CountAccurate
      <4>2. CASE ~ CAS2Holds(p)
        BY <2>1, <3>3, <4>2 DEF PopCAS2, Goto
      <4> QED
        BY <4>1, <4>2
    <3>4. CASE PushInc(p)
      <4>1. /\ pc[p] = "push_inc" /\ pc' = [pc EXCEPT ![p] = "return"]
            /\ count' = count + 1 /\ stack' = stack
        BY <3>4 DEF PushInc, Goto
      <4>2. /\ Cardinality(At("push_inc"))' = Cardinality(At("push_inc")) - 1
            /\ Cardinality(At("pop_dec"))' = Cardinality(At("pop_dec"))
        <5>1. pc[p] # "return" /\ TypeOK
          BY <2>0, <4>1
        <5>2. "pop_dec" \notin {"return", pc[p]}
          BY <4>1
        <5> QED
          BY <4>1, <5>1, <5>2, CountersMove
      <4> QED
        BY <2>0, <4>1, <4>2 DEF CountAccurate
    <3>5. CASE PopDec(p)
      <4>1. /\ pc[p] = "pop_dec" /\ pc' = [pc EXCEPT ![p] = "return"]
            /\ count' = count - 1 /\ stack' = stack
        BY <3>5 DEF PopDec, Goto
      <4>2. /\ Cardinality(At("push_inc"))' = Cardinality(At("push_inc"))
            /\ Cardinality(At("pop_dec"))' = Cardinality(At("pop_dec")) - 1
        <5>1. pc[p] # "return" /\ TypeOK
          BY <2>0, <4>1
        <5>2. "push_inc" \notin {"return", pc[p]}
          BY <4>1
        <5> QED
          BY <4>1, <5>1, <5>2, CountersMove
      <4> QED
        BY <2>0, <4>1, <4>2 DEF CountAccurate
    <3> QED
      BY <2>2, <3>1, <3>2, <3>3, <3>4, <3>5 DEF Step
  <2>3. ASSUME NEW p \in Procs, lfpop(p) PROVE CountAccurate'
    BY <2>1, <2>3 DEF lfpop, Goto
  <2>4. ASSUME NEW p \in Procs, NEW c \in Cells, lfpush(p, c) PROVE CountAccurate'
    BY <2>1, <2>4 DEF lfpush, Goto
  <2>5. ASSUME NEW p \in Procs, NEW c \in Cells, Use(p, c) PROVE CountAccurate'
    BY <2>5 DEF Use, At, CountAccurate
  <2>6. CASE UNCHANGED vars
    BY <2>6 DEF vars, At, CountAccurate
  <2> QED
    BY <2>2, <2>3, <2>4, <2>5, <2>6 DEF Next
<1> QED
  BY <1>1, <1>2, Invariance, PTL DEF Spec
=============================================================================
