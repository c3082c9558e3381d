---------------------------- MODULE Sorter_proofs ----------------------------
(***************************************************************************)
(* Proofs about Sorter, for any base of at least 2, any quota, any events  *)
(* and any dates they are sent for.                                        *)
(***************************************************************************)
EXTENDS Sorter, SequenceTheorems, NaturalsInduction, WellFoundedInduction, TLAPS

(***************************************************************************)
(* Digits and dates.                                                       *)
(***************************************************************************)
LEMMA NextDigit ==
  ASSUME NEW i \in Digits
  PROVE  /\ (i + 1) % Base = IF i = Base - 1 THEN 0 ELSE i + 1
         /\ (i + 1) % Base \in Digits
         /\ (i + 1) % Base # i
BY SorterAssumption, SMT DEF Digits

LEMMA ModDigit ==
  ASSUME NEW a \in Nat
  PROVE  a % Base \in Digits
BY SorterAssumption, SMT DEF Digits

LEMMA DivLess ==
  ASSUME NEW a \in Nat, NEW b \in Nat \ {0}, NEW c \in Nat, a < b * c
  PROVE  a \div b \in Nat /\ a \div b < c
BY SMT

LEMMA ZeroDigit == 0 \in Digits /\ ZeroDate \in Dates
BY SorterAssumption DEF Digits, ZeroDate, Dates

\* A number below MaxDate has four digits.
LEMMA ToDateType ==
  ASSUME NEW n \in Nat, n < MaxDate
  PROVE  ToDate(n) \in Dates
<1> DEFINE B2 == Base * Base
           B3 == B2 * Base
<1>1. Base \in Nat \ {0} /\ B2 \in Nat \ {0} /\ B3 \in Nat \ {0}
  BY SorterAssumption
<1>2. n < B3 * Base
  BY DEF MaxDate
<1>3. n \div B3 \in Digits
  <2>1. n \div B3 \in Nat /\ n \div B3 < Base
    BY <1>1, <1>2, DivLess
  <2> QED
    BY <1>1, <2>1 DEF Digits
<1>4. n \div B2 \in Nat /\ n \div Base \in Nat
  BY <1>1
<1>5. (n \div B2) % Base \in Digits /\ (n \div Base) % Base \in Digits
      /\ n % Base \in Digits
  BY <1>4, ModDigit
<1> QED
  BY <1>3, <1>5 DEF ToDate, Dates, Levels

LEMMA NumberType ==
  ASSUME NEW d \in Dates
  PROVE  Number(d) \in Nat
<1>1. d[0] \in Nat /\ d[1] \in Nat /\ d[2] \in Nat /\ d[3] \in Nat
  BY SorterAssumption DEF Dates, Levels, Digits
<1>2. Base \in Nat
  BY SorterAssumption
<1> QED
  BY <1>1, <1>2 DEF Number

\* What a client may date an event with.
LEMMA SentDate ==
  ASSUME NEW d \in Dates, NEW a \in Nat
  PROVE  ToDate((Number(d) + a) % MaxDate) \in Dates
<1>1. MaxDate \in Nat \ {0}
  BY SorterAssumption DEF MaxDate
<1>2. Number(d) + a \in Nat
  BY NumberType
<1>3. (Number(d) + a) % MaxDate \in Nat /\ (Number(d) + a) % MaxDate < MaxDate
  BY <1>1, <1>2
<1> QED
  BY <1>3, ToDateType

(***************************************************************************)
(* The clock counts one more: which digits change, and what becomes of the *)
(* periods of each level.                                                  *)
(***************************************************************************)
\* A digit changes when those after it come back to 0.
LEMMA FollowingDigits ==
  ASSUME sysDate \in Dates, sysDate' = Following(sysDate)
  PROVE  /\ sysDate' \in Dates
         /\ \A l \in Levels :
              /\ Turned(l)' <=> \A k \in (l + 1)..3 : sysDate[k] = Base - 1
              /\ sysDate'[l] = IF Turned(l)' THEN (sysDate[l] + 1) % Base
                               ELSE sysDate[l]
<1> DEFINE Full(l) == \A k \in (l + 1)..3 : sysDate[k] = Base - 1
<1>1. \A l \in Levels : sysDate[l] \in Digits
  BY DEF Dates
<1>2. \A l \in Levels :
        sysDate'[l] = IF Full(l) THEN (sysDate[l] + 1) % Base ELSE sysDate[l]
  BY DEF Following
<1>3. \A l \in Levels : sysDate'[l] \in Digits
  BY <1>1, <1>2, NextDigit
<1>4. sysDate' \in Dates
  <2>1. sysDate' = [l \in Levels |-> sysDate'[l]]
    BY DEF Following
  <2> QED
    BY <1>3, <2>1 DEF Dates
<1>5. \A l \in Levels : sysDate'[l] = 0 /\ Full(l) <=> sysDate[l] = Base - 1 /\ Full(l)
  <2> SUFFICES ASSUME NEW l \in Levels, Full(l)
               PROVE  sysDate'[l] = 0 <=> sysDate[l] = Base - 1
    OBVIOUS
  <2>1. sysDate'[l] = IF sysDate[l] = Base - 1 THEN 0 ELSE sysDate[l] + 1
    BY <1>1, <1>2, NextDigit
  <2> QED
    BY <1>1, <2>1, SorterAssumption DEF Digits
<1>6. Full(3) /\ (Full(2) <=> sysDate[3] = Base - 1)
      /\ (Full(1) <=> sysDate[2] = Base - 1 /\ Full(2))
      /\ (Full(0) <=> sysDate[1] = Base - 1 /\ Full(1))
  BY DEF Levels
<1>7. Turned(3)' /\ (Turned(2)' <=> sysDate'[3] = 0)
      /\ (Turned(1)' <=> sysDate'[2] = 0 /\ Turned(2)')
      /\ (Turned(0)' <=> sysDate'[1] = 0 /\ Turned(1)')
  BY DEF Turned, Levels
<1>8. 0 \in Levels /\ 1 \in Levels /\ 2 \in Levels /\ 3 \in Levels
  BY DEF Levels
<1> HIDE DEF Full
<1>9. /\ Turned(3)' <=> Full(3)
      /\ Turned(2)' <=> Full(2)
      /\ Turned(1)' <=> Full(1)
      /\ Turned(0)' <=> Full(0)
  BY <1>5, <1>6, <1>7, <1>8
<1>10. \A l \in Levels : Turned(l)' <=> Full(l)
  BY <1>9 DEF Levels
<1> QED
  BY <1>2, <1>4, <1>10 DEF Full

\* Where there is no carry the periods of the level stay.
LEMMA SamePeriod ==
  ASSUME sysDate \in Dates, sysDate' = Following(sysDate),
         NEW l \in Levels, ~ Carried(l)', NEW d \in Dates
  PROVE  /\ InPeriod(d, l)' <=> InPeriod(d, l)
         /\ InNextPeriod(d, l)' <=> InNextPeriod(d, l)
         /\ l > 0 /\ InNextPeriod(d, l) /\ After(d, sysDate)
              => After(d, sysDate')
<1>1. \A k \in 0..(l - 1) : sysDate'[k] = sysDate[k]
  <2> SUFFICES ASSUME NEW k \in 0..(l - 1) PROVE sysDate'[k] = sysDate[k]
    OBVIOUS
  <2>1. k \in Levels /\ ~ Turned(k)'
    BY DEF Levels, Carried, Turned
  <2> QED
    BY <2>1, FollowingDigits
<1>2. InPeriod(d, l)' <=> InPeriod(d, l)
  BY <1>1 DEF InPeriod
<1>3. InNextPeriod(d, l)' <=> InNextPeriod(d, l)
  <2>1. ASSUME NEW k \in 0..(l - 1), NEW j \in (k + 1)..(l - 1)
        PROVE  j \in 0..(l - 1)
    BY DEF Levels
  <2> QED
    BY <1>1, <2>1 DEF InNextPeriod
<1>4. ASSUME l > 0, InNextPeriod(d, l), After(d, sysDate)
      PROVE  After(d, sysDate')
  <2>1. l - 1 \in 0..(l - 1) /\ l - 1 \in Levels
    BY <1>4 DEF Levels
  <2>2. d[l - 1] = (sysDate[l - 1] + 1) % Base
    BY <1>4, <2>1 DEF InNextPeriod, Levels
  <2>3. d[l - 1] # sysDate[l - 1]
    BY <2>1, <2>2, NextDigit DEF Dates
  <2>4. PICK m \in Levels : d[m] > sysDate[m] /\ \A k \in 0..(m - 1) : d[k] = sysDate[k]
    BY <1>4 DEF After
  <2>5. m \in 0..(l - 1)
    BY <2>1, <2>3, <2>4 DEF Levels
  <2>6. \A k \in 0..(m - 1) : k \in 0..(l - 1)
    BY <2>5 DEF Levels
  <2> QED
    BY <1>1, <2>4, <2>5, <2>6 DEF After
<1> QED
  BY <1>2, <1>3, <1>4

\* Where there is one the next period becomes the current one.
LEMMA NextPeriodBegins ==
  ASSUME sysDate \in Dates, sysDate' = Following(sysDate),
         NEW l \in Levels, Carried(l)', NEW d \in Dates
  PROVE  /\ InNextPeriod(d, l) => InPeriod(d, l)'
         /\ sysDate[l] = Base - 1
<1>1. Turned(l)' /\ sysDate'[l] = 0
  BY DEF Carried
<1>2. sysDate'[l] = (sysDate[l] + 1) % Base
  BY <1>1, FollowingDigits
<1>3. sysDate[l] = Base - 1
  BY <1>1, <1>2, NextDigit, SorterAssumption DEF Dates, Digits
<1>4. \A k \in (l + 1)..3 : sysDate[k] = Base - 1
  BY <1>1, FollowingDigits
<1>5. \A k \in 0..(l - 1) :
        (\A j \in (k + 1)..(l - 1) : sysDate[j] = Base - 1) <=> Turned(k)'
  <2> SUFFICES ASSUME NEW k \in 0..(l - 1)
               PROVE  (\A j \in (k + 1)..(l - 1) : sysDate[j] = Base - 1)
                        <=> \A j \in (k + 1)..3 : sysDate[j] = Base - 1
    BY FollowingDigits DEF Levels
  <2>1. \A j \in (k + 1)..3 : j \in (k + 1)..(l - 1) \/ j = l \/ j \in (l + 1)..3
    BY DEF Levels
  <2>2. \A j \in (k + 1)..(l - 1) : j \in (k + 1)..3
    BY DEF Levels
  <2> QED
    BY <1>3, <1>4, <2>1, <2>2
<1>6. \A k \in 0..(l - 1) : k \in Levels
  BY DEF Levels
<1> QED
  BY <1>3, <1>5, <1>6, FollowingDigits DEF InPeriod, InNextPeriod

(***************************************************************************)
(* Where an event goes.                                                    *)
(***************************************************************************)
\* PutEvent: the first digit above the clock's is that of the level.
LEMMA PutPlace ==
  ASSUME sysDate \in Dates, NEW d \in Dates, After(d, sysDate)
  PROVE  /\ FirstAbove(d) \in Levels
         /\ InPeriod(d, FirstAbove(d))
         /\ d[FirstAbove(d)] > sysDate[FirstAbove(d)]
<1>1. PICK m \in Levels : /\ d[m] > sysDate[m]
                          /\ \A k \in 0..(m - 1) : d[k] = sysDate[k]
  BY DEF After
<1>2. \A l \in Levels : d[l] \in Nat /\ sysDate[l] \in Nat
  BY SorterAssumption DEF Dates, Digits
<1>3. FirstAbove(d) = m
  <2>1. \A k \in 0..(m - 1) : d[k] <= sysDate[k]
    BY <1>1, <1>2 DEF Levels
  <2>2. CASE m = 0
    <3>1. d[0] > sysDate[0] /\ ~ d[0] <= sysDate[0]
      BY <1>1, <1>2, <2>2 DEF Levels
    <3> QED
      BY <2>2, <3>1 DEF FirstAbove
  <2>3. CASE m = 1
    <3>1. /\ d[0] <= sysDate[0] /\ ~ d[0] > sysDate[0]
          /\ d[1] > sysDate[1] /\ ~ d[1] <= sysDate[1]
      BY <1>1, <1>2, <2>1, <2>3 DEF Levels
    <3> QED
      BY <2>3, <3>1 DEF FirstAbove
  <2>4. CASE m = 2
    <3>1. /\ d[0] <= sysDate[0] /\ ~ d[0] > sysDate[0]
          /\ d[1] <= sysDate[1] /\ ~ d[1] > sysDate[1]
      BY <1>2, <2>1, <2>4 DEF Levels
    <3> QED
      BY <1>1, <2>4, <3>1 DEF FirstAbove
  <2>5. CASE m = 3
    <3>1. /\ ~ d[0] > sysDate[0] /\ ~ d[1] > sysDate[1] /\ ~ d[2] > sysDate[2]
      BY <1>2, <2>1, <2>5 DEF Levels
    <3> QED
      BY <2>5, <3>1 DEF FirstAbove
  <2> QED
    BY <2>2, <2>3, <2>4, <2>5 DEF Levels
<1> QED
  BY <1>1, <1>3 DEF InPeriod

\* BufferPut: an event goes down into the current period of the next level when
\* its digit has come, else into the next one.
LEMMA MoveCurrent ==
  ASSUME sysDate \in Dates, NEW l \in 0..2, NEW d \in Dates,
         InPeriod(d, l), d[l] = sysDate[l]
  PROVE  InPeriod(d, l + 1)
<1>1. \A k \in 0..((l + 1) - 1) : k = l \/ k \in 0..(l - 1)
  OBVIOUS
<1> QED
  BY <1>1 DEF InPeriod

LEMMA MoveNext ==
  ASSUME sysDate \in Dates, NEW l \in 0..2, NEW d \in Dates,
         InPeriod(d, l), d[l] = (sysDate[l] + 1) % Base, d[l] # 0
  PROVE  InNextPeriod(d, l + 1) /\ After(d, sysDate)
<1>1. l \in Levels /\ sysDate[l] \in Digits
  BY DEF Levels, Dates
<1>2. d[l] = sysDate[l] + 1 /\ sysDate[l] # Base - 1
  BY <1>1, NextDigit, SorterAssumption DEF Digits
<1>3. \A k \in 0..((l + 1) - 1) : k = l \/ k \in 0..(l - 1)
  OBVIOUS
<1>4. \A k \in 0..(l - 1) : l \in (k + 1)..((l + 1) - 1)
  OBVIOUS
<1>5. \A j \in (l + 1)..((l + 1) - 1) : FALSE
  OBVIOUS
<1>6. InNextPeriod(d, l + 1)
  <2> SUFFICES ASSUME NEW k \in 0..((l + 1) - 1)
               PROVE  d[k] = IF \A j \in (k + 1)..((l + 1) - 1) : sysDate[j] = Base - 1
                             THEN (sysDate[k] + 1) % Base ELSE sysDate[k]
    BY DEF InNextPeriod
  <2>1. CASE k = l
    BY <1>5, <2>1
  <2>2. CASE k \in 0..(l - 1)
    BY <1>2, <1>4, <2>2 DEF InPeriod
  <2> QED
    BY <1>3, <2>1, <2>2
<1>7. d[l] > sysDate[l]
  BY <1>1, <1>2, SorterAssumption DEF Digits
<1> QED
  BY <1>1, <1>6, <1>7 DEF After, InPeriod

LEMMA MoveWrapped ==
  ASSUME sysDate \in Dates, NEW l \in 0..2, NEW d \in Dates,
         InNextPeriod(d, l), d[l] = (sysDate[l] + 1) % Base, d[l] = 0
  PROVE  InNextPeriod(d, l + 1)
<1>1. l \in Levels /\ sysDate[l] \in Digits
  BY DEF Levels, Dates
<1>2. sysDate[l] = Base - 1
  BY <1>1, NextDigit, SorterAssumption DEF Digits
<1>3. \A k \in 0..((l + 1) - 1) : k = l \/ k \in 0..(l - 1)
  OBVIOUS
<1>4. \A k \in 0..(l - 1) : \A j \in (k + 1)..((l + 1) - 1) :
        j = l \/ j \in (k + 1)..(l - 1)
  OBVIOUS
<1>5. \A k \in 0..(l - 1) : \A j \in (k + 1)..(l - 1) : j \in (k + 1)..((l + 1) - 1)
  OBVIOUS
<1>6. \A j \in (l + 1)..((l + 1) - 1) : FALSE
  OBVIOUS
<1> SUFFICES ASSUME NEW k \in 0..((l + 1) - 1)
             PROVE  d[k] = IF \A j \in (k + 1)..((l + 1) - 1) : sysDate[j] = Base - 1
                           THEN (sysDate[k] + 1) % Base ELSE sysDate[k]
  BY DEF InNextPeriod
<1>7. CASE k = l
  BY <1>6, <1>7
<1>8. CASE k \in 0..(l - 1)
  <2>1. (\A j \in (k + 1)..((l + 1) - 1) : sysDate[j] = Base - 1)
          <=> \A j \in (k + 1)..(l - 1) : sysDate[j] = Base - 1
    BY <1>2, <1>4, <1>5, <1>8
  <2> QED
    BY <1>8, <2>1 DEF InNextPeriod
<1> QED
  BY <1>3, <1>7, <1>8

(***************************************************************************)
(* The lists: what linking and unlinking an event do.                      *)
(***************************************************************************)
LEMMA EmptyList == InList(<<>>) = {} /\ NoRepeat(<<>>)
<1>1. Len(<<>>) = 0
  OBVIOUS
<1> QED
  BY <1>1 DEF InList, NoRepeat

LEMMA InListType ==
  ASSUME NEW S, NEW s \in Seq(S)
  PROVE  InList(s) \subseteq S
BY ElementOfSeq DEF InList

LEMMA AppendInList ==
  ASSUME NEW S, NEW s \in Seq(S), NEW e \in S
  PROVE  InList(Append(s, e)) = InList(s) \cup {e}
<1> DEFINE t == Append(s, e)
<1>1. /\ Len(s) \in Nat /\ Len(t) = Len(s) + 1
      /\ \A i \in 1..Len(s) : t[i] = s[i]
      /\ t[Len(s) + 1] = e
  BY AppendProperties, LenProperties
<1> HIDE DEF t
<1>2. \A i \in 1..Len(t) : i \in 1..Len(s) \/ i = Len(s) + 1
  BY <1>1
<1>3. /\ \A i \in 1..Len(s) : i \in 1..Len(t)
      /\ Len(s) + 1 \in 1..Len(t)
  BY <1>1
<1>4. InList(t) \subseteq InList(s) \cup {e}
  BY <1>1, <1>2 DEF InList
<1>5. InList(s) \cup {e} \subseteq InList(t)
  BY <1>1, <1>3 DEF InList
<1>6. InList(t) = InList(s) \cup {e}
  BY <1>4, <1>5
<1> QED
  BY <1>6 DEF t

LEMMA AppendNoRepeat ==
  ASSUME NEW S, NEW s \in Seq(S), NEW e \in S, NoRepeat(s), e \notin InList(s)
  PROVE  NoRepeat(Append(s, e))
<1> DEFINE t == Append(s, e)
<1>1. /\ Len(s) \in Nat /\ Len(t) = Len(s) + 1
      /\ \A i \in 1..Len(s) : t[i] = s[i]
      /\ t[Len(s) + 1] = e
  BY AppendProperties, LenProperties
<1> HIDE DEF t
<1>2. \A k \in 1..Len(s) : s[k] # e
  BY DEF InList
<1>3. NoRepeat(t)
  BY <1>1, <1>2 DEF NoRepeat
<1> QED
  BY <1>3 DEF t

LEMMA TailInList ==
  ASSUME NEW S, NEW s \in Seq(S), s # <<>>
  PROVE  /\ Tail(s) \in Seq(S)
         /\ Head(s) \in S /\ Head(s) \in InList(s)
         /\ InList(Tail(s)) \subseteq InList(s)
         /\ NoRepeat(s) => NoRepeat(Tail(s)) /\ Head(s) \notin InList(Tail(s))
<1> DEFINE t == Tail(s)
<1>1. /\ t \in Seq(S) /\ Head(s) \in S
      /\ Len(s) \in Nat \ {0}
      /\ Len(t) = Len(s) - 1
      /\ \A i \in 1..Len(t) : t[i] = s[i + 1]
  BY HeadTailProperties, EmptySeq
<1> HIDE DEF t
<1>2. Head(s) = s[1] /\ 1 \in 1..Len(s)
  BY <1>1
<1>3. \A i \in 1..Len(t) : i + 1 \in 1..Len(s)
  BY <1>1
<1>4. InList(t) \subseteq InList(s) /\ Head(s) \in InList(s)
  BY <1>1, <1>2, <1>3 DEF InList
<1>5. ASSUME NoRepeat(s) PROVE NoRepeat(t) /\ Head(s) \notin InList(t)
  <2>1. ASSUME NEW i \in 1..Len(t), NEW j \in 1..Len(t), t[i] = t[j]
        PROVE  i = j
    <3>1. s[i + 1] = s[j + 1] /\ i + 1 \in 1..Len(s) /\ j + 1 \in 1..Len(s)
      BY <1>1, <1>3, <2>1
    <3>2. i + 1 = j + 1
      BY <1>5, <3>1 DEF NoRepeat
    <3> QED
      BY <1>1, <3>2
  <2>2. ASSUME NEW i \in 1..Len(t) PROVE t[i] # Head(s)
    <3>1. s[i + 1] # s[1]
      BY <1>1, <1>2, <1>3, <1>5 DEF NoRepeat
    <3> QED
      BY <1>1, <1>2, <3>1
  <2> QED
    BY <2>1, <2>2 DEF NoRepeat, InList
<1>6. /\ t \in Seq(S) /\ Head(s) \in S /\ Head(s) \in InList(s)
      /\ InList(t) \subseteq InList(s)
      /\ NoRepeat(s) => NoRepeat(t) /\ Head(s) \notin InList(t)
  BY <1>1, <1>4, <1>5
<1> QED
  BY <1>6 DEF t

LEMMA ConcatInList ==
  ASSUME NEW S, NEW s \in Seq(S), NEW t \in Seq(S)
  PROVE  /\ s \o t \in Seq(S)
         /\ InList(s \o t) \subseteq InList(s) \cup InList(t)
<1> DEFINE u == s \o t
<1>1. /\ u \in Seq(S) /\ Len(s) \in Nat /\ Len(t) \in Nat
      /\ Len(u) = Len(s) + Len(t)
      /\ \A i \in 1..Len(u) : u[i] = IF i <= Len(s) THEN s[i] ELSE t[i - Len(s)]
  BY ConcatProperties, LenProperties
<1> HIDE DEF u
<1>2. \A i \in 1..Len(u) : \/ i \in 1..Len(s) /\ u[i] = s[i]
                           \/ i - Len(s) \in 1..Len(t) /\ u[i] = t[i - Len(s)]
  BY <1>1
<1>3. InList(u) \subseteq InList(s) \cup InList(t)
  BY <1>2 DEF InList
<1> QED
  BY <1>1, <1>3 DEF u

LEMMA ConcatNoRepeat ==
  ASSUME NEW S, NEW s \in Seq(S), NEW t \in Seq(S),
         NoRepeat(s), NoRepeat(t), Apart(s, t)
  PROVE  NoRepeat(s \o t)
<1> DEFINE u == s \o t
<1>1. /\ Len(s) \in Nat /\ Len(t) \in Nat
      /\ Len(u) = Len(s) + Len(t)
      /\ \A i \in 1..Len(u) : u[i] = IF i <= Len(s) THEN s[i] ELSE t[i - Len(s)]
  BY ConcatProperties, LenProperties
<1> HIDE DEF u
<1>2. \A i \in 1..Len(u) : \/ i \in 1..Len(s) /\ u[i] = s[i]
                           \/ i - Len(s) \in 1..Len(t) /\ u[i] = t[i - Len(s)]
  BY <1>1
<1>3. \A i \in 1..Len(s), j \in 1..Len(t) : s[i] # t[j]
  BY DEF Apart, InList
<1> SUFFICES ASSUME NEW i \in 1..Len(u), NEW j \in 1..Len(u), u[i] = u[j]
             PROVE  i = j
  BY DEF NoRepeat, u
<1>4. CASE i \in 1..Len(s) /\ u[i] = s[i] /\ j \in 1..Len(s) /\ u[j] = s[j]
  BY <1>4 DEF NoRepeat
<1>5. CASE /\ i - Len(s) \in 1..Len(t) /\ u[i] = t[i - Len(s)]
           /\ j - Len(s) \in 1..Len(t) /\ u[j] = t[j - Len(s)]
  <2>1. i - Len(s) = j - Len(s)
    BY <1>5 DEF NoRepeat
  <2> QED
    BY <1>1, <2>1
<1> QED
  BY <1>2, <1>3, <1>4, <1>5

\* OneList, with every place instead of those that are not empty.
Single ==
  /\ NoRepeat(in) /\ NoRepeat(todo) /\ NoRepeat(late) /\ NoRepeat(out)
  /\ Apart(in, todo) /\ Apart(in, late) /\ Apart(in, out)
  /\ Apart(todo, late) /\ Apart(todo, out) /\ Apart(late, out)
  /\ \A x \in Places :
       /\ NoRepeat(buf[x])
       /\ Apart(buf[x], in) /\ Apart(buf[x], todo)
       /\ Apart(buf[x], late) /\ Apart(buf[x], out)
  /\ \A x, y \in Places : x # y => Apart(buf[x], buf[y])

LEMMA OneListIsSingle == OneList <=> Single
<1>1. \A x \in Places : x \in Waiting \/ buf[x] = <<>>
  BY DEF Waiting
<1>2. \A x \in Waiting : x \in Places
  BY DEF Waiting
<1>3. OneList => Single
  BY <1>1, EmptyList DEF OneList, Single, Apart
<1>4. Single => OneList
  BY <1>2 DEF OneList, Single
<1> QED
  BY <1>3, <1>4

(***************************************************************************)
(* The initial states satisfy the invariant.                               *)
(***************************************************************************)
LEMMA InitIInv == Init => IInv
<1> SUFFICES ASSUME Init PROVE IInv
  OBVIOUS
<1> USE DEF Init, LevelInit
<1>1. <<>> \in Seq(Events)
  BY EmptySeq
<1>2. TypeOK
  <2>1. /\ in \in Seq(Events) /\ todo \in Seq(Events)
        /\ late \in Seq(Events) /\ out \in Seq(Events)
        /\ buf \in [Places -> Seq(Events)]
    BY <1>1
  <2>2. date \in [Events -> Dates] /\ sysDate \in Dates
    BY ZeroDigit
  <2>3. pri \in [Levels -> {0, 1}] /\ level \in Levels /\ moved \in Nat
        /\ pc \in {"idle", "input", "level", "ready"}
    BY DEF Levels
  <2>4. 1 \in Digits /\ 1 \in 0..Base
    BY SorterAssumption DEF Digits
  <2>5. pos \in [Levels -> Digits] /\ fifo \in [Levels -> {0, 1} \X (0..Base)]
    BY <2>4
  <2>6. \A l \in 0..2 : fifo[l][2] \in Digits
    BY <2>4 DEF Levels
  <2> QED
    BY <2>1, <2>2, <2>3, <2>5, <2>6 DEF TypeOK
<1>3. Placed
  <2>1. \A l \in Levels, b \in {0, 1}, i \in Digits : buf[<<l, b, i>>] = <<>>
    BY DEF Places
  <2> QED
    BY <2>1, EmptyList DEF Placed
<1>4. Aligned
  <2>1. /\ (0 + 1) % Base = 1 /\ 1 # 0
        /\ \A l \in Levels : sysDate[l] = 0 /\ pos[l] = 1 /\ pri[l] = 0
                             /\ fifo[l] = <<0, 1>> /\ ~ Behind(l)
    BY NextDigit, ZeroDigit, SorterAssumption DEF Digits, ZeroDate, Behind
  <2> QED
    BY <2>1 DEF Aligned, Levels
<1>5. OneList
  BY EmptyList DEF OneList, Waiting, Apart
<1>6. OnTime
  BY DEF OnTime
<1> QED
  BY <1>2, <1>3, <1>4, <1>5, <1>6 DEF IInv

(***************************************************************************)
(* What the last level releases follows from where the events are.         *)
(***************************************************************************)
LEMMA AfterIsNotNow ==
  ASSUME sysDate \in Dates, NEW d \in Dates, After(d, sysDate)
  PROVE  d # sysDate
BY SorterAssumption DEF After, Dates, Digits

LEMMA SameDate ==
  ASSUME sysDate \in Dates, NEW d \in Dates, InPeriod(d, 3)
  PROVE  d = sysDate <=> d[3] = sysDate[3]
<1>1. \A k \in Levels : k = 3 \/ k \in 0..(3 - 1)
  BY DEF Levels
<1> QED
  BY <1>1 DEF InPeriod, Dates

LEMMA OnTimeHolds == TypeOK /\ Placed /\ Aligned => OnTime
<1> SUFFICES ASSUME TypeOK, Placed, Aligned, pc = "level", level = 3,
                    NEW l \in Levels, NEW b \in {0, 1}, NEW i \in Digits,
                    NEW e \in InList(buf[<<l, b, i>>])
             PROVE  date[e] = sysDate
                      <=> <<l, b, i>> = <<3, Ready[1], Ready[2]>>
  BY DEF OnTime, Places
<1>1. sysDate \in Dates /\ e \in Events /\ date[e] \in Dates
  <2>1. buf[<<l, b, i>>] \in Seq(Events)
    BY DEF TypeOK, Places
  <2> QED
    BY <2>1, InListType DEF TypeOK
<1>2. /\ date[e][l] = i
      /\ b = pri[l] => InPrimary(date[e], l)
      /\ b # pri[l] => InAlternate(date[e], l)
  BY DEF Placed, Fits
<1>3. i \in Nat /\ sysDate[l] \in Nat
  BY <1>1, SorterAssumption DEF Dates, Digits
<1>4. ASSUME l # 3 PROVE date[e] # sysDate
  <2>1. ~ Behind(l)
    BY <1>4 DEF Behind, Levels
  <2>2. CASE b = pri[l]
    <3>1. date[e][l] > sysDate[l]
      BY <1>2, <2>1, <2>2 DEF InPrimary
    <3> QED
      BY <1>2, <1>3, <3>1
  <2>3. CASE b # pri[l]
    BY <1>1, <1>2, <2>1, <2>3, AfterIsNotNow DEF InAlternate
  <2> QED
    BY <2>2, <2>3
<1>5. Behind(3) /\ Turned(3)
  BY DEF Behind, Turned
<1>6. CASE l = 3 /\ sysDate[3] = 0
  <2>1. Carried(3)
    BY <1>5, <1>6 DEF Carried
  <2>2. b # pri[3] /\ InPeriod(date[e], 3)
    BY <1>2, <1>5, <1>6, <2>1 DEF InPrimary, InAlternate
  <2>3. Ready[1] = alt(3) /\ Ready[2] = 0 /\ b = alt(3)
    BY <1>6, <2>2 DEF Ready, alt, TypeOK, Levels
  <2>4. date[e] = sysDate <=> i = 0
    BY <1>1, <1>2, <1>6, <2>2, SameDate
  <2> QED
    BY <1>6, <2>3, <2>4
<1>7. CASE l = 3 /\ sysDate[3] # 0
  <2>1. Ready[1] = pri[3] /\ Ready[2] = sysDate[3]
    BY <1>5, <1>7 DEF Ready, Aligned
  <2>2. ~ Carried(3)
    BY <1>7 DEF Carried
  <2>3. CASE b = pri[3]
    <3>1. date[e] = sysDate <=> i = sysDate[3]
      BY <1>1, <1>2, <1>7, <2>3, SameDate DEF InPrimary
    <3> QED
      BY <1>7, <2>1, <2>3, <3>1
  <2>4. CASE b # pri[3]
    <3>1. date[e] # sysDate
      BY <1>1, <1>2, <1>7, <2>2, <2>4, AfterIsNotNow DEF InAlternate
    <3> QED
      BY <1>7, <2>1, <2>4, <3>1
  <2> QED
    BY <2>3, <2>4
<1> QED
  BY <1>4, <1>6, <1>7

(***************************************************************************)
(* Steps that take no event down and leave the clock and the levels alone. *)
(***************************************************************************)
Core == TypeOK /\ Placed /\ Aligned /\ OneList

\* To show that the events are in their places after a step.
LEMMA PlacedNext ==
  ASSUME \A l \in Levels, b \in {0, 1}, i \in Digits :
           \A e \in InList(buf'[<<l, b, i>>]) :
             \A d : d = date'[e] => Fits(d, l, b, i)'
  PROVE  Placed'
<1> SUFFICES ASSUME NEW l \in Levels, NEW b \in {0, 1}, NEW i \in Digits,
                    NEW e \in InList(buf'[<<l, b, i>>])
             PROVE  Fits(date[e], l, b, i)'
  BY DEF Placed
<1>1. PICK d : d = date'[e]
  OBVIOUS
<1>2. Fits(d, l, b, i)'
  BY <1>1
<1>3. /\ InPeriod(date[e], l)' <=> InPeriod(d, l)'
      /\ InNextPeriod(date[e], l)' <=> InNextPeriod(d, l)'
      /\ After(date[e], sysDate)' <=> After(d, sysDate)'
  BY <1>1 DEF InPeriod, InNextPeriod, After
<1>4. /\ InPrimary(date[e], l)' <=> InPrimary(d, l)'
      /\ InAlternate(date[e], l)' <=> InAlternate(d, l)'
  BY <1>1, <1>3 DEF InPrimary, InAlternate
<1> QED
  BY <1>1, <1>2, <1>4 DEF Fits

LEMMA SameClock ==
  ASSUME \A l \in Levels : Behind(l)' <=> Behind(l), UNCHANGED clock
  PROVE  /\ Aligned => Aligned'
         /\ \A d : \A l \in Levels, b \in {0, 1}, i \in Digits :
              Fits(d, l, b, i)' <=> Fits(d, l, b, i)
<1>1. UNCHANGED <<sysDate, pri, fifo, pos>>
  BY DEF clock
<1>2. ASSUME NEW l \in Levels
      PROVE  /\ Behind(l)' <=> Behind(l)
             /\ Turned(l)' <=> Turned(l)
             /\ Carried(l)' <=> Carried(l)
  <2>1. Turned(l)' <=> Turned(l)
    BY <1>1 DEF Turned
  <2> QED
    BY <1>1, <2>1 DEF Carried
<1>3. \A l \in Levels : alt(l)' = alt(l)
  BY <1>1 DEF alt
<1>4. ASSUME Aligned PROVE Aligned'
  <2>1. ASSUME NEW l \in 0..2
        PROVE  /\ pos'[l] = IF (Behind(l) /\ Turned(l))' THEN sysDate'[l]
                             ELSE (sysDate'[l] + 1) % Base
               /\ fifo'[l] = <<IF pos'[l] = 0 THEN alt(l)' ELSE pri'[l], pos'[l]>>
    <3>1. l \in Levels
      BY DEF Levels
    <3>2. (Behind(l) /\ Turned(l))' <=> Behind(l) /\ Turned(l)
      BY <1>2, <3>1
    <3> QED
      BY <1>1, <1>3, <1>4, <3>1, <3>2 DEF Aligned
  <2>2. fifo'[3] = <<pri'[3], IF ~ Behind(3)' THEN sysDate'[3] + 1
                              ELSE IF sysDate'[3] = 0 THEN Base ELSE sysDate'[3]>>
    <3>1. Behind(3)' <=> Behind(3)
      BY <1>2 DEF Levels
    <3> QED
      BY <1>1, <1>4, <3>1 DEF Aligned
  <2> QED
    BY <2>1, <2>2 DEF Aligned
<1>5. ASSUME NEW l \in Levels, NEW b \in {0, 1}, NEW i \in Digits, NEW d
      PROVE  Fits(d, l, b, i)' <=> Fits(d, l, b, i)
  <2>1. /\ InPeriod(d, l)' <=> InPeriod(d, l)
        /\ InNextPeriod(d, l)' <=> InNextPeriod(d, l)
        /\ After(d, sysDate)' <=> After(d, sysDate)
    BY <1>1 DEF InPeriod, InNextPeriod, After
  <2>2. InPrimary(d, l)' <=> InPrimary(d, l)
    BY <1>1, <1>2, <2>1 DEF InPrimary
  <2>3. InAlternate(d, l)' <=> InAlternate(d, l)
    BY <1>2, <2>1 DEF InAlternate
  <2> QED
    BY <1>1, <2>2, <2>3 DEF Fits
<1> QED
  BY <1>4, <1>5

LEMMA Quiet ==
  ASSUME Core, \A l \in Levels : Behind(l)' <=> Behind(l), UNCHANGED clock,
         \A x \in Places : InList(buf'[x]) \subseteq InList(buf[x]),
         \A x \in Places : \A e \in InList(buf'[x]) : date'[e] = date[e]
  PROVE  Placed' /\ Aligned'
<1>1. Aligned'
  BY SameClock DEF Core
<1>2. Placed'
  <2> SUFFICES ASSUME NEW l \in Levels, NEW b \in {0, 1}, NEW i \in Digits,
                      NEW e \in InList(buf'[<<l, b, i>>]), NEW d, d = date'[e]
               PROVE  Fits(d, l, b, i)'
    BY PlacedNext
  <2>1. e \in InList(buf[<<l, b, i>>]) /\ d = date[e]
    BY DEF Places
  <2>2. Fits(d, l, b, i)
    BY <2>1 DEF Placed, Core
  <2> QED
    BY <2>2, SameClock
<1> QED
  BY <1>1, <1>2

LEMMA SendStep ==
  ASSUME Core, NEW e \in Events, NEW ahead \in 0..Reach, Send(e, ahead)
  PROVE  Core'
<1>1. /\ e \in Idle
      /\ in' = Append(in, e)
      /\ date' = [date EXCEPT ![e] = ToDate((Number(sysDate) + ahead) % MaxDate)]
      /\ UNCHANGED <<todo, late, buf, sysDate, pri, fifo, pos, pc, level, moved,
                     out>>
  BY DEF Send, clock
<1>2. /\ e \notin InList(in) /\ e \notin InList(todo)
      /\ e \notin InList(late) /\ e \notin InList(out)
      /\ \A x \in Places : e \notin InList(buf[x])
  <2>1. e \notin InSorter
    BY <1>1 DEF Idle
  <2>2. e \notin UNION {InList(buf[x]) : x \in Places} /\ e \notin InList(late)
    BY <2>1 DEF InSorter
  <2>3. \A x \in Places : e \notin InList(buf[x])
    BY <2>2
  <2> QED
    BY <1>1, <2>2, <2>3 DEF Idle
<1>3. TypeOK /\ Single
  BY OneListIsSingle DEF Core
<1>4. ToDate((Number(sysDate) + ahead) % MaxDate) \in Dates
  BY <1>3, SorterAssumption, SentDate DEF TypeOK
<1>5. in' \in Seq(Events)
  BY <1>1, <1>3, AppendProperties DEF TypeOK
<1>6. InList(in') = InList(in) \cup {e}
  BY <1>1, <1>3, AppendInList DEF TypeOK
<1>7. NoRepeat(in')
  BY <1>1, <1>2, <1>3, AppendNoRepeat DEF TypeOK, Single
<1>8. TypeOK'
  BY <1>1, <1>3, <1>4, <1>5 DEF TypeOK
<1>9. \A x \in Places : \A f \in InList(buf'[x]) : date'[f] = date[f]
  <2> SUFFICES ASSUME NEW x \in Places, NEW f \in InList(buf[x])
               PROVE  date'[f] = date[f]
    BY <1>1
  <2>1. f # e /\ date \in [Events -> Dates]
    BY <1>2, <1>3 DEF TypeOK
  <2>2. f \in Events
    BY <1>3, InListType DEF TypeOK
  <2> QED
    BY <1>1, <2>1, <2>2
<1>10. Placed' /\ Aligned'
  <2>1. \A l \in Levels : Behind(l)' <=> Behind(l)
    BY <1>1 DEF Behind
  <2>2. UNCHANGED clock /\ \A x \in Places : InList(buf'[x]) \subseteq InList(buf[x])
    BY <1>1 DEF clock
  <2> QED
    BY <1>9, <2>1, <2>2, Quiet
<1>11. Single'
  BY <1>1, <1>2, <1>3, <1>6, <1>7 DEF Single, Apart
<1> QED
  BY <1>8, <1>10, <1>11, OneListIsSingle, PTL DEF Core

LEMMA ClockHandlerStep ==
  ASSUME Core, ClockHandler
  PROVE  Core'
<1>1. /\ pc = "idle" /\ pc' = "input" /\ todo' = in /\ in' = <<>>
      /\ UNCHANGED <<date, late, buf, sysDate, pri, fifo, pos, level, moved, out>>
  BY DEF ClockHandler, clock
<1>2. TypeOK /\ Single
  BY OneListIsSingle DEF Core
<1>3. TypeOK'
  BY <1>1, <1>2, EmptySeq DEF TypeOK
<1>4. Placed' /\ Aligned'
  <2>1. /\ \A l \in Levels : Behind(l)' <=> Behind(l)
        /\ UNCHANGED clock
        /\ \A x \in Places : InList(buf'[x]) \subseteq InList(buf[x])
        /\ \A x \in Places : \A e \in InList(buf'[x]) : date'[e] = date[e]
    BY <1>1 DEF clock, Behind
  <2> QED
    BY <2>1, Quiet
<1>5. Single'
  BY <1>1, <1>2, EmptyList DEF Single, Apart
<1> QED
  BY <1>3, <1>4, <1>5, OneListIsSingle, PTL DEF Core

LEMMA DispatchStep ==
  ASSUME Core, Dispatch
  PROVE  Core'
<1>1. /\ pc = "ready" /\ pc' = "idle" /\ out' = <<>>
      /\ date' = [e \in Events |-> IF e \in InList(out) THEN ZeroDate ELSE date[e]]
      /\ UNCHANGED <<in, todo, late, buf, sysDate, pri, fifo, pos, level, moved>>
  BY DEF Dispatch, clock
<1>2. TypeOK /\ Single
  BY OneListIsSingle DEF Core
<1>3. date' \in [Events -> Dates]
  BY <1>1, <1>2, ZeroDigit DEF TypeOK
<1>4. TypeOK'
  BY <1>1, <1>2, <1>3, EmptySeq DEF TypeOK
<1>5. Placed' /\ Aligned'
  <2>1. \A x \in Places : \A e \in InList(buf'[x]) : date'[e] = date[e]
    <3> SUFFICES ASSUME NEW x \in Places, NEW e \in InList(buf[x])
                 PROVE  date'[e] = date[e]
      BY <1>1
    <3>1. e \notin InList(out)
      BY <1>2 DEF Single, Apart
    <3>2. e \in Events
      BY <1>2, InListType DEF TypeOK
    <3> QED
      BY <1>1, <3>1, <3>2
  <2>2. /\ \A l \in Levels : Behind(l)' <=> Behind(l)
        /\ UNCHANGED clock
        /\ \A x \in Places : InList(buf'[x]) \subseteq InList(buf[x])
    BY <1>1 DEF clock, Behind
  <2> QED
    BY <2>1, <2>2, Quiet
<1>6. Single'
  BY <1>1, <1>2, EmptyList DEF Single, Apart
<1> QED
  BY <1>4, <1>5, <1>6, OneListIsSingle, PTL DEF Core

LEMMA PutEventStep ==
  ASSUME Core, PutEvent
  PROVE  Core'
<1> DEFINE e == Head(todo)
           l == FirstAbove(date[e])
           x == <<l, pri[l], date[e][l]>>
<1>1. /\ pc = "input" /\ todo # <<>> /\ todo' = Tail(todo)
      /\ UNCHANGED <<in, date, sysDate, pri, fifo, pos, pc, level, moved, out>>
      /\ \/ /\ After(date[e], sysDate)
            /\ buf' = [buf EXCEPT ![x] = Append(@, e)]
            /\ UNCHANGED late
         \/ /\ ~ After(date[e], sysDate)
            /\ late' = Append(late, e)
            /\ UNCHANGED buf
  BY DEF PutEvent, clock
<1>2. TypeOK /\ Single
  BY OneListIsSingle DEF Core
<1>3. /\ e \in Events /\ e \in InList(todo) /\ todo' \in Seq(Events)
      /\ InList(todo') \subseteq InList(todo)
      /\ NoRepeat(todo') /\ e \notin InList(todo')
  <2>1. todo \in Seq(Events) /\ NoRepeat(todo)
    BY <1>2 DEF TypeOK, Single
  <2> QED
    BY <1>1, <2>1, TailInList
<1>4. date[e] \in Dates
  BY <1>2, <1>3 DEF TypeOK
<1>5. /\ e \notin InList(in) /\ e \notin InList(late) /\ e \notin InList(out)
      /\ \A y \in Places : e \notin InList(buf[y])
  BY <1>2, <1>3 DEF Single, Apart
<1> HIDE DEF e
<1>6. \A k \in Levels : ~ Behind(k) /\ (Behind(k)' <=> Behind(k))
  BY <1>1 DEF Behind
<1>7. UNCHANGED clock
  BY <1>1 DEF clock
<1>8. CASE ~ After(date[e], sysDate) /\ late' = Append(late, e) /\ UNCHANGED buf
  <2>1. late' \in Seq(Events)
    BY <1>2, <1>3, <1>8, AppendProperties DEF TypeOK
  <2>2. InList(late') = InList(late) \cup {e}
    BY <1>2, <1>3, <1>8, AppendInList DEF TypeOK
  <2>3. NoRepeat(late')
    BY <1>2, <1>3, <1>5, <1>8, AppendNoRepeat DEF TypeOK, Single
  <2>4. TypeOK'
    BY <1>1, <1>2, <1>3, <1>8, <2>1 DEF TypeOK
  <2>5. Placed' /\ Aligned'
    BY <1>1, <1>6, <1>7, <1>8, Quiet
  <2>6. Single'
    <3>1. /\ NoRepeat(in) /\ NoRepeat(todo') /\ NoRepeat(late') /\ NoRepeat(out)
          /\ \A z \in Places : NoRepeat(buf[z])
      BY <1>2, <1>3, <2>3 DEF Single
    <3>2. /\ Apart(in, todo') /\ Apart(in, late') /\ Apart(in, out)
          /\ Apart(todo', late') /\ Apart(todo', out) /\ Apart(late', out)
      BY <1>2, <1>3, <1>5, <2>2 DEF Single, Apart
    <3>3. /\ \A z \in Places : /\ Apart(buf[z], in) /\ Apart(buf[z], todo')
                               /\ Apart(buf[z], late') /\ Apart(buf[z], out)
          /\ \A y, z \in Places : y # z => Apart(buf[y], buf[z])
      BY <1>2, <1>3, <1>5, <2>2 DEF Single, Apart
    <3> QED
      BY <1>1, <1>8, <3>1, <3>2, <3>3 DEF Single, Apart, NoRepeat
  <2> QED
    BY <2>4, <2>5, <2>6, OneListIsSingle, PTL DEF Core
<1>9. CASE /\ After(date[e], sysDate)
           /\ buf' = [buf EXCEPT ![x] = Append(@, e)]
           /\ UNCHANGED late
  <2>1. /\ l \in Levels /\ InPeriod(date[e], l) /\ date[e][l] > sysDate[l]
    BY <1>2, <1>4, <1>9, PutPlace DEF TypeOK
  <2>2. x \in Places /\ pri[l] \in {0, 1} /\ date[e][l] \in Digits
    BY <1>2, <1>4, <2>1 DEF TypeOK, Places, Dates
  <2>3. /\ buf'[x] = Append(buf[x], e)
        /\ \A y \in Places : y # x => buf'[y] = buf[y]
        /\ buf[x] \in Seq(Events)
    BY <1>2, <1>9, <2>2 DEF TypeOK
  <2> HIDE DEF l, x
  <2>4. Append(buf[x], e) \in Seq(Events)
    BY <1>3, <2>3, AppendProperties
  <2>5. InList(buf'[x]) = InList(buf[x]) \cup {e}
    BY <1>3, <2>3, AppendInList
  <2>6. NoRepeat(buf'[x])
    BY <1>2, <1>3, <1>5, <2>2, <2>3, AppendNoRepeat DEF Single
  <2>7. TypeOK'
    <3>1. buf' \in [Places -> Seq(Events)]
      BY <1>2, <1>9, <2>4 DEF TypeOK
    <3> QED
      BY <1>1, <1>2, <1>3, <1>9, <3>1 DEF TypeOK
  <2>8. Fits(date[e], l, pri[l], date[e][l])
    BY <1>6, <2>1 DEF Fits, InPrimary
  <2>9. Aligned'
    BY <1>6, <1>7, SameClock DEF Core
  <2>10. Placed'
    <3> SUFFICES ASSUME NEW k \in Levels, NEW b \in {0, 1}, NEW i \in Digits,
                        NEW f \in InList(buf'[<<k, b, i>>]), NEW d, d = date'[f]
                 PROVE  Fits(d, k, b, i)'
      BY PlacedNext
    <3>1. d = date[f]
      BY <1>1
    <3>2. <<k, b, i>> \in Places
      BY DEF Places
    <3>3. CASE f \in InList(buf[<<k, b, i>>])
      <4>1. Fits(d, k, b, i)
        BY <3>1, <3>3 DEF Placed, Core
      <4> QED
        BY <1>6, <1>7, <4>1, SameClock
    <3>4. CASE f \notin InList(buf[<<k, b, i>>])
      <4>1. <<k, b, i>> = x /\ f = e
        BY <2>3, <2>5, <3>2, <3>4
      <4>2. Fits(d, k, b, i)
        BY <2>8, <3>1, <4>1 DEF x
      <4> QED
        BY <1>6, <1>7, <4>2, SameClock
    <3> QED
      BY <3>3, <3>4
  <2>11. Single'
    <3>1. /\ NoRepeat(in)' /\ NoRepeat(todo)' /\ NoRepeat(late)' /\ NoRepeat(out)'
          /\ Apart(in, todo)' /\ Apart(in, late)' /\ Apart(in, out)'
          /\ Apart(todo, late)' /\ Apart(todo, out)' /\ Apart(late, out)'
      BY <1>1, <1>2, <1>3, <1>9 DEF Single, Apart
    <3>2. ASSUME NEW y \in Places
          PROVE  InList(buf'[y]) = IF y = x THEN InList(buf[y]) \cup {e}
                                   ELSE InList(buf[y])
      BY <2>3, <2>5
    <3>3. ASSUME NEW y \in Places
          PROVE  /\ NoRepeat(buf'[y])
                 /\ Apart(buf[y], in)' /\ Apart(buf[y], todo)'
                 /\ Apart(buf[y], late)' /\ Apart(buf[y], out)'
      <4>1. NoRepeat(buf'[y])
        <5>1. NoRepeat(buf[y])
          BY <1>2 DEF Single
        <5>2. CASE y = x
          BY <2>6, <5>2
        <5>3. CASE y # x
          <6>1. buf'[y] = buf[y]
            BY <2>3, <5>3
          <6> QED
            BY <5>1, <6>1
        <5> QED
          BY <5>2, <5>3
      <4>2. InList(buf'[y]) \subseteq InList(buf[y]) \cup {e}
        BY <3>2
      <4>3. /\ Apart(buf[y], in) /\ Apart(buf[y], todo)
            /\ Apart(buf[y], late) /\ Apart(buf[y], out)
        BY <1>2 DEF Single
      <4>4. Apart(buf[y], in)' /\ Apart(buf[y], todo)'
        BY <1>1, <1>3, <1>5, <4>2, <4>3 DEF Apart
      <4>5. Apart(buf[y], late)' /\ Apart(buf[y], out)'
        BY <1>1, <1>5, <1>9, <4>2, <4>3 DEF Apart
      <4> QED
        BY <4>1, <4>4, <4>5
    <3>4. ASSUME NEW y \in Places, NEW z \in Places, y # z
          PROVE  Apart(buf[y], buf[z])'
      BY <1>2, <1>5, <3>2, <3>4 DEF Single, Apart
    <3> QED
      BY <3>1, <3>3, <3>4 DEF Single
  <2> QED
    BY <2>7, <2>9, <2>10, <2>11, OneListIsSingle, PTL DEF Core
<1> QED
  BY <1>1, <1>8, <1>9

LEMMA NextDateStep ==
  ASSUME Core, NextDate
  PROVE  Core'
<1>1. /\ pc = "input" /\ sysDate' = Following(sysDate)
      /\ pc' = "level" /\ level' = 0 /\ moved' = 0
      /\ UNCHANGED <<in, todo, date, late, buf, pri, fifo, pos, out>>
  BY DEF NextDate
<1>2. TypeOK /\ Placed /\ Aligned /\ Single
  BY OneListIsSingle DEF Core
<1>3. sysDate \in Dates /\ sysDate' \in Dates
  BY <1>1, <1>2, FollowingDigits DEF TypeOK
<1>4. TypeOK'
  BY <1>1, <1>2, <1>3 DEF TypeOK, Levels
<1>5. \A l \in Levels : ~ Behind(l) /\ Behind(l)'
  BY <1>1 DEF Behind, Levels
<1>6. ASSUME NEW l \in Levels
      PROVE  /\ sysDate[l] \in Digits /\ sysDate'[l] \in Digits
             /\ sysDate'[l] = IF Turned(l)' THEN (sysDate[l] + 1) % Base
                              ELSE sysDate[l]
             /\ Carried(l)' <=> sysDate'[l] = 0 /\ Turned(l)'
  BY <1>1, <1>3, FollowingDigits DEF Dates, Carried
<1>7. Placed'
  <2> SUFFICES ASSUME NEW l \in Levels, NEW b \in {0, 1}, NEW i \in Digits,
                      NEW e \in InList(buf'[<<l, b, i>>]), NEW d, d = date'[e]
               PROVE  Fits(d, l, b, i)'
    BY PlacedNext
  <2>1. Fits(d, l, b, i)
    BY <1>1, <1>2 DEF Placed
  <2>2. d \in Dates /\ d[l] = i /\ i \in Digits
    <3>1. e \in Events
      BY <1>1, <1>2, InListType DEF TypeOK, Places
    <3> QED
      BY <1>1, <1>2, <2>1, <3>1 DEF TypeOK, Fits
  <2>3. CASE b = pri[l]
    <3>1. InPeriod(d, l) /\ i > sysDate[l]
      BY <1>5, <2>1, <2>2, <2>3 DEF Fits, InPrimary
    <3>2. ~ Carried(l)'
      <4>1. Carried(l)' => sysDate[l] = Base - 1
        BY <1>1, <1>3, <2>2, NextPeriodBegins
      <4> QED
        BY <1>6, <2>2, <3>1, <4>1, SorterAssumption DEF Digits
    <3>3. InPeriod(d, l)'
      BY <1>1, <1>3, <2>2, <3>1, <3>2, SamePeriod
    <3>4. CASE Turned(l)'
      <4>1. sysDate'[l] = (sysDate[l] + 1) % Base /\ sysDate'[l] # 0
        BY <1>6, <3>2, <3>4
      <4>2. sysDate'[l] = sysDate[l] + 1
        BY <1>6, <4>1, NextDigit
      <4>3. d[l] > sysDate'[l] \/ d[l] = sysDate'[l]
        BY <1>6, <2>2, <3>1, <4>2, SorterAssumption DEF Digits
      <4>4. InPrimary(d, l)'
        BY <1>5, <3>2, <3>3, <3>4, <4>3 DEF InPrimary
      <4> QED
        BY <1>1, <2>2, <2>3, <4>4 DEF Fits
    <3>5. CASE ~ Turned(l)'
      <4>1. d[l] > sysDate'[l]
        BY <1>6, <2>2, <3>1, <3>5
      <4>2. InPrimary(d, l)'
        BY <3>2, <3>3, <4>1 DEF InPrimary
      <4> QED
        BY <1>1, <2>2, <2>3, <4>2 DEF Fits
    <3> QED
      BY <3>4, <3>5
  <2>4. CASE b # pri[l]
    <3>1. l > 0 /\ InNextPeriod(d, l) /\ After(d, sysDate)
      BY <1>5, <2>1, <2>4 DEF Fits, InAlternate
    <3>2. CASE Carried(l)'
      <4>1. InPeriod(d, l)'
        BY <1>1, <1>3, <2>2, <3>1, <3>2, NextPeriodBegins
      <4>2. InAlternate(d, l)'
        BY <1>5, <3>1, <3>2, <4>1 DEF InAlternate
      <4> QED
        BY <1>1, <2>2, <2>4, <4>2 DEF Fits
    <3>3. CASE ~ Carried(l)'
      <4>1. InNextPeriod(d, l)' /\ After(d, sysDate')
        BY <1>1, <1>3, <2>2, <3>1, <3>3, SamePeriod
      <4>2. InAlternate(d, l)'
        BY <3>1, <3>3, <4>1 DEF InAlternate
      <4> QED
        BY <1>1, <2>2, <2>4, <4>2 DEF Fits
    <3> QED
      BY <3>2, <3>3
  <2> QED
    BY <2>3, <2>4
<1>8. Aligned'
  <2>1. ASSUME NEW l \in 0..2
        PROVE  /\ pos'[l] = IF (Behind(l) /\ Turned(l))' THEN sysDate'[l]
                            ELSE (sysDate'[l] + 1) % Base
               /\ fifo'[l] = <<IF pos'[l] = 0 THEN alt(l)' ELSE pri'[l], pos'[l]>>
    <3>1. l \in Levels
      BY DEF Levels
    <3>2. /\ pos[l] = (sysDate[l] + 1) % Base
          /\ fifo[l] = <<IF pos[l] = 0 THEN alt(l) ELSE pri[l], pos[l]>>
      BY <1>2, <1>5, <3>1 DEF Aligned
    <3> QED
      BY <1>1, <1>5, <1>6, <3>1, <3>2 DEF alt
  <2>2. fifo'[3] = <<pri'[3], IF ~ Behind(3)' THEN sysDate'[3] + 1
                              ELSE IF sysDate'[3] = 0 THEN Base ELSE sysDate'[3]>>
    <3>1. 3 \in Levels
      BY DEF Levels
    <3>2. Turned(3)'
      BY DEF Turned
    <3>3. sysDate'[3] = IF sysDate[3] = Base - 1 THEN 0 ELSE sysDate[3] + 1
      BY <1>6, <3>1, <3>2, NextDigit
    <3>4. sysDate[3] + 1 = IF sysDate'[3] = 0 THEN Base ELSE sysDate'[3]
      BY <1>6, <3>1, <3>3, SorterAssumption DEF Digits
    <3>5. fifo[3] = <<pri[3], sysDate[3] + 1>>
      BY <1>2, <1>5, <3>1 DEF Aligned
    <3> QED
      BY <1>1, <1>5, <3>1, <3>4, <3>5
  <2> QED
    BY <2>1, <2>2 DEF Aligned
<1>9. Single'
  BY <1>1, <1>2 DEF Single, Apart
<1> QED
  BY <1>4, <1>7, <1>8, <1>9, OneListIsSingle, PTL DEF Core

(***************************************************************************)
(* Steps of the levels.                                                    *)
(***************************************************************************)
\* A level that a step does not concern.
LEMMA SameLevel ==
  ASSUME NEW l \in Levels, Behind(l)' <=> Behind(l),
         sysDate' = sysDate, pri'[l] = pri[l],
         NEW b \in {0, 1}, NEW i \in Digits, NEW d, Fits(d, l, b, i)
  PROVE  Fits(d, l, b, i)'
<1>1. /\ InPeriod(d, l)' <=> InPeriod(d, l)
      /\ InNextPeriod(d, l)' <=> InNextPeriod(d, l)
      /\ After(d, sysDate)' <=> After(d, sysDate)
  BY DEF InPeriod, InNextPeriod, After
<1>2. (Turned(l)' <=> Turned(l)) /\ (Carried(l)' <=> Carried(l))
  BY DEF Turned, Carried
<1>3. InPrimary(d, l)' <=> InPrimary(d, l)
  BY <1>1, <1>2 DEF InPrimary
<1>4. InAlternate(d, l)' <=> InAlternate(d, l)
  BY <1>1, <1>2 DEF InAlternate
<1> QED
  BY <1>3, <1>4 DEF Fits

\* The level that the clock leaves: its buffers are exchanged if its digit came
\* back to 0, and an event that is not in the fifo of the digit that came is
\* where it must be.
LEMMA LevelPassed ==
  ASSUME sysDate \in Dates, NEW l \in Levels, pri[l] \in {0, 1},
         Behind(l), ~ Behind(l)', sysDate' = sysDate,
         pri'[l] = IF Carried(l) THEN 1 - pri[l] ELSE pri[l],
         NEW b \in {0, 1}, NEW i \in Digits, NEW d, Fits(d, l, b, i),
         Turned(l) => ~ ( /\ b = IF Carried(l) THEN alt(l) ELSE pri[l]
                          /\ i = sysDate[l] )
  PROVE  Fits(d, l, b, i)'
<1>1. /\ InPeriod(d, l)' <=> InPeriod(d, l)
      /\ InNextPeriod(d, l)' <=> InNextPeriod(d, l)
      /\ After(d, sysDate)' <=> After(d, sysDate)
  BY DEF InPeriod, InNextPeriod, After
<1>2. Carried(l) => Turned(l) /\ sysDate[l] = 0
  BY DEF Carried
<1>3. d[l] = i
  BY DEF Fits
<1>4. CASE Carried(l)
  <2>1. b # pri[l]
    BY <1>2, <1>4 DEF Fits, InPrimary
  <2>2. b = alt(l) /\ b = pri'[l] /\ i # sysDate[l]
    BY <1>2, <1>4, <2>1 DEF alt
  <2>3. InPeriod(d, l)
    BY <1>4, <2>1 DEF Fits, InAlternate
  <2>4. i > sysDate[l]
    BY <1>2, <1>4, <2>2, SorterAssumption DEF Digits
  <2>5. InPrimary(d, l)'
    BY <1>1, <1>3, <2>3, <2>4 DEF InPrimary
  <2> QED
    BY <1>3, <2>2, <2>5 DEF Fits
<1>5. CASE ~ Carried(l) /\ b = pri[l]
  <2>1. InPeriod(d, l) /\ d[l] > sysDate[l]
    BY <1>3, <1>5 DEF Fits, InPrimary
  <2>2. InPrimary(d, l)'
    BY <1>1, <2>1 DEF InPrimary
  <2> QED
    BY <1>3, <1>5, <2>2 DEF Fits
<1>6. CASE ~ Carried(l) /\ b # pri[l]
  <2>1. l > 0 /\ InNextPeriod(d, l) /\ After(d, sysDate)
    BY <1>6 DEF Fits, InAlternate
  <2>2. InAlternate(d, l)'
    BY <1>1, <2>1 DEF InAlternate
  <2> QED
    BY <1>3, <1>6, <2>2 DEF Fits
<1> QED
  BY <1>4, <1>5, <1>6

\* Where BufferPut puts an event is where it must be.
LEMMA MoveFits ==
  ASSUME TypeOK, Placed, Aligned, NEW l \in 0..2, pc = "level", level = l,
         NEW e \in InList(Current(l)), date[e] \in Dates
  PROVE  Fits(date[e], l + 1, alt(l + 1), date[e][l + 1])
<1>1. /\ l \in Levels /\ l + 1 \in Levels /\ l + 1 > 0
      /\ sysDate \in Dates /\ sysDate[l] \in Digits
      /\ pri[l] \in {0, 1} /\ pri[l + 1] \in {0, 1} /\ fifo[l][2] \in Digits
  BY DEF TypeOK, Levels, Dates
<1>2. Behind(l) /\ Behind(l + 1)
  BY DEF Behind
<1>3. Carried(l + 1) <=> Turned(l)
  BY DEF Carried, Turned, Levels
<1>4. /\ pos[l] = IF Turned(l) THEN sysDate[l] ELSE (sysDate[l] + 1) % Base
      /\ fifo[l] = <<IF pos[l] = 0 THEN alt(l) ELSE pri[l], pos[l]>>
  BY <1>2 DEF Aligned
<1>5. /\ fifo[l][1] = IF pos[l] = 0 THEN alt(l) ELSE pri[l]
      /\ fifo[l][2] = pos[l]
  BY <1>4
<1>6. fifo[l][1] \in {0, 1}
  BY <1>1, <1>5 DEF alt
<1>7. Fits(date[e], l, fifo[l][1], fifo[l][2])
  BY <1>1, <1>6 DEF Placed, Current
<1>8. date[e][l] = pos[l]
  BY <1>5, <1>7 DEF Fits
<1>9. IF pos[l] = 0 THEN InAlternate(date[e], l) ELSE InPrimary(date[e], l)
  BY <1>1, <1>5, <1>7 DEF Fits, alt
<1>10. alt(l + 1) # pri[l + 1]
  BY <1>1 DEF alt
<1>11. CASE Turned(l)
  <2>1. InPeriod(date[e], l)
    <3>1. pos[l] = 0 => Carried(l)
      BY <1>4, <1>11 DEF Carried
    <3> QED
      BY <1>2, <1>9, <3>1 DEF InAlternate, InPrimary
  <2>2. InPeriod(date[e], l + 1)
    BY <1>1, <1>4, <1>8, <1>11, <2>1, MoveCurrent
  <2>3. InAlternate(date[e], l + 1)
    BY <1>1, <1>2, <1>3, <1>11, <2>2 DEF InAlternate
  <2> QED
    BY <1>10, <2>3 DEF Fits
<1>12. CASE ~ Turned(l)
  <2>1. ~ Carried(l)
    BY <1>12 DEF Carried
  <2>2. InNextPeriod(date[e], l + 1) /\ After(date[e], sysDate)
    <3>1. CASE pos[l] = 0
      BY <1>1, <1>4, <1>8, <1>9, <1>12, <2>1, <3>1, MoveWrapped DEF InAlternate
    <3>2. CASE pos[l] # 0
      BY <1>1, <1>4, <1>8, <1>9, <1>12, <3>2, MoveNext DEF InPrimary
    <3> QED
      BY <3>1, <3>2
  <2>3. InAlternate(date[e], l + 1)
    BY <1>1, <1>3, <1>12, <2>2 DEF InAlternate
  <2> QED
    BY <1>10, <2>3 DEF Fits
<1> QED
  BY <1>11, <1>12

LEMMA BufferPutStep ==
  ASSUME Core, NEW l \in 0..2, BufferPut(l)
  PROVE  Core'
<1> DEFINE x == <<l, fifo[l][1], fifo[l][2]>>
           e == Head(buf[x])
           y == <<l + 1, alt(l + 1), date[e][l + 1]>>
<1>1. /\ pc = "level" /\ level = l /\ buf[x] # <<>>
      /\ buf' = [buf EXCEPT ![x] = Tail(@), ![y] = Append(@, e)]
      /\ moved' = moved + 1
      /\ UNCHANGED <<in, todo, date, late, sysDate, pri, fifo, pos, pc, level, out>>
  BY DEF BufferPut, MoreToMove, Current, clock
<1>2. TypeOK /\ Placed /\ Aligned /\ Single
  BY OneListIsSingle DEF Core
<1>3. l \in Levels /\ l + 1 \in Levels /\ l + 1 # l
  BY DEF Levels
<1>4. x \in Places /\ buf[x] \in Seq(Events)
  <2>1. fifo[l][1] \in {0, 1} /\ fifo[l][2] \in Digits
    BY <1>2, <1>3 DEF TypeOK
  <2> QED
    BY <1>2, <1>3, <2>1 DEF TypeOK, Places
<1>5. /\ e \in Events /\ e \in InList(buf[x])
      /\ Tail(buf[x]) \in Seq(Events)
      /\ InList(Tail(buf[x])) \subseteq InList(buf[x])
      /\ NoRepeat(Tail(buf[x])) /\ e \notin InList(Tail(buf[x]))
  <2>1. NoRepeat(buf[x])
    BY <1>2, <1>4 DEF Single
  <2> QED
    BY <1>1, <1>4, <2>1, TailInList
<1>6. date[e] \in Dates
  BY <1>2, <1>5 DEF TypeOK
<1>7. y \in Places /\ y # x /\ buf[y] \in Seq(Events)
  <2>1. alt(l + 1) \in {0, 1} /\ date[e][l + 1] \in Digits
    <3>1. pri[l + 1] \in {0, 1}
      BY <1>2, <1>3 DEF TypeOK
    <3>2. date[e][l + 1] \in Digits
      BY <1>3, <1>6 DEF Dates
    <3> QED
      BY <3>1, <3>2 DEF alt
  <2>2. y \in Places /\ y # x
    BY <1>3, <2>1 DEF Places
  <2> QED
    BY <1>2, <2>2 DEF TypeOK
<1>8. Fits(date[e], l + 1, alt(l + 1), date[e][l + 1])
  BY <1>1, <1>2, <1>5, <1>6, MoveFits DEF Current
<1>9. /\ e \notin InList(in) /\ e \notin InList(todo)
      /\ e \notin InList(late) /\ e \notin InList(out)
  BY <1>2, <1>4, <1>5 DEF Single, Apart
<1>10. \A z \in Places : z # x => e \notin InList(buf[z])
  BY <1>2, <1>4, <1>5 DEF Single, Apart
<1>11. /\ buf'[x] = Tail(buf[x]) /\ buf'[y] = Append(buf[y], e)
       /\ \A z \in Places : z # x /\ z # y => buf'[z] = buf[z]
       /\ buf' = [z \in Places |-> buf'[z]]
  BY <1>1, <1>2, <1>4, <1>7 DEF TypeOK
<1> HIDE DEF e, x, y
<1>12. Append(buf[y], e) \in Seq(Events)
  BY <1>5, <1>7, AppendProperties
<1>13. InList(buf'[y]) = InList(buf[y]) \cup {e}
  BY <1>5, <1>7, <1>11, AppendInList
<1>14. NoRepeat(buf'[y])
  <2>1. NoRepeat(buf[y])
    BY <1>2, <1>7 DEF Single
  <2> QED
    BY <1>5, <1>7, <1>10, <1>11, <2>1, AppendNoRepeat
<1>15. TypeOK'
  <2>1. \A z \in Places : buf[z] \in Seq(Events)
    BY <1>2 DEF TypeOK
  <2>2. \A z \in Places : buf'[z] \in Seq(Events)
    BY <1>5, <1>11, <1>12, <2>1
  <2>3. buf' \in [Places -> Seq(Events)]
    BY <1>11, <2>2
  <2>4. moved' \in Nat
    BY <1>1, <1>2 DEF TypeOK
  <2>5. UNCHANGED <<in, todo, date, late, sysDate, pri, fifo, pos, pc, level, out>>
    BY <1>1
  <2> QED
    BY <1>2, <2>3, <2>4, <2>5 DEF TypeOK
<1>16. \A k \in Levels : Behind(k)' <=> Behind(k)
  BY <1>1 DEF Behind
<1>17. UNCHANGED clock
  BY <1>1 DEF clock
<1>18. Aligned'
  BY <1>2, <1>16, <1>17, SameClock
<1>19. \A z \in Places :
         InList(buf'[z]) \subseteq IF z = y THEN InList(buf[z]) \cup {e}
                                   ELSE InList(buf[z])
  BY <1>5, <1>7, <1>11, <1>13
<1>20. Placed'
  <2> SUFFICES ASSUME NEW k \in Levels, NEW b \in {0, 1}, NEW i \in Digits,
                      NEW f \in InList(buf'[<<k, b, i>>]), NEW d, d = date'[f]
               PROVE  Fits(d, k, b, i)'
    BY PlacedNext
  <2>1. d = date[f]
    BY <1>1
  <2>2. <<k, b, i>> \in Places
    BY DEF Places
  <2>3. CASE f \in InList(buf[<<k, b, i>>])
    <3>1. Fits(d, k, b, i)
      BY <1>2, <2>1, <2>3 DEF Placed
    <3> QED
      BY <1>16, <1>17, <3>1, SameClock
  <2>4. CASE f \notin InList(buf[<<k, b, i>>])
    <3>1. <<k, b, i>> = y /\ f = e
      BY <1>19, <2>2, <2>4
    <3>2. Fits(d, k, b, i)
      BY <1>8, <2>1, <3>1 DEF y
    <3> QED
      BY <1>16, <1>17, <3>2, SameClock
  <2> QED
    BY <2>3, <2>4
<1>21. Single'
  <2>1. /\ NoRepeat(in)' /\ NoRepeat(todo)' /\ NoRepeat(late)' /\ NoRepeat(out)'
        /\ Apart(in, todo)' /\ Apart(in, late)' /\ Apart(in, out)'
        /\ Apart(todo, late)' /\ Apart(todo, out)' /\ Apart(late, out)'
    BY <1>1, <1>2 DEF Single, Apart
  <2>2. ASSUME NEW z \in Places
        PROVE  /\ NoRepeat(buf'[z])
               /\ Apart(buf[z], in)' /\ Apart(buf[z], todo)'
               /\ Apart(buf[z], late)' /\ Apart(buf[z], out)'
    <3>1. NoRepeat(buf'[z])
      <4>1. NoRepeat(buf[z])
        BY <1>2 DEF Single
      <4>2. CASE z = x
        BY <1>5, <1>11, <4>2
      <4>3. CASE z = y
        BY <1>14, <4>3
      <4>4. CASE z # x /\ z # y
        <5>1. buf'[z] = buf[z]
          BY <1>11, <4>4
        <5> QED
          BY <4>1, <5>1
      <4> QED
        BY <4>2, <4>3, <4>4
    <3>2. InList(buf'[z]) \subseteq InList(buf[z]) \cup {e}
      BY <1>19
    <3>3. /\ Apart(buf[z], in) /\ Apart(buf[z], todo)
          /\ Apart(buf[z], late) /\ Apart(buf[z], out)
      BY <1>2 DEF Single
    <3>4. Apart(buf[z], in)' /\ Apart(buf[z], todo)'
      BY <1>1, <1>9, <3>2, <3>3 DEF Apart
    <3>5. Apart(buf[z], late)' /\ Apart(buf[z], out)'
      BY <1>1, <1>9, <3>2, <3>3 DEF Apart
    <3> QED
      BY <3>1, <3>4, <3>5
  <2>3. ASSUME NEW v \in Places, NEW z \in Places, v # z
        PROVE  Apart(buf[v], buf[z])'
    <3>1. Apart(buf[v], buf[z])
      BY <1>2, <2>3 DEF Single
    <3>2. e \in InList(buf'[v]) => v = y
      BY <1>5, <1>10, <1>11, <1>19
    <3>3. e \in InList(buf'[z]) => z = y
      BY <1>5, <1>10, <1>11, <1>19
    <3>4. /\ InList(buf'[v]) \subseteq InList(buf[v]) \cup {e}
          /\ InList(buf'[z]) \subseteq InList(buf[z]) \cup {e}
      BY <1>19
    <3> QED
      BY <2>3, <3>1, <3>2, <3>3, <3>4 DEF Apart
  <2> QED
    BY <2>1, <2>2, <2>3 DEF Single
<1> QED
  BY <1>15, <1>18, <1>20, <1>21, OneListIsSingle, PTL DEF Core

LEMMA LevelClockStep ==
  ASSUME Core, NEW l \in 0..2, LevelClock(l)
  PROVE  Core'
<1>1. /\ pc = "level" /\ level = l /\ level' = l + 1 /\ moved' = 0
      /\ ~ MoreToMove(l)
      /\ UNCHANGED <<in, todo, date, late, buf, sysDate, pc, out>>
  BY DEF LevelClock
<1>2. TypeOK /\ Placed /\ Aligned /\ Single
  BY OneListIsSingle DEF Core
<1>3. /\ l \in Levels /\ l + 1 \in Levels
      /\ sysDate \in Dates /\ sysDate[l] \in Digits
      /\ pri[l] \in {0, 1} /\ pos[l] \in Digits
  BY <1>2 DEF TypeOK, Levels, Dates
<1>4. /\ Behind(l) /\ ~ Behind(l)'
      /\ \A k \in Levels : k # l => (Behind(k)' <=> Behind(k))
  BY <1>1 DEF Behind, Levels
<1>5. /\ pos[l] = IF Turned(l) THEN sysDate[l] ELSE (sysDate[l] + 1) % Base
      /\ fifo[l] = <<IF pos[l] = 0 THEN alt(l) ELSE pri[l], pos[l]>>
  BY <1>2, <1>4 DEF Aligned
<1>6. Reached(l) <=> Turned(l)
  BY <1>3, <1>5, NextDigit DEF Reached
<1>7. Turned(l) => Current(l) = <<>>
  BY <1>1, <1>6 DEF MoreToMove
<1>8. Carried(l) <=> Turned(l) /\ pos[l] = 0
  BY <1>5 DEF Carried
\* What the level becomes.
<1>9. /\ pri' = [pri EXCEPT ![l] = IF Carried(l) THEN 1 - @ ELSE @]
      /\ pos' = [pos EXCEPT ![l] = (sysDate[l] + 1) % Base]
      /\ fifo' = [fifo EXCEPT ![l] = <<IF pos'[l] = 0 THEN 1 - pri'[l]
                                       ELSE pri'[l], pos'[l]>>]
  <2>1. CASE ~ Turned(l)
    <3>1. UNCHANGED <<pri, fifo, pos>> /\ ~ Carried(l)
      BY <1>6, <1>8, <2>1 DEF LevelClock
    <3> QED
      BY <1>2, <1>3, <1>5, <2>1, <3>1 DEF TypeOK, alt
  <2>2. CASE Turned(l)
    <3>1. /\ pri' = [pri EXCEPT ![l] = IF pos[l] = 0 THEN 1 - @ ELSE @]
          /\ pos' = [pos EXCEPT ![l] = (@ + 1) % Base]
          /\ fifo' = [fifo EXCEPT ![l] = IF pos'[l] = 0 THEN <<1 - pri'[l], 0>>
                                         ELSE <<@[1], @[2] + 1>>]
      BY <1>6, <2>2 DEF LevelClock
    <3>2. pos' = [pos EXCEPT ![l] = (sysDate[l] + 1) % Base]
      BY <1>2, <1>3, <1>5, <2>2, <3>1 DEF TypeOK
    <3>3. pri' = [pri EXCEPT ![l] = IF Carried(l) THEN 1 - @ ELSE @]
      BY <1>8, <2>2, <3>1
    <3>4. /\ pos'[l] = (sysDate[l] + 1) % Base
          /\ pri'[l] = IF pos[l] = 0 THEN 1 - pri[l] ELSE pri[l]
      BY <1>2, <1>3, <3>1, <3>2 DEF TypeOK
    <3>5. pos'[l] # 0 => pos'[l] = pos[l] + 1
      BY <1>3, <1>5, <2>2, <3>4, NextDigit
    <3>6. fifo[l][1] = pri'[l] /\ fifo[l][2] = pos[l]
      BY <1>5, <3>4 DEF alt
    <3>7. fifo' = [fifo EXCEPT ![l] = <<IF pos'[l] = 0 THEN 1 - pri'[l]
                                        ELSE pri'[l], pos'[l]>>]
      <4>1. CASE pos'[l] = 0
        <5>1. fifo' = [fifo EXCEPT ![l] = <<1 - pri'[l], 0>>]
          BY <3>1, <4>1
        <5>2. <<1 - pri'[l], 0>> = <<IF pos'[l] = 0 THEN 1 - pri'[l] ELSE pri'[l],
                                     pos'[l]>>
          BY <4>1
        <5> QED
          BY <5>1, <5>2
      <4>2. CASE pos'[l] # 0
        <5>1. fifo' = [fifo EXCEPT ![l] = <<fifo[l][1], fifo[l][2] + 1>>]
          BY <3>1, <4>2
        <5> QED
          BY <3>5, <3>6, <4>2, <5>1
      <4> QED
        BY <4>1, <4>2
    <3> QED
      BY <3>2, <3>3, <3>7
  <2> QED
    BY <2>1, <2>2
<1>10. /\ pri'[l] = IF Carried(l) THEN 1 - pri[l] ELSE pri[l]
       /\ pri'[l] \in {0, 1}
       /\ pos'[l] = (sysDate[l] + 1) % Base /\ pos'[l] \in Digits
       /\ fifo'[l] = <<IF pos'[l] = 0 THEN 1 - pri'[l] ELSE pri'[l], pos'[l]>>
  <2>1. pri \in [Levels -> {0, 1}] /\ DOMAIN pos = Levels /\ DOMAIN fifo = Levels
    BY <1>2 DEF TypeOK
  <2>2. (sysDate[l] + 1) % Base \in Digits
    BY <1>3, NextDigit
  <2> QED
    BY <1>3, <1>9, <2>1, <2>2
<1>11. \A k \in Levels : k # l => /\ pri'[k] = pri[k] /\ pos'[k] = pos[k]
                                  /\ fifo'[k] = fifo[k]
  BY <1>2, <1>9 DEF TypeOK
<1>12. TypeOK'
  <2>1. pri' \in [Levels -> {0, 1}] /\ pos' \in [Levels -> Digits]
    <3>1. pri \in [Levels -> {0, 1}] /\ pos \in [Levels -> Digits]
      BY <1>2 DEF TypeOK
    <3> QED
      BY <1>3, <1>9, <1>10, <3>1
  <2>2. /\ fifo'[l] \in {0, 1} \X (0..Base) /\ fifo'[l][2] \in Digits
    <3>1. pos'[l] \in 0..Base
      BY <1>10, SorterAssumption DEF Digits
    <3>2. 1 - pri'[l] \in {0, 1}
      BY <1>10
    <3> QED
      BY <1>10, <3>1, <3>2
  <2>3. fifo' \in [Levels -> {0, 1} \X (0..Base)]
    <3>1. fifo \in [Levels -> {0, 1} \X (0..Base)]
      BY <1>2 DEF TypeOK
    <3> QED
      BY <1>3, <1>9, <1>10, <2>2, <3>1
  <2>4. \A k \in 0..2 : fifo'[k][2] \in Digits
    <3>1. \A k \in 0..2 : fifo[k][2] \in Digits /\ k \in Levels
      BY <1>2 DEF TypeOK, Levels
    <3> QED
      BY <1>11, <2>2, <3>1
  <2>5. /\ level' \in Levels /\ moved' \in Nat
        /\ UNCHANGED <<in, todo, date, late, buf, sysDate, pc, out>>
    BY <1>1, <1>3
  <2> QED
    BY <1>2, <2>1, <2>3, <2>4, <2>5 DEF TypeOK
<1>13. \A k \in Levels : (Turned(k)' <=> Turned(k)) /\ (Carried(k)' <=> Carried(k))
  BY <1>1 DEF Turned, Carried
<1>14. Aligned'
  <2>1. ASSUME NEW k \in 0..2
        PROVE  /\ pos'[k] = IF (Behind(k) /\ Turned(k))' THEN sysDate'[k]
                            ELSE (sysDate'[k] + 1) % Base
               /\ fifo'[k] = <<IF pos'[k] = 0 THEN alt(k)' ELSE pri'[k], pos'[k]>>
    <3>1. k \in Levels
      BY DEF Levels
    <3>2. CASE k = l
      BY <1>1, <1>4, <1>10, <3>2 DEF alt
    <3>3. CASE k # l
      <4>1. /\ pos[k] = IF Behind(k) /\ Turned(k) THEN sysDate[k]
                        ELSE (sysDate[k] + 1) % Base
            /\ fifo[k] = <<IF pos[k] = 0 THEN alt(k) ELSE pri[k], pos[k]>>
        BY <1>2 DEF Aligned
      <4>2. alt(k)' = alt(k)
        BY <1>11, <3>1, <3>3 DEF alt
      <4>3. (Behind(k) /\ Turned(k))' <=> Behind(k) /\ Turned(k)
        BY <1>4, <1>13, <3>1, <3>3
      <4> QED
        BY <1>1, <1>11, <3>1, <3>3, <4>1, <4>2, <4>3
    <3> QED
      BY <3>2, <3>3
  <2>2. fifo'[3] = <<pri'[3], IF ~ Behind(3)' THEN sysDate'[3] + 1
                              ELSE IF sysDate'[3] = 0 THEN Base ELSE sysDate'[3]>>
    <3>1. 3 \in Levels /\ 3 # l
      BY DEF Levels
    <3>2. fifo[3] = <<pri[3], IF ~ Behind(3) THEN sysDate[3] + 1
                              ELSE IF sysDate[3] = 0 THEN Base ELSE sysDate[3]>>
      BY <1>2 DEF Aligned
    <3> QED
      BY <1>1, <1>4, <1>11, <3>1, <3>2
  <2> QED
    BY <2>1, <2>2 DEF Aligned
<1>15. Placed'
  <2> SUFFICES ASSUME NEW k \in Levels, NEW b \in {0, 1}, NEW i \in Digits,
                      NEW e \in InList(buf'[<<k, b, i>>]), NEW d, d = date'[e]
               PROVE  Fits(d, k, b, i)'
    BY PlacedNext
  <2>1. Fits(d, k, b, i) /\ e \in InList(buf[<<k, b, i>>])
    BY <1>1, <1>2 DEF Placed
  <2>2. CASE k # l
    BY <1>1, <1>4, <1>11, <2>1, <2>2, SameLevel
  <2>3. CASE k = l
    <3>1. Turned(l) => ~ ( /\ b = IF Carried(l) THEN alt(l) ELSE pri[l]
                           /\ i = sysDate[l] )
      <4> SUFFICES ASSUME Turned(l), i = sysDate[l],
                          b = IF Carried(l) THEN alt(l) ELSE pri[l]
                   PROVE  FALSE
        OBVIOUS
      <4>1. fifo[l] = <<b, i>>
        BY <1>5, <1>8
      <4>2. Current(l) = buf[<<k, b, i>>]
        BY <2>3, <4>1 DEF Current
      <4> QED
        BY <1>7, <2>1, <4>2, EmptyList
    <3> QED
      BY <1>1, <1>3, <1>4, <1>10, <2>1, <2>3, <3>1, LevelPassed
  <2> QED
    BY <2>2, <2>3
<1>16. Single'
  BY <1>1, <1>2 DEF Single, Apart
<1> QED
  BY <1>12, <1>14, <1>15, <1>16, OneListIsSingle, PTL DEF Core

LEMMA LastLevelStep ==
  ASSUME Core, LastLevel
  PROVE  Core'
<1> DEFINE x == <<3, Ready[1], Ready[2]>>
<1>1. /\ pc = "level" /\ level = 3 /\ pc' = "ready" /\ level' = 0 /\ moved' = 0
      /\ pri' = IF sysDate[3] = 0 THEN [pri EXCEPT ![3] = 1 - @] ELSE pri
      /\ out' = late \o buf[x]
      /\ buf' = [buf EXCEPT ![x] = <<>>]
      /\ fifo' = [fifo EXCEPT ![3] = <<Ready[1], Ready[2] + 1>>]
      /\ late' = <<>>
      /\ UNCHANGED <<in, todo, date, sysDate, pos>>
  BY DEF LastLevel
<1>2. TypeOK /\ Placed /\ Aligned /\ Single
  BY OneListIsSingle DEF Core
<1>3. /\ 3 \in Levels /\ sysDate \in Dates /\ sysDate[3] \in Digits
      /\ pri[3] \in {0, 1}
  BY <1>2 DEF TypeOK, Levels, Dates
<1>4. /\ Behind(3) /\ Turned(3) /\ (Carried(3) <=> sysDate[3] = 0)
      /\ \A k \in Levels : ~ Behind(k)'
      /\ \A k \in Levels : k # 3 => ~ Behind(k)
  BY <1>1 DEF Behind, Turned, Carried, Levels
<1>5. Ready = <<IF Carried(3) THEN alt(3) ELSE pri[3], sysDate[3]>>
  <2>1. fifo[3] = <<pri[3], IF sysDate[3] = 0 THEN Base ELSE sysDate[3]>>
    BY <1>2, <1>4 DEF Aligned
  <2> QED
    BY <1>4, <2>1 DEF Ready
<1>6. /\ pri'[3] = IF Carried(3) THEN 1 - pri[3] ELSE pri[3]
      /\ pri'[3] = Ready[1] /\ pri'[3] \in {0, 1}
      /\ pri' \in [Levels -> {0, 1}]
      /\ \A k \in Levels : k # 3 => pri'[k] = pri[k]
  <2>1. pri \in [Levels -> {0, 1}]
    BY <1>2 DEF TypeOK
  <2>2. CASE sysDate[3] = 0
    BY <1>1, <1>3, <1>4, <1>5, <2>1, <2>2 DEF alt
  <2>3. CASE sysDate[3] # 0
    BY <1>1, <1>3, <1>4, <1>5, <2>1, <2>3
  <2> QED
    BY <2>2, <2>3
<1>7. x \in Places /\ buf[x] \in Seq(Events)
  <2>1. Ready[1] \in {0, 1} /\ Ready[2] \in Digits
    BY <1>3, <1>5, <1>6
  <2> QED
    BY <1>2, <1>3, <2>1 DEF TypeOK, Places
<1>8. /\ buf'[x] = <<>> /\ buf' \in [Places -> Seq(Events)]
      /\ \A z \in Places : z # x => buf'[z] = buf[z]
  <2>1. buf \in [Places -> Seq(Events)] /\ <<>> \in Seq(Events)
    BY <1>2, EmptySeq DEF TypeOK
  <2> QED
    BY <1>1, <1>7, <2>1
<1>9. /\ fifo'[3] = <<pri'[3], sysDate[3] + 1>>
      /\ \A k \in Levels : k # 3 => fifo'[k] = fifo[k]
      /\ fifo' \in [Levels -> {0, 1} \X (0..Base)]
  <2>1. fifo \in [Levels -> {0, 1} \X (0..Base)]
    BY <1>2 DEF TypeOK
  <2>2. sysDate[3] + 1 \in 0..Base
    BY <1>3, SorterAssumption DEF Digits
  <2>3. fifo' = [fifo EXCEPT ![3] = <<pri'[3], sysDate[3] + 1>>]
    BY <1>1, <1>5, <1>6
  <2> QED
    BY <1>3, <1>6, <2>1, <2>2, <2>3
<1>10. /\ out' \in Seq(Events)
       /\ InList(out') \subseteq InList(late) \cup InList(buf[x])
       /\ NoRepeat(out')
  <2>1. late \in Seq(Events) /\ NoRepeat(late) /\ NoRepeat(buf[x])
        /\ Apart(buf[x], late)
    BY <1>2, <1>7 DEF TypeOK, Single
  <2>2. Apart(late, buf[x])
    BY <2>1 DEF Apart
  <2> HIDE DEF x
  <2> QED
    BY <1>1, <1>7, <2>1, <2>2, ConcatInList, ConcatNoRepeat
<1> HIDE DEF x
<1>11. TypeOK'
  <2>1. \A k \in 0..2 : fifo'[k][2] \in Digits
    <3>1. \A k \in 0..2 : fifo[k][2] \in Digits /\ k \in Levels /\ k # 3
      BY <1>2 DEF TypeOK, Levels
    <3> QED
      BY <1>9, <3>1
  <2>2. /\ late' \in Seq(Events) /\ pc' \in {"idle", "input", "level", "ready"}
        /\ level' \in Levels /\ moved' \in Nat
    BY <1>1, EmptySeq DEF Levels
  <2>3. UNCHANGED <<in, todo, date, sysDate, pos>>
    BY <1>1
  <2> QED
    BY <1>2, <1>6, <1>8, <1>9, <1>10, <2>1, <2>2, <2>3 DEF TypeOK
<1>12. Aligned'
  <2>1. ASSUME NEW k \in 0..2
        PROVE  /\ pos'[k] = IF (Behind(k) /\ Turned(k))' THEN sysDate'[k]
                            ELSE (sysDate'[k] + 1) % Base
               /\ fifo'[k] = <<IF pos'[k] = 0 THEN alt(k)' ELSE pri'[k], pos'[k]>>
    <3>1. k \in Levels /\ k # 3
      BY DEF Levels
    <3>2. /\ pos[k] = (sysDate[k] + 1) % Base
          /\ fifo[k] = <<IF pos[k] = 0 THEN alt(k) ELSE pri[k], pos[k]>>
      BY <1>2, <1>4, <3>1 DEF Aligned
    <3>3. alt(k)' = alt(k)
      BY <1>6, <3>1 DEF alt
    <3> QED
      BY <1>1, <1>4, <1>6, <1>9, <3>1, <3>2, <3>3
  <2>2. fifo'[3] = <<pri'[3], IF ~ Behind(3)' THEN sysDate'[3] + 1
                              ELSE IF sysDate'[3] = 0 THEN Base ELSE sysDate'[3]>>
    BY <1>1, <1>3, <1>4, <1>9
  <2> QED
    BY <2>1, <2>2 DEF Aligned
<1>13. Placed'
  <2> SUFFICES ASSUME NEW k \in Levels, NEW b \in {0, 1}, NEW i \in Digits,
                      NEW e \in InList(buf'[<<k, b, i>>]), NEW d, d = date'[e]
               PROVE  Fits(d, k, b, i)'
    BY PlacedNext
  <2>1. <<k, b, i>> \in Places
    BY DEF Places
  <2>2. <<k, b, i>> # x
    BY <1>8, EmptyList
  <2>3. Fits(d, k, b, i)
    BY <1>1, <1>2, <1>8, <2>1, <2>2 DEF Placed
  <2>4. CASE k # 3
    BY <1>1, <1>4, <1>6, <2>3, <2>4, SameLevel
  <2>5. CASE k = 3
    <3>1. ~ ( /\ b = IF Carried(3) THEN alt(3) ELSE pri[3]
              /\ i = sysDate[3] )
      BY <1>5, <2>2, <2>5 DEF x
    <3> QED
      BY <1>1, <1>3, <1>4, <1>6, <2>3, <2>5, <3>1, LevelPassed
  <2> QED
    BY <2>4, <2>5
<1>14. Single'
  <2>1. /\ NoRepeat(in)' /\ NoRepeat(todo)' /\ NoRepeat(late)' /\ NoRepeat(out)'
        /\ Apart(in, todo)' /\ Apart(in, late)' /\ Apart(in, out)'
        /\ Apart(todo, late)' /\ Apart(todo, out)' /\ Apart(late, out)'
    <3>1. /\ NoRepeat(in) /\ NoRepeat(todo)
          /\ Apart(in, todo) /\ Apart(in, late) /\ Apart(todo, late)
          /\ Apart(buf[x], in) /\ Apart(buf[x], todo)
      BY <1>2, <1>7 DEF Single
    <3> QED
      BY <1>1, <1>10, <3>1, EmptyList DEF Apart
  <2>2. \A z \in Places : InList(buf'[z]) = IF z = x THEN {} ELSE InList(buf[z])
    BY <1>8, EmptyList
  <2>3. ASSUME NEW z \in Places
        PROVE  /\ NoRepeat(buf'[z])
               /\ Apart(buf[z], in)' /\ Apart(buf[z], todo)'
               /\ Apart(buf[z], late)' /\ Apart(buf[z], out)'
    <3>1. NoRepeat(buf'[z])
      <4>1. NoRepeat(buf[z])
        BY <1>2 DEF Single
      <4>2. buf'[z] = buf[z] \/ buf'[z] = <<>>
        BY <1>8
      <4> QED
        BY <4>1, <4>2, EmptyList
    <3>2. /\ Apart(buf[z], in) /\ Apart(buf[z], todo) /\ Apart(buf[z], late)
          /\ z # x => Apart(buf[z], buf[x])
      BY <1>2, <1>7 DEF Single
    <3>3. Apart(buf[z], in)' /\ Apart(buf[z], todo)' /\ Apart(buf[z], late)'
      BY <1>1, <2>2, <3>2, EmptyList DEF Apart
    <3>4. Apart(buf[z], out)'
      BY <1>10, <2>2, <3>2 DEF Apart
    <3> QED
      BY <3>1, <3>3, <3>4
  <2>4. ASSUME NEW v \in Places, NEW z \in Places, v # z
        PROVE  Apart(buf[v], buf[z])'
    <3>1. Apart(buf[v], buf[z])
      BY <1>2, <2>4 DEF Single
    <3> QED
      BY <2>2, <3>1 DEF Apart
  <2> QED
    BY <2>1, <2>3, <2>4 DEF Single
<1> QED
  BY <1>11, <1>12, <1>13, <1>14, OneListIsSingle, PTL DEF Core

(***************************************************************************)
(* Every step.                                                             *)
(***************************************************************************)
LEMMA NextCore == Core /\ [Next]_vars => Core'
<1> SUFFICES ASSUME Core, [Next]_vars PROVE Core'
  OBVIOUS
<1>1. CASE Next
  <2>1. CASE ClockHandler
    BY <2>1, ClockHandlerStep
  <2>2. CASE PutEvent
    BY <2>2, PutEventStep
  <2>3. CASE NextDate
    BY <2>3, NextDateStep
  <2>4. ASSUME NEW l \in 0..2, BufferPut(l) PROVE Core'
    BY <2>4, BufferPutStep
  <2>5. ASSUME NEW l \in 0..2, LevelClock(l) PROVE Core'
    BY <2>5, LevelClockStep
  <2>6. CASE LastLevel
    BY <2>6, LastLevelStep
  <2>7. CASE Dispatch
    BY <2>7, DispatchStep
  <2>8. ASSUME NEW e \in Events, NEW ahead \in 0..Reach, Send(e, ahead)
        PROVE  Core'
    BY <2>8, SendStep
  <2> QED
    BY <1>1, <2>1, <2>2, <2>3, <2>4, <2>5, <2>6, <2>7, <2>8 DEF Next, Tick
<1>2. CASE UNCHANGED vars
  <2>1. UNCHANGED <<in, todo, date, late, buf, sysDate, pri, fifo, pos, pc, level,
                    moved, out>>
    BY <1>2 DEF vars, clock
  <2>2. TypeOK /\ Single
    BY OneListIsSingle DEF Core
  <2>3. TypeOK'
    BY <2>1, <2>2 DEF TypeOK
  <2>4. Placed' /\ Aligned'
    <3>1. /\ \A l \in Levels : Behind(l)' <=> Behind(l)
          /\ UNCHANGED clock
          /\ \A x \in Places : InList(buf'[x]) \subseteq InList(buf[x])
          /\ \A x \in Places : \A e \in InList(buf'[x]) : date'[e] = date[e]
      BY <2>1 DEF clock, Behind
    <3> QED
      BY <3>1, Quiet
  <2>5. Single'
    BY <2>1, <2>2 DEF Single, Apart
  <2> QED
    BY <2>3, <2>4, <2>5, OneListIsSingle, PTL DEF Core
<1> QED
  BY <1>1, <1>2

\* Every event that the sorter holds is in the fifo of its digit and in the
\* buffer of its period, in every level and in the middle of a tick too; each
\* level is about to resort the right fifo; no event is in two lists or twice in
\* one; and the fifo the last level releases holds the events of the new date,
\* all of them and no other (msSorter.c, PutEvent, BufferPut, LevelClock and
\* SorterClock).
THEOREM Invariance == Spec => []IInv
<1>1. Init => Core
  BY InitIInv DEF IInv, Core
<1>2. Core /\ [Next]_vars => Core'
  BY NextCore
<1>3. Core => IInv
  BY OnTimeHolds DEF IInv, Core
<1> QED
  BY <1>1, <1>2, <1>3, PTL DEF Spec

\* No event is released early and none is left behind: when a tick comes to the
\* last level, an event of the levels has the new date exactly when it is in the
\* fifo that is about to be released (SorterClock).
THEOREM ReleasedOnTime == Spec => []OnTime
BY Invariance, PTL DEF IInv

\* No move of an event, from a level to the next one or to the events that are
\* ready, loses it or links it twice (BufferPut, SorterClock).
THEOREM LinkedOnce == Spec => []OneList
BY Invariance, PTL DEF IInv

(***************************************************************************)
(* The refinement of Schedule.  Dates as numbers.                          *)
(***************************************************************************)
LEMMA DivUnique ==
  ASSUME NEW q \in Nat, NEW b \in Nat \ {0}, NEW r \in 0..b - 1
  PROVE  (q * b + r) \div b = q /\ (q * b + r) % b = r
<1> DEFINE a == q * b + r
           x == a \div b
           y == a % b
<1>1. a \in Nat
  OBVIOUS
<1>2. x \in Nat /\ y \in 0..b - 1 /\ a = b * x + y
  BY <1>1
<1>3. x = q
  <2>1. ASSUME x >= q + 1 PROVE FALSE
    <3>1. b * x >= b * (q + 1)
      BY <1>2, <2>1
    <3>2. b * (q + 1) = q * b + b
      OBVIOUS
    <3> HIDE DEF x, y
    <3> QED
      BY <1>2, <3>1, <3>2
  <2>2. ASSUME q >= x + 1 PROVE FALSE
    <3>1. b * q >= b * (x + 1)
      BY <1>2, <2>2
    <3>2. b * (x + 1) = b * x + b
      BY <1>2
    <3> HIDE DEF x, y
    <3> QED
      BY <1>2, <3>1, <3>2
  <2> QED
    BY <1>2, <2>1, <2>2
<1>4. y = r
  <2> HIDE DEF x, y
  <2> QED
    BY <1>2, <1>3
<1> QED
  BY <1>3, <1>4

\* A number and a digit make the next number; its bound.
LEMMA Shifted ==
  ASSUME NEW x \in Nat, NEW i \in Digits
  PROVE  /\ x * Base + i \in Nat
         /\ \A m \in Nat : x < m => x * Base + i < m * Base
<1>1. Base \in Nat \ {0} /\ i \in 0..Base - 1
  BY SorterAssumption DEF Digits
<1>2. ASSUME NEW m \in Nat, x < m PROVE x * Base + i < m * Base
  <2>1. (x + 1) * Base <= m * Base
    BY <1>1, <1>2
  <2>2. (x + 1) * Base = x * Base + Base
    BY <1>1
  <2> QED
    BY <1>1, <2>1, <2>2
<1> QED
  BY <1>1, <1>2

LEMMA Parts ==
  ASSUME NEW d \in Dates
  PROVE  \E n1, n2, n3 \in Nat :
           /\ n3 = d[0] /\ n2 = n3 * Base + d[1] /\ n1 = n2 * Base + d[2]
           /\ Number(d) = n1 * Base + d[3]
           /\ n3 < Base /\ n2 < Base * Base /\ n1 < Base * Base * Base /\ Number(d) < MaxDate
<1> DEFINE n3 == d[0]
           n2 == n3 * Base + d[1]
           n1 == n2 * Base + d[2]
           n0 == n1 * Base + d[3]
<1>1. d[0] \in Digits /\ d[1] \in Digits /\ d[2] \in Digits /\ d[3] \in Digits
  BY DEF Dates, Levels
<1>2. Base \in Nat /\ Base * Base \in Nat /\ Base * Base * Base \in Nat
  BY SorterAssumption
<1>3. n3 \in Nat /\ n3 < Base
  BY <1>1, <1>2 DEF Digits
<1>4. n2 \in Nat /\ n2 < Base * Base
  BY <1>1, <1>2, <1>3, Shifted
<1>5. n1 \in Nat /\ n1 < Base * Base * Base
  <2> HIDE DEF n2
  <2> QED
    BY <1>1, <1>2, <1>4, Shifted
<1>6. n0 < Base * Base * Base * Base
  <2> HIDE DEF n1
  <2> QED
    BY <1>1, <1>2, <1>5, Shifted
<1>7. Number(d) = n0
  BY DEF Number
<1> QED
  BY <1>3, <1>4, <1>5, <1>6, <1>7 DEF MaxDate

LEMMA NumberBelow ==
  ASSUME NEW d \in Dates
  PROVE  Number(d) \in Nat /\ Number(d) < MaxDate
BY Parts, NumberType

LEMMA DivDiv ==
  ASSUME NEW n \in Nat, NEW b \in Nat \ {0}, NEW c \in Nat \ {0}
  PROVE  n \div (b * c) = (n \div b) \div c
<1> DEFINE x == n \div b
           y == n % b
           u == x \div c
           v == x % c
<1>1. x \in Nat /\ y \in 0..b - 1 /\ n = b * x + y
  OBVIOUS
<1>2. u \in Nat /\ v \in 0..c - 1 /\ x = c * u + v
  <2> HIDE DEF x
  <2> QED
    BY <1>1
<1> HIDE DEF x, y, u, v
<1>3. b * c \in Nat \ {0}
  OBVIOUS
<1>4. n = u * (b * c) + (b * v + y)
  <2>1. b * (c * u + v) = u * (b * c) + b * v
    BY <1>2
  <2> QED
    BY <1>1, <1>2, <2>1
<1>5. b * v + y \in 0..(b * c) - 1
  <2>1. b * (v + 1) <= b * c
    BY <1>2
  <2>2. b * (v + 1) = b * v + b /\ b * v \in Nat
    BY <1>2
  <2> QED
    BY <1>1, <2>1, <2>2
<1>6. n \div (b * c) = u
  BY <1>2, <1>3, <1>4, <1>5, DivUnique
<1> QED
  BY <1>6 DEF x, u

\* The digits of a number.
LEMMA DigitsOf ==
  ASSUME NEW n \in Nat
  PROVE  /\ ToDate(n)[3] = n % Base
         /\ ToDate(n)[2] = (n \div Base) % Base
         /\ ToDate(n)[1] = ((n \div Base) \div Base) % Base
         /\ ToDate(n)[0] = ((n \div Base) \div Base) \div Base
         /\ ToDate(n) = [l \in Levels |-> ToDate(n)[l]]
<1>1. Base \in Nat \ {0} /\ Base * Base \in Nat \ {0}
  BY SorterAssumption
<1>2. n \div (Base * Base) = (n \div Base) \div Base
  BY <1>1, DivDiv
<1>3. n \div (Base * Base * Base) = ((n \div Base) \div Base) \div Base
  <2>1. PICK q \in Nat \ {0} : q = Base * Base
    BY <1>1
  <2>2. n \div (q * Base) = (n \div q) \div Base
    BY <1>1, DivDiv
  <2> QED
    BY <1>2, <2>1, <2>2
<1> QED
  BY <1>2, <1>3 DEF ToDate, Levels

LEMMA ToDateOfNumber ==
  ASSUME NEW d \in Dates
  PROVE  ToDate(Number(d)) = d
<1>1. PICK n1, n2, n3 \in Nat :
        /\ n3 = d[0] /\ n2 = n3 * Base + d[1] /\ n1 = n2 * Base + d[2]
        /\ Number(d) = n1 * Base + d[3]
  BY Parts
<1>2. /\ Base \in Nat \ {0}
      /\ d[1] \in 0..Base - 1 /\ d[2] \in 0..Base - 1 /\ d[3] \in 0..Base - 1
  BY SorterAssumption DEF Dates, Levels, Digits
<1>3. Number(d) \div Base = n1 /\ Number(d) % Base = d[3]
  <2>1. (n1 * Base + d[3]) \div Base = n1 /\ (n1 * Base + d[3]) % Base = d[3]
    BY <1>2, DivUnique
  <2> QED
    BY <1>1, <2>1
<1>4. n1 \div Base = n2 /\ n1 % Base = d[2]
  <2>1. (n2 * Base + d[2]) \div Base = n2 /\ (n2 * Base + d[2]) % Base = d[2]
    BY <1>2, DivUnique
  <2> QED
    BY <1>1, <2>1
<1>5. n2 \div Base = n3 /\ n2 % Base = d[1]
  <2>1. (n3 * Base + d[1]) \div Base = n3 /\ (n3 * Base + d[1]) % Base = d[1]
    BY <1>2, DivUnique
  <2> QED
    BY <1>1, <2>1
<1>6. Number(d) \in Nat
  BY NumberType
<1>7. \A l \in Levels : ToDate(Number(d))[l] = d[l]
  BY <1>1, <1>3, <1>4, <1>5, <1>6, DigitsOf DEF Levels
<1>8. d = [l \in Levels |-> d[l]]
  BY DEF Dates
<1> QED
  BY <1>6, <1>7, <1>8, DigitsOf

LEMMA NumberOfToDate ==
  ASSUME NEW n \in Nat
  PROVE  Number(ToDate(n)) = n
<1> DEFINE n1 == n \div Base
           n2 == n1 \div Base
           n3 == n2 \div Base
<1>1. Base \in Nat \ {0}
  BY SorterAssumption
<1>2. n1 \in Nat /\ n = n1 * Base + (n % Base)
  BY <1>1
<1>3. n2 \in Nat /\ n1 = n2 * Base + (n1 % Base)
  <2> HIDE DEF n1
  <2> QED
    BY <1>1, <1>2
<1>4. n3 \in Nat /\ n2 = n3 * Base + (n2 % Base)
  <2> HIDE DEF n2
  <2> QED
    BY <1>1, <1>3
<1>5. /\ ToDate(n)[3] = n % Base /\ ToDate(n)[2] = n1 % Base /\ ToDate(n)[1] = n2 % Base
      /\ ToDate(n)[0] = n3
  BY DigitsOf
<1> HIDE DEF n1, n2, n3
<1> QED
  BY <1>2, <1>3, <1>4, <1>5 DEF Number

\* One number and a digit, and another: which is greater, and the next one.
LEMMA Compared ==
  ASSUME NEW x \in Nat, NEW y \in Nat, NEW i \in Digits, NEW j \in Digits
  PROVE  x * Base + i > y * Base + j <=> x > y \/ (x = y /\ i > j)
<1>1. Base \in Nat \ {0} /\ i \in 0..Base - 1 /\ j \in 0..Base - 1
  BY SorterAssumption DEF Digits
<1>2. ASSUME x > y PROVE x * Base + i > y * Base + j
  <2>1. (y + 1) * Base <= x * Base
    BY <1>1, <1>2
  <2>2. (y + 1) * Base = y * Base + Base /\ x * Base \in Nat /\ y * Base \in Nat
    BY <1>1
  <2> QED
    BY <1>1, <2>1, <2>2
<1>3. ASSUME x < y PROVE ~ (x * Base + i > y * Base + j)
  <2>1. (x + 1) * Base <= y * Base
    BY <1>1, <1>3
  <2>2. (x + 1) * Base = x * Base + Base /\ x * Base \in Nat /\ y * Base \in Nat
    BY <1>1
  <2> QED
    BY <1>1, <2>1, <2>2
<1>4. ASSUME x = y PROVE x * Base + i > y * Base + j <=> i > j
  <2>1. x * Base \in Nat
    BY <1>1
  <2> QED
    BY <1>1, <1>4, <2>1
<1> QED
  BY <1>2, <1>3, <1>4

LEMMA AfterIsGreater ==
  ASSUME NEW d \in Dates, NEW e \in Dates
  PROVE  After(d, e) <=> Number(d) > Number(e)
<1>1. PICK n1, n2, n3 \in Nat :
        /\ n3 = d[0] /\ n2 = n3 * Base + d[1] /\ n1 = n2 * Base + d[2]
        /\ Number(d) = n1 * Base + d[3]
  BY Parts
<1>2. PICK m1, m2, m3 \in Nat :
        /\ m3 = e[0] /\ m2 = m3 * Base + e[1] /\ m1 = m2 * Base + e[2]
        /\ Number(e) = m1 * Base + e[3]
  BY Parts
<1>3. \A l \in Levels : d[l] \in Digits /\ e[l] \in Digits
  BY DEF Dates
<1>4. (n1 * Base + d[3] > m1 * Base + e[3]) <=> n1 > m1 \/ (n1 = m1 /\ d[3] > e[3])
  BY <1>3, Compared DEF Levels
<1>5. (n2 * Base + d[2] > m2 * Base + e[2]) <=> n2 > m2 \/ (n2 = m2 /\ d[2] > e[2])
  BY <1>3, Compared DEF Levels
<1>6. (n3 * Base + d[1] > m3 * Base + e[1]) <=> n3 > m3 \/ (n3 = m3 /\ d[1] > e[1])
  BY <1>3, Compared DEF Levels
<1>7. n2 = m2 <=> n3 = m3 /\ d[1] = e[1]
  <2>1. ~ (n2 > m2) /\ ~ (m2 > n2) <=> n2 = m2
    OBVIOUS
  <2>2. (m3 * Base + e[1] > n3 * Base + d[1]) <=> m3 > n3 \/ (m3 = n3 /\ e[1] > d[1])
    BY <1>3, Compared DEF Levels
  <2>3. d[1] \in Nat /\ e[1] \in Nat
    BY <1>3, SorterAssumption DEF Levels, Digits
  <2> QED
    BY <1>1, <1>2, <1>6, <2>1, <2>2, <2>3
<1>8. n1 = m1 <=> n2 = m2 /\ d[2] = e[2]
  <2>1. ~ (n1 > m1) /\ ~ (m1 > n1) <=> n1 = m1
    OBVIOUS
  <2>2. (m2 * Base + e[2] > n2 * Base + d[2]) <=> m2 > n2 \/ (m2 = n2 /\ e[2] > d[2])
    BY <1>3, Compared DEF Levels
  <2>3. d[2] \in Nat /\ e[2] \in Nat
    BY <1>3, SorterAssumption DEF Levels, Digits
  <2> QED
    BY <1>1, <1>2, <1>5, <2>1, <2>2, <2>3
<1>9. Number(d) > Number(e) <=>
        \/ d[0] > e[0]
        \/ d[0] = e[0] /\ d[1] > e[1]
        \/ d[0] = e[0] /\ d[1] = e[1] /\ d[2] > e[2]
        \/ d[0] = e[0] /\ d[1] = e[1] /\ d[2] = e[2] /\ d[3] > e[3]
  BY <1>1, <1>2, <1>4, <1>5, <1>6, <1>7, <1>8
<1>10. After(d, e) <=>
        \/ d[0] > e[0]
        \/ d[0] = e[0] /\ d[1] > e[1]
        \/ d[0] = e[0] /\ d[1] = e[1] /\ d[2] > e[2]
        \/ d[0] = e[0] /\ d[1] = e[1] /\ d[2] = e[2] /\ d[3] > e[3]
  BY DEF After, Levels
<1> QED
  BY <1>9, <1>10

LEMMA CarryOver ==
  ASSUME NEW x \in Nat, NEW i \in Digits
  PROVE  /\ i = Base - 1 => (x + 1) * Base + 0 = (x * Base + i) + 1
         /\ i # Base - 1 => i + 1 \in Digits /\ x * Base + (i + 1) = (x * Base + i) + 1
<1>1. Base \in Nat \ {0} /\ i \in 0..Base - 1
  BY SorterAssumption DEF Digits
<1>2. (x + 1) * Base = x * Base + Base /\ x * Base \in Nat
  BY <1>1
<1> QED
  BY <1>1, <1>2 DEF Digits

\* The date that follows is that of the next number, modulo MaxDate.
LEMMA FollowingNumber ==
  ASSUME NEW d \in Dates, Following(d) \in Dates
  PROVE  Number(Following(d)) = (Number(d) + 1) % MaxDate
<1> DEFINE f == Following(d)
<1>1. PICK n1, n2, n3 \in Nat :
        /\ n3 = d[0] /\ n2 = n3 * Base + d[1] /\ n1 = n2 * Base + d[2]
        /\ Number(d) = n1 * Base + d[3]
  BY Parts
<1>2. \A l \in Levels : d[l] \in Digits
  BY DEF Dates
<1>3. Base \in Nat \ {0, 1} /\ MaxDate \in Nat
  BY SorterAssumption DEF MaxDate
<1>4. Number(d) \in Nat /\ Number(d) < MaxDate
  BY NumberBelow
<1>5. Number(f) \in Nat /\ Number(f) < MaxDate
  BY NumberBelow
<1>6. /\ f[3] = (d[3] + 1) % Base
      /\ f[2] = IF d[3] = Base - 1 THEN (d[2] + 1) % Base ELSE d[2]
      /\ f[1] = IF d[2] = Base - 1 /\ d[3] = Base - 1 THEN (d[1] + 1) % Base ELSE d[1]
      /\ f[0] = IF d[1] = Base - 1 /\ d[2] = Base - 1 /\ d[3] = Base - 1
                THEN (d[0] + 1) % Base ELSE d[0]
  BY DEF Following, Levels
<1>7. \A l \in Levels : (d[l] + 1) % Base = IF d[l] = Base - 1 THEN 0 ELSE d[l] + 1
  BY <1>2, NextDigit
<1>8. PICK m1, m2, m3 \in Nat :
        /\ m3 = f[0] /\ m2 = m3 * Base + f[1] /\ m1 = m2 * Base + f[2]
        /\ Number(f) = m1 * Base + f[3]
  BY Parts
<1> HIDE DEF f
<1>9. ASSUME Number(f) = Number(d) + 1 PROVE Number(f) = (Number(d) + 1) % MaxDate
  BY <1>3, <1>4, <1>5, <1>9
<1>10. CASE d[3] # Base - 1
  <2>1. f[3] = d[3] + 1 /\ f[2] = d[2] /\ f[1] = d[1] /\ f[0] = d[0]
    BY <1>6, <1>7, <1>10 DEF Levels
  <2>2. n1 * Base + (d[3] + 1) = (n1 * Base + d[3]) + 1
    BY <1>2, <1>10, CarryOver DEF Levels
  <2>3. m3 = n3 /\ m2 = n2
    BY <1>1, <1>8, <2>1
  <2>4. m1 = n1
    BY <1>1, <1>8, <2>1, <2>3
  <2> QED
    BY <1>1, <1>8, <1>9, <2>1, <2>2, <2>4 DEF f
<1>11. CASE d[3] = Base - 1 /\ d[2] # Base - 1
  <2>1. f[3] = 0 /\ f[2] = d[2] + 1 /\ f[1] = d[1] /\ f[0] = d[0]
    BY <1>6, <1>7, <1>11 DEF Levels
  <2>2. n2 * Base + (d[2] + 1) = n1 + 1
    BY <1>1, <1>2, <1>11, CarryOver DEF Levels
  <2>3. (n1 + 1) * Base + 0 = (n1 * Base + d[3]) + 1
    BY <1>2, <1>11, CarryOver DEF Levels
  <2>4. m3 = n3 /\ m2 = n2
    BY <1>1, <1>8, <2>1
  <2>5. m1 = n1 + 1
    BY <1>8, <2>1, <2>2, <2>4
  <2> QED
    BY <1>1, <1>8, <1>9, <2>1, <2>3, <2>5 DEF f
<1>12. CASE d[3] = Base - 1 /\ d[2] = Base - 1 /\ d[1] # Base - 1
  <2>1. f[3] = 0 /\ f[2] = 0 /\ f[1] = d[1] + 1 /\ f[0] = d[0]
    BY <1>6, <1>7, <1>12 DEF Levels
  <2>2. n3 * Base + (d[1] + 1) = n2 + 1
    BY <1>1, <1>2, <1>12, CarryOver DEF Levels
  <2>3. (n2 + 1) * Base + 0 = n1 + 1
    BY <1>1, <1>2, <1>12, CarryOver DEF Levels
  <2>4. (n1 + 1) * Base + 0 = (n1 * Base + d[3]) + 1
    BY <1>2, <1>12, CarryOver DEF Levels
  <2>5. m3 = n3
    BY <1>1, <1>8, <2>1
  <2>6. m2 = n2 + 1
    BY <1>8, <2>1, <2>2, <2>5
  <2>7. m1 = n1 + 1
    BY <1>8, <2>1, <2>3, <2>6
  <2> QED
    BY <1>1, <1>8, <1>9, <2>1, <2>4, <2>7 DEF f
<1>13. CASE d[3] = Base - 1 /\ d[2] = Base - 1 /\ d[1] = Base - 1
  <2>1. (n3 + 1) * Base + 0 = n2 + 1
    BY <1>1, <1>2, <1>13, CarryOver DEF Levels
  <2>2. (n2 + 1) * Base + 0 = n1 + 1
    BY <1>1, <1>2, <1>13, CarryOver DEF Levels
  <2>3. (n1 + 1) * Base + 0 = Number(d) + 1
    BY <1>1, <1>2, <1>13, CarryOver DEF Levels
  <2>4. CASE d[0] # Base - 1
    <3>1. f[3] = 0 /\ f[2] = 0 /\ f[1] = 0 /\ f[0] = n3 + 1
      BY <1>1, <1>6, <1>7, <1>13, <2>4 DEF Levels
    <3>2. m3 = n3 + 1
      BY <1>8, <3>1
    <3>3. m2 = n2 + 1
      BY <1>8, <2>1, <3>1, <3>2
    <3>4. m1 = n1 + 1
      BY <1>8, <2>2, <3>1, <3>3
    <3> QED
      BY <1>8, <1>9, <2>3, <3>1, <3>4 DEF f
  <2>5. CASE d[0] = Base - 1
    <3>1. f[3] = 0 /\ f[2] = 0 /\ f[1] = 0 /\ f[0] = 0
      BY <1>6, <1>7, <1>13, <2>5 DEF Levels
    <3>2. n3 + 1 = Base
      BY <1>1, <1>3, <2>5
    <3>3. Number(d) + 1 = MaxDate
      BY <2>1, <2>2, <2>3, <3>2 DEF MaxDate
    <3>4. Number(f) = 0
      <4>1. m3 = 0 /\ m2 = 0
        BY <1>3, <1>8, <3>1
      <4>2. m1 = 0
        BY <1>3, <1>8, <3>1, <4>1
      <4> QED
        BY <1>3, <1>8, <3>1, <4>2
    <3>5. MaxDate % MaxDate = 0
      BY <1>3, <1>4
    <3>6. (Number(d) + 1) % MaxDate = MaxDate % MaxDate
      BY <3>3
    <3> QED
      BY <3>4, <3>5, <3>6 DEF f
  <2> QED
    BY <2>4, <2>5
<1> QED
  BY <1>10, <1>11, <1>12, <1>13 DEF f

(***************************************************************************)
(* The events of a date in a list.                                         *)
(***************************************************************************)
LEMMA Least ==
  ASSUME NEW T, T \subseteq Nat, T # {}
  PROVE  \E m \in T : \A n \in T : m <= n
<1> DEFINE R == {ss \in Nat \X Nat : ss[1] < ss[2]}
<1>1. OpToRel(<, Nat) = R
  BY DEF OpToRel
<1>2. IsWellFoundedOn(R, Nat)
  BY <1>1, NatLessThanWellFounded
<1>3. \A x, y \in Nat : <<x, y>> \in R <=> x < y
  OBVIOUS
<1> HIDE DEF R
<1>4. PICK m \in T : \A n \in T : <<n, m>> \notin R
  BY <1>2, WFMin
<1>5. ASSUME NEW n \in T PROVE m <= n
  <2>1. m \in Nat /\ n \in Nat
    OBVIOUS
  <2>2. <<n, m>> \notin R
    BY <1>4
  <2>3. ~ n < m
    BY <1>3, <2>1, <2>2
  <2> QED
    BY <2>1, <2>3
<1> QED
  BY <1>5

\* What holds of the empty list and of a list with one more at its end holds of
\* every list.
LEMMA ListInduction ==
  ASSUME NEW S, NEW T, T \subseteq Seq(S), <<>> \in T,
         \A s \in T, e \in S : Append(s, e) \in T
  PROVE  Seq(S) \subseteq T
<1> DEFINE N == {n \in Nat : \E s \in Seq(S) : Len(s) = n /\ s \notin T}
<1> SUFFICES ASSUME N # {} PROVE FALSE
  <2>1. \A s \in Seq(S) : Len(s) \in Nat
    BY LenProperties
  <2> QED
    BY <2>1
<1>1. PICK m \in N : \A n \in N : m <= n
  BY Least
<1>2. PICK s \in Seq(S) : Len(s) = m /\ s \notin T
  OBVIOUS
<1>3. PICK t \in Seq(S), e \in S : s = Append(t, e)
  BY <1>2, SequenceEmptyOrAppend
<1>4. Len(t) \in Nat /\ Len(s) = Len(t) + 1
  BY <1>3, AppendProperties, LenProperties
<1>5. Len(t) \notin N
  <2>1. ~ m <= Len(t)
    BY <1>2, <1>4
  <2> HIDE DEF N
  <2> QED
    BY <1>1, <2>1
<1>6. t \in T
  BY <1>4, <1>5
<1> QED
  BY <1>2, <1>3, <1>6

\* The picks of OfDate, one after the other.
Picks(s, f, d, p) ==
  p = [i \in 0..Len(s) |->
         IF i = 0 THEN <<>>
         ELSE IF f[s[i]] = d THEN Append(p[i - 1], s[i]) ELSE p[i - 1]]

LEMMA PicksUnique ==
  ASSUME NEW s, Len(s) \in Nat, NEW f, NEW d, NEW p, NEW q,
         Picks(s, f, d, p), Picks(s, f, d, q)
  PROVE  p = q
<1>1. /\ \A i \in 0..Len(s) :
           p[i] = IF i = 0 THEN <<>>
                  ELSE IF f[s[i]] = d THEN Append(p[i - 1], s[i]) ELSE p[i - 1]
      /\ p = [i \in 0..Len(s) |-> p[i]]
  BY DEF Picks
<1>2. /\ \A i \in 0..Len(s) :
           q[i] = IF i = 0 THEN <<>>
                  ELSE IF f[s[i]] = d THEN Append(q[i - 1], s[i]) ELSE q[i - 1]
      /\ q = [i \in 0..Len(s) |-> q[i]]
  BY DEF Picks
<1> DEFINE N == {i \in 0..Len(s) : p[i] # q[i]}
<1>3. ASSUME N # {} PROVE FALSE
  <2>1. PICK m \in N : \A n \in N : m <= n
    <3>1. N \subseteq Nat
      OBVIOUS
    <3> HIDE DEF N
    <3> QED
      BY <1>3, <3>1, Least
  <2>2. m \in 0..Len(s) /\ p[m] # q[m]
    OBVIOUS
  <2>3. m # 0
    BY <1>1, <1>2, <2>2
  <2>4. m - 1 \in 0..Len(s) /\ m - 1 \notin N
    BY <2>1, <2>2, <2>3
  <2>5. p[m - 1] = q[m - 1]
    BY <2>4
  <2> QED
    BY <1>1, <1>2, <2>2, <2>3, <2>5
<1>4. \A i \in 0..Len(s) : p[i] = q[i]
  BY <1>3
<1> QED
  BY <1>1, <1>2, <1>4

LEMMA OfDateIsPick ==
  ASSUME NEW s, Len(s) \in Nat, NEW f, NEW d, NEW p, Picks(s, f, d, p)
  PROVE  OfDate(s, f, d) = p[Len(s)]
<1> DEFINE W(g) == [i \in 0..Len(s) |->
                      IF i = 0 THEN <<>>
                      ELSE IF f[s[i]] = d THEN Append(g[i - 1], s[i]) ELSE g[i - 1]]
           pick == CHOOSE g : g = W(g)
<1>1. OfDate(s, f, d) = pick[Len(s)]
  BY DEF OfDate
<1>2. p = W(p)
  BY DEF Picks
<1>3. pick = W(pick)
  <2> HIDE DEF W
  <2> QED
    BY <1>2
<1>4. Picks(s, f, d, pick)
  <2> HIDE DEF pick
  <2> QED
    BY <1>3 DEF Picks
<1>5. p = pick
  <2> HIDE DEF pick
  <2> QED
    BY <1>4, PicksUnique
<1> QED
  BY <1>1, <1>5

LEMMA PicksAppend ==
  ASSUME NEW S, NEW s \in Seq(S), NEW e \in S, NEW f, NEW d, NEW p, Picks(s, f, d, p)
  PROVE  \E q : /\ Picks(Append(s, e), f, d, q)
                /\ q[Len(s) + 1] = IF f[e] = d THEN Append(p[Len(s)], e) ELSE p[Len(s)]
<1> DEFINE t == Append(s, e)
           last == IF f[e] = d THEN Append(p[Len(s)], e) ELSE p[Len(s)]
           q == [i \in 0..Len(s) + 1 |-> IF i <= Len(s) THEN p[i] ELSE last]
<1>1. /\ Len(s) \in Nat /\ Len(t) = Len(s) + 1
      /\ \A i \in 1..Len(s) : t[i] = s[i]
      /\ t[Len(s) + 1] = e
  BY AppendProperties, LenProperties
<1>2. \A i \in 0..Len(s) :
        p[i] = IF i = 0 THEN <<>>
               ELSE IF f[s[i]] = d THEN Append(p[i - 1], s[i]) ELSE p[i - 1]
  BY DEF Picks
<1>3. q[Len(s) + 1] = last /\ \A i \in 0..Len(s) : q[i] = p[i]
  BY <1>1
<1> HIDE DEF t
<1>4. ASSUME NEW i \in 0..Len(t)
      PROVE  q[i] = IF i = 0 THEN <<>>
                    ELSE IF f[t[i]] = d THEN Append(q[i - 1], t[i]) ELSE q[i - 1]
  <2>1. CASE i = 0
    BY <1>1, <1>2, <1>3, <2>1
  <2>2. CASE i \in 1..Len(s)
    <3>1. i \in 0..Len(s) /\ i - 1 \in 0..Len(s) /\ i # 0
      BY <1>1, <2>2
    <3>2. q[i] = p[i] /\ q[i - 1] = p[i - 1] /\ t[i] = s[i]
      BY <1>1, <1>3, <2>2, <3>1
    <3> HIDE DEF q
    <3> QED
      BY <1>2, <3>1, <3>2
  <2>3. CASE i = Len(s) + 1
    <3>1. i - 1 = Len(s) /\ i # 0 /\ Len(s) \in 0..Len(s)
      BY <1>1, <2>3
    <3>2. q[i] = last /\ q[i - 1] = p[Len(s)] /\ t[i] = e
      BY <1>1, <1>3, <2>3, <3>1
    <3> HIDE DEF q
    <3> QED
      BY <3>1, <3>2
  <2> QED
    BY <1>1, <2>1, <2>2, <2>3
<1>5. q = [i \in 0..Len(t) |-> q[i]]
  BY <1>1
<1>6. Picks(t, f, d, q)
  <2> HIDE DEF q
  <2> QED
    BY <1>4, <1>5 DEF Picks
<1> HIDE DEF q
<1> QED
  BY <1>3, <1>6 DEF t

LEMMA PicksExist ==
  ASSUME NEW S, NEW s \in Seq(S), NEW f, NEW d
  PROVE  \E p : Picks(s, f, d, p)
<1> DEFINE T == {t \in Seq(S) : \E p : Picks(t, f, d, p)}
<1>1. <<>> \in T
  <2> DEFINE p == [i \in 0..0 |-> <<>>]
  <2>1. Len(<<>>) = 0 /\ <<>> \in Seq(S)
    OBVIOUS
  <2>2. Picks(<<>>, f, d, p)
    BY <2>1 DEF Picks
  <2> QED
    BY <2>1, <2>2
<1>2. \A t \in T, e \in S : Append(t, e) \in T
  BY PicksAppend, AppendProperties
<1>3. T \subseteq Seq(S)
  OBVIOUS
<1> HIDE DEF T
<1>4. s \in T
  BY <1>1, <1>2, <1>3, ListInduction
<1> QED
  BY <1>4 DEF T

LEMMA OfDateEmpty ==
  ASSUME NEW f, NEW d
  PROVE  OfDate(<<>>, f, d) = <<>>
<1> DEFINE p == [i \in 0..0 |-> <<>>]
<1>1. Len(<<>>) = 0 /\ p[0] = <<>>
  OBVIOUS
<1>2. Picks(<<>>, f, d, p)
  BY <1>1 DEF Picks
<1> HIDE DEF p
<1> QED
  BY <1>1, <1>2, OfDateIsPick

LEMMA OfDateAppend ==
  ASSUME NEW S, NEW s \in Seq(S), NEW e \in S, NEW f, NEW d
  PROVE  OfDate(Append(s, e), f, d) = IF f[e] = d THEN Append(OfDate(s, f, d), e)
                                      ELSE OfDate(s, f, d)
<1>1. PICK p : Picks(s, f, d, p)
  BY PicksExist
<1>2. PICK q : /\ Picks(Append(s, e), f, d, q)
               /\ q[Len(s) + 1] = IF f[e] = d THEN Append(p[Len(s)], e) ELSE p[Len(s)]
  BY <1>1, PicksAppend
<1>3. Len(s) \in Nat /\ Len(Append(s, e)) = Len(s) + 1
  BY AppendProperties, LenProperties
<1>4. OfDate(s, f, d) = p[Len(s)]
  BY <1>1, <1>3, OfDateIsPick
<1>5. OfDate(Append(s, e), f, d) = q[Len(s) + 1]
  <2> DEFINE t == Append(s, e)
  <2>1. Picks(t, f, d, q) /\ Len(t) = Len(s) + 1 /\ Len(t) \in Nat
    BY <1>2, <1>3
  <2> HIDE DEF t
  <2>2. OfDate(t, f, d) = q[Len(t)]
    BY <2>1, OfDateIsPick
  <2> QED
    BY <2>1, <2>2 DEF t
<1> QED
  BY <1>2, <1>4, <1>5

\* It only has elements of the list.
LEMMA OfDateType ==
  ASSUME NEW S, NEW s \in Seq(S), NEW f, NEW d
  PROVE  /\ OfDate(s, f, d) \in Seq(S)
         /\ InList(OfDate(s, f, d)) \subseteq InList(s)
<1> DEFINE T == {t \in Seq(S) : /\ OfDate(t, f, d) \in Seq(S)
                                /\ InList(OfDate(t, f, d)) \subseteq InList(t)}
<1>1. <<>> \in T
  BY OfDateEmpty, EmptySeq
<1>2. ASSUME NEW t \in T, NEW e \in S PROVE Append(t, e) \in T
  <2>1. Append(t, e) \in Seq(S) /\ InList(Append(t, e)) = InList(t) \cup {e}
    BY AppendProperties, AppendInList
  <2>2. /\ Append(OfDate(t, f, d), e) \in Seq(S)
        /\ InList(Append(OfDate(t, f, d), e)) = InList(OfDate(t, f, d)) \cup {e}
    BY AppendProperties, AppendInList
  <2>3. t \in Seq(S) /\ InList(OfDate(t, f, d)) \subseteq InList(t)
        /\ OfDate(t, f, d) \in Seq(S)
    OBVIOUS
  <2>4. OfDate(Append(t, e), f, d) = IF f[e] = d THEN Append(OfDate(t, f, d), e)
                                     ELSE OfDate(t, f, d)
    BY <2>3, OfDateAppend
  <2>5. /\ OfDate(Append(t, e), f, d) \in Seq(S)
        /\ InList(OfDate(Append(t, e), f, d)) \subseteq InList(Append(t, e))
    <3>1. CASE f[e] = d
      BY <2>1, <2>2, <2>3, <2>4, <3>1
    <3>2. CASE f[e] # d
      BY <2>1, <2>3, <2>4, <3>2
    <3> QED
      BY <3>1, <3>2
  <2> QED
    BY <2>1, <2>5
<1>3. T \subseteq Seq(S)
  OBVIOUS
<1> HIDE DEF T
<1>4. s \in T
  BY <1>1, <1>2, <1>3, ListInduction
<1> QED
  BY <1>4 DEF T

\* It only depends on the dates of the elements of the list.
LEMMA OfDateSame ==
  ASSUME NEW S, NEW s \in Seq(S), NEW f, NEW g, NEW d,
         \A e \in InList(s) : f[e] = g[e]
  PROVE  OfDate(s, f, d) = OfDate(s, g, d)
<1> DEFINE T == {t \in Seq(S) : (\A e \in InList(t) : f[e] = g[e])
                                  => OfDate(t, f, d) = OfDate(t, g, d)}
<1>1. <<>> \in T
  BY OfDateEmpty, EmptySeq
<1>2. ASSUME NEW t \in T, NEW e \in S PROVE Append(t, e) \in T
  <2>1. Append(t, e) \in Seq(S) /\ InList(Append(t, e)) = InList(t) \cup {e}
    BY AppendProperties, AppendInList
  <2>2. t \in Seq(S)
    OBVIOUS
  <2>3. /\ OfDate(Append(t, e), f, d) = IF f[e] = d THEN Append(OfDate(t, f, d), e)
                                        ELSE OfDate(t, f, d)
        /\ OfDate(Append(t, e), g, d) = IF g[e] = d THEN Append(OfDate(t, g, d), e)
                                        ELSE OfDate(t, g, d)
    BY <2>2, OfDateAppend
  <2>4. ASSUME \A x \in InList(t) \cup {e} : f[x] = g[x]
        PROVE  OfDate(Append(t, e), f, d) = OfDate(Append(t, e), g, d)
    <3>1. f[e] = g[e] /\ OfDate(t, f, d) = OfDate(t, g, d)
      BY <2>4
    <3> QED
      BY <2>3, <3>1
  <2> QED
    BY <2>1, <2>4
<1>3. T \subseteq Seq(S)
  OBVIOUS
<1> HIDE DEF T
<1>4. s \in T
  BY <1>1, <1>2, <1>3, ListInduction
<1> QED
  BY <1>4 DEF T

LEMMA OfDateAll ==
  ASSUME NEW S, NEW s \in Seq(S), NEW f, NEW d,
         \A e \in InList(s) : f[e] = d
  PROVE  OfDate(s, f, d) = s
<1> DEFINE T == {t \in Seq(S) : (\A e \in InList(t) : f[e] = d)
                                  => OfDate(t, f, d) = t}
<1>1. <<>> \in T
  BY OfDateEmpty, EmptySeq
<1>2. ASSUME NEW t \in T, NEW e \in S PROVE Append(t, e) \in T
  <2>1. Append(t, e) \in Seq(S) /\ InList(Append(t, e)) = InList(t) \cup {e}
    BY AppendProperties, AppendInList
  <2> QED
    BY <2>1, OfDateAppend
<1>3. T \subseteq Seq(S)
  OBVIOUS
<1> HIDE DEF T
<1>4. s \in T
  BY <1>1, <1>2, <1>3, ListInduction
<1> QED
  BY <1>4 DEF T

LEMMA OfDateNone ==
  ASSUME NEW S, NEW s \in Seq(S), NEW f, NEW d,
         \A e \in InList(s) : f[e] # d
  PROVE  OfDate(s, f, d) = <<>>
<1> DEFINE T == {t \in Seq(S) : (\A e \in InList(t) : f[e] # d)
                                  => OfDate(t, f, d) = <<>>}
<1>1. <<>> \in T
  BY OfDateEmpty, EmptySeq
<1>2. ASSUME NEW t \in T, NEW e \in S PROVE Append(t, e) \in T
  <2>1. Append(t, e) \in Seq(S) /\ InList(Append(t, e)) = InList(t) \cup {e}
    BY AppendProperties, AppendInList
  <2> QED
    BY <2>1, OfDateAppend
<1>3. T \subseteq Seq(S)
  OBVIOUS
<1> HIDE DEF T
<1>4. s \in T
  BY <1>1, <1>2, <1>3, ListInduction
<1> QED
  BY <1>4 DEF T

LEMMA OfDateTail ==
  ASSUME NEW S, NEW s \in Seq(S), s # <<>>, NEW f, NEW d
  PROVE  OfDate(s, f, d) = IF f[Head(s)] = d THEN <<Head(s)>> \o OfDate(Tail(s), f, d)
                           ELSE OfDate(Tail(s), f, d)
<1> DEFINE T == {t \in Seq(S) :
                  t # <<>> => OfDate(t, f, d) =
                                IF f[Head(t)] = d THEN <<Head(t)>> \o OfDate(Tail(t), f, d)
                                ELSE OfDate(Tail(t), f, d)}
<1>1. <<>> \in T
  BY EmptySeq
<1>2. ASSUME NEW t \in T, NEW e \in S PROVE Append(t, e) \in T
  <2> DEFINE u == Append(t, e)
  <2>1. /\ u \in Seq(S)
        /\ OfDate(u, f, d) = IF f[e] = d THEN Append(OfDate(t, f, d), e)
                             ELSE OfDate(t, f, d)
    BY AppendProperties, OfDateAppend
  <2>2. CASE t = <<>>
    <3>1. Head(u) = e /\ Tail(u) = <<>>
      BY <2>2, HeadTailAppend
    <3>2. <<e>> \o <<>> = <<e>> /\ Append(<<>>, e) = <<e>>
      <4>1. <<e>> \in Seq(S)
        OBVIOUS
      <4> QED
        BY <4>1, ConcatEmptySeq
    <3> HIDE DEF u
    <3>3. OfDate(u, f, d) = IF f[e] = d THEN <<e>> ELSE <<>>
      BY <2>1, <2>2, <3>2, OfDateEmpty
    <3>4. u \in T
      BY <2>1, <3>1, <3>2, <3>3, OfDateEmpty
    <3> QED
      BY <3>4 DEF u
  <2>3. CASE t # <<>>
    <3>1. Head(u) = Head(t) /\ Tail(u) = Append(Tail(t), e)
      BY <2>3, HeadTailAppend
    <3>2. Tail(t) \in Seq(S) /\ Head(t) \in S
      BY <2>3, HeadTailProperties
    <3> DEFINE h == Head(t)
               r == OfDate(Tail(t), f, d)
    <3>3. r \in Seq(S) /\ <<h>> \in Seq(S) /\ <<e>> \in Seq(S)
      <4>1. r \in Seq(S)
        BY ONLY <3>2, OfDateType
      <4> QED
        BY <3>2, <4>1
    <3>4. OfDate(Tail(u), f, d) = IF f[e] = d THEN Append(r, e) ELSE r
      <4>1. \A v \in Seq(S) : OfDate(Append(v, e), f, d) =
                               IF f[e] = d THEN Append(OfDate(v, f, d), e)
                               ELSE OfDate(v, f, d)
        BY OfDateAppend
      <4>2. OfDate(Append(Tail(t), e), f, d) =
              IF f[e] = d THEN Append(OfDate(Tail(t), f, d), e) ELSE OfDate(Tail(t), f, d)
        BY ONLY <3>2, <4>1
      <4> QED
        BY <3>1, <4>2
    <3>5. OfDate(t, f, d) = IF f[h] = d THEN <<h>> \o r ELSE r
      BY <2>3
    <3>6. Append(<<h>> \o r, e) = <<h>> \o Append(r, e)
      <4> HIDE DEF r, h
      <4>1. <<h>> \o r \in Seq(S)
        BY <3>3, ConcatProperties
      <4>2. Append(<<h>> \o r, e) = (<<h>> \o r) \o <<e>> /\ Append(r, e) = r \o <<e>>
        BY <3>3, <4>1, AppendIsConcat
      <4> QED
        BY <3>3, <4>2, ConcatAssociative
    <3> HIDE DEF u, r
    <3>7. u \in T
      BY <2>1, <3>1, <3>4, <3>5, <3>6 DEF r
    <3> QED
      BY <3>7 DEF u
  <2> QED
    BY <2>2, <2>3
<1>3. T \subseteq Seq(S)
  OBVIOUS
<1> HIDE DEF T
<1>4. s \in T
  BY <1>1, <1>2, <1>3, ListInduction
<1> QED
  BY <1>4 DEF T

(***************************************************************************)
(* What a level holds of a date.                                           *)
(***************************************************************************)
\* The events of the date d in the buffer b of level l.
Cell(l, b, d) == OfDate(buf[<<l, b, d[l]>>], date, d)

Stored == UNION {InList(buf[x]) : x \in Places}

LEMMA CellType ==
  ASSUME TypeOK, NEW l \in Levels, NEW b \in {0, 1}, NEW d \in Dates
  PROVE  /\ <<l, b, d[l]>> \in Places
         /\ Cell(l, b, d) \in Seq(Events)
         /\ InList(Cell(l, b, d)) \subseteq InList(buf[<<l, b, d[l]>>])
         /\ InList(Cell(l, b, d)) \subseteq Stored
<1>1. <<l, b, d[l]>> \in Places
  BY DEF Dates, Places
<1>2. buf[<<l, b, d[l]>>] \in Seq(Events)
  BY <1>1 DEF TypeOK
<1>3. /\ Cell(l, b, d) \in Seq(Events)
      /\ InList(Cell(l, b, d)) \subseteq InList(buf[<<l, b, d[l]>>])
  BY <1>2, OfDateType DEF Cell
<1> QED
  BY <1>1, <1>3 DEF Stored

LEMMA CellEmpty ==
  ASSUME TypeOK, Placed, NEW l \in Levels, NEW b \in {0, 1}, NEW d \in Dates,
         ~ Fits(d, l, b, d[l])
  PROVE  Cell(l, b, d) = <<>>
<1>1. d[l] \in Digits /\ buf[<<l, b, d[l]>>] \in Seq(Events)
  BY CellType DEF TypeOK, Dates
<1>2. \A e \in InList(buf[<<l, b, d[l]>>]) : Fits(date[e], l, b, d[l])
  BY <1>1 DEF Placed
<1>3. \A e \in InList(buf[<<l, b, d[l]>>]) : date[e] # d
  BY <1>2
<1> QED
  BY <1>1, <1>3, OfDateNone DEF Cell

LEMMA NotBoth ==
  ASSUME sysDate \in Dates, NEW l \in Levels, l > 0, NEW d \in Dates,
         InPeriod(d, l), InNextPeriod(d, l)
  PROVE  FALSE
<1>1. l - 1 \in 0..(l - 1) /\ l - 1 \in Levels
  BY DEF Levels
<1>2. \A j \in ((l - 1) + 1)..(l - 1) : FALSE
  BY DEF Levels
<1>3. d[l - 1] = sysDate[l - 1]
  BY <1>1 DEF InPeriod
<1>4. d[l - 1] = (sysDate[l - 1] + 1) % Base
  BY <1>1, <1>2 DEF InNextPeriod
<1>5. sysDate[l - 1] \in Digits
  BY <1>1 DEF Dates
<1> QED
  BY <1>3, <1>4, <1>5, NextDigit

\* A date is never for both buffers of a level.
LEMMA OneBuffer ==
  ASSUME sysDate \in Dates, NEW l \in Levels, NEW d \in Dates,
         InPrimary(d, l), InAlternate(d, l)
  PROVE  FALSE
<1>1. CASE Behind(l) /\ Carried(l)
  BY <1>1 DEF InPrimary
<1>2. CASE ~ (Behind(l) /\ Carried(l))
  <2>1. l > 0 /\ InPeriod(d, l) /\ InNextPeriod(d, l)
    BY <1>2 DEF InPrimary, InAlternate
  <2> QED
    BY <2>1, NotBoth
<1> QED
  BY <1>1, <1>2

\* So the order of the two buffers does not matter.
LEMMA OnePiece ==
  ASSUME TypeOK, Placed, NEW l \in Levels, NEW d \in Dates
  PROVE  /\ pri[l] \in {0, 1} /\ alt(l) \in {0, 1} /\ pri[l] # alt(l) /\ alt(l) = 1 - pri[l]
         /\ Cell(l, pri[l], d) = <<>> \/ Cell(l, alt(l), d) = <<>>
         /\ Cell(l, pri[l], d) \in Seq(Events) /\ Cell(l, alt(l), d) \in Seq(Events)
<1>1. pri[l] \in {0, 1} /\ alt(l) \in {0, 1} /\ pri[l] # alt(l) /\ sysDate \in Dates
  BY DEF TypeOK, alt
<1>2. CASE ~ InPrimary(d, l)
  <2>1. ~ Fits(d, l, pri[l], d[l])
    BY <1>2 DEF Fits
  <2> QED
    BY <1>1, <2>1, CellEmpty, CellType DEF alt
<1>3. CASE ~ InAlternate(d, l)
  <2>1. ~ Fits(d, l, alt(l), d[l])
    BY <1>1, <1>3 DEF Fits
  <2> QED
    BY <1>1, <2>1, CellEmpty, CellType DEF alt
<1> QED
  BY <1>1, <1>2, <1>3, OneBuffer

LEMMA HeldIs ==
  ASSUME NEW l, NEW d
  PROVE  Held(l, d) = Cell(l, pri[l], d) \o Cell(l, alt(l), d)
BY DEF Held, Cell

LEMMA HeldType ==
  ASSUME TypeOK, Placed, NEW l \in Levels, NEW d \in Dates
  PROVE  Held(l, d) \in Seq(Events) /\ InList(Held(l, d)) \subseteq Stored
<1>1. /\ pri[l] \in {0, 1} /\ alt(l) \in {0, 1}
      /\ Cell(l, pri[l], d) \in Seq(Events) /\ Cell(l, alt(l), d) \in Seq(Events)
  BY OnePiece
<1>2. InList(Cell(l, pri[l], d)) \subseteq Stored /\ InList(Cell(l, alt(l), d)) \subseteq Stored
  BY <1>1, CellType
<1>3. Held(l, d) = Cell(l, pri[l], d) \o Cell(l, alt(l), d)
  BY HeldIs
<1> QED
  BY <1>1, <1>2, <1>3, ConcatInList

LEMMA ConcatWithin ==
  ASSUME NEW S, NEW U, NEW s \in Seq(S), NEW t \in Seq(S),
         InList(s) \subseteq U, InList(t) \subseteq U
  PROVE  s \o t \in Seq(S) /\ InList(s \o t) \subseteq U
BY ConcatInList

LEMMA OrderedType ==
  ASSUME TypeOK, Placed, NEW d \in Dates
  PROVE  Ordered(d) \in Seq(Events) /\ InList(Ordered(d)) \subseteq Stored
<1>1. \A l \in Levels : Held(l, d) \in Seq(Events) /\ InList(Held(l, d)) \subseteq Stored
  BY HeldType
<1>2. PICK h3, h2, h1, h0 : /\ h3 = Held(3, d) /\ h2 = Held(2, d)
                            /\ h1 = Held(1, d) /\ h0 = Held(0, d)
  OBVIOUS
<1>3. PICK U : U = Stored
  OBVIOUS
<1>4. /\ h3 \in Seq(Events) /\ InList(h3) \subseteq U
      /\ h2 \in Seq(Events) /\ InList(h2) \subseteq U
      /\ h1 \in Seq(Events) /\ InList(h1) \subseteq U
      /\ h0 \in Seq(Events) /\ InList(h0) \subseteq U
  BY <1>1, <1>2, <1>3 DEF Levels
<1>5. h3 \o h2 \in Seq(Events) /\ InList(h3 \o h2) \subseteq U
  BY <1>4, ConcatWithin
<1>6. (h3 \o h2) \o h1 \in Seq(Events) /\ InList((h3 \o h2) \o h1) \subseteq U
  BY <1>4, <1>5, ConcatWithin
<1>7. /\ ((h3 \o h2) \o h1) \o h0 \in Seq(Events)
      /\ InList(((h3 \o h2) \o h1) \o h0) \subseteq U
  BY <1>4, <1>6, ConcatWithin
<1>8. Ordered(d) = ((h3 \o h2) \o h1) \o h0
  BY <1>2 DEF Ordered
<1> QED
  BY <1>3, <1>7, <1>8

\* Each event of the levels is in one of them, and none of those is late.
LEMMA StoredIs == Core => InSorter \ InList(late) = Stored
BY OneListIsSingle DEF Core, Single, Apart, InSorter, Stored

\* The timetable.
Due == [n \in {Number(date[e]) : e \in InSorter \ InList(late)} |-> Ordered(ToDate(n))]

DueOK ==
  /\ DOMAIN Due = {Number(date[e]) : e \in Stored}
  /\ \A e \in Stored : e \in Events /\ date[e] \in Dates
  /\ \A n \in DOMAIN Due : ToDate(n) \in Dates /\ Number(ToDate(n)) = n
  /\ \A d \in Dates : /\ Number(d) \in DOMAIN Due => Due[Number(d)] = Ordered(d)
                      /\ Number(d) \notin DOMAIN Due => Ordered(d) = <<>>

LEMMA DueIs == Core => DueOK
<1> SUFFICES ASSUME Core PROVE DueOK
  OBVIOUS
<1>0. TypeOK /\ Placed
  BY DEF Core
<1>1. DOMAIN Due = {Number(date[e]) : e \in Stored}
  BY StoredIs DEF Due
<1>2. ASSUME NEW e \in Stored PROVE e \in Events /\ date[e] \in Dates
  <2>1. PICK x \in Places : e \in InList(buf[x])
    BY DEF Stored
  <2>2. buf[x] \in Seq(Events)
    BY <1>0 DEF TypeOK
  <2> QED
    BY <1>0, <2>1, <2>2, InListType DEF TypeOK
<1>3. ASSUME NEW n \in DOMAIN Due PROVE ToDate(n) \in Dates /\ Number(ToDate(n)) = n
  <2>1. PICK e \in Stored : n = Number(date[e])
    BY <1>1
  <2> QED
    BY <1>2, <2>1, ToDateOfNumber
<1>4. ASSUME NEW d \in Dates, Number(d) \in DOMAIN Due
      PROVE  Due[Number(d)] = Ordered(d)
  <2>1. \A n \in DOMAIN Due : Due[n] = Ordered(ToDate(n))
    BY DEF Due
  <2>2. ToDate(Number(d)) = d
    BY ToDateOfNumber
  <2> QED
    BY <1>4, <2>1, <2>2
<1>5. ASSUME NEW d \in Dates, Number(d) \notin DOMAIN Due
      PROVE  Ordered(d) = <<>>
  <2>1. \A e \in Stored : date[e] # d
    BY <1>1, <1>5
  <2>2. ASSUME NEW l \in Levels, NEW b \in {0, 1} PROVE Cell(l, b, d) = <<>>
    <3>1. <<l, b, d[l]>> \in Places
      BY <1>0, CellType
    <3>2. \A e \in InList(buf[<<l, b, d[l]>>]) : date[e] # d
      BY <2>1, <3>1 DEF Stored
    <3>3. buf[<<l, b, d[l]>>] \in Seq(Events)
      BY <1>0, <3>1 DEF TypeOK
    <3> QED
      BY <3>2, <3>3, OfDateNone DEF Cell
  <2>3. <<>> \o <<>> = <<>>
    BY EmptySeq, ConcatEmptySeq
  <2>4. \A l \in Levels : Held(l, d) = <<>>
    BY <1>0, <2>2, <2>3, OnePiece, HeldIs
  <2> QED
    BY <2>3, <2>4 DEF Ordered, Levels
<1> QED
  BY <1>1, <1>2, <1>3, <1>4, <1>5 DEF DueOK

(***************************************************************************)
(* What each step does to the timetable.                                   *)
(***************************************************************************)
LEMMA SameNumber ==
  ASSUME NEW c \in Dates, NEW d \in Dates, Number(c) = Number(d)
  PROVE  c = d
BY ToDateOfNumber

\* The timetable after a step, one date at a time.
LEMMA DueNext ==
  ASSUME Core'
  PROVE  /\ DOMAIN Due' = {Number(date'[e]) : e \in Stored'}
         /\ \A d \in Dates : Number(d) \in DOMAIN Due' => Due'[Number(d)] = Ordered(d)'
         /\ \A n \in DOMAIN Due' : ToDate(n) \in Dates /\ Number(ToDate(n)) = n
         /\ Due' = [n \in DOMAIN Due' |-> Due'[n]]
<1>1. /\ DOMAIN Due' = {Number(date'[e]) : e \in Stored'}
      /\ \A n \in DOMAIN Due' : ToDate(n) \in Dates /\ Number(ToDate(n)) = n
      /\ \A d \in Dates : Number(d) \in DOMAIN Due' => Due'[Number(d)] = Ordered(d)'
  <2>1. DueOK'
    BY DueIs, PTL
  <2> QED
    BY <2>1 DEF DueOK
<1>2. Due' = [n \in DOMAIN Due' |-> Due'[n]]
  BY DEF Due
<1> QED
  BY <1>1, <1>2

LEMMA DueStays ==
  ASSUME Core, Core', Stored' = Stored, \A e \in Stored : date'[e] = date[e],
         \A d \in Dates : Ordered(d)' = Ordered(d)
  PROVE  Due' = Due
<1>1. DOMAIN Due' = DOMAIN Due
  BY DueIs, DueNext DEF DueOK
<1>2. ASSUME NEW n \in DOMAIN Due PROVE Due'[n] = Due[n]
  <2>1. PICK d \in Dates : n = Number(d)
    BY DueIs DEF DueOK
  <2> QED
    BY <1>1, <2>1, DueIs, DueNext DEF DueOK
<1>3. Due = [n \in DOMAIN Due |-> Due[n]]
  BY DEF Due
<1> QED
  BY <1>1, <1>2, <1>3, DueNext

LEMMA DueTakes ==
  ASSUME Core, Core', NEW e, NEW c \in Dates, c = date[e],
         date' = date, Stored' = Stored \cup {e},
         \A d \in Dates : Ordered(d)' = IF d = c THEN Append(Ordered(d), e) ELSE Ordered(d)
  PROVE  Due' = [n \in DOMAIN Due \cup {Number(c)} |->
                  IF n = Number(c)
                  THEN Append(IF n \in DOMAIN Due THEN Due[n] ELSE <<>>, e)
                  ELSE Due[n]]
<1>1. DOMAIN Due' = DOMAIN Due \cup {Number(c)}
  BY DueIs, DueNext DEF DueOK
<1>2. Due'[Number(c)] = Append(IF Number(c) \in DOMAIN Due THEN Due[Number(c)] ELSE <<>>, e)
  BY <1>1, DueIs, DueNext DEF DueOK
<1>3. ASSUME NEW n \in DOMAIN Due, n # Number(c) PROVE Due'[n] = Due[n]
  <2>1. PICK d \in Dates : n = Number(d)
    BY DueIs DEF DueOK
  <2>2. d # c
    BY <1>3, <2>1
  <2> QED
    BY <1>1, <2>1, <2>2, DueIs, DueNext DEF DueOK
<1> QED
  BY <1>1, <1>2, <1>3, DueNext

LEMMA DueReleases ==
  ASSUME Core, Core', NEW c \in Dates, date' = date,
         Stored' = {e \in Stored : date[e] # c},
         \A d \in Dates : d # c => Ordered(d)' = Ordered(d)
  PROVE  Due' = [n \in DOMAIN Due \ {Number(c)} |-> Due[n]]
<1>1. DOMAIN Due' = DOMAIN Due \ {Number(c)}
  <2>1. \A e \in Stored : date[e] # c <=> Number(date[e]) # Number(c)
    BY DueIs, SameNumber DEF DueOK
  <2> QED
    BY <2>1, DueIs, DueNext DEF DueOK
<1>2. ASSUME NEW n \in DOMAIN Due, n # Number(c) PROVE Due'[n] = Due[n]
  <2>1. PICK d \in Dates : n = Number(d)
    BY DueIs DEF DueOK
  <2>2. d # c
    BY <1>2, <2>1
  <2> QED
    BY <1>1, <1>2, <2>1, <2>2, DueIs, DueNext DEF DueOK
<1> QED
  BY <1>1, <1>2, DueNext

\* Steps that leave the levels alone.
LEMMA OrderedStays ==
  ASSUME TypeOK, UNCHANGED <<buf, pri>>, \A e \in Stored : date'[e] = date[e],
         NEW d \in Dates
  PROVE  Ordered(d)' = Ordered(d)
<1>1. ASSUME NEW l \in Levels PROVE Held(l, d)' = Held(l, d)
  <2>1. ASSUME NEW b \in {0, 1}
        PROVE  OfDate(buf[<<l, b, d[l]>>], date', d) = OfDate(buf[<<l, b, d[l]>>], date, d)
    <3>1. <<l, b, d[l]>> \in Places
      BY CellType
    <3>2. buf[<<l, b, d[l]>>] \in Seq(Events)
      BY <3>1 DEF TypeOK
    <3>3. \A e \in InList(buf[<<l, b, d[l]>>]) : date'[e] = date[e]
      BY <3>1 DEF Stored
    <3> QED
      BY <3>2, <3>3, OfDateSame
  <2>2. pri[l] \in {0, 1} /\ alt(l) \in {0, 1} /\ alt(l)' = alt(l)
    BY DEF TypeOK, alt
  <2> QED
    BY <2>1, <2>2 DEF Held
<1> QED
  BY <1>1 DEF Ordered, Levels

LEMMA LevelsAlone ==
  ASSUME Core, Core', UNCHANGED <<buf, pri>>, \A e \in Stored : date'[e] = date[e]
  PROVE  Due' = Due
<1>1. \A d \in Dates : Ordered(d)' = Ordered(d)
  BY OrderedStays DEF Core
<1>2. Stored' = Stored
  BY DEF Stored
<1> QED
  BY <1>1, <1>2, DueStays

LEMMA ConcatAppend ==
  ASSUME NEW S, NEW s \in Seq(S), NEW t \in Seq(S), NEW e \in S
  PROVE  /\ s \o Append(t, e) = Append(s \o t, e)
         /\ Append(s, e) \o t = s \o (<<e>> \o t)
<1>1. <<e>> \in Seq(S) /\ s \o t \in Seq(S)
  BY ConcatProperties
<1>2. Append(t, e) = t \o <<e>> /\ Append(s, e) = s \o <<e>>
      /\ Append(s \o t, e) = (s \o t) \o <<e>>
  BY <1>1, AppendIsConcat
<1> QED
  BY <1>1, <1>2, ConcatAssociative

\* PutEvent: the event goes to the end of those of its date.
LEMMA PutOrdered ==
  ASSUME Core, NEW e \in Events, NEW c \in Dates, c = date[e], After(c, sysDate),
         pc = "input", NEW l \in Levels, l = FirstAbove(c),
         buf' = [buf EXCEPT ![<<l, pri[l], c[l]>>] = Append(@, e)],
         UNCHANGED <<date, pri>>, NEW d \in Dates
  PROVE  Ordered(d)' = IF d = c THEN Append(Ordered(d), e) ELSE Ordered(d)
<1> DEFINE x == <<l, pri[l], c[l]>>
<1>1. TypeOK /\ Placed /\ sysDate \in Dates
  BY DEF Core, TypeOK
<1>2. /\ x \in Places /\ buf[x] \in Seq(Events) /\ pri[l] \in {0, 1}
      /\ buf'[x] = Append(buf[x], e)
      /\ \A z \in Places : z # x => buf'[z] = buf[z]
  <2>1. buf \in [Places -> Seq(Events)] /\ pri[l] \in {0, 1}
    BY <1>1 DEF TypeOK
  <2>2. x \in Places
    BY <1>1, <2>1, CellType
  <2> QED
    BY <2>1, <2>2
<1> HIDE DEF x
<1>3. ASSUME NEW k \in Levels, NEW b \in {0, 1}
      PROVE  Cell(k, b, d)' = IF d = c /\ <<k, b, d[k]>> = x
                              THEN Append(Cell(k, b, d), e) ELSE Cell(k, b, d)
  <2>1. <<k, b, d[k]>> \in Places
    BY <1>1, CellType
  <2>2. CASE <<k, b, d[k]>> # x
    <3>1. buf'[<<k, b, d[k]>>] = buf[<<k, b, d[k]>>]
      BY <1>2, <2>1, <2>2
    <3> QED
      BY <2>2, <3>1 DEF Cell
  <2>3. CASE <<k, b, d[k]>> = x
    <3>1. OfDate(Append(buf[x], e), date, d) =
            IF date[e] = d THEN Append(OfDate(buf[x], date, d), e) ELSE OfDate(buf[x], date, d)
      <4>1. PICK s, f : s = buf[x] /\ f = date /\ s \in Seq(Events)
        BY <1>2
      <4>2. \A v \in Seq(Events) : OfDate(Append(v, e), f, d) =
              IF f[e] = d THEN Append(OfDate(v, f, d), e) ELSE OfDate(v, f, d)
        BY OfDateAppend
      <4> QED
        BY <4>1, <4>2
    <3> QED
      BY <1>2, <2>3, <3>1 DEF Cell
  <2> QED
    BY <2>2, <2>3
<1>4. \A k \in Levels : /\ pri[k] \in {0, 1} /\ alt(k) \in {0, 1} /\ pri[k] # alt(k)
                        /\ alt(k)' = alt(k) /\ pri'[k] = pri[k]
  BY <1>1, OnePiece DEF alt
<1>5. ASSUME NEW k \in Levels, k # l \/ d # c PROVE Held(k, d)' = Held(k, d)
  <2>1. ~ (d = c /\ <<k, pri[k], d[k]>> = x) /\ ~ (d = c /\ <<k, alt(k), d[k]>> = x)
    BY <1>5 DEF x
  <2>2. Cell(k, pri[k], d)' = Cell(k, pri[k], d) /\ Cell(k, alt(k), d)' = Cell(k, alt(k), d)
    <3>1. \A b \in {0, 1} : ~ (d = c /\ <<k, b, d[k]>> = x) => Cell(k, b, d)' = Cell(k, b, d)
      BY <1>3
    <3>2. PICK b \in {0, 1}, a \in {0, 1} : b = pri[k] /\ a = alt(k)
      BY <1>4
    <3>3. Cell(k, b, d)' = Cell(k, b, d) /\ Cell(k, a, d)' = Cell(k, a, d)
      BY <2>1, <3>1, <3>2
    <3> QED
      BY <1>4, <3>2, <3>3 DEF Cell
  <2> QED
    BY <1>4, <2>2 DEF Held, Cell
<1>6. CASE d # c
  BY <1>5, <1>6 DEF Ordered, Levels
<1>7. CASE d = c
  <2>1. /\ InPeriod(c, l) /\ c[l] > sysDate[l]
        /\ \A k \in Levels : ~ Behind(k)
    BY <1>1, PutPlace DEF Behind
  <2>2. InPrimary(c, l)
    BY <2>1 DEF InPrimary
  <2>3. Cell(l, alt(l), d) = <<>>
    <3>1. ~ Fits(d, l, alt(l), d[l])
      BY <1>1, <1>4, <1>7, <2>2, OneBuffer DEF Fits
    <3> QED
      BY <1>1, <1>4, <3>1, CellEmpty
  <2>4. Held(l, d)' = Append(Held(l, d), e)
    <3>1. PICK b \in {0, 1}, a \in {0, 1} : b = pri[l] /\ a = alt(l)
      BY <1>4
    <3>2. Cell(l, b, d)' = Append(Cell(l, b, d), e) /\ Cell(l, a, d)' = Cell(l, a, d)
      BY <1>3, <1>4, <1>7, <3>1 DEF x
    <3>3. Held(l, d) = Cell(l, b, d) \o <<>> /\ Held(l, d)' = Cell(l, b, d)' \o Cell(l, a, d)'
      BY <1>4, <2>3, <3>1 DEF Held, Cell
    <3>4. Cell(l, b, d) \in Seq(Events)
      BY <1>1, CellType
    <3> QED
      BY <2>3, <3>1, <3>2, <3>3, <3>4, ConcatEmptySeq, AppendProperties
  <2>5. ASSUME NEW k \in Levels, k < l PROVE Held(k, d) = <<>> /\ Held(k, d)' = <<>>
    <3>1. k \in 0..(l - 1)
      BY <2>5 DEF Levels
    <3>2. c[k] = sysDate[k] /\ InPeriod(c, k)
      BY <2>1, <3>1 DEF InPeriod, Levels
    <3>3. ~ InPrimary(c, k)
      <4>1. sysDate[k] \in Nat
        BY <1>1, SorterAssumption DEF Dates, Digits
      <4> QED
        BY <2>1, <3>2, <4>1 DEF InPrimary
    <3>4. ~ InAlternate(c, k)
      BY <1>1, <2>1, <3>2, NotBoth DEF InAlternate
    <3>5. Cell(k, pri[k], d) = <<>> /\ Cell(k, alt(k), d) = <<>>
      BY <1>1, <1>4, <1>7, <3>3, <3>4, CellEmpty DEF Fits
    <3>6. Held(k, d) = <<>>
      BY <3>5, HeldIs, EmptySeq, ConcatEmptySeq
    <3>7. k # l
      BY <2>5 DEF Levels
    <3>8. Held(k, d)' = Held(k, d)
      BY <1>5, <3>7
    <3> QED
      BY <3>6, <3>8
  <2>6. PICK h3, h2, h1, h0 : /\ h3 = Held(3, d) /\ h2 = Held(2, d)
                              /\ h1 = Held(1, d) /\ h0 = Held(0, d)
    OBVIOUS
  <2>7. h3 \in Seq(Events) /\ h2 \in Seq(Events) /\ h1 \in Seq(Events) /\ h0 \in Seq(Events)
    BY <1>1, <2>6, HeldType DEF Levels
  <2>8. /\ Ordered(d) = ((h3 \o h2) \o h1) \o h0
        /\ Ordered(d)' = ((Held(3, d)' \o Held(2, d)') \o Held(1, d)') \o Held(0, d)'
        /\ l # 3 => Held(3, d)' = h3
        /\ l # 2 => Held(2, d)' = h2
        /\ l # 1 => Held(1, d)' = h1
        /\ l # 0 => Held(0, d)' = h0
    BY <1>5, <2>6 DEF Ordered, Levels
  <2>9. h3 \o h2 \in Seq(Events) /\ (h3 \o h2) \o h1 \in Seq(Events)
    BY <2>7, ConcatProperties
  <2>10. CASE l = 3
    <3>1. h2 = <<>> /\ h1 = <<>> /\ h0 = <<>>
      BY <2>5, <2>6, <2>10 DEF Levels
    <3>2. Ordered(d)' = ((Append(h3, e) \o <<>>) \o <<>>) \o <<>>
      BY <2>4, <2>6, <2>8, <2>10, <3>1 DEF Levels
    <3>3. Append(h3, e) \in Seq(Events)
      BY <2>7, AppendProperties
    <3>4. Ordered(d)' = Append(h3, e)
      BY <3>2, <3>3, ConcatEmptySeq
    <3>5. Ordered(d) = h3
      BY <2>7, <2>8, <3>1, ConcatEmptySeq
    <3> QED
      BY <1>7, <3>4, <3>5
  <2>11. CASE l = 2
    <3>1. h1 = <<>> /\ h0 = <<>>
      BY <2>5, <2>6, <2>11 DEF Levels
    <3>2. Ordered(d)' = ((h3 \o Append(h2, e)) \o <<>>) \o <<>>
      <4>1. Held(2, d)' = Append(h2, e)
        BY <2>4, <2>6, <2>11
      <4>2. Held(3, d)' = h3 /\ Held(1, d)' = <<>> /\ Held(0, d)' = <<>>
        BY <2>8, <2>11, <3>1
      <4> QED
        BY <2>8, <4>1, <4>2
    <3>3. h3 \o Append(h2, e) = Append(h3 \o h2, e)
      BY <2>7, ConcatAppend
    <3>4. Append(h3 \o h2, e) \in Seq(Events)
      BY <2>9, AppendProperties
    <3> QED
      BY <1>7, <2>8, <2>9, <3>1, <3>2, <3>3, <3>4, ConcatEmptySeq
  <2>12. CASE l = 1
    <3>1. h0 = <<>>
      BY <2>5, <2>6, <2>12 DEF Levels
    <3>2. Ordered(d)' = ((h3 \o h2) \o Append(h1, e)) \o <<>>
      <4>1. Held(1, d)' = Append(h1, e)
        BY <2>4, <2>6, <2>12
      <4>2. Held(3, d)' = h3 /\ Held(2, d)' = h2 /\ Held(0, d)' = <<>>
        BY <2>8, <2>12, <3>1
      <4> QED
        BY <2>8, <4>1, <4>2
    <3>3. (h3 \o h2) \o Append(h1, e) = Append((h3 \o h2) \o h1, e)
      BY <2>7, <2>9, ConcatAppend
    <3>4. Append((h3 \o h2) \o h1, e) \in Seq(Events)
      BY <2>9, AppendProperties
    <3> QED
      BY <1>7, <2>8, <2>9, <3>1, <3>2, <3>3, <3>4, ConcatEmptySeq
  <2>13. CASE l = 0
    <3>1. Ordered(d)' = ((h3 \o h2) \o h1) \o Append(h0, e)
      <4>1. Held(0, d)' = Append(h0, e)
        BY <2>4, <2>6, <2>13
      <4>2. Held(3, d)' = h3 /\ Held(2, d)' = h2 /\ Held(1, d)' = h1
        BY <2>8, <2>13
      <4> QED
        BY <2>8, <4>1, <4>2
    <3>2. ((h3 \o h2) \o h1) \o Append(h0, e) = Append(((h3 \o h2) \o h1) \o h0, e)
      <4>1. PICK s \in Seq(Events) : s = (h3 \o h2) \o h1
        BY <2>9
      <4>2. s \o Append(h0, e) = Append(s \o h0, e)
        BY <2>7, ConcatAppend
      <4> QED
        BY <4>1, <4>2
    <3> QED
      BY <1>7, <2>8, <3>1, <3>2
  <2> QED
    BY <2>10, <2>11, <2>12, <2>13 DEF Levels
<1> QED
  BY <1>6, <1>7

\* The event e, of date c, goes from the fifo x to the fifo y.
Moves(l, x, y, e, c) ==
  /\ x[1] = l /\ buf[x] # <<>> /\ e = Head(buf[x]) /\ c = date[e]
  /\ y = <<l + 1, alt(l + 1), c[l + 1]>> /\ x # y
  /\ buf'[x] = Tail(buf[x]) /\ buf'[y] = Append(buf[y], e)
  /\ \A z \in Places : z # x /\ z # y => buf'[z] = buf[z]
  /\ date' = date /\ pri' = pri

\* BufferPut: the event goes from the front of what its level holds to the end
\* of what the next one holds.
LEMMA MoveOrdered ==
  ASSUME Core, NEW l \in 0..2, NEW x \in Places, NEW y \in Places, NEW e \in Events,
         NEW c \in Dates, Moves(l, x, y, e, c), NEW d \in Dates
  PROVE  Ordered(d)' = Ordered(d)
<1>1. TypeOK /\ Placed /\ sysDate \in Dates /\ l \in Levels /\ l + 1 \in Levels
  BY DEF Core, TypeOK, Levels
<1>2. buf[x] \in Seq(Events) /\ buf[y] \in Seq(Events) /\ e \in InList(buf[x])
  <2>1. buf[x] \in Seq(Events) /\ buf[y] \in Seq(Events)
    BY <1>1 DEF TypeOK
  <2>2. buf[x] # <<>> /\ e = Head(buf[x])
    BY DEF Moves
  <2> QED
    BY <2>1, <2>2, TailInList
<1>3. /\ x # y /\ y = <<l + 1, alt(l + 1), c[l + 1]>>
       /\ \A z \in Places : z # x /\ z # y => buf'[z] = buf[z]
  BY DEF Moves
<1>4. PICK b \in {0, 1}, i \in Digits : x = <<l, b, i>>
  <2>1. x[1] = l
    BY DEF Moves
  <2>2. PICK k \in Levels, b \in {0, 1}, i \in Digits : x = <<k, b, i>>
    BY DEF Places
  <2> QED
    BY <2>1, <2>2
<1>5. Fits(c, l, b, i) /\ c[l] = i
  <2>1. date[e] = c
    BY DEF Moves
  <2> QED
    BY <1>1, <1>2, <1>4, <2>1 DEF Placed, Fits
<1>6. \A k \in Levels : /\ pri[k] \in {0, 1} /\ alt(k) \in {0, 1} /\ pri[k] # alt(k)
                        /\ alt(k)' = alt(k) /\ pri'[k] = pri[k]
  BY <1>1, OnePiece DEF alt, Moves
<1>7. ASSUME NEW k \in Levels, NEW a \in {0, 1}, <<k, a, d[k]>> # x, <<k, a, d[k]>> # y
      PROVE  Cell(k, a, d)' = Cell(k, a, d)
  <2>1. <<k, a, d[k]>> \in Places
    BY <1>1, CellType
  <2>2. buf'[<<k, a, d[k]>>] = buf[<<k, a, d[k]>>]
    BY <1>3, <1>7, <2>1
  <2> QED
    BY <2>2 DEF Cell, Moves
<1>8. PICK s, t, f : s = buf[x] /\ t = buf[y] /\ f = date
  OBVIOUS
<1>9. /\ s \in Seq(Events) /\ t \in Seq(Events) /\ s # <<>> /\ e = Head(s) /\ f[e] = c
      /\ buf'[x] = Tail(s) /\ buf'[y] = Append(t, e) /\ date' = f
  BY <1>2, <1>8 DEF Moves
<1>10. /\ OfDate(s, f, d) = IF c = d THEN <<e>> \o OfDate(Tail(s), f, d)
                            ELSE OfDate(Tail(s), f, d)
       /\ OfDate(Append(t, e), f, d) = IF c = d THEN Append(OfDate(t, f, d), e)
                                       ELSE OfDate(t, f, d)
  BY <1>9, OfDateTail, OfDateAppend
<1>11. CASE d # c
  <2>1. ASSUME NEW k \in Levels, NEW a \in {0, 1} PROVE Cell(k, a, d)' = Cell(k, a, d)
    <3>1. CASE <<k, a, d[k]>> = x
      BY <1>8, <1>9, <1>10, <1>11, <3>1 DEF Cell
    <3>2. CASE <<k, a, d[k]>> = y
      BY <1>8, <1>9, <1>10, <1>11, <3>2 DEF Cell
    <3> QED
      BY <1>7, <3>1, <3>2
  <2>2. ASSUME NEW k \in Levels PROVE Held(k, d)' = Held(k, d)
    <3>1. PICK p \in {0, 1}, a \in {0, 1} : p = pri[k] /\ a = alt(k)
      BY <1>6
    <3>2. Cell(k, p, d)' = Cell(k, p, d) /\ Cell(k, a, d)' = Cell(k, a, d)
      BY <2>1
    <3> QED
      BY <1>6, <3>1, <3>2 DEF Held, Cell
  <2> QED
    BY <2>2 DEF Ordered, Levels
<1>12. CASE d = c
  <2>1. ASSUME NEW k \in Levels, k # l, k # l + 1 PROVE Held(k, d)' = Held(k, d)
    <3>1. PICK p \in {0, 1}, a \in {0, 1} : p = pri[k] /\ a = alt(k)
      BY <1>6
    <3>2. /\ <<k, p, d[k]>> # x /\ <<k, a, d[k]>> # x
          /\ <<k, p, d[k]>> # y /\ <<k, a, d[k]>> # y
      BY <1>3, <1>4, <2>1
    <3>3. Cell(k, p, d)' = Cell(k, p, d) /\ Cell(k, a, d)' = Cell(k, a, d)
      BY <1>7, <3>2
    <3> QED
      BY <1>6, <3>1, <3>3 DEF Held, Cell
  <2>2. Held(l + 1, d)' = Append(Held(l + 1, d), e)
    <3>1. PICK p \in {0, 1}, a \in {0, 1} : p = pri[l + 1] /\ a = alt(l + 1)
      BY <1>1, <1>6
    <3>2. <<l + 1, a, d[l + 1]>> = y
      BY <1>3, <1>12, <3>1
    <3>3. Cell(l + 1, a, d) = OfDate(t, f, d) /\ Cell(l + 1, a, d)' = Append(OfDate(t, f, d), e)
      BY <1>8, <1>9, <1>10, <1>12, <3>2 DEF Cell
    <3>4. <<l + 1, p, d[l + 1]>> # x /\ <<l + 1, p, d[l + 1]>> # y
      BY <1>1, <1>4, <1>6, <3>1, <3>2
    <3>5. Cell(l + 1, p, d)' = Cell(l + 1, p, d)
      BY <1>1, <1>7, <3>4
    <3>6. PICK u, v : u = Cell(l + 1, p, d) /\ v = Cell(l + 1, a, d)
      OBVIOUS
    <3>7. u \in Seq(Events) /\ v \in Seq(Events)
      BY <1>1, <3>6, CellType
    <3>8. u \o Append(v, e) = Append(u \o v, e)
      BY <3>7, ConcatAppend
    <3>9. Held(l + 1, d) = u \o v
      BY <3>1, <3>6 DEF Held, Cell
    <3>10. Held(l + 1, d)' = Cell(l + 1, p, d)' \o Cell(l + 1, a, d)'
      BY <1>1, <1>6, <3>1 DEF Held, Cell
    <3> QED
      BY <3>3, <3>5, <3>6, <3>8, <3>9, <3>10
  <2>3. PICK h \in Seq(Events) : Held(l, d) = <<e>> \o h /\ Held(l, d)' = h
    <3>1. PICK r : r = OfDate(Tail(s), f, d)
      OBVIOUS
    <3>2. r \in Seq(Events)
      <4>1. Tail(s) \in Seq(Events)
        BY <1>9, HeadTailProperties
      <4> QED
        BY <3>1, <4>1, OfDateType
    <3>3. <<l, b, d[l]>> = x
      BY <1>4, <1>5, <1>12
    <3>4. Cell(l, b, d) = <<e>> \o r /\ Cell(l, b, d)' = r
      BY <1>8, <1>9, <1>10, <1>12, <3>1, <3>3 DEF Cell
    <3>5. CASE b = pri[l]
      <4>1. PICK a \in {0, 1} : a = alt(l) /\ a # b
        BY <1>1, <1>6, <3>5
      <4>2. <<l, a, d[l]>> # x /\ <<l, a, d[l]>> # y
        BY <1>3, <1>4, <4>1
      <4>3. Cell(l, a, d)' = Cell(l, a, d)
        BY <1>1, <1>7, <4>2
      <4>4. PICK u : u = Cell(l, a, d)
        OBVIOUS
      <4>5. u \in Seq(Events) /\ <<e>> \in Seq(Events)
        <5>1. u \in Seq(Events)
          BY <1>1, <4>4, CellType
        <5>2. <<e>> \in Seq(Events)
          OBVIOUS
        <5> QED
          BY <5>1, <5>2
      <4>6. (<<e>> \o r) \o u = <<e>> \o (r \o u) /\ r \o u \in Seq(Events)
        BY <3>2, <4>5, ConcatAssociative, ConcatProperties
      <4>7. Held(l, d) = Cell(l, b, d) \o Cell(l, a, d)
        BY <3>5, <4>1 DEF Held, Cell
      <4>8. Held(l, d)' = Cell(l, b, d)' \o Cell(l, a, d)'
        BY <1>1, <1>6, <3>5, <4>1 DEF Held, Cell
      <4> QED
        BY <3>4, <4>3, <4>4, <4>6, <4>7, <4>8
    <3>6. CASE b # pri[l]
      <4>1. PICK a \in {0, 1} : a = pri[l] /\ b = alt(l) /\ a # b
        BY <1>1, <1>6, <3>6, OnePiece
      <4>2. InAlternate(c, l)
        BY <1>5, <3>6 DEF Fits
      <4>3. Cell(l, a, d) = <<>>
        <5>1. ~ Fits(d, l, a, d[l])
          BY <1>1, <1>12, <4>1, <4>2, OneBuffer DEF Fits
        <5> QED
          BY <1>1, <5>1, CellEmpty
      <4>4. <<l, a, d[l]>> # x /\ <<l, a, d[l]>> # y
        BY <1>3, <1>4, <4>1
      <4>5. Cell(l, a, d)' = <<>>
        BY <1>1, <1>7, <4>3, <4>4
      <4>6. Held(l, d) = Cell(l, a, d) \o Cell(l, b, d)
        BY <4>1 DEF Held, Cell
      <4>7. Held(l, d)' = Cell(l, a, d)' \o Cell(l, b, d)'
        BY <1>1, <1>6, <4>1 DEF Held, Cell
      <4>8. <<e>> \o r \in Seq(Events)
        <5>1. <<e>> \in Seq(Events)
          OBVIOUS
        <5> QED
          BY <3>2, <5>1, ConcatProperties
      <4>9. <<>> \o r = r /\ <<>> \o (<<e>> \o r) = <<e>> \o r
        BY <3>2, <4>8, ConcatEmptySeq
      <4> QED
        BY <3>2, <3>4, <4>3, <4>5, <4>6, <4>7, <4>9
    <3> QED
      BY <3>5, <3>6
  <2>4. PICK h3, h2, h1, h0 : /\ h3 = Held(3, d) /\ h2 = Held(2, d)
                              /\ h1 = Held(1, d) /\ h0 = Held(0, d)
    OBVIOUS
  <2>5. h3 \in Seq(Events) /\ h2 \in Seq(Events) /\ h1 \in Seq(Events) /\ h0 \in Seq(Events)
    BY <1>1, <2>4, HeldType DEF Levels
  <2>6. PICK g3, g2, g1, g0 : /\ g3 = Held(3, d)' /\ g2 = Held(2, d)'
                               /\ g1 = Held(1, d)' /\ g0 = Held(0, d)'
    OBVIOUS
  <2>7. /\ Ordered(d) = ((h3 \o h2) \o h1) \o h0
        /\ Ordered(d)' = ((g3 \o g2) \o g1) \o g0
        /\ l # 2 => g3 = h3
        /\ l = 0 => g2 = h2
        /\ l = 2 => g1 = h1
        /\ l # 0 => g0 = h0
    BY <2>1, <2>4, <2>6 DEF Ordered, Levels
  <2>8. h3 \o h2 \in Seq(Events)
    BY <2>5, ConcatProperties
  <2>9. CASE l = 2
    <3>1. h2 = <<e>> \o h /\ g2 = h /\ g3 = Append(h3, e)
      BY <2>2, <2>3, <2>4, <2>6, <2>9
    <3>2. Append(h3, e) \o h = h3 \o (<<e>> \o h)
      BY <2>5, ConcatAppend
    <3>3. Ordered(d)' = ((Append(h3, e) \o h) \o h1) \o h0
      BY <2>7, <2>9, <3>1
    <3>4. Ordered(d) = ((h3 \o (<<e>> \o h)) \o h1) \o h0
      BY <2>7, <3>1
    <3> QED
      BY <3>2, <3>3, <3>4
  <2>10. CASE l = 1
    <3>1. h1 = <<e>> \o h /\ g1 = h /\ g2 = Append(h2, e)
      BY <2>2, <2>3, <2>4, <2>6, <2>10
    <3>2. (h3 \o Append(h2, e)) \o h = (h3 \o h2) \o (<<e>> \o h)
      <4>1. PICK q \in Seq(Events) : q = h3 \o h2
        BY <2>8
      <4>2. h3 \o Append(h2, e) = Append(q, e)
        BY <2>5, <4>1, ConcatAppend
      <4>3. Append(q, e) \o h = q \o (<<e>> \o h)
        BY ConcatAppend
      <4> QED
        BY <4>1, <4>2, <4>3
    <3>3. Ordered(d)' = ((h3 \o Append(h2, e)) \o h) \o h0
      <4>1. g3 = h3 /\ g0 = h0
        BY <2>7, <2>10
      <4> QED
        BY <2>7, <3>1, <4>1
    <3>4. Ordered(d) = ((h3 \o h2) \o (<<e>> \o h)) \o h0
      BY <2>7, <3>1
    <3> QED
      BY <3>2, <3>3, <3>4
  <2>11. CASE l = 0
    <3>1. h0 = <<e>> \o h /\ g0 = h /\ g1 = Append(h1, e)
      BY <2>2, <2>3, <2>4, <2>6, <2>11
    <3>2. ((h3 \o h2) \o Append(h1, e)) \o h = ((h3 \o h2) \o h1) \o (<<e>> \o h)
      <4>1. PICK q, r \in Seq(Events) : q = (h3 \o h2) \o h1 /\ r = h3 \o h2
        BY <2>5, <2>8, ConcatProperties
      <4>2. r \o Append(h1, e) = Append(q, e)
        BY <2>5, <4>1, ConcatAppend
      <4>3. Append(q, e) \o h = q \o (<<e>> \o h)
        BY ConcatAppend
      <4> QED
        BY <4>1, <4>2, <4>3
    <3>3. Ordered(d)' = ((h3 \o h2) \o Append(h1, e)) \o h
      <4>1. g3 = h3 /\ g2 = h2
        BY <2>7, <2>11
      <4> QED
        BY <2>7, <3>1, <4>1
    <3>4. Ordered(d) = ((h3 \o h2) \o h1) \o (<<e>> \o h)
      BY <2>7, <3>1
    <3> QED
      BY <3>2, <3>3, <3>4
  <2> QED
    BY <2>9, <2>10, <2>11
<1> QED
  BY <1>11, <1>12

\* LevelClock and SorterClock: which of its buffers is the primary one does not
\* change what a level holds of a date.
LEMMA TurnOrdered ==
  ASSUME Core, NEW d \in Dates, \A k \in Levels : pri'[k] \in {0, 1},
         \A k \in Levels, b \in {0, 1} : Cell(k, b, d)' = Cell(k, b, d)
  PROVE  Ordered(d)' = Ordered(d)
<1>1. TypeOK /\ Placed
  BY DEF Core
<1>2. ASSUME NEW k \in Levels PROVE Held(k, d)' = Held(k, d)
  <2>1. PICK p \in {0, 1}, a \in {0, 1} : p = pri[k] /\ a = alt(k) /\ a = 1 - p
    BY <1>1, <1>2, OnePiece
  <2>2. PICK u, v : u = Cell(k, p, d) /\ v = Cell(k, a, d)
    OBVIOUS
  <2>3. u \in Seq(Events) /\ v \in Seq(Events) /\ (u = <<>> \/ v = <<>>)
    BY <1>1, <2>1, <2>2, OnePiece
  <2>4. u \o v = v \o u
    BY <2>3, ConcatEmptySeq
  <2>5. Held(k, d) = u \o v
    BY <2>1, <2>2, HeldIs
  <2>6. Cell(k, p, d)' = u /\ Cell(k, a, d)' = v
    BY <2>2
  <2>7. CASE pri'[k] = p
    <3>1. alt(k)' = a
      BY <2>1, <2>7 DEF alt
    <3>2. Held(k, d)' = Cell(k, p, d)' \o Cell(k, a, d)'
      BY <2>7, <3>1 DEF Held, Cell
    <3> QED
      BY <2>5, <2>6, <3>2
  <2>8. CASE pri'[k] # p
    <3>1. pri'[k] = a /\ alt(k)' = p
      BY <1>2, <2>1, <2>8 DEF alt
    <3>2. Held(k, d)' = Cell(k, a, d)' \o Cell(k, p, d)'
      BY <3>1 DEF Held, Cell
    <3> QED
      BY <2>4, <2>5, <2>6, <3>2
  <2> QED
    BY <2>7, <2>8
<1> QED
  BY <1>2 DEF Ordered, Levels

\* SorterClock: the last level releases the events of the new date, in order.
LEMMA ReleasedIs ==
  ASSUME Core, pc = "level", level = 3, NEW c \in Dates, c = sysDate,
         NEW x, x = <<3, Ready[1], Ready[2]>>
  PROVE  /\ x \in Places /\ buf[x] \in Seq(Events)
         /\ \A z \in Places : \A e \in InList(buf[z]) : date[e] = c <=> z = x
         /\ Ordered(c) = buf[x]
<1>1. TypeOK /\ Placed /\ Aligned
  BY DEF Core
<1>2. 3 \in Levels /\ c[3] \in Digits /\ pri[3] \in {0, 1} /\ alt(3) \in {0, 1}
      /\ pri[3] # alt(3)
  BY <1>1, OnePiece DEF Levels, Dates
<1>3. Ready[2] = c[3] /\ (Ready[1] = pri[3] \/ Ready[1] = alt(3))
  <2>1. Behind(3)
    BY DEF Behind
  <2>2. fifo[3] = <<pri[3], IF sysDate[3] = 0 THEN Base ELSE sysDate[3]>>
    BY <1>1, <2>1 DEF Aligned
  <2> QED
    BY <2>2 DEF Ready
<1>4. x = <<3, Ready[1], c[3]>> /\ Ready[1] \in {0, 1}
  BY <1>2, <1>3
<1>5. x \in Places
  BY <1>2, <1>4 DEF Places
<1>6. buf[x] \in Seq(Events)
  BY <1>1, <1>5 DEF TypeOK
<1>7. \A z \in Places : \A e \in InList(buf[z]) : date[e] = c <=> z = x
  BY <1>1, OnTimeHolds DEF OnTime
<1>8. ASSUME NEW k \in Levels, NEW b \in {0, 1}, <<k, b, c[k]>> # x
      PROVE  Cell(k, b, c) = <<>>
  <2>1. <<k, b, c[k]>> \in Places
    BY <1>1, CellType
  <2>2. buf[<<k, b, c[k]>>] \in Seq(Events)
    BY <1>1, <2>1 DEF TypeOK
  <2>3. \A e \in InList(buf[<<k, b, c[k]>>]) : date[e] # c
    BY <1>7, <1>8, <2>1
  <2> QED
    BY <2>2, <2>3, OfDateNone DEF Cell
<1>9. PICK r \in {0, 1} : r = Ready[1]
  BY <1>4
<1>10. Cell(3, r, c) = buf[x]
  <2>1. \A e \in InList(buf[x]) : date[e] = c
    BY <1>5, <1>7
  <2>2. OfDate(buf[x], date, c) = buf[x]
    BY <1>6, <2>1, OfDateAll
  <2> QED
    BY <1>4, <1>9, <2>2 DEF Cell
<1>11. PICK s \in Seq(Events) : s = buf[x]
  BY <1>6
<1>12. s \o <<>> = s /\ <<>> \o s = s /\ <<>> \o <<>> = <<>>
  BY EmptySeq, ConcatEmptySeq
<1>13. Held(3, c) = s
  <2>1. CASE r = pri[3]
    <3>1. Cell(3, alt(3), c) = <<>>
      <4>1. PICK a \in {0, 1} : a = alt(3) /\ a # r
        BY <1>2, <2>1
      <4>2. <<3, a, c[3]>> # x
        BY <1>4, <1>9, <4>1
      <4> QED
        BY <1>2, <1>8, <4>1, <4>2
    <3> QED
      BY <1>10, <1>11, <1>12, <2>1, <3>1, HeldIs
  <2>2. CASE r = alt(3)
    <3>1. Cell(3, pri[3], c) = <<>>
      <4>1. PICK p \in {0, 1} : p = pri[3] /\ p # r
        BY <1>2, <2>2
      <4>2. <<3, p, c[3]>> # x
        BY <1>4, <1>9, <4>1
      <4> QED
        BY <1>2, <1>8, <4>1, <4>2
    <3> QED
      BY <1>10, <1>11, <1>12, <2>2, <3>1, HeldIs
  <2> QED
    BY <1>3, <1>9, <2>1, <2>2
<1>14. ASSUME NEW k \in Levels, k # 3 PROVE Held(k, c) = <<>>
  <2>1. PICK p \in {0, 1}, a \in {0, 1} : p = pri[k] /\ a = alt(k)
    BY <1>1, OnePiece
  <2>2. <<k, p, c[k]>> # x /\ <<k, a, c[k]>> # x
    BY <1>4, <1>14
  <2>3. Cell(k, p, c) = <<>> /\ Cell(k, a, c) = <<>>
    BY <1>8, <2>2
  <2> QED
    BY <1>12, <2>1, <2>3, HeldIs
<1>15. Held(2, c) = <<>> /\ Held(1, c) = <<>> /\ Held(0, c) = <<>>
  BY <1>14 DEF Levels
<1>16. Ordered(c) = ((s \o <<>>) \o <<>>) \o <<>>
  BY <1>13, <1>15 DEF Ordered
<1> QED
  BY <1>5, <1>6, <1>7, <1>11, <1>12, <1>16

(***************************************************************************)
(* The steps of the timetable, in these terms.                             *)
(***************************************************************************)
Sent == todo \o in
Dated == [e \in Events |-> Number(date[e])]
Now == IF pc = "level" THEN (Number(sysDate) - 1) % MaxDate ELSE Number(sysDate)

LEMMA InitIs ==
  ASSUME Sent = <<>>, Dated = [e \in Events |-> 0], Now = 0, late = <<>>, Due = <<>>,
         out = <<>>
  PROVE  Timetable!Init
BY DEF Sent, Dated, Now, Due, Timetable!Init

LEMMA StutterIs ==
  ASSUME Sent' = Sent, Dated' = Dated, Now' = Now, late' = late, Due' = Due, out' = out
  PROVE  UNCHANGED Timetable!vars
BY DEF Sent, Dated, Now, Due, Timetable!vars

LEMMA SendIs ==
  ASSUME NEW e \in Events, NEW n \in 0..(MaxDate - 1),
         e \notin InList(Sent), e \notin InList(late), e \notin InList(out),
         \A m \in DOMAIN Due : e \notin InList(Due[m]),
         Sent' = Append(Sent, e), Dated' = [Dated EXCEPT ![e] = n],
         Now' = Now, late' = late, Due' = Due, out' = out
  PROVE  Timetable!Next
<1>1. e \in Timetable!Idle
  <2>1. \A s \in {Sent, late, out} \cup {Due[m] : m \in DOMAIN Due} : e \notin InList(s)
    OBVIOUS
  <2>2. Timetable!Idle = Events \ UNION {InList(s) : s \in {Sent, late, out} \cup
                                                       {Due[m] : m \in DOMAIN Due}}
    BY DEF Timetable!Idle, Timetable!InList, InList, Sent, Due
  <2> QED
    BY <2>1, <2>2
<1>2. Timetable!Send(e, n)
  BY <1>1 DEF Timetable!Send, Sent, Dated, Now, Due
<1>3. n \in Timetable!Dates
  BY DEF Timetable!Dates
<1> QED
  BY <1>2, <1>3 DEF Timetable!Next

LEMMA TakeIs ==
  ASSUME NEW e, Sent # <<>>, e = Head(Sent), Sent' = Tail(Sent),
         IF Dated[e] > Now
         THEN /\ Due' = [n \in DOMAIN Due \cup {Dated[e]} |->
                          IF n = Dated[e]
                          THEN Append(IF n \in DOMAIN Due THEN Due[n] ELSE <<>>, e)
                          ELSE Due[n]]
              /\ late' = late
         ELSE late' = Append(late, e) /\ Due' = Due,
         Dated' = Dated, Now' = Now, out' = out
  PROVE  Timetable!Next
<1>1. Timetable!Take <=>
        /\ Sent # <<>>
        /\ Sent' = Tail(Sent)
        /\ LET f == Head(Sent)
           IN  IF Dated[f] > Now
               THEN /\ Due' = [n \in DOMAIN Due \cup {Dated[f]} |->
                                IF n = Dated[f]
                                THEN Append(IF n \in DOMAIN Due THEN Due[n] ELSE <<>>, f)
                                ELSE Due[n]]
                    /\ late' = late
               ELSE late' = Append(late, f) /\ Due' = Due
        /\ Dated' = Dated /\ Now' = Now /\ out' = out
  BY DEF Timetable!Take, Timetable!At, Sent, Dated, Now, Due
<1>2. Timetable!Take
  BY <1>1
<1> QED
  BY <1>2 DEF Timetable!Next

LEMMA ReleaseIs ==
  ASSUME NEW n, n = (Now + 1) % MaxDate, out = <<>>, Now' = n,
         out' = late \o (IF n \in DOMAIN Due THEN Due[n] ELSE <<>>),
         late' = <<>>, Due' = [m \in DOMAIN Due \ {n} |-> Due[m]],
         Sent' = Sent, Dated' = Dated
  PROVE  Timetable!Next
<1>1. Timetable!Release
  BY DEF Timetable!Release, Timetable!At, Sent, Dated, Now, Due
<1> QED
  BY <1>1 DEF Timetable!Next

LEMMA DeliverIs ==
  ASSUME out # <<>>, out' = <<>>,
         Dated' = [e \in Events |-> IF e \in InList(out) THEN 0 ELSE Dated[e]],
         Sent' = Sent, Now' = Now, late' = late, Due' = Due
  PROVE  Timetable!Next
<1>1. Timetable!Deliver
  BY DEF Timetable!Deliver, Timetable!InList, InList, Sent, Dated, Now, Due
<1> QED
  BY <1>1 DEF Timetable!Next

(***************************************************************************)
(* Each step is a step of the timetable, or changes nothing of it.         *)
(***************************************************************************)
\* Between two ticks nothing is half taken and nothing half delivered.
Rest == (pc = "input" \/ todo = <<>>) /\ (pc = "ready" \/ out = <<>>)

OneStep == Timetable!Next \/ UNCHANGED Timetable!vars

LEMMA InitMaps == Init => Timetable!Init /\ Rest
<1> SUFFICES ASSUME Init PROVE Timetable!Init /\ Rest
  OBVIOUS
<1>1. /\ todo = <<>> /\ in = <<>> /\ late = <<>> /\ out = <<>> /\ pc = "idle"
      /\ date = [e \in Events |-> ZeroDate] /\ sysDate = ZeroDate
      /\ buf = [x \in Places |-> <<>>]
  BY DEF Init, LevelInit
<1>2. Number(ZeroDate) = 0
  <2>1. ZeroDate[0] = 0 /\ ZeroDate[1] = 0 /\ ZeroDate[2] = 0 /\ ZeroDate[3] = 0
    BY DEF ZeroDate, Levels
  <2>2. Base \in Nat
    BY SorterAssumption
  <2> QED
    BY <2>1, <2>2 DEF Number
<1>3. Sent = <<>>
  BY <1>1, EmptySeq, ConcatEmptySeq DEF Sent
<1>4. Dated = [e \in Events |-> 0] /\ Now = 0
  BY <1>1, <1>2 DEF Dated, Now
<1>5. Due = <<>>
  <2>1. InSorter \ InList(late) = {}
    BY <1>1, EmptyList DEF InSorter
  <2>2. DOMAIN Due = {} /\ Due = [n \in DOMAIN Due |-> Due[n]]
    BY <2>1 DEF Due
  <2>3. <<>> \in [1..0 -> Events]
    BY EmptySeq, LenProperties
  <2>4. DOMAIN <<>> = {} /\ <<>> = [n \in DOMAIN <<>> |-> <<>>[n]]
    BY <2>3
  <2> QED
    BY <2>2, <2>4
<1> QED
  BY <1>1, <1>3, <1>4, <1>5, InitIs DEF Rest

LEMMA RestStep == Rest /\ [Next]_vars => Rest'
<1> SUFFICES ASSUME Rest, [Next]_vars PROVE Rest'
  OBVIOUS
<1> USE DEF Rest
<1>1. CASE ClockHandler
  BY <1>1 DEF ClockHandler
<1>2. CASE PutEvent
  BY <1>2 DEF PutEvent
<1>3. CASE NextDate
  BY <1>3 DEF NextDate
<1>4. ASSUME NEW l \in 0..2, BufferPut(l) PROVE Rest'
  BY <1>4 DEF BufferPut
<1>5. ASSUME NEW l \in 0..2, LevelClock(l) PROVE Rest'
  BY <1>5 DEF LevelClock
<1>6. CASE LastLevel
  BY <1>6 DEF LastLevel
<1>7. CASE Dispatch
  BY <1>7 DEF Dispatch
<1>8. ASSUME NEW e \in Events, NEW ahead \in 0..Reach, Send(e, ahead) PROVE Rest'
  BY <1>8 DEF Send
<1>9. CASE UNCHANGED vars
  BY <1>9 DEF vars
<1> QED
  BY <1>1, <1>2, <1>3, <1>4, <1>5, <1>6, <1>7, <1>8, <1>9 DEF Next, Tick

LEMMA SendMaps ==
  ASSUME Core, Core', NEW e \in Events, NEW ahead \in 0..Reach, Send(e, ahead)
  PROVE  OneStep
<1>1. /\ e \in Idle
      /\ in' = Append(in, e)
      /\ date' = [date EXCEPT ![e] = ToDate((Number(sysDate) + ahead) % MaxDate)]
      /\ UNCHANGED <<todo, late, buf, sysDate, pri, pc, out>>
  BY DEF Send, clock
<1>2. TypeOK /\ Placed /\ in \in Seq(Events) /\ todo \in Seq(Events) /\ sysDate \in Dates
  BY DEF Core, TypeOK
<1>3. PICK n \in 0..(MaxDate - 1) : n = (Number(sysDate) + ahead) % MaxDate
  <2>1. MaxDate \in Nat \ {0} /\ ahead \in Nat
    BY SorterAssumption DEF MaxDate
  <2>2. Number(sysDate) + ahead \in Nat
    BY <1>2, <2>1, NumberType
  <2> HIDE DEF MaxDate
  <2>3. (Number(sysDate) + ahead) % MaxDate \in 0..(MaxDate - 1)
    BY <2>1, <2>2
  <2> QED
    BY <2>3
<1>4. /\ e \notin Stored /\ e \notin InList(in) /\ e \notin InList(todo)
      /\ e \notin InList(late) /\ e \notin InList(out)
  BY <1>1 DEF Idle, InSorter, Stored
<1>5. Due' = Due
  <2>1. DOMAIN date = Events
    BY <1>2 DEF TypeOK
  <2>2. \A f \in Stored : date'[f] = date[f]
    BY <1>1, <1>4, <2>1, DueIs DEF DueOK
  <2> QED
    BY <1>1, <2>2, LevelsAlone
<1>6. Dated' = [Dated EXCEPT ![e] = n]
  <2>1. \A f \in Events : Number(date'[f]) = IF f = e THEN n ELSE Number(date[f])
    <3>1. Number(ToDate(n)) = n
      BY NumberOfToDate
    <3>2. date \in [Events -> Dates]
      BY <1>2 DEF TypeOK
    <3>3. \A f \in Events : date'[f] = IF f = e THEN ToDate(n) ELSE date[f]
      BY <1>1, <1>3, <3>2
    <3> QED
      BY <3>1, <3>3
  <2> QED
    BY <2>1 DEF Dated
<1>7. Sent' = Append(Sent, e) /\ Sent \in Seq(Events) /\ e \notin InList(Sent)
  <2>1. Sent \in Seq(Events) /\ InList(Sent) \subseteq InList(todo) \cup InList(in)
    BY <1>2, ConcatInList DEF Sent
  <2>2. todo \o Append(in, e) = Append(todo \o in, e)
    BY <1>2, ConcatAppend
  <2> QED
    BY <1>1, <1>4, <2>1, <2>2 DEF Sent
<1>8. \A m \in DOMAIN Due : e \notin InList(Due[m])
  <2> TAKE m \in DOMAIN Due
  <2>1. PICK d \in Dates : m = Number(d)
    BY DueIs DEF DueOK
  <2>2. Due[m] = Ordered(d)
    BY <2>1, DueIs DEF DueOK
  <2> QED
    BY <1>2, <1>4, <2>2, OrderedType
<1>9. Now' = Now
  BY <1>1 DEF Now
<1>10. Timetable!Next
  BY <1>1, <1>4, <1>5, <1>6, <1>7, <1>8, <1>9, SendIs
<1> QED
  BY <1>10 DEF OneStep

LEMMA ClockHandlerMaps ==
  ASSUME Core, Core', Rest, ClockHandler
  PROVE  OneStep
<1>1. /\ pc = "idle" /\ pc' = "input" /\ todo' = in /\ in' = <<>> /\ todo = <<>>
      /\ UNCHANGED <<date, late, buf, sysDate, pri, out>>
  BY DEF ClockHandler, clock, Rest
<1>2. Due' = Due
  BY <1>1, LevelsAlone
<1>3. in \in Seq(Events)
  BY DEF Core, TypeOK
<1>4. Sent' = Sent
  BY <1>1, <1>3, ConcatEmptySeq DEF Sent
<1>5. Dated' = Dated /\ Now' = Now
  BY <1>1 DEF Dated, Now
<1> QED
  BY <1>1, <1>2, <1>4, <1>5, StutterIs DEF OneStep

LEMMA HeadTailConcat ==
  ASSUME NEW S, NEW s \in Seq(S), s # <<>>, NEW t \in Seq(S)
  PROVE  s \o t # <<>> /\ Head(s \o t) = Head(s) /\ Tail(s \o t) = Tail(s) \o t
<1>1. PICK u : u = s \o t
  OBVIOUS
<1>2. /\ u \in Seq(S) /\ Len(u) = Len(s) + Len(t)
      /\ \A i \in 1..Len(s) + Len(t) : u[i] = IF i <= Len(s) THEN s[i] ELSE t[i - Len(s)]
      /\ Len(s) \in Nat \ {0} /\ Len(t) \in Nat
  BY <1>1, ConcatProperties, EmptySeq, LenProperties
<1>3. u # <<>>
  BY <1>2, EmptySeq
<1>4. Head(u) = Head(s)
  <2>1. u[1] = s[1]
    BY <1>2
  <2> QED
    BY <1>2, <2>1
<1>5. PICK v : v = Tail(s)
  OBVIOUS
<1>6. /\ v \in Seq(S) /\ Len(v) = Len(s) - 1 /\ \A i \in 1..Len(v) : v[i] = s[i + 1]
  BY <1>5, HeadTailProperties
<1>7. PICK w : w = Tail(u)
  OBVIOUS
<1>8. w \in Seq(S) /\ Len(w) = Len(u) - 1 /\ \A i \in 1..Len(w) : w[i] = u[i + 1]
  BY <1>2, <1>3, <1>7, HeadTailProperties
<1>9. PICK r : r = v \o t
  OBVIOUS
<1>10. /\ r \in Seq(S) /\ Len(r) = Len(v) + Len(t)
       /\ \A i \in 1..Len(v) + Len(t) : r[i] = IF i <= Len(v) THEN v[i] ELSE t[i - Len(v)]
  BY <1>6, <1>9, ConcatProperties
<1>11. Len(w) = Len(r) /\ \A i \in 1..Len(w) : w[i] = r[i]
  <2>1. Len(w) = Len(r)
    BY <1>2, <1>6, <1>8, <1>10
  <2>2. ASSUME NEW i \in 1..Len(w) PROVE w[i] = r[i]
    <3>1. i \in Nat /\ i >= 1 /\ i <= Len(v) + Len(t) /\ i + 1 \in 1..Len(s) + Len(t)
      BY <1>2, <1>6, <1>8
    <3>2. w[i] = IF i + 1 <= Len(s) THEN s[i + 1] ELSE t[(i + 1) - Len(s)]
      BY <1>2, <1>8, <3>1
    <3>3. r[i] = IF i <= Len(v) THEN v[i] ELSE t[i - Len(v)]
      BY <1>6, <1>10, <3>1
    <3>4. i + 1 <= Len(s) <=> i <= Len(v)
      BY <1>2, <1>6, <3>1
    <3>5. i <= Len(v) => v[i] = s[i + 1]
      BY <1>6, <3>1
    <3>6. (i + 1) - Len(s) = i - Len(v)
      BY <1>2, <1>6, <3>1
    <3> QED
      BY <3>2, <3>3, <3>4, <3>5, <3>6
  <2> QED
    BY <2>1, <2>2
<1>12. w = r
  BY <1>8, <1>10, <1>11, SeqEqual
<1> QED
  BY <1>1, <1>3, <1>4, <1>5, <1>7, <1>9, <1>12

LEMMA PutEventMaps ==
  ASSUME Core, Core', PutEvent
  PROVE  OneStep
<1>1. PICK e : e = Head(todo)
  OBVIOUS
<1>2. PICK c : c = date[e]
  OBVIOUS
<1>3. PICK l : l = FirstAbove(c)
  OBVIOUS
<1>4. /\ pc = "input" /\ todo # <<>> /\ todo' = Tail(todo)
      /\ UNCHANGED <<in, date, sysDate, pri, pc, out>>
      /\ \/ /\ After(c, sysDate)
            /\ buf' = [buf EXCEPT ![<<l, pri[l], c[l]>>] = Append(@, e)]
            /\ UNCHANGED late
         \/ /\ ~ After(c, sysDate)
            /\ late' = Append(late, e)
            /\ UNCHANGED buf
  BY <1>1, <1>2, <1>3 DEF PutEvent, clock
<1>5. /\ TypeOK /\ in \in Seq(Events) /\ todo \in Seq(Events) /\ sysDate \in Dates
      /\ date \in [Events -> Dates]
  BY DEF Core, TypeOK
<1>6. e \in Events /\ c \in Dates
  <2>1. e \in Events
    BY <1>1, <1>4, <1>5, HeadTailProperties
  <2> QED
    BY <1>2, <1>5, <2>1
<1>7. Sent # <<>> /\ e = Head(Sent) /\ Sent' = Tail(Sent)
  BY <1>1, <1>4, <1>5, HeadTailConcat DEF Sent
<1>8. Dated' = Dated /\ Now' = Now /\ out' = out /\ Dated[e] = Number(c)
      /\ Now = Number(sysDate)
  BY <1>2, <1>4, <1>6 DEF Dated, Now
<1>9. Dated[e] > Now <=> After(c, sysDate)
  BY <1>5, <1>6, <1>8, AfterIsGreater
<1>10. CASE ~ After(c, sysDate)
  <2>1. late' = Append(late, e) /\ UNCHANGED <<buf, pri>> /\ date' = date
    BY <1>4, <1>10
  <2>2. Due' = Due
    BY <2>1, LevelsAlone
  <2>3. Timetable!Next
    BY <1>7, <1>8, <1>9, <1>10, <2>1, <2>2, TakeIs
  <2> QED
    BY <2>3 DEF OneStep
<1>11. CASE After(c, sysDate)
  <2>1. /\ buf' = [buf EXCEPT ![<<l, pri[l], c[l]>>] = Append(@, e)]
        /\ late' = late /\ date' = date /\ pri' = pri
    BY <1>4, <1>11
  <2>2. l \in Levels
    BY <1>3, <1>5, <1>6, <1>11, PutPlace
  <2>3. \A d \in Dates : Ordered(d)' = IF d = c THEN Append(Ordered(d), e) ELSE Ordered(d)
    BY <1>2, <1>3, <1>4, <1>6, <1>11, <2>1, <2>2, PutOrdered
  <2>4. Stored' = Stored \cup {e}
    <3>1. PICK x : x = <<l, pri[l], c[l]>>
      OBVIOUS
    <3>2. pri[l] \in {0, 1} /\ c[l] \in Digits
      BY <1>5, <1>6, <2>2 DEF TypeOK, Dates
    <3>3. x \in Places
      BY <2>2, <3>1, <3>2 DEF Places
    <3>4. buf[x] \in Seq(Events) /\ buf \in [Places -> Seq(Events)]
      BY <1>5, <3>3 DEF TypeOK
    <3>5. /\ InList(buf'[x]) = InList(buf[x]) \cup {e}
          /\ \A z \in Places : z # x => buf'[z] = buf[z]
      <4>1. buf' = [buf EXCEPT ![x] = Append(buf[x], e)]
        BY <2>1, <3>1
      <4>2. buf'[x] = Append(buf[x], e) /\ \A z \in Places : z # x => buf'[z] = buf[z]
        BY <3>3, <3>4, <4>1
      <4> QED
        BY <1>6, <3>4, <4>2, AppendInList
    <3> QED
      BY <3>3, <3>5 DEF Stored
  <2>5. Due' = [n \in DOMAIN Due \cup {Number(c)} |->
                  IF n = Number(c)
                  THEN Append(IF n \in DOMAIN Due THEN Due[n] ELSE <<>>, e)
                  ELSE Due[n]]
    BY <1>2, <1>6, <2>1, <2>3, <2>4, DueTakes
  <2>6. Timetable!Next
    BY <1>7, <1>8, <1>9, <1>11, <2>1, <2>5, TakeIs
  <2> QED
    BY <2>6 DEF OneStep
<1> QED
  BY <1>10, <1>11

LEMMA NextDateMaps ==
  ASSUME Core, Core', NextDate
  PROVE  OneStep
<1>1. /\ pc = "input" /\ pc' = "level" /\ sysDate' = Following(sysDate)
      /\ UNCHANGED <<in, todo, date, late, buf, pri, out>>
  BY DEF NextDate
<1>2. Due' = Due
  BY <1>1, LevelsAlone
<1>3. sysDate \in Dates /\ sysDate' \in Dates
  BY DEF Core, TypeOK
<1>4. Now' = Now
  <2>1. PICK c, n, k, M : /\ c = sysDate /\ n = Number(c) /\ k = Number(sysDate')
                          /\ M = MaxDate
    OBVIOUS
  <2>2. k = (n + 1) % M
    BY <1>1, <1>3, <2>1, FollowingNumber
  <2>3. n \in Nat /\ n < M /\ M \in Nat
    <3>1. MaxDate \in Nat
      BY SorterAssumption DEF MaxDate
    <3> QED
      BY <1>3, <2>1, <3>1, NumberBelow
  <2>4. (k - 1) % M = n
    <3>1. CASE n + 1 < M
      <4>1. k = n + 1
        BY <2>2, <2>3, <3>1
      <4> QED
        BY <2>3, <4>1
    <3>2. CASE n + 1 = M
      <4>1. k = 0
        BY <2>2, <2>3, <3>2
      <4>2. (0 - 1) % M = M - 1
        BY <2>3
      <4> QED
        BY <2>3, <3>2, <4>1, <4>2
    <3> QED
      BY <2>3, <3>1, <3>2
  <2>5. Now = n /\ Now' = (k - 1) % M
    BY <1>1, <2>1 DEF Now
  <2> QED
    BY <2>4, <2>5
<1>5. Dated' = Dated /\ Sent' = Sent
  BY <1>1 DEF Dated, Sent
<1> QED
  BY <1>1, <1>2, <1>4, <1>5, StutterIs DEF OneStep

LEMMA HeadAndTail ==
  ASSUME NEW S, NEW s \in Seq(S), s # <<>>
  PROVE  InList(s) = {Head(s)} \cup InList(Tail(s))
<1>1. PICK t : t = Tail(s)
  OBVIOUS
<1>2. /\ t \in Seq(S) /\ Len(s) \in Nat \ {0} /\ Len(t) = Len(s) - 1
      /\ \A i \in 1..Len(t) : t[i] = s[i + 1]
  BY <1>1, HeadTailProperties, EmptySeq
<1>3. Head(s) \in InList(s) /\ InList(t) \subseteq InList(s) /\ Head(s) = s[1]
  BY <1>1, <1>2, TailInList
<1>4. ASSUME NEW i \in 1..Len(s) PROVE s[i] = Head(s) \/ s[i] \in InList(t)
  <2>1. CASE i = 1
    BY <1>3, <2>1
  <2>2. CASE i # 1
    <3>1. i - 1 \in 1..Len(t) /\ (i - 1) + 1 = i
      BY <1>2, <2>2
    <3>2. t[i - 1] = s[i]
      BY <1>2, <3>1
    <3> QED
      BY <3>1, <3>2 DEF InList
  <2> QED
    BY <2>1, <2>2
<1>5. InList(s) \subseteq {Head(s)} \cup InList(t)
  BY <1>4 DEF InList
<1> QED
  BY <1>1, <1>3, <1>5

LEMMA BufferPutMaps ==
  ASSUME Core, Core', NEW l \in 0..2, BufferPut(l)
  PROVE  OneStep
<1>1. PICK x : x = <<l, fifo[l][1], fifo[l][2]>>
  OBVIOUS
<1>2. PICK e : e = Head(buf[x])
  OBVIOUS
<1>3. PICK c : c = date[e]
  OBVIOUS
<1>4. PICK y : y = <<l + 1, alt(l + 1), c[l + 1]>>
  OBVIOUS
<1>5. /\ buf[x] # <<>> /\ buf' = [buf EXCEPT ![x] = Tail(@), ![y] = Append(@, e)]
      /\ UNCHANGED <<in, todo, date, late, sysDate, pri, pc, out>>
  BY <1>1, <1>2, <1>3, <1>4 DEF BufferPut, MoreToMove, Current, clock
<1>6. /\ TypeOK /\ date \in [Events -> Dates] /\ buf \in [Places -> Seq(Events)]
      /\ fifo \in [Levels -> {0, 1} \X (0..Base)] /\ pri \in [Levels -> {0, 1}]
      /\ fifo[l][2] \in Digits
  BY DEF Core, TypeOK
<1>7. l \in Levels /\ l + 1 \in Levels /\ l + 1 # l
  BY DEF Levels
<1>8. x \in Places /\ buf[x] \in Seq(Events)
  <2>1. fifo[l][1] \in {0, 1}
    BY <1>6, <1>7
  <2>2. x \in Places
    BY <1>1, <1>6, <1>7, <2>1 DEF Places
  <2> QED
    BY <1>6, <2>2
<1>9. e \in Events /\ c \in Dates /\ Tail(buf[x]) \in Seq(Events)
  <2>1. e \in Events /\ Tail(buf[x]) \in Seq(Events)
    BY <1>2, <1>5, <1>8, HeadTailProperties
  <2> QED
    BY <1>3, <1>6, <2>1
<1>10. y \in Places /\ y # x /\ buf[y] \in Seq(Events)
  <2>1. alt(l + 1) \in {0, 1} /\ c[l + 1] \in Digits
    BY <1>6, <1>7, <1>9 DEF alt, Dates
  <2>2. y \in Places
    BY <1>4, <1>7, <2>1 DEF Places
  <2>3. y # x
    BY <1>1, <1>4, <1>7
  <2> QED
    BY <1>6, <2>2, <2>3
<1>11. /\ buf'[x] = Tail(buf[x]) /\ buf'[y] = Append(buf[y], e)
       /\ \A z \in Places : z # x /\ z # y => buf'[z] = buf[z]
  BY <1>5, <1>6, <1>8, <1>10
<1>12. Moves(l, x, y, e, c)
  <2>1. x[1] = l
    BY <1>1
  <2> QED
    BY <1>2, <1>3, <1>4, <1>5, <1>10, <1>11, <2>1 DEF Moves
<1>13. \A d \in Dates : Ordered(d)' = Ordered(d)
  BY <1>8, <1>9, <1>10, <1>12, MoveOrdered
<1>14. Stored' = Stored
  <2>1. /\ InList(buf[x]) = {e} \cup InList(buf'[x])
        /\ InList(buf'[y]) = InList(buf[y]) \cup {e}
    <3>1. PICK s, t \in Seq(Events) : s = buf[x] /\ t = buf[y]
      BY <1>8, <1>10
    <3>2. InList(s) = {e} \cup InList(Tail(s))
      BY <1>2, <1>5, <3>1, HeadAndTail
    <3>3. InList(Append(t, e)) = InList(t) \cup {e}
      BY <1>9, AppendInList
    <3> QED
      BY <1>11, <3>1, <3>2, <3>3
  <2>2. \A z \in Places : z # x /\ z # y => InList(buf'[z]) = InList(buf[z])
    BY <1>11
  <2> QED
    BY <1>8, <1>10, <2>1, <2>2 DEF Stored
<1>15. Due' = Due
  BY <1>5, <1>13, <1>14, DueStays
<1>16. Dated' = Dated /\ Sent' = Sent /\ Now' = Now
  BY <1>5 DEF Dated, Sent, Now
<1> QED
  BY <1>5, <1>15, <1>16, StutterIs DEF OneStep

LEMMA LevelClockMaps ==
  ASSUME Core, Core', NEW l \in 0..2, LevelClock(l)
  PROVE  OneStep
<1>1. UNCHANGED <<in, todo, date, late, buf, sysDate, pc, out>>
  BY DEF LevelClock
<1>2. \A k \in Levels : pri'[k] \in {0, 1}
  BY DEF Core, TypeOK
<1>3. ASSUME NEW d \in Dates PROVE Ordered(d)' = Ordered(d)
  <2>1. \A k \in Levels, b \in {0, 1} : Cell(k, b, d)' = Cell(k, b, d)
    BY <1>1 DEF Cell
  <2> QED
    BY <1>2, <2>1, TurnOrdered
<1>4. Stored' = Stored
  BY <1>1 DEF Stored
<1>5. Due' = Due
  BY <1>1, <1>3, <1>4, DueStays
<1>6. Dated' = Dated /\ Sent' = Sent /\ Now' = Now
  BY <1>1 DEF Dated, Sent, Now
<1> QED
  BY <1>1, <1>5, <1>6, StutterIs DEF OneStep

LEMMA LastLevelMaps ==
  ASSUME Core, Core', Rest, LastLevel
  PROVE  OneStep
<1>1. PICK x : x = <<3, Ready[1], Ready[2]>>
  OBVIOUS
<1>2. PICK c : c = sysDate
  OBVIOUS
<1>3. /\ pc = "level" /\ level = 3 /\ pc' = "ready"
      /\ out' = late \o buf[x] /\ buf' = [buf EXCEPT ![x] = <<>>]
      /\ late' = <<>> /\ out = <<>>
      /\ UNCHANGED <<in, todo, date, sysDate>>
  BY <1>1 DEF LastLevel, Rest
<1>4. /\ TypeOK /\ c \in Dates /\ buf \in [Places -> Seq(Events)]
      /\ \A k \in Levels : pri'[k] \in {0, 1}
  BY <1>2 DEF Core, TypeOK
<1>5. /\ x \in Places /\ buf[x] \in Seq(Events)
      /\ \A z \in Places : \A e \in InList(buf[z]) : date[e] = c <=> z = x
      /\ Ordered(c) = buf[x]
  BY <1>1, <1>2, <1>3, <1>4, ReleasedIs
<1>6. buf'[x] = <<>> /\ \A z \in Places : z # x => buf'[z] = buf[z]
  BY <1>3, <1>4, <1>5
<1>7. Stored' = {e \in Stored : date[e] # c}
  <2>1. InList(buf'[x]) = {} /\ \A z \in Places : z # x => InList(buf'[z]) = InList(buf[z])
    BY <1>6, EmptyList
  <2>2. Stored' \subseteq {e \in Stored : date[e] # c}
    BY <1>5, <2>1 DEF Stored
  <2>3. {e \in Stored : date[e] # c} \subseteq Stored'
    BY <1>5, <2>1 DEF Stored
  <2> QED
    BY <2>2, <2>3
<1>8. ASSUME NEW d \in Dates, d # c PROVE Ordered(d)' = Ordered(d)
  <2>1. ASSUME NEW k \in Levels, NEW b \in {0, 1} PROVE Cell(k, b, d)' = Cell(k, b, d)
    <3>1. <<k, b, d[k]>> \in Places
      BY <1>4, CellType
    <3>2. CASE <<k, b, d[k]>> # x
      <4>1. buf'[<<k, b, d[k]>>] = buf[<<k, b, d[k]>>]
        BY <1>6, <3>1, <3>2
      <4> QED
        BY <1>3, <4>1 DEF Cell
    <3>3. CASE <<k, b, d[k]>> = x
      <4>1. \A e \in InList(buf[x]) : date[e] # d
        BY <1>5, <1>8
      <4>2. OfDate(buf[x], date, d) = <<>> /\ OfDate(<<>>, date, d) = <<>>
        BY <1>5, <4>1, OfDateNone, OfDateEmpty
      <4> QED
        BY <1>3, <1>6, <3>3, <4>2 DEF Cell
    <3> QED
      BY <3>2, <3>3
  <2> QED
    BY <1>4, <2>1, TurnOrdered
<1>9. Due' = [m \in DOMAIN Due \ {Number(c)} |-> Due[m]]
  BY <1>3, <1>4, <1>7, <1>8, DueReleases
<1>10. buf[x] = IF Number(c) \in DOMAIN Due THEN Due[Number(c)] ELSE <<>>
  BY <1>4, <1>5, DueIs DEF DueOK
<1>11. Now' = Number(c) /\ Number(c) = (Now + 1) % MaxDate
  <2>1. PICK n, m, M : n = Number(c) /\ m = Now /\ M = MaxDate
    OBVIOUS
  <2>2. n \in Nat /\ n < M /\ M \in Nat
    <3>1. MaxDate \in Nat
      BY SorterAssumption DEF MaxDate
    <3> QED
      BY <1>4, <2>1, <3>1, NumberBelow
  <2>3. m = (n - 1) % M
    BY <1>2, <1>3, <2>1 DEF Now
  <2>4. (m + 1) % M = n
    <3>1. CASE n = 0
      <4>1. (0 - 1) % M = M - 1
        BY <2>2
      <4>2. m + 1 = M
        BY <2>2, <2>3, <3>1, <4>1
      <4>3. M % M = 0
        BY <2>2
      <4> QED
        BY <3>1, <4>2, <4>3
    <3>2. CASE n # 0
      <4>1. m = n - 1
        BY <2>2, <2>3, <3>2
      <4> QED
        BY <2>2, <4>1
    <3> QED
      BY <3>1, <3>2
  <2>5. Now' = n
    BY <1>2, <1>3, <2>1 DEF Now
  <2> QED
    BY <2>1, <2>4, <2>5
<1>12. Dated' = Dated /\ Sent' = Sent
  BY <1>3 DEF Dated, Sent
<1>13. PICK n : n = Number(c)
  OBVIOUS
<1>14. out' = late \o (IF n \in DOMAIN Due THEN Due[n] ELSE <<>>)
  BY <1>3, <1>10, <1>13
<1>15. Timetable!Next
  BY <1>3, <1>9, <1>11, <1>12, <1>13, <1>14, ReleaseIs
<1> QED
  BY <1>15 DEF OneStep

LEMMA DispatchMaps ==
  ASSUME Core, Core', Dispatch
  PROVE  OneStep
<1>1. /\ pc = "ready" /\ pc' = "idle" /\ out' = <<>>
      /\ date' = [e \in Events |-> IF e \in InList(out) THEN ZeroDate ELSE date[e]]
      /\ UNCHANGED <<in, todo, late, buf, sysDate, pri>>
  BY DEF Dispatch, clock
<1>2. Single /\ date \in [Events -> Dates]
  BY OneListIsSingle DEF Core, TypeOK
<1>3. Due' = Due
  <2>1. \A e \in Stored : e \notin InList(out) /\ e \in Events
    BY <1>2, DueIs DEF Single, Apart, Stored, DueOK
  <2>2. \A e \in Stored : date'[e] = date[e]
    BY <1>1, <2>1
  <2> QED
    BY <1>1, <2>2, LevelsAlone
<1>4. Sent' = Sent /\ Now' = Now
  BY <1>1 DEF Sent, Now
<1>5. Number(ZeroDate) = 0
  <2>1. ZeroDate[0] = 0 /\ ZeroDate[1] = 0 /\ ZeroDate[2] = 0 /\ ZeroDate[3] = 0
    BY DEF ZeroDate, Levels
  <2>2. Base \in Nat
    BY SorterAssumption
  <2> QED
    BY <2>1, <2>2 DEF Number
<1>6. Dated' = [e \in Events |-> IF e \in InList(out) THEN 0 ELSE Dated[e]]
  <2>1. \A e \in Events : Number(date'[e]) = IF e \in InList(out) THEN 0 ELSE Number(date[e])
    BY <1>1, <1>5
  <2> QED
    BY <2>1 DEF Dated
<1>7. CASE out # <<>>
  <2>1. Timetable!Next
    BY <1>1, <1>3, <1>4, <1>6, <1>7, DeliverIs
  <2> QED
    BY <2>1 DEF OneStep
<1>8. CASE out = <<>>
  <2>1. InList(out) = {}
    BY <1>8, EmptyList
  <2>2. Dated' = Dated
    BY <1>6, <2>1 DEF Dated
  <2> QED
    BY <1>1, <1>3, <1>4, <1>8, <2>2, StutterIs DEF OneStep
<1> QED
  BY <1>7, <1>8

LEMMA StutterMaps ==
  ASSUME UNCHANGED vars
  PROVE  OneStep
<1>1. UNCHANGED <<in, todo, date, late, buf, sysDate, pri, pc, out>>
  BY DEF vars, clock
<1>2. \A d : Ordered(d)' = Ordered(d)
  BY <1>1 DEF Ordered, Held, alt
<1>3. Due' = Due
  BY <1>1, <1>2 DEF Due, InSorter
<1>4. Dated' = Dated /\ Sent' = Sent /\ Now' = Now
  BY <1>1 DEF Dated, Sent, Now
<1> QED
  BY <1>1, <1>3, <1>4, StutterIs DEF OneStep

LEMMA StepMaps == Core /\ Core' /\ Rest /\ [Next]_vars => [Timetable!Next]_(Timetable!vars)
<1> SUFFICES ASSUME Core, Core', Rest, [Next]_vars PROVE OneStep
  BY DEF OneStep
<1>1. CASE UNCHANGED vars
  BY <1>1, StutterMaps
<1>2. CASE Next
  <2>1. CASE ClockHandler
    BY <2>1, ClockHandlerMaps
  <2>2. CASE PutEvent
    BY <2>2, PutEventMaps
  <2>3. CASE NextDate
    BY <2>3, NextDateMaps
  <2>4. ASSUME NEW l \in 0..2, BufferPut(l) PROVE OneStep
    BY <2>4, BufferPutMaps
  <2>5. ASSUME NEW l \in 0..2, LevelClock(l) PROVE OneStep
    BY <2>5, LevelClockMaps
  <2>6. CASE LastLevel
    BY <2>6, LastLevelMaps
  <2>7. CASE Dispatch
    BY <2>7, DispatchMaps
  <2>8. ASSUME NEW e \in Events, NEW ahead \in 0..Reach, Send(e, ahead)
        PROVE  OneStep
    BY <2>8, SendMaps
  <2> QED
    BY <1>2, <2>1, <2>2, <2>3, <2>4, <2>5, <2>6, <2>7, <2>8 DEF Next, Tick
<1> QED
  BY <1>1, <1>2

\* The sorter keeps the timetable of Schedule: an event taken in time is released
\* at the tick of its date, a late one at the next tick, before those that are on
\* time, and the events of one date leave in the order they were taken
\* (msSorter.c, PutEvent, BufferPut and SorterClock).
THEOREM Refinement == Spec => IsASchedule
<1>1. Init => Core
  BY InitIInv DEF IInv, Core
<1>2. Core /\ [Next]_vars => Core'
  BY NextCore
<1>3. Init => Timetable!Init /\ Rest
  BY InitMaps
<1>4. Rest /\ [Next]_vars => Rest'
  BY RestStep
<1>5. Core /\ Core' /\ Rest /\ [Next]_vars => [Timetable!Next]_(Timetable!vars)
  BY StepMaps
<1> QED
  BY <1>1, <1>2, <1>3, <1>4, <1>5, PTL DEF Spec, IsASchedule, Timetable!Spec
=============================================================================
