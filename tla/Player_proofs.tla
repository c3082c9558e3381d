---------------------------- MODULE Player_proofs ----------------------------
(***************************************************************************)
(* Proofs about Player, for any score, tempo map and loop.                 *)
(***************************************************************************)
EXTENDS Player, FiniteSetTheorems, SequenceTheorems, NaturalsInduction,
        WellFoundedInduction, TLAPS

(***************************************************************************)
(* The invariant.                                                          *)
(***************************************************************************)
Iterators == {i \in [cur : Date, date : Date, last : BOOLEAN] :
                 i.last => i.cur = End}
Programs == {Prog[d] : d \in Date} \cup {NULL}
Chasers == [fresh : BOOLEAN, date : Nat, from : 0..(End + 1), keys : SUBSET Notes, prog : Programs]
KernelTasks == [task : TicksTask, left : Nat]

Players ==
  [state : {"idle", "playing", "pause"}, pos : Nat, elapsed : Nat,
   play : Iterators, tempo : Iterators, sound : SUBSET Notes, left : SUBSET Notes,
   prog : Programs, chase : Chasers, loop : BOOLEAN, rcv : Seq({"end", "loop"}),
   table : SUBSET TicksTask, kernel : [Cell -> KernelTasks \cup {NULL}],
   status : [TicksTask -> {"idle", "running", "forget"}],
   date : [TicksTask -> Date], fTask : [TicksTask -> Cell \cup {NULL}]]

\* A task of the kernel and its owner know each other; the table has the tasks
\* that are not idle.
Pointed(p) ==
  /\ \A t \in TicksTask : p.fTask[t] # NULL =>
       p.kernel[p.fTask[t]] # NULL /\ p.kernel[p.fTask[t]].task = t
  /\ \A x \in Cell : p.kernel[x] # NULL => p.fTask[p.kernel[x].task] = x
  /\ \A t \in TicksTask : p.status[t] = "idle" <=> t \notin p.table
  /\ \A t \in TicksTask : p.status[t] = "idle" => p.fTask[t] = NULL

\* A task of the kernel falls due when the tempo event met last says so.
Left(p, t) == Max({ConvertTickToMs(p, p.date[t]) - p.elapsed, 0})
Exact(p, t) == p.fTask[t] # NULL => p.kernel[p.fTask[t]].left = Left(p, t)

\* The task of the synchroniser follows the tempo map.
Followed(p) ==
  p.status["tempo"] = "running" =>
    p.state = "playing" /\ p.date["tempo"] = p.tempo.cur /\ Exact(p, "tempo")

\* It is never late, when the kernel has a cell for it.
NeverLate(p) ==
  p.state = "playing" /\ ~p.tempo.last =>
    p.status["tempo"] = "running" /\ p.fTask["tempo"] # NULL
    /\ p.elapsed <= Ms[p.tempo.cur]

\* The date of the tempo event met last has come.
Begun(p) == p.state = "playing" => Ms[Base(p)] <= p.elapsed

(***************************************************************************)
(* The calls of a user's call.                                             *)
(***************************************************************************)
Ops == {"SynchroStop", "TickStop", "Init", "SynchroStart", "TickStart",
        "SynchroSetPos", "TickSetPos", "ChaseOff", "Cont", "SynchroCont",
        "TickCont", "SetPause"}
Steps == {s \in [op : Ops, date : Nat] :
            s.op \in {"SynchroStart", "TickStart"} => s.date = 0}

\* The call u comes after the call s, and the call s may be the last.
Follows(s, u) ==
  \/ s.op = "SynchroStop" /\ u.op = "TickStop"
  \/ s.op = "TickStop" /\ u.op \in {"ChaseOff", "SetPause"}
  \/ s.op = "ChaseOff" /\ u.op \in {"Init", "SynchroSetPos", "Cont"}
  \/ s.op = "Init" /\ u.op = "SynchroStart"
  \/ s.op = "SynchroStart" /\ u.op = "TickStart"
  \/ s.op = "SynchroSetPos" /\ u.op = "TickSetPos"
  \/ s.op = "TickSetPos" /\ u.op = "Cont"
  \/ s.op = "SynchroCont" /\ u.op = "TickCont" /\ u.date = s.date

Ends(s) == s.op \in {"ChaseOff", "TickStart", "TickSetPos", "Cont", "TickCont", "SetPause"}

Proper(c) ==
  /\ c \in Seq(Steps)
  /\ \A i \in 1..Len(c) : IF i = Len(c) THEN Ends(c[i]) ELSE Follows(c[i], c[i + 1])

Op(c) == IF c = <<>> THEN "none" ELSE c[1].op

\* A Start that has still to put everything back to the beginning.
Starting(c) == c # <<>> /\ c[Len(c)].op = "TickStart"
Renewing(c) == Starting(c) /\ Op(c) \in {"SynchroStop", "TickStop", "ChaseOff", "Init"}

\* Between SynchroStop and SynchroStart or SynchroCont the player does not play.
Quiet(p, c) ==
  Op(c) \notin {"none", "SynchroStop", "TickStart", "TickCont"} => p.state # "playing"

(***************************************************************************)
(* What a call that no event to itself has crossed may rely on.            *)
(***************************************************************************)
\* The events of the dates before that of the iterator have been played in time.
Seen(p) ==
  /\ \A d \in Date : d < p.play.cur => Ms[d] <= p.elapsed
  /\ p.play.last => Ms[End] <= p.elapsed

\* The task of the tick player waits for the date of the next events.
Waits(p) == p.date["play"] = p.play.cur /\ Exact(p, "play")

Has(p, e) == \E i \in 1..Len(p.rcv) : p.rcv[i] = e

Runs(p) ==
  /\ p.status["play"] = "running" => Waits(p)
  /\ Has(p, "end") \/ (p.status["play"] = "running" /\ p.fTask["play"] # NULL)

NotRunning(p) == p.status["play"] # "running"

Stopped == {"ChaseOff", "SetPause", "SynchroSetPos", "TickSetPos", "Cont",
            "SynchroCont", "TickCont"}

Playing(p, c) ==
  /\ Op(c) = "none" /\ p.state = "playing" => Seen(p) /\ Runs(p)
  /\ Op(c) = "TickStart" =>
       p.state = "playing" /\ Seen(p) /\ (p.play = First \/ Waits(p))
  /\ Op(c) = "SynchroStart" =>
       /\ p.tempo = First
       /\ \/ p.play = First
          \/ /\ p.fTask["play"] = NULL /\ p.date["play"] = p.play.cur
             /\ p.play.cur <= 1 /\ ~p.play.last
  /\ Op(c) = "TickCont" => p.state = "playing" /\ Ms[Min({c[1].date, End})] <= p.elapsed
  /\ (Op(c) = "none" /\ p.state # "playing") \/ Op(c) \in Stopped => NotRunning(p)

OnTime(p, c) == Playing(p, c) /\ (Renewing(c) \/ Begun(p))

\* An event to itself is on its way between two calls of the user only.
OnItsWay(p, c) == c # <<>> => p.rcv = <<>>

(***************************************************************************)
(* Notes and programs.                                                     *)
(***************************************************************************)
Held(d) == {n \in Notes : n[1] < d /\ d <= n[2]}
Before(d) == {e \in Date : e < d /\ Prog[e] # NULL}
Last(d) == IF Before(d) = {} THEN NULL ELSE Prog[Max(Before(d))]

\* Of them, those that have begun at date k or later.
HeldFrom(d, k) == {n \in Held(d) : k <= n[1]}

\* The chaser has met the events before its date, or none when its date is
\* what its memory held.
Met(c) ==
  /\ c.keys = Held(c.from) /\ c.prog = Last(c.from)
  /\ c.from = IF c.fresh THEN 0 ELSE Min({c.date, End + 1})

\* A player whose chaser has met nothing plays from the date of that chaser on.
From(p) == IF p.chase.fresh THEN Min({p.chase.date, End}) ELSE 0

Sounding(p) == p.sound \subseteq p.left \cup HeldFrom(p.play.cur, From(p))
Ended(p) == p.sound \subseteq p.left

Audible(p, c) ==
  /\ Renewing(c) \/ Sounding(p)
  /\ Op(c) \in {"none", "SynchroSetPos", "Cont", "SynchroCont"} /\ p.state = "idle"
       => Ended(p)
  /\ Op(c) \in {"TickSetPos", "TickCont"} => Ended(p)

Played(p, d) == ~p.chase.fresh /\ Before(d) # {} => p.prog = Last(d)
Patched(p, c) ==
  /\ Op(c) \in {"none", "TickStart"} /\ p.state = "playing" /\ ~p.play.last
       => Played(p, p.play.cur)
  /\ Op(c) = "SynchroStart" => Played(p, p.play.cur)
  /\ Op(c) \in {"SynchroCont", "TickCont"} /\ c[1].date <= End => Played(p, c[1].date)

Onward(p, c) ==
  /\ p.status["play"] = "running" => From(p) <= p.play.cur
  /\ p.chase.fresh =>
       /\ Op(c) \notin {"SynchroStart", "TickStart"}
       /\ Op(c) \in {"SynchroCont", "TickCont"} => c[1].date = p.chase.date

Tuned(p, c) == Audible(p, c) /\ Patched(p, c) /\ (Renewing(c) \/ Onward(p, c))

(***************************************************************************)
(* The invariants: of any player, of one that has a cell for each task,    *)
(* and of its notes and programs.                                          *)
(***************************************************************************)
Sane(p) ==
  /\ p \in Players /\ p.left \subseteq p.sound
  /\ Pointed(p) /\ Followed(p) /\ Met(p.chase)
  /\ p.state # "playing" => p.elapsed = 0

IInv == Sane(player) /\ Proper(todo) /\ Quiet(player, todo) /\ crossed \in BOOLEAN
Timely == NeverLate(player) /\ (~crossed => OnTime(player, todo) /\ OnItsWay(player, todo))
Chasing == ~crossed => Tuned(player, todo)

(***************************************************************************)
(* Numbers.                                                                *)
(***************************************************************************)
LEMMA MaxOfTwo ==
  ASSUME NEW a \in Int, NEW b \in Int
  PROVE  Max({a, b}) = IF a < b THEN b ELSE a
<1>1. CASE a < b
  <2>1. b \in {a, b} /\ \A y \in {a, b} : b >= y
    BY <1>1
  <2>2. \A x \in {a, b} : (\A y \in {a, b} : x >= y) => x = b
    BY <1>1
  <2> QED
    BY <1>1, <2>1, <2>2 DEF Max
<1>2. CASE ~ a < b
  <2>1. a \in {a, b} /\ \A y \in {a, b} : a >= y
    BY <1>2
  <2>2. \A x \in {a, b} : (\A y \in {a, b} : x >= y) => x = a
    BY <1>2
  <2> QED
    BY <1>2, <2>1, <2>2 DEF Max
<1> QED
  BY <1>1, <1>2

LEMMA MinOfTwo ==
  ASSUME NEW a \in Int, NEW b \in Int
  PROVE  Min({a, b}) = IF a < b THEN a ELSE b
<1>1. CASE a < b
  <2>1. a \in {a, b} /\ \A y \in {a, b} : a <= y
    BY <1>1
  <2>2. \A x \in {a, b} : (\A y \in {a, b} : x <= y) => x = a
    BY <1>1
  <2> QED
    BY <1>1, <2>1, <2>2 DEF Min
<1>2. CASE ~ a < b
  <2>1. b \in {a, b} /\ \A y \in {a, b} : b <= y
    BY <1>2
  <2>2. \A x \in {a, b} : (\A y \in {a, b} : x <= y) => x = b
    BY <1>2
  <2> QED
    BY <1>2, <2>1, <2>2 DEF Min
<1> QED
  BY <1>1, <1>2

LEMMA Least ==
  ASSUME NEW T, T \subseteq Nat, T # {}
  PROVE  \E m \in T : \A n \in T : m <= n
<1> DEFINE R == {ss \in Nat \X Nat : ss[1] < ss[2]}
<1>1. OpToRel(<, Nat) = R
  BY DEF OpToRel
<1>2. IsWellFoundedOn(R, Nat)
  BY <1>1, NatLessThanWellFounded
<1>3. \A x, y \in Nat : <<x, y>> \in R <=> x < y
  OBVIOUS
<1> HIDE DEF R
<1>4. PICK m \in T : \A n \in T : <<n, m>> \notin R
  BY <1>2, WFMin
<1>5. ASSUME NEW n \in T PROVE m <= n
  <2>1. m \in Nat /\ n \in Nat
    OBVIOUS
  <2>2. <<n, m>> \notin R
    BY <1>4
  <2>3. ~ n < m
    BY <1>3, <2>1, <2>2
  <2> QED
    BY <2>1, <2>3
<1> QED
  BY <1>5

\* What holds of 0, and of n + 1 when of n, holds of every number up to k.
LEMMA Induction ==
  ASSUME NEW T, NEW k \in Nat, 0 \in T, \A n \in 0..k : n \in T /\ n < k => n + 1 \in T
  PROVE  0..k \subseteq T
<1> DEFINE N == (0..k) \ T
<1> SUFFICES ASSUME N # {} PROVE FALSE
  OBVIOUS
<1>1. PICK m \in N : \A n \in N : m <= n
  <2>1. N \subseteq Nat
    OBVIOUS
  <2> HIDE DEF N
  <2> QED
    BY <2>1, Least
<1>2. m \in 0..k /\ m \notin T /\ m # 0
  OBVIOUS
<1>3. m - 1 \in 0..k /\ m - 1 \notin N
  BY <1>1, <1>2
<1>4. m - 1 \in T
  BY <1>3
<1> QED
  BY <1>2, <1>3, <1>4

\* A bounded set of numbers has a greatest one.
LEMMA Greatest ==
  ASSUME NEW T, NEW k \in Nat, T \subseteq 0..k, T # {}
  PROVE  Max(T) \in T /\ \A n \in T : n <= Max(T)
<1> DEFINE N == {n \in Nat : k - n \in T}
<1>1. N # {}
  <2>1. PICK t \in T : TRUE
    OBVIOUS
  <2>2. k - t \in Nat /\ k - (k - t) = t
    BY <2>1
  <2> QED
    BY <2>1, <2>2
<1>2. PICK m \in N : \A n \in N : m <= n
  BY <1>1, Least
<1>3. k - m \in T /\ k - m \in 0..k /\ m \in Nat
  OBVIOUS
<1>4. ASSUME NEW n \in T PROVE k - m >= n
  <2>1. n \in 0..k
    OBVIOUS
  <2>2. k - n \in N
    BY <2>1
  <2>3. m <= k - n
    BY <1>2, <2>2
  <2> HIDE DEF N
  <2> QED
    BY <1>3, <2>1, <2>3
<1>5. \A n \in T : k - m >= n
  BY <1>4
<1> HIDE DEF N
<1>6. Max(T) \in T /\ \A y \in T : Max(T) >= y
  BY <1>3, <1>5 DEF Max
<1>7. \A n \in T : n \in Int
  OBVIOUS
<1> QED
  BY <1>6, <1>7

LEMMA MaxIs ==
  ASSUME NEW T, NEW k \in Nat, T \subseteq 0..k, NEW m \in T, \A n \in T : n <= m
  PROVE  Max(T) = m
<1>1. Max(T) \in T /\ \A n \in T : n <= Max(T)
  BY Greatest
<1>2. Max(T) <= m /\ m <= Max(T)
  BY <1>1
<1>3. \A n \in T : n \in Int
  OBVIOUS
<1>4. Max(T) \in Int /\ m \in Int
  BY <1>1, <1>3
<1> QED
  BY <1>2, <1>4

(***************************************************************************)
(* The tempo map.                                                          *)
(***************************************************************************)
LEMMA Positive == End \in Nat /\ End > 0 /\ \A d \in Date : Tempo[d] \in Nat /\ Tempo[d] > 0
  BY PlayerAssumption DEF Date

\* The dates in milliseconds up to n.
UpTo(n, f) == f = [d \in 0..n |-> IF d = 0 THEN 0 ELSE f[d - 1] + Tempo[d - 1]]

LEMMA MsExists ==
  \E f : UpTo(End, f)
<1> DEFINE T == {n \in 0..End : \E f : UpTo(n, f)}
<1>0. End \in Nat
  BY Positive
<1>1. 0 \in T
  <2> DEFINE f == [d \in 0..0 |-> 0]
  <2>1. \A d \in 0..0 : d = 0
    OBVIOUS
  <2>2. UpTo(0, f)
    BY <2>1 DEF UpTo
  <2> QED
    BY <1>0, <2>2
<1>2. ASSUME NEW n \in 0..End, n \in T, n < End PROVE n + 1 \in T
  <2>1. PICK f : UpTo(n, f)
    BY <1>2
  <2>2. \A d \in 0..n : f[d] = IF d = 0 THEN 0 ELSE f[d - 1] + Tempo[d - 1]
    BY <2>1 DEF UpTo
  <2> DEFINE last == f[n] + Tempo[n]
             g == [d \in 0..n + 1 |-> IF d <= n THEN f[d] ELSE last]
  <2>3. g[n + 1] = last /\ \A d \in 0..n : g[d] = f[d]
    BY <1>0
  <2>4. ASSUME NEW d \in 0..n + 1
        PROVE  g[d] = IF d = 0 THEN 0 ELSE g[d - 1] + Tempo[d - 1]
    <3>1. CASE d \in 0..n
      <4>1. d = 0 \/ d - 1 \in 0..n
        BY <3>1
      <4> HIDE DEF g
      <4> QED
        BY <2>2, <2>3, <3>1, <4>1
    <3>2. CASE d = n + 1
      <4>1. d # 0 /\ d - 1 = n /\ n \in 0..n
        BY <3>2, <1>0
      <4>2. g[d] = last /\ g[d - 1] = f[n]
        BY <2>3, <3>2, <4>1
      <4> HIDE DEF g
      <4> QED
        BY <4>1, <4>2
    <3> QED
      BY <3>1, <3>2
  <2>5. g = [d \in 0..n + 1 |-> g[d]]
    OBVIOUS
  <2>6. UpTo(n + 1, g)
    <3> HIDE DEF g
    <3> QED
      BY <2>4, <2>5 DEF UpTo
  <2>7. n + 1 \in 0..End
    BY <1>0, <1>2
  <2> HIDE DEF g
  <2> QED
    BY <2>6, <2>7
<1> HIDE DEF T
<1>3. 0..End \subseteq T
  BY <1>0, <1>1, <1>2, Induction
<1>4. End \in T
  BY <1>0, <1>3
<1> QED
  BY <1>4 DEF T

LEMMA MsIs ==
  /\ Ms[0] = 0
  /\ \A d \in Date : d > 0 => Ms[d] = Ms[d - 1] + Tempo[d - 1]
<1> DEFINE W(g) == [d \in Date |-> IF d = 0 THEN 0 ELSE g[d - 1] + Tempo[d - 1]]
           ms == CHOOSE g : g = W(g)
<1>1. Ms = ms
  BY DEF Ms
<1>2. PICK f : UpTo(End, f)
  BY MsExists
<1>3. f = W(f)
  BY <1>2 DEF UpTo, Date
<1>4. ms = W(ms)
  <2> HIDE DEF W
  <2> QED
    BY <1>3
<1> HIDE DEF ms
<1>5. \A d \in Date : Ms[d] = IF d = 0 THEN 0 ELSE Ms[d - 1] + Tempo[d - 1]
  BY <1>1, <1>4
<1>6. 0 \in Date /\ \A d \in Date : d > 0 => d # 0
  BY Positive DEF Date
<1> QED
  BY <1>5, <1>6

LEMMA MsType == \A d \in Date : Ms[d] \in Nat /\ Ms[d] >= d
<1> DEFINE T == {d \in Date : Ms[d] \in Nat /\ Ms[d] >= d}
<1>1. 0 \in T
  BY MsIs, Positive DEF Date
<1>2. ASSUME NEW n \in 0..End, n \in T, n < End PROVE n + 1 \in T
  <2>1. n + 1 \in Date /\ n + 1 > 0 /\ (n + 1) - 1 = n /\ n \in Date
    BY <1>2, Positive DEF Date
  <2>2. Ms[n + 1] = Ms[n] + Tempo[n]
    BY <2>1, MsIs
  <2>3. Tempo[n] \in Nat /\ Tempo[n] > 0 /\ Ms[n] \in Nat /\ Ms[n] >= n /\ n \in Nat
    BY <1>2, <2>1, Positive
  <2> QED
    BY <2>1, <2>2, <2>3
<1> HIDE DEF T
<1>3. 0..End \subseteq T
  BY <1>1, <1>2, Induction, Positive
<1> QED
  BY <1>3 DEF T, Date

LEMMA MsNext ==
  ASSUME NEW d \in Date, d < End
  PROVE  d + 1 \in Date /\ Ms[d + 1] = Ms[d] + Tempo[d]
<1>1. d + 1 \in Date /\ d + 1 > 0 /\ (d + 1) - 1 = d
  BY Positive DEF Date
<1> QED
  BY <1>1, MsIs

\* The map is increasing.
LEMMA MsGrows ==
  ASSUME NEW c \in Date, NEW d \in Date, c <= d
  PROVE  Ms[c] <= Ms[d]
<1> DEFINE T == {n \in 0..End : c <= n => Ms[c] <= Ms[n]}
<1>1. 0 \in T
  BY MsType, Positive DEF Date
<1>2. ASSUME NEW n \in 0..End, n \in T, n < End PROVE n + 1 \in T
  <2>1. n \in Date /\ n + 1 \in Date /\ Ms[n + 1] = Ms[n] + Tempo[n]
    BY <1>2, MsNext DEF Date
  <2>2. Ms[n] \in Nat /\ Ms[c] \in Nat /\ Tempo[n] \in Nat /\ Ms[n + 1] \in Nat
    BY <2>1, MsType, Positive
  <2>3. c <= n \/ c = n + 1 \/ c > n + 1
    BY <1>2 DEF Date
  <2> QED
    BY <1>2, <2>1, <2>2, <2>3, Positive DEF Date
<1> HIDE DEF T
<1>3. 0..End \subseteq T
  BY <1>1, <1>2, Induction, Positive
<1> QED
  BY <1>3 DEF T, Date

LEMMA MsGrowsStrictly ==
  ASSUME NEW c \in Date, NEW d \in Date, c < d
  PROVE  Ms[c] < Ms[d]
<1>1. c \in Nat /\ d \in Nat /\ c < End /\ c + 1 <= d
  BY Positive DEF Date
<1>2. c + 1 \in Date /\ Ms[c + 1] = Ms[c] + Tempo[c]
  BY <1>1, MsNext
<1>3. Ms[c + 1] <= Ms[d]
  BY <1>1, <1>2, MsGrows
<1> QED
  BY <1>2, <1>3, MsType, Positive

(***************************************************************************)
(* Dates in ticks and in milliseconds, for the tempo from the date b on.   *)
(***************************************************************************)
ToMs(b, d) == Ms[b] + (d - b) * Tempo[b]

LEMMA ToMsType ==
  ASSUME NEW b \in Date, NEW d \in Nat
  PROVE  ToMs(b, d) \in Int
<1>1. b \in Nat /\ d \in Nat /\ Ms[b] \in Nat /\ Tempo[b] \in Nat
  BY MsType, Positive DEF Date
<1>2. d - b \in Int
  BY <1>1
<1>3. (d - b) * Tempo[b] \in Int
  BY <1>1, <1>2
<1> QED
  BY <1>1, <1>3 DEF ToMs

LEMMA TimesGrows ==
  ASSUME NEW a \in Int, NEW b \in Int, a <= b, NEW t \in Nat
  PROVE  a * t \in Int /\ b * t \in Int /\ a * t <= b * t
<1>1. (b - a) \in Nat
  OBVIOUS
<1>2. (b - a) * t >= 0
  BY <1>1
<1>3. (b - a) * t = b * t - a * t
  OBVIOUS
<1> QED
  BY <1>2, <1>3

LEMMA ToMsGrows ==
  ASSUME NEW b \in Date, NEW c \in Nat, NEW d \in Nat, c <= d
  PROVE  ToMs(b, c) <= ToMs(b, d)
<1>1. b \in Nat /\ Ms[b] \in Nat /\ Tempo[b] \in Nat
  BY MsType, Positive DEF Date
<1>2. c - b \in Int /\ d - b \in Int /\ c - b <= d - b
  BY <1>1
<1>3. /\ (c - b) * Tempo[b] \in Int /\ (d - b) * Tempo[b] \in Int
      /\ (c - b) * Tempo[b] <= (d - b) * Tempo[b]
  BY <1>1, <1>2, TimesGrows
<1> QED
  BY <1>1, <1>3 DEF ToMs

LEMMA ToMsHere ==
  ASSUME NEW b \in Date
  PROVE  ToMs(b, b) = Ms[b]
<1>1. b \in Nat /\ Ms[b] \in Nat /\ Tempo[b] \in Nat /\ b - b = 0
  BY MsType, Positive DEF Date
<1>2. (b - b) * Tempo[b] = 0
  BY <1>1
<1> QED
  BY <1>1, <1>2 DEF ToMs

LEMMA ToMsNext ==
  ASSUME NEW b \in Date, b < End
  PROVE  ToMs(b, b + 1) = Ms[b + 1]
<1>1. b \in Nat /\ Ms[b] \in Nat /\ Tempo[b] \in Nat /\ (b + 1) - b = 1
  BY MsType, Positive DEF Date
<1>2. ((b + 1) - b) * Tempo[b] = Tempo[b]
  BY <1>1
<1> QED
  BY <1>1, <1>2, MsNext DEF ToMs

\* When the tempo does not change, nor do the dates.
LEMMA ToMsSame ==
  ASSUME NEW b \in Date, b < End, Tempo[b + 1] = Tempo[b], NEW d \in Nat
  PROVE  ToMs(b + 1, d) = ToMs(b, d)
<1>1. b \in Nat /\ Ms[b] \in Nat /\ Tempo[b] \in Nat /\ b + 1 \in Date
  BY MsType, Positive, MsNext DEF Date
<1>2. Ms[b + 1] = Ms[b] + Tempo[b]
  BY MsNext
<1>3. (d - b) * Tempo[b] = (d - (b + 1)) * Tempo[b] + Tempo[b]
  <2> DEFINE x == d - (b + 1)
             t == Tempo[b]
  <2>1. x \in Int /\ t \in Int /\ d - b = x + 1
    BY <1>1
  <2> HIDE DEF x, t
  <2>2. (x + 1) * t = x * t + t
    BY <2>1
  <2> QED
    BY <2>1, <2>2 DEF x, t
<1>4. (d - (b + 1)) * Tempo[b] \in Int
  BY <1>1
<1> QED
  BY <1>1, <1>2, <1>3, <1>4 DEF ToMs

\* What the tempo at b says has come, has come by the map, as long as the tempo
\* event after b has not been passed.
LEMMA ComesInTime ==
  ASSUME NEW b \in Date, NEW d \in Date, NEW e \in Nat, Ms[b] <= e,
         ToMs(b, d) <= e, b = End \/ e <= Ms[b + 1]
  PROVE  Ms[d] <= e
<1>1. Ms[d] \in Nat /\ Ms[b] \in Nat /\ b \in Nat /\ d \in Nat /\ d <= End /\ b <= End /\ End \in Nat
  BY MsType, Positive DEF Date
<1>2. CASE d <= b
  BY <1>1, <1>2, MsGrows
<1>3. CASE d = b + 1
  <2>1. b < End /\ b # End
    BY <1>1, <1>3
  <2>2. ToMs(b, d) = Ms[d]
    BY <1>3, <2>1, ToMsNext
  <2> QED
    BY <2>2
<1>4. CASE d > b + 1
  <2>1. b < End /\ b # End
    BY <1>1, <1>4
  <2>2. b + 1 \in Date /\ ToMs(b, b + 1) = Ms[b + 1] /\ Ms[b + 1] = Ms[b] + Tempo[b]
    BY <2>1, ToMsNext, MsNext
  <2>3. (d - b) * Tempo[b] >= (2) * Tempo[b]
    <3>1. 2 \in Int /\ d - b \in Int /\ 2 <= d - b /\ Tempo[b] \in Nat
      BY <1>1, <1>4, Positive
    <3> QED
      BY <3>1, TimesGrows
  <2>4. Tempo[b] \in Nat /\ Tempo[b] > 0 /\ (d - b) * Tempo[b] \in Int
    BY <1>1, Positive
  <2>5. ToMs(b, d) > Ms[b + 1]
    BY <1>1, <2>2, <2>3, <2>4 DEF ToMs
  <2>6. ToMs(b, d) \in Int /\ Ms[b + 1] \in Nat
    BY <2>2, ToMsType, MsType DEF Date
  <2> QED
    BY <2>1, <2>5, <2>6
<1> QED
  BY <1>1, <1>2, <1>3, <1>4

(***************************************************************************)
(* The player.                                                             *)
(***************************************************************************)
LEMMA Fields ==
  ASSUME NEW p \in Players
  PROVE  /\ p.state \in {"idle", "playing", "pause"} /\ p.pos \in Nat /\ p.elapsed \in Nat
         /\ p.play \in Iterators /\ p.tempo \in Iterators
         /\ p.sound \in SUBSET Notes /\ p.left \in SUBSET Notes /\ p.prog \in Programs
         /\ p.chase \in Chasers /\ p.loop \in BOOLEAN /\ p.rcv \in Seq({"end", "loop"})
         /\ p.table \in SUBSET TicksTask /\ p.kernel \in [Cell -> KernelTasks \cup {NULL}]
         /\ p.status \in [TicksTask -> {"idle", "running", "forget"}]
         /\ p.date \in [TicksTask -> Date] /\ p.fTask \in [TicksTask -> Cell \cup {NULL}]
BY DEF Players

LEMMA ATask ==
  ASSUME NEW k \in KernelTasks
  PROVE  /\ k.task \in TicksTask /\ k.left \in Nat /\ k # NULL
         /\ \A t \in TicksTask, n \in Nat : [task |-> t, left |-> n] \in KernelTasks
BY PlayerAssumption DEF KernelTasks, TicksTask

LEMMA AnIterator ==
  ASSUME NEW i \in Iterators
  PROVE  i.cur \in Date /\ i.date \in Date /\ i.last \in BOOLEAN /\ (i.last => i.cur = End)
BY DEF Iterators

LEMMA BaseType ==
  ASSUME NEW p \in Players
  PROVE  /\ Base(p) \in Date
         /\ p.tempo.last => Base(p) = End
         /\ ~p.tempo.last => Base(p) = IF p.tempo.cur = 0 THEN 0 ELSE p.tempo.cur - 1
<1>1. p.tempo.cur \in Nat /\ p.tempo.cur <= End /\ End \in Nat /\ p.tempo.last \in BOOLEAN
  BY Fields, AnIterator, Positive DEF Date
<1>2. Max({p.tempo.cur - 1, 0}) = IF p.tempo.cur - 1 < 0 THEN 0 ELSE p.tempo.cur - 1
  BY <1>1, MaxOfTwo
<1>3. Base(p) = IF p.tempo.last THEN End ELSE Max({p.tempo.cur - 1, 0})
  BY DEF Base
<1> QED
  BY <1>1, <1>2, <1>3 DEF Date

LEMMA ConvertIs ==
  ASSUME NEW p \in Players, NEW d
  PROVE  ConvertTickToMs(p, d) = ToMs(Base(p), d)
BY DEF ConvertTickToMs, ToMs

LEMMA LeftIs ==
  ASSUME NEW p \in Players, NEW t \in TicksTask
  PROVE  /\ Left(p, t) \in Nat
         /\ Left(p, t) = IF ToMs(Base(p), p.date[t]) - p.elapsed < 0 THEN 0
                         ELSE ToMs(Base(p), p.date[t]) - p.elapsed
         /\ ToMs(Base(p), p.date[t]) \in Int
<1>1. p.date[t] \in Nat /\ p.elapsed \in Nat
  BY Fields DEF Date
<1>2. ToMs(Base(p), p.date[t]) \in Int
  BY <1>1, BaseType, ToMsType
<1> DEFINE a == ToMs(Base(p), p.date[t]) - p.elapsed
<1>3. a \in Int
  BY <1>1, <1>2
<1>4. Left(p, t) = Max({a, 0})
  BY ConvertIs DEF Left
<1> HIDE DEF a
<1>5. Left(p, t) = IF a < 0 THEN 0 ELSE a
  BY <1>3, <1>4, MaxOfTwo
<1>6. Left(p, t) \in Nat
  BY <1>3, <1>5
<1> QED
  BY <1>2, <1>5, <1>6 DEF a

(***************************************************************************)
(* Scheduling.                                                             *)
(***************************************************************************)
\* Only the tasks of the kernel differ.
SameButKernel(p, q) ==
  /\ q.state = p.state /\ q.pos = p.pos /\ q.elapsed = p.elapsed /\ q.play = p.play
  /\ q.tempo = p.tempo /\ q.sound = p.sound /\ q.left = p.left /\ q.prog = p.prog
  /\ q.chase = p.chase /\ q.loop = p.loop /\ q.rcv = p.rcv

\* The task u is as it was.
SameTask(p, q, u) ==
  /\ q.status[u] = p.status[u] /\ q.date[u] = p.date[u] /\ q.fTask[u] = p.fTask[u]
  /\ p.fTask[u] # NULL => q.kernel[q.fTask[u]] = p.kernel[p.fTask[u]]

LEMMA KillIs ==
  ASSUME NEW p \in Players, Pointed(p), NEW t \in TicksTask
  PROVE  /\ Kill(p, t) \in Players /\ Pointed(Kill(p, t))
         /\ SameButKernel(p, Kill(p, t)) /\ Kill(p, t).fTask[t] = NULL
         /\ Kill(p, t).status = p.status /\ Kill(p, t).date = p.date
         /\ Kill(p, t).table = p.table
         /\ \A u \in TicksTask \ {t} : SameTask(p, Kill(p, t), u)
<1> DEFINE q == Kill(p, t)
<1>1. CASE p.fTask[t] = NULL
  BY <1>1 DEF Kill, SameButKernel, SameTask
<1>2. CASE p.fTask[t] # NULL
  <2> DEFINE x == p.fTask[t]
  <2>1. q = [p EXCEPT !.kernel[x] = NULL, !.fTask[t] = NULL]
    BY <1>2 DEF Kill
  <2>2. /\ q.kernel = [p.kernel EXCEPT ![x] = NULL] /\ q.fTask = [p.fTask EXCEPT ![t] = NULL]
        /\ q.table = p.table /\ q.status = p.status /\ q.date = p.date
        /\ SameButKernel(p, q)
    BY <2>1 DEF Players, SameButKernel
  <2>4. x \in Cell /\ p.kernel[x] # NULL /\ p.kernel[x].task = t
    BY <1>2, Fields DEF Pointed
  <2> HIDE DEF q, x
  <2>3. q \in Players
    BY <2>1, <2>4 DEF Players
  <2>5. /\ \A u \in TicksTask : q.fTask[u] = IF u = t THEN NULL ELSE p.fTask[u]
        /\ \A y \in Cell : q.kernel[y] = IF y = x THEN NULL ELSE p.kernel[y]
    BY <2>2, Fields
  <2>6. \A u \in TicksTask \ {t} : p.fTask[u] # x
    BY <2>4, PlayerAssumption DEF Pointed
  <2>7. Pointed(q)
    BY <2>2, <2>4, <2>5, <2>6, Fields DEF Pointed, x
  <2>8. \A u \in TicksTask \ {t} : SameTask(p, q, u)
    BY <2>2, <2>5, <2>6, Fields DEF SameTask
  <2> QED
    BY <2>2, <2>3, <2>5, <2>7, <2>8 DEF q
<1> QED
  BY <1>1, <1>2

LEMMA NewMidiTaskIs ==
  ASSUME NEW p \in Players, Pointed(p), NEW t \in TicksTask, p.fTask[t] = NULL,
         p.status[t] # "idle"
  PROVE  LET q == NewMidiTask(p, t) IN
         /\ q \in Players /\ Pointed(q) /\ SameButKernel(p, q)
         /\ q.status = p.status /\ q.date = p.date /\ q.table = p.table
         /\ \A u \in TicksTask \ {t} : SameTask(p, q, u)
         /\ Exact(q, t)
         /\ Cardinality(Cell) > 1 => q.fTask[t] # NULL
<1> DEFINE q == NewMidiTask(p, t)
           free == {x \in Cell : p.kernel[x] = NULL}
           x == CHOOSE y \in free : TRUE
<1>1. CASE free = {}
  <2>1. q = [p EXCEPT !.fTask[t] = NULL]
    BY <1>1 DEF NewMidiTask
  <2>2. p.fTask = [p.fTask EXCEPT ![t] = NULL]
    BY Fields
  <2>3. q = p
    BY <2>1, <2>2 DEF Players
  <2>4. SameButKernel(p, q) /\ \A u \in TicksTask \ {t} : SameTask(p, q, u)
    BY <2>3 DEF SameButKernel, SameTask
  <2>5. Exact(q, t)
    BY <2>3 DEF Exact
  <2>6. ~ Cardinality(Cell) > 1
    <3>1. \A y, z \in Cell : y = z
      <4>1. \A y \in Cell : p.kernel[y] # NULL
        BY <1>1
      <4>2. \A y \in Cell : p.kernel[y].task \in TicksTask /\ p.fTask[p.kernel[y].task] = y
        BY <4>1, Fields, ATask DEF Pointed
      <4>3. \A y \in Cell : p.kernel[y].task # t
        BY <4>2, PlayerAssumption
      <4>4. \A u, v \in TicksTask : u # t /\ v # t => u = v
        BY DEF TicksTask
      <4> QED
        BY <4>2, <4>3, <4>4
    <3>2. CASE Cell = {}
      BY <3>2, FS_EmptySet
    <3>3. CASE Cell # {}
      <4>1. PICK y \in Cell : TRUE
        BY <3>3
      <4>2. Cell = {y}
        BY <3>1, <4>1
      <4> QED
        <5>1. Cardinality({y}) = 1
          BY FS_Singleton
        <5> QED
          BY <4>2, <5>1
    <3> QED
      BY <3>2, <3>3
  <2> QED
    BY <2>3, <2>4, <2>5, <2>6
<1>2. CASE free # {}
  <2>1. x \in Cell /\ p.kernel[x] = NULL
    BY <1>2
  <2>2. q = [p EXCEPT !.kernel[x] = [task |-> t, left |-> Left(p, t)], !.fTask[t] = x]
    BY <1>2 DEF NewMidiTask, Left
  <2> HIDE DEF q, x
  <2> DEFINE k == [task |-> t, left |-> Left(p, t)]
  <2>3. k \in KernelTasks /\ k # NULL /\ k.task = t /\ k.left = Left(p, t)
    <3>1. k \in KernelTasks
      BY LeftIs DEF KernelTasks
    <3> QED
      BY <3>1, ATask
  <2> HIDE DEF k
  <2>4. q = [p EXCEPT !.kernel[x] = k, !.fTask[t] = x]
    BY <2>2 DEF k
  <2>5. /\ q.kernel = [p.kernel EXCEPT ![x] = k] /\ q.fTask = [p.fTask EXCEPT ![t] = x]
        /\ q.table = p.table /\ q.status = p.status /\ q.date = p.date
        /\ SameButKernel(p, q)
    BY <2>4 DEF Players, SameButKernel
  <2>6. q \in Players
    BY <2>1, <2>3, <2>4 DEF Players
  <2>7. /\ \A u \in TicksTask : q.fTask[u] = IF u = t THEN x ELSE p.fTask[u]
        /\ \A y \in Cell : q.kernel[y] = IF y = x THEN k ELSE p.kernel[y]
    BY <2>5, Fields
  <2>8. \A u \in TicksTask : p.fTask[u] # x
    BY <2>1, PlayerAssumption DEF Pointed
  <2>9. x # NULL
    BY <2>1, PlayerAssumption
  <2>10. Pointed(q)
    <3>1. ASSUME NEW u \in TicksTask, q.fTask[u] # NULL
          PROVE  q.kernel[q.fTask[u]] # NULL /\ q.kernel[q.fTask[u]].task = u
      <4>1. CASE u = t
        BY <2>1, <2>3, <2>7, <4>1
      <4>2. CASE u # t
        <5>1. q.fTask[u] = p.fTask[u] /\ p.fTask[u] \in Cell /\ p.fTask[u] # x
          BY <2>7, <2>8, <3>1, <4>2, Fields
        <5> QED
          BY <2>7, <3>1, <5>1 DEF Pointed
      <4> QED
        BY <4>1, <4>2
    <3>2. ASSUME NEW y \in Cell, q.kernel[y] # NULL PROVE q.fTask[q.kernel[y].task] = y
      <4>1. CASE y = x
        BY <2>3, <2>7, <4>1
      <4>2. CASE y # x
        <5>1. q.kernel[y] = p.kernel[y] /\ p.kernel[y] # NULL
          BY <2>7, <3>2, <4>2
        <5>2. p.kernel[y].task \in TicksTask /\ p.fTask[p.kernel[y].task] = y
          BY <5>1, Fields, ATask DEF Pointed
        <5>3. p.kernel[y].task # t
          BY <5>2, PlayerAssumption
        <5> QED
          BY <2>7, <5>1, <5>2, <5>3
      <4> QED
        BY <4>1, <4>2
    <3>3. \A u \in TicksTask : q.status[u] = "idle" <=> u \notin q.table
      BY <2>5 DEF Pointed
    <3>4. \A u \in TicksTask : q.status[u] = "idle" => q.fTask[u] = NULL
      BY <2>5, <2>7 DEF Pointed
    <3> QED
      BY <3>1, <3>2, <3>3, <3>4 DEF Pointed
  <2>11. \A u \in TicksTask \ {t} : SameTask(p, q, u)
    BY <2>5, <2>7, <2>8, Fields DEF SameTask
  <2>12. Left(q, t) = Left(p, t)
    BY <2>5 DEF Left, ConvertTickToMs, Base, SameButKernel
  <2>13. Exact(q, t) /\ q.fTask[t] # NULL
    BY <2>1, <2>3, <2>7, <2>9, <2>12 DEF Exact
  <2> QED
    BY <2>5, <2>6, <2>10, <2>11, <2>13 DEF q
<1> QED
  BY <1>1, <1>2

LEMMA SameTaskTwice ==
  ASSUME NEW p, NEW q, NEW r, NEW u, SameTask(p, q, u), SameTask(q, r, u)
  PROVE  SameTask(p, r, u)
BY DEF SameTask

LEMMA SameButKernelTwice ==
  ASSUME NEW p, NEW q, NEW r, SameButKernel(p, q), SameButKernel(q, r)
  PROVE  SameButKernel(p, r)
BY DEF SameButKernel

LEMMA ScheduleRealTimeIs ==
  ASSUME NEW p \in Players, Pointed(p), NEW t \in TicksTask, p.status[t] # "idle"
  PROVE  LET q == ScheduleRealTime(p, t) IN
         /\ q \in Players /\ Pointed(q) /\ SameButKernel(p, q)
         /\ q.status = p.status /\ q.date = p.date /\ q.table = p.table
         /\ \A u \in TicksTask \ {t} : SameTask(p, q, u)
         /\ p.state = "playing" => Exact(q, t) /\ (Cardinality(Cell) > 1 => q.fTask[t] # NULL)
         /\ p.state # "playing" => q = p
<1>1. CASE p.state # "playing"
  BY <1>1 DEF ScheduleRealTime, IsSchedulable, SameButKernel, SameTask
<1>2. CASE p.state = "playing"
  <2> DEFINE k == Kill(p, t)
             q == NewMidiTask(k, t)
  <2>1. ScheduleRealTime(p, t) = q
    BY <1>2 DEF ScheduleRealTime, IsSchedulable
  <2>2. /\ k \in Players /\ Pointed(k)
        /\ SameButKernel(p, k) /\ k.fTask[t] = NULL
        /\ k.status = p.status /\ k.date = p.date
        /\ k.table = p.table
        /\ \A u \in TicksTask \ {t} : SameTask(p, k, u)
    BY KillIs
  <2> HIDE DEF k
  <2>3. k.status[t] # "idle"
    BY <2>2
  <2>4. /\ q \in Players /\ Pointed(q) /\ SameButKernel(k, q)
        /\ q.status = k.status /\ q.date = k.date /\ q.table = k.table
        /\ \A u \in TicksTask \ {t} : SameTask(k, q, u)
        /\ Exact(q, t)
        /\ Cardinality(Cell) > 1 => q.fTask[t] # NULL
    BY <2>2, <2>3, NewMidiTaskIs
  <2> HIDE DEF q
  <2>5. SameButKernel(p, q)
    BY <2>2, <2>4, SameButKernelTwice
  <2>6. \A u \in TicksTask \ {t} : SameTask(p, q, u)
    BY <2>2, <2>4, SameTaskTwice
  <2> QED
    BY <1>2, <2>1, <2>2, <2>4, <2>5, <2>6
<1> QED
  BY <1>1, <1>2

LEMMA ScheduleTickTaskIs ==
  ASSUME NEW p \in Players, Pointed(p), NEW t \in TicksTask, NEW d \in Date
  PROVE  LET q == ScheduleTickTask(p, t, d) IN
         /\ q \in Players /\ Pointed(q) /\ SameButKernel(p, q)
         /\ q.status[t] = "running" /\ q.date[t] = d
         /\ \A u \in TicksTask \ {t} : SameTask(p, q, u)
         /\ p.state = "playing" => Exact(q, t) /\ (Cardinality(Cell) > 1 => q.fTask[t] # NULL)
         /\ p.state # "playing" => q.fTask = p.fTask /\ q.kernel = p.kernel
<1> DEFINE a == IF p.status[t] = "idle" THEN InsertTask(p, t) ELSE p
           b == [a EXCEPT !.date[t] = d, !.status[t] = "running"]
           q == ScheduleRealTime(b, t)
<1>1. ScheduleTickTask(p, t, d) = q
  BY DEF ScheduleTickTask
<1>2. /\ a \in Players /\ SameButKernel(p, a) /\ a.kernel = p.kernel
      /\ a.status = p.status /\ a.date = p.date /\ a.fTask = p.fTask
      /\ a.table = p.table \cup {t}
  <2>1. CASE p.status[t] = "idle"
    <3>1. a = [p EXCEPT !.table = @ \cup {t}]
      BY <2>1 DEF InsertTask
    <3> HIDE DEF a
    <3> QED
      BY <3>1 DEF Players, SameButKernel
  <2>2. CASE p.status[t] # "idle"
    <3>1. a = p /\ t \in p.table
      BY <2>2 DEF Pointed
    <3> HIDE DEF a
    <3> QED
      BY <3>1 DEF SameButKernel
  <2> QED
    BY <2>1, <2>2
<1> HIDE DEF a
<1>3. /\ b \in Players /\ SameButKernel(a, b) /\ b.kernel = a.kernel
      /\ b.status = [a.status EXCEPT ![t] = "running"]
      /\ b.date = [a.date EXCEPT ![t] = d] /\ b.fTask = a.fTask /\ b.table = a.table
  BY <1>2 DEF Players, SameButKernel
<1> HIDE DEF b
<1>4. /\ b.status[t] = "running" /\ b.date[t] = d
      /\ \A u \in TicksTask \ {t} : b.status[u] = p.status[u] /\ b.date[u] = p.date[u]
  BY <1>2, <1>3, Fields
<1>5. Pointed(b)
  BY <1>2, <1>3, <1>4, Fields DEF Pointed
<1>6. \A u \in TicksTask \ {t} : SameTask(p, b, u)
  BY <1>2, <1>3, <1>4 DEF SameTask
<1>7. SameButKernel(p, b)
  BY <1>2, <1>3, SameButKernelTwice
<1>8. /\ q \in Players /\ Pointed(q) /\ SameButKernel(b, q)
      /\ q.status = b.status /\ q.date = b.date /\ q.table = b.table
      /\ \A u \in TicksTask \ {t} : SameTask(b, q, u)
      /\ b.state = "playing" => Exact(q, t) /\ (Cardinality(Cell) > 1 => q.fTask[t] # NULL)
      /\ b.state # "playing" => q = b
  BY <1>3, <1>4, <1>5, ScheduleRealTimeIs
<1> HIDE DEF q
<1>9. SameButKernel(p, q)
  BY <1>7, <1>8, SameButKernelTwice
<1>10. \A u \in TicksTask \ {t} : SameTask(p, q, u)
  BY <1>6, <1>8, SameTaskTwice
<1>11. b.state = p.state
  BY <1>7 DEF SameButKernel
<1> QED
  BY <1>1, <1>2, <1>3, <1>4, <1>8, <1>9, <1>10, <1>11

(***************************************************************************)
(* The slices that the tasks play.                                         *)
(***************************************************************************)
LEMMA NextDateIs ==
  ASSUME NEW i \in Iterators
  PROVE  LET j == NextDate(i) IN
         /\ j \in Iterators
         /\ i.last => j = i
         /\ ~i.last /\ i.date # i.cur => j.cur = i.cur /\ j.date = i.cur /\ ~j.last
         /\ ~i.last /\ i.date = i.cur /\ i.cur = End => j.cur = End /\ j.last
         /\ ~i.last /\ i.date = i.cur /\ i.cur # End =>
              i.cur < End /\ j.cur = i.cur + 1 /\ j.date = i.cur + 1 /\ ~j.last
<1>1. i.cur \in Nat /\ i.cur <= End /\ End \in Nat
  BY AnIterator, Positive DEF Date
<1>2. CASE i.last
  BY <1>2 DEF NextDate
<1>3. CASE ~i.last /\ i.date # i.cur
  BY <1>3 DEF NextDate, Iterators
<1>4. CASE ~i.last /\ i.date = i.cur /\ i.cur = End
  BY <1>4 DEF NextDate, Iterators
<1>5. CASE ~i.last /\ i.date = i.cur /\ i.cur # End
  <2> DEFINE c == i.cur + 1
  <2>1. i.cur < End /\ c \in Date
    BY <1>1, <1>5 DEF Date
  <2>2. NextDate(i) = [i EXCEPT !.cur = c, !.date = i.date + 1]
    BY <1>5 DEF NextDate
  <2>3. i.date + 1 = c
    BY <1>5
  <2> HIDE DEF c
  <2>4. NextDate(i) = [i EXCEPT !.cur = c, !.date = c]
    BY <2>2, <2>3
  <2>5. /\ NextDate(i) \in Iterators /\ NextDate(i).cur = c
        /\ NextDate(i).date = c /\ ~NextDate(i).last
    BY <1>5, <2>1, <2>4 DEF Iterators
  <2> QED
    BY <1>5, <2>1, <2>5 DEF c
<1> QED
  BY <1>2, <1>3, <1>4, <1>5, AnIterator

\* The tempo event met last is the same, or the next one.
LEMMA NextBase ==
  ASSUME NEW p \in Players, NEW q \in Players, ~p.tempo.last, q.tempo = NextDate(p.tempo)
  PROVE  \/ Base(q) = Base(p)
         \/ /\ Base(q) = p.tempo.cur /\ p.tempo.cur = Base(p) + 1 /\ Base(p) < End
            /\ p.tempo.date = p.tempo.cur
<1>1. /\ p.tempo \in Iterators /\ p.tempo.cur \in Nat /\ p.tempo.cur <= End
      /\ End \in Nat /\ End > 0 /\ p.tempo.last \in BOOLEAN /\ q.tempo.last \in BOOLEAN
  BY Fields, AnIterator, Positive DEF Date
<1>2. Base(p) = IF p.tempo.cur = 0 THEN 0 ELSE p.tempo.cur - 1
  BY BaseType
<1>3. /\ q.tempo.last => Base(q) = End
      /\ ~q.tempo.last => Base(q) = IF q.tempo.cur = 0 THEN 0 ELSE q.tempo.cur - 1
  BY BaseType
<1>4. CASE p.tempo.date # p.tempo.cur
  BY <1>1, <1>2, <1>3, <1>4, NextDateIs
<1>5. CASE p.tempo.date = p.tempo.cur /\ p.tempo.cur = End
  <2>1. q.tempo.last
    BY <1>1, <1>5, NextDateIs
  <2>2. Base(q) = End
    BY <1>3, <2>1
  <2> QED
    BY <1>1, <1>2, <1>5, <2>2
<1>6. CASE p.tempo.date = p.tempo.cur /\ p.tempo.cur # End
  <2>1. q.tempo.cur = p.tempo.cur + 1 /\ ~q.tempo.last
    BY <1>1, <1>6, NextDateIs
  <2>2. Base(q) = p.tempo.cur
    BY <1>1, <1>3, <2>1
  <2> QED
    BY <1>1, <1>2, <1>6, <2>2
<1> QED
  BY <1>4, <1>5, <1>6

\* Only what is heard and what comes back differ.
SameButSound(p, q) ==
  /\ q.state = p.state /\ q.pos = p.pos /\ q.elapsed = p.elapsed /\ q.play = p.play
  /\ q.tempo = p.tempo /\ q.chase = p.chase /\ q.loop = p.loop
  /\ q.table = p.table /\ q.kernel = p.kernel /\ q.status = p.status
  /\ q.date = p.date /\ q.fTask = p.fTask

On(d) == {n \in Notes : n[1] = d}
Off(d) == {n \in Notes : n[2] = d}
Marks(d) == (IF d = LoopMarker THEN <<"loop">> ELSE <<>>) \o (IF d = End THEN <<"end">> ELSE <<>>)

LEMMA MarksType == \A d : Marks(d) \in Seq({"end", "loop"})
<1> DEFINE S == {"end", "loop"}
<1>1. <<"loop">> \in Seq(S) /\ <<"end">> \in Seq(S) /\ <<>> \in Seq(S)
  OBVIOUS
<1>2. \A s, t \in Seq(S) : s \o t \in Seq(S)
  BY ConcatProperties
<1> QED
  BY <1>1, <1>2 DEF Marks

LEMMA ConcatThree ==
  \A a, b, c \in Seq({"end", "loop"}) : (a \o b) \o c = a \o (b \o c)
BY ConcatAssociative

LEMMA UseEventsIs ==
  ASSUME NEW p \in Players, NEW d \in Date, p.left \subseteq p.sound
  PROVE  LET q == UseEvents(p, d) IN
         /\ q \in Players /\ q.left \subseteq q.sound /\ SameButSound(p, q)
         /\ q.rcv = p.rcv \o Marks(d)
         /\ q.sound = (p.sound \ Off(d)) \cup On(d) /\ q.left = p.left \ Off(d)
         /\ q.prog = IF Prog[d] = NULL THEN p.prog ELSE Prog[d]
<1> DEFINE k == KeyOff(p, Off(d))
           loop == IF d = LoopMarker THEN <<"loop">> ELSE <<>>
           end == IF d = End THEN <<"end">> ELSE <<>>
           prog == IF Prog[d] = NULL THEN k.prog ELSE Prog[d]
           q == [k EXCEPT !.rcv = (k.rcv \o loop) \o end,
                          !.sound = k.sound \cup On(d), !.prog = prog]
<1>1. UseEvents(p, d) = q
  BY DEF UseEvents, On, Off
<1>2. /\ k \in Players /\ SameButSound(p, k) /\ k.rcv = p.rcv /\ k.prog = p.prog
      /\ k.sound = p.sound \ Off(d) /\ k.left = p.left \ Off(d)
  BY DEF KeyOff, Players, SameButSound
<1> HIDE DEF k
<1>3. p.rcv \in Seq({"end", "loop"}) /\ k.prog \in Programs /\ k.sound \in SUBSET Notes
  BY <1>2, Fields
<1>4. /\ loop \in Seq({"end", "loop"}) /\ end \in Seq({"end", "loop"})
  <2> DEFINE S == {"end", "loop"}
  <2>1. <<"loop">> \in Seq(S) /\ <<"end">> \in Seq(S) /\ <<>> \in Seq(S)
    OBVIOUS
  <2> QED
    BY <2>1
<1>5. (k.rcv \o loop) \o end = p.rcv \o Marks(d)
  <2>1. Marks(d) = loop \o end
    BY DEF Marks
  <2> HIDE DEF loop, end
  <2>2. (p.rcv \o loop) \o end = p.rcv \o (loop \o end)
    BY <1>3, <1>4, ConcatThree
  <2> QED
    BY <1>2, <2>1, <2>2
<1>6. (k.rcv \o loop) \o end \in Seq({"end", "loop"})
  <2> HIDE DEF loop, end
  <2> QED
    BY <1>3, <1>5, MarksType, ConcatProperties
<1>7. prog \in Programs /\ prog = IF Prog[d] = NULL THEN p.prog ELSE Prog[d]
  BY <1>2, <1>3 DEF Programs
<1>8. k.sound \cup On(d) \in SUBSET Notes
  BY <1>3 DEF On
<1> HIDE DEF loop, end, prog
<1>9. /\ q \in Players /\ SameButSound(k, q) /\ q.rcv = (k.rcv \o loop) \o end
      /\ q.sound = k.sound \cup On(d) /\ q.prog = prog /\ q.left = k.left
  BY <1>2, <1>6, <1>7, <1>8 DEF Players, SameButSound
<1> HIDE DEF q
<1>10. SameButSound(p, q)
  BY <1>2, <1>9 DEF SameButSound
<1>11. q.left \subseteq q.sound
  BY <1>2, <1>9
<1> QED
  BY <1>1, <1>2, <1>5, <1>7, <1>9, <1>10, <1>11

\* What a slice of the tick player leaves alone.
SameInPlay(p, q) ==
  /\ q.state = p.state /\ q.pos = p.pos /\ q.elapsed = p.elapsed /\ q.tempo = p.tempo
  /\ q.chase = p.chase /\ q.loop = p.loop /\ SameTask(p, q, "tempo")

SameHeard(p, q) ==
  q.sound = p.sound /\ q.left = p.left /\ q.prog = p.prog /\ q.rcv = p.rcv

Heard(p, q, d) ==
  /\ q.rcv = p.rcv \o Marks(d)
  /\ q.sound = (p.sound \ Off(d)) \cup On(d) /\ q.left = p.left \ Off(d)
  /\ q.prog = IF Prog[d] = NULL THEN p.prog ELSE Prog[d]

LEMMA PlaySliceIs ==
  ASSUME NEW p \in Players, Pointed(p), p.left \subseteq p.sound
  PROVE  LET q == PlaySlice(p) IN
         /\ q \in Players /\ Pointed(q) /\ q.left \subseteq q.sound /\ SameInPlay(p, q)
         /\ q.play = NextDate(p.play)
         /\ p.play.last =>
              /\ Heard(p, q, End)
              /\ q.status = p.status /\ q.fTask = p.fTask
         /\ ~p.play.last =>
              /\ p.play.date = p.play.cur => Heard(p, q, p.play.cur)
              /\ p.play.date # p.play.cur => SameHeard(p, q)
              /\ q.status["play"] = "running" /\ q.date["play"] = q.play.cur
              /\ p.state = "playing" =>
                   Exact(q, "play") /\ (Cardinality(Cell) > 1 => q.fTask["play"] # NULL)
              /\ p.state # "playing" => q.fTask = p.fTask /\ q.kernel = p.kernel
<1>1. p.play \in Iterators /\ p.play.cur \in Date /\ End \in Date /\ p.play.last \in BOOLEAN
  BY Fields, AnIterator, Positive DEF Date
<1>2. CASE p.play.last
  <2> DEFINE q == UseEvents(p, End)
  <2>1. PlaySlice(p) = q
    BY <1>2 DEF PlaySlice
  <2>2. /\ q \in Players /\ q.left \subseteq q.sound /\ SameButSound(p, q)
        /\ Heard(p, q, End)
    BY <1>1, UseEventsIs DEF Heard
  <2> HIDE DEF q
  <2>3. Pointed(q)
    BY <2>2 DEF Pointed, SameButSound
  <2>4. SameInPlay(p, q) /\ q.play = p.play /\ q.status = p.status /\ q.fTask = p.fTask
    BY <2>2 DEF SameInPlay, SameTask, SameButSound
  <2>5. NextDate(p.play) = p.play
    BY <1>1, <1>2, NextDateIs
  <2> QED
    BY <1>2, <2>1, <2>2, <2>3, <2>4, <2>5
<1>3. CASE ~p.play.last
  <2> DEFINE i == NextDate(p.play)
             u == IF p.play.date = p.play.cur THEN UseEvents(p, p.play.cur) ELSE p
             v == [u EXCEPT !.play = i]
             q == ScheduleTickTask(v, "play", i.cur)
  <2>1. PlaySlice(p) = q
    BY <1>3 DEF PlaySlice
  <2>2. i \in Iterators /\ i.cur \in Date
    BY <1>1, NextDateIs, AnIterator
  <2>3. /\ u \in Players /\ u.left \subseteq u.sound /\ SameButSound(p, u)
        /\ p.play.date = p.play.cur => Heard(p, u, p.play.cur)
        /\ p.play.date # p.play.cur => u = p
    BY <1>1, UseEventsIs DEF Heard, SameButSound
  <2> HIDE DEF i, u
  <2>4. /\ v \in Players /\ v.left \subseteq v.sound /\ v.play = i
        /\ v.state = p.state /\ v.pos = p.pos /\ v.elapsed = p.elapsed
        /\ v.tempo = p.tempo /\ v.chase = p.chase /\ v.loop = p.loop
        /\ v.table = p.table /\ v.kernel = p.kernel /\ v.status = p.status
        /\ v.date = p.date /\ v.fTask = p.fTask
        /\ v.rcv = u.rcv /\ v.sound = u.sound /\ v.left = u.left /\ v.prog = u.prog
    BY <2>2, <2>3 DEF Players, SameButSound
  <2> HIDE DEF v
  <2>5. Pointed(v)
    BY <2>4 DEF Pointed
  <2>6. "play" \in TicksTask /\ "tempo" \in TicksTask \ {"play"}
    BY DEF TicksTask
  <2>7. /\ q \in Players /\ Pointed(q) /\ SameButKernel(v, q)
        /\ q.status["play"] = "running" /\ q.date["play"] = i.cur
        /\ SameTask(v, q, "tempo")
        /\ v.state = "playing" =>
             Exact(q, "play") /\ (Cardinality(Cell) > 1 => q.fTask["play"] # NULL)
        /\ v.state # "playing" => q.fTask = v.fTask /\ q.kernel = v.kernel
    BY <2>2, <2>4, <2>5, <2>6, ScheduleTickTaskIs
  <2> HIDE DEF q
  <2>8. SameTask(p, v, "tempo")
    BY <2>4 DEF SameTask
  <2>9. SameInPlay(p, q) /\ q.play = i
    BY <2>4, <2>7, <2>8, SameTaskTwice DEF SameInPlay, SameButKernel
  <2>10. /\ q.rcv = u.rcv /\ q.sound = u.sound /\ q.left = u.left /\ q.prog = u.prog
    BY <2>4, <2>7 DEF SameButKernel
  <2>11. /\ p.play.date = p.play.cur => Heard(p, q, p.play.cur)
         /\ p.play.date # p.play.cur => SameHeard(p, q)
    BY <2>3, <2>10 DEF Heard, SameHeard
  <2>12. q.left \subseteq q.sound
    BY <2>3, <2>10
  <2> QED
    BY <1>3, <2>1, <2>4, <2>7, <2>9, <2>11, <2>12 DEF i
<1> QED
  BY <1>1, <1>2, <1>3

LEMMA ReScheduleTasksIs ==
  ASSUME NEW p \in Players, Pointed(p), p.status["tempo"] = "idle"
  PROVE  LET q == ReScheduleTasks(p) IN
         /\ q \in Players /\ Pointed(q) /\ SameButKernel(p, q)
         /\ q.status = p.status /\ q.date = p.date /\ q.table = p.table
         /\ SameTask(p, q, "tempo")
         /\ p.state = "playing" => Exact(q, "play")
         /\ p.state = "playing" /\ p.status["play"] # "idle" /\ Cardinality(Cell) > 1
              => q.fTask["play"] # NULL
<1>1. "play" \in TicksTask /\ "tempo" \in TicksTask /\ "tempo" # "play" /\ "tempo" \notin p.table
  BY DEF TicksTask, Pointed
<1>2. CASE "play" \in p.table
  <2> DEFINE q == ScheduleRealTime(p, "play")
  <2>1. p.status["play"] # "idle"
    BY <1>1, <1>2 DEF Pointed
  <2>2. /\ q \in Players /\ Pointed(q) /\ SameButKernel(p, q)
        /\ q.status = p.status /\ q.date = p.date /\ q.table = p.table
        /\ SameTask(p, q, "tempo")
        /\ p.state = "playing" => Exact(q, "play") /\ (Cardinality(Cell) > 1 => q.fTask["play"] # NULL)
    BY <1>1, <2>1, ScheduleRealTimeIs
  <2>3. ReScheduleTasks(p) = IF "tempo" \in q.table THEN ScheduleRealTime(q, "tempo") ELSE q
    BY <1>2 DEF ReScheduleTasks
  <2> HIDE DEF q
  <2>4. ReScheduleTasks(p) = q
    BY <1>1, <2>2, <2>3
  <2> QED
    BY <2>2, <2>4
<1>3. CASE "play" \notin p.table
  <2>1. ReScheduleTasks(p) = p
    BY <1>1, <1>3 DEF ReScheduleTasks
  <2>2. p.fTask["play"] = NULL /\ p.status["play"] = "idle"
    BY <1>1, <1>3 DEF Pointed
  <2> QED
    BY <2>1, <2>2 DEF SameButKernel, SameTask, Exact
<1> QED
  BY <1>2, <1>3

\* What a slice of the synchroniser leaves alone.
SameInTempo(p, q) ==
  /\ q.state = p.state /\ q.pos = p.pos /\ q.elapsed = p.elapsed /\ q.play = p.play
  /\ q.sound = p.sound /\ q.left = p.left /\ q.prog = p.prog
  /\ q.chase = p.chase /\ q.loop = p.loop /\ q.rcv = p.rcv
  /\ q.status["play"] = p.status["play"] /\ q.date["play"] = p.date["play"]

LEMMA TempoSliceIs ==
  ASSUME NEW p \in Players, Pointed(p), p.state = "playing", p.status["tempo"] = "idle"
  PROVE  LET q == TempoSlice(p) IN
         /\ q \in Players /\ Pointed(q) /\ SameInTempo(p, q)
         /\ q.tempo = NextDate(p.tempo)
         /\ p.tempo.last => q = p
         /\ ~p.tempo.last =>
              /\ q.status["tempo"] = "running" /\ q.date["tempo"] = q.tempo.cur
              /\ Exact(q, "tempo") /\ (Cardinality(Cell) > 1 => q.fTask["tempo"] # NULL)
         /\ Exact(p, "play") => Exact(q, "play")
         /\ Cardinality(Cell) > 1 /\ p.fTask["play"] # NULL => q.fTask["play"] # NULL
<1>1. p.tempo \in Iterators /\ p.tempo.last \in BOOLEAN
  BY Fields, AnIterator
<1>2. CASE p.tempo.last
  <2>1. TempoSlice(p) = p
    BY <1>2 DEF TempoSlice
  <2>2. NextDate(p.tempo) = p.tempo
    BY <1>1, <1>2, NextDateIs
  <2> QED
    BY <1>2, <2>1, <2>2 DEF SameInTempo
<1>3. CASE ~p.tempo.last
  <2> DEFINE u == [p EXCEPT !.tempo = NextDate(p.tempo)]
             v == IF Tempo[Base(u)] # Tempo[Base(p)] THEN ReScheduleTasks(u) ELSE u
             q == ScheduleTickTask(v, "tempo", v.tempo.cur)
  <2>0. /\ "play" \in TicksTask \ {"tempo"} /\ "tempo" \in TicksTask /\ "play" \in TicksTask
    BY DEF TicksTask
  <2>1. TempoSlice(p) = q
    BY <1>3 DEF TempoSlice
  <2>2. NextDate(p.tempo) \in Iterators
    BY <1>1, NextDateIs
  <2>3. /\ u \in Players /\ SameInTempo(p, u) /\ u.tempo = NextDate(p.tempo)
        /\ u.table = p.table /\ u.kernel = p.kernel /\ u.status = p.status
        /\ u.date = p.date /\ u.fTask = p.fTask
    BY <2>2 DEF Players, SameInTempo
  <2> HIDE DEF u
  <2>4. Pointed(u)
    BY <2>3 DEF Pointed
  <2>5. ASSUME Tempo[Base(u)] # Tempo[Base(p)]
        PROVE
          /\ v \in Players /\ Pointed(v) /\ SameInTempo(p, v) /\ v.tempo = NextDate(p.tempo)
          /\ Exact(p, "play") => Exact(v, "play")
          /\ Cardinality(Cell) > 1 /\ p.fTask["play"] # NULL => v.fTask["play"] # NULL
    <3> DEFINE w == ReScheduleTasks(u)
    <3>1. v = w
      BY <2>5
    <3>2. /\ w \in Players /\ Pointed(w) /\ SameButKernel(u, w)
          /\ w.status = u.status /\ w.date = u.date
          /\ Exact(w, "play")
          /\ u.status["play"] # "idle" /\ Cardinality(Cell) > 1 => w.fTask["play"] # NULL
      BY <2>3, <2>4, ReScheduleTasksIs DEF SameInTempo
    <3> HIDE DEF w, v
    <3>3. p.fTask["play"] # NULL => u.status["play"] # "idle"
      BY <2>0, <2>3 DEF Pointed
    <3>4. SameInTempo(p, v) /\ v.tempo = NextDate(p.tempo)
      BY <2>3, <3>1, <3>2 DEF SameInTempo, SameButKernel
    <3> HIDE DEF q
    <3>5. /\ v \in Players /\ Pointed(v) /\ SameInTempo(p, v) /\ v.tempo = NextDate(p.tempo)
          /\ Exact(p, "play") => Exact(v, "play")
          /\ Cardinality(Cell) > 1 /\ p.fTask["play"] # NULL => v.fTask["play"] # NULL
      BY <3>1, <3>2, <3>3, <3>4
    <3> QED
      BY <3>5
  <2>6. ASSUME Tempo[Base(u)] = Tempo[Base(p)]
        PROVE
          /\ v \in Players /\ Pointed(v) /\ SameInTempo(p, v) /\ v.tempo = NextDate(p.tempo)
          /\ Exact(p, "play") => Exact(v, "play")
          /\ Cardinality(Cell) > 1 /\ p.fTask["play"] # NULL => v.fTask["play"] # NULL
    <3>1. v = u
      BY <2>6
    <3> HIDE DEF v
    <3>2. p.date["play"] \in Nat /\ Base(p) \in Date
      BY <2>0, Fields, BaseType DEF Date
    <3>3. ToMs(Base(u), p.date["play"]) = ToMs(Base(p), p.date["play"])
      <4>1. CASE Base(u) = Base(p)
        BY <4>1
      <4>2. CASE Base(u) # Base(p)
        <5>1. Base(u) = Base(p) + 1 /\ Base(p) < End
          BY <1>3, <2>3, <4>2, NextBase
        <5> QED
          BY <2>6, <3>2, <5>1, ToMsSame
      <4> QED
        BY <4>1, <4>2
    <3>4. Left(u, "play") = Left(p, "play")
      BY <2>0, <2>3, <3>3, LeftIs DEF SameInTempo
    <3>5. Exact(p, "play") => Exact(u, "play")
      BY <2>3, <3>4 DEF Exact
    <3> QED
      BY <2>3, <2>4, <3>1, <3>5
  <2>7. /\ v \in Players /\ Pointed(v) /\ SameInTempo(p, v) /\ v.tempo = NextDate(p.tempo)
        /\ Exact(p, "play") => Exact(v, "play")
        /\ Cardinality(Cell) > 1 /\ p.fTask["play"] # NULL => v.fTask["play"] # NULL
    BY <2>5, <2>6
  <2> HIDE DEF v
  <2>8. v.state = "playing" /\ v.tempo.cur \in Date
    BY <2>2, <2>7, AnIterator DEF SameInTempo
  <2>9. /\ q \in Players /\ Pointed(q) /\ SameButKernel(v, q)
        /\ q.status["tempo"] = "running" /\ q.date["tempo"] = v.tempo.cur
        /\ SameTask(v, q, "play")
        /\ Exact(q, "tempo") /\ (Cardinality(Cell) > 1 => q.fTask["tempo"] # NULL)
    BY <2>0, <2>7, <2>8, ScheduleTickTaskIs
  <2> HIDE DEF q
  <2>10. SameInTempo(p, q) /\ q.tempo = v.tempo
    BY <2>7, <2>9 DEF SameInTempo, SameButKernel, SameTask
  <2>11. Left(q, "play") = Left(v, "play")
    BY <2>9 DEF Left, ConvertTickToMs, Base, SameButKernel, SameTask
  <2>12. Exact(v, "play") => Exact(q, "play")
    BY <2>9, <2>11 DEF Exact, SameTask
  <2>13. v.fTask["play"] # NULL => q.fTask["play"] # NULL
    BY <2>9 DEF SameTask
  <2> QED
    BY <1>3, <2>1, <2>7, <2>9, <2>10, <2>12, <2>13
<1> QED
  BY <1>1, <1>2, <1>3

(***************************************************************************)
(* A task of the kernel falls due.                                         *)
(***************************************************************************)
Detached(p, x) ==
  LET t == p.kernel[x].task
      q == [p EXCEPT !.kernel[x] = NULL]
  IN Clear([q EXCEPT !.table = @ \ {t}, !.status[t] = "idle"], t)

LEMMA DetachedIs ==
  ASSUME NEW p \in Players, Pointed(p), NEW x \in Cell, p.kernel[x] # NULL
  PROVE  LET q == Detached(p, x)
             t == p.kernel[x].task IN
         /\ q \in Players /\ Pointed(q) /\ SameButKernel(p, q)
         /\ t \in TicksTask /\ p.fTask[t] = x
         /\ q.status[t] = "idle" /\ q.fTask[t] = NULL /\ q.date[t] = p.date[t]
         /\ \A u \in TicksTask \ {t} : SameTask(p, q, u)
<1> DEFINE t == p.kernel[x].task
           q == Detached(p, x)
<1>1. t \in TicksTask /\ p.fTask[t] = x
  BY Fields, ATask DEF Pointed
<1> HIDE DEF t
<1>2. q = [p EXCEPT !.kernel[x] = NULL, !.table = @ \ {t}, !.status[t] = "idle",
                    !.fTask[t] = NULL]
  BY DEF Detached, Clear, Players, t
<1>3. /\ q.kernel = [p.kernel EXCEPT ![x] = NULL] /\ q.table = p.table \ {t}
      /\ q.status = [p.status EXCEPT ![t] = "idle"] /\ q.fTask = [p.fTask EXCEPT ![t] = NULL]
      /\ q.date = p.date /\ SameButKernel(p, q)
  BY <1>2 DEF Players, SameButKernel
<1> HIDE DEF q
<1>4. q \in Players
  <2> DEFINE K == [p.kernel EXCEPT ![x] = NULL]
             T == p.table \ {t}
             S == [p.status EXCEPT ![t] = "idle"]
             F == [p.fTask EXCEPT ![t] = NULL]
  <2>1. q = [p EXCEPT !.kernel = K, !.table = T, !.status = S, !.fTask = F]
    BY <1>2 DEF Players
  <2>2. /\ K \in [Cell -> KernelTasks \cup {NULL}] /\ T \in SUBSET TicksTask
        /\ S \in [TicksTask -> {"idle", "running", "forget"}]
        /\ F \in [TicksTask -> Cell \cup {NULL}]
    BY Fields
  <2> HIDE DEF K, T, S, F
  <2> QED
    BY <2>1, <2>2 DEF Players
<1>5. /\ \A u \in TicksTask : q.fTask[u] = IF u = t THEN NULL ELSE p.fTask[u]
      /\ \A u \in TicksTask : q.status[u] = IF u = t THEN "idle" ELSE p.status[u]
      /\ \A y \in Cell : q.kernel[y] = IF y = x THEN NULL ELSE p.kernel[y]
  BY <1>3, Fields
<1>6. \A u \in TicksTask \ {t} : p.fTask[u] # x
  BY <1>1, PlayerAssumption DEF Pointed, t
<1>7. Pointed(q)
  <2>1. ASSUME NEW u \in TicksTask, q.fTask[u] # NULL
        PROVE  q.kernel[q.fTask[u]] # NULL /\ q.kernel[q.fTask[u]].task = u
    <3>1. u # t /\ q.fTask[u] = p.fTask[u] /\ p.fTask[u] \in Cell /\ p.fTask[u] # x
      BY <1>5, <1>6, <2>1, Fields
    <3> QED
      BY <1>5, <2>1, <3>1 DEF Pointed
  <2>2. ASSUME NEW y \in Cell, q.kernel[y] # NULL PROVE q.fTask[q.kernel[y].task] = y
    <3>1. y # x /\ q.kernel[y] = p.kernel[y] /\ p.kernel[y] # NULL
      BY <1>5, <2>2
    <3>2. p.kernel[y].task \in TicksTask /\ p.fTask[p.kernel[y].task] = y
      BY <3>1, Fields, ATask DEF Pointed
    <3>3. p.kernel[y].task # t
      BY <1>1, <3>1, <3>2
    <3> QED
      BY <1>5, <3>1, <3>2, <3>3
  <2>3. \A u \in TicksTask : q.status[u] = "idle" <=> u \notin q.table
    BY <1>3, <1>5 DEF Pointed
  <2>4. \A u \in TicksTask : q.status[u] = "idle" => q.fTask[u] = NULL
    BY <1>5 DEF Pointed
  <2> QED
    BY <2>1, <2>2, <2>3, <2>4 DEF Pointed
<1>8. ASSUME NEW u \in TicksTask \ {t} PROVE SameTask(p, q, u)
  <2>1. p.fTask[u] # NULL => p.fTask[u] \in Cell /\ p.fTask[u] # x
    BY <1>6, Fields
  <2> QED
    BY <1>3, <1>5, <2>1 DEF SameTask
<1> QED
  BY <1>1, <1>3, <1>4, <1>5, <1>7, <1>8 DEF q, t

LEMMA ExactSame ==
  ASSUME NEW p, NEW q, NEW t, SameTask(p, q, t), q.tempo = p.tempo, q.elapsed = p.elapsed,
         Exact(p, t)
  PROVE  Exact(q, t)
<1>1. Left(q, t) = Left(p, t)
  BY DEF Left, ConvertTickToMs, Base, SameTask
<1> QED
  BY <1>1 DEF Exact, SameTask

LEMMA FollowedSame ==
  ASSUME NEW p, NEW q, SameTask(p, q, "tempo"), q.tempo = p.tempo, q.elapsed = p.elapsed,
         q.state = p.state, Followed(p)
  PROVE  Followed(q)
<1>1. CASE q.status["tempo"] # "running"
  BY <1>1 DEF Followed
<1>2. CASE q.status["tempo"] = "running"
  <2>1. /\ p.status["tempo"] = "running" /\ p.state = "playing"
        /\ p.date["tempo"] = p.tempo.cur /\ Exact(p, "tempo")
    BY <1>2 DEF Followed, SameTask
  <2>2. Exact(q, "tempo")
    BY <2>1, ExactSame
  <2> QED
    BY <2>1, <2>2 DEF Followed, SameTask
<1> QED
  BY <1>1, <1>2

\* What a task that was forgotten does, the slice of the tick player, and that
\* of the synchroniser.
Forgot(p, q, t) ==
  /\ p.status[t] = "forget" /\ q.status[t] = "idle" /\ q.fTask[t] = NULL
  /\ q.date[t] = p.date[t] /\ SameButKernel(p, q)
  /\ \A u \in TicksTask \ {t} : SameTask(p, q, u)

PlayedOn(p, q) ==
  /\ p.status["play"] = "running" /\ SameInPlay(p, q) /\ q.play = NextDate(p.play)
  /\ p.play.last => Heard(p, q, End) /\ q.status["play"] = "idle" /\ q.fTask["play"] = NULL
  /\ ~p.play.last =>
       /\ p.play.date = p.play.cur => Heard(p, q, p.play.cur)
       /\ p.play.date # p.play.cur => SameHeard(p, q)
       /\ q.status["play"] = "running" /\ q.date["play"] = q.play.cur
       /\ p.state = "playing" =>
            Exact(q, "play") /\ (Cardinality(Cell) > 1 => q.fTask["play"] # NULL)
       /\ p.state # "playing" => q.fTask["play"] = NULL

FollowedOn(p, q) ==
  /\ p.status["tempo"] = "running" /\ SameInTempo(p, q) /\ q.tempo = NextDate(p.tempo)
  /\ p.tempo.last => q.status["tempo"] = "idle"
  /\ ~p.tempo.last =>
       /\ q.status["tempo"] = "running" /\ q.date["tempo"] = q.tempo.cur
       /\ Exact(q, "tempo") /\ (Cardinality(Cell) > 1 => q.fTask["tempo"] # NULL)
  /\ Exact(p, "play") => Exact(q, "play")
  /\ Cardinality(Cell) > 1 /\ p.fTask["play"] # NULL => q.fTask["play"] # NULL

After(p, x) == ExecuteTaskInt([p EXCEPT !.kernel[x] = NULL], p.kernel[x].task)

LEMMA ExecuteIs ==
  ASSUME NEW p \in Players, Pointed(p), p.left \subseteq p.sound, Followed(p),
         NEW x \in Cell, p.kernel[x] # NULL
  PROVE  LET t == p.kernel[x].task
             q == After(p, x) IN
         /\ t \in TicksTask /\ p.fTask[t] = x
         /\ q \in Players /\ Pointed(q) /\ q.left \subseteq q.sound
         /\ \/ Forgot(p, q, t)
            \/ t = "play" /\ PlayedOn(p, q)
            \/ t = "tempo" /\ FollowedOn(p, q)
<1> DEFINE t == p.kernel[x].task
           d == Detached(p, x)
           q == After(p, x)
<1>1. q = IF p.status[t] = "running" THEN Execute(d, t) ELSE d
  <2>1. [p EXCEPT !.kernel[x] = NULL].status = p.status
    BY DEF Players
  <2> QED
    BY <2>1 DEF After, ExecuteTaskInt, Detached
<1>2. /\ d \in Players /\ Pointed(d) /\ SameButKernel(p, d)
      /\ t \in TicksTask /\ p.fTask[t] = x
      /\ d.status[t] = "idle" /\ d.fTask[t] = NULL /\ d.date[t] = p.date[t]
      /\ \A u \in TicksTask \ {t} : SameTask(p, d, u)
  BY DetachedIs
<1> HIDE DEF t, d, q
<1>3. p.status[t] \in {"running", "forget"}
  BY <1>2, PlayerAssumption, Fields DEF Pointed
<1>4. d.left \subseteq d.sound
  BY <1>2 DEF SameButKernel
<1>5. CASE p.status[t] = "forget"
  <2>1. q = d
    BY <1>1, <1>5
  <2>2. Forgot(p, q, t)
    BY <1>2, <1>5, <2>1 DEF Forgot
  <2> QED
    BY <1>2, <1>4, <2>1, <2>2 DEF q, t
<1>6. CASE p.status[t] = "running" /\ t = "play"
  <2>1. q = PlaySlice(d)
    BY <1>1, <1>6 DEF Execute
  <2>2. /\ q \in Players /\ Pointed(q) /\ q.left \subseteq q.sound /\ SameInPlay(d, q)
        /\ q.play = NextDate(d.play)
        /\ d.play.last => Heard(d, q, End) /\ q.status = d.status /\ q.fTask = d.fTask
        /\ ~d.play.last =>
             /\ d.play.date = d.play.cur => Heard(d, q, d.play.cur)
             /\ d.play.date # d.play.cur => SameHeard(d, q)
             /\ q.status["play"] = "running" /\ q.date["play"] = q.play.cur
             /\ d.state = "playing" =>
                  Exact(q, "play") /\ (Cardinality(Cell) > 1 => q.fTask["play"] # NULL)
             /\ d.state # "playing" => q.fTask = d.fTask /\ q.kernel = d.kernel
    BY <1>2, <1>4, <2>1, PlaySliceIs
  <2>3. SameTask(p, d, "tempo")
    BY <1>2, <1>6 DEF TicksTask
  <2>4. SameInPlay(p, q)
    BY <1>2, <2>2, <2>3, SameTaskTwice DEF SameInPlay, SameButKernel
  <2>5. /\ \A e : Heard(d, q, e) => Heard(p, q, e)
        /\ SameHeard(d, q) => SameHeard(p, q)
        /\ d.play = p.play /\ d.state = p.state
    BY <1>2 DEF SameButKernel, Heard, SameHeard
  <2>6. d.status["play"] = "idle" /\ d.fTask["play"] = NULL
    BY <1>2, <1>6
  <2>7. PlayedOn(p, q)
    BY <1>6, <2>2, <2>4, <2>5, <2>6 DEF PlayedOn
  <2> QED
    BY <1>2, <1>6, <2>2, <2>7 DEF q, t
<1>7. CASE p.status[t] = "running" /\ t = "tempo"
  <2>1. q = TempoSlice(d)
    BY <1>1, <1>7 DEF Execute
  <2>2. d.state = "playing" /\ d.status["tempo"] = "idle"
    BY <1>2, <1>7 DEF Followed, SameButKernel
  <2>3. /\ q \in Players /\ Pointed(q) /\ SameInTempo(d, q)
        /\ q.tempo = NextDate(d.tempo)
        /\ d.tempo.last => q = d
        /\ ~d.tempo.last =>
             /\ q.status["tempo"] = "running" /\ q.date["tempo"] = q.tempo.cur
             /\ Exact(q, "tempo") /\ (Cardinality(Cell) > 1 => q.fTask["tempo"] # NULL)
        /\ Exact(d, "play") => Exact(q, "play")
        /\ Cardinality(Cell) > 1 /\ d.fTask["play"] # NULL => q.fTask["play"] # NULL
    BY <1>2, <2>1, <2>2, TempoSliceIs
  <2>4. SameTask(p, d, "play")
    BY <1>2, <1>7 DEF TicksTask
  <2>5. SameInTempo(p, q)
    BY <1>2, <2>3, <2>4 DEF SameInTempo, SameButKernel, SameTask
  <2>6. Exact(p, "play") => Exact(d, "play")
    BY <1>2, <2>4, ExactSame DEF SameButKernel
  <2>7. d.tempo = p.tempo /\ d.fTask["play"] = p.fTask["play"]
    BY <1>2, <2>4 DEF SameButKernel, SameTask
  <2>8. FollowedOn(p, q)
    BY <1>7, <2>2, <2>3, <2>5, <2>6, <2>7 DEF FollowedOn
  <2>9. q.left \subseteq q.sound
    BY <1>4, <2>3 DEF SameInTempo
  <2> QED
    BY <1>2, <1>7, <2>3, <2>8, <2>9 DEF q, t
<1> QED
  BY <1>2, <1>3, <1>5, <1>6, <1>7 DEF TicksTask

LEMMA SameBase ==
  ASSUME NEW p, NEW q, q.tempo = p.tempo
  PROVE  Base(q) = Base(p)
BY DEF Base

\* The tempo event that is met next, and where its date is by the tempo of now.
LEMMA Ahead ==
  ASSUME NEW p \in Players, ~p.tempo.last
  PROVE  /\ Base(p) \in Date /\ p.tempo.cur \in Date
         /\ Base(p) <= p.tempo.cur /\ p.tempo.cur <= Base(p) + 1
         /\ Base(p) < End /\ Base(p) + 1 \in Date
         /\ ToMs(Base(p), p.tempo.cur) = Ms[p.tempo.cur]
<1>1. p.tempo \in Iterators /\ p.tempo.cur \in Date /\ p.tempo.cur \in Nat
      /\ p.tempo.cur <= End /\ End \in Nat /\ End > 0
  BY Fields, AnIterator, Positive DEF Date
<1>2. Base(p) \in Date /\ Base(p) = IF p.tempo.cur = 0 THEN 0 ELSE p.tempo.cur - 1
  BY BaseType
<1>3. /\ Base(p) \in Nat /\ Base(p) <= p.tempo.cur /\ p.tempo.cur <= Base(p) + 1
      /\ Base(p) < End
  BY <1>1, <1>2
<1>4. Base(p) + 1 \in Date
  BY <1>2, <1>3, MsNext
<1>5. CASE p.tempo.cur = 0
  <2>1. Base(p) = p.tempo.cur
    BY <1>2, <1>5
  <2> QED
    BY <1>1, <1>2, <1>3, <1>4, <2>1, ToMsHere
<1>6. CASE p.tempo.cur # 0
  <2>1. p.tempo.cur = Base(p) + 1
    BY <1>1, <1>2, <1>6
  <2> QED
    BY <1>1, <1>2, <1>3, <1>4, <2>1, ToMsNext
<1> QED
  BY <1>5, <1>6

LEMMA InTime ==
  ASSUME NEW p \in Players, NeverLate(p), Begun(p), p.state = "playing", NEW d \in Date,
         ToMs(Base(p), d) <= p.elapsed
  PROVE  Ms[d] <= p.elapsed
<1>1. p.elapsed \in Nat /\ Base(p) \in Date /\ Ms[Base(p)] <= p.elapsed /\ p.tempo.last \in BOOLEAN
  BY Fields, AnIterator, BaseType DEF Begun
<1>2. CASE p.tempo.last
  BY <1>1, <1>2, BaseType, ComesInTime
<1>3. CASE ~p.tempo.last
  <2>1. p.elapsed <= Ms[p.tempo.cur]
    BY <1>3 DEF NeverLate
  <2>2. /\ p.tempo.cur \in Date /\ Base(p) + 1 \in Date /\ p.tempo.cur <= Base(p) + 1
    BY <1>3, Ahead
  <2>3. Ms[p.tempo.cur] <= Ms[Base(p) + 1] /\ Ms[p.tempo.cur] \in Nat /\ Ms[Base(p) + 1] \in Nat
    BY <2>2, MsGrows, MsType
  <2>4. p.elapsed <= Ms[Base(p) + 1]
    BY <1>1, <2>1, <2>3
  <2> QED
    BY <1>1, <2>4, ComesInTime
<1> QED
  BY <1>1, <1>2, <1>3

\* The date of a task that falls due has come, by the tempo of now.
LEMMA DueIs ==
  ASSUME NEW p \in Players, NEW t \in TicksTask, p.fTask[t] # NULL, Exact(p, t),
         p.kernel[p.fTask[t]].left = 0
  PROVE  ToMs(Base(p), p.date[t]) <= p.elapsed
<1>1. Left(p, t) = 0
  BY DEF Exact
<1>2. /\ ToMs(Base(p), p.date[t]) \in Int /\ p.elapsed \in Nat
      /\ Left(p, t) = IF ToMs(Base(p), p.date[t]) - p.elapsed < 0 THEN 0
                      ELSE ToMs(Base(p), p.date[t]) - p.elapsed
  BY LeftIs, Fields
<1> QED
  BY <1>1, <1>2

Due(p, x) == x \in Cell /\ p.kernel[x] # NULL /\ p.kernel[x].left = 0

LEMMA ExecuteFollowed ==
  ASSUME NEW p, Sane(p), NEW x, Due(p, x)
  PROVE  Followed(After(p, x))
<1> DEFINE t == p.kernel[x].task
           q == After(p, x)
<1>1. /\ p \in Players /\ p.left \subseteq p.sound /\ Pointed(p) /\ Followed(p)
      /\ x \in Cell /\ p.kernel[x] # NULL
  BY DEF Sane, Due
<1>2. /\ t \in TicksTask /\ p.fTask[t] = x
      /\ \/ Forgot(p, q, t)
         \/ t = "play" /\ PlayedOn(p, q)
         \/ t = "tempo" /\ FollowedOn(p, q)
  BY <1>1, ExecuteIs
<1> SUFFICES Followed(q)
  BY DEF q
<1> HIDE DEF t, q
<1>3. CASE Forgot(p, q, t)
  <2>1. CASE t = "tempo"
    BY <1>3, <2>1 DEF Forgot, Followed
  <2>2. CASE t = "play"
    <3>1. SameTask(p, q, "tempo")
      BY <1>3, <2>2 DEF Forgot, TicksTask
    <3> QED
      BY <1>1, <1>3, <3>1, FollowedSame DEF Forgot, SameButKernel
  <2> QED
    BY <1>2, <2>1, <2>2 DEF TicksTask
<1>4. CASE PlayedOn(p, q)
  BY <1>1, <1>4, FollowedSame DEF PlayedOn, SameInPlay
<1>5. CASE FollowedOn(p, q)
  <2>1. p.state = "playing" /\ q.state = "playing" /\ p.tempo.last \in BOOLEAN
    BY <1>1, <1>5, Fields, AnIterator DEF FollowedOn, SameInTempo, Followed
  <2> QED
    BY <1>5, <2>1 DEF FollowedOn, Followed
<1> QED
  BY <1>2, <1>3, <1>4, <1>5

LEMMA ExecuteSane ==
  ASSUME NEW p, Sane(p), NEW x, Due(p, x)
  PROVE  Sane(After(p, x)) /\ After(p, x).state = p.state
<1> DEFINE t == p.kernel[x].task
           q == After(p, x)
<1>1. /\ p \in Players /\ p.left \subseteq p.sound /\ Pointed(p) /\ Followed(p)
      /\ x \in Cell /\ p.kernel[x] # NULL /\ Met(p.chase)
      /\ p.state # "playing" => p.elapsed = 0
  BY DEF Sane, Due
<1>2. /\ q \in Players /\ Pointed(q) /\ q.left \subseteq q.sound
      /\ \/ Forgot(p, q, t)
         \/ t = "play" /\ PlayedOn(p, q)
         \/ t = "tempo" /\ FollowedOn(p, q)
  BY <1>1, ExecuteIs
<1>3. Followed(q)
  BY ExecuteFollowed
<1> HIDE DEF t, q
<1>4. q.chase = p.chase /\ q.state = p.state /\ q.elapsed = p.elapsed
  BY <1>2 DEF Forgot, PlayedOn, FollowedOn, SameButKernel, SameInPlay, SameInTempo
<1> QED
  BY <1>1, <1>2, <1>3, <1>4 DEF Sane, q

LEMMA ExecuteLate ==
  ASSUME Cardinality(Cell) > 1, NEW p, Sane(p), NeverLate(p), NEW x, Due(p, x)
  PROVE  NeverLate(After(p, x))
<1> DEFINE t == p.kernel[x].task
           q == After(p, x)
<1>1. /\ p \in Players /\ p.left \subseteq p.sound /\ Pointed(p) /\ Followed(p)
      /\ x \in Cell /\ p.kernel[x] # NULL
  BY DEF Sane, Due
<1>2. /\ t \in TicksTask /\ p.fTask[t] = x /\ q \in Players
      /\ \/ Forgot(p, q, t)
         \/ t = "play" /\ PlayedOn(p, q)
         \/ t = "tempo" /\ FollowedOn(p, q)
  BY <1>1, ExecuteIs
<1> SUFFICES NeverLate(q)
  BY DEF q
<1> HIDE DEF t, q
<1>3. CASE Forgot(p, q, t)
  <2>1. CASE t = "tempo"
    BY <1>3, <2>1 DEF Forgot, NeverLate, SameButKernel
  <2>2. CASE t = "play"
    <3>1. SameTask(p, q, "tempo")
      BY <1>3, <2>2 DEF Forgot, TicksTask
    <3> QED
      BY <1>3, <3>1 DEF Forgot, NeverLate, SameButKernel, SameTask
  <2> QED
    BY <1>2, <2>1, <2>2 DEF TicksTask
<1>4. CASE PlayedOn(p, q)
  BY <1>4 DEF PlayedOn, SameInPlay, SameTask, NeverLate
<1>5. CASE FollowedOn(p, q)
  <2> SUFFICES ASSUME q.state = "playing", ~q.tempo.last
               PROVE  /\ q.status["tempo"] = "running" /\ q.fTask["tempo"] # NULL
                      /\ q.elapsed <= Ms[q.tempo.cur]
    BY DEF NeverLate
  <2>1. /\ p.state = "playing" /\ q.elapsed = p.elapsed /\ q.tempo = NextDate(p.tempo)
    BY <1>5 DEF FollowedOn, SameInTempo
  <2>2. p.tempo \in Iterators /\ p.tempo.last \in BOOLEAN /\ p.tempo.cur \in Date
        /\ q.tempo.cur \in Date /\ p.tempo.cur \in Int /\ q.tempo.cur \in Int
    BY <1>1, <1>2, Fields, AnIterator, Positive DEF Date
  <2>3. ~p.tempo.last /\ p.tempo.cur <= q.tempo.cur
    BY <2>1, <2>2, NextDateIs
  <2>4. p.elapsed <= Ms[p.tempo.cur] /\ p.elapsed \in Nat
    BY <1>1, <2>1, <2>3, Fields DEF NeverLate
  <2>5. Ms[p.tempo.cur] <= Ms[q.tempo.cur] /\ Ms[p.tempo.cur] \in Nat /\ Ms[q.tempo.cur] \in Nat
    BY <2>2, <2>3, MsGrows, MsType
  <2> QED
    BY <1>5, <2>1, <2>3, <2>4, <2>5 DEF FollowedOn
<1> QED
  BY <1>2, <1>3, <1>4, <1>5

LEMMA ExecuteBegun ==
  ASSUME NEW p, Sane(p), Begun(p), NEW x, Due(p, x)
  PROVE  Begun(After(p, x))
<1> DEFINE t == p.kernel[x].task
           q == After(p, x)
<1>1. /\ p \in Players /\ p.left \subseteq p.sound /\ Pointed(p) /\ Followed(p)
      /\ x \in Cell /\ p.kernel[x] # NULL /\ p.kernel[x].left = 0
  BY DEF Sane, Due
<1>2. /\ t \in TicksTask /\ p.fTask[t] = x /\ q \in Players
      /\ \/ Forgot(p, q, t)
         \/ t = "play" /\ PlayedOn(p, q)
         \/ t = "tempo" /\ FollowedOn(p, q)
  BY <1>1, ExecuteIs
<1> SUFFICES Begun(q)
  BY DEF q
<1> HIDE DEF t, q
<1>3. CASE Forgot(p, q, t)
  BY <1>3, SameBase DEF Forgot, SameButKernel, Begun
<1>4. CASE PlayedOn(p, q)
  BY <1>4, SameBase DEF PlayedOn, SameInPlay, Begun
<1>5. CASE t = "tempo" /\ FollowedOn(p, q)
  <2>1. /\ p.state = "playing" /\ q.elapsed = p.elapsed /\ q.tempo = NextDate(p.tempo)
        /\ p.date["tempo"] = p.tempo.cur /\ Exact(p, "tempo")
    BY <1>1, <1>5 DEF FollowedOn, SameInTempo, Followed
  <2>2. Ms[Base(p)] <= p.elapsed /\ p.tempo \in Iterators /\ p.tempo.last \in BOOLEAN
    BY <1>1, <2>1, Fields, AnIterator DEF Begun
  <2>3. CASE p.tempo.last
    <3>1. q.tempo = p.tempo
      BY <2>1, <2>2, <2>3, NextDateIs
    <3> QED
      BY <2>1, <2>2, <3>1, SameBase DEF Begun
  <2>4. CASE ~p.tempo.last
    <3>1. ToMs(Base(p), p.tempo.cur) <= p.elapsed
      BY <1>1, <1>2, <1>5, <2>1, DueIs, PlayerAssumption
    <3>2. Ms[p.tempo.cur] <= p.elapsed
      BY <1>1, <2>4, <3>1, Ahead
    <3>3. Base(q) = Base(p) \/ Base(q) = p.tempo.cur
      BY <1>1, <1>2, <2>1, <2>4, NextBase
    <3> QED
      BY <2>1, <2>2, <3>2, <3>3 DEF Begun
  <2> QED
    BY <2>2, <2>3, <2>4
<1> QED
  BY <1>2, <1>3, <1>4, <1>5

\* The events that have just been played were due.
LEMMA PlaySeen ==
  ASSUME NEW p \in Players, NEW q, PlayedOn(p, q), Seen(p), Ms[p.play.cur] <= p.elapsed
  PROVE  Seen(q)
<1>1. /\ p.play \in Iterators /\ p.play.cur \in Date /\ p.play.last \in BOOLEAN
      /\ p.elapsed \in Nat /\ q.elapsed = p.elapsed /\ q.play = NextDate(p.play)
      /\ End \in Date /\ End \in Nat /\ p.play.cur \in Nat
  BY Fields, AnIterator, Positive DEF PlayedOn, SameInPlay, Date
<1>2. CASE p.play.last
  BY <1>1, <1>2, NextDateIs DEF Seen
<1>3. CASE ~p.play.last
  <2>1. q.play \in Iterators /\ q.play.cur \in Date /\ q.play.cur \in Nat
    BY <1>1, NextDateIs, AnIterator DEF Date
  <2>2. /\ q.play.cur <= p.play.cur + 1
        /\ q.play.last => p.play.cur = End
    BY <1>1, <1>3, NextDateIs
  <2>3. ASSUME NEW d \in Date, d < q.play.cur PROVE Ms[d] <= q.elapsed
    <3>1. d \in Nat /\ d <= p.play.cur
      BY <1>1, <2>1, <2>2, <2>3 DEF Date
    <3>2. Ms[d] <= Ms[p.play.cur] /\ Ms[d] \in Nat /\ Ms[p.play.cur] \in Nat
      BY <1>1, <3>1, MsGrows, MsType
    <3> QED
      BY <1>1, <3>2
  <2>4. q.play.last => Ms[End] <= q.elapsed
    BY <1>1, <2>2
  <2> QED
    BY <2>3, <2>4 DEF Seen
<1> QED
  BY <1>1, <1>2, <1>3

LEMMA DuePlay ==
  ASSUME NEW p \in Players, NeverLate(p), Begun(p), p.state = "playing",
         p.fTask["play"] # NULL, p.kernel[p.fTask["play"]].left = 0, Waits(p)
  PROVE  Ms[p.play.cur] <= p.elapsed
<1>1. p.play.cur \in Date /\ "play" \in TicksTask
  BY Fields, AnIterator DEF TicksTask
<1>2. ToMs(Base(p), p.play.cur) <= p.elapsed
  BY <1>1, DueIs DEF Waits
<1> QED
  BY <1>1, <1>2, InTime

LEMMA WaitsSame ==
  ASSUME NEW p, NEW q, q.play = p.play, q.date["play"] = p.date["play"],
         Exact(p, "play") => Exact(q, "play"), Waits(p)
  PROVE  Waits(q)
BY DEF Waits

\* A task that was forgotten, or that of the synchroniser, leaves it as it is.
LEMMA ExecuteOther ==
  ASSUME NEW p \in Players, NEW q, NEW t \in TicksTask, Forgot(p, q, t) \/ FollowedOn(p, q)
  PROVE  /\ q.play = p.play /\ q.elapsed = p.elapsed /\ q.state = p.state
         /\ q.rcv = p.rcv /\ q.date["play"] = p.date["play"] /\ (Exact(p, "play") => Exact(q, "play"))
         /\ q.sound = p.sound /\ q.left = p.left /\ q.prog = p.prog
         /\ NotRunning(p) => NotRunning(q)
         /\ q.status["play"] = "running" => p.status["play"] = "running"
         /\ p.fTask["play"] = NULL /\ Forgot(p, q, t) => q.fTask["play"] = NULL
         /\ p.status["play"] = "running" /\ p.fTask["play"] # NULL /\ Cardinality(Cell) > 1
              => q.status["play"] = "running" /\ q.fTask["play"] # NULL
<1>1. CASE Forgot(p, q, t)
  <2>1. SameButKernel(p, q)
    BY <1>1 DEF Forgot
  <2>2. CASE t = "play"
    <3>1. /\ p.status["play"] = "forget" /\ q.status["play"] = "idle"
          /\ q.fTask["play"] = NULL /\ q.date["play"] = p.date["play"]
      BY <1>1, <2>2 DEF Forgot
    <3> QED
      BY <2>1, <3>1 DEF SameButKernel, NotRunning, Exact
  <2>3. CASE t = "tempo"
    <3>1. SameTask(p, q, "play")
      BY <1>1, <2>3 DEF Forgot, TicksTask
    <3>2. Exact(p, "play") => Exact(q, "play")
      BY <2>1, <3>1, ExactSame DEF SameButKernel
    <3> QED
      BY <2>1, <3>1, <3>2 DEF SameButKernel, SameTask, NotRunning
  <2> QED
    BY <2>2, <2>3 DEF TicksTask
<1>2. CASE FollowedOn(p, q) /\ ~Forgot(p, q, t)
  BY <1>2 DEF FollowedOn, SameInTempo, NotRunning
<1> QED
  BY <1>1, <1>2

\* The first events of the score.
LEMMA FromFirst ==
  /\ First \in Iterators /\ First.cur = 0 /\ First.date = 0 /\ ~First.last
  /\ NextDate(First).cur = 1 /\ ~NextDate(First).last
<1>1. First \in Iterators /\ First.cur = 0 /\ First.date = 0 /\ ~First.last
  BY Positive DEF First, Iterators, Date
<1> QED
  BY <1>1, NextDateIs, Positive

LEMMA HasSame ==
  ASSUME NEW p, NEW q, q.rcv = p.rcv, NEW e
  PROVE  Has(q, e) <=> Has(p, e)
BY DEF Has

LEMMA HasConcat ==
  ASSUME NEW p \in Players, NEW q, NEW d, q.rcv = p.rcv \o Marks(d), NEW e
  PROVE  Has(q, e) <=> Has(p, e) \/ (d = LoopMarker /\ e = "loop") \/ (d = End /\ e = "end")
<1> DEFINE m == Marks(d)
<1>1. /\ p.rcv \in Seq({"end", "loop"}) /\ m \in Seq({"end", "loop"})
  BY Fields, MarksType
<1>2. (\E i \in 1..Len(m) : m[i] = e) <=> (d = LoopMarker /\ e = "loop") \/ (d = End /\ e = "end")
  <2>1. CASE d = LoopMarker /\ d = End
    <3>1. m = <<"loop">> \o <<"end">>
      BY <2>1 DEF Marks
    <3> DEFINE S == {"end", "loop"}
               a == <<"loop">>
               b == <<"end">>
    <3>2. a \in Seq(S) /\ b \in Seq(S) /\ Len(a) = 1 /\ Len(b) = 1 /\ a[1] = "loop" /\ b[1] = "end"
      OBVIOUS
    <3>4. m = a \o b
      BY <3>1
    <3> HIDE DEF m, a, b
    <3>3. Len(m) = 2 /\ m[1] = "loop" /\ m[2] = "end"
      <4> HIDE DEF S
      <4>1. /\ Len(a \o b) = Len(a) + Len(b)
            /\ \A i \in 1..(Len(a) + Len(b)) :
                 (a \o b)[i] = IF i <= Len(a) THEN a[i] ELSE b[i - Len(a)]
        BY <3>2, ConcatProperties
      <4> QED
        BY <3>2, <3>4, <4>1
    <3> QED
      BY <2>1, <3>3
  <2>2. CASE d = LoopMarker /\ d # End
    <3>1. m = <<"loop">>
      BY <2>2 DEF Marks
    <3> HIDE DEF m
    <3> QED
      BY <2>2, <3>1
  <2>3. CASE d # LoopMarker /\ d = End
    <3>1. m = <<"end">>
      BY <2>3 DEF Marks
    <3> HIDE DEF m
    <3> QED
      BY <2>3, <3>1
  <2>4. CASE d # LoopMarker /\ d # End
    <3>1. m = <<>>
      BY <2>4 DEF Marks
    <3> HIDE DEF m
    <3> QED
      BY <2>4, <3>1
  <2> QED
    BY <2>1, <2>2, <2>3, <2>4
<1> HIDE DEF m
<1> DEFINE r == p.rcv
           n == Len(r)
<1>3. /\ n \in Nat /\ Len(m) \in Nat /\ Len(q.rcv) = n + Len(m)
      /\ \A i \in 1..n : q.rcv[i] = r[i]
      /\ \A i \in 1..Len(m) : q.rcv[n + i] = m[i]
  BY <1>1 DEF m
<1> HIDE DEF r, n
<1>4. ASSUME Has(q, e) PROVE (\E i \in 1..n : r[i] = e) \/ (\E i \in 1..Len(m) : m[i] = e)
  <2>1. PICK i \in 1..Len(q.rcv) : q.rcv[i] = e
    BY <1>4 DEF Has
  <2>2. CASE i <= n
    BY <1>3, <2>1, <2>2
  <2>3. CASE i > n
    <3>1. i - n \in 1..Len(m) /\ n + (i - n) = i
      BY <1>3, <2>1, <2>3
    <3>2. q.rcv[n + (i - n)] = m[i - n]
      BY <1>3, <3>1
    <3> QED
      BY <2>1, <3>1, <3>2
  <2>4. n \in Int /\ i \in Int
    BY <1>3
  <2>5. i <= n \/ i > n
    BY <2>4
  <2> QED
    BY <2>2, <2>3, <2>5
<1>5. ASSUME NEW i \in 1..n, r[i] = e PROVE Has(q, e)
  <2>1. i \in 1..Len(q.rcv)
    BY <1>3
  <2> QED
    BY <1>3, <1>5, <2>1 DEF Has
<1>6. ASSUME NEW i \in 1..Len(m), m[i] = e PROVE Has(q, e)
  <2>1. n + i \in 1..Len(q.rcv)
    BY <1>3
  <2> QED
    BY <1>3, <1>6, <2>1 DEF Has
<1>7. Has(p, e) <=> \E i \in 1..n : r[i] = e
  BY DEF Has, n, r
<1> QED
  BY <1>2, <1>4, <1>5, <1>6, <1>7

LEMMA ExecuteOnTime ==
  ASSUME Cardinality(Cell) > 1, NEW p, Sane(p), NeverLate(p), NEW c, OnTime(p, c),
         NEW x, Due(p, x), c = <<>> \/ After(p, x).rcv = <<>>, Quiet(p, c)
  PROVE  OnTime(After(p, x), c)
<1> DEFINE t == p.kernel[x].task
           q == After(p, x)
<1>1. /\ p \in Players /\ p.left \subseteq p.sound /\ Pointed(p) /\ Followed(p)
      /\ x \in Cell /\ p.kernel[x] # NULL /\ p.kernel[x].left = 0
  BY DEF Sane, Due
<1>2. /\ t \in TicksTask /\ p.fTask[t] = x /\ x # NULL /\ q \in Players
      /\ \/ Forgot(p, q, t)
         \/ t = "play" /\ PlayedOn(p, q)
         \/ t = "tempo" /\ FollowedOn(p, q)
  BY <1>1, ExecuteIs, PlayerAssumption
<1>3. Playing(p, c) /\ (Renewing(c) \/ Begun(p)) /\ (Renewing(c) \/ Begun(q))
  BY ExecuteBegun DEF OnTime
<1>4. q.rcv = <<>> \/ c = <<>>
  OBVIOUS
<1> SUFFICES Playing(q, c)
  BY <1>3 DEF OnTime
<1> HIDE DEF t, q
<1>5. CASE Forgot(p, q, t) \/ (t = "tempo" /\ FollowedOn(p, q))
  <2>1. /\ q.play = p.play /\ q.elapsed = p.elapsed /\ q.state = p.state
        /\ q.rcv = p.rcv /\ q.date["play"] = p.date["play"] /\ (Exact(p, "play") => Exact(q, "play"))
        /\ NotRunning(p) => NotRunning(q)
        /\ q.status["play"] = "running" => p.status["play"] = "running"
        /\ p.fTask["play"] = NULL /\ Forgot(p, q, t) => q.fTask["play"] = NULL
        /\ p.status["play"] = "running" /\ p.fTask["play"] # NULL
             => q.status["play"] = "running" /\ q.fTask["play"] # NULL
    BY <1>1, <1>2, <1>5, ExecuteOther
  <2>2. Seen(p) => Seen(q)
    BY <2>1 DEF Seen
  <2>3. Waits(p) => Waits(q)
    BY <2>1, WaitsSame
  <2>4. Runs(p) => Runs(q)
    BY <2>1, <2>3, HasSame DEF Runs
  <2>5. Op(c) = "SynchroStart" => Forgot(p, q, t)
    BY <1>5 DEF FollowedOn, Quiet, Followed, Sane
  <2>6. Forgot(p, q, t) => q.tempo = p.tempo
    BY DEF Forgot, SameButKernel
  <2>7. Op(c) = "SynchroStart" =>
          /\ q.tempo = First
          /\ \/ q.play = First
             \/ /\ q.fTask["play"] = NULL /\ q.date["play"] = q.play.cur
                /\ q.play.cur <= 1 /\ ~q.play.last
    BY <1>3, <2>1, <2>5, <2>6 DEF Playing
  <2>8. /\ Op(c) = "none" /\ q.state = "playing" => Seen(q) /\ Runs(q)
        /\ Op(c) = "TickStart" =>
             q.state = "playing" /\ Seen(q) /\ (q.play = First \/ Waits(q))
    BY <1>3, <2>1, <2>2, <2>3, <2>4 DEF Playing
  <2>9. /\ Op(c) = "TickCont" => q.state = "playing" /\ Ms[Min({c[1].date, End})] <= q.elapsed
        /\ (Op(c) = "none" /\ q.state # "playing") \/ Op(c) \in Stopped => NotRunning(q)
    BY <1>3, <2>1 DEF Playing
  <2> QED
    BY <2>7, <2>8, <2>9 DEF Playing
<1>6. CASE t = "play" /\ PlayedOn(p, q)
  <2>1. /\ p.status["play"] = "running" /\ q.play = NextDate(p.play) /\ q.state = p.state
        /\ q.elapsed = p.elapsed /\ q.tempo = p.tempo /\ p.fTask["play"] = x
        /\ p.play \in Iterators /\ p.play.last \in BOOLEAN
        /\ p.play.cur \in Date
    BY <1>1, <1>2, <1>6, Fields, AnIterator DEF PlayedOn, SameInPlay
  <2>2. (Op(c) = "none" => p.state = "playing") /\ Op(c) \notin Stopped
    BY <1>3, <2>1 DEF Playing, NotRunning
  <2>3. ASSUME Op(c) \in {"none", "TickStart"}, Seen(p), p.state = "playing",
               Waits(p) \/ p.play = First
        PROVE  Seen(q)
    <3>1. Begun(p)
      BY <1>3, <2>3 DEF Renewing
    <3>2. CASE Waits(p)
      BY <1>1, <1>2, <1>6, <2>1, <2>3, <3>1, <3>2, DuePlay, PlaySeen
    <3>3. CASE p.play = First
      <4>1. Ms[p.play.cur] <= p.elapsed
        BY <1>1, <3>3, FromFirst, MsIs, Fields
      <4> QED
        BY <1>1, <1>6, <2>3, <4>1, PlaySeen
    <3> QED
      BY <2>3, <3>2, <3>3
  <2>4. ASSUME ~p.play.last PROVE Op(c) = "none" \/ Op(c) = "TickStart" => Waits(q)
    BY <1>3, <1>6, <2>1, <2>2, <2>4 DEF PlayedOn, Waits, Playing
  <2>5. ASSUME p.play.last PROVE Has(q, "end")
    BY <1>1, <1>6, <2>5, HasConcat DEF PlayedOn, Heard
  <2>6. Op(c) = "none" => Seen(q) /\ Runs(q)
    <3> SUFFICES ASSUME Op(c) = "none" PROVE Seen(q) /\ Runs(q)
      OBVIOUS
    <3>1. Seen(p) /\ Waits(p) /\ p.state = "playing"
      BY <1>3, <2>1, <2>2 DEF Playing, Runs
    <3>2. CASE p.play.last
      BY <1>6, <2>3, <2>5, <3>1, <3>2 DEF PlayedOn, Runs
    <3>3. CASE ~p.play.last
      BY <1>6, <2>3, <2>4, <3>1, <3>3 DEF PlayedOn, Runs
    <3> QED
      BY <2>1, <3>2, <3>3
  <2>7. Op(c) = "TickStart" => q.state = "playing" /\ Seen(q) /\ Waits(q)
    <3> SUFFICES ASSUME Op(c) = "TickStart" PROVE q.state = "playing" /\ Seen(q) /\ Waits(q)
      OBVIOUS
    <3>1. q.rcv = <<>>
      BY <1>4 DEF Op
    <3>2. ~p.play.last
      BY <2>1, <2>5, <3>1 DEF Has
    <3>3. Seen(p) /\ (Waits(p) \/ p.play = First) /\ p.state = "playing"
      BY <1>3 DEF Playing
    <3> QED
      BY <2>1, <2>3, <2>4, <3>2, <3>3
  <2>8. Op(c) = "SynchroStart" =>
          /\ q.tempo = First
          /\ q.fTask["play"] = NULL /\ q.date["play"] = q.play.cur
          /\ q.play.cur <= 1 /\ ~q.play.last
    <3> SUFFICES ASSUME Op(c) = "SynchroStart"
                 PROVE  /\ q.tempo = First
                        /\ q.fTask["play"] = NULL /\ q.date["play"] = q.play.cur
                        /\ q.play.cur <= 1 /\ ~q.play.last
      OBVIOUS
    <3>1. p.tempo = First /\ p.play = First /\ p.state # "playing"
      BY <1>2, <1>3, <2>1 DEF Playing, Quiet
    <3> QED
      BY <1>6, <2>1, <3>1, FromFirst DEF PlayedOn
  <2>9. Op(c) # "TickCont"
    BY <2>2 DEF Stopped
  <2> QED
    BY <2>1, <2>2, <2>6, <2>7, <2>8, <2>9 DEF Playing
<1> QED
  BY <1>2, <1>5, <1>6

(***************************************************************************)
(* Notes and programs.                                                     *)
(***************************************************************************)
LEMMA ANote ==
  ASSUME NEW n \in Notes
  PROVE  n[1] \in Date /\ n[2] \in Date /\ n[1] \in Nat /\ n[2] \in Nat /\ n[1] < n[2] /\ n[2] <= End
BY PlayerAssumption DEF Date

LEMMA HeldNext ==
  ASSUME NEW d \in Date, NEW e \in Date, e = d + 1 \/ (d = End /\ e = End),
         NEW s \in SUBSET Notes, NEW l \in SUBSET Notes, NEW k \in Nat, k <= d,
         s \subseteq l \cup HeldFrom(d, k)
  PROVE  (s \ Off(d)) \cup On(d) \subseteq (l \ Off(d)) \cup HeldFrom(e, k)
<1>1. d \in Nat /\ e \in Nat /\ End \in Nat /\ d <= End
  BY Positive DEF Date
<1>2. ASSUME NEW n \in s, n[2] # d, n \notin l PROVE n \in HeldFrom(e, k)
  <2>1. n \in Notes /\ n[1] < d /\ d <= n[2] /\ k <= n[1]
    BY <1>2 DEF Held, HeldFrom
  <2>2. n[1] < e /\ e <= n[2]
    BY <1>1, <1>2, <2>1, ANote
  <2> QED
    BY <2>1, <2>2 DEF Held, HeldFrom
<1>3. ASSUME NEW n \in Notes, n[1] = d PROVE n \in HeldFrom(e, k)
  <2>1. n[1] < e /\ e <= n[2]
    BY <1>1, <1>3, ANote
  <2> QED
    BY <1>3, <2>1 DEF Held, HeldFrom
<1> QED
  BY <1>2, <1>3 DEF On, Off

LEMMA BeforeIs == \A d : Before(d) \subseteq 0..End
BY DEF Before, Date

LEMMA LastNext ==
  ASSUME NEW d \in Date
  PROVE  /\ Prog[d] = NULL => Before(d + 1) = Before(d) /\ Last(d + 1) = Last(d)
         /\ Prog[d] # NULL => Last(d + 1) = Prog[d]
<1>1. \A e \in Date : e \in Nat /\ d \in Nat /\ (e < d + 1 <=> e < d \/ e = d)
  BY DEF Date
<1>2. CASE Prog[d] = NULL
  <2>1. Before(d + 1) = Before(d)
    BY <1>1, <1>2 DEF Before
  <2> QED
    BY <1>2, <2>1 DEF Last
<1>3. CASE Prog[d] # NULL
  <2> DEFINE B == Before(d + 1)
  <2>1. B \subseteq 0..End /\ End \in Nat
    BY BeforeIs, Positive
  <2>2. d \in B /\ \A e \in B : e <= d
    <3>1. \A e \in B : e \in Date /\ e < d + 1
      BY DEF Before
    <3> QED
      BY <1>1, <1>3, <3>1 DEF Before
  <2> HIDE DEF B
  <2>3. Max(B) = d
    BY <2>1, <2>2, MaxIs
  <2> QED
    BY <1>3, <2>2, <2>3 DEF Last, B
<1> QED
  BY <1>2, <1>3

LEMMA PlayedNext ==
  ASSUME NEW p, NEW q, NEW d \in Date, Played(p, d), q.chase = p.chase,
         q.prog = IF Prog[d] = NULL THEN p.prog ELSE Prog[d]
  PROVE  Played(q, d + 1)
BY LastNext DEF Played

LEMMA PlayedSame ==
  ASSUME NEW p, NEW q, NEW d, Played(p, d), q.prog = p.prog, q.chase = p.chase
  PROVE  Played(q, d)
BY DEF Played

LEMMA MinEnd ==
  ASSUME NEW d \in Nat
  PROVE  /\ Min({d, End}) \in Date /\ Min({d, End}) = IF d < End THEN d ELSE End
         /\ Min({d, End + 1}) \in 0..(End + 1)
         /\ Min({d, End + 1}) = IF d < End + 1 THEN d ELSE End + 1
<1>1. End \in Nat /\ End \in Int /\ End + 1 \in Int /\ d \in Int
  BY Positive
<1>2. /\ Min({d, End}) = IF d < End THEN d ELSE End
      /\ Min({d, End + 1}) = IF d < End + 1 THEN d ELSE End + 1
  BY <1>1, MinOfTwo
<1> QED
  BY <1>1, <1>2 DEF Date

LEMMA FromType ==
  ASSUME NEW p \in Players
  PROVE  From(p) \in Nat /\ From(p) \in Date
<1>1. p.chase.date \in Nat
  BY Fields DEF Chasers
<1>2. Min({p.chase.date, End}) \in Date /\ 0 \in Date
  BY <1>1, MinEnd, Positive DEF Date
<1> QED
  BY <1>2 DEF From, Date

LEMMA PlayAudible ==
  ASSUME NEW p \in Players, NEW q \in Players, PlayedOn(p, q), Sounding(p),
         From(p) <= p.play.cur
  PROVE  Sounding(q) /\ From(q) <= q.play.cur
<1>1. /\ p.play \in Iterators /\ q.play \in Iterators /\ p.play.cur \in Date /\ q.play.cur \in Date
      /\ p.play.last \in BOOLEAN /\ q.play = NextDate(p.play) /\ p.play.date \in Date
      /\ p.sound \in SUBSET Notes /\ p.left \in SUBSET Notes /\ End \in Date
      /\ (p.play.last => p.play.cur = End)
  BY Fields, AnIterator, Positive DEF PlayedOn, Date
<1>0. From(p) \in Nat /\ From(q) = From(p)
  <2>1. q.chase = p.chase
    BY DEF PlayedOn, SameInPlay
  <2> QED
    BY <2>1, FromType DEF From
<1>2. ASSUME NEW d \in Date, Heard(p, q, d), d = p.play.cur, q.play.cur = d + 1 \/ (d = End /\ q.play.cur = End)
      PROVE  Sounding(q) /\ From(q) <= q.play.cur
  <2>1. (p.sound \ Off(d)) \cup On(d) \subseteq (p.left \ Off(d)) \cup HeldFrom(q.play.cur, From(p))
    BY <1>0, <1>1, <1>2, HeldNext DEF Sounding
  <2>2. d \in Nat /\ End \in Nat
    BY Positive DEF Date
  <2> DEFINE k == From(p)
  <2>3. k \in Nat /\ k <= d
    BY <1>0, <1>2
  <2> HIDE DEF k
  <2>4. k <= q.play.cur
    BY <1>2, <2>2, <2>3
  <2> QED
    BY <1>0, <1>2, <2>1, <2>4 DEF Sounding, Heard, k
<1>3. CASE p.play.last
  <2>1. q.play.cur = End /\ p.play.cur = End /\ Heard(p, q, End)
    BY <1>1, <1>3, NextDateIs DEF PlayedOn
  <2> QED
    BY <1>1, <1>2, <2>1
<1>4. CASE ~p.play.last /\ p.play.date = p.play.cur
  <2>1. Heard(p, q, p.play.cur)
    BY <1>4 DEF PlayedOn
  <2>2. q.play.cur = p.play.cur + 1 \/ (p.play.cur = End /\ q.play.cur = End)
    BY <1>1, <1>4, NextDateIs
  <2> QED
    BY <1>1, <1>2, <2>1, <2>2
<1>5. CASE ~p.play.last /\ p.play.date # p.play.cur
  <2>1. SameHeard(p, q) /\ q.play.cur = p.play.cur
    BY <1>1, <1>5, NextDateIs DEF PlayedOn
  <2> QED
    BY <1>0, <2>1 DEF SameHeard, Sounding
<1> QED
  BY <1>1, <1>3, <1>4, <1>5

LEMMA PlayPatched ==
  ASSUME NEW p \in Players, NEW q \in Players, PlayedOn(p, q), Played(p, p.play.cur), ~q.play.last
  PROVE  Played(q, q.play.cur)
<1>1. /\ p.play \in Iterators /\ p.play.cur \in Date
      /\ p.play.last \in BOOLEAN /\ q.play = NextDate(p.play) /\ End \in Date
      /\ q.chase = p.chase
  BY Fields, AnIterator, Positive DEF PlayedOn, SameInPlay, Date
<1>2. ~p.play.last
  BY <1>1, NextDateIs
<1>3. CASE p.play.date = p.play.cur
  <2>1. q.play.cur = p.play.cur + 1
    BY <1>1, <1>2, <1>3, NextDateIs
  <2>2. Heard(p, q, p.play.cur)
    BY <1>2, <1>3 DEF PlayedOn
  <2> QED
    BY <1>1, <2>1, <2>2, PlayedNext DEF Heard
<1>4. CASE p.play.date # p.play.cur
  <2>1. q.play.cur = p.play.cur /\ SameHeard(p, q)
    BY <1>1, <1>2, <1>4, NextDateIs DEF PlayedOn
  <2> QED
    BY <1>1, <2>1, PlayedSame DEF SameHeard
<1> QED
  BY <1>3, <1>4

LEMMA SamePos ==
  ASSUME NEW p, NEW q, NEW t, Forgot(p, q, t) \/ PlayedOn(p, q) \/ FollowedOn(p, q)
  PROVE  /\ q.pos = p.pos /\ q.elapsed = p.elapsed /\ q.state = p.state /\ q.chase = p.chase
         /\ q.loop = p.loop
BY DEF Forgot, PlayedOn, FollowedOn, SameButKernel, SameInPlay, SameInTempo

LEMMA ExecuteTuned ==
  ASSUME NEW p, Sane(p), NEW c, Playing(p, c), Tuned(p, c), NEW x, Due(p, x), Quiet(p, c)
  PROVE  Tuned(After(p, x), c)
<1> DEFINE t == p.kernel[x].task
           q == After(p, x)
<1>1. /\ p \in Players /\ p.left \subseteq p.sound /\ Pointed(p) /\ Followed(p)
      /\ x \in Cell /\ p.kernel[x] # NULL /\ p.kernel[x].left = 0
  BY DEF Sane, Due
<1>2. /\ t \in TicksTask /\ p.fTask[t] = x /\ x # NULL /\ q \in Players
      /\ \/ Forgot(p, q, t)
         \/ t = "play" /\ PlayedOn(p, q)
         \/ t = "tempo" /\ FollowedOn(p, q)
  BY <1>1, ExecuteIs, PlayerAssumption
<1> SUFFICES Tuned(q, c)
  OBVIOUS
<1> HIDE DEF t, q
<1>3. q.elapsed = p.elapsed /\ q.state = p.state /\ q.chase = p.chase /\ From(q) = From(p)
  BY <1>2, SamePos DEF From
<1>5. Audible(p, c) /\ Patched(p, c) /\ (Renewing(c) \/ Onward(p, c))
  BY DEF Tuned
<1>6. CASE Forgot(p, q, t) \/ (t = "tempo" /\ FollowedOn(p, q))
  <2>1. /\ q.play = p.play /\ q.sound = p.sound /\ q.left = p.left /\ q.prog = p.prog
        /\ q.status["play"] = "running" => p.status["play"] = "running"
    BY <1>1, <1>2, <1>6, ExecuteOther
  <2>2. Audible(q, c)
    BY <1>3, <1>5, <2>1 DEF Audible, Sounding, Ended
  <2>3. Patched(q, c)
    BY <1>3, <1>5, <2>1 DEF Patched, Played
  <2>4. Onward(p, c) => Onward(q, c)
    BY <1>3, <2>1 DEF Onward
  <2> QED
    BY <1>5, <2>2, <2>3, <2>4 DEF Tuned
<1>7. CASE t = "play" /\ PlayedOn(p, q)
  <2>1. p.status["play"] = "running" /\ q.play = NextDate(p.play) /\ p.fTask["play"] = x
    BY <1>2, <1>7 DEF PlayedOn
  <2>2. (Op(c) = "none" => p.state = "playing") /\ Op(c) \notin Stopped
    BY <2>1 DEF Playing, NotRunning
  <2>7. Renewing(c) \/ (Sounding(q) /\ From(q) <= q.play.cur)
    BY <1>1, <1>2, <1>5, <1>7, <2>1, PlayAudible DEF Audible, Onward
  <2>8. Renewing(c) \/ Onward(q, c)
    BY <1>3, <1>5, <2>7 DEF Onward
  <2>3. Audible(q, c)
    <3>1. Renewing(c) \/ Sounding(q)
      BY <2>7
    <3> QED
      BY <1>3, <2>2, <3>1 DEF Audible, Stopped
  <2>4. ASSUME Op(c) = "none" \/ Op(c) = "TickStart", q.state = "playing", ~q.play.last
        PROVE  Played(q, q.play.cur)
    <3>1. ~p.play.last
      BY <1>1, <2>1, <2>4, NextDateIs, Fields, AnIterator
    <3>2. Played(p, p.play.cur)
      BY <1>3, <1>5, <2>4, <3>1 DEF Patched
    <3> QED
      BY <1>1, <1>2, <1>7, <2>4, <3>2, PlayPatched
  <2>5. ASSUME Op(c) = "SynchroStart" PROVE Played(q, q.play.cur)
    <3>1. p.play = First /\ ~q.play.last
      BY <1>2, <2>1, <2>5, FromFirst DEF Playing
    <3>2. Played(p, p.play.cur)
      BY <1>5, <2>5 DEF Patched
    <3> QED
      BY <1>1, <1>2, <1>7, <3>1, <3>2, PlayPatched
  <2>6. Patched(q, c)
    BY <2>2, <2>4, <2>5 DEF Patched, Stopped
  <2> QED
    BY <2>3, <2>6, <2>8 DEF Tuned
<1> QED
  BY <1>2, <1>6, <1>7

(***************************************************************************)
(* The calls that are still to make.                                       *)
(***************************************************************************)
LEMMA ProperIs ==
  ASSUME NEW c, Proper(c), c # <<>>
  PROVE  /\ c \in Seq(Steps) /\ Len(c) \in Nat /\ Len(c) > 0 /\ c[1] \in Steps
         /\ Head(c) = c[1] /\ Tail(c) \in Seq(Steps) /\ Len(Tail(c)) = Len(c) - 1
         /\ \A i \in 1..(Len(c) - 1) : Tail(c)[i] = c[i + 1]
         /\ Op(c) = c[1].op
<1>1. c \in Seq(Steps)
  BY DEF Proper
<1> QED
  BY <1>1 DEF Op

LEMMA TailIs ==
  ASSUME NEW c, Proper(c), c # <<>>
  PROVE  /\ Proper(Tail(c))
         /\ Tail(c) = <<>> => Ends(c[1]) /\ (Starting(c) <=> c[1].op = "TickStart")
         /\ Tail(c) # <<>> =>
              /\ Follows(c[1], Tail(c)[1]) /\ Op(Tail(c)) = Tail(c)[1].op
              /\ (Starting(Tail(c)) <=> Starting(c))
<1> DEFINE e == Tail(c)
           n == Len(c)
<1>1. /\ c \in Seq(Steps) /\ n \in Nat /\ n > 0
      /\ e \in Seq(Steps) /\ Len(e) = n - 1 /\ \A i \in 1..(n - 1) : e[i] = c[i + 1]
  BY ProperIs
<1>2. \A i \in 1..n : IF i = n THEN Ends(c[i]) ELSE Follows(c[i], c[i + 1])
  BY DEF Proper
<1> HIDE DEF e
<1>3. e = <<>> <=> n = 1
  <2>1. e = <<>> <=> Len(e) = 0
    BY <1>1
  <2> QED
    BY <1>1, <2>1
<1>4. Proper(e)
  <2> SUFFICES ASSUME NEW i \in 1..Len(e)
               PROVE  IF i = Len(e) THEN Ends(e[i]) ELSE Follows(e[i], e[i + 1])
    BY <1>1 DEF Proper
  <2>1. /\ i \in 1..(n - 1) /\ i + 1 \in 1..n /\ e[i] = c[i + 1]
        /\ i # Len(e) => i + 1 \in 1..(n - 1) /\ i + 1 # n
        /\ i = Len(e) => i + 1 = n
    BY <1>1
  <2>2. i # Len(e) => e[i + 1] = c[i + 1 + 1]
    BY <1>1, <2>1
  <2> QED
    BY <1>2, <2>1, <2>2
<1>5. CASE n = 1
  <2>1. Ends(c[1]) /\ (Starting(c) <=> c[1].op = "TickStart") /\ e = <<>>
    BY <1>1, <1>2, <1>3, <1>5 DEF Starting
  <2> QED
    BY <1>4, <2>1 DEF e
<1>6. CASE n # 1
  <2>1. 1 \in 1..n /\ 1 \in 1..(n - 1) /\ 1 + 1 = 2
    BY <1>1, <1>6
  <2>2. Follows(c[1], e[1])
    BY <1>1, <1>2, <1>6, <2>1
  <2>3. Len(e) \in 1..(n - 1) /\ Len(e) + 1 = n
    BY <1>1, <1>6
  <2>4. e[Len(e)] = c[n]
    BY <1>1, <2>3
  <2>5. Starting(e) <=> Starting(c)
    BY <1>3, <1>6, <2>4 DEF Starting, n
  <2> QED
    BY <1>3, <1>4, <1>6, <2>2, <2>5 DEF Op, e
<1> QED
  BY <1>5, <1>6

\* The calls of a Start.
LEMMA StartingIs ==
  ASSUME NEW c, Proper(c), Starting(c)
  PROVE  Op(c) \in {"SynchroStop", "TickStop", "ChaseOff", "Init", "SynchroStart", "TickStart"}
<1>1. ASSUME NEW e, Proper(e), Starting(e)
      PROVE  Op(e) \notin {"SetPause", "Cont", "TickCont"}
  <2>1. e # <<>> /\ Op(e) = e[1].op
    BY <1>1 DEF Starting, Op
  <2>2. Tail(e) = <<>> => e[1].op = "TickStart"
    BY <1>1, <2>1, TailIs
  <2>3. Tail(e) # <<>> => e[1].op \notin {"SetPause", "Cont", "TickCont"}
    <3>1. Tail(e) # <<>> => Follows(e[1], Tail(e)[1])
      BY <1>1, <2>1, TailIs
    <3> QED
      BY <3>1 DEF Follows
  <2> QED
    BY <2>1, <2>2, <2>3
<1>2. ASSUME NEW e, Proper(e), Starting(e)
      PROVE  Op(e) \notin {"TickSetPos", "SynchroCont"}
  <2>1. e # <<>> /\ Op(e) = e[1].op
    BY <1>2 DEF Starting, Op
  <2>2. Tail(e) = <<>> => e[1].op = "TickStart"
    BY <1>2, <2>1, TailIs
  <2>3. ASSUME Tail(e) # <<>> PROVE e[1].op \notin {"TickSetPos", "SynchroCont"}
    <3>1. /\ Follows(e[1], Tail(e)[1]) /\ Op(Tail(e)) = Tail(e)[1].op
          /\ Proper(Tail(e)) /\ Starting(Tail(e))
      BY <1>2, <2>1, <2>3, TailIs
    <3>2. Op(Tail(e)) \notin {"SetPause", "Cont", "TickCont"}
      BY <1>1, <3>1
    <3> QED
      BY <3>1, <3>2 DEF Follows
  <2> QED
    BY <2>1, <2>2, <2>3
<1>3. Op(c) # "SynchroSetPos"
  <2>1. c # <<>> /\ Op(c) = c[1].op
    BY DEF Starting, Op
  <2>2. Tail(c) = <<>> => c[1].op = "TickStart"
    BY <2>1, TailIs
  <2>3. ASSUME Tail(c) # <<>> PROVE c[1].op # "SynchroSetPos"
    <3>1. /\ Follows(c[1], Tail(c)[1]) /\ Op(Tail(c)) = Tail(c)[1].op
          /\ Proper(Tail(c)) /\ Starting(Tail(c))
      BY <2>1, <2>3, TailIs
    <3>2. Op(Tail(c)) # "TickSetPos"
      BY <1>2, <3>1
    <3> QED
      BY <3>1, <3>2 DEF Follows
  <2> QED
    BY <2>1, <2>2, <2>3
<1>4. Op(c) \in Ops
  <2>1. c # <<>>
    BY DEF Starting
  <2> QED
    BY <2>1, ProperIs DEF Steps
<1> QED
  BY <1>1, <1>2, <1>3, <1>4 DEF Ops

LEMMA ProperConcat ==
  ASSUME NEW s \in Steps, NEW c, Proper(c), (c = <<>> /\ Ends(s)) \/ (c # <<>> /\ Follows(s, c[1]))
  PROVE  /\ Proper(<<s>> \o c) /\ <<s>> \o c # <<>> /\ Op(<<s>> \o c) = s.op
         /\ (<<s>> \o c)[1] = s
         /\ Starting(<<s>> \o c) <=> IF c = <<>> THEN s.op = "TickStart" ELSE Starting(c)
         /\ \A D : (\A i \in 1..Len(c) : c[i].date \in D) /\ s.date \in D
                   => \A i \in 1..Len(<<s>> \o c) : (<<s>> \o c)[i].date \in D
<1> DEFINE t == <<s>>
           e == t \o c
           n == Len(c)
<1>1. t \in Seq(Steps) /\ Len(t) = 1 /\ t[1] = s /\ c \in Seq(Steps)
  BY DEF Proper
<1>2. n \in Nat /\ (c = <<>> <=> n = 0)
  BY <1>1
<1> HIDE DEF t
<1>3. /\ e \in Seq(Steps) /\ Len(e) = n + 1
      /\ \A i \in 1..(n + 1) : e[i] = IF i <= 1 THEN t[i] ELSE c[i - 1]
  <2>1. /\ e \in Seq(Steps) /\ Len(e) = 1 + n
        /\ \A i \in 1..(1 + n) : e[i] = IF i <= 1 THEN t[i] ELSE c[i - 1]
    <3>1. /\ t \o c \in Seq(Steps) /\ Len(t \o c) = Len(t) + Len(c)
          /\ \A i \in 1..(Len(t) + Len(c)) :
               (t \o c)[i] = IF i <= Len(t) THEN t[i] ELSE c[i - Len(t)]
      BY <1>1, ConcatProperties
    <3>2. Len(t) = 1 /\ Len(c) = n /\ t \o c = e
      BY <1>1
    <3> HIDE DEF e, n
    <3> QED
      BY <3>1, <3>2
  <2>2. 1 + n = n + 1
    BY <1>2
  <2> QED
    BY <2>1, <2>2
<1> HIDE DEF e
<1>4. e[1] = s /\ \A i \in 1..n : e[i + 1] = c[i] /\ i + 1 \in 1..Len(e)
  <2>1. 1 \in 1..(n + 1) /\ 1 <= 1
    BY <1>2
  <2>2. ASSUME NEW i \in 1..n PROVE i + 1 \in 1..(n + 1) /\ ~(i + 1 <= 1) /\ (i + 1) - 1 = i
    BY <1>2
  <2> QED
    BY <1>1, <1>3, <2>1, <2>2
<1>5. \A i \in 1..Len(e) : i = 1 \/ (i - 1 \in 1..n /\ (i - 1) + 1 = i)
  BY <1>2, <1>3
<1>6. \A i \in 1..n : IF i = n THEN Ends(c[i]) ELSE Follows(c[i], c[i + 1])
  BY DEF Proper
<1>7. Proper(e)
  <2> SUFFICES ASSUME NEW i \in 1..Len(e)
               PROVE  IF i = Len(e) THEN Ends(e[i]) ELSE Follows(e[i], e[i + 1])
    BY <1>3 DEF Proper
  <2>1. CASE i = 1
    <3>1. CASE n = 0
      BY <1>2, <1>3, <1>4, <2>1, <3>1
    <3>2. CASE n # 0
      <4>1. 1 \in 1..n /\ 1 # n + 1
        BY <1>2, <3>2
      <4> QED
        BY <1>2, <1>3, <1>4, <2>1, <3>2, <4>1
    <3> QED
      BY <3>1, <3>2
  <2>2. CASE i # 1
    <3> DEFINE j == i - 1
    <3>1. j \in 1..n /\ j + 1 = i
      BY <1>5, <2>2
    <3> HIDE DEF j
    <3>2. e[i] = c[j] /\ (i = Len(e) <=> j = n)
      BY <1>2, <1>3, <1>4, <3>1
    <3>3. j # n => j + 1 \in 1..n
      BY <1>2, <3>1
    <3>4. j # n => e[i + 1] = c[j + 1]
      BY <1>4, <3>1, <3>3
    <3> QED
      BY <1>6, <3>1, <3>2, <3>4
  <2> QED
    BY <2>1, <2>2
<1>8. e # <<>> /\ Op(e) = s.op
  BY <1>2, <1>3, <1>4 DEF Op
<1>9. Starting(e) <=> IF c = <<>> THEN s.op = "TickStart" ELSE Starting(c)
  <2>1. CASE n = 0
    <3>1. Len(e) = 1
      BY <1>3, <2>1
    <3> QED
      BY <1>2, <1>4, <1>8, <2>1, <3>1 DEF Starting
  <2>2. CASE n # 0
    <3>1. n \in 1..n
      BY <1>2, <2>2
    <3>2. e[Len(e)] = c[n]
      BY <1>3, <1>4, <3>1
    <3> QED
      BY <1>2, <1>8, <2>2, <3>2 DEF Starting, n
  <2> QED
    BY <2>1, <2>2
<1>10. ASSUME NEW D, \A i \in 1..n : c[i].date \in D, s.date \in D, NEW i \in 1..Len(e)
       PROVE  e[i].date \in D
  BY <1>4, <1>5, <1>10
<1> QED
  BY <1>4, <1>7, <1>8, <1>9, <1>10 DEF e, t

(***************************************************************************)
(* Positions.                                                              *)
(***************************************************************************)
LEMMA AtTicksIs ==
  ASSUME NEW d \in Nat
  PROVE  LET i == AtTicks(d) IN
         /\ i \in Iterators /\ i.cur = Min({d, End}) /\ (i.last <=> d > End)
         /\ i.cur \in Date /\ (d <= End => i.cur = d) /\ (d > End => i.cur = End)
<1> DEFINE m == Min({d, End})
           n == Min({Max({d - 1, 0}), End})
<1>1. End \in Nat /\ m \in Date /\ m = IF d < End THEN d ELSE End
  BY MinEnd, Positive
<1>2. n \in Date
  <2>1. Max({d - 1, 0}) = IF d - 1 < 0 THEN 0 ELSE d - 1
    BY MaxOfTwo
  <2>2. Max({d - 1, 0}) \in Nat
    BY <2>1
  <2> QED
    BY <2>2, MinEnd
<1> DEFINE l == d > End
<1>3. AtTicks(d) = [cur |-> m, date |-> n, last |-> l]
  BY DEF AtTicks
<1>4. l \in BOOLEAN /\ (d > End => m = End) /\ (d <= End => m = d) /\ (l <=> d > End)
  BY <1>1
<1>6. l => m = End
  BY <1>1
<1> HIDE DEF m, n, l
<1>5. AtTicks(d) \in Iterators /\ AtTicks(d).cur = m /\ AtTicks(d).last = l
  BY <1>1, <1>2, <1>3, <1>4, <1>6 DEF Iterators
<1> QED
  BY <1>1, <1>4, <1>5 DEF m

\* The date in milliseconds of where the synchroniser has gone.
LEMMA BaseAt ==
  ASSUME NEW p \in Players, NEW d \in Nat, p.tempo = AtTicks(d)
  PROVE  /\ ConvertTickToMs(p, d) \in Nat
         /\ Ms[Base(p)] <= ConvertTickToMs(p, d)
         /\ d <= End => ConvertTickToMs(p, d) = Ms[d] /\ d \in Date /\ p.tempo.cur = d
         /\ d > End => p.tempo.last
         /\ Ms[Min({d, End})] <= ConvertTickToMs(p, d)
<1>1. /\ End \in Nat /\ End \in Date /\ Base(p) \in Date /\ p.tempo.last \in BOOLEAN
      /\ ConvertTickToMs(p, d) = ToMs(Base(p), d)
  BY Positive, BaseType, ConvertIs, Fields, AnIterator DEF Date
<1>2. CASE d <= End
  <2>1. p.tempo.cur = d /\ ~p.tempo.last /\ d \in Date
    <3>1. p.tempo.cur = d /\ (p.tempo.last <=> d > End)
      BY <1>2, AtTicksIs
    <3> QED
      BY <1>1, <1>2, <3>1 DEF Date
  <2>2. ToMs(Base(p), d) = Ms[d] /\ Base(p) <= d
    BY <2>1, Ahead
  <2>3. Ms[Base(p)] <= Ms[d] /\ Ms[d] \in Nat
    BY <1>1, <2>1, <2>2, MsGrows, MsType
  <2>4. Min({d, End}) = d
    <3>1. Min({d, End}) = IF d < End THEN d ELSE End
      BY MinEnd
    <3> QED
      BY <1>1, <1>2, <3>1
  <2> QED
    BY <1>1, <1>2, <2>1, <2>2, <2>3, <2>4
<1>3. CASE d > End
  <2>1. p.tempo.last
    BY <1>3, AtTicksIs
  <2>2. Base(p) = End
    BY <2>1, BaseType
  <2>4. ToMs(End, d) \in Int /\ ToMs(End, End) = Ms[End] /\ Ms[End] \in Nat
        /\ ToMs(End, End) <= ToMs(End, d)
    BY <1>1, <1>3, ToMsType, ToMsHere, ToMsGrows, MsType
  <2>5. Min({d, End}) = End
    <3>1. Min({d, End}) = IF d < End THEN d ELSE End
      BY MinEnd
    <3> QED
      BY <1>1, <1>3, <3>1
  <2> QED
    BY <1>1, <1>3, <2>1, <2>2, <2>4, <2>5
<1> QED
  BY <1>1, <1>2, <1>3

LEMMA DivIs ==
  ASSUME NEW a \in Nat, NEW t \in Nat, t > 0
  PROVE  /\ a \div t \in Nat /\ (a \div t) * t <= a
         /\ a <= t => a \div t <= 1
<1>1. a \div t \in Nat
  OBVIOUS
<1>2. (a \div t) * t <= a
  OBVIOUS
<1>3. a <= t => a \div t <= 1
  OBVIOUS
<1> QED
  BY <1>1, <1>2, <1>3

LEMMA ConvertMsType ==
  ASSUME NEW p \in Players, NEW ms \in Nat
  PROVE  /\ ConvertMsToTick(p, ms) \in Nat
         /\ ms >= Ms[Base(p)] =>
              ConvertMsToTick(p, ms) = Base(p) + (ms - Ms[Base(p)]) \div Tempo[Base(p)]
<1> DEFINE b == Base(p)
           m == Ms[b]
           t == Tempo[b]
           d == IF ms >= m THEN b + (ms - m) \div t ELSE b - (m - ms) \div t
<1>1. ConvertMsToTick(p, ms) = IF d < 0 THEN Far ELSE d
  BY DEF ConvertMsToTick
<1>2. b \in Nat /\ m \in Nat /\ t \in Nat /\ t > 0 /\ Far \in Nat
  BY BaseType, MsType, Positive, PlayerAssumption DEF Date
<1> HIDE DEF b, m, t
<1>3. CASE ms >= m
  <2>1. ms - m \in Nat
    BY <1>2, <1>3
  <2>2. (ms - m) \div t \in Nat
    BY <1>2, <2>1, DivIs
  <2>3. d = b + (ms - m) \div t /\ d \in Nat
    BY <1>2, <1>3, <2>2
  <2> QED
    BY <1>1, <1>3, <2>3 DEF b, m, t
<1>4. CASE ~(ms >= m)
  <2>1. m - ms \in Nat
    BY <1>2, <1>4
  <2>2. (m - ms) \div t \in Nat
    BY <1>2, <2>1, DivIs
  <2>3. d = b - (m - ms) \div t /\ d \in Int
    BY <1>2, <1>4, <2>2
  <2>4. ConvertMsToTick(p, ms) \in Nat
    BY <1>1, <1>2, <2>3
  <2> QED
    BY <1>4, <2>4 DEF b, m
<1> QED
  BY <1>3, <1>4

(***************************************************************************)
(* The chaser.                                                             *)
(***************************************************************************)
LEMMA AChaser ==
  ASSUME NEW c \in Chasers
  PROVE  /\ c.date \in Nat /\ c.from \in 0..(End + 1) /\ c.from \in Nat
         /\ c.keys \in SUBSET Notes /\ c.prog \in Programs
BY Positive DEF Chasers

LEMMA HeldMore ==
  ASSUME NEW f \in Nat, NEW g \in Nat, f <= g, g <= End + 1
  PROVE  LET met == {e \in Date : f <= e /\ e < g} IN
         {n \in Notes : (n \in Held(f) \/ n[1] \in met) /\ n[2] \notin met} = Held(g)
<1> DEFINE met == {e \in Date : f <= e /\ e < g}
           h == {n \in Notes : (n \in Held(f) \/ n[1] \in met) /\ n[2] \notin met}
<1>1. ASSUME NEW n \in Notes PROVE n \in h <=> n \in Held(g)
  <2>1. n[1] \in Date /\ n[2] \in Date /\ n[1] \in Nat /\ n[2] \in Nat /\ n[1] < n[2]
    BY ANote
  <2>2. n[1] \in met <=> f <= n[1] /\ n[1] < g
    BY <2>1
  <2>3. n[2] \in met <=> f <= n[2] /\ n[2] < g
    BY <2>1
  <2>4. n \in Held(f) <=> n[1] < f /\ f <= n[2]
    BY DEF Held
  <2>5. n \in Held(g) <=> n[1] < g /\ g <= n[2]
    BY DEF Held
  <2>6. n \in h <=> (n \in Held(f) \/ n[1] \in met) /\ n[2] \notin met
    OBVIOUS
  <2> HIDE DEF met, h
  <2>7. n \in h <=> ((n[1] < f /\ f <= n[2]) \/ (f <= n[1] /\ n[1] < g)) /\ ~(f <= n[2] /\ n[2] < g)
    BY <2>2, <2>3, <2>4, <2>6
  <2> DEFINE a == n[1]
             b == n[2]
  <2>8. a \in Nat /\ b \in Nat /\ a < b
    BY <2>1
  <2> HIDE DEF a, b
  <2>9. (((a < f /\ f <= b) \/ (f <= a /\ a < g)) /\ ~(f <= b /\ b < g)) <=> (a < g /\ g <= b)
    BY <2>8
  <2> QED
    BY <2>5, <2>7, <2>9 DEF a, b
<1>2. h \subseteq Notes /\ Held(g) \subseteq Notes
  BY DEF Held
<1> QED
  BY <1>1, <1>2

LEMMA LastMore ==
  ASSUME NEW f \in Nat, NEW g \in Nat, f <= g
  PROVE  LET progs == {e \in {x \in Date : f <= x /\ x < g} : Prog[e] # NULL} IN
         (IF progs = {} THEN Last(f) ELSE Prog[Max(progs)]) = Last(g)
<1> DEFINE met == {x \in Date : f <= x /\ x < g}
           progs == {e \in met : Prog[e] # NULL}
<1>1. \A e \in Date : e \in Nat /\ (e < g <=> e < f \/ (f <= e /\ e < g))
  BY DEF Date
<1>2. Before(g) = Before(f) \cup progs
  BY <1>1 DEF Before
<1>3. CASE progs = {}
  <2>1. Before(g) = Before(f)
    BY <1>2, <1>3
  <2> QED
    BY <1>3, <2>1 DEF Last
<1>4. CASE progs # {}
  <2>1. progs \subseteq 0..End /\ End \in Nat /\ Before(g) \subseteq 0..End
    BY Positive, BeforeIs DEF Date
  <2>2. Max(progs) \in progs /\ \A n \in progs : n <= Max(progs)
    <3> HIDE DEF progs
    <3> QED
      BY <1>4, <2>1, Greatest
  <2> DEFINE m == Max(progs)
  <2>3. m \in Before(g) /\ f <= m /\ m \in Nat
    BY <1>2, <2>1, <2>2
  <2>4. \A n \in Before(g) : n <= m
    <3> SUFFICES ASSUME NEW n \in Before(g) PROVE n <= m
      OBVIOUS
    <3>1. CASE n \in progs
      BY <2>2, <3>1
    <3>2. CASE n \in Before(f)
      <4>1. n \in Nat /\ n < f
        BY <3>2, Positive DEF Before, Date
      <4> HIDE DEF m
      <4> QED
        BY <2>3, <4>1
    <3> HIDE DEF progs
    <3> QED
      BY <1>2, <3>1, <3>2
  <2> HIDE DEF m, progs
  <2>5. Max(Before(g)) = m
    BY <2>1, <2>3, <2>4, MaxIs
  <2>6. Last(g) = Prog[m]
    BY <2>3, <2>5 DEF Last
  <2> QED
    BY <1>4, <2>6 DEF m, progs
<1> QED
  BY <1>3, <1>4

LEMMA LastType == \A d : Last(d) \in Programs
<1> SUFFICES ASSUME NEW d PROVE Last(d) \in Programs
  OBVIOUS
<1>1. CASE Before(d) = {}
  BY <1>1 DEF Last, Programs
<1>2. CASE Before(d) # {}
  <2>1. Max(Before(d)) \in Before(d)
    BY <1>2, BeforeIs, Greatest, Positive
  <2> QED
    BY <1>2, <2>1 DEF Last, Programs, Before
<1> QED
  BY <1>1, <1>2

\* A program that is chased is the one to play.
LEMMA LastIs ==
  ASSUME NEW d, Before(d) # {}
  PROVE  Last(d) # NULL
<1>1. Max(Before(d)) \in Before(d)
  BY BeforeIs, Greatest, Positive
<1> QED
  BY <1>1 DEF Last, Before

LEMMA GoBeginIs ==
  ASSUME NEW c \in Chasers, c.keys = Held(c.from), c.prog = Last(c.from), NEW d \in Nat,
         c.from <= Min({d, End + 1})
  PROVE  LET r == GoBeginDateTicks(c, d) IN
         /\ r \in Chasers /\ r.date = d /\ r.from = Min({d, End + 1}) /\ ~r.fresh
         /\ r.keys = Held(r.from) /\ r.prog = Last(r.from)
<1> DEFINE f == c.from
           g == Min({d, End + 1})
           met == {e \in Date : f <= e /\ e < d}
           progs == {e \in met : Prog[e] # NULL}
           keys == {n \in Notes : (n \in c.keys \/ n[1] \in met) /\ n[2] \notin met}
           prog == IF progs = {} THEN c.prog ELSE Prog[Max(progs)]
           r == GoBeginDateTicks(c, d)
<1>1. /\ f \in Nat /\ g \in 0..(End + 1) /\ g = (IF d < End + 1 THEN d ELSE End + 1)
      /\ End \in Nat /\ g \in Nat /\ g <= End + 1 /\ f <= g
  <2>1. f \in Nat /\ End \in Nat /\ f <= g
    BY AChaser, Positive
  <2>2. g \in 0..(End + 1) /\ g = (IF d < End + 1 THEN d ELSE End + 1)
    BY MinEnd
  <2> HIDE DEF g
  <2>3. g \in Nat /\ g <= End + 1
    BY <2>1, <2>2
  <2> QED
    BY <2>1, <2>2, <2>3
<1>2. r = [fresh |-> FALSE, date |-> d, from |-> Max({f, g}), keys |-> keys, prog |-> prog]
  BY DEF GoBeginDateTicks
<1>3. Max({f, g}) = g
  <2> HIDE DEF f, g
  <2>1. Max({f, g}) = IF f < g THEN g ELSE f
    BY <1>1, MaxOfTwo
  <2> QED
    BY <1>1, <2>1
<1>4. met = {e \in Date : f <= e /\ e < g}
  <2>1. \A e \in Date : e < d <=> e < g
    <3> SUFFICES ASSUME NEW e \in Date PROVE e < d <=> e < g
      OBVIOUS
    <3>1. e \in Nat /\ e <= End
      BY <1>1 DEF Date
    <3> HIDE DEF g
    <3> QED
      BY <1>1, <3>1
  <2> QED
    BY <2>1
<1> HIDE DEF met, r, g
<1>5. keys = Held(g)
  <2>1. keys = {n \in Notes : (n \in Held(f) \/ n[1] \in met) /\ n[2] \notin met}
    OBVIOUS
  <2>2. {n \in Notes : (n \in Held(f) \/ n[1] \in {e \in Date : f <= e /\ e < g})
                 /\ n[2] \notin {e \in Date : f <= e /\ e < g}} = Held(g)
    BY <1>1, HeldMore DEF g
  <2> QED
    BY <1>4, <2>1, <2>2
<1>6. prog = Last(g)
  <2>1. (IF progs = {} THEN Last(f) ELSE Prog[Max(progs)]) = Last(g)
    BY <1>1, <1>4, LastMore DEF g
  <2> QED
    BY <2>1
<1> HIDE DEF keys, prog
<1>7. keys \in SUBSET Notes /\ prog \in Programs
  BY <1>5, <1>6, LastType DEF Held
<1>8. r \in Chasers /\ r.date = d /\ r.from = g /\ r.keys = keys /\ r.prog = prog /\ ~r.fresh
  BY <1>1, <1>2, <1>3, <1>7 DEF Chasers
<1> QED
  BY <1>5, <1>6, <1>8 DEF r, g

LEMMA Nothing == Held(0) = {} /\ Before(0) = {} /\ Last(0) = NULL
<1>1. Held(0) = {}
  <2>1. \A n \in Notes : ~(n[1] < 0)
    <3> SUFFICES ASSUME NEW n \in Notes PROVE ~(n[1] < 0)
      OBVIOUS
    <3>1. n[1] \in Nat
      BY ANote
    <3> QED
      BY <3>1
  <2> QED
    BY <2>1 DEF Held
<1>2. Before(0) = {}
  BY DEF Before, Date
<1> QED
  BY <1>1, <1>2 DEF Last

LEMMA InitChaser ==
  ASSUME NEW d \in Nat, NEW f \in BOOLEAN
  PROVE  LET r == [fresh |-> f, date |-> d, from |-> 0, keys |-> {}, prog |-> NULL] IN
         /\ r \in Chasers /\ r.date = d /\ r.from = 0 /\ r.fresh = f
         /\ r.keys = Held(r.from) /\ r.prog = Last(r.from)
<1>1. NULL \in Programs /\ 0 \in 0..(End + 1)
  BY Positive DEF Programs
<1> QED
  BY <1>1, Nothing DEF Chasers

LEMMA ChaserSetPosIs ==
  ASSUME NEW c \in Chasers, Met(c), NEW d \in Nat
  PROVE  LET r == ChaserSetPos(c, d) IN
         /\ r \in Chasers /\ Met(r)
         /\ r.fresh => r = c /\ d = c.date
         /\ ~r.fresh => r.from = Min({d, End + 1})
<1> DEFINE r == ChaserSetPos(c, d)
<1>1. CASE d = c.date
  BY <1>1 DEF ChaserSetPos, Met
<1>2. CASE d # c.date
  <2> DEFINE b == IF d < c.date THEN ChaserInit(c) ELSE c
  <2>1. r = GoBeginDateTicks(b, d)
    BY <1>2 DEF ChaserSetPos
  <2>2. /\ b \in Chasers /\ b.keys = Held(b.from) /\ b.prog = Last(b.from)
        /\ b.from <= Min({d, End + 1})
    <3>1. Min({d, End + 1}) = (IF d < End + 1 THEN d ELSE End + 1) /\ End \in Nat
      BY MinEnd, Positive
    <3>2. CASE d < c.date
      <4> DEFINE z == [fresh |-> FALSE, date |-> 0, from |-> 0, keys |-> {}, prog |-> NULL]
      <4>1. b = z
        BY <3>2 DEF ChaserInit
      <4>2. 0 \in Nat /\ FALSE \in BOOLEAN
        OBVIOUS
      <4>3. z \in Chasers /\ z.from = 0 /\ z.keys = Held(z.from) /\ z.prog = Last(z.from)
        BY <4>2, InitChaser
      <4> HIDE DEF z, b
      <4> QED
        BY <3>1, <4>1, <4>3
    <3>3. CASE ~(d < c.date)
      <4>1. b = c /\ c.date \in Nat
        BY <3>3, AChaser
      <4>2. c.from = 0 \/ c.from = Min({c.date, End + 1})
        BY DEF Met
      <4>3. Min({c.date, End + 1}) = IF c.date < End + 1 THEN c.date ELSE End + 1
        BY <4>1, MinEnd
      <4>4. c.from <= Min({d, End + 1})
        BY <3>1, <3>3, <4>1, <4>2, <4>3
      <4> QED
        BY <4>1, <4>4 DEF Met
    <3> QED
      BY <3>2, <3>3
  <2> HIDE DEF b
  <2>3. /\ r \in Chasers /\ r.date = d /\ r.from = Min({d, End + 1}) /\ ~r.fresh
        /\ r.keys = Held(r.from) /\ r.prog = Last(r.from)
    BY <2>1, <2>2, GoBeginIs
  <2> HIDE DEF r
  <2> QED
    BY <2>3 DEF Met, r
<1> QED
  BY <1>1, <1>2

(***************************************************************************)
(* The calls of a user's call, one by one.                                 *)
(***************************************************************************)
LEMMA NoneIs ==
  ASSUME NEW c, Proper(c)
  PROVE  (Op(c) = "none" <=> c = <<>>) /\ (c # <<>> => Op(c) \in Ops)
BY ProperIs DEF Op, Ops, Steps

LEMMA NextOp ==
  ASSUME NEW c, Proper(c), c # <<>>
  PROVE  LET e == Tail(c) IN
         /\ Proper(e)
         /\ Op(c) = "SynchroStop" => Op(e) = "TickStop"
         /\ Op(c) = "TickStop" => Op(e) \in {"ChaseOff", "SetPause"}
         /\ Op(c) = "ChaseOff" => Op(e) \in {"none", "Init", "SynchroSetPos", "Cont"}
         /\ Op(c) = "Init" => Op(e) = "SynchroStart"
         /\ Op(c) = "SynchroStart" => Op(e) = "TickStart"
         /\ Op(c) = "SynchroSetPos" => Op(e) = "TickSetPos"
         /\ Op(c) = "TickSetPos" => Op(e) \in {"none", "Cont"}
         /\ Op(c) = "SynchroCont" => Op(e) = "TickCont" /\ e[1].date = c[1].date
         /\ Op(c) \in {"TickStart", "Cont", "TickCont", "SetPause"} => Op(e) = "none"
<1> DEFINE e == Tail(c)
<1>1. Op(c) = c[1].op /\ Proper(e)
  BY ProperIs, TailIs
<1>2. CASE e = <<>>
  <2>1. Ends(c[1]) /\ Op(e) = "none"
    BY <1>2, TailIs DEF Op
  <2> HIDE DEF e
  <2> QED
    BY <1>1, <2>1 DEF Ends, e
<1>3. CASE e # <<>>
  <2>1. Follows(c[1], e[1]) /\ Op(e) = e[1].op
    BY <1>3, TailIs
  <2> HIDE DEF e
  <2> QED
    BY <1>1, <2>1 DEF Follows, e
<1> QED
  BY <1>2, <1>3

\* A Start stays one until it has put everything back.
LEMMA RenewingNext ==
  ASSUME NEW c, Proper(c), Renewing(c), Op(c) # "Init"
  PROVE  Renewing(Tail(c))
<1> DEFINE e == Tail(c)
<1>1. c # <<>> /\ Starting(c) /\ Op(c) \in {"SynchroStop", "TickStop", "ChaseOff"} /\ Op(c) = c[1].op
  BY DEF Renewing, Starting, Op
<1>2. e # <<>>
  BY <1>1, TailIs
<1>3. Starting(e) /\ Proper(e)
  BY <1>1, <1>2, TailIs
<1>4. Op(e) \in {"SynchroStop", "TickStop", "ChaseOff", "Init", "SynchroStart", "TickStart"}
  BY <1>3, StartingIs
<1>5. Op(e) \in {"TickStop", "ChaseOff", "Init", "SetPause", "none", "SynchroSetPos", "Cont"}
  BY <1>1, NextOp
<1> QED
  BY <1>3, <1>4, <1>5 DEF Renewing

Renews == {"SynchroStop", "TickStop", "ChaseOff", "Init"}

LEMMA NotRenewing ==
  ASSUME NEW c, Op(c) \notin Renews
  PROVE  ~Renewing(c)
BY DEF Renewing, Renews

\* What a call of p with the calls c yet to make keeps for q with the calls e.
Carried(p, c, q, e) ==
  /\ Sane(q) /\ Quiet(q, e) /\ Proper(e) /\ q.rcv = p.rcv
  /\ Cardinality(Cell) > 1 /\ NeverLate(p) =>
       /\ NeverLate(q)
       /\ OnTime(p, c) => OnTime(q, e)
       /\ OnTime(p, c) /\ Tuned(p, c) => Tuned(q, e)

LEMMA OnwardSame ==
  ASSUME NEW p, NEW q, NEW c, NEW e, Onward(p, c), q.chase = p.chase, q.play = p.play,
         q.status["play"] = "running" => p.status["play"] = "running",
         Op(e) \notin {"SynchroStart", "TickStart", "SynchroCont", "TickCont"}
  PROVE  Onward(q, e)
BY DEF Onward, From

LEMMA OnwardIdle ==
  ASSUME NEW q, NEW e, NotRunning(q),
         Op(e) \notin {"SynchroStart", "TickStart", "SynchroCont", "TickCont"}
  PROVE  Onward(q, e)
BY DEF Onward, NotRunning

LEMMA SoundingSame ==
  ASSUME NEW p, NEW q, Sounding(p), q.sound = p.sound, q.left = p.left, q.play = p.play,
         q.chase = p.chase
  PROVE  Sounding(q)
BY DEF Sounding, From

LEMMA ForgetIs ==
  ASSUME NEW p \in Players, NEW t \in TicksTask
  PROVE  LET q == Forget(p, t) IN
         /\ q \in Players /\ SameButKernel(p, q) /\ q.table = p.table /\ q.kernel = p.kernel
         /\ q.date = p.date /\ q.fTask = p.fTask
         /\ q.status[t] # "running"
         /\ \A u \in TicksTask : q.status[u] = "idle" <=> p.status[u] = "idle"
         /\ \A u \in TicksTask \ {t} : q.status[u] = p.status[u]
<1> DEFINE s == IF p.status[t] = "running" THEN "forget" ELSE p.status[t]
           q == Forget(p, t)
<1>1. q = [p EXCEPT !.status = [p.status EXCEPT ![t] = s]]
  BY DEF Forget, Players
<1>2. p.status \in [TicksTask -> {"idle", "running", "forget"}]
  BY Fields
<1>3. s \in {"idle", "running", "forget"} /\ s # "running" /\ (s = "idle" <=> p.status[t] = "idle")
  BY <1>2
<1> HIDE DEF s, q
<1> DEFINE f == [p.status EXCEPT ![t] = s]
<1>4. f \in [TicksTask -> {"idle", "running", "forget"}]
      /\ \A u \in TicksTask : f[u] = IF u = t THEN s ELSE p.status[u]
  BY <1>2, <1>3
<1> HIDE DEF f
<1>5. /\ q \in Players /\ SameButKernel(p, q) /\ q.table = p.table /\ q.kernel = p.kernel
      /\ q.date = p.date /\ q.fTask = p.fTask /\ q.status = f
  BY <1>1, <1>4 DEF Players, SameButKernel, f
<1> QED
  BY <1>3, <1>4, <1>5 DEF q

LEMMA PointedSame ==
  ASSUME NEW p, NEW q, Pointed(p), q.table = p.table, q.kernel = p.kernel, q.fTask = p.fTask,
         \A u \in TicksTask : q.status[u] = "idle" <=> p.status[u] = "idle"
  PROVE  Pointed(q)
BY DEF Pointed

LEMMA SynchroStopStep ==
  ASSUME NEW p, Sane(p), NEW c, Proper(c), c # <<>>, Op(c) = "SynchroStop"
  PROVE  Carried(p, c, SynchroStop(p), Tail(c))
<1> DEFINE f == Forget(p, "tempo")
           pos == IF p.state = "playing" THEN ConvertMsToTick(p, p.elapsed) ELSE f.pos
           q == SynchroStop(p)
           e == Tail(c)
<1>1. /\ p \in Players /\ p.left \subseteq p.sound /\ Pointed(p) /\ Followed(p) /\ Met(p.chase)
      /\ p.state # "playing" => p.elapsed = 0
      /\ p.elapsed \in Nat /\ p.pos \in Nat /\ "tempo" \in TicksTask
  BY Fields DEF Sane, TicksTask
<1>2. /\ f \in Players /\ SameButKernel(p, f) /\ f.table = p.table /\ f.kernel = p.kernel
      /\ f.date = p.date /\ f.fTask = p.fTask /\ f.status["tempo"] # "running"
      /\ \A u \in TicksTask : f.status[u] = "idle" <=> p.status[u] = "idle"
      /\ f.status["play"] = p.status["play"]
  BY <1>1, ForgetIs DEF TicksTask
<1>3. q = [f EXCEPT !.state = "idle", !.elapsed = 0, !.pos = pos]
  BY DEF SynchroStop
<1> HIDE DEF f
<1>4. pos \in Nat /\ pos = IF p.state = "playing" THEN ConvertMsToTick(p, p.elapsed) ELSE p.pos
  BY <1>1, <1>2, ConvertMsType DEF SameButKernel
<1> HIDE DEF pos, q
<1>5. /\ q \in Players /\ q.state = "idle" /\ q.elapsed = 0 /\ q.pos = pos
      /\ q.table = f.table /\ q.kernel = f.kernel /\ q.status = f.status
      /\ q.date = f.date /\ q.fTask = f.fTask /\ q.chase = f.chase /\ q.rcv = f.rcv
      /\ q.play = f.play /\ q.sound = f.sound /\ q.left = f.left
  BY <1>2, <1>3, <1>4 DEF Players
<1>6. /\ q.chase = p.chase /\ q.rcv = p.rcv /\ q.play = p.play /\ q.sound = p.sound
      /\ q.left = p.left
  BY <1>2, <1>5 DEF SameButKernel
<1>7. Sane(q)
  <2>1. Pointed(q)
    BY <1>1, <1>2, <1>5, PointedSame
  <2>2. Followed(q)
    BY <1>2, <1>5 DEF Followed
  <2> QED
    BY <1>1, <1>5, <1>6, <2>1, <2>2 DEF Sane
<1>8. Op(e) = "TickStop" /\ Proper(e)
  BY NextOp
<1>9. Quiet(q, e)
  BY <1>5 DEF Quiet
<1>10. NeverLate(q) /\ OnTime(q, e)
  BY <1>5, <1>8 DEF NeverLate, OnTime, Playing, Begun, Stopped
<1>11. ASSUME Tuned(p, c)
       PROVE  Tuned(q, e)
  <2>1. CASE Renewing(c)
    <3>1. Renewing(e)
      BY <1>8, <2>1, RenewingNext
    <3> QED
      BY <1>8, <3>1 DEF Tuned, Audible, Patched
  <2>2. CASE ~Renewing(c)
    <3>1. Sounding(p) /\ Onward(p, c)
      BY <1>11, <2>2 DEF Tuned, Audible
    <3>2. Sounding(q)
      BY <1>6, <3>1, SoundingSame
    <3>3. Onward(q, e)
      BY <1>2, <1>5, <1>6, <1>8, <3>1, OnwardSame
    <3> QED
      BY <1>8, <3>2, <3>3 DEF Tuned, Audible, Patched
  <2> QED
    BY <2>1, <2>2
<1> QED
  BY <1>6, <1>7, <1>8, <1>9, <1>10, <1>11 DEF Carried, q, e

LEMMA TickStopStep ==
  ASSUME NEW p, Sane(p), NEW c, Proper(c), c # <<>>, Op(c) = "TickStop", Quiet(p, c)
  PROVE  Carried(p, c, TickStop(p), Tail(c))
<1> DEFINE q == TickStop(p)
           e == Tail(c)
<1>1. /\ p \in Players /\ p.left \subseteq p.sound /\ Pointed(p) /\ Followed(p) /\ Met(p.chase)
      /\ p.state # "playing" => p.elapsed = 0
      /\ "play" \in TicksTask /\ "tempo" \in TicksTask \ {"play"}
  BY DEF Sane, TicksTask
<1>2. /\ q \in Players /\ SameButKernel(p, q) /\ q.table = p.table /\ q.kernel = p.kernel
      /\ q.date = p.date /\ q.fTask = p.fTask /\ q.status["play"] # "running"
      /\ \A u \in TicksTask : q.status[u] = "idle" <=> p.status[u] = "idle"
      /\ q.status["tempo"] = p.status["tempo"]
  BY <1>1, ForgetIs DEF TickStop
<1> HIDE DEF q
<1>3. p.state # "playing" /\ q.state # "playing"
  BY <1>2 DEF Quiet, SameButKernel
<1>4. Sane(q)
  <2>1. Pointed(q)
    BY <1>1, <1>2, PointedSame
  <2>2. Followed(q)
    BY <1>1, <1>2, <1>3 DEF Followed
  <2> QED
    BY <1>1, <1>2, <1>3, <2>1, <2>2 DEF Sane, SameButKernel
<1>5. Op(e) \in {"ChaseOff", "SetPause"} /\ Proper(e)
  BY NextOp
<1>6. NeverLate(q) /\ OnTime(q, e) /\ Quiet(q, e)
  BY <1>2, <1>3, <1>5 DEF NeverLate, OnTime, Playing, Begun, NotRunning, Quiet
<1>7. ASSUME Tuned(p, c) PROVE Tuned(q, e)
  <2>1. CASE Renewing(c)
    <3>1. Renewing(e)
      BY <2>1, RenewingNext
    <3> QED
      BY <1>5, <3>1 DEF Tuned, Audible, Patched
  <2>2. CASE ~Renewing(c)
    <3>1. Sounding(p) /\ Onward(p, c)
      BY <1>7, <2>2 DEF Tuned, Audible
    <3>2. Sounding(q)
      BY <1>2, <3>1, SoundingSame DEF SameButKernel
    <3>3. Onward(q, e)
      BY <1>2, <1>5, OnwardIdle DEF NotRunning
    <3> QED
      BY <1>5, <3>2, <3>3 DEF Tuned, Audible, Patched
  <2> QED
    BY <2>1, <2>2
<1> QED
  BY <1>2, <1>4, <1>5, <1>6, <1>7 DEF Carried, q, e, SameButKernel

LEMMA SetPauseStep ==
  ASSUME NEW p, Sane(p), NEW c, Proper(c), c # <<>>, Op(c) = "SetPause", Quiet(p, c)
  PROVE  Carried(p, c, [p EXCEPT !.state = "pause"], Tail(c))
<1> DEFINE q == [p EXCEPT !.state = "pause"]
           e == Tail(c)
<1>1. /\ p \in Players /\ p.left \subseteq p.sound /\ Pointed(p) /\ Followed(p) /\ Met(p.chase)
      /\ p.state # "playing" => p.elapsed = 0
  BY DEF Sane
<1>2. /\ q \in Players /\ q.table = p.table /\ q.kernel = p.kernel /\ q.status = p.status
      /\ q.date = p.date /\ q.fTask = p.fTask /\ q.state = "pause" /\ q.chase = p.chase
      /\ q.rcv = p.rcv /\ q.play = p.play /\ q.sound = p.sound /\ q.left = p.left
      /\ q.pos = p.pos /\ q.elapsed = p.elapsed
  BY <1>1 DEF Players
<1> HIDE DEF q
<1>3. p.state # "playing"
  BY DEF Quiet
<1>4. Sane(q)
  <2>1. Pointed(q)
    BY <1>1, <1>2, PointedSame
  <2>2. Followed(q)
    BY <1>1, <1>2, <1>3 DEF Followed
  <2> QED
    BY <1>1, <1>2, <1>3, <2>1, <2>2 DEF Sane
<1>5. Op(e) = "none" /\ Proper(e) /\ ~Renewing(c)
  BY NextOp, NotRenewing DEF Renews
<1>6. NeverLate(q) /\ Quiet(q, e)
  BY <1>2, <1>5 DEF NeverLate, Quiet
<1>7. OnTime(p, c) => OnTime(q, e)
  BY <1>2, <1>5 DEF OnTime, Playing, Begun, NotRunning, Stopped
<1>8. ASSUME Tuned(p, c) PROVE Tuned(q, e)
  <2>1. Sounding(p) /\ Onward(p, c)
    BY <1>5, <1>8 DEF Tuned, Audible
  <2>2. Sounding(q)
    BY <1>2, <2>1, SoundingSame
  <2>3. Onward(q, e)
    BY <1>2, <1>5, <2>1, OnwardSame
  <2> QED
    BY <1>2, <1>5, <2>2, <2>3 DEF Tuned, Audible, Patched
<1> QED
  BY <1>2, <1>4, <1>5, <1>6, <1>7, <1>8 DEF Carried, q, e

\* A player whose task of the synchroniser is the same is as early.
LEMMA NeverLateSame ==
  ASSUME NEW p, NEW q, NeverLate(p), q.state = p.state, q.tempo = p.tempo,
         q.elapsed = p.elapsed, q.status["tempo"] = p.status["tempo"],
         q.fTask["tempo"] = p.fTask["tempo"]
  PROVE  NeverLate(q)
BY DEF NeverLate

LEMMA ChaseOffIs ==
  ASSUME NEW p \in Players, p.left \subseteq p.sound, Met(p.chase)
  PROVE  LET q == ChaseOff(p) IN
         /\ q \in Players /\ q.left \subseteq q.sound /\ Met(q.chase)
         /\ q.state = p.state /\ q.pos = p.pos /\ q.elapsed = p.elapsed /\ q.play = p.play
         /\ q.tempo = p.tempo /\ q.loop = p.loop /\ q.rcv = p.rcv /\ q.prog = p.prog
         /\ q.table = p.table /\ q.kernel = p.kernel /\ q.status = p.status
         /\ q.date = p.date /\ q.fTask = p.fTask
         /\ Sounding(p) => Ended(q)
         /\ q.chase.fresh => p.chase.fresh
<1> DEFINE r == ChaserSetPos(p.chase, p.play.cur)
           s == p.sound \ r.keys
           l == p.left \ r.keys
           q == ChaseOff(p)
<1>1. /\ p.chase \in Chasers /\ p.play.cur \in Date /\ p.play.cur \in Nat
      /\ p.sound \in SUBSET Notes /\ p.left \in SUBSET Notes
  BY Fields, AnIterator, Positive DEF Date
<1>2. /\ r \in Chasers /\ Met(r)
      /\ r.fresh => r = p.chase /\ p.play.cur = p.chase.date
      /\ ~r.fresh => r.from = Min({p.play.cur, End + 1})
  BY <1>1, ChaserSetPosIs
<1>3. q = [p EXCEPT !.chase = r, !.sound = s, !.left = l]
  BY DEF ChaseOff, KeyOff
<1>0. Min({p.play.cur, End + 1}) = p.play.cur /\ Min({p.play.cur, End}) = p.play.cur
  <2>1. p.play.cur \in Nat /\ p.play.cur <= End /\ End \in Nat
    BY <1>1, Positive DEF Date
  <2> DEFINE d == p.play.cur
  <2>2. /\ Min({d, End}) = IF d < End THEN d ELSE End
        /\ Min({d, End + 1}) = IF d < End + 1 THEN d ELSE End + 1
    BY <2>1, MinEnd
  <2>3. d \in Nat /\ d <= End /\ End \in Nat
    BY <2>1
  <2> HIDE DEF d
  <2>4. Min({d, End + 1}) = d /\ Min({d, End}) = d
    BY <2>2, <2>3
  <2> QED
    BY <2>4 DEF d
<1>4. ~r.fresh => r.keys = Held(p.play.cur)
  <2>1. r.keys = Held(r.from)
    BY <1>2 DEF Met
  <2>2. ~r.fresh => r.from = p.play.cur
    BY <1>0, <1>2
  <2> HIDE DEF r
  <2> QED
    BY <2>1, <2>2
<1>7. HeldFrom(p.play.cur, From(p)) \subseteq Held(p.play.cur)
  BY DEF HeldFrom
<1>8. r.fresh => HeldFrom(p.play.cur, From(p)) = {} /\ p.chase.fresh
  <2> SUFFICES ASSUME r.fresh PROVE HeldFrom(p.play.cur, From(p)) = {} /\ p.chase.fresh
    OBVIOUS
  <2>1. p.chase.fresh /\ From(p) = p.play.cur
    BY <1>0, <1>2 DEF From
  <2>2. \A n \in Held(p.play.cur) : ~(p.play.cur <= n[1])
    <3> SUFFICES ASSUME NEW n \in Held(p.play.cur) PROVE ~(p.play.cur <= n[1])
      OBVIOUS
    <3>1. n \in Notes /\ n[1] < p.play.cur
      BY DEF Held
    <3>2. n[1] \in Nat
      BY <3>1, ANote
    <3> QED
      BY <1>1, <3>1, <3>2
  <2> QED
    BY <2>1, <2>2 DEF HeldFrom
<1>5. Sounding(p) => s \subseteq l
  <2> SUFFICES ASSUME Sounding(p) PROVE s \subseteq l
    OBVIOUS
  <2> HIDE DEF r
  <2>1. CASE r.fresh
    BY <1>8, <2>1 DEF Sounding
  <2>2. CASE ~r.fresh
    BY <1>4, <1>7, <2>2 DEF Sounding
  <2> QED
    BY <2>1, <2>2
<1>6. s \in SUBSET Notes /\ l \in SUBSET Notes /\ l \subseteq s
  BY <1>1
<1> HIDE DEF r, s, l, q
<1> QED
  BY <1>2, <1>3, <1>5, <1>6, <1>8 DEF Players, Ended, q

LEMMA ChaseOffStep ==
  ASSUME NEW p, Sane(p), NEW c, Proper(c), c # <<>>, Op(c) = "ChaseOff", Quiet(p, c)
  PROVE  Carried(p, c, ChaseOff(p), Tail(c))
<1> DEFINE q == ChaseOff(p)
           e == Tail(c)
<1>1. /\ p \in Players /\ p.left \subseteq p.sound /\ Pointed(p) /\ Followed(p) /\ Met(p.chase)
      /\ p.state # "playing" => p.elapsed = 0
  BY DEF Sane
<1>2. /\ q \in Players /\ q.left \subseteq q.sound /\ Met(q.chase)
      /\ q.state = p.state /\ q.pos = p.pos /\ q.elapsed = p.elapsed /\ q.play = p.play
      /\ q.tempo = p.tempo /\ q.loop = p.loop /\ q.rcv = p.rcv /\ q.prog = p.prog
      /\ q.table = p.table /\ q.kernel = p.kernel /\ q.status = p.status
      /\ q.date = p.date /\ q.fTask = p.fTask
      /\ Sounding(p) => Ended(q)
  BY <1>1, ChaseOffIs
<1> HIDE DEF q
<1>3. p.state # "playing" /\ q.state # "playing"
  BY <1>2 DEF Quiet
<1>4. Sane(q)
  <2>1. Pointed(q)
    BY <1>1, <1>2, PointedSame
  <2>2. Followed(q)
    BY <1>1, <1>2, <1>3 DEF Followed
  <2> QED
    BY <1>1, <1>2, <1>3, <2>1, <2>2 DEF Sane
<1>5. Op(e) \in {"none", "Init", "SynchroSetPos", "Cont"} /\ Proper(e)
  BY NextOp
<1>6. NeverLate(q) /\ Quiet(q, e)
  BY <1>3 DEF NeverLate, Quiet
<1>7. OnTime(p, c) => OnTime(q, e)
  BY <1>2, <1>3, <1>5 DEF OnTime, Playing, Begun, NotRunning, Stopped
<1>8. ASSUME OnTime(p, c), Tuned(p, c) PROVE Tuned(q, e)
  <2>1. CASE Renewing(c)
    <3>1. Renewing(e)
      BY <2>1, RenewingNext
    <3>2. Op(e) = "Init"
      BY <1>5, <3>1 DEF Renewing
    <3> QED
      BY <3>1, <3>2 DEF Tuned, Audible, Patched
  <2>2. CASE ~Renewing(c)
    <3>1. Sounding(p)
      BY <1>8, <2>2 DEF Tuned, Audible
    <3>2. Ended(q) /\ Sounding(q)
      BY <1>2, <1>8, <3>1 DEF Sounding, Ended
    <3>3. Onward(q, e)
      <4>1. NotRunning(q)
        BY <1>2, <1>8 DEF OnTime, Playing, NotRunning, Stopped
      <4> QED
        BY <1>5, <4>1, OnwardIdle
    <3> QED
      BY <1>3, <1>5, <3>2, <3>3 DEF Tuned, Audible, Patched
  <2> QED
    BY <2>1, <2>2
<1> QED
  BY <1>2, <1>4, <1>5, <1>6, <1>7, <1>8 DEF Carried, q, e

LEMMA InitStep ==
  ASSUME NEW p, Sane(p), NEW c, Proper(c), c # <<>>, Op(c) = "Init", Quiet(p, c)
  PROVE  Carried(p, c, InitAll(p), Tail(c))
<1> DEFINE r == ChaserInit(p.chase)
           s == p.sound
           q == InitAll(p)
           e == Tail(c)
<1>1. /\ p \in Players /\ p.left \subseteq p.sound /\ Pointed(p) /\ Followed(p) /\ Met(p.chase)
      /\ p.state # "playing" => p.elapsed = 0
      /\ s \in SUBSET Notes /\ First \in Iterators /\ s = p.sound
  BY Fields, FromFirst DEF Sane
<1>2. r \in Chasers /\ Met(r) /\ ~r.fresh
  <2>1. /\ r \in Chasers /\ r.date = 0 /\ r.from = 0 /\ ~r.fresh
        /\ r.keys = Held(r.from) /\ r.prog = Last(r.from)
    BY InitChaser DEF ChaserInit
  <2>2. Min({0, End + 1}) = 0
    <3>1. Min({0, End + 1}) = IF 0 < End + 1 THEN 0 ELSE End + 1
      BY MinEnd
    <3> QED
      BY <3>1, Positive
  <2> HIDE DEF r
  <2> QED
    BY <2>1, <2>2 DEF Met
<1>3. q = [p EXCEPT !.play = First, !.tempo = First, !.pos = 0, !.chase = r, !.left = s]
  BY DEF InitAll
<1> HIDE DEF r, s, q
<1>4. /\ q \in Players /\ q.state = p.state /\ q.pos = 0 /\ q.elapsed = p.elapsed
      /\ q.play = First /\ q.tempo = First /\ q.rcv = p.rcv /\ q.chase = r
      /\ q.sound = p.sound /\ q.left = p.sound
      /\ q.table = p.table /\ q.kernel = p.kernel /\ q.status = p.status
      /\ q.date = p.date /\ q.fTask = p.fTask
  BY <1>1, <1>2, <1>3 DEF Players
<1>5. p.state # "playing" /\ q.state # "playing" /\ q.elapsed = 0
  BY <1>1, <1>4 DEF Quiet
<1>6. Sane(q)
  <2>1. Pointed(q)
    BY <1>1, <1>4, PointedSame
  <2>2. Followed(q)
    BY <1>1, <1>4, <1>5 DEF Followed
  <2> QED
    BY <1>2, <1>4, <1>5, <2>1, <2>2 DEF Sane
<1>7. Op(e) = "SynchroStart" /\ Proper(e) /\ ~Renewing(e)
  BY NextOp, NotRenewing DEF Renews
<1>8. NeverLate(q) /\ Quiet(q, e) /\ OnTime(q, e)
  BY <1>4, <1>5, <1>7 DEF NeverLate, Quiet, OnTime, Playing, Begun, Stopped
<1>9. ASSUME Tuned(p, c) PROVE Tuned(q, e)
  <2>1. Sounding(q)
    BY <1>4 DEF Sounding
  <2>2. Played(q, q.play.cur)
    BY <1>4, FromFirst, Nothing DEF Played
  <2>3. From(q) <= q.play.cur
    BY <1>2, <1>4, FromFirst DEF From
  <2>4. Onward(q, e)
    BY <1>2, <1>4, <2>3 DEF Onward
  <2> QED
    BY <1>7, <2>1, <2>2, <2>4 DEF Tuned, Audible, Patched
<1> QED
  BY <1>4, <1>6, <1>7, <1>8, <1>9 DEF Carried, q, e

LEMMA SynchroStartStep ==
  ASSUME NEW p, Sane(p), NEW c, Proper(c), c # <<>>, Op(c) = "SynchroStart"
  PROVE  Carried(p, c, SynchroStart(p), Tail(c))
<1> DEFINE r == [p EXCEPT !.state = "playing", !.elapsed = 0]
           q == SynchroStart(p)
           e == Tail(c)
<1>1. /\ p \in Players /\ p.left \subseteq p.sound /\ Pointed(p) /\ Met(p.chase)
      /\ p.tempo \in Iterators /\ p.tempo.cur \in Date /\ "tempo" \in TicksTask
      /\ "play" \in TicksTask \ {"tempo"} /\ p.play \in Iterators
  BY Fields, AnIterator DEF Sane, TicksTask
<1>2. /\ r \in Players /\ r.state = "playing" /\ r.elapsed = 0 /\ r.pos = p.pos
      /\ r.play = p.play /\ r.tempo = p.tempo /\ r.sound = p.sound /\ r.left = p.left
      /\ r.prog = p.prog /\ r.chase = p.chase /\ r.rcv = p.rcv
      /\ r.table = p.table /\ r.kernel = p.kernel /\ r.status = p.status
      /\ r.date = p.date /\ r.fTask = p.fTask
  BY <1>1 DEF Players
<1>3. q = ScheduleTickTask(r, "tempo", p.tempo.cur)
  BY DEF SynchroStart
<1> HIDE DEF r, q
<1>4. Pointed(r)
  BY <1>1, <1>2, PointedSame
<1>5. /\ q \in Players /\ Pointed(q) /\ SameButKernel(r, q)
      /\ q.status["tempo"] = "running" /\ q.date["tempo"] = p.tempo.cur
      /\ SameTask(r, q, "play")
      /\ Exact(q, "tempo") /\ (Cardinality(Cell) > 1 => q.fTask["tempo"] # NULL)
  BY <1>1, <1>2, <1>3, <1>4, ScheduleTickTaskIs
<1>6. /\ q.state = "playing" /\ q.elapsed = 0 /\ q.pos = p.pos /\ q.play = p.play
      /\ q.tempo = p.tempo /\ q.sound = p.sound /\ q.left = p.left /\ q.prog = p.prog
      /\ q.chase = p.chase /\ q.rcv = p.rcv
      /\ q.date["play"] = p.date["play"] /\ q.fTask["play"] = p.fTask["play"]
  BY <1>2, <1>5 DEF SameButKernel, SameTask
<1>7. Sane(q)
  BY <1>1, <1>5, <1>6 DEF Sane, Followed
<1>8. Op(e) = "TickStart" /\ Proper(e) /\ ~Renewing(c)
  BY NextOp, NotRenewing DEF Renews
<1>9. Quiet(q, e)
  BY <1>8 DEF Quiet
<1>10. ASSUME Cardinality(Cell) > 1
       PROVE  NeverLate(q)
  <2>1. Ms[p.tempo.cur] \in Nat
    BY <1>1, MsType
  <2> QED
    BY <1>5, <1>6, <1>10, <2>1 DEF NeverLate
<1>11. ASSUME OnTime(p, c)
       PROVE  OnTime(q, e)
  <2>1. /\ p.tempo = First
        /\ \/ p.play = First
           \/ /\ p.fTask["play"] = NULL /\ p.date["play"] = p.play.cur
              /\ p.play.cur <= 1 /\ ~p.play.last
    BY <1>8, <1>11 DEF OnTime, Playing
  <2>2. Seen(q)
    <3>1. p.play.cur <= 1 /\ ~p.play.last /\ p.play.cur \in Nat
      BY <1>1, <2>1, AnIterator, FromFirst DEF Date
    <3>2. ASSUME NEW d \in Date, d < p.play.cur PROVE Ms[d] <= 0
      <4>1. d \in Nat
        BY Positive DEF Date
      <4>2. d = 0
        BY <3>1, <3>2, <4>1
      <4> QED
        BY <4>2, MsIs
    <3> QED
      BY <1>6, <3>1, <3>2 DEF Seen
  <2>3. q.play = First \/ Waits(q)
    BY <1>6, <2>1 DEF Waits, Exact
  <2>4. Begun(q)
    <3>1. Base(q) = 0
      BY <1>5, <1>6, <2>1, BaseType, FromFirst
    <3> QED
      BY <1>6, <3>1, MsIs DEF Begun
  <2> QED
    BY <1>6, <1>8, <2>2, <2>3, <2>4 DEF OnTime, Playing, Stopped
<1>12. ASSUME Tuned(p, c) PROVE Tuned(q, e)
  <2>1. Sounding(p) /\ Onward(p, c) /\ Played(p, p.play.cur)
    BY <1>8, <1>12 DEF Tuned, Audible, Patched
  <2>2. Sounding(q) /\ Played(q, q.play.cur)
    BY <1>6, <2>1, SoundingSame DEF Played
  <2>3. ~q.chase.fresh
    BY <1>6, <2>1 DEF Onward
  <2>4. Onward(q, e)
    BY <1>1, <1>6, <2>3, AnIterator DEF Onward, From, Date
  <2> QED
    BY <1>8, <2>2, <2>4 DEF Tuned, Audible, Patched
<1> QED
  BY <1>6, <1>7, <1>8, <1>9, <1>10, <1>11, <1>12 DEF Carried, q, e

LEMMA TickStartStep ==
  ASSUME NEW p, Sane(p), NEW c, Proper(c), c # <<>>, Op(c) = "TickStart"
  PROVE  Carried(p, c, TickStart(p), Tail(c))
<1> DEFINE q == TickStart(p)
           e == Tail(c)
<1>1. /\ p \in Players /\ p.left \subseteq p.sound /\ Pointed(p) /\ Followed(p) /\ Met(p.chase)
      /\ p.state # "playing" => p.elapsed = 0
      /\ p.play.cur \in Date /\ "play" \in TicksTask
      /\ "tempo" \in TicksTask \ {"play"}
  BY Fields, AnIterator DEF Sane, TicksTask
<1>2. /\ q \in Players /\ Pointed(q) /\ SameButKernel(p, q)
      /\ q.status["play"] = "running" /\ q.date["play"] = p.play.cur
      /\ SameTask(p, q, "tempo")
      /\ p.state = "playing" => Exact(q, "play") /\ (Cardinality(Cell) > 1 => q.fTask["play"] # NULL)
  BY <1>1, ScheduleTickTaskIs DEF TickStart
<1> HIDE DEF q
<1>3. /\ q.state = p.state /\ q.elapsed = p.elapsed /\ q.pos = p.pos /\ q.play = p.play
      /\ q.tempo = p.tempo /\ q.sound = p.sound /\ q.left = p.left /\ q.prog = p.prog
      /\ q.chase = p.chase /\ q.rcv = p.rcv
      /\ q.status["tempo"] = p.status["tempo"] /\ q.fTask["tempo"] = p.fTask["tempo"]
  BY <1>2 DEF SameButKernel, SameTask
<1>4. Sane(q)
  <2>1. Followed(q)
    BY <1>1, <1>2, <1>3, FollowedSame
  <2> QED
    BY <1>1, <1>2, <1>3, <2>1 DEF Sane
<1>5. Op(e) = "none" /\ Proper(e) /\ ~Renewing(c)
  BY NextOp, NotRenewing DEF Renews
<1>6. Quiet(q, e)
  BY <1>5 DEF Quiet
<1>7. NeverLate(p) => NeverLate(q)
  BY <1>3, NeverLateSame
<1>8. ASSUME Cardinality(Cell) > 1, OnTime(p, c)
      PROVE  p.state = "playing" /\ OnTime(q, e)
  <2>1. p.state = "playing" /\ Seen(p) /\ Begun(p)
    BY <1>5, <1>8 DEF OnTime, Playing
  <2>2. Seen(q) /\ Begun(q)
    BY <1>3, <2>1, SameBase DEF Seen, Begun
  <2>3. Runs(q)
    BY <1>2, <1>3, <1>8, <2>1 DEF Runs, Waits
  <2> QED
    BY <1>3, <1>5, <2>1, <2>2, <2>3 DEF OnTime, Playing, Stopped
<1>9. ASSUME p.state = "playing", Tuned(p, c) PROVE Tuned(q, e)
  <2>1. Sounding(p) /\ Onward(p, c) /\ (~p.play.last => Played(p, p.play.cur))
    BY <1>5, <1>9 DEF Tuned, Audible, Patched
  <2>2. Sounding(q) /\ (~q.play.last => Played(q, q.play.cur))
    BY <1>3, <2>1, SoundingSame DEF Played
  <2>3. Onward(q, e)
    BY <1>1, <1>3, <2>1 DEF Onward, From, Date
  <2> QED
    BY <1>3, <1>5, <1>9, <2>2, <2>3 DEF Tuned, Audible, Patched
<1> QED
  BY <1>3, <1>4, <1>5, <1>6, <1>7, <1>8, <1>9 DEF Carried, q, e

LEMMA SynchroSetPosIs ==
  ASSUME NEW p \in Players, p.left \subseteq p.sound, NEW d \in Nat
  PROVE  LET q == SynchroSetPos(p, d) IN
         /\ q \in Players /\ q.left \subseteq q.sound
         /\ q.state = p.state /\ q.pos = d /\ q.elapsed = p.elapsed /\ q.play = p.play
         /\ q.tempo = AtTicks(d) /\ q.sound = p.sound /\ q.prog = p.prog
         /\ q.chase = p.chase /\ q.loop = p.loop /\ q.rcv = p.rcv
         /\ q.table = p.table /\ q.kernel = p.kernel /\ q.status = p.status
         /\ q.date = p.date /\ q.fTask = p.fTask
         /\ p.state # "playing" /\ (p.state = "idle" => Ended(p)) => Ended(q)
<1> DEFINE l == IF p.state = "pause" THEN p.sound ELSE p.left
           i == AtTicks(d)
           q == SynchroSetPos(p, d)
<1>1. /\ l \in SUBSET Notes /\ l \subseteq p.sound /\ i \in Iterators
      /\ p.state \in {"idle", "playing", "pause"}
  BY Fields, AtTicksIs
<1>2. q = [p EXCEPT !.tempo = i, !.pos = d, !.left = l]
  BY DEF SynchroSetPos
<1>3. p.state # "playing" /\ (p.state = "idle" => p.sound \subseteq p.left) => p.sound \subseteq l
  BY <1>1
<1> HIDE DEF l, i, q
<1> QED
  BY <1>1, <1>2, <1>3 DEF Players, Ended, q, i

LEMMA SynchroSetPosStep ==
  ASSUME NEW p, Sane(p), NEW c, Proper(c), c # <<>>, Op(c) = "SynchroSetPos", Quiet(p, c)
  PROVE  Carried(p, c, SynchroSetPos(p, c[1].date), Tail(c))
<1> DEFINE d == c[1].date
           q == SynchroSetPos(p, d)
           e == Tail(c)
<1>1. /\ p \in Players /\ p.left \subseteq p.sound /\ Pointed(p) /\ Followed(p) /\ Met(p.chase)
      /\ p.state # "playing" => p.elapsed = 0
      /\ d \in Nat
  BY ProperIs DEF Sane, Steps
<1>2. /\ q \in Players /\ q.left \subseteq q.sound
      /\ q.state = p.state /\ q.pos = d /\ q.elapsed = p.elapsed /\ q.play = p.play
      /\ q.tempo = AtTicks(d) /\ q.sound = p.sound /\ q.prog = p.prog
      /\ q.chase = p.chase /\ q.loop = p.loop /\ q.rcv = p.rcv
      /\ q.table = p.table /\ q.kernel = p.kernel /\ q.status = p.status
      /\ q.date = p.date /\ q.fTask = p.fTask
      /\ p.state # "playing" /\ (p.state = "idle" => Ended(p)) => Ended(q)
  BY <1>1, SynchroSetPosIs
<1> HIDE DEF q
<1>3. p.state # "playing" /\ q.state # "playing"
  BY <1>2 DEF Quiet
<1>4. Sane(q)
  <2>1. Pointed(q)
    BY <1>1, <1>2, PointedSame
  <2>2. Followed(q)
    BY <1>1, <1>2, <1>3 DEF Followed
  <2> QED
    BY <1>1, <1>2, <1>3, <2>1, <2>2 DEF Sane
<1>5. Op(e) = "TickSetPos" /\ Proper(e) /\ ~Renewing(c)
  BY NextOp, NotRenewing DEF Renews
<1>6. NeverLate(q) /\ Quiet(q, e)
  BY <1>3 DEF NeverLate, Quiet
<1>7. OnTime(p, c) => OnTime(q, e)
  BY <1>2, <1>3, <1>5 DEF OnTime, Playing, Begun, NotRunning, Stopped
<1>8. ASSUME OnTime(p, c), Tuned(p, c) PROVE Tuned(q, e)
  <2>1. (p.state = "idle" => Ended(p))
    BY <1>5, <1>8 DEF Tuned, Audible
  <2>2. Ended(q) /\ Sounding(q)
    BY <1>2, <1>3, <2>1 DEF Sounding, Ended
  <2>3. NotRunning(q)
    BY <1>2, <1>8 DEF OnTime, Playing, NotRunning, Stopped
  <2>4. Onward(q, e)
    BY <1>5, <2>3, OnwardIdle
  <2> QED
    BY <1>5, <2>2, <2>4 DEF Tuned, Audible, Patched
<1> QED
  BY <1>2, <1>4, <1>5, <1>6, <1>7, <1>8 DEF Carried, q, e, d

LEMMA TickSetPosIs ==
  ASSUME NEW p \in Players, NEW d \in Nat
  PROVE  LET q == TickSetPos(p, d) IN
         /\ q \in Players
         /\ q.state = p.state /\ q.pos = p.pos /\ q.elapsed = p.elapsed
         /\ q.play = AtTicks(d)
         /\ q.tempo = p.tempo /\ q.sound = p.sound /\ q.left = p.left /\ q.prog = p.prog
         /\ q.chase = p.chase /\ q.loop = p.loop /\ q.rcv = p.rcv
         /\ q.table = p.table /\ q.kernel = p.kernel /\ q.status = p.status
         /\ q.date = p.date /\ q.fTask = p.fTask
<1> DEFINE i == AtTicks(d)
<1>1. i \in Iterators
  BY AtTicksIs
<1> HIDE DEF i
<1>2. TickSetPos(p, d) = [p EXCEPT !.play = i]
  BY DEF TickSetPos, i
<1> QED
  BY <1>1, <1>2 DEF Players, i

LEMMA TickSetPosStep ==
  ASSUME NEW p, Sane(p), NEW c, Proper(c), c # <<>>, Op(c) = "TickSetPos", Quiet(p, c)
  PROVE  Carried(p, c, TickSetPos(p, c[1].date), Tail(c))
<1> DEFINE d == c[1].date
           q == TickSetPos(p, d)
           e == Tail(c)
<1>1. /\ p \in Players /\ p.left \subseteq p.sound /\ Pointed(p) /\ Followed(p) /\ Met(p.chase)
      /\ p.state # "playing" => p.elapsed = 0
      /\ d \in Nat
  BY ProperIs DEF Sane, Steps
<1>2. /\ q \in Players
      /\ q.state = p.state /\ q.pos = p.pos /\ q.elapsed = p.elapsed
      /\ q.play = AtTicks(d)
      /\ q.tempo = p.tempo /\ q.sound = p.sound /\ q.left = p.left /\ q.prog = p.prog
      /\ q.chase = p.chase /\ q.loop = p.loop /\ q.rcv = p.rcv
      /\ q.table = p.table /\ q.kernel = p.kernel /\ q.status = p.status
      /\ q.date = p.date /\ q.fTask = p.fTask
  BY <1>1, TickSetPosIs
<1> HIDE DEF q
<1>3. p.state # "playing" /\ q.state # "playing"
  BY <1>2 DEF Quiet
<1>4. Sane(q)
  <2>1. Pointed(q)
    BY <1>1, <1>2, PointedSame
  <2>2. Followed(q)
    BY <1>1, <1>2, <1>3 DEF Followed
  <2> QED
    BY <1>1, <1>2, <1>3, <2>1, <2>2 DEF Sane
<1>5. Op(e) \in {"none", "Cont"} /\ Proper(e) /\ ~Renewing(c)
  BY NextOp, NotRenewing DEF Renews
<1>6. NeverLate(q) /\ Quiet(q, e)
  BY <1>3 DEF NeverLate, Quiet
<1>7. OnTime(p, c) => OnTime(q, e)
  BY <1>2, <1>3, <1>5 DEF OnTime, Playing, Begun, NotRunning, Stopped
<1>8. ASSUME OnTime(p, c), Tuned(p, c) PROVE Tuned(q, e)
  <2>1. Ended(p)
    BY <1>5, <1>8 DEF Tuned, Audible
  <2>2. Ended(q) /\ Sounding(q)
    BY <1>2, <2>1 DEF Sounding, Ended
  <2>3. NotRunning(q)
    BY <1>2, <1>8 DEF OnTime, Playing, NotRunning, Stopped
  <2>4. Onward(q, e)
    BY <1>5, <2>3, OnwardIdle
  <2> QED
    BY <1>3, <1>5, <2>2, <2>4 DEF Tuned, Audible, Patched
<1> QED
  BY <1>2, <1>4, <1>5, <1>6, <1>7, <1>8 DEF Carried, q, e, d

LEMMA SynchroContIs ==
  ASSUME NEW p, Sane(p), p.state # "playing", NEW d \in Nat
  PROVE  LET q == SynchroCont(p, d)
             ms == q.elapsed IN
         /\ Sane(q) /\ q.state = "playing" /\ q.pos = d /\ q.play = p.play
         /\ q.sound = p.sound /\ q.prog = p.prog /\ q.chase = p.chase
         /\ q.rcv = p.rcv /\ q.status["play"] = p.status["play"]
         /\ q.status["tempo"] = "running"
         /\ Cardinality(Cell) > 1 => q.fTask["tempo"] # NULL
         /\ (p.state = "idle" => Ended(p)) => Ended(q)
         /\ ms \in Nat /\ Ms[Base(q)] <= ms /\ Ms[Min({d, End})] <= ms
         /\ d <= End => ms = Ms[d] /\ d \in Date /\ q.tempo.cur = d
         /\ d > End => q.tempo.last
<1> DEFINE s == SynchroSetPos(p, d)
           u == [s EXCEPT !.state = "playing"]
           ms == ConvertTickToMs(u, d)
           r == [u EXCEPT !.elapsed = ms]
           q == SynchroCont(p, d)
<1>1. /\ p \in Players /\ p.left \subseteq p.sound /\ Pointed(p) /\ Followed(p) /\ Met(p.chase)
      /\ "tempo" \in TicksTask /\ "play" \in TicksTask \ {"tempo"}
  BY DEF Sane, TicksTask
<1>2. p.state # "playing"
  OBVIOUS
<1>3. /\ s \in Players /\ s.left \subseteq s.sound
      /\ s.pos = d /\ s.play = p.play
      /\ s.tempo = AtTicks(d) /\ s.sound = p.sound /\ s.prog = p.prog
      /\ s.chase = p.chase /\ s.rcv = p.rcv
      /\ s.table = p.table /\ s.kernel = p.kernel /\ s.status = p.status
      /\ s.date = p.date /\ s.fTask = p.fTask
      /\ (p.state = "idle" => Ended(p)) => Ended(s)
  BY <1>1, <1>2, SynchroSetPosIs
<1>4. q = ScheduleTickTask(r, "tempo", u.tempo.cur)
  BY DEF SynchroCont
<1> HIDE DEF s, q
<1>5. /\ u \in Players /\ u.state = "playing" /\ u.pos = d /\ u.play = p.play
      /\ u.tempo = AtTicks(d) /\ u.sound = s.sound /\ u.left = s.left /\ u.prog = p.prog
      /\ u.chase = p.chase /\ u.rcv = p.rcv
      /\ u.table = p.table /\ u.kernel = p.kernel /\ u.status = p.status
      /\ u.date = p.date /\ u.fTask = p.fTask
  BY <1>3 DEF Players
<1> HIDE DEF u
<1>6. /\ ms \in Nat /\ Ms[Base(u)] <= ms
      /\ d <= End => ms = Ms[d] /\ d \in Date /\ u.tempo.cur = d
      /\ d > End => u.tempo.last
      /\ Ms[Min({d, End})] <= ms
  BY <1>1, <1>5, BaseAt
<1> HIDE DEF ms
<1>7. /\ r \in Players /\ r.state = "playing" /\ r.pos = d /\ r.play = p.play /\ r.elapsed = ms
      /\ r.tempo = u.tempo /\ r.sound = s.sound /\ r.left = s.left /\ r.prog = p.prog
      /\ r.chase = p.chase /\ r.rcv = p.rcv
      /\ r.table = p.table /\ r.kernel = p.kernel /\ r.status = p.status
      /\ r.date = p.date /\ r.fTask = p.fTask
  BY <1>5, <1>6 DEF Players
<1> HIDE DEF r
<1>8. Pointed(r) /\ u.tempo.cur \in Date
  BY <1>1, <1>5, <1>7, PointedSame, Fields, AnIterator
<1>9. /\ q \in Players /\ Pointed(q) /\ SameButKernel(r, q)
      /\ q.status["tempo"] = "running" /\ q.date["tempo"] = u.tempo.cur
      /\ SameTask(r, q, "play")
      /\ Exact(q, "tempo") /\ (Cardinality(Cell) > 1 => q.fTask["tempo"] # NULL)
  BY <1>1, <1>4, <1>7, <1>8, ScheduleTickTaskIs
<1>10. /\ q.state = "playing" /\ q.elapsed = ms /\ q.pos = d /\ q.play = p.play
       /\ q.tempo = u.tempo /\ q.sound = s.sound /\ q.left = s.left /\ q.prog = p.prog
       /\ q.chase = p.chase /\ q.rcv = p.rcv /\ q.status["play"] = p.status["play"]
  BY <1>7, <1>9 DEF SameButKernel, SameTask
<1>11. Sane(q)
  BY <1>1, <1>3, <1>9, <1>10 DEF Sane, Followed
<1>12. Base(q) = Base(u)
  BY <1>10, SameBase
<1>13. (p.state = "idle" => Ended(p)) => Ended(q)
  BY <1>3, <1>10 DEF Ended
<1> QED
  BY <1>3, <1>6, <1>9, <1>10, <1>11, <1>12, <1>13 DEF q

LEMMA SynchroContStep ==
  ASSUME NEW p, Sane(p), NEW c, Proper(c), c # <<>>, Op(c) = "SynchroCont", Quiet(p, c)
  PROVE  Carried(p, c, SynchroCont(p, c[1].date), Tail(c))
<1> DEFINE d == c[1].date
           q == SynchroCont(p, d)
           ms == q.elapsed
           e == Tail(c)
<1>1. d \in Nat /\ p.state # "playing"
  BY ProperIs DEF Steps, Quiet
<1>2. /\ Sane(q) /\ q.state = "playing" /\ q.pos = d /\ q.play = p.play
      /\ q.sound = p.sound /\ q.prog = p.prog /\ q.chase = p.chase
      /\ q.rcv = p.rcv /\ q.status["play"] = p.status["play"]
      /\ q.status["tempo"] = "running"
      /\ Cardinality(Cell) > 1 => q.fTask["tempo"] # NULL
      /\ (p.state = "idle" => Ended(p)) => Ended(q)
      /\ ms \in Nat /\ Ms[Base(q)] <= ms /\ Ms[Min({d, End})] <= ms
      /\ d <= End => ms = Ms[d] /\ d \in Date /\ q.tempo.cur = d
      /\ d > End => q.tempo.last
  BY <1>1, SynchroContIs
<1> HIDE DEF q
<1>12. Op(e) = "TickCont" /\ e[1].date = d /\ Proper(e) /\ ~Renewing(c)
  BY NextOp, NotRenewing DEF Renews
<1>13. Quiet(q, e)
  BY <1>12 DEF Quiet
<1>14. ASSUME Cardinality(Cell) > 1 PROVE NeverLate(q)
  <2>1. ~q.tempo.last => ms = Ms[q.tempo.cur]
    BY <1>1, <1>2, Positive
  <2>2. ms \in Nat
    BY <1>2
  <2> QED
    BY <1>2, <1>14, <2>1, <2>2 DEF NeverLate
<1>15. ASSUME OnTime(p, c) PROVE OnTime(q, e)
  <2>1. NotRunning(q)
    BY <1>2, <1>15 DEF OnTime, Playing, NotRunning, Stopped
  <2>2. Begun(q)
    BY <1>2 DEF Begun
  <2> QED
    BY <1>2, <1>12, <2>1, <2>2 DEF OnTime, Playing, Stopped
<1>16. ASSUME OnTime(p, c), Tuned(p, c) PROVE Tuned(q, e)
  <2>1. Onward(p, c) /\ (p.state = "idle" => Ended(p)) /\ (d <= End => Played(p, d))
    BY <1>12, <1>16 DEF Tuned, Audible, Patched
  <2>2. Ended(q) /\ Sounding(q)
    BY <1>2, <2>1 DEF Sounding, Ended
  <2>3. d <= End => Played(q, d)
    BY <1>2, <2>1 DEF Played
  <2>4. NotRunning(q)
    BY <1>2, <1>16 DEF OnTime, Playing, NotRunning, Stopped
  <2>5. Onward(q, e)
    BY <1>2, <1>12, <2>1, <2>4 DEF Onward, NotRunning
  <2> QED
    BY <1>12, <2>2, <2>3, <2>5 DEF Tuned, Audible, Patched
<1> QED
  BY <1>2, <1>12, <1>13, <1>14, <1>15, <1>16 DEF Carried, q, e, d

LEMMA TickContIs ==
  ASSUME NEW p, Sane(p), NEW d \in Nat
  PROVE  LET q == TickCont(p, d) IN
         /\ Sane(q)
         /\ q.state = p.state /\ q.elapsed = p.elapsed /\ q.pos = p.pos /\ q.play = AtTicks(d)
         /\ q.tempo = p.tempo /\ q.sound = p.sound /\ q.left = p.left /\ q.prog = p.prog
         /\ q.rcv = p.rcv /\ q.chase = p.chase
         /\ q.status["tempo"] = p.status["tempo"] /\ q.fTask["tempo"] = p.fTask["tempo"]
         /\ q.status["play"] = "running" /\ q.date["play"] = q.play.cur
         /\ p.state = "playing" => Exact(q, "play") /\ (Cardinality(Cell) > 1 => q.fTask["play"] # NULL)
<1> DEFINE r == TickSetPos(p, d)
           q == TickCont(p, d)
<1>1. /\ p \in Players /\ p.left \subseteq p.sound /\ Pointed(p) /\ Followed(p) /\ Met(p.chase)
      /\ p.state # "playing" => p.elapsed = 0
      /\ "play" \in TicksTask /\ "tempo" \in TicksTask \ {"play"}
  BY DEF Sane, TicksTask
<1>2. /\ r \in Players
      /\ r.state = p.state /\ r.pos = p.pos /\ r.elapsed = p.elapsed
      /\ r.play = AtTicks(d)
      /\ r.tempo = p.tempo /\ r.sound = p.sound /\ r.left = p.left /\ r.prog = p.prog
      /\ r.chase = p.chase /\ r.loop = p.loop /\ r.rcv = p.rcv
      /\ r.table = p.table /\ r.kernel = p.kernel /\ r.status = p.status
      /\ r.date = p.date /\ r.fTask = p.fTask
  BY <1>1, TickSetPosIs
<1>3. q = ScheduleTickTask(r, "play", r.play.cur)
  BY DEF TickCont, TickStart
<1> HIDE DEF r, q
<1>4. Pointed(r) /\ r.play.cur \in Date
  BY <1>1, <1>2, PointedSame, Fields, AnIterator
<1>5. /\ q \in Players /\ Pointed(q) /\ SameButKernel(r, q)
      /\ q.status["play"] = "running" /\ q.date["play"] = r.play.cur
      /\ SameTask(r, q, "tempo")
      /\ r.state = "playing" => Exact(q, "play") /\ (Cardinality(Cell) > 1 => q.fTask["play"] # NULL)
  BY <1>1, <1>2, <1>3, <1>4, ScheduleTickTaskIs
<1>6. /\ q.state = p.state /\ q.elapsed = p.elapsed /\ q.pos = p.pos /\ q.play = AtTicks(d)
      /\ q.play = r.play
      /\ q.tempo = p.tempo /\ q.sound = p.sound /\ q.left = p.left /\ q.prog = p.prog
      /\ q.chase = p.chase /\ q.rcv = p.rcv
      /\ q.status["tempo"] = p.status["tempo"] /\ q.fTask["tempo"] = p.fTask["tempo"]
  BY <1>2, <1>5 DEF SameButKernel, SameTask
<1>7. Sane(q)
  <2>1. SameTask(p, q, "tempo")
    BY <1>2, <1>5 DEF SameTask
  <2>2. Followed(q)
    BY <1>1, <1>6, <2>1, FollowedSame
  <2> QED
    BY <1>1, <1>5, <1>6, <2>2 DEF Sane
<1> QED
  BY <1>2, <1>5, <1>6, <1>7 DEF q

LEMMA TickContStep ==
  ASSUME NEW p, Sane(p), NEW c, Proper(c), c # <<>>, Op(c) = "TickCont"
  PROVE  Carried(p, c, TickCont(p, c[1].date), Tail(c))
<1> DEFINE d == c[1].date
           q == TickCont(p, d)
           e == Tail(c)
<1>1. d \in Nat
  BY ProperIs DEF Steps
<1>5. /\ Sane(q)
      /\ q.state = p.state /\ q.elapsed = p.elapsed /\ q.pos = p.pos /\ q.play = AtTicks(d)
      /\ q.tempo = p.tempo /\ q.sound = p.sound /\ q.left = p.left /\ q.prog = p.prog
      /\ q.rcv = p.rcv /\ q.chase = p.chase
      /\ q.status["tempo"] = p.status["tempo"] /\ q.fTask["tempo"] = p.fTask["tempo"]
      /\ q.status["play"] = "running" /\ q.date["play"] = q.play.cur
      /\ p.state = "playing" => Exact(q, "play") /\ (Cardinality(Cell) > 1 => q.fTask["play"] # NULL)
  BY <1>1, TickContIs
<1>6. q \in Players
  BY <1>5 DEF Sane
<1> HIDE DEF q
<1>8. Op(e) = "none" /\ Proper(e) /\ ~Renewing(c)
  BY NextOp, NotRenewing DEF Renews
<1>9. Quiet(q, e)
  BY <1>8 DEF Quiet
<1>10. NeverLate(p) => NeverLate(q)
  BY <1>5, NeverLateSame
<1>11. /\ q.play.cur \in Date /\ q.play.cur = Min({d, End}) /\ (q.play.last <=> d > End)
       /\ (d <= End => q.play.cur = d) /\ (d > End => q.play.cur = End)
  BY <1>1, <1>5, AtTicksIs
<1>12. ASSUME Cardinality(Cell) > 1, OnTime(p, c)
       PROVE  p.state = "playing" /\ OnTime(q, e)
  <2>1. p.state = "playing" /\ Ms[Min({d, End})] <= p.elapsed /\ Begun(p)
    BY <1>8, <1>12 DEF OnTime, Playing
  <2>2. Seen(q)
    <3>1. Ms[q.play.cur] <= q.elapsed /\ q.elapsed \in Nat /\ Ms[q.play.cur] \in Nat
      BY <1>5, <1>6, <1>11, <2>1, MsType, Fields
    <3>2. ASSUME NEW x \in Date, x < q.play.cur PROVE Ms[x] <= q.elapsed
      <4>1. x <= q.play.cur
        BY <1>11, <3>2 DEF Date
      <4>2. Ms[x] <= Ms[q.play.cur] /\ Ms[x] \in Nat
        BY <1>11, <4>1, MsGrows, MsType
      <4> QED
        BY <3>1, <4>2
    <3>3. q.play.last => q.play.cur = End
      BY <1>11
    <3> QED
      BY <3>1, <3>2, <3>3 DEF Seen
  <2>3. Begun(q)
    BY <1>5, <2>1, SameBase DEF Begun
  <2>4. Runs(q)
    BY <1>5, <1>12, <2>1 DEF Runs, Waits
  <2> QED
    BY <1>5, <1>8, <2>1, <2>2, <2>3, <2>4 DEF OnTime, Playing, Stopped
<1>13. ASSUME p.state = "playing", Tuned(p, c) PROVE Tuned(q, e)
  <2>1. Ended(p) /\ Onward(p, c) /\ (d <= End => Played(p, d))
    BY <1>8, <1>13 DEF Tuned, Audible, Patched
  <2>2. Sounding(q) /\ (~q.play.last => Played(q, q.play.cur))
    <3>1. Sounding(q)
      BY <1>5, <2>1 DEF Sounding, Ended
    <3>2. ~q.play.last => d <= End
      BY <1>1, <1>11, Positive
    <3> QED
      BY <1>5, <1>11, <2>1, <3>1, <3>2 DEF Played
  <2>3. From(q) <= q.play.cur
    <3>1. CASE q.chase.fresh
      <4>1. q.chase.date = d
        BY <1>5, <1>8, <2>1, <3>1 DEF Onward
      <4> QED
        BY <1>11, <3>1, <4>1 DEF From, Date
    <3>2. CASE ~q.chase.fresh
      BY <1>11, <3>2 DEF From, Date
    <3> QED
      BY <3>1, <3>2
  <2>4. Onward(q, e)
    BY <1>8, <2>3 DEF Onward
  <2> QED
    BY <1>5, <1>8, <1>13, <2>2, <2>4 DEF Tuned, Audible, Patched
<1> QED
  BY <1>5, <1>8, <1>9, <1>10, <1>12, <1>13 DEF Carried, q, e, d

LEMMA ChaseOnIs ==
  ASSUME NEW p \in Players, p.left \subseteq p.sound, Met(p.chase), NEW d \in Nat
  PROVE  LET q == ChaseOn(p, d) IN
         /\ q \in Players /\ Met(q.chase)
         /\ q.state = p.state /\ q.pos = p.pos /\ q.elapsed = p.elapsed /\ q.play = p.play
         /\ q.tempo = p.tempo /\ q.sound = p.sound /\ q.left = p.left
         /\ q.loop = p.loop /\ q.rcv = p.rcv
         /\ q.table = p.table /\ q.kernel = p.kernel /\ q.status = p.status
         /\ q.date = p.date /\ q.fTask = p.fTask
         /\ d <= End => Played(q, d)
         /\ q.chase.fresh => q.chase = p.chase /\ q.chase.date = d
<1> DEFINE r == ChaserSetPos(p.chase, d)
           g == IF r.prog = NULL THEN p.prog ELSE r.prog
           q == ChaseOn(p, d)
<1>1. p.chase \in Chasers /\ p.prog \in Programs
  BY Fields
<1>2. /\ r \in Chasers /\ Met(r)
      /\ r.fresh => r = p.chase /\ d = p.chase.date
      /\ ~r.fresh => r.from = Min({d, End + 1})
  BY <1>1, ChaserSetPosIs
<1>3. r.prog \in Programs
  BY <1>2, AChaser
<1>4. q = [p EXCEPT !.chase = r, !.prog = g]
  BY DEF ChaseOn
<1>5. ~r.fresh /\ d <= End /\ Before(d) # {} => g = Last(d)
  <2>1. Min({d, End + 1}) = IF d < End + 1 THEN d ELSE End + 1
    BY MinEnd
  <2>2. d <= End => Min({d, End + 1}) = d
    BY <2>1, Positive
  <2> HIDE DEF r
  <2> QED
    BY <1>2, <2>2, LastIs DEF Met
<1>6. g \in Programs
  BY <1>1, <1>3
<1> HIDE DEF r, g, q
<1> QED
  BY <1>2, <1>4, <1>5, <1>6 DEF Players, Played, q

\* The calls that Cont makes at the position pos.
ContCalls(pos, c) == (StepTo("SynchroCont", pos) \o StepTo("TickCont", pos)) \o c

LEMMA ContCallsIs ==
  ASSUME NEW pos \in Nat
  PROVE  LET e == ContCalls(pos, <<>>) IN
         /\ Proper(e) /\ Op(e) = "SynchroCont" /\ e[1].date = pos
         /\ \A i \in 1..Len(e) : e[i].date = pos
<1> DEFINE s == [op |-> "SynchroCont", date |-> pos]
           t == [op |-> "TickCont", date |-> pos]
           f == <<t>>
           e == <<s>> \o f
<1>1. s \in Steps /\ t \in Steps /\ Follows(s, t) /\ Ends(t)
  BY DEF Steps, Ops, Follows, Ends
<1>2. s.op = "SynchroCont" /\ s.date = pos /\ t.date = pos
  OBVIOUS
<1> HIDE DEF s, t
<1>3. f \in Seq(Steps) /\ Len(f) = 1 /\ f[1] = t /\ f # <<>>
  BY <1>1
<1> HIDE DEF f
<1>4. Proper(f)
  <2> SUFFICES ASSUME NEW i \in 1..Len(f)
               PROVE  IF i = Len(f) THEN Ends(f[i]) ELSE Follows(f[i], f[i + 1])
    BY <1>3 DEF Proper
  <2>1. i = 1
    BY <1>3
  <2> QED
    BY <1>1, <1>3, <2>1
<1>5. /\ Proper(e) /\ Op(e) = "SynchroCont" /\ e[1] = s
      /\ \A D : (\A i \in 1..Len(f) : f[i].date \in D) /\ s.date \in D
                => \A i \in 1..Len(e) : e[i].date \in D
  BY <1>1, <1>2, <1>3, <1>4, ProperConcat
<1>6. \A i \in 1..Len(f) : f[i].date \in {pos}
  BY <1>2, <1>3
<1>7. \A i \in 1..Len(e) : e[i].date \in {pos}
  BY <1>2, <1>5, <1>6
<1>8. ContCalls(pos, <<>>) = e
  <2>1. ContCalls(pos, <<>>) = e \o <<>>
    BY DEF ContCalls, StepTo, e, f, s, t
  <2>2. e \in Seq(Steps)
    BY <1>5 DEF Proper
  <2> HIDE DEF e
  <2> QED
    BY <2>1, <2>2, ConcatEmptySeq
<1> HIDE DEF e
<1> QED
  BY <1>2, <1>5, <1>7, <1>8

LEMMA ContStep ==
  ASSUME NEW p, Sane(p), NEW c, Proper(c), c # <<>>, Op(c) = "Cont", Quiet(p, c)
  PROVE  Carried(p, c, ChaseOn(p, GetPosTicks(p)), ContCalls(GetPosTicks(p), Tail(c)))
<1> DEFINE d == p.pos
           q == ChaseOn(p, d)
           e == ContCalls(d, Tail(c))
<1>1. /\ p \in Players /\ p.left \subseteq p.sound /\ Pointed(p) /\ Followed(p) /\ Met(p.chase)
      /\ p.state # "playing" => p.elapsed = 0
      /\ d \in Nat
  BY Fields DEF Sane
<1>2. /\ q \in Players /\ Met(q.chase)
      /\ q.state = p.state /\ q.pos = p.pos /\ q.elapsed = p.elapsed /\ q.play = p.play
      /\ q.tempo = p.tempo /\ q.sound = p.sound /\ q.left = p.left
      /\ q.loop = p.loop /\ q.rcv = p.rcv
      /\ q.table = p.table /\ q.kernel = p.kernel /\ q.status = p.status
      /\ q.date = p.date /\ q.fTask = p.fTask
      /\ d <= End => Played(q, d)
      /\ q.chase.fresh => q.chase = p.chase /\ q.chase.date = d
  BY <1>1, ChaseOnIs
<1>3. p.state # "playing"
  BY DEF Quiet
<1>4. GetPosTicks(p) = d
  BY <1>3 DEF GetPosTicks
<1>5. ~Renewing(c) /\ e = ContCalls(d, <<>>)
  BY NextOp, NoneIs, NotRenewing DEF Renews
<1>6. /\ Proper(e) /\ Op(e) = "SynchroCont" /\ e[1].date = d
      /\ \A i \in 1..Len(e) : e[i].date = d
  BY <1>1, <1>5, ContCallsIs
<1> HIDE DEF q, d, e
<1>7. Sane(q)
  <2>1. Pointed(q)
    BY <1>1, <1>2, PointedSame
  <2>2. Followed(q)
    BY <1>1, <1>2, <1>3 DEF Followed
  <2> QED
    BY <1>1, <1>2, <1>3, <2>1, <2>2 DEF Sane
<1>8. NeverLate(q) /\ Quiet(q, e)
  BY <1>2, <1>3 DEF NeverLate, Quiet
<1>9. OnTime(p, c) => OnTime(q, e)
  BY <1>2, <1>3, <1>6 DEF OnTime, Playing, Begun, NotRunning, Stopped
<1>10. ASSUME OnTime(p, c), Tuned(p, c) PROVE Tuned(q, e)
  <2>1. (p.state = "idle" => Ended(p))
    BY <1>5, <1>10 DEF Tuned, Audible
  <2>2. Sounding(q) /\ (q.state = "idle" => Ended(q))
    <3>1. Sounding(p)
      BY <1>5, <1>10 DEF Tuned, Audible
    <3>2. From(p) \in Nat /\ From(q) \in Nat /\ From(q) <= From(p)
      <4>1. From(p) \in Nat
        BY <1>1, FromType
      <4>2. CASE q.chase.fresh
        <5>1. From(q) = From(p)
          BY <1>2, <4>2 DEF From
        <5>2. \A n \in Nat : n <= n
          OBVIOUS
        <5> QED
          BY <4>1, <5>1, <5>2
      <4>3. CASE ~q.chase.fresh
        BY <4>1, <4>3 DEF From
      <4> QED
        BY <4>2, <4>3
    <3>3. ASSUME NEW n \in HeldFrom(p.play.cur, From(p))
          PROVE  n \in HeldFrom(q.play.cur, From(q))
      <4>1. n \in Held(q.play.cur) /\ From(p) <= n[1]
        BY <1>2 DEF HeldFrom
      <4>2. n[1] \in Nat
        BY <4>1, PlayerAssumption DEF Held, Date
      <4> QED
        BY <3>2, <4>1, <4>2 DEF HeldFrom
    <3> QED
      BY <1>2, <2>1, <3>1, <3>3 DEF Sounding, Ended
  <2>4. d <= End => Played(q, d)
    BY <1>2
  <2>5. NotRunning(q)
    BY <1>2, <1>10 DEF OnTime, Playing, NotRunning, Stopped
  <2>6. Onward(q, e)
    BY <1>2, <1>6, <2>5 DEF Onward, NotRunning
  <2> QED
    BY <1>6, <2>2, <2>4, <2>6 DEF Tuned, Audible, Patched
<1> QED
  BY <1>2, <1>4, <1>6, <1>7, <1>8, <1>9, <1>10 DEF Carried, q, e

(***************************************************************************)
(* A call of the user, from its first call to its last.                    *)
(***************************************************************************)
\* The calls that are still to make after the first of c, with those of Cont.
Rest(p, c) ==
  (IF Head(c).op = "Cont"
   THEN StepTo("SynchroCont", GetPosTicks(p)) \o StepTo("TickCont", GetPosTicks(p))
   ELSE <<>>) \o Tail(c)

LEMMA DoneCarried ==
  ASSUME NEW p, Sane(p), NEW c, Proper(c), c # <<>>, Quiet(p, c)
  PROVE  Carried(p, c, Done(p, Head(c)), Rest(p, c))
<1> DEFINE o == Op(c)
           e == Tail(c)
<1> SUFFICES ASSUME NEW h, h = Head(c)
             PROVE  Carried(p, c, Done(p, h), Rest(p, c))
  OBVIOUS
<1>1. h = c[1] /\ h.op = o /\ o \in Ops /\ e \in Seq(Steps)
  BY ProperIs, NoneIs
<1>2. o # "Cont" => Rest(p, c) = e
  <2>1. o # "Cont" => Rest(p, c) = <<>> \o e
    BY <1>1 DEF Rest
  <2>2. <<>> \o e = e
    BY <1>1, ConcatEmptySeq
  <2> QED
    BY <2>1, <2>2
<1>3. o = "Cont" => Rest(p, c) = ContCalls(GetPosTicks(p), e)
  BY <1>1 DEF Rest, ContCalls
<1>4. CASE o = "SynchroStop"
  BY <1>1, <1>2, <1>4, SynchroStopStep DEF Done
<1>5. CASE o = "TickStop"
  BY <1>1, <1>2, <1>5, TickStopStep DEF Done
<1>6. CASE o = "Init"
  BY <1>1, <1>2, <1>6, InitStep DEF Done
<1>7. CASE o = "SynchroStart"
  BY <1>1, <1>2, <1>7, SynchroStartStep DEF Done
<1>8. CASE o = "TickStart"
  BY <1>1, <1>2, <1>8, TickStartStep DEF Done
<1>9. CASE o = "SynchroSetPos"
  BY <1>1, <1>2, <1>9, SynchroSetPosStep DEF Done
<1>10. CASE o = "TickSetPos"
  BY <1>1, <1>2, <1>10, TickSetPosStep DEF Done
<1>11. CASE o = "ChaseOff"
  BY <1>1, <1>2, <1>11, ChaseOffStep DEF Done
<1>12. CASE o = "Cont"
  BY <1>1, <1>3, <1>12, ContStep DEF Done
<1>13. CASE o = "SynchroCont"
  BY <1>1, <1>2, <1>13, SynchroContStep DEF Done
<1>14. CASE o = "TickCont"
  BY <1>1, <1>2, <1>14, TickContStep DEF Done
<1>15. CASE o = "SetPause"
  BY <1>1, <1>2, <1>15, SetPauseStep DEF Done
<1> QED
  BY <1>1, <1>4, <1>5, <1>6, <1>7, <1>8, <1>9, <1>10, <1>11, <1>12, <1>13, <1>14, <1>15
  DEF Ops

\* The calls that a call of the user begins with.
LEMMA Single ==
  ASSUME NEW s \in Steps, Ends(s)
  PROVE  /\ Proper(<<s>>) /\ <<s>> # <<>> /\ <<s>>[1] = s /\ Op(<<s>>) = s.op
         /\ Starting(<<s>>) <=> s.op = "TickStart"
         /\ \A D : s.date \in D => \A i \in 1..Len(<<s>>) : <<s>>[i].date \in D
<1> DEFINE t == <<s>>
<1>1. t \in Seq(Steps) /\ Len(t) = 1 /\ t[1] = s /\ t # <<>>
  OBVIOUS
<1> HIDE DEF t
<1>2. \A i \in 1..Len(t) : i = 1
  BY <1>1
<1> QED
  BY <1>1, <1>2 DEF Proper, Op, Starting, t

LEMMA TailOf ==
  ASSUME NEW s \in Steps, NEW c \in Seq(Steps)
  PROVE  Head(<<s>> \o c) = s /\ Tail(<<s>> \o c) = c
<1> DEFINE t == <<s>>
           e == t \o c
           f == Tail(e)
           n == Len(c)
<1>1. t \in Seq(Steps) /\ Len(t) = 1 /\ t[1] = s
  OBVIOUS
<1> HIDE DEF t
<1>2. /\ e \in Seq(Steps) /\ Len(e) = 1 + n /\ n \in Nat
      /\ \A i \in 1..(1 + n) : e[i] = IF i <= 1 THEN t[i] ELSE c[i - 1]
  <2>1. n \in Nat /\ n = Len(c)
    BY LenProperties
  <2>2. /\ t \o c \in Seq(Steps) /\ Len(t \o c) = Len(t) + Len(c)
        /\ \A i \in 1..(Len(t) + Len(c)) :
             (t \o c)[i] = IF i <= Len(t) THEN t[i] ELSE c[i - Len(t)]
    BY <1>1, ConcatProperties
  <2>3. Len(t) = 1 /\ Len(c) = n /\ t \o c = e
    BY <1>1
  <2> HIDE DEF e, n
  <2> QED
    BY <2>1, <2>2, <2>3
<1> HIDE DEF e
<1>3. e # <<>>
  <2> DEFINE l == Len(e)
  <2>1. l # 0
    <3> HIDE DEF n
    <3> QED
      BY <1>2
  <2> QED
    BY <2>1
<1>4. Head(e) = e[1] /\ f \in Seq(Steps) /\ Len(f) = Len(e) - 1 /\ \A i \in 1..Len(f) : f[i] = e[i + 1]
  BY <1>2, <1>3, HeadTailProperties
<1>5. Len(f) = n
  BY <1>2, <1>4
<1>6. \A i \in 1..n : f[i] = c[i]
  <2> SUFFICES ASSUME NEW i \in 1..n PROVE f[i] = c[i]
    OBVIOUS
  <2>1. i + 1 \in 1..(1 + n) /\ ~(i + 1 <= 1) /\ (i + 1) - 1 = i
    BY <1>2
  <2>2. f[i] = e[i + 1] /\ e[i + 1] = c[(i + 1) - 1]
    BY <1>2, <1>4, <1>5, <2>1
  <2> QED
    BY <2>1, <2>2
<1> HIDE DEF f
<1>7. f = c
  BY <1>4, <1>5, <1>6, SeqEqual
<1>8. e[1] = s
  <2>1. 1 \in 1..(1 + n) /\ 1 <= 1
    BY <1>2
  <2> QED
    BY <1>1, <1>2, <2>1
<1> QED
  BY <1>4, <1>7, <1>8 DEF e, f, t

LEMMA StepIs ==
  ASSUME NEW o \in Ops, NEW d \in Nat, d = 0 \/ o \notin {"SynchroStart", "TickStart"}
  PROVE  /\ [op |-> o, date |-> d] \in Steps
         /\ StepTo(o, d) = <<[op |-> o, date |-> d]>>
         /\ Step(o) = StepTo(o, 0)
BY DEF Steps, Step, StepTo

\* The call o at date d, and then the calls r.
LEMMA Then ==
  ASSUME NEW o \in Ops, NEW d \in Nat, d = 0 \/ o \notin {"SynchroStart", "TickStart"},
         NEW r, Proper(r), r # <<>>, Follows([op |-> o, date |-> d], r[1])
  PROVE  LET c == StepTo(o, d) \o r IN
         /\ Proper(c) /\ c # <<>> /\ Op(c) = o /\ c[1].op = o /\ c[1].date = d
         /\ Starting(c) <=> Starting(r)
         /\ \A D : (\A i \in 1..Len(r) : r[i].date \in D) /\ d \in D
                   => \A i \in 1..Len(c) : c[i].date \in D
         /\ Tail(c) = r
<1> DEFINE s == [op |-> o, date |-> d]
<1>1. s \in Steps /\ StepTo(o, d) = <<s>>
  BY StepIs
<1>2. s.op = o /\ s.date = d /\ Follows(s, r[1]) /\ r \in Seq(Steps)
  BY DEF Proper
<1> HIDE DEF s
<1>3. /\ Proper(<<s>> \o r) /\ <<s>> \o r # <<>> /\ Op(<<s>> \o r) = s.op
      /\ (<<s>> \o r)[1] = s
      /\ Starting(<<s>> \o r) <=> Starting(r)
      /\ \A D : (\A i \in 1..Len(r) : r[i].date \in D) /\ s.date \in D
                => \A i \in 1..Len(<<s>> \o r) : (<<s>> \o r)[i].date \in D
  BY <1>1, <1>2, ProperConcat
<1>4. Tail(<<s>> \o r) = r
  BY <1>1, <1>2, TailOf
<1> QED
  BY <1>1, <1>2, <1>3, <1>4

\* The last call.
LEMMA Ultimate ==
  ASSUME NEW o \in Ops, o \in {"ChaseOff", "TickStart", "TickSetPos", "Cont", "SetPause"},
         NEW d \in Nat, d = 0 \/ o # "TickStart"
  PROVE  LET c == StepTo(o, d) IN
         /\ Proper(c) /\ c # <<>> /\ Op(c) = o /\ c[1].op = o /\ c[1].date = d
         /\ Starting(c) <=> o = "TickStart"
         /\ \A D : d \in D => \A i \in 1..Len(c) : c[i].date \in D
<1> DEFINE s == [op |-> o, date |-> d]
<1>1. s \in Steps /\ StepTo(o, d) = <<s>> /\ Ends(s)
  BY StepIs DEF Ends
<1>2. s.op = o /\ s.date = d
  OBVIOUS
<1> HIDE DEF s
<1> QED
  BY <1>1, <1>2, Single

\* What is known of the calls c, when r comes after the first of them.
Begins(c, o, r) ==
  /\ Proper(c) /\ c # <<>> /\ Op(c) = o /\ c[1].op = o /\ Tail(c) = r
  /\ Starting(c) <=> Starting(r)
  /\ \A D : (\A i \in 1..Len(r) : r[i].date \in D) /\ 0 \in D
            => \A i \in 1..Len(c) : c[i].date \in D

LEMMA StepThen ==
  ASSUME NEW o \in Ops, NEW r, Proper(r), r # <<>>, Follows([op |-> o, date |-> 0], r[1])
  PROVE  Begins(Step(o) \o r, o, r)
<1>1. Step(o) = StepTo(o, 0)
  BY DEF Step, StepTo
<1>2. LET c == StepTo(o, 0) \o r IN
      /\ Proper(c) /\ c # <<>> /\ Op(c) = o /\ c[1].op = o
      /\ Starting(c) <=> Starting(r)
      /\ \A D : (\A i \in 1..Len(r) : r[i].date \in D) /\ 0 \in D
                => \A i \in 1..Len(c) : c[i].date \in D
      /\ Tail(c) = r
  BY Then
<1> QED
  BY <1>1, <1>2 DEF Begins

\* The synchroniser and the tick player are stopped, and then the calls r.
LEMMA HaltThen ==
  ASSUME NEW r, Proper(r), r # <<>>, r[1].op \in {"ChaseOff", "SetPause"}
  PROVE  LET y == Step("TickStop") \o r
             z == (Step("SynchroStop") \o Step("TickStop")) \o r IN
         Begins(y, "TickStop", r) /\ Begins(z, "SynchroStop", y)
<1> DEFINE a == Step("SynchroStop")
           b == Step("TickStop")
           y == b \o r
           z == a \o y
<1>1. a \in Seq(Steps) /\ b \in Seq(Steps) /\ r \in Seq(Steps)
  <2>1. /\ [op |-> "SynchroStop", date |-> 0] \in Steps
        /\ [op |-> "TickStop", date |-> 0] \in Steps
    BY DEF Steps, Ops
  <2> QED
    BY <2>1 DEF Step, Proper
<1>2. Begins(y, "TickStop", r)
  <2>1. Follows([op |-> "TickStop", date |-> 0], r[1]) /\ "TickStop" \in Ops
    BY DEF Follows, Ops
  <2> QED
    BY <2>1, StepThen
<1> HIDE DEF y
<1>3. Begins(z, "SynchroStop", y)
  <2>1. Proper(y) /\ y # <<>> /\ y[1].op = "TickStop"
    BY <1>2 DEF Begins
  <2>2. Follows([op |-> "SynchroStop", date |-> 0], y[1]) /\ "SynchroStop" \in Ops
    BY <2>1 DEF Follows, Ops
  <2> QED
    BY <2>1, <2>2, StepThen
<1>4. (a \o b) \o r = a \o (b \o r)
  <2> HIDE DEF a, b
  <2> QED
    BY <1>1, ConcatAssociative
<1> QED
  BY <1>2, <1>3, <1>4 DEF y

\* The calls of Stop.
LEMMA StopIs ==
  LET k == Step("ChaseOff")
      y == Step("TickStop") \o k IN
  /\ Begins(StopCalls, "SynchroStop", y) /\ Begins(y, "TickStop", k)
  /\ Proper(k) /\ Op(k) = "ChaseOff" /\ Tail(k) = <<>> /\ k # <<>>
  /\ ~Starting(StopCalls) /\ \A i \in 1..Len(StopCalls) : StopCalls[i].date \in {0}
<1> DEFINE k == Step("ChaseOff")
           y == Step("TickStop") \o k
<1>1. /\ Proper(k) /\ k # <<>> /\ Op(k) = "ChaseOff" /\ k[1].op = "ChaseOff" /\ ~Starting(k)
      /\ \A i \in 1..Len(k) : k[i].date \in {0}
  <2>1. k = StepTo("ChaseOff", 0) /\ "ChaseOff" \in Ops
    BY DEF Step, StepTo, Ops
  <2> HIDE DEF k
  <2> QED
    BY <2>1, Ultimate
<1>2. Tail(k) = <<>>
  BY DEF Step
<1> HIDE DEF k
<1>3. Begins(y, "TickStop", k) /\ Begins(StopCalls, "SynchroStop", y)
  BY <1>1, HaltThen DEF StopCalls, k
<1> HIDE DEF y
<1>4. \A i \in 1..Len(y) : y[i].date \in {0}
  BY <1>1, <1>3 DEF Begins
<1>5. \A i \in 1..Len(StopCalls) : StopCalls[i].date \in {0}
  BY <1>3, <1>4 DEF Begins
<1>6. ~Starting(StopCalls)
  BY <1>1, <1>3 DEF Begins
<1> QED
  BY <1>1, <1>2, <1>3, <1>5, <1>6 DEF k, y

\* And those of Stop before the calls r.
LEMMA StopThen ==
  ASSUME NEW r, Proper(r), r # <<>>, r[1].op \in {"Init", "SynchroSetPos", "Cont"}
  PROVE  LET x == Step("ChaseOff") \o r
             y == Step("TickStop") \o x
             c == StopCalls \o r IN
         Begins(x, "ChaseOff", r) /\ Begins(y, "TickStop", x) /\ Begins(c, "SynchroStop", y)
<1> DEFINE k == Step("ChaseOff")
           x == k \o r
           y == Step("TickStop") \o x
           h == Step("SynchroStop") \o Step("TickStop")
<1>1. h \in Seq(Steps) /\ k \in Seq(Steps) /\ r \in Seq(Steps)
  <2>1. /\ [op |-> "SynchroStop", date |-> 0] \in Steps
        /\ [op |-> "TickStop", date |-> 0] \in Steps
        /\ [op |-> "ChaseOff", date |-> 0] \in Steps
    BY DEF Steps, Ops
  <2>2. Step("SynchroStop") \in Seq(Steps) /\ Step("TickStop") \in Seq(Steps) /\ k \in Seq(Steps)
    BY <2>1 DEF Step
  <2> QED
    BY <2>2, ConcatProperties DEF Proper
<1>2. Begins(x, "ChaseOff", r)
  <2>1. Follows([op |-> "ChaseOff", date |-> 0], r[1]) /\ "ChaseOff" \in Ops
    BY DEF Follows, Ops
  <2> QED
    BY <2>1, StepThen
<1>3. (h \o k) \o r = h \o (k \o r)
  <2> HIDE DEF h, k
  <2> QED
    BY <1>1, ConcatAssociative
<1> HIDE DEF x
<1>4. Proper(x) /\ x # <<>> /\ x[1].op = "ChaseOff"
  BY <1>2 DEF Begins
<1>5. Begins(y, "TickStop", x) /\ Begins(h \o x, "SynchroStop", y)
  BY <1>4, HaltThen
<1>6. StopCalls \o r = h \o x
  BY <1>3 DEF StopCalls, x
<1> QED
  BY <1>2, <1>5, <1>6 DEF x

\* The calls of SetPosTicks before the calls r.
LEMMA SetThen ==
  ASSUME NEW d \in Nat, NEW r, r = <<>> \/ (Proper(r) /\ r # <<>> /\ r[1].op = "Cont")
  PROVE  LET y == StepTo("TickSetPos", d) \o r
             c == SetCalls(d) \o r IN
         /\ Proper(c) /\ c # <<>> /\ Op(c) = "SynchroSetPos" /\ c[1].op = "SynchroSetPos"
         /\ c[1].date = d /\ Tail(c) = y /\ (Starting(c) <=> Starting(r))
         /\ Proper(y) /\ y # <<>> /\ Op(y) = "TickSetPos" /\ y[1].date = d /\ Tail(y) = r
         /\ \A D : (\A i \in 1..Len(r) : r[i].date \in D) /\ d \in D
                   => \A i \in 1..Len(c) : c[i].date \in D
<1> DEFINE s == [op |-> "TickSetPos", date |-> d]
           t == [op |-> "SynchroSetPos", date |-> d]
           a == StepTo("SynchroSetPos", d)
           b == StepTo("TickSetPos", d)
           y == b \o r
           c == a \o y
<1>1. s \in Steps /\ t \in Steps /\ "TickSetPos" \in Ops /\ "SynchroSetPos" \in Ops
  BY DEF Steps, Ops
<1>2. a \in Seq(Steps) /\ b \in Seq(Steps) /\ r \in Seq(Steps)
  <2>1. a \in Seq(Steps) /\ b \in Seq(Steps)
    BY <1>1 DEF StepTo
  <2>2. r \in Seq(Steps)
    <3>1. <<>> \in Seq(Steps)
      OBVIOUS
    <3> QED
      BY <3>1 DEF Proper
  <2> QED
    BY <2>1, <2>2
<1>3. /\ Proper(y) /\ y # <<>> /\ Op(y) = "TickSetPos" /\ y[1].op = "TickSetPos" /\ y[1].date = d
      /\ (Starting(y) <=> Starting(r)) /\ Tail(y) = r
      /\ \A D : (\A i \in 1..Len(r) : r[i].date \in D) /\ d \in D
                => \A i \in 1..Len(y) : y[i].date \in D
  <2>1. CASE r = <<>>
    <3>1. y = b
      <4> HIDE DEF b
      <4> QED
        BY <1>2, <2>1, ConcatEmptySeq
    <3>2. Tail(b) = <<>>
      BY DEF StepTo
    <3>3. ~Starting(r)
      BY <2>1 DEF Starting
    <3>4. /\ Proper(b) /\ b # <<>> /\ Op(b) = "TickSetPos" /\ b[1].op = "TickSetPos"
          /\ b[1].date = d /\ ~Starting(b)
          /\ \A D : d \in D => \A i \in 1..Len(b) : b[i].date \in D
      BY <1>1, Ultimate
    <3> HIDE DEF b, y
    <3> QED
      BY <2>1, <3>1, <3>2, <3>3, <3>4
  <2>2. CASE r # <<>>
    <3>1. Follows(s, r[1])
      BY <2>2 DEF Follows
    <3> QED
      BY <1>1, <2>2, <3>1, Then
  <2> QED
    BY <2>1, <2>2
<1> HIDE DEF b, y
<1>4. /\ Proper(c) /\ c # <<>> /\ Op(c) = "SynchroSetPos" /\ c[1].op = "SynchroSetPos"
      /\ c[1].date = d /\ (Starting(c) <=> Starting(y)) /\ Tail(c) = y
      /\ \A D : (\A i \in 1..Len(y) : y[i].date \in D) /\ d \in D
                => \A i \in 1..Len(c) : c[i].date \in D
  <2>1. Follows(t, y[1])
    BY <1>3 DEF Follows
  <2> QED
    BY <1>1, <1>3, <2>1, Then
<1>5. (a \o b) \o r = a \o (b \o r)
  <2> HIDE DEF a
  <2> QED
    BY <1>2, ConcatAssociative
<1>6. SetCalls(d) \o r = c
  BY <1>5 DEF SetCalls, b, y
<1> HIDE DEF a, c
<1> QED
  BY <1>3, <1>4, <1>6 DEF b, y

\* What a call of the user may begin with; the dates of its calls are in D.
Enters(p, c) ==
  /\ Proper(c) /\ c # <<>>
  /\ \/ Op(c) = "SynchroStop"
     \/ p.state # "playing" /\ Op(c) \in {"Init", "SynchroSetPos", "Cont"}

LEMMA NoCalls ==
  /\ Op(<<>>) = "none" /\ ~Renewing(<<>>) /\ Proper(<<>>)
<1>1. Proper(<<>>)
  <2>1. <<>> \in Seq(Steps) /\ Len(<<>>) = 0
    OBVIOUS
  <2> QED
    BY <2>1 DEF Proper
<1> QED
  BY <1>1 DEF Op, Renewing, Starting

\* When a call of the user begins.
LEMMA Entry ==
  ASSUME NEW p \in Players, NEW c, Enters(p, c)
  PROVE  /\ Quiet(p, c)
         /\ Renewing(c) \/ OnTime(p, <<>>) => OnTime(p, c)
         /\ Renewing(c) \/ Tuned(p, <<>>) => Tuned(p, c)
<1>1. /\ Op(c) \in {"SynchroStop", "Init", "SynchroSetPos", "Cont"}
      /\ Op(c) = "SynchroStop" \/ p.state # "playing"
  BY DEF Enters
<1>2. Quiet(p, c)
  BY <1>1 DEF Quiet
<1>3. Renewing(c) => Op(c) \in {"SynchroStop", "Init"}
  BY <1>1 DEF Renewing
<1>4. CASE Renewing(c)
  <2>1. OnTime(p, c)
    BY <1>3, <1>4 DEF OnTime, Playing, Stopped
  <2>2. Tuned(p, c)
    BY <1>3, <1>4 DEF Tuned, Audible, Patched
  <2> QED
    BY <1>2, <2>1, <2>2
<1>5. CASE ~Renewing(c)
  <2>1. ASSUME OnTime(p, <<>>) PROVE OnTime(p, c)
    <3>1. Begun(p) /\ (p.state # "playing" => NotRunning(p))
      BY <2>1, NoCalls DEF OnTime, Playing
    <3> QED
      BY <1>1, <3>1 DEF OnTime, Playing, Stopped
  <2>2. ASSUME Tuned(p, <<>>) PROVE Tuned(p, c)
    <3>1. Sounding(p) /\ (p.state = "idle" => Ended(p)) /\ Onward(p, <<>>)
      BY <2>2, NoCalls DEF Tuned, Audible
    <3>3. Onward(p, c)
      BY <1>1, <3>1, OnwardSame
    <3>4. Op(c) \in {"SynchroSetPos", "Cont", "SynchroStop", "Init"}
      BY <1>1
    <3> QED
      BY <3>1, <3>3, <3>4 DEF Tuned, Audible, Patched
  <2> QED
    BY <1>2, <1>5, <2>1, <2>2
<1> QED
  BY <1>4, <1>5

LEMMA ContIs ==
  LET k == Step("Cont") IN
  /\ Proper(k) /\ k # <<>> /\ Op(k) = "Cont" /\ k[1].op = "Cont" /\ ~Starting(k)
  /\ \A i \in 1..Len(k) : k[i].date \in {0}
  /\ Tail(k) = <<>>
<1> DEFINE k == Step("Cont")
<1>1. k = StepTo("Cont", 0) /\ "Cont" \in Ops
  BY DEF Step, StepTo, Ops
<1>2. Tail(k) = <<>>
  BY DEF Step
<1> HIDE DEF k
<1>3. /\ Proper(k) /\ k # <<>> /\ Op(k) = "Cont" /\ k[1].op = "Cont" /\ ~Starting(k)
      /\ \A i \in 1..Len(k) : k[i].date \in {0}
  BY <1>1, Ultimate
<1> QED
  BY <1>2, <1>3 DEF k

StartCalls(p) ==
  (IF Stops(p) THEN StopCalls ELSE <<>>) \o Step("Init") \o Step("SynchroStart") \o Step("TickStart")

LEMMA StartEnters ==
  ASSUME NEW p \in Players
  PROVE  Enters(p, StartCalls(p)) /\ Renewing(StartCalls(p))
<1> DEFINE k == Step("TickStart")
           j == Step("SynchroStart")
           i == Step("Init")
           y == j \o k
           x == i \o y
           h == IF Stops(p) THEN StopCalls ELSE <<>>
           c == h \o x
<1>1. i \in Seq(Steps) /\ j \in Seq(Steps) /\ k \in Seq(Steps) /\ h \in Seq(Steps)
  <2>1. /\ [op |-> "TickStart", date |-> 0] \in Steps
        /\ [op |-> "SynchroStart", date |-> 0] \in Steps
        /\ [op |-> "Init", date |-> 0] \in Steps
    BY DEF Steps, Ops
  <2>2. i \in Seq(Steps) /\ j \in Seq(Steps) /\ k \in Seq(Steps)
    BY <2>1 DEF Step
  <2>3. StopCalls \in Seq(Steps) /\ <<>> \in Seq(Steps)
    BY StopIs DEF Begins, Proper
  <2> QED
    BY <2>2, <2>3
<1>2. /\ Proper(k) /\ k # <<>> /\ k[1].op = "TickStart" /\ Starting(k)
      /\ \A n \in 1..Len(k) : k[n].date \in {0}
  <2>1. k = StepTo("TickStart", 0) /\ "TickStart" \in Ops
    BY DEF Step, StepTo, Ops
  <2> HIDE DEF k
  <2> QED
    BY <2>1, Ultimate
<1> HIDE DEF k
<1>3. Begins(y, "SynchroStart", k)
  <2>1. Follows([op |-> "SynchroStart", date |-> 0], k[1]) /\ "SynchroStart" \in Ops
    BY <1>2 DEF Follows, Ops
  <2> QED
    BY <1>2, <2>1, StepThen
<1> HIDE DEF y
<1>4. Begins(x, "Init", y)
  <2>1. Follows([op |-> "Init", date |-> 0], y[1]) /\ "Init" \in Ops
    BY <1>3 DEF Begins, Follows, Ops
  <2> QED
    BY <1>3, <2>1, StepThen DEF Begins
<1>5. StartCalls(p) = c
  <2>1. ((h \o i) \o j) \o k = h \o (i \o (j \o k))
    <3> HIDE DEF h, i, j
    <3>1. h \o i \in Seq(Steps) /\ j \o k \in Seq(Steps)
      BY <1>1, ConcatProperties
    <3>2. ((h \o i) \o j) \o k = (h \o i) \o (j \o k)
      BY <1>1, <3>1, ConcatAssociative
    <3>3. (h \o i) \o (j \o k) = h \o (i \o (j \o k))
      BY <1>1, <3>1, ConcatAssociative
    <3> QED
      BY <3>2, <3>3
  <2> QED
    BY <2>1 DEF StartCalls, y, k
<1> HIDE DEF x
<1>6. /\ Proper(x) /\ x # <<>> /\ x[1].op = "Init" /\ Op(x) = "Init" /\ Starting(x)
      /\ \A n \in 1..Len(x) : x[n].date \in {0}
  BY <1>2, <1>3, <1>4 DEF Begins
<1>7. CASE Stops(p)
  <2> DEFINE z == StopCalls \o x
  <2>1. \E r : Begins(z, "SynchroStop", r) /\ Starting(r) /\ \A n \in 1..Len(r) : r[n].date \in {0}
    <3>1. LET u == Step("ChaseOff") \o x
              w == Step("TickStop") \o u IN
          Begins(u, "ChaseOff", x) /\ Begins(w, "TickStop", u) /\ Begins(z, "SynchroStop", w)
      BY <1>6, StopThen
    <3> QED
      BY <1>6, <3>1 DEF Begins
  <2>2. c = z
    BY <1>7
  <2> HIDE DEF c, z
  <2> QED
    BY <1>5, <2>1, <2>2 DEF Begins, Enters, Renewing
<1>8. CASE ~Stops(p)
  <2>1. c = x
    <3>1. c = <<>> \o x /\ x \in Seq(Steps)
      BY <1>6, <1>8 DEF Proper
    <3> QED
      BY <3>1, ConcatEmptySeq
  <2>2. p.state # "playing"
    BY <1>8 DEF Stops
  <2> HIDE DEF c
  <2> QED
    BY <1>5, <1>6, <2>1, <2>2 DEF Enters, Renewing
<1> QED
  BY <1>7, <1>8

LEMMA StopEnters ==
  ASSUME NEW p
  PROVE  Enters(p, StopCalls)
BY StopIs DEF Enters, Begins

LEMMA PauseEnters ==
  ASSUME NEW p
  PROVE  Enters(p, Step("SynchroStop") \o Step("TickStop") \o Step("SetPause"))
<1> DEFINE k == Step("SetPause")
           c == (Step("SynchroStop") \o Step("TickStop")) \o k
<1>1. /\ Proper(k) /\ k # <<>> /\ k[1].op = "SetPause"
      /\ \A i \in 1..Len(k) : k[i].date \in {0}
  <2>1. k = StepTo("SetPause", 0) /\ "SetPause" \in Ops
    BY DEF Step, StepTo, Ops
  <2> HIDE DEF k
  <2> QED
    BY <2>1, Ultimate
<1> HIDE DEF k
<1>2. \E y : Begins(y, "TickStop", k) /\ Begins(c, "SynchroStop", y)
  BY <1>1, HaltThen
<1> HIDE DEF c
<1>3. Enters(p, c)
  BY <1>1, <1>2 DEF Begins, Enters
<1> QED
  BY <1>3 DEF c, k

LEMMA ContEnters ==
  ASSUME NEW p, p.state # "playing"
  PROVE  Enters(p, Step("Cont"))
BY ContIs DEF Enters

LEMMA SetParamEnters ==
  ASSUME NEW p
  PROVE  Enters(p, StopCalls \o Step("Cont"))
<1> DEFINE k == Step("Cont")
           c == StopCalls \o k
<1>1. /\ Proper(k) /\ k # <<>> /\ k[1].op = "Cont"
      /\ \A i \in 1..Len(k) : k[i].date \in {0}
  BY ContIs
<1> HIDE DEF k
<1>2. \E x, y : Begins(x, "ChaseOff", k) /\ Begins(y, "TickStop", x) /\ Begins(c, "SynchroStop", y)
  BY <1>1, StopThen
<1> HIDE DEF c
<1>3. Enters(p, c)
  BY <1>1, <1>2 DEF Begins, Enters
<1> QED
  BY <1>3 DEF c, k

LEMMA SetEnters ==
  ASSUME NEW p, p.state # "playing", NEW d \in Nat
  PROVE  /\ Enters(p, SetCalls(d))
         /\ LET y == StepTo("TickSetPos", d) IN
            /\ SetCalls(d)[1].date = d /\ Op(SetCalls(d)) = "SynchroSetPos"
            /\ Tail(SetCalls(d)) = y
            /\ Proper(y) /\ y # <<>> /\ Op(y) = "TickSetPos" /\ y[1].date = d /\ Tail(y) = <<>>
<1> DEFINE b == StepTo("TickSetPos", d)
           c == SetCalls(d)
<1>1. b \o <<>> = b /\ c \o <<>> = c
  <2>1. /\ [op |-> "TickSetPos", date |-> d] \in Steps
        /\ [op |-> "SynchroSetPos", date |-> d] \in Steps
    BY DEF Steps, Ops
  <2>2. b \in Seq(Steps) /\ StepTo("SynchroSetPos", d) \in Seq(Steps)
    BY <2>1 DEF StepTo
  <2> HIDE DEF b
  <2>3. c \in Seq(Steps)
    BY <2>2, ConcatProperties DEF SetCalls, b
  <2> HIDE DEF c
  <2> QED
    BY <2>2, <2>3, ConcatEmptySeq
<1>2. \A i \in 1..Len(<<>>) : <<>>[i].date \in {d}
  OBVIOUS
<1>3. LET y == b \o <<>>
          e == c \o <<>> IN
      /\ Proper(e) /\ e # <<>> /\ Op(e) = "SynchroSetPos" /\ e[1].op = "SynchroSetPos"
      /\ e[1].date = d /\ Tail(e) = y /\ (Starting(e) <=> Starting(<<>>))
      /\ Proper(y) /\ y # <<>> /\ Op(y) = "TickSetPos" /\ y[1].date = d /\ Tail(y) = <<>>
      /\ \A D : (\A i \in 1..Len(<<>>) : <<>>[i].date \in D) /\ d \in D
                => \A i \in 1..Len(e) : e[i].date \in D
  BY SetThen
<1> HIDE DEF b, c
<1>4. \A i \in 1..Len(c) : c[i].date \in {d}
  BY <1>1, <1>2, <1>3
<1> QED
  BY <1>1, <1>3, <1>4 DEF Enters, b, c

\* Where the player goes while it plays.
LEMMA GoToIs ==
  ASSUME NEW d \in Nat
  PROVE  LET k == Step("Cont")
             b == StepTo("TickSetPos", d) \o k
             a == SetCalls(d) \o k
             x == Step("ChaseOff") \o a
             y == Step("TickStop") \o x
             c == StopCalls \o SetCalls(d) \o k IN
         /\ Begins(c, "SynchroStop", y) /\ Begins(y, "TickStop", x) /\ Begins(x, "ChaseOff", a)
         /\ Proper(a) /\ a # <<>> /\ Op(a) = "SynchroSetPos" /\ a[1].date = d /\ Tail(a) = b
         /\ Proper(b) /\ b # <<>> /\ Op(b) = "TickSetPos" /\ b[1].date = d /\ Tail(b) = k
         /\ \A i \in 1..Len(c) : c[i].date \in {0, d}
<1> DEFINE k == Step("Cont")
           b == StepTo("TickSetPos", d) \o k
           a == SetCalls(d) \o k
           x == Step("ChaseOff") \o a
           y == Step("TickStop") \o x
           c == StopCalls \o a
<1>1. /\ Proper(k) /\ k # <<>> /\ k[1].op = "Cont"
      /\ \A i \in 1..Len(k) : k[i].date \in {0, d}
  BY ContIs
<1> HIDE DEF k
<1>2. /\ Proper(a) /\ a # <<>> /\ Op(a) = "SynchroSetPos" /\ a[1].op = "SynchroSetPos"
      /\ a[1].date = d /\ Tail(a) = b
      /\ Proper(b) /\ b # <<>> /\ Op(b) = "TickSetPos" /\ b[1].date = d /\ Tail(b) = k
      /\ \A D : (\A i \in 1..Len(k) : k[i].date \in D) /\ d \in D
                => \A i \in 1..Len(a) : a[i].date \in D
  BY <1>1, SetThen
<1>3. \A i \in 1..Len(a) : a[i].date \in {0, d}
  BY <1>1, <1>2
<1>4. (StopCalls \o SetCalls(d)) \o k = StopCalls \o (SetCalls(d) \o k)
  <2>1. StopCalls \in Seq(Steps) /\ k \in Seq(Steps)
    BY <1>1, StopIs DEF Begins, Proper
  <2>2. SetCalls(d) \in Seq(Steps)
    <3>1. /\ [op |-> "TickSetPos", date |-> d] \in Steps
          /\ [op |-> "SynchroSetPos", date |-> d] \in Steps
      BY DEF Steps, Ops
    <3>2. StepTo("TickSetPos", d) \in Seq(Steps) /\ StepTo("SynchroSetPos", d) \in Seq(Steps)
      BY <3>1 DEF StepTo
    <3> QED
      BY <3>2, ConcatProperties DEF SetCalls
  <2> QED
    BY <2>1, <2>2, ConcatAssociative
<1> HIDE DEF a, b
<1>5. Begins(x, "ChaseOff", a) /\ Begins(y, "TickStop", x) /\ Begins(c, "SynchroStop", y)
  BY <1>2, StopThen
<1> HIDE DEF x, y
<1>6. \A i \in 1..Len(c) : c[i].date \in {0, d}
  <2>1. 0 \in {0, d}
    OBVIOUS
  <2> HIDE DEF c
  <2>2. \A i \in 1..Len(x) : x[i].date \in {0, d}
    BY <1>3, <1>5, <2>1 DEF Begins
  <2>3. \A i \in 1..Len(y) : y[i].date \in {0, d}
    BY <1>5, <2>1, <2>2 DEF Begins
  <2> QED
    BY <1>5, <2>1, <2>3 DEF Begins
<1> QED
  BY <1>2, <1>4, <1>5, <1>6 DEF a, b, x, y, k

LEMMA GoToEnters ==
  ASSUME NEW p, NEW d \in Nat
  PROVE  Enters(p, GoTo(p, d))
<1>1. CASE p.state = "playing"
  BY <1>1, GoToIs DEF GoTo, Enters, Begins
<1>2. CASE p.state # "playing"
  <2>1. Enters(p, SetCalls(d))
    BY <1>2, SetEnters
  <2>2. {d} \subseteq {0, d}
    OBVIOUS
  <2> QED
    BY <1>2, <2>1, <2>2 DEF GoTo, Enters
<1> QED
  BY <1>1, <1>2

(***************************************************************************)
(* The alarms.                                                             *)
(***************************************************************************)
LEMMA ProperTail ==
  ASSUME NEW s \in Seq({"end", "loop"}), s # <<>>
  PROVE  LET t == Tail(s) IN
         /\ t \in Seq({"end", "loop"}) /\ Len(t) \in Nat /\ Len(s) = Len(t) + 1
         /\ Head(s) = s[1] /\ s[1] \in {"end", "loop"}
         /\ \A i \in 1..Len(t) : t[i] = s[i + 1] /\ i + 1 \in 1..Len(s)
         /\ \A i \in 1..Len(s) : i = 1 \/ (i - 1 \in 1..Len(t) /\ t[i - 1] = s[i])
<1> DEFINE t == Tail(s)
           m == Len(t)
           n == Len(s)
<1>1. /\ t \in Seq({"end", "loop"}) /\ m = n - 1 /\ n \in Nat
      /\ Head(s) = s[1] /\ \A i \in 1..m : t[i] = s[i + 1]
  BY HeadTailProperties, LenProperties
<1>2. n # 0
  BY EmptySeq
<1> HIDE DEF t
<1>3. m \in Nat /\ n = m + 1 /\ 1 \in 1..n
  <2> HIDE DEF m, n
  <2> QED
    BY <1>1, <1>2
<1>4. s[1] \in {"end", "loop"}
  BY <1>3, ElementOfSeq
<1> HIDE DEF m, n
<1>5. \A i \in 1..m : i + 1 \in 1..n
  BY <1>3
<1>6. ASSUME NEW i \in 1..n PROVE i = 1 \/ (i - 1 \in 1..m /\ t[i - 1] = s[i])
  <2>1. i = 1 \/ (i - 1 \in 1..m /\ (i - 1) + 1 = i)
    BY <1>3
  <2> QED
    BY <1>1, <2>1
<1> QED
  BY <1>1, <1>3, <1>4, <1>5, <1>6 DEF t, m, n

LEMMA CarriedOn ==
  ASSUME NEW p, NEW c, NEW q, NEW e, NEW r, NEW f, Carried(p, c, q, e), Carried(q, e, r, f)
  PROVE  Carried(p, c, r, f)
BY DEF Carried

\* What the calls of Stop leave.
LEMMA Halted ==
  ASSUME NEW p, Sane(p), NEW c, NEW y, NEW x, Begins(c, "SynchroStop", y),
         Begins(y, "TickStop", x), Proper(x), x # <<>>, Op(x) = "ChaseOff"
  PROVE  LET q == ChaseOff(TickStop(SynchroStop(p))) IN
         Carried(p, c, q, Tail(x)) /\ q.state # "playing"
<1> DEFINE a == SynchroStop(p)
           b == TickStop(a)
           q == ChaseOff(b)
<1>1. Carried(p, c, a, y)
  BY SynchroStopStep DEF Begins
<1>2. Sane(a) /\ Quiet(a, y)
  BY <1>1 DEF Carried
<1> HIDE DEF a
<1>3. Carried(a, y, b, x)
  BY <1>2, TickStopStep DEF Begins
<1>4. Sane(b) /\ Quiet(b, x) /\ b.state # "playing"
  BY <1>3 DEF Carried, Quiet
<1> HIDE DEF b
<1>5. Carried(b, x, q, Tail(x))
  BY <1>4, ChaseOffStep
<1>6. q.state = b.state
  BY <1>4, ChaseOffIs DEF Sane
<1> HIDE DEF q
<1>7. Carried(p, c, b, x)
  BY <1>1, <1>3, CarriedOn
<1>8. Carried(p, c, q, Tail(x))
  BY <1>5, <1>7, CarriedOn
<1> QED
  BY <1>4, <1>6, <1>8 DEF a, b, q

LEMMA StopsAll ==
  ASSUME NEW p, Sane(p)
  PROVE  LET q == ChaseOff(TickStop(SynchroStop(p))) IN
         Carried(p, StopCalls, q, <<>>) /\ q.state # "playing"
BY StopIs, Halted

LEMMA SynchroContMs ==
  ASSUME NEW p, Sane(p), p.state # "playing", NEW d \in Date
  PROVE  SynchroCont(p, d).elapsed = Ms[d] /\ SynchroCont(p, d).state = "playing"
<1> DEFINE q == SynchroCont(p, d)
           ms == q.elapsed
<1>1. d \in Nat /\ d <= End
  BY Positive DEF Date
<1>2. /\ Sane(q) /\ q.state = "playing" /\ q.pos = d /\ q.play = p.play
      /\ q.sound = p.sound /\ q.prog = p.prog /\ q.chase = p.chase
      /\ q.rcv = p.rcv /\ q.status["play"] = p.status["play"]
      /\ q.status["tempo"] = "running"
      /\ Cardinality(Cell) > 1 => q.fTask["tempo"] # NULL
      /\ (p.state = "idle" => Ended(p)) => Ended(q)
      /\ ms \in Nat /\ Ms[Base(q)] <= ms /\ Ms[Min({d, End})] <= ms
      /\ d <= End => ms = Ms[d] /\ d \in Date /\ q.tempo.cur = d
      /\ d > End => q.tempo.last
  BY <1>1, SynchroContIs
<1> HIDE DEF q
<1> QED
  BY <1>1, <1>2 DEF q

\* Until a player that plays has gone to date d.
LEMMA GoesTo ==
  ASSUME NEW p, Sane(p), NEW d \in Date
  PROVE  LET s == ChaseOff(TickStop(SynchroStop(p)))
             t == TickSetPos(SynchroSetPos(s, d), d)
             q == TickCont(SynchroCont(ChaseOn(t, d), d), d) IN
         /\ Carried(p, StopCalls \o SetCalls(d) \o Step("Cont"), q, <<>>)
         /\ q.elapsed = Ms[d] /\ q.state = "playing"
<1> DEFINE k == Step("Cont")
           b == StepTo("TickSetPos", d) \o k
           a == SetCalls(d) \o k
           x == Step("ChaseOff") \o a
           y == Step("TickStop") \o x
           c == StopCalls \o SetCalls(d) \o k
           s == ChaseOff(TickStop(SynchroStop(p)))
           r == SynchroSetPos(s, d)
           t == TickSetPos(r, d)
           u == ChaseOn(t, d)
           v == SynchroCont(u, d)
           q == TickCont(v, d)
<1>1. d \in Nat /\ d <= End
  BY Positive DEF Date
<1>2. /\ Begins(c, "SynchroStop", y) /\ Begins(y, "TickStop", x) /\ Begins(x, "ChaseOff", a)
      /\ Proper(a) /\ a # <<>> /\ Op(a) = "SynchroSetPos" /\ a[1].date = d /\ Tail(a) = b
      /\ Proper(b) /\ b # <<>> /\ Op(b) = "TickSetPos" /\ b[1].date = d /\ Tail(b) = k
  BY <1>1, GoToIs
<1>3. Proper(k) /\ k # <<>> /\ Op(k) = "Cont" /\ Tail(k) = <<>>
  BY ContIs
<1> HIDE DEF k, b, a, x, y, c
<1>4. Carried(p, c, s, a) /\ s.state # "playing"
  BY <1>2, Halted DEF Begins
<1>5. Sane(s) /\ Quiet(s, a)
  BY <1>4 DEF Carried
<1> HIDE DEF s
<1>6. Carried(s, a, r, b)
  BY <1>2, <1>5, SynchroSetPosStep
<1>7. Sane(r) /\ Quiet(r, b) /\ r.pos = d
  BY <1>1, <1>5, <1>6, SynchroSetPosIs DEF Carried, Sane
<1> HIDE DEF r
<1>8. Carried(r, b, t, k)
  BY <1>2, <1>7, TickSetPosStep
<1>9. Sane(t) /\ Quiet(t, k) /\ t.pos = d
  BY <1>1, <1>7, <1>8, TickSetPosIs DEF Carried, Sane
<1> HIDE DEF t
<1>10. t.state # "playing" /\ GetPosTicks(t) = d
  BY <1>3, <1>9 DEF Quiet, GetPosTicks
<1> DEFINE e == ContCalls(d, <<>>)
<1>11. Carried(t, k, u, e)
  BY <1>3, <1>9, <1>10, ContStep
<1>12. Op(e) = "SynchroCont" /\ e[1].date = d /\ Proper(e) /\ e # <<>>
  <2> HIDE DEF e
  <2>1. Op(e) = "SynchroCont" /\ e[1].date = d /\ Proper(e)
    BY <1>1, ContCallsIs DEF e
  <2> QED
    BY <2>1 DEF Op
<1>13. Sane(u) /\ Quiet(u, e)
  BY <1>11 DEF Carried
<1> HIDE DEF u, e
<1>14. Carried(u, e, v, Tail(e))
  BY <1>12, <1>13, SynchroContStep
<1>15. Sane(v) /\ u.state # "playing"
  BY <1>12, <1>13, <1>14 DEF Carried, Quiet
<1>16. v.elapsed = Ms[d] /\ v.state = "playing"
  <2>1. Sane(u) /\ u.state # "playing"
    BY <1>13, <1>15
  <2>2. v.elapsed = Ms[d] /\ v.state = "playing"
    BY <2>1, SynchroContMs
  <2> QED
    BY <2>2
<1> HIDE DEF v
<1> DEFINE f == Tail(e)
<1>17. Op(f) = "TickCont" /\ f[1].date = d /\ Proper(f)
  BY <1>12, NextOp
<1> HIDE DEF f
<1>18. f # <<>> /\ Tail(f) = <<>>
  BY <1>17, NoneIs, NextOp
<1>19. Carried(v, f, q, Tail(f))
  BY <1>15, <1>17, <1>18, TickContStep
<1>20. q.elapsed = v.elapsed /\ q.state = v.state
  BY <1>1, <1>15, TickContIs
<1> HIDE DEF q
<1>21. Carried(p, c, t, k)
  BY <1>4, <1>6, <1>8, CarriedOn
<1>22. Carried(t, k, v, f)
  BY <1>11, <1>14, CarriedOn DEF f
<1>23. Carried(v, f, q, <<>>)
  BY <1>18, <1>19
<1>24. Carried(p, c, q, <<>>)
  BY <1>21, <1>22, <1>23, CarriedOn
<1> QED
  BY <1>16, <1>20, <1>24 DEF c, q, v, u, t, r, s, k

\* Or one that does not play.
LEMMA SetsTo ==
  ASSUME NEW p, Sane(p), p.state # "playing", NEW d \in Nat
  PROVE  LET q == TickSetPos(SynchroSetPos(p, d), d) IN
         Carried(p, SetCalls(d), q, <<>>) /\ q.state # "playing"
<1> DEFINE b == StepTo("TickSetPos", d)
           a == SetCalls(d)
           r == SynchroSetPos(p, d)
           q == TickSetPos(r, d)
<1>1. /\ Proper(a) /\ a # <<>> /\ Op(a) = "SynchroSetPos" /\ a[1].date = d /\ Tail(a) = b
      /\ Proper(b) /\ b # <<>> /\ Op(b) = "TickSetPos" /\ b[1].date = d /\ Tail(b) = <<>>
  BY SetEnters DEF Enters
<1> HIDE DEF a, b
<1>2. Carried(p, a, r, b)
  BY <1>1, SynchroSetPosStep DEF Quiet
<1>3. Sane(r) /\ Quiet(r, b) /\ r.state # "playing"
  BY <1>1, <1>2 DEF Carried, Quiet
<1> HIDE DEF r
<1>4. Carried(r, b, q, <<>>)
  BY <1>1, <1>3, TickSetPosStep
<1>5. q.state = r.state
  BY <1>3, TickSetPosIs DEF Sane
<1> HIDE DEF q
<1> QED
  BY <1>2, <1>3, <1>4, <1>5, CarriedOn DEF a, r, q

\* The same player, but for its loop and for what it has sent to itself.
Alike(p, q) ==
  /\ q.state = p.state /\ q.pos = p.pos /\ q.elapsed = p.elapsed /\ q.play = p.play
  /\ q.tempo = p.tempo /\ q.sound = p.sound /\ q.left = p.left /\ q.prog = p.prog
  /\ q.chase = p.chase /\ q.table = p.table /\ q.kernel = p.kernel /\ q.status = p.status
  /\ q.date = p.date /\ q.fTask = p.fTask

LEMMA AlikeIs ==
  ASSUME NEW p, Sane(p), NEW q \in Players, Alike(p, q)
  PROVE  /\ Sane(q)
         /\ NeverLate(p) => NeverLate(q)
         /\ \A c : Quiet(p, c) => Quiet(q, c)
         /\ \A c : (Has(p, "end") => Has(q, "end")) /\ OnTime(p, c) => OnTime(q, c)
         /\ \A c : Tuned(p, c) => Tuned(q, c)
<1>1. Base(q) = Base(p) /\ \A t \in TicksTask : Exact(p, t) <=> Exact(q, t)
  <2>1. Base(q) = Base(p)
    BY SameBase DEF Alike
  <2> QED
    BY <2>1 DEF Alike, Exact, Left, ConvertTickToMs
<1>2. "play" \in TicksTask /\ "tempo" \in TicksTask
  BY DEF TicksTask
<1>3. Sane(q)
  <2>1. Pointed(q)
    BY PointedSame DEF Sane, Alike
  <2>2. Followed(q)
    BY <1>1, <1>2 DEF Sane, Alike, Followed
  <2> QED
    BY <2>1, <2>2 DEF Sane, Alike
<1>4. NeverLate(p) => NeverLate(q)
  BY NeverLateSame DEF Alike
<1>5. \A c : Quiet(p, c) => Quiet(q, c)
  BY DEF Quiet, Alike
<1>6. ASSUME NEW c, Has(p, "end") => Has(q, "end"), OnTime(p, c) PROVE OnTime(q, c)
  <2>1. Seen(p) => Seen(q)
    BY DEF Seen, Alike
  <2>2. Waits(p) => Waits(q)
    BY <1>1, <1>2 DEF Waits, Alike
  <2>3. Runs(p) => Runs(q)
    BY <1>6, <2>2 DEF Runs, Alike
  <2>4. Begun(p) => Begun(q)
    BY <1>1 DEF Begun, Alike
  <2>5. NotRunning(p) => NotRunning(q)
    BY DEF NotRunning, Alike
  <2>6. /\ q.state = p.state /\ q.elapsed = p.elapsed /\ q.play = p.play /\ q.tempo = p.tempo
        /\ q.date = p.date /\ q.fTask = p.fTask
    BY DEF Alike
  <2>7. Playing(q, c)
    BY <1>6, <2>1, <2>2, <2>3, <2>5, <2>6 DEF OnTime, Playing
  <2> QED
    BY <1>6, <2>4, <2>7 DEF OnTime
<1>7. ASSUME NEW c, Tuned(p, c) PROVE Tuned(q, c)
  BY <1>7 DEF Tuned, Audible, Patched, Onward, From, Sounding, Ended, Played, Alike
<1> QED
  BY <1>3, <1>4, <1>5, <1>6, <1>7

\* The player has read the first event that it had sent to itself.
LEMMA ReadIs ==
  ASSUME NEW p, Sane(p), p.rcv # <<>>
  PROVE  LET q == [p EXCEPT !.rcv = Tail(@)] IN
         /\ q \in Players /\ Alike(p, q) /\ q.loop = p.loop /\ q.rcv = Tail(p.rcv)
         /\ Head(p.rcv) \in {"end", "loop"}
         /\ Head(p.rcv) = "loop" => Has(p, "loop") /\ (Has(p, "end") => Has(q, "end"))
         /\ \A e : Has(q, e) => Has(p, e)
<1> DEFINE s == p.rcv
           t == Tail(s)
           q == [p EXCEPT !.rcv = t]
<1>1. p \in Players /\ s \in Seq({"end", "loop"}) /\ s # <<>>
  BY Fields DEF Sane
<1> HIDE DEF s
<1>2. /\ t \in Seq({"end", "loop"}) /\ Len(t) \in Nat /\ Len(s) = Len(t) + 1
      /\ Head(s) = s[1] /\ s[1] \in {"end", "loop"}
      /\ \A i \in 1..Len(t) : t[i] = s[i + 1] /\ i + 1 \in 1..Len(s)
      /\ \A i \in 1..Len(s) : i = 1 \/ (i - 1 \in 1..Len(t) /\ t[i - 1] = s[i])
  BY <1>1, ProperTail
<1> HIDE DEF t
<1>3. q \in Players /\ Alike(p, q) /\ q.loop = p.loop /\ q.rcv = t
  BY <1>1, <1>2 DEF Players, Alike
<1> HIDE DEF q
<1>4. 1 \in 1..Len(s)
  BY <1>2
<1>5. \A e : Has(q, e) => Has(p, e)
  BY <1>2, <1>3 DEF Has, s
<1>6. ASSUME s[1] = "loop" PROVE Has(p, "loop") /\ (Has(p, "end") => Has(q, "end"))
  <2>1. Has(p, "loop")
    BY <1>4, <1>6 DEF Has, s
  <2>2. ASSUME NEW i \in 1..Len(s), s[i] = "end" PROVE Has(q, "end")
    <3>1. i # 1
      BY <1>6, <2>2
    <3>2. i - 1 \in 1..Len(t) /\ t[i - 1] = "end"
      BY <1>2, <2>2, <3>1
    <3> QED
      BY <1>3, <3>2 DEF Has
  <2> QED
    BY <2>1, <2>2 DEF Has, s
<1> QED
  BY <1>2, <1>3, <1>5, <1>6 DEF q, t, s

(***************************************************************************)
(* The steps of the player keep the invariants.                            *)
(***************************************************************************)
\* The invariants, of the player p when the calls c are still to make.
Upheld(p, c, x) ==
  /\ Sane(p) /\ Proper(c) /\ Quiet(p, c) /\ x \in BOOLEAN

InTimeFor(p, c, x) == NeverLate(p) /\ (~x => OnTime(p, c) /\ OnItsWay(p, c))

Keeps(p, c, x, q, e, y) ==
  /\ Upheld(q, e, y)
  /\ Cardinality(Cell) > 1 /\ InTimeFor(p, c, x) =>
       /\ InTimeFor(q, e, y)
       /\ (~x => Tuned(p, c)) => (~y => Tuned(q, e))

Kept == Keeps(player, todo, crossed, player', todo', crossed')

LEMMA UpheldIs ==
  /\ IInv <=> Upheld(player, todo, crossed)
  /\ Timely <=> InTimeFor(player, todo, crossed)
BY DEF IInv, Upheld, Timely, InTimeFor

\* A call of the user begins.
LEMMA CallKept ==
  ASSUME IInv, NEW c, Enters(player, c), todo = <<>>,
         player' = player, todo' = c, crossed' \in BOOLEAN,
         ~crossed' => player.rcv = <<>>,
         ~crossed' => ~crossed \/ Renewing(c)
  PROVE  Kept
<1>1. Sane(player) /\ player \in Players
  BY DEF IInv, Sane
<1>2. /\ Quiet(player, c)
      /\ Renewing(c) \/ OnTime(player, <<>>) => OnTime(player, c)
      /\ Renewing(c) \/ Tuned(player, <<>>) => Tuned(player, c)
  BY <1>1, Entry
<1>3. Upheld(player, c, crossed')
  BY <1>1, <1>2 DEF Upheld, Enters
<1>4. ASSUME InTimeFor(player, todo, crossed)
      PROVE  InTimeFor(player, c, crossed')
  BY <1>2, <1>4 DEF InTimeFor, OnItsWay
<1>5. ASSUME ~crossed => Tuned(player, todo), ~crossed'
      PROVE  Tuned(player, c)
  BY <1>2, <1>5
<1> QED
  BY <1>3, <1>4, <1>5 DEF Kept, Keeps

LEMMA UserKept ==
  ASSUME IInv, Start \/ Stop \/ Pause \/ Cont \/ SetParam \/ \E d \in Position : SetPosTicks(d)
  PROVE  Kept
<1>1. player \in Players /\ crossed \in BOOLEAN
  BY DEF IInv, Sane
<1>2. CASE Start
  <2>1. Enters(player, StartCalls(player)) /\ Renewing(StartCalls(player))
    BY <1>1, StartEnters
  <2>2. /\ todo = <<>> /\ player' = player /\ todo' = StartCalls(player)
        /\ crossed' = (player.rcv # <<>>)
    BY <1>2 DEF Start, Call, StartCalls
  <2>3. crossed' \in BOOLEAN /\ (~crossed' => player.rcv = <<>>)
    BY <2>2
  <2> QED
    BY <2>1, <2>2, <2>3, CallKept
<1>3. ASSUME NEW c, Call(c), Crosses, Enters(player, c)
      PROVE  Kept
  <2>1. todo = <<>> /\ player' = player /\ todo' = c /\ c # <<>>
    BY <1>3 DEF Call
  <2>2. crossed' = (crossed \/ player.rcv # <<>>)
    BY <1>3, <2>1 DEF Crosses
  <2>3. crossed' \in BOOLEAN /\ (~crossed' => player.rcv = <<>> /\ ~crossed)
    BY <1>1, <2>2
  <2> QED
    BY <1>3, <2>1, <2>3, CallKept
<1>4. CASE Stop
  <2>1. Call(IF Stops(player) THEN StopCalls ELSE <<>>) /\ Crosses
    BY <1>4 DEF Stop
  <2>2. Stops(player)
    BY <2>1 DEF Call
  <2>3. Call(StopCalls) /\ Crosses
    BY <2>1, <2>2
  <2> QED
    BY <1>3, <2>3, StopEnters
<1>5. CASE Pause
  <2>1. Call(Step("SynchroStop") \o Step("TickStop") \o Step("SetPause")) /\ Crosses
    BY <1>5 DEF Pause
  <2> QED
    BY <1>3, <2>1, PauseEnters
<1>6. CASE Cont
  <2>1. Call(Step("Cont")) /\ Crosses /\ player.state # "playing"
    BY <1>6 DEF Cont
  <2> QED
    BY <1>3, <2>1, ContEnters
<1>7. CASE SetParam
  <2>1. Call(StopCalls \o Step("Cont")) /\ Crosses
    BY <1>7 DEF SetParam
  <2> QED
    BY <1>3, <2>1, SetParamEnters
<1>8. ASSUME NEW d \in Position, SetPosTicks(d) PROVE Kept
  <2>1. Call(GoTo(player, d)) /\ Crosses
    BY <1>8 DEF SetPosTicks
  <2>2. Enters(player, GoTo(player, d))
    BY GoToEnters, PlayerAssumption
  <2> QED
    BY <1>3, <2>1, <2>2
<1> QED
  BY <1>2, <1>4, <1>5, <1>6, <1>7, <1>8

LEMMA ContinueKept ==
  ASSUME IInv, Continue
  PROVE  Kept
<1>1. Sane(player) /\ Proper(todo) /\ Quiet(player, todo) /\ crossed \in BOOLEAN
  BY DEF IInv
<1>2. todo # <<>> /\ player' = Done(player, Head(todo)) /\ todo' = Rest(player, todo)
      /\ crossed' = (crossed \/ (player'.rcv # <<>> /\ todo' # <<>>))
  BY DEF Continue, Rest, Crosses
<1>3. Carried(player, todo, player', todo')
  <2>1. Carried(player, todo, Done(player, Head(todo)), Rest(player, todo))
    BY <1>1, <1>2, DoneCarried
  <2> QED
    BY <1>2, <2>1
<1>4. Upheld(player', todo', crossed') /\ player'.rcv = player.rcv
  BY <1>1, <1>2, <1>3 DEF Carried, Upheld
<1>5. ~crossed' => ~crossed
  BY <1>2
<1>6. ASSUME Cardinality(Cell) > 1, InTimeFor(player, todo, crossed)
      PROVE  /\ InTimeFor(player', todo', crossed')
             /\ (~crossed => Tuned(player, todo)) => (~crossed' => Tuned(player', todo'))
  <2>1. NeverLate(player')
    BY <1>3, <1>6 DEF Carried, InTimeFor
  <2>2. ASSUME ~crossed'
        PROVE  /\ OnTime(player', todo') /\ player'.rcv = <<>>
               /\ Tuned(player, todo) => Tuned(player', todo')
    <3>1. OnTime(player, todo) /\ player.rcv = <<>> /\ NeverLate(player)
      BY <1>2, <1>5, <1>6, <2>2 DEF InTimeFor, OnItsWay
    <3> QED
      BY <1>3, <1>4, <1>6, <3>1 DEF Carried
  <2> QED
    BY <1>5, <2>1, <2>2 DEF InTimeFor, OnItsWay
<1> QED
  BY <1>4, <1>6 DEF Kept, Keeps

LEMMA ExecuteKept ==
  ASSUME IInv, NEW x \in Cell, ExecuteTask(x)
  PROVE  Kept
<1>1. Sane(player) /\ Proper(todo) /\ Quiet(player, todo) /\ crossed \in BOOLEAN
  BY DEF IInv
<1>2. /\ Due(player, x) /\ player' = After(player, x) /\ todo' = todo
      /\ crossed' = (crossed \/ (player'.rcv # <<>> /\ todo # <<>>))
  BY DEF ExecuteTask, After, Due, Crosses
<1>3. Sane(player') /\ player'.state = player.state
  <2>1. Sane(After(player, x)) /\ After(player, x).state = player.state
    BY <1>1, <1>2, ExecuteSane
  <2> QED
    BY <1>2, <2>1
<1>4. Upheld(player', todo', crossed')
  BY <1>1, <1>2, <1>3 DEF Upheld, Quiet
<1>5. ~crossed' => ~crossed /\ (todo = <<>> \/ player'.rcv = <<>>)
  BY <1>2
<1>6. ASSUME Cardinality(Cell) > 1, InTimeFor(player, todo, crossed)
      PROVE  /\ InTimeFor(player', todo', crossed')
             /\ (~crossed => Tuned(player, todo)) => (~crossed' => Tuned(player', todo'))
  <2>1. NeverLate(player) /\ (~crossed => OnTime(player, todo))
    BY <1>6 DEF InTimeFor
  <2>2. NeverLate(player')
    <3>1. NeverLate(After(player, x))
      BY <1>1, <1>2, <1>6, <2>1, ExecuteLate
    <3> QED
      BY <1>2, <3>1
  <2>3. ASSUME ~crossed' PROVE OnTime(player', todo')
    <3>1. OnTime(player, todo) /\ (todo = <<>> \/ After(player, x).rcv = <<>>)
      BY <1>2, <1>5, <2>1, <2>3
    <3>2. OnTime(After(player, x), todo)
      BY <1>1, <1>2, <1>6, <2>1, <3>1, ExecuteOnTime
    <3> QED
      BY <1>2, <3>2
  <2>4. ASSUME ~crossed', Tuned(player, todo) PROVE Tuned(player', todo')
    <3>1. Playing(player, todo)
      BY <1>5, <2>1, <2>4 DEF OnTime
    <3>2. Tuned(After(player, x), todo)
      BY <1>1, <1>2, <2>4, <3>1, ExecuteTuned
    <3> QED
      BY <1>2, <3>2
  <2> QED
    BY <1>2, <1>5, <2>2, <2>3, <2>4 DEF InTimeFor, OnItsWay
<1> QED
  BY <1>4, <1>6 DEF Kept, Keeps

LEMMA ReceiveStopKept ==
  ASSUME IInv, ReceiveStop
  PROVE  Kept
<1> DEFINE p == [player EXCEPT !.rcv = Tail(@)]
           s == ChaseOff(TickStop(SynchroStop(p)))
<1>1. Sane(player) /\ player \in Players /\ Proper(todo) /\ Quiet(player, todo) /\ crossed \in BOOLEAN
  BY DEF IInv, Sane
<1>2. /\ player.rcv # <<>> /\ Head(player.rcv) = "end"
      /\ player' = IF Stops(p) THEN s ELSE p
      /\ todo' = todo /\ crossed' = crossed
  BY DEF ReceiveStop
<1>3. /\ p \in Players /\ Alike(player, p) /\ p.rcv = Tail(player.rcv)
  BY <1>1, <1>2, ReadIs
<1> HIDE DEF p
<1>4. /\ Sane(p) /\ (NeverLate(player) => NeverLate(p)) /\ Quiet(p, todo)
      /\ \A c : (Has(player, "end") => Has(p, "end")) /\ OnTime(player, c) => OnTime(p, c)
      /\ \A c : Tuned(player, c) => Tuned(p, c)
  BY <1>1, <1>3, AlikeIs
<1>5. p.state = player.state
  BY <1>3 DEF Alike
\* Nothing is called when a player that no call has crossed reads an event.
<1>6. ASSUME InTimeFor(player, todo, crossed), ~crossed
      PROVE  todo = <<>> /\ OnTime(player, <<>>)
  BY <1>2, <1>6 DEF InTimeFor, OnItsWay
<1>7. CASE Stops(p)
  <2>1. Carried(p, StopCalls, s, <<>>) /\ s.state # "playing"
    BY <1>4, StopsAll
  <2>2. player' = s
    BY <1>2, <1>7
  <2> HIDE DEF s
  <2>3. Upheld(player', todo', crossed')
    BY <1>1, <1>2, <2>1, <2>2 DEF Upheld, Quiet, Carried
  <2>4. Enters(p, StopCalls)
    BY StopEnters
  <2>5. ASSUME Cardinality(Cell) > 1, InTimeFor(player, todo, crossed)
        PROVE  /\ InTimeFor(player', todo', crossed')
               /\ (~crossed => Tuned(player, todo)) => (~crossed' => Tuned(player', todo'))
    <3>1. NeverLate(s)
      BY <2>1 DEF NeverLate
    <3>2. ASSUME ~crossed
          PROVE  /\ todo = <<>> /\ OnTime(s, <<>>)
                 /\ Tuned(player, todo) => Tuned(s, <<>>)
      <4>1. todo = <<>> /\ OnTime(player, <<>>)
        BY <1>6, <2>5, <3>2
      <4>2. OnTime(p, StopCalls)
        <5>1. Begun(player)
          BY <4>1, NoCalls DEF OnTime
        <5>2. Begun(p)
          BY <1>3, <5>1, SameBase DEF Begun, Alike
        <5> QED
          BY <2>4, <5>2, StopIs DEF OnTime, Playing, Stopped, Begins
      <4>3. NeverLate(p)
        BY <1>4, <2>5 DEF InTimeFor
      <4>4. OnTime(s, <<>>)
        BY <2>1, <2>5, <4>2, <4>3 DEF Carried
      <4>5. ASSUME Tuned(player, <<>>) PROVE Tuned(s, <<>>)
        <5>1. Tuned(p, <<>>)
          BY <1>4, <4>5
        <5>2. Tuned(p, StopCalls)
          BY <1>3, <2>4, <4>5, <5>1, Entry
        <5> QED
          BY <2>1, <2>5, <4>2, <4>3, <4>5, <5>2 DEF Carried
      <4> QED
        BY <4>1, <4>4, <4>5
    <3> QED
      BY <1>2, <2>2, <3>1, <3>2 DEF InTimeFor, OnItsWay
  <2> QED
    BY <2>3, <2>5 DEF Kept, Keeps
<1>8. CASE ~Stops(p)
  <2>1. player' = p /\ p.state # "playing" /\ player.state # "playing"
    BY <1>2, <1>5, <1>8 DEF Stops
  <2>2. Upheld(player', todo', crossed')
    BY <1>1, <1>2, <1>4, <2>1 DEF Upheld
  <2>3. ASSUME InTimeFor(player, todo, crossed)
        PROVE  InTimeFor(player', todo', crossed')
    <3>1. ASSUME ~crossed PROVE todo = <<>> /\ OnTime(p, <<>>)
      <4>1. todo = <<>> /\ OnTime(player, <<>>)
        BY <1>6, <2>3, <3>1
      <4>2. NotRunning(player)
        BY <2>1, <4>1, NoCalls DEF OnTime, Playing
      <4>3. NotRunning(p)
        BY <1>3, <4>2 DEF NotRunning, Alike
      <4> QED
        BY <2>1, <4>1, <4>3, NoCalls DEF OnTime, Playing, Begun, Stopped
    <3> QED
      BY <1>2, <1>4, <2>1, <2>3, <3>1 DEF InTimeFor, OnItsWay
  <2> QED
    BY <1>2, <1>3, <1>4, <2>1, <2>2, <2>3 DEF Kept, Keeps
<1> QED
  BY <1>7, <1>8

LEMMA ReceiveLoopEndKept ==
  ASSUME IInv, ReceiveLoopEnd
  PROVE  Kept
<1> DEFINE p == [player EXCEPT !.rcv = Tail(@)]
           g == GoToStart(p)
           d == LoopStart
<1>1. Sane(player) /\ player \in Players /\ Proper(todo) /\ Quiet(player, todo) /\ crossed \in BOOLEAN
  BY DEF IInv, Sane
<1>2. /\ player.rcv # <<>> /\ Head(player.rcv) = "loop"
      /\ player' = IF p.loop THEN g ELSE p
      /\ todo' = todo /\ crossed' = crossed
  BY DEF ReceiveLoopEnd
<1>3. /\ p \in Players /\ Alike(player, p) /\ p.rcv = Tail(player.rcv)
      /\ Has(player, "loop") /\ (Has(player, "end") => Has(p, "end"))
  BY <1>1, <1>2, ReadIs
<1> HIDE DEF p
<1>4. /\ Sane(p) /\ (NeverLate(player) => NeverLate(p)) /\ Quiet(p, todo)
      /\ \A c : OnTime(player, c) => OnTime(p, c)
      /\ \A c : Tuned(player, c) => Tuned(p, c)
  BY <1>1, <1>3, AlikeIs
<1>5. p.state = player.state /\ d \in Date /\ d \in Nat
  BY <1>3, PlayerAssumption, Positive DEF Alike, Date
<1>6. ASSUME InTimeFor(player, todo, crossed), ~crossed
      PROVE  todo = <<>> /\ OnTime(p, <<>>) /\ NeverLate(p)
  BY <1>2, <1>4, <1>6 DEF InTimeFor, OnItsWay
<1>7. CASE ~p.loop
  <2>1. player' = p
    BY <1>2, <1>7
  <2>2. Upheld(player', todo', crossed')
    BY <1>1, <1>2, <1>4, <2>1 DEF Upheld
  <2>3. ASSUME InTimeFor(player, todo, crossed)
        PROVE  InTimeFor(player', todo', crossed')
    BY <1>2, <1>4, <1>6, <2>1, <2>3 DEF InTimeFor, OnItsWay
  <2> QED
    BY <1>2, <1>3, <1>4, <2>1, <2>2, <2>3 DEF Kept, Keeps
<1>8. ASSUME NEW q, NEW c, player' = q, Carried(p, c, q, <<>>), Enters(p, c),
             q.state = "playing" => player.state = "playing"
      PROVE  Kept
  <2>1. Upheld(player', todo', crossed')
    BY <1>1, <1>2, <1>8 DEF Upheld, Quiet, Carried
  <2>3. ASSUME Cardinality(Cell) > 1, InTimeFor(player, todo, crossed)
        PROVE  /\ InTimeFor(player', todo', crossed')
               /\ (~crossed => Tuned(player, todo)) => (~crossed' => Tuned(player', todo'))
    <3>1. NeverLate(q)
      <4>1. NeverLate(p)
        BY <1>4, <2>3 DEF InTimeFor
      <4> QED
        BY <1>8, <2>3, <4>1 DEF Carried
    <3>2. ASSUME ~crossed
          PROVE  /\ todo = <<>> /\ OnTime(q, <<>>)
                 /\ Tuned(player, todo) => Tuned(q, <<>>)
      <4>1. todo = <<>> /\ OnTime(p, <<>>) /\ NeverLate(p)
        BY <1>6, <2>3, <3>2
      <4>2. OnTime(p, c)
        BY <1>3, <1>8, <4>1, Entry
      <4>3. OnTime(q, <<>>)
        BY <1>8, <2>3, <4>1, <4>2 DEF Carried
      <4>4. ASSUME Tuned(player, <<>>) PROVE Tuned(q, <<>>)
        <5>1. Tuned(p, <<>>)
          BY <1>4, <4>4
        <5>2. Tuned(p, c)
          BY <1>3, <1>8, <4>4, <5>1, Entry
        <5> QED
          BY <1>8, <2>3, <4>1, <4>2, <4>4, <5>2 DEF Carried
      <4> QED
        BY <4>1, <4>3, <4>4
    <3> QED
      BY <1>2, <1>8, <3>1, <3>2 DEF InTimeFor, OnItsWay
  <2> QED
    BY <2>1, <2>3 DEF Kept, Keeps
<1>9. CASE p.loop /\ p.state = "playing"
  <2> DEFINE s == ChaseOff(TickStop(SynchroStop(p)))
             t == TickSetPos(SynchroSetPos(s, d), d)
             v == SynchroCont(ChaseOn(t, d), d)
             q == TickCont(v, d)
             c == StopCalls \o SetCalls(d) \o Step("Cont")
  <2>1. Carried(p, c, q, <<>>) /\ q.elapsed = Ms[d] /\ q.state = "playing"
    BY <1>4, <1>5, GoesTo
  <2>2. player' = q
    BY <1>2, <1>9 DEF GoToStart
  <2>3. Enters(p, c)
    <3>1. GoTo(p, d) = c
      BY <1>9 DEF GoTo
    <3>2. Enters(p, GoTo(p, d))
      BY <1>5, GoToEnters
    <3> QED
      BY <3>1, <3>2
  <2> HIDE DEF q, c
  <2> QED
    BY <1>3, <1>5, <1>8, <1>9, <2>1, <2>2, <2>3 DEF Alike
<1>10. CASE p.loop /\ p.state # "playing"
  <2> DEFINE q == TickSetPos(SynchroSetPos(p, d), d)
             c == SetCalls(d)
  <2>1. Carried(p, c, q, <<>>) /\ q.state # "playing"
    BY <1>4, <1>5, <1>10, SetsTo
  <2>2. player' = q
    BY <1>2, <1>10 DEF GoToStart
  <2>3. Enters(p, c)
    <3>1. GoTo(p, d) = c
      BY <1>10 DEF GoTo
    <3>2. Enters(p, GoTo(p, d))
      BY <1>5, GoToEnters
    <3> QED
      BY <3>1, <3>2
  <2> HIDE DEF q, c
  <2> QED
    BY <1>5, <1>8, <1>10, <2>1, <2>2, <2>3
<1> QED
  BY <1>7, <1>9, <1>10

LEMMA SetLoopKept ==
  ASSUME IInv, SetLoop
  PROVE  Kept
<1> DEFINE l == ~player.loop
           p == [player EXCEPT !.loop = l]
<1>1. Sane(player) /\ player \in Players /\ Proper(todo) /\ Quiet(player, todo) /\ crossed \in BOOLEAN
  BY DEF IInv, Sane
<1>2. player' = p /\ todo' = todo /\ crossed' = crossed
  BY DEF SetLoop
<1>3. l \in BOOLEAN
  OBVIOUS
<1> HIDE DEF l
<1>4. p \in Players /\ Alike(player, p) /\ p.rcv = player.rcv
  BY <1>1, <1>3 DEF Players, Alike
<1> HIDE DEF p
<1>5. /\ Sane(p) /\ (NeverLate(player) => NeverLate(p)) /\ Quiet(p, todo)
      /\ \A c : OnTime(player, c) => OnTime(p, c)
      /\ \A c : Tuned(player, c) => Tuned(p, c)
  BY <1>1, <1>4, AlikeIs, HasSame
<1>7. Upheld(player', todo', crossed')
  BY <1>1, <1>2, <1>5 DEF Upheld
<1>8. ASSUME InTimeFor(player, todo, crossed)
      PROVE  InTimeFor(player', todo', crossed')
  BY <1>2, <1>4, <1>5, <1>8 DEF InTimeFor, OnItsWay
<1> QED
  BY <1>2, <1>5, <1>7, <1>8 DEF Kept, Keeps

\* The objects of a player that is idle are renewed: no task is left to the
\* kernel.
LEMMA RenewIs ==
  ASSUME NEW p, Sane(p), p.state = "idle", NEW g \in Garbage, NEW l \in BOOLEAN
  PROVE  LET q == [Renew(p, g) EXCEPT !.loop = l] IN
         /\ Sane(q) /\ q.state = "idle" /\ q.pos = 0 /\ q.elapsed = 0
         /\ q.rcv = p.rcv /\ q.sound = p.sound /\ q.left = p.left /\ q.loop = l /\ q.play = First
         /\ NotRunning(q)
<1> DEFINE kernel == [x \in Cell |-> IF p.kernel[x] = NULL \/ x \in Killed(p) THEN NULL
                                     ELSE [p.kernel[x] EXCEPT !.task = "freed"]]
           chase == NewChaser(g)
           status == [t \in TicksTask |-> "idle"]
           date == [t \in TicksTask |-> 0]
           fTask == [t \in TicksTask |-> NULL]
           q == [Renew(p, g) EXCEPT !.loop = l]
<1>1. /\ p \in Players /\ p.left \subseteq p.sound /\ Pointed(p)
      /\ p.table \in SUBSET TicksTask /\ p.kernel \in [Cell -> KernelTasks \cup {NULL}]
  BY Fields DEF Sane
<1>2. q = [p EXCEPT !.kernel = kernel, !.pos = 0, !.elapsed = 0, !.play = First,
             !.tempo = First, !.chase = chase, !.table = {}, !.loop = l,
             !.status = status, !.date = date, !.fTask = fTask]
  BY <1>1 DEF Renew, Players
<1>3. kernel \in [Cell -> KernelTasks \cup {NULL}] /\ \A x \in Cell : kernel[x] = NULL
  <2> SUFFICES ASSUME NEW x \in Cell, p.kernel[x] # NULL PROVE x \in Killed(p)
    OBVIOUS
  <2> DEFINE t == p.kernel[x].task
  <2>1. t \in TicksTask
    BY <1>1 DEF KernelTasks
  <2>2. p.fTask[t] = x /\ x # NULL
    BY <1>1, PlayerAssumption DEF Pointed
  <2>3. t \in p.table
    BY <1>1, <2>1, <2>2 DEF Pointed
  <2> QED
    BY <2>2, <2>3 DEF Killed
<1>4. chase \in Chasers /\ Met(chase)
  <2>1. g \in Nat
    BY PlayerAssumption
  <2>2. /\ chase \in Chasers /\ chase.date = g /\ chase.from = 0 /\ chase.fresh
        /\ chase.keys = Held(chase.from) /\ chase.prog = Last(chase.from)
    BY <2>1, InitChaser DEF NewChaser
  <2> HIDE DEF chase
  <2> QED
    BY <2>2 DEF Met
<1>5. /\ status \in [TicksTask -> {"idle", "running", "forget"}]
      /\ date \in [TicksTask -> Date] /\ fTask \in [TicksTask -> Cell \cup {NULL}]
      /\ \A t \in TicksTask : status[t] = "idle" /\ fTask[t] = NULL
  BY FromFirst, Positive DEF Date
<1>6. First \in Iterators /\ "play" \in TicksTask /\ "tempo" \in TicksTask
  BY FromFirst DEF TicksTask
<1> HIDE DEF kernel, chase, status, date, fTask, q
<1>7. /\ q \in Players /\ q.state = "idle" /\ q.pos = 0 /\ q.elapsed = 0 /\ q.loop = l
      /\ q.play = First
      /\ q.rcv = p.rcv /\ q.sound = p.sound /\ q.left = p.left /\ q.chase = chase
      /\ q.table = {} /\ q.kernel = kernel /\ q.status = status /\ q.fTask = fTask
  BY <1>1, <1>2, <1>3, <1>4, <1>5, <1>6 DEF Players
<1>8. Pointed(q)
  BY <1>3, <1>5, <1>7 DEF Pointed
<1>9. Followed(q) /\ NotRunning(q)
  BY <1>5, <1>6, <1>7 DEF Followed, NotRunning
<1> QED
  BY <1>1, <1>4, <1>7, <1>8, <1>9 DEF Sane, q

\* And the user's other calls of an idle player.
LEMMA RenewKept ==
  ASSUME IInv, player.state = "idle", todo = <<>>, NEW g \in Garbage, NEW l \in BOOLEAN, NEW c,
         player' = [Renew(player, g) EXCEPT !.loop = l], todo' = c, crossed' \in BOOLEAN,
         ~crossed' => ~crossed /\ (c = <<>> \/ player.rcv = <<>>),
         c = <<>> \/ (c = SetCalls(player.pos) /\ Enters(player, c))
  PROVE  Kept
<1> DEFINE q == [Renew(player, g) EXCEPT !.loop = l]
<1>1. Sane(player) /\ player \in Players
  BY DEF IInv, Sane
<1>2. /\ Sane(q) /\ q.state = "idle" /\ q.pos = 0 /\ q.elapsed = 0
      /\ q.rcv = player.rcv /\ q.sound = player.sound /\ q.left = player.left /\ q.loop = l
      /\ NotRunning(q)
  BY <1>1, RenewIs
<1>3. player' = q
  OBVIOUS
<1> HIDE DEF q
<1>4. Op(c) \in {"none", "SynchroSetPos"} /\ Proper(c) /\ ~Renewing(c)
  <2>1. CASE c = <<>>
    BY <2>1, NoCalls
  <2>2. CASE c # <<>>
    <3>1. Op(c) = "SynchroSetPos"
      BY <1>1, <2>2, Fields, SetEnters
    <3> QED
      BY <2>2, <3>1, NotRenewing DEF Renews, Enters
  <2> QED
    BY <2>1, <2>2
<1>5. Upheld(q, c, crossed')
  BY <1>2, <1>4 DEF Upheld, Quiet
<1>6. OnTime(q, c) /\ NeverLate(q)
  BY <1>2, <1>4 DEF OnTime, NeverLate, Playing, Begun, Stopped
<1>7. ASSUME Tuned(player, <<>>) PROVE Tuned(q, c)
  <2>1. Ended(player)
    BY <1>1, <1>7, NoCalls DEF Tuned, Audible
  <2>2. Ended(q) /\ Sounding(q)
    BY <1>2, <2>1 DEF Ended, Sounding
  <2>3. Onward(q, c)
    BY <1>2, <1>4, OnwardIdle
  <2> QED
    BY <1>2, <1>4, <2>2, <2>3 DEF Tuned, Audible, Patched
<1>9. InTimeFor(player, todo, crossed) => InTimeFor(q, c, crossed')
  BY <1>2, <1>6 DEF InTimeFor, OnItsWay
<1> QED
  BY <1>3, <1>5, <1>7, <1>9 DEF Kept, Keeps

LEMMA SetTrackKept ==
  ASSUME IInv, NEW g \in Garbage, SetTrack(g)
  PROVE  Kept
<1>1. player \in Players /\ crossed \in BOOLEAN
  BY DEF IInv, Sane
<1>2. /\ todo = <<>> /\ player.state = "idle" /\ player' = Renew(player, g)
      /\ todo' = <<>> /\ crossed' = crossed
  BY DEF SetTrack
<1>3. player' = [Renew(player, g) EXCEPT !.loop = FALSE]
  <2>1. Renew(player, g) = [Renew(player, g) EXCEPT !.loop = FALSE]
    BY <1>1 DEF Renew, Players
  <2> QED
    BY <1>2, <2>1
<1> QED
  BY <1>1, <1>2, <1>3, RenewKept

LEMMA SetSynchroInKept ==
  ASSUME IInv, NEW g \in Garbage, SetSynchroIn(g)
  PROVE  Kept
<1>1. player \in Players /\ crossed \in BOOLEAN /\ player.pos \in Nat /\ player.loop \in BOOLEAN
  BY Fields DEF IInv, Sane
<1>2. /\ todo = <<>> /\ player.state = "idle"
      /\ player' = [Renew(player, g) EXCEPT !.loop = player.loop]
      /\ todo' = SetCalls(player.pos)
      /\ crossed' = (crossed \/ (player'.rcv # <<>> /\ todo' # <<>>))
  BY DEF SetSynchroIn, Crosses
<1>3. Enters(player, SetCalls(player.pos))
  BY <1>1, <1>2, SetEnters
<1>4. player'.rcv = player.rcv
  BY <1>1, <1>2 DEF Renew, Players
<1>5. crossed' \in BOOLEAN /\ (~crossed' => ~crossed /\ player.rcv = <<>>)
  BY <1>1, <1>2, <1>3, <1>4 DEF Enters
<1> QED
  BY <1>1, <1>2, <1>3, <1>5, RenewKept

\* A millisecond passes.
LEMMA TimeIs ==
  ASSUME NEW p, Sane(p), p.elapsed < MaxMs,
         \A x \in Cell : p.kernel[x] # NULL => p.kernel[x].left > 0
  PROVE  LET q == [p EXCEPT
               !.kernel = [x \in Cell |-> IF @[x] = NULL THEN NULL
                                          ELSE [@[x] EXCEPT !.left = p.kernel[x].left - 1]],
               !.elapsed = IF p.state = "playing" THEN @ + 1 ELSE @] IN
         /\ Sane(q)
         /\ q.state = p.state /\ q.pos = p.pos /\ q.play = p.play /\ q.tempo = p.tempo
         /\ q.sound = p.sound /\ q.left = p.left /\ q.prog = p.prog /\ q.chase = p.chase
         /\ q.loop = p.loop /\ q.rcv = p.rcv /\ q.status = p.status /\ q.date = p.date
         /\ q.fTask = p.fTask
         /\ q.elapsed = IF p.state = "playing" THEN p.elapsed + 1 ELSE p.elapsed
         /\ NeverLate(p) => NeverLate(q)
         /\ p.state = "playing" => \A t \in TicksTask : Exact(p, t) => Exact(q, t)
<1> DEFINE kernel == [x \in Cell |-> IF p.kernel[x] = NULL THEN NULL
                                     ELSE [p.kernel[x] EXCEPT !.left = p.kernel[x].left - 1]]
           elapsed == IF p.state = "playing" THEN p.elapsed + 1 ELSE p.elapsed
           q == [p EXCEPT
               !.kernel = [x \in Cell |-> IF @[x] = NULL THEN NULL
                                          ELSE [@[x] EXCEPT !.left = p.kernel[x].left - 1]],
               !.elapsed = IF p.state = "playing" THEN @ + 1 ELSE @]
<1>1. /\ p \in Players /\ p.left \subseteq p.sound /\ Pointed(p) /\ Followed(p) /\ Met(p.chase)
      /\ p.state # "playing" => p.elapsed = 0
      /\ p.kernel \in [Cell -> KernelTasks \cup {NULL}] /\ p.elapsed \in Nat
      /\ p.fTask \in [TicksTask -> Cell \cup {NULL}]
      /\ "tempo" \in TicksTask
  BY Fields DEF Sane, TicksTask
<1>2. q = [p EXCEPT !.kernel = kernel, !.elapsed = elapsed]
  OBVIOUS
<1>3. /\ kernel \in [Cell -> KernelTasks \cup {NULL}]
      /\ \A x \in Cell : /\ kernel[x] = NULL <=> p.kernel[x] = NULL
                         /\ p.kernel[x] # NULL => kernel[x].task = p.kernel[x].task
                                                  /\ kernel[x].left = p.kernel[x].left - 1
  <2> SUFFICES ASSUME NEW x \in Cell, p.kernel[x] # NULL
               PROVE  LET k == [p.kernel[x] EXCEPT !.left = p.kernel[x].left - 1] IN
                      /\ k \in KernelTasks /\ k # NULL /\ k.task = p.kernel[x].task
                      /\ k.left = p.kernel[x].left - 1
    OBVIOUS
  <2> DEFINE j == p.kernel[x]
             m == j.left - 1
             k == [j EXCEPT !.left = m]
  <2>1. j \in KernelTasks
    BY <1>1
  <2>2. j.left \in Nat /\ j.left > 0
    BY <2>1, ATask
  <2>3. m \in Nat
    BY <2>2
  <2> HIDE DEF j, m
  <2>4. k \in KernelTasks /\ k.task = j.task /\ k.left = m
    BY <2>1, <2>3 DEF KernelTasks
  <2>5. k # NULL
    BY <2>4, ATask
  <2> QED
    BY <2>4, <2>5 DEF j, m
<1>4. elapsed \in Nat
  BY <1>1
<1> HIDE DEF kernel, q
<1>5. /\ q \in Players /\ q.kernel = kernel /\ q.elapsed = elapsed
      /\ q.state = p.state /\ q.pos = p.pos /\ q.play = p.play /\ q.tempo = p.tempo
      /\ q.sound = p.sound /\ q.left = p.left /\ q.prog = p.prog /\ q.chase = p.chase
      /\ q.loop = p.loop /\ q.rcv = p.rcv /\ q.status = p.status /\ q.date = p.date
      /\ q.fTask = p.fTask /\ q.table = p.table
  <2> HIDE DEF elapsed
  <2> QED
    BY <1>1, <1>2, <1>3, <1>4 DEF Players
<1>6. Base(q) = Base(p)
  BY <1>5, SameBase
\* The task t is a millisecond nearer, as its date is.
<1>7. ASSUME NEW t \in TicksTask, p.fTask[t] # NULL, Exact(p, t), p.state = "playing"
      PROVE  /\ Exact(q, t) /\ ToMs(Base(p), p.date[t]) \in Int
             /\ p.elapsed + 1 <= ToMs(Base(p), p.date[t])
  <2> DEFINE x == p.fTask[t]
             a == ToMs(Base(p), p.date[t])
             m == p.kernel[x].left
  <2>1. x \in Cell /\ p.kernel[x] # NULL
    BY <1>1, <1>7 DEF Pointed
  <2>2. m > 0 /\ kernel[x].left = m - 1 /\ m = Left(p, t)
    BY <1>3, <1>7, <2>1 DEF Exact
  <2>3. a \in Int /\ Left(p, t) \in Nat
        /\ Left(p, t) = IF a - p.elapsed < 0 THEN 0 ELSE a - p.elapsed
    BY <1>1, LeftIs
  <2>4. Left(q, t) = IF a - q.elapsed < 0 THEN 0 ELSE a - q.elapsed
    BY <1>5, <1>6, LeftIs
  <2>5. q.elapsed = p.elapsed + 1
    BY <1>5, <1>7
  <2> HIDE DEF a, m
  <2>6. a - p.elapsed > 0 /\ m = a - p.elapsed
    BY <1>1, <2>2, <2>3
  <2>7. Left(q, t) = m - 1 /\ p.elapsed + 1 <= a
    BY <1>1, <2>3, <2>4, <2>5, <2>6
  <2>8. Exact(q, t)
    BY <1>5, <2>2, <2>7 DEF Exact
  <2> QED
    BY <2>3, <2>7, <2>8 DEF a
<1>8. \A t \in TicksTask : Exact(p, t) /\ p.state = "playing" => Exact(q, t)
  <2> SUFFICES ASSUME NEW t \in TicksTask, Exact(p, t), p.state = "playing" PROVE Exact(q, t)
    OBVIOUS
  <2>1. CASE p.fTask[t] = NULL
    BY <1>5, <2>1 DEF Exact
  <2>2. CASE p.fTask[t] # NULL
    BY <1>7, <2>2
  <2> QED
    BY <2>1, <2>2
<1>9. Sane(q)
  <2>1. Pointed(q)
    BY <1>1, <1>3, <1>5, ATask DEF Pointed
  <2>2. Followed(q)
    BY <1>1, <1>5, <1>8 DEF Followed
  <2> QED
    BY <1>1, <1>5, <2>1, <2>2 DEF Sane
<1>10. ASSUME NeverLate(p) PROVE NeverLate(q)
  <2> SUFFICES ASSUME p.state = "playing", ~p.tempo.last
               PROVE  /\ p.status["tempo"] = "running" /\ p.fTask["tempo"] # NULL
                      /\ p.elapsed + 1 <= Ms[p.tempo.cur]
    BY <1>5 DEF NeverLate
  <2>1. p.status["tempo"] = "running" /\ p.fTask["tempo"] # NULL
    BY <1>10 DEF NeverLate
  <2>2. p.date["tempo"] = p.tempo.cur /\ Exact(p, "tempo")
    BY <1>1, <2>1 DEF Followed
  <2>3. p.elapsed + 1 <= ToMs(Base(p), p.tempo.cur)
    BY <1>1, <1>7, <2>1, <2>2
  <2>4. ToMs(Base(p), p.tempo.cur) = Ms[p.tempo.cur]
    BY <1>1, Ahead
  <2> QED
    BY <2>1, <2>3, <2>4
<1> QED
  BY <1>5, <1>8, <1>9, <1>10 DEF q

LEMMA TimeKept ==
  ASSUME IInv, Time
  PROVE  Kept
<1> DEFINE p == player
           q == [p EXCEPT
               !.kernel = [x \in Cell |-> IF @[x] = NULL THEN NULL
                                          ELSE [@[x] EXCEPT !.left = p.kernel[x].left - 1]],
               !.elapsed = IF p.state = "playing" THEN @ + 1 ELSE @]
<1>1. /\ Sane(p) /\ p \in Players /\ Proper(todo) /\ Quiet(p, todo) /\ crossed \in BOOLEAN
      /\ p.elapsed \in Nat
  BY Fields DEF IInv, Sane
<1>2. /\ p.rcv = <<>> /\ p.elapsed < MaxMs
      /\ \A x \in Cell : p.kernel[x] # NULL => p.kernel[x].left > 0
      /\ player' = q /\ todo' = todo /\ crossed' = crossed
  BY DEF Time
<1>3. /\ Sane(q)
      /\ q.state = p.state /\ q.pos = p.pos /\ q.play = p.play /\ q.tempo = p.tempo
      /\ q.sound = p.sound /\ q.left = p.left /\ q.prog = p.prog /\ q.chase = p.chase
      /\ q.loop = p.loop /\ q.rcv = p.rcv /\ q.status = p.status /\ q.date = p.date
      /\ q.fTask = p.fTask
      /\ q.elapsed = IF p.state = "playing" THEN p.elapsed + 1 ELSE p.elapsed
      /\ NeverLate(p) => NeverLate(q)
      /\ p.state = "playing" => \A t \in TicksTask : Exact(p, t) => Exact(q, t)
  <2> HIDE DEF p
  <2> QED
    BY <1>1, <1>2, TimeIs
<1> HIDE DEF q
<1>4. \A d \in Date : Ms[d] \in Nat
  BY MsType
<1>5. Upheld(q, todo, crossed)
  BY <1>1, <1>3 DEF Upheld, Quiet
<1>6. ASSUME OnTime(p, todo) PROVE OnTime(q, todo)
  <2>0. p.elapsed <= q.elapsed /\ q.elapsed \in Nat
    BY <1>1, <1>3
  <2>1. Begun(p) => Begun(q)
    <3>1. Base(q) = Base(p) /\ Base(p) \in Date
      BY <1>1, <1>3, SameBase, BaseType
    <3> QED
      BY <1>1, <1>3, <1>4, <2>0, <3>1 DEF Begun
  <2>2. Seen(p) => Seen(q)
    BY <1>1, <1>3, <1>4, <2>0, Positive DEF Seen, Date
  <2>3. p.state = "playing" /\ Waits(p) => Waits(q)
    BY <1>3 DEF Waits, TicksTask
  <2>4. p.state = "playing" /\ Runs(p) => Runs(q)
    BY <1>3, <2>3, HasSame DEF Runs
  <2>5. NotRunning(p) => NotRunning(q)
    BY <1>3 DEF NotRunning
  <2>6. Op(todo) = "TickCont" /\ Ms[Min({todo[1].date, End})] <= p.elapsed
          => Ms[Min({todo[1].date, End})] <= q.elapsed
    <3> SUFFICES ASSUME Op(todo) = "TickCont" PROVE Ms[Min({todo[1].date, End})] \in Nat
      BY <1>1, <2>0
    <3>1. todo # <<>>
      BY DEF Op
    <3>2. todo[1].date \in Nat
      BY <1>1, <3>1, ProperIs DEF Steps
    <3> QED
      BY <1>4, <3>2, MinEnd
  <2>7. q.tempo = p.tempo /\ q.play = p.play /\ q.date = p.date /\ q.fTask = p.fTask
    BY <1>3
  <2>8. Playing(q, todo)
    <3>1. Playing(p, todo)
      BY <1>6 DEF OnTime
    <3>2. Op(todo) = "none" /\ q.state = "playing" => Seen(q) /\ Runs(q)
      BY <1>3, <2>2, <2>4, <3>1 DEF Playing
    <3>3. Op(todo) = "TickStart" =>
            q.state = "playing" /\ Seen(q) /\ (q.play = First \/ Waits(q))
      BY <1>3, <2>2, <2>3, <3>1 DEF Playing
    <3>4. Op(todo) = "TickCont" => q.state = "playing" /\ Ms[Min({todo[1].date, End})] <= q.elapsed
      BY <1>3, <2>6, <3>1 DEF Playing
    <3>5. (Op(todo) = "none" /\ q.state # "playing") \/ Op(todo) \in Stopped => NotRunning(q)
      BY <1>3, <2>5, <3>1 DEF Playing
    <3>6. Op(todo) = "SynchroStart" =>
            /\ q.tempo = First
            /\ \/ q.play = First
               \/ /\ q.fTask["play"] = NULL /\ q.date["play"] = q.play.cur
                  /\ q.play.cur <= 1 /\ ~q.play.last
      BY <2>7, <3>1 DEF Playing
    <3> QED
      BY <3>2, <3>3, <3>4, <3>5, <3>6 DEF Playing
  <2> QED
    BY <1>6, <2>1, <2>8 DEF OnTime
<1>7. ASSUME Tuned(p, todo) PROVE Tuned(q, todo)
  BY <1>3, <1>7 DEF Tuned, Audible, Patched, Onward, From, Sounding, Ended, Played
<1>9. InTimeFor(p, todo, crossed) => InTimeFor(q, todo, crossed)
  BY <1>3, <1>6 DEF InTimeFor, OnItsWay
<1> QED
  BY <1>2, <1>5, <1>7, <1>9 DEF Kept, Keeps

LEMMA Stutters ==
  ASSUME IInv, UNCHANGED vars
  PROVE  Kept
<1>1. player' = player /\ todo' = todo /\ crossed' = crossed
  BY DEF vars
<1> QED
  BY <1>1, UpheldIs DEF Kept, Keeps

LEMMA Inductive ==
  ASSUME IInv, [Next]_vars
  PROVE  Kept
<1>1. CASE Start \/ Stop \/ Pause \/ Cont \/ SetParam \/ \E d \in Position : SetPosTicks(d)
  BY <1>1, UserKept
<1>2. CASE SetLoop
  BY <1>2, SetLoopKept
<1>3. ASSUME NEW g \in Garbage, SetTrack(g) \/ SetSynchroIn(g)
      PROVE  Kept
  BY <1>3, SetTrackKept, SetSynchroInKept
<1>4. ASSUME NEW x \in Cell, ExecuteTask(x)
      PROVE  Kept
  BY <1>4, ExecuteKept
<1>5. CASE ReceiveStop
  BY <1>5, ReceiveStopKept
<1>6. CASE ReceiveLoopEnd
  BY <1>6, ReceiveLoopEndKept
<1>7. CASE Time
  BY <1>7, TimeKept
<1>8. CASE Continue
  BY <1>8, ContinueKept
<1>9. CASE UNCHANGED vars
  BY <1>9, Stutters
<1> QED
  BY <1>1, <1>2, <1>3, <1>4, <1>5, <1>6, <1>7, <1>8, <1>9 DEF Next, Handler, User

(***************************************************************************)
(* The player at the beginning.                                            *)
(***************************************************************************)
LEMMA Begin ==
  ASSUME Init
  PROVE  IInv /\ Timely /\ Chasing
<1>1. PICK g \in Garbage : player =
                [state |-> "idle", pos |-> 0, elapsed |-> 0, play |-> First, tempo |-> First,
                 sound |-> {}, left |-> {}, prog |-> NULL, chase |-> NewChaser(g),
                 loop |-> FALSE, rcv |-> <<>>, table |-> {}, kernel |-> [x \in Cell |-> NULL],
                 status |-> [t \in TicksTask |-> "idle"],
                 date |-> [t \in TicksTask |-> 0], fTask |-> [t \in TicksTask |-> NULL]]
  BY DEF Init
<1>2. todo = <<>> /\ crossed = FALSE
  BY DEF Init
<1>3. /\ player.state = "idle" /\ player.pos = 0 /\ player.elapsed = 0
      /\ player.play = First /\ player.tempo = First /\ player.sound = {} /\ player.left = {}
      /\ player.chase = NewChaser(g) /\ player.rcv = <<>> /\ player.table = {}
      /\ player.kernel = [x \in Cell |-> NULL]
      /\ player.status = [t \in TicksTask |-> "idle"]
      /\ player.fTask = [t \in TicksTask |-> NULL]
  BY <1>1
<1>4. /\ NewChaser(g) \in Chasers /\ Met(NewChaser(g))
  <2>1. g \in Nat
    BY PlayerAssumption
  <2>2. LET r == [fresh |-> TRUE, date |-> g, from |-> 0, keys |-> {}, prog |-> NULL] IN
        /\ r \in Chasers /\ r.date = g /\ r.from = 0 /\ r.fresh
        /\ r.keys = Held(r.from) /\ r.prog = Last(r.from)
    BY <2>1, InitChaser
  <2> QED
    BY <2>2 DEF NewChaser, Met
<1>5. player \in Players
  <2>1. First \in Iterators /\ NULL \in Programs /\ 0 \in Date /\ <<>> \in Seq({"end", "loop"})
    BY FromFirst, Positive DEF Programs, Date
  <2> QED
    BY <1>1, <1>4, <2>1 DEF Players
<1>6. Sane(player)
  <2>1. Pointed(player)
    BY <1>3 DEF Pointed
  <2>2. Followed(player)
    BY <1>3 DEF Followed, TicksTask
  <2> QED
    BY <1>3, <1>4, <1>5, <2>1, <2>2 DEF Sane
<1>7. Op(todo) = "none" /\ ~Renewing(todo) /\ Proper(todo)
  BY <1>2, NoCalls
<1>8. IInv
  BY <1>2, <1>3, <1>6, <1>7 DEF IInv, Quiet
<1>9. Timely
  <2>1. NotRunning(player)
    BY <1>3 DEF NotRunning, TicksTask
  <2>2. OnTime(player, todo)
    BY <1>3, <1>7, <2>1 DEF OnTime, Playing, Begun
  <2> QED
    BY <1>2, <1>3, <2>2 DEF Timely, NeverLate, OnItsWay
<1>10. Chasing
  <2>1. Audible(player, todo)
    BY <1>3, <1>7 DEF Audible, Sounding, Ended
  <2>2. Patched(player, todo)
    BY <1>3, <1>7 DEF Patched
  <2>3. Onward(player, todo)
    BY <1>3, <1>7, OnwardIdle DEF NotRunning, TicksTask
  <2> QED
    BY <2>1, <2>2, <2>3 DEF Chasing, Tuned
<1> QED
  BY <1>8, <1>9, <1>10

(***************************************************************************)
(* The invariants hold.                                                    *)
(***************************************************************************)
LEMMA StepIInv ==
  ASSUME IInv, [Next]_vars
  PROVE  IInv'
<1>1. Kept
  BY Inductive
<1>2. Upheld(player', todo', crossed')
  BY <1>1 DEF Kept, Keeps
<1> QED
  BY <1>2 DEF Upheld, IInv

LEMMA StepTimely ==
  ASSUME IInv, Timely, [Next]_vars, Cardinality(Cell) > 1
  PROVE  Timely' /\ (Chasing => Chasing')
<1>1. Kept
  BY Inductive
<1>2. InTimeFor(player, todo, crossed)
  BY UpheldIs
<1>3. /\ InTimeFor(player', todo', crossed')
      /\ (~crossed => Tuned(player, todo)) => (~crossed' => Tuned(player', todo'))
  BY <1>1, <1>2 DEF Kept, Keeps
<1>4. Timely'
  BY <1>3 DEF InTimeFor, Timely
<1>5. Chasing => Chasing'
  BY <1>3 DEF Chasing
<1> QED
  BY <1>4, <1>5

LEMMA Always == Spec => []IInv
<1>1. Init => IInv
  BY Begin
<1>2. IInv /\ [Next]_vars => IInv'
  BY StepIInv
<1> QED
  BY <1>1, <1>2, PTL DEF Spec

LEMMA AlwaysTimely ==
  ASSUME Cardinality(Cell) > 1
  PROVE  Spec => []Timely
<1>1. Init => Timely
  BY Begin
<1>2. Timely /\ IInv /\ [Next]_vars => Timely'
  BY StepTimely
<1> QED
  BY <1>1, <1>2, Always, PTL DEF Spec

\* Every variable has its type; the tasks of the kernel and their owners point
\* to each other whatever the user, the score and the tempo map do, and however
\* few cells the kernel has.
THEOREM TypeCorrect == Spec => []TypeOK
<1>1. ASSUME IInv PROVE TypeOK
  <2>1. player \in Players /\ player.left \subseteq player.sound /\ Pointed(player)
        /\ crossed \in BOOLEAN
    BY <1>1 DEF IInv, Sane
  <2>2. /\ player.state \in {"idle", "playing", "pause"}
        /\ player.pos \in Nat /\ player.elapsed \in Nat
        /\ {player.play, player.tempo} \subseteq [cur : Date, date : Date, last : BOOLEAN]
        /\ player.rcv \in Seq({"end", "loop"}) /\ player.loop \in BOOLEAN
        /\ player.sound \subseteq Notes
        /\ player.chase.keys \subseteq Notes /\ player.chase.from \in 0..(End + 1)
        /\ player.table \subseteq TicksTask
        /\ player.status \in [TicksTask -> {"idle", "running", "forget"}]
        /\ player.date \in [TicksTask -> Date]
    BY <2>1, Fields DEF Iterators, Chasers
  <2>3. \A t \in TicksTask : player.fTask[t] # NULL =>
          /\ player.kernel[player.fTask[t]] # NULL
          /\ player.kernel[player.fTask[t]].task = t
    BY <2>1 DEF Pointed
  <2>4. ASSUME NEW x \in Cell, player.kernel[x] # NULL
        PROVE  player.kernel[x].task \in TicksTask
    <3>1. player.kernel[x] \in KernelTasks
      BY <2>1, <2>4, Fields
    <3> QED
      BY <3>1, ATask
  <2> QED
    BY <2>1, <2>2, <2>3, <2>4 DEF TypeOK
<1>2. IInv => TypeOK
  BY <1>1
<1> QED
  BY <1>2, Always, PTL

(***************************************************************************)
(* A player that plays, when all that was due is done.                     *)
(***************************************************************************)
\* Its score is not over, and the tick player waits for the first date that has
\* not come.
LEMMA InBetween ==
  ASSUME IInv, Timely, Settled, player.state = "playing"
  PROVE  /\ player.elapsed < Ms[End] /\ ~player.play.last
         /\ Ms[player.play.cur] > player.elapsed
         /\ \A d \in Date : d < player.play.cur => Ms[d] <= player.elapsed
<1> DEFINE p == player
<1>1. /\ p \in Players /\ Pointed(p) /\ Followed(p) /\ NeverLate(p) /\ OnTime(p, todo)
      /\ p.state = "playing" /\ todo = <<>> /\ p.rcv = <<>>
      /\ \A x \in Cell : p.kernel[x] # NULL => p.kernel[x].left > 0
  BY DEF IInv, Sane, Timely, Settled
<1> HIDE DEF p
<1>2. Op(todo) = "none" /\ ~Renewing(todo)
  BY <1>1, NoCalls
<1>3. Seen(p) /\ Runs(p) /\ Begun(p)
  BY <1>1, <1>2 DEF OnTime, Playing
<1>4. ~Has(p, "end")
  BY <1>1 DEF Has
<1>5. p.status["play"] = "running" /\ p.fTask["play"] # NULL /\ Waits(p)
  BY <1>3, <1>4 DEF Runs
<1>6. /\ p.elapsed \in Nat /\ p.play.cur \in Date /\ p.play.last \in BOOLEAN
      /\ p.tempo.last \in BOOLEAN /\ p.tempo.cur \in Date /\ "play" \in TicksTask
      /\ "tempo" \in TicksTask /\ End \in Date /\ Base(p) \in Date /\ End \in Nat
      /\ \A d \in Date : Ms[d] \in Nat
  BY <1>1, Fields, AnIterator, Positive, BaseType, MsType DEF Date, TicksTask
<1>6a. /\ Ms[End] \in Nat /\ Ms[p.tempo.cur] \in Nat /\ Ms[p.play.cur] \in Nat
       /\ Ms[Base(p)] \in Nat /\ p.elapsed \in Nat
  BY <1>6
\* A task that waits for a date has some time left.
<1>7. ASSUME NEW t \in TicksTask, p.fTask[t] # NULL, Exact(p, t)
      PROVE  ToMs(Base(p), p.date[t]) > p.elapsed
  <2>1. p.fTask[t] \in Cell
    BY <1>1, <1>7, Fields
  <2>2. p.kernel[p.fTask[t]].left > 0
    BY <1>1, <1>7, <2>1 DEF Pointed
  <2>3. Left(p, t) > 0
    BY <1>7, <2>2 DEF Exact
  <2> DEFINE a == ToMs(Base(p), p.date[t])
  <2>4. a \in Int /\ Left(p, t) = IF a - p.elapsed < 0 THEN 0 ELSE a - p.elapsed
    BY <1>1, LeftIs
  <2> HIDE DEF a
  <2>5. a > p.elapsed
    BY <1>6, <2>3, <2>4
  <2> QED
    BY <2>5 DEF a
<1>8. ToMs(Base(p), p.play.cur) > p.elapsed
  BY <1>5, <1>6, <1>7 DEF Waits
<1>9. ~p.tempo.last
  <2> SUFFICES ASSUME p.tempo.last PROVE FALSE
    BY <1>6
  <2>1. Base(p) = End /\ Ms[End] <= p.elapsed
    BY <1>1, <1>3, BaseType DEF Begun
  <2>2. ToMs(End, p.play.cur) <= ToMs(End, End) /\ ToMs(End, End) = Ms[End]
    BY <1>6, ToMsGrows, ToMsHere DEF Date
  <2>3. ToMs(End, p.play.cur) \in Int
    BY <1>6, ToMsType DEF Date
  <2> QED
    BY <1>6, <1>8, <2>1, <2>2, <2>3
<1>10. p.elapsed < Ms[p.tempo.cur]
  <2>1. p.status["tempo"] = "running" /\ p.fTask["tempo"] # NULL
    BY <1>1, <1>9 DEF NeverLate
  <2>2. p.date["tempo"] = p.tempo.cur /\ Exact(p, "tempo")
    BY <1>1, <2>1 DEF Followed
  <2>3. ToMs(Base(p), p.tempo.cur) > p.elapsed
    BY <1>6, <1>7, <2>1, <2>2
  <2>4. ToMs(Base(p), p.tempo.cur) = Ms[p.tempo.cur]
    BY <1>1, <1>9, Ahead
  <2> QED
    BY <2>3, <2>4
<1>11. p.elapsed < Ms[End]
  <2>1. Ms[p.tempo.cur] <= Ms[End]
    BY <1>6, MsGrows DEF Date
  <2> QED
    BY <1>6a, <1>10, <2>1
<1>12. ~p.play.last
  BY <1>3, <1>6, <1>11 DEF Seen
<1>13. Ms[p.play.cur] > p.elapsed
  <2>1. CASE p.play.cur >= p.tempo.cur
    <3>1. Ms[p.tempo.cur] <= Ms[p.play.cur]
      BY <1>6, <2>1, MsGrows DEF Date
    <3> QED
      BY <1>6a, <1>10, <3>1
  <2>2. CASE p.play.cur < p.tempo.cur
    <3>1. Base(p) = p.tempo.cur - 1 /\ p.play.cur <= Base(p)
      <4>1. p.tempo.cur \in Nat /\ p.play.cur \in Nat
        BY <1>6 DEF Date
      <4>2. Base(p) = IF p.tempo.cur = 0 THEN 0 ELSE p.tempo.cur - 1
        BY <1>1, <1>9, BaseType
      <4> QED
        BY <2>2, <4>1, <4>2
    <3>2. ToMs(Base(p), p.play.cur) <= ToMs(Base(p), Base(p))
      BY <1>6, <3>1, ToMsGrows DEF Date
    <3>3. ToMs(Base(p), Base(p)) = Ms[Base(p)] /\ Ms[Base(p)] <= p.elapsed
      BY <1>1, <1>3, <1>6, ToMsHere DEF Begun
    <3>4. ToMs(Base(p), p.play.cur) \in Int
      BY <1>6, ToMsType DEF Date
    <3> QED
      BY <1>6a, <1>8, <3>2, <3>3, <3>4
  <2>3. p.play.cur \in Nat /\ p.tempo.cur \in Nat
    BY <1>6 DEF Date
  <2> QED
    BY <2>1, <2>2, <2>3
<1>14. \A d \in Date : d < p.play.cur => Ms[d] <= p.elapsed
  BY <1>3 DEF Seen
<1> QED
  BY <1>11, <1>12, <1>13, <1>14 DEF p

LEMMA PunctualIs ==
  ASSUME IInv, Timely
  PROVE  Punctual
<1> SUFFICES ASSUME Settled, player.state = "playing"
             PROVE  /\ player.elapsed < Ms[End]
                    /\ \A d \in Date : d < player.play.cur <=> Ms[d] <= player.elapsed
  BY DEF Punctual
<1>1. /\ player.elapsed < Ms[End]
      /\ Ms[player.play.cur] > player.elapsed
      /\ \A d \in Date : d < player.play.cur => Ms[d] <= player.elapsed
  BY InBetween
<1>2. player.play.cur \in Date /\ player.elapsed \in Nat
  BY Fields, AnIterator DEF IInv, Sane
<1>3. ASSUME NEW d \in Date, Ms[d] <= player.elapsed PROVE d < player.play.cur
  <2>1. d \in Nat /\ player.play.cur \in Nat /\ Ms[d] \in Nat /\ Ms[player.play.cur] \in Nat
    BY <1>2, MsType DEF Date
  <2>2. player.play.cur <= d => Ms[player.play.cur] <= Ms[d]
    BY <1>2, MsGrows
  <2> QED
    BY <1>1, <1>2, <1>3, <2>1, <2>2
<1> QED
  BY <1>1, <1>3

\* A player that plays, and that no typeScoreEnd has crossed, has played exactly
\* the events whose date has come, after any calls, by any tempo map: when the
\* kernel has a cell for each of its two tasks (TScheduler.cpp:122).
THEOREM PunctualAlways ==
  ASSUME Cardinality(Cell) > 1
  PROVE  Spec => []Punctual
<1>1. IInv /\ Timely => Punctual
  BY PunctualIs
<1> QED
  BY <1>1, Always, AlwaysTimely, PTL

LEMMA ChasedIs ==
  ASSUME IInv, Timely, Chasing
  PROVE  Chased
<1> DEFINE progs == {d \in Date : d < player.play.cur /\ Prog[d] # NULL}
<1>1. progs = Before(player.play.cur)
  BY DEF Before
<1>2. ASSUME Settled PROVE Tuned(player, todo) /\ Op(todo) = "none"
  BY <1>2, NoCalls DEF Settled, Chasing
<1>3. ASSUME Settled, player.state = "playing", progs # {}, ~player.chase.fresh
      PROVE  player.prog = Prog[Max(progs)]
  <2>1. ~player.play.last
    BY <1>3, InBetween
  <2>2. Played(player, player.play.cur)
    BY <1>2, <1>3, <2>1 DEF Tuned, Patched
  <2> QED
    BY <1>1, <1>3, <2>2 DEF Played, Last
<1>4. ASSUME Settled, player.state = "idle"
      PROVE  player.sound \subseteq player.left
  BY <1>2, <1>4 DEF Tuned, Audible, Ended
<1> HIDE DEF progs
<1> QED
  BY <1>3, <1>4 DEF Chased, progs

\* Wherever it was started or moved to, the player plays with the program that
\* the score would have by then, once its chaser has been given a date, and
\* leaves no note when it stops, whatever the memory of a new chaser holds
\* (TChaserIterator.cpp:60).
THEOREM ChasedAlways ==
  ASSUME Cardinality(Cell) > 1
  PROVE  Spec => []Chased
<1>1. Init => Chasing
  BY Begin
<1>2. Chasing /\ IInv /\ Timely /\ [Next]_vars => Chasing'
  BY StepTimely
<1>3. IInv /\ Timely /\ Chasing => Chased
  BY ChasedIs
<1> QED
  BY <1>1, <1>2, <1>3, Always, AlwaysTimely, PTL DEF Spec

(***************************************************************************)
(* A player that does not play.                                            *)
(***************************************************************************)
LEMMA StopsStill ==
  ASSUME NEW p, Sane(p)
  PROVE  LET q == ChaseOff(TickStop(SynchroStop(p))) IN q.play = p.play /\ q.rcv = p.rcv
<1> DEFINE a == SynchroStop(p)
           b == TickStop(a)
           q == ChaseOff(b)
           k == Step("ChaseOff")
           y == Step("TickStop") \o k
<1>1. /\ Begins(StopCalls, "SynchroStop", y) /\ Begins(y, "TickStop", k)
      /\ Proper(k) /\ Op(k) = "ChaseOff" /\ k # <<>>
  BY StopIs
<1>2. Carried(p, StopCalls, a, y)
  BY <1>1, SynchroStopStep DEF Begins
<1>3. a.play = p.play
  <2> DEFINE f == Forget(p, "tempo")
  <2>1. f \in Players /\ f.play = p.play
    BY ForgetIs DEF Sane, TicksTask, SameButKernel
  <2> HIDE DEF f
  <2> QED
    BY <2>1 DEF SynchroStop, f, Players
<1> HIDE DEF a, k, y
<1>4. Sane(a) /\ Quiet(a, y) /\ a.rcv = p.rcv
  BY <1>2 DEF Carried
<1>5. Carried(a, y, b, k)
  <2>1. Carried(a, y, TickStop(a), Tail(y))
    BY <1>1, <1>4, TickStopStep DEF Begins
  <2> QED
    BY <1>1, <2>1 DEF Begins
<1>6. b.play = a.play
  BY <1>4, ForgetIs DEF Sane, TicksTask, SameButKernel, TickStop
<1> HIDE DEF b
<1>7. Sane(b) /\ b.rcv = a.rcv
  BY <1>5 DEF Carried
<1>8. q.play = b.play /\ q.rcv = b.rcv
  BY <1>7, ChaseOffIs DEF Sane
<1> QED
  BY <1>3, <1>4, <1>6, <1>7, <1>8 DEF q, b, a

\* A task that was forgotten does nothing.
LEMMA Forgotten ==
  ASSUME NEW p, Sane(p), NEW x \in Cell, p.kernel[x] # NULL,
         \A t \in TicksTask : p.status[t] # "running"
  PROVE  After(p, x).play = p.play /\ After(p, x).rcv = p.rcv
<1> DEFINE t == p.kernel[x].task
<1>1. p \in Players /\ p.kernel[x] \in KernelTasks
  BY Fields DEF Sane
<1>2. t \in TicksTask /\ p.status[t] # "running"
  BY <1>1, ATask
<1> HIDE DEF t
<1>3. ExecuteTaskInt([p EXCEPT !.kernel[x] = NULL], t).play = p.play
      /\ ExecuteTaskInt([p EXCEPT !.kernel[x] = NULL], t).rcv = p.rcv
  BY <1>1, <1>2 DEF ExecuteTaskInt, Clear, Players
<1> QED
  BY <1>3 DEF After, t

LEMMA Still ==
  ASSUME IInv, Timely, Next, todo = <<>>, ~crossed, player.state # "playing"
  PROVE  player'.play \in {player.play, First, AtTicks(LoopStart)} /\ Len(player'.rcv) <= Len(player.rcv)
<1> DEFINE p == player
<1>1. /\ Sane(p) /\ p \in Players /\ Followed(p) /\ OnTime(p, <<>>)
      /\ p.rcv \in Seq({"end", "loop"}) /\ Len(p.rcv) \in Nat
  BY Fields, LenProperties DEF IInv, Sane, Timely
<1>2. \A t \in TicksTask : p.status[t] # "running"
  <2>1. NotRunning(p)
    BY <1>1, NoCalls DEF OnTime, Playing
  <2> QED
    BY <1>1, <2>1 DEF Followed, NotRunning, TicksTask
<1>3. ASSUME NEW x \in Cell, ExecuteTask(x)
      PROVE  player'.play = p.play /\ player'.rcv = p.rcv
  <2>1. player' = After(p, x) /\ p.kernel[x] # NULL
    BY <1>3 DEF ExecuteTask, After
  <2> HIDE DEF p
  <2> QED
    BY <1>1, <1>2, <2>1, Forgotten
<1>4. ASSUME p.rcv # <<>>
      PROVE  LET q == [p EXCEPT !.rcv = Tail(@)] IN
             /\ Sane(q) /\ q.play = p.play /\ q.state = p.state /\ Len(q.rcv) <= Len(p.rcv)
  <2> DEFINE q == [p EXCEPT !.rcv = Tail(@)]
  <2>1. q \in Players /\ Alike(p, q) /\ q.rcv = Tail(p.rcv)
    BY <1>1, <1>4, ReadIs
  <2>2. Len(Tail(p.rcv)) = Len(p.rcv) - 1
    BY <1>1, <1>4, HeadTailProperties
  <2> HIDE DEF q, p
  <2>3. Sane(q)
    BY <1>1, <2>1, AlikeIs
  <2> QED
    BY <1>1, <2>1, <2>2, <2>3 DEF Alike, q
<1>5. CASE ReceiveStop
  <2> DEFINE q == [p EXCEPT !.rcv = Tail(@)]
             s == ChaseOff(TickStop(SynchroStop(q)))
  <2>1. p.rcv # <<>> /\ player' = IF Stops(q) THEN s ELSE q
    BY <1>5 DEF ReceiveStop
  <2>2. Sane(q) /\ q.play = p.play /\ Len(q.rcv) <= Len(p.rcv)
    BY <1>4, <2>1
  <2> HIDE DEF q
  <2>3. s.play = q.play /\ s.rcv = q.rcv
    BY <2>2, StopsStill
  <2> HIDE DEF s
  <2> QED
    BY <2>1, <2>2, <2>3
\* The end of the loop takes it back to the beginning of the loop.
<1>6. CASE ReceiveLoopEnd
  <2> DEFINE q == [p EXCEPT !.rcv = Tail(@)]
             r == SynchroSetPos(q, LoopStart)
             g == TickSetPos(r, LoopStart)
  <2>1. p.rcv # <<>> /\ player' = IF q.loop THEN GoToStart(q) ELSE q
    BY <1>6 DEF ReceiveLoopEnd
  <2>2. Sane(q) /\ q.play = p.play /\ q.state # "playing" /\ Len(q.rcv) <= Len(p.rcv)
    BY <1>4, <2>1
  <2> HIDE DEF q
  <2>3. GoToStart(q) = g
    BY <2>2 DEF GoToStart
  <2>4. LoopStart \in Nat /\ q \in Players /\ q.left \subseteq q.sound
    BY <2>2, PlayerAssumption DEF Date, Sane
  <2>5. r \in Players /\ r.rcv = q.rcv
    BY <2>4, SynchroSetPosIs
  <2> HIDE DEF r
  <2>6. g.play = AtTicks(LoopStart) /\ g.rcv = r.rcv
    BY <2>4, <2>5, TickSetPosIs
  <2> HIDE DEF g
  <2> QED
    BY <2>1, <2>2, <2>3, <2>5, <2>6
<1>7. CASE Time
  BY <1>1, <1>7 DEF Time, Players
<1>8. CASE Start \/ Stop \/ Pause \/ Cont \/ SetParam \/ \E d \in Position : SetPosTicks(d)
  <2>1. player' = player
    BY <1>8 DEF Start, Stop, Pause, Cont, SetParam, SetPosTicks, Call
  <2> QED
    BY <1>1, <2>1
<1>9. CASE SetLoop
  BY <1>1, <1>9 DEF SetLoop, Players
<1>10. ASSUME NEW g \in Garbage, SetTrack(g) \/ SetSynchroIn(g)
       PROVE  player'.play = First /\ player'.rcv = p.rcv
  <2>1. /\ p.state = "idle"
        /\ player' = Renew(p, g) \/ player' = [Renew(p, g) EXCEPT !.loop = p.loop]
    BY <1>10 DEF SetTrack, SetSynchroIn
  <2>2. p.loop \in BOOLEAN
    BY <1>1, Fields
  <2> HIDE DEF p
  <2>3. \A l \in BOOLEAN : LET q == [Renew(p, g) EXCEPT !.loop = l] IN
                           q.play = First /\ q.rcv = p.rcv
    BY <1>1, <2>1, RenewIs
  <2>4. Renew(p, g).play = First /\ Renew(p, g).rcv = p.rcv
    BY <1>1 DEF Renew, Players
  <2> QED
    BY <2>1, <2>2, <2>3, <2>4
<1>11. ~Continue
  BY DEF Continue
<1> QED
  BY <1>1, <1>3, <1>5, <1>6, <1>7, <1>8, <1>9, <1>10, <1>11 DEF Next, Handler, User

\* When Stop or Pause has returned or the score has ended, nothing is played any
\* more and nothing is sent, whatever tasks the kernel still has: the player only
\* goes back, to the beginning or to that of the loop (TScheduler.cpp:107).
THEOREM SilentAlways ==
  ASSUME Cardinality(Cell) > 1
  PROVE  Spec => Silent
<1>1. ASSUME IInv, Timely, [Next]_vars
      PROVE  [\/ player'.play \notin {player.play, First, AtTicks(LoopStart)}
              \/ Len(player'.rcv) > Len(player.rcv)
              => player.state = "playing" \/ todo # <<>> \/ crossed]_vars
  <2> SUFFICES ASSUME Next, todo = <<>>, ~crossed, player.state # "playing"
               PROVE  player'.play \in {player.play, First, AtTicks(LoopStart)}
                      /\ ~(Len(player'.rcv) > Len(player.rcv))
    BY <1>1
  <2>1. player'.play \in {player.play, First, AtTicks(LoopStart)}
        /\ Len(player'.rcv) <= Len(player.rcv)
    BY <1>1, Still
  <2>2. IInv'
    BY <1>1, StepIInv
  <2>3. Len(player'.rcv) \in Nat /\ Len(player.rcv) \in Nat
    BY <1>1, <2>2, Fields, LenProperties DEF IInv, Sane
  <2> QED
    BY <2>1, <2>3
<1> QED
  BY <1>1, Always, AlwaysTimely, PTL DEF Spec, Silent
=============================================================================
