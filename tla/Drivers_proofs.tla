---------------------------- MODULE Drivers_proofs ----------------------------
(***************************************************************************)
(* Proofs about Drivers, for any clients, any number of drivers, slots and *)
(* ports, any memory and any listeners with an alarm.                      *)
(***************************************************************************)
EXTENDS Drivers, FiniteSetTheorems, FunctionTheorems, TLAPS

\* The bounds of the counts of cells, which Conserved gives, left out.
Types ==
    /\ phase \in Phases /\ ref \in 0..NDrivers /\ todo \in Nat
    /\ open \subseteq Client /\ nbAppls \in Nat
    /\ registered \subseteq Driver /\ nbDrivers \in Nat
    /\ awake \subseteq Driver /\ linked \subseteq registered /\ late \in 0..NDrivers
    /\ map \in [Driver -> [Slot -> (SUBSET Port) \cup {NoMap}]]
    /\ port \in [Driver -> [Port -> SUBSET Slot]]
    /\ call \in Call
    /\ sched \in Seq(Event) /\ Len(sched) <= MaxSched
    /\ free \in Nat /\ rcv \in [Listener -> Nat]
    /\ rcvFlag \in [Listener -> 0..RcvMod-1] /\ active \in [Listener -> Nat]
    /\ tick \in BOOLEAN

\* The counts are right all the time, and a driver is connected when it is both
\* registered and awake: closeDriver takes it out before it calls its callback.
Counted ==
    /\ nbAppls = Cardinality(open) + (IF Self THEN 1 ELSE 0)
    /\ ~ Self => open = {}
    /\ nbDrivers = Cardinality(registered) + (IF phase = "asleep" THEN 0 ELSE 1)
    /\ linked = registered \cap awake
    /\ call.op = "unregister" => (call.d \in registered <=> call.at = "close")

\* The drivers a loop has yet to look for, and those it has left out.
Ahead == {d \in registered : d <= ref}
Missed == {d \in registered \ awake : d > ref}
Spared == {d \in registered \cap awake : d > ref}

\* A loop has left out no more drivers than have come meanwhile, and what is left
\* of its count is enough for the others, up to those that have come.
Looped ==
    /\ phase = "opening" => /\ Cardinality(Missed) <= late
                            /\ Cardinality(Missed) + Cardinality(Ahead) <= todo + late
    /\ phase = "sleeping" => /\ Spared = {}
                             /\ Cardinality(Ahead) <= todo + late
    /\ phase = "awake" => Cardinality(registered \ awake) <= late
    /\ phase \in {"asleep", "special", "clock", "stopped"} =>
         Cardinality(registered \cap awake) <= late

\* The two tables of the slots agree, but for the slots being changed, whose
\* call says what it has still to write.
Agree(d, s, p) ==
    s \in port[d][p] <=> map[d][s] # NoMap /\ p \in map[d][s]

Wired ==
    /\ \A d \in registered, s \in Slot, p \in Port :
          ~ Changing(d, s) => Agree(d, s, p)
    /\ call.op = "connect" =>
         /\ map[call.d][call.s] # NoMap
         /\ \A p \in Port : IF p = call.p THEN call.s \in port[call.d][p] <=> call.state
                            ELSE Agree(call.d, call.s, p)
    /\ call.op = "remove" /\ call.at = "clear" => map[call.d][call.s] = NoMap

\* Where the cells are; nobody else has received any.
Kept ==
    /\ Conserved
    /\ ~ Memory => free = 0 /\ \A x \in Listener : rcv[x] = 0
    /\ \A x \in Listener \ (open \cup linked) : rcv[x] = 0

\* A listener that is not in the table of active clients is not marked, and has
\* nothing that its alarm must take.
Marked ==
    /\ \A x \in Listener : active[x] = 0 => /\ rcvFlag[x] = kNoRcvFlag
                                            /\ x \in Alarmed => rcv[x] = 0
    /\ ~ tick => \A x \in Listener : active[x] = 0

IInv == Types /\ Counted /\ Looped /\ Wired /\ Kept /\ Marked

(***************************************************************************)
(* Counting the cells of the receive fifos.                                *)
(***************************************************************************)
LEMMA FiniteSets == IsFiniteSet(Client) /\ IsFiniteSet(Driver) /\ IsFiniteSet(Listener)
<1>1. IsFiniteSet(Client)
  BY DriversAssumption
<1>2. IsFiniteSet(Driver)
  BY DriversAssumption, FS_Interval DEF Driver
<1> QED
  BY <1>1, <1>2, FS_Union DEF Listener

LEMMA DisjointUnion ==
  ASSUME NEW S, IsFiniteSet(S), NEW T, IsFiniteSet(T), S \cap T = {}
  PROVE  /\ IsFiniteSet(S \cup T)
         /\ Cardinality(S \cup T) = Cardinality(S) + Cardinality(T)
<1>1. Cardinality(S) \in Nat /\ Cardinality(T) \in Nat
  BY FS_CardinalityType
<1>2. /\ IsFiniteSet(S \cup T)
      /\ Cardinality(S \cup T)
           = Cardinality(S) + Cardinality(T) - Cardinality(S \cap T)
  BY FS_Union
<1>3. Cardinality(S \cap T) = 0
  BY FS_EmptySet
<1> QED
  BY <1>1, <1>2, <1>3

\* The cells in the fifos of the listeners S, when their counts are r.
CellsOf(r, S) == UNION {{x} \X (1..r[x]) : x \in S}

LEMMA ReceivedIs ==
  /\ \A S : Received(S) = CellsOf(rcv, S)
  /\ Received(Listener)' = CellsOf(rcv', Listener)
BY DEF Received, CellsOf

LEMMA CellsFinite ==
  ASSUME NEW r \in [Listener -> Nat], NEW S \in SUBSET Listener
  PROVE  IsFiniteSet(CellsOf(r, S)) /\ Cardinality(CellsOf(r, S)) \in Nat
<1> DEFINE T == {{x} \X (1..r[x]) : x \in S}
           f == [x \in S |-> {x} \X (1..r[x])]
<1>1. IsFiniteSet(S)
  BY FiniteSets, FS_Subset
<1>2. f \in Surjection(S, T)
  BY DEF Surjection
<1>3. IsFiniteSet(T)
  BY <1>1, <1>2, FS_Surjection
<1>4. \A t \in T : IsFiniteSet(t)
  <2> SUFFICES ASSUME NEW x \in S PROVE IsFiniteSet({x} \X (1..r[x]))
    OBVIOUS
  <2>1. 1 \in Int /\ r[x] \in Int
    OBVIOUS
  <2>2. IsFiniteSet({x}) /\ IsFiniteSet(1..r[x])
    BY <2>1, FS_Singleton, FS_Interval
  <2> QED
    BY <2>2, FS_Product
<1>5. IsFiniteSet(UNION T)
  BY <1>3, <1>4, FS_UNION
<1> QED
  BY <1>5, FS_CardinalityType DEF CellsOf

LEMMA CellsOfOne ==
  ASSUME NEW r \in [Listener -> Nat], NEW x \in Listener
  PROVE  Cardinality(CellsOf(r, {x})) = r[x]
<1>1. CellsOf(r, {x}) = {x} \X (1..r[x])
  BY DEF CellsOf
<1>2. /\ IsFiniteSet({x}) /\ IsFiniteSet(1..r[x])
      /\ Cardinality({x}) = 1 /\ Cardinality(1..r[x]) = r[x]
  <2>1. 1 \in Int /\ r[x] \in Nat
    OBVIOUS
  <2>2. IsFiniteSet(1..r[x]) /\ Cardinality(1..r[x]) = r[x]
    BY <2>1, FS_Interval
  <2> QED
    BY <2>2, FS_Singleton
<1>3. Cardinality({x} \X (1..r[x])) = 1 * r[x]
  <2>1. Cardinality({x} \X (1..r[x])) = Cardinality({x}) * Cardinality(1..r[x])
    BY <1>2, FS_Product
  <2> QED
    BY <1>2, <2>1
<1>4. r[x] \in Nat
  OBVIOUS
<1> QED
  BY <1>1, <1>3, <1>4

\* The fifos of some listeners, and those of the others.
LEMMA CellsSplit ==
  ASSUME NEW r \in [Listener -> Nat], NEW S \in SUBSET Listener
  PROVE  Cardinality(CellsOf(r, Listener))
           = Cardinality(CellsOf(r, S)) + Cardinality(CellsOf(r, Listener \ S))
<1>1. /\ IsFiniteSet(CellsOf(r, S)) /\ Cardinality(CellsOf(r, S)) \in Nat
      /\ IsFiniteSet(CellsOf(r, Listener \ S))
      /\ Cardinality(CellsOf(r, Listener \ S)) \in Nat
  BY CellsFinite
<1>2. CellsOf(r, Listener) = CellsOf(r, S) \cup CellsOf(r, Listener \ S)
  BY DEF CellsOf
<1>3. CellsOf(r, S) \cap CellsOf(r, Listener \ S) = {}
  BY DEF CellsOf
<1> QED
  BY <1>1, <1>2, <1>3, DisjointUnion

\* Fifos that have the same counts have the same cells.
LEMMA CellsSame ==
  ASSUME NEW r, NEW q, NEW S \in SUBSET Listener, \A x \in S : q[x] = r[x]
  PROVE  CellsOf(q, S) = CellsOf(r, S)
BY DEF CellsOf

\* Those that have nothing do not count.
LEMMA CellsNone ==
  ASSUME NEW r, NEW S \in SUBSET Listener, \A x \in S : r[x] = 0
  PROVE  Cardinality(CellsOf(r, S)) = 0
<1>1. CellsOf(r, S) = {}
  BY DEF CellsOf
<1> QED
  BY <1>1, FS_EmptySet

\* One listener has more or less than before.
LEMMA OneChanges ==
  ASSUME NEW r \in [Listener -> Nat], NEW x \in Listener, NEW n \in Nat
  PROVE  LET q == [r EXCEPT ![x] = n]
         IN  /\ Cardinality(CellsOf(q, Listener)) \in Nat
             /\ Cardinality(CellsOf(q, Listener)) + r[x]
                  = Cardinality(CellsOf(r, Listener)) + n
<1> DEFINE q == [r EXCEPT ![x] = n]
           rest == Listener \ {x}
<1>1. q \in [Listener -> Nat] /\ q[x] = n /\ \A y \in rest : q[y] = r[y]
  OBVIOUS
<1> HIDE DEF q
<1>2. CellsOf(q, rest) = CellsOf(r, rest)
  BY <1>1, CellsSame
<1>3. /\ Cardinality(CellsOf(r, Listener)) = r[x] + Cardinality(CellsOf(r, rest))
      /\ Cardinality(CellsOf(q, Listener)) = n + Cardinality(CellsOf(q, rest))
  BY <1>1, CellsSplit, CellsOfOne
<1>4. Cardinality(CellsOf(r, rest)) \in Nat /\ Cardinality(CellsOf(q, Listener)) \in Nat
  BY <1>1, CellsFinite
<1>5. r[x] \in Nat
  OBVIOUS
<1> QED
  BY <1>2, <1>3, <1>4, <1>5 DEF q

\* Some listeners have nothing left.
LEMMA Emptied ==
  ASSUME NEW r \in [Listener -> Nat], NEW S \in SUBSET Listener
  PROVE  LET q == [x \in Listener |-> IF x \in S THEN 0 ELSE r[x]]
         IN  /\ Cardinality(CellsOf(q, Listener)) \in Nat
             /\ Cardinality(CellsOf(q, Listener)) + Cardinality(CellsOf(r, S))
                  = Cardinality(CellsOf(r, Listener))
<1> DEFINE q == [x \in Listener |-> IF x \in S THEN 0 ELSE r[x]]
           rest == Listener \ S
<1>1. /\ q \in [Listener -> Nat] /\ \A x \in S : q[x] = 0
      /\ \A x \in rest : q[x] = r[x]
  OBVIOUS
<1> HIDE DEF q
<1>2. CellsOf(q, rest) = CellsOf(r, rest)
  BY <1>1, CellsSame
<1>3. Cardinality(CellsOf(q, S)) = 0
  BY <1>1, CellsNone
<1>4. /\ Cardinality(CellsOf(r, Listener))
           = Cardinality(CellsOf(r, S)) + Cardinality(CellsOf(r, rest))
      /\ Cardinality(CellsOf(q, Listener))
           = Cardinality(CellsOf(q, S)) + Cardinality(CellsOf(q, rest))
  BY <1>1, CellsSplit
<1>5. /\ Cardinality(CellsOf(r, rest)) \in Nat /\ Cardinality(CellsOf(r, S)) \in Nat
      /\ Cardinality(CellsOf(q, Listener)) \in Nat
  BY <1>1, CellsFinite
<1> QED
  BY <1>2, <1>3, <1>4, <1>5 DEF q

\* The copies of an event go each to the fifo of its listener.
LEMMA ReceivedMore ==
  ASSUME rcv \in [Listener -> Nat], NEW got, IsFiniteSet(got),
         \A t \in got : t[1] \in Listener,
         rcv' = [x \in Listener |-> rcv[x] + Cardinality({t \in got : t[1] = x})]
  PROVE  Cardinality(Received(Listener))'
           = Cardinality(Received(Listener)) + Cardinality(got)
<1> DEFINE Of(x) == {t \in got : t[1] = x}
           New(x) == (rcv[x] + 1)..(rcv[x] + Cardinality(Of(x)))
           b == [x \in Listener |-> CHOOSE f : f \in Bijection(Of(x), New(x))]
           D == UNION {{x} \X New(x) : x \in Listener}
           g == [t \in got |-> <<t[1], b[t[1]][t]>>]
<1>1. \A x \in Listener : IsFiniteSet(Of(x)) /\ Cardinality(Of(x)) \in Nat
  BY FS_Subset, FS_CardinalityType
<1>2. \A x \in Listener : b[x] \in Bijection(Of(x), New(x))
  <2> SUFFICES ASSUME NEW x \in Listener
               PROVE  \E f : f \in Bijection(Of(x), New(x))
    OBVIOUS
  <2>1. IsFiniteSet(New(x)) /\ Cardinality(New(x)) = Cardinality(Of(x))
    <3> DEFINE n == Cardinality(Of(x))
    <3>1. n \in Nat /\ rcv[x] \in Nat
      BY <1>1
    <3> HIDE DEF n
    <3>2. rcv[x] + 1 \in Int /\ rcv[x] + n \in Int
      BY <3>1
    <3>3. /\ IsFiniteSet((rcv[x] + 1)..(rcv[x] + n))
          /\ Cardinality((rcv[x] + 1)..(rcv[x] + n))
               = IF rcv[x] + 1 > rcv[x] + n THEN 0
                 ELSE (rcv[x] + n) - (rcv[x] + 1) + 1
      BY <3>2, FS_Interval
    <3>4. /\ IsFiniteSet((rcv[x] + 1)..(rcv[x] + n))
          /\ Cardinality((rcv[x] + 1)..(rcv[x] + n)) = n
      BY <3>1, <3>3
    <3> QED
      BY <3>4 DEF n
  <2> HIDE DEF Of, New
  <2>2. ExistsBijection(Of(x), New(x))
    BY <1>1, <2>1, FS_SameCardinalityBij
  <2> QED
    BY <2>2 DEF ExistsBijection
<1> HIDE DEF b
<1>3. \A x \in Listener :
        /\ \A t \in Of(x) : b[x][t] \in New(x)
        /\ \A t, u \in Of(x) : b[x][t] = b[x][u] => t = u
        /\ \A i \in New(x) : \E t \in Of(x) : b[x][t] = i
  <2> SUFFICES ASSUME NEW x \in Listener
               PROVE  /\ \A t \in Of(x) : b[x][t] \in New(x)
                      /\ \A t, u \in Of(x) : b[x][t] = b[x][u] => t = u
                      /\ \A i \in New(x) : \E t \in Of(x) : b[x][t] = i
    OBVIOUS
  <2>1. b[x] \in Bijection(Of(x), New(x))
    BY <1>2
  <2> HIDE DEF Of, New
  <2> QED
    BY <2>1, Fun_BijectionProperties
<1>4. g \in Bijection(got, D)
  <2>1. \A t \in got : t[1] \in Listener /\ t \in Of(t[1])
    OBVIOUS
  <2> HIDE DEF New
  <2>2. g \in [got -> D]
    BY <1>3, <2>1
  <2>3. ASSUME NEW t \in got, NEW u \in got, g[t] = g[u] PROVE t = u
    <3>1. t[1] = u[1] /\ b[t[1]][t] = b[t[1]][u]
      BY <2>3
    <3>2. t \in Of(t[1]) /\ u \in Of(t[1]) /\ t[1] \in Listener
      BY <2>1, <3>1
    <3> QED
      BY <1>3, <3>1, <3>2
  <2>4. ASSUME NEW y \in D PROVE \E t \in got : g[t] = y
    <3>1. PICK x \in Listener : \E i \in New(x) : y = <<x, i>>
      OBVIOUS
    <3>2. PICK i \in New(x) : y = <<x, i>>
      BY <3>1
    <3>3. PICK t \in Of(x) : b[x][t] = i
      BY <1>3
    <3> QED
      BY <3>2, <3>3
  <2> QED
    BY <2>2, <2>3, <2>4, Fun_IsBij
<1>5. IsFiniteSet(D) /\ Cardinality(D) = Cardinality(got)
  <2>1. ExistsBijection(got, D)
    BY <1>4 DEF ExistsBijection
  <2> HIDE DEF D
  <2> QED
    BY <2>1, FS_Bijection
<1>6. \A x \in Listener : /\ 1..rcv'[x] = (1..rcv[x]) \cup New(x)
                           /\ (1..rcv[x]) \cap New(x) = {}
  <2> SUFFICES ASSUME NEW x \in Listener
               PROVE  /\ 1..rcv'[x] = (1..rcv[x]) \cup New(x)
                      /\ (1..rcv[x]) \cap New(x) = {}
    OBVIOUS
  <2>1. rcv'[x] = rcv[x] + Cardinality(Of(x))
    OBVIOUS
  <2>2. rcv[x] \in Nat /\ Cardinality(Of(x)) \in Nat
    BY <1>1
  <2> HIDE DEF Of
  <2> QED
    BY <2>1, <2>2
<1>7. Received(Listener)' = Received(Listener) \cup D
  <2> HIDE DEF New
  <2>1. ASSUME NEW x \in Listener
        PROVE  {x} \X (1..rcv'[x]) = ({x} \X (1..rcv[x])) \cup ({x} \X New(x))
    BY <1>6
  <2>2. Received(Listener)' = UNION {{x} \X (1..rcv'[x]) : x \in Listener}
    BY DEF Received
  <2>3. Received(Listener) = UNION {{x} \X (1..rcv[x]) : x \in Listener}
    BY DEF Received
  <2>4. ASSUME NEW y
        PROVE  y \in Received(Listener)' <=> y \in Received(Listener) \/ y \in D
    <3> DEFINE Old(x) == {x} \X (1..rcv[x])
               Now(x) == {x} \X (1..rcv'[x])
               Add(x) == {x} \X New(x)
    <3>1. \A x \in Listener : y \in Now(x) <=> y \in Old(x) \/ y \in Add(x)
      BY <2>1
    <3>2. /\ y \in Received(Listener)' <=> \E x \in Listener : y \in Now(x)
          /\ y \in Received(Listener) <=> \E x \in Listener : y \in Old(x)
          /\ y \in D <=> \E x \in Listener : y \in Add(x)
      BY <2>2, <2>3
    <3> HIDE DEF Old, Now, Add
    <3> QED
      BY <3>1, <3>2
  <2> QED
    BY <2>4
<1>8. Received(Listener) \cap D = {}
  <2> SUFFICES ASSUME NEW y \in Received(Listener), y \in D PROVE FALSE
    OBVIOUS
  <2> HIDE DEF New
  <2>1. PICK x \in Listener : y \in {x} \X (1..rcv[x])
    BY DEF Received
  <2>2. PICK z \in Listener : y \in {z} \X New(z)
    OBVIOUS
  <2>3. x = z /\ y[2] \in 1..rcv[x] /\ y[2] \in New(x)
    BY <2>1, <2>2
  <2> QED
    BY <1>6, <2>3
<1>9. IsFiniteSet(Received(Listener))
  BY CellsFinite, ReceivedIs
<1> HIDE DEF D
<1>10. Cardinality(Received(Listener) \cup D)
         = Cardinality(Received(Listener)) + Cardinality(D)
  BY <1>5, <1>8, <1>9, DisjointUnion
<1> QED
  BY <1>5, <1>7, <1>10

(***************************************************************************)
(* The initial states satisfy the invariant.                               *)
(***************************************************************************)
LEMMA Bounds ==
  /\ 0 \in Slot /\ 0 \in Port /\ 1 \in Driver
  /\ kNoRcvFlag \in 0..RcvMod-1
  /\ \A m \in SUBSET Port : m # NoMap
  /\ NoMaps \in [Slot -> (SUBSET Port) \cup {NoMap}]
  /\ NoBits \in [Port -> SUBSET Slot]
  /\ Client \cap Driver = {}
<1>1. 0 \in Slot /\ 0 \in Port /\ 1 \in Driver
  BY DriversAssumption DEF Slot, Port, Driver
<1>2. kNoRcvFlag \in 0..RcvMod-1
  BY DriversAssumption DEF kNoRcvFlag
<1>3. \A m \in SUBSET Port : m # NoMap
  BY DriversAssumption DEF Port
<1>4. NoMaps \in [Slot -> (SUBSET Port) \cup {NoMap}]
  BY DEF NoMaps
<1>5. NoBits \in [Port -> SUBSET Slot]
  BY DEF NoBits
<1>6. Client \cap Driver = {}
  BY DriversAssumption DEF Driver
<1> QED
  BY <1>1, <1>2, <1>3, <1>4, <1>5, <1>6

LEMMA InitIInv == Init => IInv
<1> SUFFICES ASSUME Init PROVE IInv
  OBVIOUS
<1> USE DEF Init
<1>1. Types
  <2>1. /\ phase \in Phases /\ ref \in 0..NDrivers /\ todo \in Nat
        /\ open \subseteq Client /\ nbAppls \in Nat
        /\ registered \subseteq Driver /\ nbDrivers \in Nat
        /\ awake \subseteq Driver /\ linked \subseteq registered /\ late \in 0..NDrivers
        /\ free \in Nat /\ tick \in BOOLEAN
    <3>1. 0 \in 0..NDrivers
      BY DriversAssumption
    <3> QED
      BY <3>1 DEF Phases
  <2>2. /\ map \in [Driver -> [Slot -> (SUBSET Port) \cup {NoMap}]]
        /\ port \in [Driver -> [Port -> SUBSET Slot]]
    BY Bounds
  <2>3. call \in Call
    BY DEF Call
  <2>4. sched \in Seq(Event) /\ Len(sched) <= MaxSched
    BY DriversAssumption
  <2>5. /\ rcv \in [Listener -> Nat] /\ active \in [Listener -> Nat]
        /\ rcvFlag \in [Listener -> 0..RcvMod-1]
    BY Bounds DEF Empty
  <2> QED
    BY <2>1, <2>2, <2>3, <2>4, <2>5 DEF Types
<1>2. Counted
  <2>1. call.op = "none"
    BY DEF None
  <2> QED
    BY <2>1, FS_EmptySet DEF Counted, Self
<1>6. Looped
  <2>1. registered \cap awake = {}
    OBVIOUS
  <2> QED
    BY <2>1, FS_EmptySet DEF Looped
<1>3. Wired
  <2>1. call.op = "none"
    BY DEF None
  <2> QED
    BY <2>1 DEF Wired
<1>4. Kept
  BY DEF Kept, Conserved, Memory, Clock, Empty
<1>5. Marked
  BY DEF Marked, Empty
<1> QED
  BY <1>1, <1>2, <1>3, <1>4, <1>5, <1>6 DEF IInv

(***************************************************************************)
(* The call that the handler has cut.                                      *)
(***************************************************************************)
LEMMA CallShape ==
  ASSUME call \in Call
  PROVE  /\ call.op \in {"none", "unregister", "remove", "connect"}
         /\ call.op = "none" <=> call = None
         /\ call.op # "none" => call.d \in Driver
         /\ call.op = "unregister" => call.at \in {"close", "sleep"}
         /\ call.op = "remove" => call.s \in Slot /\ call.at \in {"forget", "clear"}
         /\ call.op = "connect" => /\ call.s \in Slot /\ call.p \in Port
                                   /\ call.state \in BOOLEAN
<1>1. CASE call = None
  BY <1>1 DEF None
<1>2. CASE call \in [op : {"unregister"}, d : Driver, at : {"close", "sleep"}]
  BY <1>2 DEF None
<1>3. CASE call \in [op : {"remove"}, d : Driver, s : Slot, at : {"forget", "clear"}]
  BY <1>3 DEF None
<1>4. CASE call \in [op : {"connect"}, d : Driver, s : Slot, p : Port, state : BOOLEAN]
  BY <1>4 DEF None
<1> QED
  BY <1>1, <1>2, <1>3, <1>4 DEF Call

\* The calls that begin.
LEMMA CallBegins ==
  ASSUME NEW d \in Driver, NEW s \in Slot, NEW p \in Port, NEW state \in BOOLEAN
  PROVE  /\ [op |-> "unregister", d |-> d, at |-> "close"] \in Call
         /\ [op |-> "remove", d |-> d, s |-> s, at |-> "forget"] \in Call
         /\ [op |-> "connect", d |-> d, s |-> s, p |-> p, state |-> state] \in Call
BY DEF Call

\* And those that go on.
LEMMA CallGoesOn ==
  ASSUME call \in Call
  PROVE  /\ call.op = "unregister" =>
              LET c == [call EXCEPT !.at = "sleep"]
              IN  c \in Call /\ c.op = "unregister" /\ c.d = call.d /\ c.at = "sleep"
         /\ call.op = "remove" =>
              LET c == [call EXCEPT !.at = "clear"]
              IN  /\ c \in Call /\ c.op = "remove" /\ c.d = call.d
                  /\ c.s = call.s /\ c.at = "clear"
<1>1. ASSUME call.op = "unregister"
      PROVE  /\ [call EXCEPT !.at = "sleep"] \in Call
             /\ [call EXCEPT !.at = "sleep"].op = "unregister"
             /\ [call EXCEPT !.at = "sleep"].d = call.d
             /\ [call EXCEPT !.at = "sleep"].at = "sleep"
  <2>1. call \in [op : {"unregister"}, d : Driver, at : {"close", "sleep"}]
    BY <1>1 DEF Call, None
  <2> QED
    BY <2>1 DEF Call
<1>2. ASSUME call.op = "remove"
      PROVE  /\ [call EXCEPT !.at = "clear"] \in Call
             /\ [call EXCEPT !.at = "clear"].op = "remove"
             /\ [call EXCEPT !.at = "clear"].d = call.d
             /\ [call EXCEPT !.at = "clear"].s = call.s
             /\ [call EXCEPT !.at = "clear"].at = "clear"
  <2>1. call \in [op : {"remove"}, d : Driver, s : Slot, at : {"forget", "clear"}]
    BY <1>2 DEF Call, None
  <2> QED
    BY <2>1 DEF Call
<1> QED
  BY <1>1, <1>2

(***************************************************************************)
(* An event that the handler passes on: how many copies, and for whom.     *)
(***************************************************************************)
LEMMA MinOfTwo ==
  ASSUME NEW a \in Nat, NEW b \in Nat
  PROVE  Min({a, b}) \in {a, b} /\ Min({a, b}) \in Nat /\ Min({a, b}) <= a /\ Min({a, b}) <= b
         /\ (a <= b => Min({a, b}) = a)
<1>1. \E m \in {a, b} : \A y \in {a, b} : m <= y
  <2>1. CASE a <= b
    BY <2>1
  <2>2. CASE ~(a <= b)
    BY <2>2
  <2> QED
    BY <2>1, <2>2
<1>2. Min({a, b}) \in {a, b} /\ \A y \in {a, b} : Min({a, b}) <= y
  BY <1>1 DEF Min
<1> QED
  BY <1>2

LEMMA MaxOfTwo ==
  ASSUME NEW a \in Nat, NEW b \in Int
  PROVE  Max({a, b}) = IF a >= b THEN a ELSE b
<1>1. \E m \in {a, b} : \A y \in {a, b} : m >= y
  <2>1. CASE a >= b
    BY <2>1
  <2>2. CASE ~(a >= b)
    BY <2>2
  <2> QED
    BY <2>1, <2>2
<1>2. Max({a, b}) \in {a, b} /\ \A y \in {a, b} : Max({a, b}) >= y
  BY <1>1 DEF Max
<1> QED
  BY <1>2

LEMMA EnoughCells ==
  ASSUME free \in Nat, NEW e
  PROVE  FreeFor(e) \in Nat /\ FreeFor(e) <= free
<1>1. free - Passing(e) \in Int /\ free - Passing(e) <= free
  BY DEF Passing
<1>2. Max({0, free - Passing(e)}) = IF 0 >= free - Passing(e) THEN 0
                                    ELSE free - Passing(e)
  BY <1>1, MaxOfTwo
<1> QED
  BY <1>1, <1>2 DEF FreeFor

\* Events come from listeners, for a port or a slot.
LEMMA HeadIsEvent ==
  ASSUME Types, sched # <<>>
  PROVE  Head(sched) \in Event /\ Tail(sched) \in Seq(Event)
         /\ Len(Tail(sched)) = Len(sched) - 1 /\ Len(sched) \in Nat \ {0}
<1>1. sched \in Seq(Event)
  BY DEF Types
<1> HIDE DEF Event
<1> QED
  BY <1>1

LEMMA PortsInRange ==
  ASSUME Types, NEW d \in Driver, NEW s \in Slot, NEW ports \in Ports(d, s)
  PROVE  ports \in SUBSET Port
<1>1. map[d][s] \in (SUBSET Port) \cup {NoMap}
  BY DEF Types
<1> QED
  BY <1>1 DEF Ports

\* Events go to a finite number of places, each of a listener that is open or
\* connected.
LEMMA TargetsListen ==
  ASSUME Types, NEW e \in Event, NEW ports \in SUBSET Port
  PROVE  /\ IsFiniteSet(Targets(e, ports))
         /\ \A t \in Targets(e, ports) : t[1] \in open \cup linked
<1>1. IsFiniteSet(Slot) /\ IsFiniteSet(Port)
  <2>1. 0 \in Int /\ MaxSlots-1 \in Int /\ MaxPorts-1 \in Int
    BY DriversAssumption
  <2> QED
    BY <2>1, FS_Interval DEF Slot, Port
<1>2. IsFiniteSet(open) /\ IsFiniteSet(linked)
  <2>1. open \subseteq Client /\ linked \subseteq Driver
    BY DEF Types
  <2> QED
    BY <2>1, FiniteSets, FS_Subset
<1>3. CASE e.by \in open
  <2>1. e.at \in Port
    BY <1>3, Bounds DEF Event, Types
  <2>2. \A d \in linked : port[d][e.at] \subseteq Slot
    BY <2>1 DEF Types
  <2>3. Targets(e, ports) = UNION {{<<d, s>> : s \in port[d][e.at]} : d \in linked}
    BY <1>3 DEF Targets
  <2>4. Targets(e, ports) \subseteq linked \X Slot
    BY <2>2, <2>3
  <2>5. IsFiniteSet(linked \X Slot)
    BY <1>1, <1>2, FS_Product
  <2>6. IsFiniteSet(Targets(e, ports))
    BY <2>4, <2>5, FS_Subset
  <2> QED
    BY <2>4, <2>6
<1>4. CASE e.by \notin open /\ e.by \in linked
  <2>1. Targets(e, ports) = open \X ports
    BY <1>4 DEF Targets
  <2>2. IsFiniteSet(open \X ports)
    BY <1>1, <1>2, FS_Subset, FS_Product
  <2> QED
    BY <2>1, <2>2
<1>5. CASE e.by \notin open /\ e.by \notin linked
  BY <1>5, FS_EmptySet DEF Targets
<1> QED
  BY <1>3, <1>4, <1>5


\* What a dispatch does, with the ports and the copies it chose.
Copies(got, x) == Cardinality({t \in got : t[1] = x})

Passed(e, ports, got) ==
    /\ ports \in SUBSET Port /\ (ports = {} \/ Self)
    /\ IF e.by \in linked THEN ports \in Ports(e.by, e.at) ELSE ports = {}
    /\ got \subseteq Targets(e, ports) /\ IsFiniteSet(got)
    /\ \A t \in got : t[1] \in open \cup linked
    /\ Cardinality(got) \in Nat /\ Cardinality(got) <= free
    /\ rcv' = [x \in Listener |-> rcv[x] + Copies(got, x)]
    /\ rcvFlag' = [x \in Listener |-> Raised(x, Copies(got, x))]
    /\ active' = [x \in Listener |-> active[x] + (rcvFlag[x] + Copies(got, x)) \div RcvMod]
    /\ free' = free + 1 - Cardinality(got)
    /\ route' = [ev |-> e, to |-> got, full |-> Cardinality(Targets(e, ports)) <= FreeFor(e)]
    /\ route'.full => got = Targets(e, ports)

LEMMA DispatchPasses ==
  ASSUME Types, Dispatch
  PROVE  Head(sched) \in Event /\ \E ports, got : Passed(Head(sched), ports, got)
<1> DEFINE e == Head(sched)
<1>1. e \in Event
  BY HeadIsEvent DEF Dispatch
<1>2. e.by \in linked => e.by \in Driver /\ e.at \in Slot
  BY <1>1, Bounds DEF Event, Types
<1>3. PICK ports \in IF e.by \in linked THEN Ports(e.by, e.at) ELSE {{}} :
        LET to == Targets(e, ports)
            n  == Min({Cardinality(to), FreeFor(e)})
        IN
        /\ ports = {} \/ Self
        /\ \E got \in kSubset(n, to) :
           LET new == [x \in Listener |-> Cardinality({t \in got : t[1] = x})] IN
           /\ rcv' = [x \in Listener |-> rcv[x] + new[x]]
           /\ rcvFlag' = [x \in Listener |-> Raised(x, new[x])]
           /\ active' = [x \in Listener |-> active[x] + (rcvFlag[x] + new[x]) \div RcvMod]
           /\ route' = [ev |-> e, to |-> got, full |-> Cardinality(to) <= FreeFor(e)]
        /\ free' = free + 1 - n
  BY DEF Dispatch
<1>4. /\ ports \in SUBSET Port
      /\ IF e.by \in linked THEN ports \in Ports(e.by, e.at) ELSE ports = {}
  BY <1>2, <1>3, PortsInRange
<1> HIDE DEF e
<1> DEFINE to == Targets(e, ports)
           n  == Min({Cardinality(to), FreeFor(e)})
<1>5. IsFiniteSet(to) /\ \A t \in to : t[1] \in open \cup linked
  BY <1>1, <1>4, TargetsListen
<1>6. /\ Cardinality(to) \in Nat /\ FreeFor(e) \in Nat /\ FreeFor(e) <= free
      /\ free \in Nat
  BY <1>5, FS_CardinalityType, EnoughCells DEF Types
<1>7. /\ n \in Nat /\ n <= free
      /\ Cardinality(to) <= FreeFor(e) => n = Cardinality(to)
  <2>1. n \in Nat /\ n <= FreeFor(e) /\ (Cardinality(to) <= FreeFor(e) => n = Cardinality(to))
    BY <1>6, MinOfTwo
  <2> HIDE DEF n
  <2> QED
    BY <1>6, <2>1
<1>8. PICK got \in kSubset(n, to) :
           LET new == [x \in Listener |-> Cardinality({t \in got : t[1] = x})] IN
           /\ rcv' = [x \in Listener |-> rcv[x] + new[x]]
           /\ rcvFlag' = [x \in Listener |-> Raised(x, new[x])]
           /\ active' = [x \in Listener |-> active[x] + (rcvFlag[x] + new[x]) \div RcvMod]
           /\ route' = [ev |-> e, to |-> got, full |-> Cardinality(to) <= FreeFor(e)]
  BY <1>3
<1>9. got \subseteq to /\ Cardinality(got) = n
  BY DEF kSubset
<1>10. IsFiniteSet(got) /\ (Cardinality(got) = Cardinality(to) => got = to)
  BY <1>5, <1>9, FS_Subset
<1>11. free' = free + 1 - n
  BY <1>3
<1>12. /\ rcv' = [x \in Listener |-> rcv[x] + Copies(got, x)]
       /\ rcvFlag' = [x \in Listener |-> Raised(x, Copies(got, x))]
       /\ active' = [x \in Listener |-> active[x] + (rcvFlag[x] + Copies(got, x)) \div RcvMod]
  BY <1>8 DEF Copies
<1>13. route' = [ev |-> e, to |-> got, full |-> Cardinality(to) <= FreeFor(e)]
  BY <1>8
<1>14. route'.full => got = to
  BY <1>7, <1>9, <1>10, <1>13
<1>15. Passed(e, ports, got)
  <2> HIDE DEF n
  <2> QED
    BY <1>3, <1>4, <1>5, <1>7, <1>9, <1>10, <1>11, <1>12, <1>13, <1>14 DEF Passed
<1> QED
  BY <1>1, <1>15 DEF e

\* A flag is a byte, and an entry is made when it passes zero.
LEMMA FlagTurns ==
  ASSUME NEW f \in 0..RcvMod-1, NEW n \in Nat
  PROVE  /\ (f + n) % RcvMod \in 0..RcvMod-1 /\ (f + n) \div RcvMod \in Nat
         /\ n = 0 => (f + n) % RcvMod = f /\ (f + n) \div RcvMod = 0
         /\ f = kNoRcvFlag /\ n > 0 => (f + n) \div RcvMod > 0
<1> DEFINE k == f + n
           q == k \div RcvMod
           r == k % RcvMod
<1>1. RcvMod \in Nat /\ RcvMod > 1 /\ k \in Nat /\ f < RcvMod
  BY DriversAssumption
<1>2. q \in Int /\ r \in 0..RcvMod-1 /\ k = RcvMod * q + r
  BY <1>1
<1>3. q >= 0
  BY <1>1, <1>2
<1>4. n = 0 => q = 0 /\ r = f
  BY <1>1, <1>2, <1>3
<1>5. f = kNoRcvFlag /\ n > 0 => q > 0
  BY <1>1, <1>2, <1>3 DEF kNoRcvFlag
<1> QED
  BY <1>2, <1>3, <1>4, <1>5

LEMMA CopiesCounted ==
  ASSUME NEW got, IsFiniteSet(got), NEW x
  PROVE  Copies(got, x) \in Nat /\ (Copies(got, x) = 0 <=> \A t \in got : t[1] # x)
<1>1. IsFiniteSet({t \in got : t[1] = x})
  BY FS_Subset
<1>2. /\ Cardinality({t \in got : t[1] = x}) \in Nat
      /\ Cardinality({t \in got : t[1] = x}) = 0 <=> {t \in got : t[1] = x} = {}
  BY <1>1, FS_CardinalityType, FS_EmptySet
<1> QED
  BY <1>2 DEF Copies


(***************************************************************************)
(* Types are kept.                                                         *)
(***************************************************************************)
LEMMA SetsFinite ==
  ASSUME Types
  PROVE  /\ IsFiniteSet(open) /\ Cardinality(open) \in Nat
         /\ IsFiniteSet(registered) /\ Cardinality(registered) \in Nat
         /\ \A c : /\ Cardinality(open \cup {c})
                        = Cardinality(open) + (IF c \in open THEN 0 ELSE 1)
                   /\ Cardinality(open \ {c})
                        = Cardinality(open) - (IF c \in open THEN 1 ELSE 0)
         /\ \A d : /\ Cardinality(registered \cup {d})
                        = Cardinality(registered) + (IF d \in registered THEN 0 ELSE 1)
                   /\ Cardinality(registered \ {d})
                        = Cardinality(registered) - (IF d \in registered THEN 1 ELSE 0)
<1>1. IsFiniteSet(open) /\ IsFiniteSet(registered)
  <2>1. open \subseteq Client /\ registered \subseteq Driver
    BY DEF Types
  <2> QED
    BY <2>1, FiniteSets, FS_Subset
<1>2. \A S, x : IsFiniteSet(S) =>
        /\ Cardinality(S \cup {x}) = Cardinality(S) + (IF x \in S THEN 0 ELSE 1)
        /\ Cardinality(S \ {x}) = Cardinality(S) - (IF x \in S THEN 1 ELSE 0)
  <2> SUFFICES ASSUME NEW S, NEW x, IsFiniteSet(S)
               PROVE  /\ Cardinality(S \cup {x}) = Cardinality(S) + (IF x \in S THEN 0 ELSE 1)
                      /\ Cardinality(S \ {x}) = Cardinality(S) - (IF x \in S THEN 1 ELSE 0)
    OBVIOUS
  <2>1. Cardinality(S) \in Nat
    BY FS_CardinalityType
  <2>2. Cardinality(S \cup {x}) = IF x \in S THEN Cardinality(S) ELSE Cardinality(S) + 1
    BY FS_AddElement
  <2>3. Cardinality(S \ {x}) = IF x \in S THEN Cardinality(S) - 1 ELSE Cardinality(S)
    BY FS_RemoveElement
  <2> QED
    BY <2>1, <2>2, <2>3
<1> QED
  BY <1>1, <1>2, FS_CardinalityType

\* A loop begins with the count of the drivers.
LEMMA AllCounted ==
  ASSUME Types, Counted, phase # "asleep"
  PROVE  Others = Cardinality(registered) /\ Others \in Nat
BY SetsFinite DEF Counted, Others

\* A client or a driver that goes is counted.
LEMMA CountsGoDown ==
  ASSUME Types, Counted
  PROVE  /\ \A c \in open : nbAppls - 1 \in Nat
         /\ \A d \in registered : nbDrivers - 1 \in Nat
         /\ phase # "asleep" => nbDrivers - 1 \in Nat
<1>1. \A c \in open : Cardinality(open) > 0
  BY SetsFinite, FS_EmptySet
<1>2. \A d \in registered : Cardinality(registered) > 0
  BY SetsFinite, FS_EmptySet
<1> QED
  BY <1>1, <1>2, SetsFinite DEF Counted

LEMMA NextTypes ==
  ASSUME Types, NextDriver
  PROVE  /\ ref \in 1..NDrivers /\ ref' = ref - 1 /\ ref' \in 0..NDrivers /\ todo' \in Nat
         /\ todo' = IF ref \in registered THEN todo - 1 ELSE todo
<1>1. ref \in 0..NDrivers /\ todo \in Nat /\ NDrivers \in Nat
  BY DriversAssumption DEF Types
<1>2. /\ todo # 0 /\ ref # 0 /\ ref' = ref - 1
      /\ todo' = IF ref \in registered THEN todo - 1 ELSE todo
  BY DEF NextDriver, LoopOver
<1> QED
  BY <1>1, <1>2

LEMMA LateCounts ==
  ASSUME Types
  PROVE  /\ Late \in 0..NDrivers
         /\ phase \in {"opening", "sleeping"} => Late = late + 1 \/ Late = NDrivers
         /\ phase \notin {"opening", "sleeping"} => Late = late
<1>1. late \in Nat /\ late <= NDrivers /\ late + 1 \in Nat /\ NDrivers \in Nat
  BY DriversAssumption DEF Types
<1>2. Min({late + 1, NDrivers}) \in {late + 1, NDrivers} /\ Min({late + 1, NDrivers}) <= NDrivers
  BY <1>1, MinOfTwo
<1>3. Min({late + 1, NDrivers}) \in 0..NDrivers
  BY <1>1, <1>2
<1> QED
  BY <1>1, <1>2, <1>3 DEF Late

LEMMA KernelTypes ==
  ASSUME Types, Counted,
         \/ BeginWakeup \/ OpenTime \/ OpenDrivers \/ DriverWakeUp \/ OpenSelf
         \/ CloseDrivers \/ DriverSleepAll \/ CloseMemory \/ EndSleep
         \/ \E c \in Client : MSOpen(c) \/ MSClose(c)
  PROVE  Types'
<1> USE DEF Types, kernelVars, driverVars, slotVars, clockVars, Phases
<1>1. CASE BeginWakeup
  BY <1>1 DEF BeginWakeup
<1>2. CASE OpenTime
  <2>1. Cells \in Nat /\ MaxSched \in Nat
    BY DriversAssumption
  <2> QED
    BY <1>2, <2>1 DEF OpenTime
<1>3. CASE OpenDrivers \/ CloseDrivers
  <2>1. Others \in Nat /\ NDrivers \in Nat
    BY <1>3, AllCounted, DriversAssumption DEF OpenDrivers, CloseDrivers
  <2>2. ref' \in 0..NDrivers /\ todo' \in Nat /\ late' \in 0..NDrivers
    BY <1>3, <2>1 DEF OpenDrivers, CloseDrivers, BeginLoop
  <2> QED
    BY <1>3, <2>2 DEF OpenDrivers, CloseDrivers
<1>4. CASE OpenSelf
  BY <1>4, DriversAssumption DEF OpenSelf
<1>5. CASE DriverWakeUp
  <2>1. ref' \in 0..NDrivers /\ todo' \in Nat
    BY <1>5, NextTypes DEF DriverWakeUp
  <2>2. awake' \subseteq Driver /\ linked' \subseteq registered'
    BY <1>5 DEF DriverWakeUp
  <2> QED
    BY <1>5, <2>1, <2>2 DEF DriverWakeUp, NextDriver, Idle
<1>9. CASE DriverSleepAll
  <2>1. ref' \in 0..NDrivers /\ todo' \in Nat
    BY <1>9, NextTypes DEF DriverSleepAll
  <2>2. awake' \subseteq Driver /\ linked' \subseteq registered'
    BY <1>9 DEF DriverSleepAll
  <2>3. ref \in registered => rcv[ref] \in Nat
    BY DEF Listener
  <2>4. free' \in Nat /\ rcv' \in [Listener -> Nat]
    BY <1>9, <2>3 DEF DriverSleepAll, Flushed
  <2> QED
    BY <1>9, <2>1, <2>2, <2>4 DEF DriverSleepAll, NextDriver, Idle
<1>10. CASE CloseMemory
  <2>1. MaxSched \in Nat /\ NDrivers \in Nat
    BY DriversAssumption
  <2> QED
    BY <1>10, <2>1 DEF CloseMemory, Empty
<1>6. CASE EndSleep
  <2>1. nbDrivers - 1 \in Nat
    BY <1>6, CountsGoDown DEF EndSleep
  <2> QED
    BY <1>6, <2>1 DEF EndSleep
<1>7. ASSUME NEW c \in Client, MSOpen(c) PROVE Types'
  <2>1. c \in Listener /\ kNoRcvFlag \in 0..RcvMod-1
    BY Bounds DEF Listener
  <2> QED
    BY <1>7, <2>1 DEF MSOpen
<1>8. ASSUME NEW c \in Client, MSClose(c) PROVE Types'
  <2>1. nbAppls - 1 \in Nat
    BY <1>8, CountsGoDown DEF MSClose
  <2>2. c \in Listener
    BY DEF Listener
  <2>3. rcv[c] \in Nat
    BY <2>2
  <2>4. open' \subseteq Client /\ free' \in Nat /\ rcv' \in [Listener -> Nat]
        /\ nbAppls' \in Nat /\ phase' \in Phases
    BY <1>8, <2>1, <2>2, <2>3 DEF MSClose, Flushed
  <2> QED
    BY <1>8, <2>4 DEF MSClose
<1> QED
  BY <1>1, <1>2, <1>3, <1>4, <1>5, <1>6, <1>7, <1>8, <1>9, <1>10

LEMMA DriverTypes ==
  ASSUME Types, Counted,
         \/ \E d \in Driver : MSRegisterDriver(d) \/ MSUnregisterDriver(d)
         \/ CloseClient \/ DriverSleep
  PROVE  Types'
<1> USE DEF Types, kernelVars, driverVars, slotVars, clockVars
<1>1. ASSUME NEW d \in Driver, MSRegisterDriver(d) PROVE Types'
  <2>1. d \in Listener
    BY DEF Listener
  <2>2. /\ map' \in [Driver -> [Slot -> (SUBSET Port) \cup {NoMap}]]
        /\ port' \in [Driver -> [Port -> SUBSET Slot]]
        /\ rcvFlag' \in [Listener -> 0..RcvMod-1]
    BY <1>1, <2>1, Bounds DEF MSRegisterDriver
  <2>3. /\ registered' \subseteq Driver /\ awake' \subseteq Driver
        /\ linked' \subseteq registered' /\ nbDrivers' \in Nat
    BY <1>1 DEF MSRegisterDriver
  <2>4. late' \in 0..NDrivers
    BY <1>1, LateCounts DEF MSRegisterDriver
  <2> QED
    BY <1>1, <2>2, <2>3, <2>4 DEF MSRegisterDriver
<1>2. ASSUME NEW d \in Driver, MSUnregisterDriver(d) PROVE Types'
  <2>1. call' \in Call
    BY <1>2 DEF MSUnregisterDriver, Call
  <2> QED
    BY <1>2, <2>1 DEF MSUnregisterDriver
<1>3. CASE CloseClient
  <2>1. call' \in Call /\ call.d \in Driver
    BY <1>3, CallGoesOn, CallShape DEF CloseClient
  <2>2. call.d \in Listener /\ call.d \in registered
    BY <1>3, <2>1 DEF CloseClient, Counted, Listener
  <2>3. rcv[call.d] \in Nat
    BY <2>2
  <2>4. nbDrivers' \in Nat
    BY <1>3, <2>2, CountsGoDown DEF CloseClient
  <2>5. free' \in Nat /\ rcv' \in [Listener -> Nat]
    BY <1>3, <2>2, <2>3 DEF CloseClient, Flushed
  <2>6. /\ map' \in [Driver -> [Slot -> (SUBSET Port) \cup {NoMap}]]
        /\ port' \in [Driver -> [Port -> SUBSET Slot]]
    BY <1>3, <2>1, Bounds DEF CloseClient
  <2>7. registered' \subseteq Driver /\ linked' \subseteq registered'
    BY <1>3 DEF CloseClient
  <2> QED
    BY <1>3, <2>1, <2>4, <2>5, <2>6, <2>7 DEF CloseClient
<1>4. CASE DriverSleep
  <2>1. call' \in Call
    BY <1>4 DEF DriverSleep, Call
  <2>2. awake' \subseteq Driver
    BY <1>4 DEF DriverSleep
  <2> QED
    BY <1>4, <2>1, <2>2 DEF DriverSleep
<1> QED
  BY <1>1, <1>2, <1>3, <1>4

LEMMA SlotTypes ==
  ASSUME Types, Wired,
         \/ \E d \in Driver, s \in Slot :
               \/ MSAddSlot(d, s) \/ MSRemoveSlot(d, s)
               \/ \E p \in Port, state \in BOOLEAN : MSConnectSlot(p, d, s, state)
         \/ ForgetMap \/ ClearBits \/ ConnectMap
  PROVE  Types'
<1> USE DEF Types, kernelVars, driverVars, slotVars, clockVars
<1>1. ASSUME NEW d \in Driver, NEW s \in Slot, MSAddSlot(d, s) PROVE Types'
  <2>1. map' \in [Driver -> [Slot -> (SUBSET Port) \cup {NoMap}]]
    BY <1>1 DEF MSAddSlot
  <2> QED
    BY <1>1, <2>1 DEF MSAddSlot
<1>2. ASSUME NEW d \in Driver, NEW s \in Slot, MSRemoveSlot(d, s) PROVE Types'
  <2>1. call' \in Call
    BY <1>2 DEF MSRemoveSlot, Call
  <2> QED
    BY <1>2, <2>1 DEF MSRemoveSlot
<1>3. ASSUME NEW d \in Driver, NEW s \in Slot, NEW p \in Port, NEW state \in BOOLEAN,
             MSConnectSlot(p, d, s, state)
      PROVE  Types'
  <2>1. call' \in Call
    BY <1>3 DEF MSConnectSlot, Call
  <2>2. port' \in [Driver -> [Port -> SUBSET Slot]]
    BY <1>3 DEF MSConnectSlot
  <2> QED
    BY <1>3, <2>1, <2>2 DEF MSConnectSlot
<1>4. CASE ForgetMap
  <2>1. call' \in Call /\ call.d \in Driver /\ call.s \in Slot
    BY <1>4, CallGoesOn, CallShape DEF ForgetMap
  <2>2. map' \in [Driver -> [Slot -> (SUBSET Port) \cup {NoMap}]]
    BY <1>4, <2>1 DEF ForgetMap
  <2> QED
    BY <1>4, <2>1, <2>2 DEF ForgetMap
<1>5. CASE ClearBits
  <2>1. call' \in Call /\ call.d \in Driver /\ call.s \in Slot
    BY <1>5, CallShape DEF ClearBits, Call
  <2>2. port' \in [Driver -> [Port -> SUBSET Slot]]
    BY <1>5, <2>1 DEF ClearBits
  <2> QED
    BY <1>5, <2>1, <2>2 DEF ClearBits
<1>6. CASE ConnectMap
  <2>1. /\ call' \in Call /\ call.d \in Driver /\ call.s \in Slot /\ call.p \in Port
        /\ map[call.d][call.s] # NoMap
    BY <1>6, CallShape DEF ConnectMap, Call, Wired
  <2>2. map' \in [Driver -> [Slot -> (SUBSET Port) \cup {NoMap}]]
    <3>1. map[call.d][call.s] \in SUBSET Port
      BY <2>1
    <3> QED
      BY <1>6, <2>1, <3>1 DEF ConnectMap
  <2> QED
    BY <1>6, <2>1, <2>2 DEF ConnectMap
<1> QED
  BY <1>1, <1>2, <1>3, <1>4, <1>5, <1>6

LEMMA ClockTypes ==
  ASSUME Types,
         \/ \E x \in Listener, at \in Port \cup Slot : MSSend(x, at)
         \/ \E x \in Listener : MSGetEv(x)
         \/ Dispatch \/ RcvAlarmLoop
  PROVE  Types'
<1>1. ASSUME NEW x \in Listener, NEW at \in Port \cup Slot, MSSend(x, at) PROVE Types'
  <2>1. [by |-> x, at |-> at] \in Event
    BY <1>1 DEF MSSend, Types, Event
  <2>2. sched' \in Seq(Event) /\ Len(sched') <= MaxSched
    <3>1. sched \in Seq(Event) /\ Len(sched) \in Nat /\ MaxSched \in Nat
      BY DriversAssumption DEF Types
    <3>2. sched' = Append(sched, [by |-> x, at |-> at]) /\ Len(sched) < MaxSched
      BY <1>1 DEF MSSend
    <3> HIDE DEF Event
    <3> QED
      BY <2>1, <3>1, <3>2
  <2>3. free' \in Nat
    BY <1>1 DEF MSSend, Types
  <2> QED
    BY <1>1, <2>2, <2>3 DEF MSSend, Types, kernelVars, driverVars, slotVars
<1>2. ASSUME NEW x \in Listener, MSGetEv(x) PROVE Types'
  <2>1. free' \in Nat /\ rcv' \in [Listener -> Nat]
    BY <1>2 DEF MSGetEv, Types
  <2> QED
    BY <1>2, <2>1 DEF MSGetEv, Types, kernelVars, driverVars, slotVars
<1>3. CASE Dispatch
  <2>1. PICK ports, got : Passed(Head(sched), ports, got)
    BY <1>3, DispatchPasses
  <2>2. \A x \in Listener : Copies(got, x) \in Nat
    BY <2>1, CopiesCounted DEF Passed
  <2>3. rcv' \in [Listener -> Nat]
    <3>1. \A x \in Listener : rcv[x] + Copies(got, x) \in Nat
      BY <2>2 DEF Types
    <3> QED
      BY <2>1, <3>1 DEF Passed
  <2>4. rcvFlag' \in [Listener -> 0..RcvMod-1] /\ active' \in [Listener -> Nat]
    <3>1. \A x \in Listener : rcvFlag[x] \in 0..RcvMod-1 /\ active[x] \in Nat
      BY DEF Types
    <3>2. \A x \in Listener : /\ Raised(x, Copies(got, x)) \in 0..RcvMod-1
                               /\ (rcvFlag[x] + Copies(got, x)) \div RcvMod \in Nat
      BY <2>2, <3>1, FlagTurns DEF Raised
    <3> QED
      BY <2>1, <3>1, <3>2 DEF Passed
  <2>5. free' \in Nat
    BY <2>1 DEF Passed, Types
  <2>6. sched' \in Seq(Event) /\ Len(sched') <= MaxSched
    <3>1. sched' = Tail(sched) /\ sched # <<>>
      BY <1>3 DEF Dispatch
    <3>2. Len(sched) <= MaxSched /\ MaxSched \in Nat
      BY DriversAssumption DEF Types
    <3> QED
      BY <3>1, <3>2, HeadIsEvent
  <2> QED
    BY <1>3, <2>3, <2>4, <2>5, <2>6 DEF Dispatch, Types, kernelVars, driverVars, slotVars
<1>4. CASE RcvAlarmLoop
  <2> DEFINE called == {x \in Alarmed : active[x] > 0}
  <2>1. called \subseteq Listener
    BY DriversAssumption DEF Listener, Driver
  <2>2. free' \in Nat /\ rcv' \in [Listener -> Nat]
    <3>1. Cardinality(Received(called)) \in Nat
      BY <2>1, CellsFinite, ReceivedIs DEF Types
    <3> QED
      BY <1>4, <3>1 DEF RcvAlarmLoop, Types
  <2>3. rcvFlag' \in [Listener -> 0..RcvMod-1] /\ active' \in [Listener -> Nat]
    BY <1>4, Bounds DEF RcvAlarmLoop, Types, Unmarked, Empty
  <2> QED
    BY <1>4, <2>2, <2>3 DEF RcvAlarmLoop, Types, kernelVars, driverVars, slotVars
<1> QED
  BY <1>1, <1>2, <1>3, <1>4


(***************************************************************************)
(* Clients and drivers stay counted, and drivers awake with the kernel.    *)
(***************************************************************************)
LEMMA CountedSame ==
  ASSUME Counted, UNCHANGED <<phase, open, nbAppls, registered, nbDrivers, awake, linked>>,
         call.op # "unregister", call'.op # "unregister"
  PROVE  Counted'
BY DEF Counted, Self

LEMMA CountedKernel ==
  ASSUME Types, Counted,
         \/ BeginWakeup \/ OpenTime \/ OpenDrivers \/ DriverWakeUp \/ OpenSelf
         \/ CloseDrivers \/ DriverSleepAll \/ CloseMemory \/ EndSleep
         \/ \E c \in Client : MSOpen(c) \/ MSClose(c)
  PROVE  Counted'
<1>1. call = None /\ call' = None
  BY DEF Idle, BeginWakeup, OpenTime, OpenDrivers, DriverWakeUp, NextDriver, OpenSelf,
         CloseDrivers, DriverSleepAll, CloseMemory, EndSleep, MSOpen, MSClose, kernelVars,
         driverVars, slotVars, clockVars
<1>2. call.op # "unregister" /\ call'.op # "unregister"
  BY <1>1 DEF None
<1>3. Cardinality(open) \in Nat /\ Cardinality(registered) \in Nat
  BY SetsFinite
<1> USE DEF Counted, kernelVars, driverVars, Self
<1>4. CASE BeginWakeup
  BY <1>2, <1>3, <1>4 DEF BeginWakeup
<1>5. CASE OpenTime
  BY <1>2, <1>5 DEF OpenTime
<1>6. CASE OpenDrivers \/ CloseDrivers
  BY <1>2, <1>6 DEF OpenDrivers, CloseDrivers
<1>7. CASE OpenSelf
  BY <1>2, <1>3, <1>7 DEF OpenSelf
<1>8. CASE DriverWakeUp \/ DriverSleepAll
  <2>1. linked' = registered' \cap awake'
    BY <1>8 DEF DriverWakeUp, DriverSleepAll
  <2> QED
    BY <1>2, <1>8, <2>1 DEF DriverWakeUp, DriverSleepAll
<1>9. CASE EndSleep \/ CloseMemory
  BY <1>2, <1>3, <1>9 DEF EndSleep, CloseMemory
<1>10. ASSUME NEW c \in Client, MSOpen(c) PROVE Counted'
  <2>1. Cardinality(open') = Cardinality(open) + 1
    BY <1>10, SetsFinite DEF MSOpen
  <2> QED
    BY <1>2, <1>3, <1>10, <2>1 DEF MSOpen
<1>11. ASSUME NEW c \in Client, MSClose(c) PROVE Counted'
  <2>1. Cardinality(open') = Cardinality(open) - 1
    BY <1>11, SetsFinite DEF MSClose
  <2>2. Cardinality(open') = 0 => open' = {}
    <3>1. IsFiniteSet(open')
      BY <1>11, SetsFinite, FS_Subset DEF MSClose
    <3> QED
      BY <3>1, FS_EmptySet
  <2> QED
    BY <1>2, <1>3, <1>11, <2>1, <2>2 DEF MSClose
<1> QED
  BY <1>4, <1>5, <1>6, <1>7, <1>8, <1>9, <1>10, <1>11

LEMMA CountedDrivers ==
  ASSUME Types, Counted,
         \/ \E d \in Driver : MSRegisterDriver(d) \/ MSUnregisterDriver(d)
         \/ CloseClient \/ DriverSleep
  PROVE  Counted'
<1>1. Cardinality(open) \in Nat /\ Cardinality(registered) \in Nat
  BY SetsFinite
<1>3. ASSUME NEW d \in Driver, MSRegisterDriver(d) PROVE Counted'
  <2>1. /\ d \notin registered /\ registered' = registered \cup {d}
        /\ UNCHANGED <<phase, open, nbAppls, call>> /\ nbDrivers' = nbDrivers + 1
        /\ call = None
        /\ IF nbAppls > 0
           THEN awake' = awake \cup {d} /\ linked' = linked \cup {d}
           ELSE awake' = awake \ {d} /\ linked' = linked
    BY <1>3 DEF MSRegisterDriver, Idle, kernelVars
  <2>2. Cardinality(registered') = Cardinality(registered) + 1
    BY <2>1, SetsFinite
  <2>3. call'.op # "unregister"
    BY <2>1 DEF None
  <2>4. linked' = registered' \cap awake'
    BY <2>1 DEF Counted
  <2> QED
    BY <1>1, <2>1, <2>2, <2>3, <2>4 DEF Counted, Self
<1>4. ASSUME NEW d \in Driver, MSUnregisterDriver(d) PROVE Counted'
  <2>1. call'.op = "unregister" /\ call'.at = "close" /\ call'.d = d /\ d \in registered
    BY <1>4 DEF MSUnregisterDriver
  <2> QED
    BY <1>4, <2>1 DEF MSUnregisterDriver, Counted, Self, kernelVars, driverVars
<1>5. CASE CloseClient
  <2>1. call'.op = "unregister" /\ call'.d = call.d /\ call'.at = "sleep"
    BY <1>5, CallGoesOn DEF CloseClient, Types
  <2>2. call.d \in registered
    BY <1>5 DEF CloseClient, Counted
  <2>3. Cardinality(registered') = Cardinality(registered) - 1
    BY <1>5, <2>2, SetsFinite DEF CloseClient
  <2>4. /\ UNCHANGED <<phase, open, nbAppls, awake>>
        /\ registered' = registered \ {call.d} /\ linked' = linked \ {call.d}
        /\ nbDrivers' = nbDrivers - 1
    BY <1>5 DEF CloseClient, kernelVars
  <2>5. nbDrivers' = Cardinality(registered') + (IF phase' = "asleep" THEN 0 ELSE 1)
    BY <1>1, <2>3, <2>4 DEF Counted
  <2>6. linked' = registered' \cap awake'
    BY <2>4 DEF Counted
  <2> QED
    BY <2>1, <2>4, <2>5, <2>6 DEF Counted, Self
<1>6. CASE DriverSleep
  <2>1. call'.op # "unregister" /\ call.d \notin registered
    BY <1>6 DEF DriverSleep, None, Counted
  <2>2. linked' = registered' \cap awake'
    BY <1>6, <2>1 DEF DriverSleep, Counted
  <2> QED
    BY <1>6, <2>1, <2>2 DEF DriverSleep, Counted, Self, kernelVars
<1> QED
  BY <1>3, <1>4, <1>5, <1>6

LEMMA CountedSlots ==
  ASSUME Types, Counted,
         \/ \E d \in Driver, s \in Slot :
               \/ MSAddSlot(d, s) \/ MSRemoveSlot(d, s)
               \/ \E p \in Port, state \in BOOLEAN : MSConnectSlot(p, d, s, state)
         \/ ForgetMap \/ ClearBits \/ ConnectMap
  PROVE  Counted'
<1>1. UNCHANGED <<phase, open, nbAppls, registered, nbDrivers, awake, linked>>
  BY DEF MSAddSlot, MSRemoveSlot, MSConnectSlot, ForgetMap, ClearBits, ConnectMap,
         kernelVars, driverVars
<1>2. call.op # "unregister"
  BY DEF MSAddSlot, MSRemoveSlot, MSConnectSlot, ForgetMap, ClearBits, ConnectMap,
         Plugging, None
<1>3. call'.op # "unregister"
  <2>1. CASE ForgetMap
    BY <2>1, CallGoesOn DEF ForgetMap, Types
  <2> QED
    BY <2>1 DEF MSAddSlot, MSRemoveSlot, MSConnectSlot, ClearBits, ConnectMap, Plugging, None
<1> QED
  BY <1>1, <1>2, <1>3, CountedSame

LEMMA CountedClock ==
  ASSUME Counted,
         \/ \E x \in Listener, at \in Port \cup Slot : MSSend(x, at)
         \/ \E x \in Listener : MSGetEv(x)
         \/ Dispatch \/ RcvAlarmLoop
  PROVE  Counted'
<1>1. UNCHANGED <<phase, open, nbAppls, registered, nbDrivers, awake, linked, call>>
  BY DEF MSSend, MSGetEv, Dispatch, RcvAlarmLoop, kernelVars, driverVars
<1> QED
  BY <1>1 DEF Counted, Self


(***************************************************************************)
(* The loops leave out no more drivers than have come meanwhile.           *)
(***************************************************************************)
LEMMA LoopedSame ==
  ASSUME Looped, UNCHANGED <<phase, ref, todo, late, registered, awake>>
  PROVE  Looped'
BY DEF Looped, Missed, Ahead, Spared

LEMMA SmallSets ==
  \A S : S \subseteq Driver => /\ IsFiniteSet(S) /\ Cardinality(S) \in Nat
                              /\ Cardinality(S) <= NDrivers
<1> SUFFICES ASSUME NEW S, S \subseteq Driver
             PROVE  /\ IsFiniteSet(S) /\ Cardinality(S) \in Nat
                    /\ Cardinality(S) <= NDrivers
  OBVIOUS
<1>1. 1 \in Int /\ NDrivers \in Nat \ {0}
  BY DriversAssumption
<1>2. Cardinality(Driver) = NDrivers
  BY <1>1, FS_Interval DEF Driver
<1> QED
  BY <1>2, FiniteSets, FS_Subset, FS_CardinalityType

LEMMA Smaller ==
  ASSUME NEW S \in SUBSET Driver, NEW T \in SUBSET S
  PROVE  Cardinality(T) <= Cardinality(S)
BY SmallSets, FS_Subset

LEMMA OneMoreOrLess ==
  ASSUME NEW S \in SUBSET Driver, NEW x
  PROVE  /\ Cardinality(S \cup {x}) <= Cardinality(S) + 1
         /\ x \in S => Cardinality(S \ {x}) = Cardinality(S) - 1
<1>1. IsFiniteSet(S) /\ Cardinality(S) \in Nat
  BY SmallSets
<1>2. Cardinality(S \cup {x}) = IF x \in S THEN Cardinality(S) ELSE Cardinality(S) + 1
  BY <1>1, FS_AddElement
<1>3. Cardinality(S \ {x}) = IF x \in S THEN Cardinality(S) - 1 ELSE Cardinality(S)
  BY <1>1, FS_RemoveElement
<1> QED
  BY <1>1, <1>2, <1>3

\* The sets of drivers that are counted.
LEMMA LoopSets ==
  ASSUME Types
  PROVE  /\ Missed \subseteq Driver /\ Ahead \subseteq Driver
         /\ registered \ awake \subseteq Driver /\ registered \cap awake \subseteq Driver
         /\ Cardinality(Missed) \in Nat /\ Cardinality(Ahead) \in Nat
         /\ Missed \cap Ahead = {}
         /\ registered \ awake \subseteq Missed \cup Ahead
         /\ registered \cap awake \subseteq Spared \cup Ahead
         /\ ref = 0 => Ahead = {}
<1>1. registered \subseteq Driver /\ ref \in Int /\ \A d \in Driver : d \in Nat /\ d > 0
  BY DriversAssumption DEF Types, Driver
<1>2. Missed \subseteq Driver /\ Ahead \subseteq Driver /\ Missed \cap Ahead = {}
  BY <1>1 DEF Missed, Ahead
<1>6. registered \ awake \subseteq Missed \cup Ahead /\ registered \cap awake \subseteq Spared \cup Ahead
  BY <1>1 DEF Missed, Ahead, Spared
<1>7. ref = 0 => Ahead = {}
  BY <1>1 DEF Ahead
<1> QED
  BY <1>1, <1>2, <1>6, <1>7, SmallSets

\* When a loop is over.
LEMMA LoopEnds ==
  ASSUME Types, Looped, LoopOver
  PROVE  /\ phase = "opening" => Cardinality(registered \ awake) <= late
         /\ phase = "sleeping" => Cardinality(registered \cap awake) <= late
<1>1. late \in Nat /\ todo \in Nat
  BY DEF Types
<1>2. CASE todo = 0
  <2>1. ASSUME phase = "opening" PROVE Cardinality(registered \ awake) <= late
    <3>1. Cardinality(Missed) + Cardinality(Ahead) <= late
      BY <1>1, <1>2, <2>1, LoopSets DEF Looped
    <3>2. IsFiniteSet(Missed) /\ IsFiniteSet(Ahead) /\ Missed \cup Ahead \in SUBSET Driver
      BY LoopSets, SmallSets
    <3>3. Missed \cap Ahead = {}
      BY LoopSets
    <3>4. Cardinality(Missed \cup Ahead) <= late
      BY <3>1, <3>2, <3>3, DisjointUnion
    <3>5. Cardinality(registered \ awake) <= Cardinality(Missed \cup Ahead)
      BY <3>2, LoopSets, Smaller
    <3>6. Cardinality(registered \ awake) \in Nat /\ Cardinality(Missed \cup Ahead) \in Nat
      BY <3>2, LoopSets, SmallSets
    <3> QED
      BY <1>1, <3>4, <3>5, <3>6
  <2>2. ASSUME phase = "sleeping" PROVE Cardinality(registered \cap awake) <= late
    <3>1. Cardinality(Ahead) <= late /\ registered \cap awake \subseteq Ahead
      BY <1>1, <1>2, <2>2, LoopSets DEF Looped
    <3>2. Cardinality(registered \cap awake) <= Cardinality(Ahead)
      BY <3>1, LoopSets, Smaller
    <3> QED
      BY <1>1, <3>1, <3>2, LoopSets, SmallSets
  <2> QED
    BY <2>1, <2>2
<1>3. CASE ref = 0
  <2>1. Ahead = {}
    BY <1>3, LoopSets
  <2>2. ASSUME phase = "opening" PROVE Cardinality(registered \ awake) <= late
    <3>1. Cardinality(Missed) <= late /\ registered \ awake \subseteq Missed
      BY <2>1, <2>2, LoopSets DEF Looped
    <3>2. Cardinality(registered \ awake) <= Cardinality(Missed)
      BY <3>1, LoopSets, Smaller
    <3> QED
      BY <1>1, <3>1, <3>2, LoopSets, SmallSets
  <2>3. ASSUME phase = "sleeping" PROVE Cardinality(registered \cap awake) <= late
    <3>1. registered \cap awake = {}
      BY <2>1, <2>3, LoopSets DEF Looped
    <3> QED
      BY <1>1, <3>1, FS_EmptySet
  <2> QED
    BY <2>2, <2>3
<1> QED
  BY <1>2, <1>3 DEF LoopOver

\* When one begins, everything is ahead.
LEMMA LoopBegins ==
  ASSUME Types, Counted, phase # "asleep", BeginLoop, UNCHANGED <<registered, awake>>
  PROVE  /\ Missed' = {} /\ Spared' = {}
         /\ Cardinality(Ahead') <= todo' + late'
<1>1. ref' = NDrivers /\ todo' = Cardinality(registered) /\ late' = 0
  BY AllCounted DEF BeginLoop
<1>2. \A d \in registered : d <= NDrivers /\ ~ d > NDrivers
  BY DriversAssumption DEF Types, Driver
<1>3. Missed' = {} /\ Spared' = {} /\ Ahead' = registered
  BY <1>1, <1>2 DEF Missed, Spared, Ahead
<1> QED
  BY <1>1, <1>3, SetsFinite

\* The number of the loop goes down.
LEMMA LoopGoesOn ==
  ASSUME Types, NextDriver, UNCHANGED registered
  PROVE  /\ Ahead' = Ahead \ {ref}
         /\ awake' = awake \cup ({ref} \cap registered) => Missed' = Missed
         /\ awake' = awake \ ({ref} \cap registered) => Spared' = Spared
         /\ Cardinality(Ahead') - todo' = Cardinality(Ahead) - todo
<1>1. /\ registered \subseteq Driver /\ ref \in Int /\ ref' = ref - 1
      /\ \A d \in Driver : d \in Int
      /\ todo \in Nat /\ todo' = IF ref \in registered THEN todo - 1 ELSE todo
  BY NextTypes DEF Types, Driver
<1>2. Ahead' = Ahead \ {ref}
  BY <1>1 DEF Ahead
<1>3. awake' = awake \cup ({ref} \cap registered) => Missed' = Missed
  BY <1>1 DEF Missed
<1>4. awake' = awake \ ({ref} \cap registered) => Spared' = Spared
  BY <1>1 DEF Spared
<1>5. Cardinality(Ahead) \in Nat /\ Ahead \in SUBSET Driver
  BY LoopSets
<1>6. Cardinality(Ahead') - todo' = Cardinality(Ahead) - todo
  <2>1. CASE ref \in registered
    <3>1. ref \in Ahead
      BY <1>1, <2>1 DEF Ahead
    <3>2. Cardinality(Ahead \ {ref}) = Cardinality(Ahead) - 1
      BY <1>5, <3>1, OneMoreOrLess
    <3>3. todo' = todo - 1
      BY <1>1, <2>1
    <3> QED
      BY <1>1, <1>2, <1>5, <3>2, <3>3
  <2>2. CASE ref \notin registered
    <3>1. Ahead \ {ref} = Ahead
      BY <2>2 DEF Ahead
    <3> QED
      BY <1>1, <1>2, <2>2, <3>1
  <2> QED
    BY <2>1, <2>2
<1> QED
  BY <1>2, <1>3, <1>4, <1>6

LEMMA LoopedKernel ==
  ASSUME Types, Types', Counted, Looped,
         \/ BeginWakeup \/ OpenTime \/ OpenDrivers \/ DriverWakeUp \/ OpenSelf
         \/ CloseDrivers \/ DriverSleepAll \/ CloseMemory \/ EndSleep
         \/ \E c \in Client : MSOpen(c) \/ MSClose(c)
  PROVE  Looped'
<1> USE DEF kernelVars, driverVars
<1>0. late \in Nat /\ todo \in Nat /\ late' \in Nat /\ todo' \in Nat
  BY DEF Types
<1>1. CASE BeginWakeup
  BY <1>1 DEF BeginWakeup, Looped
<1>2. CASE OpenTime
  BY <1>2 DEF OpenTime, Looped
<1>3. CASE OpenDrivers
  <2>1. phase' = "opening" /\ Missed' = {} /\ Cardinality(Ahead') <= todo' + late'
    BY <1>3, LoopBegins DEF OpenDrivers
  <2>2. Cardinality(Missed') = 0 /\ Cardinality(Ahead') \in Nat
    <3>1. Ahead' \subseteq Driver
      BY DEF Ahead, Types
    <3> QED
      BY <2>1, <3>1, FS_EmptySet, SmallSets
  <2> QED
    BY <1>0, <2>1, <2>2 DEF Looped
<1>4. CASE DriverWakeUp
  <2>1. /\ phase = "opening" /\ phase' = phase /\ late' = late /\ registered' = registered
        /\ awake' = awake \cup ({ref} \cap registered) /\ NextDriver
    BY <1>4 DEF DriverWakeUp
  <2>2. Missed' = Missed /\ Cardinality(Ahead') - todo' = Cardinality(Ahead) - todo
    BY <2>1, LoopGoesOn
  <2>3. Cardinality(Ahead') \in Nat
    <3>1. Ahead' \subseteq Driver
      BY DEF Ahead, Types
    <3> QED
      BY <3>1, SmallSets
  <2>4. /\ Cardinality(Missed') <= late'
        /\ Cardinality(Missed') + Cardinality(Ahead') <= todo' + late'
    BY <1>0, <2>1, <2>2, <2>3, LoopSets DEF Looped
  <2> QED
    BY <2>1, <2>4 DEF Looped
<1>5. CASE OpenSelf
  BY <1>5, LoopEnds DEF OpenSelf, Looped
<1>6. CASE CloseDrivers
  <2>1. phase' = "sleeping" /\ Spared' = {} /\ Cardinality(Ahead') <= todo' + late'
    BY <1>6, LoopBegins DEF CloseDrivers
  <2> QED
    BY <2>1 DEF Looped
<1>7. CASE DriverSleepAll
  <2>1. /\ phase = "sleeping" /\ phase' = phase /\ late' = late /\ registered' = registered
        /\ awake' = awake \ ({ref} \cap registered) /\ NextDriver
    BY <1>7 DEF DriverSleepAll
  <2>2. Spared' = Spared /\ Cardinality(Ahead') - todo' = Cardinality(Ahead) - todo
    BY <2>1, LoopGoesOn
  <2>3. Cardinality(Ahead') \in Nat
    <3>1. Ahead' \subseteq Driver
      BY DEF Ahead, Types
    <3> QED
      BY <3>1, SmallSets
  <2>4. Cardinality(Ahead') <= todo' + late'
    BY <1>0, <2>1, <2>2, <2>3, LoopSets DEF Looped
  <2> QED
    BY <2>1, <2>2, <2>4 DEF Looped
<1>8. CASE CloseMemory
  BY <1>8, LoopEnds DEF CloseMemory, Looped
<1>9. CASE EndSleep
  BY <1>9 DEF EndSleep, Looped
<1>10. ASSUME NEW c \in Client, MSOpen(c) PROVE Looped'
  BY <1>10, LoopedSame DEF MSOpen
<1>11. ASSUME NEW c \in Client, MSClose(c) PROVE Looped'
  BY <1>11 DEF MSClose, Looped
<1> QED
  BY <1>1, <1>2, <1>3, <1>4, <1>5, <1>6, <1>7, <1>8, <1>9, <1>10, <1>11

\* A driver less.
LEMMA FewerDrivers ==
  ASSUME Types, Looped, UNCHANGED <<phase, todo, late>>,
         Missed' \subseteq Missed, Ahead' \subseteq Ahead, Spared' \subseteq Spared,
         registered' \ awake' \subseteq registered \ awake,
         registered' \cap awake' \subseteq registered \cap awake
  PROVE  Looped'
<1>1. /\ late \in Nat /\ todo \in Nat
      /\ Missed \in SUBSET Driver /\ Ahead \in SUBSET Driver
      /\ registered \ awake \in SUBSET Driver /\ registered \cap awake \in SUBSET Driver
  BY LoopSets DEF Types
<1>2. \A S \in SUBSET Driver, T \in SUBSET Driver :
        T \subseteq S => /\ Cardinality(T) <= Cardinality(S)
                        /\ Cardinality(T) \in Nat /\ Cardinality(S) \in Nat
  BY Smaller, SmallSets
<1>3. /\ Cardinality(Missed') <= Cardinality(Missed)
      /\ Cardinality(Missed') \in Nat /\ Cardinality(Missed) \in Nat
  BY <1>1, <1>2
<1>4. /\ Cardinality(Ahead') <= Cardinality(Ahead)
      /\ Cardinality(Ahead') \in Nat /\ Cardinality(Ahead) \in Nat
  BY <1>1, <1>2
<1>5. /\ Cardinality(registered' \ awake') <= Cardinality(registered \ awake)
      /\ Cardinality(registered' \ awake') \in Nat /\ Cardinality(registered \ awake) \in Nat
  BY <1>1, <1>2
<1>6. /\ Cardinality(registered' \cap awake') <= Cardinality(registered \cap awake)
      /\ Cardinality(registered' \cap awake') \in Nat
      /\ Cardinality(registered \cap awake) \in Nat
  BY <1>1, <1>2
<1> QED
  BY <1>1, <1>3, <1>4, <1>5, <1>6 DEF Looped

LEMMA LoopedDrivers ==
  ASSUME Types, Counted, Looped,
         \/ \E d \in Driver : MSRegisterDriver(d) \/ MSUnregisterDriver(d)
         \/ CloseClient \/ DriverSleep
  PROVE  Looped'
<1> USE DEF kernelVars, driverVars
<1>0. late \in Nat /\ todo \in Nat /\ NDrivers \in Nat /\ late <= NDrivers
  BY DriversAssumption DEF Types
<1>1. ASSUME NEW d \in Driver, MSRegisterDriver(d) PROVE Looped'
  <2>1. /\ d \notin registered /\ registered' = registered \cup {d}
        /\ UNCHANGED <<phase, ref, todo>> /\ late' = Late
        /\ IF nbAppls > 0 THEN awake' = awake \cup {d} ELSE awake' = awake \ {d}
    BY <1>1 DEF MSRegisterDriver
  <2>2. ~ Self => nbAppls = 0
    BY FS_EmptySet DEF Counted
  <2>3. Self => nbAppls > 0
    BY SetsFinite DEF Counted
  <2>4. CASE phase = "opening"
    <3>1. awake' = awake \ {d}
      BY <2>1, <2>2, <2>4 DEF Self
    <3>2. /\ Missed' \subseteq Missed \cup {d} /\ Ahead' \subseteq Ahead \cup {d}
          /\ d > ref => Ahead' = Ahead
          /\ ~ d > ref => Missed' = Missed
      BY <2>1, <3>1 DEF Missed, Ahead, Driver, Types
    <3>3. late' = late + 1 \/ late' = NDrivers
      BY <2>1, <2>4, LateCounts
    <3> DEFINE m == Cardinality(Missed)
               a == Cardinality(Ahead)
               m1 == Cardinality(Missed')
               a1 == Cardinality(Ahead')
    <3>4. m \in Nat /\ a \in Nat /\ m <= late /\ m + a <= todo + late
      BY <2>4, LoopSets DEF Looped
    <3>5. m1 \in Nat /\ a1 \in Nat /\ m1 + a1 <= NDrivers
      <4>1. Missed \subseteq Driver /\ Ahead \subseteq Driver /\ Missed \cap Ahead = {}
        BY LoopSets
      <4>2. Missed' \subseteq Driver /\ Ahead' \subseteq Driver /\ Missed' \cap Ahead' = {}
        <5>1. d \notin Missed /\ d \notin Ahead
          BY <2>1 DEF Missed, Ahead
        <5> QED
          BY <3>2, <4>1, <5>1
      <4>3. /\ IsFiniteSet(Missed') /\ IsFiniteSet(Ahead')
            /\ Cardinality(Missed' \cup Ahead') <= NDrivers
            /\ Cardinality(Missed') \in Nat /\ Cardinality(Ahead') \in Nat
        BY <4>2, SmallSets
      <4>4. Cardinality(Missed' \cup Ahead') = Cardinality(Missed') + Cardinality(Ahead')
        BY <4>2, <4>3, DisjointUnion
      <4> QED
        BY <4>3, <4>4
    <3>6. m1 <= m + 1 /\ a1 <= a + 1
      <4>1. Missed \in SUBSET Driver /\ Ahead \in SUBSET Driver
        BY LoopSets
      <4>2. Cardinality(Missed \cup {d}) <= m + 1 /\ Cardinality(Ahead \cup {d}) <= a + 1
        BY <4>1, OneMoreOrLess
      <4>3. Missed \cup {d} \in SUBSET Driver /\ Ahead \cup {d} \in SUBSET Driver
        BY <4>1
      <4>4. m1 <= Cardinality(Missed \cup {d}) /\ a1 <= Cardinality(Ahead \cup {d})
        BY <3>2, <4>3, Smaller
      <4>5. Cardinality(Missed \cup {d}) \in Nat /\ Cardinality(Ahead \cup {d}) \in Nat
        BY <4>3, SmallSets
      <4> HIDE DEF m, a, m1, a1
      <4> QED
        BY <3>4, <3>5, <4>2, <4>4, <4>5
    <3>7. m1 = m \/ a1 = a
      BY <3>2
    <3> HIDE DEF m, a, m1, a1
    <3>8. m1 <= late' /\ m1 + a1 <= todo + late'
      BY <1>0, <3>3, <3>4, <3>5, <3>6, <3>7
    <3> QED
      BY <2>1, <2>4, <3>8 DEF Looped, m1, a1
  <2>5. CASE phase = "sleeping"
    <3>1. awake' = awake \ {d}
      BY <2>1, <2>2, <2>5 DEF Self
    <3>2. Spared' = Spared /\ Ahead' \subseteq Ahead \cup {d}
      BY <2>1, <3>1 DEF Spared, Ahead
    <3>3. late' = late + 1 \/ late' = NDrivers
      BY <2>1, <2>5, LateCounts
    <3> DEFINE a == Cardinality(Ahead)
               a1 == Cardinality(Ahead')
    <3>4. a \in Nat /\ a <= todo + late
      BY <2>5, LoopSets DEF Looped
    <3>5. a1 \in Nat /\ a1 <= NDrivers
      <4>1. Ahead' \subseteq Driver
        BY <3>2, LoopSets
      <4> QED
        BY <4>1, SmallSets
    <3>6. a1 <= a + 1
      <4>1. Ahead \in SUBSET Driver /\ Ahead \cup {d} \in SUBSET Driver
        BY LoopSets
      <4>2. Cardinality(Ahead \cup {d}) <= a + 1 /\ a1 <= Cardinality(Ahead \cup {d})
        BY <3>2, <4>1, OneMoreOrLess, Smaller
      <4>3. Cardinality(Ahead \cup {d}) \in Nat
        BY <4>1, SmallSets
      <4> HIDE DEF a, a1
      <4> QED
        BY <3>4, <3>5, <4>2, <4>3
    <3> HIDE DEF a, a1
    <3>7. a1 <= todo + late'
      BY <1>0, <3>3, <3>4, <3>5, <3>6
    <3> QED
      BY <2>1, <2>5, <3>2, <3>7 DEF Looped, a1
  <2>6. CASE phase = "awake"
    <3>1. awake' = awake \cup {d} /\ late' = late
      BY <2>1, <2>3, <2>6, LateCounts DEF Self
    <3>2. registered' \ awake' = registered \ awake
      BY <2>1, <3>1
    <3> QED
      BY <2>1, <2>6, <3>1, <3>2 DEF Looped
  <2>7. CASE phase \notin {"opening", "sleeping", "awake"}
    <3>1. awake' = awake \ {d} /\ late' = late
      BY <2>1, <2>2, <2>7, LateCounts DEF Self
    <3>2. registered' \cap awake' = registered \cap awake
      BY <2>1, <3>1
    <3> QED
      BY <2>1, <2>7, <3>1, <3>2 DEF Looped
  <2> QED
    BY <2>4, <2>5, <2>6, <2>7
<1>2. ASSUME NEW d \in Driver, MSUnregisterDriver(d) PROVE Looped'
  BY <1>2, LoopedSame DEF MSUnregisterDriver
<1>3. CASE CloseClient
  <2>1. /\ registered' = registered \ {call.d}
        /\ UNCHANGED <<phase, ref, todo, late, awake>>
    BY <1>3 DEF CloseClient
  <2>2. /\ Missed' \subseteq Missed /\ Ahead' \subseteq Ahead /\ Spared' \subseteq Spared
        /\ registered' \ awake' \subseteq registered \ awake
        /\ registered' \cap awake' \subseteq registered \cap awake
    BY <2>1 DEF Missed, Ahead, Spared
  <2> QED
    BY <1>0, <2>1, <2>2, FewerDrivers
<1>4. CASE DriverSleep
  <2>1. call.d \notin registered
    BY <1>4 DEF DriverSleep, Counted
  <2>2. /\ UNCHANGED <<phase, ref, todo, late, registered>>
        /\ awake' = awake \ {call.d} \/ awake' = awake
    BY <1>4 DEF DriverSleep
  <2>3. /\ Missed' = Missed /\ Ahead' = Ahead /\ Spared' = Spared
        /\ registered' \ awake' = registered \ awake
        /\ registered' \cap awake' = registered \cap awake
    BY <2>1, <2>2 DEF Missed, Ahead, Spared
  <2> QED
    BY <2>2, <2>3 DEF Looped
<1> QED
  BY <1>1, <1>2, <1>3, <1>4

LEMMA LoopedOthers ==
  ASSUME Looped,
         \/ \E d \in Driver, s \in Slot :
               \/ MSAddSlot(d, s) \/ MSRemoveSlot(d, s)
               \/ \E p \in Port, state \in BOOLEAN : MSConnectSlot(p, d, s, state)
         \/ ForgetMap \/ ClearBits \/ ConnectMap
         \/ \E x \in Listener, at \in Port \cup Slot : MSSend(x, at)
         \/ \E x \in Listener : MSGetEv(x)
         \/ Dispatch \/ RcvAlarmLoop
  PROVE  Looped'
<1>1. UNCHANGED <<phase, ref, todo, late, registered, awake>>
  BY DEF MSAddSlot, MSRemoveSlot, MSConnectSlot, ForgetMap, ClearBits, ConnectMap,
         MSSend, MSGetEv, Dispatch, RcvAlarmLoop, kernelVars, driverVars
<1> QED
  BY <1>1, LoopedSame

(***************************************************************************)
(* The tables of the slots go on agreeing.                                 *)
(***************************************************************************)
LEMMA WiredSame ==
  ASSUME Wired, UNCHANGED <<registered, map, port, call>>
  PROVE  Wired'
BY DEF Wired, Changing, Agree

\* Between calls no slot is being changed.
LEMMA AllAgree ==
  ASSUME Wired, call = None, NEW d \in registered, NEW s \in Slot, NEW p \in Port
  PROVE  Agree(d, s, p)
BY DEF Wired, Changing

LEMMA WiredKernel ==
  ASSUME Wired,
         \/ BeginWakeup \/ OpenTime \/ OpenDrivers \/ DriverWakeUp \/ OpenSelf
         \/ CloseDrivers \/ DriverSleepAll \/ CloseMemory \/ EndSleep
         \/ \E c \in Client : MSOpen(c) \/ MSClose(c)
         \/ \E x \in Listener, at \in Port \cup Slot : MSSend(x, at)
         \/ \E x \in Listener : MSGetEv(x)
         \/ Dispatch \/ RcvAlarmLoop
  PROVE  Wired'
<1>1. UNCHANGED <<registered, map, port, call>>
  BY DEF BeginWakeup, OpenTime, OpenDrivers, DriverWakeUp, NextDriver, Idle, OpenSelf,
         CloseDrivers, DriverSleepAll, CloseMemory, EndSleep, MSOpen, MSClose, MSSend,
         MSGetEv, Dispatch, RcvAlarmLoop, driverVars, slotVars
<1> QED
  BY <1>1, WiredSame

LEMMA WiredDrivers ==
  ASSUME Types, Counted, Wired,
         \/ \E d \in Driver : MSRegisterDriver(d) \/ MSUnregisterDriver(d)
         \/ CloseClient \/ DriverSleep
  PROVE  Wired'
<1>1. ASSUME NEW d \in Driver, MSRegisterDriver(d) PROVE Wired'
  <2>1. call = None /\ call' = None /\ call'.op = "none"
    BY <1>1 DEF MSRegisterDriver, Idle, None
  <2>2. registered' = registered \cup {d}
        /\ map' = [map EXCEPT ![d] = NoMaps] /\ port' = [port EXCEPT ![d] = NoBits]
    BY <1>1 DEF MSRegisterDriver
  <2>3. \A e \in registered', s \in Slot, p \in Port : Agree(e, s, p)'
    <3> SUFFICES ASSUME NEW e \in registered', NEW s \in Slot, NEW p \in Port
                 PROVE  Agree(e, s, p)'
      OBVIOUS
    <3>1. CASE e = d
      <4>1. map'[d][s] = NoMap /\ port'[d][p] = {}
        BY <2>2 DEF NoMaps, NoBits, Types
      <4> QED
        BY <3>1, <4>1 DEF Agree
    <3>2. CASE e # d
      <4>1. e \in registered /\ e \in Driver
        BY <2>2, <3>2 DEF Types
      <4>2. map'[e] = map[e] /\ port'[e] = port[e]
        BY <2>2, <3>2, <4>1 DEF Types
      <4> QED
        BY <2>1, <4>1, <4>2, AllAgree DEF Agree
    <3> QED
      BY <3>1, <3>2
  <2> QED
    BY <2>1, <2>3 DEF Wired
<1>2. ASSUME NEW d \in Driver, MSUnregisterDriver(d) PROVE Wired'
  <2>1. call = None /\ UNCHANGED <<registered, map, port>> /\ call'.op = "unregister"
    BY <1>2 DEF MSUnregisterDriver, Idle, driverVars, slotVars
  <2>2. \A e \in registered, s \in Slot, p \in Port : Agree(e, s, p)'
    BY <2>1, AllAgree DEF Agree
  <2> QED
    BY <2>1, <2>2 DEF Wired
<1>3. CASE CloseClient
  <2>1. call'.op = "unregister" /\ call'.d = call.d /\ call.d \in Driver
    BY <1>3, CallGoesOn, CallShape DEF CloseClient, Types
  <2>2. registered' = registered \ {call.d}
        /\ map' = [map EXCEPT ![call.d] = NoMaps] /\ port' = [port EXCEPT ![call.d] = NoBits]
    BY <1>3 DEF CloseClient
  <2>3. \A e \in registered', s \in Slot, p \in Port : Agree(e, s, p)'
    <3> SUFFICES ASSUME NEW e \in registered', NEW s \in Slot, NEW p \in Port
                 PROVE  Agree(e, s, p)'
      OBVIOUS
    <3>1. e \in registered /\ e # call.d /\ e \in Driver
      BY <2>2 DEF Types
    <3>2. map'[e] = map[e] /\ port'[e] = port[e]
      BY <2>2, <3>1 DEF Types
    <3>3. Agree(e, s, p)
      BY <3>1 DEF Wired, Changing
    <3> QED
      BY <3>2, <3>3 DEF Agree
  <2> QED
    BY <2>1, <2>3 DEF Wired
<1>4. CASE DriverSleep
  <2>1. call'.op = "none" /\ UNCHANGED <<registered, map, port>> /\ call.d \notin registered
    BY <1>4 DEF DriverSleep, None, slotVars, Counted
  <2>2. \A e \in registered, s \in Slot, p \in Port : Agree(e, s, p)'
    BY <2>1 DEF Agree, Wired, Changing
  <2> QED
    BY <2>1, <2>2 DEF Wired
<1> QED
  BY <1>1, <1>2, <1>3, <1>4

LEMMA WiredSlots ==
  ASSUME Types, Wired,
         \/ \E d \in Driver, s \in Slot :
               \/ MSAddSlot(d, s) \/ MSRemoveSlot(d, s)
               \/ \E p \in Port, state \in BOOLEAN : MSConnectSlot(p, d, s, state)
         \/ ForgetMap \/ ClearBits \/ ConnectMap
  PROVE  Wired'
<1>1. ASSUME NEW d \in Driver, NEW s \in Slot, MSAddSlot(d, s) PROVE Wired'
  <2>1. /\ call = None /\ call' = None /\ call'.op = "none" /\ d \in registered
        /\ UNCHANGED <<registered, port>> /\ map[d][s] = NoMap
        /\ map' = [map EXCEPT ![d][s] = {}]
    BY <1>1 DEF MSAddSlot, Plugging, None, driverVars
  <2>2. \A e \in registered, r \in Slot, p \in Port : Agree(e, r, p)'
    <3> SUFFICES ASSUME NEW e \in registered, NEW r \in Slot, NEW p \in Port
                 PROVE  Agree(e, r, p)'
      OBVIOUS
    <3>1. Agree(e, r, p) /\ e \in Driver
      BY <2>1, AllAgree DEF Types
    <3>2. CASE e = d /\ r = s
      <4>1. map'[e][r] = {}
        BY <2>1, <3>1, <3>2 DEF Types
      <4> QED
        BY <2>1, <3>1, <3>2, <4>1 DEF Agree
    <3>3. CASE ~ (e = d /\ r = s)
      <4>1. map'[e][r] = map[e][r]
        BY <2>1, <3>1, <3>3 DEF Types
      <4> QED
        BY <2>1, <3>1, <4>1 DEF Agree
    <3> QED
      BY <3>2, <3>3
  <2> QED
    BY <2>1, <2>2 DEF Wired
<1>2. ASSUME NEW d \in Driver, NEW s \in Slot, MSRemoveSlot(d, s) PROVE Wired'
  <2>1. /\ call = None /\ UNCHANGED <<registered, map, port>>
        /\ call'.op = "remove" /\ call'.at = "forget"
    BY <1>2 DEF MSRemoveSlot, Plugging, driverVars, slotVars
  <2>2. \A e \in registered, r \in Slot, p \in Port : Agree(e, r, p)'
    BY <2>1, AllAgree DEF Agree
  <2> QED
    BY <2>1, <2>2 DEF Wired
<1>3. ASSUME NEW d \in Driver, NEW s \in Slot, NEW p \in Port, NEW state \in BOOLEAN,
             MSConnectSlot(p, d, s, state)
      PROVE  Wired'
  <2>1. /\ call = None /\ d \in registered /\ map[d][s] # NoMap
        /\ UNCHANGED <<registered, map>>
        /\ port' = [port EXCEPT ![d][p] = IF state THEN @ \cup {s} ELSE @ \ {s}]
        /\ call' = [op |-> "connect", d |-> d, s |-> s, p |-> p, state |-> state]
    BY <1>3 DEF MSConnectSlot, Plugging, driverVars
  <2>2. /\ call' # None /\ call'.op = "connect" /\ call'.d = d /\ call'.s = s
        /\ call'.p = p /\ call'.state = state
    BY <2>1 DEF None
  <2>3. ASSUME NEW e \in registered, NEW r \in Slot, NEW q \in Port
        PROVE  IF e = d /\ r = s /\ q = p THEN r \in port'[e][q] <=> state
               ELSE r \in port'[e][q] <=> r \in port[e][q]
    BY <2>1 DEF Types
  <2>4. ASSUME NEW e \in registered, NEW r \in Slot, NEW q \in Port
        PROVE  Agree(e, r, q)
    BY <2>1, AllAgree
  <2>5. ASSUME NEW e \in registered, NEW r \in Slot, NEW q \in Port,
               ~ (e = d /\ r = s /\ q = p)
        PROVE  Agree(e, r, q)'
    BY <2>1, <2>3, <2>4, <2>5 DEF Agree
  <2>6. \A e \in registered', r \in Slot, q \in Port :
          ~ Changing(e, r)' => Agree(e, r, q)'
    BY <2>1, <2>2, <2>5 DEF Changing
  <2>7. /\ map'[d][s] # NoMap
        /\ \A q \in Port : IF q = p THEN s \in port'[d][q] <=> state
                           ELSE Agree(d, s, q)'
    BY <2>1, <2>3, <2>5
  <2> QED
    BY <2>2, <2>6, <2>7 DEF Wired, Agree
<1>4. CASE ForgetMap
  <2>1. /\ call.op = "remove" /\ call.at = "forget" /\ call # None
        /\ call' # None /\ call'.op = "remove" /\ call'.d = call.d /\ call'.s = call.s
        /\ call.d \in Driver /\ call.s \in Slot
    BY <1>4, CallGoesOn, CallShape DEF ForgetMap, Types, None
  <2>2. UNCHANGED <<registered, port>> /\ map' = [map EXCEPT ![call.d][call.s] = NoMap]
    BY <1>4 DEF ForgetMap, driverVars
  <2>3. ASSUME NEW e \in registered, NEW r \in Slot, NEW q \in Port, ~ Changing(e, r)'
        PROVE  Agree(e, r, q)'
    <3>1. ~ (e = call.d /\ r = call.s) /\ ~ Changing(e, r) /\ e \in Driver
      BY <2>1, <2>3 DEF Changing, Types
    <3>2. map'[e][r] = map[e][r]
      BY <2>1, <2>2, <3>1 DEF Types
    <3>3. Agree(e, r, q)
      BY <3>1 DEF Wired
    <3> QED
      BY <2>2, <3>2, <3>3 DEF Agree
  <2>4. map'[call.d][call.s] = NoMap
    BY <2>1, <2>2 DEF Types
  <2> QED
    BY <2>1, <2>2, <2>3, <2>4 DEF Wired
<1>5. CASE ClearBits
  <2>1. /\ call.op = "remove" /\ call.at = "clear" /\ call' = None /\ call'.op = "none"
        /\ call.d \in Driver /\ call.s \in Slot /\ map[call.d][call.s] = NoMap
    BY <1>5, CallShape DEF ClearBits, Types, None, Wired
  <2>2. /\ UNCHANGED <<registered, map>>
        /\ port' = [port EXCEPT ![call.d] = [p \in Port |-> @[p] \ {call.s}]]
    BY <1>5 DEF ClearBits, driverVars
  <2>3. ASSUME NEW e \in registered, NEW r \in Slot, NEW q \in Port
        PROVE  Agree(e, r, q)'
    <3>1. e \in Driver
      BY DEF Types
    <3>2. CASE e = call.d /\ r = call.s
      <4>1. port'[e][q] = port[e][q] \ {r}
        BY <2>1, <2>2, <3>2 DEF Types
      <4> QED
        BY <2>1, <2>2, <3>2, <4>1 DEF Agree
    <3>3. CASE ~ (e = call.d /\ r = call.s)
      <4>1. r \in port'[e][q] <=> r \in port[e][q]
        <5>1. CASE e = call.d
          <6>1. port'[e][q] = port[e][q] \ {call.s}
            BY <2>1, <2>2, <5>1 DEF Types
          <6> QED
            BY <3>3, <5>1, <6>1
        <5>2. CASE e # call.d
          BY <2>1, <2>2, <3>1, <5>2 DEF Types
        <5> QED
          BY <5>1, <5>2
      <4>2. Agree(e, r, q)
        BY <2>1, <3>3 DEF Wired, Changing
      <4> QED
        BY <2>2, <4>1, <4>2 DEF Agree
    <3> QED
      BY <3>2, <3>3
  <2> QED
    BY <2>1, <2>2, <2>3 DEF Wired
<1>6. CASE ConnectMap
  <2>1. /\ call.op = "connect" /\ call # None /\ call' = None /\ call'.op = "none"
        /\ call.d \in Driver /\ call.s \in Slot /\ call.p \in Port
        /\ map[call.d][call.s] # NoMap
    BY <1>6, CallShape DEF ConnectMap, Types, None, Wired
  <2>2. /\ UNCHANGED <<registered, port>>
        /\ map' = [map EXCEPT ![call.d][call.s] =
                      IF call.state THEN @ \cup {call.p} ELSE @ \ {call.p}]
    BY <1>6 DEF ConnectMap, driverVars
  <2>3. ASSUME NEW e \in registered, NEW r \in Slot, NEW q \in Port
        PROVE  Agree(e, r, q)'
    <3>1. e \in Driver
      BY DEF Types
    <3>2. CASE e = call.d /\ r = call.s
      <4>1. map[e][r] \in SUBSET Port /\ map[e][r] # NoMap
        BY <2>1, <3>1, <3>2 DEF Types
      <4>2. map'[e][r] = IF call.state THEN map[e][r] \cup {call.p} ELSE map[e][r] \ {call.p}
        BY <2>1, <2>2, <3>2 DEF Types
      <4>3. map'[e][r] # NoMap
        BY <2>1, <4>1, <4>2, Bounds
      <4>4. IF q = call.p THEN r \in port[e][q] <=> call.state ELSE Agree(e, r, q)
        BY <2>1, <3>2 DEF Wired
      <4> QED
        BY <2>2, <4>1, <4>2, <4>3, <4>4 DEF Agree
    <3>3. CASE ~ (e = call.d /\ r = call.s)
      <4>1. map'[e][r] = map[e][r]
        BY <2>1, <2>2, <3>1, <3>3 DEF Types
      <4>2. Agree(e, r, q)
        BY <2>1, <3>3 DEF Wired, Changing
      <4> QED
        BY <2>2, <4>1, <4>2 DEF Agree
    <3> QED
      BY <3>2, <3>3
  <2> QED
    BY <2>1, <2>2, <2>3 DEF Wired
<1> QED
  BY <1>1, <1>2, <1>3, <1>4, <1>5, <1>6


(***************************************************************************)
(* Cells are kept.                                                         *)
(***************************************************************************)
LEMMA CellsTypes ==
  ASSUME Types
  PROVE  /\ Cardinality(Received(Listener)) \in Nat /\ Len(sched) \in Nat
         /\ free \in Nat /\ Cells \in Nat
         /\ \A x \in Listener : rcv[x] \in Nat
<1>1. sched \in Seq(Event)
  BY DEF Types
<1>2. Len(sched) \in Nat
  <2> HIDE DEF Event
  <2> QED
    BY <1>1
<1> QED
  BY <1>2, CellsFinite, ReceivedIs, DriversAssumption DEF Types

LEMMA OneReceives ==
  ASSUME Types, NEW x \in Listener, NEW n \in Nat, rcv' = [rcv EXCEPT ![x] = n]
  PROVE  /\ Cardinality(Received(Listener)') \in Nat
         /\ Cardinality(Received(Listener)') + rcv[x]
              = Cardinality(Received(Listener)) + n
<1>1. rcv \in [Listener -> Nat]
  BY DEF Types
<1>2. Received(Listener)' = CellsOf([rcv EXCEPT ![x] = n], Listener)
  BY ReceivedIs
<1>3. Received(Listener) = CellsOf(rcv, Listener)
  BY ReceivedIs
<1>4. /\ Cardinality(CellsOf([rcv EXCEPT ![x] = n], Listener)) \in Nat
      /\ Cardinality(CellsOf([rcv EXCEPT ![x] = n], Listener)) + rcv[x]
           = Cardinality(CellsOf(rcv, Listener)) + n
  BY <1>1, OneChanges
<1> QED
  BY <1>2, <1>3, <1>4

\* When there is no memory nobody has anything.
LEMMA NothingAsleep ==
  ASSUME Kept, ~ Memory
  PROVE  free = 0 /\ \A x \in Listener : rcv[x] = 0
BY DEF Kept

LEMMA KeptSame ==
  ASSUME Kept, UNCHANGED <<free, sched, rcv>>, Memory' = Memory,
         open \cup linked \subseteq open' \cup linked'
  PROVE  Kept'
<1>1. Received(Listener)' = Received(Listener)
  BY ReceivedIs
<1> QED
  BY <1>1 DEF Kept, Conserved

LEMMA KeptKernel ==
  ASSUME Types, Counted, Kept,
         \/ BeginWakeup \/ OpenTime \/ OpenDrivers \/ DriverWakeUp \/ OpenSelf
         \/ CloseDrivers \/ DriverSleepAll \/ CloseMemory \/ EndSleep
         \/ \E c \in Client : MSOpen(c) \/ MSClose(c)
  PROVE  Kept'
<1> USE DEF kernelVars, driverVars, slotVars, clockVars, Memory, Clock
<1>1. CASE BeginWakeup
  BY <1>1, KeptSame DEF BeginWakeup
<1>2. CASE OpenTime
  <2>1. rcv' = rcv /\ \A x \in Listener : rcv[x] = 0
    BY <1>2, NothingAsleep DEF OpenTime
  <2>2. Cardinality(Received(Listener)') = 0
    BY <2>1, CellsNone, ReceivedIs
  <2>3. free' = Cells /\ Len(sched') = 0 /\ Cells \in Nat
    BY <1>2, CellsTypes DEF OpenTime
  <2>4. Memory'
    BY <1>2 DEF OpenTime
  <2> QED
    BY <2>1, <2>2, <2>3, <2>4 DEF Kept, Conserved
<1>3. CASE OpenDrivers \/ CloseDrivers
  BY <1>3, KeptSame DEF OpenDrivers, CloseDrivers
<1>9. CASE DriverWakeUp
  BY <1>9, KeptSame DEF DriverWakeUp
<1>4. CASE OpenSelf
  BY <1>4, KeptSame DEF OpenSelf
<1>5. CASE DriverSleepAll
  <2> DEFINE met == {ref} \cap registered
  <2>1. met \in SUBSET Listener
    BY DEF Types, Listener
  <2>2. /\ linked' = linked \ met /\ open' = open /\ sched' = sched /\ Memory /\ Memory'
        /\ free' = free + (IF ref \in registered THEN rcv[ref] ELSE 0)
        /\ rcv' = [x \in Listener |-> IF x \in met THEN 0 ELSE rcv[x]]
    BY <1>5 DEF DriverSleepAll, Flushed
  <2>3. Cardinality(Received(met)) = IF ref \in registered THEN rcv[ref] ELSE 0
    <3>1. CASE ref \in registered
      <4>1. met = {ref} /\ ref \in Listener /\ rcv \in [Listener -> Nat]
        BY <3>1 DEF Types, Listener
      <4> QED
        BY <3>1, <4>1, CellsOfOne, ReceivedIs
    <3>2. CASE ref \notin registered
      <4>1. \A x \in met : rcv[x] = 0
        BY <3>2
      <4> QED
        BY <2>1, <3>2, <4>1, CellsNone, ReceivedIs
    <3> QED
      BY <3>1, <3>2
  <2>4. \A x \in Listener \ (open' \cup linked') : rcv'[x] = 0
    BY <2>2 DEF Kept
  <2> HIDE DEF met
  <2>5. /\ Cardinality(Received(Listener)') \in Nat
        /\ Cardinality(Received(Listener)') + Cardinality(Received(met))
             = Cardinality(Received(Listener))
    BY <2>1, <2>2, Emptied, ReceivedIs DEF Types
  <2>6. Cardinality(Received(met)) \in Nat
    BY <2>1, CellsFinite, ReceivedIs DEF Types
  <2>7. Conserved'
    BY <2>2, <2>3, <2>5, <2>6, CellsTypes DEF Conserved, Kept
  <2> QED
    BY <2>2, <2>4, <2>7 DEF Kept
<1>10. CASE CloseMemory
  <2>1. free' = 0 /\ ~ Memory' /\ \A x \in Listener : rcv'[x] = 0
    BY <1>10 DEF CloseMemory, Empty
  <2> QED
    BY <2>1 DEF Kept, Conserved
<1>6. CASE EndSleep
  BY <1>6, KeptSame DEF EndSleep
<1>7. ASSUME NEW c \in Client, MSOpen(c) PROVE Kept'
  <2>1. c \in Listener \ (open \cup linked)
    BY <1>7, Bounds DEF MSOpen, Listener, Types
  <2>2. rcv' = rcv
    BY <1>7, <2>1 DEF MSOpen, Kept, Types
  <2> QED
    BY <1>7, <2>2, KeptSame DEF MSOpen
<1>8. ASSUME NEW c \in Client, MSClose(c) PROVE Kept'
  <2>1. c \in Listener /\ rcv[c] \in Nat
    BY CellsTypes DEF Listener
  <2>2. /\ rcv' = [rcv EXCEPT ![c] = 0] /\ free' = free + rcv[c] /\ sched' = sched
        /\ open' = open \ {c} /\ linked' = linked /\ Memory /\ Memory'
    BY <1>8 DEF MSClose, Flushed
  <2>3. /\ Cardinality(Received(Listener)') \in Nat
        /\ Cardinality(Received(Listener)') + rcv[c] = Cardinality(Received(Listener)) + 0
    BY <2>1, <2>2, OneReceives
  <2>4. Conserved'
    <3>1. free + Len(sched) + Cardinality(Received(Listener)) = Cells
      BY <2>2 DEF Kept, Conserved
    <3> QED
      BY <2>1, <2>2, <2>3, <3>1, CellsTypes DEF Conserved
  <2>5. \A x \in Listener \ (open' \cup linked') : rcv'[x] = 0
    BY <2>1, <2>2 DEF Kept, Types
  <2> QED
    BY <2>2, <2>4, <2>5 DEF Kept
<1> QED
  BY <1>1, <1>2, <1>3, <1>4, <1>5, <1>6, <1>7, <1>8, <1>9, <1>10

LEMMA KeptDrivers ==
  ASSUME Types, Counted, Kept,
         \/ \E d \in Driver : MSRegisterDriver(d) \/ MSUnregisterDriver(d)
         \/ CloseClient \/ DriverSleep
  PROVE  Kept'
<1> USE DEF kernelVars, driverVars, slotVars, clockVars, Memory, Clock
<1>1. ASSUME NEW d \in Driver, MSRegisterDriver(d) PROVE Kept'
  BY <1>1, KeptSame DEF MSRegisterDriver
<1>2. ASSUME NEW d \in Driver, MSUnregisterDriver(d) PROVE Kept'
  BY <1>2, KeptSame DEF MSUnregisterDriver
<1>3. CASE CloseClient
  <2>1. call.d \in Listener /\ rcv[call.d] \in Nat
    BY <1>3, CallShape, CellsTypes DEF CloseClient, Types, Listener
  <2>2. /\ rcv' = [rcv EXCEPT ![call.d] = 0] /\ sched' = sched
        /\ free' = IF Memory THEN free + rcv[call.d] ELSE free
        /\ open' = open /\ linked' = linked \ {call.d} /\ Memory' = Memory
    BY <1>3 DEF CloseClient, Flushed
  <2>3. /\ Cardinality(Received(Listener)') \in Nat
        /\ Cardinality(Received(Listener)') + rcv[call.d] = Cardinality(Received(Listener)) + 0
    BY <2>1, <2>2, OneReceives
  <2>4. Conserved'
    BY <2>1, <2>2, <2>3, CellsTypes DEF Conserved, Kept
  <2>5. \A x \in Listener \ (open' \cup linked') : rcv'[x] = 0
    BY <2>1, <2>2 DEF Kept, Types
  <2> QED
    BY <2>2, <2>4, <2>5 DEF Kept
<1>4. CASE DriverSleep
  BY <1>4, KeptSame DEF DriverSleep
<1> QED
  BY <1>1, <1>2, <1>3, <1>4

LEMMA KeptSlots ==
  ASSUME Kept,
         \/ \E d \in Driver, s \in Slot :
               \/ MSAddSlot(d, s) \/ MSRemoveSlot(d, s)
               \/ \E p \in Port, state \in BOOLEAN : MSConnectSlot(p, d, s, state)
         \/ ForgetMap \/ ClearBits \/ ConnectMap
  PROVE  Kept'
<1>1. UNCHANGED <<phase, open, linked, free, sched, rcv>>
  BY DEF MSAddSlot, MSRemoveSlot, MSConnectSlot, ForgetMap, ClearBits, ConnectMap,
         kernelVars, driverVars, clockVars
<1> QED
  BY <1>1, KeptSame DEF Memory, Clock

LEMMA KeptClock ==
  ASSUME Types, Counted, Kept,
         \/ \E x \in Listener, at \in Port \cup Slot : MSSend(x, at)
         \/ \E x \in Listener : MSGetEv(x)
         \/ Dispatch \/ RcvAlarmLoop
  PROVE  Kept'
<1> USE DEF kernelVars, driverVars, slotVars
<1>0. UNCHANGED <<phase, open, linked>> /\ Memory' = Memory
  BY DEF MSSend, MSGetEv, Dispatch, RcvAlarmLoop, Memory, Clock
<1>1. ASSUME NEW x \in Listener, NEW at \in Port \cup Slot, MSSend(x, at) PROVE Kept'
  <2>1. Memory /\ free' = free - 1 /\ rcv' = rcv
        /\ sched' = Append(sched, [by |-> x, at |-> at])
    BY <1>1 DEF MSSend, Memory
  <2>2. Len(sched') = Len(sched) + 1
    <3>1. sched \in Seq(Event)
      BY DEF Types
    <3> HIDE DEF Event
    <3> QED
      BY <2>1, <3>1
  <2>3. Cardinality(Received(Listener)') = Cardinality(Received(Listener))
    BY <2>1, ReceivedIs
  <2>4. Conserved'
    BY <1>0, <2>1, <2>2, <2>3, CellsTypes DEF Kept, Conserved
  <2> QED
    BY <1>0, <2>1, <2>4 DEF Kept
<1>2. ASSUME NEW x \in Listener, MSGetEv(x) PROVE Kept'
  <2>1. /\ Memory /\ free' = free + 1 /\ rcv' = [rcv EXCEPT ![x] = rcv[x] - 1]
        /\ sched' = sched /\ rcv[x] > 0 /\ rcv[x] \in Nat
    BY <1>2, CellsTypes DEF MSGetEv, Memory
  <2>2. rcv[x] - 1 \in Nat
    BY <2>1
  <2>3. /\ Cardinality(Received(Listener)') \in Nat
        /\ Cardinality(Received(Listener)') + rcv[x]
             = Cardinality(Received(Listener)) + (rcv[x] - 1)
    BY <2>1, <2>2, OneReceives
  <2>4. Conserved'
    <3>1. free + Len(sched) + Cardinality(Received(Listener)) = Cells
      BY <2>1 DEF Kept, Conserved
    <3>2. Cardinality(Received(Listener)') = Cardinality(Received(Listener)) - 1
      BY <2>1, <2>3, CellsTypes
    <3>3. Len(sched') = Len(sched) /\ free' = free + 1
      BY <2>1
    <3> QED
      BY <3>1, <3>2, <3>3, CellsTypes DEF Conserved
  <2>5. \A y \in Listener \ (open \cup linked) : rcv'[y] = 0
    BY <2>1 DEF Kept, Types
  <2> QED
    BY <1>0, <2>1, <2>4, <2>5 DEF Kept
<1>3. CASE Dispatch
  <2>1. PICK ports, got : Passed(Head(sched), ports, got)
    BY <1>3, DispatchPasses
  <2>2. /\ IsFiniteSet(got) /\ \A t \in got : t[1] \in open \cup linked
        /\ Cardinality(got) \in Nat
        /\ rcv' = [x \in Listener |-> rcv[x] + Cardinality({t \in got : t[1] = x})]
        /\ free' = free + 1 - Cardinality(got)
    BY <2>1 DEF Passed, Copies
  <2>3. \A t \in got : t[1] \in Listener
    BY <2>2 DEF Types, Listener
  <2>4. Cardinality(Received(Listener))'
          = Cardinality(Received(Listener)) + Cardinality(got)
    BY <2>2, <2>3, ReceivedMore DEF Types
  <2>5. Memory /\ Len(sched') = Len(sched) - 1
    BY <1>3, HeadIsEvent DEF Dispatch, Memory
  <2>6. Conserved'
    BY <2>2, <2>4, <2>5, CellsTypes DEF Kept, Conserved
  <2>7. \A x \in Listener \ (open \cup linked) : rcv'[x] = 0
    <3> SUFFICES ASSUME NEW x \in Listener \ (open \cup linked) PROVE rcv'[x] = 0
      OBVIOUS
    <3>1. Copies(got, x) = 0
      BY <2>2, CopiesCounted
    <3>2. rcv[x] = 0
      BY DEF Kept
    <3> QED
      BY <2>1, <3>1, <3>2 DEF Passed
  <2> QED
    BY <1>0, <2>5, <2>6, <2>7 DEF Kept
<1>4. CASE RcvAlarmLoop
  <2> DEFINE called == {x \in Alarmed : active[x] > 0}
  <2>1. called \in SUBSET Listener
    BY DriversAssumption DEF Listener, Driver
  <2>2. /\ free' = free + Cardinality(Received(called)) /\ sched' = sched
        /\ rcv' = [x \in Listener |-> IF x \in called THEN 0 ELSE rcv[x]]
    BY <1>4 DEF RcvAlarmLoop
  <2> HIDE DEF called
  <2>3. /\ Cardinality(Received(Listener)') \in Nat
        /\ Cardinality(Received(Listener)') + Cardinality(Received(called))
             = Cardinality(Received(Listener))
    BY <2>1, <2>2, Emptied, ReceivedIs DEF Types
  <2>4. Cardinality(Received(called)) \in Nat
    BY <2>1, CellsFinite, ReceivedIs DEF Types
  <2>5. Conserved'
    BY <1>0, <2>2, <2>3, <2>4, CellsTypes DEF Kept, Conserved
  <2>6. ~ Memory' => free' = 0 /\ \A x \in Listener : rcv'[x] = 0
    <3> SUFFICES ASSUME ~ Memory PROVE free' = 0 /\ \A x \in Listener : rcv'[x] = 0
      BY <1>0
    <3>1. free = 0 /\ (\A x \in called : rcv[x] = 0) /\ \A x \in Listener : rcv[x] = 0
      BY <2>1, NothingAsleep
    <3>2. Cardinality(Received(called)) = 0
      BY <2>1, <3>1, CellsNone, ReceivedIs
    <3> QED
      BY <2>2, <3>1, <3>2
  <2>7. \A x \in Listener \ (open' \cup linked') : rcv'[x] = 0
    BY <1>0, <2>2 DEF Kept
  <2> QED
    BY <2>5, <2>6, <2>7 DEF Kept
<1> QED
  BY <1>1, <1>2, <1>3, <1>4


(***************************************************************************)
(* Listeners with something for their alarm stay marked.                   *)
(***************************************************************************)
LEMMA MarkedSame ==
  ASSUME Marked, UNCHANGED <<rcv, rcvFlag, active, tick>>
  PROVE  Marked'
BY DEF Marked

\* Nothing new is received and no flag is touched.
LEMMA MarkedLess ==
  ASSUME Marked, UNCHANGED <<rcvFlag, active, tick>>,
         \A x \in Listener \cap Alarmed : rcv'[x] = rcv[x] \/ rcv'[x] = 0
  PROVE  Marked'
BY DEF Marked

LEMMA MarkedKernel ==
  ASSUME Types, Marked,
         \/ BeginWakeup \/ OpenTime \/ OpenDrivers \/ DriverWakeUp \/ OpenSelf
         \/ CloseDrivers \/ DriverSleepAll \/ CloseMemory \/ EndSleep
         \/ \E c \in Client : MSOpen(c) \/ MSClose(c)
  PROVE  Marked'
<1>1. CASE \/ BeginWakeup \/ OpenTime \/ OpenDrivers \/ DriverWakeUp \/ OpenSelf
           \/ CloseDrivers \/ EndSleep
  BY <1>1, MarkedSame DEF BeginWakeup, OpenTime, OpenDrivers, DriverWakeUp, OpenSelf,
                          CloseDrivers, EndSleep, clockVars
<1>2. CASE DriverSleepAll \/ CloseMemory
  BY <1>2, MarkedLess DEF DriverSleepAll, CloseMemory, Empty
<1>3. ASSUME NEW c \in Client, MSOpen(c) PROVE Marked'
  <2>1. /\ rcv' = [rcv EXCEPT ![c] = 0] /\ rcvFlag' = [rcvFlag EXCEPT ![c] = kNoRcvFlag]
        /\ UNCHANGED <<active, tick>>
    BY <1>3 DEF MSOpen
  <2>2. /\ \A x \in Listener : /\ rcv'[x] = IF x = c THEN 0 ELSE rcv[x]
                               /\ rcvFlag'[x] = IF x = c THEN kNoRcvFlag ELSE rcvFlag[x]
    BY <2>1 DEF Types
  <2> QED
    BY <2>1, <2>2 DEF Marked
<1>4. ASSUME NEW c \in Client, MSClose(c) PROVE Marked'
  BY <1>4, MarkedLess DEF MSClose, Types
<1> QED
  BY <1>1, <1>2, <1>3, <1>4

LEMMA MarkedDrivers ==
  ASSUME Types, Marked,
         \/ \E d \in Driver : MSRegisterDriver(d) \/ MSUnregisterDriver(d)
         \/ CloseClient \/ DriverSleep
  PROVE  Marked'
<1>1. ASSUME NEW d \in Driver, MSRegisterDriver(d) PROVE Marked'
  <2>1. /\ rcvFlag' = [rcvFlag EXCEPT ![d] = kNoRcvFlag] /\ UNCHANGED <<rcv, active, tick>>
    BY <1>1 DEF MSRegisterDriver
  <2>2. \A x \in Listener : rcvFlag'[x] = IF x = d THEN kNoRcvFlag ELSE rcvFlag[x]
    BY <2>1 DEF Types
  <2> QED
    BY <2>1, <2>2 DEF Marked
<1>2. ASSUME NEW d \in Driver, MSUnregisterDriver(d) PROVE Marked'
  BY <1>2, MarkedSame DEF MSUnregisterDriver, clockVars
<1>3. CASE CloseClient
  BY <1>3, MarkedLess DEF CloseClient, Types
<1>4. CASE DriverSleep
  BY <1>4, MarkedSame DEF DriverSleep, clockVars
<1> QED
  BY <1>1, <1>2, <1>3, <1>4

LEMMA MarkedSlots ==
  ASSUME Marked,
         \/ \E d \in Driver, s \in Slot :
               \/ MSAddSlot(d, s) \/ MSRemoveSlot(d, s)
               \/ \E p \in Port, state \in BOOLEAN : MSConnectSlot(p, d, s, state)
         \/ ForgetMap \/ ClearBits \/ ConnectMap
  PROVE  Marked'
BY MarkedSame DEF MSAddSlot, MSRemoveSlot, MSConnectSlot, ForgetMap, ClearBits,
   ConnectMap, clockVars

LEMMA MarkedClock ==
  ASSUME Types, Marked,
         \/ \E x \in Listener, at \in Port \cup Slot : MSSend(x, at)
         \/ \E x \in Listener : MSGetEv(x)
         \/ Dispatch \/ RcvAlarmLoop
  PROVE  Marked'
<1>1. ASSUME NEW x \in Listener, NEW at \in Port \cup Slot, MSSend(x, at) PROVE Marked'
  BY <1>1, MarkedSame DEF MSSend
<1>2. ASSUME NEW x \in Listener, MSGetEv(x) PROVE Marked'
  BY <1>2, MarkedLess DEF MSGetEv, Types
<1>3. CASE Dispatch
  <2>1. PICK ports, got : Passed(Head(sched), ports, got)
    BY <1>3, DispatchPasses
  <2>2. tick'
    BY <1>3 DEF Dispatch
  <2>3. ASSUME NEW x \in Listener, active'[x] = 0
        PROVE  rcvFlag'[x] = kNoRcvFlag /\ (x \in Alarmed => rcv'[x] = 0)
    <3> DEFINE n == Copies(got, x)
    <3>1. n \in Nat
      BY <2>1, CopiesCounted DEF Passed
    <3>2. /\ rcv'[x] = rcv[x] + n /\ rcvFlag'[x] = (rcvFlag[x] + n) % RcvMod
          /\ active'[x] = active[x] + (rcvFlag[x] + n) \div RcvMod
      BY <2>1 DEF Passed, Raised
    <3> HIDE DEF n
    <3>3. rcvFlag[x] \in 0..RcvMod-1 /\ active[x] \in Nat /\ rcv[x] \in Nat
      BY DEF Types
    <3>4. (rcvFlag[x] + n) \div RcvMod \in Nat
      BY <3>1, <3>3, FlagTurns
    <3>5. active[x] = 0 /\ (rcvFlag[x] + n) \div RcvMod = 0
      BY <2>3, <3>2, <3>3, <3>4
    <3>6. rcvFlag[x] = kNoRcvFlag /\ (x \in Alarmed => rcv[x] = 0)
      BY <3>5 DEF Marked
    <3>7. n = 0
      <4>1. ~ (n > 0)
        BY <3>1, <3>3, <3>5, <3>6, FlagTurns
      <4> QED
        BY <3>1, <4>1
    <3>8. (rcvFlag[x] + n) % RcvMod = rcvFlag[x]
      BY <3>1, <3>3, <3>7, FlagTurns
    <3> QED
      BY <3>2, <3>3, <3>6, <3>7, <3>8
  <2> QED
    BY <2>2, <2>3 DEF Marked
<1>4. CASE RcvAlarmLoop
  <2>1. /\ rcv' = [x \in Listener |-> IF x \in Alarmed /\ active[x] > 0 THEN 0 ELSE rcv[x]]
        /\ rcvFlag' = [x \in Listener |-> Unmarked(x)] /\ active' = Empty
    BY <1>4 DEF RcvAlarmLoop
  <2>2. ASSUME NEW x \in Listener
        PROVE  /\ active'[x] = 0 /\ rcvFlag'[x] = kNoRcvFlag
               /\ x \in Alarmed => rcv'[x] = 0
    <3>1. active[x] \in Nat
      BY DEF Types
    <3> QED
      BY <2>1, <3>1 DEF Marked, Unmarked, Empty
  <2> QED
    BY <2>2 DEF Marked
<1> QED
  BY <1>1, <1>2, <1>3, <1>4


(***************************************************************************)
(* The theorems.                                                           *)
(***************************************************************************)
LEMMA NextIInv == IInv /\ [Next]_vars => IInv'
<1> SUFFICES ASSUME IInv, [Next]_vars PROVE IInv'
  OBVIOUS
<1>1. CASE UNCHANGED vars
  <2>1. /\ UNCHANGED <<phase, ref, todo, open, nbAppls, registered, nbDrivers, awake, linked, late>>
        /\ UNCHANGED <<map, port, call, sched, free, rcv, rcvFlag, active, tick>>
    BY <1>1 DEF vars, kernelVars, driverVars, slotVars, clockVars
  <2>2. Types'
    BY <2>1 DEF IInv, Types
  <2>3. Counted'
    BY <2>1 DEF IInv, Counted, Self
  <2>7. Looped'
    BY <2>1, LoopedSame DEF IInv
  <2>4. Wired'
    BY <2>1, WiredSame DEF IInv
  <2>5. Kept'
    BY <2>1, KeptSame DEF IInv, Memory, Clock
  <2>6. Marked'
    BY <2>1, MarkedSame DEF IInv
  <2> QED
    BY <2>2, <2>3, <2>4, <2>5, <2>6, <2>7 DEF IInv
<1>2. CASE \/ BeginWakeup \/ OpenTime \/ OpenDrivers \/ DriverWakeUp \/ OpenSelf
           \/ CloseDrivers \/ DriverSleepAll \/ CloseMemory \/ EndSleep
           \/ \E c \in Client : MSOpen(c) \/ MSClose(c)
  BY <1>2, KernelTypes, CountedKernel, LoopedKernel, WiredKernel, KeptKernel, MarkedKernel DEF IInv
<1>3. CASE \/ \E d \in Driver : MSRegisterDriver(d) \/ MSUnregisterDriver(d)
           \/ CloseClient \/ DriverSleep
  BY <1>3, DriverTypes, CountedDrivers, LoopedDrivers, WiredDrivers, KeptDrivers, MarkedDrivers DEF IInv
<1>4. CASE \/ \E d \in Driver, s \in Slot :
                 \/ MSAddSlot(d, s) \/ MSRemoveSlot(d, s)
                 \/ \E p \in Port, state \in BOOLEAN : MSConnectSlot(p, d, s, state)
           \/ ForgetMap \/ ClearBits \/ ConnectMap
  BY <1>4, SlotTypes, CountedSlots, LoopedOthers, WiredSlots, KeptSlots, MarkedSlots DEF IInv
<1>5. CASE \/ \E x \in Listener, at \in Port \cup Slot : MSSend(x, at)
           \/ \E x \in Listener : MSGetEv(x)
           \/ Dispatch \/ RcvAlarmLoop
  BY <1>5, ClockTypes, CountedClock, LoopedOthers, WiredKernel, KeptClock, MarkedClock DEF IInv
<1> QED
  BY <1>1, <1>2, <1>3, <1>4, <1>5 DEF Next

\* In every state the parts of the invariant hold: the counts of clients and
\* drivers, the two tables of the slots with what a call has still to write, the
\* cells, and the marks of the listeners (msAppls.c, msDriver.c, msHandler.c).
THEOREM Invariance == Spec => []IInv
<1>1. Init => IInv
  BY InitIInv
<1>2. IInv /\ [Next]_vars => IInv'
  BY NextIInv
<1> QED
  BY <1>1, <1>2, PTL DEF Spec

\* Drivers that are registered and awake are connected, and those alone; and whatever
\* registers or is unregistered between, before and during the loops that wake drivers
\* up and put them to sleep (msDriver.c:297-325), these leave out no more drivers than
\* have registered meanwhile.
THEOREM DriversAwakeTogether == Spec => []AwakeTogether
<1>1. IInv => AwakeTogether
  BY DEF AwakeTogether, IInv, Counted, Looped
<1> QED
  BY <1>1, Invariance, PTL

\* No cell is lost or counted twice: every cell is free, in an event to come or
\* in the fifo of a listener, however dispatches, closings and sleeps interleave.
THEOREM CellsConserved == Spec => []Conserved
<1>1. IInv => Conserved
  BY DEF IInv, Kept
<1> QED
  BY <1>1, Invariance, PTL

\* A listener with an alarm is never left with events after a tick, whatever
\* number of events it got in one tick and however often its flag went round.
THEOREM NobodyIsForgotten == Spec => []NobodyForgotten
<1>1. IInv => NobodyForgotten
  <2> SUFFICES ASSUME IInv, ~ tick, NEW x \in Alarmed PROVE rcv[x] = 0
    BY DEF NobodyForgotten
  <2>1. x \in Listener
    BY DriversAssumption DEF Listener, Driver
  <2> QED
    BY <2>1 DEF IInv, Marked
<1> QED
  BY <1>1, Invariance, PTL

\* Every variable keeps its type; that the counts of cells stay within the memory
\* follows from their conservation.
THEOREM TypeCorrect == Spec => []TypeOK
<1>1. IInv => TypeOK
  <2> SUFFICES ASSUME IInv PROVE TypeOK
    OBVIOUS
  <2>1. Types /\ Counted /\ Kept
    BY DEF IInv
  <2>2. \A x \in Listener : rcv[x] \in 0..Cells
    <3> SUFFICES ASSUME NEW x \in Listener PROVE rcv[x] \in 0..Cells
      OBVIOUS
    <3>1. CASE Memory
      <4>1. /\ rcv \in [Listener -> Nat] /\ {x} \in SUBSET Listener
            /\ Listener \ {x} \in SUBSET Listener
        BY <2>1 DEF Types
      <4>2. /\ Cardinality(CellsOf(rcv, Listener))
                 = Cardinality(CellsOf(rcv, {x})) + Cardinality(CellsOf(rcv, Listener \ {x}))
            /\ Cardinality(CellsOf(rcv, {x})) = rcv[x]
            /\ Cardinality(CellsOf(rcv, Listener \ {x})) \in Nat
        BY <4>1, CellsSplit, CellsOfOne, CellsFinite
      <4>3. Cardinality(Received(Listener))
              = rcv[x] + Cardinality(CellsOf(rcv, Listener \ {x}))
        BY <4>2, ReceivedIs
      <4>4. free + Len(sched) + Cardinality(Received(Listener)) = Cells
        BY <2>1, <3>1 DEF Kept, Conserved
      <4>5. rcv[x] \in Nat /\ free \in Nat /\ Len(sched) \in Nat /\ Cells \in Nat
        BY <2>1, CellsTypes
      <4> QED
        BY <4>2, <4>3, <4>4, <4>5
    <3>2. CASE ~ Memory
      BY <2>1, <3>2, NothingAsleep, DriversAssumption
    <3> QED
      BY <3>1, <3>2
  <2>3. free \in 0..Cells
    <3>1. CASE Memory
      BY <2>1, <3>1, CellsTypes DEF Kept, Conserved
    <3>2. CASE ~ Memory
      BY <2>1, <3>2, CellsTypes DEF Kept
    <3> QED
      BY <3>1, <3>2
  <2>4. rcv \in [Listener -> 0..Cells]
    BY <2>1, <2>2 DEF Types
  <2> QED
    BY <2>1, <2>3, <2>4 DEF Types, TypeOK
<1> QED
  BY <1>1, Invariance, PTL

(***************************************************************************)
(* An event goes where MidiIsSlotConnected says.                           *)
(***************************************************************************)
LEMMA DispatchFollows ==
  ASSUME IInv, Dispatch
  PROVE  Follows
<1> DEFINE e == Head(sched)
<1>1. PICK ports, got : Passed(e, ports, got)
  BY DispatchPasses DEF IInv
<1>2. e \in Event
  BY DispatchPasses DEF IInv
<1> HIDE DEF e
<1>3. /\ route'.ev = e /\ route'.to = got /\ got \subseteq Targets(e, ports)
      /\ route'.full => got = Targets(e, ports)
      /\ IF e.by \in linked THEN ports \in Ports(e.by, e.at) ELSE ports = {}
      /\ ports \in SUBSET Port
  <2>1. /\ got \subseteq Targets(e, ports) /\ ports \in SUBSET Port
        /\ IF e.by \in linked THEN ports \in Ports(e.by, e.at) ELSE ports = {}
        /\ route'.full => got = Targets(e, ports)
    BY <1>1 DEF Passed
  <2>2. route' = [ev |-> e, to |-> got,
                  full |-> Cardinality(Targets(e, ports)) <= FreeFor(e)]
    BY <1>1 DEF Passed
  <2>3. route'.ev = e /\ route'.to = got
    BY <2>2
  <2> QED
    BY <2>1, <2>3
<1>4. /\ open \subseteq Client /\ linked \subseteq registered /\ registered \subseteq Driver
      /\ port \in [Driver -> [Port -> SUBSET Slot]]
  BY DEF IInv, Types
<1>5. ASSUME NEW d \in registered, NEW s \in Slot, NEW p \in Port, ~ Changing(d, s)
      PROVE  Agree(d, s, p)
  BY <1>5 DEF IInv, Wired
<1>6. CASE e.by \in open
  <2> DEFINE due == {t \in linked \X Slot : MSIsSlotConnected(e.at, t[1], t[2])}
  <2>1. e.at \in Port
    BY <1>2, <1>4, <1>6, Bounds DEF Event
  <2>2. Targets(e, ports) = UNION {{<<d, s>> : s \in port[d][e.at]} : d \in linked}
    BY <1>6 DEF Targets
  <2>3. ASSUME NEW t \in Targets(e, ports), ~ Changing(t[1], t[2]) PROVE t \in due
    <3>1. PICK d \in linked : t \in {<<d, s>> : s \in port[d][e.at]}
      BY <2>2
    <3>2. PICK s \in port[d][e.at] : t = <<d, s>>
      BY <3>1
    <3>3. d \in registered /\ d \in Driver /\ s \in Slot
      BY <1>4, <2>1
    <3>4. Agree(d, s, e.at)
      BY <1>5, <2>1, <2>3, <3>2, <3>3
    <3> QED
      BY <3>2, <3>3, <3>4 DEF Agree, MSIsSlotConnected
  <2>4. ASSUME NEW t \in due PROVE t \in Targets(e, ports)
    <3>1. t[1] \in linked /\ t[2] \in port[t[1]][e.at] /\ t = <<t[1], t[2]>>
      BY DEF MSIsSlotConnected
    <3> QED
      BY <2>2, <3>1
  <2> HIDE DEF due
  <2>5. /\ {t \in route'.to : ~ Changing(t[1], t[2])} \subseteq due
        /\ route'.full => {t \in due : ~ Changing(t[1], t[2])} \subseteq route'.to
    BY <1>3, <2>3, <2>4
  <2> QED
    BY <1>3, <1>6, <2>5 DEF Follows, due
<1>7. CASE e.by \notin open
  <2> DEFINE due == {t \in open \X Port : /\ e.by \in linked
                                          /\ MSIsSlotConnected(t[2], e.by, e.at)}
  <2>1. ASSUME ~ Changing(e.by, e.at), NEW t PROVE t \in Targets(e, ports) <=> t \in due
    <3>1. CASE e.by \in linked
      <4>1. e.by \in registered /\ e.at \in Slot
        BY <1>2, <1>4, <3>1, Bounds DEF Event
      <4>2. Targets(e, ports) = open \X ports
        BY <1>7, <3>1 DEF Targets
      <4>3. ~ Freed(e.by, e.at)
        BY <2>1 DEF Freed, Changing, None
      <4>4. ports = IF map[e.by][e.at] = NoMap THEN {} ELSE map[e.by][e.at]
        BY <1>3, <3>1, <4>3 DEF Ports
      <4>5. \A p \in Port : p \in ports <=> MSIsSlotConnected(p, e.by, e.at)
        BY <1>5, <2>1, <4>1, <4>4 DEF Agree, MSIsSlotConnected
      <4> QED
        BY <1>3, <3>1, <4>2, <4>5
    <3>2. CASE e.by \notin linked
      <4>1. Targets(e, ports) = {}
        BY <1>7, <3>2 DEF Targets
      <4>2. due = {}
        BY <3>2
      <4> QED
        BY <4>1, <4>2
    <3> QED
      BY <3>1, <3>2
  <2> HIDE DEF due
  <2>2. /\ {t \in route'.to : ~ Changing(e.by, e.at)} \subseteq due
        /\ route'.full => {t \in due : ~ Changing(e.by, e.at)} \subseteq route'.to
    BY <1>3, <2>1
  <2> QED
    BY <1>3, <1>7, <2>2 DEF Follows, due
<1> QED
  BY <1>6, <1>7

\* The handler cuts the calls that change the two tables of the slots between
\* their two writes; an event still goes where MidiIsSlotConnected says, but for
\* the slots that a call is changing (msDriver.c:193, 261, msHandler.c:170).
THEOREM EventsFollowConnections == Spec => FollowsConnections
<1>1. IInv /\ [Next]_vars => [Follows]_route
  <2> SUFFICES ASSUME IInv, Next PROVE Follows \/ route' = route
    BY DEF vars, clockVars
  <2>1. CASE Dispatch
    BY <2>1, DispatchFollows
  <2>2. CASE RcvAlarmLoop
    BY <2>2 DEF RcvAlarmLoop, Follows
  <2>3. CASE ~ Dispatch /\ ~ RcvAlarmLoop
    <3>1. CASE \/ BeginWakeup \/ OpenTime \/ OpenDrivers \/ DriverWakeUp \/ OpenSelf
               \/ CloseDrivers \/ DriverSleepAll \/ CloseMemory \/ EndSleep
      BY <3>1 DEF BeginWakeup, OpenTime, OpenDrivers, DriverWakeUp, OpenSelf,
                  CloseDrivers, DriverSleepAll, CloseMemory, EndSleep, clockVars
    <3>2. CASE \E c \in Client : MSOpen(c) \/ MSClose(c)
      BY <3>2 DEF MSOpen, MSClose, clockVars
    <3>3. CASE \/ CloseClient \/ DriverSleep
               \/ \E d \in Driver : MSRegisterDriver(d) \/ MSUnregisterDriver(d)
      BY <3>3 DEF MSRegisterDriver, MSUnregisterDriver, CloseClient, DriverSleep, clockVars
    <3>4. CASE \E d \in Driver, s \in Slot :
                  \/ MSAddSlot(d, s) \/ MSRemoveSlot(d, s)
                  \/ \E p \in Port, state \in BOOLEAN : MSConnectSlot(p, d, s, state)
      BY <3>4 DEF MSAddSlot, MSRemoveSlot, MSConnectSlot, clockVars
    <3>5. CASE ForgetMap \/ ClearBits \/ ConnectMap
      BY <3>5 DEF ForgetMap, ClearBits, ConnectMap, clockVars
    <3>6. CASE \/ \E x \in Listener, at \in Port \cup Slot : MSSend(x, at)
               \/ \E x \in Listener : MSGetEv(x)
      BY <3>6 DEF MSSend, MSGetEv
    <3> QED
      BY <2>3, <3>1, <3>2, <3>3, <3>4, <3>5, <3>6 DEF Next
  <2> QED
    BY <2>1, <2>2, <2>3
<1> QED
  BY <1>1, Invariance, PTL DEF Spec, FollowsConnections

=============================================================================
