------------------------------ MODULE Drivers ------------------------------
(***************************************************************************)
(* Waking up and falling asleep (msInit.c, MSOpen and MSClose of           *)
(* msAppls.c), drivers with their slots (msDriver.c), and the routing of   *)
(* the clock handler between the ports of MidiShare and the slots of the   *)
(* drivers, with its table of active clients (msHandler.c).                *)
(*                                                                         *)
(* The clock handler is an interrupt: it cuts a call between two writes to *)
(* shared data, and is over before the call goes on.  The calls themselves *)
(* come one at a time, but for the two that wake MidiShare up and put it   *)
(* to sleep: drivers come, go and plug their slots at any time, between    *)
(* the steps of these two as well.  A client connects to MidiShare both    *)
(* ways as soon as it is open, a driver when it is woken up; the lists     *)
(* that hold these connections are the subject of Connections.             *)
(***************************************************************************)
EXTENDS Integers, Sequences, FiniteSets, FiniteSetsExt

CONSTANTS
    Client,       \* the clients that open and close
    NDrivers,     \* how many drivers there is room for
    MaxSlots,     \* slots of a driver, 64 in the code
    MaxPorts,     \* ports of MidiShare, 256 in the code
    RcvMod,       \* values of rcvFlag, an unsigned byte: 256 in the code
    Cells,        \* cells of the memory of the kernel
    MaxSched,     \* bound: events sent and not yet dispatched
    Alarmed,      \* the listeners with a receive alarm, which takes all events
    NoMap         \* the null pointer of a slot that does not exist

ASSUME DriversAssumption ==
    /\ NDrivers \in Nat \ {0} /\ MaxSlots \in Nat \ {0} /\ MaxPorts \in Nat \ {0}
    /\ RcvMod \in Nat \ {0, 1} /\ Cells \in Nat /\ MaxSched \in Nat
    /\ IsFiniteSet(Client) /\ Client \cap (1..NDrivers) = {}
    /\ Alarmed \subseteq Client \cup (1..NDrivers)
    /\ \A m \in SUBSET (0..MaxPorts-1) : m # NoMap

Driver == 1..NDrivers             \* reference numbers, below MidiShareDriverRef
Slot   == 0..MaxSlots-1
Port   == 0..MaxPorts-1
Listener == Client \cup Driver    \* those with a receive fifo
kNoRcvFlag == RcvMod - 1          \* (uchar)(-1)

VARIABLES
    phase,        \* how far waking up or falling asleep has gone
    ref, todo,    \* in a loop over the drivers: the next one, and how many are left
    open,         \* the clients of the table appls
    registered,   \* the drivers of the table appls
    nbAppls,      \* the count of clients, MidiShare included
    nbDrivers,    \* the count of drivers, MidiShareDriver included
    awake,        \* drivers whose last callback is wakeup
    linked,       \* drivers connected to MidiShareDriver, both ways
    late,         \* history: drivers that came in a loop, or before OpenSelf after it
    map,          \* map[d][s]: the ports slot s is connected to, or NoMap
    port,         \* port[d][p]: the slots port p is connected to
    call,         \* the driver or slot call that the handler has cut
    sched,        \* events that wait for the clock handler
    free,         \* count of free cells
    rcv,          \* rcv[x]: count of cells of the memory in the receive fifo of x
    rcvFlag,      \* the flag of a listener
    active,       \* active[x]: entries of x in the table activesAppls
    tick,         \* the clock handler is at work
    route         \* what the handler has last delivered, for the properties

kernelVars == <<phase, ref, todo, open, nbAppls>>
driverVars == <<registered, nbDrivers, awake, linked, late>>
slotVars   == <<map, port>>
clockVars  == <<sched, free, rcv, rcvFlag, active, tick, route>>
vars == <<kernelVars, driverVars, slotVars, call, clockVars>>

None == [op |-> "none"]
Phases == {"asleep", "special", "clock", "opening", "awake", "closing", "sleeping",
           "stopped"}
Clock == phase \in {"clock", "opening", "awake", "closing"}   \* timer runs
Memory == Clock \/ phase = "sleeping"
Self == phase = "awake"           \* appls[MidiShareRef] is not null
NoRoute == [ev |-> None, to |-> {}, full |-> FALSE]

\* MSIsSlotConnected: both bits must be set.
MSIsSlotConnected(p, d, s) ==
    /\ d \in registered
    /\ map[d][s] # NoMap
    /\ s \in port[d][p]
    /\ p \in map[d][s]

---------------------------------------------------------------------------
(* Waking up and falling asleep                                            *)

Idle == call = None /\ ~tick
Empty == [x \in Listener |-> 0]

\* The first lines of the first MSOpen: MidiShareDriver gets its entry and
\* SpecialWakeUp loads drivers, which register themselves.
BeginWakeup ==
    /\ Idle /\ phase = "asleep"
    /\ phase' = "special"
    /\ nbDrivers' = nbDrivers + 1
    /\ UNCHANGED <<ref, todo, open, nbAppls, registered, awake, linked, late, slotVars,
                   call, clockVars>>

\* fifoinit, OpenMemory, OpenTime, OpenTimeInterrupts.
OpenTime ==
    /\ Idle /\ phase = "special"
    /\ phase' = "clock"
    /\ free' = Cells
    /\ sched' = <<>>
    /\ UNCHANGED <<ref, todo, open, nbAppls, driverVars, slotVars, call, rcv, rcvFlag,
                   active, tick, route>>

\* Mutant: the count given already excludes MidiShareDriver.
OthersLess == nbDrivers - 2

\* MSCountDrivers (clients) - 1: the drivers a loop looks for.
Others == nbDrivers - 1

\* A loop over the drivers, from MidiShareDriverRef-1 down, begins, goes on with
\* the next number, and is over.
BeginLoop ==
    ref' = NDrivers /\ todo' = Others /\ late' = 0

LoopOver == todo = 0 \/ ref = 0

NextDriver ==
    /\ Idle /\ ~LoopOver
    /\ ref' = ref - 1
    /\ todo' = IF ref \in registered THEN todo - 1 ELSE todo

\* OpenDrivers counts the drivers,
OpenDrivers ==
    /\ Idle /\ phase = "clock"
    /\ phase' = "opening"
    /\ BeginLoop
    /\ UNCHANGED <<open, nbAppls, registered, nbDrivers, awake, linked, slotVars, call,
                   clockVars>>

\* and calls DriverWakeUp of each it meets, which connects to MidiShareDriver.
DriverWakeUp ==
    /\ phase = "opening" /\ NextDriver
    /\ awake' = awake \cup ({ref} \cap registered)
    /\ linked' = linked \cup ({ref} \cap registered)
    /\ UNCHANGED <<phase, open, nbAppls, registered, nbDrivers, late, slotVars, call,
                   clockVars>>

\* MSOpen makes the entry of MidiShare.
OpenSelf ==
    /\ Idle /\ phase = "opening" /\ LoopOver
    /\ phase' = "awake"
    /\ nbAppls' = nbAppls + 1
    /\ ref' = 0 /\ todo' = 0
    /\ UNCHANGED <<open, driverVars, slotVars, call, clockVars>>

\* The end of MSOpen: makeClient for the caller.
MSOpen(c) ==
    /\ Idle /\ phase = "awake" /\ c \notin open
    /\ open' = open \cup {c}
    /\ nbAppls' = nbAppls + 1
    /\ rcv' = [rcv EXCEPT ![c] = 0]
    /\ rcvFlag' = [rcvFlag EXCEPT ![c] = kNoRcvFlag]
    /\ UNCHANGED <<phase, ref, todo, driverVars, slotVars, call, sched, free, active, tick,
                   route>>

\* Mutant: what a listener has received goes with it.
FlushedNone(x) == 0

\* MSFlushEvs in clearClient.
Flushed(x) == rcv[x]

\* MSClose: closeClient flushes what the client has received; the last client
\* takes the entry of MidiShare with it, and the clock still runs.
MSClose(c) ==
    /\ Idle /\ phase = "awake" /\ c \in open
    /\ open' = open \ {c}
    /\ free' = free + Flushed(c)
    /\ rcv' = [rcv EXCEPT ![c] = 0]
    /\ IF nbAppls - 1 = 1
       THEN phase' = "closing" /\ nbAppls' = 0
       ELSE phase' = phase /\ nbAppls' = nbAppls - 1
    /\ UNCHANGED <<ref, todo, driverVars, slotVars, call, sched, rcvFlag, active, tick,
                   route>>

\* MidiShareSleep: CloseTimeInterrupts, then CloseDrivers counts the drivers,
CloseDrivers ==
    /\ Idle /\ phase = "closing"
    /\ phase' = "sleeping"
    /\ BeginLoop
    /\ UNCHANGED <<open, nbAppls, registered, nbDrivers, awake, linked, slotVars, call,
                   clockVars>>

\* and puts to sleep and clears each it meets,
DriverSleepAll ==
    /\ phase = "sleeping" /\ NextDriver
    /\ LET met == {ref} \cap registered IN
       /\ awake' = awake \ met
       /\ linked' = linked \ met
       /\ free' = free + (IF ref \in registered THEN Flushed(ref) ELSE 0)
       /\ rcv' = [x \in Listener |-> IF x \in met THEN 0 ELSE rcv[x]]
    /\ UNCHANGED <<phase, open, nbAppls, registered, nbDrivers, late, slotVars, call,
                   sched, rcvFlag, active, tick, route>>

\* and CloseMemory gives the cells back.  A driver that was not met still holds
\* those it had received, which are memory no more.
CloseMemory ==
    /\ Idle /\ phase = "sleeping" /\ LoopOver
    /\ phase' = "stopped"
    /\ ref' = 0 /\ todo' = 0
    /\ free' = 0
    /\ sched' = <<>>
    /\ rcv' = Empty
    /\ UNCHANGED <<open, nbAppls, driverVars, slotVars, call, rcvFlag, active, tick,
                   route>>

\* SpecialSleep is over and MidiShareDriver loses its entry.
EndSleep ==
    /\ Idle /\ phase = "stopped"
    /\ phase' = "asleep"
    /\ nbDrivers' = nbDrivers - 1
    /\ UNCHANGED <<ref, todo, open, nbAppls, registered, awake, linked, late, slotVars,
                   call, clockVars>>

---------------------------------------------------------------------------
(* Drivers and slots                                                       *)

NoMaps == [s \in Slot |-> NoMap]
NoBits == [p \in Port |-> {}]

\* A driver that comes while MidiShare counts drivers is late: MidiShare is not
\* active yet, or no more, and the loop may be past its number.  More than NDrivers
\* make no difference.
Late == IF phase \in {"opening", "sleeping"} THEN Min({late + 1, NDrivers}) ELSE late

\* MSRegisterDriver, at any time: the highest free number; makeDriver clears the
\* tables; when MidiShare is active the driver is woken up and connects.
MSRegisterDriver(d) ==
    /\ Idle
    /\ d \in Driver \ registered /\ \A e \in Driver : e > d => e \in registered
    /\ registered' = registered \cup {d}
    /\ nbDrivers' = nbDrivers + 1
    /\ late' = Late
    /\ map' = [map EXCEPT ![d] = NoMaps]
    /\ port' = [port EXCEPT ![d] = NoBits]
    /\ rcvFlag' = [rcvFlag EXCEPT ![d] = kNoRcvFlag]
    /\ IF nbAppls > 0
       THEN awake' = awake \cup {d} /\ linked' = linked \cup {d}
       ELSE awake' = awake \ {d} /\ linked' = linked
    /\ UNCHANGED <<kernelVars, call, sched, free, rcv, active, tick, route>>

\* MSUnregisterDriver, at any time: closeDriver frees the maps of the slots.
MSUnregisterDriver(d) ==
    /\ Idle /\ d \in registered
    /\ call' = [op |-> "unregister", d |-> d, at |-> "close"]
    /\ UNCHANGED <<kernelVars, driverVars, slotVars, clockVars>>

\* Its closeClient takes the driver off all lists and gives back what it has
\* received, while there is a memory; its tables go; the driver is one less.
CloseClient ==
    /\ call.op = "unregister" /\ call.at = "close" /\ ~tick
    /\ linked' = linked \ {call.d}
    /\ registered' = registered \ {call.d}
    /\ nbDrivers' = nbDrivers - 1
    /\ free' = IF Memory THEN free + Flushed(call.d) ELSE free
    /\ rcv' = [rcv EXCEPT ![call.d] = 0]
    /\ map' = [map EXCEPT ![call.d] = NoMaps]
    /\ port' = [port EXCEPT ![call.d] = NoBits]
    /\ call' = [call EXCEPT !.at = "sleep"]
    /\ UNCHANGED <<kernelVars, awake, late, sched, rcvFlag, active, tick, route>>

\* Its callback is called last, on a copy of the entry, if MidiShare is active: a
\* driver that leaves later, or before OpenSelf, is not put to sleep.
DriverSleep ==
    /\ call.op = "unregister" /\ call.at = "sleep" /\ ~tick
    /\ awake' = IF nbAppls > 0 THEN awake \ {call.d} ELSE awake
    /\ call' = None
    /\ UNCHANGED <<kernelVars, registered, nbDrivers, linked, late, slotVars, clockVars>>

\* Slots change at any time, in the callbacks of drivers too.
Plugging == call = None /\ ~tick

\* MSAddSlot: the first free place; its map is empty.
MSAddSlot(d, s) ==
    /\ Plugging /\ d \in registered
    /\ map[d][s] = NoMap /\ \A r \in Slot : r < s => map[d][r] # NoMap
    /\ map' = [map EXCEPT ![d][s] = {}]
    /\ UNCHANGED <<kernelVars, driverVars, port, call, clockVars>>

\* MSRemoveSlot frees the map,
MSRemoveSlot(d, s) ==
    /\ Plugging /\ d \in registered /\ map[d][s] # NoMap
    /\ call' = [op |-> "remove", d |-> d, s |-> s, at |-> "forget"]
    /\ UNCHANGED <<kernelVars, driverVars, slotVars, clockVars>>

\* forgets it,
ForgetMap ==
    /\ call.op = "remove" /\ call.at = "forget" /\ ~tick
    /\ map' = [map EXCEPT ![call.d][call.s] = NoMap]
    /\ call' = [call EXCEPT !.at = "clear"]
    /\ UNCHANGED <<kernelVars, driverVars, port, clockVars>>

\* Mutant: the ports keep the bit.
ClearBitsNot ==
    /\ call.op = "remove" /\ call.at = "clear" /\ ~tick
    /\ call' = None
    /\ UNCHANGED <<kernelVars, driverVars, slotVars, clockVars>>

\* and clears the bit of the slot in every port.
ClearBits ==
    /\ call.op = "remove" /\ call.at = "clear" /\ ~tick
    /\ port' = [port EXCEPT ![call.d] = [p \in Port |-> @[p] \ {call.s}]]
    /\ call' = None
    /\ UNCHANGED <<kernelVars, driverVars, map, clockVars>>

\* MSConnectSlot: the bit of the slot in the port, when it is to change,
MSConnectSlot(p, d, s, state) ==
    /\ Plugging /\ d \in registered /\ map[d][s] # NoMap
    /\ state # (s \in port[d][p])
    /\ port' = [port EXCEPT ![d][p] = IF state THEN @ \cup {s} ELSE @ \ {s}]
    /\ call' = [op |-> "connect", d |-> d, s |-> s, p |-> p, state |-> state]
    /\ UNCHANGED <<kernelVars, driverVars, map, clockVars>>

\* then the bit of the port in the slot.
ConnectMap ==
    /\ call.op = "connect" /\ ~tick
    /\ map' = [map EXCEPT ![call.d][call.s] =
                  IF call.state THEN @ \cup {call.p} ELSE @ \ {call.p}]
    /\ call' = None
    /\ UNCHANGED <<kernelVars, driverVars, port, clockVars>>

---------------------------------------------------------------------------
(* Sending, receiving and the clock handler                                *)

\* The cells in the receive fifos of the listeners S.
Received(S) == UNION {{x} \X (1..rcv[x]) : x \in S}

\* MSSend from a client to a port, or from a driver for one of its slots.
MSSend(x, at) ==
    /\ ~tick /\ Memory /\ free > 0 /\ Len(sched) < MaxSched
    /\ <<x, at>> \in (open \X Port) \cup (linked \X Slot)
    /\ free' = free - 1
    /\ sched' = Append(sched, [by |-> x, at |-> at])
    /\ UNCHANGED <<kernelVars, driverVars, slotVars, call, rcv, rcvFlag, active,
                   tick, route>>

\* MSGetEv and MSFreeEv of a listener that polls.
MSGetEv(x) ==
    /\ ~tick /\ Memory /\ x \notin Alarmed /\ rcv[x] > 0
    /\ call # [op |-> "unregister", d |-> x, at |-> "close"]
    /\ rcv' = [rcv EXCEPT ![x] = @ - 1]
    /\ free' = free + 1
    /\ UNCHANGED <<kernelVars, driverVars, slotVars, call, sched, rcvFlag, active,
                   tick, route>>

\* The map of the slot has been freed and the driver still has it.
Freed(d, s) ==
    \/ call.op = "remove" /\ call.at = "forget" /\ call.d = d /\ call.s = s
    \/ call.op = "unregister" /\ call.at = "close" /\ call.d = d

\* The ports Slot2PortDispatch finds: anything in a map that was freed.
Ports(d, s) ==
    IF map[d][s] = NoMap THEN {{}}
    ELSE IF Freed(d, s) THEN SUBSET Port ELSE {map[d][s]}

\* Where an event goes, as listener and slot (Port2SlotAccept) or listener and
\* port (Slot2PortDispatch); that of a listener that is gone is only freed.
Targets(e, ports) ==
    IF e.by \in open THEN UNION {{<<d, s>> : s \in port[d][e.at]} : d \in linked}
    ELSE IF e.by \in linked THEN open \X ports
    ELSE {}

\* Copies that live only while the event is passed on: one for MidiShare and
\* one for the driver, or one for MidiShareDriver.
Passing(e) == IF e.by \in open THEN 2 ELSE 1

FreeFor(e) == Max({0, free - Passing(e)})

\* Mutant: the flag is wider than the table of active clients expects.
RaisedWide(x, n) == rcvFlag[x] + n

\* The flag of a listener that receives n events, a byte.
Raised(x, n) == (rcvFlag[x] + n) % RcvMod

\* DispatchEvents for one event: a copy for each target while there are cells,
\* an entry in the table of active clients each time the flag passes zero.  A
\* driver's event for a port when MidiShare has no entry is read through a
\* null pointer, and has no step here.
Dispatch ==
    /\ Clock /\ sched # <<>>
    /\ LET e == Head(sched) IN
       \E ports \in IF e.by \in linked THEN Ports(e.by, e.at) ELSE {{}} :
       LET to == Targets(e, ports)
           n  == Min({Cardinality(to), FreeFor(e)})
       IN
       /\ ports = {} \/ Self
       /\ \E got \in kSubset(n, to) :
          LET new == [x \in Listener |-> Cardinality({t \in got : t[1] = x})] IN
          /\ rcv' = [x \in Listener |-> rcv[x] + new[x]]
          /\ rcvFlag' = [x \in Listener |-> Raised(x, new[x])]
          /\ active' = [x \in Listener |-> active[x] + (rcvFlag[x] + new[x]) \div RcvMod]
          /\ route' = [ev |-> e, to |-> got, full |-> Cardinality(to) <= FreeFor(e)]
       /\ free' = free + 1 - n
    /\ sched' = Tail(sched)
    /\ tick' = TRUE
    /\ UNCHANGED <<kernelVars, driverVars, slotVars, call>>

\* Mutant: the active listeners stay marked.
UnmarkedNot(x) == rcvFlag[x]

\* appl->rcvFlag = (uchar)kNoRcvFlag, for those in the table.
Unmarked(x) == IF active[x] > 0 THEN kNoRcvFlag ELSE rcvFlag[x]

\* RcvAlarmLoop, at the end of a tick: the active listeners are unmarked and
\* their alarms called, as often as they are in the table.
RcvAlarmLoop ==
    /\ tick
    /\ LET called == {x \in Alarmed : active[x] > 0} IN
       /\ free' = free + Cardinality(Received(called))
       /\ rcv' = [x \in Listener |-> IF x \in called THEN 0 ELSE rcv[x]]
    /\ rcvFlag' = [x \in Listener |-> Unmarked(x)]
    /\ active' = Empty
    /\ route' = NoRoute
    /\ tick' = FALSE
    /\ UNCHANGED <<kernelVars, driverVars, slotVars, call, sched>>

---------------------------------------------------------------------------
Init ==
    /\ phase = "asleep" /\ ref = 0 /\ todo = 0 /\ open = {} /\ nbAppls = 0
    /\ registered = {} /\ nbDrivers = 0 /\ awake = {} /\ linked = {} /\ late = 0
    /\ map = [d \in Driver |-> NoMaps] /\ port = [d \in Driver |-> NoBits]
    /\ call = None
    /\ sched = <<>> /\ free = 0
    /\ rcv = Empty /\ rcvFlag = [x \in Listener |-> kNoRcvFlag] /\ active = Empty
    /\ tick = FALSE /\ route = NoRoute

Next ==
    \/ BeginWakeup \/ OpenTime \/ OpenDrivers \/ DriverWakeUp \/ OpenSelf
    \/ CloseDrivers \/ DriverSleepAll \/ CloseMemory \/ EndSleep
    \/ \E c \in Client : MSOpen(c) \/ MSClose(c)
    \/ \E d \in Driver : MSRegisterDriver(d) \/ MSUnregisterDriver(d)
    \/ CloseClient \/ DriverSleep
    \/ \E d \in Driver, s \in Slot :
          \/ MSAddSlot(d, s) \/ MSRemoveSlot(d, s)
          \/ \E p \in Port, state \in BOOLEAN : MSConnectSlot(p, d, s, state)
    \/ ForgetMap \/ ClearBits \/ ConnectMap
    \/ \E x \in Listener, at \in Port \cup Slot : MSSend(x, at)
    \/ \E x \in Listener : MSGetEv(x)
    \/ Dispatch \/ RcvAlarmLoop

Spec == Init /\ [][Next]_vars

---------------------------------------------------------------------------
(* Properties                                                              *)

Event == [by : Client, at : Port] \cup [by : Driver, at : Slot]
Call ==
    {None}
    \cup [op : {"unregister"}, d : Driver, at : {"close", "sleep"}]
    \cup [op : {"remove"}, d : Driver, s : Slot, at : {"forget", "clear"}]
    \cup [op : {"connect"}, d : Driver, s : Slot, p : Port, state : BOOLEAN]

\* Every variable has its type.  What can go wrong: a flag that leaves its
\* byte, a count of cells or of drivers below zero.
TypeOK ==
    /\ phase \in Phases /\ ref \in 0..NDrivers /\ todo \in Nat
    /\ open \subseteq Client /\ nbAppls \in Nat
    /\ registered \subseteq Driver /\ nbDrivers \in Nat
    /\ awake \subseteq Driver /\ linked \subseteq registered /\ late \in 0..NDrivers
    /\ map \in [Driver -> [Slot -> (SUBSET Port) \cup {NoMap}]]
    /\ port \in [Driver -> [Port -> SUBSET Slot]]
    /\ call \in Call
    /\ sched \in Seq(Event) /\ Len(sched) <= MaxSched
    /\ free \in 0..Cells /\ rcv \in [Listener -> 0..Cells]
    /\ rcvFlag \in [Listener -> 0..RcvMod-1] /\ active \in [Listener -> Nat]
    /\ tick \in BOOLEAN

\* Between calls the counts of clients and drivers are right, and the connected
\* drivers are those that are awake.  When MidiShare has woken its drivers up, as
\* many registered ones at most have been left out as came meanwhile; when it has
\* put them to sleep, as many at most have stayed awake as came meanwhile; hence
\* none when none came.  The late one is not always the one left out: it can use up
\* the count of the loop (msDriver.c:299, 313), which an earlier one then misses.
AwakeTogether ==
    Idle =>
    /\ nbAppls = Cardinality(open) + (IF Self THEN 1 ELSE 0)
    /\ nbDrivers = Cardinality(registered) + (IF phase = "asleep" THEN 0 ELSE 1)
    /\ linked = registered \cap awake
    /\ phase = "awake" => Cardinality(registered \ awake) <= late
    /\ phase \in {"asleep", "stopped"} => Cardinality(registered \cap awake) <= late

\* Every cell is free, in an event to come or in a fifo: copies that fail in the
\* middle of a dispatch, clients that close, drivers that go and a kernel that
\* sleeps with events under way give each cell back once (msHandler.c:149).
Conserved ==
    Memory => free + Len(sched) + Cardinality(Received(Listener)) = Cells

\* After a tick, a listener with an alarm has nothing left that its alarm was
\* not called for: it is in the table of active clients even when its flag, a
\* byte, has gone round (msHandler.c:111).
NobodyForgotten == ~tick => \A x \in Alarmed : rcv[x] = 0

\* The slot is being connected, removed, or goes with its driver.
Changing(d, s) ==
    call # None /\ call.d = d /\ (call.op = "unregister" \/ call.s = s)

\* What is due when an event is passed on, and what has arrived, compared.
Follows ==
    route' # NoRoute =>
       LET e == route'.ev
           due == IF e.by \in open
                  THEN {t \in linked \X Slot : MSIsSlotConnected(e.at, t[1], t[2])}
                  ELSE {t \in open \X Port : /\ e.by \in linked
                                             /\ MSIsSlotConnected(t[2], e.by, e.at)}
           Settled(t) == IF e.by \in open THEN ~Changing(t[1], t[2])
                                           ELSE ~Changing(e.by, e.at)
       IN /\ {t \in route'.to : Settled(t)} \subseteq due
          /\ route'.full => {t \in due : Settled(t)} \subseteq route'.to

\* The handler passes an event to the slots of a port, or from a slot to its
\* ports, as MidiIsSlotConnected answers at that moment for the drivers that are
\* connected and whatever the slots were before, but for slots being changed; to
\* all of them if memory suffices.
\* The two tables that say so are changed separately (msDriver.c:193, 261).
FollowsConnections == [][Follows]_route
=============================================================================
