# A formal model of the MidiShare kernel

MidiShare is a real-time operating system extension for MIDI: applications
("clients") open, connect to each other, and send events with a date; a clock
handler, called every millisecond, delivers each event at its date to the
clients connected to its sender, and runs tasks. This directory holds TLA+
modules that model the kernel's core, the TLC configurations that check them on
small instances, and proofs checked by TLAPS. Paths below are relative to the
repository; the kernel is in `src/src/common`, its platform layers in
`src/src/linux`, `src/src/macosx-mono` and `src/src/win-mono`.

## Inventory

### Components, their state and their operations

| Component | Source | State | Operations |
|---|---|---|---|
| Lock-free LIFO | `common/atomic/lflifoIntel.c`, `msAtomicIntel.h` | top, pop counter, count, links of the cells | `lfinit`, `lfpush`, `lfpop`, `lfsize` |
| Lock-free FIFO | `common/atomic/lffifoIntel.c` | head, tail, their counters, count, dummy cell, links | `fifoinit`, `fifoput`, `fifoget`, `fifoavail`, `fifoflush` |
| Sorter | `common/Sorter/msSorter.c` | date, late fifo, four levels of two buffers of 256 fifos | `SorterInit`, `SorterClock` |
| Clock handler | `common/Kernel/msHandler.c` | time, table of active clients | `ClockHandler`: flush the input, sort, dispatch, receive alarms |
| Clients, connections, alarms | `common/Clients/msAppls.c`, `msConnx.c`, `msAlarms.c` | table of clients, connection cells on two lists each | `MSOpen`, `MSClose`, `MSConnect`, alarms |
| Sending and receiving | `common/Clients/msXmtRcv.c`, `msFilter.c` | receive fifo and filter of a client | `MSSend`, `MSSendIm`, `MSSendAt`, `MSGetEv`, `MSAvailEv`, `MSFlushEvs` |
| Tasks | `common/Clients/msTasks.c` | typeProcess events, fifo of deferred tasks | `MSTask`, `MSDTask`, `MSForgetTask`, `MSExec1DTask` |
| Mailbox | `common/Clients/msMail.c` | a variable of the client | `MSReadSync`, `MSWriteSync` |
| Events and memory | `common/Memory/` | free list, events of one or more cells, sequences | `MSNewEv`, `MSCopyEv`, `MSFreeEv`, `MSAddField`, `MSGrowSpace`, `MSAddSeq` ... |
| Drivers | `common/Drivers/msDriver.c` | drivers, slots, port-to-slot and slot-to-port bit maps | `MSRegisterDriver`, `MSAddSlot`, `MSConnectSlot` ... |
| Linux command queue | `linux/kernel/MidiShareLinux.c`, `MidiShare.c`, `linux/library/libMidiShare.c` | command fifo, wake flag, wait queue | `CallTaskCode`, `wakeUp`, `MSGetCommand`, `mskGetCommand` |
| Wake-up, time | `common/Kernel/msInit.c`, `msTime.c` | the kernel asleep or awake | `MidiShareWakeup`, `MidiShareSleep` |
| Stream libraries | `lib/EventToMidiStream.c`, `lib/MidiStreamToEvent.c` | what is left of an event to send; parse method and event being received | `MidiStreamPutEvent`, `MidiStreamGetByte`, `MidiStreamReset`, `MidiParseByte` |
| Player | `src/libraries/player/src` | score, iterators, tempo, chaser, loop, table of tasks in ticks, state | `Start`, `Stop`, `Pause`, `Cont`, `SetPosTicks`, `SetParam`, `SetLoop`, `SetTrack`, `SetSynchroIn`, the tasks, the alarm |
| MIDI files, RTP, network and device drivers, bindings, tools | `src/libraries`, `src/src/linux/drivers`, `src/lang` ... | of applications | outside the kernel |

### How they interact

Every event, connection and command is made of cells of one free list (a LIFO).
A client that sends puts its event in the input FIFO of the scheduler. The clock
handler empties that FIFO at each tick, gives its events to the sorter, takes
from the sorter those whose date has come, and copies each one into the receive
FIFO of every client connected to the sender; it then calls the receive alarms.
A task of a client is an event that the handler executes instead of delivering.
On Linux the kernel is a module and clients are processes: tasks and alarms
become commands in a FIFO which a handler thread of the client takes with a
system call that sleeps while there are none.

Four kinds of activity run concurrently: threads of clients; the clock handler
(a timer thread, or an interrupt); tasks and receive alarms, which run at the
level of the clock handler and may call back the kernel; drivers. There is
almost no lock: LIFO and FIFO rely on compare-and-swap, `MSOpen` and `MSClose`
on a mutex, the rest on orders of assignments that an interrupt may cut.

### What is hard

- Interleavings of the lock-free lists: ABA, a tail that is late, a dummy cell
  that consumers put back, counts updated after the lists.
- Arithmetic of dates: four digits that carry, a clock that wraps, events that
  are moved early, two at a time.
- Wake-ups that are lost or come late in the Linux queue; the three-step
  protocol "look, copy, remove" with retries.
- A read and a store that ought to be one step (mailbox).
- Calls of clients cut by a tick or an alarm, closing while events are on their
  way, memory exhausted in the middle of a dispatch.
- Two bit maps that say the same thing and are changed one after the other;
  drivers that come and go while the kernel wakes up or falls asleep.
- Forgetting a task that may fall due meanwhile, or has become another one.
- Messages longer than a cell, cut into bytes among which others may come.
- Tasks scheduled by date in ticks while the tempo, and with it their date in
  milliseconds, changes.

`PROJECT.json` lists these hazards at their lines, with the properties that
watch them.

### What makes each component correct

- LIFO: a cell has one owner; the links are the list; a call takes effect at one
  instant; the count is right up to the calls under way; some call always ends.
- FIFO: the chain is never broken and no cell is lost or duplicated; a get
  answers "empty" only if that was so; order of each producer.
- Sorter: an event leaves at the tick of its date, or at the next one when it is
  late, in the order of sending.
- Command queue: what is freed is what was executed; nothing is executed twice;
  the handler does not sleep for ever.
- Mailbox: no message is lost or given twice.
- Clients and connections: the two lists of a connection agree, no connection
  leads to a closed client, no cell is lost by an open, a close or a connection,
  at every instant at which the clock handler may run.
- Drivers: an event follows exactly the two bit maps; all drivers are awake when
  the kernel is, and none when it is not; no cell is lost on the way.
- Tasks: the pointer a client keeps is its task; every task comes to an end.
- Events: allocation, copy and release conserve cells even when memory fails.
- Streams: what comes out at the far end is what was put in.
- Player: what has been played is what the tempo map says; Stop stops, and leaves no
  note sounding; the program is the right one wherever the player goes.

## Modules

| Module | Models | Written |
|---|---|---|
| `FreeList` | abstract stack of cells: each call takes effect at one instant | yes |
| `LFLifo`, `MCLFLifo` | `lflifoIntel.c`, one access to shared memory per action; implements `FreeList` | yes |
| `FifoPool` | abstract unordered pool of cells | yes |
| `LFFifo`, `MCLFFifo` | `lffifoIntel.c`, one access per action; with one thread at each end implements `FifoPool` | yes |
| `Schedule` | abstract timetable of events | yes |
| `Sorter`, `MCSorter` | `msSorter.c`, the sends of the clients and the clock handler; implements `Schedule` | yes |
| `CommandQueue`, `MCCommandQueue` | the Linux command queue, from `CallTaskCode` to user space, over `LFFifo` | yes |
| `Mailbox`, `MCMailbox` | `msMail.c` over the store that Mac OS X and Windows call compare-and-swap | yes |
| `Patchbay` | abstract patchbay: who is connected, who hears what | yes |
| `Connections`, `MCConnections` | `msAppls.c`, `msConnx.c`, the delivery of `msHandler.c`: calls in steps, cut by the clock handler and by alarms; implements `Patchbay` | yes |
| `Drivers`, `MCDrivers` | `msDriver.c`, waking up and falling asleep, the routing of `msHandler.c` through slots and ports, the table of active clients | yes |
| `Tasks`, `MCTasks` | `msTasks.c`, forgetting against execution | yes |
| `Streams`, `MCStreams` | `msEvents.c` for events of several cells; both stream libraries over a line | yes |
| `Player`, `MCPlayer` | the player library: scheduler of ticks, synchroniser, tick player, chaser, loop | yes |
| `LFLifo_proofs`, `Sorter_proofs`, `Connections_proofs`, `Drivers_proofs`, `Tasks_proofs`, `Streams_proofs`, `Player_proofs` | theorems on the module of that name | yes |
| `LFFifo_proofs` | theorems on `LFFifo`, and on `CommandQueue`, which extends it: its specification is `QueueSpec` | yes |

Every module writes in its header which source it models; `map` in
`PROJECT.json` gives the lines of each definition. Names of the source are kept:
`lfpush`, `fifoget`, `MSReadSync`, `ClockHandler`, `LevelClock` are actions or
families of actions.

### LFLifo

State: `top`, `oc`, `count` are the fields of `struct lifo`; `link` is the first
word of each cell; `pc`, `cell`, `ltop`, `lnext`, `loc` are what each thread has
in registers. `lfpush` is `PushRead`, `PushLink`, `PushCAS`, `PushInc`; `lfpop`
is `PopOc`, `PopTop`, `PopLink`, `PopCAS2`, `PopDec`. The compare-and-swap
instructions are `lock`-prefixed, because `msAtomic.h` defines `__SMP__`: each is
one action. The history variable `stack` is the sequence of cells an observer
would see. A cell that a thread owns may have any first word (`Use`), as its
owner writes there. `oc` is a 32-bit counter: the model stops popping at `MaxOc`
instead of wrapping.

### LFFifo

As above for `fifoput`, `fifoget`, `fifoavail`. A list ends with the address of
its own fifo (`End`). A put links its cell to the tail it has read and then tries
once to swing the tail; a get that takes the dummy out puts it back and starts
again. `sent` is a history variable, the cells of each thread in the order of
their puts. `fifoflush` is a loop of `fifoget` that its only caller makes, and
has no actions of its own.

### Sorter

A date has four digits in base `Base`, 256 in the code; a level moves `Quota`
events down per tick, 2 in the code. `PutEvent` puts one event; `BufferPut(l)`
moves one event down from level `l`; `LevelClock(l)` ends the work of the level
at this tick; `LastLevel` releases what is ready. Between two of these steps
clients may send. The scheduler's input fifo is an atomic sequence: what the real
one does is the subject of `LFFifo`.

### CommandQueue

The module extends `LFFifo`: commands are its cells, the kernel's threads its
producers, and the handler thread is its one consumer (`OneReader`). Kernel threads
put a command (`Command`, `Put`), then wake the handler (`WakeTest`, `WakeSet`); a task
may be forgotten meanwhile (`Forget`). The handler thread calls
`MidiGetCommand`; the three blocking calls of the module (to look at a command, to
drop a dead one, to remove the one that was copied) share the actions `Size`,
`Clear`, `Wake`, `Interrupted`, `Call`, `Run`; `call` says which of the three is under
way. `Size` reads the count of the fifo, which may be off; `Call` begins `fifoavail` or
`fifoget`, and each `Run` is one access of theirs to shared memory, the senders
coming between any two. `MSAvailCommand` and `MSGetCommand` are their ends; `Copy` is
`mskGetEvAux`, with its retry when user space lent too few cells. When `fifoavail` answers
the end marker, which is the address of the fifo, the code reads the fifo's own words
as if they were an event: it may be taken for a dead command, or copied, or found too
large (`Kinds`).

### Mailbox

`MSReadSync` and `MSWriteSync` read the variable (`Content`) and then call
`MSCompareAndSwap` (`Swap`). The developer's guide requires that it compare; those of
Mac OS X and Windows store without comparing and never fail, which is what is modelled.
The Linux kernel module's does nothing and returns false, so that the loops of
`msMail.c` never end over it.

### Connections

`open` is the table `appls`; `srcList`, `dstList` the heads of the two lists of a
client; `itsSrc`, `itsDst`, `nextSrc`, `nextDst` the fields of a connection.
Events (`sender` until their date, then `rcv` of who receives them) and connections
are cells of one free list, as in the code, so that a connection that is freed can
come back as an event. A call is cut at each write to a list: `SetPop`, `SetSrc`,
`SetDst`, `PutDst` are `SetConnection`; `ClearSrc`, `ClearDst`, `ClearFree` are
`ClearConnection`; `CloseSrc`, `CloseDst`, `CloseFree`, `Flush`, `Free` are
`MSClose`. Searches along a list write nothing and are one step. `Dispatch` is the
clock handler at the date of an event; it is an interrupt, which sees the lists as
they are between two writes and is over before the interrupted call goes on.
Calls of clients come one at a time; `Interrupts` are levels above theirs at which
alarms call `MSConnect` too. A client may close with events still to come: while
`RemAllDstCon` frees its connections, its list begins with cells that are free, or
have become something else (`Emptying`); who an event of the client reaches then depends
on what they hold, so that `DispatchLost` delivers it to anybody. When the last client
closes, the memory goes with it.
The alarms that tell clients of a change keep no state and are left out; so are
names and filters (a client without a filter takes everything).

### Drivers

`phase` says how far `MSOpen` or `MSClose` has gone: `BeginWakeup`, `OpenTime`,
`OpenDrivers`, `DriverWakeUp`, `OpenSelf` are the parts of the first `MSOpen`; `MSClose` of
the last client is followed by `CloseDrivers`, `DriverSleepAll`, `CloseMemory` and
`EndSleep`. `DriverWakeUp` and `DriverSleepAll` are one turn each of the loops that go
down the numbers of the drivers (`ref`) until they have met as many as were counted
(`todo`). Drivers register and leave at any time, between two turns too: neither call takes
a mutex. `late` counts those that came during a loop. `nbAppls` and `nbDrivers` are
the counts of the code, `open` and `registered` the entries they count. `map` and
`port` are the two bit maps of a driver; `call` is a call that the clock handler has
cut: `MSRemoveSlot`, `ForgetMap`, `ClearBits` are `MSRemoveSlot`, and
`MSConnectSlot`, `ConnectMap` are `MSConnectSlot`, one write each. A map that was freed and
not yet forgotten has any content (`Ports`). `Dispatch` delivers one event, in
copies while there are cells: to all clients from a slot, or to all slots from a client,
through the two pseudo-clients of the kernel. Every client is connected to
MidiShare both ways, every driver that is awake to MidiShareDriver; which
connections there are otherwise is the subject of `Connections`. `rcvFlag` is a
byte (`RcvMod`); a listener enters the table of active clients whenever it passes
zero. A tick is `Dispatch`, then `RcvAlarmLoop`.

### Tasks

A client has one variable, `theTask[c]`, as in the examples of the page on
`MidiForgetTask`. `MSTask` makes an event; `DispatchTask` is the handler at its date:
it executes a task of type `typeProcess`, puts one of type `typeDProcess` in the
fifo of its client, and discards the dead and those whose client is gone. `Execute` is
the function, which schedules itself again or stops. `MSForgetTask`,
`ForgetTaskSync`, `Mark` and `ClearVariable` are `MidiForgetTask`, cut between any
two accesses. Cells are reused, so that a stale pointer may meet another task.
`MSClose` flushes, `FreeAppl` removes the entry; `late` holds the tasks accepted between
the two, `cut` remembers that a task fell due in the call that forgot it.

### Streams

The heap (`free`, `ev`, `se`, `link`, `bytes`) is that of `msEvents.c` for headers
and rings of extension cells; its functions are operators from heap to heap, for the
calls are not cut (each works on cells of its own and on the free list, which is the
subject of `LFLifo`). `own` is what the sender wrote, for comparison. `PutSmall`,
`PutSysEx`, `MidiStreamGetByte`, `MidiStreamReset` are the sending side; `wire` is the
line; `Merge` puts a real-time byte anywhere. `MidiParseByte` and the `rcv...`
operators are the parser, `in` its state; `Receive` gives it a byte. `due` lists the
messages that are still to arrive. Types whose methods are of one form stand for
each other, and the header of the module says which.

### Player

`player` is a record of the objects: the state of the player, the
synchroniser's position and clock, the iterators of the tick player (`play`) and of
the synchroniser (`tempo`), the table of tasks in ticks with status, date and pointer
(`fTask`) of each, and the tasks that the kernel holds. A call of the user is a
sequence of calls to the synchroniser and the tick player (`todo`), and the clock
handler may come between any two of them (`ExecuteTask`, `ReceiveStop`, `Time`).
`ScheduleTickTask`, `ScheduleRealTime`, `ReScheduleTasks`, `ExecuteTaskInt` are those of
`TScheduler`; `PlaySlice` and `TempoSlice` the two tasks. The chaser (`chase`) has a date
and an iterator of its own, and what it met: the notes under way and the last program;
`sound` and `prog` are what the synthesizer was told. Notes and programs stand for
the other types, whose tables are alike. The ends of the loop and of the score are
events which the player sends to itself (`rcv`). `Renew` deletes all objects and makes
new ones, as `SetTrack` and `SetSynchroIn` do; a task of the kernel that was not killed
would be left without objects (`TypeOK`). `crossed` remembers that an event to itself
(of the end of the score or of the loop) met a call of the user, `left` which notes nobody
is to end; `fresh` is set while the date of a new chaser is what its memory held.

## Runs

| Run | Instance | Shows |
|---|---|---|
| `lifo` | 2 threads, 2 cells, 3 pops | invariants, refinement of `FreeList`, progress |
| `fifo` | 3 threads, of which two put and two get, 2 cells | the chain, no cell lost, the count |
| `sorter` | base 3, 2 events, quota 1, dates up to 4 ticks ahead | placement, punctuality, refinement of `Schedule`, delivery |
| `command` | 1 sender, 2 commands, one large, 1 signal, over the real fifo | what was looked at is what is removed, executed once; wake-up by the next command; refinement of `FifoPool`, progress of its calls |
| `patchbay` | 2 clients and MidiShare, 5 cells | both lists agree, the handler meets live connections only but on a list being freed, refinement of `Patchbay` |
| `drivers` | 2 drivers of one slot, 2 clients, 2 ports, 5 cells, 2 events to come, a flag of two values | counts, callbacks, routing, alarms, no cell lost |
| `tasks` | a client with a clock, one with deferred tasks, 3 cells | the pointer to a clock is right, every task ends |
| `streams` | 6 cells of 2 bytes, 5 messages, a byte on the line, a copy, a reset | content and owner of every cell; what arrives is what was sent |
| `player` | 4 ticks, 2 of them slower, a note, 2 programs, a loop, 2 cells, 7 ms, 3 positions | punctuality by the tempo map, silence after Stop, chase |
| `fifo_order` | a producer and a consumer | a sentence of the documentation that the code does not keep (below) |
| `mailbox` | 2 readers, 2 writers, 3 messages | the manual's promise that the code does not keep |
| `alarm_connects` | as `patchbay`, with an alarm that connects | the assumption of a comment that the code does not keep |

### Bounds and why they are enough

The safety properties of the modules that have proofs do not depend on these
bounds, nor do the refinements of `FreeList`, `FifoPool`, `Schedule` and `Patchbay`;
the liveness properties do.

- `lifo`: ABA needs one thread stopped before its CAS2 while another pops two
  cells and pushes the first back: two threads, two cells, three changes of `oc`.
  The mutant without the counter (`CASHolds`) is caught within these bounds.
- `fifo`: with three threads two may be stopped anywhere while the third works. A
  call begins only while `ic` and `oc` are below `MaxIc` and `MaxOc`; those under
  way go on, so that the tail moves up to five times.
- `sorter`: base 3 is the smallest base with a digit that is neither the first nor
  the last; two events can share a fifo and be moved at different ticks when the
  quota is one; dates reach over a carry of the last digit, and all 81 dates of
  the clock, with its wrap, are visited.
- `command`: one sender puts two commands, so that a wake-up is late while another
  command comes, a put is under way at every access of the look and of the removal, and
  the tail is late; a command that needs two cells makes the library retry. Two senders
  have 2.4 million states, too many for the liveness properties; the safety properties
  are proved for any number. Nine changes of the tail and
  of the head are more than two commands and the dummy need.
- `mailbox`: two tasks on each side make every race of two calls.
- `patchbay`: five cells are two connections, an event and a copy for each of its
  destinations; they also run out. With two clients and MidiShare a client can be
  on both sides of a connection, alone or with another, and every list can be
  cleared in the presence of another client. Cells are alike (symmetry); no
  liveness is checked there. `Interrupts` is empty in this run, and has one alarm in
  `alarm_connects`.
- `drivers`: with two drivers one of them can register while the other is awake,
  come or leave during a loop, be skipped by it, use up its count, or be the last; with
  two ports a slot has every pattern of connections; five cells are an event, the copies that live while it is
  passed on and one for each listener, and they also run out. A flag of two values
  goes round at the second event of a tick, a byte at the 256th.
- `tasks`: three cells are a task, the one it schedules, and one of the other
  client; each can come back as any other.
- `streams`: cells of two bytes: a message of two bytes fills its first cell, whose
  last place then makes the second, empty one; one of three bytes leaves a byte for it.
  The parser and a sender share six cells, two rings of three, so that every
  allocation fails in some state. One byte on the line is enough, for the
  sender and the parser share nothing but cells.
- `player`: the tempo changes three times, up and down, so that a task is scheduled
  again for an earlier and for a later date; positions are before the loop, at its
  marker and beyond the end; 7 ms are longer than the score. Two cells are all that can
  be in use: the kernel never holds two tasks of one owner (`TypeCorrect`). `Far` stands
  for any date that `ConvertMsToTick` gives when it goes below 0. The note sounds when
  the loop is left for its start, and when most calls come; a program is changed before
  and inside the loop. One event to itself may be on its way when the user calls
  (`MaxEnds`); more may follow.

### Fairness

`LFLifo`, `LFFifo`: a thread inside a call is scheduled (`WF_vars(Step(p))`): the
lists are used by preemptive threads, none of which disables the others for ever.
No thread is required to call, and the bounds on `oc` and `ic` end the calls, so
that progress means: a call in the end succeeds when the others stop disturbing
it (lock-freedom, not wait-freedom).

`Sorter`: the timer goes on ticking (`WF_vars(Tick)`), which is what the kernel
asks of its platform (`OpenTimeInterrupts`). Clients need not send.

`CommandQueue`: the handler thread runs when it can, and a sender that has put its
command goes on to wake it. Commands need not come.

`Tasks`: every date comes (`WF_vars(DispatchTask(x))`: the clock handler takes what is
due at each tick); a call returns (`WF_vars` of its steps); a client that has
deferred tasks executes one again and again between other calls
(`SF_vars(MSExec1DTask(c))`: the page on `MidiExec1DTask` has it called in the main loop),
unless it closes. No client need open, schedule, forget or close.

`Connections`, `Drivers`, `Mailbox`, `Streams` and `Player` state no fairness: their
properties are about what is true at each instant. That a player stops at the end of
its score is part of `Punctual`, which is violated by a clock that goes on after it.

### What the violations show

`fifo_order`: the FIFO is not in order. A put whose second CAS2 fails, together
with the dummy that a get puts again, lets a thread's second cell be taken before
its first. `lffifo.h:30` calls the structure a FIFO.

`mailbox`: a task reads the variable, another writes a message, and the first one's
`MSCompareAndSwap` stores over it: the message is in nobody's hands; or two readers read
the same message before either stores. The page on `MidiReadSync` says that it "reads and
sets to NIL a memory address" and is "none-interruptable"
(`src/doc/html/MSH_Fonctions/MidiReadSync.html:13`).

`alarm_connects`: while one client disconnects two others, a receive alarm that
disconnects the same two removes the same connection; the loop of the cut call, which
assumes it "in the list" (`msConnx.c:149`, `:165`), runs off its end. Or an alarm that
connects between two writes of `SetConnection` has its link overwritten.

### Other disagreements, met while modelling

They have no run; paths are those of the inventory.

Lists and time:
- `fifoavail` may return the end marker, the address of the fifo itself, as a cell
  (`lffifoIntel.c:103` says a pointer to the first cell), and takes a late tail for
  an empty list; in both cases it is not what `fifoget` returns next (`:107` says so). When
  it returns a cell, it is (`SameCommand`).
- The count of the LIFO, which `MidiFreeSpace` returns, may be -1 for an instant.
- Dates are compared as unsigned numbers, so that an event dated after the wrap
  of the clock leaves at the next tick.

Linux commands and mailbox:
- A command that comes between the handler's test of the size and its clearing
  of the wake flag is slept upon until the next one (`WokenByTheNext` says that the
  next one does wake it).
- `MSAvailCommand` "always returns an event" (`MidiShare.c:543`), but returns nothing after a
  late wake-up, a signal, or a look at a late tail: `mskGetEvAux` then has nothing to copy,
  successfully, and the next command is removed and freed without having been executed
  (`CommandQueue`, variable `dropped`).
- `MidiWriteSync` writes also when the mailbox is full; its page
  (`MidiWriteSync.html:13`) says only if it was NIL.
- On Linux neither call of the mailbox ever returns.

Clients:
- A client that closes while an event it sent is still to come: `RemAllDstCon` frees
  its connections one by one, and until the end its list begins with them; the clock
  handler follows freed cells (`DispatchLost`). `NoDangling` says that this is the only list
  and the only moment: without its exception (`Emptying`) TLC finds it violated.
- When `NewAppl` fails (`msAppls.c:63`, `:72`), the kernel is left half awake.

Drivers:
- `MSUnregisterDriver` calls the sleep callback after it has closed the driver.
- Registering takes no mutex (`msDriver.c:50-68`). A driver that registers after
  `OpenDrivers` has counted, and before MidiShare has its entry, is woken up by nobody
  when the loop is past its number; if the loop meets it, it uses up the count, and
  another driver stays asleep. So does one that comes inside `CloseDrivers`, and a driver then
  stays awake in a kernel that sleeps. A driver that leaves inside a loop or before
  MidiShare has its entry is not put to sleep. `AwakeTogether` counts the former (`late`).
- While MidiShare falls asleep its entry is cleared before the clock stops: a
  driver's event that falls due then is read through a null pointer (`Dispatch` has no
  such step).
- A client connected directly to MidiShareDriver (`msHandler.c:162`) would have its own
  entry read as a driver's.

Tasks:
- A task that falls due between the steps of `ForgetTaskSync` has its cell marked
  dead although it has become another task's; where the check is
  `ClockPointed`, `cut` excuses it. The page on `MidiForgetTask` promises that only a task
  "not yet executed" is forgotten; `MSExec1DTask` also executes a task that was
  forgotten while it was in the fifo.
- A task of a client that has closed is executed for the next client with the same
  reference number, if it is still scheduled; `MSClose` in `Tasks` is called by
  clients that have stopped their clock.
- A deferred task accepted while its client closes is never freed (`late`).

Streams:
- A system exclusive cut off by another status leaks its cells: the parser
  forgets `ptrCur` when the next one begins (`MidiStreamToEvent.c:328`).
- The port of the port-change byte stays for all later events; running status, which
  the sender could use, never is: `NormalContinuation` resets it.
- `MidiAddField` does not report that it found no cell.

Player:
- `typeScoreEnd` is sent twice, and the second may stop a player started again.
- `ScheduleRealTime` kills a task and makes another in two steps: one that falls due
  between them, with the user's thread inside, leaves two.
- A note that sounds when the position is set in pause is never ended: `Pause` does
  not chase, and `Stop` then chases at the new position (`left`).
- `TChaserIterator` does not initialize its date (`TChaserIterator.h:83`): the first `Cont`
  of a player whose position is that value chases nothing. In the run the memory may hold
  0, a position of the user's, or a date nobody goes to (`Garbage`); `Chased` says nothing of
  the program until something has given the chaser a date (`fresh`).
- `TChaserVisitor::Init` frees the Tune event and keeps its pointer
  (`TChaserVisitor.cpp:45`): the next `Init` frees it again, and a chase copies it.
- The objects are deleted under a mutex that tasks do not take: a task that was
  forgotten and is being executed at that moment uses a deleted scheduler, as the
  remark at the destructor of `TTicksTask` fears. A task is one step in `Player`.
- A `typeLoopEnd` that breaks into `Start` leaves the tick player and the synchroniser at
  different places of the score; `ConvertMicroSecToTick` may then subtract more ticks than
  there are (`TTempoConverter.cpp:124`), and the unsigned result is a date after any
  other (`Far`).
- When the marker of the loop is on the end of the score, a `typeLoopEnd` is still on its
  way when the player has stopped, and sets the position of the stopped player if the
  loop is switched on by then. `Silent` lets a stopped player be put back to the beginning
  of the loop; it plays and sends nothing there.
- Nothing keeps the start of a loop before its marker (`TLoopManager.cpp:38`, `:68`), and the
  model does not ask for it.
- When the kernel has no cell for a task, `MidiTask` returns a null pointer which nobody
  looks at: the player plays on without it. `Punctual`, `Chased` and `Silent` are proved
  for a kernel that has two cells for the player.
- On Linux the pointer to a task is stored after `MidiTask` has returned
  (`TMidiAppl.cpp:187`), when the task may be over.

## Proofs

Each theorem holds for every value of the constants that satisfies the assumption
of its module (`LFLifoAssumption`, `SorterAssumption`...): finite sets of threads and
cells, markers that are not cells, a base of at least 2. The bounds that only keep
TLC's instances small (`MaxOc`, `MaxIc`, `Reach`, `MaxSched`) are any numbers.

In each module `IInv` is the inductive invariant. There is a lemma for each action,
with a step for each part of `IInv` which that action can disturb; what the helpers
of the model do to a sequence, a set or a count is stated in lemmas at the head.

| Module | Theorems |
|---|---|
| `LFLifo_proofs` | `Invariance`; `TypeCorrect`, `ListIntact` (`Linked`), `CellsHaveOneOwner` (`OneOwner`), `CountCorrect` (`CountAccurate`); `Refinement`: implements `FreeList` |
| `LFFifo_proofs` | `Invariance`; `TypeCorrect`, `ChainIntact` (`ChainOK`), `NoCellLost` (`NothingLost`), `CountCorrect` (`CountAccurate`); `Refinement`: with one thread at each end (`OneEach`) implements `FifoPool`. Of `CommandQueue`, where one handler reads (`OneReader`): `QueueInvariance`; `QueueTypeCorrect` (`QueueTypeOK`), `HandlerKeepsItsCommand` (`SameCommand`), `ExecutedOnce` (`OnceOnly`) |
| `Sorter_proofs` | `Invariance` (`IInv`), `ReleasedOnTime` (`OnTime`), `LinkedOnce` (`OneList`); `Refinement`: implements `Schedule` |
| `Tasks_proofs` | `Invariance`; `TypeCorrect`, `ClockAlwaysPointed` (`ClockPointed`) |
| `Connections_proofs` | `Invariance`; `TypeCorrect`, `ListsAgreeAlways` (`ListsAgree`), `NothingDangles` (`NoDangling`); `Refinement`: implements `Patchbay`; all where no alarm connects (`Interrupts = {}`) |
| `Drivers_proofs` | `Invariance`; `TypeCorrect`, `DriversAwakeTogether` (`AwakeTogether`), `CellsConserved` (`Conserved`), `NobodyIsForgotten` (`NobodyForgotten`); the action property `EventsFollowConnections` (`FollowsConnections`) |
| `Streams_proofs` | `Invariance`; `TypeCorrect`, `IntactAlways` (`Intact`); where the sender's messages are no real-time messages, `FaithfulAlways` (`Faithful`) |
| `Player_proofs` | `TypeCorrect`; with two cells for the tasks (`Cardinality(Cell) > 1`), `PunctualAlways` (`Punctual`), `ChasedAlways` (`Chased`) and the action property `SilentAlways` (`Silent`) |

### LFLifo

`IInv` is the conjunction of the type invariant, of `Linked` (the links follow the
history variable `stack`), of `OneOwner`, and of the snapshot invariant: a thread
that has read `oc`, and finds it unchanged, has read a top and a link which are
still those of the list if `top` has not changed either. That last part is what
the counter is for, and neither `Linked` nor `OneOwner` is inductive without it:
`PopCAS2` writes `lnext[p]`, read long ago, into `top`. `CountAccurate` follows
from a part of its own on the threads that have changed the list but not yet the
count. The refinement is by cases on the action: three of them map to steps of
`FreeList`, calls and returns to calls and returns, the others stutter.

### LFFifo

`ChainOK` follows pointers, and no step-by-step argument can speak of "the cells
met from here on" directly. The invariant therefore says that there are *strands*:
arrays of cells, one for the list and one for each thread that has a cell to link,
each linked from its first cell to its last. `Shape` is the conjunction of
`Threaded` (the links follow the strands), `OnePlace` (a cell is in one strand,
once), `Anchored` (the head is the first cell of the list; where the tails are) and
`Somewhere` (every cell is in a strand, or owned). `Locals` says what a thread
has seen: its tail and head while the counters are unchanged (`TailSeen`,
`HeadSeen`), the cell it works with (`CellHeld`).

A put hangs its cell to the tail it has read. That tail may meanwhile have been
taken out and be about to be put again by another thread, so that it hangs to
that thread's strand, and nothing forbids at first sight that two strands hang to
each other. `Ordered` excludes it: there is an order of the threads, the one that
put its cell again later being above, and a strand hangs below. `Tallied` relates the
count to the strands. `ChainOK` comes from `Threaded` by a lemma that walks
along the links (`WalkPath`); the sum in `CountAccurate` from an induction on a
finite set of threads.

`Refinement` is proved where one thread puts and one gets (`OneEach`), as the run has
it and as the reception lists are used. Its pool is the cells that nobody has: those
in the list, and those behind the dummy while its reader puts it back (`LinkedIs`).
`PoolInv` adds to `IInv` who may be where (`Roles`), that nobody links a cell behind
one that is not linked itself (`Alone`), that the tail to which the dummy is to be
linked stays in the list (`Stays`), and that nobody else moves the head while a get
looks at it (`Fresh`). With them a get that reads `End` behind the head sees an empty
pool (`SeesEmpty`): it is alone, and has only the dummy. Each action then maps to a
step or a stutter: the link of a put is `Put`, the successful CAS2 of a get `Get`.
With a second producer in the run, TLC finds it false: one producer may link its cell
behind a cell that the other has not linked yet, so that a put can end before its cell
can be got.

### Sorter

In the middle of a tick the buffers are not where they are between two ticks: a
level may have turned while the next one has not, and some events of a level have
been moved down. `Placed` says, for every event and every state of the tick, in which
level, buffer and fifo it is, from the first digit in which its date differs from
the sorter's; `Aligned` says which of the levels have turned. With them `OnTime` is
inductive. The arithmetic (comparing dates is comparing their digits, what the
carry does) is a dozen lemmas for any base.

`Refinement` reads the four levels as one list for each date (`Ordered`), from the
last level, whose events were taken first, up to the first. `ToDate` and `Number` are
inverse (`ToDateOfNumber`, `NumberOfToDate`), a date is after another when its number
is greater (`AfterIsGreater`), and the carry adds one (`FollowingNumber`). What picking
the events of one date out of a list does when the list loses its first event or gets
a new last one (`OfDateTail`, `OfDateAppend`) is an induction on the length of the list,
done without the induction theorems of the library: a set of numbers that is not empty
has a least one (`Least`). The steps are then these.

- A level holds the events of a date in one of its two buffers only (`OneBuffer`), so
  that turning them changes no list.
- `PutEvent` adds an event at the end of the list of its date: the levels above the
  one it is put in hold nothing of that date.
- `BufferPut` moves an event from the front of what one level holds to the end of what
  the next one holds, so that the list stays as it is.
- The last level releases the list of the new date, and no event of another
  (`ReleasedIs`); the late events go before it.

Beside `IInv` the argument needs `Rest`: the events taken from the input fifo are all
sorted, and those released all delivered, before the handler goes on.

### CommandQueue (in `LFFifo_proofs`)

A step of the queue is a step of the fifo or leaves it alone, so that `IInv` of `LFFifo`
holds of it. `QueueInv` adds, for any number of senders:

- who calls what (`Roles`, `Single`), and that the tail a sender has read while its cell
  is not linked is in the list or in a strand (`TailLinked`);
- `Sight`: what the handler has looked at, and is between look and removal, is at the head,
  or behind the dummy at the head (`Watched`); what the accesses of a look or of a removal
  have read so far agrees with it (`AvailSees`, `GetSees`). The handler is the only one that
  moves the head, and what is behind a cell of the list stays behind it, so that senders
  disturb nothing; when the removal meets the dummy it puts it at the end of the list
  (`DummyLast`), behind what was seen;
- `Fits`: which call of the fifo goes with which place of the handler, when it has an
  answer in hand, and that what was dropped is in nobody else's hands.

A look that answers the end marker, or nothing, has seen nothing: `SameCommand` is about
looks that answer a command, and `OnceOnly` about all.

### Connections

The theorems have the hypothesis `Interrupts = {}` (`Quiet`), the setting of the run: no
alarm changes connections. With one, lists break (run `alarm_connects`). The clock handler
comes between any two writes of a call, and clients close with events still to come.

A list is a path: a sequence of distinct cells, each linked to the next, the last to
nothing (`IsPath`); following the links from its first cell finds it (`ChainPath`). Four
lemmas say what a write does to a list: nothing, if it is to a cell of another
(`SameList`), add a cell in front (`LongerList`), take the first away (`ShorterList`), or
another one (`CutList`, `RemoveOne`).

`IInv` says of every state that the lists are paths and lead to connections between
clients that exist (`Wired`), that the two lists tell the same but for the one cell a call
is about to link or has half unlinked (`Twins`), that no pair is connected twice
(`Pairs`), that each cell is free, an event, a connection or the one a call holds
(`Limbo`), one of them only (`Apart`, `Once`), and what a call knows at each of its
writes (`Calls`). The list of a client that closes begins, in the proof, with the first
cell not yet freed (`DstFrom`, `SrcFrom`), for that is the list `MSClose` goes on along;
the head
still leads through freed cells (`Emptying`), and what the handler then delivers can be
anything: it takes free cells for its copies and changes no list.

For the refinement each step lemma also says which connections it makes or ends:
`SameConnections`, `Gained` or `Lost`. Only `PutDst` gains one, only `ClearDst`,
`CloseSrc` and `CloseDst` lose one; everything else is work that a user of `Patchbay`
does not see. `Dispatch` serves the first places of the list, as many as there are
cells: their ranks are the numbers from 1 on (`Ranks`), so that there are exactly
that many copies (`FirstOf`).

### Drivers

`Counted` relates `nbDrivers` to the drivers in the table, and says that the connected
drivers are those both registered and awake. `Looped` is about the loops of `OpenDrivers` and
`CloseDrivers`, in the middle of which drivers come and go: those left out so far
(`Missed`, `Spared`) are no more than came meanwhile (`late`), and what is left of the count
(`todo`) is enough for those still ahead (`Ahead`), up to as many. `Wired` is that the two
bit maps agree, up to the one write that a cut call has still to make (`Agree`);
`Kept` is the conservation of cells; `Marked` relates flags, alarms and the active
table. The routing of an event (`FollowsConnections`) is an action property that
follows from `Wired`.

### Tasks

`Queued` says what is in a fifo of deferred tasks. `Pointed` says, of a clock, unless
`cut` says that a task fell due inside `MSForgetTask`: a call that forgets works on the
task of the client's variable, and a clock that closes has none (`Current`); the task at
the pointer is the client's own, and dead only at the end of the call (`Owned`); the
clock has no other task (`Single`).

### Streams

Any number of cells, any room in a cell, any texts. What allocation, copy and release do
to the cells is computed by functions (`walk`, `copied`, `added`), of which only the
recurrence is known; what such a computation keeps is shown by induction on the number of
its steps (`Induction`, from `NatLessThanWellFounded`): no theorem is about data of any
shape, only about so many steps.

`IInv` says (`Shared`) that there is a function `w` that gives each cell to one owner: the
free list, an event of the sender (to the cell of its header), the output stream, the
parser, or nobody, once a device has failed. The share of an event with extensions is its
header and a ring in which all cells but the last are full (`Event`); that of the output
stream is what is left of a ring that was opened (`Line`). `w` is a witness that no operation
computes: `Held`, in `Intact`, follows the links instead, and finds exactly the shares. So each
operation is judged by the cells it takes and gives back, and links of other shares need not
be looked at.

The parser has one event at a time; it must not begin another while it has one, or the
cells are lost. That this never happens is a property of the bytes: between two
beginnings, as far as they are on the wire or ready to be sent, there is an end (`Paired`),
and an opened ring still to be sent will give that end. It holds until a device
refuses part of a message (`resets`), and `Intact` claims no more.

`Faithful` needs an invariant of its own, `Tracked`, about the contents. The messages that
are due are a sequence of bytes; a *place* in it (`Places`) is a number of messages behind and
of bytes within the next one. A byte moves from a place to another (`Moves`): it begins a
message, is within one, or ends one; the second half of a double control follows the
first without a status, so that the end of a control change may already be within the next
one. Bytes lead (`Leads`) from a place to another if each moves where the next
one starts. `Tracked` says that the parser is at some place (`AtPlace`: its state, the type
and the text of its event are those of that place); that from there the bytes on the wire,
those ready in the stream and those in the cells still to be taken lead, one after the
other, to the end of what is due (`Carried`). Before anything is missed that first place is
in the first message due; afterwards it may be in any, since bytes are skipped.

So a step of the sender lengthens the route at its end, whatever is in between, and a byte
received shortens it at its beginning: `ReceiveEffect` says what one byte does to parser and
event (`Effect`), `EffectMoves` that this is what the route says, with the message that
is completed, if any, the next one due. `CarriedAll` is the other half: when nothing is
under way and nothing was missed, the place reached is the end. That the text of the cells
still to be taken is the rest of the message is a walk along the list with what it holds
(`LineText`), for any length. The hypothesis `NoRealTime` is about the specification: a
real-time byte may arrive anywhere, so that `Arrived` does not count it, and `Merge` is
where it comes from.

### Player

The theorems are about any score, any tempo map, any loop and any positions, and any
number of calls. Two tasks, the tick player's and the synchroniser's, each know a date,
and the kernel holds what is left until then by the tempo of the moment when they were
scheduled.

`IInv` needs no hypothesis. Of the objects it says (`Sane`) that the kernel's tasks and
their owners point to each other and that the table has exactly the tasks that are not
idle (`Pointed`); that what is left of the synchroniser's task is what the tempo met last
says (`Followed`, `Exact`); that the chaser has met the events before its own date, and no
others (`Met`). Of a user's call it says that the calls still to make are the rest of one
of the sequences the user's calls begin with (`Proper`, an order in which each call follows
another), and that between `SynchroStop` and `SynchroStart` or `SynchroCont` the player does
not play (`Quiet`).

Three invariants build on it, each of a player that no event to itself has crossed:
`Timely` (the synchroniser is never late; the date of the tempo met last has come; what the
tick player has behind it has come, and its task waits for the next date), `Chasing` (the
notes that sound are those under way at the place of the tick player, or are excused; the
program is the last one before it) and `Orderly` (an end of the loop never waits behind an
end of the score). What they say depends on the call that comes next: `Playing`, `Audible` and
`Patched` state it for each.

The dates in milliseconds are a sum along the map (`Ms`), known by its recurrence only;
that it grows is an induction on dates (`MsGrows`). A date computed from the tempo met last
is right as long as no other tempo comes before it (`ComesInTime`, `InTime`): this is why the
synchroniser must schedule the pending tasks again before a tick player's task that has
become late falls due, and where `NeverLate` is used.

Each of the twelve calls has a lemma that it carries the invariants to the rest of the
sequence (`Carried`: `SynchroStopStep`... `DoneCarried`). A user's call begins a sequence
(`Enters`, `CallKept`). `ReceiveStop` and `ReceiveLoopEnd` make several of these calls at
once: they are followed as if the user had begun the same sequence, and no lemma is
stated twice (`CarriedOn`, `StopsAll`, `GoesTo`). `Inductive` puts the steps together.

The hypothesis is needed: with one cell (`Cardinality(Cell)` = 1) a task is not made. None is
made about the loop or the memory of a new chaser: `SilentAlways` allows the jump to the
start of the loop, and `ChasedAlways` says nothing of the program while `fresh` is set.

## Only model-checked

- Liveness, since `ENABLED` and fairness are out of the prover's reach: that calls return
  (`CallsReturn`, of both lists), events are released (`Released`), a command left over is
  taken at the next wake-up (`WokenByTheNext`), tasks end (`TasksEnd`).

## Not modelled, and why

- The PowerPC versions of the lists use load-reserve/store-conditional and differ
  in their steps; the Intel ones are those compiled today.
- Wrap-around of the 32-bit counters `oc` and `ic`.
- `msSmpte.c` has no code behind its functions; `msTime.c` is arithmetic without
  state; `msFields.c` sets and reads fields of events; `msSeq.c` links events of one
  owner; the methods of other event types are of the forms that `Streams` models.
- Several clients that connect at the same instant: `MSConnect` has no lock, and
  two threads inside it at once is the situation of an alarm that connects.
- Filters and names of clients: plain fields, read at one place.
- The rest of the player: step playing, clock output, MIDI clock and SMPTE
  synchronisation and the recorder are objects of the same form beside those that
  are modelled; mute and solo filter events; the contents of the tracks do not change.
- MIDI files and RTP: formats read and written sequentially; drivers of
  interfaces and networks: calls of the system around the stream libraries.
- Language bindings, tools, applications: users of the kernel. They and copies of
  the libraries in several directories are most of the lines of the repository.

## Plan

Every safety property that a passing run checks is a theorem. To be modelled next: two clients that
connect at once; events whose methods link several of one owner (`msSeq.c`); the recorder
and the external synchronisation of the player.
