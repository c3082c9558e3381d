------------------------------ MODULE Streams ------------------------------
(***************************************************************************)
(* Events of several cells (msEvents.c) and their way over a MIDI line:    *)
(* EventToMidiStream.c turns an event into bytes, MidiStreamToEvent.c      *)
(* turns bytes back into events, while cells may be missing.               *)
(*                                                                         *)
(* The data of a system exclusive message is kept in a ring of extension   *)
(* cells; the header points to the last one, whose link is the first.  A   *)
(* full cell has as many bytes as it has room for; the last one is never   *)
(* full, since its last byte is the count of the others.                   *)
(*                                                                         *)
(* Types that have the same methods stand for each other: KeyOn for        *)
(* messages with two data bytes, ProgChange for those with one, Clock for  *)
(* the real-time messages, which may come anywhere on a line.  A byte is   *)
(* negative when it is a status, as a char of the code is.                 *)
(***************************************************************************)
EXTENDS Integers, Sequences, FiniteSets, FiniteSetsExt, SequencesExt

CONSTANTS
    Cell,         \* the cells of the free list, numbers
    NULL,         \* the null pointer
    Room,         \* bytes of a cell: 12 in the code
    Text,         \* the contents of system exclusive messages to be sent
    Small,        \* the other messages to be sent, with their data
    MaxWire,      \* bound: bytes on their way
    MaxCopies,    \* bound: copies the sender has of the event it made last
    MaxDue,       \* bound: messages on the line before it is idle again
    MaxReset      \* bound: failures of the output device

NoteOn == -1
ProgramChg == -2
ControlChg == -3
SysEx == -4
EndSysX == -5
MClock == -6
Note == -7                        \* typeNote: no byte, a key on and its end
Ctrl14b == -8                     \* typeCtrl14b: two control changes
Data == {0, 1}
Byte == Data \cup {NoteOn, ProgramChg, ControlChg, SysEx, EndSysX, MClock}

Message(s, d) == [status |-> s, data |-> d]
None == Message(0, <<>>)

\* The messages without extensions.
SmallMessages ==
    {Message(s, d) : s \in {NoteOn, ControlChg, Note}, d \in Data \X Data}
    \cup {Message(ProgramChg, <<v>>) : v \in Data} \cup {Message(MClock, <<>>)}
    \cup {Message(Ctrl14b, d) : d \in Data \X Data \X Data \X Data}

ASSUME StreamsAssumption ==
    /\ IsFiniteSet(Cell) /\ Cell \subseteq Nat /\ NULL \notin Cell
    /\ Room \in Nat \ {0, 1} /\ MaxWire \in Nat \ {0}
    /\ MaxCopies \in Nat /\ MaxDue \in Nat /\ MaxReset \in Nat
    /\ Text \subseteq Seq(Data) /\ Small \subseteq SmallMessages

VARIABLES
    free,         \* cells of the free list
    ev,           \* ev[x]: status and data in the header x
    se,           \* se[x]: the last extension cell of the header x
    link,         \* link[x]: the next extension cell
    bytes,        \* bytes[x]: what extension cell x holds
    own,          \* own[x]: what the sender wrote into its event x, or None
    out,          \* Ev2StreamRec: bytes ready, cells to come
    wire,         \* bytes on their way
    in,           \* StreamFifo: method, type, first data, event so far
    due,          \* messages put on the line that have not arrived
    missed,       \* memory or the device failed since the line was idle
    resets        \* how often the device has failed

heap == [free |-> free, ev |-> ev, se |-> se, link |-> link, bytes |-> bytes]
heapVars == <<free, ev, se, link, bytes>>
vars == <<heapVars, own, out, wire, in, due, missed, resets>>

\* The heap becomes h; a free cell holds nothing that matters.
Becomes(h) ==
    /\ free' = h.free
    /\ ev' = [x \in Cell |-> IF x \in h.free THEN NULL ELSE h.ev[x]]
    /\ se' = [x \in Cell |-> IF x \in h.free THEN NULL ELSE h.se[x]]
    /\ link' = [x \in Cell |-> IF x \in h.free THEN NULL ELSE h.link[x]]
    /\ bytes' = [x \in Cell |-> IF x \in h.free THEN <<>> ELSE h.bytes[x]]

---------------------------------------------------------------------------
(* Events (msEvents.c).  Each operator gives a heap.                       *)

FreeCell(h, x) == [h EXCEPT !.free = @ \cup {x}]

\* The cell MSNewCell takes from the heap h, which has one; the cell of lowest
\* number stands for whichever it is.
Next1(h) == Min(h.free)
Taken(h) == [h EXCEPT !.free = @ \ {Next1(h)}]

\* NewSmallEv, when there is a cell.
NewSmallEv(h, m) == [Taken(h) EXCEPT !.ev[Next1(h)] = m]

\* NewSexEv, when there are two cells; the extension is a ring of itself.
NewSexEv(h) ==
    LET x == Next1(h)
        y == Next1(Taken(h))
    IN [Taken(Taken(h)) EXCEPT !.ev[x] = Message(SysEx, <<>>), !.se[x] = y,
                               !.link[y] = y, !.bytes[y] = <<>>]

\* Extension cells from x on, until the links come back to it or end.
Cells(h, x) ==
    LET walk[n \in 0..Cardinality(Cell)] ==
          IF n = 0 THEN <<x>>
          ELSE LET c == walk[n - 1]
                   y == h.link[Last(c)]
               IN IF y \in {NULL, x} THEN c ELSE Append(c, y)
    IN walk[Cardinality(Cell)]

\* What an event holds: the first cell is behind the last.
Content(h, x) ==
    LET c == Cells(h, h.se[x]) IN
    FlattenSeq([i \in 1..Len(c) - 1 |-> h.bytes[c[i + 1]]]) \o h.bytes[c[1]]

\* FreeSexEv walks from the last extension until it is back.
FreeSexEv(h, x) == [h EXCEPT !.free = @ \cup {x} \cup ToSet(Cells(h, h.se[x]))]

MSFreeEv(h, x) == IF h.ev[x].status = SysEx THEN FreeSexEv(h, x) ELSE FreeCell(h, x)

\* Mutant: the place of the count is given away.
NeedsCellLate(h, x) == Len(h.bytes[h.se[x]]) = Room

\* AddFSexEv needs a cell when the last one has a single place left, which
\* would hold its count.
NeedsCell(h, x) == Len(h.bytes[h.se[x]]) = Room - 1

AddFSexEv(h, x, v) ==
    LET last == h.se[x]
        new == Next1(h)
    IN IF ~NeedsCell(h, x) THEN [h EXCEPT !.bytes[last] = Append(@, v)]
       ELSE [Taken(h) EXCEPT !.bytes[last] = Append(@, v), !.bytes[new] = <<>>,
                             !.link[new] = h.link[last], !.link[last] = new,
                             !.se[x] = new]

\* CopyPrivateEv of a header and its last extension, whose link is copied too.
CopyPrivateEv(h, x) ==
    LET c == Next1(h)
        y == Next1(Taken(h))
    IN [Taken(Taken(h)) EXCEPT !.ev[c] = h.ev[x], !.se[c] = y,
                               !.link[y] = h.link[h.se[x]], !.bytes[y] = h.bytes[h.se[x]]]

\* Mutant: the ring is not closed before it is freed.
RolledBackOpen(h, copy, previous) == FreeSexEv(h, copy)

\* No cell for the next extension: the ring is closed and given back.
RolledBack(h, copy, previous) ==
    FreeSexEv([h EXCEPT !.link[previous] = h.se[copy]], copy)

\* Its loop: the extensions behind the last one, c[1], are copied in their order,
\* each linked behind the previous one.
CopyCells(h, copy, c) ==
    LET copied[n \in 1..Len(c)] ==
          IF n = 1
          THEN [heap |-> h, previous |-> h.se[copy], ok |-> TRUE]
          ELSE LET s == copied[n - 1]
                   new == Next1(s.heap)
               IN IF ~s.ok THEN s
                  ELSE IF s.heap.free = {}
                  THEN [s EXCEPT !.ok = FALSE, !.heap = RolledBack(s.heap, copy, s.previous)]
                  ELSE [s EXCEPT !.previous = new,
                                 !.heap = [Taken(s.heap) EXCEPT !.link[s.previous] = new,
                                                                !.link[new] = h.link[c[n]],
                                                                !.bytes[new] = h.bytes[c[n]]]]
    IN copied[Len(c)]

\* CopySexEv, when the first two cells are there; at the end the ring is closed.
CopySexEv(h, x) ==
    LET copy == Next1(h)
        end == CopyCells(CopyPrivateEv(h, x), copy, Cells(h, h.se[x]))
    IN IF end.ok THEN [end EXCEPT !.heap.link[end.previous] = end.heap.se[copy]] ELSE end

---------------------------------------------------------------------------
(* The sender                                                              *)

lineVars == <<out, wire, in, due, missed, resets>>

Owned == {x \in Cell : own[x] # None}

\* MidiNewEv and its fields, for a message without extensions.
MidiNewEv(m) ==
    /\ Owned = {} /\ free # {}
    /\ Becomes(NewSmallEv(heap, m))
    /\ own' = [own EXCEPT ![Next1(heap)] = m]
    /\ UNCHANGED lineVars

\* MidiAddField for each byte.  It does not say when it finds no cell.
AddFields(h, x, text) ==
    LET added[n \in 0..Len(text)] ==
          IF n = 0 THEN [heap |-> h, ok |-> TRUE]
          ELSE LET s == added[n - 1] IN
               IF ~s.ok \/ (NeedsCell(s.heap, x) /\ s.heap.free = {})
               THEN [s EXCEPT !.ok = FALSE]
               ELSE [s EXCEPT !.heap = AddFSexEv(s.heap, x, text[n])]
    IN added[Len(text)]

\* The same for a system exclusive: the client counts the fields, and gives back
\* the event that has too few.
MidiNewSysEx(text) ==
    /\ Owned = {} /\ Cardinality(free) > 1
    /\ LET x == Next1(heap)
           end == AddFields(NewSexEv(heap), x, text)
       IN IF end.ok
          THEN Becomes(end.heap) /\ own' = [own EXCEPT ![x] = Message(SysEx, text)]
          ELSE Becomes(FreeSexEv(end.heap, x)) /\ UNCHANGED own
    /\ UNCHANGED lineVars

\* MidiCopyEv of an event with extensions.
MidiCopyEv(x) ==
    /\ Cardinality(Owned) <= MaxCopies /\ own[x].status = SysEx /\ Cardinality(free) > 1
    /\ LET end == CopySexEv(heap, x) IN
       /\ Becomes(end.heap)
       /\ own' = IF end.ok THEN [own EXCEPT ![Next1(heap)] = own[x]] ELSE own
    /\ UNCHANGED lineVars

MidiFreeEv(x) ==
    /\ own[x] # None
    /\ Becomes(MSFreeEv(heap, x))
    /\ own' = [own EXCEPT ![x] = None]
    /\ UNCHANGED lineVars

---------------------------------------------------------------------------
(* Events to bytes (EventToMidiStream.c)                                   *)

Idle == out.data = <<>>           \* f->count is zero

\* The messages an event stands for.
Messages(m) ==
    IF m.status = Note THEN <<Message(NoteOn, m.data)>>
    ELSE IF m.status = Ctrl14b
    THEN <<Message(ControlChg, SubSeq(m.data, 1, 2)), Message(ControlChg, SubSeq(m.data, 3, 4))>>
    ELSE <<m>>

\* Messages are put on an idle line or behind others.
Put(m) ==
    LET fresh == wire = <<>> IN
    /\ due' = (IF fresh THEN <<>> ELSE due) \o Messages(m)
    /\ Len(due') <= MaxDue
    /\ missed' = (missed /\ ~fresh)

\* MidiStreamPutEvent for events without extensions: the status and the data.
\* runStat is zero whenever an event is accepted (NormalContinuation), so that
\* the status is never left out.  A note comes back to
\* the driver as the key on that ends it, to be put at its date.
PutSmall(x) ==
    /\ Idle /\ own[x] # None /\ own[x].status # SysEx
    /\ out' = [out EXCEPT !.data = <<Head(Messages(ev[x])).status>> \o ev[x].data]
    /\ Put(own[x])
    /\ IF ev[x].status = Note
       THEN LET end == Message(NoteOn, <<ev[x].data[1], 0>>) IN
            Becomes([heap EXCEPT !.ev[x] = end]) /\ own' = [own EXCEPT ![x] = end]
       ELSE Becomes(FreeCell(heap, x)) /\ own' = [own EXCEPT ![x] = None]
    /\ UNCHANGED <<wire, in, resets>>

\* SysExLinearizeMth opens the ring, and takes the first extension.
PutSysEx(x) ==
    /\ Idle /\ own[x].status = SysEx
    /\ LET first == link[se[x]]
           opened == [heap EXCEPT !.link[se[x]] = NULL]
           end == IF first = se[x] THEN <<EndSysX>> ELSE <<>>
       IN /\ out' = [data |-> <<SysEx>> \o bytes[first] \o end, next |-> opened.link[first]]
          /\ Becomes(FreeCell(FreeCell(opened, x), first))
    /\ Put(own[x])
    /\ own' = [own EXCEPT ![x] = None]
    /\ UNCHANGED <<wire, in, resets>>

\* SysExContinuation: the bytes of the next cell, which closes the message if
\* it is the last.
Continued(c) == bytes[c] \o (IF link[c] = NULL THEN <<EndSysX>> ELSE <<>>)

\* MidiStreamGetByte, and the continuation when no byte is left.
MidiStreamGetByte ==
    /\ ~Idle /\ Len(wire) < MaxWire
    /\ wire' = Append(wire, Head(out.data))
    /\ IF Len(out.data) > 1 \/ out.next = NULL
       THEN out' = [out EXCEPT !.data = Tail(@)] /\ UNCHANGED heapVars
       ELSE /\ out' = [data |-> Continued(out.next), next |-> link[out.next]]
            /\ Becomes(FreeCell(heap, out.next))
    /\ UNCHANGED <<own, in, due, missed, resets>>

\* MidiStreamReset, when the device refuses part of a long message.
MidiStreamReset ==
    /\ resets < MaxReset
    /\ ~Idle /\ (out.next # NULL \/ Last(out.data) = EndSysX)
    /\ Becomes(IF out.next = NULL THEN heap
               ELSE [heap EXCEPT !.free = @ \cup ToSet(Cells(heap, out.next))])
    /\ out' = [data |-> <<>>, next |-> NULL]
    /\ missed' = TRUE
    /\ resets' = resets + 1
    /\ UNCHANGED <<own, wire, in, due>>

\* Another source adds a real-time message to the line.
Merge ==
    /\ Len(wire) < MaxWire
    /\ wire' = Append(wire, MClock)
    /\ UNCHANGED <<heapVars, own, out, in, due, missed, resets>>

---------------------------------------------------------------------------
(* Bytes to events (MidiStreamToEvent.c).  Each handler gives the state of  *)
(* the parser, the heap, the message completed and whether a cell missed.   *)

Result(i, h, m, miss) == [in |-> i, heap |-> h, msg |-> m, miss |-> miss]
Goes(i) == Result(i, heap, None, FALSE)

\* rcvStore and rcvCommon0: the event needs a cell.  Its receiver frees it.
Store(i, m) == IF free = {} THEN Result(i, heap, None, TRUE)
               ELSE Result(i, heap, m, FALSE)

\* rcvSysExBeg: whatever event there was is forgotten.
rcvSysExBeg(i) ==
    IF Cardinality(free) < 2
    THEN Result([i EXCEPT !.parse = "Status"], heap, None, TRUE)
    ELSE Result([parse |-> "SysExNext", status |-> 0, data |-> 0, cur |-> Next1(heap)],
                NewSexEv(heap), None, FALSE)

\* rcvStatus: the method of the status; bytes that are none are ignored, and a
\* status without a message of its own, EndSysX, changes nothing.
rcvStatus(i, c) ==
    IF c \in {NoteOn, ControlChg, ProgramChg}
    THEN Goes([parse |-> IF c = ProgramChg THEN "DataU" ELSE "DataM",
               status |-> c, data |-> 0, cur |-> i.cur])
    ELSE IF c = SysEx THEN rcvSysExBeg(i)
    ELSE IF c = MClock THEN Store(i, Message(MClock, <<>>))
    ELSE Goes(i)

\* Mutant: a real-time byte ends the message as any status does.
rcvSysExEndAny(i, c) ==
    IF c # EndSysX THEN rcvStatus([i EXCEPT !.parse = "Status"], c)
    ELSE Result([i EXCEPT !.parse = "Status", !.cur = NULL], FreeSexEv(heap, i.cur),
                Message(SysEx, Content(heap, i.cur)), FALSE)

\* rcvSysExEnd: real-time bytes and others go their way, and the parser keeps
\* the event; EndSysX completes it.
rcvSysExEnd(i, c) ==
    IF c # EndSysX THEN rcvStatus(i, c)
    ELSE Result([i EXCEPT !.parse = "Status", !.cur = NULL], FreeSexEv(heap, i.cur),
                Message(SysEx, Content(heap, i.cur)), FALSE)

\* rcvSysExNext: a byte is added, or the event given back.
rcvSysExNext(i, c) ==
    IF c < 0 THEN rcvSysExEnd(i, c)
    ELSE IF NeedsCell(heap, i.cur) /\ free = {}
    THEN Result([i EXCEPT !.parse = "Status", !.cur = NULL], FreeSexEv(heap, i.cur), None, TRUE)
    ELSE Result(i, AddFSexEv(heap, i.cur, c), None, FALSE)

\* rcvDataM, rcvDataD: two data bytes, again and again while no status comes.
rcvDataM(i, c) ==
    IF c < 0 THEN rcvStatus(i, c) ELSE Goes([i EXCEPT !.parse = "DataD", !.data = c])

rcvDataD(i, c) ==
    IF c < 0 THEN rcvStatus(i, c)
    ELSE Store([i EXCEPT !.parse = "DataM", !.data = 0], Message(i.status, <<i.data, c>>))

rcvDataU(i, c) ==
    IF c < 0 THEN rcvStatus(i, c) ELSE Store(i, Message(i.status, <<c>>))

MidiParseByte(i, c) ==
    IF i.parse = "Status" THEN rcvStatus(i, c)
    ELSE IF i.parse = "DataM" THEN rcvDataM(i, c)
    ELSE IF i.parse = "DataD" THEN rcvDataD(i, c)
    ELSE IF i.parse = "DataU" THEN rcvDataU(i, c)
    ELSE rcvSysExNext(i, c)

\* What is still due once m has come.
Later(m) ==
    LET at == {i \in 1..Len(due) : due[i] = m}
    IN IF m.status \in {0, MClock} \/ at = {} THEN due
       ELSE SubSeq(due, Min(at) + 1, Len(due))

\* The input of a driver.
Receive ==
    /\ wire # <<>>
    /\ LET r == MidiParseByte(in, Head(wire)) IN
       /\ in' = r.in
       /\ Becomes(r.heap)
       /\ missed' = (missed \/ r.miss)
       /\ due' = Later(r.msg)
    /\ wire' = Tail(wire)
    /\ UNCHANGED <<own, out, resets>>

---------------------------------------------------------------------------
Init ==
    /\ free = Cell
    /\ ev = [x \in Cell |-> NULL] /\ se = [x \in Cell |-> NULL]
    /\ link = [x \in Cell |-> NULL] /\ bytes = [x \in Cell |-> <<>>]
    /\ own = [x \in Cell |-> None]
    /\ out = [data |-> <<>>, next |-> NULL] /\ wire = <<>>
    /\ in = [parse |-> "Status", status |-> 0, data |-> 0, cur |-> NULL]
    /\ due = <<>> /\ missed = FALSE /\ resets = 0

Next ==
    \/ \E m \in Small : MidiNewEv(m)
    \/ \E text \in Text : MidiNewSysEx(text)
    \/ \E x \in Cell : \/ MidiCopyEv(x) \/ MidiFreeEv(x)
                       \/ PutSmall(x) \/ PutSysEx(x)
    \/ MidiStreamGetByte \/ MidiStreamReset \/ Merge
    \/ Receive

Spec == Init /\ [][Next]_vars

---------------------------------------------------------------------------
(* Properties                                                              *)

\* Every variable has its type: in particular no extension holds more than a
\* cell has room for, and the bytes ready never exceed data[16] of the code.
TypeOK ==
    /\ free \subseteq Cell
    /\ se \in [Cell -> Cell \cup {NULL}] /\ link \in [Cell -> Cell \cup {NULL}]
    /\ \A x \in Cell : Len(bytes[x]) <= Room /\ (own[x] # None => x \notin free)
    /\ out.next \in Cell \cup {NULL}
    /\ Len(out.data) <= Max({5, Room + 1}) /\ Len(wire) <= MaxWire
    /\ ToSet(out.data) \cup ToSet(wire) \subseteq Byte
    /\ in.parse \in {"Status", "DataM", "DataD", "DataU", "SysExNext"}
    /\ in.parse = "SysExNext" => in.cur # NULL

\* The cells of an event.
CellsOf(x) == {x} \cup (IF se[x] = NULL THEN {} ELSE ToSet(Cells(heap, se[x])))

\* The cells of each owner: the free list, the sender's events, the output stream and the parser.
Owners == {<<"own", x>> : x \in Owned} \cup {<<"free", 0>>, <<"out", 0>>, <<"in", 0>>}
Held ==
    [k \in Owners |->
       IF k[1] = "own" THEN CellsOf(k[2])
       ELSE IF k[1] = "free" THEN free
       ELSE IF k[1] = "out" THEN (IF out.next = NULL THEN {} ELSE ToSet(Cells(heap, out.next)))
       ELSE IF in.cur = NULL THEN {} ELSE CellsOf(in.cur)]

\* Events keep what was written into them, copies too, and every cell has one
\* owner, whatever allocation has failed half way (msEvents.c:440, :565): none
\* is lost, but for those of a message that a device has cut off, which the
\* parser forgets when the next one begins (MidiStreamToEvent.c:328).
Intact ==
    /\ \A x \in Owned : (IF own[x].status = SysEx THEN Content(heap, x) ELSE ev[x].data)
                         = own[x].data
    /\ LET held == Held IN
       /\ \A k, l \in Owners : k # l => held[k] \cap held[l] = {}
       /\ resets = 0 => UNION {held[k] : k \in Owners} = Cell

\* The message that the next byte completes.
Arrived == MidiParseByte(in, Head(wire)).msg

\* What arrives is what was sent, in that order: messages of any length, with
\* real-time bytes anywhere between, after messages that were cut off or for
\* which there was no memory; and all of it arrives if nothing of that happened
\* since the line was idle (MidiStreamToEvent.c:356, EventToMidiStream.c:167).
Faithful ==
    /\ [](Idle /\ wire = <<>> /\ ~missed => due = <<>>)
    /\ [][LET m == Arrived IN
          wire # <<>> /\ wire' = Tail(wire) /\ m.status \notin {None.status, MClock} =>
             \E i \in 1..Len(due) : due[i] = m /\ (i = 1 \/ missed)]_vars
=============================================================================
