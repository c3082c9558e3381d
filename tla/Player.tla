------------------------------- MODULE Player -------------------------------
(***************************************************************************)
(* The Player library (libraries/player/src): a score played by tasks of   *)
(* the kernel, each of which plays the events of one date and schedules    *)
(* itself for the next.  A second task follows the tempo map, by which     *)
(* dates in ticks become dates in milliseconds, and schedules the pending  *)
(* tasks again when the tempo changes.                                     *)
(*                                                                         *)
(* The score has an event, or some that are played together, at each tick  *)
(* from 0 to End; the last is typeScoreEnd, which the player sends to     *)
(* itself and whose alarm stops it, as that of the end of the loop makes   *)
(* it go back.  The chaser follows the notes and the programs: each note   *)
(* has a pitch of its own.  Internal synchronisation, no clock output.     *)
(* The handler executes tasks and alarms between two of the calls that a   *)
(* call of the user makes, and is never late.                              *)
(***************************************************************************)
EXTENDS Integers, Sequences, FiniteSets, FiniteSetsExt

CONSTANTS
    End,         \* the date of typeScoreEnd
    Tempo,        \* Tempo[d]: milliseconds of a tick from date d on
    Notes,        \* the dates of each KeyOn and of its KeyOff
    Prog,         \* Prog[d]: the program that is changed to at date d, or NULL
    LoopStart, LoopMarker,  \* where a loop starts, and the date of its marker
    Position,     \* the dates a user goes to
    Far,          \* what a date in ticks before 0 is as an unsigned number
    Garbage,      \* what the uninitialized date of a chaser may hold: any number
    Cell,         \* cells for the tasks of the kernel
    NULL,         \* the null pointer, and a free cell
    MaxMs,        \* bound: how long the score is played
    MaxEnds       \* bound: events to itself on their way when the user calls

Date == 0..End

ASSUME PlayerAssumption ==
    /\ End \in Nat \ {0} /\ Tempo \in [Date -> Nat \ {0}]
    /\ Notes \subseteq {n \in Date \X Date : n[1] < n[2]}
    /\ LoopStart \in Date /\ LoopMarker \in Date
    /\ DOMAIN Prog = Date /\ Garbage \subseteq Nat /\ Garbage # {}
    /\ Position \subseteq Nat /\ Far \in Nat /\ Far > End /\ IsFiniteSet(Cell) /\ NULL \notin Cell
    /\ NULL \notin [task : {"play", "tempo", "freed"}, left : Nat]
    /\ MaxMs \in Nat /\ MaxEnds \in Nat

\* TTicksTask of the tick player and of the synchroniser.
TicksTask == {"play", "tempo"}

VARIABLES
    player,       \* the objects of the player, see TypeOK
    todo,         \* the calls that the user's call has still to make
    crossed       \* a call of the user met a typeScoreEnd or typeLoopEnd on its way

vars == <<player, todo, crossed>>

---------------------------------------------------------------------------
(* Iterators on the score (TScoreIterator)                                 *)

First == [cur |-> 0, date |-> 0, last |-> FALSE]

\* NextDateEv until it returns none: when the iterator has come from another
\* date, no event at all.
NextDate(i) ==
    IF i.last THEN i
    ELSE IF i.date # i.cur THEN [i EXCEPT !.date = i.cur]
    ELSE IF i.cur = End THEN [i EXCEPT !.last = TRUE]
    ELSE [i EXCEPT !.cur = @ + 1, !.date = @ + 1]

\* SetPosTicks, whichever way it has to go.
AtTicks(d) == [cur |-> Min({d, End}), date |-> Min({Max({d - 1, 0}), End}), last |-> d > End]

---------------------------------------------------------------------------
(* The tempo map (TTempoMapVisitor, TTempoConverter)                       *)

\* The date in milliseconds of each event, by the whole map.
Ms[d \in Date] == IF d = 0 THEN 0 ELSE Ms[d - 1] + Tempo[d - 1]

\* The tempo event that the synchroniser has met last.
Base(p) == IF p.tempo.last THEN End ELSE Max({p.tempo.cur - 1, 0})

ConvertTickToMs(p, d) == Ms[Base(p)] + (d - Base(p)) * Tempo[Base(p)]

\* By ULONG: a date before 0 is one after any other.
ConvertMsToTick(p, ms) ==
    LET b == Base(p)
        d == IF ms >= Ms[b] THEN b + (ms - Ms[b]) \div Tempo[b]
             ELSE b - (Ms[b] - ms) \div Tempo[b]
    IN IF d < 0 THEN Far ELSE d

---------------------------------------------------------------------------
(* Tasks in ticks (TScheduler)                                             *)

Forget(p, t) == [p EXCEPT !.status[t] = IF @ = "running" THEN "forget" ELSE @]

\* MidiForgetTask, and the pointer is cleared.
Kill(p, t) ==
    IF p.fTask[t] = NULL THEN p
    ELSE [p EXCEPT !.kernel[p.fTask[t]] = NULL, !.fTask[t] = NULL]

\* NewMidiTask, for the date in milliseconds: what is left until then.
NewMidiTask(p, t) ==
    LET free == {x \in Cell : p.kernel[x] = NULL}
        x == CHOOSE y \in free : TRUE
        left == Max({ConvertTickToMs(p, p.date[t]) - p.elapsed, 0})
    IN IF free = {} THEN [p EXCEPT !.fTask[t] = NULL]
       ELSE [p EXCEPT !.kernel[x] = [task |-> t, left |-> left], !.fTask[t] = x]

IsSchedulable(p) == p.state = "playing"

ScheduleRealTime(p, t) ==
    IF IsSchedulable(p) THEN NewMidiTask(Kill(p, t), t) ELSE p

InsertTask(p, t) == [p EXCEPT !.table = @ \cup {t}]

ScheduleTickTask(p, t, d) ==
    LET q == IF p.status[t] = "idle" THEN InsertTask(p, t) ELSE p
    IN ScheduleRealTime([q EXCEPT !.date[t] = d, !.status[t] = "running"], t)

\* Mutant: the tasks keep their dates in milliseconds.
ReScheduleTasksNone(p) == p

\* The tasks of the table, when the tempo has changed.
ReScheduleTasks(p) ==
    LET Again(q, t) == IF t \in q.table THEN ScheduleRealTime(q, t) ELSE q
    IN Again(Again(p, "play"), "tempo")

---------------------------------------------------------------------------
(* What the tasks do                                                       *)

\* The notes n end.
KeyOff(p, n) == [p EXCEPT !.sound = @ \ n, !.left = @ \ n]

\* CopyAndUseEvent for the events of date d: those the player sends to itself,
\* and those it sends to the synthesizer.
UseEvents(p, d) ==
    LET q == KeyOff(p, {n \in Notes : n[2] = d})
    IN [q EXCEPT !.rcv = @ \o (IF d = LoopMarker THEN <<"loop">> ELSE <<>>)
                          \o (IF d = End THEN <<"end">> ELSE <<>>),
                 !.sound = @ \cup {n \in Notes : n[1] = d},
                 !.prog = IF Prog[d] = NULL THEN @ ELSE Prog[d]]

\* TTickPlayer::PlaySlice.  After its last event the player comes back once
\* more, and sends it again.
PlaySlice(p) ==
    IF p.play.last THEN UseEvents(p, End)
    ELSE LET i == NextDate(p.play)
             q == IF p.play.date = p.play.cur THEN UseEvents(p, p.play.cur) ELSE p
         IN ScheduleTickTask([q EXCEPT !.play = i], "play", i.cur)

\* TPlayerSynchroniserInt::PlaySlice.
TempoSlice(p) ==
    IF p.tempo.last THEN p
    ELSE LET q == [p EXCEPT !.tempo = NextDate(@)]
             r == IF Tempo[Base(q)] # Tempo[Base(p)] THEN ReScheduleTasks(q) ELSE q
         IN ScheduleTickTask(r, "tempo", r.tempo.cur)

Execute(p, t) == IF t = "play" THEN PlaySlice(p) ELSE TempoSlice(p)

\* Mutant: the pointer to the task that is executed is kept.
ClearKept(p, t) == p

Clear(p, t) == [p EXCEPT !.fTask[t] = NULL]

\* TScheduler::ExecuteTaskInt; a task that was forgotten does nothing.
ExecuteTaskInt(p, t) ==
    LET q == Clear([p EXCEPT !.table = @ \ {t}, !.status[t] = "idle"], t)
    IN IF p.status[t] = "running" THEN Execute(q, t) ELSE q

---------------------------------------------------------------------------
(* The chaser (TChaserIterator): what the events before its date leave     *)

\* Mutant: what was met is kept when the chaser goes back.
ChaserInitNot(c) == c

ChaserInit(c) == [fresh |-> FALSE, date |-> 0, from |-> 0, keys |-> {}, prog |-> NULL]

\* The events from where the iterator is to date d.
GoBeginDateTicks(c, d) ==
    LET met == {e \in Date : c.from <= e /\ e < d}
        progs == {e \in met : Prog[e] # NULL}
    IN [fresh |-> FALSE, date |-> d, from |-> Max({c.from, Min({d, End + 1})}),
        keys |-> {n \in Notes : (n \in c.keys \/ n[1] \in met) /\ n[2] \notin met},
        prog |-> IF progs = {} THEN c.prog ELSE Prog[Max(progs)]]

\* SetPosTicks; a new chaser whose date happens to be d stays where it is.
ChaserSetPos(c, d) ==
    IF d = c.date THEN c
    ELSE GoBeginDateTicks(IF d < c.date THEN ChaserInit(c) ELSE c, d)

ChaseOn(p, d) ==
    LET c == ChaserSetPos(p.chase, d)
    IN [p EXCEPT !.chase = c, !.prog = IF c.prog = NULL THEN @ ELSE c.prog]

\* At the position of the tick player.
ChaseOff(p) ==
    LET c == ChaserSetPos(p.chase, p.play.cur)
    IN KeyOff([p EXCEPT !.chase = c], c.keys)

---------------------------------------------------------------------------
(* The calls of TSyncInPlayer to its synchroniser, tick player and chaser  *)

SynchroStop(p) ==
    LET q == Forget(p, "tempo")
    IN [q EXCEPT !.state = "idle", !.elapsed = 0,
                 !.pos = IF p.state = "playing" THEN ConvertMsToTick(p, p.elapsed) ELSE @]

\* Mutant: Stop leaves the task of the tick player as it is.
TickStopNot(p) == p

TickStop(p) == Forget(p, "play")

\* left remembers the notes that were sounding when the position was changed
\* in pause or at Start: nobody ends them, but by chance.
InitAll(p) ==
    [p EXCEPT !.play = First, !.tempo = First, !.pos = 0, !.chase = ChaserInit(@),
              !.left = p.sound]

SynchroStart(p) ==
    ScheduleTickTask([p EXCEPT !.state = "playing", !.elapsed = 0], "tempo", p.tempo.cur)

TickStart(p) == ScheduleTickTask(p, "play", p.play.cur)

SynchroSetPos(p, d) ==
    [p EXCEPT !.tempo = AtTicks(d), !.pos = d,
              !.left = IF p.state = "pause" THEN p.sound ELSE @]
TickSetPos(p, d) == [p EXCEPT !.play = AtTicks(d)]

SynchroCont(p, d) ==
    LET q == [SynchroSetPos(p, d) EXCEPT !.state = "playing"]
    IN ScheduleTickTask([q EXCEPT !.elapsed = ConvertTickToMs(q, d)], "tempo", q.tempo.cur)

TickCont(p, d) == TickStart(TickSetPos(p, d))

GetPosTicks(p) == IF p.state = "playing" THEN ConvertMsToTick(p, p.elapsed) ELSE p.pos

---------------------------------------------------------------------------
(* The objects (TPlayerFactory)                                            *)

\* The constructor sets no date; fresh remembers that nothing has since.
NewChaser(g) == [fresh |-> TRUE, date |-> g, from |-> 0, keys |-> {}, prog |-> NULL]

\* The tasks of the kernel that ~TScheduler kills.
Killed(p) == {p.fTask[t] : t \in p.table}

\* DestroyPlayer and CreatePlayer: a task that was not killed has lost its
\* objects.  g is in the new chaser's memory; a marker of the loop is placed again.
Renew(p, g) ==
    [p EXCEPT
        !.kernel = [x \in Cell |-> IF @[x] = NULL \/ x \in Killed(p) THEN NULL
                                   ELSE [@[x] EXCEPT !.task = "freed"]],
        !.pos = 0, !.elapsed = 0, !.play = First, !.tempo = First,
        !.chase = NewChaser(g), !.table = {}, !.loop = FALSE,
        !.status = [t \in TicksTask |-> "idle"], !.date = [t \in TicksTask |-> 0],
        !.fTask = [t \in TicksTask |-> NULL]]

---------------------------------------------------------------------------
(* The calls of the user (TRunningPlayer, TPlayer)                         *)

Step(op) == <<[op |-> op, date |-> 0]>>
StepTo(op, d) == <<[op |-> op, date |-> d]>>

StopCalls == Step("SynchroStop") \o Step("TickStop") \o Step("ChaseOff")
SetCalls(d) == StepTo("SynchroSetPos", d) \o StepTo("TickSetPos", d)

Stops(p) == p.state \in {"playing", "pause"}

Call(calls) ==
    /\ todo = <<>> /\ calls # <<>> /\ Len(player.rcv) <= MaxEnds
    /\ todo' = calls
    /\ UNCHANGED player

Start ==
    /\ Call((IF Stops(player) THEN StopCalls ELSE <<>>)
            \o Step("Init") \o Step("SynchroStart") \o Step("TickStart"))
    /\ crossed' = (player.rcv # <<>>)

Crosses == crossed' = (crossed \/ (player'.rcv # <<>> /\ todo' # <<>>))

Stop == Call(IF Stops(player) THEN StopCalls ELSE <<>>) /\ Crosses

Pause ==
    /\ player.state # "pause"
    /\ Call(Step("SynchroStop") \o Step("TickStop") \o Step("SetPause")) /\ Crosses

Cont ==
    /\ player.state # "playing"
    /\ Call(Step("Cont")) /\ Crosses

GoTo(p, d) ==
    IF p.state = "playing" THEN StopCalls \o SetCalls(d) \o Step("Cont") ELSE SetCalls(d)

SetPosTicks(d) == Call(GoTo(player, d)) /\ Crosses

\* SetParam, Record and SetRecordMode while it plays; the change is data.
SetParam ==
    /\ player.state = "playing"
    /\ Call(StopCalls \o Step("Cont")) /\ Crosses

SetLoop ==
    /\ todo = <<>>
    /\ player' = [player EXCEPT !.loop = ~ @]
    /\ UNCHANGED <<todo, crossed>>

\* SetTrack, and SetAllTrack; a call that finds the player busy changes nothing.
SetTrack(g) ==
    /\ todo = <<>> /\ player.state = "idle"
    /\ player' = Renew(player, g)
    /\ UNCHANGED <<todo, crossed>>

\* SetSynchroIn, SetSynchroOut and SetOutput restore the position and the loop.
SetSynchroIn(g) ==
    /\ todo = <<>> /\ player.state = "idle" /\ Len(player.rcv) <= MaxEnds
    /\ player' = [Renew(player, g) EXCEPT !.loop = player.loop]
    /\ todo' = SetCalls(player.pos)
    /\ Crosses

\* TSyncInPlayer::Cont reads the position before its calls.
Done(p, s) ==
    IF s.op = "SynchroStop" THEN SynchroStop(p)
    ELSE IF s.op = "TickStop" THEN TickStop(p)
    ELSE IF s.op = "Init" THEN InitAll(p)
    ELSE IF s.op = "SynchroStart" THEN SynchroStart(p)
    ELSE IF s.op = "TickStart" THEN TickStart(p)
    ELSE IF s.op = "SynchroSetPos" THEN SynchroSetPos(p, s.date)
    ELSE IF s.op = "TickSetPos" THEN TickSetPos(p, s.date)
    ELSE IF s.op = "ChaseOff" THEN ChaseOff(p)
    ELSE IF s.op = "Cont" THEN ChaseOn(p, GetPosTicks(p))
    ELSE IF s.op = "SynchroCont" THEN SynchroCont(p, s.date)
    ELSE IF s.op = "TickCont" THEN TickCont(p, s.date)
    ELSE [p EXCEPT !.state = "pause"]

Continue ==
    /\ todo # <<>>
    /\ player' = Done(player, Head(todo))
    /\ LET pos == GetPosTicks(player)
           then == StepTo("SynchroCont", pos) \o StepTo("TickCont", pos)
       IN todo' = (IF Head(todo).op = "Cont" THEN then ELSE <<>>) \o Tail(todo)
    /\ Crosses

---------------------------------------------------------------------------
(* The handler                                                             *)

\* A task of the kernel falls due.
ExecuteTask(x) ==
    /\ player.kernel[x] # NULL /\ player.kernel[x].left = 0
    /\ player' = ExecuteTaskInt([player EXCEPT !.kernel[x] = NULL], player.kernel[x].task)
    /\ UNCHANGED todo /\ Crosses

\* TPlayer::ReceiveAlarm (TEventReceiver) for typeScoreEnd: the calls of Stop.
ReceiveStop ==
    /\ player.rcv # <<>> /\ Head(player.rcv) = "end"
    /\ LET p == [player EXCEPT !.rcv = Tail(@)]
       IN player' = IF Stops(p) THEN ChaseOff(TickStop(SynchroStop(p))) ELSE p
    /\ UNCHANGED <<todo, crossed>>

\* And for typeLoopEnd: the calls of SetPosTicks.
GoToStart(p) ==
    LET stopped == ChaseOff(TickStop(SynchroStop(p)))
        set(q) == TickSetPos(SynchroSetPos(q, LoopStart), LoopStart)
        cont(q) == TickCont(SynchroCont(ChaseOn(q, LoopStart), LoopStart), LoopStart)
    IN IF p.state = "playing" THEN cont(set(stopped)) ELSE set(p)

ReceiveLoopEnd ==
    /\ player.rcv # <<>> /\ Head(player.rcv) = "loop"
    /\ LET p == [player EXCEPT !.rcv = Tail(@)]
       IN player' = IF p.loop THEN GoToStart(p) ELSE p
    /\ UNCHANGED <<todo, crossed>>

\* A millisecond, when the handler has done all that was due.
Time ==
    /\ player.rcv = <<>> /\ player.elapsed < MaxMs
    /\ \A x \in Cell : player.kernel[x] # NULL => player.kernel[x].left > 0
    /\ player' = [player EXCEPT
           !.kernel = [x \in Cell |-> IF @[x] = NULL THEN NULL
                                      ELSE [@[x] EXCEPT !.left = player.kernel[x].left - 1]],
           !.elapsed = IF player.state = "playing" THEN @ + 1 ELSE @]
    /\ UNCHANGED <<todo, crossed>>

---------------------------------------------------------------------------
Init ==
    /\ \E g \in Garbage : player =
                [state |-> "idle", pos |-> 0, elapsed |-> 0, play |-> First, tempo |-> First,
                 sound |-> {}, left |-> {}, prog |-> NULL, chase |-> NewChaser(g),
                 loop |-> FALSE, rcv |-> <<>>, table |-> {}, kernel |-> [x \in Cell |-> NULL],
                 status |-> [t \in TicksTask |-> "idle"],
                 date |-> [t \in TicksTask |-> 0], fTask |-> [t \in TicksTask |-> NULL]]
    /\ todo = <<>> /\ crossed = FALSE

Handler == (\E x \in Cell : ExecuteTask(x)) \/ ReceiveStop \/ ReceiveLoopEnd \/ Time

User ==
    \/ Start \/ Stop \/ Pause \/ Cont \/ SetParam \/ SetLoop
    \/ \E d \in Position : SetPosTicks(d)
    \/ \E g \in Garbage : SetTrack(g) \/ SetSynchroIn(g)

Next == Handler \/ User \/ Continue

Spec == Init /\ [][Next]_vars

---------------------------------------------------------------------------
(* Properties                                                              *)

\* Every variable has its type; fTask points to a task of the kernel, the one
\* that will execute its owner, and to none that is over; the kernel has no task
\* whose objects have been deleted.
TypeOK ==
    /\ player.state \in {"idle", "playing", "pause"}
    /\ player.pos \in Nat /\ player.elapsed \in Nat
    /\ {player.play, player.tempo} \subseteq [cur : Date, date : Date, last : BOOLEAN]
    /\ player.rcv \in Seq({"end", "loop"}) /\ player.loop \in BOOLEAN
    /\ player.left \subseteq player.sound /\ player.sound \subseteq Notes
    /\ player.chase.keys \subseteq Notes /\ player.chase.from \in 0..(End + 1)
    /\ player.table \subseteq TicksTask
    /\ player.status \in [TicksTask -> {"idle", "running", "forget"}]
    /\ player.date \in [TicksTask -> Date]
    /\ \A t \in TicksTask : player.fTask[t] # NULL =>
           /\ player.kernel[player.fTask[t]] # NULL
           /\ player.kernel[player.fTask[t]].task = t
    /\ \A x \in Cell : player.kernel[x] # NULL => player.kernel[x].task \in TicksTask
    /\ crossed \in BOOLEAN

\* No call is under way, and all that was due is done.
Settled ==
    /\ todo = <<>> /\ ~crossed /\ player.rcv = <<>>
    /\ \A x \in Cell : player.kernel[x] # NULL => player.kernel[x].left > 0

\* When all that was due is done, a player that plays has played exactly the
\* events whose date has come by the tempo map, after any sequence of calls: the
\* dates that the kernel holds follow every change of the tempo, and each task
\* has one successor (TScheduler.cpp:122).  Its score is not over, or it would
\* have stopped.  A typeScoreEnd or a typeLoopEnd that is on its way when the user
\* calls may break into that call (TTickPlayer.cpp:57); the next Start mends it.
Punctual ==
    Settled /\ player.state = "playing"
    => /\ player.elapsed < Ms[End]
       /\ \A d \in Date : d < player.play.cur <=> Ms[d] <= player.elapsed

\* When Stop or Pause has returned, or the score has ended, nothing is played
\* any more and nothing is sent, tasks that are still in the kernel, for other
\* dates or another tempo, having been forgotten (TScheduler.cpp:107): the player
\* only goes back, to the beginning or to that of the loop.
Silent ==
    [][\/ player'.play \notin {player.play, First, AtTicks(LoopStart)}
       \/ Len(player'.rcv) > Len(player.rcv)
       => player.state = "playing" \/ todo # <<>> \/ crossed]_vars

\* "Chase Events makes sure that a Player is playing the correct patch
\* regardless of the position" (doc/html/Chase.html:19): wherever it was started,
\* gone back to or moved to, the program is the last one before its position.
\* That is not so of a chaser that has never been given a date: if the first
\* position it is asked for is what its memory holds (TChaserIterator.cpp:60), it
\* chases nothing.  When the player has stopped no note is left sounding, except
\* those that sounded when its position was changed in pause (TRunningPlayer.cpp:101).
Chased ==
    LET progs == {d \in Date : d < player.play.cur /\ Prog[d] # NULL} IN
    /\ Settled /\ player.state = "playing" /\ progs # {} /\ ~player.chase.fresh
       => player.prog = Prog[Max(progs)]
    /\ Settled /\ player.state = "idle" => player.sound \subseteq player.left
=============================================================================
