------------------------------- MODULE Sorter -------------------------------
(***************************************************************************)
(* The sorter of the kernel (common/Sorter/msSorter.c): four levels, one   *)
(* per digit of a date in base Base (256 in the code), each with two       *)
(* buffers of Base fifos.  At each tick of the clock the events received   *)
(* are put in the level of the first digit that differs from the clock's,  *)
(* every level moves a part of its next fifo one level down, and the last  *)
(* level gives the events of the new date.                                 *)
(*                                                                         *)
(* The scheduler's input fifo (SorterList) is a sequence here: clients     *)
(* send at any moment, ClockHandler empties it at each tick.  A date is a  *)
(* SorterDate: the four digits, most significant first.                    *)
(***************************************************************************)
EXTENDS Integers, Sequences

CONSTANTS Events,   \* the events that circulate
          Base,     \* 256 in the code: the values of one byte of a date
          Quota,    \* 2 in the code: the events a level moves per tick
          Reach     \* bound: how many ticks ahead of the clock events are sent

ASSUME SorterAssumption == /\ Base \in Nat \ {0, 1}
                           /\ Quota \in Nat /\ Reach \in Nat

Levels == 0..3                         \* 0: the most significant digit
Digits == 0..(Base - 1)
Dates == [Levels -> Digits]
Places == Levels \X {0, 1} \X Digits   \* a fifo of a buffer of a level

VARIABLES in,       \* the input fifo: events sent, not yet taken
          todo,     \* the events the current tick took and has not yet put
          date,     \* date[e]: the date field of e
          sysDate,  \* the date of the clock
          late,     \* the fifo of late events
          buf,      \* buf[<<l, b, i>>]: fifo i of buffer b of level l
          pri,      \* pri[l]: which buffer of level l is the primary one
          fifo,     \* fifo[l]: buffer and index of the fifo l resorts next
          pos,      \* pos[l]: the digit at which that fifo becomes current
          pc,       \* where the clock is in its handler
          level,    \* the level it is processing
          moved,    \* how many events it has moved down from that level
          out       \* the events the tick released

clock == <<sysDate, pri, fifo, pos>>
vars == <<in, todo, date, late, buf, clock, pc, level, moved, out>>

InList(s) == {s[i] : i \in 1..Len(s)}

alt(l) == 1 - pri[l]

\* The comparison of two dates as 32-bit numbers, and the next date: the
\* digits that follow the last one that is not at its maximum wrap to 0.
After(d, e) == \E l \in Levels : /\ d[l] > e[l]
                                 /\ \A k \in 0..(l - 1) : d[k] = e[k]
Following(d) ==
  [l \in Levels |-> IF \A k \in (l + 1)..3 : d[k] = Base - 1
                    THEN (d[l] + 1) % Base ELSE d[l]]

Number(d) == ((d[0] * Base + d[1]) * Base + d[2]) * Base + d[3]
MaxDate == Base * Base * Base * Base
ToDate(n) == [l \in Levels |-> CASE l = 0 -> n \div (Base * Base * Base)
                                 [] l = 1 -> (n \div (Base * Base)) % Base
                                 [] l = 2 -> (n \div Base) % Base
                                 [] l = 3 -> n % Base]

ZeroDate == [l \in Levels |-> 0]

\* LevelInit: the fifo to resort first is that of digit 1.
LevelInit == /\ buf = [x \in Places |-> <<>>]
             /\ pri = [l \in Levels |-> 0]
             /\ fifo = [l \in Levels |-> <<0, 1>>]
             /\ pos = [l \in Levels |-> 1]

\* SorterInit.
Init == /\ LevelInit
        /\ sysDate = ZeroDate
        /\ late = <<>>
        /\ in = <<>> /\ todo = <<>> /\ out = <<>>
        /\ date = [e \in Events |-> ZeroDate]
        /\ pc = "idle" /\ level = 0 /\ moved = 0

InSorter == (UNION {InList(buf[x]) : x \in Places}) \cup InList(late)
Idle == Events \ (InList(in) \cup InList(todo) \cup InSorter \cup InList(out))

-----------------------------------------------------------------------------
\* MSSendAt, MSSend, MSSendIm: a client dates an event and puts it in the
\* input fifo, at any moment.
Send(e, ahead) ==
  /\ e \in Idle
  /\ date' = [date EXCEPT ![e] =
                ToDate((Number(sysDate) + ahead) % MaxDate)]
  /\ in' = Append(in, e)
  /\ UNCHANGED <<todo, late, buf, clock, pc, level, moved, out>>

\* Mutant: the sorter is not called when no event was sent.
ClockHandlerIfInput ==
  /\ pc = "idle" /\ in # <<>>
  /\ todo' = in
  /\ in' = <<>>
  /\ pc' = "input"
  /\ UNCHANGED <<date, late, buf, clock, level, moved, out>>

\* ClockHandler: the timer takes the whole input fifo and calls SorterClock.
ClockHandler ==
  /\ pc = "idle"
  /\ todo' = in
  /\ in' = <<>>
  /\ pc' = "input"
  /\ UNCHANGED <<date, late, buf, clock, level, moved, out>>

\* The level an event goes in: that of the first digit above the clock's, the
\* last level when no other has one.
FirstAbove(d) ==
  CASE d[0] > sysDate[0] -> 0
    [] d[0] <= sysDate[0] /\ d[1] > sysDate[1] -> 1
    [] d[0] <= sysDate[0] /\ d[1] <= sysDate[1] /\ d[2] > sysDate[2] -> 2
    [] OTHER -> 3

\* PutEvent: an event to come goes in the primary buffer of its level, another
\* one in the late fifo.
PutEvent ==
  /\ pc = "input"
  /\ todo # <<>>
  /\ todo' = Tail(todo)
  /\ LET e == Head(todo)
         l == FirstAbove(date[e])
     IN \/ /\ After(date[e], sysDate)
           /\ buf' = [buf EXCEPT ![<<l, pri[l], date[e][l]>>] = Append(@, e)]
           /\ UNCHANGED late
        \/ /\ ~ After(date[e], sysDate)
           /\ late' = Append(late, e)
           /\ UNCHANGED buf
  /\ UNCHANGED <<in, date, clock, pc, level, moved, out>>

\* SorterClock, once the input is handled: the clock counts one more.
NextDate ==
  /\ pc = "input"
  /\ todo = <<>>
  /\ sysDate' = Following(sysDate)
  /\ pc' = "level" /\ level' = 0 /\ moved' = 0
  /\ UNCHANGED <<in, todo, date, late, buf, pri, fifo, pos, out>>

\* The fifo a level resorts, and whether its digit has just come: then all of
\* it moves (ResortAll), else Quota events at most (Resort2).
Current(l) == buf[<<l, fifo[l][1], fifo[l][2]>>]
Reached(l) == sysDate[l] = pos[l]
\* Mutant: Quota events at most, also at the tick of their digit.
MoreToMoveTwo(l) == Current(l) # <<>> /\ moved < Quota

MoreToMove(l) == Current(l) # <<>> /\ (Reached(l) \/ moved < Quota)

\* Mutant: the event goes before those that are already there.
BufferPutFirst(l) ==
  /\ pc = "level" /\ level = l
  /\ MoreToMove(l)
  /\ LET e == Head(Current(l))
     IN buf' = [buf EXCEPT ![<<l, fifo[l][1], fifo[l][2]>>] = Tail(@),
                           ![<<l + 1, alt(l + 1), date[e][l + 1]>>] = <<e>> \o @]
  /\ moved' = moved + 1
  /\ UNCHANGED <<in, todo, date, late, clock, pc, level, out>>

\* BufferPut: the head of the fifo goes to the alternate buffer of the next
\* level, at the event's digit.
BufferPut(l) ==
  /\ pc = "level" /\ level = l
  /\ MoreToMove(l)
  /\ LET e == Head(Current(l))
     IN buf' = [buf EXCEPT ![<<l, fifo[l][1], fifo[l][2]>>] = Tail(@),
                           ![<<l + 1, alt(l + 1), date[e][l + 1]>>] = Append(@, e)]
  /\ moved' = moved + 1
  /\ UNCHANGED <<in, todo, date, late, clock, pc, level, out>>

\* LevelClock, when a level has moved what it had to: once the digit of its
\* fifo has come it turns to the next one, through both buffers in turn.
LevelClock(l) ==
  /\ pc = "level" /\ level = l
  /\ ~ MoreToMove(l)
  /\ \/ /\ ~ Reached(l)
        /\ UNCHANGED <<pri, fifo, pos>>
     \/ /\ Reached(l)
        /\ pri' = [pri EXCEPT ![l] = IF pos[l] = 0 THEN 1 - @ ELSE @]
        /\ pos' = [pos EXCEPT ![l] = (@ + 1) % Base]
        /\ fifo' = [fifo EXCEPT ![l] = IF pos'[l] = 0 THEN <<1 - pri'[l], 0>>
                                       ELSE <<@[1], @[2] + 1>>]
  /\ level' = l + 1
  /\ moved' = 0
  /\ UNCHANGED <<in, todo, date, late, buf, sysDate, pc, out>>

\* The fifo of the new date: the last level turns to its other buffer when its
\* digit wraps.
Ready == IF sysDate[3] = 0 THEN <<alt(3), 0>> ELSE fifo[3]

\* SorterClock, the last level: the late events, then those of its fifo, are
\* the events that are ready.
LastLevel ==
  /\ pc = "level" /\ level = 3
  /\ pri' = IF sysDate[3] = 0 THEN [pri EXCEPT ![3] = 1 - @] ELSE pri
  /\ out' = late \o buf[<<3, Ready[1], Ready[2]>>]
  /\ buf' = [buf EXCEPT ![<<3, Ready[1], Ready[2]>>] = <<>>]
  /\ fifo' = [fifo EXCEPT ![3] = <<Ready[1], Ready[2] + 1>>]
  /\ late' = <<>>
  /\ pc' = "ready" /\ level' = 0 /\ moved' = 0
  /\ UNCHANGED <<in, todo, date, sysDate, pos>>

\* DispatchEvents delivers and frees every event that is ready; the date of a
\* free event means nothing.
Dispatch ==
  /\ pc = "ready"
  /\ pc' = "idle"
  /\ out' = <<>>
  /\ date' = [e \in Events |-> IF e \in InList(out) THEN ZeroDate ELSE date[e]]
  /\ UNCHANGED <<in, todo, late, buf, clock, level, moved>>

Tick == \/ ClockHandler \/ PutEvent \/ NextDate
        \/ \E l \in 0..2 : BufferPut(l) \/ LevelClock(l)
        \/ LastLevel \/ Dispatch

Next == Tick \/ \E e \in Events, ahead \in 0..Reach : Send(e, ahead)

Spec == Init /\ [][Next]_vars

\* The timer of the kernel goes on ticking, whatever the clients do.
FairSpec == Spec /\ WF_vars(Tick)
-----------------------------------------------------------------------------
TypeOK ==
  /\ in \in Seq(Events) /\ todo \in Seq(Events)
  /\ late \in Seq(Events) /\ out \in Seq(Events)
  /\ date \in [Events -> Dates]
  /\ sysDate \in Dates
  /\ buf \in [Places -> Seq(Events)]
  /\ pri \in [Levels -> {0, 1}]
  /\ fifo \in [Levels -> {0, 1} \X (0..Base)]
  /\ \A l \in 0..2 : fifo[l][2] \in Digits
  /\ pos \in [Levels -> Digits]
  /\ pc \in {"idle", "input", "level", "ready"}
  /\ level \in Levels
  /\ moved \in Nat

\* The period that a level sorts is over when all lower digits wrap: the date d
\* is in the period of level l that follows the current one.
InPeriod(d, l) == \A k \in 0..(l - 1) : d[k] = sysDate[k]
InNextPeriod(d, l) ==
  \A k \in 0..(l - 1) :
    d[k] = IF \A j \in (k + 1)..(l - 1) : sysDate[j] = Base - 1
           THEN (sysDate[k] + 1) % Base ELSE sysDate[k]

\* In the middle of a tick, level l has not been called yet; the digits below
\* its own have come back to 0, so that its own changes; and so do those above.
Behind(l) == pc = "level" /\ level <= l
Turned(l) == \A k \in (l + 1)..3 : sysDate[k] = 0
Carried(l) == sysDate[l] = 0 /\ Turned(l)

\* What dates the two buffers of level l are for: those of the period to come in
\* the primary one, those of the next period in the alternate one.  A level that
\* is behind may still hold the digit that comes, and has in its alternate
\* buffer the period that begins.
InPrimary(d, l) ==
  /\ InPeriod(d, l)
  /\ \/ d[l] > sysDate[l] /\ ~ (Behind(l) /\ Carried(l))
     \/ d[l] = sysDate[l] /\ Behind(l) /\ Turned(l) /\ ~ Carried(l)
InAlternate(d, l) ==
  /\ l > 0
  /\ IF Behind(l) /\ Carried(l) THEN InPeriod(d, l)
     ELSE InNextPeriod(d, l) /\ After(d, sysDate)
Fits(d, l, b, i) ==
  d[l] = i /\ IF b = pri[l] THEN InPrimary(d, l) ELSE InAlternate(d, l)

\* Every event is where its date says, in the fifo of its digit and in the
\* buffer of its period, and never in a fifo that the clock has passed
\* (msSorter.c, PutEvent and BufferPut).
Placed ==
  \A l \in Levels, b \in {0, 1}, i \in Digits :
    \A e \in InList(buf[<<l, b, i>>]) : Fits(date[e], l, b, i)

\* Each level is about to resort the fifo of the digit that follows the
\* clock's, or that comes if the level is behind, in the buffer that will then
\* be the primary one (msSorter.c, LevelClock).
Aligned ==
  /\ \A l \in 0..2 :
       /\ pos[l] = IF Behind(l) /\ Turned(l) THEN sysDate[l]
                   ELSE (sysDate[l] + 1) % Base
       /\ fifo[l] = <<IF pos[l] = 0 THEN alt(l) ELSE pri[l], pos[l]>>
  /\ fifo[3] = <<pri[3], IF ~ Behind(3) THEN sysDate[3] + 1
                         ELSE IF sysDate[3] = 0 THEN Base ELSE sysDate[3]>>

\* An event is in one list, once: no move loses it or links it twice
\* (msSorter.c, BufferPut and the join of the late events in SorterClock).
NoRepeat(s) == \A i, j \in 1..Len(s) : s[i] = s[j] => i = j
Apart(s, t) == InList(s) \cap InList(t) = {}
Waiting == {x \in Places : buf[x] # <<>>}
OneList ==
  /\ NoRepeat(in) /\ NoRepeat(todo) /\ NoRepeat(late) /\ NoRepeat(out)
  /\ Apart(in, todo) /\ Apart(in, late) /\ Apart(in, out)
  /\ Apart(todo, late) /\ Apart(todo, out) /\ Apart(late, out)
  /\ \A x \in Waiting :
       /\ NoRepeat(buf[x])
       /\ Apart(buf[x], in) /\ Apart(buf[x], todo)
       /\ Apart(buf[x], late) /\ Apart(buf[x], out)
       /\ \A y \in Waiting \ {x} : Apart(buf[x], buf[y])

\* When a tick comes to the last level, the fifo it is about to release holds
\* events of the new date only, and every event of that date that the levels
\* hold: none is released early, none is left behind (SorterClock).
OnTime ==
  pc = "level" /\ level = 3 =>
    \A x \in Places : \A e \in InList(buf[x]) :
      date[e] = sysDate <=> x = <<3, Ready[1], Ready[2]>>

\* All of it together: what a step of the sorter relies on.
IInv == TypeOK /\ Placed /\ Aligned /\ OneList /\ OnTime

\* The events of the list s to which f gives the date d, in the order of s.
OfDate(s, f, d) ==
  LET pick[i \in 0..Len(s)] ==
        IF i = 0 THEN <<>>
        ELSE IF f[s[i]] = d THEN Append(pick[i - 1], s[i]) ELSE pick[i - 1]
  IN  pick[Len(s)]

\* The events of the date d that level l holds, and all that are in the levels:
\* those taken earlier have gone further down.
Held(l, d) == OfDate(buf[<<l, pri[l], d[l]>>], date, d)
                \o OfDate(buf[<<l, alt(l), d[l]>>], date, d)
Ordered(d) == Held(3, d) \o Held(2, d) \o Held(1, d) \o Held(0, d)

\* The sorter keeps the timetable: at every tick the late events, then exactly
\* those of that date, in the order they were taken.
Timetable == INSTANCE Schedule WITH
  sent <- todo \o in,
  date <- [e \in Events |-> Number(date[e])],
  now <- IF pc = "level" THEN (Number(sysDate) - 1) % MaxDate
         ELSE Number(sysDate),
  due <- [n \in {Number(date[e]) : e \in InSorter \ InList(late)} |->
            Ordered(ToDate(n))]
IsASchedule == Timetable!Spec

\* What a client sends is released in the end (ClockHandler, every tick).
Released == \A e \in Events : (e \in InList(in)) ~> (e \in InList(out))
=============================================================================
