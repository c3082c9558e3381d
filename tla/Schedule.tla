------------------------------ MODULE Schedule ------------------------------
(***************************************************************************)
(* What the scheduler promises the clients that send events: a timetable.  *)
(* An event whose date is still to come when the clock takes it from the   *)
(* input list is released at the tick of that date; one whose date is past *)
(* is released at the next tick, before those that are on time; events of  *)
(* one date leave in the order they were taken.  Sorter implements it.     *)
(***************************************************************************)
EXTENDS Naturals, Sequences

CONSTANTS Events,   \* the events that circulate
          MaxDate   \* the clock counts modulo MaxDate

Dates == 0..(MaxDate - 1)

VARIABLES sent,     \* the events sent and not yet taken, oldest first
          date,     \* date[e]: the date the sender gave e
          now,      \* the date of the clock
          late,     \* the events that were taken too late
          due,      \* the timetable: the events of each date that has some
          out       \* the events the last tick released

vars == <<sent, date, now, late, due, out>>

InList(s) == {s[i] : i \in 1..Len(s)}

Idle == Events \ UNION {InList(s) : s \in {sent, late, out} \cup
                                           {due[d] : d \in DOMAIN due}}

Init == /\ sent = <<>>
        /\ date = [e \in Events |-> 0]
        /\ now = 0
        /\ late = <<>>
        /\ due = <<>>
        /\ out = <<>>

\* The events due at date d, oldest first.
At(d) == IF d \in DOMAIN due THEN due[d] ELSE <<>>

\* A client sends an event for date d.
Send(e, d) ==
  /\ e \in Idle
  /\ sent' = Append(sent, e)
  /\ date' = [date EXCEPT ![e] = d]
  /\ UNCHANGED <<now, late, due, out>>

\* The clock takes the oldest event sent and enters it in the timetable.
Take ==
  /\ sent # <<>>
  /\ sent' = Tail(sent)
  /\ LET e == Head(sent)
     IN IF date[e] > now
        THEN /\ due' = [d \in DOMAIN due \cup {date[e]} |->
                         IF d = date[e] THEN Append(At(d), e) ELSE due[d]]
             /\ UNCHANGED late
        ELSE /\ late' = Append(late, e)
             /\ UNCHANGED due
  /\ UNCHANGED <<date, now, out>>

\* A tick of the clock releases what is late, then what is due.
Release ==
  LET next == (now + 1) % MaxDate
  IN /\ out = <<>>
     /\ now' = next
     /\ out' = late \o At(next)
     /\ late' = <<>>
     /\ due' = [d \in DOMAIN due \ {next} |-> due[d]]
     /\ UNCHANGED <<sent, date>>

\* The events released are delivered, and may be sent again.
Deliver ==
  /\ out # <<>>
  /\ out' = <<>>
  /\ date' = [e \in Events |-> IF e \in InList(out) THEN 0 ELSE date[e]]
  /\ UNCHANGED <<sent, now, late, due>>

Next == \/ Take \/ Release \/ Deliver
        \/ \E e \in Events, d \in Dates : Send(e, d)

Spec == Init /\ [][Next]_vars
=============================================================================
