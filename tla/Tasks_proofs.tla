---------------------------- MODULE Tasks_proofs ----------------------------
(***************************************************************************)
(* Proofs about the tasks of clients and their fifos (Tasks), for any      *)
(* clients with a clock or deferred tasks and any number of cells.         *)
(***************************************************************************)
EXTENDS Tasks, SequenceTheorems, TLAPS

NoRepeat(s) == \A i, j \in 1..Len(s) : s[i] = s[j] => i = j

\* The types, but for what cells are in a fifo.
Types ==
    /\ open \subseteq Client /\ closing \subseteq open
    /\ task \in [Cell -> Task \cup {NULL}]
    /\ sched \subseteq Cell \ Free
    /\ dTasks \in [Client -> Seq(Cell)]
    /\ theTask \in [Client -> Cell \cup {NULL}]
    /\ pc \in [Client -> {"idle", "compare", "mark", "clear"}]
    /\ ev \in [Client -> Cell \cup {NULL}] /\ late \subseteq Cell
    /\ cut \in BOOLEAN

\* A fifo has tasks of its client, once, which wait for no date any more; a client
\* that is in MSForgetTask is open.
Queued ==
    \A c \in Client :
      /\ NoRepeat(dTasks[c])
      /\ \A i \in 1..Len(dTasks[c]) :
            LET x == dTasks[c][i] IN task[x] # NULL /\ task[x].of = c /\ x \notin sched
      /\ Kind[c] = typeProcess => dTasks[c] = <<>>
      /\ pc[c] # "idle" => c \in open \ closing

\* The call of MSForgetTask works on the task of the variable, which is a task of
\* the client and dead only at the end of the call; a clock has no other task,
\* and none when its client closes.
Current(c) ==
    /\ pc[c] # "idle" => ev[c] = theTask[c] /\ ev[c] # NULL
    /\ Kind[c] = typeProcess /\ c \in closing => theTask[c] = NULL

Owned(c) ==
    c \in open \ closing /\ theTask[c] # NULL =>
       /\ task[theTask[c]] # NULL /\ task[theTask[c]].of = c
       /\ task[theTask[c]].type = typeDead => pc[c] = "clear"

Single(c) ==
    Kind[c] = typeProcess =>
       \A x \in Cell : Live(x, c) <=> x = theTask[c] /\ c \in open /\ pc[c] # "clear"

Pointed == \A c \in Client : Current(c) /\ Owned(c) /\ Single(c)

IInv == Types /\ Queued /\ (cut \/ Pointed)

(***************************************************************************)
(* Helpers.                                                                *)
(***************************************************************************)
LEMMA KindTask ==
  ASSUME NEW c \in Client
  PROVE  LET t == [type |-> Kind[c], of |-> c]
         IN  t \in Task /\ t # NULL /\ t.of = c /\ t.type # typeDead
<1>1. Kind[c] \in {typeProcess, typeDProcess}
  BY TasksAssumption
<1>2. [type |-> Kind[c], of |-> c] \in Task
  BY <1>1 DEF Task
<1> QED
  BY <1>1, <1>2, TasksAssumption DEF typeProcess, typeDProcess, typeDead

\* A task that is marked.
LEMMA DeadTask ==
  ASSUME NEW t \in Task
  PROVE  LET d == [t EXCEPT !.type = typeDead]
         IN  d \in Task /\ d # NULL /\ d.of = t.of /\ d.type = typeDead
<1>1. [t EXCEPT !.type = typeDead] \in Task
  BY DEF Task
<1> QED
  BY <1>1, TasksAssumption DEF Task

\* What is left of a fifo when its head is taken.
LEMMA TailOfFifo ==
  ASSUME NEW s \in Seq(Cell), s # <<>>, NoRepeat(s)
  PROVE  /\ Head(s) \in Cell /\ Head(s) = s[1] /\ 1 \in 1..Len(s)
         /\ Tail(s) \in Seq(Cell) /\ NoRepeat(Tail(s))
         /\ \A i \in 1..Len(Tail(s)) : /\ i + 1 \in 1..Len(s) /\ Tail(s)[i] = s[i + 1]
                                       /\ Tail(s)[i] # Head(s)
<1>1. /\ Len(s) \in Nat \ {0} /\ Len(Tail(s)) = Len(s) - 1
      /\ Head(s) \in Cell /\ Head(s) = s[1] /\ Tail(s) \in Seq(Cell)
      /\ \A i \in 1..Len(Tail(s)) : Tail(s)[i] = s[i + 1]
  OBVIOUS
<1>2. \A i \in 1..Len(Tail(s)) : i + 1 \in 1..Len(s) /\ Tail(s)[i] # Head(s)
  BY <1>1 DEF NoRepeat
<1>3. NoRepeat(Tail(s))
  BY <1>1, <1>2 DEF NoRepeat
<1> QED
  BY <1>1, <1>2, <1>3

LEMMA AppendToFifo ==
  ASSUME NEW s \in Seq(Cell), NEW x \in Cell, NoRepeat(s), \A i \in 1..Len(s) : s[i] # x
  PROVE  /\ Append(s, x) \in Seq(Cell) /\ NoRepeat(Append(s, x))
         /\ \A i \in 1..Len(Append(s, x)) :
               IF i \in 1..Len(s) THEN Append(s, x)[i] = s[i] ELSE Append(s, x)[i] = x
<1>1. /\ Append(s, x) \in Seq(Cell) /\ Len(Append(s, x)) = Len(s) + 1
      /\ \A i \in 1..Len(s) : Append(s, x)[i] = s[i]
      /\ Append(s, x)[Len(s) + 1] = x /\ Len(s) \in Nat
  OBVIOUS
<1>2. \A i \in 1..Len(Append(s, x)) : i \in 1..Len(s) \/ i = Len(s) + 1
  BY <1>1
<1> QED
  BY <1>1, <1>2 DEF NoRepeat

\* A function that is executed leaves its cell, and may take another one.
LEMMA Executed ==
  ASSUME Types, NEW x \in Cell, NEW c \in Client, task[x] # NULL, Execute(x, c)
  PROVE  \E n \in Cell \cup {NULL} :
           /\ n # x /\ (n # NULL => task[n] = NULL)
           /\ task' \in [Cell -> Task \cup {NULL}]
           /\ \A z \in Cell : task'[z] = IF z = x THEN NULL
                                         ELSE IF z = n THEN [type |-> Kind[c], of |-> c]
                                         ELSE task[z]
           /\ sched' = (sched \ {x}) \cup ({n} \cap Cell)
           /\ theTask' = [theTask EXCEPT ![c] = n]
<1> DEFINE t == [type |-> Kind[c], of |-> c]
<1>1. t \in Task
  BY KindTask
<1>2. task \in [Cell -> Task \cup {NULL}] /\ NULL \notin Cell
  BY TasksAssumption DEF Types
<1> HIDE DEF t
<1>3. ASSUME NEW y \in Free, task' = [task EXCEPT ![y] = t, ![x] = NULL],
             sched' = (sched \ {x}) \cup {y}, theTask' = [theTask EXCEPT ![c] = y]
      PROVE  /\ y \in Cell /\ y # x /\ task[y] = NULL
             /\ task' \in [Cell -> Task \cup {NULL}]
             /\ \A z \in Cell : task'[z] = IF z = x THEN NULL
                                           ELSE IF z = y THEN t ELSE task[z]
             /\ sched' = (sched \ {x}) \cup ({y} \cap Cell)
  <2>1. y \in Cell /\ y # x /\ task[y] = NULL
    BY DEF Free
  <2> QED
    BY <1>1, <1>2, <1>3, <2>1
<1>4. ASSUME task' = [task EXCEPT ![x] = NULL], sched' = sched \ {x},
             theTask' = [theTask EXCEPT ![c] = NULL]
      PROVE  /\ NULL # x
             /\ task' \in [Cell -> Task \cup {NULL}]
             /\ \A z \in Cell : task'[z] = IF z = x THEN NULL
                                           ELSE IF z = NULL THEN t ELSE task[z]
             /\ sched' = (sched \ {x}) \cup ({NULL} \cap Cell)
  BY <1>2, <1>4
<1>5. CASE \E y \in Free : /\ task' = [task EXCEPT ![y] = t, ![x] = NULL]
                           /\ sched' = (sched \ {x}) \cup {y}
                           /\ theTask' = [theTask EXCEPT ![c] = y]
  <2>1. PICK y \in Free : /\ task' = [task EXCEPT ![y] = t, ![x] = NULL]
                          /\ sched' = (sched \ {x}) \cup {y}
                          /\ theTask' = [theTask EXCEPT ![c] = y]
    BY <1>5
  <2>2. y \in Cell \cup {NULL}
    BY DEF Free
  <2> QED
    BY <1>3, <2>1, <2>2 DEF t
<1>6. CASE /\ task' = [task EXCEPT ![x] = NULL] /\ sched' = sched \ {x}
           /\ theTask' = [theTask EXCEPT ![c] = NULL]
  <2>1. NULL \in Cell \cup {NULL}
    OBVIOUS
  <2> QED
    BY <1>4, <1>6, <2>1 DEF t
<1> QED
  BY <1>5, <1>6 DEF Execute, t

LEMMA InitIInv == Init => IInv
<1> SUFFICES ASSUME Init PROVE IInv
  OBVIOUS
<1>1. Types
  <2>1. dTasks \in [Client -> Seq(Cell)]
    <3>1. <<>> \in Seq(Cell)
      OBVIOUS
    <3> QED
      BY <3>1 DEF Init
  <2> QED
    BY <2>1 DEF Init, Types
<1>2. Queued
  BY DEF Init, Queued, NoRepeat
<1>3. Pointed
  BY TasksAssumption DEF Init, Pointed, Current, Owned, Single, Live
<1> QED
  BY <1>1, <1>2, <1>3 DEF IInv

(***************************************************************************)
(* Steps that touch neither an event nor a fifo.                           *)
(***************************************************************************)
LEMMA OpenStep ==
  ASSUME IInv, NEW c \in Client, MSOpen(c)
  PROVE  IInv'
<1>0. /\ c \notin open /\ open' = open \cup {c}
      /\ theTask' = [theTask EXCEPT ![c] = NULL]
      /\ UNCHANGED <<closing, task, sched, dTasks, pc, ev, late, cut>>
  BY DEF MSOpen, forget
<1>1. Types'
  BY <1>0 DEF IInv, Types, Free
<1>2. Queued'
  BY <1>0 DEF IInv, Queued
<1>3. ASSUME ~ cut PROVE Pointed'
  <2> SUFFICES ASSUME NEW d \in Client PROVE (Current(d) /\ Owned(d) /\ Single(d))'
    BY DEF Pointed
  <2>1. /\ Current(d) /\ Owned(d) /\ Single(d)
        /\ pc[d] # "idle" => d \in open \ closing
    BY <1>3 DEF IInv, Pointed, Queued
  <2>2. theTask'[d] = IF d = c THEN NULL ELSE theTask[d]
    BY <1>0 DEF IInv, Types
  <2>3. Current(d)'
    BY <1>0, <2>1, <2>2 DEF Current
  <2>4. Owned(d)'
    BY <1>0, <2>1, <2>2 DEF Owned
  <2>5. Single(d)'
    BY <1>0, <2>1, <2>2, TasksAssumption DEF Single, Live
  <2> QED
    BY <2>3, <2>4, <2>5
<1> QED
  BY <1>0, <1>1, <1>2, <1>3 DEF IInv

LEMMA ForgetBegins ==
  ASSUME IInv, NEW c \in Client, MSForgetTask(c)
  PROVE  IInv'
<1>0. /\ Ready(c) /\ theTask[c] # NULL /\ task[theTask[c]].type # typeDead
      /\ ev' = [ev EXCEPT ![c] = theTask[c]] /\ pc' = [pc EXCEPT ![c] = "compare"]
      /\ UNCHANGED <<open, closing, task, sched, dTasks, theTask, late, cut>>
  BY DEF MSForgetTask, clients
<1>1. Types'
  BY <1>0 DEF IInv, Types, Free
<1>a. /\ \A d \in Client : /\ pc'[d] = IF d = c THEN "compare" ELSE pc[d]
                           /\ ev'[d] = IF d = c THEN theTask[c] ELSE ev[d]
  BY <1>0 DEF IInv, Types
<1>2. Queued'
  BY <1>0, <1>a DEF IInv, Queued, Ready
<1>3. ASSUME ~ cut PROVE Pointed'
  <2> SUFFICES ASSUME NEW d \in Client PROVE (Current(d) /\ Owned(d) /\ Single(d))'
    BY DEF Pointed
  <2>1. Current(d) /\ Owned(d) /\ Single(d)
    BY <1>3 DEF IInv, Pointed
  <2>3. Current(d)'
    BY <1>0, <1>a, <2>1 DEF Current
  <2>4. Owned(d)'
    BY <1>0, <1>a, <2>1 DEF Owned, Ready
  <2>5. Single(d)'
    BY <1>0, <1>a, <2>1 DEF Single, Live, Ready
  <2> QED
    BY <2>3, <2>4, <2>5
<1> QED
  BY <1>0, <1>1, <1>2, <1>3 DEF IInv

LEMMA CompareStep ==
  ASSUME IInv, NEW c \in Client, ForgetTaskSync(c)
  PROVE  IInv'
<1>0. /\ pc[c] = "compare"
      /\ IF theTask[c] = ev[c] THEN pc' = [pc EXCEPT ![c] = "mark"] /\ ev' = ev
         ELSE pc' = [pc EXCEPT ![c] = "idle"] /\ ev' = [ev EXCEPT ![c] = NULL]
      /\ UNCHANGED <<open, closing, task, sched, dTasks, theTask, late, cut>>
  BY DEF ForgetTaskSync, Return, clients
<1>1. Types'
  BY <1>0 DEF IInv, Types, Free
<1>2. Queued'
  BY <1>0 DEF IInv, Queued, Types
<1>3. ASSUME ~ cut PROVE Pointed'
  <2> SUFFICES ASSUME NEW d \in Client PROVE (Current(d) /\ Owned(d) /\ Single(d))'
    BY DEF Pointed
  <2>1. Current(d) /\ Owned(d) /\ Single(d) /\ Current(c)
    BY <1>3 DEF IInv, Pointed
  <2>2. ev' = ev /\ pc'[d] = IF d = c THEN "mark" ELSE pc[d]
    BY <1>0, <2>1 DEF Current, IInv, Types
  <2>3. Current(d)'
    BY <1>0, <2>1, <2>2 DEF Current
  <2>4. Owned(d)'
    BY <1>0, <2>1, <2>2 DEF Owned
  <2>5. Single(d)'
    BY <1>0, <2>1, <2>2 DEF Single, Live
  <2> QED
    BY <2>3, <2>4, <2>5
<1> QED
  BY <1>0, <1>1, <1>2, <1>3 DEF IInv

LEMMA ClearStep ==
  ASSUME IInv, NEW c \in Client, ClearVariable(c)
  PROVE  IInv'
<1>0. /\ pc[c] = "clear" /\ theTask' = [theTask EXCEPT ![c] = NULL]
      /\ pc' = [pc EXCEPT ![c] = "idle"] /\ ev' = [ev EXCEPT ![c] = NULL]
      /\ UNCHANGED <<open, closing, task, sched, dTasks, late, cut>>
  BY DEF ClearVariable, Return, clients
<1>1. Types'
  BY <1>0 DEF IInv, Types, Free
<1>2. Queued'
  BY <1>0 DEF IInv, Queued, Types
<1>3. ASSUME ~ cut PROVE Pointed'
  <2> SUFFICES ASSUME NEW d \in Client PROVE (Current(d) /\ Owned(d) /\ Single(d))'
    BY DEF Pointed
  <2>1. Current(d) /\ Owned(d) /\ Single(d)
    BY <1>3 DEF IInv, Pointed
  <2>2. /\ theTask'[d] = IF d = c THEN NULL ELSE theTask[d]
        /\ pc'[d] = IF d = c THEN "idle" ELSE pc[d]
        /\ ev'[d] = IF d = c THEN NULL ELSE ev[d]
    BY <1>0 DEF IInv, Types
  <2>3. Current(d)'
    BY <1>0, <2>1, <2>2 DEF Current
  <2>4. Owned(d)'
    BY <1>0, <2>1, <2>2 DEF Owned
  <2>5. Single(d)'
    BY <1>0, <2>1, <2>2, TasksAssumption DEF Single, Live
  <2> QED
    BY <2>3, <2>4, <2>5
<1> QED
  BY <1>0, <1>1, <1>2, <1>3 DEF IInv

(***************************************************************************)
(* A task begins, and one is marked.                                       *)
(***************************************************************************)
LEMMA TaskBegins ==
  ASSUME IInv, NEW c \in Client, MSTask(c)
  PROVE  IInv'
<1> DEFINE t == [type |-> Kind[c], of |-> c]
<1>0. /\ Ready(c) /\ theTask[c] = NULL
      /\ UNCHANGED <<open, closing, dTasks, pc, ev, late, cut>>
  BY DEF MSTask, clients, forget
<1>1. PICK x \in Free : /\ task' = [task EXCEPT ![x] = t]
                        /\ sched' = sched \cup {x}
                        /\ theTask' = [theTask EXCEPT ![c] = x]
  BY DEF MSTask
<1>2. t \in Task /\ t # NULL /\ t.of = c /\ t.type # typeDead
  BY KindTask
<1> HIDE DEF t
<1>3. x \in Cell /\ task[x] = NULL
  BY DEF Free
<1>4. \A z \in Cell : task'[z] = IF z = x THEN t ELSE task[z]
  BY <1>1, <1>3 DEF IInv, Types
<1>5. Types'
  BY <1>0, <1>1, <1>2, <1>3, <1>4 DEF IInv, Types, Free
<1>6. Queued'
  <2> SUFFICES ASSUME NEW d \in Client
               PROVE  /\ NoRepeat(dTasks[d])
                      /\ \A i \in 1..Len(dTasks[d]) :
                            LET y == dTasks[d][i]
                            IN  task'[y] # NULL /\ task'[y].of = d /\ y \notin sched'
                      /\ Kind[d] = typeProcess => dTasks[d] = <<>>
                      /\ pc[d] # "idle" => d \in open \ closing
    BY <1>0 DEF Queued
  <2>1. ASSUME NEW i \in 1..Len(dTasks[d])
        PROVE  LET y == dTasks[d][i]
               IN  task'[y] # NULL /\ task'[y].of = d /\ y \notin sched'
    <3>1. dTasks[d][i] \in Cell
      BY DEF IInv, Types
    <3>2. LET y == dTasks[d][i] IN task[y] # NULL /\ task[y].of = d /\ y \notin sched
      BY DEF IInv, Queued
    <3> QED
      BY <1>1, <1>3, <1>4, <3>1, <3>2
  <2> QED
    BY <2>1 DEF IInv, Queued
<1>7. ASSUME ~ cut PROVE Pointed'
  <2> SUFFICES ASSUME NEW d \in Client PROVE (Current(d) /\ Owned(d) /\ Single(d))'
    BY DEF Pointed
  <2>1. Current(d) /\ Owned(d) /\ Single(d)
    BY <1>7 DEF IInv, Pointed
  <2>2. /\ theTask'[d] = IF d = c THEN x ELSE theTask[d]
        /\ theTask[d] \in Cell \cup {NULL}
    BY <1>1 DEF IInv, Types
  <2>3. Current(d)'
    BY <1>0, <2>1, <2>2 DEF Current, Ready
  <2>4. Owned(d)'
    BY <1>0, <1>2, <1>3, <1>4, <2>1, <2>2 DEF Owned, Ready
  <2>5. Single(d)'
    <3> SUFFICES ASSUME Kind[d] = typeProcess, NEW z \in Cell
                 PROVE  Live(z, d)' <=> z = theTask'[d] /\ d \in open' /\ pc'[d] # "clear"
      BY DEF Single
    <3>1. Live(z, d) <=> z = theTask[d] /\ d \in open /\ pc[d] # "clear"
      BY <2>1 DEF Single
    <3>2. Live(z, d)' <=> IF z = x THEN d = c ELSE Live(z, d)
      BY <1>2, <1>4 DEF Live
    <3>3. ~ Live(x, d)
      BY <1>3 DEF Live
    <3> QED
      BY <1>0, <1>3, <2>2, <3>1, <3>2, <3>3, TasksAssumption DEF Ready
  <2> QED
    BY <2>3, <2>4, <2>5
<1> QED
  BY <1>0, <1>5, <1>6, <1>7 DEF IInv

LEMMA MarkStep ==
  ASSUME IInv, NEW c \in Client, Mark(c)
  PROVE  IInv'
<1>0. /\ pc[c] = "mark" /\ pc' = [pc EXCEPT ![c] = "clear"]
      /\ UNCHANGED <<open, closing, sched, dTasks, theTask, ev, late, cut>>
      /\ task' = IF task[ev[c]] = NULL THEN task
                 ELSE [task EXCEPT ![ev[c]] = [@ EXCEPT !.type = typeDead]]
  BY DEF Mark, clients
<1>1. \A d \in Client : pc'[d] = IF d = c THEN "clear" ELSE pc[d]
  BY <1>0 DEF IInv, Types
<1>2. \A z \in Cell : \/ task'[z] = task[z] /\ (z = ev[c] => task[z] = NULL)
                      \/ /\ z = ev[c] /\ task[z] \in Task /\ task'[z] \in Task
                         /\ task'[z] # NULL /\ task'[z].of = task[z].of
                         /\ task[z] # NULL /\ task'[z].type = typeDead
  <2> SUFFICES ASSUME NEW z \in Cell
               PROVE  \/ task'[z] = task[z] /\ (z = ev[c] => task[z] = NULL)
                      \/ /\ z = ev[c] /\ task[z] \in Task /\ task'[z] \in Task
                         /\ task'[z] # NULL /\ task'[z].of = task[z].of
                         /\ task[z] # NULL /\ task'[z].type = typeDead
    OBVIOUS
  <2>1. CASE task[ev[c]] = NULL
    BY <1>0, <2>1
  <2>2. CASE task[ev[c]] # NULL /\ z # ev[c]
    BY <1>0, <2>2 DEF IInv, Types
  <2>3. CASE task[ev[c]] # NULL /\ z = ev[c]
    <3>1. task[z] \in Task
      BY <2>3 DEF IInv, Types
    <3>2. task'[z] = [task[z] EXCEPT !.type = typeDead]
      BY <1>0, <2>3 DEF IInv, Types
    <3> QED
      BY <2>3, <3>1, <3>2, DeadTask
  <2> QED
    BY <2>1, <2>2, <2>3
<1>4. task' \in [Cell -> Task \cup {NULL}]
  <2>1. task \in [Cell -> Task \cup {NULL}]
    BY DEF IInv, Types
  <2>2. CASE task[ev[c]] = NULL
    BY <1>0, <2>1, <2>2
  <2>3. CASE task[ev[c]] # NULL
    <3>1. task' = [task EXCEPT ![ev[c]] = [task[ev[c]] EXCEPT !.type = typeDead]]
      BY <1>0, <2>3
    <3>2. ev[c] \in Cell => [task[ev[c]] EXCEPT !.type = typeDead] \in Task
      BY <2>1, <2>3, DeadTask
    <3> QED
      BY <2>1, <3>1, <3>2
  <2> QED
    BY <2>2, <2>3
<1>5. \A z \in Cell : task'[z] = NULL <=> task[z] = NULL
  BY <1>2
<1>6. Types'
  BY <1>0, <1>4, <1>5 DEF IInv, Types, Free
<1>7. Queued'
  <2> SUFFICES ASSUME NEW d \in Client
               PROVE  /\ NoRepeat(dTasks[d])
                      /\ \A i \in 1..Len(dTasks[d]) :
                            LET y == dTasks[d][i]
                            IN  task'[y] # NULL /\ task'[y].of = d /\ y \notin sched
                      /\ Kind[d] = typeProcess => dTasks[d] = <<>>
                      /\ pc'[d] # "idle" => d \in open \ closing
    BY <1>0 DEF Queued
  <2>1. ASSUME NEW i \in 1..Len(dTasks[d])
        PROVE  LET y == dTasks[d][i]
               IN  task'[y] # NULL /\ task'[y].of = d /\ y \notin sched
    <3>1. dTasks[d][i] \in Cell
      BY DEF IInv, Types
    <3>2. LET y == dTasks[d][i] IN task[y] # NULL /\ task[y].of = d /\ y \notin sched
      BY DEF IInv, Queued
    <3> QED
      BY <1>2, <3>1, <3>2
  <2> QED
    BY <1>0, <1>1, <2>1 DEF IInv, Queued
<1>8. ASSUME ~ cut PROVE Pointed'
  <2> SUFFICES ASSUME NEW d \in Client PROVE (Current(d) /\ Owned(d) /\ Single(d))'
    BY DEF Pointed
  <2>1. Current(d) /\ Owned(d) /\ Single(d) /\ Current(c) /\ Owned(c) /\ Single(c)
    BY <1>8 DEF IInv, Pointed
  <2>2. /\ c \in open \ closing /\ ev[c] = theTask[c] /\ ev[c] # NULL /\ ev[c] \in Cell
        /\ task[ev[c]] # NULL /\ task[ev[c]].of = c
    BY <1>0, <2>1 DEF Current, Owned, IInv, Queued, Types
  <2>3. Current(d)'
    BY <1>0, <1>1, <2>1 DEF Current
  <2>4. Owned(d)'
    <3> SUFFICES ASSUME d \in open \ closing, theTask[d] # NULL
                 PROVE  /\ task'[theTask[d]] # NULL /\ task'[theTask[d]].of = d
                        /\ task'[theTask[d]].type = typeDead => pc'[d] = "clear"
      BY <1>0 DEF Owned
    <3>1. theTask[d] \in Cell
      BY DEF IInv, Types
    <3>2. /\ task[theTask[d]] # NULL /\ task[theTask[d]].of = d
          /\ task[theTask[d]].type = typeDead => pc[d] = "clear"
      BY <2>1 DEF Owned
    <3>3. theTask[d] = ev[c] => d = c
      BY <2>2, <3>2
    <3> QED
      BY <1>1, <1>2, <3>1, <3>2, <3>3
  <2>5. Single(d)'
    <3> SUFFICES ASSUME Kind[d] = typeProcess, NEW z \in Cell
                 PROVE  Live(z, d)' <=> z = theTask'[d] /\ d \in open' /\ pc'[d] # "clear"
      BY DEF Single
    <3>1. Live(z, d) <=> z = theTask[d] /\ d \in open /\ pc[d] # "clear"
      BY <2>1 DEF Single
    <3>2. Live(z, d)' <=> Live(z, d) /\ z # ev[c]
      BY <1>2, <2>2 DEF Live
    <3>3. d # c => ~ Live(ev[c], d)
      BY <2>2 DEF Live
    <3> QED
      BY <1>0, <1>1, <2>2, <3>1, <3>2, <3>3
  <2> QED
    BY <2>3, <2>4, <2>5
<1> QED
  BY <1>0, <1>6, <1>7, <1>8 DEF IInv


(***************************************************************************)
(* A task is executed, in the main loop of its client or by the handler.   *)
(***************************************************************************)
\* What the variables of Pointed say after a function was executed: the client
\* has its new task, the others have theirs.
LEMMA ExecutedPointed ==
  ASSUME IInv, ~ cut, NEW c \in open, NEW x \in Cell,
         task[x] # NULL, task[x].of = c,
         Execute(x, c), UNCHANGED <<open, closing, pc, ev>>,
         \A d \in Client : pc[d] # "idle" => d # c,
         Kind[c] = typeProcess => x = theTask[c]
  PROVE  Pointed'
<1> DEFINE t == [type |-> Kind[c], of |-> c]
<1>0. c \in Client
  BY DEF IInv, Types
<1>1. PICK n \in Cell \cup {NULL} :
           /\ n # x /\ (n # NULL => task[n] = NULL)
           /\ \A z \in Cell : task'[z] = IF z = x THEN NULL
                                         ELSE IF z = n THEN t ELSE task[z]
           /\ theTask' = [theTask EXCEPT ![c] = n]
  BY <1>0, Executed DEF IInv
<1>2. t \in Task /\ t # NULL /\ t.of = c /\ t.type # typeDead
  BY <1>0, KindTask
<1> HIDE DEF t
<1> SUFFICES ASSUME NEW d \in Client PROVE (Current(d) /\ Owned(d) /\ Single(d))'
  BY DEF Pointed
<1>3. Current(d) /\ Owned(d) /\ Single(d)
  BY DEF IInv, Pointed
<1>4. theTask'[d] = IF d = c THEN n ELSE theTask[d]
  BY <1>0, <1>1 DEF IInv, Types
<1>5. Current(d)'
  <2>1. Kind[d] = typeProcess /\ d \in closing => d # c
    BY <1>3, TasksAssumption DEF Current
  <2> QED
    BY <1>3, <1>4, <2>1 DEF Current
<1>6. Owned(d)'
  <2> SUFFICES ASSUME d \in open \ closing, theTask'[d] # NULL
               PROVE  /\ task'[theTask'[d]] # NULL /\ task'[theTask'[d]].of = d
                      /\ task'[theTask'[d]].type = typeDead => pc[d] = "clear"
    BY DEF Owned
  <2>1. CASE d = c
    BY <1>1, <1>2, <1>4, <2>1
  <2>2. CASE d # c
    <3>1. theTask[d] \in Cell /\ theTask'[d] = theTask[d]
      BY <1>4, <2>2 DEF IInv, Types
    <3>2. /\ task[theTask[d]] # NULL /\ task[theTask[d]].of = d
          /\ task[theTask[d]].type = typeDead => pc[d] = "clear"
      BY <1>3, <3>1 DEF Owned
    <3>3. theTask[d] # x /\ theTask[d] # n
      BY <1>1, <2>2, <3>1, <3>2, TasksAssumption
    <3> QED
      BY <1>1, <3>1, <3>2, <3>3
  <2> QED
    BY <2>1, <2>2
<1>7. Single(d)'
  <2> SUFFICES ASSUME Kind[d] = typeProcess, NEW z \in Cell
               PROVE  Live(z, d)' <=> z = theTask'[d] /\ d \in open' /\ pc'[d] # "clear"
    BY DEF Single
  <2>1. Live(z, d) <=> z = theTask[d] /\ d \in open /\ pc[d] # "clear"
    BY <1>3 DEF Single
  <2>2. Live(z, d)' <=> IF z = x THEN FALSE ELSE IF z = n THEN d = c ELSE Live(z, d)
    BY <1>1, <1>2 DEF Live
  <2>3. z # NULL
    BY TasksAssumption
  <2>4. CASE d = c
    <3>1. pc[d] # "clear" /\ x = theTask[d] /\ theTask'[d] = n
      BY <1>4, <2>4
    <3> QED
      BY <1>1, <2>1, <2>2, <2>4, <3>1
  <2>5. CASE d # c
    <3>1. ~ Live(x, d) /\ (n = z => ~ Live(z, d)) /\ theTask'[d] = theTask[d]
      BY <1>1, <1>4, <2>3, <2>5 DEF Live
    <3> QED
      BY <2>1, <2>2, <2>5, <3>1
  <2> QED
    BY <2>4, <2>5
<1> QED
  BY <1>5, <1>6, <1>7

LEMMA ExecTypes ==
  ASSUME Types, NEW c \in Client, NEW x \in Cell, task[x] # NULL, Execute(x, c)
  PROVE  /\ task' \in [Cell -> Task \cup {NULL}]
         /\ sched' \subseteq Cell \ Free'
         /\ theTask' \in [Client -> Cell \cup {NULL}]
<1> DEFINE t == [type |-> Kind[c], of |-> c]
<1>1. PICK n \in Cell \cup {NULL} :
           /\ n # x /\ (n # NULL => task[n] = NULL)
           /\ task' \in [Cell -> Task \cup {NULL}]
           /\ \A z \in Cell : task'[z] = IF z = x THEN NULL
                                         ELSE IF z = n THEN t ELSE task[z]
           /\ sched' = (sched \ {x}) \cup ({n} \cap Cell)
           /\ theTask' = [theTask EXCEPT ![c] = n]
  BY Executed
<1>2. t # NULL
  BY KindTask
<1> HIDE DEF t
<1>3. sched' \subseteq Cell \ Free'
  BY <1>1, <1>2 DEF Types, Free
<1> QED
  BY <1>1, <1>3 DEF Types

\* The fifos after it, if they have not the cell that was left.
LEMMA ExecQueued ==
  ASSUME Types, Queued, NEW c \in Client, NEW x \in Cell, task[x] # NULL, Execute(x, c),
         NEW d \in Client, NEW i \in 1..Len(dTasks[d]), dTasks[d][i] # x
  PROVE  LET y == dTasks[d][i] IN task'[y] # NULL /\ task'[y].of = d /\ y \notin sched'
<1> DEFINE t == [type |-> Kind[c], of |-> c]
<1>1. PICK n \in Cell \cup {NULL} :
           /\ n # x /\ (n # NULL => task[n] = NULL)
           /\ \A z \in Cell : task'[z] = IF z = x THEN NULL
                                         ELSE IF z = n THEN t ELSE task[z]
           /\ sched' = (sched \ {x}) \cup ({n} \cap Cell)
  BY Executed
<1> HIDE DEF t
<1>2. dTasks[d][i] \in Cell
  BY DEF Types
<1>3. LET y == dTasks[d][i] IN task[y] # NULL /\ task[y].of = d /\ y \notin sched
  BY DEF Queued
<1> QED
  BY <1>1, <1>2, <1>3, TasksAssumption

LEMMA ExecStep ==
  ASSUME IInv, NEW c \in Client, MSExec1DTask(c)
  PROVE  IInv'
<1> DEFINE s == dTasks[c]
           x == Head(s)
<1>0. /\ Ready(c) /\ s # <<>> /\ Execute(x, c)
      /\ dTasks' = [dTasks EXCEPT ![c] = Tail(s)]
      /\ UNCHANGED <<open, closing, pc, ev, late, cut>>
  BY DEF MSExec1DTask, Popped, clients, forget
<1>1. s \in Seq(Cell) /\ NoRepeat(s)
  BY DEF IInv, Types, Queued
<1> HIDE DEF s
<1>2. /\ x \in Cell /\ x = s[1] /\ 1 \in 1..Len(s)
      /\ Tail(s) \in Seq(Cell) /\ NoRepeat(Tail(s))
      /\ \A i \in 1..Len(Tail(s)) : /\ i + 1 \in 1..Len(s) /\ Tail(s)[i] = s[i + 1]
                                    /\ Tail(s)[i] # x
  BY <1>0, <1>1, TailOfFifo
<1>3. task[x] # NULL /\ task[x].of = c /\ x \notin sched /\ Kind[c] # typeProcess
  BY <1>0, <1>2 DEF IInv, Queued, s
<1> HIDE DEF x
<1>4. Types'
  <2>1. dTasks' \in [Client -> Seq(Cell)]
    BY <1>0, <1>2 DEF IInv, Types
  <2>2. /\ task' \in [Cell -> Task \cup {NULL}] /\ sched' \subseteq Cell \ Free'
        /\ theTask' \in [Client -> Cell \cup {NULL}]
    BY <1>0, <1>2, <1>3, ExecTypes DEF IInv
  <2> QED
    BY <1>0, <2>1, <2>2 DEF IInv, Types
<1>5. Queued'
  <2> SUFFICES ASSUME NEW d \in Client
               PROVE  /\ NoRepeat(dTasks'[d])
                      /\ \A i \in 1..Len(dTasks'[d]) :
                            LET y == dTasks'[d][i]
                            IN  task'[y] # NULL /\ task'[y].of = d /\ y \notin sched'
                      /\ Kind[d] = typeProcess => dTasks'[d] = <<>>
                      /\ pc[d] # "idle" => d \in open \ closing
    BY <1>0 DEF Queued
  <2>1. dTasks'[d] = IF d = c THEN Tail(s) ELSE dTasks[d]
    BY <1>0 DEF IInv, Types
  <2>2. NoRepeat(dTasks'[d])
    BY <1>2, <2>1 DEF IInv, Queued
  <2>3. ASSUME NEW i \in 1..Len(dTasks'[d])
        PROVE  LET y == dTasks'[d][i]
               IN  task'[y] # NULL /\ task'[y].of = d /\ y \notin sched'
    <3>1. CASE d = c
      <4>1. /\ i + 1 \in 1..Len(dTasks[d]) /\ dTasks'[d][i] = dTasks[d][i + 1]
            /\ dTasks[d][i + 1] # x
        BY <1>2, <2>1, <2>3, <3>1 DEF s
      <4> QED
        BY <1>0, <1>2, <1>3, <4>1, ExecQueued DEF IInv
    <3>2. CASE d # c
      <4>1. i \in 1..Len(dTasks[d]) /\ dTasks'[d][i] = dTasks[d][i]
        BY <2>1, <2>3, <3>2
      <4>2. dTasks[d][i] # x
        BY <1>3, <3>2, <4>1 DEF IInv, Queued
      <4> QED
        BY <1>0, <1>2, <1>3, <4>1, <4>2, ExecQueued DEF IInv
    <3> QED
      BY <3>1, <3>2
  <2> QED
    BY <1>3, <2>1, <2>2, <2>3 DEF IInv, Queued
<1>6. ASSUME ~ cut PROVE Pointed'
  <2>1. c \in open /\ \A d \in Client : pc[d] # "idle" => d # c
    BY <1>0 DEF Ready
  <2> QED
    BY <1>0, <1>2, <1>3, <1>6, <2>1, ExecutedPointed
<1> QED
  BY <1>0, <1>4, <1>5, <1>6 DEF IInv


(***************************************************************************)
(* A client closes.                                                        *)
(***************************************************************************)
LEMMA FlushStep ==
  ASSUME IInv, NEW c \in Client, MSClose(c)
  PROVE  IInv'
<1> DEFINE flushed == {dTasks[c][i] : i \in 1..Len(dTasks[c])}
<1>0. /\ Ready(c) /\ (Kind[c] = typeProcess => theTask[c] = NULL)
      /\ dTasks' = [dTasks EXCEPT ![c] = <<>>] /\ closing' = closing \cup {c}
      /\ UNCHANGED <<open, sched, theTask, pc, ev, late, cut>>
  BY DEF MSClose, MSFlushDTasks, forget
<1>1. task' = [x \in Cell |-> IF x \in flushed THEN NULL ELSE task[x]]
  <2>1. dTasks[c] \in Seq(Cell)
    BY DEF IInv, Types
  <2>2. ToSet(dTasks[c]) = flushed
    BY <2>1 DEF ToSet
  <2> QED
    BY <2>2 DEF MSClose, MSFlushDTasks, Freed
<1>2. \A x \in flushed : task[x] # NULL /\ task[x].of = c /\ x \notin sched
  BY DEF IInv, Queued
<1> HIDE DEF flushed
<1>3. Types'
  <2>1. dTasks' \in [Client -> Seq(Cell)]
    <3>1. <<>> \in Seq(Cell)
      OBVIOUS
    <3> QED
      BY <1>0, <3>1 DEF IInv, Types
  <2>2. task' \in [Cell -> Task \cup {NULL}]
    BY <1>1 DEF IInv, Types
  <2>3. sched' \subseteq Cell \ Free'
    BY <1>0, <1>1, <1>2 DEF IInv, Types, Free
  <2> QED
    BY <1>0, <2>1, <2>2, <2>3 DEF IInv, Types, Ready
<1>4. Queued'
  <2> SUFFICES ASSUME NEW d \in Client
               PROVE  /\ NoRepeat(dTasks'[d])
                      /\ \A i \in 1..Len(dTasks'[d]) :
                            LET y == dTasks'[d][i]
                            IN  task'[y] # NULL /\ task'[y].of = d /\ y \notin sched
                      /\ Kind[d] = typeProcess => dTasks'[d] = <<>>
                      /\ pc[d] # "idle" => d \in open \ closing'
    BY <1>0 DEF Queued
  <2>1. dTasks'[d] = IF d = c THEN <<>> ELSE dTasks[d]
    BY <1>0 DEF IInv, Types
  <2>2. NoRepeat(dTasks'[d])
    BY <2>1 DEF IInv, Queued, NoRepeat
  <2>3. ASSUME NEW i \in 1..Len(dTasks'[d])
        PROVE  LET y == dTasks'[d][i]
               IN  task'[y] # NULL /\ task'[y].of = d /\ y \notin sched
    <3>1. d # c /\ i \in 1..Len(dTasks[d]) /\ dTasks'[d][i] = dTasks[d][i]
      BY <2>1, <2>3
    <3>2. dTasks[d][i] \in Cell
      BY <3>1 DEF IInv, Types
    <3>3. LET y == dTasks[d][i] IN task[y] # NULL /\ task[y].of = d /\ y \notin sched
      BY <3>1 DEF IInv, Queued
    <3> QED
      BY <1>1, <1>2, <3>1, <3>2, <3>3
  <2> QED
    BY <1>0, <2>1, <2>2, <2>3 DEF IInv, Queued, Ready
<1>5. ASSUME ~ cut PROVE Pointed'
  <2> SUFFICES ASSUME NEW d \in Client PROVE (Current(d) /\ Owned(d) /\ Single(d))'
    BY DEF Pointed
  <2>1. Current(d) /\ Owned(d) /\ Single(d)
    BY <1>5 DEF IInv, Pointed
  <2>2. Current(d)'
    BY <1>0, <2>1 DEF Current
  <2>3. Owned(d)'
    <3> SUFFICES ASSUME d \in open \ closing', theTask[d] # NULL
                 PROVE  /\ task'[theTask[d]] # NULL /\ task'[theTask[d]].of = d
                        /\ task'[theTask[d]].type = typeDead => pc[d] = "clear"
      BY <1>0 DEF Owned
    <3>1. theTask[d] \in Cell /\ d # c
      BY <1>0 DEF IInv, Types
    <3>2. /\ task[theTask[d]] # NULL /\ task[theTask[d]].of = d
          /\ task[theTask[d]].type = typeDead => pc[d] = "clear"
      BY <1>0, <2>1 DEF Owned
    <3> QED
      BY <1>1, <1>2, <3>1, <3>2
  <2>4. Single(d)'
    <3> SUFFICES ASSUME Kind[d] = typeProcess, NEW z \in Cell
                 PROVE  Live(z, d)' <=> z = theTask'[d] /\ d \in open' /\ pc'[d] # "clear"
      BY DEF Single
    <3>1. Live(z, d) <=> z = theTask[d] /\ d \in open /\ pc[d] # "clear"
      BY <2>1 DEF Single
    <3>2. z \in flushed => d # c
      BY DEF IInv, Queued, flushed
    <3>3. Live(z, d)' <=> Live(z, d)
      BY <1>1, <1>2, <3>2 DEF Live
    <3> QED
      BY <1>0, <3>1, <3>3
  <2> QED
    BY <2>2, <2>3, <2>4
<1> QED
  BY <1>0, <1>3, <1>4, <1>5 DEF IInv

LEMMA FreeStep ==
  ASSUME IInv, NEW c \in Client, FreeAppl(c)
  PROVE  IInv'
<1>0. /\ c \in closing /\ open' = open \ {c} /\ closing' = closing \ {c}
      /\ dTasks' = [dTasks EXCEPT ![c] = <<>>]
      /\ UNCHANGED <<task, sched, theTask, pc, ev, late, cut>>
  BY DEF FreeAppl, forget
<1>1. \A d \in Client : dTasks'[d] = IF d = c THEN <<>> ELSE dTasks[d]
  BY <1>0 DEF IInv, Types
<1>2. Types'
  <2>1. dTasks' \in [Client -> Seq(Cell)]
    <3>1. <<>> \in Seq(Cell)
      OBVIOUS
    <3> QED
      BY <1>0, <3>1 DEF IInv, Types
  <2> QED
    BY <1>0, <2>1 DEF IInv, Types, Free
<1>3. Queued'
  <2> SUFFICES ASSUME NEW d \in Client
               PROVE  /\ NoRepeat(dTasks'[d])
                      /\ \A i \in 1..Len(dTasks'[d]) :
                            LET y == dTasks'[d][i]
                            IN  task[y] # NULL /\ task[y].of = d /\ y \notin sched
                      /\ Kind[d] = typeProcess => dTasks'[d] = <<>>
                      /\ pc[d] # "idle" => d \in open' \ closing'
    BY <1>0 DEF Queued
  <2>1. NoRepeat(dTasks'[d])
    BY <1>1 DEF IInv, Queued, NoRepeat
  <2>2. ASSUME NEW i \in 1..Len(dTasks'[d])
        PROVE  LET y == dTasks'[d][i] IN task[y] # NULL /\ task[y].of = d /\ y \notin sched
    <3>1. d # c /\ i \in 1..Len(dTasks[d]) /\ dTasks'[d][i] = dTasks[d][i]
      BY <1>1, <2>2
    <3> QED
      BY <3>1 DEF IInv, Queued
  <2> QED
    BY <1>0, <1>1, <2>1, <2>2 DEF IInv, Queued
\* The clock of a client that closes has stopped.
<1>4. ASSUME ~ cut PROVE Pointed'
  <2> SUFFICES ASSUME NEW d \in Client PROVE (Current(d) /\ Owned(d) /\ Single(d))'
    BY DEF Pointed
  <2>1. Current(d) /\ Owned(d) /\ Single(d)
    BY <1>4 DEF IInv, Pointed
  <2>2. Current(d)'
    BY <1>0, <2>1 DEF Current
  <2>3. Owned(d)'
    BY <1>0, <2>1 DEF Owned
  <2>4. Single(d)'
    BY <1>0, <2>1, TasksAssumption DEF Single, Live, Current
  <2> QED
    BY <2>2, <2>3, <2>4
<1> QED
  BY <1>0, <1>2, <1>3, <1>4 DEF IInv

(***************************************************************************)
(* A task falls due.                                                       *)
(***************************************************************************)
LEMMA DispatchStep ==
  ASSUME IInv, NEW x \in Cell, DispatchTask(x)
  PROVE  IInv'
<1> DEFINE c == task[x].of
<1>0. /\ x \in sched
      /\ IF Ignored(x) THEN Discard(x)
         ELSE IF Kind[c] = typeProcess THEN Execute(x, c) /\ UNCHANGED <<dTasks, late>>
         ELSE AcceptTask(x, c)
      /\ cut' = (cut \/ \E d \in Client : pc[d] # "idle" /\ ev[d] = x)
      /\ UNCHANGED <<open, closing, pc, ev>>
  BY DEF DispatchTask, clients, forget
<1>1. /\ task[x] # NULL /\ task[x] \in Task /\ c \in Client
      /\ \A d \in Client : \A i \in 1..Len(dTasks[d]) : dTasks[d][i] # x
  BY <1>0 DEF IInv, Types, Queued, Free, Task
<1>2. cut' \in BOOLEAN
  BY <1>0 DEF IInv, Types
<1>3. ASSUME ~ cut'
      PROVE  ~ cut /\ Pointed /\ \A d \in Client : pc[d] # "idle" => ev[d] # x
  BY <1>0, <1>3 DEF IInv
<1> HIDE DEF c
<1>4. CASE Ignored(x)
  <2>1. /\ task' = [task EXCEPT ![x] = NULL] /\ sched' = sched \ {x}
        /\ UNCHANGED <<dTasks, theTask, late>>
    BY <1>0, <1>4 DEF Discard
  <2>2. \A z \in Cell : task'[z] = IF z = x THEN NULL ELSE task[z]
    BY <2>1 DEF IInv, Types
  <2>3. Types'
    BY <1>0, <1>2, <2>1, <2>2 DEF IInv, Types, Free
  <2>4. Queued'
    <3> SUFFICES ASSUME NEW d \in Client, NEW i \in 1..Len(dTasks[d])
                 PROVE  LET y == dTasks[d][i]
                        IN  task'[y] # NULL /\ task'[y].of = d /\ y \notin sched'
      BY <1>0, <2>1 DEF IInv, Queued
    <3>1. dTasks[d][i] \in Cell
      BY DEF IInv, Types
    <3>2. LET y == dTasks[d][i] IN task[y] # NULL /\ task[y].of = d /\ y \notin sched
      BY DEF IInv, Queued
    <3> QED
      BY <1>1, <2>1, <2>2, <3>1, <3>2
  <2>5. ASSUME ~ cut' PROVE Pointed'
    <3> SUFFICES ASSUME NEW d \in Client PROVE (Current(d) /\ Owned(d) /\ Single(d))'
      BY DEF Pointed
    <3>1. /\ Current(d) /\ Owned(d) /\ Single(d)
          /\ pc[d] # "idle" => ev[d] # x
      BY <1>3, <2>5 DEF Pointed
    <3>2. Current(d)'
      BY <1>0, <2>1, <3>1 DEF Current
    <3>3. Owned(d)'
      <4> SUFFICES ASSUME d \in open \ closing, theTask[d] # NULL
                   PROVE  /\ task'[theTask[d]] # NULL /\ task'[theTask[d]].of = d
                          /\ task'[theTask[d]].type = typeDead => pc[d] = "clear"
        BY <1>0, <2>1 DEF Owned
      <4>1. theTask[d] \in Cell
        BY DEF IInv, Types
      <4>2. /\ task[theTask[d]] # NULL /\ task[theTask[d]].of = d
            /\ task[theTask[d]].type = typeDead => pc[d] = "clear"
        BY <3>1 DEF Owned
      <4>3. theTask[d] # x
        BY <1>4, <3>1, <4>2 DEF Ignored, Current
      <4> QED
        BY <2>2, <4>1, <4>2, <4>3
    <3>4. Single(d)'
      <4> SUFFICES ASSUME Kind[d] = typeProcess, NEW z \in Cell
                   PROVE  Live(z, d)' <=> z = theTask'[d] /\ d \in open' /\ pc'[d] # "clear"
        BY DEF Single
      <4>1. Live(z, d) <=> z = theTask[d] /\ d \in open /\ pc[d] # "clear"
        BY <3>1 DEF Single
      <4>2. ~ Live(x, d)
        <5>1. Live(x, d) => x = theTask[d] /\ d \in open
          BY <3>1 DEF Single
        <5> QED
          BY <1>4, <5>1 DEF Ignored, Live
      <4>3. Live(z, d)' <=> Live(z, d)
        BY <2>2, <4>2 DEF Live
      <4> QED
        BY <1>0, <2>1, <4>1, <4>3
    <3> QED
      BY <3>2, <3>3, <3>4
  <2> QED
    BY <2>3, <2>4, <2>5 DEF IInv
<1>5. CASE ~ Ignored(x) /\ Kind[c] = typeProcess
  <2>1. /\ Execute(x, c) /\ UNCHANGED <<dTasks, late>>
        /\ c \in open /\ task[x].type # typeDead
    BY <1>0, <1>5 DEF Ignored, c
  <2>2. Types'
    <3>1. /\ task' \in [Cell -> Task \cup {NULL}] /\ sched' \subseteq Cell \ Free'
          /\ theTask' \in [Client -> Cell \cup {NULL}]
      BY <1>1, <2>1, ExecTypes DEF IInv
    <3> QED
      BY <1>0, <1>2, <2>1, <3>1 DEF IInv, Types
  <2>3. Queued'
    <3> SUFFICES ASSUME NEW d \in Client, NEW i \in 1..Len(dTasks[d])
                 PROVE  LET y == dTasks[d][i]
                        IN  task'[y] # NULL /\ task'[y].of = d /\ y \notin sched'
      BY <1>0, <2>1 DEF IInv, Queued
    <3> QED
      BY <1>1, <2>1, ExecQueued DEF IInv
  <2>4. ASSUME ~ cut' PROVE Pointed'
    <3>1. /\ Single(c) /\ Current(c) /\ ~ cut
          /\ pc[c] # "idle" => ev[c] # x
      BY <1>1, <1>3, <2>4 DEF Pointed
    <3>2. Live(x, c)
      BY <1>1, <2>1 DEF Live, c
    <3>3. x = theTask[c]
      BY <1>5, <3>1, <3>2 DEF Single
    <3>4. pc[c] = "idle"
      BY <3>1, <3>3 DEF Current
    <3> QED
      BY <1>0, <1>1, <2>1, <3>1, <3>3, <3>4, ExecutedPointed DEF c
  <2> QED
    BY <2>2, <2>3, <2>4 DEF IInv
<1>6. CASE ~ Ignored(x) /\ Kind[c] # typeProcess
  <2> DEFINE s == dTasks[c]
  <2>1. /\ dTasks' = [dTasks EXCEPT ![c] = Append(s, x)]
        /\ late' = IF c \in closing THEN late \cup {x} ELSE late
        /\ sched' = sched \ {x} /\ UNCHANGED <<task, theTask>>
    BY <1>0, <1>6 DEF AcceptTask
  <2>2. s \in Seq(Cell) /\ NoRepeat(s) /\ \A i \in 1..Len(s) : s[i] # x
    BY <1>1 DEF IInv, Types, Queued
  <2> HIDE DEF s
  <2>3. /\ Append(s, x) \in Seq(Cell) /\ NoRepeat(Append(s, x))
        /\ \A i \in 1..Len(Append(s, x)) :
              IF i \in 1..Len(s) THEN Append(s, x)[i] = s[i] ELSE Append(s, x)[i] = x
    BY <2>2, AppendToFifo
  <2>4. \A d \in Client : dTasks'[d] = IF d = c THEN Append(s, x) ELSE dTasks[d]
    BY <2>1 DEF IInv, Types
  <2>5. Types'
    <3>1. dTasks' \in [Client -> Seq(Cell)]
      BY <2>1, <2>3 DEF IInv, Types
    <3> QED
      BY <1>0, <1>2, <2>1, <3>1 DEF IInv, Types, Free
  <2>6. Queued'
    <3> SUFFICES ASSUME NEW d \in Client
                 PROVE  /\ NoRepeat(dTasks'[d])
                        /\ \A i \in 1..Len(dTasks'[d]) :
                              LET y == dTasks'[d][i]
                              IN  task[y] # NULL /\ task[y].of = d /\ y \notin sched'
                        /\ Kind[d] = typeProcess => dTasks'[d] = <<>>
                        /\ pc[d] # "idle" => d \in open \ closing
      BY <1>0, <2>1 DEF Queued
    <3>1. NoRepeat(dTasks'[d])
      BY <2>3, <2>4 DEF IInv, Queued
    <3>2. ASSUME NEW i \in 1..Len(dTasks'[d])
          PROVE  LET y == dTasks'[d][i] IN task[y] # NULL /\ task[y].of = d /\ y \notin sched'
      <4>1. CASE d = c
        <5>1. CASE i \in 1..Len(s)
          <6>1. dTasks'[d][i] = dTasks[d][i] /\ i \in 1..Len(dTasks[d])
            BY <2>3, <2>4, <3>2, <4>1, <5>1 DEF s
          <6> QED
            BY <2>1, <6>1 DEF IInv, Queued
        <5>2. CASE i \notin 1..Len(s)
          <6>1. dTasks'[d][i] = x
            BY <2>3, <2>4, <3>2, <4>1, <5>2
          <6> QED
            BY <1>1, <2>1, <4>1, <6>1 DEF c
        <5> QED
          BY <5>1, <5>2
      <4>2. CASE d # c
        <5>1. dTasks'[d][i] = dTasks[d][i] /\ i \in 1..Len(dTasks[d])
          BY <2>4, <3>2, <4>2
        <5> QED
          BY <2>1, <5>1 DEF IInv, Queued
      <4> QED
        BY <4>1, <4>2
    <3>3. Kind[d] = typeProcess => dTasks'[d] = <<>>
      BY <1>6, <2>4 DEF IInv, Queued
    <3> QED
      BY <3>1, <3>2, <3>3 DEF IInv, Queued
  <2>7. ASSUME ~ cut' PROVE Pointed'
    BY <1>0, <1>3, <2>1, <2>7 DEF Pointed, Current, Owned, Single, Live
  <2> QED
    BY <2>5, <2>6, <2>7 DEF IInv
<1> QED
  BY <1>4, <1>5, <1>6

(***************************************************************************)
(* The theorems.                                                           *)
(***************************************************************************)
LEMMA NextIInv == IInv /\ [Next]_vars => IInv'
<1> SUFFICES ASSUME IInv, [Next]_vars PROVE IInv'
  OBVIOUS
<1>1. CASE UNCHANGED vars
  <2>1. UNCHANGED <<open, closing, task, sched, dTasks, theTask, pc, ev, late, cut>>
    BY <1>1 DEF vars, clients, forget
  <2>2. Types' /\ Queued'
    BY <2>1 DEF IInv, Types, Free, Queued
  <2>3. Pointed => Pointed'
    BY <2>1 DEF Pointed, Current, Owned, Single, Live
  <2> QED
    BY <2>1, <2>2, <2>3 DEF IInv
<1>2. ASSUME NEW c \in Client,
             \/ MSOpen(c) \/ MSTask(c) \/ MSExec1DTask(c)
             \/ MSForgetTask(c) \/ ForgetTaskSync(c) \/ Mark(c) \/ ClearVariable(c)
             \/ MSClose(c) \/ FreeAppl(c)
      PROVE  IInv'
  BY <1>2, OpenStep, TaskBegins, ExecStep, ForgetBegins, CompareStep, MarkStep, ClearStep,
     FlushStep, FreeStep
<1>3. ASSUME NEW x \in Cell, DispatchTask(x) PROVE IInv'
  BY <1>3, DispatchStep
<1> QED
  BY <1>1, <1>2, <1>3 DEF Next

\* In every state the fifos hold tasks of their clients, once, and the variables
\* of the clients point to tasks of theirs (msTasks.c).
THEOREM Invariance == Spec => []IInv
<1>1. Init => IInv
  BY InitIInv
<1>2. IInv /\ [Next]_vars => IInv'
  BY NextIInv
<1> QED
  BY <1>1, <1>2, PTL DEF Spec

\* Every variable keeps its type: no cell that is free is scheduled, or waits in
\* a fifo for its client, and none is in both.
THEOREM TypeCorrect == Spec => []TypeOK
<1>1. IInv => TypeOK
  <2> SUFFICES ASSUME IInv PROVE TypeOK
    OBVIOUS
  <2>1. dTasks \in [Client -> Seq(Cell \ (Free \cup sched))]
    <3> SUFFICES ASSUME NEW c \in Client PROVE dTasks[c] \in Seq(Cell \ (Free \cup sched))
      BY DEF IInv, Types
    <3>1. dTasks[c] \in Seq(Cell)
      BY DEF IInv, Types
    <3>2. \A i \in 1..Len(dTasks[c]) : dTasks[c][i] \in Cell \ (Free \cup sched)
      BY <3>1 DEF IInv, Queued, Free
    <3> DEFINE s == dTasks[c]
               T == Cell \ (Free \cup sched)
    <3> HIDE DEF s, T
    <3>3. s \in Seq(Cell) /\ \A i \in 1..Len(s) : s[i] \in T
      BY <3>1, <3>2 DEF s, T
    <3>4. s \in Seq(T)
      BY <3>3
    <3> QED
      BY <3>4 DEF s, T
  <2> QED
    BY <2>1 DEF IInv, Types, TypeOK
<1> QED
  BY <1>1, Invariance, PTL

\* The variable of a client whose clock runs at interrupt level points to the one
\* task of that clock, unless a task fell due in the call that was forgetting it.
THEOREM ClockAlwaysPointed == Spec => []ClockPointed
<1>1. IInv => ClockPointed
  <2> SUFFICES ASSUME IInv, ~ cut, NEW c \in open, Kind[c] = typeProcess, pc[c] # "clear"
               PROVE  {x \in Cell : Live(x, c)} = {theTask[c]} \ {NULL}
    BY DEF ClockPointed
  <2>1. c \in Client /\ theTask[c] \in Cell \cup {NULL} /\ NULL \notin Cell
    BY TasksAssumption DEF IInv, Types
  <2>2. \A x \in Cell : Live(x, c) <=> x = theTask[c]
    BY <2>1 DEF IInv, Pointed, Single
  <2> QED
    BY <2>1, <2>2
<1> QED
  BY <1>1, Invariance, PTL

==============================================================================
