------------------------------- MODULE Tasks -------------------------------
(***************************************************************************)
(* Tasks (msTasks.c): events that carry a function, executed by the clock  *)
(* handler at their date or kept for their client to execute, and          *)
(* forgotten by marking the event (MSForgetTask, ForgetTaskSync).          *)
(*                                                                         *)
(* A client keeps the pointer to its task in a variable, as the pages on   *)
(* MidiForgetTask show: the function schedules itself again and stores the *)
(* new pointer, or stores NIL when it stops.  The handler is an interrupt  *)
(* and comes between two steps of a call.  Dates are left out: any task    *)
(* that is scheduled may be the next to fall due.                          *)
(***************************************************************************)
EXTENDS Integers, Sequences, FiniteSets, SequencesExt

CONSTANTS
    Client,       \* clients, each with one task variable
    Kind,         \* Kind[c]: typeProcess or typeDProcess, what c schedules
    Cell,         \* cells of the free list
    NULL          \* the null pointer, and the task of a free cell

typeProcess  == "process"
typeDProcess == "dprocess"
typeDead     == "dead"

\* An event of a task, whose type becomes typeDead when it is forgotten.
Task == [type : {typeProcess, typeDProcess, typeDead}, of : Client]

ASSUME TasksAssumption ==
    /\ IsFiniteSet(Client) /\ IsFiniteSet(Cell) /\ NULL \notin Cell \cup Task
    /\ Kind \in [Client -> {typeProcess, typeDProcess}]

VARIABLES
    open,         \* clients of the table appls
    closing,      \* clients whose fifos MSClose has flushed
    task,         \* task[x]: type and client of the event in x, or NULL
    sched,        \* cells that wait for their date
    dTasks,       \* dTasks[c]: the fifo of tasks that c is to execute
    theTask,      \* theTask[c]: the variable of c
    pc, ev,       \* pc[c], ev[c]: the call of MSForgetTask and its local
    late,         \* cells put into the fifo of a client that is closing
    cut           \* a task fell due in the call that was forgetting it

clients == <<open, closing>>
forget == <<pc, ev>>
vars == <<clients, task, sched, dTasks, theTask, forget, late, cut>>

Free == {x \in Cell : task[x] = NULL}
Live(x, c) == task[x] # NULL /\ task[x].of = c /\ task[x].type # typeDead

Init ==
    /\ open = {} /\ closing = {}
    /\ task = [x \in Cell |-> NULL] /\ sched = {} /\ dTasks = [c \in Client |-> <<>>]
    /\ theTask = [c \in Client |-> NULL]
    /\ pc = [c \in Client |-> "idle"] /\ ev = [c \in Client |-> NULL]
    /\ late = {} /\ cut = FALSE

---------------------------------------------------------------------------
(* Calls of the clients                                                    *)

\* A client calls nothing else while it is in one of these calls.
Ready(c) == c \in open /\ c \notin closing /\ pc[c] = "idle"

MSOpen(c) ==
    /\ c \notin open
    /\ open' = open \cup {c}
    /\ theTask' = [theTask EXCEPT ![c] = NULL]
    /\ UNCHANGED <<closing, task, sched, dTasks, forget, late, cut>>

\* theTask = MidiTask (...) or MidiDTask (...), with a date that is still to
\* come when the pointer is stored; only the first task of c starts so.
MSTask(c) ==
    /\ Ready(c) /\ theTask[c] = NULL
    /\ \E x \in Free :
          /\ task' = [task EXCEPT ![x] = [type |-> Kind[c], of |-> c]]
          /\ sched' = sched \cup {x}
          /\ theTask' = [theTask EXCEPT ![c] = x]
    /\ UNCHANGED <<clients, dTasks, forget, late, cut>>

\* MSForgetTask reads the variable and the type,
MSForgetTask(c) ==
    /\ Ready(c) /\ theTask[c] # NULL
    /\ task[theTask[c]] # NULL /\ task[theTask[c]].type # typeDead
    /\ ev' = [ev EXCEPT ![c] = theTask[c]]
    /\ pc' = [pc EXCEPT ![c] = "compare"]
    /\ UNCHANGED <<clients, task, sched, dTasks, theTask, late, cut>>

Return(c) == pc' = [pc EXCEPT ![c] = "idle"] /\ ev' = [ev EXCEPT ![c] = NULL]

\* ForgetTaskSync compares, unless the handler has changed the variable,
ForgetTaskSync(c) ==
    /\ pc[c] = "compare"
    /\ IF theTask[c] = ev[c]
       THEN pc' = [pc EXCEPT ![c] = "mark"] /\ UNCHANGED ev
       ELSE Return(c)
    /\ UNCHANGED <<clients, task, sched, dTasks, theTask, late, cut>>

\* marks the event,
Mark(c) ==
    /\ pc[c] = "mark"
    /\ task' = IF task[ev[c]] = NULL THEN task
               ELSE [task EXCEPT ![ev[c]].type = typeDead]
    /\ pc' = [pc EXCEPT ![c] = "clear"]
    /\ UNCHANGED <<clients, sched, dTasks, theTask, ev, late, cut>>

\* and clears the variable.
ClearVariable(c) ==
    /\ pc[c] = "clear"
    /\ theTask' = [theTask EXCEPT ![c] = NULL]
    /\ Return(c)
    /\ UNCHANGED <<clients, task, sched, dTasks, late, cut>>

\* The function of task x is executed: it schedules itself again if there is a
\* cell, or stops.  The event is freed after it.
Execute(x, c) ==
    \/ \E y \in Free :
          /\ task' = [task EXCEPT ![y] = [type |-> Kind[c], of |-> c], ![x] = NULL]
          /\ sched' = (sched \ {x}) \cup {y}
          /\ theTask' = [theTask EXCEPT ![c] = y]
    \/ /\ task' = [task EXCEPT ![x] = NULL]
       /\ sched' = sched \ {x}
       /\ theTask' = [theTask EXCEPT ![c] = NULL]

\* Mutant: the task that is executed stays in the fifo.
PoppedNot(c) == dTasks[c]

\* fifoget, in MSGetDTask.
Popped(c) == Tail(dTasks[c])

\* MSExec1DTask: the oldest task in the fifo, whatever its type has become.
MSExec1DTask(c) ==
    /\ Ready(c) /\ dTasks[c] # <<>>
    /\ Execute(Head(dTasks[c]), c)
    /\ dTasks' = [dTasks EXCEPT ![c] = Popped(c)]
    /\ UNCHANGED <<clients, forget, late, cut>>

\* Mutant: MSClose forgets the tasks that were accepted.
FreedNone(c) == {}

\* MSFlushDTasks gives back all that is in the fifo.
Freed(c) == ToSet(dTasks[c])

MSFlushDTasks(c) ==
    /\ task' = [x \in Cell |-> IF x \in Freed(c) THEN NULL ELSE task[x]]
    /\ dTasks' = [dTasks EXCEPT ![c] = <<>>]

\* A client with a clock stops it before it closes: when it has gone, the
\* function must not be called for the next client with its number.
MSClose(c) ==
    /\ Ready(c) /\ (Kind[c] = typeProcess => theTask[c] = NULL)
    /\ MSFlushDTasks(c)
    /\ closing' = closing \cup {c}
    /\ UNCHANGED <<open, sched, theTask, forget, late, cut>>

\* The end of closeClient: the entry goes, and the fifo with it.
FreeAppl(c) ==
    /\ c \in closing
    /\ open' = open \ {c} /\ closing' = closing \ {c}
    /\ dTasks' = [dTasks EXCEPT ![c] = <<>>]
    /\ UNCHANGED <<task, sched, theTask, forget, late, cut>>

---------------------------------------------------------------------------
(* The clock handler                                                       *)

Discard(x) ==
    /\ task' = [task EXCEPT ![x] = NULL]
    /\ sched' = sched \ {x}
    /\ UNCHANGED <<dTasks, theTask, late>>

\* AcceptTask, at interrupt level.
AcceptTask(x, c) ==
    /\ dTasks' = [dTasks EXCEPT ![c] = Append(@, x)]
    /\ late' = IF c \in closing THEN late \cup {x} ELSE late
    /\ sched' = sched \ {x}
    /\ UNCHANGED <<task, theTask>>

\* Mutant: a dead task is only recognised when its client is gone.
IgnoredGone(x) == task[x].of \notin open

\* typeReserved and above, and events of clients that are gone.
Ignored(x) == task[x].type = typeDead \/ task[x].of \notin open

\* DispatchEvents for a task: the events that are not executed are freed.
DispatchTask(x) ==
    /\ x \in sched
    /\ LET c == task[x].of IN
       IF Ignored(x) THEN Discard(x)
       ELSE IF Kind[c] = typeProcess
            THEN Execute(x, c) /\ UNCHANGED <<dTasks, late>>
            ELSE AcceptTask(x, c)
    /\ cut' = (cut \/ \E c \in Client : pc[c] # "idle" /\ ev[c] = x)
    /\ UNCHANGED <<clients, forget>>

Next ==
    \/ \E c \in Client :
          \/ MSOpen(c) \/ MSTask(c) \/ MSExec1DTask(c)
          \/ MSForgetTask(c) \/ ForgetTaskSync(c) \/ Mark(c) \/ ClearVariable(c)
          \/ MSClose(c) \/ FreeAppl(c)
    \/ \E x \in Cell : DispatchTask(x)

\* Every date comes; a client comes back to MidiExec1DTask in its main loop,
\* between other calls, until it closes; and calls return.
Spec ==
    /\ Init /\ [][Next]_vars
    /\ \A x \in Cell : WF_vars(DispatchTask(x))
    /\ \A c \in Client : /\ SF_vars(MSExec1DTask(c)) /\ WF_vars(FreeAppl(c))
                         /\ WF_vars(ForgetTaskSync(c) \/ Mark(c) \/ ClearVariable(c))

---------------------------------------------------------------------------
(* Properties                                                              *)

\* Every variable has its type, and only events of tasks are scheduled.
TypeOK ==
    /\ open \subseteq Client /\ closing \subseteq open
    /\ task \in [Cell -> Task \cup {NULL}]
    /\ sched \subseteq Cell \ Free
    /\ dTasks \in [Client -> Seq(Cell \ (Free \cup sched))]
    /\ theTask \in [Client -> Cell \cup {NULL}]
    /\ pc \in [Client -> {"idle", "compare", "mark", "clear"}]
    /\ ev \in [Client -> Cell \cup {NULL}] /\ late \subseteq Cell
    /\ cut \in BOOLEAN

\* The promise of the page on MidiForgetTask, "theClock always point to a valid
\* task": the variable of a client whose clock runs at interrupt level points
\* to the one task of that clock, and is NIL when there is none.  So a clock
\* that was forgotten is over, and no mark falls on an event that is not its
\* own; as long as no task falls due in the very call that forgets it, for the
\* three steps of ForgetTaskSync are not one (msTasks.c:104, macosx.c:239).
ClockPointed ==
    cut \/ \A c \in open : Kind[c] = typeProcess /\ pc[c] # "clear" =>
             {x \in Cell : Live(x, c)} = {theTask[c]} \ {NULL}

\* Every task comes to its end: executed, forgotten, or given back when its
\* client closes; but for one that the handler accepts between the flush and
\* the end of MSClose, which nobody frees (msAppls.c:274).
TasksEnd == \A x \in Cell : (task[x] # NULL /\ x \notin late) ~> (task[x] = NULL \/ x \in late)
=============================================================================
