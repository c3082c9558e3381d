---------------------------- MODULE CommandQueue ----------------------------
(***************************************************************************)
(* How the Linux kernel module hands commands (realtime tasks and alarms)  *)
(* to a client in user space: the kernel's threads put a command in the    *)
(* client's fifo and wake the client's handler thread; the handler calls   *)
(* MidiGetCommand in a loop, which sleeps in the module while there is     *)
(* nothing to do (linux/kernel/MidiShareLinux.c, linux/kernel/MidiShare.c, *)
(* linux/library/libMidiShare.c).                                          *)
(*                                                                         *)
(* The fifo is the one of LFFifo, step by step: its cells are the          *)
(* commands, its producers the senders, and its one consumer the handler.  *)
(* A cell the handler holds is a command that has been freed; its cell is  *)
(* not used again here.                                                    *)
(***************************************************************************)
EXTENDS LFFifo

CONSTANTS Thread,      \* the handler thread of the client (CmdHandler)
          Large,       \* the commands that take two cells in user space
          Interrupts   \* bound: how many signals the handler thread receives

ASSUME CommandQueueAssumption == Large \subseteq Cells /\ Interrupts \in Nat

\* Each client has a list of its own, and one handler thread reads it.
OneReader == Consumers = {Thread} /\ Thread \notin Producers

VARIABLES wakeFlag,    \* context->wakeFlag
          place,       \* where the handler thread is
          call,        \* which of the calls of mskGetCommand it makes
          avail,       \* what MSAvailCommand returned
          cells,       \* arg.d: how many cells the library lends
          waking,      \* waking[s]: where a sender is, beside its fifoput
          dead,        \* the commands that were forgotten
          delivered,   \* history: the commands copied to user space, in order
          dropped,     \* history: the commands freed and not copied
          signals      \* how many signals the handler received

reader == <<place, call, avail, cells>>
record == <<dead, delivered, dropped>>
queueVars == <<vars, wakeFlag, reader, waking, record, signals>>

Copied == {delivered[i] : i \in 1..Len(delivered)}

\* CreateApplContext, then the library starts the handler.
QueueInit == /\ Init
             /\ wakeFlag = FALSE
             /\ place = "user" /\ call = "avail" /\ avail = NULL /\ cells = 1
             /\ waking = [s \in Producers |-> "rest"]
             /\ dead = {} /\ delivered = <<>> /\ dropped = {}
             /\ signals = 0
-----------------------------------------------------------------------------
\* CallTaskCode, CallRcvAlarm, CallApplAlarm: fifoput is called, ...
Command(s, c) ==
  /\ waking[s] = "rest"
  /\ fifoput(s, c)
  /\ UNCHANGED <<wakeFlag, reader, waking, record, signals>>

\* ... runs and returns,
Put(s) ==
  /\ Step(s)
  /\ waking' = [waking EXCEPT ![s] = IF pc[s] = "return" THEN "test" ELSE @]
  /\ UNCHANGED <<wakeFlag, reader, record, signals>>

\* Mutant: the handler is never woken.
WakeTestNever(s) ==
  /\ waking[s] = "test"
  /\ waking' = [waking EXCEPT ![s] = "rest"]
  /\ UNCHANGED <<vars, wakeFlag, reader, record, signals>>

\* then wakeUp: nothing to do when the flag is set,
WakeTest(s) ==
  /\ waking[s] = "test"
  /\ waking' = [waking EXCEPT ![s] = IF wakeFlag THEN "rest" ELSE "set"]
  /\ UNCHANGED <<vars, wakeFlag, reader, record, signals>>

\* else the flag is set and the handler made to look at it.
WakeSet(s) ==
  /\ waking[s] = "set"
  /\ wakeFlag' = TRUE
  /\ waking' = [waking EXCEPT ![s] = "rest"]
  /\ UNCHANGED <<vars, reader, record, signals>>

\* MidiForgetTask: a task that was sent and not yet got is marked dead.
Forget(c) ==
  /\ c \notin dead /\ \A p \in Procs : c \notin holds[p]
  /\ dead' = dead \cup {c}
  /\ UNCHANGED <<vars, wakeFlag, reader, waking, delivered, dropped, signals>>
-----------------------------------------------------------------------------
\* The handler calls MidiGetCommand, with one cell at first.
MidiGetCommand ==
  /\ place = "user"
  /\ place' = "size"
  /\ UNCHANGED <<vars, wakeFlag, call, avail, cells, waking, record, signals>>

\* MSAvailCommand ("avail") and MSGetCommand ("drop" for a dead command, "get"
\* for one that was copied) begin alike: when fifosize is 0 the handler is about
\* to sleep, else it goes on.
Size ==
  /\ place = "size"
  /\ place' = IF count = 0 THEN "clear" ELSE "fifo"
  /\ UNCHANGED <<vars, wakeFlag, call, avail, cells, waking, record, signals>>

\* wakeFlag = false
Clear ==
  /\ place = "clear"
  /\ wakeFlag' = FALSE
  /\ place' = "wait"
  /\ UNCHANGED <<vars, call, avail, cells, waking, record, signals>>

\* wait_event_interruptible: until the flag is set,
Wake ==
  /\ place = "wait"
  /\ wakeFlag
  /\ place' = "fifo"
  /\ UNCHANGED <<vars, wakeFlag, call, avail, cells, waking, record, signals>>

\* or until a signal comes.
Interrupted ==
  /\ place = "wait"
  /\ signals < Interrupts
  /\ signals' = signals + 1
  /\ place' = "fifo"
  /\ UNCHANGED <<vars, wakeFlag, call, avail, cells, waking, record>>

\* Mutant: a command that was copied is looked at, and stays in the fifo.
CallLooks ==
  /\ place = "fifo"
  /\ IF call = "drop" THEN fifoget(Thread) ELSE fifoavail(Thread)
  /\ place' = "calling"
  /\ UNCHANGED <<wakeFlag, call, avail, cells, waking, record, signals>>

\* Both end in a call of the fifo, fifoavail or fifoget, ...
Call ==
  /\ place = "fifo"
  /\ IF call = "avail" THEN fifoavail(Thread) ELSE fifoget(Thread)
  /\ place' = "calling"
  /\ UNCHANGED <<wakeFlag, call, avail, cells, waking, record, signals>>

\* ... which runs.
Run ==
  /\ place = "calling"
  /\ pc[Thread] \notin {"return", "avail_return"}
  /\ Step(Thread)
  /\ UNCHANGED <<wakeFlag, reader, waking, record, signals>>

\* What evType says of the event at address ev.  The end marker is the address
\* of the fifo itself, whose words can say anything.
Kinds(ev) == IF ev = End THEN {"dead", "small", "large"}
             ELSE IF ev \in dead THEN {"dead"}
             ELSE IF ev \in Large THEN {"large"} ELSE {"small"}

\* The loop of mskGetCommand: a dead command is dropped; when there is none,
\* mskGetEvAux copies nothing, successfully.
Looked(ev) ==
  \/ ev = NULL /\ place' = "size" /\ call' = "get"
  \/ ev # NULL /\ "dead" \in Kinds(ev) /\ place' = "size" /\ call' = "drop"
  \/ ev # NULL /\ Kinds(ev) # {"dead"} /\ place' = "copy" /\ call' = "avail"

\* MSAvailCommand returns to mskGetCommand.
MSAvailCommand ==
  /\ place = "calling" /\ pc[Thread] = "avail_return"
  /\ Return(Thread)
  /\ avail' = cell[Thread]
  /\ Looked(cell[Thread])
  /\ UNCHANGED <<wakeFlag, cells, waking, record, signals>>

\* Mutant: a large command needs more cells than it has, even with two.
Enough(kind) == kind = "small"

\* mskGetEvAux has the cells that the copy takes.
HasCells(kind) == kind = "small" \/ (kind = "large" /\ cells = 2)

\* mskGetEvAux: the command is copied to user space when its cells are there;
\* when they are not, the library comes back with enough of them, or with none
\* if it could not allocate them.  A command that died since is not copied, and
\* what is copied for the end marker is no command.
Copy ==
  /\ place = "copy"
  /\ \E kind \in Kinds(avail) :
       \/ /\ kind = "dead"
          /\ place' = "size" /\ call' = "get"
          /\ UNCHANGED <<avail, cells, record>>
       \/ /\ kind = "large" /\ ~ HasCells(kind)
          /\ \/ place' = "size" /\ cells' = cells + 1
             \/ place' = "user" /\ cells' = 1
          /\ avail' = NULL
          /\ UNCHANGED <<call, record>>
       \/ /\ HasCells(kind)
          /\ delivered' = IF avail = End THEN delivered ELSE Append(delivered, avail)
          /\ place' = "size" /\ call' = "get"
          /\ UNCHANGED <<avail, cells, dead, dropped>>
  /\ UNCHANGED <<vars, wakeFlag, waking, signals>>

\* Mutant: after a dead command mskGetCommand does not look again ("if", not
\* "while").
RemovedOnce ==
  IF call = "drop"
  THEN place' = "size" /\ call' = "get" /\ UNCHANGED <<avail, cells>>
  ELSE place' = "user" /\ call' = "avail" /\ avail' = NULL /\ cells' = 1

\* After "drop" mskGetCommand looks for another command, after "get"
\* MidiGetCommand returns.
Removed ==
  /\ call' = "avail" /\ avail' = NULL
  /\ IF call = "drop" THEN place' = "size" /\ UNCHANGED cells
                     ELSE place' = "user" /\ cells' = 1

\* MSGetCommand returns and the command is freed.
MSGetCommand ==
  /\ place = "calling" /\ pc[Thread] = "return"
  /\ Return(Thread)
  /\ dropped' = dropped \cup ({cell[Thread]} \ (Copied \cup {NULL}))
  /\ Removed
  /\ UNCHANGED <<wakeFlag, waking, dead, delivered, signals>>

Handler == \/ MidiGetCommand \/ Size \/ Clear \/ Wake \/ Call \/ Run
           \/ MSAvailCommand \/ Copy \/ MSGetCommand
Sender(s) == Put(s) \/ WakeTest(s) \/ WakeSet(s)

QueueNext == \/ Handler \/ Interrupted
             \/ \E s \in Producers : Sender(s) \/ \E c \in Cells : Command(s, c)
             \/ \E c \in Cells : Forget(c)

QueueSpec == QueueInit /\ [][QueueNext]_queueVars

\* Threads that can run do; the kernel need not have a command to send.
QueueFairSpec == /\ QueueSpec
                 /\ WF_queueVars(Handler)
                 /\ \A s \in Producers : WF_queueVars(Sender(s))
-----------------------------------------------------------------------------
\* Types, and which call of the fifo goes with which call of mskGetCommand.
QueueTypeOK ==
  /\ wakeFlag \in BOOLEAN
  /\ place \in {"user", "size", "clear", "wait", "fifo", "calling", "copy"}
  /\ call \in {"avail", "drop", "get"}
  /\ place \in {"user", "copy"} => call = "avail"
  /\ place = "calling" <=> pc[Thread] # "idle"
  /\ avail \in Cells \cup {NULL, End}
  /\ cells \in 1..2
  /\ waking \in [Producers -> {"rest", "test", "set"}]
  /\ dead \subseteq Cells
  /\ delivered \in Seq(Cells)
  /\ dropped \subseteq Cells
  /\ signals \in 0..Interrupts

Waiting == place = "wait"

\* The comment of fifoavail ("It ensures that : fifoavail(ff) == fifoget(ff)"),
\* where it holds: a command that fifoavail returned is the one that fifoget then
\* takes, whatever the senders do meanwhile.  So the loop of mskGetCommand drops
\* dead commands only (or by the end marker), and a command is not executed while
\* another one is freed in its place.
SameCommand ==
  /\ pc[Thread] = "return" /\ avail \in Cells => cell[Thread] = avail
  /\ call = "drop" => avail \in dead \cup {End}
  /\ avail \in Cells /\ call = "get" => avail \in Copied \cup dead

\* No command is executed twice, or executed and dropped, and one that was
\* executed is freed, except while mskGetCommand is between copy and removal.
OnceOnly ==
  /\ \A i, j \in 1..Len(delivered) : delivered[i] = delivered[j] => i = j
  /\ \A c \in Copied : c \in holds[Thread] \/ (avail = c /\ call = "get")
  /\ Copied \cap dropped = {}

\* The handler is never stuck while commands keep coming: each new one that is
\* put when the handler sleeps with a clear flag wakes it (wakeUp).
WokenByTheNext ==
  \A s \in Producers :
    (Waiting /\ ~ wakeFlag /\ waking[s] = "test") ~> ~ Waiting
=============================================================================
