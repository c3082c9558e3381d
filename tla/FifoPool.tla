------------------------------ MODULE FifoPool ------------------------------
(***************************************************************************)
(* What the lock-free FIFO really promises: a shared collection of cells.  *)
(* Every put and every get takes effect at one instant of the call, and a  *)
(* get that brings nothing has seen the collection empty during the call.  *)
(* The order in which the cells come out is not promised.                  *)
(***************************************************************************)
CONSTANTS Producers, Consumers, Cells, NULL

Procs == Producers \cup Consumers

VARIABLES pool,   \* the cells put and not yet taken
          holds,  \* holds[p]: the cells p owns
          call    \* call[p]: the call p is in, and the cell it is about

vars == <<pool, holds, call>>

None == [op |-> "none", cell |-> NULL]

Becomes(p, o, c) == call' = [call EXCEPT ![p] = [op |-> o, cell |-> c]]

Init == /\ pool = {}
        /\ \E owner \in [Cells -> Producers] :
              holds = [p \in Procs |-> {c \in Cells : owner[c] = p}]
        /\ call = [p \in Procs |-> None]

CallPut(p, c) ==
  /\ call[p] = None /\ c \in holds[p]
  /\ holds' = [holds EXCEPT ![p] = @ \ {c}]
  /\ Becomes(p, "put", c)
  /\ UNCHANGED pool

Put(p) ==
  /\ call[p].op = "put"
  /\ pool' = pool \cup {call[p].cell}
  /\ Becomes(p, "ended", NULL)
  /\ UNCHANGED holds

CallGet(p) ==
  /\ call[p] = None
  /\ Becomes(p, "get", NULL)
  /\ UNCHANGED <<pool, holds>>

Get(p, c) ==
  /\ call[p].op \in {"get", "empty"} /\ c \in pool
  /\ pool' = pool \ {c}
  /\ Becomes(p, "ended", c)
  /\ UNCHANGED holds

\* The caller sees the pool empty: it may return with nothing, or look again.
SeeEmpty(p) ==
  /\ call[p].op = "get" /\ pool = {}
  /\ Becomes(p, "empty", NULL)
  /\ UNCHANGED <<pool, holds>>

LookAgain(p) ==
  /\ call[p].op = "empty"
  /\ Becomes(p, "get", NULL)
  /\ UNCHANGED <<pool, holds>>

GetNothing(p) ==
  /\ call[p].op = "empty"
  /\ Becomes(p, "ended", NULL)
  /\ UNCHANGED <<pool, holds>>

Return(p) ==
  /\ call[p].op = "ended"
  /\ holds' = [holds EXCEPT ![p] = @ \cup ({call[p].cell} \ {NULL})]
  /\ call' = [call EXCEPT ![p] = None]
  /\ UNCHANGED pool

\* A consumer frees a cell and a producer allocates it.
Recycle(p, q, c) ==
  /\ p # q /\ c \in holds[p]
  /\ holds' = [holds EXCEPT ![p] = @ \ {c}, ![q] = @ \cup {c}]
  /\ UNCHANGED <<pool, call>>

Next ==
  \/ \E p \in Producers, c \in Cells : CallPut(p, c)
  \/ \E p \in Producers : Put(p)
  \/ \E p \in Consumers : \/ CallGet(p) \/ SeeEmpty(p) \/ LookAgain(p)
                          \/ GetNothing(p)
                          \/ \E c \in Cells : Get(p, c)
  \/ \E p \in Procs : \/ Return(p)
                      \/ \E q \in Producers, c \in Cells : Recycle(p, q, c)

Spec == Init /\ [][Next]_vars
=============================================================================
