------------------------------ MODULE FreeList ------------------------------
(***************************************************************************)
(* What the shared LIFO of cells promises its callers: a stack that        *)
(* processes use concurrently, every call taking effect at one instant     *)
(* between its invocation and its return.  LFLifo implements it.           *)
(***************************************************************************)
EXTENDS Sequences

CONSTANTS Procs,  \* the threads that share the stack
          Cells,  \* the cells that circulate
          NULL    \* the null pointer

VARIABLES free,   \* the cells of the stack, the top first
          holds,  \* holds[p]: the cells p may use as it likes
          call    \* call[p]: the call p is in, and the cell it is about

vars == <<free, holds, call>>

NoCall == [op |-> "none", cell |-> NULL]

Init == /\ free = <<>>
        /\ \E owner \in [Cells -> Procs] :
              holds = [p \in Procs |-> {c \in Cells : owner[c] = p}]
        /\ call = [p \in Procs |-> NoCall]

\* p gives away a cell it holds.
CallPut(p, c) ==
  /\ call[p] = NoCall
  /\ c \in holds[p]
  /\ holds' = [holds EXCEPT ![p] = @ \ {c}]
  /\ call' = [call EXCEPT ![p] = [op |-> "put", cell |-> c]]
  /\ UNCHANGED free

\* The instant at which the cell becomes the top.
Put(p) ==
  /\ call[p].op = "put"
  /\ free' = <<call[p].cell>> \o free
  /\ call' = [call EXCEPT ![p] = [op |-> "ended", cell |-> NULL]]
  /\ UNCHANGED holds

CallTake(p) ==
  /\ call[p] = NoCall
  /\ call' = [call EXCEPT ![p] = [op |-> "take", cell |-> NULL]]
  /\ UNCHANGED <<free, holds>>

\* The instant at which the top is removed.
Take(p) ==
  /\ call[p].op = "take"
  /\ free # <<>>
  /\ call' = [call EXCEPT ![p] = [op |-> "ended", cell |-> Head(free)]]
  /\ free' = Tail(free)
  /\ UNCHANGED holds

\* The instant at which the stack is seen empty.
TakeNothing(p) ==
  /\ call[p].op = "take"
  /\ free = <<>>
  /\ call' = [call EXCEPT ![p] = [op |-> "ended", cell |-> NULL]]
  /\ UNCHANGED <<free, holds>>

\* The call returns; the cell it brings, if any, is now p's.
Return(p) ==
  /\ call[p].op = "ended"
  /\ holds' = [holds EXCEPT ![p] = @ \cup ({call[p].cell} \ {NULL})]
  /\ call' = [call EXCEPT ![p] = NoCall]
  /\ UNCHANGED free

Next == \E p \in Procs :
          \/ \E c \in Cells : CallPut(p, c)
          \/ Put(p)
          \/ CallTake(p)
          \/ Take(p)
          \/ TakeNothing(p)
          \/ Return(p)

Spec == Init /\ [][Next]_vars
=============================================================================
