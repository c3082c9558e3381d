------------------------------- MODULE LFLifo -------------------------------
(***************************************************************************)
(* The lock-free LIFO that holds MidiShare's free event cells, as          *)
(* compiled for Intel processors (src/src/common/atomic/lflifoIntel.c):    *)
(* any number of threads push and pop without a lock.  One action is one   *)
(* access to memory that other threads see.  CAS and CAS2 are the locked   *)
(* one-word and two-word compare-and-swap instructions; the retry loops of *)
(* msAtomicInc and msAtomicDec, which touch nothing else, are one step.    *)
(*                                                                         *)
(* oc is a 32-bit counter.  Its wrap-around is left out: the model stops   *)
(* popping when oc reaches MaxOc, so it covers every run in which fewer    *)
(* than 2^32 cells are popped while one thread is inside lfpop.            *)
(***************************************************************************)
EXTENDS Integers, Sequences, FiniteSets

CONSTANTS Procs,   \* the threads
          Cells,   \* the cells
          NULL,    \* the null pointer
          MaxOc    \* bound on the number of pops

ASSUME LFLifoAssumption == /\ NULL \notin Cells
                           /\ MaxOc \in Nat
                           /\ IsFiniteSet(Procs)

VARIABLES top, oc, count,       \* struct lifo
          link,                 \* link[c]: the first word of cell c
          pc,                   \* where each thread is
          cell,                 \* cell[p]: cl in lfpush, the result of lfpop
          ltop, loc, lnext,     \* the locals top, oc and top->link of p
          holds,                \* holds[p]: the cells p owns between calls
          stack                 \* history: the cells on the list, top first

vars == <<top, oc, count, link, pc, cell, ltop, loc, lnext, holds, stack>>

Pushing == {"push_read", "push_link", "push_cas"}
Popping == {"pop_oc", "pop_top", "pop_link", "pop_cas"}

Goto(p, l) == pc' = [pc EXCEPT ![p] = l]
-----------------------------------------------------------------------------
\* lfinit; the cells are still in the hands of the threads that allocate them.
Init == /\ top = NULL
        /\ oc = 0
        /\ count = 0
        /\ stack = <<>>
        /\ link \in [Cells -> {NULL}]
        /\ \E owner \in [Cells -> Procs] :
              holds = [p \in Procs |-> {c \in Cells : owner[c] = p}]
        /\ pc = [p \in Procs |-> "idle"]
        /\ cell = [p \in Procs |-> NULL]
        /\ ltop = [p \in Procs |-> NULL]
        /\ loc = [p \in Procs |-> 0]
        /\ lnext = [p \in Procs |-> NULL]

\* The owner of a cell writes its first word as it likes: the field is the
\* link of an event, of a sequence or of a driver list once it is popped.
Use(p, c) ==
  /\ c \in holds[p]
  /\ \E v \in Cells \cup {NULL} : link' = [link EXCEPT ![c] = v]
  /\ UNCHANGED <<top, oc, count, pc, cell, ltop, loc, lnext, holds, stack>>

\* lfpush is called with cl = c.
lfpush(p, c) ==
  /\ pc[p] = "idle"
  /\ c \in holds[p]
  /\ holds' = [holds EXCEPT ![p] = @ \ {c}]
  /\ cell' = [cell EXCEPT ![p] = c]
  /\ Goto(p, "push_read")
  /\ UNCHANGED <<top, oc, count, link, ltop, loc, lnext, stack>>

\* top = lf->top
PushRead(p) ==
  /\ pc[p] = "push_read"
  /\ ltop' = [ltop EXCEPT ![p] = top]
  /\ Goto(p, "push_link")
  /\ UNCHANGED <<top, oc, count, link, cell, loc, lnext, holds, stack>>

\* cl->link = top
PushLink(p) ==
  /\ pc[p] = "push_link"
  /\ link' = [link EXCEPT ![cell[p]] = ltop[p]]
  /\ Goto(p, "push_cas")
  /\ UNCHANGED <<top, oc, count, cell, ltop, loc, lnext, holds, stack>>

\* Mutant: the retry reuses the stale top.
PushCASStale(p) ==
  /\ pc[p] = "push_cas"
  /\ IF top = ltop[p]
     THEN /\ top' = cell[p]
          /\ stack' = <<cell[p]>> \o stack
          /\ cell' = [cell EXCEPT ![p] = NULL]
          /\ Goto(p, "push_inc")
     ELSE /\ Goto(p, "push_link")
          /\ UNCHANGED <<top, stack, cell>>
  /\ UNCHANGED <<oc, count, link, ltop, loc, lnext, holds>>

\* CAS (&lf->top, top, cl)
PushCAS(p) ==
  /\ pc[p] = "push_cas"
  /\ IF top = ltop[p]
     THEN /\ top' = cell[p]
          /\ stack' = <<cell[p]>> \o stack
          /\ cell' = [cell EXCEPT ![p] = NULL]
          /\ Goto(p, "push_inc")
     ELSE /\ Goto(p, "push_read")
          /\ UNCHANGED <<top, stack, cell>>
  /\ UNCHANGED <<oc, count, link, ltop, loc, lnext, holds>>

\* msAtomicInc (&lf->count)
PushInc(p) ==
  /\ pc[p] = "push_inc"
  /\ count' = count + 1
  /\ Goto(p, "return")
  /\ UNCHANGED <<top, oc, link, cell, ltop, loc, lnext, holds, stack>>

lfpop(p) ==
  /\ pc[p] = "idle"
  /\ oc < MaxOc
  /\ cell' = [cell EXCEPT ![p] = NULL]
  /\ Goto(p, "pop_oc")
  /\ UNCHANGED <<top, oc, count, link, ltop, loc, lnext, holds, stack>>

\* oc = lf->oc
PopOc(p) ==
  /\ pc[p] = "pop_oc"
  /\ loc' = [loc EXCEPT ![p] = oc]
  /\ Goto(p, "pop_top")
  /\ UNCHANGED <<top, oc, count, link, cell, ltop, lnext, holds, stack>>

\* Mutant: the empty list leaves by the counting path.
PopTopCounts(p) ==
  /\ pc[p] = "pop_top"
  /\ ltop' = [ltop EXCEPT ![p] = top]
  /\ Goto(p, IF top = NULL THEN "pop_dec" ELSE "pop_link")
  /\ UNCHANGED <<top, oc, count, link, cell, loc, lnext, holds, stack>>

\* top = lf->top; if (!top) return 0
PopTop(p) ==
  /\ pc[p] = "pop_top"
  /\ ltop' = [ltop EXCEPT ![p] = top]
  /\ Goto(p, IF top = NULL THEN "return" ELSE "pop_link")
  /\ UNCHANGED <<top, oc, count, link, cell, loc, lnext, holds, stack>>

\* top->link, read of a cell that may have been popped meanwhile
PopLink(p) ==
  /\ pc[p] = "pop_link"
  /\ lnext' = [lnext EXCEPT ![p] = link[ltop[p]]]
  /\ Goto(p, "pop_cas")
  /\ UNCHANGED <<top, oc, count, link, cell, ltop, loc, holds, stack>>

\* Mutant: a one-word CAS, as in lfpush.
CASHolds(p) == top = ltop[p]

\* What CAS2 compares: the top and the number of pops, together.
CAS2Holds(p) == top = ltop[p] /\ oc = loc[p]

\* Mutant: lfpop returns the cell it read although another thread was faster.
PopUnchecked(p) ==
  /\ pc[p] = "pop_cas"
  /\ IF CAS2Holds(p)
     THEN /\ top' = lnext[p]
          /\ oc' = oc + 1
          /\ stack' = Tail(stack)
          /\ cell' = [cell EXCEPT ![p] = ltop[p]]
          /\ Goto(p, "pop_dec")
     ELSE /\ Goto(p, "return")
          /\ cell' = [cell EXCEPT ![p] = ltop[p]]
          /\ UNCHANGED <<top, oc, stack>>
  /\ UNCHANGED <<count, link, ltop, loc, lnext, holds>>

\* CAS2 (&lf->top, top, oc, top->link, oc+1)
PopCAS2(p) ==
  /\ pc[p] = "pop_cas"
  /\ IF CAS2Holds(p)
     THEN /\ top' = lnext[p]
          /\ oc' = oc + 1
          /\ stack' = Tail(stack)
          /\ cell' = [cell EXCEPT ![p] = ltop[p]]
          /\ Goto(p, "pop_dec")
     ELSE /\ Goto(p, "pop_oc")
          /\ UNCHANGED <<top, oc, stack, cell>>
  /\ UNCHANGED <<count, link, ltop, loc, lnext, holds>>

\* msAtomicDec (&lf->count)
PopDec(p) ==
  /\ pc[p] = "pop_dec"
  /\ count' = count - 1
  /\ Goto(p, "return")
  /\ UNCHANGED <<top, oc, link, cell, ltop, loc, lnext, holds, stack>>

\* The call returns to its caller, which now owns the popped cell, if any.
\* The locals die with the call.
Return(p) ==
  /\ pc[p] = "return"
  /\ holds' = [holds EXCEPT ![p] = @ \cup ({cell[p]} \ {NULL})]
  /\ cell' = [cell EXCEPT ![p] = NULL]
  /\ ltop' = [ltop EXCEPT ![p] = NULL]
  /\ lnext' = [lnext EXCEPT ![p] = NULL]
  /\ loc' = [loc EXCEPT ![p] = 0]
  /\ Goto(p, "idle")
  /\ UNCHANGED <<top, oc, count, link, stack>>

\* The steps of a call in progress, the ones a running thread goes on taking.
Step(p) ==
  \/ PushRead(p) \/ PushLink(p) \/ PushCAS(p) \/ PushInc(p)
  \/ PopOc(p) \/ PopTop(p) \/ PopLink(p) \/ PopCAS2(p) \/ PopDec(p)
  \/ Return(p)

Next == \E p \in Procs :
          \/ Step(p)
          \/ lfpop(p)
          \/ \E c \in Cells : lfpush(p, c) \/ Use(p, c)

Spec == Init /\ [][Next]_vars

\* A thread that has entered a call is scheduled until the call returns.
FairSpec == Spec /\ \A p \in Procs : WF_vars(Step(p))
-----------------------------------------------------------------------------
InList == {stack[i] : i \in 1..Len(stack)}

PcValues == Pushing \cup Popping \cup {"idle", "push_inc", "pop_dec", "return"}

TypeOK ==
  /\ top \in Cells \cup {NULL}
  /\ oc \in Nat
  /\ count \in Int
  /\ link \in [Cells -> Cells \cup {NULL}]
  /\ pc \in [Procs -> PcValues]
  /\ cell \in [Procs -> Cells \cup {NULL}]
  /\ ltop \in [Procs -> Cells \cup {NULL}]
  /\ loc \in [Procs -> Nat]
  /\ lnext \in [Procs -> Cells \cup {NULL}]
  /\ holds \in [Procs -> SUBSET Cells]
  /\ stack \in Seq(Cells)
  /\ \A p \in Procs :
        /\ pc[p] \in Pushing \cup {"pop_dec"} => cell[p] \in Cells
        /\ pc[p] \in Popping \cup {"idle", "push_inc"} => cell[p] = NULL
        /\ pc[p] \in {"pop_link", "pop_cas"} => ltop[p] \in Cells

\* The memory is the list the history describes: top points to its first cell,
\* each cell to the next and the last to NULL, although popping threads read
\* cells they do not own and owners overwrite the link of popped cells.
Linked ==
  /\ top = IF stack = <<>> THEN NULL ELSE stack[1]
  /\ \A i \in 1..Len(stack) :
        link[stack[i]] = IF i = Len(stack) THEN NULL ELSE stack[i + 1]

\* Every cell is in one place: on the list once, or with one thread.  lfpop
\* never gives one cell to two threads (the ABA problem) and none is lost.
OneOwner ==
  /\ \A i, j \in 1..Len(stack) : stack[i] = stack[j] => i = j
  /\ \A p \in Procs : /\ holds[p] \cap InList = {}
                      /\ cell[p] \notin InList \cup holds[p]
  /\ \A p, q \in Procs : p # q => /\ holds[p] \cap holds[q] = {}
                                  /\ cell[p] \notin holds[q]
                                  /\ cell[p] = cell[q] => cell[p] = NULL
  /\ \A c \in Cells : \/ c \in InList
                      \/ \E p \in Procs : c \in holds[p] \/ cell[p] = c

\* While no cell has been popped since p read oc, what p read of the list still
\* holds: its top cell is on the list and links to the cell p would make the top.
\* The cell p is about to push links to the top p read.
Snapshot ==
  \A p \in Procs :
    /\ loc[p] \in 0 .. oc
    /\ loc[p] = oc /\ pc[p] \in {"pop_link", "pop_cas"} => ltop[p] \in InList
    /\ loc[p] = oc /\ pc[p] = "pop_cas" => lnext[p] = link[ltop[p]]
    /\ pc[p] = "push_cas" => link[cell[p]] = ltop[p]

\* The inductive invariant behind Linked and OneOwner.
IInv == TypeOK /\ Linked /\ OneOwner /\ Snapshot

At(l) == {p \in Procs : pc[p] = l}

\* lfsize is the length of the list, give or take the calls that have moved a
\* cell and not yet counted it; it is exact when no call is in progress.
CountAccurate ==
  count = Len(stack) - Cardinality(At("push_inc")) + Cardinality(At("pop_dec"))

\* Lock-freedom: as soon as the other threads stop starting calls (MaxOc bounds
\* them here), every call in progress returns; no retry loop feeds on itself.
CallsReturn == \A p \in Procs : pc[p] # "idle" ~> pc[p] = "idle"

\* The call p is in, as its caller sees it.
AbsCall(p) ==
  CASE pc[p] = "idle" -> [op |-> "none", cell |-> NULL]
    [] pc[p] \in Pushing -> [op |-> "put", cell |-> cell[p]]
    [] pc[p] \in Popping -> [op |-> "take", cell |-> NULL]
    [] OTHER -> [op |-> "ended", cell |-> cell[p]]

\* Each call appears to happen at one instant, on a stack.
Abstract == INSTANCE FreeList WITH free <- stack,
                                   call <- [p \in Procs |-> AbsCall(p)]

\* The refinement: lfpush and lfpop implement the abstract stack, lfpop returning
\* NULL only if the list was empty at some instant of the call.
IsAStack == Abstract!Spec
=============================================================================
