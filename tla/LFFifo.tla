------------------------------- MODULE LFFifo -------------------------------
(***************************************************************************)
(* The lock-free FIFO of MidiShare, as compiled for Intel processors       *)
(* (src/src/common/atomic/lffifoIntel.c): the list of events to schedule,  *)
(* filled by every client and emptied by the clock handler, and the        *)
(* reception and task lists, filled by the clock handler and emptied by a  *)
(* client.  One action is one access to memory that other threads see.     *)
(*                                                                         *)
(* A list ends with the address of its own fifo (End), not with NULL.  A   *)
(* dummy cell stays in the list, so that it never becomes empty: when      *)
(* fifoget takes the dummy out, it puts it back and tries again.           *)
(*                                                                         *)
(* ic and oc are 32-bit counters whose wrap-around is left out: the model  *)
(* stops putting and getting when they reach MaxIc and MaxOc.              *)
(***************************************************************************)
EXTENDS Integers, FiniteSets, SequencesExt

CONSTANTS Producers,   \* the threads that put
          Consumers,   \* the threads that get
          Cells,       \* the cells
          Dummy,       \* ff->dummy
          End,         \* fifo_end(ff)
          NULL,        \* the null pointer
          MaxIc,       \* bound on the changes of the tail
          MaxOc        \* bound on the changes of the head

ASSUME LFFifoAssumption == /\ IsFiniteSet(Producers) /\ IsFiniteSet(Consumers)
                           /\ IsFiniteSet(Cells)
                           /\ Cells \cap {Dummy, End, NULL} = {}
                           /\ Dummy # End /\ Dummy # NULL /\ End # NULL
                           /\ MaxIc \in Nat /\ MaxOc \in Nat

Procs == Producers \cup Consumers

VARIABLES head, oc, tail, ic, count,  \* struct fifo
          link,                       \* link[c]: the first word of cell c
          pc,                         \* where each thread is
          cell,      \* cell[p]: cl in fifoput, the result of fifoget and fifoavail
          lptr,      \* lptr[p]: the local tail of fifoput, head of the others
          lnext,     \* lnext[p]: the local next (n) of p
          lic, loc,  \* lic[p], loc[p]: the locals ic and oc (count) of p
          holds,     \* holds[p]: the cells p owns between calls
          sent       \* history: the cells each thread has put, oldest first,
                     \* and that have not been taken out

vars == <<head, oc, tail, ic, count, link, pc, cell, lptr, lnext, lic, loc,
          holds, sent>>

Goto(p, l) == pc' = [pc EXCEPT ![p] = l]
-----------------------------------------------------------------------------
\* fifoinit; the cells are with the producers that will send them.
Init == /\ head = Dummy
        /\ tail = Dummy
        /\ oc = 0
        /\ ic = 0
        /\ count = 0
        /\ link = [c \in Cells \cup {Dummy} |-> IF c = Dummy THEN End ELSE NULL]
        /\ \E owner \in [Cells -> Producers] :
              holds = [p \in Procs |-> {c \in Cells : owner[c] = p}]
        /\ pc = [p \in Procs |-> "idle"]
        /\ cell = [p \in Procs |-> NULL]
        /\ lptr = [p \in Procs |-> NULL]
        /\ lnext = [p \in Procs |-> NULL]
        /\ lic = [p \in Procs |-> 0]
        /\ loc = [p \in Procs |-> 0]
        /\ sent = [p \in Procs |-> <<>>]

\* A consumer is done with a cell: the event is freed, and allocated again by a
\* producer.  Its first word is anything but End, the address of this fifo.
Recycle(p, q, c) ==
  /\ p # q
  /\ c \in holds[p]
  /\ link' = [link EXCEPT ![c] = NULL]
  /\ holds' = [holds EXCEPT ![p] = @ \ {c}, ![q] = @ \cup {c}]
  /\ UNCHANGED <<head, oc, tail, ic, count, pc, cell, lptr, lnext, lic, loc, sent>>

-----------------------------------------------------------------------------
\* fifoput is called with cl = c.
fifoput(p, c) ==
  /\ p \in Producers
  /\ pc[p] = "idle"
  /\ ic < MaxIc
  /\ c \in holds[p]
  /\ holds' = [holds EXCEPT ![p] = @ \ {c}]
  /\ cell' = [cell EXCEPT ![p] = c]
  /\ sent' = [sent EXCEPT ![p] = Append(@, c)]
  /\ Goto(p, "put_end")
  /\ UNCHANGED <<head, oc, tail, ic, count, link, lptr, lnext, lic, loc>>

\* Mutant: the link is left as the previous owner wrote it.
PutEndMissing(p) ==
  /\ pc[p] = "put_end"
  /\ Goto(p, "put_ic")
  /\ UNCHANGED <<head, oc, tail, ic, count, link, cell, lptr, lnext, lic, loc, holds, sent>>

\* cl->link = fifo_end(ff)
PutEnd(p) ==
  /\ pc[p] = "put_end"
  /\ link' = [link EXCEPT ![cell[p]] = End]
  /\ Goto(p, "put_ic")
  /\ UNCHANGED <<head, oc, tail, ic, count, cell, lptr, lnext, lic, loc, holds, sent>>

\* ic = ff->ic
PutIc(p) ==
  /\ pc[p] = "put_ic"
  /\ lic' = [lic EXCEPT ![p] = ic]
  /\ Goto(p, "put_tail")
  /\ UNCHANGED <<head, oc, tail, ic, count, link, cell, lptr, lnext, loc, holds, sent>>

\* tail = ff->tail
PutTail(p) ==
  /\ pc[p] = "put_tail"
  /\ lptr' = [lptr EXCEPT ![p] = tail]
  /\ Goto(p, "put_link")
  /\ UNCHANGED <<head, oc, tail, ic, count, link, cell, lnext, lic, loc, holds, sent>>

\* CAS (&tail->link, fifo_end(ff), cl)
PutLink(p) ==
  /\ pc[p] = "put_link"
  /\ IF link[lptr[p]] = End
     THEN /\ link' = [link EXCEPT ![lptr[p]] = cell[p]]
          /\ Goto(p, "put_swing")
     ELSE /\ Goto(p, "put_next")
          /\ UNCHANGED link
  /\ UNCHANGED <<head, oc, tail, ic, count, cell, lptr, lnext, lic, loc, holds, sent>>

\* tail->link, the cell that was linked first
PutNext(p) ==
  /\ pc[p] = "put_next"
  /\ lnext' = [lnext EXCEPT ![p] = link[lptr[p]]]
  /\ Goto(p, "put_help")
  /\ UNCHANGED <<head, oc, tail, ic, count, link, cell, lptr, lic, loc, holds, sent>>

\* CAS2 on the tail and its counter: the tail goes from where p saw it to c.
SwingTail(p, c) ==
  IF tail = lptr[p] /\ ic = lic[p]
  THEN tail' = c /\ ic' = ic + 1
  ELSE UNCHANGED <<tail, ic>>

\* CAS2 (&ff->tail, tail, ic, tail->link, ic+1)
PutHelp(p) ==
  /\ pc[p] = "put_help"
  /\ SwingTail(p, lnext[p])
  /\ Goto(p, "put_ic")
  /\ UNCHANGED <<head, oc, count, link, cell, lptr, lnext, lic, loc, holds, sent>>

\* CAS2 (&ff->tail, tail, ic, cl, ic+1)
PutSwing(p) ==
  /\ pc[p] = "put_swing"
  /\ SwingTail(p, cell[p])
  /\ Goto(p, "put_inc")
  /\ UNCHANGED <<head, oc, count, link, cell, lptr, lnext, lic, loc, holds, sent>>

\* Mutant: the dummy is not counted when it is put back.
PutIncNotDummy(p) ==
  /\ pc[p] = "put_inc"
  /\ count' = IF cell[p] = Dummy THEN count ELSE count + 1
  /\ cell' = [cell EXCEPT ![p] = NULL]
  /\ Goto(p, IF cell[p] = Dummy THEN "get_oc" ELSE "return")
  /\ UNCHANGED <<head, oc, tail, ic, link, lptr, lnext, lic, loc, holds, sent>>

\* msAtomicInc (&ff->count); after the dummy was put back, fifoget starts again
PutInc(p) ==
  /\ pc[p] = "put_inc"
  /\ count' = count + 1
  /\ cell' = [cell EXCEPT ![p] = NULL]
  /\ Goto(p, IF cell[p] = Dummy THEN "get_oc" ELSE "return")
  /\ UNCHANGED <<head, oc, tail, ic, link, lptr, lnext, lic, loc, holds, sent>>

-----------------------------------------------------------------------------
fifoget(p) ==
  /\ p \in Consumers
  /\ pc[p] = "idle"
  /\ oc < MaxOc
  /\ Goto(p, "get_oc")
  /\ UNCHANGED <<head, oc, tail, ic, count, link, cell, lptr, lnext, lic, loc, holds, sent>>

\* oc = ff->oc
GetOc(p) ==
  /\ pc[p] = "get_oc"
  /\ loc' = [loc EXCEPT ![p] = oc]
  /\ Goto(p, "get_ic")
  /\ UNCHANGED <<head, oc, tail, ic, count, link, cell, lptr, lnext, lic, holds, sent>>

\* ic = ff->ic
GetIc(p) ==
  /\ pc[p] = "get_ic"
  /\ lic' = [lic EXCEPT ![p] = ic]
  /\ Goto(p, "get_head")
  /\ UNCHANGED <<head, oc, tail, ic, count, link, cell, lptr, lnext, loc, holds, sent>>

\* head = ff->head
GetHead(p) ==
  /\ pc[p] = "get_head"
  /\ lptr' = [lptr EXCEPT ![p] = head]
  /\ Goto(p, "get_next")
  /\ UNCHANGED <<head, oc, tail, ic, count, link, cell, lnext, lic, loc, holds, sent>>

\* next = head->link
GetNext(p) ==
  /\ pc[p] = "get_next"
  /\ lnext' = [lnext EXCEPT ![p] = link[lptr[p]]]
  /\ Goto(p, "get_check")
  /\ UNCHANGED <<head, oc, tail, ic, count, link, cell, lptr, lic, loc, holds, sent>>

\* if (oc == ff->oc)
GetCheck(p) ==
  /\ pc[p] = "get_check"
  /\ Goto(p, IF loc[p] = oc THEN "get_tail" ELSE "get_oc")
  /\ UNCHANGED <<head, oc, tail, ic, count, link, cell, lptr, lnext, lic, loc, holds, sent>>

\* Mutant: the tail is not looked at.
GetTailUnread(p) ==
  /\ pc[p] = "get_tail"
  /\ Goto(p, IF lnext[p] = End THEN "return" ELSE "get_cas")
  /\ UNCHANGED <<head, oc, tail, ic, count, link, cell, lptr, lnext, lic, loc, holds, sent>>

\* Mutant: a late tail is taken for an empty list, as fifoavail does.
GetTailEmpty(p) ==
  /\ pc[p] = "get_tail"
  /\ Goto(p, CASE lptr[p] = tail -> "return"
               [] lptr[p] # tail /\ lnext[p] # End -> "get_cas"
               [] OTHER -> "get_oc")
  /\ UNCHANGED <<head, oc, tail, ic, count, link, cell, lptr, lnext, lic, loc, holds, sent>>

\* if (head == ff->tail) and the tests on next: nothing to get, a tail to help,
\* a head to advance, or a cell not yet linked to the next one
GetTail(p) ==
  /\ pc[p] = "get_tail"
  /\ Goto(p, CASE lptr[p] = tail /\ lnext[p] = End -> "return"
               [] lptr[p] = tail /\ lnext[p] # End -> "get_help"
               [] lptr[p] # tail /\ lnext[p] # End -> "get_cas"
               [] OTHER -> "get_oc")
  /\ UNCHANGED <<head, oc, tail, ic, count, link, cell, lptr, lnext, lic, loc, holds, sent>>

\* Mutant: a get that finds a late tail does not help it.
GetWait(p) ==
  /\ pc[p] = "get_help"
  /\ Goto(p, "get_oc")
  /\ UNCHANGED <<head, oc, tail, ic, count, link, cell, lptr, lnext, lic, loc, holds, sent>>

\* CAS2 (&ff->tail, head, ic, next, ic+1)
GetHelp(p) ==
  /\ pc[p] = "get_help"
  /\ SwingTail(p, lnext[p])
  /\ Goto(p, "get_oc")
  /\ UNCHANGED <<head, oc, count, link, cell, lptr, lnext, lic, loc, holds, sent>>

\* Mutant: the counter of the head is not compared.
HeadCAS(p) == head = lptr[p]

\* What the CAS2 on the head and its counter compares.
HeadUnmoved(p) == head = lptr[p] /\ oc = loc[p]

\* CAS2 (&ff->head, head, oc, next, oc+1)
GetCAS(p) ==
  /\ pc[p] = "get_cas"
  /\ IF HeadUnmoved(p)
     THEN /\ head' = lnext[p]
          /\ oc' = oc + 1
          /\ cell' = [cell EXCEPT ![p] = head]
          /\ sent' = [q \in Procs |-> RemoveFirst(sent[q], head)]
          /\ Goto(p, "get_dec")
     ELSE /\ Goto(p, "get_oc")
          /\ UNCHANGED <<head, oc, cell, sent>>
  /\ UNCHANGED <<tail, ic, count, link, lptr, lnext, lic, loc, holds>>

\* msAtomicDec (&ff->count); the dummy goes back to the list
GetDec(p) ==
  /\ pc[p] = "get_dec"
  /\ count' = count - 1
  /\ Goto(p, IF cell[p] = Dummy THEN "put_end" ELSE "return")
  /\ UNCHANGED <<head, oc, tail, ic, link, cell, lptr, lnext, lic, loc, holds, sent>>

-----------------------------------------------------------------------------
fifoavail(p) ==
  /\ p \in Consumers
  /\ pc[p] = "idle"
  /\ Goto(p, "avail_oc")
  /\ UNCHANGED <<head, oc, tail, ic, count, link, cell, lptr, lnext, lic, loc, holds, sent>>

\* count = ff->oc
AvailOc(p) ==
  /\ pc[p] = "avail_oc"
  /\ loc' = [loc EXCEPT ![p] = oc]
  /\ Goto(p, "avail_head")
  /\ UNCHANGED <<head, oc, tail, ic, count, link, cell, lptr, lnext, lic, holds, sent>>

\* hd = ff->head
AvailHead(p) ==
  /\ pc[p] = "avail_head"
  /\ lptr' = [lptr EXCEPT ![p] = head]
  /\ Goto(p, "avail_link")
  /\ UNCHANGED <<head, oc, tail, ic, count, link, cell, lnext, lic, loc, holds, sent>>

\* n = hd->link
AvailLink(p) ==
  /\ pc[p] = "avail_link"
  /\ lnext' = [lnext EXCEPT ![p] = link[lptr[p]]]
  /\ Goto(p, "avail_tail")
  /\ UNCHANGED <<head, oc, tail, ic, count, link, cell, lptr, lic, loc, holds, sent>>

\* What fifoavail makes of the head hd, its link n and the tail tl it has read.
AvailValue(hd, n, tl) == IF hd = tl THEN NULL ELSE IF hd = Dummy THEN n ELSE hd

\* tail = ff->tail
AvailTail(p) ==
  /\ pc[p] = "avail_tail"
  /\ cell' = [cell EXCEPT ![p] = AvailValue(lptr[p], lnext[p], tail)]
  /\ Goto(p, "avail_check")
  /\ UNCHANGED <<head, oc, tail, ic, count, link, lptr, lnext, lic, loc, holds, sent>>

\* if ((hd == ff->head) && (count == ff->oc)): both words only change together
AvailCheck(p) ==
  /\ pc[p] = "avail_check"
  /\ IF HeadUnmoved(p)
     THEN Goto(p, "avail_return") /\ UNCHANGED cell
     ELSE Goto(p, "avail_oc") /\ cell' = [cell EXCEPT ![p] = NULL]
  /\ UNCHANGED <<head, oc, tail, ic, count, link, lptr, lnext, lic, loc, holds, sent>>

-----------------------------------------------------------------------------
\* A call returns.  The caller of fifoget owns the cell it brings, the caller of
\* fifoavail only looks at it.  The locals die.
Return(p) ==
  /\ pc[p] \in {"return", "avail_return"}
  /\ holds' = IF pc[p] = "return"
              THEN [holds EXCEPT ![p] = @ \cup ({cell[p]} \ {NULL})]
              ELSE holds
  /\ cell' = [cell EXCEPT ![p] = NULL]
  /\ lptr' = [lptr EXCEPT ![p] = NULL]
  /\ lnext' = [lnext EXCEPT ![p] = NULL]
  /\ lic' = [lic EXCEPT ![p] = 0]
  /\ loc' = [loc EXCEPT ![p] = 0]
  /\ Goto(p, "idle")
  /\ UNCHANGED <<head, oc, tail, ic, count, link, sent>>

\* The steps of a call in progress.
Step(p) ==
  \/ PutEnd(p) \/ PutIc(p) \/ PutTail(p) \/ PutLink(p) \/ PutNext(p)
  \/ PutHelp(p) \/ PutSwing(p) \/ PutInc(p)
  \/ GetOc(p) \/ GetIc(p) \/ GetHead(p) \/ GetNext(p) \/ GetCheck(p)
  \/ GetTail(p) \/ GetHelp(p) \/ GetCAS(p) \/ GetDec(p)
  \/ AvailOc(p) \/ AvailHead(p) \/ AvailLink(p) \/ AvailTail(p) \/ AvailCheck(p)
  \/ Return(p)

Next == \E p \in Procs :
          \/ Step(p)
          \/ fifoget(p)
          \/ fifoavail(p)
          \/ \E c \in Cells : \/ fifoput(p, c)
                              \/ \E q \in Producers : Recycle(p, q, c)

Spec == Init /\ [][Next]_vars

\* A thread that has entered a call is scheduled until the call returns.
FairSpec == Spec /\ \A p \in Procs : WF_vars(Step(p))
-----------------------------------------------------------------------------
\* The cells reached from c by following the links, c first; a loop would make
\* more of them than there are cells.
Follow(c) ==
  LET next(s) == link[Last(s)]
      walk[n \in 0 .. Cardinality(Cells) + 2] ==
        IF n = 0 THEN <<c>>
        ELSE LET s == walk[n - 1]
             IN  IF next(s) \in Cells \cup {Dummy} THEN Append(s, next(s)) ELSE s
  IN  walk[Cardinality(Cells) + 2]

Chain == Follow(head)

PcValues ==
  {"idle", "return", "avail_return",
   "put_end", "put_ic", "put_tail", "put_link", "put_next", "put_help",
   "put_swing", "put_inc",
   "get_oc", "get_ic", "get_head", "get_next", "get_check", "get_tail",
   "get_help", "get_cas", "get_dec",
   "avail_oc", "avail_head", "avail_link", "avail_tail", "avail_check"}

Pointers == Cells \cup {Dummy, End, NULL}

TypeOK ==
  /\ head \in Cells \cup {Dummy} /\ tail \in Cells \cup {Dummy}
  /\ oc \in Nat /\ ic \in Nat /\ count \in Int
  /\ link \in [Cells \cup {Dummy} -> Pointers]
  /\ pc \in [Procs -> PcValues]
  /\ cell \in [Procs -> Pointers]
  /\ lptr \in [Procs -> Pointers]
  /\ lnext \in [Procs -> Pointers]
  /\ lic \in [Procs -> Nat] /\ loc \in [Procs -> Nat]
  /\ holds \in [Procs -> SUBSET Cells]
  /\ sent \in [Procs -> Seq(Cells)]

\* A cell some thread is about to link, with the cells that others have linked
\* behind it meanwhile; or a cell just taken out.
Hanging(p) ==
  IF pc[p] \in {"put_ic", "put_tail", "put_link", "put_next", "put_help"}
  THEN Follow(cell[p])
  ELSE IF pc[p] \in {"put_end", "get_dec", "return"} /\ cell[p] # NULL
       THEN <<cell[p]>>
       ELSE <<>>

\* The list is well formed: no loop, ended by End, and the tail, which may be
\* late, is always a cell of the list.
ChainOK ==
  /\ Len(Chain) <= Cardinality(Cells) + 1
  /\ link[Last(Chain)] = End
  /\ Contains(Chain, tail)

\* Every cell, the dummy included, is in one place: in the list, in the hands of
\* a thread that puts or gets (maybe behind another cell), or owned by a thread.
NothingLost ==
  \A c \in Cells \cup {Dummy} :
    LET inHand == {p \in Procs : Contains(Hanging(p), c)}
        owners == {p \in Procs : c \in holds[p]}
    IN  IF Contains(Chain, c) THEN inHand = {} /\ owners = {}
        ELSE Cardinality(inHand) + Cardinality(owners) = 1

At(l) == {p \in Procs : pc[p] = l}

\* The cells of the list, and those linked behind a cell that is about to be.
Counted ==
  {c \in Cells \cup {Dummy} :
     \/ Contains(Chain, c)
     \/ \E p \in Procs : \E i \in 2..Len(Hanging(p)) : Hanging(p)[i] = c}

\* fifosize counts what is linked (less the dummy), up to the calls that have
\* linked or taken a cell and not yet counted it.
CountAccurate ==
  count = Cardinality(Counted) - 1 - Cardinality(At("put_swing") \cup At("put_inc"))
                                   + Cardinality(At("get_dec"))

\* As soon as no new call starts (MaxIc and MaxOc bound them), every call ends.
CallsReturn == \A p \in Procs : pc[p] # "idle" ~> pc[p] = "idle"

\* What the header says of the list, a FIFO: the cells one thread puts are taken
\* out in the order it put them.
InOrder ==
  [][\A p \in Procs : /\ Len(sent'[p]) < Len(sent[p]) => sent'[p] = Tail(sent[p])
     ]_vars

\* The call p is in, as its caller sees it.  While fifoget puts the dummy back it
\* is still a get; it has seen the list empty when it has read End after the head.
AbsCall(p) ==
  CASE pc[p] \in {"put_end", "put_ic", "put_tail", "put_link", "put_next",
                  "put_help"} /\ cell[p] # Dummy -> [op |-> "put", cell |-> cell[p]]
    [] pc[p] \in {"put_swing", "put_inc"} /\ cell[p] # Dummy ->
         [op |-> "ended", cell |-> NULL]
    [] pc[p] \in {"get_check", "get_tail"} /\ lnext[p] = End ->
         [op |-> "empty", cell |-> NULL]
    [] pc[p] = "return" \/ (pc[p] = "get_dec" /\ cell[p] # Dummy) ->
         [op |-> "ended", cell |-> cell[p]]
    [] pc[p] \in {"idle", "avail_oc", "avail_head", "avail_link", "avail_tail",
                  "avail_check", "avail_return"} -> [op |-> "none", cell |-> NULL]
    [] OTHER -> [op |-> "get", cell |-> NULL]

\* The cells linked to the list or behind the dummy that its reader puts back.
Linked ==
  {c \in Cells : \/ Contains(Chain, c)
                 \/ \E p \in Procs : cell[p] = Dummy /\ Contains(Hanging(p), c)}

Pool == INSTANCE FifoPool WITH pool <- Linked,
                               call <- [p \in Procs |-> AbsCall(p)]

\* With one thread that puts and one that gets, no event is lost or duplicated,
\* and fifoget returns NULL only if nothing was in the list during the call.
IsAPool == Pool!Spec
====
