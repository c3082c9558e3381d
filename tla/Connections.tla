---------------------------- MODULE Connections ----------------------------
(***************************************************************************)
(* Clients, the connections between them and the delivery of events        *)
(* (common/Clients/msAppls.c, msConnx.c, common/Kernel/msHandler.c).  A    *)
(* connection is a cell on two lists: the destinations of its source and   *)
(* the sources of its destination.  Connections and events are made of     *)
(* cells of the same free list.                                            *)
(*                                                                         *)
(* Calls of clients run one at a time, a step of theirs being one write to *)
(* a list or to the free list; the clock handler is an interrupt: it may   *)
(* come between any two of these steps and sees the lists as they are.     *)
(* Tasks and receive alarms run at the level of the handler; when they     *)
(* change connections, Interrupts is not empty.                            *)
(***************************************************************************)
EXTENDS Naturals, Sequences, FiniteSets

CONSTANTS Apps,        \* the reference numbers of clients, 1 to some maximum
          Cells,       \* the cells of the free list
          NULL,        \* the null pointer
          Client,      \* the level at which clients call
          Interrupts   \* the levels above it that call MSConnect

MidiShare == 0
Refs == Apps \cup {MidiShare}
Levels == {Client} \cup Interrupts

ASSUME ConnectionsAssumption == /\ Apps \subseteq Nat \ {MidiShare}
                                /\ IsFiniteSet(Cells) /\ NULL \notin Cells \cup Refs
                                /\ Client \notin Interrupts

VARIABLES open,             \* the clients of the table appls
          srcList, dstList, \* of a client: the first cell of each list, or NULL
          itsSrc, itsDst, nextSrc, nextDst,   \* the fields of a connection cell
          free,             \* the cells of the free list
          sender,           \* sender[c]: who sent the event in c, if it is due
          rcv,              \* rcv[r]: the cells of the events r has received
          pc,               \* pc[l]: where the call of level l is
          app,              \* app[l]: the source and destination, or the client
          cell, next        \* of a level: the locals cnx and next

lists == <<srcList, dstList, itsSrc, itsDst, nextSrc, nextDst>>
events == <<sender, rcv>>
locals == <<pc, app, cell, next>>
vars == <<open, lists, free, events, locals>>

\* The cells met from c on when one follows the field f; a list that loops is
\* longer than the number of cells.
Chain(f, c) ==
  LET walk[n \in 0..(Cardinality(Cells) + 1)] ==
        [x \in Cells \cup {NULL} |->
           IF x = NULL \/ n = 0 THEN <<>> ELSE <<x>> \o walk[n - 1][f[x]]]
  IN walk[Cardinality(Cells) + 1][c]

Members(s) == {s[i] : i \in 1..Len(s)}
Destinations(r) == Chain(nextDst, dstList[r])
Sources(r) == Chain(nextSrc, srcList[r])

Least(S) == CHOOSE n \in S : \A m \in S : n <= m

\* A level runs while no higher one does.
Runs(l) == l \in Interrupts \/ \A i \in Interrupts : pc[i] = "idle"
At(l, label) == Runs(l) /\ pc[l] = label
Goto(l, label) == pc' = [pc EXCEPT ![l] = label]

SettingUp == {"set_src", "set_dst", "put_dst"}
Clearing == {"clear_src", "clear_dst", "clear_free"}
Freeing == {"free_src", "free_dst"}
ClosingSteps == Freeing \cup {"close_src", "close_dst", "flush", "free_appl"}

\* A client that is being closed calls nothing else.
Closing(r) == pc[Client] \in ClosingSteps /\ app[Client][1] = r

NoApps == [r \in Refs |-> NULL]

Blank == [c \in Cells |-> NULL]

Init == /\ open = {}
        /\ srcList = NoApps /\ dstList = NoApps
        /\ itsSrc = Blank /\ itsDst = Blank
        /\ nextSrc = Blank /\ nextDst = Blank
        /\ sender = Blank
        /\ free = Cells
        /\ rcv = [r \in Refs |-> {}]
        /\ pc = [l \in Levels |-> "idle"]
        /\ app = [l \in Levels |-> <<NULL, NULL>>]
        /\ cell = [l \in Levels |-> NULL]
        /\ next = [l \in Levels |-> NULL]

\* lfpush (freelist, c).  What a cell that was freed then holds, and soon another
\* event, is not modelled: its fields are erased, and whoever follows it all the
\* same may go anywhere (DispatchLost).
Push(c) == /\ free' = free \cup {c}
           /\ itsSrc' = [itsSrc EXCEPT ![c] = NULL]
           /\ itsDst' = [itsDst EXCEPT ![c] = NULL]
           /\ nextSrc' = [nextSrc EXCEPT ![c] = NULL]
           /\ nextDst' = [nextDst EXCEPT ![c] = NULL]
           /\ UNCHANGED <<srcList, dstList>>

\* A call returns; its locals are gone.
Return(l) == /\ Goto(l, "idle")
             /\ app' = [app EXCEPT ![l] = <<NULL, NULL>>]
             /\ cell' = [cell EXCEPT ![l] = NULL]
             /\ next' = [next EXCEPT ![l] = NULL]
-----------------------------------------------------------------------------
\* MSOpen: the first free reference number, after that of MidiShare when the
\* kernel was asleep.  makeClient writes the table last.
MSOpen ==
  /\ At(Client, "idle")
  /\ Apps \ open # {}
  /\ open' = open \cup {MidiShare, Least(Apps \ open)}
  /\ UNCHANGED <<lists, free, events, locals>>

\* MSSendIm, MSSend, MSSendAt: a new event is scheduled.
MSSend(r) ==
  /\ r \in open \ {MidiShare} /\ ~ Closing(r)
  /\ \E c \in free : /\ free' = free \ {c}
                     /\ sender' = [sender EXCEPT ![c] = r]
  /\ UNCHANGED <<open, lists, rcv, locals>>

\* MSGetEv; the client frees the event it got.
MSGetEv(r) ==
  /\ r \in open /\ ~ Closing(r)
  /\ \E c \in rcv[r] : /\ rcv' = [rcv EXCEPT ![r] = @ \ {c}]
                       /\ free' = free \cup {c}
  /\ UNCHANGED <<open, lists, sender, locals>>

\* RemAllDstCon has freed a connection of r and not yet emptied the list of r,
\* which begins with that cell.
Emptying(r) == /\ Closing(r) /\ pc[Client] \in {"close_dst", "free_dst"}
               /\ cell[Client] # dstList[r]

\* The places, on the list of destinations, of those that keep the event:
\* MidiShare passes it to the drivers and frees it.
Kept(r) == {i \in 1..Len(Destinations(r)) : itsDst[Destinations(r)[i]] # MidiShare}

\* In the order of the list, and while there are cells.
Served(r) ==
  IF r \notin open THEN {}
  ELSE {i \in Kept(r) : Cardinality({j \in Kept(r) : j <= i}) <= Cardinality(free)}

\* The clients to[i] get a copy each, and the event itself is freed at the end.
Deliver(e, to) ==
  /\ \E copy \in [DOMAIN to -> free] :
       /\ \A i, j \in DOMAIN to : copy[i] = copy[j] => i = j
       /\ rcv' = [r \in Refs |-> rcv[r] \cup {copy[i] : i \in {j \in DOMAIN to : to[j] = r}}]
       /\ free' = (free \ {copy[i] : i \in DOMAIN to}) \cup {e}
  /\ sender' = [sender EXCEPT ![e] = NULL]
  /\ UNCHANGED <<open, lists, locals>>

\* DispatchEvents, ConnectionsLoop, Propose, Accept: the date of an event has
\* come.  That of a client that is gone is freed.
Dispatch(e) ==
  /\ sender[e] # NULL
  /\ \A i \in Interrupts : pc[i] = "idle"
  /\ ~ Emptying(sender[e])
  /\ LET s == sender[e]
     IN  Deliver(e, [i \in Served(s) |-> itsDst[Destinations(s)[i]]])

\* The loop follows connections that were freed, and may be events by now: who
\* is proposed a copy depends on what their cells hold.
DispatchLost(e) ==
  /\ sender[e] # NULL
  /\ \A i \in Interrupts : pc[i] = "idle"
  /\ Emptying(sender[e])
  /\ \E D \in SUBSET (open \ {MidiShare}) : Deliver(e, [d \in D |-> d])
-----------------------------------------------------------------------------
\* MSConnect (s, d, state): both clients exist.  Nobody connects a client that
\* is being closed.
MSConnect(l, s, d, state) ==
  /\ At(l, "idle")
  /\ {s, d} \subseteq open /\ ~ Closing(s) /\ ~ Closing(d)
  /\ app' = [app EXCEPT ![l] = <<s, d>>]
  /\ Goto(l, IF state THEN "set_find" ELSE "clear_find")
  /\ UNCHANGED <<open, lists, free, events, cell, next>>

\* FindConnection
Found(l) == {c \in Members(Destinations(app[l][1])) : itsDst[c] = app[l][2]}

\* Mutant: a connection is not searched for before it is made.
SetFindNot(l) ==
  /\ At(l, "set_find")
  /\ Goto(l, "set_pop")
  /\ UNCHANGED <<open, lists, free, events, app, cell, next>>

SetFind(l) ==
  /\ At(l, "set_find")
  /\ \/ /\ Found(l) = {}
        /\ Goto(l, "set_pop")
        /\ UNCHANGED <<app, cell, next>>
     \/ Found(l) # {} /\ Return(l)
  /\ UNCHANGED <<open, lists, free, events>>

\* Mutant: lfpop is taken to succeed.
SetPopUnchecked(l) ==
  /\ At(l, "set_pop")
  /\ \E c \in IF free = {} THEN {NULL} ELSE free :
       /\ free' = free \ {c}
       /\ cell' = [cell EXCEPT ![l] = c]
       /\ itsSrc' = [itsSrc EXCEPT ![c] = app[l][1]]
       /\ itsDst' = [itsDst EXCEPT ![c] = app[l][2]]
       /\ nextSrc' = [nextSrc EXCEPT ![c] = srcList[app[l][2]]]
  /\ Goto(l, "set_src")
  /\ UNCHANGED <<open, srcList, dstList, nextDst, events, app, next>>

\* cnx = lfpop (...); its fields are set; cnx->nextSrc = appDest->srcList
SetPop(l) ==
  /\ At(l, "set_pop")
  /\ \/ \E c \in free :
          /\ free' = free \ {c}
          /\ cell' = [cell EXCEPT ![l] = c]
          /\ itsSrc' = [itsSrc EXCEPT ![c] = app[l][1]]
          /\ itsDst' = [itsDst EXCEPT ![c] = app[l][2]]
          /\ nextSrc' = [nextSrc EXCEPT ![c] = srcList[app[l][2]]]
          /\ Goto(l, "set_src")
          /\ UNCHANGED <<app, next>>
     \/ /\ free = {}
        /\ Return(l)
        /\ UNCHANGED <<free, itsSrc, itsDst, nextSrc>>
  /\ UNCHANGED <<open, srcList, dstList, nextDst, events>>

\* appDest->srcList = cnx
SetSrc(l) ==
  /\ At(l, "set_src")
  /\ srcList' = [srcList EXCEPT ![app[l][2]] = cell[l]]
  /\ Goto(l, "set_dst")
  /\ UNCHANGED <<open, dstList, itsSrc, itsDst, nextSrc, nextDst, free, events,
                 app, cell, next>>

\* cnx->nextDst = appSrc->dstList
SetDst(l) ==
  /\ At(l, "set_dst")
  /\ nextDst' = [nextDst EXCEPT ![cell[l]] = dstList[app[l][1]]]
  /\ Goto(l, "put_dst")
  /\ UNCHANGED <<open, srcList, dstList, itsSrc, itsDst, nextSrc, free, events,
                 app, cell, next>>

\* appSrc->dstList = cnx
PutDst(l) ==
  /\ At(l, "put_dst")
  /\ dstList' = [dstList EXCEPT ![app[l][1]] = cell[l]]
  /\ Return(l)
  /\ UNCHANGED <<open, srcList, itsSrc, itsDst, nextSrc, nextDst, free, events>>

ClearFind(l) ==
  /\ At(l, "clear_find")
  /\ \/ \E c \in Found(l) :
          /\ cell' = [cell EXCEPT ![l] = c]
          /\ Goto(l, "clear_src")
          /\ UNCHANGED <<app, next>>
     \/ Found(l) = {} /\ Return(l)
  /\ UNCHANGED <<open, lists, free, events>>

\* Rem1SrcCon, Rem1DstCon: x leaves one list of r.  The code assumes that x is
\* on it: otherwise its loop meets the null pointer, and nothing follows here.
Rem1SrcCon(r, x) ==
  /\ \/ /\ srcList[r] = x
        /\ srcList' = [srcList EXCEPT ![r] = nextSrc[x]]
        /\ UNCHANGED nextSrc
     \/ /\ srcList[r] # x
        /\ \E c \in Members(Sources(r)) :
              nextSrc[c] = x /\ nextSrc' = [nextSrc EXCEPT ![c] = nextSrc[x]]
        /\ UNCHANGED srcList
  /\ UNCHANGED <<dstList, nextDst>>

Rem1DstCon(r, x) ==
  /\ \/ /\ dstList[r] = x
        /\ dstList' = [dstList EXCEPT ![r] = nextDst[x]]
        /\ UNCHANGED nextDst
     \/ /\ dstList[r] # x
        /\ \E c \in Members(Destinations(r)) :
              nextDst[c] = x /\ nextDst' = [nextDst EXCEPT ![c] = nextDst[x]]
        /\ UNCHANGED dstList
  /\ UNCHANGED <<srcList, nextSrc>>

ClearSrc(l) ==
  /\ At(l, "clear_src")
  /\ Rem1SrcCon(app[l][2], cell[l])
  /\ Goto(l, "clear_dst")
  /\ UNCHANGED <<open, itsSrc, itsDst, free, events, app, cell, next>>

ClearDst(l) ==
  /\ At(l, "clear_dst")
  /\ Rem1DstCon(app[l][1], cell[l])
  /\ Goto(l, "clear_free")
  /\ UNCHANGED <<open, itsSrc, itsDst, free, events, app, cell, next>>

ClearFree(l) ==
  /\ At(l, "clear_free")
  /\ Push(cell[l])
  /\ Return(l)
  /\ UNCHANGED <<open, events>>
-----------------------------------------------------------------------------
\* MSClose.
MSClose(r) ==
  /\ At(Client, "idle")
  /\ r \in open \ {MidiShare}
  /\ app' = [app EXCEPT ![Client] = <<r, NULL>>]
  /\ cell' = [cell EXCEPT ![Client] = srcList[r]]
  /\ Goto(Client, "close_src")
  /\ UNCHANGED <<open, lists, free, events, next>>

\* Mutant: the cell stays on the list of its source.
CloseSrcOnly(r) ==
  /\ At(Client, "close_src") /\ app[Client][1] = r
  /\ \/ /\ cell[Client] # NULL
        /\ next' = [next EXCEPT ![Client] = nextSrc[cell[Client]]]
        /\ Goto(Client, "free_src")
        /\ UNCHANGED <<cell, srcList>>
     \/ /\ cell[Client] = NULL
        /\ srcList' = [srcList EXCEPT ![r] = NULL]
        /\ cell' = [cell EXCEPT ![Client] = dstList[r]]
        /\ Goto(Client, "close_dst")
        /\ UNCHANGED next
  /\ UNCHANGED <<open, dstList, itsSrc, itsDst, nextSrc, nextDst, free, events, app>>

\* RemAllSrcCon: the cells of the list of sources, one after the other, leave
\* the list of their source.
CloseSrc(r) ==
  /\ At(Client, "close_src") /\ app[Client][1] = r
  /\ \/ /\ cell[Client] # NULL
        /\ next' = [next EXCEPT ![Client] = nextSrc[cell[Client]]]
        /\ Rem1DstCon(itsSrc[cell[Client]], cell[Client])
        /\ Goto(Client, "free_src")
        /\ UNCHANGED cell
     \/ /\ cell[Client] = NULL
        /\ srcList' = [srcList EXCEPT ![r] = NULL]
        /\ cell' = [cell EXCEPT ![Client] = dstList[r]]
        /\ Goto(Client, "close_dst")
        /\ UNCHANGED <<dstList, nextSrc, nextDst, next>>
  /\ UNCHANGED <<open, itsSrc, itsDst, free, events, app>>

\* RemAllDstCon: the cells of the list of destinations leave the list of their
\* destination; the list itself is emptied at the end.
CloseDst(r) ==
  /\ At(Client, "close_dst") /\ app[Client][1] = r
  /\ \/ /\ cell[Client] # NULL
        /\ next' = [next EXCEPT ![Client] = nextDst[cell[Client]]]
        /\ Rem1SrcCon(itsDst[cell[Client]], cell[Client])
        /\ Goto(Client, "free_dst")
        /\ UNCHANGED cell
     \/ /\ cell[Client] = NULL
        /\ dstList' = [dstList EXCEPT ![r] = NULL]
        /\ Goto(Client, "flush")
        /\ UNCHANGED <<srcList, nextSrc, nextDst, cell, next>>
  /\ UNCHANGED <<open, itsSrc, itsDst, free, events, app>>

\* lfpush (freelist, cnx); cnx = next
CloseFree ==
  /\ \E label \in Freeing :
        /\ At(Client, label)
        /\ Goto(Client, IF label = "free_src" THEN "close_src" ELSE "close_dst")
  /\ Push(cell[Client])
  /\ cell' = [cell EXCEPT ![Client] = next[Client]]
  /\ next' = [next EXCEPT ![Client] = NULL]
  /\ UNCHANGED <<open, events, app>>

\* Mutant: the events the client has not taken are not freed.
NoFlush(r) ==
  /\ At(Client, "flush") /\ app[Client][1] = r
  /\ Goto(Client, "free_appl")
  /\ UNCHANGED <<open, lists, free, events, app, cell, next>>

\* MSFlushEvs
Flush(r) ==
  /\ At(Client, "flush") /\ app[Client][1] = r
  /\ free' = free \cup rcv[r]
  /\ rcv' = [rcv EXCEPT ![r] = {}]
  /\ Goto(Client, "free_appl")
  /\ UNCHANGED <<open, lists, sender, app, cell, next>>

\* FreeAppl, and with the last client MidiShare sleeps: the clock stops and
\* the memory is given back, whatever is in it.
Free(r) ==
  /\ At(Client, "free_appl") /\ app[Client][1] = r
  /\ \/ /\ open # {MidiShare, r}
        /\ open' = open \ {r}
        /\ UNCHANGED <<lists, free, events>>
     \/ /\ open = {MidiShare, r}
        /\ open' = {}
        /\ srcList' = NoApps /\ dstList' = NoApps
        /\ free' = Cells
        /\ sender' = Blank
        /\ rcv' = [s \in Refs |-> {}]
        /\ itsSrc' = Blank /\ itsDst' = Blank
        /\ nextSrc' = Blank /\ nextDst' = Blank
  /\ Return(Client)

Connecting(l) ==
  \/ SetFind(l) \/ SetPop(l) \/ SetSrc(l) \/ SetDst(l) \/ PutDst(l)
  \/ ClearFind(l) \/ ClearSrc(l) \/ ClearDst(l) \/ ClearFree(l)

Next ==
  \/ MSOpen \/ CloseFree
  \/ \E r \in Refs : \/ MSSend(r) \/ MSGetEv(r) \/ MSClose(r) \/ CloseSrc(r)
                     \/ CloseDst(r) \/ Flush(r) \/ Free(r)
  \/ \E e \in Cells : Dispatch(e) \/ DispatchLost(e)
  \/ \E l \in Levels : \/ Connecting(l)
                       \/ \E s, d \in Refs, state \in BOOLEAN : MSConnect(l, s, d, state)

Spec == Init /\ [][Next]_vars
-----------------------------------------------------------------------------
PcValues == {"idle", "set_find", "set_pop", "clear_find"} \cup SettingUp
              \cup Clearing \cup ClosingSteps

TypeOK ==
  /\ open \subseteq Refs
  /\ {srcList, dstList} \subseteq [Refs -> Cells \cup {NULL}]
  /\ {itsSrc, itsDst} \subseteq [Cells -> Refs \cup {NULL}]
  /\ {nextSrc, nextDst} \subseteq [Cells -> Cells \cup {NULL}]
  /\ free \subseteq Cells
  /\ sender \in [Cells -> Refs \cup {NULL}]
  /\ rcv \in [Refs -> SUBSET Cells]
  /\ pc \in [Levels -> PcValues]
  /\ app \in [Levels -> (Refs \cup {NULL}) \X (Refs \cup {NULL})]
  /\ {cell, next} \subseteq [Levels -> Cells \cup {NULL}]
  /\ \A l \in Levels : pc[l] \in SettingUp \cup Clearing \cup Freeing
                          => cell[l] \in Cells

Events == {c \in Cells : sender[c] # NULL} \cup UNION {rcv[r] : r \in Refs}

NoDouble(s) == \A i, j \in 1..Len(s) : s[i] = s[j] => i = j

\* Between two calls both lists of all clients tell the same: each connection
\* is on the list of destinations of its source and on the list of sources of
\* its destination, once, no pair is connected twice, and every cell is free,
\* an event or a connection, one of them only (msConnx.c).
ListsAgree ==
  (\A l \in Levels : pc[l] = "idle") =>
    LET out == UNION {Members(Destinations(r)) : r \in open}
        in  == UNION {Members(Sources(r)) : r \in open}
    IN /\ \A r \in open : NoDouble(Destinations(r)) /\ NoDouble(Sources(r))
       /\ out = in
       /\ \A r \in open : /\ \A c \in Members(Destinations(r)) : itsSrc[c] = r
                          /\ \A c \in Members(Sources(r)) : itsDst[c] = r
       /\ \A c, d \in out : itsSrc[c] = itsSrc[d] /\ itsDst[c] = itsDst[d] => c = d
       /\ out \cup Events \cup free = Cells
       /\ out \cap Events = {} /\ out \cap free = {} /\ Events \cap free = {}

\* Whenever the clock handler may follow the list of destinations of a client,
\* it meets connections of that client only, none freed or used for an event,
\* and clients that exist (ConnectionsLoop reads nothing else to be sure).  The
\* exception is the one the code makes: from the first connection RemAllDstCon
\* frees to the end of its loop, the list of the client that closes.
NoDangling ==
  \A r \in open : ~ Emptying(r) =>
    /\ NoDouble(Destinations(r))
    /\ \A c \in Members(Destinations(r)) :
         c \notin free \cup Events /\ itsSrc[c] = r /\ itsDst[c] \in open

\* "assume that cnx is in the list" (msConnx.c, Rem1DstCon and Rem1SrcCon): a
\* connection that leaves a list is on it.
AssumedInList ==
  \A l \in Levels :
    /\ pc[l] = "clear_src" => cell[l] \in Members(Sources(app[l][2]))
    /\ pc[l] = "clear_dst" => cell[l] \in Members(Destinations(app[l][1]))
    /\ pc[l] = "close_src" /\ cell[l] # NULL
         => /\ itsSrc[cell[l]] # NULL
            /\ cell[l] \in Members(Destinations(itsSrc[cell[l]]))
    /\ pc[l] = "close_dst" /\ cell[l] # NULL
         => /\ itsDst[cell[l]] # NULL
            /\ cell[l] \in Members(Sources(itsDst[cell[l]]))

\* The connections of r: those still to be freed once r empties its list.
Outgoing(r) == IF Closing(r) /\ pc[Client] \in {"close_dst", "free_dst"}
               THEN Chain(nextDst, cell[Client]) ELSE Destinations(r)

\* The kernel is a patchbay: connections come and go at one instant, and each
\* event reaches, once, whoever is connected when its date comes.  The events of a
\* client that is leaving reach anybody while its list leads through freed cells.
Bay == INSTANCE Patchbay WITH
  conn <- UNION {{<<r, itsDst[c]>> : c \in Members(Outgoing(r))} : r \in open},
  sent <- [r \in Refs |-> Cardinality({c \in Cells : sender[c] = r})],
  got <- [r \in Refs |-> Cardinality(rcv[r])],
  leaving <- {r \in open : Emptying(r)},
  memory <- Cardinality(free)
IsAPatchbay == Bay!Spec
=============================================================================
