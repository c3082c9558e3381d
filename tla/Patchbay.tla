------------------------------ MODULE Patchbay ------------------------------
(***************************************************************************)
(* What the kernel promises the clients that connect to each other: a      *)
(* patchbay.  An event is delivered, once, to every client connected to    *)
(* its sender at the instant its date comes, as far as memory goes; a      *)
(* connection appears or disappears at one instant, on both sides.         *)
(* Connections implements it.                                              *)
(***************************************************************************)
EXTENDS Naturals, FiniteSets

CONSTANT Refs      \* the reference numbers; 0 is MidiShare itself

VARIABLES open,    \* the reference numbers of the clients that exist
          conn,    \* the pairs <<source, destination>> that are connected
          sent,    \* sent[r]: how many events r sent whose date is to come
          got,     \* got[r]: how many events r received and has not taken
          leaving, \* the clients whose destinations are being forgotten
          memory   \* the cells that are free; other activities change it

vars == <<open, conn, sent, got, leaving, memory>>

None == [r \in Refs |-> 0]
Least(S) == CHOOSE n \in S : \A m \in S : n <= m

Init == /\ open = {} /\ conn = {} /\ sent = None /\ got = None /\ leaving = {}
        /\ memory \in Nat

\* The lowest number that is free; the first client wakes MidiShare up.
Open ==
  /\ Refs \ (open \cup {0}) # {}
  /\ open' = open \cup {0, Least(Refs \ (open \cup {0}))}
  /\ memory' \in Nat
  /\ UNCHANGED <<conn, sent, got, leaving>>

\* A pair is connected or disconnected, at the will of a client or because its
\* source leaves.
Connect ==
  /\ UNCHANGED <<open, sent, got, leaving>>
  /\ \E p \in open \X open : p \notin conn /\ conn' = conn \cup {p}
  /\ memory' \in Nat

Disconnect ==
  /\ UNCHANGED <<open, sent, got>>
  /\ \E p \in conn : /\ conn' = conn \ {p}
                    /\ leaving' \in {leaving, leaving \cup {p[1]}}
  /\ memory' \in Nat

\* The last connection of a client that leaves is gone.
Left(r) ==
  /\ r \in leaving /\ \A d \in Refs : <<r, d>> \notin conn
  /\ leaving' = leaving \ {r}
  /\ memory' \in Nat
  /\ UNCHANGED <<open, conn, sent, got>>

Send(r) ==
  /\ r \in open
  /\ sent' = [sent EXCEPT ![r] = @ + 1]
  /\ memory' \in Nat
  /\ UNCHANGED <<open, conn, got, leaving>>

\* MidiShare sends what it receives out of the machine and keeps none of it.
Heard(s) == {d \in Refs \ {0} : <<s, d>> \in conn}

\* Who gets a copy: as many as memory allows of those connected; of a client that
\* is leaving, anybody.
Hearers(s) ==
  IF s \in leaving THEN {D \in SUBSET (Refs \ {0}) : Cardinality(D) <= memory}
  ELSE {D \in SUBSET Heard(s) :
          Cardinality(D) = Least({memory, Cardinality(Heard(s))})}

Deliver(s) ==
  /\ sent[s] > 0
  /\ sent' = [sent EXCEPT ![s] = @ - 1]
  /\ \E D \in Hearers(s) :
        got' = [r \in Refs |-> IF r \in D THEN got[r] + 1 ELSE got[r]]
  /\ memory' \in Nat
  /\ UNCHANGED <<open, conn, leaving>>

\* r takes an event, or all of them when it leaves.
Take(r) ==
  /\ \E n \in {got[r] - 1, 0} : got[r] > 0 /\ got' = [got EXCEPT ![r] = n]
  /\ memory' \in Nat
  /\ UNCHANGED <<open, conn, sent, leaving>>

\* A client is gone when nothing connects it any more and nothing is left for it;
\* what it has sent still comes, and may be taken for what the next client of its
\* number sends.  With the last one MidiShare falls asleep and forgets all.
Close(r) ==
  /\ r \in open \ ({0} \cup leaving)
  /\ \A s \in Refs : <<s, r>> \notin conn /\ <<r, s>> \notin conn
  /\ got[r] = 0
  /\ \/ /\ open # {0, r}
        /\ open' = open \ {r}
        /\ UNCHANGED <<conn, sent, got>>
     \/ /\ open = {0, r}
        /\ open' = {} /\ conn' = {} /\ sent' = None /\ got' = None
  /\ memory' \in Nat
  /\ UNCHANGED leaving

Work == memory' \in Nat /\ UNCHANGED <<open, conn, sent, got, leaving>>

Next == \/ Work \/ Open \/ Connect \/ Disconnect
        \/ \E r \in Refs : Send(r) \/ Deliver(r) \/ Take(r) \/ Left(r) \/ Close(r)

Spec == Init /\ [][Next]_vars
=============================================================================
