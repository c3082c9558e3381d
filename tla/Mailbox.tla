------------------------------ MODULE Mailbox -------------------------------
(***************************************************************************)
(* MidiReadSync and MidiWriteSync (common/Clients/msMail.c), with which    *)
(* the tasks of a client exchange messages through a variable.  Both read  *)
(* the variable, then swap it with MSCompareAndSwap, and start again if    *)
(* that fails.  The developer's guide asks for a swap that compares        *)
(* (KDG.html:519-523), but those of Mac OS X (macosx-mono/macosx.c) and of *)
(* Windows (win-mono/WinMono.c) store the new value without comparing and  *)
(* never fail: this is what is modelled.  That of Linux always fails, and  *)
(* both calls then never return (linux/kernel/MidiShareLinux.c:303-306).   *)
(***************************************************************************)
CONSTANTS Readers,   \* the tasks that take messages
          Writers,   \* the tasks that send them
          Messages,
          NIL        \* the empty mailbox, no message

Tasks == Readers \cup Writers

VARIABLES box,       \* *adrMem
          at,        \* where each task is
          content,   \* content[t]: the local of the call t is in
          val,       \* val[t]: the value t writes
          got,       \* got[t]: the messages the calls of t have returned
          new        \* the messages that no task has sent yet

mailVars == <<box, at, content, val, got, new>>

MailInit ==
  /\ box = NIL
  /\ at = [t \in Tasks |-> "idle"]
  /\ content = [t \in Tasks |-> NIL]
  /\ val = [t \in Tasks |-> NIL]
  /\ got = [t \in Tasks |-> {}]
  /\ new = Messages

\* MSReadSync is called.
MSReadSync(t) ==
  /\ t \in Readers
  /\ at[t] = "idle"
  /\ at' = [at EXCEPT ![t] = "content"]
  /\ UNCHANGED <<box, content, val, got, new>>

\* MSWriteSync is called with val = m.
MSWriteSync(t, m) ==
  /\ t \in Writers
  /\ at[t] = "idle"
  /\ m \in new
  /\ new' = new \ {m}
  /\ val' = [val EXCEPT ![t] = m]
  /\ at' = [at EXCEPT ![t] = "content"]
  /\ UNCHANGED <<box, content, got>>

\* content = *adrMem
Content(t) ==
  /\ at[t] = "content"
  /\ content' = [content EXCEPT ![t] = box]
  /\ at' = [at EXCEPT ![t] = "swap"]
  /\ UNCHANGED <<box, val, got, new>>

\* MSCompareAndSwap (adrMem, content, val) stores val, whatever the variable has
\* become; the call returns the content it read.
Swap(t) ==
  /\ at[t] = "swap"
  /\ box' = val[t]
  /\ got' = [got EXCEPT ![t] = @ \cup ({content[t]} \ {NIL})]
  /\ content' = [content EXCEPT ![t] = NIL]
  /\ val' = [val EXCEPT ![t] = NIL]
  /\ at' = [at EXCEPT ![t] = "idle"]
  /\ UNCHANGED new

Step(t) == MSReadSync(t) \/ Content(t) \/ Swap(t)
MailNext == \E t \in Tasks : Step(t) \/ \E m \in Messages : MSWriteSync(t, m)

MailSpec == MailInit /\ [][MailNext]_mailVars
-----------------------------------------------------------------------------
\* What the manual says of MidiReadSync ("reads and sets to NIL a memory address.
\* This function is none-interruptable", MidiReadSync.html:13): a message sent is
\* in the mailbox, with the call that writes it, or was returned to a task, and
\* to one task only.
TakenOnce ==
  /\ \A m \in Messages \ new :
       \/ box = m
       \/ \E t \in Tasks : m = val[t] \/ m \in got[t]
  /\ \A m \in Messages, t, u \in Tasks :
       m \in got[t] \cap got[u] => t = u
=============================================================================
