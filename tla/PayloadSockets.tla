--------------------------- MODULE PayloadSockets ---------------------------
(***************************************************************************)
(* How the payload thread of one server learns that its two sockets have   *)
(* messages (Zpayload::receive_payload and Zpayload::pubsub_payload in     *)
(* zeromq.cpp).  A QSocketNotifier watches the ZMQ_FD of each socket.      *)
(*                                                                         *)
(* ZMQ_FD says that the mailbox of the socket holds a command, not that a  *)
(* message can be read.  libzmq writes a command when a message arrives    *)
(* for a reader that has found the pipe empty; zmq::poll and a recv that   *)
(* fails with EAGAIN consume the commands.  connect leaves a command of    *)
(* its own in the mailbox, and so does a reconnection.                     *)
(*                                                                         *)
(* A process worker registers twice.  The second init_payload replaces     *)
(* sockets and notifiers, but closes and deletes nothing: the notifiers of *)
(* the replaced sockets go on calling the slots, which read the new ones.  *)
(***************************************************************************)
EXTENDS Naturals, Sequences

CONSTANTS
  WorkerType,  \* "service" or "process", as in Registration
  MaxWrites,   \* bound: messages that arrive for a socket
  MaxHiccups   \* bound: reconnections of the sockets

ASSUME WorkerTypeAssumption == WorkerType \in {"service", "process"}
ASSUME BoundsAssumption == MaxWrites \in Nat /\ MaxHiccups \in Nat

Sockets == {"receiver", "pubsub"}

\* A message: a job or notification, one that is not BSON, one of size 0.
Kinds == {"job", "invalid", "empty"}

VARIABLES
  pipe,     \* unread messages of each socket, by kind
  asleep,   \* the reader has found the pipe empty: the next message signals
  signal,   \* the mailbox holds a command, the ZMQ_FD is readable
  enabled,  \* isEnabled of check_receive_payload and check_pubsub_payload
  pending,  \* notifiers the last select() of the thread found readable
  running,  \* the socket whose slot is reading, or "none"
  jobs,     \* jobs that have arrived
  emitted,  \* jobs handed on with emit_payload or emit_pubsub
  causes,   \* history: what has left messages unread since the last full read
  replaced, \* init_payload has run twice
  stale,    \* the sockets whose replaced namesake has a readable ZMQ_FD
  writes, hiccups  \* what the bounds count

oldvars == <<replaced, stale>>
vars == <<pipe, asleep, signal, enabled, pending, running, jobs, emitted,
          causes, oldvars, writes, hiccups>>

TypeOK ==
  /\ pipe \in [Sockets -> Seq(Kinds)]
  /\ asleep \in [Sockets -> BOOLEAN]
  /\ signal \in [Sockets -> BOOLEAN]
  /\ enabled \in [Sockets -> BOOLEAN]
  /\ pending \subseteq Sockets
  /\ running \in Sockets \cup {"none"}
  /\ jobs \in [Sockets -> Nat]
  /\ emitted \in [Sockets -> Nat]
  /\ causes \in [Sockets -> SUBSET {"stolen", "empty"}]
  /\ replaced \in BOOLEAN
  /\ stale \subseteq Sockets
  /\ writes \in [Sockets -> 0 .. MaxWrites]
  /\ hiccups \in 0 .. MaxHiccups

\* The end of the first init_payload.
Init ==
  /\ pipe = [s \in Sockets |-> <<>>]
  /\ asleep = [s \in Sockets |-> FALSE]
  /\ signal = [s \in Sockets |-> TRUE]
  /\ enabled = [s \in Sockets |-> TRUE]
  /\ pending = {}
  /\ running = "none"
  /\ jobs = [s \in Sockets |-> 0]
  /\ emitted = [s \in Sockets |-> 0]
  /\ causes = [s \in Sockets |-> {}]
  /\ replaced = FALSE /\ stale = {}
  /\ writes = [s \in Sockets |-> 0]
  /\ hiccups = 0

-----------------------------------------------------------------------------
(* The I/O thread of libzmq.                                               *)

\* A message arrives.  Whatever is not empty is a notification on pubsub.
Write(s, kind) ==
  /\ writes[s] < MaxWrites
  /\ kind = "invalid" => s = "receiver"
  /\ writes' = [writes EXCEPT ![s] = @ + 1]
  /\ jobs' = [jobs EXCEPT ![s] = IF kind = "job" THEN @ + 1 ELSE @]
  /\ pipe' = [pipe EXCEPT ![s] = Append(@, kind)]
  /\ signal' = [signal EXCEPT ![s] = @ \/ asleep[s]]
  /\ asleep' = [asleep EXCEPT ![s] = FALSE]
  /\ UNCHANGED <<enabled, pending, running, emitted, causes, hiccups, oldvars>>

\* The connection of the socket is lost and made again.
Hiccup(s) ==
  /\ hiccups < MaxHiccups
  /\ hiccups' = hiccups + 1
  /\ signal' = [signal EXCEPT ![s] = TRUE]
  /\ UNCHANGED <<pipe, asleep, enabled, pending, running, jobs, emitted,
                 causes, writes, oldvars>>

\* A command for a replaced socket of kind s: nothing will ever consume it.
OldWrite(s) ==
  /\ replaced
  /\ stale' = stale \cup {s}
  /\ UNCHANGED <<pipe, asleep, signal, enabled, pending, running, jobs, emitted,
                 causes, replaced, writes, hiccups>>

-----------------------------------------------------------------------------
(* The event loop of the payload thread.                                   *)

\* init_payload once more.  What the sockets held is not read any more.
Replace ==
  /\ WorkerType = "process"
  /\ ~replaced /\ running = "none" /\ pending = {}
  /\ replaced' = TRUE
  /\ stale' = {s \in Sockets : signal[s]}
  /\ pipe' = [s \in Sockets |-> <<>>]
  /\ asleep' = [s \in Sockets |-> FALSE]
  /\ signal' = [s \in Sockets |-> TRUE]
  /\ jobs' = [s \in Sockets |-> 0]
  /\ emitted' = [s \in Sockets |-> 0]
  /\ causes' = [s \in Sockets |-> {}]
  /\ UNCHANGED <<enabled, pending, running, writes, hiccups>>

\* Mutant: the notifiers of the replaced sockets are deleted.
ReadableNow == {s \in Sockets : signal[s] /\ enabled[s]}

\* select() finds the readable descriptors of the enabled notifiers.
Readable == {s \in Sockets : (signal[s] /\ enabled[s]) \/ s \in stale}
Select ==
  /\ running = "none" /\ pending = {} /\ Readable # {}
  /\ pending' = Readable
  /\ UNCHANGED <<pipe, asleep, signal, enabled, running, jobs, emitted, causes,
                 writes, hiccups, oldvars>>

\* zmq::poll (&m_items[0], 2, 0) consumes the commands of both sockets, the one
\* the slot is for and the other; a socket it finds empty goes to sleep.
Poll ==
  /\ signal' = [s \in Sockets |-> FALSE]
  /\ asleep' = [s \in Sockets |-> pipe[s] = <<>>]

\* Mutant: the slot also sees to the other socket, if the poll reports it.
ActivateBoth(s) ==
  /\ running = "none" /\ s \in pending
  /\ pending' = (pending \cup {t \in Sockets : pipe[t] # <<>>}) \ {s}
  /\ Poll
  /\ UNCHANGED causes
  /\ IF pipe[s] = <<>>
     THEN UNCHANGED <<running, enabled, oldvars>>
     ELSE running' = s /\ enabled' = [enabled EXCEPT ![s] = FALSE]
  /\ UNCHANGED <<pipe, jobs, emitted, writes, hiccups, oldvars>>

\* Mutant: the slot returns before the poll when there is nothing to read.
ActivateUnpolled(s) ==
  /\ running = "none" /\ s \in pending
  /\ pending' = pending \ {s}
  /\ IF pipe[s] = <<>>
     THEN UNCHANGED <<running, enabled, signal, asleep, causes>>
     ELSE /\ Poll /\ running' = s /\ enabled' = [enabled EXCEPT ![s] = FALSE]
          /\ causes' = [t \in Sockets |-> causes[t] \cup
                         IF t \notin pending /\ pipe[t] # <<>> THEN {"stolen"} ELSE {}]
  /\ UNCHANGED <<pipe, jobs, emitted, writes, hiccups, oldvars>>

\* The slot of s up to its loop.  It returns at once when there is no ZMQ_POLLIN.
Activate(s) ==
  /\ running = "none" /\ s \in pending
  /\ pending' = pending \ {s}
  /\ Poll
  /\ causes' = [t \in Sockets |-> causes[t] \cup
                  IF t \notin pending /\ pipe[t] # <<>> THEN {"stolen"} ELSE {}]
  /\ IF pipe[s] = <<>>
     THEN UNCHANGED <<running, enabled, oldvars>>
     ELSE running' = s /\ enabled' = [enabled EXCEPT ![s] = FALSE]
  /\ UNCHANGED <<pipe, jobs, emitted, writes, hiccups, oldvars>>

\* The slot leaves its loop and enables its notifier again.
EndSlot(s) == running' = "none" /\ enabled' = [enabled EXCEPT ![s] = TRUE]

\* recv takes the next message.
Take(s) == pipe' = [pipe EXCEPT ![s] = Tail(@)]

\* Mutant: the notifier stays disabled after the last message.
ReadNothingDisabled(s) ==
  /\ running = s /\ pipe[s] = <<>>
  /\ signal' = [signal EXCEPT ![s] = FALSE]
  /\ asleep' = [asleep EXCEPT ![s] = TRUE]
  /\ causes' = [causes EXCEPT ![s] = {}]
  /\ running' = "none"
  /\ UNCHANGED <<pipe, enabled, pending, jobs, emitted, writes, hiccups, oldvars>>

\* recv fails with EAGAIN: everything has been read.
ReadNothing(s) ==
  /\ running = s /\ pipe[s] = <<>>
  /\ signal' = [signal EXCEPT ![s] = FALSE]
  /\ asleep' = [asleep EXCEPT ![s] = TRUE]
  /\ causes' = [causes EXCEPT ![s] = {}]
  /\ EndSlot(s)
  /\ UNCHANGED <<pipe, pending, jobs, emitted, writes, hiccups, oldvars>>

\* Mutant: one job is read at a time, as in a loop without while.
ReadOneJob(s) ==
  /\ running = s /\ pipe[s] # <<>> /\ Head(pipe[s]) = "job"
  /\ Take(s)
  /\ emitted' = [emitted EXCEPT ![s] = @ + 1]
  /\ EndSlot(s)
  /\ UNCHANGED <<asleep, signal, pending, jobs, causes, writes, hiccups, oldvars>>

\* A job is handed on and the loop goes on.
ReadJob(s) ==
  /\ running = s /\ pipe[s] # <<>> /\ Head(pipe[s]) = "job"
  /\ Take(s)
  /\ emitted' = [emitted EXCEPT ![s] = @ + 1]
  /\ UNCHANGED <<asleep, signal, enabled, pending, running, jobs, causes,
                 writes, hiccups, oldvars>>

\* Mutant: flush_socket drops what is behind the message, too.
ReadInvalidFlushes(s) ==
  /\ running = s /\ pipe[s] # <<>> /\ Head(pipe[s]) = "invalid"
  /\ pipe' = [pipe EXCEPT ![s] = <<>>]
  /\ UNCHANGED <<asleep, signal, enabled, pending, running, jobs, emitted,
                 causes, writes, hiccups, oldvars>>

\* What is not BSON is skipped: goto flush_socket.
ReadInvalid(s) ==
  /\ running = s /\ pipe[s] # <<>> /\ Head(pipe[s]) = "invalid"
  /\ Take(s)
  /\ UNCHANGED <<asleep, signal, enabled, pending, running, jobs, emitted,
                 causes, writes, hiccups, oldvars>>

\* A message of size 0 ends the loop, whatever is behind it.
ReadEmpty(s) ==
  /\ running = s /\ pipe[s] # <<>> /\ Head(pipe[s]) = "empty"
  /\ Take(s)
  /\ causes' = [causes EXCEPT ![s] = @ \cup {"empty"}]
  /\ EndSlot(s)
  /\ UNCHANGED <<asleep, signal, pending, jobs, emitted, writes, hiccups, oldvars>>

Loop(s) == Activate(s) \/ ReadNothing(s) \/ ReadJob(s) \/ ReadInvalid(s) \/ ReadEmpty(s)

-----------------------------------------------------------------------------
Next ==
  \/ Select \/ Replace
  \/ \E s \in Sockets :
       \/ \E kind \in Kinds : Write(s, kind)
       \/ Hiccup(s) \/ OldWrite(s)
       \/ Loop(s)

\* The thread runs; nothing makes a message arrive or a connection break.
Fairness == WF_vars(Select) /\ \A s \in Sockets : WF_vars(Loop(s))

Spec == Init /\ [][Next]_vars /\ Fairness

-----------------------------------------------------------------------------
(* What is checked.                                                        *)

\* Nothing will make the thread look at s: no command, no slot waiting or running.
Idle(s) == ~signal[s] /\ s \notin pending /\ running # s /\ s \notin stale

\* Messages wait in s and the thread does not know.
Deaf(s) == Idle(s) /\ pipe[s] # <<>>

\* Messages are forgotten in two ways only: the slot of the other socket has
\* consumed the command that announced them, or a message of size 0 has ended
\* the loop before they were read.  One socket on its own never stalls.
DeafHasCause == \A s \in Sockets : Deaf(s) => causes[s] # {}

\* Once forgotten they stay unread, however many messages follow and whatever
\* the other socket receives: only a reconnection wakes the socket up, or a
\* command for the socket it has replaced.
DeafStaysDeaf ==
  [][\A s \in Sockets :
       Deaf(s) /\ hiccups' = hiccups /\ UNCHANGED oldvars => Deaf(s)']_vars

\* The thread is in select() and no descriptor is readable.
AtRest == running = "none" /\ pending = {} /\ Readable = {}

\* No job is handed on twice, and the thread rests only when each has been handed
\* on or its socket is forgotten: no exit of a slot leaves a notifier disabled or
\* drops what was in the pipe.
RestsWhenDone ==
  \A s \in Sockets :
    /\ emitted[s] <= jobs[s]
    /\ AtRest => emitted[s] = jobs[s] \/ Deaf(s)

\* Every job that arrives is handed on, unless its socket is forgotten or replaced.
JobsHandedOn ==
  \A s \in Sockets, n \in 1 .. MaxWrites :
    jobs[s] >= n ~> (emitted[s] >= n \/ Deaf(s) \/ jobs[s] < n)

\* The notifier of a replaced socket makes up for what is forgotten: once it has
\* become readable, every job of the new socket is handed on.
StaleReadsAll ==
  \A s \in Sockets, n \in 1 .. MaxWrites :
    (s \in stale /\ jobs[s] >= n) ~> emitted[s] >= n

\* The price is that the thread never rests again.  Nothing else keeps it busy: a
\* slot that finds nothing to read consumes the command it was called for.
ThreadRests == []<>(AtRest \/ stale # {})
=============================================================================
