------------------------------ MODULE Shutdown ------------------------------
(***************************************************************************)
(* How the worker stops (main.cpp, and the destructors in zeromq.cpp),     *)
(* around the routing of Registration.  A signal writes a byte that only   *)
(* the event loop reads; the loop ends when no slot holds the main thread; *)
(* ~Zdispatcher then destroys the servers one by one, waits for the three  *)
(* threads of each, and closes the ZeroMQ context, which waits for every   *)
(* socket to be closed and for what they still have to send.               *)
(*                                                                         *)
(* The kernel hands a signal of the process to its main thread.            *)
(***************************************************************************)
EXTENDS Registration

CONSTANTS MaxSignals  \* bound: signals sent to the worker

ASSUME SignalsAssumption == MaxSignals \in Nat

VARIABLES
  asked,      \* a byte waits in one of the socket pairs
  oneshot,    \* term.sa_flags, which nothing initialises, has SA_RESETHAND
  termed,     \* SIGTERM has been delivered
  busy,       \* what a slot holds the main thread with, or "free"
  phase,      \* how far ~Zdispatcher is, or how the process has ended
  victim,     \* the server whose destructor runs, or has run last
  destroyed,  \* the servers whose destructor has run
  runner,     \* the server whose Process has run a command last
  owed,       \* pushes of its Process that payload thread i is yet to make
  unsent,     \* the servers that have pushes yet to be sent to them
  signals     \* what MaxSignals counts

\* What is pushed to the servers, and by whom.
pushvars == <<runner, owed, unsent>>
stopvars == <<asked, oneshot, termed, busy, phase, victim, destroyed, pushvars,
              signals>>

StopTypeOK ==
  /\ asked \in BOOLEAN /\ oneshot \in BOOLEAN /\ termed \in BOOLEAN
  /\ busy \in {"free", "command", "transfer"}
  /\ phase \in {"open", "tracker", "payload", "stream", "context",
                "over", "aborted", "crashed"}
  /\ victim \in Ncs
  /\ destroyed \subseteq Ncs
  /\ runner \in Ncs /\ owed \in [Ncs -> Nat] /\ unsent \subseteq Ncs
  /\ signals \in 0 .. MaxSignals

\* The handlers are installed before Zdispatcher is constructed.
StopInit ==
  /\ Init
  /\ asked = FALSE /\ oneshot \in BOOLEAN /\ termed = FALSE
  /\ busy = "free" /\ phase = "open" /\ victim = 0
  /\ runner = 0 /\ owed = [i \in Ncs |-> 0] /\ unsent = {}
  /\ destroyed = {} /\ signals = 0

Ended == phase \in {"over", "aborted", "crashed"}

\* The main thread is in no slot that waits, and not in the destructor.
Free == busy = "free" /\ phase = "open"

-----------------------------------------------------------------------------
(* The routing, while it lasts.                                            *)

MainRuns ==
  /\ Free
  /\ \/ Construct \/ ConnectService \/ Boot
     \/ ServiceWatchdog \/ \E i \in Ncs : ProcessWatchdog(i)
     \/ Launch \/ LoopEnds
  /\ UNCHANGED stopvars

\* Process pushes through the queue of the payload thread of its server.
Owes(i) == owed' = [owed EXCEPT ![i] = @ + 1]

\* Process::s_job_receive of a server that may send jobs, up to waitForFinished:
\* the receipt of the job is pushed, the command started.
MainRunsCommand(i) ==
  /\ Free /\ receivers[i] # <<>>
  /\ ProcessJob
  /\ busy' = "command" /\ runner' = i
  /\ Owes(i)
  /\ UNCHANGED <<asked, oneshot, termed, phase, victim, destroyed, unsent, signals>>

\* The command ends, if it does, and its result is pushed.
CommandEnds ==
  /\ busy = "command" /\ ~Ended
  /\ busy' = "free"
  /\ Owes(runner)
  /\ UNCHANGED <<vars, asked, oneshot, termed, phase, victim, destroyed, runner,
                 unsent, signals>>

\* A push of Service is left to the I/O thread.  A job may also ask for a file.
MainPushes(i) ==
  /\ Free
  /\ unsent' = unsent \cup {i}
  /\ \/ ServiceJob(i) /\ busy' \in {"free", "transfer"}
     \/ ChildOutput(i) /\ busy' = "free"
  /\ UNCHANGED <<asked, oneshot, termed, phase, victim, destroyed, runner, owed, signals>>

\* The data of a job is not JSON: it is acknowledged, and fromjson throws.
JobThrows(i) ==
  /\ Free /\ ServiceJob(i)
  /\ unsent' = unsent \cup {i}
  /\ phase' = "aborted"
  /\ UNCHANGED <<asked, oneshot, termed, busy, victim, destroyed, runner, owed, signals>>

\* The child asks for a file, and the main thread waits in get_stream.
ChildAsksFile ==
  /\ Free /\ Looping /\ child \in {"running", "dead"}
  /\ busy' = "transfer"
  /\ UNCHANGED <<vars, asked, oneshot, termed, phase, victim, destroyed, pushvars,
                 signals>>

\* The file is there.
TransferEnds ==
  /\ busy = "transfer" /\ ~Ended
  /\ busy' = "free"
  /\ UNCHANGED <<vars, asked, oneshot, termed, phase, victim, destroyed, pushvars,
                 signals>>

\* The payload thread of server i is there to read jobs.
Reads(i) == i \notin destroyed /\ ~(victim = i /\ phase = "stream")

ThreadsRun(i) ==
  /\ ~Ended
  /\ \/ TrackerSend(i) \/ AnswerStatus(i) \/ AnswerGrant(i)
     \/ PayloadInit(i)
     \/ Reads(i) /\ \E k \in DOMAIN receivers[i] : JobArrives(i, k)
  /\ UNCHANGED stopvars

\* A queued call of push_payload, in the payload thread of server i.
PayloadPushes(i) ==
  /\ ~Ended /\ owed[i] > 0
  /\ owed' = [owed EXCEPT ![i] = @ - 1]
  /\ unsent' = unsent \cup {i}
  /\ UNCHANGED <<vars, asked, oneshot, termed, busy, phase, victim, destroyed, runner,
                 signals>>

ChildEnds == ~Ended /\ ChildDies /\ UNCHANGED stopvars

\* The I/O thread sends what was pushed to server i.
Deliver(i) ==
  /\ ~Ended /\ i \in unsent
  /\ unsent' = unsent \ {i}
  /\ UNCHANGED <<vars, asked, oneshot, termed, busy, phase, victim, destroyed, runner,
                 owed, signals>>

-----------------------------------------------------------------------------
(* Signals.                                                                *)

\* A signal whose handler is gone ends the process.  Any other leaves a byte.  One
\* that interrupts a recv makes zmq.hpp throw besides, and no slot catches that; one
\* that interrupts the closing of the context ends the wait, or fails its assertion.
Signal(kind) ==
  /\ ~Ended /\ signals < MaxSignals
  /\ signals' = signals + 1
  /\ termed' = (termed \/ kind = "SIGTERM")
  /\ IF kind = "SIGTERM" /\ oneshot /\ termed
     THEN phase' = "aborted" /\ UNCHANGED asked
     ELSE /\ asked' = TRUE
          /\ \/ UNCHANGED phase
             \/ busy = "transfer" /\ phase' = "aborted"
             \/ phase = "context" /\ phase' \in {"over", "aborted"}
  /\ UNCHANGED <<vars, oneshot, busy, victim, destroyed, pushvars>>

\* Mutant: the byte is read but the loop goes on.
HandleOnce ==
  /\ asked /\ Free /\ Looping /\ mainq = <<>>
  /\ asked' = FALSE
  /\ IF main = "loop" /\ ~termed THEN Quit ELSE UNCHANGED vars
  /\ UNCHANGED <<oneshot, termed, busy, phase, victim, destroyed, pushvars, signals>>

\* handleSigHup and handleSigTerm.
HandleSignal ==
  /\ asked /\ Free /\ Looping
  /\ asked' = FALSE
  /\ IF main = "loop" THEN Quit ELSE UNCHANGED vars
  /\ UNCHANGED <<oneshot, termed, busy, phase, victim, destroyed, pushvars, signals>>

-----------------------------------------------------------------------------
(* ~Zdispatcher and ~Zeromq.                                               *)

Enters(next) ==
  /\ phase' = next
  /\ UNCHANGED <<vars, asked, oneshot, termed, busy, pushvars, signals>>

\* Mutant: the payload is deleted before the tracker.
ClosePayloadFirst(i) ==
  /\ phase = "open" /\ main = "stopped" /\ i \notin destroyed
  /\ victim' = i
  /\ Enters("payload")
  /\ UNCHANGED destroyed

\* The next server: its tracker is to be deleted, by its own thread.
CloseServer(i) ==
  /\ phase = "open" /\ main = "stopped" /\ i \notin destroyed
  /\ victim' = i
  /\ Enters("tracker")
  /\ UNCHANGED destroyed

\* A deletion is queued behind all that was queued before: the tracker thread
\* ends when every request has been answered, and with it the wait for it.
TrackerEnds ==
  /\ phase = "tracker" /\ call[victim] = "none" /\ trackerq[victim] = <<>>
  /\ Enters("payload")
  /\ UNCHANGED <<victim, destroyed>>

\* Mutant: the payload is deleted at once.
PayloadEndsNow ==
  /\ phase = "payload"
  /\ \/ Enters("stream")
     \/ receivers[victim] = <<>> /\ Enters("crashed")
  /\ UNCHANGED <<victim, destroyed>>

\* Mutant: what Process has queued is not waited for.
PayloadEndsOwing ==
  /\ phase = "payload" /\ payloadq[victim] = <<>>
  /\ \/ Enters("stream")
     \/ receivers[victim] = <<>> /\ Enters("crashed")
  /\ UNCHANGED <<victim, destroyed>>

\* The payload thread ends when all calls queued before have been made.
\* ~Zpayload closes m_receiver and the pubsub socket: unset pointers, on which it
\* may crash, if no init_payload has run.
PayloadEnds ==
  /\ phase = "payload" /\ payloadq[victim] = <<>> /\ owed[victim] = 0
  /\ \/ Enters("stream")
     \/ receivers[victim] = <<>> /\ Enters("crashed")
  /\ UNCHANGED <<victim, destroyed>>

\* Mutant: whether a server is left is looked at before this one is counted.
StreamEndsUncounted ==
  /\ phase = "stream"
  /\ destroyed' = destroyed \cup {victim}
  /\ Enters(IF destroyed = Ncs THEN "context" ELSE "open")
  /\ UNCHANGED victim

\* The stream thread has nothing to do.  After the last server the context is
\* closed.
StreamEnds ==
  /\ phase = "stream"
  /\ destroyed' = destroyed \cup {victim}
  /\ Enters(IF destroyed' = Ncs THEN "context" ELSE "open")
  /\ UNCHANGED victim

\* The receivers that a second init_payload has replaced are open for ever.
Leaked == {i \in Ncs : Len(receivers[i]) > 1}

ContextClosed ==
  /\ phase = "context" /\ unsent = {} /\ Leaked = {}
  /\ Enters("over")
  /\ UNCHANGED <<victim, destroyed>>

-----------------------------------------------------------------------------
StopNext ==
  \/ MainRuns \/ CommandEnds \/ ChildAsksFile \/ TransferEnds
  \/ ChildEnds
  \/ \E i \in Ncs :
       \/ MainRunsCommand(i) \/ MainPushes(i) \/ JobThrows(i)
       \/ ThreadsRun(i) \/ PayloadPushes(i) \/ Deliver(i) \/ CloseServer(i)
  \/ \E kind \in {"SIGINT", "SIGTERM"} : Signal(kind)
  \/ HandleSignal
  \/ TrackerEnds \/ PayloadEnds \/ StreamEnds \/ ContextClosed

allvars == <<vars, stopvars>>

\* The threads run, and a responsive server answers and takes what is pushed.  The
\* notifier of a socket pair is looked at in every round of the event loop, also
\* when slots keep taking turns.  Nothing makes a transfer or a command end.
StopFairness ==
  /\ SF_allvars(HandleSignal)
  /\ WF_allvars(Free /\ Construct /\ UNCHANGED stopvars)
  /\ WF_allvars(Free /\ ConnectService /\ UNCHANGED stopvars)
  /\ WF_allvars(Free /\ Boot /\ UNCHANGED stopvars)
  /\ SF_allvars(Free /\ LoopEnds /\ UNCHANGED stopvars)
  /\ WF_allvars(\E i \in Ncs : CloseServer(i))
  /\ WF_allvars(TrackerEnds) /\ WF_allvars(PayloadEnds)
  /\ WF_allvars(StreamEnds) /\ WF_allvars(ContextClosed)
  /\ \A i \in Ncs :
       /\ WF_allvars(~Ended /\ TrackerSend(i) /\ UNCHANGED stopvars)
       /\ WF_allvars(~Ended /\ PayloadInit(i) /\ UNCHANGED stopvars)
       /\ WF_allvars(PayloadPushes(i))
  /\ \A i \in Responsive :
       /\ WF_allvars(~Ended /\ (AnswerStatus(i) \/ AnswerGrant(i)) /\ UNCHANGED stopvars)
       /\ WF_allvars(Deliver(i))

StopSpec == StopInit /\ [][StopNext]_allvars /\ StopFairness

-----------------------------------------------------------------------------
(* What is checked.                                                        *)

\* What can keep a worker that was told to stop: a slot that waits for a command
\* or a file, a silent tracker, a push that nobody takes, and in process mode a
\* receiver that was replaced and never closed.
Held ==
  \/ busy # "free"
  \/ phase = "tracker" /\ victim \notin Responsive
  \/ phase = "context" /\ ~(unsent \subseteq Responsive)
  \/ phase = "context" /\ WorkerType = "process" /\ Leaked # {}

\* A worker on its way to its end.
Stopping == asked \/ main \in {"exiting", "stopped"}

\* One of its threads, or a responsive server, has the next step to take.
GoesOn ==
  \/ phase = "open" /\ main = "boot" /\ connected <= constructed
  \/ phase = "open" /\ main = "loop" /\ asked
  \/ phase = "open" /\ main = "exiting"
  \/ phase = "open" /\ main = "stopped" /\ destroyed # Ncs
  \/ phase = "tracker" /\ (call[victim] = "none" \/ victim \in Responsive)
  \/ phase \in {"payload", "stream"}
  \/ phase = "context" /\ Leaked = {} /\ unsent = {}
  \/ phase = "context" /\ unsent \cap Responsive # {}

\* No moment for a signal, and no order in which servers answer and are destroyed,
\* leaves a worker without a next step that nothing of this holds.
NothingElseHolds == Stopping /\ ~Ended /\ ~Held => GoesOn

\* A signal, at whatever moment, ends the worker, unless one of
\* these lasts for ever.
SignalEndsWorker == ([]<>~Held) => (asked ~> Ended)

\* ~Zpayload meets unset sockets only for a server that has never registered the
\* worker: the sockets of a grant that is still queued are opened first.
CrashOnlyUnregistered == phase = "crashed" => granted[victim] = 0

\* The destructor that has waited for a thread leaves nothing behind for it: no
\* tracker emits worker_port to a payload that is gone.
ThreadDone(i) == i \in destroyed \/ (victim = i /\ phase = "stream")
NothingLeftBehind ==
  \A i \in Ncs : ThreadDone(i) =>
    call[i] = "none" /\ trackerq[i] = <<>> /\ payloadq[i] = <<>> /\ owed[i] = 0

\* A worker that comes to its end loses no push that it has made or queued, those
\* that Process has queued behind a grant or while servers are destroyed among them.
\* Only a signal that no event loop reads any more, in the closing of the context, cuts them off.
PushesGoOut ==
  phase = "over" /\ ~asked => unsent = {} /\ \A i \in Ncs : owed[i] = 0
=============================================================================
