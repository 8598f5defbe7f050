---------------------------- MODULE ShutdownProofs ----------------------------
(* Theorems about Shutdown, for every number of servers, worker type, set of *)
(* responsive servers and bound.  What is proved of Registration is carried  *)
(* over: a step of the stopping worker is a step of its routing.             *)
EXTENDS Shutdown, RegistrationProofs

-----------------------------------------------------------------------------
(* The inductive invariant.                                                *)

\* Nothing is left for the tracker of server i, and nothing for its payload.
TrackerDone(i) == call[i] = "none" /\ trackerq[i] = <<>>
Done(i) == TrackerDone(i) /\ payloadq[i] = <<>> /\ owed[i] = 0

\* The servers are destroyed after the event loop has ended, each in the order
\* tracker, payload, stream; the last of them closes the context.  No slot waits
\* then, so Process queues no more pushes.
Closing ==
  /\ main = "stopped" => busy = "free"
  /\ phase = "context" => destroyed = Ncs
  /\ phase \in {"tracker", "payload", "stream", "context"} \/ destroyed # {}
       => main = "stopped"
  /\ phase = "open" => destroyed # Ncs
  /\ phase = "payload" => TrackerDone(victim)
  /\ phase = "stream" => Done(victim)
  /\ \A i \in destroyed : Done(i)

StopInv == IInv /\ StopTypeOK /\ Closing /\ CrashOnlyUnregistered /\ PushesGoOut

-----------------------------------------------------------------------------
(* The steps.                                                              *)

\* A step of the stopping worker is a step of the routing, or none of its steps.
LEMMA StepRoutes == [StopNext]_allvars => [Next]_vars
<1> SUFFICES ASSUME [StopNext]_allvars PROVE Next \/ UNCHANGED vars
  OBVIOUS
<1>1. ASSUME MainRuns PROVE Next
  BY <1>1, Zenon DEF MainRuns, Next
<1>2. ASSUME NEW i \in Ncs, MainRunsCommand(i) PROVE Next
  BY <1>2, Zenon DEF MainRunsCommand, Next
<1>3. ASSUME NEW i \in Ncs, MainPushes(i) \/ JobThrows(i) PROVE Next
  BY <1>3, Zenon DEF MainPushes, JobThrows, Next
<1>4. ASSUME NEW i \in Ncs, ThreadsRun(i) PROVE Next
  BY <1>4, Zenon DEF ThreadsRun, Next
<1>5. ASSUME ChildEnds PROVE Next
  BY <1>5, Zenon DEF ChildEnds, Next
<1>6. ASSUME HandleSignal PROVE Next \/ UNCHANGED vars
  BY <1>6, Zenon DEF HandleSignal, Next
<1>7. ASSUME \/ CommandEnds \/ ChildAsksFile \/ TransferEnds \/ TrackerEnds
             \/ PayloadEnds \/ StreamEnds \/ ContextClosed
             \/ \E i \in Ncs : PayloadPushes(i) \/ Deliver(i) \/ CloseServer(i)
             \/ \E kind \in {"SIGINT", "SIGTERM"} : Signal(kind)
      PROVE  UNCHANGED vars
  BY <1>7 DEF CommandEnds, ChildAsksFile, TransferEnds, TrackerEnds, PayloadEnds,
              StreamEnds, ContextClosed, PayloadPushes, Deliver, CloseServer, Signal,
              Enters
<1>8. ASSUME UNCHANGED allvars PROVE UNCHANGED vars
  BY <1>8 DEF allvars
<1> QED
  BY <1>1, <1>2, <1>3, <1>4, <1>5, <1>6, <1>7, <1>8, Zenon DEF StopNext

\* The actions that go on with the destructor, or end the process.
Closes ==
  \/ \E i \in Ncs : CloseServer(i) \/ JobThrows(i)
  \/ TrackerEnds \/ PayloadEnds \/ StreamEnds \/ ContextClosed
  \/ \E kind \in {"SIGINT", "SIGTERM"} : Signal(kind)

\* No other step touches the destructor, and none is taken once the process ended.
LEMMA OtherSteps ==
  ASSUME [StopNext]_allvars, ~Closes
  PROVE  /\ UNCHANGED <<phase, victim, destroyed>>
         /\ Ended => UNCHANGED <<vars, asked, pushvars>>
BY DEF StopNext, Closes, MainRuns, MainRunsCommand, CommandEnds, MainPushes,
       ChildAsksFile, TransferEnds, ThreadsRun, PayloadPushes, ChildEnds, Deliver,
       HandleSignal, Free, Ended, allvars, stopvars

\* While the destructor runs no slot begins to wait, and Process queues no push.
LEMMA OwedStays ==
  ASSUME StopTypeOK, main = "stopped", busy = "free", [StopNext]_allvars, ~Closes
  PROVE  busy' = "free" /\ \A i \in Ncs : owed[i] = 0 => owed'[i] = 0
<1> USE DEF StopTypeOK
<1>1. /\ ~Looping /\ ~HandleSignal /\ ~ChildAsksFile
      /\ \A j \in Ncs : ~MainRunsCommand(j) /\ ~MainPushes(j)
  BY DEF Looping, HandleSignal, ChildAsksFile, MainRunsCommand, MainPushes, ProcessJob,
         ServiceJob, ChildOutput, Dequeue
<1>2. ~CommandEnds /\ ~TransferEnds
  BY DEF CommandEnds, TransferEnds
<1>3. ASSUME NEW j \in Ncs, PayloadPushes(j) PROVE busy' = "free" /\ \A i \in Ncs : owed[i] = 0 => owed'[i] = 0
  BY <1>3 DEF PayloadPushes
<1>4. ASSUME \/ MainRuns \/ ChildEnds \/ UNCHANGED allvars
             \/ \E j \in Ncs : ThreadsRun(j) \/ Deliver(j)
      PROVE  busy' = "free" /\ \A i \in Ncs : owed[i] = 0 => owed'[i] = 0
  BY <1>4 DEF MainRuns, ChildEnds, ThreadsRun, Deliver, allvars, stopvars, pushvars
<1> QED
  BY <1>1, <1>2, <1>3, <1>4, Zenon DEF StopNext, Closes

\* No slot waits when the event loop ends.
LEMMA StopsFree ==
  ASSUME [StopNext]_allvars, ~Closes, main # "stopped", main' = "stopped"
  PROVE  busy' = "free"
<1>1. ~(UNCHANGED main)
  OBVIOUS
<1>2. ASSUME MainRuns \/ HandleSignal PROVE busy' = "free"
  BY <1>2 DEF MainRuns, HandleSignal, Free, stopvars
<1>3. ASSUME \/ CommandEnds \/ ChildAsksFile \/ TransferEnds \/ ChildEnds
             \/ UNCHANGED allvars
             \/ \E i \in Ncs : \/ MainRunsCommand(i) \/ MainPushes(i) \/ ThreadsRun(i)
                               \/ PayloadPushes(i) \/ Deliver(i)
      PROVE  UNCHANGED main
  BY <1>3 DEF CommandEnds, ChildAsksFile, TransferEnds, ChildEnds, ChildDies, allvars,
     vars, MainRunsCommand, ProcessJob, MainPushes, ServiceJob, ChildOutput, ThreadsRun,
     TrackerSend, AnswerStatus, AnswerGrant, Grant, PayloadInit, JobArrives,
     PayloadPushes, Deliver
<1> QED
  BY <1>1, <1>2, <1>3, Zenon DEF StopNext, Closes

\* The loop over, what a tracker and a payload have done stays done.
LEMMA DoneStays ==
  ASSUME TypeOK, main = "stopped", [Next]_vars, NEW i \in Ncs, TrackerDone(i)
  PROVE  TrackerDone(i)' /\ (payloadq[i] = <<>> => payloadq'[i] = <<>>)
<1> USE DEF TypeOK, TrackerDone
<1>1. ASSUME NEW j \in Ncs, TrackerSend(j) \/ AnswerStatus(j) \/ AnswerGrant(j)
      PROVE  j # i
  BY <1>1 DEF TrackerSend, AnswerStatus, AnswerGrant, Registers
<1>2. ASSUME NEW j \in Ncs, TrackerSend(j) \/ AnswerStatus(j) \/ AnswerGrant(j)
      PROVE  call'[i] = call[i] /\ trackerq'[i] = trackerq[i] /\ payloadq'[i] = payloadq[i]
  BY <1>1, <1>2 DEF TrackerSend, AnswerStatus, AnswerGrant, Grant, payloadvars
<1>3. ASSUME NEW j \in Ncs, PayloadInit(j)
      PROVE  UNCHANGED <<call, trackerq>> /\ (payloadq[i] = <<>> => payloadq'[i] = <<>>)
  BY <1>3 DEF PayloadInit, trackervars
<1>4. ~Construct /\ ~Boot /\ ~ServiceWatchdog /\ \A j \in Ncs : ~ProcessWatchdog(j)
  BY DEF Construct, Boot, ServiceWatchdog, ProcessWatchdog, Looping
<1>5. ASSUME \A j \in Ncs : ~TrackerSend(j) /\ ~AnswerStatus(j) /\ ~AnswerGrant(j)
                             /\ ~PayloadInit(j)
      PROVE  UNCHANGED <<call, trackerq, payloadq>>
  BY <1>4, <1>5 DEF Next, vars, trackervars, payloadvars, ConnectService, JobArrives,
     Launch, Dequeue, ServiceJob, ProcessJob, ChildOutput, ChildDies, Quit, LoopEnds
<1> QED
  BY <1>2, <1>3, <1>5

LEMMA StoppedStays ==
  ASSUME main = "stopped", [Next]_vars PROVE main' = "stopped"
BY DEF Next, vars, Construct, ConnectService, Boot, Looping, Beat, ServiceWatchdog,
       ProcessWatchdog, TrackerSend, AnswerStatus, AnswerGrant, Grant, PayloadInit,
       JobArrives, Launch, Dequeue, ServiceJob, ProcessJob, ChildOutput, ChildDies,
       Quit, LoopEnds

-----------------------------------------------------------------------------
(* The invariant is inductive.                                             *)

LEMMA StopTypeInit == StopInit => StopTypeOK
<1>1. 0 \in Ncs
  BY ConstantsAssumption DEF Ncs
<1>2. 0 \in 0 .. MaxSignals
  BY SignalsAssumption
<1>3. [i \in Ncs |-> 0] \in [Ncs -> Nat]
  OBVIOUS
<1>4. StopInit => oneshot \in BOOLEAN
  BY Zenon DEF StopInit
<1> QED
  BY <1>1, <1>2, <1>3, <1>4 DEF StopInit, StopTypeOK

LEMMA StopTypeStep == StopTypeOK /\ [StopNext]_allvars => StopTypeOK'
<1> SUFFICES ASSUME StopTypeOK, [StopNext]_allvars PROVE StopTypeOK'
  OBVIOUS
<1> USE DEF StopTypeOK, stopvars, pushvars
<1>1. ASSUME MainRuns PROVE StopTypeOK'
  BY <1>1 DEF MainRuns
<1>2. ASSUME NEW i \in Ncs, MainRunsCommand(i) PROVE StopTypeOK'
  BY <1>2 DEF MainRunsCommand, Owes
<1>3. ASSUME NEW i \in Ncs, MainPushes(i) \/ JobThrows(i) PROVE StopTypeOK'
  BY <1>3 DEF MainPushes, JobThrows
<1>4. ASSUME NEW i \in Ncs, ThreadsRun(i) PROVE StopTypeOK'
  BY <1>4 DEF ThreadsRun
<1>5. ASSUME NEW i \in Ncs, Deliver(i) PROVE StopTypeOK'
  BY <1>5 DEF Deliver
<1>6. ASSUME NEW i \in Ncs, CloseServer(i) PROVE StopTypeOK'
  BY <1>6 DEF CloseServer, Enters
<1>7. ASSUME NEW kind \in {"SIGINT", "SIGTERM"}, Signal(kind) PROVE StopTypeOK'
  <2>1. signals' \in 0 .. MaxSignals
    BY <1>7, SignalsAssumption DEF Signal
  <2>2. termed' \in BOOLEAN /\ asked' \in BOOLEAN
    BY <1>7, Zenon DEF Signal
  <2>3. phase' \in {phase, "over", "aborted"}
    BY <1>7 DEF Signal
  <2>4. UNCHANGED <<oneshot, busy, victim, destroyed, runner, owed, unsent>>
    BY <1>7 DEF Signal
  <2> QED
    BY <2>1, <2>2, <2>3, <2>4
<1>8. ASSUME ChildAsksFile \/ TransferEnds \/ ChildEnds \/ HandleSignal
      PROVE  StopTypeOK'
  BY <1>8 DEF ChildAsksFile, TransferEnds, ChildEnds, HandleSignal
<1>9. ASSUME TrackerEnds \/ PayloadEnds \/ StreamEnds \/ ContextClosed PROVE StopTypeOK'
  BY <1>9 DEF TrackerEnds, PayloadEnds, StreamEnds, ContextClosed, Enters
<1>10. ASSUME UNCHANGED allvars PROVE StopTypeOK'
  BY <1>10 DEF allvars
<1>11. ASSUME CommandEnds PROVE StopTypeOK'
  BY <1>11 DEF CommandEnds, Owes
<1>12. ASSUME NEW i \in Ncs, PayloadPushes(i) PROVE StopTypeOK'
  BY <1>12 DEF PayloadPushes
<1> QED
  BY <1>1, <1>2, <1>3, <1>4, <1>5, <1>6, <1>7, <1>8, <1>9, <1>10, <1>11, <1>12, Zenon
  DEF StopNext

LEMMA ClosingStep ==
  StopInv /\ [StopNext]_allvars => Closing' /\ CrashOnlyUnregistered' /\ PushesGoOut'
<1> SUFFICES ASSUME StopInv, [StopNext]_allvars
             PROVE  Closing' /\ CrashOnlyUnregistered' /\ PushesGoOut'
  OBVIOUS
<1>1. TypeOK /\ StopTypeOK /\ Closing /\ CrashOnlyUnregistered /\ PushesGoOut
  BY DEF StopInv, IInv
<1>2. [Next]_vars
  BY StepRoutes
<1>3. ASSUME ~Closes PROVE Closing' /\ CrashOnlyUnregistered' /\ PushesGoOut'
  <2>1. /\ UNCHANGED <<phase, victim, destroyed>>
        /\ Ended => UNCHANGED <<vars, asked, pushvars>>
    BY <1>3, OtherSteps
  <2>2. main = "stopped" => main' = "stopped"
    BY <1>2, StoppedStays
  <2>3. ASSUME NEW i \in Ncs, main = "stopped", TrackerDone(i)
        PROVE  TrackerDone(i)' /\ (payloadq[i] = <<>> => payloadq'[i] = <<>>)
    BY <1>1, <1>2, <2>3, DoneStays
  <2>4. victim \in Ncs /\ destroyed \subseteq Ncs
    BY <1>1 DEF StopTypeOK
  <2>5. /\ phase \in {"tracker", "payload", "stream", "context"} \/ destroyed # {}
             => main = "stopped"
        /\ main = "stopped" => busy = "free"
    BY <1>1 DEF Closing
  <2>6. ASSUME NEW i \in Ncs, main = "stopped", owed[i] = 0 PROVE owed'[i] = 0
    BY <1>1, <1>3, <2>5, <2>6, OwedStays
  <2>7. phase' = "payload" => TrackerDone(victim)'
    BY <1>1, <2>1, <2>3, <2>4, <2>5 DEF Closing, TrackerDone
  <2>8. ASSUME NEW i \in Ncs, main = "stopped", Done(i) PROVE Done(i)'
    BY <2>3, <2>6, <2>8 DEF Done
  <2>9. phase' = "stream" => Done(victim)'
    BY <1>1, <2>1, <2>4, <2>5, <2>8 DEF Closing, Done, TrackerDone
  <2>10. ASSUME NEW i \in destroyed' PROVE Done(i)'
    BY <1>1, <2>1, <2>4, <2>5, <2>8, <2>10 DEF Closing
  <2>11. main' = "stopped" => busy' = "free"
    <3>1. CASE main = "stopped"
      BY <1>1, <1>3, <2>5, <3>1, OwedStays
    <3>2. CASE main # "stopped"
      BY <1>3, <3>2, StopsFree
    <3> QED
      BY <3>1, <3>2
  <2>12. Closing'
    BY <1>1, <2>1, <2>2, <2>5, <2>7, <2>9, <2>10, <2>11 DEF Closing
  <2>13. CrashOnlyUnregistered'
    BY <1>1, <2>1 DEF CrashOnlyUnregistered, Ended, vars, trackervars
  <2>14. PushesGoOut'
    BY <1>1, <2>1 DEF PushesGoOut, Ended, pushvars
  <2> QED
    BY <2>12, <2>13, <2>14
<1>4. ASSUME Closes, \A i \in Ncs : ~JobThrows(i) PROVE UNCHANGED <<vars, pushvars, busy>>
  BY <1>4 DEF Closes, CloseServer, TrackerEnds, PayloadEnds, StreamEnds, ContextClosed,
              Signal, Enters
<1>5. ASSUME UNCHANGED <<vars, pushvars, busy>>
      PROVE  UNCHANGED <<main, call, trackerq, payloadq, granted, owed, unsent, busy>>
  BY <1>5 DEF vars, trackervars, payloadvars, pushvars
<1>6. ASSUME NEW i \in Ncs, JobThrows(i)
      PROVE  Closing' /\ CrashOnlyUnregistered' /\ PushesGoOut'
  <2>1. /\ UNCHANGED <<main, call, trackerq, payloadq, granted, owed, busy, victim, destroyed>>
        /\ main # "stopped" /\ phase' = "aborted"
    BY <1>6 DEF JobThrows, ServiceJob, Dequeue, Looping, trackervars, payloadvars
  <2> QED
    BY <1>1, <2>1 DEF Closing, Done, TrackerDone, CrashOnlyUnregistered, PushesGoOut
<1> SUFFICES ASSUME Closes, \A i \in Ncs : ~JobThrows(i)
             PROVE  Closing' /\ CrashOnlyUnregistered' /\ PushesGoOut'
  BY <1>3, <1>6
<1>7. UNCHANGED <<main, call, trackerq, payloadq, granted, owed, unsent, busy>>
  BY <1>4, <1>5
<1> USE DEF Closing, Done, TrackerDone, CrashOnlyUnregistered, PushesGoOut
<1>8. ASSUME NEW i \in Ncs, CloseServer(i)
      PROVE  Closing' /\ CrashOnlyUnregistered' /\ PushesGoOut'
  BY <1>1, <1>7, <1>8 DEF CloseServer, Enters
<1>9. ASSUME TrackerEnds PROVE Closing' /\ CrashOnlyUnregistered' /\ PushesGoOut'
  BY <1>1, <1>7, <1>9 DEF TrackerEnds, Enters
<1>10. ASSUME PayloadEnds PROVE Closing' /\ CrashOnlyUnregistered' /\ PushesGoOut'
  <2>1. Closing' /\ PushesGoOut'
    BY <1>1, <1>7, <1>10 DEF PayloadEnds, Enters
  <2>2. ASSUME receivers[victim] = <<>>, payloadq[victim] = <<>> PROVE granted[victim] = 0
    <3>1. victim \in Ncs /\ Len(receivers[victim]) + Len(payloadq[victim]) = granted[victim]
      BY <1>1 DEF StopInv, IInv, Receiving, StopTypeOK
    <3> QED
      BY <2>2, <3>1
  <2>3. CrashOnlyUnregistered'
    BY <1>7, <1>10, <2>2 DEF PayloadEnds, Enters
  <2> QED
    BY <2>1, <2>3
<1>11. ASSUME StreamEnds PROVE Closing' /\ CrashOnlyUnregistered' /\ PushesGoOut'
  BY <1>1, <1>7, <1>11 DEF StreamEnds, Enters, StopTypeOK
<1>12. ASSUME ContextClosed PROVE Closing' /\ CrashOnlyUnregistered' /\ PushesGoOut'
  BY <1>1, <1>7, <1>12 DEF ContextClosed, Enters
<1>13. ASSUME NEW kind \in {"SIGINT", "SIGTERM"}, Signal(kind)
       PROVE  Closing' /\ CrashOnlyUnregistered' /\ PushesGoOut'
  <2>1. /\ UNCHANGED <<victim, destroyed>>
        /\ phase' \in {phase, "over", "aborted"}
        /\ phase' = "over" => asked'
    BY <1>13 DEF Signal, Ended
  <2> QED
    BY <1>1, <1>7, <1>13, <2>1
<1> QED
  BY <1>8, <1>9, <1>10, <1>11, <1>12, <1>13 DEF Closes

LEMMA StopInvariance == StopSpec => []StopInv
<1>0. 0 \in Ncs
  BY ConstantsAssumption DEF Ncs
<1>1. StopInit => StopInv
  BY <1>0, InvInit, StopTypeInit
  DEF StopInit, StopInv, Closing, CrashOnlyUnregistered, PushesGoOut, Init
<1>2. StopInv /\ [StopNext]_allvars => StopInv'
  BY InvStep, StepRoutes, StopTypeStep, ClosingStep DEF StopInv
<1> QED
  BY <1>1, <1>2, PTL DEF StopSpec

-----------------------------------------------------------------------------
(* The theorems.                                                           *)

\* The phases of the destructor, the signals, the pushes and what holds the main
\* thread keep to the values the code knows, and so does the routing around them.
THEOREM StopTypeCorrect == StopSpec => [](TypeOK /\ StopTypeOK)
<1>1. StopInv => TypeOK /\ StopTypeOK
  BY DEF StopInv, IInv
<1> QED
  BY <1>1, StopInvariance, PTL

\* Whatever is pushed, by Service or through a queue by Process, and whenever the
\* worker is told to stop, it is sent before the worker is over, unless a signal that
\* no event loop reads any more ends the wait for it.
THEOREM PushesGoOutAlways == StopSpec => []PushesGoOut
BY StopInvariance, PTL DEF StopInv

\* ~Zpayload closes unset sockets only for a server that never granted a
\* registration.
THEOREM CrashOnlyUnregisteredAlways == StopSpec => []CrashOnlyUnregistered
BY StopInvariance, PTL DEF StopInv

\* A server whose destructor is past its payload thread has no request, no queued
\* call and no blocked tracker left, and gets none.
THEOREM NothingLeftBehindAlways == StopSpec => []NothingLeftBehind
<1>1. StopInv => NothingLeftBehind
  BY DEF StopInv, Closing, Done, TrackerDone, NothingLeftBehind, ThreadDone
<1> QED
  BY <1>1, StopInvariance, PTL

\* A worker that was told to stop, that has not ended and that nothing holds has a
\* next step, its own or a responsive server's.  In service mode the context finds
\* no socket left open, because init_payload has run at most once for a server.
THEOREM NothingElseHoldsAlways == StopSpec => []NothingElseHolds
<1>1. ASSUME StopInv PROVE NothingElseHolds
  <2> SUFFICES ASSUME Stopping, ~Ended, ~Held PROVE GoesOn
    BY DEF NothingElseHolds
  <2>1. TypeOK /\ BootOrder /\ StopTypeOK /\ Closing
    BY <1>1 DEF StopInv, IInv
  <2>2. phase \in {"open", "tracker", "payload", "stream", "context"}
    BY <2>1 DEF StopTypeOK, Ended
  <2>3. CASE phase = "open"
    <3>1. main \in {"boot", "loop", "exiting", "stopped"} /\ (main = "loop" => asked)
      BY <2>1 DEF TypeOK, Stopping
    <3>2. destroyed # Ncs /\ connected <= constructed
      BY <2>1, <2>3 DEF Closing, BootOrder
    <3> QED
      BY <2>3, <3>1, <3>2 DEF GoesOn
  <2>4. CASE phase = "tracker"
    BY <2>4 DEF GoesOn, Held
  <2>5. CASE phase \in {"payload", "stream"}
    BY <2>5 DEF GoesOn
  <2>6. CASE phase = "context"
    <3>1. unsent \subseteq Responsive
      BY <2>6 DEF Held
    <3>2. Leaked = {}
      <4>1. CASE WorkerType = "process"
        BY <2>6, <4>1 DEF Held
      <4>2. CASE WorkerType # "process"
        <5>1. \A i \in Ncs : Len(receivers[i]) <= 1
          BY <1>1, <4>2, ReceiversCounted DEF StopInv, ReceiverPerRegister
        <5>2. \A i \in Ncs : Len(receivers[i]) \in Nat
          BY <2>1 DEF TypeOK
        <5> QED
          BY <5>1, <5>2 DEF Leaked
      <4> QED
        BY <4>1, <4>2
    <3> QED
      BY <2>6, <3>1, <3>2 DEF GoesOn
  <2> QED
    BY <2>2, <2>3, <2>4, <2>5, <2>6
<1> QED
  BY <1>1, StopInvariance, PTL

\* While the worker stops, some servers destroyed and others not, it keeps what
\* its routing promises: pushes have a target, a job finds its child launched, and
\* watchdogs name the last uuid of their server.
THEOREM RoutingKeptToTheEnd ==
  StopSpec => [](/\ PushHasTarget /\ SingleServerSafe /\ JobAfterLaunch
                 /\ ReceiverPerRegister /\ WatchdogIdentifies)
<1>1. StopInv => /\ PushHasTarget /\ SingleServerSafe /\ JobAfterLaunch
                 /\ ReceiverPerRegister /\ WatchdogIdentifies
  BY LaunchComesFirst, ReceiversCounted, WatchdogsComeLast DEF StopInv, IInv
<1> QED
  BY <1>1, StopInvariance, PTL

=============================================================================
