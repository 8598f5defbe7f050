---------------------------- MODULE Registration ----------------------------
(***************************************************************************)
(* Start-up of the worker and routing between its threads (zeromq.cpp,     *)
(* service.cpp).  The main thread runs the constructor of Zdispatcher and  *)
(* then the Qt event loop.  Every server of --ncs-ip gets a Zeromq object  *)
(* with a tracker thread (a REQ socket: registration and watchdogs) and a  *)
(* payload thread (jobs in, results out).  The threads talk through queued *)
(* signals: trackerq[i] and payloadq[i] are the event queues of the two    *)
(* threads of server i, mainq is the queue of the main thread.             *)
(*                                                                         *)
(* A queued call is named by what it carries.  A uuid is the rank of the   *)
(* registration it was granted for; 0 is the empty m_uuid.                 *)
(***************************************************************************)
EXTENDS Naturals, Sequences

CONSTANTS
  N,           \* number of servers in --ncs-ip (ncs_number)
  WorkerType,  \* --worker-type
  Responsive,  \* the servers that answer every request
  MaxJobs,     \* bound: jobs the servers send
  MaxBeats     \* bound: expiries of the watchdog timers

ASSUME ConstantsAssumption ==
  /\ N \in Nat \ {0}
  /\ WorkerType \in {"service", "process"}
  /\ Responsive \subseteq 0 .. N-1
  /\ MaxJobs \in Nat
  /\ MaxBeats \in Nat

Ncs == 0 .. N-1

VARIABLES
  main,        \* "boot", "loop", "exiting" (after qApp->exit) or "stopped"
  constructed, \* Zeromq objects built so far (ncs_counter)
  connected,   \* Zeromq objects whose signals reach the Service
  trackerq,    \* queued push_tracker calls, by action field
  call,        \* the request tracker thread i is blocked on, or "none"
  m_uuid,      \* m_uuid of Ztracker i
  granted,     \* registrations server i has granted
  payloadq,    \* queued init_payload calls, by uuid
  receivers,   \* the PULL sockets init_payload has opened; the last is m_receiver
  stranded,    \* jobs delivered to a socket m_receiver no longer names
  mainq,       \* queued slots of the main thread
  child,       \* child_process: "none", "running", "failed" or "dead"
  launches,    \* runs of Service::launch = connections of its stdout slot
  fault,       \* a push went through an m_message that is not allocated
  jobs, beats  \* what the bounds count

trackervars == <<trackerq, call, m_uuid, granted>>
payloadvars == <<payloadq, receivers, stranded>>
servicevars == <<child, launches, fault>>
vars == <<main, constructed, connected, trackervars, payloadvars, mainq,
          servicevars, jobs, beats>>

Registers == {"worker", "service"}
Calls == Registers \cup {"watchdog"}
Slots == {"launch", "service_job", "process_job"}
Looping == main \in {"loop", "exiting"}

TypeOK ==
  /\ main \in {"boot", "loop", "exiting", "stopped"}
  /\ constructed \in 0 .. N
  /\ connected \in 0 .. N
  /\ trackerq \in [Ncs -> Seq(Calls)]
  /\ call \in [Ncs -> Calls \cup {"none", "ping"}]
  /\ m_uuid \in [Ncs -> Nat]
  /\ granted \in [Ncs -> Nat]
  /\ payloadq \in [Ncs -> Seq(Nat \ {0})]
  /\ receivers \in [Ncs -> Seq(Nat \ {0})]
  /\ stranded \in [Ncs -> Nat]
  /\ mainq \in Seq(Slots)
  /\ child \in {"none", "running", "failed", "dead"}
  /\ launches \in Nat
  /\ fault \in BOOLEAN
  /\ jobs \in 0 .. MaxJobs
  /\ beats \in 0 .. MaxBeats

Init ==
  /\ main = "boot" /\ constructed = 0 /\ connected = 0
  /\ trackerq = [i \in Ncs |-> <<>>]
  /\ call = [i \in Ncs |-> "none"]
  /\ m_uuid = [i \in Ncs |-> 0]
  /\ granted = [i \in Ncs |-> 0]
  /\ payloadq = [i \in Ncs |-> <<>>]
  /\ receivers = [i \in Ncs |-> <<>>]
  /\ stranded = [i \in Ncs |-> 0]
  /\ mainq = <<>>
  /\ child = "none" /\ launches = 0 /\ fault = FALSE
  /\ jobs = 0 /\ beats = 0

-----------------------------------------------------------------------------
(* The main thread in the constructor of Zdispatcher.                      *)

\* The register request that Process::init queues from the Zeromq constructor.
EarlyRegister == IF WorkerType = "process" THEN <<"worker">> ELSE <<>>

\* Mutant: the tracker runs in the main thread, so a ping holds the constructor up.
ConstructBlocking ==
  /\ main = "boot" /\ connected = constructed /\ constructed < N
  /\ \A i \in Ncs : call[i] = "none"
  /\ call' = [call EXCEPT ![constructed] = "ping"]
  /\ trackerq' = [trackerq EXCEPT ![constructed] = EarlyRegister]
  /\ constructed' = constructed + 1
  /\ UNCHANGED <<main, connected, m_uuid, granted, payloadvars, mainq,
                 servicevars, jobs, beats>>

\* Mutant: the service registers before its signals are connected.
ConstructRegisters ==
  /\ main = "boot" /\ connected = constructed /\ constructed < N
  /\ call' = [call EXCEPT ![constructed] = "ping"]
  /\ trackerq' = [trackerq EXCEPT ![constructed] = <<"service">>]
  /\ constructed' = constructed + 1
  /\ UNCHANGED <<main, connected, m_uuid, granted, payloadvars, mainq,
                 servicevars, jobs, beats>>

\* new Zeromq: the tracker thread starts in Ztracker::init, blocked on its ping.
Construct ==
  /\ main = "boot" /\ connected = constructed /\ constructed < N
  /\ call' = [call EXCEPT ![constructed] = "ping"]
  /\ trackerq' = [trackerq EXCEPT ![constructed] = EarlyRegister]
  /\ constructed' = constructed + 1
  /\ UNCHANGED <<main, connected, m_uuid, granted, payloadvars, mainq,
                 servicevars, jobs, beats>>

\* The connect calls that follow it: until then emit_launch_worker and
\* emit_payload of this server reach no slot of the Service.
ConnectService ==
  /\ connected < constructed
  /\ connected' = connected + 1
  /\ UNCHANGED <<main, constructed, trackervars, payloadvars, mainq,
                 servicevars, jobs, beats>>

\* Mutant: Service::init also starts the child, as its disabled code did.
BootLaunches ==
  /\ main = "boot" /\ connected = N
  /\ trackerq' = [i \in Ncs |-> Append(trackerq[i], "service")]
  /\ mainq' = Append(mainq, "launch")
  /\ main' = "loop"
  /\ UNCHANGED <<constructed, connected, call, m_uuid, granted, payloadvars,
                 servicevars, jobs, beats>>

\* Service::init broadcasts a register request whatever the worker type, and
\* main enters exec().
Boot ==
  /\ main = "boot" /\ connected = N
  /\ trackerq' = [i \in Ncs |-> Append(trackerq[i], "service")]
  /\ main' = "loop"
  /\ UNCHANGED <<constructed, connected, call, m_uuid, granted, payloadvars,
                 mainq, servicevars, jobs, beats>>

-----------------------------------------------------------------------------
(* The tracker threads and the servers' answers.                           *)

Beat(targets) ==
  /\ beats < MaxBeats
  /\ beats' = beats + 1
  /\ trackerq' = [i \in Ncs |-> IF i \in targets
                                THEN Append(trackerq[i], "watchdog")
                                ELSE trackerq[i]]
  /\ UNCHANGED <<main, constructed, connected, call, m_uuid, granted,
                 payloadvars, mainq, servicevars, jobs>>

\* Mutant: the timer runs while the servers are still being constructed.
ServiceWatchdogAnyTime == Beat(0 .. constructed - 1)

\* Service::watchdog is connected to every tracker, Process::watchdog to its own.
ServiceWatchdog == Looping /\ Beat(Ncs)
ProcessWatchdog(i) == WorkerType = "process" /\ Looping /\ Beat({i})

\* push_tracker up to its recv: the thread blocks with the request sent.
TrackerSend(i) ==
  /\ call[i] = "none" /\ trackerq[i] # <<>>
  /\ call' = [call EXCEPT ![i] = Head(trackerq[i])]
  /\ trackerq' = [trackerq EXCEPT ![i] = Tail(@)]
  /\ UNCHANGED <<main, constructed, connected, m_uuid, granted, payloadvars,
                 mainq, servicevars, jobs, beats>>

\* The reply is a status: to a ping, to a watchdog or to a refused registration.
AnswerStatus(i) ==
  /\ call[i] # "none"
  /\ call' = [call EXCEPT ![i] = "none"]
  /\ UNCHANGED <<main, constructed, connected, trackerq, m_uuid, granted,
                 payloadvars, mainq, servicevars, jobs, beats>>

\* The reply grants a uuid and a port: push_tracker stores the uuid and emits
\* worker_port to the payload thread.
Grant(i) ==
  /\ granted' = [granted EXCEPT ![i] = @ + 1]
  /\ m_uuid' = [m_uuid EXCEPT ![i] = granted[i] + 1]
  /\ payloadq' = [payloadq EXCEPT ![i] = Append(@, granted[i] + 1)]
  /\ call' = [call EXCEPT ![i] = "none"]
  /\ UNCHANGED <<main, constructed, connected, trackerq, receivers, stranded,
                 mainq, servicevars, jobs, beats>>

\* Mutant: any reply is taken for a grant.
AnswerGrantAlways(i) == call[i] # "none" /\ granted[i] < 3 /\ Grant(i)

AnswerGrant(i) == call[i] \in Registers /\ Grant(i)

-----------------------------------------------------------------------------
(* The payload threads.                                                    *)

Emit(i, slot) == IF i < connected THEN Append(mainq, slot) ELSE mainq

\* init_payload replaces m_message, m_receiver and the pubsub socket with new
\* ones (the old ones are never closed), then emits emit_launch_worker.
PayloadInit(i) ==
  /\ payloadq[i] # <<>>
  /\ receivers' = [receivers EXCEPT ![i] = Append(@, Head(payloadq[i]))]
  /\ payloadq' = [payloadq EXCEPT ![i] = Tail(@)]
  /\ mainq' = Emit(i, "launch")
  /\ UNCHANGED <<main, constructed, connected, trackervars, stranded,
                 servicevars, jobs, beats>>

\* The server pushes a job to the k-th receiver of its worker; receive_payload
\* only reads the last.  emit_payload reaches the Process of the server (in
\* process mode) and the Service.
JobArrives(i, k) ==
  /\ k \in DOMAIN receivers[i] /\ jobs < MaxJobs
  /\ jobs' = jobs + 1
  /\ IF k = Len(receivers[i])
     THEN /\ mainq' = (IF WorkerType = "process"
                       THEN Append(mainq, "process_job") ELSE mainq)
                      \o (IF i < connected THEN <<"service_job">> ELSE <<>>)
          /\ UNCHANGED stranded
     ELSE /\ stranded' = [stranded EXCEPT ![i] = @ + 1]
          /\ UNCHANGED mainq
  /\ UNCHANGED <<main, constructed, connected, trackervars, payloadq,
                 receivers, servicevars, beats>>

-----------------------------------------------------------------------------
(* The main thread in its event loop.                                      *)

Dequeue(slot) ==
  /\ Looping /\ mainq # <<>> /\ Head(mainq) = slot
  /\ mainq' = Tail(mainq)

\* Zdispatcher::push_payload calls Zpayload::push_payload of a random server i:
\* its m_message is an unset pointer until init_payload has run.
Push(i) == fault' = (fault \/ receivers[i] = <<>>)

\* Service::launch.  QProcess refuses to start a child that is running;
\* waitForStarted then answers for the running one.  A child that does not
\* start ends the event loop, and the stdout slot is connected all the same.
Launch ==
  /\ Dequeue("launch")
  /\ launches' = launches + 1
  /\ \/ child' = "running" /\ UNCHANGED main
     \/ child # "running" /\ child' = "failed" /\ main' = "exiting"
  /\ UNCHANGED <<constructed, connected, trackervars, payloadvars, fault,
                 jobs, beats>>

\* Service::s_job_receive acknowledges the job with a push.
ServiceJob(i) ==
  /\ Dequeue("service_job")
  /\ Push(i)
  /\ UNCHANGED <<main, constructed, connected, trackervars, payloadvars,
                 child, launches, jobs, beats>>

\* Process::s_job_receive pushes through the payload thread the job came from.
ProcessJob ==
  /\ Dequeue("process_job")
  /\ UNCHANGED <<main, constructed, connected, trackervars, payloadvars,
                 servicevars, jobs, beats>>

\* Output of the child, perhaps its last: readyReadStandardOutput pushes it.
ChildOutput(i) ==
  /\ Looping /\ child \in {"running", "dead"}
  /\ Push(i)
  /\ UNCHANGED <<main, constructed, connected, trackervars, payloadvars, mainq,
                 child, launches, jobs, beats>>

ChildDies ==
  /\ child = "running"
  /\ child' = "dead"
  /\ UNCHANGED <<main, constructed, connected, trackervars, payloadvars, mainq,
                 launches, fault, jobs, beats>>

\* A signal handler has written to its socket pair: handleSigHup or handleSigTerm
\* tells the event loop to end.
Quit ==
  /\ main = "loop"
  /\ main' = "exiting"
  /\ UNCHANGED <<constructed, connected, trackervars, payloadvars, mainq,
                 servicevars, jobs, beats>>

\* exec() returns once the slots already queued may have run.
LoopEnds ==
  /\ main = "exiting"
  /\ main' = "stopped"
  /\ UNCHANGED <<constructed, connected, trackervars, payloadvars, mainq,
                 servicevars, jobs, beats>>

-----------------------------------------------------------------------------
Next ==
  \/ Construct \/ ConnectService \/ Boot
  \/ ServiceWatchdog
  \/ Launch \/ ProcessJob \/ ChildDies
  \/ Quit \/ LoopEnds
  \/ \E i \in Ncs :
       \/ ServiceJob(i) \/ ChildOutput(i)
       \/ ProcessWatchdog(i) \/ TrackerSend(i)
       \/ AnswerStatus(i) \/ AnswerGrant(i)
       \/ PayloadInit(i)
       \/ \E k \in DOMAIN receivers[i] : JobArrives(i, k)

\* The threads run; a responsive server answers.  Nothing makes a server send a
\* job, a child write, or a timer expire, and a job may block the main thread.
Fairness ==
  /\ WF_vars(Construct) /\ WF_vars(ConnectService) /\ WF_vars(Boot)
  /\ WF_vars(Launch)
  /\ \A i \in Ncs : WF_vars(TrackerSend(i)) /\ WF_vars(PayloadInit(i))
  /\ \A i \in Responsive : WF_vars(AnswerStatus(i) \/ AnswerGrant(i))

Spec == Init /\ [][Next]_vars /\ Fairness

-----------------------------------------------------------------------------
(* What is checked.                                                        *)

\* A result, an acknowledgement or a running child exists only once some server
\* has registered the worker, so Zdispatcher::push_payload has a server it can
\* push to (though it may pick another).
PushHasTarget ==
  (mainq # <<>> \/ launches > 0 \/ child # "none")
    => \E i \in Ncs : receivers[i] # <<>>

\* With a single --ncs-ip no push goes through the m_message that init_payload
\* has not allocated yet.
SingleServerSafe == N = 1 => ~fault

\* Service::launch sets m_service_name, m_node_uuid and m_node_password and
\* starts the child: in service mode it runs before the first job, because the
\* queue of the main thread keeps the order in which init_payload and
\* receive_payload emit.
JobAfterLaunch ==
  WorkerType = "service" =>
    (mainq # <<>> /\ Head(mainq) = "service_job" => launches > 0)

\* init_payload runs at most once per register request of a server: a service
\* worker opens one receiver, so no job goes to a socket it has stopped reading;
\* a process worker registers twice and can open two.
ReceiverPerRegister ==
  \A i \in Ncs :
    /\ Len(receivers[i]) <= IF WorkerType = "process" THEN 2 ELSE 1
    /\ stranded[i] > 0 => WorkerType = "process"

\* A watchdog is sent only after every registration of its tracker has been
\* answered, and names the last uuid the server granted.
WatchdogIdentifies ==
  \A i \in Ncs : call[i] = "watchdog" =>
    /\ m_uuid[i] = granted[i]
    /\ \A k \in DOMAIN trackerq[i] : trackerq[i][k] \notin Registers

\* The registration of a responsive server is answered even when the other
\* servers never answer: no thread waits on another server's tracker.
RegistrationCompletes ==
  \A i \in Responsive :
    <>(/\ main # "boot" /\ call[i] = "none"
       /\ \A k \in DOMAIN trackerq[i] : trackerq[i][k] \notin Registers)

\* One granted registration is enough to have the child launched, unless a signal
\* stops the worker first.
GrantLeadsToLaunch ==
  \A i \in Ncs : granted[i] > 0 ~> launches > 0 \/ main \in {"exiting", "stopped"}

\* README.md:57 and 63: a worker is launched with --worker-type=process, a service
\* with --worker-type=service.  A process worker starts no service child.
ProcessStartsNoService == WorkerType = "process" => child = "none"
=============================================================================
