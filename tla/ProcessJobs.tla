----------------------------- MODULE ProcessJobs -----------------------------
(***************************************************************************)
(* The jobs of a process worker with one server (process.cpp, and          *)
(* Zpayload::push_payload in zeromq.cpp).  receive_payload hands each job  *)
(* to two slots of the main thread: Process::s_job_receive, which runs the *)
(* command and waits for it, and then Service::s_job_receive, which        *)
(* acknowledges the job once more and may publish it or fetch a file; what *)
(* it writes to the service child, which a process worker also runs, comes *)
(* back as output.  Process pushes through the event queue of the payload  *)
(* thread, Service with a direct call: two threads push through one        *)
(* m_message and one socket, and no lock is taken.                         *)
(*                                                                         *)
(* Jobs are numbered as they arrive.  A result is the job whose command    *)
(* printed it; 0 is m_output, m_exitcode and m_exitstatus before any       *)
(* command has finished.                                                   *)
(***************************************************************************)
EXTENDS Naturals, Sequences

CONSTANTS
  MaxJobs,    \* bound: jobs the server sends
  MaxOutputs  \* bound: publications of Service, pushes of the child and transfers

ASSUME ConstantsAssumption == MaxJobs \in Nat /\ MaxOutputs \in Nat

Jobs == 1 .. MaxJobs
Threads == {"main", "payload"}

\* What push_payload is given: by whom, about which job, with which result.  Outputs
\* of the child are numbered as they are counted.
Pushes == [by : {"process", "service", "child"},
           action : {"receive", "publish", "terminate", "output"},
           job : Nat, result : 0 .. MaxJobs]
None == [by |-> "none"]

VARIABLES
  arrived,   \* jobs receive_payload has emitted
  ran,       \* jobs Process::s_job_receive has been called for
  acked,     \* jobs Service::s_job_receive has been called for
  waiting,   \* Process::s_job_receive is in waitForFinished
  stage,     \* what else the main thread is in: "job", Service::s_job_receive past
             \* its acknowledgement, "transfer", a get_stream, or "free"
  outputs,   \* what MaxOutputs counts
  m_output,  \* the job that process_finished was last called for
  payloadq,  \* queued push_payload calls of the payload thread
  pc,        \* how far each thread is in push_payload
  doing,     \* the push it makes there
  m_message, \* the thread that sized the message, and the push copied into it
  wire,      \* the pushes that have been sent whole on m_socket_worker
  dead,      \* the worker has crashed, or an exception has ended it
  ended,     \* history: the jobs whose command has finished
  made,      \* history: the pushes a thread has begun
  raced      \* history: the pushes made while the other thread made one

jobvars == <<arrived, ran, acked, waiting, m_output, ended>>
slotvars == <<stage, outputs>>
pushvars == <<pc, doing, m_message, wire, made, raced>>
vars == <<jobvars, slotvars, payloadq, pushvars, dead>>

\* A message that has no bytes of a push in it.
Empty == [sized |-> "none", data |-> None]

TypeOK ==
  /\ arrived \in 0 .. MaxJobs /\ ran \in 0 .. MaxJobs /\ acked \in 0 .. MaxJobs
  /\ waiting \in BOOLEAN /\ dead \in BOOLEAN
  /\ stage \in {"free", "job", "transfer"} /\ outputs \in 0 .. MaxOutputs
  /\ m_output \in 0 .. MaxJobs
  /\ payloadq \in Seq(Pushes)
  /\ pc \in [Threads -> {"idle", "copy", "send"}]
  /\ doing \in [Threads -> Pushes \cup {None}]
  /\ m_message \in [sized : Threads \cup {"none"}, data : Pushes \cup {None}]
  /\ wire \in Seq(Pushes)
  /\ ended \subseteq Jobs
  /\ made \subseteq Pushes /\ raced \subseteq Pushes

\* init_payload has run and the Service is connected.
Init ==
  /\ arrived = 0 /\ ran = 0 /\ acked = 0 /\ waiting = FALSE /\ m_output = 0
  /\ stage = "free" /\ outputs = 0
  /\ payloadq = <<>>
  /\ pc = [t \in Threads |-> "idle"]
  /\ doing = [t \in Threads |-> None]
  /\ m_message = Empty
  /\ wire = <<>>
  /\ dead = FALSE
  /\ ended = {} /\ made = {} /\ raced = {}

-----------------------------------------------------------------------------
(* Jobs and commands.                                                      *)

Receive(by, j) == [by |-> by, action |-> "receive", job |-> j, result |-> 0]
Terminate(j, r) == [by |-> "process", action |-> "terminate", job |-> j, result |-> r]
Publication(j) == [by |-> "service", action |-> "publish", job |-> j, result |-> 0]
Output(n) == [by |-> "child", action |-> "output", job |-> n, result |-> 0]

\* receive_payload runs in the event loop of the payload thread, where a push
\* does too.
JobArrives ==
  /\ ~dead /\ arrived < MaxJobs /\ pc["payload"] = "idle"
  /\ arrived' = arrived + 1
  /\ UNCHANGED <<ran, acked, waiting, m_output, ended, slotvars, payloadq, pushvars, dead>>

\* Mutant: Process does not wait for its command.
LoopingMeanwhile == ~dead /\ stage = "free" /\ pc["main"] = "idle"

\* The main thread is in its event loop and not in a slot.
Looping == ~dead /\ ~waiting /\ stage = "free" /\ pc["main"] = "idle"

\* Process::s_job_receive up to waitForFinished.  The queue of the main thread
\* holds the slots of the jobs in order, Process before Service.
RunCommand ==
  /\ Looping /\ ran = acked /\ ran < arrived
  /\ ran' = ran + 1
  /\ payloadq' = Append(payloadq, Receive("process", ran + 1))
  /\ waiting' = TRUE
  /\ UNCHANGED <<arrived, acked, m_output, ended, slotvars, pushvars, dead>>

\* waitForFinished returns and the job is reported with what is stored.
Report(result) ==
  /\ payloadq' = Append(payloadq, Terminate(ran, result))
  /\ waiting' = FALSE

\* Mutant: the finished slot runs from the event loop, after the report.
CommandEndsLate ==
  /\ ~dead /\ waiting
  /\ ended' = ended \cup {ran}
  /\ m_output' = ran
  /\ Report(m_output)
  /\ UNCHANGED <<arrived, ran, acked, slotvars, pushvars, dead>>

\* The command ends, normally or not: process_finished is called inside
\* waitForFinished and stores its output, exit code and exit status.
CommandEnds ==
  /\ ~dead /\ waiting
  /\ ended' = ended \cup {ran}
  /\ m_output' = ran
  /\ Report(ran)
  /\ UNCHANGED <<arrived, ran, acked, slotvars, pushvars, dead>>

\* Mutant: a command that does not start is not reported.
NotStartedReturns ==
  /\ ~dead /\ waiting
  /\ waiting' = FALSE
  /\ UNCHANGED <<arrived, ran, acked, m_output, ended, slotvars, payloadq, pushvars, dead>>

\* The command cannot be started: waitForFinished returns at once, the signal
\* finished is not emitted.
NotStarted ==
  /\ ~dead /\ waiting
  /\ Report(m_output)
  /\ UNCHANGED <<arrived, ran, acked, m_output, ended, slotvars, pushvars, dead>>

-----------------------------------------------------------------------------
(* Zpayload::push_payload, in either thread.                               *)

Other(t) == IF t = "main" THEN "payload" ELSE "main"
Pushing(t) == pc[t] # "idle"

\* What a thread that begins push p notes.
Begin(t, p) ==
  /\ pc' = [pc EXCEPT ![t] = "copy"]
  /\ doing' = [doing EXCEPT ![t] = p]
  /\ made' = made \cup {p}
  /\ raced' = IF Pushing(Other(t)) THEN raced \cup {p, doing[Other(t)]} ELSE raced
  /\ UNCHANGED wire

\* Mutant: the message is sized once and then used as it is.
EnterSizedOnce(t, p) ==
  /\ Begin(t, p)
  /\ m_message' = IF wire = <<>> THEN [sized |-> t, data |-> None] ELSE m_message

\* Up to rebuild, which frees the old bytes and allocates those of this push; what
\* comes before it is of this thread alone.
Enter(t, p) ==
  /\ Begin(t, p)
  /\ m_message' = [sized |-> t, data |-> None]

\* Service::s_job_receive up to the direct call of Zdispatcher::push_payload.
Acknowledge ==
  /\ Looping /\ acked < ran
  /\ acked' = acked + 1
  /\ stage' = "job"
  /\ Enter("main", Receive("service", acked + 1))
  /\ UNCHANGED <<arrived, ran, waiting, m_output, ended, outputs, payloadq, dead>>

\* The job is acknowledged, and the slot goes on with what its fields say.
Acknowledged == ~dead /\ stage = "job" /\ pc["main"] = "idle"

\* action is publish: a second push, and the slot returns.
Publish ==
  /\ Acknowledged /\ outputs < MaxOutputs
  /\ outputs' = outputs + 1
  /\ stage' = "free"
  /\ Enter("main", Publication(acked))
  /\ UNCHANGED <<jobvars, payloadq, dead>>

\* command is get_file: get_stream waits for the server without a timeout.
FetchFile ==
  /\ Acknowledged /\ outputs < MaxOutputs
  /\ outputs' = outputs + 1
  /\ stage' = "transfer"
  /\ UNCHANGED <<jobvars, payloadq, pushvars, dead>>

\* Any other job, whose data may go to the child: waitForBytesWritten gives up
\* after 30 seconds, and output read meanwhile is as output read from the loop.
WriteOrNothing ==
  /\ Acknowledged
  /\ stage' = "free"
  /\ UNCHANGED <<jobvars, outputs, payloadq, pushvars, dead>>

\* get_stream returns.
TransferEnds ==
  /\ ~dead /\ stage = "transfer"
  /\ stage' = "free"
  /\ UNCHANGED <<jobvars, outputs, payloadq, pushvars, dead>>

\* Nothing catches what fromjson throws at data that is not JSON, or zmq.hpp in
\* get_stream.
Throw ==
  /\ ~dead /\ stage # "free" /\ pc["main"] = "idle"
  /\ dead' = TRUE
  /\ UNCHANGED <<jobvars, slotvars, payloadq, pushvars>>

\* readyReadStandardOutput pushes what the service child has printed.
ChildPushes ==
  /\ Looping /\ outputs < MaxOutputs
  /\ outputs' = outputs + 1
  /\ Enter("main", Output(outputs + 1))
  /\ UNCHANGED <<jobvars, stage, payloadq, dead>>

\* The child, or a notification, asks for a file.
FileAsked ==
  /\ Looping /\ outputs < MaxOutputs
  /\ outputs' = outputs + 1
  /\ stage' = "transfer"
  /\ UNCHANGED <<jobvars, payloadq, pushvars, dead>>

\* Mutant: the newest queued call is taken first.
TakeNewest ==
  /\ ~dead /\ pc["payload"] = "idle" /\ payloadq # <<>>
  /\ payloadq' = SubSeq(payloadq, 1, Len(payloadq) - 1)
  /\ Enter("payload", payloadq[Len(payloadq)])
  /\ UNCHANGED <<jobvars, slotvars, dead>>

\* Mutant: a lock is tried before push_payload and the push is given up.
TakePushIfFree ==
  /\ ~dead /\ pc["payload"] = "idle" /\ payloadq # <<>>
  /\ payloadq' = Tail(payloadq)
  /\ IF Pushing("main") THEN UNCHANGED pushvars ELSE Enter("payload", Head(payloadq))
  /\ UNCHANGED <<jobvars, slotvars, dead>>

\* The payload thread takes a push of Process from its queue.
TakePush ==
  /\ ~dead /\ pc["payload"] = "idle" /\ payloadq # <<>>
  /\ payloadq' = Tail(payloadq)
  /\ Enter("payload", Head(payloadq))
  /\ UNCHANGED <<jobvars, slotvars, dead>>

\* memcpy.  A message that the other thread has sent meanwhile has no bytes.
Copy(t) ==
  /\ ~dead /\ pc[t] = "copy"
  /\ m_message' = IF m_message = Empty THEN Empty
                  ELSE [m_message EXCEPT !.data = doing[t]]
  /\ pc' = [pc EXCEPT ![t] = "send"]
  /\ UNCHANGED <<jobvars, slotvars, payloadq, doing, wire, made, raced, dead>>

\* The thread whose pushes p is one of.
PushedBy(p) == IF p.by = "process" THEN "payload" ELSE "main"

\* The message is damaged when its size is that of the other thread's push.
Intact ==
  m_message.data # None /\ m_message.sized = PushedBy(m_message.data)

\* send takes the bytes: the message is empty afterwards.
Send(t) ==
  /\ ~dead /\ pc[t] = "send"
  /\ wire' = IF Intact THEN Append(wire, m_message.data) ELSE wire
  /\ m_message' = Empty
  /\ pc' = [pc EXCEPT ![t] = "idle"]
  /\ doing' = [doing EXCEPT ![t] = None]
  /\ UNCHANGED <<jobvars, slotvars, payloadq, made, raced, dead>>

\* Two threads in one message and one socket: a crash is one of the outcomes.
Crash ==
  /\ ~dead /\ \A t \in Threads : Pushing(t)
  /\ dead' = TRUE
  /\ UNCHANGED <<jobvars, slotvars, payloadq, pushvars>>

-----------------------------------------------------------------------------
Next ==
  \/ JobArrives
  \/ RunCommand \/ CommandEnds \/ NotStarted
  \/ Acknowledge \/ Publish \/ FetchFile \/ WriteOrNothing \/ Throw
  \/ TransferEnds \/ ChildPushes \/ FileAsked
  \/ TakePush
  \/ \E t \in Threads : Copy(t) \/ Send(t)
  \/ Crash

\* The threads run.  The event loop serves the slots of the jobs in every round, also
\* when the child prints or asks for files in between.  Nothing makes a job arrive,
\* a command or a transfer end.
Fairness ==
  /\ SF_vars(RunCommand) /\ SF_vars(Acknowledge) /\ WF_vars(TakePush)
  /\ WF_vars(Publish \/ FetchFile \/ WriteOrNothing)
  /\ \A t \in Threads : WF_vars(Copy(t) \/ Send(t))

Spec == Init /\ [][Next]_vars /\ Fairness

-----------------------------------------------------------------------------
(* What is checked.                                                        *)

\* The order in which Process makes its pushes.
Before(p, q) ==
  \/ p.job < q.job
  \/ p.job = q.job /\ p.action = "receive" /\ q.action = "terminate"

\* Where push p has reached the server.
Arrivals(p) == {k \in DOMAIN wire : wire[k] = p}

\* A job is reported with the result of the last command that had finished when
\* it was over: its own, or that of an earlier job if its command did not start,
\* never that of a later one, however long the report waits for its thread.
ResultIsLastFinished ==
  \A p \in made : p.action = "terminate" =>
    /\ p.result \in ended \cup {0} /\ p.result <= p.job
    /\ \A j \in ended : j <= p.job => j <= p.result

\* Only a push that met another one in push_payload can be lost, damaged or sent
\* twice: what a race leaves in m_message does not outlive it.
UnracedArriveOnce ==
  \A p \in made : p \notin raced =>
    /\ \A j, k \in Arrivals(p) : j = k
    /\ (\A t \in Threads : doing[t] # p) => Arrivals(p) # {}

FromProcess(k) == wire[k].by = "process"

\* The pushes of Process that arrive keep their order, races or not: no server
\* sees a job over before it is received, or a later job before an earlier one.
ProcessInOrder ==
  \A j, k \in DOMAIN wire :
    j < k /\ FromProcess(j) /\ FromProcess(k) => Before(wire[j], wire[k])

\* Service acknowledges and publishes a job only after its command is over, and a
\* push it races with is of that job or of an earlier one.
AcknowledgedWhenOver ==
  \A p \in made : p.by = "service" =>
    /\ p.job < ran \/ ~waiting
    /\ doing["main"] = p /\ Pushing("payload") => doing["payload"].job <= p.job

\* What can hold up the report of job j: a command that goes on for ever, its own or
\* that of an earlier job, and a transfer begun before the job was taken up.
HeldUp(j) == (waiting /\ ran <= j) \/ (stage = "transfer" /\ ran < j)

\* A thread of the worker has something to do.
Busy ==
  \/ Looping /\ acked < arrived
  \/ stage = "job"
  \/ payloadq # <<>>
  \/ \E t \in Threads : Pushing(t)

\* Push p is over: the server has it, or it met another one and may be lost.
Settled(p) == p \in made /\ (Arrivals(p) # {} \/ p \in raced)

\* No push is forgotten: when nothing is left to do, Process has received and
\* reported every job that is not held up, and Service has acknowledged it, unless
\* it is in a transfer.
NothingForgotten ==
  ~dead /\ ~Busy =>
    \A j \in 1 .. arrived : ~HeldUp(j) =>
      /\ Settled(Receive("process", j))
      /\ \E r \in 0 .. j : Settled(Terminate(j, r))
      /\ (stage = "transfer" /\ acked < j) \/ Settled(Receive("service", j))

\* Nothing else does: whatever Service and its child do in the same thread, every
\* other job is reported in the end, unless its report is lost in a race, or the
\* worker in a race or to an exception.
JobReported ==
  \A j \in Jobs : ([]<>~HeldUp(j)) =>
    (arrived >= j ~>
      \/ \E p \in made : /\ p.action = "terminate" /\ p.job = j
                         /\ Arrivals(p) # {} \/ p \in raced
      \/ dead)
=============================================================================
