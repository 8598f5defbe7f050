--------------------------- MODULE ServiceSession ---------------------------
(***************************************************************************)
(* Sessions of a service worker: Service (service.cpp) in the main thread, *)
(* and the long-running child it talks to over stdin and stdout.  The      *)
(* child is the example worker of examples/qt/worker_service, generalised  *)
(* to the requests readyReadStandardOutput understands.                    *)
(*                                                                         *)
(* Service keeps one m_session_uuid and reports all output under it.       *)
(* Sessions are numbered in the order Service meets them, 0 is the empty   *)
(* uuid.  A line on stdin stands for the session it was written for, a     *)
(* line on stdout also for the kind of JSON it is; Service sees neither    *)
(* number, they tell whether it reports the output where it belongs.       *)
(***************************************************************************)
EXTENDS Naturals, Sequences, FiniteSets

CONSTANTS
  MaxSessions,  \* bound: jobs and notifications
  MaxRequests,  \* bound: get_file requests and other pushes of the child
  MaxLaunches   \* bound: runs of Service::launch, one per server

ASSUME BoundsAssumption ==
  MaxSessions \in Nat /\ MaxRequests \in Nat /\ MaxLaunches \in Nat \ {0}

Sessions == 0 .. MaxSessions
Answers == {"get_file", "push", "result"}

VARIABLES
  session,   \* m_session_uuid
  met,       \* sessions met so far
  notified,  \* the sessions met that came with a notification
  writing,   \* Service is in waitForBytesWritten
  conns,     \* connections of the slot readyReadStandardOutput
  crashed,   \* the event loop has ended: an exception has left it, or a launch failed
  pushed,    \* payloads pushed to the servers
  stdin,     \* lines in the pipe to the child
  buffer,    \* lines in the QTextStream of the child
  work,      \* parseData calls queued to its handler thread
  stdout,    \* answers in the pipe from the child
  alive,     \* the child runs
  overlap,   \* history: a job or notification came while an answer was due, or
             \* a line was written for no session
  glued,     \* history: a chunk held several answers
  split,     \* history: a chunk ended within an answer
  requests   \* what MaxRequests counts

childvars == <<stdin, buffer, work, stdout, alive>>
vars == <<session, met, notified, writing, conns, crashed, pushed, childvars,
          overlap, glued, split, requests>>

\* half: the beginning of the answer has been read.
Output == [kind : Answers, for : Sessions, half : BOOLEAN]

Payload == [action : {"receive", "publish", "push", "terminate"},
            session : Sessions, covers : SUBSET Sessions]

TypeOK ==
  /\ session \in Sessions /\ met \in Sessions
  /\ notified \subseteq Sessions
  /\ writing \in BOOLEAN /\ crashed \in BOOLEAN /\ alive \in BOOLEAN
  /\ overlap \in BOOLEAN /\ glued \in BOOLEAN /\ split \in BOOLEAN
  /\ conns \in 1 .. MaxLaunches
  /\ pushed \in Seq(Payload)
  /\ stdin \in Seq(Sessions) /\ buffer \in Seq(Sessions) /\ work \in Seq(Sessions)
  /\ stdout \in Seq(Output)
  /\ requests \in 0 .. MaxRequests

\* The first run of Service::launch is over.
Init ==
  /\ session = 0 /\ met = 0 /\ notified = {}
  /\ writing = FALSE /\ conns = 1 /\ crashed = FALSE
  /\ pushed = <<>>
  /\ stdin = <<>> /\ buffer = <<>> /\ work = <<>> /\ stdout = <<>>
  /\ alive = TRUE /\ overlap = FALSE /\ glued = FALSE /\ split = FALSE
  /\ requests = 0

-----------------------------------------------------------------------------
(* Service in the event loop.                                              *)

Idle == ~writing /\ ~crashed

\* What QProcess::start makes of the child.
ChildRuns == UNCHANGED <<alive, crashed>>
ChildRestarts == ~alive /\ stdout = <<>> /\ alive' = TRUE /\ UNCHANGED crashed
LaunchFails == ~alive /\ stdout = <<>> /\ crashed' = TRUE /\ UNCHANGED alive

\* Another server has registered the worker, and the slot is connected once more.
\* start does nothing while the child runs, or while QProcess has not noticed its
\* death, which it does when it has read all the child has written.
Launch ==
  /\ Idle /\ conns < MaxLaunches
  /\ conns' = conns + 1
  /\ ChildRuns \/ ChildRestarts \/ LaunchFails
  /\ UNCHANGED <<session, met, notified, writing, pushed, stdin, buffer, work, stdout,
                 overlap, requests, glued, split>>

Pushes(action, s) == [action |-> action, session |-> s, covers |-> {}]

\* The child has not yet answered, or its answer has not been read.
Due == stdin # <<>> \/ buffer # <<>> \/ work # <<>> \/ stdout # <<>>

\* QProcess::write of a line for session s; it is lost if the child is dead.
WriteLine(s) ==
  /\ stdin' = IF alive THEN Append(stdin, s) ELSE stdin
  /\ overlap' = (overlap \/ Due \/ s = 0)
WriteNothing == UNCHANGED stdin /\ overlap' = (overlap \/ Due)

\* s_job_receive up to waitForBytesWritten: what the fields of the payload make
\* of it.  "silent" has neither data nor the command get_file; the data of
\* "bad" is not JSON and fromjson throws.
JobKinds == {"data", "get_file", "publish", "silent", "bad"}

\* Mutant: the session of a job is not noted.
JobKeepsSession(kind) ==
  /\ Idle /\ met < MaxSessions
  /\ met' = met + 1
  /\ pushed' = pushed \o <<Pushes("receive", met + 1)>>
                      \o (IF kind = "publish" THEN <<Pushes("publish", met + 1)>> ELSE <<>>)
  /\ crashed' = (kind = "bad")
  /\ writing' = (kind = "data")
  /\ IF kind \in {"data", "get_file"} THEN WriteLine(met + 1) ELSE WriteNothing
  /\ UNCHANGED <<session, notified, conns, buffer, work, stdout, alive, requests, glued, split>>

\* Mutant: the job is acknowledged only when it is not written to the child.
JobUnacknowledged(kind) ==
  /\ Idle /\ met < MaxSessions
  /\ met' = met + 1 /\ session' = met + 1
  /\ pushed' = (IF kind = "data" THEN pushed ELSE Append(pushed, Pushes("receive", met + 1)))
                  \o (IF kind = "publish" THEN <<Pushes("publish", met + 1)>> ELSE <<>>)
  /\ crashed' = (kind = "bad")
  /\ writing' = (kind = "data")
  /\ IF kind \in {"data", "get_file"} THEN WriteLine(met + 1) ELSE WriteNothing
  /\ UNCHANGED <<notified, conns, buffer, work, stdout, alive, requests, glued, split>>

\* Mutant: a get_file command also writes its data to the child.
JobWritesTwice(kind) ==
  /\ Idle /\ met < MaxSessions
  /\ met' = met + 1 /\ session' = met + 1
  /\ pushed' = pushed \o <<Pushes("receive", met + 1)>>
                      \o (IF kind = "publish" THEN <<Pushes("publish", met + 1)>> ELSE <<>>)
  /\ crashed' = (kind = "bad")
  /\ writing' = (kind = "data")
  /\ CASE kind = "data" -> WriteLine(met + 1)
       [] kind = "get_file" /\ alive ->
            stdin' = stdin \o <<met + 1, met + 1>> /\ overlap' = (overlap \/ Due)
       [] OTHER -> WriteNothing
  /\ UNCHANGED <<notified, conns, buffer, work, stdout, alive, requests, glued, split>>

JobReceive(kind) ==
  /\ Idle /\ met < MaxSessions
  /\ met' = met + 1 /\ session' = met + 1
  /\ pushed' = pushed \o <<Pushes("receive", met + 1)>>
                      \o (IF kind = "publish" THEN <<Pushes("publish", met + 1)>> ELSE <<>>)
  /\ crashed' = (kind = "bad")
  /\ writing' = (kind = "data")
  /\ IF kind \in {"data", "get_file"} THEN WriteLine(met + 1) ELSE WriteNothing
  /\ UNCHANGED <<notified, conns, buffer, work, stdout, alive, requests, glued, split>>

\* get_pubsub: a notification of a session of its own, or one without
\* session_uuid, which leaves m_session_uuid alone.  What is not JSON is caught.
NoteKinds == {"data", "get_file", "silent"}
Notify(kind, own) ==
  /\ Idle /\ met < MaxSessions
  /\ met' = met + 1 /\ notified' = notified \cup {met + 1}
  /\ session' = IF own THEN met + 1 ELSE session
  /\ writing' = (kind = "data")
  /\ IF kind \in {"data", "get_file"}
     THEN WriteLine(IF own THEN met + 1 ELSE 0)
     ELSE WriteNothing
  /\ UNCHANGED <<conns, crashed, pushed, buffer, work, stdout, alive, requests, glued, split>>

\* waitForBytesWritten returns; until then only the output slot has run.
Written ==
  /\ writing /\ writing' = FALSE
  /\ UNCHANGED <<session, met, notified, conns, crashed, pushed, childvars,
                 overlap, requests, glued, split>>

Terminate(covers) ==
  IF session = 0 THEN <<>>
  ELSE <<[action |-> "terminate", session |-> session, covers |-> covers]>>

\* What a chunk is to fromjson: several answers, or a part of one, are not JSON.
\* The pipe may be read when the last answer is only there in part (cut).
Chunk(cut) ==
  IF Len(stdout) = 1 /\ ~cut /\ ~Head(stdout).half THEN Head(stdout).kind ELSE "text"
Covered == {stdout[k].for : k \in DOMAIN stdout}

\* Mutant: the get_file branch does not return and the chunk is reported as well.
ReportFiles(cut) ==
  IF Chunk(cut) = "push" THEN <<Pushes("push", 0)>> ELSE Terminate(Covered)

\* Mutant: what is not JSON is dropped.
ReportJson(cut) ==
  CASE Chunk(cut) \in {"get_file", "text"} -> <<>>
    [] Chunk(cut) = "push" -> <<Pushes("push", 0)>>
    [] OTHER -> Terminate(Covered)

\* What is pushed for the chunk by the slot that is called first.
Report(cut) ==
  CASE Chunk(cut) = "get_file" -> <<>>
    [] Chunk(cut) = "push" -> <<Pushes("push", 0)>>
    [] OTHER -> Terminate(Covered)

\* What stays in the pipe of a chunk.
Unread(cut) ==
  IF cut THEN <<[stdout[Len(stdout)] EXCEPT !.half = TRUE]>> ELSE <<>>

\* readyReadStandardOutput reads everything that is in the pipe.  A get_file
\* request is carried out and answered on stdin.  Each further connection of
\* the slot then reads an empty chunk, which is a valid empty JSON.
ReadOutput(cut) ==
  /\ ~crashed /\ stdout # <<>>
  /\ cut => ~stdout[Len(stdout)].half
  /\ stdout' = Unread(cut)
  /\ glued' = (glued \/ Len(stdout) > 1)
  /\ split' = (split \/ cut)
  /\ pushed' = pushed \o Report(cut)
                      \o (IF session = 0 THEN <<>>
                          ELSE [c \in 1 .. conns - 1 |-> Terminate({})[1]])
  /\ stdin' = IF Chunk(cut) = "get_file" /\ alive
              THEN Append(stdin, Head(stdout).for) ELSE stdin
  /\ UNCHANGED <<session, met, notified, writing, conns, crashed, buffer, work,
                 alive, overlap, requests>>

-----------------------------------------------------------------------------
(* The child.                                                              *)

\* Io::readStdin reads one line per activation of its notifier; readLine takes
\* whatever the pipe holds into the buffer of the QTextStream when that has no
\* line left.
ReadStdin ==
  /\ alive /\ stdin # <<>>
  /\ IF buffer = <<>>
     THEN work' = Append(work, Head(stdin)) /\ buffer' = Tail(stdin) /\ stdin' = <<>>
     ELSE work' = Append(work, Head(buffer)) /\ buffer' = Tail(buffer) /\ UNCHANGED stdin
  /\ UNCHANGED <<session, met, notified, writing, conns, crashed, pushed, stdout,
                 alive, overlap, requests, glued, split>>

\* NCWhandler::push_payload answers a line with one JSON object.
Answer ==
  /\ alive /\ work # <<>>
  /\ stdout' = Append(stdout, [kind |-> "result", for |-> Head(work), half |-> FALSE])
  /\ work' = Tail(work)
  /\ UNCHANGED <<session, met, notified, writing, conns, crashed, pushed, stdin,
                 buffer, alive, overlap, requests, glued, split>>

\* A child that asks for a file answers once it has it; one that pushes a
\* payload of its own answers afterwards.
Request(kind) ==
  /\ alive /\ work # <<>> /\ requests < MaxRequests
  /\ requests' = requests + 1
  /\ stdout' = Append(stdout, [kind |-> kind, for |-> Head(work), half |-> FALSE])
  /\ work' = IF kind = "get_file" THEN Tail(work) ELSE work
  /\ UNCHANGED <<session, met, notified, writing, conns, crashed, pushed, stdin,
                 buffer, alive, overlap, glued, split>>

\* The child ends; Service::watchdog, which used to look at it, does not.
ChildDies ==
  /\ alive /\ alive' = FALSE
  /\ stdin' = <<>> /\ buffer' = <<>> /\ work' = <<>>
  /\ UNCHANGED <<session, met, notified, writing, conns, crashed, pushed, stdout,
                 overlap, requests, glued, split>>

-----------------------------------------------------------------------------
Next ==
  \/ Launch \/ Written
  \/ \E kind \in JobKinds : JobReceive(kind)
  \/ \E kind \in NoteKinds, own \in BOOLEAN : Notify(kind, own)
  \/ \E cut \in BOOLEAN : ReadOutput(cut)
  \/ ReadStdin \/ Answer \/ ChildDies
  \/ \E kind \in {"get_file", "push"} : Request(kind)

\* Both processes run, and the child answers what it reads.
Fairness ==
  /\ WF_vars(Written) /\ WF_vars(ReadOutput(FALSE))
  /\ WF_vars(ReadStdin) /\ WF_vars(Answer)

Spec == Init /\ [][Next]_vars /\ Fairness

-----------------------------------------------------------------------------
(* What is checked.                                                        *)

Terminates == {k \in DOMAIN pushed : pushed[k].action = "terminate"}

\* Output is reported for its own session or for a later one, never for an
\* earlier one: m_session_uuid is set before anything is written to the child.
NeverReportedBack ==
  \A k \in Terminates : \A s \in pushed[k].covers : s <= pushed[k].session

\* The servers learn that a job is received before they learn that it is over,
\* also when the output slot runs inside waitForBytesWritten.
ReceivedFirst ==
  \A k \in Terminates :
    pushed[k].session \in notified
      \/ \E j \in 1 .. k-1 :
           pushed[j].action = "receive" /\ pushed[j].session = pushed[k].session

\* With one job at a time and one launch, every report is for the session whose
\* line the child has answered, however the answer is cut into chunks.
SerialReportsExact ==
  ~overlap /\ conns = 1 =>
    \A k \in Terminates : pushed[k].covers = {pushed[k].session}

\* With one launch, and as long as every chunk that is read is one answer, the servers
\* hear of no more ends than there are sessions, however the jobs overlap: for every
\* further end of a session an earlier session gets none.  What answers a line written
\* for no session does not count.
NoExtraEnd ==
  conns = 1 /\ ~glued /\ ~split =>
    \A s \in 1 .. MaxSessions :
      Cardinality({k \in Terminates : /\ pushed[k].session <= s
                                      /\ pushed[k].covers # {0}}) <= s

\* The child leaves a line in its buffer, where no notifier tells of it, only
\* when Service has written it before the earlier one was answered.
BufferedOnlyOnOverlap == buffer # <<>> => overlap

\* A line of session s, or an answer to it, is on its way.
Underway(s) ==
  \/ \E q \in {stdin, buffer, work} : \E k \in DOMAIN q : q[k] = s
  \/ \E k \in DOMAIN stdout : stdout[k].for = s

\* Session s is reported over, under its own uuid or that of a later session.
ReportedOver(s) == \E k \in Terminates : pushed[k].session >= s

\* No step drops a session between stdin and stdout: what is on its way stays so
\* until it is reported over, whatever a chunk holds, and a push of the child or
\* a file it asks for does not stand for its answer.
NoLineLost ==
  [][\A s \in 1 .. MaxSessions :
       Underway(s) => Underway(s)' \/ ReportedOver(s)' \/ crashed' \/ ~alive']_vars

\* A session whose line reached a living child is reported over, under its own
\* uuid or under that of a later session.
EveryLineReported ==
  \A s \in 1 .. MaxSessions :
    (\E k \in DOMAIN stdin : stdin[k] = s)
      ~> (crashed \/ ~alive \/ ReportedOver(s))
=============================================================================
