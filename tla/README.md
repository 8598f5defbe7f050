# A TLA+ model of ncw, the nodecast worker

ncw connects a program to the nodecast servers (ncs). It registers with every
server of `--ncs-ip`, receives jobs and notifications over ZeroMQ, gives them to
a child process, and sends what the child prints back to the servers. It is a
Qt 4 program of about 2000 lines: `zeromq.cpp`, `service.cpp`, `process.cpp` and
`main.cpp` carry all of its logic.

This directory holds TLA+ modules of that logic, TLC configurations that check
them on small instances, and theorems that TLAPS has checked for every value of
their constants. `PROJECT.json` is the index: components, runs, the lines each
definition models, hazards, theorems.

## 1. Inventory

### Threads and processes

| who | runs |
| --- | --- |
| main thread | constructor of Zdispatcher, then the event loop: all slots of Service, of Process, of NcwDaemon, `Zdispatcher::push_payload` and `push_stream`, and through them `Zpayload::push_payload` and `Zstream::get_stream` |
| tracker thread, one per server | `Ztracker::init`, `push_tracker`: one blocking REQ round trip each |
| payload thread, one per server | `Zpayload::init_payload`, `receive_payload`, `pubsub_payload` (and `push_payload` when Process asks for it) |
| stream thread, one per server | an event loop with nothing to do: `get_stream` is called from the main thread |
| the child | in service mode one long-running program, in process mode one run per job |
| the servers | answer tracker requests, push jobs, publish notifications, serve files |

Threads interact through queued signals, that is through the event queue of the
receiving thread, and through direct calls of the main thread into objects that
live in others. No lock protects the latter: the `lock_*` functions of Zeromq
are called by nothing.

### Components

| component | state | operations | what makes it correct |
| --- | --- | --- | --- |
| Zdispatcher, Zeromq | `ncs_counter`, the connections, the threads | construct, `push_payload`, `push_stream`, destroy | no signal is lost before it is connected; a push reaches an object that is ready |
| Ztracker | `m_uuid`, the REQ socket | `init` (ping), `push_tracker` | requests are answered in order; a watchdog identifies the worker; a silent server holds up nobody else |
| Zpayload | `m_message`, `m_receiver`, the pubsub socket, `m_uuid`, two notifiers | `init_payload`, `push_payload`, `receive_payload`, `pubsub_payload` | every job is handed on, in order, and no socket is forgotten |
| Zstream | the REQ socket | `get_stream` | the file is complete when the status says so |
| Service | `m_session_uuid`, `child_process`, its connections | `init`, `launch`, `watchdog`, `s_job_receive`, `get_pubsub`, `readyReadStandardOutput` | output is reported under the session it answers, after the session was acknowledged |
| Process | `m_output`, `m_exitcode`, `m_exitstatus`, `process` | `init`, `watchdog`, `s_job_receive`, `process_finished` | each job is acknowledged, then ended with its own result |
| main, NcwDaemon | the settings, two socket pairs | option parsing, signal handlers | a signal ends the event loop and the destructors end the threads |
| example worker | the buffer of a QTextStream | `readStdin`, `push_payload` | each line is answered once |
| Worker | none | empty virtual slots | - |

### What is hard here

Several threads start while the main thread is still connecting their signals.
Requests block without timeouts. A ZeroMQ descriptor is edge-triggered and one
slot consumes the edge of the other socket. One session uuid serves all
sessions. `waitForBytesWritten` runs the output slot in the middle of another
slot. Pipes glue answers together and cut them. Two threads push through one
message and one socket. A signal ends the worker through the same event loop
that files and commands hold up, and the destructors wait for threads that wait
for servers. Starts of one name share their settings. The `hazards` of `PROJECT.json` list these
one by one, at their lines, with the properties aimed at them.

## 2. Modules

| module | models | checked by |
| --- | --- | --- |
| `Registration` | start-up, registration, watchdogs and the routing of jobs, launches and output between the threads | `MCRegistration*.cfg`, proofs |
| `RegistrationProofs` | theorems about it | TLAPS |
| `PayloadSockets` | how a payload thread learns of messages, before and after a second registration | `PayloadSockets*.cfg`, proofs |
| `PayloadSocketsProofs` | theorems about it | TLAPS |
| `ProcessJobs` | the jobs of a Process, and `push_payload` in two threads at once | `ProcessJobs*.cfg`, proofs |
| `ProcessJobsProofs` | theorems about it | TLAPS |
| `ServiceSession` | Service, its child and the pipes between them, session by session | `ServiceSession.cfg`, proofs |
| `ServiceSessionProofs` | theorems about it | TLAPS |
| `FileTransfer` | abstract: what a transfer promises about the file and the verdict | as a property of FileStream |
| `FileStream` | `Zstream::get_stream`, which implements it | `MCFileStream*.cfg`, proofs |
| `FileStreamProofs` | theorems about it, the implementation among them | TLAPS |
| `Shutdown` | signals, the end of the event loop and the destructors, around Registration | `MCShutdown*.cfg`, proofs |
| `ShutdownProofs` | theorems about it, with those of Registration carried over | TLAPS |
| `Settings` | options of the command line and settings stored by earlier starts | `MCSettings*.cfg`, proofs |
| `SettingsProofs` | theorems about it | TLAPS |

The modules `MC*` hold the values of constants for TLC. Shutdown composes with
Registration: it extends it, and its steps are those of Registration while the
process lasts. FileStream implements FileTransfer. ServiceSession, ProcessJobs
and Shutdown each take a job or a file transfer of another module as one step or
one wait, and say which below. The slots of Service are in three modules, each for
another question: Registration and Shutdown have what they route and push,
ServiceSession what sessions they name, ProcessJobs how they share the main thread and
the socket with Process.

### Registration

*State.* The event queues of the threads are the variables `trackerq[i]`,
`payloadq[i]` and `mainq`. `main` says how far the main thread is (constructor,
event loop, exit); `Quit` is `qApp->exit()` in a signal slot. `constructed` and `connected` count the rounds of the loop
over the servers: a round is two steps, `Construct` (`new Zeromq`, which starts
the threads) and `ConnectService` (the connect calls after it), and anything
may happen in between. `call[i]` is the request tracker thread `i` is blocked
on. `receivers[i]` is the sequence of PULL sockets `init_payload` has opened,
because a second run of it replaces the first socket without closing it.
`fault` records that a push went through an `m_message` nobody has allocated.

*Abstractions.* A uuid is the rank of its registration and a port goes with it.
A queued call is named by what it carries. Process and Service timers are not
clocks: `ServiceWatchdog` and `ProcessWatchdog` may happen whenever the event
loop runs. The `sleep(2)` of `launch` is dropped, since it bounds nothing in the
other threads. Notifications take the same way as jobs, from the payload thread
to the Service, and are left to ServiceSession. A push is one step here;
ProcessJobs takes it apart.

*External.* Queued connections keep their order per receiving thread. A server
answers a request with a status, or a registration with a grant, or not at all.
A job goes to any receiver the server knows of.

### PayloadSockets

*State.* For both sockets of one payload thread: the unread messages (`pipe`),
whether the reader has found the pipe empty since (`asleep`), whether the
mailbox behind ZMQ_FD holds a command (`signal`), and whether the notifier is
enabled. `pending` holds the notifiers that the last `select()` of the thread
found readable and that have not been activated yet, `running` the slot that is
reading.

*External.* libzmq: a message written to a pipe whose reader is asleep puts a
command in the mailbox, one written to another pipe does not; `zmq::poll` and a
`recv` that fails with EAGAIN empty the mailbox; `connect` leaves a command in
it, so the first `select()` after `init_payload` finds both sockets readable
(`Init`), and so does a reconnection (`Hiccup`). Qt: the dispatcher collects the
readable descriptors first and activates their notifiers afterwards, even when
an activation before has consumed the edge.

*Correspondence.* `Activate` is a slot from its first line to the test of
`revents`; `ReadNothing`, `ReadJob`, `ReadInvalid` and `ReadEmpty` are the four
ways through its loop. `pubsub_payload` has no invalid messages. Its test for
EAGAIN compares a `bool` with -1 and never holds; the size of the message, 0,
ends the loop instead, which is the same step.

`Replace` is the second `init_payload` of a process worker. It opens new sockets
with new notifiers and leaves the old ones as they are: sockets that nobody reads
and notifiers that call the same slots. `stale` is the set of sockets whose
replaced namesake has a command in its mailbox, which nothing will consume.

`causes` is a history variable: it collects what has left messages unread and
is emptied by a full read. It changes nothing.

### ProcessJobs

*State.* `arrived`, `ran` and `acked` say how many jobs have been handed to the
main thread and how many of them `Process::s_job_receive` and
`Service::s_job_receive` have been called for: each job is two slots in the main
queue, in this order. `waiting` is `waitForFinished(-1)`. `stage` is what else the main
thread is in: `"job"`, the rest of the slot of Service after its acknowledgement, or
`"transfer"`, a `get_stream`. `m_output` stands for
the three members that `process_finished` sets together: the job whose command
ended last. `payloadq` holds the pushes of Process, which the payload thread makes.
`pc` and `doing` are where each thread is in `push_payload`; `m_message` is who
has sized it and what was copied into it; `wire` is what was sent whole.

*Correspondence.* `RunCommand` is `Process::s_job_receive` up to `waitForFinished`. It
returns in `CommandEnds`, inside of which Qt calls `process_finished`, or in
`NotStarted`, when the command cannot be started and no signal `finished` is
emitted; both go on to `Report`. `Acknowledge` is `Service::s_job_receive` up to its
direct call of `push_payload`; the slot then goes on in one of four ways: `Publish`
(a second push), `FetchFile` (`get_stream`, which has no timeout), `WriteOrNothing` (a
line for the child, or nothing), and `Throw`, when the data of the job is not JSON or
`get_stream` throws: neither is caught. A process worker also runs the service child,
whose output makes pushes (`ChildPushes`) and asks for files (`FileAsked`) between two
slots. `Enter`, `Copy` and `Send` are the lines of `push_payload`, for either thread;
what comes before `rebuild` touches nothing that is shared and is part of `Enter`.

*Undefined behaviour.* Two threads in `push_payload` at a time race. The model
lets their lines interleave, takes a message that was sized by the other thread for
damaged, which no server can read, and lets the worker crash at any moment both are
inside (`Crash`).

*Abstractions.* One server: with several, a push of Service goes through the
message of a server chosen at random, and races less. Output that arrives during
`waitForBytesWritten` is reported as output that arrives after it. Whether a job's
fields make it publish, fetch, write or throw is open at every job.

### ServiceSession

*State.* `session` is `m_session_uuid`; sessions are numbered as Service meets
them. Each line on `stdin` and each answer on `stdout` remembers the session it
stands for. Service never reads that number; the properties compare it with the
session it reports. `writing` says that a slot is inside
`waitForBytesWritten`, where only the output slot may run. `buffer` and `work`
are the QTextStream of the child and the queue of its handler thread.

*Correspondence.* `JobReceive(kind)` is `s_job_receive` up to
`waitForBytesWritten`, with one `kind` per path through it; `Notify` is
`get_pubsub`; `Written` is their end; `ReadOutput` is `readyReadStandardOutput`
once per connection of the slot, and `received_file` where it is called.

*Abstractions.* The wait for a file (`get_stream`) is part of its step. The
child is started with `--stdout=true`. Init is the state after the first launch,
which `JobAfterLaunch` of Registration justifies for service workers. A later launch,
of another server, connects the output slot once more. It also restarts a child that
has died, or fails to and ends the event loop, which `crashed` stands for, as for an
exception: from there on Service does nothing. A chunk
that holds several answers is not JSON; an empty chunk is the empty object. The
child is the example worker, allowed in addition to ask for files and to push
payloads, since Service handles both. The pipe may be read when the last answer
is there in part only: `cut` says so, and the answer stays on `stdout` with
`half` set until the rest is read. `glued` and `split` are history variables: a
chunk has held several answers, or a part of one.

### FileTransfer and FileStream

`FileTransfer` is what the callers of `get_stream` rely on: each file has a copy
that is absent, partial or whole, one transfer is active at a time, and it ends
with `received` and, for a sound file, a whole copy, or with `error` and no
copy. Only the next request for the file, or the end of the worker in the middle
of it, spoils a copy.

*State of FileStream.* `file` and `server` are the transfer at hand; `busy[i]` is
the state of the REQ socket of server `i`, `inbox[i]` the parts of its reply that
have not been read. `present` and `written` are the disk, `verdict` what
`received_file` told the child. `lastpart` and `shortened` are history variables.

*Correspondence.* `Ask` is `push_stream` and `get_stream` up to the first `recv`:
the file is truncated, then the request sent. `AskThrows` is the same when the
socket is still in the middle of a reply: zmq.hpp throws, nothing catches it, and
the truncated file stays. The loop reads one part per step, in the three ways its
body can go: `Refused` (the last part reads as an object with a field `error`),
`Ended` (a part of size 0) and `Stored`. The bytes behind an empty part are
uninitialised, so an empty last part may be `Refused` or `Ended`.

*Abstractions.* Parts are numbered; a reply is the sequence of their kinds. A
file whose directory does not exist cannot be opened, and writing it does
nothing. A file that could be opened can be written: `get_stream` does not look at the
state of the stream after `write` and `close`, so on a full disk it says `received_file`
of a copy that is short, and no property here excludes that. A server sends the file or the one part that refuses it.

*External.* ZeroMQ delivers the parts of a reply together. A kill, or a signal
that interrupts `recv`, ends the worker, with any first parts of the file on
disk since the stream is buffered.

*Refinement.* `Promise` maps `active` to `file` and computes `copy` from the
disk: whole means that every part that is not empty is there. A file is *sound*
if it can be opened and has no empty part before its last; for the others
`received_file` promises nothing, which is what the code does.

### Shutdown

*State.* To the variables of Registration it adds what a signal leaves (`asked`, a
byte in a socket pair), what a slot may hold the main thread with (`busy`), the
stage of the destructors (`phase` and `victim`, the server at hand) and the servers
that are gone (`destroyed`). The pushes are counted on their way out: `owed[i]` are
those that Process has queued to payload thread `i`, `unsent` the servers with pushes
that the I/O thread has not sent, which is what closing the context waits for.
`runner` is the server whose Process runs a command.

*Correspondence.* `Signal` is the arrival of SIGINT or SIGTERM, `HandleSignal`
the slot behind the socket pair. `exec()` returns (`LoopEnds` of Registration),
`CloseServer` is one round of `zeromq_push.clear()` up to
`thread_tracker->wait()`; `TrackerEnds`, `PayloadEnds` and `StreamEnds` are the
ends of the three threads, each with the destructor that its deferred deletion
runs; `ContextClosed` is `z_context->close()`. The actions of Registration are
taken up to the end: those of the main thread while it is in no wait and in no
destructor, those of the other threads until they end. `MainRunsCommand` and
`CommandEnds` are the two halves of `Process::s_job_receive`, each with the push it
queues; `PayloadPushes` makes such a push, also when the event loop has ended.
`MainPushes` and `JobThrows` are a job of Service and the output of its child,
`ChildAsksFile` and `TransferEnds` a file that the main thread waits for.
`ncw_service->deleteLater()`
has no effect after the loop, so the child is not terminated.

*Undefined behaviour.* `term.sa_flags` is not initialised before `|=`: whether it
has SA_RESETHAND is chosen in `StopInit`. Closing a socket through a pointer that
was never set may crash or not (`PayloadEnds`).

*Abstractions.* The order of the servers in `clear()` is arbitrary. A signal that
interrupts a `recv` of the main thread ends the process, since zmq.hpp throws and
nothing catches; in the closing of the context it may end the wait or abort. Signals
before `setup_unix_signal_handlers` are in Settings.

### Settings

*State.* `file[n]` is what QSettings holds on disk for worker name `n`. Each start
of the program goes from `new` through `accepted` or `refused` to `running` or
`failed`, or is killed; `ncw` is its `ncw_params`, `pending` the options
`setValue` was called with.

*Correspondence.* `Parse` is `main` from `options.parse` to `settings.sync()`: in
the order of the code, so that an option that is missing or wrong ends it and those
behind are not stored. `Flush` is `sync()`, or the destructor of `settings` on a
`return -1`. `Killed` is a signal before the handlers are installed.

*External.* QSettings reads the file when it is constructed and merges what it has
changed into it when it writes, under a lock; `QVariant::toBool` takes every string
for true but the empty one, `0` and `false`.

## 3. Runs

| run | expects | instance | states |
| --- | --- | --- | --- |
| `registration_service` | pass | two servers, service worker, only the second must answer, 2 jobs, 2 watchdogs | 29 214 |
| `registration_process` | pass | one server, process worker, 2 jobs, 2 watchdogs | 7 475 |
| `process_starts_service` | violation | one server, process worker | - |
| `payload_sockets` | pass | process worker, 2 messages per socket, 1 reconnection, 1 replacement | 210 424 |
| `process_jobs` | pass | 2 jobs, 1 publication, output or transfer | 531 423 |
| `service_session` | pass | 2 sessions, 2 requests of the child, 2 launches | 378 502 |
| `file_stream` | pass | 5 kinds of files, two servers of which one is silent, 3 transfers, 1 kill | 26 917 |
| `file_taken_for_error` | violation | one file, which ends in an object | - |
| `shutdown_service` | pass | two servers, service worker, only the second answers, 1 job, 1 watchdog, 1 signal | 272 702 |
| `shutdown_process` | pass | one server, process worker, 2 jobs, 1 watchdog, 2 signals | 560 059 |
| `settings` | pass | 3 starts, 2 worker names, 10 command lines | 36 572 |

**registration_service** shows for two servers that

- `PushHasTarget`: acknowledgements, results and the child exist only once some
  server is ready for a push. The push may still go to another server, chosen at
  random, whose `m_message` is an unset pointer: with two servers `fault` is
  reachable, with one it is not (`SingleServerSafe`, next run);
- `JobAfterLaunch`: no job is served before the child has been launched, because
  `init_payload` emits the launch before the receiver can deliver a job, into
  the same queue, and registration starts after every connect call;
- `RegistrationCompletes`, `GrantLeadsToLaunch`: the second server answers, the
  first may never do so; registration with the second and a launch follow from
  any grant. Trackers, and not the main thread, wait for the servers.

**registration_process** is the worker type that registers twice. It opens two
receivers when both are granted, and the jobs of the first are then stranded:
`ReceiverPerRegister` bounds this, and says that it happens in this mode only.
`WatchdogIdentifies`: the queue of a tracker keeps two timers and two registrations
in order, so that a watchdog carries the uuid of the last grant. Without a grant it
carries none: a refused registration leaves `m_uuid` empty, and the timer goes on.

**payload_sockets** shows the whole story of forgotten messages. `DeafHasCause`:
they have exactly two causes, an edge consumed by the slot of the other socket
and an empty message. `DeafStaysDeaf`: from then on no further message helps, only a
reconnection. `RestsWhenDone`: no job is handed on twice, and the thread rests only
when each was handed on or its socket is forgotten, so no exit of a slot leaves a
notifier disabled. `JobsHandedOn`: every other job is handed on in the end. `ThreadRests`: the slots
consume the commands they are called for, also when they find nothing to read.
After a second registration each socket has two notifiers, and that of the replaced
one, once readable, stays so. `StaleReadsAll`: it finds every message that would have
been forgotten. `ThreadRests` says also that nothing else keeps the thread running
round its loop for ever. A service worker is the part of this run in which `Replace`
never happens.

**process_jobs** shows what is certain although nothing is locked.
`ResultIsLastFinished`: a report carries the result of the last command
that had finished, which is that of an earlier job when its own did not start.
`UnracedArriveOnce`: a push that met no other arrives whole and once; the races
before it leave nothing behind in `m_message`. `ProcessInOrder`: what arrives of
Process arrives in order. `AcknowledgedWhenOver`: what Service pushes of a job comes
after its command and races only with pushes of the same job or of earlier ones.
`NothingForgotten`: when no thread has anything left to do, each job that no command
and no transfer holds up was received and reported by Process and acknowledged by
Service, but for pushes that met others. `JobReported`: every job is reported, or its
report is lost in a race, unless a command or a transfer goes on for ever in the thread
that has to take it up, or the worker ends in a race or by an exception. What Service
and its child do in that thread, between the jobs and in the middle of their own, is all
there in the run.

**service_session** shows what one uuid for all sessions still guarantees.
`NeverReportedBack`: output is never reported under an earlier session.
`ReceivedFirst`: no session ends before it is acknowledged.
`SerialReportsExact`: with one session at a time and one launch, reports are
exact, however the output is cut into chunks. When they overlap, several reports may
name one session, and the servers then see it over more than once. `NoExtraEnd` bounds
that: with one launch, and as long as every chunk is one answer, the reports that name
one of the first `s` sessions are no more than `s`, so each further end of one session is
an end that an earlier session does not get. After a second launch the slot runs twice
and every output ends the session twice, and chunks that hold several answers or a part of
one have no such bound either. `BufferedOnlyOnOverlap`: the child forgets a line in its
buffer only when sessions overlap. `NoLineLost`: no step drops a session between stdin and its report;
the child may push payloads and ask for files in between, and these do not stand for
its answer. `EveryLineReported`: each session whose line reached a living
child is followed by a report for it or for a later one, unless an exception has
ended the event loop.

**file_stream** shows that a transfer does what its verdict says.
`OwnPartsOnly`: a file holds a beginning of itself, never parts of another reply,
although one may have been left unread. `JammedByEmptyPart`: an empty part before
the last is the only way to leave a REQ socket unable to send, and it is the
socket of the server that sent it. `VerdictIsTrue`, `KeepsPromise`: the contract
of FileTransfer, step by step. `TransferEnds`: a server that answers ends the
transfer; one that does not holds the main thread for ever.

**file_taken_for_error** is a finding: the last part of any file is read as an
error object, and a file that ends in one is removed.

**shutdown_service** and **shutdown_process** send a signal at every moment of
start-up, registration and routing. `SignalEndsWorker`: the worker ends, unless it
is held for ever by one of four things, which `Held` names: a slot that waits for a
command or a file, a tracker whose server is silent, a push that nobody takes when
the context is closed, and in process mode the receiver that was replaced and never
closed. `NothingElseHolds`: at no moment is there a stopping worker that none of these
holds and that has no next step. `NothingLeftBehind`: when a thread has been waited for, nothing is queued
to it, so no tracker emits to a payload that is gone. `CrashOnlyUnregistered`: the
unset sockets are closed only for a server that never registered the worker.
`PushesGoOut`: no push that a slot has made or that Process has queued is lost before
the worker is over, also when the event loop has ended and the payload threads are
still making them; only a further signal, which cuts the closing of the context off, and
an exception do that.

**settings** shows that the stored options are what was given. `StoredWasGiven`:
neither a default nor a refused type nor an option of another name is stored.
`RestartByName`: a worker that has run can be started by its name alone from then
on. `KeepsOthers`: concurrent starts of a name lose none of each other's options.

The stored options include `--stdout`: "default is false" (`main.cpp:182`) is true only
of a name that was never given it. All options are kept in this way, and the model
takes that for the intention.

**process_starts_service** is a finding: the README offers a worker of type process
(line 57) or a service (line 63), and a process worker runs both.

With several servers the first that registers the worker has the child launched
(`GrantLeadsToLaunch`), whether or not the sockets of the others are open. The comments
at `zeromq.cpp:727` and `service.cpp:122` ask for the pubsub socket of the server that
has just registered it, and that one is there: `init_payload` opens it first.

### Bounds

Two servers suffice to have one that is ready and one that is not; a third is a
second copy of either. Two jobs and two watchdogs put one before and one after
the second registration. In PayloadSockets
two messages per socket put an empty one before a job, and let one be forgotten and
another follow it; one reconnection is enough to wake a deaf socket and have it fall
deaf again (a service worker with three messages was checked too). Two jobs of a Process
are one whose result is stored and one that may take it over; the command of either may
go on for ever; one publication, output of the child or transfer can meet the pushes of
either job, or hold the thread before it. Two sessions allow one to be reported late and one to arrive meanwhile
(three with one request were checked too, and take ten times as long); the second
launch duplicates the output slot. The files of MCFileStream are one of each kind:
plain, with an empty part in the middle, with an empty last part, ending in an object,
not openable; three transfers are one that jams a socket, one that ends the worker, and
one after its restart. In Shutdown one signal may come at any step; a second one finds
the handler gone or meets a destructor that waits. Three starts are one that stores, one
that is refused or killed, and one that reads what is there; the command lines of
MCSettings are complete ones of each type, one of each mistake, the name alone, and
single options. All of these are constants, and the theorems hold for any of them.

No run has the type invariants, nor `RunsComplete` of Settings, since they are proved
for every instance.

Deadlock is not checked: every model may stop, for lack of messages to receive
or because the worker has ended or waits for a silent server.

### Fairness

Each thread runs its event loop, so the actions of the trackers, of the payload
threads and of the main thread's start-up and launch are weakly fair. A server
in `Responsive` answers every request, no other server is fair. Nothing is
assumed of timers, of jobs arriving, of the child's output or death, and
nothing of `ServiceJob` and `ProcessJob`, which wait for a file or a child
without a timeout. In ServiceSession both processes run, the example worker
answers each line it reads, and file transfers end; nothing makes a job arrive
or a child ask for a file. In FileStream the main thread reads what has come, and
the servers in `Responsive` answer; nothing asks for a file, kills or restarts
the worker. In ProcessJobs both threads run, and nothing makes a command or a transfer
end, a job arrive or the child print. The two slots of a job are strongly fair: output
of the child may have the main thread busy for a while again and again, but Qt serves
the queued slots in every round of the event loop. In
PayloadSockets the thread runs. Settings has no liveness.

Shutdown takes the fairness of Registration, with two actions strongly fair:
`HandleSignal` and `LoopEnds`. The notifier of a socket pair is looked at in every
round of the event loop, and `exec()` returns as soon as control is back in it, so
neither waits for the queue of slots to be empty, although each job that arrives
disables them for a while. A server in `Responsive` also takes what is pushed to it.
Nothing makes a command or a transfer end: `SignalEndsWorker` assumes instead that
the worker is not held for ever.

## 4. Proofs

All theorems are checked by TLAPS with no unproved leaf. They assume only
`ConstantsAssumption` (at least one server, one of the two worker types that
`main` accepts, bounds that are naturals), `BoundsAssumption` and `SignalsAssumption`
(bounds that are naturals too), and in FileStream
that a reply has at least one part; in Settings, that the default values are among
the values (`CommandLinesAssumption`).

**RegistrationProofs.** The invariant `IInv` adds to `TypeOK` and the properties
four facts, each needed by the ones after it:

- `BootOrder`: a server is connected only after it is constructed, and the
  event loop runs only once all are connected. A job slot can therefore not be
  emitted to a Service that is not yet listening for its launch;
- `Registering`: the registrations of a tracker that are queued, in flight or
  granted stay within the number made so far, and come before every watchdog in
  its queue; this gives `WatchdogIdentifies`;
- `Receiving`: the grants of a server equal the sockets it has opened plus the
  grants still queued, so the bound above gives `ReceiverPerRegister`;
- `LaunchQueued`: until the first launch of a service worker, an open receiver
  implies a launch in the main queue, and every job in that queue is behind a
  launch, which gives `JobAfterLaunch`.

`Invariance` proves `IInv` inductive, one step per action. Each property is then
a corollary: `TypeCorrect`, `PushHasTargetAlways`, `SingleServerSafeAlways`,
`LaunchFirst`, `ReceiverPerRegisterAlways`, `WatchdogIdentifiesAlways`,
`GrantNotForgottenAlways`. The lemmas `LaunchComesFirst`, `ReceiversCounted` and
`WatchdogsComeLast` state them of one state, for ShutdownProofs.

**PayloadSocketsProofs.** `Accounted(s)` says that a socket asleep has been read
to the end, and that one the thread will not look at is asleep or has a cause.
With `TypeOK` it is inductive, and it implies `DeafHasCause`: a deaf socket is
not looked at and not asleep. `DeafForGood` proves the action property
`DeafStaysDeaf` from the invariant: libzmq takes a deaf socket for awake, so a
message sends it no command, and the slot of the other socket only consumes
commands. `RestsWhenDoneAlways` counts: `Conserved(s)` says that the jobs handed on
and those in the pipe (`Count`, a cardinality, with a lemma for each way the pipe
changes) add up to those that came, and that a notifier is disabled only while its slot
runs. At rest no slot runs, so a socket that is not deaf has been read to the end.

**FileStreamProofs.** `OwnPartsOnly` is not inductive: that the next part fits
what is on disk has to be known. `IInv` adds three facts. `OneRequest`: a
request without an answer is that of the transfer at hand, and nothing is unread
on its socket. `Transferring`: the transfer at hand has a server, and its file
exists if it can. `InOrder`: what is unread of its reply is a refusal, or the rest
of the file behind the `k` parts on disk, none of them empty. `NextPart` turns
this into what one `recv` returns. From the same invariant every step of
FileStream is a step of FileTransfer or a stutter (`NextSimulates`, one lemma per
action), which gives `PromiseKept`. `VerdictAlwaysTrue` then is an argument about
FileTransfer alone: with `Verdicts` (no verdict while the file is active) its
steps keep the verdict true. `AwaitsReplyAlways` is a second invariant over `IInv`:
between two calls of `recv` the request is with the server or a part is there, because
`more` is what is left of the reply, and a reply has at least one part.

**ProcessJobsProofs.** `IInv` has seven parts beside `TypeOK`. `Counting` relates the
three counters: Process is at most one job ahead of Service. `Queueing`: what is queued
or under way in the payload thread is in the order in which Process made it, and all
of it is of jobs that have run. `Doing` and `Holding` tie `pc`, `doing` and
`m_message` together: a thread makes the newest of its own pushes, and what the message
holds is the push of a thread that is about to send. `Sending`: what is on the wire is behind all that is still to be sent.
`Once`: a push is on the wire once or still to be sent. `Owing`: every slot that has run
has handed on the pushes it owes, to the queue of the payload thread or to
`push_payload`. Each property follows from a few of these; `NothingForgotten` from
`Owing`, `Once` and `Counting`, since with the queue empty and no thread pushing,
what was handed on has arrived or met another push, and a main thread that is neither in
a command nor in a transfer has taken up every job.

**ServiceSessionProofs.** `NeverReportedBack` rests on `Bounded`: every line and answer
on its way is of a session that is not later than `m_session_uuid`. `ReceivedFirst`
rests on `Acknowledged`, the same fact for the current session. `SerialReportsExact`
needs `Serial`: without overlap, what is due, wherever it is, is one line of the current
session. `NoExtraEnd` is a count: the reports that name one of the first `s` sessions are
mapped one to one into these sessions, each to the one it answers, and `FS_Injection`
compares the sizes. `OneEach` (a report answers one session) makes it a map,
`ReportedOnce` (no session is answered in two reports) one to one, and `NeverReportedBack`
keeps it below `s`. `ReportedOnce` in turn needs `Once`: a session is in at most one place
of stdin, buffer, queue and stdout, and not there if it was reported. `NoLineLost` is an
action property, proved action by action; the read of a chunk needs `AnswerFollows`, a
payload pushed for a line has the answer to that line behind it, so that a chunk of pushes
alone ends no session and drops none, and a restart needs `Gone`, nothing is on its way
in a child that has died.

**ShutdownProofs.** `StopInv` is an invariant of routing and stopping together. Its
routing part is that of RegistrationProofs, which every action of StopNext keeps
(the lemma `StepRoutes`: it is a step of Registration or leaves its variables alone).
Its own part is `Closing`, which relates `phase`, `victim` and `destroyed` with the
queues, the pushes still owed among them, and that a thread that is done stays done
(`DoneStays`, `StoppedStays`), since the main thread, the only one that could give it
work, is in the destructor. `PushesGoOutAlways` follows: the context is closed after
every payload thread, and a payload thread ends behind all it owed.
`NothingElseHoldsAlways` goes through the phases: while the loop over
the servers runs some server is left (`Closing`), and when the context is closed in
service mode no socket has leaked, because of `ReceiverPerRegister` of Registration.
`RoutingKeptToTheEnd` states what is carried over.

**SettingsProofs.** `PendingGiven` (what will be written was given and passed the test)
and `AcceptedComplete` (what was accepted has every required option, given or stored)
make `StoredWasGiven` and the two others inductive. `RestartByName` needs that a
stored option is never removed; `KeepsOthers` is an action property of `Flush`.

Only model-checked: the liveness properties, since TLAPS has no ENABLED here and
leads-to under fairness needs it, and that the findings are reachable. For most of them
the part that needs no fairness is a theorem: nothing is dropped on the way
(`GrantNotForgotten` for `GrantLeadsToLaunch`, `NoLineLost` for `EveryLineReported`), the
system rests only when all is done (`RestsWhenDone` for `JobsHandedOn`,
`NothingForgotten` for `JobReported`), and what is waited for is owed or can come
(`AwaitsReply` for `TransferEnds`, `NothingElseHolds` for `SignalEndsWorker`). What they
leave to TLC is that the steps there are to take are taken.

## 5. Not modelled

- BSON, JSON, QProcess, the ZeroMQ protocol and its high-water marks (50 000
  messages), the servers beyond their answers.
- Several worker processes that share a data directory. (Several that share a
  settings file are in Settings.)
- A process worker with several servers: each has a Process of its own, all of them
  wait in the one main thread, and a Service that pushes through any server. The
  parts of it are in Registration and ProcessJobs, not their product.
- What the child does after the worker has ended: nothing terminates it.
- `Zstream::stream_payload` and `stream_payload2`, `Zeromq::lock_*`: called by
  nothing. `Ztracker::m_mutex` is held by `init` alone.
- Worker, whose slots are empty; log output; the options `debug`, `verbose` and
  `help`; the build files.
- The child as a source of notifications other than JSON lines.

## 6. What could follow

- ServiceSession with FileStream in place of its one-step transfer.
- ProcessJobs with several servers, and PayloadSockets with the sockets of a server
  that takes nothing, at their high-water marks.
- The liveness properties as theorems, once ENABLED can be proved about.
