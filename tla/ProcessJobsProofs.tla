-------------------------- MODULE ProcessJobsProofs --------------------------
(***************************************************************************)
(* Theorems about ProcessJobs, for any number of jobs and whichever of     *)
(* their commands end.                                                     *)
(***************************************************************************)
EXTENDS ProcessJobs, TLAPS

\* The main thread serves the slots of the jobs in order, and knows the result
\* of the last command that finished.
Counting ==
  /\ acked <= ran /\ ran <= acked + 1
  /\ waiting => ran = acked + 1 /\ stage = "free"
  /\ stage = "job" => ran = acked
  /\ Pushing("main") => ~waiting
  /\ Pushing("main") /\ doing["main"].by = "service" => ran = acked /\ doing["main"].job = acked
  /\ m_output \in ended \cup {0}
  /\ \A j \in ended : j <= m_output /\ j <= ran

Own(p) == p.by = "process"

\* What is known of a push when it is queued or made.
Sound(p) ==
  /\ Own(p) => p.job <= ran
  /\ p.by = "service" =>
       /\ p.job <= acked
       /\ p.action = "publish" => p.job < acked \/ stage # "job"
  /\ p.by = "child" => p.job <= outputs
  /\ Own(p) /\ waiting => p.job < ran \/ p.action = "receive"
  /\ p.action = "terminate" =>
       /\ Own(p) /\ p.result \in ended \cup {0} /\ p.result <= p.job
       /\ \A j \in ended : j <= p.job => j <= p.result

\* The queue of the payload thread is in order, behind all it has made.
Queueing ==
  /\ \A p \in made : Sound(p)
  /\ \A k \in DOMAIN payloadq : Own(payloadq[k]) /\ Sound(payloadq[k])
  /\ \A j, k \in DOMAIN payloadq : j < k => Before(payloadq[j], payloadq[k])
  /\ \A p \in made, k \in DOMAIN payloadq : Own(p) => Before(p, payloadq[k])

\* The push a thread makes is one of its own, the newest.
Doing ==
  /\ \A t \in Threads : Pushing(t) <=> doing[t] # None
  /\ \A t \in Threads : Pushing(t) => doing[t] \in made
  /\ Pushing("main") => ~Own(doing["main"])
  /\ Pushing("payload") => Own(doing["payload"])
  /\ Pushing("payload") => \A p \in made :
        Own(p) => p = doing["payload"] \/ Before(p, doing["payload"])

\* What m_message holds is the push of a thread that is about to send it.
Holding ==
  m_message.data # None =>
    \E t \in Threads : pc[t] = "send" /\ m_message.data = doing[t]

\* The pushes of Process arrive in order, before those yet to be sent.
Sending ==
  /\ \A k \in DOMAIN wire : wire[k] \in made
  /\ ProcessInOrder
  /\ \A k \in DOMAIN wire : FromProcess(k) =>
       /\ pc["payload"] = "copy" => Before(wire[k], doing["payload"])
       /\ m_message.data # None /\ Own(m_message.data) => Before(wire[k], m_message.data)

\* A push that meets no other has m_message to itself until it is sent.
Alone(p, t) ==
  /\ Arrivals(p) = {}
  /\ pc[t] = "copy" => m_message = [sized |-> t, data |-> None]
  /\ pc[t] = "send" => m_message = [sized |-> t, data |-> p]
Once ==
  /\ Pushing("main") /\ Pushing("payload")
       => doing["main"] \in raced /\ doing["payload"] \in raced
  /\ \A p \in made : p \notin raced =>
       /\ \A t \in Threads : doing[t] = p => Alone(p, t)
       /\ (\A t \in Threads : doing[t] # p) => \E k \in DOMAIN wire : Arrivals(p) = {k}

\* A push is in the queue of the payload thread, or a thread has begun it.
Handed(p) == p \in made \/ \E k \in DOMAIN payloadq : payloadq[k] = p

\* Each slot that has run has handed on the pushes it owes.
Owing ==
  /\ \A j \in 1 .. ran : Handed(Receive("process", j))
  /\ \A j \in 1 .. acked : Receive("service", j) \in made
  /\ \A j \in 1 .. ran : \/ waiting /\ j = ran
                         \/ \E r \in 0 .. j : Handed(Terminate(j, r))

IInv == Counting /\ Queueing /\ Doing /\ Holding /\ Sending /\ Once /\ Owing

-----------------------------------------------------------------------------
(* Types.                                                                  *)

LEMMA Two == Threads = {"main", "payload"} /\ Other("main") = "payload" /\ Other("payload") = "main"
  BY DEF Threads, Other

LEMMA NotNone == None \notin Pushes
  BY DEF None, Pushes

LEMMA PushTypes ==
  ASSUME TypeOK
  PROVE  /\ ran < MaxJobs => Receive("process", ran + 1) \in Pushes
         /\ acked < MaxJobs => Receive("service", acked + 1) \in Pushes
         /\ Publication(acked) \in Pushes
         /\ outputs < MaxOutputs => Output(outputs + 1) \in Pushes
         /\ ran \in Jobs => Terminate(ran, m_output) \in Pushes /\ Terminate(ran, ran) \in Pushes
  BY ConstantsAssumption DEF TypeOK, Pushes, Receive, Publication, Output, Terminate, Jobs

\* The steps in which the main thread begins a push, which is none of Process and
\* was not known before.
MainBegins == Acknowledge \/ Publish \/ ChildPushes

LEMMA MainEnters ==
  ASSUME TypeOK, MainBegins
  PROVE  \E q \in Pushes :
           /\ Enter("main", q) /\ pc["main"] = "idle" /\ payloadq' = payloadq
           /\ ~Own(q) /\ ~Sound(q) /\ Sound(q)'
<1> USE ConstantsAssumption DEF TypeOK, Sound, Own
<1>1. CASE Acknowledge
  <2>1. PICK q \in Pushes : q = Receive("service", acked + 1)
    BY <1>1, PushTypes DEF Acknowledge
  <2>2. /\ q.by = "service" /\ q.action = "receive" /\ q.job = acked + 1
        /\ Enter("main", q) /\ pc["main"] = "idle" /\ payloadq' = payloadq
        /\ acked' = acked + 1
    BY <1>1, <2>1 DEF Acknowledge, Looping, Receive
  <2> QED
    BY <2>2
<1>2. CASE Publish
  <2>1. PICK q \in Pushes : q = Publication(acked)
    BY PushTypes
  <2>2. /\ q.by = "service" /\ q.action = "publish" /\ q.job = acked
        /\ Enter("main", q) /\ pc["main"] = "idle" /\ payloadq' = payloadq
        /\ stage = "job" /\ stage' = "free" /\ acked' = acked
    BY <1>2, <2>1 DEF Publish, Acknowledged, jobvars, Publication
  <2> QED
    BY <2>2
<1>3. CASE ChildPushes
  <2>1. PICK q \in Pushes : q = Output(outputs + 1)
    BY <1>3, PushTypes DEF ChildPushes
  <2>2. /\ q.by = "child" /\ q.action = "output" /\ q.job = outputs + 1
        /\ Enter("main", q) /\ pc["main"] = "idle" /\ payloadq' = payloadq
        /\ outputs' = outputs + 1
    BY <1>3, <2>1 DEF ChildPushes, Looping, Output
  <2> QED
    BY <2>2
<1> QED
  BY <1>1, <1>2, <1>3 DEF MainBegins

\* The steps that touch neither the jobs nor a push.
Aside == FetchFile \/ WriteOrNothing \/ TransferEnds \/ Throw \/ FileAsked \/ Crash

LEMMA AsideSame ==
  ASSUME Aside
  PROVE  UNCHANGED <<jobvars, payloadq, pushvars>>
  BY DEF Aside, FetchFile, WriteOrNothing, TransferEnds, Throw, FileAsked, Crash

\* The steps there are.
LEMMA Steps ==
  ASSUME [Next]_vars
  PROVE  \/ JobArrives \/ RunCommand \/ CommandEnds \/ NotStarted
         \/ MainBegins \/ TakePush \/ Aside
         \/ \E t \in Threads : Copy(t) \/ Send(t)
         \/ UNCHANGED vars
  BY DEF Next, MainBegins, Aside

\* A push that a thread enters with leaves the push variables well typed.
LEMMA EnterTyped ==
  ASSUME TypeOK, NEW t \in Threads, NEW p \in Pushes, Enter(t, p)
  PROVE  /\ pc' \in [Threads -> {"idle", "copy", "send"}]
         /\ doing' \in [Threads -> Pushes \cup {None}]
         /\ m_message' \in [sized : Threads \cup {"none"}, data : Pushes \cup {None}]
         /\ wire' = wire /\ made' \subseteq Pushes
         /\ Pushing(Other(t)) /\ doing[Other(t)] # None => raced' \subseteq Pushes
         /\ ~Pushing(Other(t)) => raced' \subseteq Pushes
<1>1. Other(t) \in Threads
  BY DEF Threads, Other
<1>2. pc' \in [Threads -> {"idle", "copy", "send"}]
  BY DEF TypeOK, Enter, Begin
<1>3. doing' \in [Threads -> Pushes \cup {None}]
  BY DEF TypeOK, Enter, Begin
<1>4. made' \subseteq Pushes /\ wire' = wire
  BY DEF TypeOK, Enter, Begin
<1>5. m_message' \in [sized : Threads \cup {"none"}, data : Pushes \cup {None}]
  BY DEF Enter
<1>6. Pushing(Other(t)) /\ doing[Other(t)] # None => raced' \subseteq Pushes
  BY <1>1 DEF TypeOK, Enter, Begin
<1>7. ~Pushing(Other(t)) => raced' \subseteq Pushes
  BY DEF TypeOK, Enter, Begin
<1> QED
  BY <1>2, <1>3, <1>4, <1>5, <1>6, <1>7

LEMMA TypeStep ==
  ASSUME TypeOK, Counting, Doing, [Next]_vars
  PROVE  TypeOK'
<1> USE ConstantsAssumption
<1>1. CASE JobArrives
  BY <1>1 DEF JobArrives, pushvars, slotvars, TypeOK
<1>2. CASE RunCommand
  <2>1. Receive("process", ran + 1) \in Pushes /\ ran' \in 0 .. MaxJobs
    BY <1>2, PushTypes DEF RunCommand, TypeOK
  <2> QED
    BY <1>2, <2>1 DEF RunCommand, pushvars, slotvars, TypeOK
<1>3. CASE CommandEnds
  <2>1. ran \in Jobs
    BY <1>3 DEF CommandEnds, Counting, Jobs, TypeOK
  <2>2. Terminate(ran, ran) \in Pushes
    BY <2>1, PushTypes
  <2>3. payloadq' \in Seq(Pushes)
    BY <1>3, <2>2 DEF CommandEnds, Report, TypeOK
  <2>4. m_output' \in 0 .. MaxJobs /\ ended' \subseteq Jobs /\ waiting' \in BOOLEAN
    BY <1>3, <2>1 DEF CommandEnds, Report, TypeOK, Jobs
  <2> QED
    BY <1>3, <2>3, <2>4 DEF CommandEnds, pushvars, slotvars, TypeOK
<1>4. CASE NotStarted
  <2>1. ran \in Jobs
    BY <1>4 DEF NotStarted, Counting, Jobs, TypeOK
  <2>2. Terminate(ran, m_output) \in Pushes
    BY <2>1, PushTypes
  <2>3. payloadq' = Append(payloadq, Terminate(ran, m_output)) /\ waiting' = FALSE
    BY <1>4 DEF NotStarted, Report
  <2>4. payloadq' \in Seq(Pushes)
    BY <2>2, <2>3 DEF TypeOK
  <2> QED
    BY <1>4, <2>3, <2>4 DEF NotStarted, pushvars, slotvars, TypeOK
<1>5. CASE MainBegins
  <2>1. PICK q \in Pushes : Enter("main", q) /\ payloadq' = payloadq
    BY <1>5, MainEnters
  <2>2. Pushing("payload") => doing["payload"] # None
    BY Two DEF Doing
  <2>3. /\ pc' \in [Threads -> {"idle", "copy", "send"}]
        /\ doing' \in [Threads -> Pushes \cup {None}]
        /\ m_message' \in [sized : Threads \cup {"none"}, data : Pushes \cup {None}]
        /\ wire' = wire /\ made' \subseteq Pushes /\ raced' \subseteq Pushes
    BY <2>1, <2>2, EnterTyped, Two
  <2>4. acked' \in 0 .. MaxJobs /\ outputs' \in 0 .. MaxOutputs /\ stage' \in {"free", "job", "transfer"}
    BY <1>5 DEF MainBegins, Acknowledge, Publish, ChildPushes, jobvars, TypeOK
  <2>5. UNCHANGED <<arrived, ran, waiting, m_output, ended, dead>>
    BY <1>5 DEF MainBegins, Acknowledge, Publish, ChildPushes, jobvars
  <2> QED
    BY <2>1, <2>3, <2>4, <2>5 DEF TypeOK
<1>6. CASE TakePush
  <2>1. Head(payloadq) \in Pushes /\ Tail(payloadq) \in Seq(Pushes)
    BY <1>6 DEF TakePush, TypeOK
  <2>2. Enter("payload", Head(payloadq))
    BY <1>6 DEF TakePush
  <2>3. Pushing("main") => doing["main"] # None
    BY Two DEF Doing
  <2>4. /\ pc' \in [Threads -> {"idle", "copy", "send"}]
        /\ doing' \in [Threads -> Pushes \cup {None}]
        /\ m_message' \in [sized : Threads \cup {"none"}, data : Pushes \cup {None}]
        /\ wire' = wire /\ made' \subseteq Pushes /\ raced' \subseteq Pushes
    BY <2>1, <2>2, <2>3, EnterTyped, Two
  <2> QED
    BY <1>6, <2>1, <2>4 DEF TakePush, jobvars, slotvars, TypeOK
<1>7. CASE Aside
  <2>1. UNCHANGED <<jobvars, payloadq, pushvars>>
    BY <1>7, AsideSame
  <2>2. dead' \in {dead, TRUE} /\ stage' \in {stage, "free", "transfer"}
    BY <1>7 DEF Aside, FetchFile, WriteOrNothing, TransferEnds, Throw, FileAsked, Crash, slotvars
  <2>3. outputs' = outputs \/ (outputs < MaxOutputs /\ outputs' = outputs + 1)
    BY <1>7 DEF Aside, FetchFile, WriteOrNothing, TransferEnds, Throw, FileAsked, Crash, slotvars
  <2>4. outputs' \in 0 .. MaxOutputs
    BY <2>3 DEF TypeOK
  <2> QED
    BY <2>1, <2>2, <2>4 DEF jobvars, pushvars, TypeOK
<1>8. ASSUME NEW t \in Threads, Copy(t) PROVE TypeOK'
  <2>1. doing[t] \in Pushes \cup {None}
    BY DEF TypeOK
  <2>2. Empty \in [sized : Threads \cup {"none"}, data : Pushes \cup {None}]
    BY DEF Empty
  <2> QED
    BY <1>8, <2>1, <2>2 DEF Copy, jobvars, slotvars, TypeOK
<1>9. ASSUME NEW t \in Threads, Send(t) PROVE TypeOK'
  <2>1. Empty \in [sized : Threads \cup {"none"}, data : Pushes \cup {None}]
    BY DEF Empty
  <2>2. wire' \in Seq(Pushes)
    BY <1>9 DEF Send, Intact, TypeOK
  <2>3. pc' \in [Threads -> {"idle", "copy", "send"}]
    BY <1>9 DEF Send, TypeOK
  <2>4. doing' \in [Threads -> Pushes \cup {None}]
    BY <1>9 DEF Send, TypeOK
  <2> QED
    BY <1>9, <2>1, <2>2, <2>3, <2>4 DEF Send, jobvars, slotvars, TypeOK
<1>10. CASE UNCHANGED vars
  BY <1>10 DEF vars, jobvars, slotvars, pushvars, TypeOK
<1> QED
  BY <1>1, <1>2, <1>3, <1>4, <1>5, <1>6, <1>7, <1>8, <1>9, <1>10, Steps

-----------------------------------------------------------------------------
(* The main thread and the queue.                                          *)

LEMMA CountingStep ==
  ASSUME TypeOK, Counting, [Next]_vars
  PROVE  Counting'
<1>1. CASE JobArrives
  BY <1>1 DEF JobArrives, pushvars, slotvars, Counting, Pushing
<1>2. CASE RunCommand
  BY <1>2, ConstantsAssumption DEF RunCommand, Looping, pushvars, slotvars, Counting, Pushing, TypeOK, Jobs
<1>3. CASE CommandEnds
  BY <1>3, ConstantsAssumption DEF CommandEnds, Report, pushvars, slotvars, Counting, Pushing, TypeOK, Jobs
<1>4. CASE NotStarted
  BY <1>4 DEF NotStarted, Report, pushvars, slotvars, Counting, Pushing
<1>5. CASE MainBegins
  <2>1. CASE Acknowledge
    <3>1. doing'["main"] = Receive("service", acked + 1)
      BY <2>1, Two DEF Acknowledge, Enter, Begin, TypeOK
    <3>2. doing'["main"].job = acked + 1
      BY <3>1 DEF Receive
    <3> QED
      BY <2>1, <3>2, ConstantsAssumption DEF Acknowledge, Looping, Counting, TypeOK
  <2>2. CASE Publish
    <3>1. doing'["main"] = Publication(acked)
      BY <2>2, Two DEF Publish, Enter, Begin, TypeOK
    <3>2. doing'["main"].job = acked
      BY <3>1 DEF Publication
    <3> QED
      BY <2>2, <3>2 DEF Publish, Acknowledged, jobvars, Counting
  <2>3. CASE ChildPushes
    <3>1. doing'["main"] = Output(outputs + 1)
      BY <2>3, Two DEF ChildPushes, Enter, Begin, TypeOK
    <3>2. doing'["main"].by = "child"
      BY <3>1 DEF Output
    <3> QED
      BY <2>3, <3>2 DEF ChildPushes, Looping, jobvars, Counting
  <2> QED
    BY <1>5, <2>1, <2>2, <2>3 DEF MainBegins
<1>6. CASE TakePush
  <2>1. pc'["main"] = pc["main"] /\ doing'["main"] = doing["main"]
    BY <1>6 DEF TakePush, Enter, Begin, TypeOK, Threads
  <2> QED
    BY <1>6, <2>1 DEF TakePush, jobvars, slotvars, Counting, Pushing
<1>7. ASSUME NEW t \in Threads, Copy(t) \/ Send(t) PROVE Counting'
  <2>1. Pushing("main")' => Pushing("main") /\ doing'["main"] = doing["main"]
    BY <1>7 DEF Copy, Send, Pushing, TypeOK, Threads
  <2> QED
    BY <1>7, <2>1 DEF Copy, Send, jobvars, slotvars, Counting
<1>8. CASE Aside
  <2>1. UNCHANGED <<jobvars, payloadq, pushvars>>
    BY <1>8, AsideSame
  <2>2. stage' = stage \/ (stage' # "job" /\ ~waiting)
    BY <1>8 DEF Aside, FetchFile, WriteOrNothing, TransferEnds, Throw, FileAsked, Crash, slotvars,
           Acknowledged, Looping, Counting
  <2> QED
    BY <2>1, <2>2 DEF jobvars, pushvars, Counting, Pushing
<1>9. CASE UNCHANGED vars
  BY <1>9 DEF vars, jobvars, slotvars, pushvars, Counting, Pushing
<1> QED
  BY <1>1, <1>2, <1>3, <1>4, <1>5, <1>6, <1>7, <1>8, <1>9, Steps

LEMMA BeforeFacts ==
  ASSUME NEW p \in Pushes
  PROVE  /\ ~Before(p, p)
         /\ \A q, r \in Pushes : Before(p, q) /\ Before(q, r) => Before(p, r)
<1>1. \A q \in Pushes : q.job \in Nat
  BY DEF Pushes, Jobs
<1> QED
  BY <1>1 DEF Before

\* A push that was sound stays so.
LEMMA SoundStep ==
  ASSUME TypeOK, Counting, [Next]_vars, NEW p \in Pushes, Sound(p)
  PROVE  Sound(p)'
<1>1. /\ p.job \in Nat /\ p.result \in Nat /\ ran \in Nat /\ acked \in Nat /\ outputs \in Nat
      /\ Own(p) <=> p.by = "process"
  BY ConstantsAssumption DEF Pushes, Jobs, TypeOK, Own
<1>2. CASE RunCommand
  BY <1>1, <1>2 DEF RunCommand, slotvars, Sound, Own
<1>3. CASE CommandEnds
  BY <1>1, <1>3 DEF CommandEnds, Report, slotvars, Sound, Own
<1>4. CASE NotStarted
  BY <1>4 DEF NotStarted, Report, slotvars, Sound, Own
<1>5. ASSUME /\ UNCHANGED <<ran, waiting, ended>> /\ outputs' \in {outputs, outputs + 1}
             /\ \/ acked' = acked + 1
                \/ acked' = acked /\ (stage' = "job" => stage = "job")
      PROVE  Sound(p)'
  <2>1. p.by = "service" => p.job <= acked' /\ (p.action = "publish" => p.job < acked' \/ stage' # "job")
    BY <1>1, <1>5 DEF Sound
  <2>2. p.by = "child" => p.job <= outputs'
    BY <1>1, <1>5 DEF Sound
  <2> QED
    BY <1>5, <2>1, <2>2 DEF Sound, Own
<1>6. CASE MainBegins
  BY <1>5, <1>6 DEF MainBegins, Acknowledge, Publish, ChildPushes, jobvars
<1>7. CASE Aside
  <2>1. UNCHANGED <<jobvars, payloadq, pushvars>>
    BY <1>7, AsideSame
  <2>2. (stage' = stage \/ stage' # "job") /\ outputs' \in {outputs, outputs + 1}
    BY <1>7 DEF Aside, FetchFile, WriteOrNothing, TransferEnds, Throw, FileAsked, Crash, slotvars
  <2> QED
    BY <1>5, <2>1, <2>2 DEF jobvars
<1>8. CASE JobArrives \/ TakePush \/ UNCHANGED vars \/ \E t \in Threads : Copy(t) \/ Send(t)
  <2>1. UNCHANGED <<ran, acked, waiting, ended, outputs, stage>>
    BY <1>8 DEF JobArrives, TakePush, Copy, Send, jobvars, slotvars, vars
  <2> QED
    BY <1>5, <2>1
<1> QED
  BY <1>2, <1>3, <1>4, <1>6, <1>7, <1>8, Steps

\* A sound push that is behind all the others may join the queue.
LEMMA QueueingAppend ==
  ASSUME TypeOK, Queueing, NEW q \in Pushes, Own(q), Sound(q)',
         payloadq' = Append(payloadq, q), made' = made,
         \A p \in Pushes : Sound(p) => Sound(p)',
         \A p \in Pushes : Own(p) /\ Sound(p) => Before(p, q)
  PROVE  Queueing'
<1> DEFINE n == Len(payloadq)
<1>1. n \in Nat /\ DOMAIN payloadq = 1 .. n /\ DOMAIN payloadq' = 1 .. n + 1
  BY DEF TypeOK
<1>2. \A k \in 1 .. n : payloadq'[k] = payloadq[k] /\ payloadq[k] \in Pushes
  BY DEF TypeOK
<1>3. payloadq'[n + 1] = q
  BY DEF TypeOK
<1> HIDE DEF n
<1>4. \A k \in DOMAIN payloadq' :
        \/ k \in DOMAIN payloadq /\ payloadq'[k] = payloadq[k] /\ payloadq[k] \in Pushes
        \/ k = n + 1 /\ payloadq'[k] = q
  BY <1>1, <1>2, <1>3
<1>5. \A p \in made' : Sound(p)'
  BY DEF Queueing, TypeOK
<1>6. ASSUME NEW p \in Pushes, NEW k \in DOMAIN payloadq', payloadq'[k] = p
      PROVE  Own(p) /\ Sound(p)'
  BY <1>4, <1>6 DEF Queueing
<1>7. (\A k \in DOMAIN payloadq : Own(payloadq[k]) /\ Sound(payloadq[k]))'
  BY <1>4, <1>6
<1>8. (\A j, k \in DOMAIN payloadq : j < k => Before(payloadq[j], payloadq[k]))'
  <2> SUFFICES ASSUME NEW j \in DOMAIN payloadq', NEW k \in DOMAIN payloadq', j < k
               PROVE  Before(payloadq'[j], payloadq'[k])
    BY DEF Before
  <2>1. j \in DOMAIN payloadq /\ payloadq'[j] = payloadq[j] /\ payloadq[j] \in Pushes
    BY <1>1, <1>4
  <2>2. Own(payloadq[j]) /\ Sound(payloadq[j])
    BY <2>1 DEF Queueing
  <2>3. CASE k = n + 1 /\ payloadq'[k] = q
    BY <2>1, <2>2, <2>3
  <2>4. CASE k \in DOMAIN payloadq /\ payloadq'[k] = payloadq[k]
    BY <2>1, <2>4 DEF Queueing
  <2> QED
    BY <1>4, <2>3, <2>4
<1>9. (\A p \in made, k \in DOMAIN payloadq : Own(p) => Before(p, payloadq[k]))'
  <2> SUFFICES ASSUME NEW p \in made, NEW k \in DOMAIN payloadq', Own(p)
               PROVE  Before(p, payloadq'[k])
    BY DEF Own, Before
  <2>1. p \in Pushes /\ Sound(p)
    BY DEF TypeOK, Queueing
  <2> QED
    BY <1>4, <2>1 DEF Queueing
<1> QED
  BY <1>5, <1>7, <1>8, <1>9 DEF Queueing

\* The push a thread enters with is made; the queue is that without it.
LEMMA QueueingEnter ==
  ASSUME TypeOK, Queueing, NEW q \in Pushes, Sound(q)', made' = made \cup {q},
         \A p \in Pushes : Sound(p) => Sound(p)',
         \/ payloadq' = payloadq /\ ~Own(q)
         \/ payloadq # <<>> /\ q = Head(payloadq) /\ payloadq' = Tail(payloadq)
  PROVE  Queueing'
<1>1. \A p \in made' : p \in Pushes /\ Sound(p)'
  BY DEF Queueing, TypeOK
<1>2. CASE payloadq' = payloadq /\ ~Own(q)
  <2>1. ASSUME NEW p \in Pushes, NEW k \in DOMAIN payloadq', payloadq'[k] = p
        PROVE  Own(p) /\ Sound(p)'
    BY <1>2, <2>1 DEF Queueing
  <2>2. (\A k \in DOMAIN payloadq : Own(payloadq[k]) /\ Sound(payloadq[k]))'
    <3>1. \A k \in DOMAIN payloadq' : payloadq'[k] \in Pushes
      BY <1>2 DEF TypeOK
    <3> QED
      BY <2>1, <3>1
  <2>3. (\A j, k \in DOMAIN payloadq : j < k => Before(payloadq[j], payloadq[k]))'
    BY <1>2 DEF Queueing, Before
  <2>4. (\A p \in made, k \in DOMAIN payloadq : Own(p) => Before(p, payloadq[k]))'
    BY <1>2 DEF Queueing, Before, Own
  <2> QED
    BY <1>1, <2>2, <2>3, <2>4 DEF Queueing
<1>3. CASE payloadq # <<>> /\ q = Head(payloadq) /\ payloadq' = Tail(payloadq)
  <2> DEFINE n == Len(payloadq)
  <2>1. n \in Nat \ {0} /\ DOMAIN payloadq = 1 .. n /\ DOMAIN payloadq' = 1 .. n - 1
    BY <1>3 DEF TypeOK
  <2>2. \A k \in 1 .. n - 1 : payloadq'[k] = payloadq[k + 1] /\ payloadq[k + 1] \in Pushes
    BY <1>3 DEF TypeOK
  <2>3. q = payloadq[1]
    BY <1>3 DEF TypeOK
  <2> HIDE DEF n
  <2>4. \A k \in DOMAIN payloadq' :
          /\ k \in Nat \ {0} /\ k + 1 \in DOMAIN payloadq
          /\ payloadq'[k] = payloadq[k + 1] /\ payloadq[k + 1] \in Pushes
    BY <2>1, <2>2
  <2>5. 1 \in DOMAIN payloadq
    BY <2>1
  <2>6. ASSUME NEW p \in Pushes, NEW k \in DOMAIN payloadq', payloadq'[k] = p
        PROVE  Own(p) /\ Sound(p)'
    BY <2>4, <2>6 DEF Queueing
  <2>7. (\A k \in DOMAIN payloadq : Own(payloadq[k]) /\ Sound(payloadq[k]))'
    BY <2>4, <2>6
  <2>8. (\A j, k \in DOMAIN payloadq : j < k => Before(payloadq[j], payloadq[k]))'
    <3> SUFFICES ASSUME NEW j \in DOMAIN payloadq', NEW k \in DOMAIN payloadq', j < k
                 PROVE  Before(payloadq'[j], payloadq'[k])
      BY DEF Before
    <3>1. j + 1 < k + 1
      BY <2>4
    <3> QED
      BY <2>4, <3>1 DEF Queueing
  <2>9. (\A p \in made, k \in DOMAIN payloadq : Own(p) => Before(p, payloadq[k]))'
    <3> SUFFICES ASSUME NEW p \in made', NEW k \in DOMAIN payloadq', Own(p)
                 PROVE  Before(p, payloadq'[k])
      BY DEF Own, Before
    <3>1. k + 1 \in DOMAIN payloadq /\ payloadq'[k] = payloadq[k + 1] /\ 1 < k + 1
      BY <2>4
    <3>2. CASE p = q
      BY <2>3, <2>5, <3>1, <3>2 DEF Queueing
    <3>3. CASE p \in made
      BY <3>1, <3>3 DEF Queueing
    <3> QED
      BY <3>2, <3>3
  <2> QED
    BY <1>1, <2>7, <2>8, <2>9 DEF Queueing
<1> QED
  BY <1>2, <1>3

LEMMA QueueingStep ==
  ASSUME TypeOK, Counting, Queueing, [Next]_vars
  PROVE  Queueing'
<1>1. \A p \in Pushes : Sound(p) => Sound(p)'
  BY SoundStep
<1>2. CASE RunCommand
  <2>1. PICK q \in Pushes : q = Receive("process", ran + 1)
    BY <1>2, PushTypes, ConstantsAssumption DEF RunCommand, TypeOK
  <2>2. Own(q) /\ Sound(q)'
    BY <1>2, <2>1, ConstantsAssumption DEF RunCommand, Own, Sound, Receive, TypeOK
  <2>3. \A p \in Pushes : Own(p) /\ Sound(p) => Before(p, q)
    BY <2>1, ConstantsAssumption DEF Sound, Before, Receive, TypeOK, Pushes, Jobs
  <2>4. payloadq' = Append(payloadq, q) /\ made' = made
    BY <1>2, <2>1 DEF RunCommand, pushvars
  <2> QED
    BY <1>1, <2>1, <2>2, <2>3, <2>4, QueueingAppend
<1>3. CASE CommandEnds \/ NotStarted
  <2>0. ran \in Jobs /\ waiting
    BY <1>3, ConstantsAssumption DEF CommandEnds, NotStarted, Counting, Jobs, TypeOK
  <2>1. PICK q \in Pushes : q = IF CommandEnds THEN Terminate(ran, ran)
                                ELSE Terminate(ran, m_output)
    BY <2>0, PushTypes
  <2>2. Own(q) /\ Sound(q)'
    <3>1. CASE CommandEnds
      BY <3>1, <2>0, <2>1, ConstantsAssumption DEF CommandEnds, Report, Counting, Own, Sound, Terminate, TypeOK, Jobs
    <3>2. CASE NotStarted /\ ~CommandEnds
      BY <3>2, <2>0, <2>1, ConstantsAssumption DEF NotStarted, Report, Counting, Own, Sound, Terminate, TypeOK, Jobs
    <3> QED
      BY <1>3, <3>1, <3>2
  <2>3. q.job = ran /\ q.action = "terminate"
    BY <2>1 DEF Terminate
  <2>4. payloadq' = Append(payloadq, q) /\ made' = made
    BY <1>3, <2>1 DEF CommandEnds, NotStarted, Report, pushvars
  <2>5. \A p \in Pushes : Own(p) /\ Sound(p) => Before(p, q)
    BY <2>0, <2>3, ConstantsAssumption DEF Sound, Before, TypeOK, Pushes, Jobs
  <2> QED
    BY <1>1, <2>1, <2>2, <2>4, <2>5, QueueingAppend
<1>4. CASE MainBegins
  <2>1. PICK q \in Pushes : /\ Enter("main", q) /\ payloadq' = payloadq
                            /\ ~Own(q) /\ Sound(q)'
    BY <1>4, MainEnters
  <2>2. made' = made \cup {q}
    BY <2>1 DEF Enter, Begin
  <2> QED
    BY <1>1, <2>1, <2>2, QueueingEnter
<1>5. CASE TakePush
  <2>1. PICK q \in Pushes : q = Head(payloadq)
    BY <1>5 DEF TakePush, TypeOK
  <2>2. payloadq # <<>> /\ payloadq' = Tail(payloadq) /\ made' = made \cup {q}
    BY <1>5, <2>1 DEF TakePush, Enter, Begin
  <2>3. q = payloadq[1] /\ 1 \in DOMAIN payloadq
    BY <2>1, <2>2 DEF TypeOK
  <2>4. Sound(q)
    BY <2>3 DEF Queueing
  <2>5. Sound(q)'
    BY <1>1, <2>4
  <2> QED
    BY <1>1, <2>1, <2>2, <2>5, QueueingEnter
<1>6. CASE UNCHANGED <<payloadq, made>>
  <2>1. \A p \in made' : Sound(p)'
    BY <1>1, <1>6 DEF Queueing, TypeOK
  <2>2. \A k \in DOMAIN payloadq' : payloadq'[k] \in Pushes /\ payloadq'[k] = payloadq[k]
    BY <1>6 DEF TypeOK
  <2>3. ASSUME NEW p \in Pushes, NEW k \in DOMAIN payloadq', payloadq'[k] = p
        PROVE  Own(p) /\ Sound(p)'
    BY <1>1, <1>6, <2>2, <2>3 DEF Queueing
  <2>4. (\A k \in DOMAIN payloadq : Own(payloadq[k]) /\ Sound(payloadq[k]))'
    BY <2>2, <2>3
  <2> QED
    BY <1>6, <2>1, <2>4 DEF Queueing, Own, Before
<1>7. ASSUME JobArrives \/ Aside \/ UNCHANGED vars \/ \E t \in Threads : Copy(t) \/ Send(t)
      PROVE UNCHANGED <<payloadq, made>>
  BY <1>7, AsideSame DEF JobArrives, Copy, Send, vars, pushvars
<1> QED
  BY <1>2, <1>3, <1>4, <1>5, <1>6, <1>7, Steps

-----------------------------------------------------------------------------
(* The two threads in push_payload.                                        *)

\* What entering push_payload does to the threads.
LEMMA EnterDoing ==
  ASSUME TypeOK, NEW t \in Threads, NEW q \in Pushes, Enter(t, q)
  PROVE  /\ Pushing(t)' /\ doing'[t] = q /\ made' = made \cup {q} /\ wire' = wire
         /\ pc'[t] = "copy" /\ m_message' = [sized |-> t, data |-> None]
         /\ \A u \in Threads : u # t => pc'[u] = pc[u] /\ doing'[u] = doing[u]
  BY DEF Enter, Begin, TypeOK, Pushing

LEMMA DoingStep ==
  ASSUME TypeOK, Queueing, Doing, [Next]_vars
  PROVE  Doing'
<1>1. CASE MainBegins
  <2>1. PICK q \in Pushes : Enter("main", q) /\ ~Own(q)
    BY <1>1, MainEnters
  <2>2. /\ Pushing("main")' /\ doing'["main"] = q /\ made' = made \cup {q}
        /\ pc'["payload"] = pc["payload"] /\ doing'["payload"] = doing["payload"]
    BY <2>1, EnterDoing, Two
  <2>3. q # None
    BY <2>1, NotNone
  <2>4. Pushing("payload")' <=> Pushing("payload")
    BY <2>2 DEF Pushing
  <2> QED
    BY <2>1, <2>2, <2>3, <2>4, Two DEF Doing, Own, Before
<1>2. CASE TakePush
  <2>1. PICK q \in Pushes : q = Head(payloadq)
    BY <1>2 DEF TakePush, TypeOK
  <2>2. Enter("payload", q)
    BY <1>2, <2>1 DEF TakePush
  <2>3. q = payloadq[1] /\ 1 \in DOMAIN payloadq
    BY <1>2, <2>1 DEF TakePush, TypeOK
  <2>4. Own(q) /\ \A p \in made : Own(p) => Before(p, q)
    BY <2>3 DEF Queueing
  <2>5. /\ Pushing("payload")' /\ doing'["payload"] = q /\ made' = made \cup {q}
        /\ pc'["main"] = pc["main"] /\ doing'["main"] = doing["main"]
    BY <2>2, EnterDoing, Two
  <2>6. q # None
    BY <2>1, NotNone
  <2>7. Pushing("main")' <=> Pushing("main")
    BY <2>5 DEF Pushing
  <2> QED
    BY <2>4, <2>5, <2>6, <2>7, Two DEF Doing, Own, Before
<1>3. ASSUME NEW t \in Threads, Copy(t) PROVE Doing'
  <2>1. \A u \in Threads : Pushing(u)' <=> Pushing(u)
    BY <1>3 DEF Copy, Pushing, TypeOK
  <2>2. doing' = doing /\ made' = made
    BY <1>3 DEF Copy
  <2> QED
    BY <2>1, <2>2, Two DEF Doing, Own, Before
<1>4. ASSUME NEW t \in Threads, Send(t) PROVE Doing'
  <2>1. /\ ~Pushing(t)' /\ doing'[t] = None /\ made' = made
        /\ \A u \in Threads : u # t => pc'[u] = pc[u] /\ doing'[u] = doing[u]
    BY <1>4 DEF Send, Pushing, TypeOK
  <2>2. \A u \in Threads : u # t => (Pushing(u)' <=> Pushing(u))
    BY <2>1 DEF Pushing
  <2> QED
    BY <2>1, <2>2, Two DEF Doing, Own, Before
<1>5. CASE UNCHANGED <<pc, doing, made>>
  BY <1>5 DEF Doing, Pushing, Own, Before
<1>6. ASSUME JobArrives \/ RunCommand \/ CommandEnds \/ NotStarted \/ Aside \/ UNCHANGED vars
      PROVE UNCHANGED <<pc, doing, made>>
  BY <1>6, AsideSame DEF JobArrives, RunCommand, CommandEnds, NotStarted, pushvars, vars
<1> QED
  BY <1>1, <1>2, <1>3, <1>4, <1>5, <1>6, Steps

LEMMA HoldingStep ==
  ASSUME TypeOK, Holding, [Next]_vars
  PROVE  Holding'
<1>1. ASSUME NEW t \in Threads, NEW q \in Pushes, Enter(t, q)
      PROVE  Holding'
  BY <1>1 DEF Holding, Enter
<1>2. CASE MainBegins
  BY <1>1, <1>2, MainEnters, Two
<1>3. CASE TakePush
  <2>1. PICK q \in Pushes : q = Head(payloadq)
    BY <1>3 DEF TakePush, TypeOK
  <2> QED
    BY <1>1, <1>3, <2>1, Two DEF TakePush
<1>4. ASSUME NEW t \in Threads, Send(t) PROVE Holding'
  BY <1>4 DEF Send, Empty, Holding
<1>5. ASSUME NEW t \in Threads, Copy(t) PROVE Holding'
  <2>1. pc'[t] = "send" /\ doing' = doing
    BY <1>5 DEF Copy, TypeOK
  <2>2. m_message'.data = None \/ m_message'.data = doing[t]
    BY <1>5 DEF Copy, Empty, TypeOK
  <2> QED
    BY <2>1, <2>2 DEF Holding
<1>6. CASE UNCHANGED <<pc, doing, m_message>>
  BY <1>6 DEF Holding
<1>7. ASSUME JobArrives \/ RunCommand \/ CommandEnds \/ NotStarted \/ Aside \/ UNCHANGED vars
      PROVE UNCHANGED <<pc, doing, m_message>>
  BY <1>7, AsideSame DEF JobArrives, RunCommand, CommandEnds, NotStarted, pushvars, vars
<1> QED
  BY <1>2, <1>3, <1>4, <1>5, <1>6, <1>7, Steps

-----------------------------------------------------------------------------
(* What arrives.                                                           *)

\* The steps that send nothing keep what is known of the wire, if the message
\* and the push of the payload thread are still behind it.
LEMMA SendingSame ==
  ASSUME TypeOK, Sending, wire' = wire, made \subseteq made',
         \A p \in made : Own(p) =>
           /\ pc'["payload"] = "copy" =>
                \/ Before(p, doing'["payload"])
                \/ pc["payload"] = "copy" /\ doing'["payload"] = doing["payload"]
           /\ m_message'.data # None /\ Own(m_message'.data) =>
                \/ m_message' = m_message
                \/ pc["payload"] = "copy" /\ m_message'.data = doing["payload"]
  PROVE  Sending'
<1>1. (\A k \in DOMAIN wire : wire[k] \in made)'
  BY DEF Sending
<1>2. ProcessInOrder'
  BY DEF Sending, ProcessInOrder, FromProcess, Before
<1>3. ASSUME NEW k \in DOMAIN wire, FromProcess(k)
      PROVE  /\ pc'["payload"] = "copy" => Before(wire[k], doing'["payload"])
             /\ m_message'.data # None /\ Own(m_message'.data) => Before(wire[k], m_message'.data)
  <2>1. wire[k] \in made /\ Own(wire[k])
    BY <1>3 DEF Sending, FromProcess, Own
  <2>2. pc["payload"] = "copy" => Before(wire[k], doing["payload"])
    BY <1>3 DEF Sending
  <2>3. m_message.data # None /\ Own(m_message.data) => Before(wire[k], m_message.data)
    BY <1>3 DEF Sending
  <2> QED
    BY <2>1, <2>2, <2>3
<1> QED
  BY <1>1, <1>2, <1>3 DEF Sending, FromProcess, Own, Before

LEMMA SendingStep ==
  ASSUME TypeOK, Queueing, Doing, Holding, Sending, [Next]_vars
  PROVE  Sending'
<1>1. CASE MainBegins
  <2>1. PICK q \in Pushes : Enter("main", q)
    BY <1>1, MainEnters
  <2>2. /\ made' = made \cup {q} /\ wire' = wire /\ m_message'.data = None
        /\ pc'["payload"] = pc["payload"] /\ doing'["payload"] = doing["payload"]
    BY <2>1, EnterDoing, Two
  <2> QED
    BY <2>2, SendingSame
<1>2. CASE TakePush
  <2>1. PICK q \in Pushes : q = Head(payloadq)
    BY <1>2 DEF TakePush, TypeOK
  <2>2. Enter("payload", q)
    BY <1>2, <2>1 DEF TakePush
  <2>3. q = payloadq[1] /\ 1 \in DOMAIN payloadq
    BY <1>2, <2>1 DEF TakePush, TypeOK
  <2>4. \A p \in made : Own(p) => Before(p, q)
    BY <2>3 DEF Queueing
  <2>5. made' = made \cup {q} /\ doing'["payload"] = q /\ wire' = wire /\ m_message'.data = None
    BY <2>2, EnterDoing, Two
  <2> QED
    BY <2>4, <2>5, SendingSame
<1>3. ASSUME NEW t \in Threads, Copy(t) PROVE Sending'
  <2>1. pc'["payload"] = "copy" => pc["payload"] = "copy"
    BY <1>3, Two DEF Copy, TypeOK
  <2>2. wire' = wire /\ made' = made /\ doing' = doing
    BY <1>3 DEF Copy
  <2>3. m_message'.data = None \/ m_message'.data = doing[t]
    BY <1>3 DEF Copy, Empty, TypeOK
  <2>4. pc[t] = "copy"
    BY <1>3 DEF Copy
  <2>5. m_message'.data # None /\ Own(m_message'.data) =>
          pc["payload"] = "copy" /\ m_message'.data = doing["payload"]
    BY <2>3, <2>4, Two DEF Doing, Own, Pushing
  <2> QED
    BY <2>1, <2>2, <2>5, SendingSame
<1>4. ASSUME NEW t \in Threads, Send(t) PROVE Sending'
  <2>1. m_message'.data = None /\ made' = made
    BY <1>4 DEF Send, Empty
  <2>2. pc'["payload"] = "copy" => pc["payload"] = "copy" /\ doing'["payload"] = doing["payload"]
    BY <1>4, Two DEF Send, TypeOK
  <2>3. CASE ~Intact
    BY <1>4, <2>1, <2>2, <2>3, SendingSame DEF Send
  <2>4. CASE Intact
    <3> DEFINE n == Len(wire)
               e == m_message.data
    <3>1. n \in Nat /\ DOMAIN wire = 1 .. n /\ DOMAIN wire' = 1 .. n + 1 /\ e \in Pushes
      BY <1>4, <2>4 DEF Send, Intact, TypeOK
    <3>2. (\A k \in 1 .. n : wire'[k] = wire[k]) /\ wire'[n + 1] = e
      BY <1>4, <2>4, <3>1 DEF Send, TypeOK
    <3>3. PICK u \in Threads : pc[u] = "send" /\ e = doing[u]
      BY <2>4 DEF Intact, Holding
    <3>4. e \in made
      BY <3>3 DEF Doing, Pushing
    <3>5. \A k \in DOMAIN wire : FromProcess(k) /\ Own(e) => Before(wire[k], e)
      BY <2>4 DEF Sending, Intact
    <3>6. Own(e) => u = "payload"
      BY <3>3, Two DEF Doing, Pushing
    <3> HIDE DEF n, e
    <3>7. \A k \in DOMAIN wire' :
            \/ k \in DOMAIN wire /\ wire'[k] = wire[k]
            \/ k = n + 1 /\ wire'[k] = e
      BY <3>1, <3>2
    <3>8. (\A k \in DOMAIN wire : wire[k] \in made)'
      BY <2>1, <3>4, <3>7 DEF Sending
    <3>9. ProcessInOrder'
      <4> SUFFICES ASSUME NEW j \in DOMAIN wire', NEW k \in DOMAIN wire', j < k,
                          Own(wire'[j]), Own(wire'[k])
                   PROVE  Before(wire'[j], wire'[k])
        BY DEF ProcessInOrder, FromProcess, Own, Before
      <4>1. j \in DOMAIN wire /\ wire'[j] = wire[j]
        BY <3>1, <3>7
      <4>2. CASE k = n + 1 /\ wire'[k] = e
        BY <3>5, <4>1, <4>2 DEF FromProcess, Own
      <4>3. CASE k \in DOMAIN wire /\ wire'[k] = wire[k]
        BY <4>1, <4>3 DEF Sending, ProcessInOrder, FromProcess, Own
      <4> QED
        BY <3>7, <4>2, <4>3
    <3>10. ASSUME NEW k \in DOMAIN wire', Own(wire'[k]), pc'["payload"] = "copy"
           PROVE  Before(wire'[k], doing'["payload"])
      <4>1. ~Own(e)
        BY <2>2, <3>3, <3>6, <3>10
      <4> QED
        BY <2>2, <3>7, <3>10, <4>1 DEF Sending, FromProcess, Own
    <3> QED
      BY <2>1, <3>8, <3>9, <3>10 DEF Sending, FromProcess, Own, Before
  <2> QED
    BY <2>3, <2>4
<1>5. CASE UNCHANGED <<pc, doing, made, m_message, wire>>
  BY <1>5, SendingSame
<1>6. ASSUME JobArrives \/ RunCommand \/ CommandEnds \/ NotStarted \/ Aside \/ UNCHANGED vars
      PROVE UNCHANGED <<pc, doing, made, m_message, wire>>
  BY <1>6, AsideSame DEF JobArrives, RunCommand, CommandEnds, NotStarted, pushvars, vars
<1> QED
  BY <1>1, <1>2, <1>3, <1>4, <1>5, <1>6, Steps

-----------------------------------------------------------------------------
(* What a push that meets no other can rely on.                            *)

\* What Once says of one push.
OnceFor(p) ==
  /\ \A t \in Threads : doing[t] = p => Alone(p, t)
  /\ (\A t \in Threads : doing[t] # p) => \E k \in DOMAIN wire : Arrivals(p) = {k}

\* A thread that enters with a push not made before.
LEMMA OnceEnter ==
  ASSUME TypeOK, Doing, Holding, Sending, Once,
         NEW t \in Threads, NEW q \in Pushes, Enter(t, q), ~Pushing(t), q \notin made
  PROVE  Once'
<1> DEFINE u == Other(t)
<1>0. u \in Threads /\ u # t /\ \A v \in Threads : v = t \/ v = u
  BY DEF Other, Threads
<1>1. /\ Pushing(t)' /\ doing'[t] = q /\ made' = made \cup {q} /\ pc'[t] = "copy"
      /\ pc'[u] = pc[u] /\ doing'[u] = doing[u] /\ doing[t] = None
      /\ wire' = wire /\ m_message' = [sized |-> t, data |-> None]
  BY <1>0, EnterDoing DEF Doing
<1>2. Pushing(u) => raced' = raced \cup {q, doing[u]}
  BY DEF Enter, Begin
<1>3. raced \subseteq raced'
  BY DEF Enter, Begin
<1> HIDE DEF u
<1>4. Pushing(u)' <=> Pushing(u)
  BY <1>1 DEF Pushing
<1>5. (Pushing("main") /\ Pushing("payload")
         => doing["main"] \in raced /\ doing["payload"] \in raced)'
  BY <1>0, <1>1, <1>2, <1>4, Two
<1>6. ASSUME NEW p \in made', p \notin raced'
      PROVE  /\ \A v \in Threads : doing'[v] = p => Alone(p, v)'
             /\ (\A v \in Threads : doing'[v] # p) => \E k \in DOMAIN wire' : Arrivals(p)' = {k}
  <2>1. Arrivals(p)' = Arrivals(p)
    BY <1>1 DEF Arrivals
  <2>2. CASE p = q
    <3>1. Arrivals(p) = {}
      BY <2>2 DEF Arrivals, Sending
    <3>2. doing[u] # q
      BY <1>0, NotNone DEF Doing
    <3>3. Alone(p, t)'
      BY <1>1, <2>1, <3>1 DEF Alone, Arrivals
    <3> QED
      BY <1>0, <1>1, <2>2, <3>2, <3>3
  <2>3. CASE p # q
    <3>1. p \in made /\ p \notin raced /\ p # None
      BY <1>1, <1>3, <1>6, <2>3, NotNone DEF TypeOK
    <3>2. doing'[u] # p
      BY <1>0, <1>1, <1>2, <1>6, <3>1 DEF Doing
    <3>3. (\A v \in Threads : doing'[v] # p) => \E k \in DOMAIN wire' : Arrivals(p)' = {k}
      BY <1>0, <1>1, <2>1, <3>1 DEF Once
    <3> QED
      BY <1>0, <1>1, <2>3, <3>2, <3>3
  <2> QED
    BY <2>2, <2>3
<1> QED
  BY <1>5, <1>6 DEF Once, Alone, Arrivals

\* An unraced push has no other thread beside it.
LEMMA UnracedAlone ==
  ASSUME TypeOK, Doing, Once, NEW p \in made, p \notin raced,
         NEW t \in Threads, doing[t] = p, NEW u \in Threads, Pushing(u)
  PROVE  u = t
<1>1. Pushing(t)
  BY NotNone DEF Doing, TypeOK
<1> QED
  BY <1>1, Two DEF Once

LEMMA OnceStep ==
  ASSUME TypeOK, Queueing, Doing, Holding, Sending, Once, [Next]_vars
  PROVE  Once'
<1>1. CASE MainBegins
  <2>1. PICK q \in Pushes : Enter("main", q) /\ pc["main"] = "idle" /\ ~Sound(q)
    BY <1>1, MainEnters
  <2>2. q \notin made /\ ~Pushing("main")
    BY <2>1 DEF Queueing, Pushing
  <2> QED
    BY <2>1, <2>2, OnceEnter, Two
<1>2. CASE TakePush
  <2>1. PICK q \in Pushes : q = Head(payloadq)
    BY <1>2 DEF TakePush, TypeOK
  <2>2. Enter("payload", q) /\ ~Pushing("payload")
    BY <1>2, <2>1 DEF TakePush, Pushing
  <2>3. q = payloadq[1] /\ 1 \in DOMAIN payloadq
    BY <1>2, <2>1 DEF TakePush, TypeOK
  <2>4. q \notin made
    BY <2>3, BeforeFacts DEF Queueing
  <2> QED
    BY <2>2, <2>4, OnceEnter, Two
<1>3. ASSUME NEW t \in Threads, Copy(t) PROVE Once'
  <2>1. \A v \in Threads : Pushing(v)' <=> Pushing(v)
    BY <1>3 DEF Copy, Pushing, TypeOK
  <2>2. UNCHANGED <<doing, made, raced, wire>>
    BY <1>3 DEF Copy
  <2>3. Pushing(t)
    BY <1>3 DEF Copy, Pushing
  <2>4. ASSUME NEW p \in made, p \notin raced, NEW v \in Threads, doing[v] = p
        PROVE  Alone(p, v)'
    <3>1. v = t
      BY <2>3, <2>4, UnracedAlone
    <3>2. Alone(p, t)
      BY <2>4, <3>1 DEF Once
    <3>3. m_message = [sized |-> t, data |-> None] /\ t # "none"
      BY <1>3, <3>2, Two DEF Copy, Alone
    <3>4. m_message' = [sized |-> t, data |-> p]
      BY <1>3, <2>4, <3>1, <3>3 DEF Copy, Empty
    <3>5. pc'[t] = "send"
      BY <1>3 DEF Copy, TypeOK
    <3> QED
      BY <2>2, <3>1, <3>2, <3>4, <3>5 DEF Alone, Arrivals
  <2>5. \A p \in made : p \notin raced /\ (\A v \in Threads : doing[v] # p) =>
          (\E k \in DOMAIN wire : Arrivals(p) = {k})
    BY DEF Once
  <2>6. (Pushing("main") /\ Pushing("payload")
           => doing["main"] \in raced /\ doing["payload"] \in raced)'
    BY <2>1, <2>2, Two DEF Once
  <2> QED
    BY <2>2, <2>4, <2>5, <2>6 DEF Once, Alone, Arrivals
<1>4. ASSUME NEW t \in Threads, Send(t) PROVE Once'
  <2>1. /\ ~Pushing(t)' /\ doing'[t] = None /\ pc[t] = "send" /\ Pushing(t)
        /\ UNCHANGED <<made, raced>>
        /\ \A u \in Threads : u # t => pc'[u] = pc[u] /\ doing'[u] = doing[u]
    BY <1>4 DEF Send, Pushing, TypeOK
  <2>2. ASSUME NEW p \in made, p \notin raced
        PROVE  /\ \A v \in Threads : doing'[v] = p => Alone(p, v)'
               /\ (\A v \in Threads : doing'[v] # p)
                    => \E k \in DOMAIN wire' : Arrivals(p)' = {k}
    <3>0. p \in Pushes /\ p # None
      BY NotNone DEF TypeOK
    <3>1. CASE doing[t] = p
      <4>1. Alone(p, t)
        BY <2>2, <3>1 DEF Once
      <4>2. m_message = [sized |-> t, data |-> p] /\ Arrivals(p) = {}
        BY <2>1, <4>1 DEF Alone
      <4>3. PushedBy(p) = t
        BY <2>1, <3>1, Two DEF Doing, PushedBy, Own
      <4>4. wire' = Append(wire, p)
        BY <1>4, <3>0, <4>2, <4>3 DEF Send, Intact
      <4>5. Arrivals(p)' = {Len(wire) + 1} /\ Len(wire) + 1 \in DOMAIN wire'
        <5>1. \A k \in DOMAIN wire : wire[k] # p
          BY <4>2 DEF Arrivals
        <5>2. \A k \in DOMAIN wire' : wire'[k] = p <=> k = Len(wire) + 1
          BY <4>4, <5>1 DEF TypeOK
        <5>3. Len(wire) + 1 \in DOMAIN wire'
          BY <4>4 DEF TypeOK
        <5> QED
          BY <5>2, <5>3 DEF Arrivals
      <4>6. \A v \in Threads : doing'[v] # p
        <5>1. ASSUME NEW v \in Threads, v # t PROVE doing[v] # p
          <6>1. ~Pushing(v)
            BY <2>2, <3>1, <5>1, UnracedAlone
          <6> QED
            BY <3>0, <6>1 DEF Doing
        <5> QED
          BY <2>1, <3>0, <5>1
      <4> QED
        BY <4>5, <4>6
    <3>2. CASE doing[t] # p
      <4>1. \A v \in Threads : doing[v] # p
        BY <2>1, <2>2, <3>2, UnracedAlone
      <4>2. \A v \in Threads : doing'[v] # p
        BY <2>1, <3>0, <4>1
      <4>3. m_message.data # p
        BY <3>0, <4>1 DEF Holding
      <4>4. Arrivals(p)' = Arrivals(p)
        BY <1>4, <4>3 DEF Send, Intact, Arrivals, TypeOK
      <4>5. PICK k \in DOMAIN wire : Arrivals(p) = {k}
        BY <2>2, <4>1 DEF Once
      <4>6. k \in DOMAIN wire'
        BY <1>4 DEF Send, Intact, TypeOK
      <4> QED
        BY <4>2, <4>4, <4>5, <4>6
    <3> QED
      BY <3>1, <3>2
  <2> QED
    BY <2>1, <2>2, Two DEF Once, Alone, Arrivals
<1>5. CASE UNCHANGED <<pc, doing, m_message, wire, made, raced>>
  BY <1>5 DEF Once, Alone, Arrivals, Pushing
<1>6. ASSUME JobArrives \/ RunCommand \/ CommandEnds \/ NotStarted \/ Aside \/ UNCHANGED vars
      PROVE UNCHANGED <<pc, doing, m_message, wire, made, raced>>
  BY <1>6, AsideSame DEF JobArrives, RunCommand, CommandEnds, NotStarted, pushvars, vars
<1> QED
  BY <1>1, <1>2, <1>3, <1>4, <1>5, <1>6, Steps

-----------------------------------------------------------------------------
(* Nothing is forgotten.                                                   *)

\* A push that has been handed on stays so.
LEMMA HandedStep ==
  ASSUME TypeOK, [Next]_vars, NEW p, Handed(p)
  PROVE  Handed(p)'
<1>1. ASSUME made \subseteq made', payloadq' = payloadq PROVE Handed(p)'
  BY <1>1 DEF Handed
<1>2. ASSUME NEW q \in Pushes, made' = made, payloadq' = Append(payloadq, q)
      PROVE  Handed(p)'
  <2>1. \A k \in DOMAIN payloadq : k \in DOMAIN payloadq' /\ payloadq'[k] = payloadq[k]
    BY <1>2 DEF TypeOK
  <2> QED
    BY <1>2, <2>1 DEF Handed
<1>3. CASE RunCommand
  <2>1. Receive("process", ran + 1) \in Pushes
    BY <1>3, PushTypes, ConstantsAssumption DEF RunCommand, TypeOK
  <2> QED
    BY <1>2, <1>3, <2>1 DEF RunCommand, pushvars
<1>4. ASSUME NEW r, Report(r), UNCHANGED made PROVE Handed(p)'
  <2>1. payloadq' = Append(payloadq, Terminate(ran, r))
    BY <1>4 DEF Report
  <2>2. \A k \in DOMAIN payloadq : k \in DOMAIN payloadq' /\ payloadq'[k] = payloadq[k]
    BY <2>1 DEF TypeOK
  <2> QED
    BY <1>4, <2>2 DEF Handed
<1>5. CASE CommandEnds \/ NotStarted
  BY <1>4, <1>5 DEF CommandEnds, NotStarted, pushvars
<1>6. CASE TakePush
  <2>1. made' = made \cup {Head(payloadq)} /\ payloadq' = Tail(payloadq) /\ payloadq # <<>>
    BY <1>6 DEF TakePush, Enter, Begin
  <2>2. CASE p \in made
    BY <2>1, <2>2 DEF Handed
  <2>3. ASSUME NEW k \in DOMAIN payloadq, payloadq[k] = p PROVE Handed(p)'
    <3>1. CASE k = 1
      BY <2>1, <2>3, <3>1 DEF TypeOK, Handed
    <3>2. CASE k # 1
      <4>1. k - 1 \in DOMAIN payloadq' /\ payloadq'[k - 1] = p
        BY <2>1, <2>3, <3>2 DEF TypeOK
      <4> QED
        BY <4>1 DEF Handed
    <3> QED
      BY <3>1, <3>2
  <2> QED
    BY <2>2, <2>3 DEF Handed
<1>7. CASE MainBegins
  <2>1. PICK q \in Pushes : Enter("main", q) /\ payloadq' = payloadq
    BY <1>7, MainEnters
  <2> QED
    BY <1>1, <2>1 DEF Enter, Begin
<1>8. CASE JobArrives \/ Aside \/ UNCHANGED vars \/ \E t \in Threads : Copy(t) \/ Send(t)
  BY <1>1, <1>8, AsideSame DEF JobArrives, Copy, Send, vars, pushvars
<1> QED
  BY <1>3, <1>5, <1>6, <1>7, <1>8, Steps

LEMMA HandedLast ==
  ASSUME TypeOK, NEW q, payloadq' = Append(payloadq, q)
  PROVE  Handed(q)'
<1>1. Len(payloadq) + 1 \in DOMAIN payloadq' /\ payloadq'[Len(payloadq) + 1] = q
  BY DEF TypeOK
<1> QED
  BY <1>1 DEF Handed

LEMMA OwingStep ==
  ASSUME TypeOK, Counting, Owing, [Next]_vars
  PROVE  Owing'
<1> USE ConstantsAssumption
<1>1. \A p : Handed(p) => Handed(p)'
  BY HandedStep
<1>2. ran \in Nat /\ acked \in Nat
  BY DEF TypeOK
<1>3. made \subseteq made'
  <2>1. CASE MainBegins
    BY <2>1, MainEnters DEF Enter, Begin
  <2>2. CASE TakePush
    BY <2>2 DEF TakePush, Enter, Begin
  <2>3. CASE Aside
    BY <2>3, AsideSame DEF pushvars
  <2> QED
    BY <2>1, <2>2, <2>3, Steps
    DEF JobArrives, RunCommand, CommandEnds, NotStarted, Copy, Send, vars, pushvars
<1>4. CASE RunCommand
  <2>1. /\ ran' = ran + 1 /\ acked' = acked /\ waiting' /\ ~waiting
        /\ payloadq' = Append(payloadq, Receive("process", ran + 1))
    BY <1>4 DEF RunCommand, Looping
  <2>2. \A q : q = Receive("process", ran + 1) => Handed(q)'
    BY <2>1, HandedLast
  <2>3. \A j \in 1 .. ran' : j \in 1 .. ran \/ j = ran + 1
    BY <1>2, <2>1
  <2>4. \A j \in 1 .. ran' : Handed(Receive("process", j))'
    BY <1>1, <2>1, <2>2, <2>3 DEF Owing
  <2>5. \A j \in 1 .. acked' : Receive("service", j) \in made'
    BY <1>3, <2>1 DEF Owing
  <2>6. \A j \in 1 .. ran : \E r \in 0 .. j : Handed(Terminate(j, r))'
    BY <1>1, <2>1 DEF Owing
  <2> QED
    BY <2>1, <2>3, <2>4, <2>5, <2>6 DEF Owing, Receive
<1>5. ASSUME NEW r \in 0 .. ran, Report(r), waiting, UNCHANGED <<ran, acked>>
      PROVE  Owing'
  <2>1. Handed(Terminate(ran, r))'
    BY <1>5, HandedLast DEF Report
  <2>2. \A j \in 1 .. ran : \E s \in 0 .. j : Handed(Terminate(j, s))'
    BY <1>1, <1>5, <2>1 DEF Owing
  <2>3. \A j \in 1 .. ran : Handed(Receive("process", j))'
    BY <1>1 DEF Owing
  <2>4. \A j \in 1 .. acked : Receive("service", j) \in made'
    BY <1>3 DEF Owing
  <2> QED
    BY <1>5, <2>2, <2>3, <2>4 DEF Owing
<1>6. CASE CommandEnds
  BY <1>2, <1>5, <1>6 DEF CommandEnds
<1>7. CASE NotStarted
  <2>1. m_output \in 0 .. ran
    BY DEF Counting, TypeOK
  <2> QED
    BY <1>5, <1>7, <2>1 DEF NotStarted
<1>8. CASE Acknowledge
  <2>1. /\ ran' = ran /\ waiting' = waiting /\ acked' = acked + 1
        /\ Receive("service", acked + 1) \in made'
    BY <1>8 DEF Acknowledge, Enter, Begin
  <2>2. \A j \in 1 .. acked' : j \in 1 .. acked \/ j = acked + 1
    BY <1>2, <2>1
  <2>3. \A j \in 1 .. acked' : Receive("service", j) \in made'
    BY <1>3, <2>1, <2>2 DEF Owing
  <2>4. \A j \in 1 .. ran : Handed(Receive("process", j))'
    BY <1>1 DEF Owing
  <2>5. \A j \in 1 .. ran : (waiting /\ j = ran) \/ \E s \in 0 .. j : Handed(Terminate(j, s))'
    BY <1>1 DEF Owing
  <2> QED
    BY <2>1, <2>3, <2>4, <2>5 DEF Owing
<1>9. ASSUME UNCHANGED <<ran, acked, waiting>> PROVE Owing'
  <2>1. \A j \in 1 .. acked : Receive("service", j) \in made'
    BY <1>3 DEF Owing
  <2>2. \A j \in 1 .. ran : Handed(Receive("process", j))'
    BY <1>1 DEF Owing
  <2>3. \A j \in 1 .. ran : (waiting /\ j = ran) \/ \E s \in 0 .. j : Handed(Terminate(j, s))'
    BY <1>1 DEF Owing
  <2> QED
    BY <1>9, <2>1, <2>2, <2>3 DEF Owing
<1>10. CASE Publish \/ ChildPushes
  BY <1>9, <1>10 DEF Publish, ChildPushes, jobvars
<1>11. CASE JobArrives \/ TakePush \/ Aside \/ UNCHANGED vars \/ \E t \in Threads : Copy(t) \/ Send(t)
  BY <1>9, <1>11, AsideSame DEF JobArrives, TakePush, Copy, Send, vars, jobvars
<1> QED
  BY <1>4, <1>6, <1>7, <1>8, <1>10, <1>11, Steps DEF MainBegins

-----------------------------------------------------------------------------
(* The theorems.                                                           *)

LEMMA Initially == Init => TypeOK /\ IInv
<1> SUFFICES ASSUME Init PROVE TypeOK /\ IInv
  OBVIOUS
<1> USE ConstantsAssumption DEF Init
<1>1. TypeOK
  <2>1. Empty \in [sized : Threads \cup {"none"}, data : Pushes \cup {None}]
    BY DEF Empty
  <2>2. payloadq \in Seq(Pushes) /\ wire \in Seq(Pushes)
    OBVIOUS
  <2>3. outputs \in 0 .. MaxOutputs /\ arrived \in 0 .. MaxJobs /\ ran \in 0 .. MaxJobs /\ acked \in 0 .. MaxJobs /\ m_output \in 0 .. MaxJobs
    OBVIOUS
  <2> QED
    BY <2>1, <2>2, <2>3 DEF TypeOK
<1>2. Counting
  BY Two DEF Counting, Pushing
<1>3. Queueing /\ Holding
  BY DEF Queueing, Holding, Empty
<1>4. Doing
  BY Two DEF Doing, Pushing
<1>5. Sending
  BY DEF Sending, ProcessInOrder
<1>6. Once
  BY Two DEF Once, Pushing
<1>7. Owing
  BY DEF Owing
<1> QED
  BY <1>1, <1>2, <1>3, <1>4, <1>5, <1>6, <1>7 DEF IInv

\* IInv is inductive: the order of the pushes of Process in its queue, in the
\* payload thread and on the wire, and m_message in the hands of one thread.
THEOREM Invariance == Spec => [](TypeOK /\ IInv)
<1>1. TypeOK /\ IInv /\ [Next]_vars => (TypeOK /\ IInv)'
  BY TypeStep, CountingStep, QueueingStep, DoingStep, HoldingStep, SendingStep, OnceStep,
     OwingStep DEF IInv
<1> QED
  BY Initially, <1>1, PTL DEF Spec

\* Every reachable state of a process worker is well typed: no queue, message or
\* counter of process.cpp holds anything else.
THEOREM TypeCorrect == Spec => []TypeOK
  BY Invariance, PTL

\* m_output at the time of a report is that of the last command that finished.
THEOREM ResultIsLastFinishedAlways == Spec => []ResultIsLastFinished
<1>1. IInv => ResultIsLastFinished
  BY DEF IInv, Queueing, Sound, ResultIsLastFinished
<1> QED
  BY <1>1, Invariance, PTL

\* The race of the two threads in Zpayload::push_payload damages no other push.
THEOREM UnracedArriveOnceAlways == Spec => []UnracedArriveOnce
<1>1. IInv => UnracedArriveOnce
  BY DEF IInv, Once, Alone, UnracedArriveOnce
<1> QED
  BY <1>1, Invariance, PTL

\* The pushes of Process arrive in order, whatever the main thread does.
THEOREM ProcessInOrderAlways == Spec => []ProcessInOrder
<1>1. IInv => ProcessInOrder
  BY DEF IInv, Sending
<1> QED
  BY <1>1, Invariance, PTL

\* Service acknowledges and publishes a job when its command is over.
THEOREM AcknowledgedWhenOverAlways == Spec => []AcknowledgedWhenOver
<1>1. TypeOK /\ IInv => AcknowledgedWhenOver
  <2> SUFFICES ASSUME TypeOK, IInv, NEW p \in made, p.by = "service"
               PROVE  /\ p.job < ran \/ ~waiting
                      /\ doing["main"] = p /\ Pushing("payload") => doing["payload"].job <= p.job
    BY DEF AcknowledgedWhenOver
  <2>1. p.job <= acked /\ p.job \in Nat /\ ran \in Nat /\ acked \in Nat
    BY ConstantsAssumption DEF IInv, Queueing, Sound, TypeOK, Pushes, Jobs
  <2>2. p.job < ran \/ ~waiting
    BY <2>1 DEF IInv, Counting
  <2>3. ASSUME doing["main"] = p, Pushing("payload")
        PROVE  doing["payload"].job <= p.job
    <3>1. Pushing("main")
      BY <2>3, NotNone, Two DEF IInv, Doing, TypeOK
    <3>2. p.job = ran
      BY <2>3, <3>1 DEF IInv, Counting
    <3>3. doing["payload"] \in made /\ Own(doing["payload"])
      BY <2>3, Two DEF IInv, Doing
    <3> QED
      BY <3>2, <3>3 DEF IInv, Queueing, Sound
  <2> QED
    BY <2>2, <2>3
<1> QED
  BY <1>1, Invariance, PTL

\* When the threads of the worker are at rest, Process has received and reported,
\* and Service acknowledged, every job that no command and no transfer holds up: the
\* safety half of JobReported, for any number of jobs.
THEOREM NothingForgottenAlways == Spec => []NothingForgotten
<1>1. TypeOK /\ IInv => NothingForgotten
  <2> SUFFICES ASSUME TypeOK, IInv, ~dead, ~Busy, NEW j \in 1 .. arrived, ~HeldUp(j)
               PROVE  /\ Settled(Receive("process", j))
                      /\ \E r \in 0 .. j : Settled(Terminate(j, r))
                      /\ (stage = "transfer" /\ acked < j) \/ Settled(Receive("service", j))
    BY DEF NothingForgotten
  <2>1. payloadq = <<>> /\ stage # "job" /\ \A t \in Threads : ~Pushing(t)
    BY DEF Busy
  <2>2. \A p \in made : Settled(p)
    <3> SUFFICES ASSUME NEW p \in made, p \notin raced PROVE Arrivals(p) # {}
      BY DEF Settled
    <3>1. \A t \in Threads : doing[t] # p
      BY <2>1, NotNone DEF IInv, Doing, TypeOK
    <3> QED
      BY <3>1 DEF IInv, Once
  <2>3. \A p : Handed(p) => Settled(p)
    BY <2>1, <2>2 DEF Handed
  <2>4. j \in Nat /\ ran \in Nat /\ acked \in Nat /\ arrived \in Nat /\ j >= 1 /\ j <= arrived
    BY ConstantsAssumption DEF TypeOK
  <2>5. (waiting => j < ran) /\ (stage = "transfer" => j <= ran)
    BY <2>4 DEF HeldUp
  <2>6. ~waiting /\ stage # "transfer" => arrived <= acked
    BY <2>1, <2>4, Two DEF Busy, Looping, Pushing, TypeOK
  <2>7. j \in 1 .. ran
    BY <2>4, <2>5, <2>6 DEF IInv, Counting
  <2>8. j \in 1 .. acked \/ (stage = "transfer" /\ acked < j)
    BY <2>4, <2>5, <2>6 DEF IInv, Counting
  <2> QED
    BY <2>2, <2>3, <2>5, <2>7, <2>8, <2>4 DEF IInv, Owing
<1> QED
  BY <1>1, Invariance, PTL
=============================================================================
