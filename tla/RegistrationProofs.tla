------------------------- MODULE RegistrationProofs -------------------------
(* Theorems about Registration, for every number of servers, worker type,  *)
(* set of responsive servers and bound.                                    *)
EXTENDS Registration, SequenceTheorems, TLAPS

-----------------------------------------------------------------------------
(* The inductive invariant.                                                *)

\* The constructor is sequential: the event loop starts once every server is
\* constructed and connected.
BootOrder ==
  /\ connected <= constructed
  /\ main # "boot" => connected = N

\* How many register requests may have been made of server i.
Budget(i) ==
  (IF i < constructed /\ WorkerType = "process" THEN 1 ELSE 0)
    + (IF main # "boot" THEN 1 ELSE 0)

\* The requests of tracker i: r registers, then only watchdogs.
RegistersFirst(i, r) ==
  /\ r <= Len(trackerq[i])
  /\ \A k \in 1 .. Len(trackerq[i]) : trackerq[i][k] \in Registers <=> k <= r
  /\ main = "boot" => r = Len(trackerq[i]) /\ call[i] # "watchdog"
  /\ call[i] = "watchdog" => r = 0

\* Grants, the register the tracker is blocked on and those still queued.
Spent(i, r) == granted[i] + (IF call[i] \in Registers THEN 1 ELSE 0) + r

Registering ==
  \A i \in Ncs : \E r \in Nat : RegistersFirst(i, r) /\ Spent(i, r) <= Budget(i)

\* Every grant reaches the payload thread once; a job strands only when a
\* second receiver has replaced the first.
Receiving ==
  \A i \in Ncs :
    /\ m_uuid[i] = granted[i]
    /\ Len(receivers[i]) + Len(payloadq[i]) = granted[i]
    /\ stranded[i] > 0 => Len(receivers[i]) > 1

\* In queue q every service_job comes after a launch.
Ordered(q) ==
  \A k \in 1 .. Len(q) :
    q[k] = "service_job" => \E l \in 1 .. k-1 : q[l] = "launch"
HasLaunch(q) == \E l \in 1 .. Len(q) : q[l] = "launch"

\* Until the first launch of a service worker its request is still queued, ahead
\* of every job.
LaunchQueued ==
  WorkerType = "service" /\ launches = 0 =>
    /\ Ordered(mainq)
    /\ (\E i \in Ncs : receivers[i] # <<>>) => HasLaunch(mainq)

IInv ==
  /\ TypeOK /\ BootOrder /\ Registering /\ Receiving
  /\ PushHasTarget /\ SingleServerSafe /\ LaunchQueued

-----------------------------------------------------------------------------
(* Type correctness.                                                       *)

LEMMA TypeInit == Init => TypeOK
BY ConstantsAssumption DEF Init, TypeOK, Ncs, Calls, Registers, Slots

LEMMA EarlyRegisterType == EarlyRegister \in Seq(Calls)
<1>1. <<"worker">> \in Seq(Calls) /\ <<>> \in Seq(Calls)
  BY DEF Calls, Registers
<1> QED
  BY <1>1 DEF EarlyRegister

LEMMA TypeStep == TypeOK /\ [Next]_vars => TypeOK'
<1> SUFFICES ASSUME TypeOK, [Next]_vars PROVE TypeOK'
  OBVIOUS
<1> USE ConstantsAssumption DEF TypeOK, Calls, Registers, Slots
<1>1. CASE Construct
  <2>1. EarlyRegister \in Seq(Calls)
    BY EarlyRegisterType
  <2>2. trackerq' \in [Ncs -> Seq(Calls)] /\ call' \in [Ncs -> Calls \cup {"none", "ping"}]
    BY <1>1, <2>1 DEF Construct
  <2> QED
    BY <1>1, <2>2 DEF Construct, payloadvars, servicevars
<1>2. CASE ConnectService
  BY <1>2 DEF ConnectService, trackervars, payloadvars, servicevars
<1>3. CASE Boot
  BY <1>3 DEF Boot, payloadvars, servicevars
<1>4. ASSUME NEW targets, Beat(targets) PROVE TypeOK'
  BY <1>4 DEF Beat, payloadvars, servicevars
<1>5. CASE ServiceWatchdog
  BY <1>4, <1>5 DEF ServiceWatchdog
<1>6. CASE Launch
  BY <1>6 DEF Launch, Dequeue, trackervars, payloadvars
<1>7. ASSUME NEW i \in Ncs, ServiceJob(i) PROVE TypeOK'
  BY <1>7 DEF ServiceJob, Dequeue, Push, trackervars, payloadvars
<1>8. CASE ProcessJob
  BY <1>8 DEF ProcessJob, Dequeue, trackervars, payloadvars, servicevars
<1>9. ASSUME NEW i \in Ncs, ChildOutput(i) PROVE TypeOK'
  BY <1>9 DEF ChildOutput, Push, trackervars, payloadvars
<1>10. CASE ChildDies
  BY <1>10 DEF ChildDies, trackervars, payloadvars
<1>11. CASE Quit \/ LoopEnds
  BY <1>11 DEF Quit, LoopEnds, trackervars, payloadvars, servicevars
<1>12. ASSUME NEW i \in Ncs, ProcessWatchdog(i) PROVE TypeOK'
  BY <1>4, <1>12 DEF ProcessWatchdog
<1>13. ASSUME NEW i \in Ncs, TrackerSend(i) PROVE TypeOK'
  BY <1>13 DEF TrackerSend, payloadvars, servicevars
<1>14. ASSUME NEW i \in Ncs, AnswerStatus(i) PROVE TypeOK'
  BY <1>14 DEF AnswerStatus, payloadvars, servicevars
<1>15. ASSUME NEW i \in Ncs, AnswerGrant(i) PROVE TypeOK'
  BY <1>15 DEF AnswerGrant, Grant, servicevars
<1>16. ASSUME NEW i \in Ncs, PayloadInit(i) PROVE TypeOK'
  <2>1. /\ receivers[i] \in Seq(Nat \ {0}) /\ payloadq[i] \in Seq(Nat \ {0})
        /\ payloadq[i] # <<>>
    BY <1>16 DEF PayloadInit
  <2>2. /\ Append(receivers[i], Head(payloadq[i])) \in Seq(Nat \ {0})
        /\ Tail(payloadq[i]) \in Seq(Nat \ {0})
    BY <2>1
  <2>3. receivers' \in [Ncs -> Seq(Nat \ {0})] /\ payloadq' \in [Ncs -> Seq(Nat \ {0})]
    <3>1. /\ receivers' = [receivers EXCEPT ![i] = Append(@, Head(payloadq[i]))]
          /\ payloadq' = [payloadq EXCEPT ![i] = Tail(@)]
      BY <1>16 DEF PayloadInit
    <3>2. receivers \in [Ncs -> Seq(Nat \ {0})] /\ payloadq \in [Ncs -> Seq(Nat \ {0})]
      OBVIOUS
    <3> HIDE DEF TypeOK
    <3> QED
      BY <2>2, <3>1, <3>2
  <2>4. mainq' \in Seq(Slots)
    BY <1>16 DEF PayloadInit, Emit
  <2>5. UNCHANGED <<main, constructed, connected, trackervars, stranded, servicevars,
                    jobs, beats>>
    BY <1>16 DEF PayloadInit
  <2> QED
    BY <2>3, <2>4, <2>5 DEF trackervars, servicevars
<1>17. ASSUME NEW i \in Ncs, NEW k \in DOMAIN receivers[i], JobArrives(i, k)
       PROVE TypeOK'
  <2>1. mainq' \in Seq(Slots)
    <3>1. <<"service_job">> \in Seq(Slots) /\ <<>> \in Seq(Slots)
      OBVIOUS
    <3>2. Append(mainq, "process_job") \in Seq(Slots) /\ mainq \in Seq(Slots)
      OBVIOUS
    <3> HIDE DEF Slots, TypeOK
    <3> DEFINE head == IF WorkerType = "process"
                       THEN Append(mainq, "process_job") ELSE mainq
               last == IF i < connected THEN <<"service_job">> ELSE <<>>
    <3>3. head \in Seq(Slots) /\ last \in Seq(Slots)
      BY <3>1, <3>2
    <3>4. mainq' = head \o last \/ mainq' = mainq
      BY <1>17 DEF JobArrives
    <3> HIDE DEF head, last
    <3> QED
      BY <3>2, <3>3, <3>4, ConcatProperties
  <2>2. stranded' \in [Ncs -> Nat]
    <3>1. stranded' = [stranded EXCEPT ![i] = @ + 1] \/ stranded' = stranded
      BY <1>17, Zenon DEF JobArrives
    <3>2. stranded \in [Ncs -> Nat]
      OBVIOUS
    <3> HIDE DEF TypeOK
    <3> QED
      BY <3>1, <3>2
  <2>3. jobs' \in 0 .. MaxJobs
    BY <1>17 DEF JobArrives
  <2>4. UNCHANGED <<main, constructed, connected, trackervars, payloadq,
                    receivers, servicevars, beats>>
    BY <1>17 DEF JobArrives
  <2> QED
    BY <2>1, <2>2, <2>3, <2>4 DEF trackervars, servicevars
<1>18. CASE UNCHANGED vars
  BY <1>18 DEF vars, trackervars, payloadvars, servicevars
<1> QED
  BY <1>1, <1>2, <1>3, <1>5, <1>6, <1>7, <1>8, <1>9, <1>10, <1>11, <1>12,
     <1>13, <1>14, <1>15, <1>16, <1>17, <1>18 DEF Next

\* Every queued call carries one of the actions, uuids and slots the code knows,
\* and the counters keep their bounds.
THEOREM TypeCorrect == Spec => []TypeOK
BY TypeInit, TypeStep, PTL DEF Spec

-----------------------------------------------------------------------------
(* The constructor and the register requests.                              *)

LEMMA BootOrderStep == TypeOK /\ BootOrder /\ [Next]_vars => BootOrder'
<1> SUFFICES ASSUME TypeOK, BootOrder, [Next]_vars PROVE BootOrder'
  OBVIOUS
<1>1. connected \in Nat /\ constructed \in Nat /\ N \in Nat
  BY ConstantsAssumption DEF TypeOK
<1>2. CASE Construct
  BY <1>1, <1>2 DEF Construct, BootOrder
<1>3. CASE ConnectService
  <2>1. main' = main /\ constructed' = constructed /\ connected' = connected + 1
    BY <1>3 DEF ConnectService
  <2>2. connected < constructed /\ constructed <= N
    BY <1>3 DEF ConnectService, TypeOK
  <2> QED
    BY <1>1, <2>1, <2>2 DEF BootOrder
<1>4. CASE Boot
  BY <1>4 DEF Boot, BootOrder
<1>5. CASE UNCHANGED <<constructed, connected>> /\ (main = "boot" => main' = "boot")
  BY <1>5 DEF BootOrder
<1> QED
  BY <1>2, <1>3, <1>4, <1>5
  DEF Next, vars, Looping, Beat, ServiceWatchdog, ProcessWatchdog, TrackerSend,
      AnswerStatus, AnswerGrant, Grant, PayloadInit, JobArrives, Launch,
      Dequeue, ServiceJob, ProcessJob, ChildOutput, ChildDies, Quit, LoopEnds

\* The actions that touch no tracker.
LEMMA QuietStep ==
  ASSUME [Next]_vars,
         ~Construct, ~Boot, ~ServiceWatchdog,
         \A i \in Ncs : ~ProcessWatchdog(i) /\ ~TrackerSend(i)
                         /\ ~AnswerStatus(i) /\ ~AnswerGrant(i)
  PROVE  /\ UNCHANGED <<constructed, trackerq, call, granted, m_uuid>>
         /\ (main = "boot") <=> (main' = "boot")
BY DEF Next, vars, trackervars, Looping, ConnectService, PayloadInit, JobArrives,
       Launch, Dequeue, ServiceJob, ProcessJob, ChildOutput, ChildDies, Quit, LoopEnds

\* A step that leaves server i and the phase of main alone keeps its part.
LEMMA SameServer ==
  ASSUME NEW i \in Ncs, NEW r \in Nat,
         RegistersFirst(i, r), Spent(i, r) <= Budget(i),
         trackerq'[i] = trackerq[i], call'[i] = call[i], granted'[i] = granted[i],
         constructed' = constructed, (main = "boot") <=> (main' = "boot")
  PROVE  RegistersFirst(i, r)' /\ Spent(i, r)' <= Budget(i)'
BY DEF RegistersFirst, Spent, Budget

LEMMA RegisteringStep ==
  TypeOK /\ BootOrder /\ Registering /\ [Next]_vars => Registering'
<1> SUFFICES ASSUME TypeOK, BootOrder, Registering, [Next]_vars, NEW i \in Ncs
             PROVE  \E r \in Nat : RegistersFirst(i, r)' /\ Spent(i, r)' <= Budget(i)'
  BY DEF Registering
<1> DEFINE P(r) == RegistersFirst(i, r)' /\ Spent(i, r)' <= Budget(i)'
<1>1. PICK r \in Nat : RegistersFirst(i, r) /\ Spent(i, r) <= Budget(i)
  BY DEF Registering
<1> DEFINE q == trackerq[i]
<1>2. /\ q \in Seq(Calls) /\ granted[i] \in Nat /\ i \in Nat /\ i < N
      /\ constructed \in Nat /\ connected \in Nat /\ N \in Nat
      /\ call[i] \in Calls \cup {"none", "ping"}
  BY ConstantsAssumption DEF TypeOK, Ncs
<1>3. /\ r <= Len(q)
      /\ \A k \in 1 .. Len(q) : q[k] \in Registers <=> k <= r
      /\ main = "boot" => r = Len(q) /\ call[i] # "watchdog"
      /\ call[i] = "watchdog" => r = 0
  BY <1>1 DEF RegistersFirst
<1>4. CASE Construct
  <2>1. CASE i = constructed
    <3>1. main = "boot" /\ main' = "boot" /\ constructed' = constructed + 1
      BY <1>4 DEF Construct
    <3>2. Budget(i) = 0
      BY <1>2, <2>1, <3>1 DEF Budget
    <3>3. granted[i] = 0 /\ granted'[i] = 0
      BY <1>1, <1>2, <3>2, <1>4 DEF Spent, Construct
    <3>4. trackerq'[i] = EarlyRegister /\ call'[i] = "ping"
      BY <1>4, <2>1 DEF Construct, TypeOK
    <3>5. CASE WorkerType = "process"
      <4>1. Budget(i)' = 1
        BY <3>1, <3>5, <2>1, <1>2 DEF Budget
      <4>2. trackerq'[i] = <<"worker">>
        BY <3>4, <3>5 DEF EarlyRegister
      <4>3. P(1)
        BY <3>1, <3>3, <3>4, <4>1, <4>2 DEF RegistersFirst, Spent, Registers
      <4> QED
        BY <4>3
    <3>6. CASE WorkerType # "process"
      <4>1. Budget(i)' = 0
        BY <3>1, <3>6 DEF Budget
      <4>2. trackerq'[i] = <<>>
        BY <3>4, <3>6 DEF EarlyRegister
      <4>3. P(0)
        BY <3>1, <3>3, <3>4, <4>1, <4>2 DEF RegistersFirst, Spent, Registers
      <4> QED
        BY <4>3
    <3> QED
      BY <3>5, <3>6
  <2>2. CASE i # constructed
    <3>1. /\ main = "boot" /\ main' = "boot" /\ constructed' = constructed + 1
          /\ trackerq'[i] = trackerq[i] /\ call'[i] = call[i]
          /\ granted'[i] = granted[i]
      BY <1>4, <2>2 DEF Construct, TypeOK
    <3>2. i < constructed <=> i < constructed'
      BY <1>2, <2>2, <3>1
    <3>3. P(r)
      BY <1>1, <3>1, <3>2 DEF RegistersFirst, Spent, Budget
    <3> QED
      BY <3>3
  <2> QED
    BY <2>1, <2>2
<1>5. CASE Boot
  <2>1. /\ main = "boot" /\ main' = "loop" /\ UNCHANGED <<constructed, call, granted>>
        /\ trackerq'[i] = Append(q, "service")
    BY <1>5 DEF Boot
  <2>2. r = Len(q) /\ call[i] # "watchdog"
    BY <1>3, <2>1
  <2>3. Len(trackerq'[i]) = r + 1
    BY <1>2, <2>1, <2>2
  <2>4. \A k \in 1 .. r + 1 : trackerq'[i][k] \in Registers
    <3> SUFFICES ASSUME NEW k \in 1 .. r + 1 PROVE trackerq'[i][k] \in Registers
      OBVIOUS
    <3>1. CASE k = r + 1
      BY <3>1, <1>2, <2>1, <2>2 DEF Registers
    <3>2. CASE k <= r
      BY <3>2, <1>2, <1>3, <2>1, <2>2
    <3> QED
      BY <3>1, <3>2
  <2>5. RegistersFirst(i, r + 1)'
    BY <2>1, <2>2, <2>3, <2>4 DEF RegistersFirst
  <2>6. Spent(i, r + 1)' = Spent(i, r) + 1 /\ Budget(i)' = Budget(i) + 1
    <3>1. Spent(i, r + 1)' = Spent(i, r) + 1
      <4> DEFINE c == IF call[i] \in Registers THEN 1 ELSE 0
      <4>1. c \in Nat /\ granted[i] \in Nat /\ r \in Nat
        BY <1>2
      <4>2. Spent(i, r + 1)' = granted[i] + c + (r + 1) /\ Spent(i, r) = granted[i] + c + r
        BY <2>1 DEF Spent
      <4> HIDE DEF c
      <4> QED
        BY <4>1, <4>2
    <3>2. Budget(i)' = Budget(i) + 1
      BY <1>2, <2>1 DEF Budget
    <3> QED
      BY <3>1, <3>2
  <2>7. Spent(i, r) \in Int /\ Budget(i) \in Int
    BY <1>2 DEF Spent, Budget
  <2>8. P(r + 1)
    BY <1>1, <2>5, <2>6, <2>7
  <2> QED
    BY <2>8
<1>6. ASSUME NEW targets, Beat(targets), main # "boot" PROVE \E x \in Nat : P(x)
  <2>1. /\ UNCHANGED <<main, constructed, call, granted>>
        /\ trackerq'[i] = q \/ trackerq'[i] = Append(q, "watchdog")
    BY <1>6 DEF Beat, trackervars
  <2>2. CASE trackerq'[i] = q
    BY <1>1, <2>1, <2>2, SameServer
  <2>3. CASE trackerq'[i] = Append(q, "watchdog")
    <3>1. Len(trackerq'[i]) = Len(q) + 1
      BY <1>2, <2>3
    <3>2. \A k \in 1 .. Len(q) + 1 : trackerq'[i][k] \in Registers <=> k <= r
      <4> SUFFICES ASSUME NEW k \in 1 .. Len(q) + 1
                   PROVE  trackerq'[i][k] \in Registers <=> k <= r
        OBVIOUS
      <4>1. CASE k = Len(q) + 1
        BY <4>1, <1>2, <1>3, <2>3 DEF Registers
      <4>2. CASE k <= Len(q)
        BY <4>2, <1>2, <1>3, <2>3
      <4> QED
        BY <4>1, <4>2, <1>2
    <3>3. P(r)
      BY <1>1, <1>2, <1>3, <1>6, <2>1, <3>1, <3>2 DEF RegistersFirst, Spent, Budget
    <3> QED
      BY <3>3
  <2> QED
    BY <2>1, <2>2, <2>3
<1>7. CASE ServiceWatchdog
  BY <1>6, <1>7 DEF ServiceWatchdog, Looping
<1>8. ASSUME NEW j \in Ncs, ProcessWatchdog(j) PROVE \E x \in Nat : P(x)
  BY <1>6, <1>8 DEF ProcessWatchdog, Looping
<1>9. ASSUME NEW j \in Ncs, TrackerSend(j) PROVE \E x \in Nat : P(x)
  <2>1. UNCHANGED <<main, constructed, granted>>
    BY <1>9 DEF TrackerSend
  <2>2. CASE j # i
    <3>1. trackerq'[i] = q /\ call'[i] = call[i]
      BY <1>9, <2>2 DEF TrackerSend, TypeOK
    <3> QED
      BY <1>1, <2>1, <3>1, SameServer
  <2>3. CASE j = i
    <3>1. /\ q # <<>> /\ trackerq'[i] = Tail(q) /\ call'[i] = q[1]
          /\ call[i] = "none"
      BY <1>9, <2>3 DEF TrackerSend, TypeOK
    <3>2. /\ Len(trackerq'[i]) = Len(q) - 1 /\ Len(q) \in Nat /\ Len(q) > 0
          /\ \A k \in 1 .. Len(q) - 1 : trackerq'[i][k] = q[k+1]
      BY <1>2, <3>1
    <3>3. CASE r = 0
      <4>1. q[1] \notin Registers
        BY <1>3, <3>2, <3>3
      <4>2. main # "boot"
        BY <1>3, <3>2, <3>3
      <4>3. RegistersFirst(i, 0)'
        BY <1>3, <2>1, <3>2, <3>3, <4>2 DEF RegistersFirst
      <4>4. Spent(i, 0)' = Spent(i, r) /\ Budget(i)' = Budget(i)
        BY <2>1, <3>1, <3>3, <4>1 DEF Spent, Budget, Registers
      <4>5. P(0)
        BY <1>1, <4>3, <4>4
      <4> QED
        BY <4>5
    <3>4. CASE r > 0
      <4>1. q[1] \in Registers
        BY <1>3, <3>2, <3>4
      <4>2. RegistersFirst(i, r - 1)'
        BY <1>3, <2>1, <3>1, <3>2, <3>4, <4>1 DEF RegistersFirst, Registers
      <4>3. Spent(i, r - 1)' = Spent(i, r) /\ Budget(i)' = Budget(i)
        BY <1>2, <2>1, <3>1, <3>4, <4>1 DEF Spent, Budget, Registers
      <4>4. P(r - 1) /\ r - 1 \in Nat
        BY <1>1, <3>4, <4>2, <4>3
      <4> QED
        BY <4>4
    <3> QED
      BY <3>3, <3>4
  <2> QED
    BY <2>2, <2>3
<1>10. ASSUME NEW j \in Ncs, AnswerStatus(j) PROVE \E x \in Nat : P(x)
  <2>1. /\ UNCHANGED <<main, constructed, granted, trackerq>>
        /\ call'[i] = call[i] \/ call'[i] = "none"
    BY <1>10 DEF AnswerStatus, TypeOK
  <2>2. RegistersFirst(i, r)'
    BY <1>3, <2>1 DEF RegistersFirst
  <2>3. Spent(i, r)' <= Budget(i)'
    BY <1>1, <1>2, <2>1 DEF Spent, Budget, Registers
  <2> QED
    BY <2>2, <2>3
<1>11. ASSUME NEW j \in Ncs, AnswerGrant(j) PROVE \E x \in Nat : P(x)
  <2>1. UNCHANGED <<main, constructed, trackerq>>
    BY <1>11 DEF AnswerGrant, Grant
  <2>2. CASE j # i
    <3>1. call'[i] = call[i] /\ granted'[i] = granted[i]
      BY <1>11, <2>2 DEF AnswerGrant, Grant, TypeOK
    <3> QED
      BY <1>1, <2>1, <3>1, SameServer
  <2>3. CASE j = i
    <3>1. /\ call[i] \in Registers /\ call'[i] = "none"
          /\ granted'[i] = granted[i] + 1
      BY <1>11, <2>3 DEF AnswerGrant, Grant, TypeOK
    <3>2. RegistersFirst(i, r)'
      BY <1>3, <2>1, <3>1 DEF RegistersFirst
    <3>3. Spent(i, r)' <= Budget(i)'
      BY <1>1, <1>2, <2>1, <3>1 DEF Spent, Budget, Registers
    <3> QED
      BY <3>2, <3>3
  <2> QED
    BY <2>2, <2>3
<1>12. CASE /\ ~Construct /\ ~Boot /\ ~ServiceWatchdog
            /\ \A j \in Ncs : ~ProcessWatchdog(j) /\ ~TrackerSend(j)
                            /\ ~AnswerStatus(j) /\ ~AnswerGrant(j)
  <2>1. /\ UNCHANGED <<constructed, trackerq, call, granted>>
        /\ (main = "boot") <=> (main' = "boot")
    BY <1>12, QuietStep
  <2> QED
    BY <1>1, <2>1, SameServer
<1> HIDE DEF P
<1> QED
  BY <1>4, <1>5, <1>7, <1>8, <1>9, <1>10, <1>11, <1>12 DEF P

-----------------------------------------------------------------------------
(* Grants, receivers and pushes.                                           *)

\* A job either queues calls for the main thread or strands on an old receiver.
LEMMA Arrival ==
  ASSUME NEW i \in Ncs, NEW k \in DOMAIN receivers[i], JobArrives(i, k)
  PROVE  /\ UNCHANGED <<main, constructed, connected, trackervars, payloadq,
                         receivers, servicevars, beats>>
         /\ \/ stranded' = stranded
            \/ /\ stranded' = [stranded EXCEPT ![i] = @ + 1]
               /\ mainq' = mainq
               /\ k # Len(receivers[i])
BY Zenon DEF JobArrives

LEMMA Moved ==
  ASSUME NEW s \in Seq(Nat \ {0}), NEW t \in Seq(Nat \ {0}), NEW g \in Nat,
         Len(s) + Len(t) = g
  PROVE  /\ Len(s) + (Len(t) + 1) = g + 1
         /\ (Len(s) + 1) + (Len(t) - 1) = g
         /\ Len(s) > 1 => Len(s) + 1 > 1
<1> DEFINE a == Len(s)
           b == Len(t)
<1>1. a \in Nat /\ b \in Nat /\ a + b = g
  OBVIOUS
<1> HIDE DEF a, b
<1>2. a + (b + 1) = g + 1 /\ (a + 1) + (b - 1) = g /\ (a > 1 => a + 1 > 1)
  BY <1>1
<1> QED
  BY <1>2 DEF a, b

LEMMA ReceivingStep == TypeOK /\ Receiving /\ [Next]_vars => Receiving'
<1> SUFFICES ASSUME TypeOK, Receiving, [Next]_vars, NEW i \in Ncs
             PROVE  /\ m_uuid'[i] = granted'[i]
                    /\ Len(receivers'[i]) + Len(payloadq'[i]) = granted'[i]
                    /\ stranded'[i] > 0 => Len(receivers'[i]) > 1
  BY DEF Receiving
<1>1. /\ m_uuid[i] = granted[i]
      /\ Len(receivers[i]) + Len(payloadq[i]) = granted[i]
      /\ stranded[i] > 0 => Len(receivers[i]) > 1
  BY DEF Receiving
<1>2. /\ receivers[i] \in Seq(Nat \ {0}) /\ payloadq[i] \in Seq(Nat \ {0})
      /\ granted[i] \in Nat
  BY DEF TypeOK
<1>3. ASSUME NEW j \in Ncs, AnswerGrant(j)
      PROVE  /\ m_uuid'[i] = granted'[i]
             /\ Len(receivers'[i]) + Len(payloadq'[i]) = granted'[i]
             /\ stranded'[i] > 0 => Len(receivers'[i]) > 1
  <2>1. UNCHANGED <<receivers, stranded>>
    BY <1>3 DEF AnswerGrant, Grant
  <2>2. CASE j = i
    <3>1. /\ granted'[i] = granted[i] + 1 /\ m_uuid'[i] = granted[i] + 1
          /\ payloadq'[i] = Append(payloadq[i], granted[i] + 1)
      BY <1>3, <2>2 DEF AnswerGrant, Grant, TypeOK
    <3>2. Len(payloadq'[i]) = Len(payloadq[i]) + 1
      BY <1>2, <3>1
    <3>3. Len(receivers[i]) + (Len(payloadq[i]) + 1) = granted[i] + 1
      BY <1>1, <1>2, Moved, Zenon
    <3>4. Len(receivers'[i]) + Len(payloadq'[i]) = granted'[i]
      BY <2>1, <3>1, <3>2, <3>3
    <3> QED
      BY <1>1, <2>1, <3>1, <3>4
  <2>3. CASE j # i
    <3>1. granted'[i] = granted[i] /\ m_uuid'[i] = m_uuid[i] /\ payloadq'[i] = payloadq[i]
      BY <1>3, <2>3 DEF AnswerGrant, Grant, TypeOK
    <3> QED
      BY <1>1, <2>1, <3>1
  <2> QED
    BY <2>2, <2>3
<1>4. ASSUME NEW j \in Ncs, PayloadInit(j)
      PROVE  /\ m_uuid'[i] = granted'[i]
             /\ Len(receivers'[i]) + Len(payloadq'[i]) = granted'[i]
             /\ stranded'[i] > 0 => Len(receivers'[i]) > 1
  <2>1. UNCHANGED <<granted, m_uuid, stranded>>
    BY <1>4 DEF PayloadInit, trackervars
  <2>2. CASE j = i
    <3>1. /\ payloadq[i] # <<>> /\ payloadq'[i] = Tail(payloadq[i])
          /\ receivers'[i] = Append(receivers[i], Head(payloadq[i]))
      BY <1>4, <2>2 DEF PayloadInit, TypeOK
    <3>2. /\ Len(payloadq'[i]) = Len(payloadq[i]) - 1
          /\ Len(receivers'[i]) = Len(receivers[i]) + 1
      BY <1>2, <3>1
    <3>3. /\ (Len(receivers[i]) + 1) + (Len(payloadq[i]) - 1) = granted[i]
          /\ Len(receivers[i]) > 1 => Len(receivers[i]) + 1 > 1
      <4> DEFINE a == Len(receivers[i])
                 b == Len(payloadq[i])
                 g == granted[i]
      <4>1. a \in Nat /\ b \in Nat /\ g \in Nat /\ a + b = g
        BY <1>1, <1>2, LenProperties
      <4> HIDE DEF a, b, g
      <4>2. (a + 1) + (b - 1) = g /\ (a > 1 => a + 1 > 1)
        BY <4>1
      <4> QED
        BY <4>2 DEF a, b, g
    <3>4. /\ Len(receivers'[i]) + Len(payloadq'[i]) = granted'[i]
          /\ stranded'[i] > 0 => Len(receivers'[i]) > 1
      BY <1>1, <2>1, <3>2, <3>3
    <3> QED
      BY <1>1, <2>1, <3>4
  <2>3. CASE j # i
    <3>1. receivers'[i] = receivers[i] /\ payloadq'[i] = payloadq[i]
      BY <1>4, <2>3 DEF PayloadInit, TypeOK
    <3> QED
      BY <1>1, <2>1, <3>1
  <2> QED
    BY <2>2, <2>3
<1>5. ASSUME NEW j \in Ncs, NEW k \in DOMAIN receivers[j], JobArrives(j, k)
      PROVE  /\ m_uuid'[i] = granted'[i]
             /\ Len(receivers'[i]) + Len(payloadq'[i]) = granted'[i]
             /\ stranded'[i] > 0 => Len(receivers'[i]) > 1
  <2>1. UNCHANGED <<granted, m_uuid, receivers, payloadq>>
    BY <1>5, Arrival DEF trackervars
  <2>2. stranded'[i] > 0 => Len(receivers[i]) > 1
    <3>1. CASE stranded' = stranded
      BY <1>1, <3>1
    <3>2. CASE stranded' = [stranded EXCEPT ![j] = @ + 1] /\ k # Len(receivers[j])
      <4>1. CASE j = i
        BY <1>2, <3>2, <4>1
      <4>2. CASE j # i
        BY <1>1, <3>2, <4>2 DEF TypeOK
      <4> QED
        BY <4>1, <4>2
    <3> QED
      BY <1>5, <3>1, <3>2, Arrival
  <2> QED
    BY <1>1, <2>1, <2>2
<1>6. CASE UNCHANGED <<granted, m_uuid, receivers, payloadq, stranded>>
  BY <1>1, <1>6
<1> QED
  BY <1>3, <1>4, <1>5, <1>6
  DEF Next, vars, trackervars, payloadvars, Construct, ConnectService, Boot, Beat,
      ServiceWatchdog, ProcessWatchdog, TrackerSend, AnswerStatus, Launch,
      Dequeue, ServiceJob, ProcessJob, ChildOutput, ChildDies, Quit, LoopEnds

LEMMA PayloadInitOpens ==
  ASSUME TypeOK, NEW i \in Ncs, PayloadInit(i)
  PROVE  /\ receivers'[i] # <<>>
         /\ \A j \in Ncs : j # i => receivers'[j] = receivers[j]
<1>1. receivers[i] \in Seq(Nat \ {0}) /\ receivers \in [Ncs -> Seq(Nat \ {0})]
  BY DEF TypeOK
<1>2. payloadq[i] \in Seq(Nat \ {0}) /\ payloadq[i] # <<>>
  BY DEF TypeOK, PayloadInit
<1>3. Head(payloadq[i]) \in Nat \ {0}
  BY <1>2
<1>4. Append(receivers[i], Head(payloadq[i])) # <<>>
  BY <1>1, <1>3
<1>5. receivers' = [receivers EXCEPT ![i] = Append(@, Head(payloadq[i]))]
  BY DEF PayloadInit
<1> QED
  BY <1>1, <1>4, <1>5

\* A receiver, once opened, stays in the list.
LEMMA ReceiversGrow ==
  ASSUME TypeOK, [Next]_vars, NEW i \in Ncs, receivers[i] # <<>>
  PROVE  receivers'[i] # <<>>
<1>1. ASSUME NEW j \in Ncs, PayloadInit(j) PROVE receivers'[i] # <<>>
  BY <1>1, PayloadInitOpens
<1>2. ASSUME NEW j \in Ncs, NEW k \in DOMAIN receivers[j], JobArrives(j, k)
      PROVE  receivers' = receivers
  BY <1>2, Arrival
<1>3. CASE UNCHANGED receivers
  BY <1>3
<1> QED
  BY <1>1, <1>2, <1>3
  DEF Next, vars, payloadvars, Construct, ConnectService, Boot, Beat,
      ServiceWatchdog, ProcessWatchdog, TrackerSend, AnswerStatus, AnswerGrant,
      Grant, Launch, Dequeue, ServiceJob, ProcessJob, ChildOutput, ChildDies, Quit, LoopEnds

LEMMA PushHasTargetStep ==
  TypeOK /\ PushHasTarget /\ [Next]_vars => PushHasTarget'
<1> SUFFICES ASSUME TypeOK, PushHasTarget, [Next]_vars,
                    mainq' # <<>> \/ launches' > 0 \/ child' # "none"
             PROVE  \E i \in Ncs : receivers'[i] # <<>>
  BY DEF PushHasTarget
<1>1. CASE \E i \in Ncs : receivers[i] # <<>>
  BY <1>1, ReceiversGrow
<1>2. ASSUME NEW i \in Ncs, PayloadInit(i) PROVE receivers'[i] # <<>>
  BY <1>2, PayloadInitOpens
<1>3. ASSUME NEW i \in Ncs, NEW k \in DOMAIN receivers[i], JobArrives(i, k)
      PROVE  receivers[i] # <<>>
  OBVIOUS
<1>4. CASE mainq = <<>> /\ ~(launches > 0) /\ child = "none"
           /\ UNCHANGED <<mainq, launches, child>>
  BY <1>4
<1> QED
  BY <1>1, <1>2, <1>3, <1>4
  DEF PushHasTarget, Next, vars, servicevars, Construct, ConnectService, Boot, Beat,
      ServiceWatchdog, ProcessWatchdog, TrackerSend, AnswerStatus, AnswerGrant,
      Grant, Launch, Dequeue, ServiceJob, ProcessJob, ChildOutput, ChildDies, Quit, LoopEnds

LEMMA SingleServerSafeStep ==
  TypeOK /\ PushHasTarget /\ SingleServerSafe /\ [Next]_vars => SingleServerSafe'
<1> SUFFICES ASSUME TypeOK, PushHasTarget, SingleServerSafe, [Next]_vars, N = 1
             PROVE  ~fault'
  BY DEF SingleServerSafe
<1>1. ~fault /\ \A i \in Ncs : i = 0
  BY DEF SingleServerSafe, Ncs
<1>2. ASSUME NEW j \in Ncs, Push(j), \E i \in Ncs : receivers[i] # <<>> PROVE ~fault'
  BY <1>1, <1>2 DEF Push
<1>3. ASSUME NEW j \in Ncs, ServiceJob(j) PROVE ~fault'
  BY <1>2, <1>3 DEF ServiceJob, Dequeue, PushHasTarget
<1>4. ASSUME NEW j \in Ncs, ChildOutput(j) PROVE ~fault'
  BY <1>2, <1>4 DEF ChildOutput, PushHasTarget
<1>5. CASE UNCHANGED fault
  BY <1>1, <1>5
<1>6. ASSUME NEW i \in Ncs, NEW k \in DOMAIN receivers[i], JobArrives(i, k)
      PROVE  UNCHANGED fault
  BY <1>6, Arrival DEF servicevars
<1> QED
  BY <1>3, <1>4, <1>5, <1>6
  DEF Next, vars, servicevars, Construct, ConnectService, Boot, Beat,
      ServiceWatchdog, ProcessWatchdog, TrackerSend, AnswerStatus, AnswerGrant,
      Grant, PayloadInit, Launch, ProcessJob, ChildDies, Quit, LoopEnds

-----------------------------------------------------------------------------
(* The order of launch and jobs in the queue of the main thread.           *)

LEMMA OrderedConcat ==
  ASSUME NEW q \in Seq(Slots), NEW t \in Seq(Slots), Ordered(q), HasLaunch(q)
  PROVE  Ordered(q \o t) /\ HasLaunch(q \o t)
<1>1. /\ Len(q) \in Nat /\ Len(t) \in Nat /\ Len(q \o t) = Len(q) + Len(t)
      /\ \A k \in 1 .. Len(q) + Len(t) :
           (q \o t)[k] = IF k <= Len(q) THEN q[k] ELSE t[k - Len(q)]
  BY ConcatProperties
<1>2. \A k \in 1 .. Len(q) : (q \o t)[k] = q[k] /\ k \in 1 .. Len(q \o t)
  BY <1>1
<1>3. PICK l \in 1 .. Len(q) : q[l] = "launch"
  BY DEF HasLaunch
<1>4. HasLaunch(q \o t)
  BY <1>2, <1>3 DEF HasLaunch
<1>5. ASSUME NEW k \in 1 .. Len(q \o t), (q \o t)[k] = "service_job"
      PROVE  \E m \in 1 .. k-1 : (q \o t)[m] = "launch"
  <2>1. CASE k <= Len(q)
    <3>1. k \in 1 .. Len(q) /\ q[k] = "service_job"
      BY <1>1, <1>2, <1>5, <2>1
    <3>2. PICK m \in 1 .. k-1 : q[m] = "launch"
      BY <3>1 DEF Ordered
    <3>3. m \in 1 .. Len(q)
      BY <1>1, <3>1, <3>2
    <3> QED
      BY <1>2, <3>2, <3>3
  <2>2. CASE Len(q) < k
    <3>1. l \in 1 .. k-1
      BY <1>1, <2>2
    <3> QED
      BY <1>2, <1>3, <3>1
  <2> QED
    BY <1>1, <2>1, <2>2
<1> QED
  BY <1>4, <1>5 DEF Ordered

LEMMA OrderedAppend ==
  ASSUME NEW q \in Seq(Slots), Ordered(q)
  PROVE  Ordered(Append(q, "launch")) /\ HasLaunch(Append(q, "launch"))
<1>1. /\ Len(Append(q, "launch")) = Len(q) + 1 /\ Len(q) \in Nat
      /\ \A k \in 1 .. Len(q) : Append(q, "launch")[k] = q[k]
      /\ Append(q, "launch")[Len(q) + 1] = "launch"
  OBVIOUS
<1>2. HasLaunch(Append(q, "launch"))
  BY <1>1 DEF HasLaunch
<1>3. ASSUME NEW k \in 1 .. Len(q) + 1, Append(q, "launch")[k] = "service_job"
      PROVE  \E l \in 1 .. k-1 : Append(q, "launch")[l] = "launch"
  <2>1. k \in 1 .. Len(q) /\ q[k] = "service_job"
    BY <1>1, <1>3
  <2>2. PICK l \in 1 .. k-1 : q[l] = "launch"
    BY <2>1 DEF Ordered
  <2>3. l \in 1 .. Len(q)
    BY <1>1, <2>1, <2>2
  <2> QED
    BY <1>1, <2>2, <2>3
<1> QED
  BY <1>1, <1>2, <1>3 DEF Ordered

LEMMA OrderedTail ==
  ASSUME NEW q \in Seq(Slots), q # <<>>, Head(q) # "launch", Ordered(q)
  PROVE  /\ Head(q) # "service_job"
         /\ Ordered(Tail(q))
         /\ HasLaunch(q) => HasLaunch(Tail(q))
<1>1. /\ Len(q) \in Nat /\ Len(q) > 0 /\ Head(q) = q[1] /\ Len(Tail(q)) = Len(q) - 1
      /\ \A k \in 1 .. Len(q) - 1 : Tail(q)[k] = q[k+1]
  OBVIOUS
<1>2. Head(q) # "service_job"
  BY <1>1 DEF Ordered
<1>3. \A m \in 1 .. Len(q) : q[m] = "launch" => m - 1 \in 1 .. Len(q) - 1 /\ Tail(q)[m-1] = "launch"
  BY <1>1
<1>4. HasLaunch(q) => HasLaunch(Tail(q))
  BY <1>1, <1>3 DEF HasLaunch
<1>5. ASSUME NEW k \in 1 .. Len(q) - 1, Tail(q)[k] = "service_job"
      PROVE  \E l \in 1 .. k-1 : Tail(q)[l] = "launch"
  <2>1. k + 1 \in 1 .. Len(q) /\ q[k+1] = "service_job"
    BY <1>1, <1>5
  <2>2. PICK m \in 1 .. (k+1)-1 : q[m] = "launch"
    BY <2>1 DEF Ordered
  <2>3. m \in 1 .. Len(q) /\ m - 1 \in 1 .. k-1
    BY <1>1, <1>3, <2>1, <2>2
  <2> QED
    BY <1>3, <2>2, <2>3
<1> QED
  BY <1>1, <1>2, <1>4, <1>5 DEF Ordered

\* A service worker that has been granted a uuid has left the constructor.
LEMMA GrantedAfterBoot ==
  ASSUME TypeOK, BootOrder, Registering, Receiving, WorkerType = "service",
         NEW i \in Ncs, payloadq[i] # <<>> \/ receivers[i] # <<>>
  PROVE  i < connected
<1>1. /\ receivers[i] \in Seq(Nat \ {0}) /\ payloadq[i] \in Seq(Nat \ {0})
      /\ granted[i] \in Nat /\ i < N
  BY ConstantsAssumption DEF TypeOK, Ncs
<1>2. granted[i] > 0
  <2> DEFINE a == Len(receivers[i])
             b == Len(payloadq[i])
  <2>1. a + b = granted[i]
    BY DEF Receiving
  <2>2. a \in Nat /\ b \in Nat /\ (a > 0 \/ b > 0)
    BY <1>1
  <2> HIDE DEF a, b
  <2> QED
    BY <1>1, <2>1, <2>2
<1>3. PICK r \in Nat : Spent(i, r) <= Budget(i)
  BY DEF Registering
<1>4. main # "boot"
  BY <1>1, <1>2, <1>3 DEF Spent, Budget
<1> QED
  BY <1>1, <1>4 DEF BootOrder

LEMMA LaunchQueuedStep ==
  TypeOK /\ BootOrder /\ Registering /\ Receiving /\ LaunchQueued /\ [Next]_vars
    => LaunchQueued'
<1> SUFFICES ASSUME TypeOK, BootOrder, Registering, Receiving, LaunchQueued,
                    [Next]_vars, WorkerType = "service", launches' = 0
             PROVE  /\ Ordered(mainq')
                    /\ (\E i \in Ncs : receivers'[i] # <<>>) => HasLaunch(mainq')
  <2>1. Ordered(mainq)' <=> Ordered(mainq')
    BY DEF Ordered
  <2>2. HasLaunch(mainq)' <=> HasLaunch(mainq')
    BY DEF HasLaunch
  <2> QED
    BY <2>1, <2>2 DEF LaunchQueued
<1>1. ~Launch
  BY DEF Launch, TypeOK
<1>2. ASSUME UNCHANGED launches
      PROVE  /\ launches = 0 /\ mainq \in Seq(Slots) /\ Ordered(mainq)
             /\ (\E i \in Ncs : receivers[i] # <<>>) => HasLaunch(mainq)
  BY <1>2 DEF LaunchQueued, TypeOK
<1>3. ASSUME NEW i \in Ncs, PayloadInit(i)
      PROVE  Ordered(mainq') /\ HasLaunch(mainq')
  <2>1. payloadq[i] # <<>> /\ mainq' = Emit(i, "launch") /\ UNCHANGED launches
    BY <1>3 DEF PayloadInit, servicevars
  <2>2. mainq' = Append(mainq, "launch")
    BY <2>1, GrantedAfterBoot DEF Emit
  <2> QED
    BY <1>2, <2>1, <2>2, OrderedAppend
<1>4. ASSUME NEW i \in Ncs, NEW k \in DOMAIN receivers[i], JobArrives(i, k)
      PROVE  Ordered(mainq') /\ HasLaunch(mainq')
  <2>1. receivers[i] # <<>> /\ UNCHANGED launches
    BY <1>4, Arrival DEF servicevars
  <2>2. mainq' = mainq \/ mainq' = mainq \o <<"service_job">>
    <3>1. i < connected
      BY <2>1, GrantedAfterBoot
    <3> QED
      BY <1>4, <3>1, Zenon DEF JobArrives
  <2>3. <<"service_job">> \in Seq(Slots)
    BY DEF Slots
  <2> QED
    BY <1>2, <2>1, <2>2, <2>3, OrderedConcat
<1>5. ASSUME NEW slot \in {"service_job", "process_job"}, Dequeue(slot),
             UNCHANGED <<launches, receivers>>
      PROVE  /\ Ordered(mainq')
             /\ (\E i \in Ncs : receivers'[i] # <<>>) => HasLaunch(mainq')
  <2>1. mainq # <<>> /\ Head(mainq) # "launch" /\ mainq' = Tail(mainq)
    BY <1>5 DEF Dequeue
  <2> QED
    BY <1>2, <1>5, <2>1, OrderedTail
<1>6. ASSUME NEW i \in Ncs, ServiceJob(i)
      PROVE  /\ Ordered(mainq')
             /\ (\E j \in Ncs : receivers'[j] # <<>>) => HasLaunch(mainq')
  BY <1>5, <1>6 DEF ServiceJob, payloadvars
<1>7. CASE ProcessJob
  BY <1>5, <1>7 DEF ProcessJob, payloadvars, servicevars
<1>8. CASE UNCHANGED <<launches, mainq, receivers>>
  BY <1>2, <1>8
<1> QED
  BY <1>1, <1>3, <1>4, <1>6, <1>7, <1>8
  DEF Next, vars, payloadvars, servicevars, Construct, ConnectService, Boot, Beat,
      ServiceWatchdog, ProcessWatchdog, TrackerSend, AnswerStatus, AnswerGrant,
      Grant, ChildOutput, ChildDies, Quit, LoopEnds

-----------------------------------------------------------------------------
(* The theorems.                                                           *)

LEMMA InvInit == Init => IInv
<1> SUFFICES ASSUME Init PROVE IInv
  OBVIOUS
<1>1. TypeOK
  BY TypeInit
<1>2. BootOrder
  BY DEF Init, BootOrder
<1>3. Registering
  <2> SUFFICES ASSUME NEW i \in Ncs
               PROVE  RegistersFirst(i, 0) /\ Spent(i, 0) <= Budget(i)
    BY DEF Registering
  <2>1. trackerq[i] = <<>> /\ call[i] = "none" /\ granted[i] = 0
    BY DEF Init
  <2>2. Budget(i) \in {0, 1}
    BY DEF Init, Budget
  <2> QED
    BY <2>1, <2>2 DEF RegistersFirst, Spent, Registers
<1>4. Receiving
  BY DEF Init, Receiving
<1>5. PushHasTarget /\ SingleServerSafe
  BY DEF Init, PushHasTarget, SingleServerSafe
<1>6. LaunchQueued
  BY DEF Init, LaunchQueued, Ordered, HasLaunch
<1> QED
  BY <1>1, <1>2, <1>3, <1>4, <1>5, <1>6 DEF IInv

LEMMA InvStep == IInv /\ [Next]_vars => IInv'
BY TypeStep, BootOrderStep, RegisteringStep, ReceivingStep, PushHasTargetStep,
   SingleServerSafeStep, LaunchQueuedStep DEF IInv

THEOREM Invariance == Spec => []IInv
BY InvInit, InvStep, PTL DEF Spec

\* Nothing is pushed, launched or queued for the main thread before some server
\* has an allocated m_message.
THEOREM PushHasTargetAlways == Spec => []PushHasTarget
BY Invariance, PTL DEF IInv

\* With one server no push meets the unset pointer m_message of Zpayload.
THEOREM SingleServerSafeAlways == Spec => []SingleServerSafe
BY Invariance, PTL DEF IInv

LEMMA LaunchComesFirst == IInv => JobAfterLaunch
<1> SUFFICES ASSUME IInv, WorkerType = "service", mainq # <<>>,
                    Head(mainq) = "service_job", ~(launches > 0)
             PROVE  FALSE
  BY DEF JobAfterLaunch
<1>1. launches = 0 /\ mainq \in Seq(Slots)
  BY DEF IInv, TypeOK
<1>2. Len(mainq) \in Nat /\ Len(mainq) > 0 /\ mainq[1] = "service_job"
  BY <1>1
<1>3. \E l \in 1 .. 1-1 : mainq[l] = "launch"
  BY <1>1, <1>2 DEF IInv, LaunchQueued, Ordered
<1> QED
  BY <1>3

LEMMA ReceiversCounted == IInv => ReceiverPerRegister
<1> SUFFICES ASSUME IInv, NEW i \in Ncs
             PROVE  /\ Len(receivers[i]) <= IF WorkerType = "process" THEN 2 ELSE 1
                    /\ stranded[i] > 0 => WorkerType = "process"
  BY DEF ReceiverPerRegister
<1>1. /\ receivers[i] \in Seq(Nat \ {0}) /\ payloadq[i] \in Seq(Nat \ {0})
      /\ granted[i] \in Nat
  BY DEF IInv, TypeOK
<1>2. PICK r \in Nat : Spent(i, r) <= Budget(i)
  BY DEF IInv, Registering
<1>3. granted[i] <= IF WorkerType = "process" THEN 2 ELSE 1
  BY <1>1, <1>2 DEF Spent, Budget
<1>4. Len(receivers[i]) <= granted[i]
  <2> DEFINE a == Len(receivers[i])
             b == Len(payloadq[i])
  <2>1. a \in Nat /\ b \in Nat
    BY <1>1
  <2>2. a + b = granted[i]
    BY DEF IInv, Receiving
  <2> HIDE DEF a, b
  <2>3. a <= granted[i]
    BY <1>1, <2>1, <2>2
  <2> QED
    BY <2>3 DEF a
<1>5. stranded[i] > 0 => Len(receivers[i]) > 1
  BY DEF IInv, Receiving
<1> QED
  BY <1>1, <1>3, <1>4, <1>5

LEMMA WatchdogsComeLast == IInv => WatchdogIdentifies
<1> SUFFICES ASSUME IInv, NEW i \in Ncs, call[i] = "watchdog"
             PROVE  /\ m_uuid[i] = granted[i]
                    /\ \A k \in DOMAIN trackerq[i] : trackerq[i][k] \notin Registers
  BY DEF WatchdogIdentifies
<1>1. PICK r \in Nat : RegistersFirst(i, r)
  BY DEF IInv, Registering
<1>2. r = 0 /\ \A k \in 1 .. Len(trackerq[i]) : trackerq[i][k] \in Registers <=> k <= r
  BY <1>1 DEF RegistersFirst
<1>3. DOMAIN trackerq[i] = 1 .. Len(trackerq[i]) /\ Len(trackerq[i]) \in Nat
  BY DEF IInv, TypeOK
<1>4. \A k \in 1 .. Len(trackerq[i]) : ~(k <= 0)
  BY <1>3
<1>5. m_uuid[i] = granted[i]
  BY DEF IInv, Receiving
<1> QED
  BY <1>2, <1>3, <1>4, <1>5

\* A service worker is launched before its first job, whatever the number of
\* servers and the order of their answers.
THEOREM LaunchFirst == Spec => []JobAfterLaunch
BY LaunchComesFirst, Invariance, PTL

\* init_payload opens one receiver for a service worker and at most two for a
\* process worker; a job strands only in process mode.
THEOREM ReceiverPerRegisterAlways == Spec => []ReceiverPerRegister
BY ReceiversCounted, Invariance, PTL

\* Every watchdog of every tracker names the last uuid granted, and no register
\* request is behind it.
THEOREM WatchdogIdentifiesAlways == Spec => []WatchdogIdentifies
BY WatchdogsComeLast, Invariance, PTL

\* The launch that a granted registration leads to is queued for the payload thread
\* or for the main thread until it runs.
GrantNotForgotten ==
  WorkerType = "service" =>
    \A i \in Ncs : granted[i] > 0 =>
      launches > 0 \/ payloadq[i] # <<>> \/ HasLaunch(mainq)

\* No registration of a service worker is forgotten between push_tracker and launch:
\* the safety half of GrantLeadsToLaunch, for any number of servers.
THEOREM GrantNotForgottenAlways == Spec => []GrantNotForgotten
<1>1. IInv => GrantNotForgotten
  <2> SUFFICES ASSUME IInv, WorkerType = "service", NEW i \in Ncs, granted[i] > 0,
                      ~(launches > 0), payloadq[i] = <<>>
               PROVE  HasLaunch(mainq)
    BY DEF GrantNotForgotten
  <2>1. launches = 0
    BY DEF IInv, TypeOK
  <2>2. Len(receivers[i]) + Len(payloadq[i]) = granted[i]
    BY DEF IInv, Receiving
  <2>3. receivers[i] # <<>>
    BY <2>2
  <2> QED
    BY <2>1, <2>3 DEF IInv, LaunchQueued
<1> QED
  BY <1>1, Invariance, PTL
=============================================================================
