----------------------- MODULE PayloadSocketsProofs -----------------------
(* Theorems about PayloadSockets, for any number of messages and           *)
(* reconnections.                                                          *)
EXTENDS PayloadSockets, FiniteSetTheorems, TLAPS

-----------------------------------------------------------------------------
(* Type correctness.                                                       *)

LEMMA TypeStep == TypeOK /\ [Next]_vars => TypeOK'
<1> SUFFICES ASSUME TypeOK, [Next]_vars PROVE TypeOK'
  OBVIOUS
<1> USE BoundsAssumption DEF TypeOK, Sockets, Kinds, oldvars
<1>1. CASE Select
  BY <1>1 DEF Select, Readable
<1>2. ASSUME NEW s \in Sockets, NEW kind \in Kinds, Write(s, kind) PROVE TypeOK'
  <2>1. pipe \in [Sockets -> Seq(Kinds)] /\ Append(pipe[s], kind) \in Seq(Kinds)
    OBVIOUS
  <2>2. pipe' \in [Sockets -> Seq(Kinds)]
    <3>1. pipe' = [pipe EXCEPT ![s] = Append(@, kind)]
      BY <1>2 DEF Write
    <3> HIDE DEF TypeOK, Sockets, Kinds
    <3> QED
      BY <2>1, <3>1
  <2>3. /\ writes' \in [Sockets -> 0 .. MaxWrites]
        /\ jobs' \in [Sockets -> Nat]
    BY <1>2 DEF Write
  <2>4. signal' \in [Sockets -> BOOLEAN] /\ asleep' \in [Sockets -> BOOLEAN]
    BY <1>2 DEF Write
  <2>5. UNCHANGED <<enabled, pending, running, emitted, causes, hiccups, oldvars>>
    BY <1>2 DEF Write
  <2> QED
    BY <2>2, <2>3, <2>4, <2>5
<1>3. ASSUME NEW s \in Sockets, Hiccup(s) PROVE TypeOK'
  BY <1>3 DEF Hiccup
<1>4. ASSUME NEW s \in Sockets, Activate(s) PROVE TypeOK'
  BY <1>4 DEF Activate, Poll
<1>5. ASSUME NEW s \in Sockets, ReadNothing(s) PROVE TypeOK'
  BY <1>5 DEF ReadNothing, EndSlot
<1>6. ASSUME NEW s \in Sockets, ReadJob(s) PROVE TypeOK'
  BY <1>6 DEF ReadJob, Take
<1>7. ASSUME NEW s \in Sockets, ReadInvalid(s) PROVE TypeOK'
  BY <1>7 DEF ReadInvalid, Take
<1>8. ASSUME NEW s \in Sockets, ReadEmpty(s) PROVE TypeOK'
  BY <1>8 DEF ReadEmpty, Take, EndSlot
<1>9. CASE UNCHANGED vars
  BY <1>9 DEF vars
<1>10. CASE Replace
  BY <1>10 DEF Replace
<1>11. ASSUME NEW s \in Sockets, OldWrite(s) PROVE TypeOK'
  BY <1>11 DEF OldWrite
<1> QED
  BY <1>1, <1>2, <1>3, <1>4, <1>5, <1>6, <1>7, <1>8, <1>9, <1>10, <1>11 DEF Next, Loop

LEMMA TypeInit == Init => TypeOK
<1> SUFFICES ASSUME Init PROVE TypeOK
  OBVIOUS
<1>1. replaced \in BOOLEAN /\ stale \subseteq Sockets
  BY DEF Init
<1> QED
  BY <1>1, BoundsAssumption DEF Init, TypeOK

\* The state of the sockets and notifiers keeps its types and bounds.
THEOREM TypeCorrect == Spec => []TypeOK
BY TypeInit, TypeStep, PTL DEF Spec

-----------------------------------------------------------------------------
(* What leaves messages unread.                                            *)

\* A socket asleep has been read to the end, and a socket the thread will not
\* look at is asleep unless something has gone wrong.
Accounted(s) ==
  /\ asleep[s] => pipe[s] = <<>>
  /\ Idle(s) /\ ~asleep[s] => causes[s] # {}

IInv == TypeOK /\ \A s \in Sockets : Accounted(s)

LEMMA InvInit == Init => IInv
BY TypeInit DEF Init, IInv, Accounted, Idle

LEMMA AccountedStep == IInv /\ [Next]_vars => \A t \in Sockets : Accounted(t)'
<1> SUFFICES ASSUME IInv, [Next]_vars, NEW t \in Sockets PROVE Accounted(t)'
  OBVIOUS
<1> USE DEF IInv, TypeOK, Accounted, Idle, oldvars
<1>1. CASE Select
  BY <1>1 DEF Select, Readable
<1>2. ASSUME NEW s \in Sockets, NEW kind \in Kinds, Write(s, kind) PROVE Accounted(t)'
  BY <1>2 DEF Write
<1>3. ASSUME NEW s \in Sockets, Hiccup(s) PROVE Accounted(t)'
  BY <1>3 DEF Hiccup
<1>4. ASSUME NEW s \in Sockets, Activate(s) PROVE Accounted(t)'
  BY <1>4 DEF Activate, Poll
<1>5. ASSUME NEW s \in Sockets, ReadNothing(s) PROVE Accounted(t)'
  BY <1>5 DEF ReadNothing, EndSlot
<1>6. ASSUME NEW s \in Sockets, ReadJob(s) PROVE Accounted(t)'
  BY <1>6 DEF ReadJob, Take
<1>7. ASSUME NEW s \in Sockets, ReadInvalid(s) PROVE Accounted(t)'
  BY <1>7 DEF ReadInvalid, Take
<1>8. ASSUME NEW s \in Sockets, ReadEmpty(s) PROVE Accounted(t)'
  BY <1>8 DEF ReadEmpty, Take, EndSlot
<1>9. CASE UNCHANGED vars
  BY <1>9 DEF vars
<1>10. CASE Replace
  BY <1>10 DEF Replace
<1>11. ASSUME NEW s \in Sockets, OldWrite(s) PROVE Accounted(t)'
  BY <1>11 DEF OldWrite
<1> QED
  BY <1>1, <1>2, <1>3, <1>4, <1>5, <1>6, <1>7, <1>8, <1>9, <1>10, <1>11 DEF Next, Loop

THEOREM Invariance == Spec => []IInv
<1>1. IInv /\ [Next]_vars => IInv'
  BY TypeStep, AccountedStep DEF IInv
<1> QED
  BY <1>1, InvInit, PTL DEF Spec

\* Messages stay unread only after a stolen command or a message of size 0.
THEOREM DeafHasCauseAlways == Spec => []DeafHasCause
<1>1. IInv => DeafHasCause
  BY DEF IInv, Accounted, DeafHasCause, Deaf
<1> QED
  BY <1>1, Invariance, PTL

-----------------------------------------------------------------------------
(* A forgotten socket stays forgotten.                                     *)

LEMMA DeafStep ==
  ASSUME IInv, [Next]_vars, NEW t \in Sockets, Deaf(t),
         hiccups' = hiccups, UNCHANGED oldvars
  PROVE  Deaf(t)'
<1> USE DEF IInv, TypeOK, Accounted, Idle, Deaf, oldvars
<1>1. CASE Select
  BY <1>1 DEF Select, Readable
<1>2. ASSUME NEW s \in Sockets, NEW kind \in Kinds, Write(s, kind) PROVE Deaf(t)'
  BY <1>2 DEF Write
<1>3. ASSUME NEW s \in Sockets PROVE ~Hiccup(s)
  BY DEF Hiccup
<1>4. ASSUME NEW s \in Sockets, Activate(s) PROVE Deaf(t)'
  BY <1>4 DEF Activate, Poll
<1>5. ASSUME NEW s \in Sockets, ReadNothing(s) PROVE Deaf(t)'
  <2>1. s # t
    BY <1>5 DEF ReadNothing
  <2>2. signal'[t] = signal[t] /\ UNCHANGED <<pipe, pending>> /\ running' = "none"
    BY <1>5, <2>1 DEF ReadNothing, EndSlot
  <2>3. "none" # t
    BY DEF Sockets
  <2> QED
    BY <2>2, <2>3
<1>6. ASSUME NEW s \in Sockets, ReadJob(s) PROVE Deaf(t)'
  BY <1>6 DEF ReadJob, Take
<1>7. ASSUME NEW s \in Sockets, ReadInvalid(s) PROVE Deaf(t)'
  BY <1>7 DEF ReadInvalid, Take
<1>8. ASSUME NEW s \in Sockets, ReadEmpty(s) PROVE Deaf(t)'
  <2>1. s # t
    BY <1>8 DEF ReadEmpty
  <2>2. pipe'[t] = pipe[t] /\ UNCHANGED <<signal, pending>> /\ running' = "none"
    BY <1>8, <2>1 DEF ReadEmpty, Take, EndSlot
  <2>3. "none" # t
    BY DEF Sockets
  <2> QED
    BY <2>2, <2>3
<1>9. CASE UNCHANGED vars
  BY <1>9 DEF vars
<1>10. CASE Replace
  BY <1>10 DEF Replace
<1>11. ASSUME NEW s \in Sockets, OldWrite(s) PROVE Deaf(t)'
  BY <1>11 DEF OldWrite
<1> QED
  BY <1>1, <1>2, <1>3, <1>4, <1>5, <1>6, <1>7, <1>8, <1>9, <1>10, <1>11 DEF Next, Loop

\* Neither new messages nor the other socket's slot wake a forgotten socket,
\* as long as nothing reaches the socket it has replaced.
THEOREM DeafForGood == Spec => DeafStaysDeaf
<1>1. IInv /\ [Next]_vars
        => [\A s \in Sockets :
             Deaf(s) /\ hiccups' = hiccups /\ UNCHANGED oldvars => Deaf(s)']_vars
  BY DeafStep
<1> QED
  BY <1>1, Invariance, PTL DEF Spec, DeafStaysDeaf

-----------------------------------------------------------------------------
(* No job is lost or handed on twice.                                      *)

\* How many jobs wait in pipe q.
Waiting(q) == {k \in 1 .. Len(q) : q[k] = "job"}
Count(q) == Cardinality(Waiting(q))

LEMMA CountType ==
  ASSUME NEW q \in Seq(Kinds)
  PROVE  IsFiniteSet(Waiting(q)) /\ Count(q) \in Nat
<1>1. Len(q) \in Nat
  OBVIOUS
<1>2. IsFiniteSet(1 .. Len(q))
  BY <1>1, FS_Interval
<1>3. Waiting(q) \in SUBSET (1 .. Len(q))
  BY DEF Waiting
<1>4. IsFiniteSet(Waiting(q))
  BY <1>2, <1>3, FS_Subset
<1> QED
  BY <1>4, FS_CardinalityType DEF Count

LEMMA CountEmpty == Count(<<>>) = 0
<1>1. Waiting(<<>>) = {}
  BY DEF Waiting
<1> QED
  BY <1>1, FS_EmptySet DEF Count

\* A message that arrives adds itself.
LEMMA CountAppend ==
  ASSUME NEW q \in Seq(Kinds), NEW kind \in Kinds
  PROVE  Count(Append(q, kind)) = IF kind = "job" THEN Count(q) + 1 ELSE Count(q)
<1> DEFINE n == Len(q) + 1
           r == Append(q, kind)
<1>1. Len(q) \in Nat /\ Len(r) = n /\ r[n] = kind /\ \A k \in 1 .. Len(q) : r[k] = q[k]
  OBVIOUS
<1>2. 1 .. n = (1 .. Len(q)) \cup {n} /\ n \notin 1 .. Len(q)
  BY <1>1
<1>3. Waiting(r) = IF kind = "job" THEN Waiting(q) \cup {n} ELSE Waiting(q)
  BY <1>1, <1>2 DEF Waiting
<1>4. n \notin Waiting(q)
  BY <1>2 DEF Waiting
<1> HIDE DEF n, r
<1>5. Cardinality(Waiting(q) \cup {n}) = Cardinality(Waiting(q)) + 1
  BY <1>4, CountType, FS_AddElement
<1> QED
  BY <1>3, <1>5 DEF Count, r

\* The message that recv takes was counted once.
LEMMA CountTail ==
  ASSUME NEW q \in Seq(Kinds), q # <<>>
  PROVE  Count(q) = IF Head(q) = "job" THEN Count(Tail(q)) + 1 ELSE Count(Tail(q))
<1> DEFINE r == Tail(q)
           up == [k \in Waiting(r) |-> k + 1]
<1>1. /\ r \in Seq(Kinds) /\ Len(q) \in Nat /\ Len(r) \in Nat /\ Len(q) = Len(r) + 1
      /\ Head(q) = q[1] /\ \A k \in 1 .. Len(r) : r[k] = q[k + 1]
  OBVIOUS
<1>2. up \in Bijection(Waiting(r), Waiting(q) \ {1})
  <2>1. \A k \in Waiting(r) : k \in 1 .. Len(r) /\ up[k] = k + 1 /\ up[k] \in Waiting(q) \ {1}
    BY <1>1 DEF Waiting
  <2>2. \A j, k \in Waiting(r) : up[j] = up[k] => j = k
    BY <1>1, <2>1
  <2>3. ASSUME NEW j \in Waiting(q) \ {1} PROVE \E k \in Waiting(r) : up[k] = j
    <3>1. j - 1 \in 1 .. Len(r) /\ r[j - 1] = "job" /\ (j - 1) + 1 = j
      BY <1>1, <2>3 DEF Waiting
    <3>2. j - 1 \in Waiting(r)
      BY <3>1 DEF Waiting
    <3> QED
      BY <2>1, <3>1, <3>2
  <2>4. up \in [Waiting(r) -> Waiting(q) \ {1}]
    BY <2>1
  <2> HIDE DEF up
  <2> QED
    BY <2>2, <2>3, <2>4 DEF Bijection, Injection, IsInjective, Surjection
<1>3. Cardinality(Waiting(q) \ {1}) = Count(r) /\ IsFiniteSet(Waiting(r))
  <2>1. IsFiniteSet(Waiting(r))
    BY <1>1, CountType
  <2>2. ExistsBijection(Waiting(r), Waiting(q) \ {1})
    BY <1>2 DEF ExistsBijection
  <2> QED
    BY <2>1, <2>2, FS_Bijection DEF Count
<1>4. 1 \in Waiting(q) <=> Head(q) = "job"
  BY <1>1 DEF Waiting
<1>5. IsFiniteSet(Waiting(q)) /\ Cardinality(Waiting(q)) \in Nat /\ Count(r) \in Nat
  BY <1>1, CountType DEF Count
<1>6. Cardinality(Waiting(q) \ {1}) = IF 1 \in Waiting(q) THEN Cardinality(Waiting(q)) - 1
                                      ELSE Cardinality(Waiting(q))
  BY <1>5, FS_RemoveElement
<1> HIDE DEF r
<1> QED
  BY <1>3, <1>4, <1>5, <1>6 DEF Count, r

\* Every job has been handed on or waits in the pipe, and a notifier is disabled
\* only while its slot runs.
Conserved(s) == emitted[s] + Count(pipe[s]) = jobs[s] /\ (enabled[s] \/ running = s)

LEMMA ConservedStep ==
  ASSUME TypeOK, [Next]_vars, NEW t \in Sockets, Conserved(t)
  PROVE  Conserved(t)'
<1> USE DEF TypeOK, Conserved, oldvars
<1>0. /\ pipe[t] \in Seq(Kinds) /\ Count(pipe[t]) \in Nat
      /\ emitted[t] \in Nat /\ jobs[t] \in Nat
  BY CountType
<1>1. CASE Select
  BY <1>1 DEF Select
<1>2. ASSUME NEW s \in Sockets, NEW kind \in Kinds, Write(s, kind) PROVE Conserved(t)'
  <2>1. CASE s = t
    <3>1. /\ pipe'[t] = Append(pipe[t], kind) /\ emitted'[t] = emitted[t]
          /\ jobs'[t] = (IF kind = "job" THEN jobs[t] + 1 ELSE jobs[t])
          /\ enabled' = enabled /\ running' = running
      BY <1>2, <2>1 DEF Write
    <3>2. Count(pipe'[t]) = IF kind = "job" THEN Count(pipe[t]) + 1 ELSE Count(pipe[t])
      BY <1>0, <3>1, CountAppend
    <3> QED
      BY <1>0, <3>1, <3>2
  <2>2. CASE s # t
    BY <1>2, <2>2 DEF Write
  <2> QED
    BY <2>1, <2>2
<1>3. ASSUME NEW s \in Sockets, Hiccup(s) \/ OldWrite(s) PROVE Conserved(t)'
  BY <1>3 DEF Hiccup, OldWrite
<1>4. ASSUME NEW s \in Sockets, Activate(s) PROVE Conserved(t)'
  <2>1. t # "none"
    BY DEF Sockets
  <2>2. enabled[t] /\ UNCHANGED <<pipe, emitted, jobs>>
    BY <1>4, <2>1 DEF Activate
  <2>3. enabled'[t] \/ running' = t
    BY <1>4, <2>2 DEF Activate
  <2> QED
    BY <2>2, <2>3
<1>5. ASSUME NEW s \in Sockets, ReadNothing(s) PROVE Conserved(t)'
  BY <1>5 DEF ReadNothing, EndSlot
<1>6. ASSUME NEW s \in Sockets, running = s, pipe[s] # <<>>, Take(s),
             jobs' = jobs, EndSlot(s) \/ UNCHANGED <<running, enabled>>,
             emitted' = IF Head(pipe[s]) = "job"
                        THEN [emitted EXCEPT ![s] = @ + 1] ELSE emitted
      PROVE  Conserved(t)'
  <2>1. CASE s = t
    <3>1. pipe'[t] = Tail(pipe[t]) /\ jobs'[t] = jobs[t]
      BY <1>6, <2>1 DEF Take
    <3>2. emitted'[t] = IF Head(pipe[t]) = "job" THEN emitted[t] + 1 ELSE emitted[t]
      BY <1>6, <2>1
    <3>3. /\ Count(pipe[t]) = IF Head(pipe[t]) = "job" THEN Count(pipe'[t]) + 1 ELSE Count(pipe'[t])
          /\ Count(pipe'[t]) \in Nat
      <4>1. pipe[t] # <<>> /\ Tail(pipe[t]) \in Seq(Kinds)
        BY <1>0, <1>6, <2>1
      <4> QED
        BY <1>0, <3>1, <4>1, CountTail, CountType
    <3>4. enabled'[t] \/ running' = t
      BY <1>6, <2>1 DEF EndSlot
    <3> QED
      BY <1>0, <3>1, <3>2, <3>3, <3>4
  <2>2. CASE s # t
    <3>1. enabled'[t] = enabled[t] /\ enabled[t]
      BY <1>6, <2>2 DEF EndSlot
    <3>2. pipe'[t] = pipe[t] /\ emitted'[t] = emitted[t] /\ jobs'[t] = jobs[t]
      BY <1>6, <2>2 DEF Take
    <3> QED
      BY <3>1, <3>2
  <2> QED
    BY <2>1, <2>2
<1>7. ASSUME NEW s \in Sockets, ReadJob(s) \/ ReadInvalid(s) \/ ReadEmpty(s)
      PROVE  Conserved(t)'
  BY <1>6, <1>7 DEF ReadJob, ReadInvalid, ReadEmpty
<1>8. CASE Replace
  BY <1>8, CountEmpty DEF Replace
<1>9. CASE UNCHANGED vars
  BY <1>9 DEF vars
<1> QED
  BY <1>1, <1>2, <1>3, <1>4, <1>5, <1>7, <1>8, <1>9 DEF Next, Loop

LEMMA ConservedAlways == Spec => [](\A s \in Sockets : Conserved(s))
<1>1. Init => \A s \in Sockets : Conserved(s)
  BY CountEmpty DEF Init, Conserved
<1>2. TypeOK /\ (\A s \in Sockets : Conserved(s)) /\ [Next]_vars
        => (\A s \in Sockets : Conserved(s))'
  BY ConservedStep
<1> QED
  BY <1>1, <1>2, TypeCorrect, PTL DEF Spec

\* Whatever the thread does, no job is handed on twice, and it comes to rest only
\* when every job has been handed on but those of a forgotten socket: the safety
\* half of JobsHandedOn and StaleReadsAll.
THEOREM RestsWhenDoneAlways == Spec => []RestsWhenDone
<1>1. TypeOK /\ (\A s \in Sockets : Conserved(s)) => RestsWhenDone
  <2> SUFFICES ASSUME TypeOK, NEW s \in Sockets, Conserved(s)
               PROVE  /\ emitted[s] <= jobs[s]
                      /\ AtRest => emitted[s] = jobs[s] \/ Deaf(s)
    BY DEF RestsWhenDone
  <2>1. Count(pipe[s]) \in Nat /\ emitted[s] \in Nat /\ jobs[s] \in Nat
    BY CountType DEF TypeOK
  <2>2. emitted[s] <= jobs[s] /\ (pipe[s] = <<>> => emitted[s] = jobs[s])
    BY <2>1, CountEmpty DEF Conserved
  <2>3. AtRest /\ pipe[s] # <<>> => Deaf(s)
    BY DEF AtRest, Readable, Conserved, Deaf, Idle, Sockets
  <2> QED
    BY <2>2, <2>3
<1> QED
  BY <1>1, ConservedAlways, TypeCorrect, PTL
=============================================================================
