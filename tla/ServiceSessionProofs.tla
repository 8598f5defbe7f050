------------------------- MODULE ServiceSessionProofs -------------------------
(* Theorems about ServiceSession, for every number of sessions, requests and *)
(* launches.                                                                 *)
EXTENDS ServiceSession, SequenceTheorems, FiniteSetTheorems, TLAPS

-----------------------------------------------------------------------------
(* What readyReadStandardOutput pushes.                                    *)

\* What a further connection of the slot makes of an empty chunk.
Blank == [action |-> "terminate", session |-> session, covers |-> {}]
Blanks == IF session = 0 THEN <<>> ELSE [c \in 1 .. conns - 1 |-> Terminate({})[1]]

LEMMA PushesType ==
  ASSUME NEW a \in {"receive", "publish", "push", "terminate"}, NEW s \in Sessions
  PROVE  /\ Pushes(a, s) \in Payload
         /\ Pushes(a, s).action = a /\ Pushes(a, s).session = s
BY DEF Pushes, Payload

LEMMA BlanksType ==
  ASSUME TypeOK
  PROVE  /\ Blanks \in Seq(Payload)
         /\ \A c \in 1 .. Len(Blanks) : Blanks[c] = Blank /\ session # 0 /\ conns > 1
<1>1. Blank \in Payload
  BY DEF Blank, Payload, TypeOK
<1>2. CASE session = 0
  BY <1>2 DEF Blanks
<1>3. CASE session # 0
  <2>1. Terminate({})[1] = Blank
    BY <1>3 DEF Terminate, Blank
  <2>2. conns - 1 \in Nat
    BY BoundsAssumption DEF TypeOK
  <2> DEFINE n == conns - 1
             f == [c \in 1 .. n |-> Blank]
  <2>3. Blanks = f
    BY <1>3, <2>1 DEF Blanks
  <2>4. f \in Seq(Payload) /\ Len(f) = n /\ \A c \in 1 .. n : f[c] = Blank
    <3> HIDE DEF n
    <3>1. n \in Nat /\ f \in [1 .. n -> Payload] /\ DOMAIN f = 1 .. n
      BY <1>1, <2>2 DEF n
    <3>2. f \in Seq(Payload)
      BY <3>1, SeqDef
    <3> HIDE DEF f
    <3>3. Len(f) \in Nat /\ DOMAIN f = 1 .. Len(f)
      BY <3>2, LenProperties
    <3>4. Len(f) = n
      BY <3>1, <3>3
    <3> QED
      BY <3>2, <3>4 DEF f
  <2>5. \A c \in 1 .. n : conns > 1
    BY <2>2 DEF TypeOK
  <2> QED
    BY <1>3, <2>3, <2>4, <2>5
<1> QED
  BY <1>2, <1>3

LEMMA CoveredType == TypeOK => Covered \subseteq Sessions
<1> SUFFICES ASSUME TypeOK, NEW k \in DOMAIN stdout PROVE stdout[k].for \in Sessions
  BY DEF Covered
<1>1. stdout \in Seq(Output)
  BY DEF TypeOK
<1>2. stdout[k] \in Output
  BY <1>1, LenProperties, ElementOfSeq
<1> QED
  BY <1>2 DEF Output

\* The first slot pushes nothing, a payload of the child, or a report.
LEMMA ReportKinds ==
  ASSUME TypeOK, NEW cut \in BOOLEAN
  PROVE  /\ Report(cut) \in Seq(Payload)
         /\ \/ Report(cut) = <<>>
            \/ Report(cut) = <<Pushes("push", 0)>> /\ Chunk(cut) = "push"
            \/ /\ Report(cut) = <<[action |-> "terminate", session |-> session,
                                   covers |-> Covered]>>
               /\ session # 0 /\ Chunk(cut) \notin {"push", "get_file"}
<1>1. Pushes("push", 0) \in Payload
  BY PushesType, BoundsAssumption DEF Sessions
<1>2. [action |-> "terminate", session |-> session, covers |-> Covered] \in Payload
  BY CoveredType DEF TypeOK, Payload
<1> QED
  BY <1>1, <1>2 DEF Report, Terminate

\* A chunk adds at most one report and the blanks behind what was pushed before.
LEMMA ReadPushes ==
  ASSUME TypeOK, NEW cut \in BOOLEAN, ReadOutput(cut)
  PROVE  /\ pushed' \in Seq(Payload)
         /\ Len(pushed') >= Len(pushed)
         /\ \A k \in 1 .. Len(pushed) : pushed'[k] = pushed[k]
         /\ \A k \in 1 .. Len(pushed') :
              \/ k <= Len(pushed)
              \/ k = Len(pushed) + 1 /\ Report(cut) # <<>> /\ pushed'[k] = Report(cut)[1]
              \/ k > Len(pushed) /\ pushed'[k] = Blank /\ session # 0 /\ conns > 1
<1> DEFINE p == pushed
           r == Report(cut)
           b == Blanks
<1>1. p \in Seq(Payload) /\ r \in Seq(Payload) /\ b \in Seq(Payload) /\ Len(r) \in {0, 1}
  BY BlanksType, ReportKinds DEF TypeOK
<1>2. pushed' = (p \o r) \o b
  BY DEF ReadOutput, Blanks
<1>3. \A c \in 1 .. Len(b) : b[c] = Blank /\ session # 0 /\ conns > 1
  BY BlanksType
<1>4. r # <<>> <=> Len(r) = 1
  BY <1>1
<1> DEFINE q == p \o r
<1>5. /\ q \in Seq(Payload) /\ Len(q) = Len(p) + Len(r)
      /\ \A k \in 1 .. Len(p) : q[k] = p[k]
      /\ \A k \in Len(p) + 1 .. Len(q) : q[k] = r[k - Len(p)]
  BY <1>1
<1> HIDE DEF p, r, b, q
<1>6. /\ q \o b \in Seq(Payload) /\ Len(q \o b) = Len(q) + Len(b)
      /\ \A k \in 1 .. Len(q) : (q \o b)[k] = q[k]
      /\ \A k \in Len(q) + 1 .. Len(q) + Len(b) : (q \o b)[k] = b[k - Len(q)]
  <2>1. Len(q) \in Nat /\ Len(b) \in Nat
    BY <1>1, <1>5, LenProperties
  <2>2. /\ q \o b \in Seq(Payload) /\ Len(q \o b) = Len(q) + Len(b)
        /\ \A k \in 1 .. Len(q) + Len(b) :
             (q \o b)[k] = IF k <= Len(q) THEN q[k] ELSE b[k - Len(q)]
    <3>1. q \in Seq(Payload) /\ b \in Seq(Payload)
      BY <1>1, <1>5
    <3> QED
      BY <3>1, ConcatProperties, Zenon
  <2>3. ASSUME NEW k \in 1 .. Len(q) PROVE (q \o b)[k] = q[k]
    <3>1. k \in 1 .. Len(q) + Len(b) /\ k <= Len(q)
      BY <2>1
    <3> QED
      BY <2>2, <3>1
  <2>4. ASSUME NEW k \in Len(q) + 1 .. Len(q) + Len(b)
        PROVE  (q \o b)[k] = b[k - Len(q)]
    <3>1. k \in 1 .. Len(q) + Len(b) /\ ~(k <= Len(q))
      BY <2>1
    <3> QED
      BY <2>2, <3>1
  <2> QED
    BY <2>2, <2>3, <2>4
<1>7. pushed' = q \o b
  BY <1>2 DEF q
<1>8. Len(p) \in Nat /\ Len(q) \in Nat /\ Len(b) \in Nat
  BY <1>1, <1>5
<1>9. ASSUME NEW k \in 1 .. Len(pushed')
      PROVE  \/ k <= Len(p)
             \/ k = Len(p) + 1 /\ r # <<>> /\ pushed'[k] = r[1]
             \/ k > Len(p) /\ pushed'[k] = Blank /\ session # 0 /\ conns > 1
  <2>1. CASE k <= Len(p)
    BY <2>1
  <2>2. CASE k > Len(p) /\ k <= Len(q)
    <3>1. Len(r) = 1 /\ k = Len(p) + 1
      BY <1>1, <1>5, <1>8, <2>2
    <3>2. pushed'[k] = r[k - Len(p)] /\ k - Len(p) = 1
      BY <1>5, <1>6, <1>7, <1>8, <2>2, <3>1
    <3> QED
      BY <1>4, <3>1, <3>2
  <2>3. CASE k > Len(q)
    <3>1. k \in Len(q) + 1 .. Len(q) + Len(b) /\ k - Len(q) \in 1 .. Len(b)
      BY <1>6, <1>7, <1>8, <2>3
    <3>2. pushed'[k] = b[k - Len(q)]
      BY <1>6, <1>7, <3>1
    <3>3. k > Len(p)
      BY <1>1, <1>5, <1>8, <2>3
    <3> QED
      BY <1>3, <3>1, <3>2, <3>3
  <2> QED
    BY <1>8, <2>1, <2>2, <2>3
<1>10. /\ pushed' \in Seq(Payload) /\ Len(pushed') >= Len(p)
       /\ \A k \in 1 .. Len(p) : pushed'[k] = p[k]
  BY <1>1, <1>5, <1>6, <1>7, <1>8
<1> QED
  BY <1>9, <1>10 DEF p, r

\* What a job adds are no reports.
LEMMA JobPushes ==
  ASSUME TypeOK, NEW kind \in JobKinds, JobReceive(kind)
  PROVE  /\ pushed' \in Seq(Payload) /\ Len(pushed') > Len(pushed)
         /\ \A k \in 1 .. Len(pushed) : pushed'[k] = pushed[k]
         /\ pushed'[Len(pushed) + 1].action = "receive"
         /\ pushed'[Len(pushed) + 1].session = session'
         /\ \A k \in 1 .. Len(pushed') :
              k > Len(pushed) => pushed'[k].action # "terminate"
<1> DEFINE p == pushed
           x == Pushes("receive", met + 1)
           y == Pushes("publish", met + 1)
<1>1. met + 1 \in Sessions
  BY BoundsAssumption DEF JobReceive, TypeOK, Sessions
<1>2. /\ x \in Payload /\ x.action = "receive" /\ x.session = met + 1
      /\ y \in Payload /\ y.action = "publish"
  BY <1>1, PushesType
<1>3. p \in Seq(Payload)
  BY DEF TypeOK
<1>4. \/ pushed' = (p \o <<x>>) \o <<y>>
      \/ pushed' = (p \o <<x>>) \o <<>>
  BY DEF JobReceive
<1>5. session' = met + 1
  BY DEF JobReceive
<1> HIDE DEF p, x, y
<1>6. /\ Append(p, x) \in Seq(Payload)
      /\ \A q \in Seq(Payload) : /\ q \o <<x>> = Append(q, x)
                                   /\ q \o <<y>> = Append(q, y)
                                   /\ q \o <<>> = q
  BY <1>2, <1>3, AppendIsConcat, ConcatEmptySeq
<1>7. pushed' = Append(p, x) \/ pushed' = Append(Append(p, x), y)
  BY <1>3, <1>4, <1>6
<1> DEFINE n == Len(p)
           q == Append(p, x)
           r == Append(q, y)
<1>8. /\ q \in Seq(Payload) /\ n \in Nat /\ Len(q) = n + 1
      /\ q[n + 1] = x /\ \A k \in 1 .. n : q[k] = p[k]
  BY <1>2, <1>3, AppendProperties, LenProperties
<1> HIDE DEF n, q
<1>9. /\ r \in Seq(Payload) /\ Len(r) = n + 2
      /\ r[n + 2] = y /\ r[n + 1] = x /\ \A k \in 1 .. n : r[k] = p[k]
  <2>1. /\ r \in Seq(Payload) /\ Len(r) = Len(q) + 1 /\ r[Len(q) + 1] = y
        /\ \A k \in 1 .. Len(q) : r[k] = q[k]
    BY <1>2, <1>8, AppendProperties
  <2> HIDE DEF r
  <2> QED
    BY <1>8, <2>1
<1> HIDE DEF r
<1>10. CASE pushed' = q
  BY <1>2, <1>5, <1>8, <1>10 DEF n, p
<1>11. CASE pushed' = r
  BY <1>2, <1>5, <1>8, <1>9, <1>11 DEF n, p
<1> QED
  BY <1>7, <1>10, <1>11 DEF q, r

-----------------------------------------------------------------------------
(* Type correctness.                                                       *)

LEMMA TypeInit == Init => TypeOK
<1>1. 0 \in Sessions /\ 0 \in 0 .. MaxRequests /\ 1 \in 1 .. MaxLaunches
  BY BoundsAssumption DEF Sessions
<1>2. \A S : <<>> \in Seq(S)
  BY EmptySeq
<1> QED
  BY <1>1, <1>2 DEF Init, TypeOK

LEMMA WriteType ==
  ASSUME TypeOK, NEW s \in Sessions, WriteLine(s) \/ WriteNothing
  PROVE  stdin' \in Seq(Sessions) /\ overlap' \in BOOLEAN
<1>1. overlap' \in BOOLEAN
  BY Zenon DEF TypeOK, WriteLine, WriteNothing
<1>2. stdin' \in Seq(Sessions)
  <2>1. stdin \in Seq(Sessions)
    BY DEF TypeOK
  <2>2. Append(stdin, s) \in Seq(Sessions)
    BY <2>1
  <2> QED
    BY <2>1, <2>2 DEF WriteLine, WriteNothing
<1> QED
  BY <1>1, <1>2

LEMMA TypeStep == TypeOK /\ [Next]_vars => TypeOK'
<1> SUFFICES ASSUME TypeOK, [Next]_vars PROVE TypeOK'
  OBVIOUS
<1> USE BoundsAssumption DEF TypeOK, Sessions
<1>1. ASSUME Launch PROVE TypeOK'
  <2>1. alive' \in {alive, TRUE} /\ crashed' \in {crashed, TRUE}
    BY <1>1 DEF Launch, ChildRuns, ChildRestarts, LaunchFails
  <2>2. conns' \in 1 .. MaxLaunches
    BY <1>1 DEF Launch
  <2> QED
    BY <1>1, <2>1, <2>2 DEF Launch
<1>2. ASSUME Written PROVE TypeOK'
  BY <1>2 DEF Written, childvars
<1>3. ASSUME NEW kind \in JobKinds, JobReceive(kind) PROVE TypeOK'
  <2>1. pushed' \in Seq(Payload)
    BY <1>3, JobPushes
  <2>2. met + 1 \in Sessions
    BY <1>3 DEF JobReceive
  <2>3. stdin' \in Seq(Sessions) /\ overlap' \in BOOLEAN
    <3>1. WriteLine(met + 1) \/ WriteNothing
      BY <1>3, Zenon DEF JobReceive
    <3> HIDE DEF TypeOK, Sessions
    <3> QED
      BY <2>2, <3>1, WriteType
  <2>4. writing' \in BOOLEAN /\ crashed' \in BOOLEAN
    BY <1>3, Zenon DEF JobReceive
  <2> QED
    BY <1>3, <2>1, <2>2, <2>3, <2>4 DEF JobReceive
<1>4. ASSUME NEW kind \in NoteKinds, NEW own \in BOOLEAN, Notify(kind, own) PROVE TypeOK'
  <2>1. met + 1 \in Sessions /\ 0 \in Sessions
    BY <1>4 DEF Notify
  <2>2. stdin' \in Seq(Sessions) /\ overlap' \in BOOLEAN
    <3>1. WriteLine(met + 1) \/ WriteLine(0) \/ WriteNothing
      BY <1>4 DEF Notify
    <3> HIDE DEF TypeOK, Sessions
    <3> QED
      BY <2>1, <3>1, WriteType
  <2>3. writing' \in BOOLEAN
    BY <1>4, Zenon DEF Notify
  <2> QED
    BY <1>4, <2>1, <2>2, <2>3 DEF Notify
<1>5. ASSUME NEW cut \in BOOLEAN, ReadOutput(cut) PROVE TypeOK'
  <2>1. pushed' \in Seq(Payload)
    BY <1>5, ReadPushes
  <2>2. glued' \in BOOLEAN /\ split' \in BOOLEAN
    BY <1>5, Zenon DEF ReadOutput
  <2>3. stdout[Len(stdout)] \in Output /\ Head(stdout) \in Output
    BY <1>5 DEF ReadOutput
  <2>4. stdout' \in Seq(Output)
    <3>1. [stdout[Len(stdout)] EXCEPT !.half = TRUE] \in Output
      BY <2>3 DEF Output
    <3> QED
      BY <1>5, <3>1 DEF ReadOutput, Unread
  <2>5. stdin' \in Seq(Sessions)
    <3>1. stdin \in Seq(Sessions) /\ Head(stdout).for \in Sessions
      BY <2>3 DEF Output
    <3>2. stdin' \in {stdin, Append(stdin, Head(stdout).for)}
      BY <1>5 DEF ReadOutput
    <3> HIDE DEF TypeOK, Sessions
    <3> QED
      BY <3>1, <3>2
  <2>6. UNCHANGED <<session, met, notified, writing, conns, crashed, buffer, work,
                    alive, overlap, requests>>
    BY <1>5 DEF ReadOutput
  <2> QED
    BY <2>1, <2>2, <2>4, <2>5, <2>6
<1>6. ASSUME ReadStdin PROVE TypeOK'
  <2>1. stdin' \in Seq(Sessions) /\ buffer' \in Seq(Sessions) /\ work' \in Seq(Sessions)
    <3>1. stdin \in Seq(Sessions) /\ buffer \in Seq(Sessions) /\ work \in Seq(Sessions)
      OBVIOUS
    <3> HIDE DEF TypeOK, Sessions
    <3>2. stdin # <<>>
      BY <1>6 DEF ReadStdin
    <3>3. /\ Head(stdin) \in Sessions /\ Tail(stdin) \in Seq(Sessions)
          /\ <<>> \in Seq(Sessions)
      BY <3>1, <3>2, HeadTailProperties, EmptySeq
    <3>4. CASE buffer = <<>>
      <4>1. work' = Append(work, Head(stdin)) /\ buffer' = Tail(stdin) /\ stdin' = <<>>
        BY <1>6, <3>4 DEF ReadStdin
      <4> QED
        BY <3>1, <3>3, <4>1
    <3>5. CASE buffer # <<>>
      <4>1. work' = Append(work, Head(buffer)) /\ buffer' = Tail(buffer) /\ stdin' = stdin
        BY <1>6, <3>5 DEF ReadStdin
      <4>2. Head(buffer) \in Sessions /\ Tail(buffer) \in Seq(Sessions)
        BY <3>1, <3>5, HeadTailProperties
      <4> QED
        BY <3>1, <4>1, <4>2
    <3> QED
      BY <3>4, <3>5
  <2>2. UNCHANGED <<session, met, notified, writing, conns, crashed, pushed, stdout,
                    alive, overlap, requests, glued, split>>
    BY <1>6 DEF ReadStdin
  <2> QED
    BY <2>1, <2>2
<1>7. ASSUME NEW kind \in Answers, work # <<>>
      PROVE  /\ [kind |-> kind, for |-> Head(work), half |-> FALSE] \in Output
             /\ Tail(work) \in Seq(Sessions)
  <2>1. Head(work) \in Sessions /\ Tail(work) \in Seq(Sessions)
    BY <1>7, HeadTailProperties
  <2> QED
    BY <2>1 DEF Output
<1>8. ASSUME Answer PROVE TypeOK'
  <2>1. [kind |-> "result", for |-> Head(work), half |-> FALSE] \in Output
    BY <1>7, <1>8 DEF Answer, Answers
  <2>2. work' \in Seq(Sessions)
    BY <1>7, <1>8 DEF Answer, Answers
  <2>3. stdout' \in Seq(Output)
    BY <1>8, <2>1 DEF Answer
  <2>4. UNCHANGED <<session, met, notified, writing, conns, crashed, pushed, stdin,
                    buffer, alive, overlap, requests, glued, split>>
    BY <1>8 DEF Answer
  <2> QED
    BY <2>2, <2>3, <2>4
<1>9. ASSUME NEW kind \in {"get_file", "push"}, Request(kind) PROVE TypeOK'
  <2>1. [kind |-> kind, for |-> Head(work), half |-> FALSE] \in Output
    BY <1>7, <1>9 DEF Request, Answers
  <2>2. work' \in Seq(Sessions)
    BY <1>7, <1>9 DEF Request, Answers
  <2>3. stdout' \in Seq(Output)
    BY <1>9, <2>1 DEF Request
  <2>4. requests' \in 0 .. MaxRequests
    BY <1>9 DEF Request
  <2>5. UNCHANGED <<session, met, notified, writing, conns, crashed, pushed, stdin,
                    buffer, alive, overlap, glued, split>>
    BY <1>9 DEF Request
  <2> QED
    BY <2>2, <2>3, <2>4, <2>5
<1>10. ASSUME ChildDies PROVE TypeOK'
  <2>1. stdin' \in Seq(Sessions) /\ buffer' \in Seq(Sessions) /\ work' \in Seq(Sessions)
    BY <1>10, EmptySeq DEF ChildDies
  <2>2. /\ alive' = FALSE
        /\ UNCHANGED <<session, met, notified, writing, conns, crashed, pushed, stdout,
                       overlap, requests, glued, split>>
    BY <1>10 DEF ChildDies
  <2> QED
    BY <2>1, <2>2
<1>11. ASSUME UNCHANGED vars PROVE TypeOK'
  BY <1>11 DEF vars, childvars
<1> QED
  BY <1>1, <1>2, <1>3, <1>4, <1>5, <1>6, <1>8, <1>9, <1>10, <1>11 DEF Next

\* The session, the pipes, the child's queues and the payloads pushed keep to the
\* values the code knows.
THEOREM TypeCorrect == Spec => []TypeOK
BY TypeInit, TypeStep, PTL DEF Spec

-----------------------------------------------------------------------------
(* The lines in the pipes and queues, as sets.                             *)

Vals(q) == {q[k] : k \in 1 .. Len(q)}

LEMMA ValsEmpty == Vals(<<>>) = {}
BY DEF Vals

LEMMA ValsAppend ==
  ASSUME NEW S, NEW q \in Seq(S), NEW x \in S
  PROVE  Vals(Append(q, x)) = Vals(q) \cup {x}
<1> DEFINE n == Len(q)
           r == Append(q, x)
<1>1. n \in Nat /\ Len(r) = n + 1 /\ r[n + 1] = x /\ \A k \in 1 .. n : r[k] = q[k]
  BY AppendProperties, LenProperties
<1> HIDE DEF r, n
<1>2. Vals(r) = {r[k] : k \in 1 .. n + 1}
  BY <1>1 DEF Vals
<1>3. 1 .. n + 1 = (1 .. n) \cup {n + 1}
  BY <1>1
<1>4. Vals(r) = {r[k] : k \in 1 .. n} \cup {r[n + 1]}
  BY <1>2, <1>3
<1>5. {r[k] : k \in 1 .. n} = {q[k] : k \in 1 .. n}
  BY <1>1
<1> QED
  BY <1>1, <1>4, <1>5 DEF Vals, n, r

LEMMA ValsTail ==
  ASSUME NEW S, NEW q \in Seq(S), q # <<>>
  PROVE  Vals(q) = Vals(Tail(q)) \cup {Head(q)}
<1> DEFINE n == Len(q)
           r == Tail(q)
<1>1. /\ n \in Nat /\ n > 0 /\ Len(r) = n - 1 /\ Head(q) = q[1]
      /\ \A k \in 1 .. n - 1 : r[k] = q[k + 1]
  <2>1. Len(r) = n - 1 /\ \A k \in 1 .. Len(r) : r[k] = q[k + 1]
    BY HeadTailProperties, Zenon
  <2>2. n \in Nat \ {0} /\ Head(q) = q[1]
    <3>1. n \in Nat \ {0}
      BY EmptySeq, Zenon
    <3>2. Head(q) = q[1]
      OBVIOUS
    <3> QED
      BY <3>1, <3>2
  <2> QED
    BY <2>1, <2>2
<1> HIDE DEF r, n
<1>2. Vals(r) = {r[k] : k \in 1 .. n - 1}
  BY <1>1 DEF Vals
<1>3. {r[k] : k \in 1 .. n - 1} = {q[k + 1] : k \in 1 .. n - 1}
  BY <1>1
<1>4. {q[k + 1] : k \in 1 .. n - 1} = {q[k] : k \in 2 .. n}
  <2>1. ASSUME NEW k \in 1 .. n - 1 PROVE q[k + 1] \in {q[j] : j \in 2 .. n}
    BY <1>1
  <2>2. ASSUME NEW k \in 2 .. n PROVE q[k] \in {q[j + 1] : j \in 1 .. n - 1}
    <3>1. k - 1 \in 1 .. n - 1 /\ q[(k - 1) + 1] = q[k]
      BY <1>1
    <3> QED
      BY <3>1
  <2> QED
    BY <2>1, <2>2
<1>5. 1 .. n = (2 .. n) \cup {1}
  BY <1>1
<1>6. {q[k] : k \in 1 .. n} = {q[k] : k \in 2 .. n} \cup {q[1]}
  BY <1>5
<1> QED
  BY <1>1, <1>2, <1>3, <1>4, <1>6 DEF Vals, n, r

\* The sessions of the answers in the pipe.
LEMMA CoveredAppend ==
  ASSUME TypeOK, NEW x \in Output, stdout' = Append(stdout, x)
  PROVE  Covered' = Covered \cup {x.for}
<1> DEFINE n == Len(stdout)
<1>1. /\ n \in Nat /\ DOMAIN stdout = 1 .. n /\ DOMAIN stdout' = 1 .. n + 1
      /\ stdout'[n + 1] = x /\ \A k \in 1 .. n : stdout'[k] = stdout[k]
  BY AppendProperties, LenProperties DEF TypeOK
<1> HIDE DEF n
<1>2. 1 .. n + 1 = (1 .. n) \cup {n + 1}
  BY <1>1
<1>3. Covered' = {stdout'[k].for : k \in 1 .. n} \cup {x.for}
  BY <1>1, <1>2 DEF Covered
<1>4. {stdout'[k].for : k \in 1 .. n} = {stdout[k].for : k \in 1 .. n}
  BY <1>1
<1> QED
  BY <1>1, <1>3, <1>4 DEF Covered

\* What is left in the pipe of a chunk was there.
LEMMA CoveredRead ==
  ASSUME TypeOK, NEW cut \in BOOLEAN, ReadOutput(cut)
  PROVE  /\ Covered' \subseteq Covered
         /\ Head(stdout).for \in Covered
         /\ ~cut => stdout' = <<>> /\ Covered' = {}
<1> DEFINE n == Len(stdout)
           x == [stdout[n] EXCEPT !.half = TRUE]
<1>1. stdout \in Seq(Output) /\ stdout # <<>> /\ n \in Nat /\ n > 0 /\ DOMAIN stdout = 1 .. n
  BY DEF ReadOutput, TypeOK
<1>2. stdout[n] \in Output /\ stdout[1] \in Output /\ Head(stdout) = stdout[1]
  BY <1>1
<1>3. x.for = stdout[n].for
  BY <1>2 DEF Output
<1>4. stdout' = <<x>> \/ (~cut /\ stdout' = <<>>)
  BY DEF ReadOutput, Unread
<1>5. ASSUME stdout' = <<x>> PROVE Covered' = {stdout[n].for}
  <2>1. DOMAIN stdout' = {1} /\ stdout'[1] = x
    BY <1>5
  <2> QED
    BY <1>3, <2>1 DEF Covered
<1>6. ASSUME stdout' = <<>> PROVE Covered' = {}
  BY <1>6 DEF Covered
<1>7. {stdout[n].for, stdout[1].for} \subseteq Covered
  BY <1>1 DEF Covered
<1>8. ~cut => stdout' = <<>>
  BY DEF ReadOutput, Unread
<1> QED
  BY <1>2, <1>4, <1>5, <1>6, <1>7, <1>8

LEMMA WriteVals ==
  ASSUME TypeOK, NEW s \in Sessions
  PROVE  /\ WriteLine(s) => Vals(stdin') \subseteq Vals(stdin) \cup {s}
         /\ WriteNothing => stdin' = stdin
<1>1. stdin \in Seq(Sessions)
  BY DEF TypeOK
<1>2. Vals(Append(stdin, s)) = Vals(stdin) \cup {s}
  BY <1>1, ValsAppend
<1> QED
  BY <1>2 DEF WriteLine, WriteNothing

LEMMA ReadStdinVals ==
  ASSUME TypeOK, ReadStdin
  PROVE  Vals(stdin') \cup Vals(buffer') \cup Vals(work')
           = Vals(stdin) \cup Vals(buffer) \cup Vals(work)
<1>1. /\ stdin \in Seq(Sessions) /\ buffer \in Seq(Sessions) /\ work \in Seq(Sessions)
      /\ stdin # <<>>
  BY DEF TypeOK, ReadStdin
<1>2. CASE buffer = <<>>
  <2>1. work' = Append(work, Head(stdin)) /\ buffer' = Tail(stdin) /\ stdin' = <<>>
    BY <1>2 DEF ReadStdin
  <2>2. Head(stdin) \in Sessions
    BY <1>1, HeadTailProperties
  <2>3. Vals(work') = Vals(work) \cup {Head(stdin)}
    BY <1>1, <2>1, <2>2, ValsAppend
  <2>4. Vals(stdin) = Vals(buffer') \cup {Head(stdin)}
    BY <1>1, <2>1, ValsTail
  <2> QED
    BY <1>2, <2>1, <2>3, <2>4, ValsEmpty
<1>3. CASE buffer # <<>>
  <2>1. work' = Append(work, Head(buffer)) /\ buffer' = Tail(buffer) /\ stdin' = stdin
    BY <1>3 DEF ReadStdin
  <2>2. Head(buffer) \in Sessions
    BY <1>1, <1>3, HeadTailProperties
  <2>3. Vals(work') = Vals(work) \cup {Head(buffer)}
    BY <1>1, <2>1, <2>2, ValsAppend
  <2>4. Vals(buffer) = Vals(buffer') \cup {Head(buffer)}
    BY <1>1, <1>3, <2>1, ValsTail
  <2> QED
    BY <2>1, <2>3, <2>4
<1> QED
  BY <1>2, <1>3

\* The child's answers and requests.
Reply(kind) ==
  /\ work # <<>>
  /\ stdout' = Append(stdout, [kind |-> kind, for |-> Head(work), half |-> FALSE])
  /\ work' = IF kind = "push" THEN work ELSE Tail(work)
  /\ UNCHANGED <<session, met, notified, conns, pushed, stdin, buffer, overlap, glued,
                 split>>

LEMMA Replies ==
  /\ Answer => Reply("result")
  /\ \A kind \in {"get_file", "push"} : Request(kind) => Reply(kind)
BY DEF Answer, Request, Reply

LEMMA ReplyVals ==
  ASSUME TypeOK, NEW kind \in Answers, Reply(kind)
  PROVE  /\ Head(work) \in Vals(work) /\ Head(work) \in Sessions
         /\ Vals(work) = Vals(Tail(work)) \cup {Head(work)}
         /\ Vals(work') \subseteq Vals(work)
         /\ Covered' = Covered \cup {Head(work)}
<1>1. work \in Seq(Sessions) /\ work # <<>>
  BY DEF TypeOK, Reply
<1>2. Head(work) \in Sessions /\ Vals(work) = Vals(Tail(work)) \cup {Head(work)}
  BY <1>1, ValsTail, HeadTailProperties
<1> DEFINE x == [kind |-> kind, for |-> Head(work), half |-> FALSE]
<1>3. x \in Output /\ x.for = Head(work)
  BY <1>2 DEF Output
<1>4. stdout' = Append(stdout, x)
  BY DEF Reply
<1> HIDE DEF x
<1>5. Covered' = Covered \cup {Head(work)}
  BY <1>3, <1>4, CoveredAppend
<1> QED
  BY <1>2, <1>5 DEF Reply

-----------------------------------------------------------------------------
(* The payloads pushed.                                                    *)

LEMMA PushedGrows ==
  ASSUME TypeOK, [Next]_vars
  PROVE  /\ pushed' \in Seq(Payload) /\ Len(pushed') >= Len(pushed)
         /\ \A k \in 1 .. Len(pushed) : pushed'[k] = pushed[k]
<1>1. pushed \in Seq(Payload) /\ Len(pushed) \in Nat
  BY DEF TypeOK
<1>2. CASE \E kind \in JobKinds : JobReceive(kind)
  BY <1>1, <1>2, JobPushes, TypeStep DEF TypeOK
<1>3. CASE \E cut \in BOOLEAN : ReadOutput(cut)
  BY <1>3, ReadPushes
<1>4. ASSUME ~\E kind \in JobKinds : JobReceive(kind),
             ~\E cut \in BOOLEAN : ReadOutput(cut)
      PROVE  pushed' = pushed
  BY <1>4 DEF Next, vars, Launch, Written, Notify, ReadStdin, Answer, Request, ChildDies
<1> QED
  BY <1>1, <1>2, <1>3, <1>4

\* A report is an old one, or made of what readyReadStandardOutput has just read.
NewReport(k, cut) ==
  /\ ReadOutput(cut)
  /\ k \in 1 .. Len(pushed') /\ k > Len(pushed)
  /\ session # 0 /\ pushed'[k].session = session
  /\ \/ pushed'[k].covers = {} /\ conns > 1
     \/ /\ pushed'[k].covers = Covered /\ k = Len(pushed) + 1
        /\ Chunk(cut) \notin {"push", "get_file"}

LEMMA Reports ==
  ASSUME TypeOK, [Next]_vars, NEW k \in Terminates'
  PROVE  \/ k \in Terminates /\ pushed'[k] = pushed[k]
         \/ \E cut \in BOOLEAN : NewReport(k, cut)
<1>1. /\ pushed \in Seq(Payload) /\ Len(pushed) \in Nat /\ DOMAIN pushed = 1 .. Len(pushed)
      /\ pushed' \in Seq(Payload) /\ Len(pushed') \in Nat
      /\ DOMAIN pushed' = 1 .. Len(pushed')
  BY PushedGrows DEF TypeOK
<1>2. k \in 1 .. Len(pushed') /\ pushed'[k].action = "terminate"
  BY <1>1 DEF Terminates
<1>3. CASE k <= Len(pushed)
  <2>1. k \in 1 .. Len(pushed)
    BY <1>1, <1>2, <1>3
  <2>2. pushed'[k] = pushed[k]
    BY <2>1, PushedGrows
  <2> QED
    BY <1>1, <1>2, <2>1, <2>2 DEF Terminates
<1>4. CASE k > Len(pushed)
  <2>1. pushed' # pushed
    BY <1>1, <1>2, <1>4
  <2>2. \A kind \in JobKinds : ~JobReceive(kind)
    BY <1>2, <1>4, JobPushes
  <2>3. PICK cut \in BOOLEAN : ReadOutput(cut)
    BY <2>1, <2>2
    DEF Next, vars, Launch, Written, Notify, ReadStdin, Answer, Request, ChildDies
  <2>4. \/ k = Len(pushed) + 1 /\ Report(cut) # <<>> /\ pushed'[k] = Report(cut)[1]
        \/ pushed'[k] = Blank /\ session # 0 /\ conns > 1
    BY <1>1, <1>2, <1>4, <2>3, ReadPushes
  <2>5. CASE pushed'[k] = Blank /\ session # 0 /\ conns > 1
    BY <1>2, <1>4, <2>3, <2>5 DEF NewReport, Blank
  <2>6. CASE k = Len(pushed) + 1 /\ Report(cut) # <<>> /\ pushed'[k] = Report(cut)[1]
    <3>1. \/ Report(cut) = <<Pushes("push", 0)>>
          \/ /\ Report(cut) = <<[action |-> "terminate", session |-> session,
                                 covers |-> Covered]>>
             /\ session # 0 /\ Chunk(cut) \notin {"push", "get_file"}
      BY <2>6, ReportKinds
    <3>2. Report(cut) # <<Pushes("push", 0)>>
      BY <1>2, <2>6 DEF Pushes
    <3> QED
      BY <1>2, <1>4, <2>3, <2>6, <3>1, <3>2 DEF NewReport
  <2> QED
    BY <2>4, <2>5, <2>6
<1> QED
  BY <1>1, <1>2, <1>3, <1>4

-----------------------------------------------------------------------------
(* No line is of a session that Service has not met.                       *)

Lines == Vals(stdin) \cup Vals(buffer) \cup Vals(work) \cup Covered

Bounded ==
  /\ session <= met
  /\ \A s \in Lines : s <= session
  /\ \A k \in Terminates : \A s \in pushed[k].covers : s <= session

LEMMA LinesType == TypeOK => Lines \subseteq Nat /\ session \in Nat /\ met \in Nat
<1> SUFFICES ASSUME TypeOK PROVE Lines \subseteq Nat /\ session \in Nat /\ met \in Nat
  OBVIOUS
<1>1. Sessions \subseteq Nat
  BY DEF Sessions
<1>2. /\ stdin \in Seq(Sessions) /\ buffer \in Seq(Sessions) /\ work \in Seq(Sessions)
      /\ session \in Sessions /\ met \in Sessions
  BY DEF TypeOK
<1>3. \A q \in Seq(Sessions) : Vals(q) \subseteq Sessions
  BY ElementOfSeq DEF Vals
<1>4. Covered \subseteq Sessions
  BY CoveredType
<1> QED
  BY <1>1, <1>2, <1>3, <1>4 DEF Lines

\* A step adds no line but for the session it meets, or for none.
LEMMA LinesStep ==
  ASSUME TypeOK, [Next]_vars
  PROVE  /\ Lines' \subseteq Lines \cup {0, session'}
         /\ \/ session' = session /\ met' \in {met, met + 1}
            \/ session' = met + 1 /\ met' = met + 1
<1> USE DEF Lines
<1>1. CASE Launch \/ Written \/ UNCHANGED vars
  BY <1>1 DEF Launch, Written, vars, childvars, Covered
<1>2. ASSUME NEW kind \in JobKinds, JobReceive(kind)
      PROVE  /\ Lines' \subseteq Lines \cup {0, session'}
             /\ session' = met + 1 /\ met' = met + 1
  <2>1. met + 1 \in Sessions
    BY <1>2, BoundsAssumption DEF JobReceive, TypeOK, Sessions
  <2>2. Vals(stdin') \subseteq Vals(stdin) \cup {met + 1}
    BY <1>2, <2>1, WriteVals DEF JobReceive
  <2> QED
    BY <1>2, <2>2 DEF JobReceive, Covered
<1>3. ASSUME NEW kind \in NoteKinds, NEW own \in BOOLEAN, Notify(kind, own)
      PROVE  /\ Lines' \subseteq Lines \cup {0, session'}
             /\ met' = met + 1 /\ session' \in {session, met + 1}
  <2>1. met + 1 \in Sessions /\ 0 \in Sessions
    BY <1>3, BoundsAssumption DEF Notify, TypeOK, Sessions
  <2>2. Vals(stdin') \subseteq Vals(stdin) \cup {IF own THEN met + 1 ELSE 0}
    BY <1>3, <2>1, WriteVals DEF Notify
  <2> QED
    BY <1>3, <2>2 DEF Notify, Covered
<1>4. ASSUME NEW cut \in BOOLEAN, ReadOutput(cut)
      PROVE  Lines' \subseteq Lines /\ session' = session /\ met' = met
  <2>1. Covered' \subseteq Covered /\ Head(stdout).for \in Covered /\ Covered \subseteq Sessions
    BY <1>4, CoveredRead, CoveredType
  <2>2. Vals(stdin') \subseteq Vals(stdin) \cup {Head(stdout).for}
    <3>1. stdin' \in {stdin, Append(stdin, Head(stdout).for)}
      BY <1>4 DEF ReadOutput
    <3>2. stdin \in Seq(Sessions) /\ Head(stdout).for \in Sessions
      BY <2>1 DEF TypeOK
    <3> QED
      BY <3>1, <3>2, ValsAppend
  <2> QED
    BY <1>4, <2>1, <2>2 DEF ReadOutput
<1>5. CASE ReadStdin
  BY <1>5, ReadStdinVals DEF ReadStdin, Covered
<1>6. ASSUME NEW kind \in Answers, Reply(kind)
      PROVE  Lines' \subseteq Lines /\ session' = session /\ met' = met
  BY <1>6, ReplyVals DEF Reply
<1>7. CASE ChildDies
  BY <1>7, ValsEmpty DEF ChildDies, Covered
<1> QED
  BY <1>1, <1>2, <1>3, <1>4, <1>5, <1>6, <1>7, Replies DEF Next, Answers

LEMMA BoundedStep == TypeOK /\ Bounded /\ [Next]_vars => Bounded'
<1> SUFFICES ASSUME TypeOK, Bounded, [Next]_vars PROVE Bounded'
  OBVIOUS
<1>1. /\ Lines' \subseteq Lines \cup {0, session'}
      /\ \/ session' = session /\ met' \in {met, met + 1}
         \/ session' = met + 1 /\ met' = met + 1
  BY LinesStep
<1>2. Lines \subseteq Nat /\ session \in Nat /\ met \in Nat
  BY LinesType
<1>3. session <= session' /\ session' <= met' /\ session' \in Nat
  BY <1>1, <1>2 DEF Bounded
<1>4. \A s \in Lines' : s <= session'
  BY <1>1, <1>2, <1>3 DEF Bounded
<1>5. ASSUME NEW k \in Terminates', NEW s \in pushed'[k].covers PROVE s <= session'
  <2>1. CASE k \in Terminates /\ pushed'[k] = pushed[k]
    <3>1. s \in Nat /\ s <= session
      <4>1. pushed[k] \in Payload
        BY <2>1 DEF TypeOK, Terminates
      <4> QED
        BY <1>5, <2>1, <4>1 DEF Bounded, Payload, Sessions
    <3> QED
      BY <1>2, <1>3, <3>1
  <2>2. ASSUME NEW cut \in BOOLEAN, NewReport(k, cut) PROVE s <= session'
    <3>1. s \in Covered
      BY <1>5, <2>2 DEF NewReport
    <3>2. s \in Nat /\ s <= session
      BY <1>2, <3>1 DEF Bounded, Lines
    <3> QED
      BY <1>2, <1>3, <3>2
  <2> QED
    BY <2>1, <2>2, Reports
<1> QED
  BY <1>3, <1>4, <1>5 DEF Bounded

\* Output reported now is of the session Service is at, or of an earlier one.
LEMMA NeverReportedBackStep ==
  TypeOK /\ Bounded /\ NeverReportedBack /\ [Next]_vars => NeverReportedBack'
<1> SUFFICES ASSUME TypeOK, Bounded, NeverReportedBack, [Next]_vars,
                    NEW k \in Terminates', NEW s \in pushed'[k].covers
             PROVE  s <= pushed'[k].session
  BY DEF NeverReportedBack
<1>1. CASE k \in Terminates /\ pushed'[k] = pushed[k]
  BY <1>1 DEF NeverReportedBack
<1>2. ASSUME NEW cut \in BOOLEAN, NewReport(k, cut) PROVE s <= pushed'[k].session
  BY <1>2 DEF NewReport, Bounded, Lines
<1> QED
  BY <1>1, <1>2, Reports

-----------------------------------------------------------------------------
(* A session is acknowledged before it is over.                            *)

\* The servers have been told of the session Service is at, unless it came with a
\* notification.
Acknowledged ==
  session # 0 =>
    \/ session \in notified
    \/ \E j \in 1 .. Len(pushed) :
         pushed[j].action = "receive" /\ pushed[j].session = session

LEMMA AcknowledgedStep == TypeOK /\ Acknowledged /\ [Next]_vars => Acknowledged'
<1> SUFFICES ASSUME TypeOK, Acknowledged, [Next]_vars PROVE Acknowledged'
  OBVIOUS
<1>1. /\ pushed' \in Seq(Payload) /\ Len(pushed') \in Nat /\ Len(pushed) \in Nat
      /\ Len(pushed') >= Len(pushed)
      /\ \A k \in 1 .. Len(pushed) : pushed'[k] = pushed[k]
  BY PushedGrows DEF TypeOK
<1>2. ASSUME NEW kind \in JobKinds, JobReceive(kind) PROVE Acknowledged'
  <2>1. /\ Len(pushed) + 1 \in 1 .. Len(pushed')
        /\ pushed'[Len(pushed) + 1].action = "receive"
        /\ pushed'[Len(pushed) + 1].session = session'
    BY <1>1, <1>2, JobPushes
  <2> QED
    BY <2>1 DEF Acknowledged
<1>3. ASSUME NEW kind \in NoteKinds, NEW own \in BOOLEAN, Notify(kind, own), own
      PROVE  Acknowledged'
  BY <1>3 DEF Notify, Acknowledged
<1>4. ASSUME session' = session, notified \subseteq notified' PROVE Acknowledged'
  <2>1. 1 .. Len(pushed) \subseteq 1 .. Len(pushed')
    BY <1>1
  <2> QED
    BY <1>1, <1>4, <2>1 DEF Acknowledged
<1>5. ASSUME NEW kind \in NoteKinds, NEW own \in BOOLEAN, Notify(kind, own), ~own
      PROVE  Acknowledged'
  BY <1>4, <1>5 DEF Notify
<1>6. CASE \/ Launch \/ Written \/ ReadStdin \/ Answer \/ ChildDies \/ UNCHANGED vars
           \/ \E cut \in BOOLEAN : ReadOutput(cut)
           \/ \E kind \in {"get_file", "push"} : Request(kind)
  BY <1>4, <1>6
  DEF Launch, Written, ReadOutput, ReadStdin, Answer, Request, ChildDies, vars
<1> QED
  BY <1>2, <1>3, <1>5, <1>6 DEF Next

LEMMA ReceivedFirstStep ==
  TypeOK /\ Acknowledged /\ ReceivedFirst /\ [Next]_vars => ReceivedFirst'
<1> SUFFICES ASSUME TypeOK, Acknowledged, ReceivedFirst, [Next]_vars,
                    NEW k \in Terminates'
             PROVE  \/ pushed'[k].session \in notified'
                    \/ \E j \in 1 .. k-1 : /\ pushed'[j].action = "receive"
                                          /\ pushed'[j].session = pushed'[k].session
  BY DEF ReceivedFirst
<1>1. /\ pushed' \in Seq(Payload) /\ Len(pushed') \in Nat /\ Len(pushed) \in Nat
      /\ Len(pushed') >= Len(pushed) /\ DOMAIN pushed = 1 .. Len(pushed)
      /\ \A j \in 1 .. Len(pushed) : pushed'[j] = pushed[j]
  BY PushedGrows DEF TypeOK
<1>2. notified \subseteq notified'
  BY DEF Next, vars, Launch, Written, JobReceive, Notify, ReadOutput, ReadStdin, Answer,
         Request, ChildDies
<1>3. CASE k \in Terminates /\ pushed'[k] = pushed[k]
  <2>1. k \in 1 .. Len(pushed)
    BY <1>1, <1>3 DEF Terminates
  <2>2. 1 .. k-1 \subseteq 1 .. Len(pushed)
    BY <1>1, <2>1
  <2>3. \/ pushed[k].session \in notified
        \/ \E j \in 1 .. k-1 :
             pushed[j].action = "receive" /\ pushed[j].session = pushed[k].session
    BY <1>3 DEF ReceivedFirst
  <2> QED
    BY <1>1, <1>2, <1>3, <2>2, <2>3
<1>4. ASSUME NEW cut \in BOOLEAN, NewReport(k, cut)
      PROVE  \/ pushed'[k].session \in notified'
             \/ \E j \in 1 .. k-1 : /\ pushed'[j].action = "receive"
                                   /\ pushed'[j].session = pushed'[k].session
  <2>1. /\ k \in 1 .. Len(pushed') /\ k > Len(pushed)
        /\ session # 0 /\ pushed'[k].session = session
    BY <1>4 DEF NewReport
  <2>2. 1 .. Len(pushed) \subseteq 1 .. k-1
    BY <1>1, <2>1
  <2> QED
    BY <1>1, <1>2, <2>1, <2>2 DEF Acknowledged
<1> QED
  BY <1>3, <1>4, Reports

-----------------------------------------------------------------------------
(* One job at a time.                                                      *)

\* While no job or notification has come before the answer to the one before it,
\* there is at most one line, of the session Service is at.
Serial ==
  ~overlap =>
    /\ buffer = <<>>
    /\ stdin = <<>> \/ (stdin = <<session>> /\ work = <<>>)
    /\ work = <<>> \/ (work = <<session>> /\ stdin = <<>>)
    /\ \A k \in 1 .. Len(stdout) :
         /\ stdout[k].for = session
         /\ stdout[k].kind = "get_file" => stdin = <<>> /\ work = <<>>

LEMMA SerialStep == TypeOK /\ Serial /\ [Next]_vars => Serial'
<1> SUFFICES ASSUME TypeOK, Serial, [Next]_vars, ~overlap' PROVE Serial'
  BY DEF Serial
<1>1. ~overlap
  BY DEF Next, vars, Launch, Written, JobReceive, Notify, WriteLine, WriteNothing,
         ReadOutput, ReadStdin, Answer, Request, ChildDies
<1>2. /\ buffer = <<>>
      /\ stdin = <<>> \/ (stdin = <<session>> /\ work = <<>>)
      /\ work = <<>> \/ (work = <<session>> /\ stdin = <<>>)
      /\ \A k \in 1 .. Len(stdout) :
           /\ stdout[k].for = session
           /\ stdout[k].kind = "get_file" => stdin = <<>> /\ work = <<>>
  BY <1>1 DEF Serial
<1>3. CASE Launch \/ Written \/ UNCHANGED vars
  BY <1>2, <1>3 DEF Launch, Written, vars, childvars, Serial
<1>4. ASSUME NEW s \in Sessions, WriteLine(s) \/ WriteNothing, s = session',
             UNCHANGED <<buffer, work, stdout>>
      PROVE  Serial'
  <2>1. stdin = <<>> /\ buffer = <<>> /\ work = <<>> /\ stdout = <<>>
    BY <1>4 DEF WriteLine, WriteNothing, Due
  <2>2. stdin' = <<>> \/ stdin' = <<session'>>
    BY <1>4, <2>1 DEF WriteLine, WriteNothing
  <2>3. Len(stdout') = 0
    BY <1>4, <2>1
  <2> QED
    BY <1>4, <2>1, <2>2, <2>3 DEF Serial
<1>5. ASSUME NEW kind \in JobKinds, JobReceive(kind) PROVE Serial'
  <2>1. session' = met + 1 /\ met + 1 \in Sessions
    BY <1>5, BoundsAssumption DEF JobReceive, TypeOK, Sessions
  <2>2. WriteLine(met + 1) \/ WriteNothing
    BY <1>5 DEF JobReceive
  <2>3. UNCHANGED <<buffer, work, stdout>>
    BY <1>5 DEF JobReceive
  <2> QED
    BY <1>4, <2>1, <2>2, <2>3
<1>6. ASSUME NEW kind \in NoteKinds, NEW own \in BOOLEAN, Notify(kind, own) PROVE Serial'
  <2>1. UNCHANGED <<buffer, work, stdout>> /\ session' \in Sessions
    BY <1>6, BoundsAssumption DEF Notify, TypeOK, Sessions
  <2>2. WriteLine(session') \/ WriteNothing
    <3>1. CASE own
      BY <1>6, <3>1 DEF Notify
    <3>2. CASE ~own
      BY <1>6, <3>2 DEF Notify, WriteLine
    <3> QED
      BY <3>1, <3>2
  <2> QED
    BY <1>4, <2>1, <2>2
<1>7. ASSUME NEW cut \in BOOLEAN, ReadOutput(cut) PROVE Serial'
  <2>1. /\ stdout \in Seq(Output) /\ stdout # <<>> /\ Len(stdout) \in 1 .. Len(stdout)
        /\ 1 \in 1 .. Len(stdout) /\ Head(stdout) = stdout[1]
    BY <1>7 DEF ReadOutput, TypeOK
  <2>2. UNCHANGED <<session, buffer, work>>
    BY <1>7 DEF ReadOutput
  <2>3. CASE Chunk(cut) = "get_file"
    <3>1. ~cut /\ stdout[1].kind = "get_file"
      BY <2>1, <2>3 DEF Chunk
    <3>2. stdin = <<>> /\ work = <<>> /\ stdout[1].for = session
      BY <1>2, <2>1, <3>1
    <3>3. stdin' = <<>> \/ stdin' = <<session>>
      BY <1>7, <2>1, <2>3, <3>2 DEF ReadOutput
    <3>4. stdout' = <<>> /\ Len(stdout') = 0
      BY <1>7, <3>1 DEF ReadOutput, Unread
    <3> QED
      BY <1>2, <2>2, <3>2, <3>3, <3>4 DEF Serial
  <2>4. CASE Chunk(cut) # "get_file"
    <3>1. stdin' = stdin
      BY <1>7, <2>4 DEF ReadOutput
    <3>2. ASSUME NEW k \in 1 .. Len(stdout')
          PROVE  stdout'[k].for = session /\ stdout'[k].kind \in {stdout[Len(stdout)].kind}
      <4> DEFINE x == [stdout[Len(stdout)] EXCEPT !.half = TRUE]
      <4>1. stdout[Len(stdout)] \in Output
        BY <2>1
      <4>2. x.for = stdout[Len(stdout)].for /\ x.kind = stdout[Len(stdout)].kind
        BY <4>1 DEF Output
      <4>3. stdout' = <<x>>
        <5>1. stdout' = <<x>> \/ stdout' = <<>>
          BY <1>7 DEF ReadOutput, Unread
        <5>2. stdout' # <<>>
          BY <3>2, EmptySeq
        <5> QED
          BY <5>1, <5>2
      <4> HIDE DEF x
      <4>4. stdout'[k] = x
        BY <3>2, <4>3
      <4> QED
        BY <1>2, <2>1, <4>2, <4>4
    <3> QED
      BY <1>2, <2>1, <2>2, <3>1, <3>2 DEF Serial
  <2> QED
    BY <2>3, <2>4
<1>8. CASE ReadStdin
  <2>1. stdin = <<session>> /\ work = <<>> /\ buffer = <<>>
    BY <1>2, <1>8 DEF ReadStdin
  <2>2. stdin' = <<>> /\ buffer' = <<>> /\ work' = <<session>>
    BY <1>8, <2>1 DEF ReadStdin
  <2> QED
    BY <1>2, <1>8, <2>1, <2>2 DEF ReadStdin, Serial
<1>9. ASSUME NEW kind \in Answers, Reply(kind) PROVE Serial'
  <2>1. stdin = <<>> /\ work = <<session>>
    BY <1>2, <1>9 DEF Reply
  <2>2. UNCHANGED <<session, stdin, buffer>> /\ work' = (IF kind = "push" THEN work ELSE <<>>)
    BY <1>9, <2>1 DEF Reply
  <2> DEFINE x == [kind |-> kind, for |-> session, half |-> FALSE]
  <2>3. stdout' = Append(stdout, x) /\ x \in Output /\ stdout \in Seq(Output)
    BY <1>9, <2>1 DEF Reply, Output, TypeOK
  <2>4. ASSUME NEW k \in 1 .. Len(stdout')
        PROVE  /\ stdout'[k].for = session
               /\ stdout'[k].kind = "get_file" => stdin' = <<>> /\ work' = <<>>
    <3>1. x.for = session /\ x.kind = kind
      OBVIOUS
    <3> HIDE DEF x
    <3>2. (k \in 1 .. Len(stdout) /\ stdout'[k] = stdout[k]) \/ stdout'[k] = x
      BY <2>3, <2>4
    <3>3. stdout'[k] = stdout[k] /\ k \in 1 .. Len(stdout) => stdout[k].kind # "get_file"
      BY <1>2, <2>1
    <3> QED
      BY <1>2, <2>1, <2>2, <3>1, <3>2, <3>3
  <2> QED
    BY <1>2, <2>1, <2>2, <2>4 DEF Serial
<1>10. CASE ChildDies
  BY <1>2, <1>10 DEF ChildDies, Serial
<1> QED
  BY <1>3, <1>5, <1>6, <1>7, <1>8, <1>9, <1>10, Replies DEF Next, Answers

\* The slot is never disconnected.
LEMMA OneLaunch ==
  ASSUME TypeOK, [Next]_vars, conns' = 1
  PROVE  conns = 1
<1>1. conns' = conns \/ conns' = conns + 1
  BY DEF Next, vars, Launch, Written, JobReceive, Notify, ReadOutput, ReadStdin, Answer,
         Request, ChildDies
<1>2. conns \in Nat /\ conns >= 1
  BY BoundsAssumption DEF TypeOK
<1> QED
  BY <1>1, <1>2

LEMMA SerialReportsExactStep ==
  TypeOK /\ Serial /\ SerialReportsExact /\ [Next]_vars => SerialReportsExact'
<1> SUFFICES ASSUME TypeOK, Serial, SerialReportsExact, [Next]_vars,
                    ~overlap', conns' = 1, NEW k \in Terminates'
             PROVE  pushed'[k].covers = {pushed'[k].session}
  BY DEF SerialReportsExact
<1>1. ~overlap
  BY DEF Next, vars, Launch, Written, JobReceive, Notify, WriteLine, WriteNothing,
         ReadOutput, ReadStdin, Answer, Request, ChildDies
<1>2. conns = 1
  BY OneLaunch
<1>3. CASE k \in Terminates /\ pushed'[k] = pushed[k]
  BY <1>1, <1>2, <1>3 DEF SerialReportsExact
<1>4. ASSUME NEW cut \in BOOLEAN, NewReport(k, cut)
      PROVE  pushed'[k].covers = {pushed'[k].session}
  <2>1. pushed'[k].session = session /\ pushed'[k].covers = Covered
    BY <1>2, <1>4 DEF NewReport
  <2>2. stdout \in Seq(Output) /\ stdout # <<>>
    BY <1>4 DEF NewReport, ReadOutput, TypeOK
  <2>3. DOMAIN stdout = 1 .. Len(stdout) /\ 1 \in 1 .. Len(stdout)
    BY <2>2
  <2>4. Covered = {session}
    BY <1>1, <2>3 DEF Covered, Serial
  <2> QED
    BY <2>1, <2>4
<1> QED
  BY <1>3, <1>4, Reports

-----------------------------------------------------------------------------
(* No line is answered twice.                                              *)

\* No session twice in q, none in two of the sets; 0 stands for no session.
Sole(q) == \A j, k \in 1 .. Len(q) : q[j] = q[k] /\ q[j] # 0 => j = k
Apart(A, B) == A \cap B \subseteq {0}

\* The answers in the pipe that end a line, and the sessions reported over.
Owing == {k \in 1 .. Len(stdout) : stdout[k].kind # "push"}
Owed == {stdout[k].for : k \in Owing}
Reported == UNION {pushed[k].covers : k \in Terminates}

\* A session is in one place of its way from stdin to the servers.
Once ==
  ~glued /\ ~split =>
    /\ Sole(stdin) /\ Sole(buffer) /\ Sole(work)
    /\ \A j, k \in Owing : stdout[j].for = stdout[k].for /\ stdout[j].for # 0 => j = k
    /\ Apart(Vals(stdin), Vals(buffer)) /\ Apart(Vals(stdin), Vals(work))
    /\ Apart(Vals(stdin), Owed) /\ Apart(Vals(buffer), Vals(work))
    /\ Apart(Vals(buffer), Owed) /\ Apart(Vals(work), Owed)
    /\ Apart(Vals(stdin), Reported) /\ Apart(Vals(buffer), Reported)
    /\ Apart(Vals(work), Reported) /\ Apart(Owed, Reported)
    /\ \A k \in 1 .. Len(stdout) : ~stdout[k].half

LEMMA SoleEmpty == Sole(<<>>)
BY EmptySeq DEF Sole

LEMMA SoleAppend ==
  ASSUME NEW q \in Seq(Sessions), NEW x \in Sessions, Sole(q), Apart(Vals(q), {x})
  PROVE  Sole(Append(q, x))
<1> DEFINE n == Len(q)
           r == Append(q, x)
<1>1. n \in Nat /\ Len(r) = n + 1 /\ r[n + 1] = x /\ \A k \in 1 .. n : r[k] = q[k]
  BY AppendProperties, LenProperties
<1>2. \A k \in 1 .. n : q[k] = x => x = 0
  BY DEF Apart, Vals
<1>3. \A j, k \in 1 .. n : q[j] = q[k] /\ q[j] # 0 => j = k
  BY DEF Sole
<1> HIDE DEF n, r
<1>4. \A j, k \in 1 .. n + 1 : r[j] = r[k] /\ r[j] # 0 => j = k
  <2> SUFFICES ASSUME NEW j \in 1 .. n + 1, NEW k \in 1 .. n + 1, r[j] = r[k], r[j] # 0
               PROVE  j = k
    OBVIOUS
  <2>1. CASE j = n + 1 /\ k = n + 1
    BY <2>1
  <2>2. CASE j = n + 1 /\ k # n + 1
    <3>1. k \in 1 .. n
      BY <1>1, <2>2
    <3> QED
      BY <1>1, <1>2, <2>2, <3>1
  <2>3. CASE j # n + 1 /\ k = n + 1
    <3>1. j \in 1 .. n
      BY <1>1, <2>3
    <3> QED
      BY <1>1, <1>2, <2>3, <3>1
  <2>4. CASE j # n + 1 /\ k # n + 1
    <3>1. j \in 1 .. n /\ k \in 1 .. n
      BY <1>1, <2>4
    <3> QED
      BY <1>1, <1>3, <3>1
  <2> QED
    BY <2>1, <2>2, <2>3, <2>4
<1> QED
  BY <1>1, <1>4 DEF Sole, r

LEMMA SoleTail ==
  ASSUME NEW q \in Seq(Sessions), q # <<>>, Sole(q)
  PROVE  /\ Sole(Tail(q)) /\ Apart(Vals(Tail(q)), {Head(q)})
<1> DEFINE n == Len(q)
           r == Tail(q)
<1>1. n \in Nat \ {0} /\ Len(r) = n - 1 /\ Head(q) = q[1]
  <2>1. n \in Nat \ {0}
    BY EmptySeq, Zenon
  <2>2. Head(q) = q[1]
    OBVIOUS
  <2> QED
    BY <2>1, <2>2, HeadTailProperties
<1>2. \A k \in 1 .. n - 1 : r[k] = q[k + 1]
  BY <1>1, HeadTailProperties
<1>3. \A j, k \in 1 .. n : q[j] = q[k] /\ q[j] # 0 => j = k
  BY DEF Sole
<1> HIDE DEF n, r
<1>4. \A k \in 1 .. n - 1 : k + 1 \in 1 .. n /\ k + 1 # 1
  BY <1>1
<1>5. 1 \in 1 .. n
  BY <1>1
<1>6. Sole(r)
  <2> SUFFICES ASSUME NEW j \in 1 .. n - 1, NEW k \in 1 .. n - 1, r[j] = r[k], r[j] # 0
               PROVE  j = k
    BY <1>1 DEF Sole
  <2>1. j + 1 = k + 1
    BY <1>2, <1>3, <1>4
  <2> QED
    BY <2>1
<1>7. Apart(Vals(r), {Head(q)})
  <2> SUFFICES ASSUME NEW k \in 1 .. n - 1, r[k] = q[1], r[k] # 0 PROVE FALSE
    BY <1>1 DEF Apart, Vals
  <2> QED
    BY <1>2, <1>3, <1>4, <1>5
<1> QED
  BY <1>6, <1>7 DEF r

LEMMA Histories == [Next]_vars => (glued => glued') /\ (split => split')
<1> SUFFICES ASSUME [Next]_vars PROVE (glued => glued') /\ (split => split')
  OBVIOUS
<1>1. ASSUME NEW cut \in BOOLEAN, ReadOutput(cut)
      PROVE  (glued => glued') /\ (split => split')
  <2>1. glued' = (glued \/ Len(stdout) > 1) /\ split' = (split \/ cut)
    BY <1>1, Zenon DEF ReadOutput
  <2> QED
    BY <2>1, Zenon
<1>2. ASSUME \A cut \in BOOLEAN : ~ReadOutput(cut) PROVE glued' = glued /\ split' = split
  BY <1>2 DEF Next, vars, Launch, Written, JobReceive, Notify, ReadStdin, Answer,
              Request, ChildDies
<1>3. CASE \E cut \in BOOLEAN : ReadOutput(cut)
  BY <1>1, <1>3, Zenon
<1>4. CASE ~\E cut \in BOOLEAN : ReadOutput(cut)
  <2>1. glued' = glued /\ split' = split
    BY <1>2, <1>4, Zenon
  <2> QED
    BY <2>1
<1> QED
  BY <1>3, <1>4, Zenon

\* What is pending is of a session that has been met.
LEMMA OwedCovered == TypeOK => Owed \subseteq Covered /\ Owed \subseteq Sessions
<1> SUFFICES ASSUME TypeOK PROVE Owed \subseteq Covered
  BY CoveredType
<1>1. DOMAIN stdout = 1 .. Len(stdout)
  BY DEF TypeOK
<1> QED
  BY <1>1 DEF Owed, Owing, Covered

\* A chunk that is one whole answer.
LEMMA WholeChunk ==
  ASSUME TypeOK, Once, NEW cut \in BOOLEAN, ReadOutput(cut), ~glued', ~split'
  PROVE  /\ ~glued /\ ~split /\ ~cut /\ stdout' = <<>>
         /\ Chunk(cut) = stdout[1].kind /\ Covered = {stdout[1].for}
         /\ Head(stdout) = stdout[1]
         /\ Owed = IF stdout[1].kind = "push" THEN {} ELSE {stdout[1].for}
<1>1. ~glued /\ ~split /\ ~cut /\ ~(Len(stdout) > 1)
  BY DEF ReadOutput
<1>2. stdout \in Seq(Output) /\ stdout # <<>> /\ DOMAIN stdout = 1 .. Len(stdout)
  BY DEF TypeOK, ReadOutput
<1>3. Len(stdout) = 1 /\ Head(stdout) = stdout[1] /\ 1 .. Len(stdout) = {1}
  BY <1>1, <1>2
<1>4. ~stdout[1].half
  BY <1>1, <1>3 DEF Once
<1> QED
  BY <1>1, <1>2, <1>3, <1>4 DEF ReadOutput, Unread, Chunk, Covered, Owed, Owing

\* What a step adds to the sessions reported over.
LEMMA ReportedStep ==
  ASSUME TypeOK, [Next]_vars
  PROVE  /\ Reported' \subseteq Reported \cup Covered
         /\ (\A cut \in BOOLEAN : \A k \in 1 .. Len(pushed') :
                NewReport(k, cut) => pushed'[k].covers = {})
              => Reported' \subseteq Reported
<1>1. ASSUME NEW k \in Terminates', NEW s \in pushed'[k].covers
      PROVE  \/ s \in Reported
             \/ \E cut \in BOOLEAN : /\ NewReport(k, cut) /\ s \in Covered
                                    /\ k \in 1 .. Len(pushed')
  <2>1. CASE k \in Terminates /\ pushed'[k] = pushed[k]
    BY <1>1, <2>1 DEF Reported
  <2>2. ASSUME NEW cut \in BOOLEAN, NewReport(k, cut)
        PROVE  s \in Covered /\ k \in 1 .. Len(pushed')
    BY <1>1, <2>2 DEF NewReport
  <2> QED
    BY <2>1, <2>2, Reports
<1>2. ASSUME NEW s \in Reported'
      PROVE  \E k \in Terminates' : s \in pushed'[k].covers
  BY <1>2 DEF Reported
<1> QED
  BY <1>1, <1>2

\* A new line is of a session that is pending nowhere, nor reported over.
LEMMA OnceWrite ==
  ASSUME TypeOK, Once, ~glued, ~split, NEW s \in Sessions,
         Apart(Vals(stdin) \cup Vals(buffer) \cup Vals(work) \cup Owed \cup Reported, {s}),
         stdin' \in {stdin, Append(stdin, s)}, UNCHANGED <<buffer, work, stdout>>,
         Reported' \subseteq Reported
  PROVE  Once'
<1>1. stdin \in Seq(Sessions)
  BY DEF TypeOK
<1>2. Apart(Vals(stdin), {s})
  BY DEF Apart
<1>3. Sole(stdin')
  BY <1>1, <1>2, SoleAppend DEF Once
<1>4. Vals(stdin') \subseteq Vals(stdin) \cup {s}
  <2>1. Vals(Append(stdin, s)) = Vals(stdin) \cup {s}
    BY <1>1, ValsAppend
  <2>2. \A q : q = stdin => Vals(q) = Vals(stdin)
    OBVIOUS
  <2>3. \A q : q = Append(stdin, s) => Vals(q) = Vals(Append(stdin, s))
    OBVIOUS
  <2> HIDE DEF Vals
  <2> QED
    BY <2>1, <2>2, <2>3
<1>5. Owed' = Owed /\ Owing' = Owing
  BY DEF Owed, Owing
<1> QED
  BY <1>3, <1>4, <1>5 DEF Once, Apart

LEMMA OnceStep == TypeOK /\ Bounded /\ Once /\ [Next]_vars => Once'
<1> SUFFICES ASSUME TypeOK, Bounded, Once, [Next]_vars, ~glued', ~split'
             PROVE  Once'
  BY DEF Once
<1>1. ~glued /\ ~split
  BY Histories
<1>2. /\ stdin \in Seq(Sessions) /\ buffer \in Seq(Sessions) /\ work \in Seq(Sessions)
      /\ stdout \in Seq(Output)
  BY DEF TypeOK
<1>3. ASSUME \A cut \in BOOLEAN : ~ReadOutput(cut) PROVE Reported' \subseteq Reported
  BY <1>3, ReportedStep DEF NewReport
<1>4. ASSUME NEW s \in Sessions, s = 0 \/ s = met + 1
      PROVE  Apart(Vals(stdin) \cup Vals(buffer) \cup Vals(work) \cup Owed
                     \cup Reported, {s})
  <2>1. session \in Nat /\ met \in Nat /\ session <= met /\ Lines \subseteq Nat
    BY LinesType DEF Bounded
  <2>2. \A x \in Lines \cup Reported : x <= session
    BY DEF Bounded, Reported
  <2>3. Owed \subseteq Lines
    BY OwedCovered DEF Lines
  <2>4. s # 0 => s \notin Lines \cup Reported
    BY <1>4, <2>1, <2>2
  <2> QED
    BY <2>3, <2>4 DEF Apart, Lines
<1>5. ASSUME NEW kind \in JobKinds, JobReceive(kind) PROVE Once'
  <2>1. met + 1 \in Sessions
    BY <1>5, BoundsAssumption DEF JobReceive, TypeOK, Sessions
  <2>2. stdin' \in {stdin, Append(stdin, met + 1)} /\ UNCHANGED <<buffer, work, stdout>>
    BY <1>5 DEF JobReceive, WriteLine, WriteNothing
  <2>3. \A cut \in BOOLEAN : ~ReadOutput(cut)
    BY <1>5, <2>1 DEF JobReceive, ReadOutput, TypeOK, Sessions
  <2> QED
    BY <1>1, <1>3, <1>4, <2>1, <2>2, <2>3, OnceWrite
<1>6. ASSUME NEW kind \in NoteKinds, NEW own \in BOOLEAN, Notify(kind, own) PROVE Once'
  <2>1. met + 1 \in Sessions /\ 0 \in Sessions
    BY <1>6, BoundsAssumption DEF Notify, TypeOK, Sessions
  <2>2. /\ UNCHANGED <<buffer, work, stdout>>
        /\ \/ stdin' \in {stdin, Append(stdin, met + 1)}
           \/ stdin' \in {stdin, Append(stdin, 0)}
    BY <1>6 DEF Notify, WriteLine, WriteNothing
  <2>3. \A cut \in BOOLEAN : ~ReadOutput(cut)
    BY <1>6, <2>1 DEF Notify, ReadOutput, TypeOK, Sessions
  <2> QED
    BY <1>1, <1>3, <1>4, <2>1, <2>2, <2>3, OnceWrite
<1>7. CASE Launch \/ Written \/ UNCHANGED vars
  <2>1. UNCHANGED <<stdin, buffer, work, stdout, pushed>>
    BY <1>7 DEF Launch, Written, vars, childvars
  <2>2. Owed' = Owed /\ Owing' = Owing /\ Reported' = Reported
    BY <2>1 DEF Owed, Owing, Reported, Terminates
  <2> QED
    BY <1>1, <2>1, <2>2 DEF Once
<1>8. ASSUME NEW cut \in BOOLEAN, ReadOutput(cut) PROVE Once'
  <2> DEFINE x == stdout[1].for
  <2>1. /\ ~cut /\ stdout' = <<>> /\ Covered = {x} /\ Head(stdout) = stdout[1]
        /\ Chunk(cut) = stdout[1].kind
        /\ Owed = IF stdout[1].kind = "push" THEN {} ELSE {x}
    BY <1>8, WholeChunk
  <2>2. x \in Sessions /\ UNCHANGED <<buffer, work>>
    BY <1>8, <2>1, CoveredType DEF ReadOutput
  <2>3. Owed' = {} /\ Owing' = {} /\ Len(stdout') = 0
    BY <2>1 DEF Owed, Owing
  <2>4. CASE stdout[1].kind \in {"push", "get_file"}
    <3>1. \A c \in BOOLEAN : \A k \in 1 .. Len(pushed') :
            NewReport(k, c) => pushed'[k].covers = {}
      <4> SUFFICES ASSUME NEW c \in BOOLEAN, NEW k \in 1 .. Len(pushed'), NewReport(k, c)
                   PROVE  pushed'[k].covers = {}
        OBVIOUS
      <4>1. ReadOutput(c)
        BY DEF NewReport
      <4>2. Chunk(c) \in {"push", "get_file"}
        BY <2>4, <4>1, WholeChunk
      <4> QED
        BY <4>2 DEF NewReport
    <3>2. Reported' \subseteq Reported
      BY <3>1, ReportedStep
    <3>3. CASE stdout[1].kind = "push"
      <4>1. stdin' = stdin
        BY <1>8, <2>1, <3>3 DEF ReadOutput
      <4> QED
        BY <1>1, <2>2, <2>3, <3>2, <4>1 DEF Once, Apart
    <3>4. CASE stdout[1].kind = "get_file"
      <4>1. stdin' \in {stdin, Append(stdin, x)}
        BY <1>8, <2>1 DEF ReadOutput
      <4>2. Owed = {x}
        BY <2>1, <3>4
      <4>3. Sole(stdin')
        BY <1>1, <1>2, <2>2, <4>1, <4>2, SoleAppend DEF Once
      <4>4. Vals(stdin') \subseteq Vals(stdin) \cup {x}
        BY <1>2, <2>2, <4>1, ValsAppend
      <4> QED
        BY <1>1, <2>2, <2>3, <3>2, <4>2, <4>3, <4>4 DEF Once, Apart
    <3> QED
      BY <2>4, <3>3, <3>4
  <2>5. CASE stdout[1].kind \notin {"push", "get_file"}
    <3>1. stdin' = stdin
      BY <1>8, <2>1, <2>5 DEF ReadOutput
    <3>2. Reported' \subseteq Reported \cup Owed
      BY <2>1, <2>5, ReportedStep
    <3> QED
      BY <1>1, <2>2, <2>3, <3>1, <3>2 DEF Once, Apart
  <2> QED
    BY <2>4, <2>5
<1>9. CASE ReadStdin
  <2>1. Reported' \subseteq Reported /\ Owed' = Owed /\ Owing' = Owing /\ stdin # <<>>
    <3>1. pushed' = pushed /\ stdout' = stdout /\ stdin # <<>>
      BY <1>9 DEF ReadStdin
    <3> QED
      BY <3>1 DEF Reported, Terminates, Owed, Owing
  <2>2. CASE buffer = <<>>
    <3>1. work' = Append(work, Head(stdin)) /\ buffer' = Tail(stdin) /\ stdin' = <<>>
      BY <1>9, <2>2 DEF ReadStdin
    <3>2. Head(stdin) \in Sessions /\ Vals(stdin) = Vals(Tail(stdin)) \cup {Head(stdin)}
      BY <1>2, <2>1, HeadTailProperties, ValsTail
    <3>3. Sole(Tail(stdin)) /\ Apart(Vals(Tail(stdin)), {Head(stdin)})
      BY <1>1, <1>2, <2>1, SoleTail DEF Once
    <3>4. Sole(work') /\ Vals(work') = Vals(work) \cup {Head(stdin)}
      <4>1. Apart(Vals(work), {Head(stdin)})
        BY <1>1, <3>2 DEF Once, Apart
      <4>2. Sole(work)
        BY <1>1 DEF Once
      <4>3. Sole(Append(work, Head(stdin)))
        BY <1>2, <3>2, <4>1, <4>2, SoleAppend
      <4>4. Vals(Append(work, Head(stdin))) = Vals(work) \cup {Head(stdin)}
        BY <1>2, <3>2, ValsAppend
      <4> QED
        BY <3>1, <4>3, <4>4
    <3>5. UNCHANGED stdout
      BY <1>9 DEF ReadStdin
    <3> QED
      BY <1>1, <2>1, <3>1, <3>2, <3>3, <3>4, <3>5, SoleEmpty, ValsEmpty DEF Once, Apart
  <2>3. CASE buffer # <<>>
    <3>1. work' = Append(work, Head(buffer)) /\ buffer' = Tail(buffer) /\ stdin' = stdin
      BY <1>9, <2>3 DEF ReadStdin
    <3>2. Head(buffer) \in Sessions /\ Vals(buffer) = Vals(Tail(buffer)) \cup {Head(buffer)}
      BY <1>2, <2>3, HeadTailProperties, ValsTail
    <3>3. Sole(Tail(buffer)) /\ Apart(Vals(Tail(buffer)), {Head(buffer)})
      BY <1>1, <1>2, <2>3, SoleTail DEF Once
    <3>4. Sole(work') /\ Vals(work') = Vals(work) \cup {Head(buffer)}
      <4>1. Apart(Vals(work), {Head(buffer)})
        BY <1>1, <3>2 DEF Once, Apart
      <4>2. Sole(work)
        BY <1>1 DEF Once
      <4>3. Sole(Append(work, Head(buffer)))
        BY <1>2, <3>2, <4>1, <4>2, SoleAppend
      <4>4. Vals(Append(work, Head(buffer))) = Vals(work) \cup {Head(buffer)}
        BY <1>2, <3>2, ValsAppend
      <4> QED
        BY <3>1, <4>3, <4>4
    <3>5. UNCHANGED stdout
      BY <1>9 DEF ReadStdin
    <3> QED
      BY <1>1, <2>1, <3>1, <3>2, <3>3, <3>4, <3>5 DEF Once, Apart
  <2> QED
    BY <2>2, <2>3
<1>10. ASSUME NEW kind \in Answers, Reply(kind) PROVE Once'
  <2> DEFINE x == [kind |-> kind, for |-> Head(work), half |-> FALSE]
             n == Len(stdout)
  <2>1. work # <<>> /\ Head(work) \in Vals(work) /\ Head(work) \in Sessions
        /\ Vals(work) = Vals(Tail(work)) \cup {Head(work)}
    BY <1>10, ReplyVals DEF Reply
  <2>2. x \in Output /\ x.for = Head(work) /\ x.kind = kind /\ x.half = FALSE
    BY <2>1 DEF Output
  <2>3. /\ n \in Nat /\ Len(stdout') = n + 1 /\ stdout'[n + 1] = x
        /\ \A k \in 1 .. n : stdout'[k] = stdout[k]
    <3>1. stdout' = Append(stdout, x)
      BY <1>10 DEF Reply
    <3> HIDE DEF x
    <3> QED
      BY <1>2, <2>2, <3>1, AppendProperties, LenProperties
  <2> HIDE DEF x, n
  <2>4. \A k \in 1 .. Len(stdout') : ~stdout'[k].half
    BY <1>1, <2>2, <2>3 DEF Once, n
  <2>5. Owing' = Owing \cup (IF kind = "push" THEN {} ELSE {n + 1}) /\ n + 1 \notin Owing
    BY <2>2, <2>3 DEF Owing, n
  <2>6. \A k \in Owing : stdout'[k] = stdout[k]
    BY <2>3 DEF Owing, n
  <2>7. Owed' = Owed \cup (IF kind = "push" THEN {} ELSE {Head(work)})
    BY <2>2, <2>3, <2>5, <2>6 DEF Owed
  <2>8. UNCHANGED <<stdin, buffer, pushed>> /\ Reported' = Reported
    BY <1>10 DEF Reply, Reported, Terminates
  <2>9. CASE kind = "push"
    <3>1. work' = work
      BY <1>10, <2>9 DEF Reply
    <3> QED
      BY <1>1, <2>4, <2>5, <2>6, <2>7, <2>8, <2>9, <3>1 DEF Once, Apart
  <2>10. CASE kind # "push"
    <3>1. work' = Tail(work)
      BY <1>10, <2>10 DEF Reply
    <3>2. Sole(work') /\ Apart(Vals(work'), {Head(work)})
      BY <1>1, <1>2, <2>1, <3>1, SoleTail DEF Once
    <3>3. \A k \in Owing : stdout[k].for = Head(work) => Head(work) = 0
      BY <1>1, <2>1 DEF Once, Apart, Owed
    <3>4. \A j, k \in Owing' :
            stdout'[j].for = stdout'[k].for /\ stdout'[j].for # 0 => j = k
      BY <1>1, <2>2, <2>3, <2>5, <2>6, <2>10, <3>3 DEF Once
    <3> QED
      BY <1>1, <2>1, <2>4, <2>7, <2>8, <2>10, <3>1, <3>2, <3>4 DEF Once, Apart
  <2> QED
    BY <2>9, <2>10
<1>11. CASE ChildDies
  <2>1. stdin' = <<>> /\ buffer' = <<>> /\ work' = <<>> /\ UNCHANGED <<stdout, pushed>>
    BY <1>11 DEF ChildDies
  <2>2. Owed' = Owed /\ Owing' = Owing /\ Reported' = Reported
    BY <2>1 DEF Owed, Owing, Reported, Terminates
  <2> QED
    BY <1>1, <2>1, <2>2, SoleEmpty, ValsEmpty DEF Once, Apart
<1> QED
  BY <1>5, <1>6, <1>7, <1>8, <1>9, <1>10, <1>11, Replies DEF Next, Answers

\* No answer is in two reports.
ReportedOnce ==
  ~glued /\ ~split =>
    \A j, k \in Terminates :
      (pushed[j].covers \cap pushed[k].covers) \ {0} # {} => j = k

LEMMA ReportedOnceStep ==
  TypeOK /\ Once /\ ReportedOnce /\ [Next]_vars => ReportedOnce'
<1> SUFFICES ASSUME TypeOK, Once, ReportedOnce, [Next]_vars, ~glued', ~split',
                    NEW j \in Terminates', NEW k \in Terminates',
                    (pushed'[j].covers \cap pushed'[k].covers) \ {0} # {}
             PROVE  j = k
  BY DEF ReportedOnce
<1>1. ~glued /\ ~split
  BY Histories
<1> DEFINE Old(i) == i \in Terminates /\ pushed'[i] = pushed[i]
           New(i) == pushed'[i].covers = Owed /\ i = Len(pushed) + 1
<1>2. ASSUME NEW i \in Terminates', pushed'[i].covers # {} PROVE Old(i) \/ New(i)
  <2>1. CASE Old(i)
    BY <2>1
  <2>2. ASSUME NEW cut \in BOOLEAN, NewReport(i, cut) PROVE New(i)
    <3>1. /\ ReadOutput(cut) /\ pushed'[i].covers = Covered /\ i = Len(pushed) + 1
          /\ Chunk(cut) # "push"
      BY <1>2, <2>2 DEF NewReport
    <3>2. Covered = {stdout[1].for} /\ Chunk(cut) = stdout[1].kind
          /\ Owed = IF stdout[1].kind = "push" THEN {} ELSE {stdout[1].for}
      BY <3>1, WholeChunk
    <3> QED
      BY <3>1, <3>2
  <2> QED
    BY <2>1, <2>2, Reports
<1>3. ASSUME NEW i \in Terminates, NEW s \in pushed[i].covers, s \in Owed PROVE s = 0
  BY <1>1, <1>3 DEF Once, Apart, Reported
<1>4. PICK s \in pushed'[j].covers : s \in pushed'[k].covers /\ s # 0
  OBVIOUS
<1>5. (Old(j) \/ New(j)) /\ (Old(k) \/ New(k))
  BY <1>2, <1>4
<1>6. CASE Old(j) /\ Old(k)
  BY <1>1, <1>6 DEF ReportedOnce
<1>7. CASE New(j) /\ New(k)
  BY <1>7
<1>8. CASE \/ Old(j) /\ New(k)
           \/ New(j) /\ Old(k)
  BY <1>3, <1>4, <1>8
<1> QED
  BY <1>5, <1>6, <1>7, <1>8

\* With one launch a report is of one answer.
OneEach ==
  conns = 1 /\ ~glued /\ ~split =>
    \A k \in Terminates : \E s \in Sessions : pushed[k].covers = {s}

LEMMA OneEachStep == TypeOK /\ Once /\ OneEach /\ [Next]_vars => OneEach'
<1> SUFFICES ASSUME TypeOK, Once, OneEach, [Next]_vars, conns' = 1, ~glued', ~split',
                    NEW k \in Terminates'
             PROVE  \E s \in Sessions : pushed'[k].covers = {s}
  BY DEF OneEach
<1>1. conns = 1 /\ ~glued /\ ~split
  BY OneLaunch, Histories
<1>2. CASE k \in Terminates /\ pushed'[k] = pushed[k]
  BY <1>1, <1>2 DEF OneEach
<1>3. ASSUME NEW cut \in BOOLEAN, NewReport(k, cut)
      PROVE  \E s \in Sessions : pushed'[k].covers = {s}
  <2>1. ReadOutput(cut) /\ pushed'[k].covers = Covered
    BY <1>1, <1>3 DEF NewReport
  <2>2. Covered = {stdout[1].for}
    BY <2>1, WholeChunk
  <2>3. Covered \subseteq Sessions
    BY CoveredType
  <2> QED
    BY <2>1, <2>2, <2>3
<1> QED
  BY <1>2, <1>3, Reports

\* The ends of the first s sessions are answers of different ones among them.
LEMMA EndsCounted ==
  ASSUME TypeOK, NeverReportedBack, ReportedOnce, OneEach
  PROVE  NoExtraEnd
<1> SUFFICES ASSUME conns = 1, ~glued, ~split, NEW s \in 1 .. MaxSessions
             PROVE  Cardinality({k \in Terminates : /\ pushed[k].session <= s
                                                    /\ pushed[k].covers # {0}}) <= s
  BY DEF NoExtraEnd
<1> DEFINE E == {k \in Terminates : pushed[k].session <= s /\ pushed[k].covers # {0}}
           f == [k \in E |-> CHOOSE x \in Sessions : pushed[k].covers = {x}]
<1>1. \A k \in E : f[k] \in Sessions /\ pushed[k].covers = {f[k]}
  BY DEF OneEach
<1>2. ASSUME NEW k \in E PROVE f[k] \in 1 .. s
  <2>1. pushed[k].session \in Sessions /\ f[k] \in Sessions
    <3>1. pushed[k] \in Payload
      BY <1>2 DEF TypeOK, Terminates
    <3> QED
      BY <1>1, <1>2, <3>1 DEF Payload
  <2>2. f[k] <= pushed[k].session /\ pushed[k].session <= s /\ f[k] # 0
    BY <1>1, <1>2 DEF NeverReportedBack
  <2> HIDE DEF f
  <2>3. f[k] \in Nat /\ pushed[k].session \in Nat /\ s \in Nat
    BY <2>1 DEF Sessions
  <2> QED
    BY <2>2, <2>3
<1>3. ASSUME NEW j \in E, NEW k \in E, f[j] = f[k] PROVE j = k
  <2>1. f[j] # 0 /\ f[j] \in pushed[j].covers \cap pushed[k].covers
    BY <1>1, <1>2, <1>3
  <2> HIDE DEF f
  <2> QED
    BY <2>1 DEF ReportedOnce
<1>4. f \in Injection(E, 1 .. s)
  <2>1. f \in [E -> 1 .. s]
    BY <1>2
  <2>2. \A j, k \in DOMAIN f : f[j] = f[k] => j = k
    BY <1>3
  <2> QED
    BY <2>1, <2>2 DEF Injection, IsInjective
<1>5. IsFiniteSet(1 .. s) /\ Cardinality(1 .. s) = s
  BY FS_Interval
<1>6. Cardinality(E) <= Cardinality(1 .. s)
  BY <1>4, <1>5, FS_Injection
<1> QED
  BY <1>5, <1>6

-----------------------------------------------------------------------------
(* No line is lost.                                                        *)

\* A payload that the child pushes for a line goes before its answer, which is
\* behind it in the pipe or yet to be made.
AnswerFollows ==
  \A k \in 1 .. Len(stdout) : alive /\ stdout[k].kind = "push" =>
    \/ stdout[k].for \in Vals(work)
    \/ \E l \in k + 1 .. Len(stdout) :
         stdout[l].kind # "push" /\ stdout[l].for = stdout[k].for

LEMMA UnderwayLines == TypeOK => \A s : Underway(s) <=> s \in Lines
<1> SUFFICES ASSUME TypeOK, NEW s PROVE Underway(s) <=> s \in Lines
  OBVIOUS
<1>1. \A q \in {stdin, buffer, work} : DOMAIN q = 1 .. Len(q)
  BY DEF TypeOK
<1>2. \A q \in {stdin, buffer, work} : (\E k \in DOMAIN q : q[k] = s) <=> s \in Vals(q)
  BY <1>1 DEF Vals
<1> QED
  BY <1>2 DEF Underway, Lines, Covered

LEMMA UnderwayLinesNext == (TypeOK => \A s : Underway(s) <=> s \in Lines)'
BY UnderwayLines, PTL

LEMMA AnswerFollowsStep == TypeOK /\ AnswerFollows /\ [Next]_vars => AnswerFollows'
<1> SUFFICES ASSUME TypeOK, AnswerFollows, [Next]_vars, alive',
                    NEW k \in 1 .. Len(stdout'), stdout'[k].kind = "push"
             PROVE  \/ stdout'[k].for \in Vals(work')
                    \/ \E l \in k + 1 .. Len(stdout') :
                         stdout'[l].kind # "push" /\ stdout'[l].for = stdout'[k].for
  BY DEF AnswerFollows
<1>1. alive
  <2>1. ~ChildRestarts \/ ~Launch
    BY DEF Launch, ChildRestarts
  <2> QED
    BY <2>1 DEF Next, vars, childvars, Launch, ChildRuns, LaunchFails, Written, JobReceive,
         Notify, ReadOutput, ReadStdin, Answer, Request, ChildDies
<1>2. stdout \in Seq(Output) /\ Len(stdout) \in Nat
  BY DEF TypeOK
<1>3. ASSUME stdout' = stdout, Vals(work) \subseteq Vals(work')
      PROVE  \/ stdout'[k].for \in Vals(work')
             \/ \E l \in k + 1 .. Len(stdout') :
                  stdout'[l].kind # "push" /\ stdout'[l].for = stdout'[k].for
  BY <1>1, <1>3 DEF AnswerFollows
<1>4. CASE \/ Launch \/ Written \/ UNCHANGED vars
           \/ \E kind \in JobKinds : JobReceive(kind)
           \/ \E kind \in NoteKinds, own \in BOOLEAN : Notify(kind, own)
  <2>1. stdout' = stdout /\ work' = work
    BY <1>4 DEF Launch, Written, vars, childvars, JobReceive, Notify
  <2> QED
    BY <1>3, <2>1
<1>5. CASE ReadStdin
  <2>1. stdout' = stdout
    BY <1>5 DEF ReadStdin
  <2>2. work' \in {Append(work, Head(stdin)), Append(work, Head(buffer))} /\ work \in Seq(Sessions)
    BY <1>5 DEF ReadStdin, TypeOK
  <2>3. \E x \in Sessions : work' = Append(work, x)
    BY <1>5, HeadTailProperties DEF ReadStdin, TypeOK
  <2>4. Vals(work) \subseteq Vals(work')
    BY <2>2, <2>3, ValsAppend
  <2> QED
    BY <1>3, <2>1, <2>4
<1>6. ASSUME NEW kind \in Answers, Reply(kind)
      PROVE  \/ stdout'[k].for \in Vals(work')
             \/ \E l \in k + 1 .. Len(stdout') :
                  stdout'[l].kind # "push" /\ stdout'[l].for = stdout'[k].for
  <2> DEFINE n == Len(stdout)
             x == [kind |-> kind, for |-> Head(work), half |-> FALSE]
  <2>1. /\ stdout' = Append(stdout, x) /\ x.kind = kind /\ x.for = Head(work)
        /\ Len(stdout') = n + 1 /\ stdout'[n + 1] = x
        /\ \A j \in 1 .. n : stdout'[j] = stdout[j]
    BY <1>2, <1>6 DEF Reply
  <2>2. Head(work) \in Vals(work) /\ Vals(work) = Vals(Tail(work)) \cup {Head(work)}
    BY <1>6, ReplyVals
  <2>3. work' = IF kind = "push" THEN work ELSE Tail(work)
    BY <1>6 DEF Reply
  <2> HIDE DEF x
  <2>4. CASE k = n + 1
    BY <2>1, <2>2, <2>3, <2>4
  <2>5. CASE k \in 1 .. n
    <3>1. stdout'[k] = stdout[k]
      BY <2>1, <2>5
    <3>2. CASE stdout[k].for \in Vals(work)
      <4>1. CASE kind = "push"
        BY <2>3, <3>1, <3>2, <4>1
      <4>2. CASE kind # "push" /\ stdout[k].for = Head(work)
        <5>1. n + 1 \in k + 1 .. Len(stdout')
          BY <1>2, <2>1, <2>5
        <5> QED
          BY <2>1, <3>1, <4>2, <5>1
      <4>3. CASE kind # "push" /\ stdout[k].for # Head(work)
        BY <2>2, <2>3, <3>1, <3>2, <4>3
      <4> QED
        BY <4>1, <4>2, <4>3
    <3>3. ASSUME NEW l \in k + 1 .. n,
                 stdout[l].kind # "push", stdout[l].for = stdout[k].for
          PROVE  \E m \in k + 1 .. Len(stdout') :
                   stdout'[m].kind # "push" /\ stdout'[m].for = stdout'[k].for
      <4>1. l \in 1 .. n /\ l \in k + 1 .. Len(stdout')
        BY <1>2, <2>1, <2>5
      <4> QED
        BY <2>1, <3>1, <3>3, <4>1
    <3> QED
      BY <1>1, <2>5, <3>1, <3>2, <3>3 DEF AnswerFollows
  <2> QED
    BY <1>2, <2>1, <2>4, <2>5
<1>7. ASSUME NEW cut \in BOOLEAN, ReadOutput(cut)
      PROVE  stdout'[k].for \in Vals(work')
  <2> DEFINE n == Len(stdout)
             x == [stdout[n] EXCEPT !.half = TRUE]
  <2>1. n \in 1 .. n /\ stdout[n] \in Output
    BY <1>2, <1>7 DEF ReadOutput
  <2>2. x.kind = stdout[n].kind /\ x.for = stdout[n].for
    BY <2>1 DEF Output
  <2>3. stdout' = <<x>> \/ stdout' = <<>>
    BY <1>7 DEF ReadOutput, Unread
  <2> HIDE DEF x
  <2>4. k = 1 /\ stdout'[k] = x
    BY <2>3
  <2>5. n + 1 .. n = {}
    BY <1>2
  <2>6. stdout[n].for \in Vals(work)
    BY <1>1, <2>1, <2>2, <2>4, <2>5 DEF AnswerFollows
  <2> QED
    BY <1>7, <2>2, <2>4, <2>6 DEF ReadOutput
<1>8. ~ChildDies
  BY DEF ChildDies
<1> QED
  BY <1>4, <1>5, <1>6, <1>7, <1>8, Replies DEF Next, Answers

\* A report of the first slot is pushed right behind what was pushed before.
LEMMA ReportPushed ==
  ASSUME TypeOK, NEW cut \in BOOLEAN, ReadOutput(cut), NEW x \in Payload, Report(cut) = <<x>>
  PROVE  Len(pushed) + 1 \in DOMAIN pushed' /\ pushed'[Len(pushed) + 1] = x
<1> DEFINE p == pushed
           b == Blanks
           q == p \o <<x>>
<1>1. p \in Seq(Payload) /\ b \in Seq(Payload) /\ Len(p) \in Nat /\ Len(b) \in Nat
  BY BlanksType DEF TypeOK
<1>2. pushed' = q \o b
  BY DEF ReadOutput, Blanks
<1>3. q \in Seq(Payload) /\ Len(q) = Len(p) + 1 /\ q[Len(p) + 1] = x
  BY <1>1
<1> HIDE DEF p, b, q
<1>4. /\ q \o b \in Seq(Payload) /\ Len(q \o b) = Len(q) + Len(b)
      /\ \A k \in 1 .. Len(q) + Len(b) :
           (q \o b)[k] = IF k <= Len(q) THEN q[k] ELSE b[k - Len(q)]
  BY <1>1, <1>3, ConcatProperties, Zenon
<1>5. Len(q) \in 1 .. Len(q) + Len(b) /\ Len(q) <= Len(q)
  BY <1>1, <1>3
<1>6. Len(q) \in DOMAIN (q \o b) /\ (q \o b)[Len(q)] = q[Len(q)]
  <2>1. DOMAIN (q \o b) = 1 .. Len(q \o b)
    BY <1>4, LenProperties
  <2> QED
    BY <1>4, <1>5, <2>1
<1> QED
  BY <1>2, <1>3, <1>6 DEF p

\* Of a dead child nothing is left but what it has written.
Gone == ~alive => stdin = <<>> /\ buffer = <<>> /\ work = <<>>

LEMMA GoneStep == TypeOK /\ Gone /\ [Next]_vars => Gone'
<1> SUFFICES ASSUME TypeOK, Gone, [Next]_vars, ~alive'
             PROVE  stdin' = <<>> /\ buffer' = <<>> /\ work' = <<>>
  BY DEF Gone
<1>1. CASE ChildDies
  BY <1>1 DEF ChildDies
<1>2. ASSUME ~ChildDies PROVE ~alive
  BY <1>2 DEF Next, vars, childvars, Launch, ChildRuns, ChildRestarts, LaunchFails, Written,
         JobReceive, Notify, ReadOutput, ReadStdin, Answer, Request, ChildDies
<1>3. CASE ~ChildDies
  <2>1. ~alive /\ stdin = <<>> /\ buffer = <<>> /\ work = <<>>
    BY <1>2, <1>3 DEF Gone
  <2> QED
    BY <1>3, <2>1 DEF Next, vars, childvars, Launch, Written, JobReceive, Notify, WriteLine,
           WriteNothing, ReadOutput, ReadStdin, Answer, Request
<1> QED
  BY <1>1, <1>3

LEMMA LineStep ==
  ASSUME TypeOK, Bounded, AnswerFollows, Gone, [Next]_vars,
         NEW s \in 1 .. MaxSessions, s \in Lines, alive'
  PROVE  s \in Lines' \/ ReportedOver(s)'
<1>1. /\ stdin \in Seq(Sessions) /\ buffer \in Seq(Sessions) /\ work \in Seq(Sessions)
      /\ stdout \in Seq(Output)
  BY DEF TypeOK
<1>2. alive /\ ~ChildDies
  <2>1. ASSUME Launch, ~alive PROVE FALSE
    <3>1. stdin = <<>> /\ buffer = <<>> /\ work = <<>> /\ stdout = <<>>
      BY <2>1 DEF Launch, ChildRuns, ChildRestarts, LaunchFails, Gone
    <3>2. Lines = {}
      BY <3>1, ValsEmpty DEF Lines, Covered
    <3> QED
      BY <3>2
  <2> QED
    BY <2>1 DEF Next, vars, childvars, Written, JobReceive, Notify, ReadOutput, ReadStdin,
         Answer, Request, ChildDies
<1>3. CASE \/ Launch \/ Written \/ UNCHANGED vars
  BY <1>3 DEF Launch, Written, vars, childvars, Lines, Covered
<1>4. CASE \/ \E kind \in JobKinds : JobReceive(kind)
           \/ \E kind \in NoteKinds, own \in BOOLEAN : Notify(kind, own)
  <2>1. UNCHANGED <<buffer, work, stdout>> /\ met < MaxSessions
        /\ (WriteNothing \/ WriteLine(met + 1) \/ WriteLine(0))
    BY <1>4, Zenon DEF JobReceive, Notify
  <2>2. Vals(stdin) \subseteq Vals(stdin')
    <3>1. met + 1 \in Sessions /\ 0 \in Sessions
      BY <2>1, BoundsAssumption DEF TypeOK, Sessions
    <3>2. stdin' = stdin \/ stdin' = Append(stdin, met + 1) \/ stdin' = Append(stdin, 0)
      BY <2>1, Zenon DEF WriteNothing, WriteLine
    <3>3. \A v \in Sessions : Vals(Append(stdin, v)) = Vals(stdin) \cup {v}
      BY <1>1, ValsAppend
    <3> QED
      BY <3>1, <3>2, <3>3
  <2> QED
    BY <2>1, <2>2 DEF Lines, Covered
<1>5. CASE ReadStdin
  BY <1>5, ReadStdinVals DEF ReadStdin, Lines, Covered
<1>6. ASSUME NEW kind \in Answers, Reply(kind) PROVE s \in Lines'
  <2>1. Vals(work) \subseteq Vals(work') \cup {Head(work)} /\ Covered' = Covered \cup {Head(work)}
    BY <1>6, ReplyVals DEF Reply
  <2> QED
    BY <1>6, <2>1 DEF Reply, Lines
<1>7. ASSUME NEW cut \in BOOLEAN, ReadOutput(cut) PROVE s \in Lines' \/ ReportedOver(s)'
  <2>1. UNCHANGED <<buffer, work, session>> /\ stdin' \in {stdin, Append(stdin, Head(stdout).for)}
    BY <1>7 DEF ReadOutput
  <2>2. Head(stdout) \in Output /\ Head(stdout) = stdout[1] /\ Head(stdout).for \in Sessions
    <3>1. stdout # <<>>
      BY <1>7 DEF ReadOutput
    <3>2. Head(stdout) \in Output /\ Head(stdout) = stdout[1]
      BY <1>1, <3>1
    <3> QED
      BY <3>2 DEF Output
  <2>3. Vals(stdin) \subseteq Vals(stdin')
    <3>1. \A v \in Sessions : Vals(Append(stdin, v)) = Vals(stdin) \cup {v}
      BY <1>1, ValsAppend
    <3> QED
      BY <2>1, <2>2, <3>1
  <2>4. CASE s \notin Covered
    BY <2>1, <2>3, <2>4 DEF Lines
  <2>5. CASE s \in Covered /\ Chunk(cut) \in {"get_file", "push"}
    <3>1. Len(stdout) = 1 /\ Chunk(cut) = stdout[1].kind
      BY <2>2, <2>5 DEF Chunk
    <3>2. s = stdout[1].for /\ DOMAIN stdout = {1}
      BY <1>1, <2>5, <3>1 DEF Covered
    <3>3. CASE Chunk(cut) = "get_file"
      <4>1. stdin' = Append(stdin, s)
        BY <1>2, <1>7, <2>2, <3>2, <3>3 DEF ReadOutput
      <4> QED
        BY <1>1, <2>2, <3>2, <4>1, ValsAppend DEF Lines
    <3>4. CASE Chunk(cut) = "push"
      <4>1. 1 \in 1 .. Len(stdout) /\ 1 + 1 .. Len(stdout) = {}
        BY <3>1
      <4>2. s \in Vals(work)
        BY <1>2, <3>1, <3>2, <3>4, <4>1 DEF AnswerFollows
      <4> QED
        BY <2>1, <4>2 DEF Lines
    <3> QED
      BY <2>5, <3>3, <3>4
  <2>6. CASE s \in Covered /\ Chunk(cut) \notin {"get_file", "push"}
    <3> DEFINE x == [action |-> "terminate", session |-> session, covers |-> Covered]
    <3>1. s <= session /\ session # 0
      <4>1. s <= session
        BY DEF Bounded
      <4>2. session \in Nat
        BY LinesType
      <4> QED
        BY <4>1, <4>2
    <3>2. Report(cut) = <<x>>
      BY <2>6, <3>1 DEF Report, Terminate
    <3>3. x \in Payload
      BY CoveredType DEF TypeOK, Payload
    <3>4. Len(pushed) + 1 \in DOMAIN pushed' /\ pushed'[Len(pushed) + 1] = x
      BY <1>7, <3>2, <3>3, ReportPushed
    <3> QED
      BY <3>1, <3>4 DEF ReportedOver, Terminates
  <2> QED
    BY <2>4, <2>5, <2>6
<1> QED
  BY <1>2, <1>3, <1>4, <1>5, <1>6, <1>7, Replies DEF Next, Answers

-----------------------------------------------------------------------------
(* The theorems.                                                           *)

IInv ==
  /\ TypeOK /\ Bounded /\ NeverReportedBack /\ Acknowledged /\ ReceivedFirst
  /\ Serial /\ SerialReportsExact /\ Once /\ ReportedOnce /\ OneEach
  /\ AnswerFollows /\ Gone

LEMMA InvInit == Init => IInv
<1> SUFFICES ASSUME Init PROVE IInv
  OBVIOUS
<1>1. TypeOK
  BY TypeInit
<1>2. stdin = <<>> /\ buffer = <<>> /\ work = <<>> /\ stdout = <<>> /\ pushed = <<>>
      /\ session = 0 /\ met = 0
  BY DEF Init
<1>3. Terminates = {} /\ Covered = {} /\ Owing = {} /\ Owed = {} /\ Reported = {}
  BY <1>2 DEF Terminates, Covered, Owing, Owed, Reported
<1>4. Bounded /\ Acknowledged /\ NeverReportedBack /\ ReceivedFirst
        /\ SerialReportsExact /\ ReportedOnce /\ OneEach /\ Gone
  BY <1>2, <1>3, ValsEmpty
  DEF Bounded, Lines, Acknowledged, NeverReportedBack, ReceivedFirst, SerialReportsExact,
      ReportedOnce, OneEach, Gone
<1>5. 1 .. Len(<<>>) = {}
  BY EmptySeq
<1>6. Serial
  BY <1>2, <1>5 DEF Serial
<1>7. Once
  BY <1>2, <1>3, <1>5, SoleEmpty, ValsEmpty DEF Once, Apart
<1>8. AnswerFollows
  BY <1>2, <1>5 DEF AnswerFollows
<1> QED
  BY <1>1, <1>4, <1>6, <1>7, <1>8 DEF IInv

LEMMA Invariance == Spec => []IInv
<1>1. IInv /\ [Next]_vars => IInv'
  BY TypeStep, BoundedStep, NeverReportedBackStep, AcknowledgedStep, ReceivedFirstStep,
     SerialStep, SerialReportsExactStep, OnceStep, ReportedOnceStep,
     OneEachStep, AnswerFollowsStep, GoneStep DEF IInv
<1> QED
  BY <1>1, InvInit, PTL DEF Spec

\* Whatever the child writes and however it is cut into chunks, no output is
\* reported for a session that was over before its line was written.
THEOREM NeverReportedBackAlways == Spec => []NeverReportedBack
BY Invariance, PTL DEF IInv

\* "receive" reaches the servers before "terminate", though the output slot may
\* run inside waitForBytesWritten.
THEOREM ReceivedFirstAlways == Spec => []ReceivedFirst
BY Invariance, PTL DEF IInv

\* One job at a time is reported for exactly its own session.
THEOREM SerialReportsExactAlways == Spec => []SerialReportsExact
BY Invariance, PTL DEF IInv

\* However many jobs overlap, the servers are told of no end too many while there is
\* one launch and the chunks are whole: every end is one answer, and no answer is in
\* two.
THEOREM NoExtraEndAlways == Spec => []NoExtraEnd
<1>1. IInv => NoExtraEnd
  BY EndsCounted DEF IInv
<1> QED
  BY <1>1, Invariance, PTL

\* The child's stream buffer holds a line back only when Service has written it
\* before the line ahead was answered.
THEOREM BufferedOnlyOnOverlapAlways == Spec => []BufferedOnlyOnOverlap
<1>1. IInv => BufferedOnlyOnOverlap
  BY DEF IInv, Serial, BufferedOnlyOnOverlap
<1> QED
  BY <1>1, Invariance, PTL

\* No step of Service or of the child drops a session between its line and its
\* report: the safety half of EveryLineReported, for any number of sessions.
THEOREM NoLineLostAlways == Spec => NoLineLost
<1>1. IInv /\ IInv' /\ [Next]_vars
        => [\A s \in 1 .. MaxSessions :
             Underway(s) => Underway(s)' \/ ReportedOver(s)' \/ crashed' \/ ~alive']_vars
  <2> SUFFICES ASSUME IInv, IInv', [Next]_vars, NEW s \in 1 .. MaxSessions, Underway(s), alive'
               PROVE  Underway(s)' \/ ReportedOver(s)'
    OBVIOUS
  <2>1. TypeOK /\ TypeOK' /\ Bounded /\ AnswerFollows /\ Gone
    BY DEF IInv
  <2>2. s \in Lines' \/ ReportedOver(s)'
    BY <2>1, LineStep, UnderwayLines
  <2>3. Underway(s)' <=> s \in Lines'
    BY <2>1, UnderwayLinesNext
  <2> QED
    BY <2>2, <2>3
<1> QED
  BY <1>1, Invariance, PTL DEF Spec, NoLineLost
=============================================================================
