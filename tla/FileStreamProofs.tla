-------------------------- MODULE FileStreamProofs --------------------------
(* Theorems about FileStream, for all servers, files, replies and bounds.  *)
EXTENDS FileStream, SequenceTheorems, TLAPS

-----------------------------------------------------------------------------
(* The inductive invariant.                                                *)

\* A request that is not answered is that of the transfer at hand, and nothing
\* has come for it yet; its socket, and one with parts to read, is busy.
OneRequest ==
  \A i \in Servers :
    /\ asked[i] # "none" => busy[i] /\ inbox[i] = <<>>
    /\ inbox[i] # <<>> => busy[i]
    /\ up /\ asked[i] # "none" =>
         file = asked[i] /\ server = i /\ written[file] = {}

\* The transfer at hand has a server, and its file exists if it can.
Transferring ==
  file # "none" => up /\ server \in Servers /\ present[file] = (file \in Openable)

\* k parts have been read, none of them empty, and the file holds them; the rest
\* is to come.
ReadSoFar(f, q, w, k) ==
  /\ Len(q) + k = Len(Reply[f])
  /\ \A j \in 1 .. Len(q) : q[j] = [of |-> f, n |-> k + j]
  /\ \A j \in 1 .. k : Reply[f][j] # "empty"
  /\ w = IF f \in Openable THEN {[of |-> f, n |-> j] : j \in 1 .. k} ELSE {}

InOrder ==
  file # "none" /\ inbox[server] # <<>> =>
    \/ inbox[server] = <<Refusal(file)>>
    \/ \E k \in 0 .. Len(Reply[file]) : ReadSoFar(file, inbox[server], written[file], k)

IInv ==
  /\ TypeOK /\ OneRequest /\ Transferring /\ InOrder
  /\ OwnPartsOnly /\ JammedByEmptyPart

LEMMA InvInit == Init => IInv
BY ConstantsAssumption
   DEF Init, IInv, TypeOK, OneRequest, Transferring, InOrder, OwnPartsOnly,
       JammedByEmptyPart, Kinds

-----------------------------------------------------------------------------
(* Parts.                                                                  *)

LEMMA ReplyLength ==
  ASSUME NEW f \in Files
  PROVE  Len(Reply[f]) \in Nat /\ Len(Reply[f]) > 0
<1>1. Reply[f] \in Seq(Kinds) /\ Reply[f] # <<>>
  BY ConstantsAssumption
<1> QED
  BY <1>1, LenProperties

LEMMA ReplyParts ==
  ASSUME NEW f \in Files
  PROVE  /\ Parts(f) \in Seq(Part) /\ Len(Parts(f)) = Len(Reply[f])
         /\ <<Refusal(f)>> \in Seq(Part)
<1>1. Len(Reply[f]) \in Nat
  BY ReplyLength
<1>2. Parts(f) \in [1 .. Len(Reply[f]) -> Part]
  BY <1>1 DEF Parts, Part
<1>3. Refusal(f) \in Part
  BY DEF Refusal, Part
<1> QED
  BY <1>1, <1>2, <1>3 DEF Parts

\* The part recv takes is the refusal, or the next of the file, and ZMQ_RCVMORE
\* tells whether it is the last.
LEMMA NextPart ==
  ASSUME IInv, file # "none", inbox[server] # <<>>
  PROVE  /\ server \in Servers /\ file \in Files /\ part \in Part
         /\ Tail(inbox[server]) \in Seq(Part)
         /\ ~more <=> Tail(inbox[server]) = <<>>
         /\ \/ part = Refusal(file) /\ Kind(part) = "refusal" /\ ~more
            \/ \E k \in 0 .. Len(Reply[file]) - 1 :
                 /\ ReadSoFar(file, inbox[server], written[file], k)
                 /\ part = [of |-> file, n |-> k+1] /\ Kind(part) = Reply[file][k+1]
                 /\ Kind(part) \in Kinds
                 /\ more <=> k+1 < Len(Reply[file])
<1>1. server \in Servers /\ file \in Files
  BY DEF IInv, TypeOK, Transferring
<1> DEFINE q == inbox[server]
           L == Len(Reply[file])
           l == Len(q)
<1>2. q \in Seq(Part) /\ q # <<>> /\ l \in Nat /\ l > 0
  BY <1>1, LenProperties DEF IInv, TypeOK
<1>3. part \in Part /\ part = q[1] /\ (more <=> l > 1)
  BY <1>2 DEF part, more
<1>4. Tail(q) \in Seq(Part) /\ Len(Tail(q)) = l - 1
  BY <1>2
<1>5. ~more <=> Tail(q) = <<>>
  <2>1. Tail(q) = <<>> <=> Len(Tail(q)) = 0
    BY <1>4, EmptySeq
  <2> DEFINE m == Len(Tail(q))
  <2>2. m = l - 1 /\ l \in Nat /\ l > 0 /\ (more <=> l > 1)
    BY <1>2, <1>3, <1>4
  <2> HIDE DEF l, m
  <2>3. ~more <=> m = 0
    BY <2>2
  <2> QED
    BY <2>1, <2>3 DEF m
<1>6. CASE q = <<Refusal(file)>>
  BY <1>1, <1>3, <1>4, <1>5, <1>6 DEF Refusal, Kind
<1>7. CASE \E k \in 0 .. L : ReadSoFar(file, q, written[file], k)
  <2>1. PICK k \in 0 .. L : ReadSoFar(file, q, written[file], k)
    BY <1>7
  <2>2. L \in Nat
    BY <1>1, ReplyLength
  <2>3. l + k = L /\ q[1] = [of |-> file, n |-> k + 1]
    BY <2>1, <1>2 DEF ReadSoFar
  <2> HIDE DEF l, L
  <2>4. k \in 0 .. L-1 /\ k+1 \in 1 .. L /\ (l > 1 <=> k+1 < L)
    BY <1>2, <2>2, <2>3
  <2>5. Kind(part) = Reply[file][k+1] /\ Reply[file][k+1] \in Kinds
    <3>1. Reply[file] \in Seq(Kinds)
      BY <1>1, ConstantsAssumption
    <3>2. Reply[file][k+1] \in Kinds
      BY <2>4, <3>1 DEF L
    <3> QED
      BY <1>3, <2>3, <2>4, <3>2 DEF Kind
  <2> QED
    BY <1>1, <1>3, <1>4, <1>5, <2>1, <2>3, <2>4, <2>5 DEF L
<1> QED
  BY <1>6, <1>7 DEF IInv, InOrder

\* Reading a part leaves the requests in order.
LEMMA RecvSteps ==
  ASSUME IInv, Recv, written' \in [Files -> SUBSET Part]
  PROVE  /\ inbox' \in [Servers -> Seq(Part)] /\ busy' \in [Servers -> BOOLEAN]
         /\ OneRequest'
         /\ \A i \in Servers : i # server => busy'[i] = busy[i]
         /\ server \in Servers /\ file \in Files
<1>1. /\ server \in Servers /\ file \in Files /\ up
      /\ Tail(inbox[server]) \in Seq(Part)
      /\ ~more <=> Tail(inbox[server]) = <<>>
  BY NextPart DEF Recv, IInv, Transferring
<1>2. more \in BOOLEAN
  BY DEF more
<1>3. inbox' \in [Servers -> Seq(Part)] /\ busy' \in [Servers -> BOOLEAN]
  BY <1>1, <1>2 DEF Recv, IInv, TypeOK
<1>4. \A i \in Servers : asked[i] = "none"
  BY <1>1 DEF Recv, IInv, OneRequest
<1>5. OneRequest'
  BY <1>1, <1>4 DEF Recv, IInv, OneRequest, TypeOK
<1>6. \A i \in Servers : i # server => busy'[i] = busy[i]
  BY <1>1 DEF Recv, IInv, TypeOK
<1> QED
  BY <1>1, <1>3, <1>5, <1>6

LEMMA OpenSteps ==
  ASSUME IInv, NEW f \in Files, Open(f)
  PROVE  /\ present' \in [Files -> BOOLEAN] /\ written' \in [Files -> SUBSET Part]
         /\ present'[f] = (f \in Openable) /\ written'[f] = {}
         /\ OwnPartsOnly'
BY DEF IInv, TypeOK, Open, OwnPartsOnly

LEMMA AskSteps ==
  ASSUME IInv, NEW f \in Files, NEW i \in Servers, Ask(f, i)
  PROVE  IInv'
<1> USE DEF IInv, Ask, Send
<1>1. /\ present' \in [Files -> BOOLEAN] /\ written' \in [Files -> SUBSET Part]
      /\ present'[f] = (f \in Openable) /\ written'[f] = {}
      /\ OwnPartsOnly'
  BY OpenSteps
<1>2. f # "none" /\ i # "none"
  BY ConstantsAssumption
<1>3. inbox[i] = <<>> /\ up
  BY DEF OneRequest
<1>4. \A j \in Servers : asked[j] = "none"
  BY <1>3, <1>2 DEF OneRequest, TypeOK
<1>5. TypeOK'
  <2>1. asks' \in 0 .. MaxAsks
    BY ConstantsAssumption DEF TypeOK
  <2>2. /\ asked' \in [Servers -> Files \cup {"none"}] /\ busy' \in [Servers -> BOOLEAN]
        /\ verdict' \in [Files -> {"none", "received", "error"}]
    BY DEF TypeOK
  <2> QED
    BY <1>1, <2>1, <2>2 DEF TypeOK
<1>6. OneRequest'
  BY <1>1, <1>2, <1>3, <1>4 DEF OneRequest, TypeOK
<1>7. Transferring' /\ InOrder'
  BY <1>1, <1>3 DEF Transferring, InOrder
<1>8. JammedByEmptyPart'
  BY <1>2 DEF JammedByEmptyPart, TypeOK
<1> QED
  BY <1>1, <1>5, <1>6, <1>7, <1>8

LEMMA AskThrowsSteps ==
  ASSUME IInv, NEW f \in Files, NEW i \in Servers, AskThrows(f, i)
  PROVE  IInv'
<1> USE DEF IInv, AskThrows, Down
<1>1. /\ present' \in [Files -> BOOLEAN] /\ written' \in [Files -> SUBSET Part]
      /\ OwnPartsOnly'
  BY OpenSteps
<1>2. TypeOK'
  <2>1. asks' \in 0 .. MaxAsks
    BY ConstantsAssumption DEF TypeOK
  <2>2. verdict' \in [Files -> {"none", "received", "error"}]
    OBVIOUS
  <2> QED
    BY <1>1, <2>1, <2>2 DEF TypeOK
<1>3. OneRequest'
  BY DEF OneRequest
<1>4. Transferring' /\ InOrder' /\ JammedByEmptyPart'
  BY DEF Transferring, InOrder, JammedByEmptyPart
<1> QED
  BY <1>1, <1>2, <1>3, <1>4

LEMMA RespondSteps ==
  ASSUME IInv, NEW i \in Servers, Respond(i)
  PROVE  IInv'
<1> USE DEF IInv, Respond, diskvars
<1>1. PICK r \in {Parts(asked[i]), <<Refusal(asked[i])>>} :
        inbox' = [inbox EXCEPT ![i] = @ \o r]
  OBVIOUS
<1>2. asked[i] \in Files /\ inbox[i] = <<>> /\ inbox \in [Servers -> Seq(Part)]
  BY DEF TypeOK, OneRequest
<1>3. r \in Seq(Part)
  BY <1>1, <1>2, ReplyParts
<1>4. inbox[i] \o r = r
  BY <1>2, <1>3
<1>5. inbox' = [inbox EXCEPT ![i] = r]
  BY <1>1, <1>4
<1>6. TypeOK'
  BY <1>3, <1>5 DEF TypeOK
<1>7. OneRequest'
  <2>1. asked' \in [Servers -> Files \cup {"none"}] /\ asked'[i] = "none"
    BY DEF TypeOK
  <2>2. \A j \in Servers : j # i => asked'[j] = asked[j] /\ inbox'[j] = inbox[j]
    BY <1>2, <1>5 DEF TypeOK
  <2>3. busy[i] /\ (up => file = asked[i] /\ server = i)
    BY <1>2 DEF OneRequest
  <2> QED
    BY <2>1, <2>2, <2>3 DEF OneRequest
<1>8. Transferring' /\ OwnPartsOnly' /\ JammedByEmptyPart'
  BY DEF Transferring, OwnPartsOnly, JammedByEmptyPart
<1>9. InOrder'
  <2> SUFFICES ASSUME file # "none", inbox'[server] # <<>>
               PROVE  \/ inbox'[server] = <<Refusal(file)>>
                      \/ \E k \in 0 .. Len(Reply[file]) : ReadSoFar(file, inbox'[server], written[file], k)
    BY DEF InOrder
  <2>1. CASE server # i
    BY <1>5, <2>1 DEF InOrder, TypeOK, Transferring
  <2>2. CASE server = i
    <3>1. file = asked[i] /\ written[file] = {} /\ inbox'[server] = r
      BY <1>2, <1>5, <2>2, ConstantsAssumption DEF OneRequest, Transferring
    <3>2. CASE r = <<Refusal(asked[i])>>
      BY <3>1, <3>2
    <3>3. CASE r = Parts(asked[i])
      <4>1. Len(Reply[file]) \in Nat /\ Len(r) = Len(Reply[file])
        BY <1>2, <3>1, <3>3, ReplyLength, ReplyParts
      <4>2. Len(r) + 0 = Len(Reply[file]) /\ \A j \in 1 .. Len(r) : r[j] = [of |-> file, n |-> 0 + j]
        BY <3>1, <3>3, <4>1 DEF Parts
      <4>3. {[of |-> file, n |-> j] : j \in 1 .. 0} = {}
        OBVIOUS
      <4>4. ReadSoFar(file, r, written[file], 0)
        BY <3>1, <4>2, <4>3 DEF ReadSoFar
      <4>5. 0 \in 0 .. Len(Reply[file])
        BY <4>1
      <4>6. \E k \in 0 .. Len(Reply[file]) : ReadSoFar(file, r, written[file], k)
        BY <4>4, <4>5
      <4> QED
        BY <3>1, <4>6
    <3> QED
      BY <1>1, <3>2, <3>3
  <2> QED
    BY <2>1, <2>2
<1> QED
  BY <1>6, <1>7, <1>8, <1>9

\* What the end of a transfer leaves: nothing is asked of any server.
LEMMA TellSteps ==
  ASSUME IInv, Recv, written' \in [Files -> SUBSET Part],
         present' \in [Files -> BOOLEAN], shortened' \subseteq Servers,
         more => server \in shortened', shortened \subseteq shortened',
         NEW v \in {"received", "error"}, Tell(v)
  PROVE  TypeOK' /\ OneRequest' /\ Transferring' /\ InOrder' /\ JammedByEmptyPart'
<1>1. /\ inbox' \in [Servers -> Seq(Part)] /\ busy' \in [Servers -> BOOLEAN]
      /\ OneRequest'
      /\ \A i \in Servers : i # server => busy'[i] = busy[i]
      /\ server \in Servers /\ file \in Files
  BY RecvSteps
<1>2. Kind(part) \in Kinds \cup {"refusal"}
  BY NextPart DEF Recv
<1>3. TypeOK'
  <2>1. /\ verdict' \in [Files -> {"none", "received", "error"}]
        /\ lastpart' \in [Files -> Kinds \cup {"none", "refusal"}]
    BY <1>1, <1>2 DEF IInv, TypeOK, Tell
  <2> QED
    BY <1>1, <2>1 DEF IInv, TypeOK, Tell, Recv
<1>4. Transferring' /\ InOrder'
  BY DEF Tell, Transferring, InOrder
<1>5. JammedByEmptyPart'
  <2> SUFFICES ASSUME NEW i \in Servers, up, busy'[i]
               PROVE  i \in shortened'
    BY DEF JammedByEmptyPart, Recv
  <2>1. CASE i = server
    BY <1>1, <2>1 DEF Recv, IInv, TypeOK
  <2>2. CASE i # server
    BY <1>1, <2>2 DEF IInv, JammedByEmptyPart
  <2> QED
    BY <2>1, <2>2
<1> QED
  BY <1>1, <1>3, <1>4, <1>5

LEMMA RefusedSteps ==
  ASSUME IInv, Refused
  PROVE  IInv'
<1>1. file \in Files
  BY NextPart DEF Refused, Recv
<1>2. present' \in [Files -> BOOLEAN] /\ written' \in [Files -> SUBSET Part]
  BY <1>1 DEF Refused, Remove, IInv, TypeOK
<1>3. OwnPartsOnly'
  BY <1>1 DEF Refused, Remove, IInv, TypeOK, OwnPartsOnly
<1>4. Recv /\ ~more /\ shortened' = shortened /\ Tell("error")
  BY DEF Refused
<1>5. shortened \subseteq Servers
  BY DEF IInv, TypeOK
<1>6. TypeOK' /\ OneRequest' /\ Transferring' /\ InOrder' /\ JammedByEmptyPart'
  BY <1>2, <1>4, <1>5, TellSteps
<1> QED
  BY <1>3, <1>6 DEF IInv

LEMMA EndedSteps ==
  ASSUME IInv, Ended
  PROVE  IInv'
<1>1. file \in Files /\ server \in Servers
  BY NextPart DEF Ended, Recv
<1>2. present' \in [Files -> BOOLEAN] /\ written' \in [Files -> SUBSET Part]
  BY DEF Ended, diskvars, IInv, TypeOK
<1>3. OwnPartsOnly'
  BY DEF Ended, diskvars, IInv, OwnPartsOnly
<1>4. Recv /\ Tell("received")
  BY DEF Ended
<1>5. shortened' \subseteq Servers /\ (more => server \in shortened') /\ shortened \subseteq shortened'
  BY <1>1 DEF Ended, IInv, TypeOK
<1>6. TypeOK' /\ OneRequest' /\ Transferring' /\ InOrder' /\ JammedByEmptyPart'
  BY <1>2, <1>4, <1>5, TellSteps
<1> QED
  BY <1>3, <1>6 DEF IInv

\* A part that is stored is the next of the file, and the file holds it.
LEMMA StoredPart ==
  ASSUME IInv, Stored
  PROVE  /\ file \in Files /\ server \in Servers
         /\ written' \in [Files -> SUBSET Part]
         /\ \A f \in Files : f # file => written'[f] = written[f]
         /\ \E k \in 0 .. Len(Reply[file]) - 1 :
              /\ ReadSoFar(file, inbox[server], written[file], k)
              /\ Reply[file][k+1] # "empty"
              /\ written'[file] = IF file \in Openable
                                    THEN {[of |-> file, n |-> j] : j \in 1 .. k+1} ELSE {}
<1>1. file # "none" /\ inbox[server] # <<>>
  BY DEF Stored, Recv
<1>2. server \in Servers /\ file \in Files /\ part \in Part
  BY <1>1, NextPart
<1>3. PICK k \in 0 .. Len(Reply[file]) - 1 :
        /\ ReadSoFar(file, inbox[server], written[file], k)
        /\ part = [of |-> file, n |-> k+1] /\ Kind(part) = Reply[file][k+1]
  <2>1. ~(Kind(part) = "refusal" /\ ~more)
    BY DEF Stored, IsError
  <2> QED
    BY <1>1, <2>1, NextPart
<1>4. written' \in [Files -> SUBSET Part] /\ \A f \in Files : f # file => written'[f] = written[f]
  BY <1>2 DEF Stored, Write, IInv, TypeOK
<1>5. Reply[file][k+1] # "empty"
  BY <1>3 DEF Stored
<1>6. written'[file] = IF file \in Openable THEN written[file] \cup {part} ELSE written[file]
  BY <1>2 DEF Stored, Write, IInv, TypeOK
<1>7. k \in Nat
  BY <1>2, <1>3, ReplyLength
<1>8. {[of |-> file, n |-> j] : j \in 1 .. k+1}
        = {[of |-> file, n |-> j] : j \in 1 .. k} \cup {[of |-> file, n |-> k+1]}
  <2>1. 1 .. k+1 = 1 .. k \cup {k+1}
    BY <1>7
  <2> QED
    BY <2>1
<1>9. written'[file] = IF file \in Openable
                         THEN {[of |-> file, n |-> j] : j \in 1 .. k+1} ELSE {}
  BY <1>3, <1>6, <1>8 DEF ReadSoFar
<1> QED
  BY <1>2, <1>3, <1>4, <1>5, <1>9

LEMMA StoredSteps ==
  ASSUME IInv, Stored
  PROVE  IInv'
<1>1. /\ file \in Files /\ server \in Servers
      /\ written' \in [Files -> SUBSET Part]
      /\ \A f \in Files : f # file => written'[f] = written[f]
  BY StoredPart
<1>2. PICK k \in 0 .. Len(Reply[file]) - 1 :
        /\ ReadSoFar(file, inbox[server], written[file], k)
        /\ Reply[file][k+1] # "empty"
        /\ written'[file] = IF file \in Openable
                              THEN {[of |-> file, n |-> j] : j \in 1 .. k+1} ELSE {}
  BY StoredPart
<1>3. k \in Nat /\ k + 1 \in 0 .. Len(Reply[file])
  BY <1>1, <1>2, ReplyLength
<1>4. \A j \in 1 .. k+1 : Reply[file][j] # "empty"
  <2>1. \A j \in 1 .. k : Reply[file][j] # "empty"
    BY <1>2 DEF ReadSoFar
  <2> QED
    BY <1>2, <1>3, <2>1
<1>5. OwnPartsOnly'
  <2> SUFFICES ASSUME NEW f \in Files, NEW p \in written'[f]
               PROVE  /\ p.of = f /\ p.n > 0
                      /\ \A j \in 1 .. p.n :
                           Reply[f][j] # "empty" => [of |-> f, n |-> j] \in written'[f]
    BY DEF OwnPartsOnly
  <2>1. CASE f = file
    <3>1. file \in Openable
      BY <1>2, <2>1
    <3>2. written'[f] = {[of |-> f, n |-> j] : j \in 1 .. k+1}
      BY <1>2, <2>1, <3>1
    <3>3. p.of = f /\ p.n \in 1 .. k+1
      BY <3>2
    <3>4. p.n > 0 /\ \A j \in 1 .. p.n : j \in 1 .. k+1
      BY <1>3, <3>3
    <3> QED
      BY <3>2, <3>3, <3>4
  <2>2. CASE f # file
    BY <1>1, <2>2 DEF IInv, OwnPartsOnly
  <2> QED
    BY <2>1, <2>2
<1>6. Recv /\ present' = present /\ shortened' = shortened
  BY DEF Stored, Write
<1>7. CASE ~more
  <2>1. Tell("received")
    BY <1>7 DEF Stored
  <2>2. shortened \subseteq Servers /\ present \in [Files -> BOOLEAN]
    BY DEF IInv, TypeOK
  <2>3. TypeOK' /\ OneRequest' /\ Transferring' /\ InOrder' /\ JammedByEmptyPart'
    BY <1>1, <1>6, <1>7, <2>1, <2>2, TellSteps
  <2> QED
    BY <1>5, <2>3 DEF IInv
<1>8. CASE more
  <2>1. UNCHANGED <<file, verdict, lastpart>>
    BY <1>8 DEF Stored
  <2>2. /\ inbox' \in [Servers -> Seq(Part)] /\ busy' \in [Servers -> BOOLEAN]
        /\ OneRequest'
        /\ \A i \in Servers : i # server => busy'[i] = busy[i]
    BY <1>1, <1>6, RecvSteps
  <2>3. TypeOK'
    BY <1>1, <1>6, <2>1, <2>2 DEF IInv, TypeOK, Recv
  <2>4. Transferring'
    BY <1>6, <2>1 DEF IInv, Transferring, Recv
  <2>5. JammedByEmptyPart'
    BY <1>6, <2>1, <2>2 DEF IInv, JammedByEmptyPart, Recv
  <2>6. InOrder'
    <3> DEFINE q == inbox[server]
               l == Len(q)
               L == Len(Reply[file])
    <3>1. q \in Seq(Part) /\ q # <<>> /\ inbox'[server] = Tail(q) /\ server' = server
      BY <1>1, <1>6 DEF Recv, IInv, TypeOK
    <3>2. /\ Len(Tail(q)) = l - 1 /\ l \in Nat /\ l > 0
          /\ \A j \in 1 .. l-1 : Tail(q)[j] = q[j+1]
      BY <3>1
    <3>3. l + k = L /\ \A j \in 1 .. l : q[j] = [of |-> file, n |-> k+j]
      BY <1>2 DEF ReadSoFar
    <3>4. L \in Nat
      BY <1>1, ReplyLength
    <3>5. l - 1 + (k + 1) = L /\ \A j \in 1 .. l-1 : j+1 \in 1 .. l /\ k+(j+1) = (k+1)+j
      <4> HIDE DEF l, L
      <4> QED
        BY <1>3, <3>2, <3>3, <3>4
    <3>6. \A j \in 1 .. l-1 : Tail(q)[j] = [of |-> file, n |-> (k+1)+j]
      BY <3>2, <3>3, <3>5
    <3>7. ReadSoFar(file, Tail(q), written'[file], k+1)
      BY <1>2, <1>4, <3>2, <3>5, <3>6 DEF ReadSoFar
    <3>8. \E m \in 0 .. Len(Reply[file]) : ReadSoFar(file, Tail(q), written'[file], m)
      BY <1>3, <3>7
    <3> QED
      BY <2>1, <3>1, <3>8 DEF InOrder
  <2> QED
    BY <1>5, <2>2, <2>3, <2>4, <2>5, <2>6 DEF IInv
<1> QED
  BY <1>7, <1>8

LEMMA KillSteps ==
  ASSUME IInv, Kill
  PROVE  IInv'
<1> USE DEF IInv, Kill, Down
<1>1. /\ written' \in [Files -> SUBSET Part]
      /\ \/ written' = written
         \/ \E k \in Nat : /\ file \in Files
                          /\ written' = [written EXCEPT ![file] = {p \in @ : p.n <= k}]
  <2>1. CASE UNCHANGED written
    BY <2>1 DEF TypeOK
  <2>2. CASE file # "none"
    <3>1. file \in Files /\ Len(Reply[file]) \in Nat
      BY <2>2, ReplyLength DEF TypeOK
    <3>2. PICK k \in 0 .. Len(Reply[file]) :
            written' = [written EXCEPT ![file] = {p \in @ : p.n <= k}]
      BY <2>2, <3>1
    <3>3. k \in Nat
      BY <3>1, <3>2
    <3> QED
      BY <3>1, <3>2, <3>3 DEF TypeOK
  <2> QED
    BY <2>1, <2>2
<1>2. TypeOK'
  <2>1. kills' \in 0 .. MaxKills
    BY ConstantsAssumption DEF TypeOK
  <2>2. verdict' \in [Files -> {"none", "received", "error"}]
    OBVIOUS
  <2> QED
    BY <1>1, <2>1, <2>2 DEF TypeOK
<1>3. OneRequest' /\ Transferring' /\ InOrder' /\ JammedByEmptyPart'
  BY DEF OneRequest, Transferring, InOrder, JammedByEmptyPart
<1>4. OwnPartsOnly'
  <2>1. CASE written' = written
    BY <2>1 DEF OwnPartsOnly
  <2>2. ASSUME NEW k \in Nat, file \in Files,
               written' = [written EXCEPT ![file] = {p \in @ : p.n <= k}]
        PROVE  OwnPartsOnly'
    <3> SUFFICES ASSUME NEW f \in Files, NEW p \in written'[f]
                 PROVE  /\ p.of = f /\ p.n > 0
                        /\ \A j \in 1 .. p.n :
                             Reply[f][j] # "empty" => [of |-> f, n |-> j] \in written'[f]
      BY DEF OwnPartsOnly
    <3>1. p \in written[f] /\ p \in Part /\ (f = file => p.n <= k)
      BY <2>2 DEF TypeOK
    <3>2. /\ p.of = f /\ p.n > 0 /\ p.n \in Nat
          /\ \A j \in 1 .. p.n : Reply[f][j] # "empty" => [of |-> f, n |-> j] \in written[f]
      BY <3>1 DEF OwnPartsOnly, Part
    <3>3. f = file => \A j \in 1 .. p.n : j <= k
      BY <3>1, <3>2
    <3> QED
      BY <2>2, <3>2, <3>3 DEF TypeOK
  <2> QED
    BY <1>1, <2>1, <2>2
<1> QED
  BY <1>2, <1>3, <1>4

LEMMA RestartSteps ==
  ASSUME IInv, Restart
  PROVE  IInv'
<1> USE DEF IInv, Restart, diskvars
<1>1. TypeOK'
  BY DEF TypeOK
<1>2. OneRequest' /\ Transferring' /\ InOrder' /\ JammedByEmptyPart' /\ OwnPartsOnly'
  BY DEF OneRequest, Transferring, InOrder, JammedByEmptyPart, OwnPartsOnly
<1> QED
  BY <1>1, <1>2

LEMMA InvStep == IInv /\ [Next]_vars => IInv'
<1> SUFFICES ASSUME IInv, [Next]_vars
             PROVE  IInv'
  OBVIOUS
<1>1. ASSUME NEW f \in Files, NEW i \in Servers, Ask(f, i) \/ AskThrows(f, i)
      PROVE  IInv'
  BY <1>1, AskSteps, AskThrowsSteps
<1>2. ASSUME NEW i \in Servers, Respond(i)
      PROVE  IInv'
  BY <1>2, RespondSteps
<1>3. CASE ReadPart
  BY <1>3, RefusedSteps, EndedSteps, StoredSteps DEF ReadPart
<1>4. CASE Kill \/ Restart
  BY <1>4, KillSteps, RestartSteps
<1>5. CASE UNCHANGED vars
  BY <1>5 DEF vars, diskvars, IInv, TypeOK, OneRequest, Transferring, InOrder,
              OwnPartsOnly, JammedByEmptyPart
<1> QED
  BY <1>1, <1>2, <1>3, <1>4, <1>5 DEF Next

LEMMA Invariance == Spec => []IInv
BY InvInit, InvStep, PTL DEF Spec

-----------------------------------------------------------------------------
(* The promise.                                                            *)

\* A step that works on one file leaves the copies of the others.
LEMMA OneCopy ==
  ASSUME TypeOK, NEW f \in Files,
         \A g \in Files : g # f => present'[g] = present[g] /\ written'[g] = written[g]
  PROVE  /\ Copy' = [Copy EXCEPT ![f] = Copy'[f]]
         /\ Copy'[f] \in {"absent", "partial", "whole"}
         /\ present'[f] = present[f] /\ written'[f] = written[f] => Copy' = Copy
BY Zenon DEF Copy

LEMMA AskBegins ==
  ASSUME IInv, NEW f \in Files, NEW i \in Servers, Ask(f, i)
  PROVE  Promise!Begin(f)
<1>1. \A g \in Files : g # f => present'[g] = present[g] /\ written'[g] = written[g]
  BY DEF Ask, Open, IInv, TypeOK
<1>2. Copy' = [Copy EXCEPT ![f] = Copy'[f]] /\ Copy'[f] \in {"absent", "partial", "whole"}
  BY <1>1, OneCopy DEF IInv
<1> QED
  BY <1>2 DEF Ask, Send, Promise!Begin, Promise!Copies

LEMMA AskThrowsInterrupts ==
  ASSUME IInv, NEW f \in Files, NEW i \in Servers, AskThrows(f, i)
  PROVE  Promise!Interrupt(f)
<1>1. \A g \in Files : g # f => present'[g] = present[g] /\ written'[g] = written[g]
  BY DEF AskThrows, Open, IInv, TypeOK
<1>2. Copy' = [Copy EXCEPT ![f] = Copy'[f]] /\ Copy'[f] \in {"absent", "partial", "whole"}
  BY <1>1, OneCopy DEF IInv
<1> QED
  BY <1>2 DEF AskThrows, Down, Promise!Interrupt, Promise!Copies

LEMMA RefusedRefuses ==
  ASSUME IInv, Refused
  PROVE  file \in Files /\ Promise!Refuse(file)
<1>1. file \in Files
  BY NextPart DEF Refused, Recv
<1>2. /\ \A g \in Files : g # file => present'[g] = present[g] /\ written'[g] = written[g]
      /\ ~present'[file]
  BY <1>1 DEF Refused, Remove, IInv, TypeOK
<1>3. Copy' = [Copy EXCEPT ![file] = Copy'[file]]
  BY <1>1, <1>2, OneCopy DEF IInv
<1>4. Copy'[file] = "absent"
  BY <1>1, <1>2 DEF Copy
<1> QED
  BY <1>1, <1>3, <1>4 DEF Refused, Tell, Promise!Refuse

\* All parts but empty ones have been written: the copy is whole.
LEMMA WholeCopy ==
  ASSUME NEW f \in Files, NEW k \in 0 .. Len(Reply[f]),
         \A j \in 1 .. k : Reply[f][j] # "empty",
         \A j \in 1 .. Len(Reply[f]) : j > k => Reply[f][j] = "empty"
  PROVE  Whole(f) = {[of |-> f, n |-> j] : j \in 1 .. k}
<1> DEFINE L == Len(Reply[f])
<1>1. L \in Nat
  BY ReplyLength
<1>2. 1 .. k = {j \in 1 .. L : Reply[f][j] # "empty"}
  <2> HIDE DEF L
  <2>1. \A j \in 1 .. k : j \in 1 .. L
    BY <1>1 DEF L
  <2>2. \A j \in 1 .. L : ~(j > k) => j \in 1 .. k
    BY <1>1 DEF L
  <2> QED
    BY <2>1, <2>2 DEF L
<1> QED
  BY <1>2 DEF Whole

LEMMA EndedReceives ==
  ASSUME IInv, Ended
  PROVE  file \in Files /\ Promise!Receive(file)
<1>1. file \in Files /\ file # "none"
  BY NextPart DEF Ended, Recv
<1>2. /\ file' = "none" /\ verdict' = [verdict EXCEPT ![file] = "received"]
      /\ UNCHANGED diskvars /\ Copy' = Copy
  BY DEF Ended, Tell, diskvars, Copy
<1>3. ASSUME file \in Sound
      PROVE  Copy[file] = "whole"
  <2>1. PICK k \in 0 .. Len(Reply[file]) - 1 :
          /\ ReadSoFar(file, inbox[server], written[file], k)
          /\ Reply[file][k+1] = "empty"
    BY NextPart DEF Ended, Recv
  <2>2. file \in Openable /\ \A j \in 1 .. Len(Reply[file]) - 1 : Reply[file][j] # "empty"
    BY <1>3 DEF Sound
  <2> DEFINE L == Len(Reply[file])
  <2>3. L \in Nat /\ L > 0
    BY <1>1, ReplyLength
  <2>4. k + 1 = L /\ k \in 0 .. L
    <3>1. k + 1 \notin 1 .. L - 1
      BY <2>1, <2>2
    <3> HIDE DEF L
    <3>2. k \in 0 .. L - 1
      BY DEF L
    <3> QED
      BY <2>3, <3>1, <3>2
  <2>5. \A j \in 1 .. L : j > k => Reply[file][j] = "empty"
    <3> HIDE DEF L
    <3>1. \A j \in 1 .. L : j > k => j = k + 1
      BY <2>3, <2>4
    <3> QED
      BY <2>1, <3>1
  <2>6. written[file] = {[of |-> file, n |-> j] : j \in 1 .. k}
    BY <2>1, <2>2 DEF ReadSoFar
  <2>7. Whole(file) = {[of |-> file, n |-> j] : j \in 1 .. k}
    BY <1>1, <2>1, <2>4, <2>5, WholeCopy DEF ReadSoFar
  <2>8. present[file]
    BY <1>1, <2>2 DEF IInv, Transferring
  <2> QED
    BY <1>1, <2>6, <2>7, <2>8 DEF Copy
<1>4. file \in Sound => Copy' = [Copy EXCEPT ![file] = "whole"]
  <2>1. Copy = [Copy EXCEPT ![file] = Copy[file]]
    BY DEF Copy
  <2> QED
    BY <1>2, <1>3, <2>1
<1> QED
  BY <1>1, <1>2, <1>4 DEF Promise!Receive

\* The last part makes the copy whole, or an earlier one if only empty parts
\* follow it; a file that could not be opened stays absent.
LEMMA StoredProgresses ==
  ASSUME IInv, Stored
  PROVE  /\ file \in Files
         /\ Promise!Progress(file) \/ Promise!Receive(file) \/ UNCHANGED Promise!vars
<1>1. /\ file \in Files /\ file # "none"
      /\ \A g \in Files : g # file => present'[g] = present[g] /\ written'[g] = written[g]
      /\ present' = present
  BY StoredPart DEF Stored, Recv, Write
<1>2. PICK k \in 0 .. Len(Reply[file]) - 1 :
        /\ ReadSoFar(file, inbox[server], written[file], k)
        /\ Reply[file][k+1] # "empty"
        /\ written'[file] = IF file \in Openable
                              THEN {[of |-> file, n |-> j] : j \in 1 .. k+1} ELSE {}
  BY StoredPart
<1>3. /\ Copy' = [Copy EXCEPT ![file] = Copy'[file]]
      /\ present[file] = (file \in Openable)
  BY <1>1, OneCopy DEF IInv, Transferring
<1> DEFINE L == Len(Reply[file])
<1>4. L \in Nat /\ k \in Nat /\ k + 1 \in 1 .. L /\ k + 1 \in 0 .. L
  BY <1>1, <1>2, ReplyLength
<1>5. CASE file \notin Openable
  <2>1. ~present[file] /\ ~present'[file]
    BY <1>1, <1>3, <1>5
  <2>2. Copy' = Copy
    BY <1>1, <1>3, <2>1 DEF Copy
  <2>3. file \notin Sound
    BY <1>5 DEF Sound
  <2> QED
    BY <1>1, <2>2, <2>3 DEF Stored, Tell, Promise!Receive, Promise!vars
<1>6. CASE file \in Openable
  <2>1. present[file] /\ present'[file] /\ present'[file] = present[file]
    BY <1>1, <1>3, <1>6
  <2>2. Copy[file] = "partial"
    <3>1. [of |-> file, n |-> k+1] \in Whole(file)
      BY <1>2, <1>4 DEF Whole
    <3>2. [of |-> file, n |-> k+1] \notin written[file]
      <4>1. \A j \in 1 .. k : j # k+1
        BY <1>4
      <4>2. written[file] = {[of |-> file, n |-> j] : j \in 1 .. k}
        BY <1>2, <1>6 DEF ReadSoFar
      <4>3. \A j \in 1 .. k : [of |-> file, n |-> j] # [of |-> file, n |-> k+1]
        BY <4>1
      <4> QED
        BY <4>2, <4>3
    <3> QED
      BY <1>1, <2>1, <3>1, <3>2 DEF Copy
  <2>3. Copy'[file] \in {"partial", "whole"}
    BY <1>1, <2>1 DEF Copy
  <2>4. CASE more
    <3>1. file' = file /\ verdict' = verdict
      BY <2>4 DEF Stored
    <3>2. CASE Copy'[file] = "whole"
      BY <1>1, <1>3, <2>2, <3>1, <3>2 DEF Promise!Progress
    <3>3. CASE Copy'[file] = "partial"
      <4>1. Copy' = Copy
        BY <1>3, <2>2, <3>3 DEF Copy
      <4> QED
        BY <1>1, <3>1, <4>1 DEF Promise!vars
    <3> QED
      BY <2>3, <3>2, <3>3
  <2>5. CASE ~more
    <3>1. file' = "none" /\ verdict' = [verdict EXCEPT ![file] = "received"]
      BY <2>5 DEF Stored, Tell
    <3>2. k + 1 = L
      <4>1. ~(k + 1 < L)
        <5>1. file # "none" /\ inbox[server] # <<>>
          BY DEF Stored, Recv
        <5>2. PICK m \in 0 .. Len(Reply[file]) - 1 :
                /\ ReadSoFar(file, inbox[server], written[file], m)
                /\ more <=> m+1 < Len(Reply[file])
          <6>1. ~(Kind(part) = "refusal" /\ ~more)
            BY DEF Stored, IsError
          <6> QED
            BY <5>1, <6>1, NextPart
        <5>3. Len(inbox[server]) + m = L /\ Len(inbox[server]) + k = L
          BY <1>2, <5>2 DEF ReadSoFar
        <5> DEFINE l == Len(inbox[server])
        <5>4. l \in Nat
          <6>1. inbox[server] \in Seq(Part)
            BY <5>1 DEF IInv, TypeOK, Transferring
          <6> QED
            BY <6>1, LenProperties
        <5>5. m \in Int /\ k \in Int
          BY <1>4, <5>2
        <5>6. m = k
          <6> HIDE DEF l, L
          <6> QED
            BY <1>4, <5>3, <5>4, <5>5 DEF l
        <5> QED
          BY <2>5, <5>2, <5>6
      <4> HIDE DEF L
      <4> QED
        BY <1>4, <4>1
    <3>3. \A j \in 1 .. k+1 : Reply[file][j] # "empty"
      <4>1. \A j \in 1 .. k : Reply[file][j] # "empty"
        BY <1>2 DEF ReadSoFar
      <4> QED
        BY <1>2, <1>4, <4>1
    <3>4. \A j \in 1 .. L : j > k + 1 => Reply[file][j] = "empty"
      <4> HIDE DEF L
      <4> QED
        BY <1>4, <3>2
    <3>5. Whole(file) = {[of |-> file, n |-> j] : j \in 1 .. k+1}
      BY <1>1, <1>4, <3>3, <3>4, WholeCopy
    <3>6. Copy'[file] = "whole"
      BY <1>1, <1>2, <1>6, <2>1, <3>5 DEF Copy, Whole
    <3> QED
      BY <1>1, <1>3, <3>1, <3>6 DEF Promise!Receive
  <2> QED
    BY <1>1, <2>4, <2>5
<1> QED
  BY <1>5, <1>6

LEMMA KillStops ==
  ASSUME IInv, Kill
  PROVE  Promise!Stop \/ (file \in Files /\ Promise!Interrupt(file))
<1>1. CASE file = "none"
  BY <1>1 DEF Kill, Down, Copy, Promise!Stop
<1>2. CASE file # "none"
  <2>1. file \in Files
    BY <1>2 DEF IInv, TypeOK
  <2>2. \A g \in Files : g # file => present'[g] = present[g] /\ written'[g] = written[g]
    BY <2>1, <1>2 DEF Kill, IInv, TypeOK
  <2>3. Copy' = [Copy EXCEPT ![file] = Copy'[file]] /\ Copy'[file] \in {"absent", "partial", "whole"}
    BY <2>1, <2>2, OneCopy DEF IInv
  <2> QED
    BY <2>1, <2>3 DEF Kill, Down, Promise!Interrupt, Promise!Copies
<1> QED
  BY <1>1, <1>2

LEMMA NextSimulates == IInv /\ [Next]_vars => [Promise!Next]_(Promise!vars)
<1> SUFFICES ASSUME IInv, [Next]_vars
             PROVE  Promise!Next \/ UNCHANGED Promise!vars
  OBVIOUS
<1>1. ASSUME NEW f \in Files, NEW i \in Servers, Ask(f, i) \/ AskThrows(f, i)
      PROVE  Promise!Next
  BY <1>1, AskBegins, AskThrowsInterrupts DEF Promise!Next
<1>2. ASSUME NEW i \in Servers, Respond(i)
      PROVE  UNCHANGED Promise!vars
  BY <1>2 DEF Respond, diskvars, Copy, Promise!vars
<1>3. CASE ReadPart
  BY <1>3, RefusedRefuses, EndedReceives, StoredProgresses DEF ReadPart, Promise!Next
<1>4. CASE Kill
  BY <1>4, KillStops DEF Promise!Next
<1>5. CASE Restart
  BY <1>5 DEF Restart, diskvars, Copy, Promise!vars
<1>6. CASE UNCHANGED vars
  BY <1>6 DEF vars, diskvars, Copy, Promise!vars
<1> QED
  BY <1>1, <1>2, <1>3, <1>4, <1>5, <1>6 DEF Next

-----------------------------------------------------------------------------
(* The theorems.                                                           *)

\* Whatever is left unread by earlier transfers, whichever servers refuse, and
\* whenever the worker is killed, every file holds a beginning of itself.
THEOREM OwnPartsOnlyAlways == Spec => []OwnPartsOnly
<1>1. IInv => OwnPartsOnly
  BY DEF IInv
<1> QED
  BY <1>1, Invariance, PTL

\* Only an empty part, before the last, of one of its own replies leaves a REQ socket
\* unable to send the next request.
THEOREM JammedAlways == Spec => []JammedByEmptyPart
<1>1. IInv => JammedByEmptyPart
  BY DEF IInv
<1> QED
  BY <1>1, Invariance, PTL

\* Every variable keeps its type.
THEOREM TypeCorrect == Spec => []TypeOK
<1>1. IInv => TypeOK
  BY DEF IInv
<1> QED
  BY <1>1, Invariance, PTL

\* get_stream keeps its promise: a transfer that ends with received_file leaves a
\* whole copy of a sound file, one that ends with error leaves none, and nothing but
\* the next request for a file, or a kill in the middle of it, spoils its copy.
THEOREM PromiseKept == Spec => KeepsPromise
<1>1. Init => Promise!Init
  BY DEF Init, Copy, Promise!Init
<1> QED
  BY <1>1, Invariance, NextSimulates, PTL DEF Spec, KeepsPromise, Promise!Spec

\* The verdict is given at the end of a transfer.
Verdicts ==
  /\ VerdictIsTrue
  /\ \A f \in Files : verdict[f] # "none" => file # f

LEMMA VerdictsStep == IInv /\ Verdicts /\ [Next]_vars => Verdicts'
<1> SUFFICES ASSUME IInv, Verdicts, [Next]_vars
             PROVE  Verdicts'
  OBVIOUS
<1> USE DEF Verdicts, VerdictIsTrue, Promise!VerdictIsTrue
<1>1. /\ "none" \notin Files
      /\ verdict \in [Files -> {"none", "received", "error"}]
      /\ Copy \in [Files -> {"absent", "partial", "whole"}]
  BY ConstantsAssumption DEF IInv, TypeOK, Copy
<1>2. ASSUME NEW f \in Files,
             Promise!Begin(f) \/ Promise!Progress(f) \/ Promise!Interrupt(f)
      PROVE  Verdicts'
  BY <1>1, <1>2 DEF Promise!Begin, Promise!Progress, Promise!Interrupt
<1>3. ASSUME NEW f \in Files, Promise!Receive(f) \/ Promise!Refuse(f)
      PROVE  Verdicts'
  <2>1. CASE Promise!Receive(f)
    BY <1>1, <2>1 DEF Promise!Receive
  <2>2. CASE Promise!Refuse(f)
    BY <1>1, <2>2 DEF Promise!Refuse
  <2> QED
    BY <1>3, <2>1, <2>2
<1>4. CASE Promise!Stop
  BY <1>1, <1>4 DEF Promise!Stop
<1>5. CASE UNCHANGED Promise!vars
  BY <1>5 DEF Promise!vars
<1> QED
  BY <1>2, <1>3, <1>4, <1>5, NextSimulates DEF Promise!Next

\* received_file is never said of a sound file of which only a part is there, nor
\* error of one whose copy is kept.
THEOREM VerdictAlwaysTrue == Spec => []VerdictIsTrue
<1>1. Init => Verdicts
  BY DEF Init, Verdicts, VerdictIsTrue, Promise!VerdictIsTrue
<1>2. Verdicts => VerdictIsTrue
  BY DEF Verdicts
<1> QED
  BY <1>1, <1>2, Invariance, VerdictsStep, PTL DEF Spec

-----------------------------------------------------------------------------
(* What a transfer waits for.                                              *)

\* A transfer that goes on has its request before the server, or a part to read:
\* get_stream calls recv once more only when a part is there or will be.
AwaitsReply == file # "none" => asked[server] = file \/ inbox[server] # <<>>

LEMMA AwaitsReplyStep == IInv /\ AwaitsReply /\ [Next]_vars => AwaitsReply'
<1> SUFFICES ASSUME IInv, AwaitsReply, [Next]_vars, file' # "none"
             PROVE  asked'[server'] = file' \/ inbox'[server'] # <<>>
  BY DEF AwaitsReply
<1> USE DEF IInv, TypeOK
<1>1. ASSUME NEW f \in Files, NEW i \in Servers, Ask(f, i)
      PROVE  asked'[server'] = file'
  BY <1>1 DEF Ask, Send
<1>2. ASSUME NEW i \in Servers, Respond(i)
      PROVE  asked'[server'] = file' \/ inbox'[server'] # <<>>
  <2>1. file # "none" /\ server \in Servers /\ up /\ UNCHANGED <<file, server>>
    BY <1>2 DEF Respond, Transferring
  <2>2. CASE i # server
    BY <1>2, <2>1, <2>2 DEF Respond, AwaitsReply
  <2>3. CASE i = server
    <3>1. asked[i] \in Files /\ inbox[i] = <<>> /\ inbox[i] \in Seq(Part)
      BY <1>2 DEF Respond, OneRequest
    <3>2. PICK r \in {Parts(asked[i]), <<Refusal(asked[i])>>} :
            inbox' = [inbox EXCEPT ![i] = @ \o r]
      BY <1>2 DEF Respond
    <3>3. r \in Seq(Part) /\ r # <<>>
      <4>1. Parts(asked[i]) # <<>>
        <5>1. Len(Parts(asked[i])) > 0 /\ Parts(asked[i]) \in Seq(Part)
          BY <3>1, ReplyParts, ReplyLength
        <5> QED
          BY <5>1, EmptySeq
      <4>2. Parts(asked[i]) \in Seq(Part) /\ <<Refusal(asked[i])>> \in Seq(Part)
        BY <3>1, ReplyParts
      <4>3. CASE r = Parts(asked[i])
        BY <4>1, <4>2, <4>3
      <4>4. CASE r = <<Refusal(asked[i])>>
        BY <4>2, <4>4
      <4> QED
        BY <3>2, <4>3, <4>4
    <3>4. <<>> \o r = r
      BY <3>3
    <3> QED
      BY <2>1, <2>3, <3>1, <3>2, <3>3, <3>4
  <2> QED
    BY <2>2, <2>3
<1>3. CASE ReadPart
  <2>1. Stored /\ more /\ UNCHANGED <<file, server>>
    BY <1>3 DEF ReadPart, Refused, Ended, Stored, Tell, Recv
  <2>2. inbox' = [inbox EXCEPT ![server] = Tail(@)] /\ file # "none" /\ inbox[server] # <<>>
    BY <2>1 DEF Stored, Recv
  <2>3. server \in Servers /\ Tail(inbox[server]) # <<>>
    BY <2>1, <2>2, NextPart
  <2> QED
    BY <2>1, <2>2, <2>3
<1>4. CASE UNCHANGED vars
  BY <1>4 DEF vars, AwaitsReply
<1>5. (\A f \in Files, i \in Servers : ~AskThrows(f, i)) /\ ~Kill /\ ~Restart
  BY DEF AskThrows, Kill, Down, Restart, Transferring
<1> QED
  BY <1>1, <1>2, <1>3, <1>4, <1>5, Zenon DEF Next

\* A transfer never waits for a part that nobody owes it: what is left of
\* TransferEnds is that the server answers and the main thread runs.
THEOREM AwaitsReplyAlways == Spec => []AwaitsReply
<1>1. Init => AwaitsReply
  BY DEF Init, AwaitsReply
<1> QED
  BY <1>1, AwaitsReplyStep, Invariance, PTL DEF Spec

=============================================================================
