----------------------------- MODULE FileStream -----------------------------
(***************************************************************************)
(* The transfer of files (Zstream::get_stream in zeromq.cpp).  The main    *)
(* thread sends the request on the REQ socket of a server picked at random *)
(* (Zdispatcher::push_stream) and reads the parts of the reply into a file *)
(* of the data directory, without a timeout and without returning to the   *)
(* event loop.  The status goes to the child (Service::received_file).     *)
(*                                                                         *)
(* ZeroMQ delivers all parts of a reply at once.  A REQ socket refuses to  *)
(* send until the reply has been read to its last part.                    *)
(***************************************************************************)
EXTENDS Naturals, Sequences

CONSTANTS
  Servers,
  Files,
  Reply,       \* the parts of each file, by kind
  Openable,    \* the files whose directory exists below --directory
  Responsive,  \* the servers that answer every request
  MaxAsks,     \* bound: transfers
  MaxKills     \* bound: times the worker is killed

\* A part: bytes, no bytes, or bytes that read as a BSON object with a field
\* "error".  The reply to a request for a file the server lacks is one part,
\* "refusal".
Kinds == {"data", "empty", "object"}

ASSUME ConstantsAssumption ==
  /\ "none" \notin Files /\ "none" \notin Servers
  /\ Reply \in [Files -> Seq(Kinds) \ {<<>>}]
  /\ Openable \subseteq Files
  /\ Responsive \subseteq Servers
  /\ MaxAsks \in Nat /\ MaxKills \in Nat

VARIABLES
  up,         \* the worker runs
  file,       \* the filename get_stream is working on, or "none"
  server,     \* the server it was asked of
  asked,      \* the file of the request a server has not answered, or "none"
  busy,       \* the REQ socket is waiting for a reply or for the rest of it
  inbox,      \* the parts not read yet
  present,    \* the file exists
  written,    \* its parts
  verdict,    \* what the child was told: "none", "received" or "error"
  lastpart,   \* history: the kind of the part that ended the last transfer
  shortened,  \* history: servers whose reply was left before its last part
  asks, kills \* what the bounds count

diskvars == <<present, written>>
vars == <<up, file, server, asked, busy, inbox, diskvars, verdict, lastpart,
          shortened, asks, kills>>

Part == [of : Files, n : Nat]
Parts(f) == [k \in 1 .. Len(Reply[f]) |-> [of |-> f, n |-> k]]
Refusal(f) == [of |-> f, n |-> 0]
Kind(p) == IF p.n = 0 THEN "refusal" ELSE Reply[p.of][p.n]

TypeOK ==
  /\ up \in BOOLEAN
  /\ file \in Files \cup {"none"} /\ server \in Servers \cup {"none"}
  /\ asked \in [Servers -> Files \cup {"none"}]
  /\ busy \in [Servers -> BOOLEAN]
  /\ inbox \in [Servers -> Seq(Part)]
  /\ present \in [Files -> BOOLEAN]
  /\ written \in [Files -> SUBSET Part]
  /\ verdict \in [Files -> {"none", "received", "error"}]
  /\ lastpart \in [Files -> Kinds \cup {"none", "refusal"}]
  /\ shortened \subseteq Servers
  /\ asks \in 0 .. MaxAsks /\ kills \in 0 .. MaxKills

Init ==
  /\ up = TRUE /\ file = "none" /\ server = "none"
  /\ asked = [i \in Servers |-> "none"]
  /\ busy = [i \in Servers |-> FALSE]
  /\ inbox = [i \in Servers |-> <<>>]
  /\ present = [f \in Files |-> FALSE]
  /\ written = [f \in Files |-> {}]
  /\ verdict = [f \in Files |-> "none"]
  /\ lastpart = [f \in Files |-> "none"]
  /\ shortened = {} /\ asks = 0 /\ kills = 0

-----------------------------------------------------------------------------
(* The request.                                                            *)

\* ofstream out (path): the copy there was is truncated; nobody looks whether
\* the file could be opened.
Open(f) ==
  /\ present' = [present EXCEPT ![f] = f \in Openable]
  /\ written' = [written EXCEPT ![f] = {}]

\* The request is sent and the main thread waits in recv.
Send(f, i) ==
  /\ up /\ file = "none" /\ asks < MaxAsks
  /\ asks' = asks + 1
  /\ file' = f /\ server' = i
  /\ asked' = [asked EXCEPT ![i] = f]
  /\ busy' = [busy EXCEPT ![i] = TRUE]
  /\ verdict' = [verdict EXCEPT ![f] = "none"]
  /\ UNCHANGED <<up, inbox, lastpart, shortened, kills>>

\* Mutant: a socket that sends whatever it has not read.
AskUnread(f, i) == Open(f) /\ Send(f, i)

Ask(f, i) == ~busy[i] /\ Open(f) /\ Send(f, i)

\* The worker ends, and with it its child and its sockets.
Down ==
  /\ up' = FALSE /\ file' = "none"
  /\ verdict' = [f \in Files |-> "none"]

\* send throws, as the reply before has not been read; no caller catches it.
AskThrows(f, i) ==
  /\ up /\ file = "none" /\ asks < MaxAsks
  /\ busy[i]
  /\ asks' = asks + 1
  /\ Open(f) /\ Down
  /\ UNCHANGED <<server, asked, busy, inbox, lastpart, shortened, kills>>

-----------------------------------------------------------------------------
(* The server.                                                             *)

\* The file, or a refusal if the server does not have it.
Respond(i) ==
  /\ asked[i] # "none"
  /\ asked' = [asked EXCEPT ![i] = "none"]
  /\ \E r \in {Parts(asked[i]), <<Refusal(asked[i])>>} :
       inbox' = [inbox EXCEPT ![i] = @ \o r]
  /\ UNCHANGED <<up, file, server, busy, diskvars, verdict, lastpart, shortened,
                 asks, kills>>

-----------------------------------------------------------------------------
(* The parts of the reply.                                                 *)

\* The next part, and what ZMQ_RCVMORE says once it is read.
part == Head(inbox[server])
more == Len(inbox[server]) > 1

Recv ==
  /\ file # "none" /\ inbox[server] # <<>>
  /\ inbox' = [inbox EXCEPT ![server] = Tail(@)]
  /\ busy' = [busy EXCEPT ![server] = more]
  /\ UNCHANGED <<up, server, asked, asks, kills>>

\* The loop ends and received_file writes the verdict to the child.
Tell(v) ==
  /\ file' = "none"
  /\ verdict' = [verdict EXCEPT ![file] = v]
  /\ lastpart' = [lastpart EXCEPT ![file] = Kind(part)]

IsError == Kind(part) \in {"object", "refusal"}

\* What is read behind an empty part is uninitialised and may be anything.
ReadsAsError == IsError \/ Kind(part) = "empty"

Remove ==
  /\ present' = [present EXCEPT ![file] = FALSE]
  /\ written' = [written EXCEPT ![file] = {}]

\* Mutant: every part is looked at, not the last one only.
RefusedAnyPart ==
  /\ Recv /\ IsError
  /\ Remove /\ Tell("error")
  /\ UNCHANGED shortened

\* Mutant: the file is left where it is.
RefusedKeeps ==
  /\ Recv /\ ~more /\ ReadsAsError
  /\ Tell("error")
  /\ UNCHANGED <<diskvars, shortened>>

\* The last part reads as an error: the file is removed.
Refused ==
  /\ Recv /\ ~more /\ ReadsAsError
  /\ Remove /\ Tell("error")
  /\ UNCHANGED shortened

\* A part of size 0 ends the loop, and the status is still true.
Ended ==
  /\ Recv /\ Kind(part) = "empty"
  /\ Tell("received")
  /\ shortened' = IF more THEN shortened \cup {server} ELSE shortened
  /\ UNCHANGED diskvars

Write ==
  /\ written' = [written EXCEPT ![file] =
                   IF file \in Openable THEN @ \cup {part} ELSE @]
  /\ UNCHANGED <<present, shortened>>

\* Mutant: the loop ends after any part.
StoredFirst ==
  /\ Recv /\ Kind(part) # "empty" /\ (IsError => more)
  /\ Write
  /\ Tell("received")

\* Mutant: the loop does not end with the last part.
StoredForever ==
  /\ Recv /\ Kind(part) # "empty" /\ (IsError => more)
  /\ Write
  /\ UNCHANGED <<file, verdict, lastpart>>

\* Any other part is written; the last one ends the loop.
Stored ==
  /\ Recv /\ Kind(part) # "empty" /\ (IsError => more)
  /\ Write
  /\ IF more THEN UNCHANGED <<file, verdict, lastpart>> ELSE Tell("received")

ReadPart == Refused \/ Ended \/ Stored

-----------------------------------------------------------------------------
(* The end of the worker and its next start.                               *)

\* The worker is killed, or a signal interrupts recv, which throws: of the file
\* being written any first parts are on disk.
Kill ==
  /\ up /\ kills < MaxKills
  /\ kills' = kills + 1
  /\ \/ file = "none" /\ UNCHANGED written
     \/ /\ file # "none"
        /\ \E k \in 0 .. Len(Reply[file]) :
             written' = [written EXCEPT ![file] = {p \in @ : p.n <= k}]
  /\ Down
  /\ UNCHANGED <<server, asked, busy, inbox, present, lastpart, shortened, asks>>

\* New sockets: what was asked and not answered is forgotten.
Restart ==
  /\ ~up /\ up' = TRUE
  /\ asked' = [i \in Servers |-> "none"]
  /\ busy' = [i \in Servers |-> FALSE]
  /\ inbox' = [i \in Servers |-> <<>>]
  /\ shortened' = {}
  /\ UNCHANGED <<file, server, diskvars, verdict, lastpart, asks, kills>>

-----------------------------------------------------------------------------
Next ==
  \/ \E f \in Files, i \in Servers : Ask(f, i) \/ AskThrows(f, i)
  \/ \E i \in Servers : Respond(i)
  \/ ReadPart
  \/ Kill \/ Restart

\* The main thread runs and a responsive server answers.
Fairness ==
  /\ WF_vars(ReadPart)
  /\ \A i \in Responsive : WF_vars(Respond(i))

Spec == Init /\ [][Next]_vars /\ Fairness

-----------------------------------------------------------------------------
(* What is checked.                                                        *)

\* The files the promise is kept for: they can be opened, and no part before the
\* last is empty.
Sound == {f \in Openable : \A k \in 1 .. Len(Reply[f]) - 1 : Reply[f][k] # "empty"}

Whole(f) == {[of |-> f, n |-> k] : k \in {j \in 1 .. Len(Reply[f]) : Reply[f][j] # "empty"}}

Copy == [f \in Files |-> IF ~present[f] THEN "absent"
                         ELSE IF written[f] = Whole(f) THEN "whole" ELSE "partial"]

Promise == INSTANCE FileTransfer WITH active <- file, copy <- Copy

\* get_stream keeps the promise of FileTransfer: a transfer that ends well leaves
\* a whole copy of a sound file, one that fails leaves none, and a copy that is
\* whole stays so until the file is asked for again.
KeepsPromise == Promise!Spec

\* The child is told received_file of a sound file only when the whole file is
\* there, and error only when none is; both stay true until it is asked for again.
VerdictIsTrue == Promise!VerdictIsTrue

\* What a file holds is the beginning of that file, never parts of another reply,
\* whatever was left unread before.
OwnPartsOnly ==
  \A f \in Files : \A p \in written[f] :
    /\ p.of = f /\ p.n > 0
    /\ \A k \in 1 .. p.n : Reply[f][k] # "empty" => [of |-> f, n |-> k] \in written[f]

\* A REQ socket is left unable to send the next request, which then ends the worker,
\* only by an empty part before the last of a reply of its own server.
JammedByEmptyPart ==
  \A i \in Servers :
    up /\ busy[i] /\ (file # "none" => server # i) => i \in shortened

\* A transfer from a responsive server comes to its end: the loop stops at the last
\* part or before, and never waits for one more.
TransferEnds ==
  \A i \in Responsive : file # "none" /\ server = i ~> file = "none"

\* zeromq.cpp:150: "Nodecast send an error json : file not found".  The child is
\* told of an error only when the server has sent one.
ErrorIsTheServers ==
  \A f \in Files : verdict[f] = "error" => lastpart[f] = "refusal"
=============================================================================
