---------------------------- MODULE FileTransfer ----------------------------
(***************************************************************************)
(* What Zstream::get_stream promises its callers in service.cpp, and the   *)
(* child they tell, about a file: the verdict received_file or error, and  *)
(* what it means for the copy in the data directory.                       *)
(***************************************************************************)
CONSTANTS
  Files,   \* "none" is not one of them
  Sound    \* those the promise is kept for

VARIABLES
  active,   \* the file being transferred, or "none"
  copy,     \* the copy of each file: "absent", "partial" or "whole"
  verdict   \* what the child has been told of its last request for it

vars == <<active, copy, verdict>>

Copies == {"absent", "partial", "whole"}

TypeOK ==
  /\ active \in Files \cup {"none"}
  /\ copy \in [Files -> Copies]
  /\ verdict \in [Files -> {"none", "received", "error"}]

Init ==
  /\ active = "none"
  /\ copy = [f \in Files |-> "absent"]
  /\ verdict = [f \in Files |-> "none"]

\* A transfer gives up the copy there was.
Begin(f) ==
  /\ active = "none" /\ active' = f
  /\ \E c \in Copies : copy' = [copy EXCEPT ![f] = c]
  /\ verdict' = [verdict EXCEPT ![f] = "none"]

Progress(f) ==
  /\ active = f /\ copy[f] = "partial"
  /\ copy' = [copy EXCEPT ![f] = "whole"]
  /\ UNCHANGED <<active, verdict>>

\* The verdict is good, and for a sound file so is the copy.
Receive(f) ==
  /\ active = f /\ active' = "none"
  /\ \/ copy' = [copy EXCEPT ![f] = "whole"]
     \/ f \notin Sound /\ UNCHANGED copy
  /\ verdict' = [verdict EXCEPT ![f] = "received"]

\* The verdict is bad, and no copy is left.
Refuse(f) ==
  /\ active = f /\ active' = "none"
  /\ copy' = [copy EXCEPT ![f] = "absent"]
  /\ verdict' = [verdict EXCEPT ![f] = "error"]

\* The worker ends, and the child of the next one has been told nothing.
Stop ==
  /\ active' = "none"
  /\ verdict' = [f \in Files |-> "none"]
  /\ UNCHANGED copy

\* It ends in the middle of a transfer, or as it begins one.
Interrupt(f) ==
  /\ active \in {f, "none"} /\ active' = "none"
  /\ \E c \in Copies : copy' = [copy EXCEPT ![f] = c]
  /\ verdict' = [g \in Files |-> "none"]

Next ==
  \/ Stop
  \/ \E f \in Files :
       Begin(f) \/ Progress(f) \/ Receive(f) \/ Refuse(f) \/ Interrupt(f)

Spec == Init /\ [][Next]_vars

\* The verdict received_file stands for a whole copy, until the file is asked for
\* again or the worker ends; the verdict error for none.
VerdictIsTrue ==
  \A f \in Files :
    /\ verdict[f] = "received" /\ f \in Sound => copy[f] = "whole"
    /\ verdict[f] = "error" => copy[f] = "absent"
=============================================================================
