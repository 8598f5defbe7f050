------------------------------ MODULE Settings ------------------------------
(***************************************************************************)
(* The options of a worker and what is kept of them (main in main.cpp).    *)
(* A start takes each option from its command line, or else from the       *)
(* QSettings file of its worker name; what it was given is stored for      *)
(* later starts.  QSettings reads the file when it is constructed and      *)
(* writes it in sync() or in its destructor: between the two, another      *)
(* start of the same name may have written it.                             *)
(***************************************************************************)
EXTENDS Naturals, Sequences

CONSTANTS
  Starts,       \* runs of the program
  Names,        \* values of --worker-name
  Values,       \* values of the options
  Unset,        \* the option is absent
  CommandLines  \* the command lines that are used

\* The options that are kept, in the order in which main examines them.
Order == <<"worker-type", "ncs-port", "ncs-ip", "node-uuid", "node-password",
           "directory", "exec", "stdout">>
Options == {"worker-type", "ncs-port", "ncs-ip", "node-uuid", "node-password",
            "directory", "exec", "stdout"}
Required == Options \ {"directory", "stdout"}
Types == {"service", "process"}

ASSUME CommandLinesAssumption ==
  /\ CommandLines \subseteq [name : Names \cup {Unset},
                             given : [Options -> Values \cup {Unset}]]
  /\ {"true", "false", "/tmp/nodecast"} \subseteq Values
  /\ Unset \notin Values

VARIABLES
  file,    \* what is stored for each worker name
  state,   \* how far each start is
  command, \* its command line
  ncw,     \* the parameters it has found
  pending  \* the options setValue has been called with, until they are written

vars == <<file, state, command, ncw, pending>>

Nothing == [k \in Options |-> Unset]

TypeOK ==
  /\ file \in [Names -> [Options -> Values \cup {Unset}]]
  /\ state \in [Starts -> {"new", "accepted", "refused", "running", "failed", "killed"}]
  /\ command \in [Starts -> CommandLines \cup {Nothing}]
  /\ ncw \in [Starts -> [Options -> Values \cup {Unset}]]
  /\ pending \in [Starts -> SUBSET Options]
  /\ \A p \in Starts : state[p] # "new" => command[p] \in CommandLines
  /\ \A p \in Starts : state[p] \in {"accepted", "refused", "running"}
                         => command[p].name \in Names

Init ==
  /\ file = [n \in Names |-> Nothing]
  /\ state = [p \in Starts |-> "new"]
  /\ command = [p \in Starts |-> Nothing]
  /\ ncw = [p \in Starts |-> Nothing]
  /\ pending = [p \in Starts |-> {}]

-----------------------------------------------------------------------------
(* What main makes of a command line c and of the settings f it has read.  *)

Given(c, k) == c.given[k] # Unset

\* Mutant: the type is looked at only when it is used.
PassesAnyType(c, f, k) == k \in Required => Given(c, k) \/ f[k] # Unset

\* main goes on after option k.
Passes(c, f, k) ==
  /\ k \in Required => Given(c, k) \/ f[k] # Unset
  /\ k = "worker-type" /\ Given(c, k) => c.given[k] \in Types

\* A missing or wrong option ends the program: those behind it are not stored.
Reached(c, f) ==
  {Order[i] : i \in {i \in DOMAIN Order : \A j \in 1 .. i : Passes(c, f, Order[j])}}

\* QVariant::toBool, stored as QSettings writes it.
Bool(v) == IF v \in {"", "0", "false"} THEN "false" ELSE "true"

Taken(c, k) == IF k = "stdout" THEN Bool(c.given[k]) ELSE c.given[k]

Default(k) ==
  IF k = "stdout" THEN "false" ELSE IF k = "directory" THEN "/tmp/nodecast" ELSE Unset

Parameters(c, f) ==
  [k \in Options |-> IF Given(c, k) THEN Taken(c, k)
                     ELSE IF f[k] # Unset THEN f[k] ELSE Default(k)]

\* Mutant: the default directory is stored too.
ToStoreDefaults(c, f) ==
  {k \in Reached(c, f) : Given(c, k) \/ Default(k) = "/tmp/nodecast"}

\* Mutant: one setValue is forgotten.
ToStoreLess(c, f) == {k \in Reached(c, f) \ {"exec"} : Given(c, k)}

ToStore(c, f) == {k \in Reached(c, f) : Given(c, k)}

-----------------------------------------------------------------------------
\* The program is run with command line c, and reads the settings of its name.
Parse(p, c) ==
  /\ state[p] = "new" /\ c.name # Unset
  /\ command' = [command EXCEPT ![p] = c]
  /\ ncw' = [ncw EXCEPT ![p] = Parameters(c, file[c.name])]
  /\ pending' = [pending EXCEPT ![p] = ToStore(c, file[c.name])]
  /\ state' = [state EXCEPT ![p] = IF Reached(c, file[c.name]) = Options
                                   THEN "accepted" ELSE "refused"]
  /\ UNCHANGED file

\* Without a name there are no settings.
ParseNameless(p, c) ==
  /\ state[p] = "new" /\ c.name = Unset
  /\ command' = [command EXCEPT ![p] = c]
  /\ state' = [state EXCEPT ![p] = "failed"]
  /\ UNCHANGED <<file, ncw, pending>>

\* Mutant: the file is written as it was read, with the changes.
WrittenWhole(p) == [k \in Options |-> ncw[p][k]]

\* QSettings reads the file again if need be, and writes the options set over it.
Written(p) ==
  [k \in Options |-> IF k \in pending[p] THEN ncw[p][k] ELSE file[command[p].name][k]]

\* settings.sync() in a start that was accepted, ~QSettings in one that was not.
Flush(p) ==
  /\ state[p] \in {"accepted", "refused"}
  /\ file' = [file EXCEPT ![command[p].name] = Written(p)]
  /\ state' = [state EXCEPT ![p] = IF @ = "accepted" THEN "running" ELSE "failed"]
  /\ pending' = [pending EXCEPT ![p] = {}]
  /\ UNCHANGED <<command, ncw>>

\* The signal handlers are set up after sync(): until then a signal ends the
\* program, and what was not written is lost.
Killed(p) ==
  /\ state[p] \in {"accepted", "refused"}
  /\ state' = [state EXCEPT ![p] = "killed"]
  /\ pending' = [pending EXCEPT ![p] = {}]
  /\ UNCHANGED <<file, command, ncw>>

Next ==
  \E p \in Starts :
    \/ \E c \in CommandLines : Parse(p, c) \/ ParseNameless(p, c)
    \/ Flush(p) \/ Killed(p)

Spec == Init /\ [][Next]_vars

-----------------------------------------------------------------------------
(* What is checked.                                                        *)

\* Nothing is stored that no start of this name was given: neither a default, nor
\* a refused worker type, nor an option of a worker of another name.
StoredWasGiven ==
  \A n \in Names, k \in Options : file[n][k] # Unset =>
    /\ \E p \in Starts : /\ state[p] \in {"running", "failed"} /\ command[p].name = n
                         /\ Given(command[p], k) /\ file[n][k] = Taken(command[p], k)
    /\ k = "worker-type" => file[n][k] \in Types

\* A worker that runs has every required parameter, each of its own command line
\* or of an earlier start of the same name, and a type main knows.
RunsComplete ==
  \A p \in Starts : state[p] = "running" =>
    /\ \A k \in Required : ncw[p][k] # Unset
    /\ ncw[p]["worker-type"] \in Types

\* A worker that has run once can be started by its name alone, whatever was
\* started, refused or killed since.
RestartByName ==
  \A p \in Starts : state[p] = "running" =>
    \A k \in Required : file[command[p].name][k] # Unset

\* A start writes no option it was not given: what another start of the same name
\* has stored since it read the file is kept.
KeepsOthers ==
  [][\A n \in Names, k \in Options : file'[n][k] # file[n][k] =>
       \E p \in Starts : /\ state'[p] # state[p] /\ command[p].name = n
                         /\ Given(command[p], k)]_vars
=============================================================================
