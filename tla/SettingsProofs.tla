---------------------------- MODULE SettingsProofs ----------------------------
(* Theorems about Settings, for every set of starts, of worker names, of     *)
(* values and of command lines.                                              *)
EXTENDS Settings, TLAPS

-----------------------------------------------------------------------------
(* What main makes of a command line.                                      *)

LEMMA TakenIsValue ==
  ASSUME NEW c \in CommandLines, NEW k \in Options, Given(c, k)
  PROVE  Taken(c, k) \in Values
<1>1. c.given[k] \in Values
  BY CommandLinesAssumption DEF Given
<1> QED
  BY <1>1, CommandLinesAssumption DEF Taken, Bool

\* main is past the options it reaches.
LEMMA ReachedPass ==
  ASSUME NEW c, NEW f, NEW k \in Reached(c, f)
  PROVE  k \in Options /\ Passes(c, f, k)
<1>1. DOMAIN Order = 1 .. 8
  BY DEF Order
<1>2. PICK i \in 1 .. 8 : k = Order[i] /\ \A j \in 1 .. i : Passes(c, f, Order[j])
  BY <1>1 DEF Reached
<1>3. Order[i] \in Options
  BY <1>2 DEF Order, Options
<1> QED
  BY <1>2, <1>3

\* The parameters, option by option.
LEMMA ParameterCases ==
  ASSUME NEW c \in CommandLines, NEW f \in [Options -> Values \cup {Unset}],
         NEW k \in Options
  PROVE  /\ Given(c, k) => Parameters(c, f)[k] = Taken(c, k) /\ Taken(c, k) \in Values
         /\ ~Given(c, k) /\ f[k] # Unset => Parameters(c, f)[k] = f[k]
         /\ ~Given(c, k) /\ f[k] = Unset => Parameters(c, f)[k] = Default(k)
BY TakenIsValue DEF Parameters

LEMMA ParametersType ==
  ASSUME NEW c \in CommandLines, NEW f \in [Options -> Values \cup {Unset}]
  PROVE  Parameters(c, f) \in [Options -> Values \cup {Unset}]
<1>1. ASSUME NEW k \in Options PROVE Default(k) \in Values \cup {Unset}
  BY CommandLinesAssumption DEF Default
<1>2. ASSUME NEW k \in Options PROVE Parameters(c, f)[k] \in Values \cup {Unset}
  BY <1>1, <1>2, ParameterCases
<1>3. Parameters(c, f) = [k \in Options |-> Parameters(c, f)[k]]
  BY DEF Parameters
<1> HIDE DEF Parameters
<1> QED
  BY <1>2, <1>3

-----------------------------------------------------------------------------
(* The inductive invariant.                                                *)

\* What a start is about to store, it was given.
PendingGiven ==
  \A p \in Starts : \A k \in pending[p] :
    /\ state[p] \in {"accepted", "refused"}
    /\ Given(command[p], k)
    /\ ncw[p][k] = Taken(command[p], k) /\ ncw[p][k] \in Values
    /\ k = "worker-type" => ncw[p][k] \in Types

\* What an accepted start needs, it has found, and is stored or will be.
AcceptedComplete ==
  \A p \in Starts : state[p] \in {"accepted", "running"} =>
    /\ ncw[p]["worker-type"] \in Types
    /\ \A k \in Required :
         /\ ncw[p][k] # Unset
         /\ k \in pending[p] \/ file[command[p].name][k] # Unset

IInv == TypeOK /\ StoredWasGiven /\ PendingGiven /\ AcceptedComplete

-----------------------------------------------------------------------------
(* Type correctness.                                                       *)

LEMMA TypeInit == Init => TypeOK
BY DEF Init, TypeOK, Nothing

LEMMA ReachedOptions == \A c, f : ToStore(c, f) \subseteq Options
BY ReachedPass DEF ToStore

LEMMA WrittenType ==
  ASSUME TypeOK, NEW p \in Starts, command[p].name \in Names
  PROVE  Written(p) \in [Options -> Values \cup {Unset}]
BY DEF TypeOK, Written

LEMMA TypeStep == TypeOK /\ [Next]_vars => TypeOK'
<1> SUFFICES ASSUME TypeOK, [Next]_vars PROVE TypeOK'
  OBVIOUS
<1> USE DEF TypeOK
<1>1. ASSUME NEW p \in Starts, NEW c \in CommandLines, Parse(p, c) PROVE TypeOK'
  <2>1. c.name \in Names
    BY <1>1, CommandLinesAssumption DEF Parse
  <2>2. file[c.name] \in [Options -> Values \cup {Unset}]
    BY <2>1
  <2>3. Parameters(c, file[c.name]) \in [Options -> Values \cup {Unset}]
    BY <2>2, ParametersType
  <2>4. ToStore(c, file[c.name]) \subseteq Options
    BY ReachedOptions
  <2> QED
    BY <1>1, <2>1, <2>3, <2>4 DEF Parse
<1>2. ASSUME NEW p \in Starts, NEW c \in CommandLines, ParseNameless(p, c) PROVE TypeOK'
  BY <1>2 DEF ParseNameless
<1>3. ASSUME NEW p \in Starts, Flush(p) PROVE TypeOK'
  <2>1. command[p].name \in Names
    BY <1>3 DEF Flush
  <2>2. Written(p) \in [Options -> Values \cup {Unset}]
    BY <2>1, WrittenType
  <2> QED
    BY <1>3, <2>1, <2>2 DEF Flush
<1>4. ASSUME NEW p \in Starts, Killed(p) PROVE TypeOK'
  BY <1>4 DEF Killed
<1>5. CASE UNCHANGED vars
  BY <1>5 DEF vars
<1> QED
  BY <1>1, <1>2, <1>3, <1>4, <1>5 DEF Next

\* The files, the parameters and the pending options are of the options and values
\* of the program, and only a start with a name has settings.
THEOREM TypeCorrect == Spec => []TypeOK
BY TypeInit, TypeStep, PTL DEF Spec

-----------------------------------------------------------------------------
(* The invariant is inductive.                                             *)

\* A file changes only in a Flush, and only in the options pending there.
LEMMA FileStep ==
  ASSUME TypeOK, [Next]_vars, NEW n \in Names, NEW k \in Options,
         file'[n][k] # file[n][k]
  PROVE  \E p \in Starts : /\ Flush(p) /\ command[p].name = n
                           /\ k \in pending[p] /\ file'[n][k] = ncw[p][k]
<1>1. file' # file
  OBVIOUS
<1>2. PICK p \in Starts : Flush(p)
  BY <1>1 DEF Next, Parse, ParseNameless, Killed, vars
<1>3. /\ file' = [file EXCEPT ![command[p].name] = Written(p)]
      /\ command[p].name \in Names
  BY <1>2 DEF Flush, TypeOK
<1>4. command[p].name = n /\ file'[n] = Written(p)
  BY <1>3 DEF TypeOK
<1> QED
  BY <1>2, <1>4 DEF Written

\* A start that has been parsed keeps its command line and its parameters.
LEMMA KeepsCommand ==
  ASSUME TypeOK, [Next]_vars, NEW p \in Starts, state[p] # "new"
  PROVE  /\ command'[p] = command[p] /\ ncw'[p] = ncw[p] /\ state'[p] # "new"
         /\ pending'[p] # pending[p] => pending'[p] = {}
         /\ state[p] \in {"running", "failed"} => state'[p] = state[p]
BY DEF TypeOK, Next, Parse, ParseNameless, Flush, Killed, vars

\* A step of another start leaves this one alone.
LEMMA OnlyParse ==
  ASSUME TypeOK, [Next]_vars, NEW p \in Starts, state[p] = "new",
         state'[p] # "new"
  PROVE  \E c \in CommandLines : Parse(p, c) \/ ParseNameless(p, c)
BY DEF TypeOK, Next, Parse, ParseNameless, Flush, Killed, vars

LEMMA StoredWasGivenStep ==
  TypeOK /\ StoredWasGiven /\ PendingGiven /\ [Next]_vars => StoredWasGiven'
<1> SUFFICES ASSUME TypeOK, StoredWasGiven, PendingGiven, [Next]_vars,
                    NEW n \in Names, NEW k \in Options, file'[n][k] # Unset
             PROVE  /\ \E p \in Starts :
                         /\ state'[p] \in {"running", "failed"} /\ command'[p].name = n
                         /\ Given(command'[p], k) /\ file'[n][k] = Taken(command'[p], k)
                    /\ k = "worker-type" => file'[n][k] \in Types
  BY DEF StoredWasGiven
<1>1. CASE file'[n][k] = file[n][k]
  <2>1. PICK p \in Starts :
          /\ state[p] \in {"running", "failed"} /\ command[p].name = n
          /\ Given(command[p], k) /\ file[n][k] = Taken(command[p], k)
    BY <1>1 DEF StoredWasGiven
  <2>2. command'[p] = command[p] /\ state'[p] = state[p]
    BY <2>1, KeepsCommand
  <2>3. k = "worker-type" => file'[n][k] \in Types
    BY <1>1 DEF StoredWasGiven
  <2> QED
    BY <1>1, <2>1, <2>2, <2>3
<1>2. CASE file'[n][k] # file[n][k]
  <2>1. PICK p \in Starts : /\ Flush(p) /\ command[p].name = n
                            /\ k \in pending[p] /\ file'[n][k] = ncw[p][k]
    BY <1>2, FileStep
  <2>2. state'[p] \in {"running", "failed"} /\ command'[p] = command[p]
    BY <2>1 DEF Flush, TypeOK
  <2>3. /\ Given(command[p], k) /\ ncw[p][k] = Taken(command[p], k)
        /\ k = "worker-type" => ncw[p][k] \in Types
    BY <2>1 DEF PendingGiven
  <2> QED
    BY <2>1, <2>2, <2>3
<1> QED
  BY <1>1, <1>2

\* What Parse finds and is to store.
LEMMA ParseStores ==
  ASSUME TypeOK, NEW p \in Starts, NEW c \in CommandLines, Parse(p, c),
         NEW k \in pending'[p]
  PROVE  /\ state'[p] \in {"accepted", "refused"} /\ Given(command'[p], k)
         /\ ncw'[p][k] = Taken(command'[p], k) /\ ncw'[p][k] \in Values
         /\ k = "worker-type" => ncw'[p][k] \in Types
<1>1. /\ c.name \in Names /\ file[c.name] \in [Options -> Values \cup {Unset}]
  BY CommandLinesAssumption DEF Parse, TypeOK
<1>2. /\ command'[p] = c /\ ncw'[p] = Parameters(c, file[c.name])
      /\ pending'[p] = ToStore(c, file[c.name])
      /\ state'[p] \in {"accepted", "refused"}
  BY DEF Parse, TypeOK
<1>3. k \in Reached(c, file[c.name]) /\ Given(c, k)
  BY <1>2 DEF ToStore
<1>4. k \in Options /\ Passes(c, file[c.name], k)
  BY <1>3, ReachedPass
<1>5. ncw'[p][k] = Taken(c, k) /\ Taken(c, k) \in Values
  BY <1>1, <1>2, <1>3, <1>4, ParameterCases
<1>6. k = "worker-type" => Taken(c, k) \in Types
  BY <1>3, <1>4 DEF Passes, Taken
<1> QED
  BY <1>2, <1>3, <1>5, <1>6

LEMMA PendingGivenStep == TypeOK /\ PendingGiven /\ [Next]_vars => PendingGiven'
<1> SUFFICES ASSUME TypeOK, PendingGiven, [Next]_vars,
                    NEW p \in Starts, NEW k \in pending'[p]
             PROVE  /\ state'[p] \in {"accepted", "refused"} /\ Given(command'[p], k)
                    /\ ncw'[p][k] = Taken(command'[p], k) /\ ncw'[p][k] \in Values
                    /\ k = "worker-type" => ncw'[p][k] \in Types
  BY DEF PendingGiven
<1>1. CASE \E c \in CommandLines : Parse(p, c)
  BY <1>1, ParseStores
<1>2. CASE ~\E c \in CommandLines : Parse(p, c)
  <2>1. k \in pending[p] /\ state'[p] = state[p]
    <3>1. ASSUME NEW q \in Starts, NEW c \in CommandLines, Parse(q, c)
          PROVE  k \in pending[p] /\ state'[p] = state[p]
      <4>1. p # q
        BY <1>2, <3>1
      <4> QED
        BY <3>1, <4>1 DEF Parse, TypeOK
    <3>2. ASSUME NEW q \in Starts, NEW c \in CommandLines, ParseNameless(q, c)
          PROVE  k \in pending[p] /\ state'[p] = state[p]
      <4>1. k \in pending[p]
        BY <3>2 DEF ParseNameless
      <4>2. state[p] # "new"
        BY <4>1 DEF PendingGiven
      <4> QED
        BY <3>2, <4>1, <4>2 DEF ParseNameless, TypeOK
    <3>3. ASSUME NEW q \in Starts, Flush(q) \/ Killed(q)
          PROVE  k \in pending[p] /\ state'[p] = state[p]
      BY <3>3 DEF Flush, Killed, TypeOK
    <3>4. CASE UNCHANGED vars
      BY <3>4 DEF vars
    <3> QED
      BY <3>1, <3>2, <3>3, <3>4 DEF Next
  <2>2. state[p] \in {"accepted", "refused"}
    BY <2>1 DEF PendingGiven
  <2>3. command'[p] = command[p] /\ ncw'[p] = ncw[p]
    BY <2>2, KeepsCommand
  <2> QED
    BY <2>1, <2>3 DEF PendingGiven
<1> QED
  BY <1>1, <1>2

\* What Parse accepts is complete.
LEMMA ParseComplete ==
  ASSUME TypeOK, StoredWasGiven, NEW p \in Starts, NEW c \in CommandLines, Parse(p, c),
         state'[p] = "accepted"
  PROVE  /\ ncw'[p]["worker-type"] \in Types
         /\ \A k \in Required :
              /\ ncw'[p][k] # Unset
              /\ k \in pending'[p] \/ file'[command'[p].name][k] # Unset
<1> DEFINE f == file[c.name]
<1>1. c.name \in Names /\ f \in [Options -> Values \cup {Unset}]
  BY CommandLinesAssumption DEF Parse, TypeOK
<1>2. /\ command'[p] = c /\ ncw'[p] = Parameters(c, f) /\ file' = file
      /\ pending'[p] = ToStore(c, f) /\ Reached(c, f) = Options
  BY DEF Parse, TypeOK
<1>3. ASSUME NEW k \in Required
      PROVE  /\ ncw'[p][k] # Unset
             /\ k \in pending'[p] \/ file'[command'[p].name][k] # Unset
  <2>1. k \in Options
    BY <1>3 DEF Required
  <2>2. Given(c, k) \/ f[k] # Unset
    BY <1>2, <1>3, <2>1, ReachedPass DEF Passes
  <2>3. CASE Given(c, k)
    BY <1>1, <1>2, <2>1, <2>3, ParameterCases, CommandLinesAssumption DEF ToStore
  <2>4. CASE ~Given(c, k)
    BY <1>1, <1>2, <2>1, <2>2, <2>4, ParameterCases
  <2> QED
    BY <2>3, <2>4
<1>4. ncw'[p]["worker-type"] \in Types
  <2>1. "worker-type" \in Options /\ "worker-type" \in Required
    BY DEF Options, Required
  <2>2. Passes(c, f, "worker-type")
    BY <1>2, <2>1, ReachedPass
  <2>3. CASE Given(c, "worker-type")
    BY <1>1, <1>2, <2>1, <2>2, <2>3, ParameterCases DEF Passes, Taken
  <2>4. CASE ~Given(c, "worker-type")
    <3>1. f["worker-type"] # Unset
      BY <2>1, <2>2, <2>4 DEF Passes
    <3>2. f["worker-type"] \in Types
      BY <1>1, <2>1, <3>1 DEF StoredWasGiven
    <3> QED
      BY <1>1, <1>2, <2>1, <2>4, <3>1, <3>2, ParameterCases
  <2> QED
    BY <2>3, <2>4
<1> QED
  BY <1>3, <1>4

LEMMA AcceptedCompleteStep == IInv /\ [Next]_vars => AcceptedComplete'
<1> SUFFICES ASSUME IInv, [Next]_vars, NEW p \in Starts,
                    state'[p] \in {"accepted", "running"}
             PROVE  /\ ncw'[p]["worker-type"] \in Types
                    /\ \A k \in Required :
                         /\ ncw'[p][k] # Unset
                         /\ k \in pending'[p] \/ file'[command'[p].name][k] # Unset
  BY DEF AcceptedComplete
<1>1. TypeOK /\ StoredWasGiven /\ PendingGiven /\ AcceptedComplete
  BY DEF IInv
<1>2. CASE state[p] = "new"
  <2>1. PICK c \in CommandLines : Parse(p, c) \/ ParseNameless(p, c)
    BY <1>1, <1>2, OnlyParse
  <2>2. Parse(p, c) /\ state'[p] = "accepted"
    BY <1>1, <2>1 DEF ParseNameless, Parse, TypeOK
  <2> QED
    BY <1>1, <2>2, ParseComplete
<1>3. CASE state[p] # "new"
  <2>1. command'[p] = command[p] /\ ncw'[p] = ncw[p]
    BY <1>1, <1>3, KeepsCommand
  <2>2. state[p] \in {"accepted", "running"}
    BY <1>1, <1>3 DEF TypeOK, Next, Parse, ParseNameless, Flush, Killed, vars
  <2> DEFINE n == command[p].name
  <2>3. n \in Names
    BY <1>1, <2>2 DEF TypeOK
  <2>4. ASSUME NEW k \in Required
        PROVE  k \in pending'[p] \/ file'[n][k] # Unset
    <3>1. k \in Options
      BY <2>4 DEF Required
    <3>2. CASE file[n][k] # Unset
      <4>1. CASE file'[n][k] = file[n][k]
        BY <3>2, <4>1
      <4>2. CASE file'[n][k] # file[n][k]
        <5>1. PICK q \in Starts : k \in pending[q] /\ file'[n][k] = ncw[q][k]
          BY <1>1, <2>3, <3>1, <4>2, FileStep
        <5> QED
          BY <1>1, <5>1, CommandLinesAssumption DEF PendingGiven
      <4> QED
        BY <4>1, <4>2
    <3>3. CASE k \in pending[p] /\ pending'[p] = pending[p]
      BY <3>3
    <3>4. CASE k \in pending[p] /\ pending'[p] # pending[p]
      <4>1. Flush(p)
        BY <1>1, <1>3, <3>4
        DEF TypeOK, Next, Parse, ParseNameless, Flush, Killed, vars
      <4>2. file'[n] = Written(p)
        BY <1>1, <2>3, <4>1 DEF Flush, TypeOK
      <4>3. file'[n][k] = ncw[p][k] /\ ncw[p][k] \in Values
        BY <1>1, <3>1, <3>4, <4>2 DEF Written, PendingGiven
      <4> QED
        BY <4>3, CommandLinesAssumption
    <3> QED
      BY <1>1, <2>2, <2>4, <3>2, <3>3, <3>4 DEF AcceptedComplete
  <2> QED
    BY <1>1, <2>1, <2>2, <2>4 DEF AcceptedComplete
<1> QED
  BY <1>2, <1>3

LEMMA Invariance == Spec => []IInv
<1>1. Init => IInv
  <2>1. Init => StoredWasGiven
    BY DEF Init, StoredWasGiven, Nothing
  <2>2. Init => PendingGiven
    BY DEF Init, PendingGiven
  <2>3. Init => AcceptedComplete
    BY DEF Init, AcceptedComplete
  <2> QED
    BY <2>1, <2>2, <2>3, TypeInit DEF IInv
<1>2. IInv /\ [Next]_vars => IInv'
  BY TypeStep, StoredWasGivenStep, PendingGivenStep, AcceptedCompleteStep DEF IInv
<1> QED
  BY <1>1, <1>2, PTL DEF Spec

-----------------------------------------------------------------------------
(* The theorems.                                                           *)

\* Nothing gets into the settings of a worker but what some start of its name was
\* given, however the starts overlap.
THEOREM StoredWasGivenAlways == Spec => []StoredWasGiven
BY Invariance, PTL DEF IInv

\* Every worker that runs has its required parameters and a type main knows.
THEOREM RunsCompleteAlways == Spec => []RunsComplete
<1>1. IInv => RunsComplete
  BY DEF IInv, AcceptedComplete, RunsComplete
<1> QED
  BY <1>1, Invariance, PTL

\* Once a worker has run, its name is enough to start it.
THEOREM RestartByNameAlways == Spec => []RestartByName
<1>1. IInv => RestartByName
  BY DEF IInv, AcceptedComplete, PendingGiven, RestartByName
<1> QED
  BY <1>1, Invariance, PTL

\* No start overwrites an option it was not given.
THEOREM KeepsOthersAlways == Spec => KeepsOthers
<1>1. IInv /\ [Next]_vars =>
        [\A n \in Names, k \in Options : file'[n][k] # file[n][k] =>
           \E p \in Starts : /\ state'[p] # state[p] /\ command[p].name = n
                             /\ Given(command[p], k)]_vars
  <2> SUFFICES ASSUME IInv, [Next]_vars, NEW n \in Names, NEW k \in Options,
                      file'[n][k] # file[n][k]
               PROVE  \E p \in Starts : /\ state'[p] # state[p] /\ command[p].name = n
                                        /\ Given(command[p], k)
    OBVIOUS
  <2>1. PICK p \in Starts : /\ Flush(p) /\ command[p].name = n /\ k \in pending[p]
    BY FileStep DEF IInv
  <2>2. state'[p] # state[p]
    BY <2>1 DEF IInv, TypeOK, Flush
  <2> QED
    BY <2>1, <2>2 DEF IInv, PendingGiven
<1> QED
  BY <1>1, Invariance, PTL DEF Spec, KeepsOthers

=============================================================================
