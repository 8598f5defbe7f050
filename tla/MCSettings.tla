----------------------------- MODULE MCSettings -----------------------------
(* Instances of Settings: command lines as they are typed for two workers,  *)
(* complete, by name alone, for one option, and wrong.                      *)
EXTENDS Settings, TLC

MCValues == {"service", "process", "other", "1", "2", "", "true", "false", "/tmp/nodecast"}

Line(n, g) == [name |-> n, given |-> g @@ Nothing]

Complete(type, v) ==
  [k \in Required |-> IF k = "worker-type" THEN type ELSE v]

MCCommandLines ==
  {Line("a", Complete("service", "1") @@ [stdout |-> "true"]),
   Line("a", Complete("process", "2") @@ [directory |-> "2"]),
   Line("a", Complete("other", "2")),
   Line("a", [k \in Required \ {"exec"} |-> Complete("service", "2")[k]]),
   Line("a", [k \in {"exec"} |-> "2"]),
   Line("a", [stdout |-> ""]),
   Line("a", Nothing),
   Line("b", Complete("service", "2") @@ [directory |-> "1"]),
   Line("b", [k \in Required \ {"node-uuid"} |-> Complete("process", "1")[k]]),
   Line(Unset, Complete("service", "1"))}
=============================================================================
