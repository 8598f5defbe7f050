----------------------------- MODULE MCShutdown -----------------------------
(* Instances of Shutdown.  Of two servers only the second answers and takes *)
(* what is pushed to it; a single server does.                             *)
EXTENDS Shutdown

MCResponsive == {N - 1}
=============================================================================
