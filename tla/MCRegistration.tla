--------------------------- MODULE MCRegistration ---------------------------
(* Instances of Registration.  Of two servers only the second answers every *)
(* request; a single server answers.                                       *)
EXTENDS Registration

MCResponsive == {N - 1}
=============================================================================
