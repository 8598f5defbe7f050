---------------------------- MODULE MCFileStream ----------------------------
(* Files of two parts, with an empty part in the middle, with an object for *)
(* last part, and one that cannot be opened.                                *)
EXTENDS FileStream

MCReply ==
  [f \in Files |->
     CASE f = "mid_empty" -> <<"data", "empty", "data">>
       [] f = "ends_in_object" -> <<"object", "object">>
       [] f = "ends_empty" -> <<"data", "empty">>
       [] OTHER -> <<"data", "data">>]
MCOpenable == Files \ {"no_directory"}
MCResponsive == Servers \ {"silent"}
=============================================================================
