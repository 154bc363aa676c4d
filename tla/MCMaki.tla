------------------------------- MODULE MCMaki -------------------------------
(* Three successive agents: two of them replaced or cleared, in each order. *)
EXTENDS MakiService
=============================================================================
