------------------------------ MODULE MCClient ------------------------------
(***************************************************************************)
(* Instances of the client for TLC.                                        *)
(***************************************************************************)
EXTENDS Client

MCCommand == [op : {"private", "public"}, token : 0 .. MaxLogins]

=============================================================================
