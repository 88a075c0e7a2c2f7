---------------------------- MODULE MCKeyCustody ----------------------------
(* The watchdog's start on a small instance. *)
EXTENDS KeyCustody
=============================================================================
