----------------------------- MODULE MCBrackets -----------------------------
(* The brackets of one episode on a small instance. *)
EXTENDS Brackets
=============================================================================
