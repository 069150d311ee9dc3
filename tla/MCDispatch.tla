----------------------------- MODULE MCDispatch -----------------------------
(***************************************************************************)
(* The small instance of Dispatch for TLC.                                 *)
(***************************************************************************)
EXTENDS Dispatch

MCIds == 1..2
\* A request names the topic of its id, or another's.
MCNamed == 1..1
=============================================================================
