---------------------------- MODULE MCFuncSession ----------------------------
(***************************************************************************)
(* FuncSession for TLC.  Two sessions are enough for a run to outlive the  *)
(* session it was started for and for the next one to find what it left.   *)
(***************************************************************************)
EXTENDS FuncSession
=============================================================================
