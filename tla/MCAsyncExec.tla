---------------------------- MODULE MCAsyncExec ----------------------------
(* Small instances of AsyncExec for TLC.                                   *)
EXTENDS AsyncExec
=============================================================================
