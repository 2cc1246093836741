---------------------------- MODULE MCAsyncActor ----------------------------
(* AsyncActor for TLC.                                                     *)
EXTENDS AsyncActor
=============================================================================
