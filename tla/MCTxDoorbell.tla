---------------------------- MODULE MCTxDoorbell ----------------------------
(* TxDoorbell for TLC.                                                     *)
EXTENDS TxDoorbell
=============================================================================
