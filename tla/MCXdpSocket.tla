---------------------------- MODULE MCXdpSocket -----------------------------
(* Instances of XdpSocket: one socket with two RX and two TX frames, and two *)
(* members of a shared UMEM.                                                 *)
EXTENDS XdpSocket
=============================================================================
