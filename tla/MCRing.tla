------------------------------- MODULE MCRing -------------------------------
(* Ring with two slots and indexes that wrap after four laps.          *)
EXTENDS Ring
=============================================================================
