---------------------------- MODULE MCInstaller ----------------------------
(* The installer with a stall window of one tick.                           *)
EXTENDS Installer

Ticks == 1
=============================================================================
