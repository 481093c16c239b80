----------------------------- MODULE MCDisplay -----------------------------
(***************************************************************************)
(* A preview on a laptop with one socket, and a backend that refuses once. *)
(***************************************************************************)
EXTENDS Display

=============================================================================
