---------------------------- MODULE LockContract ----------------------------
(***************************************************************************)
(* What the compositor promises of a locked session, whoever locks it and  *)
(* whatever happens to outputs, clients and timers (the head comment of    *)
(* hyalo/compositor/src/lock.rs).                                          *)
(*                                                                         *)
(* The session is open; or closing, when nothing of it can be reached any  *)
(* more but it may still be drawn while a new lock waits for its client;   *)
(* or closed, when what is left of it on the panels only goes away.        *)
(***************************************************************************)
CONSTANT Outputs

VARIABLES
  phase,     \* "open", "closing" or "closed"
  told,      \* a live lock client has been told that the session is locked
  input,     \* who has the keyboard or a grab: "session", "lock", "nobody"
  exposed    \* the outputs on which the session is, or is about to be, shown

vars == <<phase, told, input, exposed>>

Init ==
  /\ phase = "open" /\ told = FALSE
  /\ input = "session" /\ exposed = Outputs

OutOfReach == input' \in {"lock", "nobody"}
OnlyCovers == exposed' \subseteq exposed

(* In use: anything may have the input, anything may be drawn. *)
Use ==
  /\ phase = "open" /\ phase' = "open"
  /\ input' \in {"session", "lock", "nobody"} /\ exposed' \in SUBSET Outputs
  /\ UNCHANGED told

(* A lock begins: the input is cut at once; told at once only if nothing is shown. *)
Lock ==
  /\ phase = "open" /\ OutOfReach /\ OnlyCovers
  /\ \/ phase' = "closing" /\ told' = FALSE
     \/ phase' = "closed" /\ told' \in BOOLEAN

(* The session may still be drawn until each output's lock surface is. *)
Hold ==
  /\ phase = "closing" /\ phase' = "closing"
  /\ OutOfReach /\ exposed' \in SUBSET Outputs
  /\ UNCHANGED told

(* Hidden: by confirmation, by the hold's end, or by another client's lock. *)
Close ==
  /\ phase = "closing" /\ phase' = "closed"
  /\ OutOfReach /\ OnlyCovers
  /\ told' \in BOOLEAN

(* Clients come, die and are replaced; the session stays away. *)
Keep ==
  /\ phase = "closed" /\ phase' = "closed"
  /\ OutOfReach /\ OnlyCovers
  /\ told' \in BOOLEAN

(* Only a client that was told opens the session. *)
Unlock ==
  /\ phase = "closed" /\ told
  /\ phase' = "open" /\ told' = FALSE
  /\ input' \in {"session", "nobody"} /\ UNCHANGED exposed

Next == Use \/ Lock \/ Hold \/ Close \/ Keep \/ Unlock

Spec == Init /\ [][Next]_vars
=============================================================================
