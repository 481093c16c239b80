--------------------------- MODULE MCNotifications ---------------------------
(***************************************************************************)
(* Notifications on few ids and notifications, for TLC.                    *)
(***************************************************************************)
EXTENDS Notifications

Plain == [transient |-> FALSE, resident |-> FALSE, timed |-> FALSE]
ExpiringShapes == {[Plain EXCEPT !.timed = TRUE], [Plain EXCEPT !.transient = TRUE]}
=============================================================================
