------------------------------- MODULE MCMirror -------------------------------
(***************************************************************************)
(* NotificationMirror on few ids and notifications, for TLC.               *)
(***************************************************************************)
EXTENDS NotificationMirror

Plain == [transient |-> FALSE, resident |-> FALSE, timed |-> FALSE]
MirroredShapes == {[Plain EXCEPT !.timed = TRUE],
                   [Plain EXCEPT !.transient = TRUE, !.resident = TRUE]}
=============================================================================
