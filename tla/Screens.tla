------------------------------- MODULE Screens -------------------------------
(***************************************************************************)
(* The outputs of the hardware session as the redraw loop of               *)
(* hyalo/compositor/src/backend/tty.rs keeps them: which are connected and *)
(* powered, whether this session has the VT, where each output stands in   *)
(* its draw - flip - vblank cycle, and what is really on the panel.        *)
(*                                                                         *)
(* A frame is an integer: 0 is a frame of the session, g > 0 a locked      *)
(* frame drawn for lock request number g.  Which of the two is drawn is    *)
(* lock.rs's choice: SessionLock extends this module and passes it in.     *)
(***************************************************************************)
EXTENDS Integers

CONSTANTS
  Outputs,       \* the connectors of the machine
  Disturbances   \* what the environment may do: a subset of AllDisturbances

AllDisturbances == {"power", "hotplug", "vt", "render", "surface"}

ASSUME DisturbancesAssumption == Disturbances \subseteq AllDisturbances

VARIABLES
  vtActive,   \* this session is on the active VT
  plugged,    \* the outputs that have a Surface: connected and enabled
  powered,    \* Surface.powered (DPMS)
  redraw,     \* Surface.redraw
  flip,       \* the frame the kernel was given and has not shown yet
  screen      \* the frame of ours that is on the panel

screenVars == <<vtActive, plugged, powered, redraw, flip, screen>>

Nothing == -1
SessionFrame == 0

(***************************************************************************)
(* enum Redraw, and what queue_redraw makes of each state: an output whose *)
(* flip or estimated vblank is pending remembers that it must draw again.  *)
(***************************************************************************)
\* Mutant: a redraw asked for while a flip is pending is forgotten.
AfterQueueForgets ==
  [ Idle            |-> "Queued",
    Queued          |-> "Queued",
    VBlank          |-> "VBlank",
    VBlankRedraw    |-> "VBlankRedraw",
    Estimated       |-> "EstimatedRedraw",
    EstimatedRedraw |-> "EstimatedRedraw" ]

AfterQueue ==
  [ Idle            |-> "Queued",
    Queued          |-> "Queued",
    VBlank          |-> "VBlankRedraw",
    VBlankRedraw    |-> "VBlankRedraw",
    Estimated       |-> "EstimatedRedraw",
    EstimatedRedraw |-> "EstimatedRedraw" ]

Redraws == {"Idle", "Queued", "VBlank", "VBlankRedraw", "Estimated", "EstimatedRedraw"}

Waiting(r) == r \in {"VBlank", "VBlankRedraw"}      \* a flip is pending
Estimating(r) == r \in {"Estimated", "EstimatedRedraw"}

Queue(rd, os) == [o \in Outputs |-> IF o \in os THEN AfterQueue[rd[o]] ELSE rd[o]]

ShowsFrames == IF vtActive THEN plugged \cap powered ELSE {}

(***************************************************************************)
(* The end of render_surface for one output: the frame is queued to the    *)
(* kernel; or it is what the panel shows already ("nothing new") and an    *)
(* estimated vblank is awaited; or drawing or queueing it failed, and the  *)
(* output is left Idle with its old content.                               *)
(***************************************************************************)
Endings == {"flip", "quiet", "failed"}
RedrawAfter == [flip |-> "VBlank", quiet |-> "Estimated", failed |-> "Idle"]

SameContent(f, g) == (f = SessionFrame) = (g = SessionFrame)

CanEnd(how, frame, shown) ==
  /\ how = "quiet" => shown # Nothing /\ SameContent(frame, shown)
  /\ how = "failed" => "render" \in Disturbances

RenderSurface(o, frame, how, shown) ==
  /\ CanEnd(how, frame, shown)
  /\ redraw' = [redraw EXCEPT ![o] = RedrawAfter[how]]
  /\ flip' = [flip EXCEPT ![o] = IF how = "flip" THEN frame ELSE Nothing]
  /\ screen' = [screen EXCEPT ![o] = IF how = "quiet" THEN frame ELSE shown]
  /\ UNCHANGED <<vtActive, plugged, powered>>

(***************************************************************************)
(* on_vblank and estimated_vblank when nothing more is to be drawn: no     *)
(* redraw is needed, or another VT has the screens (render_surface returns *)
(* at once and the output stays Queued).                                   *)
(***************************************************************************)
Settle(o, shown) ==
  /\ redraw' = [redraw EXCEPT ![o] = IF @ \in {"VBlank", "Estimated"} THEN "Idle" ELSE "Queued"]
  /\ flip' = [flip EXCEPT ![o] = Nothing]
  /\ screen' = [screen EXCEPT ![o] = shown]
  /\ UNCHANGED <<vtActive, plugged, powered>>

(***************************************************************************)
(* outputs::set_power for the outputs os: off clears the CRTC and drops    *)
(* what was pending there, on draws at once; then everything is redrawn.   *)
(***************************************************************************)
SetPower(os, on) ==
  LET changed == {o \in os \cap plugged : (o \in powered) # on}
      cut(f, v) == [o \in Outputs |-> IF o \in changed THEN v ELSE f[o]]
  IN  /\ powered' = IF on THEN powered \cup changed ELSE powered \ changed
      /\ redraw' = Queue(cut(redraw, IF on THEN "Queued" ELSE "Idle"), plugged)
      /\ flip' = cut(flip, Nothing)
      /\ screen' = cut(screen, Nothing)
      /\ UNCHANGED <<vtActive, plugged>>

PowerTargets == {{o} : o \in plugged} \cup {plugged}

(***************************************************************************)
(* connector_connected: a new Output, powered, drawn at once.              *)
(* connector_disconnected: its Surface goes, with what was pending.        *)
(***************************************************************************)
Connect(o) ==
  /\ o \notin plugged
  /\ plugged' = plugged \cup {o}
  /\ powered' = powered \cup {o}
  /\ redraw' = [redraw EXCEPT ![o] = "Queued"]
  /\ UNCHANGED <<vtActive, flip, screen>>

Disconnect(o) ==
  /\ o \in plugged
  /\ plugged' = plugged \ {o}
  /\ powered' = powered \ {o}
  /\ redraw' = [redraw EXCEPT ![o] = "Idle"]
  /\ flip' = [flip EXCEPT ![o] = Nothing]
  /\ screen' = [screen EXCEPT ![o] = Nothing]
  /\ UNCHANGED vtActive

(***************************************************************************)
(* PauseSession: another VT has the screens.  ActivateSession: they come   *)
(* back; every output starts its cycle over and is drawn.                  *)
(***************************************************************************)
PauseSession ==
  /\ vtActive
  /\ vtActive' = FALSE
  /\ screen' = [o \in Outputs |-> Nothing]
  /\ UNCHANGED <<plugged, powered, redraw, flip>>

ActivateSession ==
  /\ ~vtActive
  /\ vtActive' = TRUE
  /\ redraw' = Queue([o \in Outputs |-> "Idle"], plugged)
  /\ flip' = [o \in Outputs |-> Nothing]
  /\ UNCHANGED <<plugged, powered, screen>>

(***************************************************************************)
(* A session in use: every output on and showing it.                       *)
(***************************************************************************)
ScreensInit ==
  /\ vtActive = TRUE
  /\ plugged = Outputs
  /\ powered = Outputs
  /\ redraw = [o \in Outputs |-> "Idle"]
  /\ flip = [o \in Outputs |-> Nothing]
  /\ screen = [o \in Outputs |-> SessionFrame]

ScreensTypeOK(maxFrame) ==
  /\ vtActive \in BOOLEAN
  /\ plugged \in SUBSET Outputs
  /\ powered \in SUBSET plugged
  /\ redraw \in [Outputs -> Redraws]
  /\ flip \in [Outputs -> Nothing .. maxFrame]
  /\ screen \in [Outputs -> Nothing .. maxFrame]
=============================================================================
