----------------------------- MODULE InstallRun -----------------------------
(***************************************************************************)
(* The installer's last step (ui/installer/steps/run.ts): the questions    *)
(* before the install, the plan and the credentials on disk, archinstall's *)
(* life, the phases, the stall check, the Stop button and the end.         *)
(*                                                                         *)
(* GJS runs one callback at a time, so a callback is one step, a           *)
(* synchronous subprocess included.  What the child prints is kept only as *)
(* far as the page acts on it; the log and the wording are left out.       *)
(***************************************************************************)
EXTENDS Integers

CONSTANT Window  \* ticks of the stall timer in STALL_QUIET_MS

ASSUME RunAssumption == Window \in Nat \ {0}

Phases == 5  \* RUN_PHASES: network, disk, base, desktop, config

VARIABLES
  mode,       \* "unread", then what the environment says: "preview", "dry" or "armed"
  stage,      \* "unbuilt", "queued" (the idle), "network", "mirrors", "child" or "over"
  busy,       \* _busy
  outcome,    \* _outcome: "none", "success" or "failure"
  footer,     \* the buttons the footer offers, as sync() last painted it
  phase,      \* -1 before the run, an index into RUN_PHASES, or Phases
  baseLine,   \* "Installing packages:": "unsaid", "unread" in the pipe, or "read"
  polling,    \* desktopPollId
  desktopLog, \* COMMAND_LOG exists in the target
  files,      \* the plan and the credentials in /tmp; "part" is what a write that failed left
  unwritten,  \* history: the files could not be written to the end
  child,      \* archinstall: "none", "running", or how it ended: "ok", "failed"
  stallTimer, \* the 20 s timer is armed
  quiet,      \* ticks without a line or a growing download directory
  lively,     \* the child printed since the last tick
  asking,     \* NetworkManager was asked and has not answered
  warning,    \* stallWarn and the Stop button are visible
  stopDialog, \* the Stop button's dialog is open
  stopped     \* stoppedByUser

pageVars == <<busy, outcome, footer, phase>>
desktopVars == <<baseLine, polling, desktopLog>>
fileVars == <<files, unwritten>>
stallVars == <<stallTimer, quiet, lively, asking, warning>>
stopVars == <<stopDialog, stopped>>
runVars == <<mode, stage, pageVars, desktopVars, fileVars, child, stallVars, stopVars>>

Painted(isBusy, ended) ==
  IF isBusy THEN {} ELSE IF ended = "failure" THEN {"close"} ELSE {"close", "restart"}

RunInit ==
  /\ mode = "unread" /\ stage = "unbuilt" /\ busy = FALSE /\ outcome = "none"
  /\ footer = Painted(FALSE, "none") /\ phase = -1
  /\ baseLine = "unsaid" /\ polling = FALSE /\ desktopLog = FALSE
  /\ files = {} /\ unwritten = FALSE /\ child = "none"
  /\ stallTimer = FALSE /\ quiet = 0 /\ lively = FALSE /\ asking = FALSE
  /\ warning = FALSE /\ stopDialog = FALSE /\ stopped = FALSE

-----------------------------------------------------------------------------
(***************************************************************************)
(* setBusy notifies the window, which repaints the footer from what is     *)
(* true by then; finishRun therefore sets the outcome first.               *)
(***************************************************************************)
SetBusy(value, ended) == busy' = value /\ footer' = Painted(value, ended)

\* Mutant: busy is cleared before the outcome is known.
FinishEarly(success, reached) ==
  /\ SetBusy(FALSE, outcome)
  /\ outcome' = IF success THEN "success" ELSE "failure"
  /\ polling' = FALSE /\ phase' = IF success THEN Phases ELSE reached
  /\ stage' = "over"
\* Mutant: the page of a run that ended keeps asking for the desktop's log.
FinishPolling(success, reached) ==
  /\ outcome' = IF success THEN "success" ELSE "failure"
  /\ SetBusy(FALSE, outcome')
  /\ UNCHANGED polling /\ phase' = IF success THEN Phases ELSE reached
  /\ stage' = "over"
FinishRun(success, reached) ==
  /\ outcome' = IF success THEN "success" ELSE "failure"
  /\ SetBusy(FALSE, outcome')
  /\ polling' = FALSE /\ phase' = IF success THEN Phases ELSE reached
  /\ stage' = "over"

(***************************************************************************)
(* Entering the step builds the page, and the page queues the run.         *)
(***************************************************************************)
Build ==
  /\ stage' = "queued" /\ footer' = Painted(busy, outcome)
  /\ mode' \in {"preview", "dry", "armed"}
  /\ UNCHANGED <<busy, outcome, phase, desktopVars, fileVars, child, stallVars, stopVars>>

Begin ==
  /\ stage = "queued" /\ stage' = "network"
  /\ SetBusy(TRUE, outcome) /\ phase' = 0
  /\ UNCHANGED <<mode, outcome, desktopVars, fileVars, child, stallVars, stopVars>>

(***************************************************************************)
(* The fresh connectivity check, then the mirrors (with a deadline of      *)
(* their own); preview skips the measurement.                              *)
(***************************************************************************)
\* Mutant: the early return forgets finishRun.
NoNetworkSilently ==
  /\ stage = "network" /\ stage' = "over"
  /\ UNCHANGED <<mode, pageVars, desktopVars, fileVars, child, stallVars, stopVars>>
NoNetwork ==
  /\ stage = "network" /\ FinishRun(FALSE, phase)
  /\ UNCHANGED <<mode, baseLine, desktopLog, fileVars, child, stallVars, stopVars>>

MeasureMirrors ==
  /\ stage = "network" /\ mode # "preview" /\ stage' = "mirrors"
  /\ UNCHANGED <<mode, pageVars, desktopVars, fileVars, child, stallVars, stopVars>>

MayStart == stage = IF mode = "preview" THEN "network" ELSE "mirrors"

-----------------------------------------------------------------------------
(***************************************************************************)
(* startInstall, by where it ends.                                         *)
(***************************************************************************)
PlanRefused ==
  /\ MayStart /\ FinishRun(FALSE, phase)
  /\ UNCHANGED <<mode, baseLine, desktopLog, fileVars, child, stallVars, stopVars>>

PreviewEnds ==
  /\ MayStart /\ mode = "preview" /\ FinishRun(TRUE, 4)
  /\ UNCHANGED <<mode, baseLine, desktopLog, fileVars, child, stallVars, stopVars>>

\* Whatever was written by then stays, for this return precedes cleanup(): nothing,
\* the plan, some of the credentials, or all of them when close() is what fails.
FilesRefused ==
  /\ MayStart /\ mode # "preview"
  /\ files' \in {{}, {"plan"}, {"plan", "part"}, {"plan", "creds"}} /\ unwritten' = TRUE
  /\ FinishRun(FALSE, phase)
  /\ UNCHANGED <<mode, baseLine, desktopLog, child, stallVars, stopVars>>

\* Mutant: the early return forgets the files.
DiskRefusedLeaving ==
  /\ MayStart /\ mode = "armed"
  /\ files' = {"plan", "creds"} /\ FinishRun(FALSE, phase)
  /\ UNCHANGED <<mode, baseLine, desktopLog, unwritten, child, stallVars, stopVars>>
\* releaseTargetDisks answers FALSE: cleanup(), and nothing is spawned.
DiskRefused ==
  /\ MayStart /\ mode = "armed"
  /\ files' = {} /\ FinishRun(FALSE, phase)
  /\ UNCHANGED <<mode, baseLine, desktopLog, unwritten, child, stallVars, stopVars>>

SpawnRefused ==
  /\ MayStart /\ mode # "preview"
  /\ files' = {} /\ FinishRun(FALSE, 1)
  /\ UNCHANGED <<mode, baseLine, desktopLog, unwritten, child, stallVars, stopVars>>

Spawn ==
  /\ MayStart /\ mode # "preview"
  /\ files' = {"plan", "creds"} /\ child' = "running"
  /\ stage' = "child" /\ phase' = 1
  /\ stallTimer' = TRUE /\ quiet' = 0 /\ lively' = TRUE
  /\ UNCHANGED <<mode, busy, outcome, footer, desktopVars, unwritten, asking, warning, stopVars>>

-----------------------------------------------------------------------------
(***************************************************************************)
(* The child, and the lines it prints, which the page reads one by one and *)
(* goes on reading after the child's end.  "Installing packages:" is the   *)
(* base phase's start; a run that gets past it works for minutes after it, *)
(* so a run that succeeds has had the line read (an assumption about       *)
(* archinstall; one that fails may end before it is read).                 *)
(***************************************************************************)
Prints ==
  /\ child # "none" /\ lively' = TRUE
  /\ UNCHANGED <<mode, stage, pageVars, desktopVars, fileVars, child, stallTimer, quiet,
                 asking, warning, stopVars>>

SaysBase ==
  /\ child = "running" /\ mode = "armed" /\ baseLine = "unsaid" /\ baseLine' = "unread"
  /\ UNCHANGED <<mode, stage, pageVars, polling, desktopLog, fileVars, child, stallVars,
                 stopVars>>

BaseBegins ==
  /\ baseLine = "unread" /\ baseLine' = "read"
  /\ lively' = TRUE /\ phase' = 2 /\ polling' = TRUE
  /\ UNCHANGED <<mode, stage, busy, outcome, footer, desktopLog, fileVars, child,
                 stallTimer, quiet, asking, warning, stopVars>>

DesktopBegins ==
  /\ child = "running" /\ baseLine = "read" /\ ~desktopLog /\ desktopLog' = TRUE
  /\ UNCHANGED <<mode, stage, pageVars, baseLine, polling, fileVars, child, stallVars, stopVars>>

PollDesktop ==
  /\ polling /\ phase = 2 /\ desktopLog /\ phase' = 3
  /\ UNCHANGED <<mode, stage, busy, outcome, footer, desktopVars, fileVars, child,
                 stallVars, stopVars>>

ChildEnds ==
  /\ child = "running"
  /\ child' \in IF mode = "dry" \/ baseLine = "read" THEN {"ok", "failed"} ELSE {"failed"}
  /\ UNCHANGED <<mode, stage, pageVars, desktopVars, fileVars, stallVars, stopVars>>

\* wait_async: the target is configured after a success, and whatever the end,
\* the logs are kept, the disk is let go (if it can be, its log is out of reach
\* then) and the files are deleted.
WaitReturns ==
  /\ stage = "child" /\ child \in {"ok", "failed"}
  /\ stallTimer' = FALSE /\ warning' = FALSE /\ files' = {}
  /\ desktopLog' \in {desktopLog, FALSE} /\ FinishRun(child = "ok", phase)
  /\ UNCHANGED <<mode, baseLine, unwritten, child, quiet, lively, asking, stopVars>>

-----------------------------------------------------------------------------
(***************************************************************************)
(* The stall check: a quiet window, then NetworkManager's fresh answer.    *)
(* The answer comes to whatever page there is by then.                     *)
(***************************************************************************)
LeastOf(a, b) == IF a <= b THEN a ELSE b

StallTick ==
  /\ stallTimer
  /\ \E grew \in BOOLEAN :
       /\ quiet' = IF lively \/ grew THEN 0 ELSE LeastOf(quiet + 1, Window)
       /\ IF quiet' = Window
          THEN asking' = TRUE /\ UNCHANGED warning
          ELSE warning' = FALSE /\ UNCHANGED asking
  /\ lively' = FALSE
  /\ UNCHANGED <<mode, stage, pageVars, desktopVars, fileVars, child, stallTimer, stopVars>>

NetworkAnswers ==
  /\ asking /\ asking' = FALSE /\ warning' \in BOOLEAN
  /\ UNCHANGED <<mode, stage, pageVars, desktopVars, fileVars, child, stallTimer, quiet,
                 lively, stopVars>>

StopClicked ==
  /\ warning /\ ~stopped /\ ~stopDialog /\ stopDialog' = TRUE
  /\ UNCHANGED <<mode, stage, pageVars, desktopVars, fileVars, child, stallVars, stopped>>

\* stopInstall ends archinstall and what may outlive it, then the child itself.
StopAnswered ==
  /\ stopDialog /\ stopDialog' = FALSE
  /\ \E stop \in BOOLEAN :
       /\ stopped' = (stopped \/ stop)
       /\ child' = IF stop /\ child = "running" THEN "failed" ELSE child
  /\ UNCHANGED <<mode, stage, pageVars, desktopVars, fileVars, stallVars>>

-----------------------------------------------------------------------------
ChildMoves == SaysBase \/ DesktopBegins \/ ChildEnds
Installs == FilesRefused \/ DiskRefused \/ SpawnRefused \/ Spawn
PageMoves ==
  \/ Begin \/ NoNetwork \/ MeasureMirrors
  \/ Prints \/ BaseBegins \/ PollDesktop \/ WaitReturns \/ StallTick \/ NetworkAnswers \/ StopClicked \/ StopAnswered

(***************************************************************************)
(* The type of the variables.                                              *)
(***************************************************************************)
RunTypeOK ==
  /\ mode \in {"unread", "preview", "dry", "armed"}
  /\ stage \in {"unbuilt", "queued", "network", "mirrors", "child", "over"}
  /\ busy \in BOOLEAN /\ outcome \in {"none", "success", "failure"}
  /\ footer \subseteq {"close", "restart"}
  /\ phase \in -1 .. Phases
  /\ baseLine \in {"unsaid", "unread", "read"}
  /\ polling \in BOOLEAN /\ desktopLog \in BOOLEAN
  /\ files \subseteq {"plan", "creds", "part"} /\ unwritten \in BOOLEAN
  /\ child \in {"none", "running", "ok", "failed"}
  /\ stallTimer \in BOOLEAN /\ quiet \in 0 .. Window /\ lively \in BOOLEAN
  /\ asking \in BOOLEAN /\ warning \in BOOLEAN
  /\ stopDialog \in BOOLEAN /\ stopped \in BOOLEAN

(***************************************************************************)
(* The footer never offers Close or Restart over a run under way, nor      *)
(* Restart after a failure: the run step tells the window each time busy   *)
(* changes, and by then the outcome is known (run.ts, setBusy; #391).      *)
(***************************************************************************)
FooterTells ==
  /\ stage \in {"network", "mirrors", "child"} => footer = {}
  /\ outcome = "failure" => footer = {"close"}

(***************************************************************************)
(* The password hash, whole or in part, is on disk only while              *)
(* archinstall's run lasts: the ends of startInstall and of wait_async     *)
(* delete it.  The one that does not is a failed write of the files        *)
(* themselves (run.ts:555), which returns before cleanup() exists and      *)
(* leaves what it wrote; nothing later removes it.                         *)
(***************************************************************************)
SecretsOnDisk == files \cap {"creds", "part"} # {}
CredentialsGo == SecretsOnDisk => stage = "child" \/ unwritten

(***************************************************************************)
(* The phases only go forward, and a run that has ended stays as it ended, *)
(* whichever timer or answer is still on its way.  One line may come late: *)
(* when a run fails with "Installing packages:" still in the pipe, the     *)
(* finished page enters the base phase (run.ts:651) and polls again.       *)
(***************************************************************************)
PhasesForward ==
  [][/\ phase' >= phase
     /\ stage = "over" =>
          /\ UNCHANGED <<stage, outcome, busy>>
          /\ phase' # phase => baseLine = "unread" /\ outcome = "failure"]_runVars
=============================================================================
