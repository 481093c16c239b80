--------------------------- MODULE InstallerProofs ---------------------------
(***************************************************************************)
(* The installer for every length of the stall window: its run never goes  *)
(* on alone, tells the footer the truth, deletes the credentials, and      *)
(* installs what was confirmed.                                            *)
(***************************************************************************)
EXTENDS Installer, TLAPS

Working == {"network", "mirrors", "child"}

(***************************************************************************)
(* What holds between the run's parts: busy is the stages that work, the   *)
(* footer is painted from what is true now, each part of the run lives in  *)
(* its own stages; a line may come late, but only to a run that failed     *)
(* with the phase where the child's start left it, and its poll then finds *)
(* no log of the desktop's.                                                *)
(***************************************************************************)
Repainted == footer = Painted(busy, outcome)

StageInv ==
  /\ busy <=> stage \in Working
  /\ outcome # "none" <=> stage = "over"
  /\ child = "running" => stage = "child"
  /\ child # "none" => stage \in {"child", "over"}
  /\ SecretsOnDisk => stage = "child" \/ unwritten
  /\ polling => stage = "child" \/ (stage = "over" /\ outcome = "failure" /\ ~desktopLog)
  /\ polling \/ desktopLog => baseLine = "read"
  /\ baseLine # "unsaid" => mode = "armed" /\ stage \in {"child", "over"}
  /\ baseLine = "unread" => child # "ok" /\ outcome # "success"
  /\ stallTimer => stage = "child"
  /\ asking \/ warning \/ stopDialog => stage \in {"child", "over"}

PhaseInv ==
  /\ stage \in {"unbuilt", "queued"} => phase = -1
  /\ stage \in {"network", "mirrors"} => phase = 0
  /\ baseLine = "unread" => phase = 1
  /\ baseLine = "unsaid" /\ stage = "child" => phase = 1

(***************************************************************************)
(* The types, by the kind of value: no backend takes flags and numbers in  *)
(* one leaf.                                                               *)
(***************************************************************************)
Flags ==
  /\ busy \in BOOLEAN /\ polling \in BOOLEAN /\ desktopLog \in BOOLEAN
  /\ stallTimer \in BOOLEAN /\ lively \in BOOLEAN /\ asking \in BOOLEAN
  /\ warning \in BOOLEAN /\ stopDialog \in BOOLEAN /\ stopped \in BOOLEAN
  /\ unwritten \in BOOLEAN

Numbers == phase \in -1 .. Phases /\ quiet \in 0 .. Window /\ PhaseInv

Enums ==
  /\ mode \in {"unread", "preview", "dry", "armed"}
  /\ stage \in {"unbuilt", "queued", "network", "mirrors", "child", "over"}
  /\ outcome \in {"none", "success", "failure"}
  /\ footer \subseteq {"close", "restart"} /\ files \subseteq {"plan", "creds", "part"}
  /\ child \in {"none", "running", "ok", "failed"} /\ baseLine \in {"unsaid", "unread", "read"}

RunInv == Flags /\ Numbers /\ Enums /\ Repainted /\ StageInv

(***************************************************************************)
(* What holds between the run and its window: the run page is the only one *)
(* that works, it is held, and the way to it went through the dialog.      *)
(***************************************************************************)
Pages == index \in 1 .. Run /\ maxReached \in index .. Run /\ built \subseteq {3, 4}

WindowFlags == open \in BOOLEAN /\ rebuild \in BOOLEAN /\ system \in BOOLEAN /\ detecting \in BOOLEAN

FrameInv ==
  /\ alert \in {"none", "next", "quit"}
  /\ index = Run <=> stage # "unbuilt"
  /\ alert = "next" => index = Summary
  /\ alert = "quit" => index # Run

Watched == ~open => stage \notin Working

(***************************************************************************)
(* What was confirmed stays the answer, from the dialog on.                *)
(***************************************************************************)
AnswerTypes ==
  /\ disk \in WholeAnswers \cup ManualAnswers
  /\ account \in {"blank", "unconfirmed", "good"}
  /\ gparted \in {"closed", "here", "whole", "manual"}
  /\ confirmed \in WholeAnswers \cup ManualAnswers \cup {"moving"}
  /\ installed \in WholeAnswers \cup ManualAnswers

ConfirmInv ==
  /\ alert = "next" \/ index = Run =>
       confirmed = "moving" \/ (confirmed = disk /\ gparted = "closed")
  /\ stage = "child" => installed = confirmed \/ confirmed = "moving"

IInv ==
  RunInv /\ Pages /\ WindowFlags /\ FrameInv /\ Watched /\ AnswerTypes /\ ConfirmInv

USE RunAssumption DEF RunAssumption

-----------------------------------------------------------------------------
(***************************************************************************)
(* The run.                                                                *)
(***************************************************************************)
(* The footer stays true to a run that changes neither flag, and a change of *)
(* busy repaints it from what is true by then. *)
LEMMA Unpainted == Repainted /\ UNCHANGED <<busy, outcome, footer>> => Repainted'
BY DEF Repainted

LEMMA Paints ==
  ASSUME NEW value \in BOOLEAN, SetBusy(value, outcome')
  PROVE  Repainted' /\ busy' = value /\ footer' \subseteq {"close", "restart"}
<1>1. footer' = Painted(value, outcome') /\ busy' = value
  BY DEF SetBusy
<1>2. footer' = Painted(busy', outcome')
  BY <1>1
<1>3. footer' \subseteq {"close", "restart"}
  BY <1>1 DEF Painted
<1> QED BY <1>1, <1>2, <1>3 DEF Repainted

Ended ==
  /\ Repainted /\ busy = FALSE /\ footer \subseteq {"close", "restart"}
  /\ outcome \in {"success", "failure"} /\ stage = "over" /\ polling = FALSE

LEMMA Finished ==
  ASSUME NEW success \in BOOLEAN, NEW reached, FinishRun(success, reached)
  PROVE  Ended'
<1>1. SetBusy(FALSE, outcome')
  BY DEF FinishRun
<1>2. Repainted' /\ busy' = FALSE /\ footer' \subseteq {"close", "restart"}
  BY <1>1, Paints
<1>3. outcome' \in {"success", "failure"} /\ stage' = "over" /\ polling' = FALSE
  BY DEF FinishRun
<1> QED BY <1>2, <1>3 DEF Ended

LEMMA RunInitInv == RunInit => RunInv
<1> SUFFICES ASSUME RunInit PROVE RunInv
  OBVIOUS
<1>1. Repainted
  BY DEF RunInit, Repainted
<1>2. footer \subseteq {"close", "restart"}
  BY DEF RunInit, Painted
<1>3. Flags
  BY DEF RunInit, Flags
<1>4. Numbers
  BY DEF RunInit, Numbers, PhaseInv, Phases
<1>5. Enums
  BY <1>2 DEF RunInit, Enums
<1>6. StageInv
  BY DEF RunInit, StageInv, SecretsOnDisk, Working
<1> QED BY <1>1, <1>3, <1>4, <1>5, <1>6 DEF RunInv

LEMMA RunInvTypes == RunInv => RunTypeOK
BY DEF RunInv, Flags, Numbers, Enums, RunTypeOK

(* Building the page starts the run's own invariant on its way. *)
LEMMA BuildKeeps ==
  ASSUME RunInv, Build, stage = "unbuilt"
  PROVE  RunInv' /\ stage' = "queued"
<1> USE DEF Build, RunInv, desktopVars, fileVars, stallVars, stopVars
<1>1. Repainted'
  BY DEF Repainted
<1>2. footer' \subseteq {"close", "restart"}
  BY DEF Painted
<1>3. Flags'
  BY DEF Flags
<1>4. Numbers'
  BY DEF Numbers, PhaseInv
<1>5. Enums'
  BY <1>2 DEF Enums
<1>6. StageInv'
  BY DEF StageInv, SecretsOnDisk, Working
<1> QED BY <1>1, <1>3, <1>4, <1>5, <1>6

(* Every end of startInstall, and the way past all of them. *)
LEMMA InstallKeeps ==
  ASSUME RunInv, PlanRefused \/ PreviewEnds \/ Installs
  PROVE  RunInv' /\ stage \in {"network", "mirrors"} /\ stage' \in {"over", "child"}
         /\ (stage' = "child" <=> child' = "running")
<1> USE DEF RunInv, MayStart, desktopVars, fileVars, stallVars, stopVars, pageVars, Phases
<1>1. CASE PlanRefused
  <2>1. FinishRun(FALSE, phase)
    BY <1>1 DEF PlanRefused
  <2>2. Ended'
    BY <2>1, Finished
  <2>3. Flags'
    BY <1>1, <2>2 DEF PlanRefused, Ended, Flags
  <2>4. Numbers'
    BY <1>1, <2>1 DEF PlanRefused, FinishRun, Numbers, PhaseInv
  <2>5. Enums'
    BY <1>1, <2>2 DEF PlanRefused, Ended, Enums
  <2>6. StageInv' /\ stage \in {"network", "mirrors"} /\ stage' \in {"over", "child"}
        /\ (stage' = "child" <=> child' = "running")
    BY <1>1, <2>2 DEF PlanRefused, Ended, StageInv, SecretsOnDisk, Working, Enums, Flags
  <2> QED BY <2>2, <2>3, <2>4, <2>5, <2>6 DEF Ended
<1>2. CASE PreviewEnds
  <2>1. FinishRun(TRUE, 4)
    BY <1>2 DEF PreviewEnds
  <2>2. Ended'
    BY <2>1, Finished
  <2>3. Flags'
    BY <1>2, <2>2 DEF PreviewEnds, Ended, Flags
  <2>4. Numbers'
    BY <1>2, <2>1 DEF PreviewEnds, FinishRun, Numbers, PhaseInv
  <2>5. Enums'
    BY <1>2, <2>2 DEF PreviewEnds, Ended, Enums
  <2>6. StageInv' /\ stage \in {"network", "mirrors"} /\ stage' \in {"over", "child"}
        /\ (stage' = "child" <=> child' = "running")
    BY <1>2, <2>2 DEF PreviewEnds, Ended, StageInv, SecretsOnDisk, Working, Enums, Flags
  <2> QED BY <2>2, <2>3, <2>4, <2>5, <2>6 DEF Ended
<1>3. CASE FilesRefused
  <2>1. FinishRun(FALSE, phase)
    BY <1>3 DEF FilesRefused
  <2>2. Ended'
    BY <2>1, Finished
  <2>3. Flags'
    BY <1>3, <2>2 DEF FilesRefused, Ended, Flags
  <2>4. Numbers'
    BY <1>3, <2>1 DEF FilesRefused, FinishRun, Numbers, PhaseInv
  <2>5. Enums'
    BY <1>3, <2>2 DEF FilesRefused, Ended, Enums
  <2>6. StageInv' /\ stage \in {"network", "mirrors"} /\ stage' \in {"over", "child"}
        /\ (stage' = "child" <=> child' = "running")
    BY <1>3, <2>2 DEF FilesRefused, Ended, StageInv, SecretsOnDisk, Working, Enums, Flags
  <2> QED BY <2>2, <2>3, <2>4, <2>5, <2>6 DEF Ended
<1>4. CASE DiskRefused
  <2>1. FinishRun(FALSE, phase)
    BY <1>4 DEF DiskRefused
  <2>2. Ended'
    BY <2>1, Finished
  <2>3. Flags'
    BY <1>4, <2>2 DEF DiskRefused, Ended, Flags
  <2>4. Numbers'
    BY <1>4, <2>1 DEF DiskRefused, FinishRun, Numbers, PhaseInv
  <2>5. Enums'
    BY <1>4, <2>2 DEF DiskRefused, Ended, Enums
  <2>6. StageInv' /\ stage \in {"network", "mirrors"} /\ stage' \in {"over", "child"}
        /\ (stage' = "child" <=> child' = "running")
    BY <1>4, <2>2 DEF DiskRefused, Ended, StageInv, SecretsOnDisk, Working, Enums, Flags
  <2> QED BY <2>2, <2>3, <2>4, <2>5, <2>6 DEF Ended
<1>5. CASE SpawnRefused
  <2>1. FinishRun(FALSE, 1)
    BY <1>5 DEF SpawnRefused
  <2>2. Ended'
    BY <2>1, Finished
  <2>3. Flags'
    BY <1>5, <2>2 DEF SpawnRefused, Ended, Flags
  <2>4. Numbers'
    BY <1>5, <2>1 DEF SpawnRefused, FinishRun, Numbers, PhaseInv
  <2>5. Enums'
    BY <1>5, <2>2 DEF SpawnRefused, Ended, Enums
  <2>6. StageInv' /\ stage \in {"network", "mirrors"} /\ stage' \in {"over", "child"}
        /\ (stage' = "child" <=> child' = "running")
    BY <1>5, <2>2 DEF SpawnRefused, Ended, StageInv, SecretsOnDisk, Working, Enums, Flags
  <2> QED BY <2>2, <2>3, <2>4, <2>5, <2>6 DEF Ended
<1>6. CASE Spawn
  <2>1. Flags'
    BY <1>6 DEF Spawn, Flags
  <2>2. Numbers'
    BY <1>6 DEF Spawn, Numbers, PhaseInv
  <2>3. Enums'
    BY <1>6 DEF Spawn, Enums
  <2>4. Repainted'
    BY <1>6, Unpainted DEF Spawn
  <2>5. StageInv' /\ stage \in {"network", "mirrors"} /\ stage' \in {"over", "child"}
        /\ (stage' = "child" <=> child' = "running")
    BY <1>6 DEF Spawn, StageInv, SecretsOnDisk, Working, Enums, Flags
  <2> QED BY <2>1, <2>2, <2>3, <2>4, <2>5
<1> QED BY <1>1, <1>2, <1>3, <1>4, <1>5, <1>6 DEF Installs

(* What the page's callbacks do before and after startInstall. *)
LEMMA PageKeeps ==
  ASSUME RunInv, PageMoves
  PROVE  RunInv' /\ stage # "unbuilt" /\ stage' # "unbuilt"
         /\ (stage' = "child" => stage = "child")
<1> USE DEF RunInv, MayStart, desktopVars, fileVars, stallVars, stopVars, pageVars, Phases
<1>1. CASE Begin
  <2>1. SetBusy(TRUE, outcome')
    BY <1>1 DEF Begin
  <2>2. Flags'
    BY <1>1, <2>1, Paints DEF Begin, Flags
  <2>3. Numbers'
    BY <1>1, <2>1, Paints DEF Begin, Numbers, PhaseInv
  <2>4. Enums'
    BY <1>1, <2>1, Paints DEF Begin, Enums
  <2>5. Repainted'
    BY <1>1, <2>1, Paints DEF Begin
  <2>6. StageInv' /\ stage # "unbuilt" /\ stage' # "unbuilt" /\ (stage' = "child" => stage = "child")
    BY <1>1, <2>1, Paints DEF Begin, StageInv, SecretsOnDisk, Working, Enums, Flags
  <2> QED BY <2>2, <2>3, <2>4, <2>5, <2>6
<1>2. CASE NoNetwork
  <2>1. FinishRun(FALSE, phase)
    BY <1>2 DEF NoNetwork
  <2>2. Ended'
    BY <2>1, Finished
  <2>3. Flags'
    BY <1>2, <2>2 DEF NoNetwork, Ended, Flags
  <2>4. Numbers'
    BY <1>2, <2>1 DEF NoNetwork, FinishRun, Numbers, PhaseInv
  <2>5. Enums'
    BY <1>2, <2>2 DEF NoNetwork, Ended, Enums
  <2>6. StageInv' /\ stage # "unbuilt" /\ stage' # "unbuilt" /\ (stage' = "child" => stage = "child")
    BY <1>2, <2>2 DEF NoNetwork, Ended, StageInv, SecretsOnDisk, Working, Enums, Flags
  <2> QED BY <2>2, <2>3, <2>4, <2>5, <2>6 DEF Ended
<1>3. CASE MeasureMirrors
  <2>1. Flags'
    BY <1>3 DEF MeasureMirrors, Flags
  <2>2. Numbers'
    BY <1>3 DEF MeasureMirrors, Numbers, PhaseInv
  <2>3. Enums'
    BY <1>3 DEF MeasureMirrors, Enums
  <2>4. Repainted'
    BY <1>3, Unpainted DEF MeasureMirrors
  <2>5. StageInv' /\ stage # "unbuilt" /\ stage' # "unbuilt" /\ (stage' = "child" => stage = "child")
    BY <1>3 DEF MeasureMirrors, StageInv, SecretsOnDisk, Working, Enums, Flags
  <2> QED BY <2>1, <2>2, <2>3, <2>4, <2>5
<1>4. CASE PollDesktop
  <2>1. Flags'
    BY <1>4 DEF PollDesktop, Flags
  <2>2. Numbers'
    BY <1>4 DEF PollDesktop, Numbers, PhaseInv
  <2>3. Enums'
    BY <1>4 DEF PollDesktop, Enums
  <2>4. Repainted'
    BY <1>4, Unpainted DEF PollDesktop
  <2>5. StageInv' /\ stage # "unbuilt" /\ stage' # "unbuilt" /\ (stage' = "child" => stage = "child")
    BY <1>4 DEF PollDesktop, StageInv, SecretsOnDisk, Working, Enums, Flags
  <2> QED BY <2>1, <2>2, <2>3, <2>4, <2>5
<1>5. CASE WaitReturns
  <2>1. FinishRun(child = "ok", phase)
    BY <1>5 DEF WaitReturns
  <2>2. Ended'
    <3>1. (child = "ok") \in BOOLEAN
      OBVIOUS
    <3> QED BY <2>1, <3>1, Finished
  <2>3. Flags'
    BY <1>5, <2>2 DEF WaitReturns, Ended, Flags
  <2>4. Numbers'
    <3>1. baseLine = "unread" => child # "ok"
      BY DEF StageInv
    <3>2. phase' = IF child = "ok" THEN Phases ELSE phase
      BY <2>1 DEF FinishRun
    <3>3. stage' = "over" /\ UNCHANGED <<baseLine, quiet>>
      BY <1>5, <2>2 DEF WaitReturns, Ended
    <3> QED BY <3>1, <3>2, <3>3 DEF Numbers, PhaseInv
  <2>5. Enums'
    BY <1>5, <2>2 DEF WaitReturns, Ended, Enums
  <2>6. StageInv' /\ stage # "unbuilt" /\ stage' # "unbuilt" /\ (stage' = "child" => stage = "child")
    <3>1. outcome' = IF child = "ok" THEN "success" ELSE "failure"
      BY <2>1 DEF FinishRun
    <3> QED BY <1>5, <2>2, <3>1 DEF WaitReturns, Ended, StageInv, SecretsOnDisk, Working, Enums, Flags
  <2> QED BY <2>2, <2>3, <2>4, <2>5, <2>6 DEF Ended
<1>6. CASE StallTick
  <2>1. Flags'
    BY <1>6 DEF StallTick, LeastOf, Flags
  <2>2. Numbers'
    BY <1>6 DEF StallTick, LeastOf, Numbers, PhaseInv
  <2>3. Enums'
    BY <1>6 DEF StallTick, LeastOf, Enums
  <2>4. Repainted'
    BY <1>6, Unpainted DEF StallTick, LeastOf
  <2>5. StageInv' /\ stage # "unbuilt" /\ stage' # "unbuilt" /\ (stage' = "child" => stage = "child")
    BY <1>6 DEF StallTick, LeastOf, StageInv, SecretsOnDisk, Working, Enums, Flags
  <2> QED BY <2>1, <2>2, <2>3, <2>4, <2>5
<1>7. CASE NetworkAnswers
  <2>1. Flags'
    BY <1>7 DEF NetworkAnswers, Flags
  <2>2. Numbers'
    BY <1>7 DEF NetworkAnswers, Numbers, PhaseInv
  <2>3. Enums'
    BY <1>7 DEF NetworkAnswers, Enums
  <2>4. Repainted'
    BY <1>7, Unpainted DEF NetworkAnswers
  <2>5. StageInv' /\ stage # "unbuilt" /\ stage' # "unbuilt" /\ (stage' = "child" => stage = "child")
    BY <1>7 DEF NetworkAnswers, StageInv, SecretsOnDisk, Working, Enums, Flags
  <2> QED BY <2>1, <2>2, <2>3, <2>4, <2>5
<1>8. CASE StopClicked
  <2>1. Flags'
    BY <1>8 DEF StopClicked, Flags
  <2>2. Numbers'
    BY <1>8 DEF StopClicked, Numbers, PhaseInv
  <2>3. Enums'
    BY <1>8 DEF StopClicked, Enums
  <2>4. Repainted'
    BY <1>8, Unpainted DEF StopClicked
  <2>5. StageInv' /\ stage # "unbuilt" /\ stage' # "unbuilt" /\ (stage' = "child" => stage = "child")
    BY <1>8 DEF StopClicked, StageInv, SecretsOnDisk, Working, Enums, Flags
  <2> QED BY <2>1, <2>2, <2>3, <2>4, <2>5
<1>9. CASE StopAnswered
  <2>1. Flags'
    BY <1>9 DEF StopAnswered, Flags
  <2>2. Numbers'
    BY <1>9 DEF StopAnswered, Numbers, PhaseInv
  <2>3. Enums'
    BY <1>9 DEF StopAnswered, Enums
  <2>4. Repainted'
    BY <1>9, Unpainted DEF StopAnswered
  <2>5. StageInv' /\ stage # "unbuilt" /\ stage' # "unbuilt" /\ (stage' = "child" => stage = "child")
    BY <1>9 DEF StopAnswered, StageInv, SecretsOnDisk, Working, Enums, Flags
  <2> QED BY <2>1, <2>2, <2>3, <2>4, <2>5
<1>10. CASE Prints
  <2>1. Flags'
    BY <1>10 DEF Prints, Flags
  <2>2. Numbers'
    BY <1>10 DEF Prints, Numbers, PhaseInv
  <2>3. Enums'
    BY <1>10 DEF Prints, Enums
  <2>4. Repainted'
    BY <1>10, Unpainted DEF Prints
  <2>5. StageInv' /\ stage # "unbuilt" /\ stage' # "unbuilt" /\ (stage' = "child" => stage = "child")
    BY <1>10 DEF Prints, StageInv, SecretsOnDisk, Working, Enums, Flags
  <2> QED BY <2>1, <2>2, <2>3, <2>4, <2>5
<1>11. CASE BaseBegins
  <2>1. Flags'
    BY <1>11 DEF BaseBegins, Flags
  <2>2. Numbers'
    BY <1>11 DEF BaseBegins, Numbers, PhaseInv
  <2>3. Enums'
    BY <1>11 DEF BaseBegins, Enums
  <2>4. Repainted'
    BY <1>11, Unpainted DEF BaseBegins
  <2>5. StageInv' /\ stage # "unbuilt" /\ stage' # "unbuilt" /\ (stage' = "child" => stage = "child")
    BY <1>11 DEF BaseBegins, StageInv, SecretsOnDisk, Working, Enums, Flags
  <2> QED BY <2>1, <2>2, <2>3, <2>4, <2>5
<1> QED BY <1>1, <1>2, <1>3, <1>4, <1>5, <1>6, <1>7, <1>8, <1>9, <1>10, <1>11 DEF PageMoves

(* What the child does. *)
LEMMA ChildKeeps ==
  ASSUME RunInv, ChildMoves
  PROVE  RunInv' /\ stage = "child" /\ stage' = "child"
<1> USE DEF RunInv, MayStart, desktopVars, fileVars, stallVars, stopVars, pageVars, Phases
<1>1. CASE DesktopBegins
  <2>1. Flags'
    BY <1>1 DEF DesktopBegins, Flags
  <2>2. Numbers'
    BY <1>1 DEF DesktopBegins, Numbers, PhaseInv
  <2>3. Enums'
    BY <1>1 DEF DesktopBegins, Enums
  <2>4. Repainted'
    BY <1>1, Unpainted DEF DesktopBegins
  <2>5. StageInv' /\ stage = "child" /\ stage' = "child"
    BY <1>1 DEF DesktopBegins, StageInv, SecretsOnDisk, Working, Enums, Flags
  <2> QED BY <2>1, <2>2, <2>3, <2>4, <2>5
<1>2. CASE ChildEnds
  <2>1. Flags'
    BY <1>2 DEF ChildEnds, Flags
  <2>2. Numbers'
    BY <1>2 DEF ChildEnds, Numbers, PhaseInv
  <2>3. Enums'
    BY <1>2 DEF ChildEnds, Enums
  <2>4. Repainted'
    BY <1>2, Unpainted DEF ChildEnds
  <2>5. StageInv' /\ stage = "child" /\ stage' = "child"
    BY <1>2 DEF ChildEnds, StageInv, SecretsOnDisk, Working, Enums, Flags
  <2> QED BY <2>1, <2>2, <2>3, <2>4, <2>5
<1>3. CASE SaysBase
  <2>1. Flags'
    BY <1>3 DEF SaysBase, Flags
  <2>2. Numbers'
    <3>1. stage = "child"
      BY <1>3 DEF SaysBase, StageInv
    <3> QED BY <1>3, <3>1 DEF SaysBase, Numbers, PhaseInv
  <2>3. Enums'
    BY <1>3 DEF SaysBase, Enums
  <2>4. Repainted'
    BY <1>3, Unpainted DEF SaysBase
  <2>5. StageInv' /\ stage = "child" /\ stage' = "child"
    BY <1>3 DEF SaysBase, StageInv, SecretsOnDisk, Working, Enums, Flags
  <2> QED BY <2>1, <2>2, <2>3, <2>4, <2>5
<1> QED BY <1>1, <1>2, <1>3 DEF ChildMoves

LEMMA RunStays == ASSUME RunInv, UNCHANGED runVars PROVE RunInv'
<1> USE DEF RunInv, runVars, desktopVars, fileVars, stallVars, stopVars, pageVars
<1>1. Flags'
  BY DEF Flags
<1>2. Numbers'
  BY DEF Numbers, PhaseInv
<1>3. Enums'
  BY DEF Enums
<1>4. Repainted'
  BY Unpainted
<1>5. StageInv'
  BY DEF StageInv, SecretsOnDisk, Working
<1> QED BY <1>1, <1>2, <1>3, <1>4, <1>5

-----------------------------------------------------------------------------
(***************************************************************************)
(* The window.                                                             *)
(***************************************************************************)
LEMMA InitInv == InstallerInit => IInv
<1> SUFFICES ASSUME InstallerInit PROVE IInv
  OBVIOUS
<1> USE DEF InstallerInit
<1>1. RunInv
  BY RunInitInv
<1>2. stage = "unbuilt"
  BY DEF RunInit
<1>3. Pages
  BY DEF Pages, Run
<1>4. WindowFlags
  BY DEF WindowFlags
<1>5. FrameInv /\ Watched
  BY <1>2 DEF FrameInv, Watched, Working, Run
<1>6. AnswerTypes
  BY DEF AnswerTypes, WholeAnswers
<1>7. ConfirmInv
  BY <1>2 DEF ConfirmInv, Run
<1> QED BY <1>1, <1>3, <1>4, <1>5, <1>6, <1>7 DEF IInv

(* Showing a page: the run is built by its own page and touched by no other. *)
LEMMA ShowKeeps ==
  ASSUME IInv, NEW page \in 1 .. Run, Show(page)
  PROVE  /\ RunInv' /\ Pages' /\ index' = page /\ index # Run /\ stage = "unbuilt"
         /\ stage' = IF page = Run THEN "queued" ELSE "unbuilt"
         /\ disk' \in WholeAnswers \cup ManualAnswers
         /\ account' \in {"blank", "unconfirmed", "good"}
         /\ detecting' \in BOOLEAN
         /\ page = Run => disk' = disk
<1> USE DEF IInv, Show, MayLeave
<1>1. index # Run /\ stage = "unbuilt"
  BY DEF FrameInv
<1>2. Realise(page, built) /\ index' = page
  OBVIOUS
<1>3. RunInv' /\ stage' = IF page = Run THEN "queued" ELSE "unbuilt"
  <2>1. CASE page = Run
    BY <1>1, <1>2, <2>1, BuildKeeps DEF Realise
  <2>2. CASE page # Run
    BY <1>1, <1>2, <2>2, RunStays DEF Realise, runVars
  <2> QED BY <2>1, <2>2
<1>4. built' \subseteq {3, 4}
  BY <1>2 DEF Realise, Pages
<1>5. Pages'
  BY <1>2, <1>4 DEF Pages, Run
<1>6. disk' \in WholeAnswers \cup ManualAnswers
  BY <1>2 DEF Realise, BuiltDisk, AnswerTypes, WholeAnswers, ManualAnswers
<1>7. account' \in {"blank", "unconfirmed", "good"}
  BY <1>2 DEF Realise, AnswerTypes
<1>8. detecting' \in BOOLEAN
  BY <1>2 DEF Realise
<1>9. page = Run => disk' = disk
  <2>1. SUFFICES ASSUME page = Run PROVE disk' = disk
    OBVIOUS
  <2>2. page # 3
    BY <2>1 DEF Run
  <2>3. disk' \in {disk}
    BY <1>2, <2>2 DEF Realise
  <2> QED BY <2>3
<1> QED BY <1>1, <1>2, <1>3, <1>5, <1>6, <1>7, <1>8, <1>9

(* The footer and the sidebar show every page but the run. *)
LEMMA MovesKeep ==
  ASSUME IInv, BackClicked \/ NextClicked \/ SidebarClicked
  PROVE  IInv'
<1> USE DEF frameVars, gpartedVars, Touchable
<1>1. PICK page \in 1 .. Summary : Show(page)
  <2>1. CASE BackClicked
    BY <2>1 DEF BackClicked, Summary
  <2>2. CASE NextClicked
    BY <2>2 DEF NextClicked, Summary, IInv, Pages, Run
  <2>3. CASE SidebarClicked
    BY <2>3 DEF SidebarClicked
  <2> QED BY <2>1, <2>2, <2>3
<1>2. page \in 1 .. Run /\ page # Run
  BY DEF Run, Summary
<1>3. /\ RunInv' /\ Pages' /\ index' = page /\ stage = "unbuilt" /\ stage' = "unbuilt"
      /\ disk' \in WholeAnswers \cup ManualAnswers
      /\ account' \in {"blank", "unconfirmed", "good"} /\ detecting' \in BOOLEAN
  BY <1>1, <1>2, ShowKeeps
<1>4. /\ alert = "none" /\ alert' = "none" /\ UNCHANGED <<open, rebuild, confirmed, system>>
      /\ UNCHANGED <<gparted, installed>>
  BY DEF BackClicked, NextClicked, SidebarClicked
<1>5. WindowFlags'
  BY <1>3, <1>4 DEF IInv, WindowFlags
<1>6. FrameInv'
  BY <1>2, <1>3, <1>4 DEF FrameInv
<1>7. Watched'
  BY <1>3 DEF Watched, Working
<1>8. AnswerTypes'
  BY <1>3, <1>4 DEF IInv, AnswerTypes
<1>9. ConfirmInv'
  BY <1>2, <1>3, <1>4 DEF ConfirmInv
<1> QED BY <1>3, <1>5, <1>6, <1>7, <1>8, <1>9 DEF IInv

(* The dialogs, and what leaves. *)
LEMMA DialogsKeep ==
  ASSUME IInv, InstallClicked \/ InstallAnswered
  PROVE  IInv'
<1> USE DEF flowVars, answerVars, gpartedVars, Touchable
<1>1. CASE InstallClicked
  <2> USE <1>1 DEF InstallClicked
  <2>1. RunInv' /\ stage' = stage
    BY RunStays DEF IInv, runVars
  <2>2. stage = "unbuilt"
    BY DEF IInv, FrameInv, Run, Summary
  <2>3. Pages'
    BY DEF IInv, Pages
  <2>4. WindowFlags'
    BY DEF IInv, WindowFlags
  <2>5. FrameInv'
    BY <2>1 DEF IInv, FrameInv
  <2>6. Watched'
    BY <2>1, <2>2 DEF Watched, Working
  <2>7. AnswerTypes'
    BY DEF IInv, AnswerTypes
  <2>8. ConfirmInv'
    BY <2>1, <2>2 DEF ConfirmInv
  <2> QED BY <2>1, <2>3, <2>4, <2>5, <2>6, <2>7, <2>8 DEF IInv
<1>2. CASE InstallAnswered
  <2>1. alert = "next" /\ alert' = "none" /\ index = Summary /\ stage = "unbuilt" /\ open
    BY <1>2 DEF InstallAnswered, IInv, FrameInv, Run, Summary
  <2>2. UNCHANGED <<open, rebuild, confirmed, system, gparted, installed>>
    BY <1>2 DEF InstallAnswered
  <2>3. CASE Show(Run)
    <3>1. Run \in 1 .. Run
      BY DEF Run
    <3>2. /\ RunInv' /\ Pages' /\ index' = Run /\ stage' = "queued" /\ disk' = disk
          /\ disk' \in WholeAnswers \cup ManualAnswers
          /\ account' \in {"blank", "unconfirmed", "good"} /\ detecting' \in BOOLEAN
      BY <2>3, <3>1, ShowKeeps
    <3>3. WindowFlags'
      BY <2>2, <3>2 DEF IInv, WindowFlags
    <3>4. FrameInv'
      BY <2>1, <3>2 DEF FrameInv
    <3>5. Watched'
      BY <3>2 DEF Watched, Working
    <3>6. AnswerTypes'
      BY <2>2, <3>2 DEF IInv, AnswerTypes
    <3>7. ConfirmInv'
      BY <2>1, <2>2, <3>2 DEF IInv, ConfirmInv
    <3> QED BY <3>2, <3>3, <3>4, <3>5, <3>6, <3>7 DEF IInv
  <2>4. CASE UNCHANGED <<runVars, flowVars, disk, account, detecting>>
    <3>1. RunInv' /\ stage' = stage
      BY <2>4, RunStays DEF IInv, runVars
    <3>2. Pages'
      BY <2>4 DEF IInv, Pages
    <3>3. WindowFlags'
      BY <2>2, <2>4 DEF IInv, WindowFlags
    <3>4. FrameInv'
      BY <2>1, <2>4, <3>1 DEF IInv, FrameInv
    <3>5. Watched'
      BY <2>1, <3>1 DEF Watched, Working
    <3>6. AnswerTypes'
      BY <2>2, <2>4 DEF IInv, AnswerTypes
    <3>7. ConfirmInv'
      BY <2>1, <2>2, <2>4, <3>1 DEF IInv, ConfirmInv
    <3> QED BY <3>1, <3>2, <3>3, <3>4, <3>5, <3>6, <3>7 DEF IInv
  <2> QED BY <1>2, <2>3, <2>4 DEF InstallAnswered
<1> QED BY <1>1, <1>2

LEMMA LeavingKeeps ==
  ASSUME IInv, CloseAsked \/ QuitAnswered \/ Restart
  PROVE  IInv'
<1> USE DEF flowVars, answerVars, gpartedVars
<1>1. RunInv' /\ stage' = stage
  BY RunStays DEF IInv, runVars, CloseAsked, QuitAnswered, Restart
<1>2. UNCHANGED <<flowVars, rebuild, confirmed, answerVars, gpartedVars>>
  BY DEF CloseAsked, QuitAnswered, Restart
<1>3. Pages'
  BY <1>2 DEF IInv, Pages
<1>4. open' \in BOOLEAN
  BY DEF IInv, WindowFlags, CloseAsked, QuitAnswered, Restart
<1>5. WindowFlags'
  BY <1>2, <1>4 DEF IInv, WindowFlags
<1>6. alert' \in {alert, "none", "quit"} /\ (alert' = "quit" => index # Run)
  BY DEF IInv, FrameInv, CloseAsked, QuitAnswered, Restart, Run, Summary
<1>7. FrameInv'
  BY <1>1, <1>2, <1>6 DEF IInv, FrameInv
<1>8. stage \notin Working \/ open' = open
  <2>1. CASE CloseAsked
    BY <2>1 DEF CloseAsked, CanExit, IInv, RunInv, StageInv
  <2>2. CASE QuitAnswered
    BY <2>2 DEF QuitAnswered, IInv, FrameInv, Working
  <2>3. CASE Restart
    <3>1. ~busy
      BY <2>3 DEF Restart, IInv, RunInv, Repainted, Painted
    <3> QED BY <3>1 DEF IInv, RunInv, StageInv
  <2> QED BY <2>1, <2>2, <2>3
<1>9. Watched'
  BY <1>1, <1>8 DEF IInv, Watched
<1>10. AnswerTypes'
  BY <1>2 DEF IInv, AnswerTypes
<1>11. ConfirmInv'
  BY <1>1, <1>2, <1>6 DEF IInv, ConfirmInv
<1> QED BY <1>1, <1>3, <1>5, <1>7, <1>9, <1>10, <1>11 DEF IInv

(* What the pages write, off the run page and under no dialog. *)
LEMMA EditsKeep ==
  ASSUME IInv, DiskEdited \/ AccountEdited \/ SystemEdited \/ LanguageChosen \/ GPartedStarted
  PROVE  IInv'
<1> USE DEF flowVars, frameVars, answerVars, gpartedVars, Touchable, Answered
<1>1. RunInv' /\ stage' = stage /\ UNCHANGED <<flowVars, open, alert, confirmed, detecting, installed>>
  BY RunStays DEF IInv, runVars, DiskEdited, AccountEdited, SystemEdited, LanguageChosen,
                  GPartedStarted
<1>2. open /\ alert = "none" /\ index # Run
  BY DEF DiskEdited, AccountEdited, SystemEdited, LanguageChosen, GPartedStarted, Run
<1>3. stage = "unbuilt"
  BY <1>2 DEF IInv, FrameInv
<1>4. Pages'
  BY <1>1 DEF IInv, Pages
<1>5. WindowFlags'
  BY <1>1 DEF IInv, WindowFlags, DiskEdited, AccountEdited, SystemEdited, LanguageChosen,
              GPartedStarted
<1>6. FrameInv'
  BY <1>1 DEF IInv, FrameInv
<1>7. Watched'
  BY <1>1 DEF IInv, Watched
<1>8. AnswerTypes'
  BY <1>1 DEF IInv, AnswerTypes, WholeAnswers, ManualAnswers, DiskEdited, AccountEdited,
              SystemEdited, LanguageChosen, GPartedStarted
<1>9. ConfirmInv'
  BY <1>1, <1>2, <1>3 DEF ConfirmInv
<1> QED BY <1>1, <1>4, <1>5, <1>6, <1>7, <1>8, <1>9 DEF IInv

(* The language's idle rebuilds the page that is there, never the run. *)
LEMMA RebuildKeeps ==
  ASSUME IInv, Invalidate
  PROVE  IInv'
<1> USE DEF Invalidate
<1>1. UNCHANGED <<index, maxReached, open, alert, confirmed, system, installed>> /\ rebuild' = FALSE
  OBVIOUS
<1>2. CASE MayLeave
  <2>1. index # Run /\ stage = "unbuilt"
    BY <1>2 DEF MayLeave, IInv, FrameInv
  <2>2. Realise(index, {})
    BY <1>2
  <2>3. RunInv' /\ stage' = stage
    BY <2>1, <2>2, RunStays DEF Realise, IInv, runVars
  <2>4. alert # "next" \/ (disk' = disk /\ (gparted = "closed" => gparted' = "closed"))
    <3>1. SUFFICES ASSUME alert = "next"
                   PROVE  disk' = disk /\ (gparted = "closed" => gparted' = "closed")
      OBVIOUS
    <3>2. index # 3
      BY <3>1 DEF IInv, FrameInv, Summary
    <3> QED BY <1>2, <2>2, <3>2 DEF Realise
  <2>5. Pages'
    BY <1>1, <2>2 DEF Realise, IInv, Pages
  <2>6. WindowFlags'
    <3>1. detecting' \in BOOLEAN
      BY <2>2 DEF Realise
    <3> QED BY <1>1, <3>1 DEF IInv, WindowFlags
  <2>7. FrameInv'
    BY <1>1, <2>3 DEF IInv, FrameInv
  <2>8. Watched'
    BY <1>1, <2>3 DEF IInv, Watched
  <2>9. AnswerTypes'
    BY <1>1, <1>2, <2>2 DEF Realise, BuiltDisk, IInv, AnswerTypes, WholeAnswers, ManualAnswers
  <2>10. ConfirmInv'
    BY <1>1, <2>1, <2>3, <2>4 DEF IInv, ConfirmInv
  <2> QED BY <2>3, <2>5, <2>6, <2>7, <2>8, <2>9, <2>10 DEF IInv
<1>3. CASE ~MayLeave
  <2>1. UNCHANGED <<runVars, built, disk, account, detecting, gparted>>
    BY <1>3
  <2>2. RunInv' /\ stage' = stage
    BY <2>1, RunStays DEF IInv, runVars
  <2>3. Pages'
    BY <1>1, <2>1 DEF IInv, Pages
  <2>4. WindowFlags'
    BY <1>1, <2>1 DEF IInv, WindowFlags
  <2>5. FrameInv' /\ Watched'
    BY <1>1, <2>2 DEF IInv, FrameInv, Watched
  <2>6. AnswerTypes'
    BY <1>1, <2>1 DEF IInv, AnswerTypes
  <2>7. ConfirmInv'
    BY <1>1, <2>1, <2>2 DEF IInv, ConfirmInv
  <2> QED BY <2>2, <2>3, <2>4, <2>5, <2>6, <2>7 DEF IInv
<1> QED BY <1>2, <1>3

(* The answers that come late: the graphics card's, and GParted's end. *)
LEMMA LateKeeps ==
  ASSUME IInv, GpusDetected \/ GPartedEnds
  PROVE  IInv'
<1> USE DEF flowVars, frameVars
<1>1. RunInv' /\ stage' = stage /\ UNCHANGED <<flowVars, frameVars, account, installed>>
  BY RunStays DEF IInv, runVars, GpusDetected, GPartedEnds, gpartedVars
<1>2. Pages'
  BY <1>1 DEF IInv, Pages
<1>3. WindowFlags'
  BY <1>1 DEF IInv, WindowFlags, GpusDetected, GPartedEnds
<1>4. FrameInv' /\ Watched'
  BY <1>1 DEF IInv, FrameInv, Watched
<1>5. AnswerTypes'
  BY <1>1 DEF IInv, AnswerTypes, WholeAnswers, ManualAnswers, GpusDetected, GPartedEnds, gpartedVars
<1>6. ConfirmInv'
  <2>1. CASE GpusDetected
    BY <1>1, <2>1 DEF GpusDetected, IInv, ConfirmInv, gpartedVars
  <2>2. CASE GPartedEnds
    BY <1>1, <2>2 DEF GPartedEnds, IInv, ConfirmInv
  <2> QED BY <2>1, <2>2
<1> QED BY <1>1, <1>2, <1>3, <1>4, <1>5, <1>6 DEF IInv

(* The run in its window. *)
LEMMA RunKeeps ==
  ASSUME IInv, RunStep
  PROVE  IInv'
<1> USE DEF flowVars, frameVars, answerVars
<1>1. open /\ UNCHANGED <<flowVars, frameVars, answerVars, gparted>>
  BY DEF RunStep
<1>2. /\ RunInv' /\ stage # "unbuilt" /\ stage' # "unbuilt"
      /\ installed' \in {installed, disk}
      /\ stage' = "child" => installed' = disk \/ (stage = "child" /\ installed' = installed)
  <2>1. CASE StartInstall
    <3>1. PlanRefused \/ PreviewEnds \/ Installs
      BY <2>1 DEF StartInstall
    <3> QED BY <2>1, <3>1, InstallKeeps DEF StartInstall, IInv
  <2>2. CASE PageMoves /\ UNCHANGED installed
    BY <2>2, PageKeeps DEF IInv
  <2>3. CASE ChildMoves /\ UNCHANGED installed
    BY <2>3, ChildKeeps DEF IInv
  <2> QED BY <2>1, <2>2, <2>3 DEF RunStep
<1>3. index = Run
  BY <1>2 DEF IInv, FrameInv
<1>4. Pages'
  BY <1>1 DEF IInv, Pages
<1>5. WindowFlags'
  BY <1>1 DEF IInv, WindowFlags
<1>6. FrameInv'
  BY <1>1, <1>2 DEF IInv, FrameInv
<1>7. Watched'
  BY <1>1 DEF Watched
<1>8. AnswerTypes'
  BY <1>1, <1>2 DEF IInv, AnswerTypes
<1>9. ConfirmInv'
  BY <1>1, <1>2, <1>3 DEF IInv, ConfirmInv
<1> QED BY <1>2, <1>4, <1>5, <1>6, <1>7, <1>8, <1>9 DEF IInv

(* The invariant is inductive. *)
LEMMA StepKeeps == IInv /\ [InstallerNext]_installerVars => IInv'
<1> SUFFICES ASSUME IInv, [InstallerNext]_installerVars PROVE IInv'
  OBVIOUS
<1>1. CASE UserMoves
  BY <1>1, MovesKeep, DialogsKeep, LeavingKeeps, EditsKeep DEF UserMoves
<1>2. CASE GpusDetected \/ GPartedEnds
  BY <1>2, LateKeeps
<1>3. CASE Invalidate
  BY <1>3, RebuildKeeps
<1>4. CASE RunStep
  BY <1>4, RunKeeps
<1>5. CASE UNCHANGED installerVars
  <2> USE <1>5 DEF installerVars, flowVars, frameVars, answerVars, gpartedVars
  <2>1. RunInv' /\ stage' = stage
    BY RunStays DEF IInv, runVars
  <2>2. Pages'
    BY DEF IInv, Pages
  <2>3. WindowFlags'
    BY DEF IInv, WindowFlags
  <2>4. FrameInv' /\ Watched'
    BY <2>1 DEF IInv, FrameInv, Watched
  <2>5. AnswerTypes'
    BY DEF IInv, AnswerTypes
  <2>6. ConfirmInv'
    BY <2>1 DEF IInv, ConfirmInv
  <2> QED BY <2>1, <2>2, <2>3, <2>4, <2>5, <2>6 DEF IInv
<1> QED BY <1>1, <1>2, <1>3, <1>4, <1>5 DEF InstallerNext

LEMMA AlwaysIInv == InstallerSpec => []IInv
<1> QED BY InitInv, StepKeeps, PTL DEF InstallerSpec

-----------------------------------------------------------------------------
(***************************************************************************)
(* The theorems.                                                           *)
(***************************************************************************)
(* Every variable keeps its type. *)
THEOREM InstallerIsTyped == InstallerSpec => []InstallerTypeOK
<1>1. IInv => InstallerTypeOK
  <2> SUFFICES ASSUME IInv PROVE InstallerTypeOK
    OBVIOUS
  <2>1. RunTypeOK
    BY RunInvTypes DEF IInv
  <2>2. index \in 1 .. Run /\ maxReached \in index .. Run /\ built \subseteq {3, 4}
    BY DEF IInv, Pages
  <2>3. open \in BOOLEAN /\ rebuild \in BOOLEAN /\ system \in BOOLEAN /\ detecting \in BOOLEAN
    BY DEF IInv, WindowFlags
  <2>4. alert \in {"none", "next", "quit"}
    BY DEF IInv, FrameInv
  <2> QED BY <2>1, <2>2, <2>3, <2>4 DEF InstallerTypeOK, IInv, AnswerTypes
<1> QED BY <1>1, AlwaysIInv, PTL

(* The footer offers nothing over a run under way, and no Restart after a *)
(* failure (InstallerWindow.ts, sync; run.ts, setBusy). *)
THEOREM FooterIsTrue == InstallerSpec => []FooterTells
<1>1. IInv => FooterTells
  <2> SUFFICES ASSUME IInv PROVE FooterTells
    OBVIOUS
  <2>1. ASSUME stage \in Working PROVE footer = {}
    BY <2>1 DEF IInv, RunInv, StageInv, Repainted, Painted
  <2>2. ASSUME outcome = "failure" PROVE footer = {"close"}
    <3>1. ~busy
      BY <2>2 DEF IInv, RunInv, StageInv, SecretsOnDisk, Working
    <3> QED BY <2>2, <3>1 DEF IInv, RunInv, Repainted, Painted
  <2> QED BY <2>1, <2>2 DEF FooterTells, Working
<1> QED BY <1>1, AlwaysIInv, PTL

(* The password hash, whole or in part, is in /tmp only while archinstall's run *)
(* lasts, or after a write of the files that failed (run.ts, startInstall). *)
THEOREM CredentialsAreDeleted == InstallerSpec => []CredentialsGo
<1>1. IInv => CredentialsGo
  BY DEF IInv, RunInv, StageInv, CredentialsGo
<1> QED BY <1>1, AlwaysIInv, PTL

(* The window does not go, nor the machine restart, over a run under way, or over *)
(* credentials that it would have deleted. *)
THEOREM RunIsWatched == InstallerSpec => []NobodyLeftAlone
<1>1. IInv => NobodyLeftAlone
  BY DEF IInv, RunInv, StageInv, Watched, Working, NobodyLeftAlone
<1> QED BY <1>1, AlwaysIInv, PTL

(* What archinstall is given is what the dialog named, or GParted was at work. *)
THEOREM ConfirmedIsInstalled == InstallerSpec => []InstalledAsConfirmed
<1>1. IInv => InstalledAsConfirmed
  BY DEF IInv, ConfirmInv, InstalledAsConfirmed
<1> QED BY <1>1, AlwaysIInv, PTL

-----------------------------------------------------------------------------
(***************************************************************************)
(* The phases.  What a step asks is that the part of the run which moves   *)
(* the phase lives in its own stages; the rest is arithmetic.              *)
(***************************************************************************)
Forward ==
  /\ phase' >= phase
  /\ stage = "over" =>
       /\ UNCHANGED <<stage, outcome, busy>>
       /\ phase' # phase => baseLine = "unread" /\ outcome = "failure"

LEMMA StillForward ==
  ASSUME RunInv, UNCHANGED <<stage, outcome, phase, busy>>
  PROVE  Forward
BY DEF RunInv, Numbers, Forward, Phases

(* Building the page, and the end of a run that had not ended, at a phase it had *)
(* reached. *)
LEMMA BuildForward == ASSUME RunInv, Build, stage = "unbuilt" PROVE Forward
BY DEF RunInv, Numbers, Build, Forward, Phases

LEMMA EndForward ==
  ASSUME RunInv, stage # "over", NEW success \in BOOLEAN,
         NEW reached \in phase .. Phases, FinishRun(success, reached)
  PROVE  Forward
BY DEF RunInv, Numbers, FinishRun, Forward, Phases

LEMMA StartForward ==
  ASSUME RunInv, PlanRefused \/ PreviewEnds \/ Installs
  PROVE  Forward
<1>1. MayStart /\ stage \in {"network", "mirrors"}
  BY DEF PlanRefused, PreviewEnds, Installs, FilesRefused, DiskRefused, SpawnRefused, Spawn, MayStart
<1>2. phase = 0 /\ stage # "over"
  BY <1>1 DEF RunInv, Numbers, PhaseInv
<1>3. phase \in phase .. Phases /\ 1 \in phase .. Phases /\ 4 \in phase .. Phases
  BY <1>2 DEF Phases
<1>4. CASE PlanRefused \/ FilesRefused \/ DiskRefused
  <2>1. FinishRun(FALSE, phase)
    BY <1>4 DEF PlanRefused, FilesRefused, DiskRefused
  <2> QED BY <1>2, <1>3, <2>1, EndForward
<1>5. CASE PreviewEnds
  <2>1. FinishRun(TRUE, 4)
    BY <1>5 DEF PreviewEnds
  <2> QED BY <1>2, <1>3, <2>1, EndForward
<1>6. CASE SpawnRefused
  <2>1. FinishRun(FALSE, 1)
    BY <1>6 DEF SpawnRefused
  <2> QED BY <1>2, <1>3, <2>1, EndForward
<1>7. CASE Spawn
  BY <1>2, <1>7 DEF Spawn, Forward
<1> QED BY <1>4, <1>5, <1>6, <1>7 DEF Installs

LEMMA PageForward == ASSUME RunInv, PageMoves PROVE Forward
<1>1. CASE Begin
  BY <1>1 DEF RunInv, Numbers, PhaseInv, Begin, Forward
<1>2. CASE NoNetwork
  <2>1. FinishRun(FALSE, phase) /\ stage # "over"
    BY <1>2 DEF NoNetwork
  <2>2. phase \in phase .. Phases
    BY DEF RunInv, Numbers, Phases
  <2> QED BY <2>1, <2>2, EndForward
<1>3. CASE MeasureMirrors
  BY <1>3 DEF RunInv, Numbers, MeasureMirrors, pageVars, Forward, Phases
<1>4. CASE PollDesktop
  <2>1. stage # "over"
    BY <1>4 DEF RunInv, StageInv, PollDesktop
  <2>2. phase' >= phase
    BY <1>4 DEF PollDesktop
  <2> QED BY <2>1, <2>2 DEF Forward
<1>5. CASE WaitReturns
  <2>1. /\ FinishRun(child = "ok", phase) /\ stage # "over" /\ phase \in phase .. Phases
        /\ (child = "ok") \in BOOLEAN
    BY <1>5 DEF WaitReturns, RunInv, Numbers, Phases
  <2> QED BY <2>1, EndForward
<1>6. CASE StallTick \/ NetworkAnswers \/ StopClicked \/ StopAnswered \/ Prints
  <2>1. UNCHANGED <<stage, outcome, phase, busy>>
    BY <1>6 DEF StallTick, NetworkAnswers, StopClicked, StopAnswered, Prints, pageVars
  <2> QED BY <2>1, StillForward
<1>7. CASE BaseBegins
  <2>1. phase = 1 /\ phase' = 2
    BY <1>7 DEF BaseBegins, RunInv, Numbers, PhaseInv
  <2>2. UNCHANGED <<stage, outcome, busy>>
    BY <1>7 DEF BaseBegins
  <2>3. baseLine = "unread" /\ (stage = "over" => outcome = "failure")
    BY <1>7 DEF BaseBegins, RunInv, StageInv, Enums
  <2> QED BY <2>1, <2>2, <2>3 DEF Forward
<1> QED BY <1>1, <1>2, <1>3, <1>4, <1>5, <1>6, <1>7 DEF PageMoves

LEMMA ChildForward == ASSUME RunInv, ChildMoves PROVE Forward
<1>1. UNCHANGED <<stage, outcome, phase, busy>>
  BY DEF ChildMoves, SaysBase, DesktopBegins, ChildEnds, pageVars
<1> QED BY <1>1, StillForward

(* The window builds the run page once, and leaves a run that is there alone. *)
LEMMA ShowForward ==
  ASSUME IInv, NEW page, NEW pages, MayLeave, Realise(page, pages)
  PROVE  Forward
<1>1. stage = "unbuilt" /\ RunInv
  BY DEF IInv, FrameInv, MayLeave
<1>2. CASE page = Run
  BY <1>1, <1>2, BuildForward DEF Realise
<1>3. CASE page # Run
  BY <1>1, <1>3, StillForward DEF Realise, runVars, pageVars
<1> QED BY <1>2, <1>3

LEMMA StepForward == ASSUME IInv, [InstallerNext]_installerVars PROVE Forward
<1> USE DEF runVars, pageVars
<1>1. RunInv
  BY DEF IInv
<1>2. CASE UNCHANGED runVars
  BY <1>1, <1>2, StillForward
<1>3. CASE BackClicked \/ NextClicked \/ SidebarClicked \/ InstallAnswered
  <2>1. UNCHANGED runVars \/ \E page : Show(page)
    BY <1>3 DEF BackClicked, NextClicked, SidebarClicked, InstallAnswered
  <2> QED BY <1>2, <2>1, ShowForward DEF Show
<1>4. CASE InstallClicked \/ CloseAsked \/ QuitAnswered \/ Restart \/ DiskEdited \/ AccountEdited
           \/ SystemEdited \/ LanguageChosen \/ GPartedStarted \/ GpusDetected \/ GPartedEnds
  BY <1>2, <1>4 DEF InstallClicked, CloseAsked, QuitAnswered, Restart, Answered, DiskEdited,
     AccountEdited, SystemEdited, LanguageChosen, GPartedStarted, GpusDetected, GPartedEnds
<1>5. CASE Invalidate
  BY <1>2, <1>5, ShowForward DEF Invalidate
<1>6. CASE RunStep
  BY <1>1, <1>6, StartForward, PageForward, ChildForward DEF RunStep, StartInstall
<1>7. CASE UNCHANGED installerVars
  BY <1>2, <1>7 DEF installerVars
<1> QED BY <1>3, <1>4, <1>5, <1>6, <1>7 DEF InstallerNext, UserMoves

(* The phases only go forward, and a run that has ended stays as it ended: neither *)
(* the desktop's poll, nor the stall check's late answer, nor a Stop confirmed after *)
(* the child's end moves it (run.ts, finishRun and its callers).  Only the base *)
(* phase's line, read after a failure, moves the phase of a finished page. *)
THEOREM PhasesGoForward == InstallerSpec => PhasesForward
<1>1. IInv /\ [InstallerNext]_installerVars =>
        [/\ phase' >= phase
         /\ stage = "over" =>
              /\ UNCHANGED <<stage, outcome, busy>>
              /\ phase' # phase => baseLine = "unread" /\ outcome = "failure"]_runVars
  BY StepForward DEF Forward
<1> QED BY <1>1, AlwaysIInv, PTL DEF InstallerSpec, PhasesForward

-----------------------------------------------------------------------------
(***************************************************************************)
(* What RunEnds rests on: whoever waits for the child has one, and has the *)
(* stall check to offer Stop; a run that is over left neither behind, and  *)
(* polls only after a failure whose line came late, for a log that is not  *)
(* there.                                                                  *)
(***************************************************************************)
ChildWatched == stage = "child" => child # "none" /\ stallTimer

OverSettled ==
  stage = "over" => /\ ~busy /\ outcome # "none" /\ child # "running"
                    /\ ~stallTimer /\ (SecretsOnDisk => unwritten)
                    /\ polling => outcome = "failure" /\ baseLine = "read" /\ ~desktopLog

RunHasAnEnd == ChildWatched /\ OverSettled

LEMMA StillWatched ==
  ASSUME ChildWatched, stage' = "child" => stage = "child", UNCHANGED <<child, stallTimer>>
  PROVE  ChildWatched'
BY DEF ChildWatched

LEMMA RunWatches ==
  ASSUME RunInv, ChildWatched, StartInstall \/ PageMoves \/ ChildMoves
  PROVE  ChildWatched'
<1> USE DEF stallVars, ChildWatched
<1>1. CASE PlanRefused \/ PreviewEnds \/ FilesRefused \/ DiskRefused \/ SpawnRefused \/ NoNetwork
  BY <1>1 DEF PlanRefused, PreviewEnds, FilesRefused, DiskRefused, SpawnRefused, NoNetwork, FinishRun
<1>2. CASE WaitReturns
  BY <1>2 DEF WaitReturns, FinishRun
<1>3. CASE Spawn
  BY <1>3 DEF Spawn
<1>4. CASE Begin \/ MeasureMirrors
  BY <1>4 DEF Begin, MeasureMirrors
<1>5. CASE PollDesktop \/ StallTick \/ NetworkAnswers \/ StopClicked
  BY <1>5, StillWatched DEF PollDesktop, StallTick, NetworkAnswers, StopClicked
<1>6. CASE StopAnswered
  BY <1>6 DEF StopAnswered
<1>7. CASE Prints \/ BaseBegins \/ DesktopBegins \/ SaysBase
  BY <1>7, StillWatched DEF Prints, BaseBegins, DesktopBegins, SaysBase
<1>8. CASE ChildEnds
  BY <1>8 DEF ChildEnds
<1> QED BY <1>1, <1>2, <1>3, <1>4, <1>5, <1>6, <1>7, <1>8
    DEF StartInstall, Installs, PageMoves, ChildMoves

LEMMA StepWatches ==
  ASSUME IInv, ChildWatched, [InstallerNext]_installerVars
  PROVE  ChildWatched'
<1> USE DEF runVars, stallVars
<1>1. CASE UNCHANGED runVars
  BY <1>1, StillWatched
<1>2. ASSUME NEW page, NEW pages, Realise(page, pages) PROVE ChildWatched'
  BY <1>1, <1>2 DEF Realise, Build, ChildWatched
<1>3. CASE BackClicked \/ NextClicked \/ SidebarClicked \/ InstallAnswered
  <2>1. UNCHANGED runVars \/ \E page : Show(page)
    BY <1>3 DEF BackClicked, NextClicked, SidebarClicked, InstallAnswered
  <2> QED BY <1>1, <1>2, <2>1 DEF Show
<1>4. CASE InstallClicked \/ CloseAsked \/ QuitAnswered \/ Restart \/ DiskEdited \/ AccountEdited
           \/ SystemEdited \/ LanguageChosen \/ GPartedStarted \/ GpusDetected \/ GPartedEnds
  BY <1>1, <1>4 DEF InstallClicked, CloseAsked, QuitAnswered, Restart, Answered, DiskEdited,
     AccountEdited, SystemEdited, LanguageChosen, GPartedStarted, GpusDetected, GPartedEnds
<1>5. CASE Invalidate
  BY <1>1, <1>2, <1>5 DEF Invalidate
<1>6. CASE RunStep
  BY <1>6, RunWatches DEF RunStep, IInv
<1>7. CASE UNCHANGED installerVars
  BY <1>1, <1>7 DEF installerVars
<1> QED BY <1>3, <1>4, <1>5, <1>6, <1>7 DEF InstallerNext, UserMoves

(* Whoever waits for archinstall has a child to hear the end of and the stall check *)
(* that offers to stop it; a run that ended has an outcome, and neither its child *)
(* nor the stall timer goes on, nor its credentials, unless their write failed, nor *)
(* the desktop's poll, unless the base phase's line came after a failure (run.ts, *)
(* startInstall, finishRun). *)
THEOREM RunIsSettled == InstallerSpec => []RunHasAnEnd
<1>1. InstallerInit => ChildWatched
  BY DEF InstallerInit, RunInit, ChildWatched
<1>2. IInv => OverSettled
  BY DEF IInv, RunInv, StageInv, SecretsOnDisk, Working, OverSettled
<1> QED BY <1>1, <1>2, StepWatches, AlwaysIInv, PTL DEF InstallerSpec, RunHasAnEnd
=============================================================================
