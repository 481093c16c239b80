------------------------------ MODULE Installer ------------------------------
(***************************************************************************)
(* The installer's window: the flow of steps (ui/installer/lib/flow.ts),   *)
(* the frame with its dialogs (widget/InstallerWindow.ts), what each page  *)
(* writes into the one set of answers, and the run (InstallRun).           *)
(*                                                                         *)
(* Pages are 1 welcome, 2 region, 3 disk, 4 account, 5 system, 6 summary,  *)
(* 7 run.  An answer is kept as far as readiness and the plan tell its     *)
(* values apart.                                                           *)
(***************************************************************************)
EXTENDS InstallRun

VARIABLES
  index,      \* flow.ts: the current page
  maxReached,
  built,      \* the disk and account pages, when they are built
  open,       \* the window is there
  alert,      \* isShowingAlert: "none", the "next" dialog, the "quit" dialog
  rebuild,    \* a language change whose idle has not run
  disk,       \* the disk answer
  account,    \* the account form: only "good" is an answer
  system,     \* the system answer is there
  detecting,  \* the GPU detection has not come back
  gparted,    \* "closed", "here" (started from the page that is built), or the
              \* mode of the thrown-away page that waits for it
  confirmed,  \* the disk answer the confirmation named; "moving" while GParted runs
  installed   \* the disk answer archinstall was given

flowVars == <<index, maxReached, built>>
frameVars == <<open, alert, rebuild, confirmed>>
answerVars == <<disk, account, system, detecting>>
gpartedVars == <<gparted, installed>>
installerVars == <<runVars, flowVars, frameVars, answerVars, gpartedVars>>

Run == 7
Summary == 6

(***************************************************************************)
(* The disk page's answers: in entire-disk mode none, a disk, or a disk    *)
(* with encryption on and no confirmed passphrase; in manual mode a layout *)
(* with problems (manualProblems) or without.                              *)
(***************************************************************************)
WholeAnswers == {"none", "whole", "locked"}
ManualAnswers == {"manual", "broken"}

InstallerInit ==
  /\ RunInit
  /\ index = 1 /\ maxReached = 1 /\ built = {}
  /\ open = TRUE /\ alert = "none" /\ rebuild = FALSE
  /\ disk = "none" /\ account = "blank" /\ system = FALSE /\ detecting = FALSE
  /\ gparted = "closed" /\ confirmed = "none" /\ installed = "none"

DiskReady == disk \in {"whole", "manual"}

\* The welcome page waits for answers that may come and change at any time (the
\* network's, archinstall's verdict), the region page for the user's own.
Ready(page) ==
  CASE page \in {1, 2} -> TRUE
    [] page = 3 -> DiskReady
    [] page = 4 -> account = "good"
    [] page = 5 -> system
    [] page = Summary -> disk # "none" /\ account = "good"
    [] page = Run -> FALSE

-----------------------------------------------------------------------------
(***************************************************************************)
(* realise: onEnter, then build for a page that is not built.  The disk    *)
(* page preselects a disk or prunes the mounts; the account page fills     *)
(* both password fields from its draft; the system page asks for the GPUs, *)
(* and has asked or been answered if it was built before.                  *)
(***************************************************************************)
BuiltDisk ==
  CASE disk = "none" -> {"none", "whole"}
    [] disk \in ManualAnswers -> ManualAnswers
    [] disk \in {"whole", "locked"} -> {disk}

Realise(page, pages) ==
  /\ built' = IF page \in {3, 4} THEN pages \cup {page} ELSE pages
  /\ disk' \in IF page = 3 /\ page \notin pages THEN BuiltDisk ELSE {disk}
  /\ account' = IF page = 4 /\ page \notin pages /\ account = "unconfirmed"
                THEN "good" ELSE account
  /\ detecting' = (detecting \/ (page = 5 /\ ~system))
  /\ IF page = Run THEN Build ELSE UNCHANGED runVars

\* Mutant: the run page is no longer held.
MayLeaveRun == ~busy
MayLeave == ~busy /\ index # Run

\* Mutant: the furthest page is not kept.
ShowForgetting(page) ==
  /\ MayLeave /\ Realise(page, built)
  /\ index' = page /\ UNCHANGED maxReached
Show(page) ==
  /\ MayLeave /\ Realise(page, built)
  /\ index' = page /\ maxReached' = IF page > maxReached THEN page ELSE maxReached

(***************************************************************************)
(* The footer and the sidebar.  The dialogs are modal; a sidebar row is    *)
(* sensitive up to the furthest page, so goTo shows it unasked.            *)
(***************************************************************************)
Touchable == open /\ alert = "none"

BackClicked ==
  /\ Touchable /\ index \in 2 .. Summary /\ Show(index - 1)
  /\ UNCHANGED <<frameVars, system, gpartedVars>>

NextClicked ==
  /\ Touchable /\ index < Summary /\ Ready(index) /\ Show(index + 1)
  /\ UNCHANGED <<frameVars, system, gpartedVars>>

InstallClicked ==
  /\ Touchable /\ index = Summary /\ Ready(Summary) /\ alert' = "next"
  /\ confirmed' = IF gparted = "closed" THEN disk ELSE "moving"
  /\ UNCHANGED <<runVars, flowVars, open, rebuild, answerVars, gpartedVars>>

InstallAnswered ==
  /\ open /\ alert = "next" /\ alert' = "none"
  /\ \/ Show(Run)
     \/ UNCHANGED <<runVars, flowVars, disk, account, detecting>>
  /\ UNCHANGED <<open, rebuild, confirmed, system, gpartedVars>>

SidebarClicked ==
  /\ Touchable
  /\ \E page \in 1 .. Summary : page <= maxReached /\ Show(page)
  /\ UNCHANGED <<frameVars, system, gpartedVars>>

(***************************************************************************)
(* Leaving: the close button, Escape and the compositor's request go       *)
(* through one hook; Close and Restart are the run page's.  A window that  *)
(* is gone ends the program, and nothing it had queued runs.               *)
(***************************************************************************)
\* Mutant: the hook no longer asks whether the page is busy.
CanExitAlways == TRUE
CanExit == ~busy

CloseAsked ==
  /\ open /\ CanExit
  /\ \/ index \in {1, Run} /\ open' = FALSE /\ UNCHANGED alert
     \/ index \in 2 .. Summary /\ alert = "none" /\ alert' = "quit" /\ UNCHANGED open
  /\ UNCHANGED <<runVars, flowVars, rebuild, confirmed, answerVars, gpartedVars>>

QuitAnswered ==
  /\ open /\ alert = "quit" /\ alert' = "none"
  /\ open' \in BOOLEAN
  /\ UNCHANGED <<runVars, flowVars, rebuild, confirmed, answerVars, gpartedVars>>

Restart ==
  /\ open /\ index = Run /\ "restart" \in footer /\ mode # "preview"
  /\ open' = FALSE
  /\ UNCHANGED <<runVars, flowVars, alert, rebuild, confirmed, answerVars, gpartedVars>>

-----------------------------------------------------------------------------
(***************************************************************************)
(* The pages.                                                              *)
(***************************************************************************)
Answered == Touchable /\ UNCHANGED <<runVars, flowVars, frameVars, gpartedVars>>

DiskEdited ==
  /\ index = 3 /\ Answered /\ disk' \in {"whole", "locked"} \cup ManualAnswers
  /\ UNCHANGED <<account, system, detecting>>

AccountEdited ==
  /\ index = 4 /\ Answered /\ account' \in {"blank", "unconfirmed", "good"}
  /\ UNCHANGED <<disk, system, detecting>>

SystemEdited ==
  /\ index = 5 /\ Answered /\ system' = TRUE
  /\ UNCHANGED <<disk, account, detecting>>

GpusDetected ==
  /\ open /\ detecting /\ detecting' = FALSE /\ system' = TRUE
  /\ UNCHANGED <<runVars, flowVars, frameVars, disk, account, gpartedVars>>

(***************************************************************************)
(* A language chosen on the welcome page rebuilds every page, from an      *)
(* idle.  A disk page that waits for GParted keeps the mode it had.        *)
(***************************************************************************)
LanguageChosen ==
  /\ Touchable /\ index = 1 /\ ~rebuild /\ rebuild' = TRUE
  /\ UNCHANGED <<runVars, flowVars, open, alert, confirmed, answerVars, gpartedVars>>

Invalidate ==
  /\ open /\ rebuild /\ rebuild' = FALSE
  /\ IF MayLeave
     THEN /\ Realise(index, {})
          /\ gparted' = IF gparted # "here" THEN gparted
                        ELSE IF disk \in ManualAnswers THEN "manual" ELSE "whole"
     ELSE UNCHANGED <<runVars, built, disk, account, detecting, gparted>>
  /\ UNCHANGED <<index, maxReached, open, alert, confirmed, system, installed>>

(***************************************************************************)
(* GParted, started from the manual page and ended by the user.  Its end   *)
(* prunes the mounts of the page that started it, and writes that page's   *)
(* answer: the page may be gone, and the install under way.                *)
(***************************************************************************)
GPartedStarted ==
  /\ index = 3 /\ Touchable /\ disk \in ManualAnswers /\ gparted = "closed"
  /\ gparted' = "here"
  /\ UNCHANGED <<runVars, flowVars, frameVars, answerVars, installed>>

GPartedEnds ==
  /\ open /\ gparted # "closed" /\ gparted' = "closed"
  /\ disk' \in CASE gparted = "manual" -> ManualAnswers
                 [] gparted = "whole" -> WholeAnswers
                 [] OTHER -> IF disk \in ManualAnswers THEN ManualAnswers ELSE {disk}
  /\ UNCHANGED <<runVars, flowVars, frameVars, account, system, detecting,
                 installed>>

-----------------------------------------------------------------------------
(***************************************************************************)
(* The run, in the window.  startInstall reads the answers as they are by  *)
(* then, and the plan cannot be assembled without an account, nor with     *)
(* encryption and no passphrase.                                           *)
(***************************************************************************)
Plannable == account = "good" /\ disk # "locked"

StartInstall ==
  /\ \/ PlanRefused
     \/ Plannable /\ (PreviewEnds \/ Installs)
  /\ installed' = IF child' = "running" THEN disk ELSE installed

RunStep ==
  /\ open
  /\ \/ StartInstall
     \/ (PageMoves \/ ChildMoves) /\ UNCHANGED installed
  /\ UNCHANGED <<flowVars, frameVars, answerVars, gparted>>

UserMoves ==
  \/ BackClicked \/ NextClicked \/ InstallClicked \/ InstallAnswered \/ SidebarClicked
  \/ CloseAsked \/ QuitAnswered \/ Restart
  \/ DiskEdited \/ AccountEdited \/ SystemEdited
  \/ LanguageChosen \/ GPartedStarted

InstallerNext ==
  \/ UserMoves \/ GpusDetected \/ Invalidate \/ GPartedEnds
  \/ RunStep

InstallerSpec == InstallerInit /\ [][InstallerNext]_installerVars

(***************************************************************************)
(* The idle runs; the connectivity answer comes, and reflector has a       *)
(* deadline; startInstall follows them, and wait_async the child's end.    *)
(* Nothing is assumed of archinstall, of the user or of NetworkManager's   *)
(* answers to the stall check.                                             *)
(***************************************************************************)
Proceeds == RunStep /\ stage' # stage

InstallerFair == InstallerSpec /\ WF_installerVars(Proceeds)
-----------------------------------------------------------------------------
(***************************************************************************)
(* The type of the variables.                                              *)
(***************************************************************************)
InstallerTypeOK ==
  /\ RunTypeOK
  /\ index \in 1 .. Run /\ maxReached \in index .. Run /\ built \subseteq {3, 4}
  /\ open \in BOOLEAN /\ alert \in {"none", "next", "quit"} /\ rebuild \in BOOLEAN
  /\ disk \in WholeAnswers \cup ManualAnswers
  /\ account \in {"blank", "unconfirmed", "good"}
  /\ system \in BOOLEAN /\ detecting \in BOOLEAN
  /\ gparted \in {"closed", "here", "whole", "manual"}
  /\ confirmed \in WholeAnswers \cup ManualAnswers \cup {"moving"}
  /\ installed \in WholeAnswers \cup ManualAnswers

(***************************************************************************)
(* The window is never gone, nor the machine restarted, while a run is     *)
(* under way: archinstall would be writing a disk with nobody to watch it, *)
(* and the credentials would stay in /tmp (flow.ts, Step.busy), where only *)
(* a failed write leaves them (CredentialsGo).  Close, Escape, the quit    *)
(* dialog and Restart all have to know.                                    *)
(***************************************************************************)
NobodyLeftAlone ==
  ~open => stage \notin {"network", "mirrors", "child"} /\ (SecretsOnDisk => unwritten)

(***************************************************************************)
(* archinstall is given the disk answer the confirmation named, unless     *)
(* GParted was running then: from the click to the spawn no page is left   *)
(* that could change it, whatever late answer or rebuild comes between.    *)
(***************************************************************************)
InstalledAsConfirmed ==
  stage = "child" => installed = confirmed \/ confirmed = "moving"

(***************************************************************************)
(* A run that was confirmed ends with an outcome, however its checks, its  *)
(* files and its child turn out, unless archinstall itself never ends or   *)
(* the window is closed before the run began.                              *)
(***************************************************************************)
RunEnds ==
  []<>(child # "running") => ((stage = "queued") ~> (outcome # "none" \/ ~open))

(***************************************************************************)
(* "Can the flow move on?": the disk page refuses a layout the machine     *)
(* would not boot from, so no install of one can be confirmed (flow.ts,    *)
(* Step.ready; disk.ts, ready).                                            *)
(***************************************************************************)
NeverConfirmsRefused == confirmed \in {"none", "whole", "manual", "moving"}
=============================================================================
