----------------------------- MODULE SessionLock -----------------------------
(***************************************************************************)
(* ext-session-lock-v1 in the compositor (hyalo/compositor/src/lock.rs),   *)
(* over the outputs of Screens, the lock clients that ask for the lock,    *)
(* draw, die and unlock, and the timers that fire while they do not.       *)
(*                                                                         *)
(* Time is what may happen next: a timer fires at any moment after it is   *)
(* set.  HOLD_SESSION is a state of its own, because draws_locked compares *)
(* the clock with it: `hold` is "open" until the hold's end, then "over".  *)
(***************************************************************************)
EXTENDS Screens

CONSTANTS
  Clients,          \* lock client processes that may be running at once
  NoClient,         \* no client holds the lock
  Dead,             \* the client that held the lock is gone
  Unplugged,        \* an Output object whose connector is gone
  RELAUNCH_LIMIT,   \* automatic relaunches per RELAUNCH_WINDOW
  MaxLocks,         \* bound: lock requests taken and guards raised
  MaxAsks           \* bound: locks Hyalo itself wants (lock_session)

ASSUME ClientsAssumption == NoClient \notin Clients /\ Dead \notin Clients /\ NoClient # Dead
ASSUME OutputsAssumption == Unplugged \notin Outputs
ASSUME BoundsAssumption ==
  /\ MaxLocks \in Nat \ {0}
  /\ MaxAsks \in Nat
  /\ RELAUNCH_LIMIT \in Nat \ {0}

VARIABLES
  mode,         \* Mode: "Unlocked", "Pending", "Locked" or "Guard"
  holder,       \* whose lock object the mode holds
  waiting,      \* the outputs a Pending or Guard mode still waits for
  hold,         \* hold_until: "none", "open" (the session may show), "over"
  generation,   \* LockState.generation
  surfaces,     \* the holder's lock surface per output: "none", "bare", "drawn"
  rendered,     \* RenderedGeneration of each output
  asked,        \* LockState.asked
  awaiting,     \* LockState.awaiting; 0 is None
  guardTimers,  \* the asks whose GUARD_AFTER timer has not fired
  holdTimer,    \* the HOLD_SESSION timer of the latest new lock is set
  watch,        \* the WATCH_EVERY timer is set
  relaunches,   \* relaunches inside RELAUNCH_WINDOW, up to RELAUNCH_LIMIT
  recent,       \* the last of them is less than 2 s old
  client,       \* what each lock client has been through
  keyboard,     \* who has the keyboard: "session", "lock", "nobody"
  grab,         \* a drag, a menu or a panel of the session holds the input
  unseen,       \* history: outputs asked to show this lock that have not yet
  answered      \* history: the newest ask a lock request has come after

lockVars == <<mode, holder, waiting, hold, generation, surfaces, rendered>>
askVars == <<asked, awaiting, guardTimers, answered>>
launchVars == <<watch, relaunches, recent>>
inputVars == <<keyboard, grab>>
vars == <<screenVars, lockVars, askVars, launchVars, inputVars, holdTimer, client, unseen>>

ClientStates == {"absent", "running", "asked", "told", "refused"}

TypeOK ==
  /\ ScreensTypeOK(MaxLocks)
  /\ mode \in {"Unlocked", "Pending", "Locked", "Guard"}
  /\ holder \in Clients \cup {NoClient, Dead}
  /\ waiting \in SUBSET (Outputs \cup {Unplugged})
  /\ hold \in {"none", "open", "over"}
  /\ generation \in 0 .. MaxLocks
  /\ surfaces \in [Outputs -> {"none", "bare", "drawn"}]
  /\ rendered \in [Outputs -> 0 .. MaxLocks]
  /\ asked \in 0 .. MaxAsks
  /\ awaiting \in 0 .. MaxAsks
  /\ guardTimers \in SUBSET (1 .. MaxAsks)
  /\ holdTimer \in BOOLEAN
  /\ watch \in BOOLEAN
  /\ relaunches \in 0 .. RELAUNCH_LIMIT
  /\ recent \in BOOLEAN
  /\ client \in [Clients -> ClientStates]
  /\ keyboard \in {"session", "lock", "nobody"}
  /\ grab \in BOOLEAN
  /\ unseen \in SUBSET Outputs
  /\ answered \in 0 .. MaxAsks

IsLocked == mode # "Unlocked"
HolderAlive == holder \in Clients
\* Mutant: the watch sees dead clients only, not a guard nobody has taken over.
ClientGoneDeadOnly == holder = Dead
ClientGone == holder = Dead \/ mode = "Guard"    \* what watch_lock calls dead
NoSurfaces == [o \in Outputs |-> "none"]

(***************************************************************************)
(* draws_locked: does a frame drawn now on `o` hide the session?           *)
(***************************************************************************)
HoldOpen == mode = "Pending" /\ hold = "open"
DrawsLocked(o) == IsLocked /\ (HoldOpen => surfaces[o] = "drawn")

Init ==
  /\ ScreensInit
  /\ mode = "Unlocked" /\ holder = NoClient /\ waiting = {} /\ hold = "none"
  /\ generation = 0 /\ surfaces = NoSurfaces /\ rendered = [o \in Outputs |-> 0]
  /\ asked = 0 /\ awaiting = 0 /\ guardTimers = {} /\ answered = 0
  /\ holdTimer = FALSE /\ watch = FALSE /\ relaunches = 0 /\ recent = FALSE
  /\ client = [c \in Clients |-> "absent"]
  /\ keyboard = "session" /\ grab = FALSE
  /\ unseen = {}

-----------------------------------------------------------------------------
(***************************************************************************)
(* Starting lock clients.  A spawned process is one more client that may   *)
(* ask, unless as many as the model has are there already.                 *)
(***************************************************************************)
Spawn ==
  LET absent == {c \in Clients : client[c] = "absent"}
  IN  IF absent = {} THEN UNCHANGED client
      ELSE \E c \in absent : client' = [client EXCEPT ![c] = "running"]

\* Mutant: no limit on the relaunches in the window.
RelaunchLockUnlimited(byKey) ==
  IF ~recent
  THEN relaunches' = relaunches + 1 /\ recent' = TRUE /\ Spawn
  ELSE UNCHANGED <<relaunches, recent, client>>

RelaunchLock(byKey) ==
  IF ~recent /\ (byKey \/ relaunches < RELAUNCH_LIMIT)
  THEN /\ relaunches' = IF relaunches < RELAUNCH_LIMIT THEN relaunches + 1 ELSE relaunches
       /\ recent' = TRUE
       /\ Spawn
  ELSE UNCHANGED <<relaunches, recent, client>>

\* Mutant: the grabs of the session survive the lock.
LetGoOfInputKeepsGrab == keyboard' = "nobody" /\ watch' = TRUE /\ UNCHANGED grab

LetGoOfInput ==
  /\ keyboard' = "nobody"
  /\ grab' = FALSE
  /\ watch' = TRUE

(***************************************************************************)
(* guard_session: Hyalo locks the session itself.                          *)
(***************************************************************************)
LockWithoutClient ==
  /\ mode' = "Guard"
  /\ holder' = NoClient
  /\ surfaces' = NoSurfaces
  /\ generation' = generation + 1
  /\ waiting' = ShowsFrames
  /\ unseen' = ShowsFrames
  /\ LetGoOfInput
  /\ RelaunchLock(FALSE)
  /\ UNCHANGED <<hold, rendered>>

RaiseGuard ==
  /\ LockWithoutClient
  /\ redraw' = Queue(redraw, plugged)
  /\ UNCHANGED <<vtActive, plugged, powered, flip, screen>>

GuardSession ==
  /\ awaiting' = 0
  /\ IF IsLocked
     THEN UNCHANGED <<screenVars, lockVars, launchVars, inputVars, client, unseen>>
     ELSE RaiseGuard

\* Mutant: the guard timer of the ask is not set.
SetNoGuardTimer(ask) == UNCHANGED guardTimers
SetGuardTimer(ask) == guardTimers' = guardTimers \cup {ask}

(***************************************************************************)
(* lock_session: what `loginctl lock-session`, idle and the IPC call.      *)
(***************************************************************************)
LockSession ==
  /\ ~IsLocked
  /\ asked < MaxAsks /\ generation < MaxLocks   \* bounds
  /\ asked' = asked + 1
  /\ awaiting' = asked + 1
  /\ SetGuardTimer(asked + 1)
  /\ Spawn
  /\ UNCHANGED <<screenVars, lockVars, launchVars, inputVars, holdTimer, unseen, answered>>

GuardTimer(ask) ==
  /\ ask \in guardTimers
  /\ guardTimers' = guardTimers \ {ask}
  /\ IF awaiting = ask
     THEN GuardSession
     ELSE UNCHANGED <<screenVars, lockVars, launchVars, inputVars, client, unseen, awaiting>>
  /\ UNCHANGED <<asked, answered, holdTimer>>

-----------------------------------------------------------------------------
(***************************************************************************)
(* The protocol: lock(), new_surface(), a commit on a lock surface and     *)
(* unlock().  A request while a live client holds the lock is refused.     *)
(***************************************************************************)
\* Mutant: a relock holds the session too.
HoldAnyLock == "open"
HoldUntil == IF IsLocked THEN "none" ELSE "open"

\* Mutant: the request does not answer the ask.
AnswerUnheard == answered' = asked /\ UNCHANGED awaiting
Answer == answered' = asked /\ awaiting' = 0

\* Mutant: a client may unlock before it was told.
MayUnlockUntold(c) == holder = c
MayUnlock(c) == holder = c /\ client[c] = "told"

Refuse(c) ==
  /\ client' = [client EXCEPT ![c] = "refused"]
  /\ UNCHANGED <<screenVars, lockVars, launchVars, inputVars, holdTimer, unseen>>

TakeLock(c) ==
  /\ generation < MaxLocks                       \* bound
  /\ holder' = c
  /\ surfaces' = NoSurfaces
  /\ generation' = generation + 1
  /\ waiting' = ShowsFrames
  /\ unseen' = ShowsFrames
  /\ IF ShowsFrames = {}
     THEN /\ mode' = "Locked" /\ hold' = "none"
          /\ client' = [client EXCEPT ![c] = "told"]
     ELSE /\ mode' = "Pending" /\ hold' = HoldUntil
          /\ client' = [client EXCEPT ![c] = "asked"]
  /\ IF IsLocked
     THEN UNCHANGED <<keyboard, grab, watch, holdTimer>>
     ELSE LetGoOfInput /\ holdTimer' = TRUE
  /\ redraw' = Queue(redraw, plugged)
  /\ UNCHANGED <<vtActive, plugged, powered, flip, screen, rendered, relaunches, recent>>

LockRequest(c) ==
  /\ client[c] = "running"
  /\ Answer
  /\ IF HolderAlive THEN Refuse(c) ELSE TakeLock(c)
  /\ UNCHANGED <<asked, guardTimers>>

NewSurface(c, o) ==
  /\ holder = c /\ o \in plugged /\ surfaces[o] = "none"
  /\ surfaces' = [surfaces EXCEPT ![o] = "bare"]
  /\ keyboard' = "lock"
  /\ redraw' = Queue(redraw, {o})
  /\ UNCHANGED <<vtActive, plugged, powered, flip, screen, mode, holder, waiting, hold,
                 generation, rendered, askVars, launchVars, grab, holdTimer, client, unseen>>

CommitBuffer(c, o) ==
  /\ holder = c /\ surfaces[o] = "bare"
  /\ surfaces' = [surfaces EXCEPT ![o] = "drawn"]
  /\ redraw' = Queue(redraw, plugged)
  /\ UNCHANGED <<vtActive, plugged, powered, flip, screen, mode, holder, waiting, hold,
                 generation, rendered, askVars, launchVars, inputVars, holdTimer, client, unseen>>

Unlock(c) ==
  /\ MayUnlock(c)
  /\ mode' = "Unlocked" /\ holder' = NoClient
  /\ surfaces' = NoSurfaces
  /\ relaunches' = 0 /\ recent' = FALSE /\ watch' = FALSE
  /\ keyboard' \in {"session", "nobody"}
  /\ redraw' = Queue(redraw, plugged)
  /\ client' = [client EXCEPT ![c] = "absent"]
  /\ UNCHANGED <<vtActive, plugged, powered, flip, screen, waiting, hold, generation,
                 rendered, askVars, grab, holdTimer, unseen>>

-----------------------------------------------------------------------------
(***************************************************************************)
(* What lock clients do outside the protocol: the user starts one, any of  *)
(* them dies (its surfaces with it), one drops a surface it had.           *)
(***************************************************************************)
StartClient(c) ==
  /\ client[c] = "absent"
  /\ client' = [client EXCEPT ![c] = "running"]
  /\ UNCHANGED <<screenVars, lockVars, askVars, launchVars, inputVars, holdTimer, unseen>>

ClientDies(c) ==
  /\ client[c] # "absent"
  /\ client' = [client EXCEPT ![c] = "absent"]
  /\ IF holder = c
     THEN /\ holder' = Dead
          /\ surfaces' = NoSurfaces
          /\ keyboard' = IF keyboard = "lock" THEN "nobody" ELSE keyboard
     ELSE UNCHANGED <<holder, surfaces, keyboard>>
  /\ UNCHANGED <<screenVars, mode, waiting, hold, generation, rendered, askVars, launchVars,
                 grab, holdTimer, unseen>>

DropSurface(o) ==
  /\ "surface" \in Disturbances
  /\ surfaces[o] # "none"
  /\ surfaces' = [surfaces EXCEPT ![o] = "none"]
  /\ keyboard' \in IF keyboard = "lock" THEN {"lock", "nobody"} ELSE {keyboard}
  /\ UNCHANGED <<screenVars, mode, holder, waiting, hold, generation, rendered, askVars,
                 launchVars, grab, holdTimer, client, unseen>>

-----------------------------------------------------------------------------
\* Mutant: any vblank counts, whatever frame it showed.
StillWaitingAny(o, counts) == waiting \ {o}
StillWaiting(o, counts) == IF counts THEN waiting \ {o} ELSE waiting

(***************************************************************************)
(* Frames.  lock_frame_shown, with what it counts decided by its callers:  *)
(* confirm_lock as soon as a Pending lock waits for nothing.               *)
(***************************************************************************)
LockFrameShown(o, counts) ==
  LET left == StillWaiting(o, counts)
  IN  /\ waiting' = left
      /\ IF mode = "Pending" /\ left = {}
         THEN /\ mode' = "Locked" /\ hold' = "none"
              /\ client' = IF HolderAlive THEN [client EXCEPT ![holder] = "told"] ELSE client
         ELSE UNCHANGED <<mode, hold, client>>

NoteRendered(o, frame) ==
  rendered' = IF frame = SessionFrame THEN rendered ELSE [rendered EXCEPT ![o] = frame]

(***************************************************************************)
(* render_surface on `o`, the panel showing `shown`.  `vblank`: on_vblank  *)
(* called lock_frame_shown just before, and what that confirmed decides    *)
(* which frame is drawn.  note_rendered marks the output before the frame  *)
(* is drawn, so a frame that fails is marked too.                          *)
(***************************************************************************)
Draw(o, shown, vblank) ==
  LET first == vblank /\ rendered[o] = generation
      confirmed == vblank /\ mode = "Pending" /\ (first /\ waiting \subseteq {o})
      frame == IF confirmed \/ DrawsLocked(o) THEN generation ELSE SessionFrame
  IN  \E how \in Endings :
        /\ RenderSurface(o, frame, how, shown)
        /\ NoteRendered(o, frame)
        /\ IF vblank \/ how = "quiet"
           THEN LockFrameShown(o, first \/ (how = "quiet" /\ rendered'[o] = generation))
           ELSE UNCHANGED <<waiting, mode, hold, client>>
        /\ unseen' = IF \/ vblank /\ flip[o] = generation
                        \/ how = "quiet" /\ frame = generation
                     THEN unseen \ {o} ELSE unseen

frameFrame == <<holder, generation, surfaces, askVars, launchVars, inputVars, holdTimer>>

Render(o) ==
  /\ redraw[o] = "Queued" /\ vtActive
  /\ IF o \in powered
     THEN Draw(o, screen[o], FALSE)
     ELSE /\ redraw' = [redraw EXCEPT ![o] = "Idle"]
          /\ UNCHANGED <<vtActive, plugged, powered, flip, screen, rendered, waiting, mode,
                         hold, client, unseen>>
  /\ UNCHANGED frameFrame

VBlank(o) ==
  /\ flip[o] # Nothing
  /\ LET shown == IF vtActive THEN flip[o] ELSE Nothing
     IN  IF redraw[o] = "VBlankRedraw" /\ vtActive
         THEN Draw(o, shown, TRUE)
         ELSE /\ Settle(o, shown)
              /\ LockFrameShown(o, rendered[o] = generation)
              /\ unseen' = IF flip[o] = generation THEN unseen \ {o} ELSE unseen
              /\ UNCHANGED rendered
  /\ UNCHANGED frameFrame

EstimatedVBlank(o) ==
  /\ Estimating(redraw[o])
  /\ IF redraw[o] = "EstimatedRedraw" /\ vtActive
     THEN Draw(o, screen[o], FALSE)
     ELSE /\ Settle(o, screen[o])
          /\ UNCHANGED <<rendered, waiting, mode, hold, client, unseen>>
  /\ UNCHANGED frameFrame

(***************************************************************************)
(* Something on `o` changes: a client commits, a layer moves, the pointer. *)
(***************************************************************************)
SceneChanges(o) ==
  /\ o \in plugged
  /\ redraw' = Queue(redraw, {o})
  /\ UNCHANGED <<vtActive, plugged, powered, flip, screen, lockVars, askVars, launchVars,
                 inputVars, holdTimer, client, unseen>>

-----------------------------------------------------------------------------
(***************************************************************************)
(* Timers: the hold's end and its redraw, the watch, and the passing of    *)
(* the relaunch window.                                                    *)
(***************************************************************************)
HoldPasses ==
  /\ HoldOpen
  /\ hold' = "over"
  /\ UNCHANGED <<screenVars, mode, holder, waiting, generation, surfaces, rendered, askVars,
                 launchVars, inputVars, holdTimer, client, unseen>>

\* Mutant: the hold ends without a redraw.
HoldTimerSilent ==
  /\ holdTimer /\ ~HoldOpen
  /\ holdTimer' = FALSE
  /\ UNCHANGED redraw
  /\ UNCHANGED <<vtActive, plugged, powered, flip, screen, lockVars, askVars, launchVars,
                 inputVars, client, unseen>>

HoldTimer ==
  /\ holdTimer /\ ~HoldOpen
  /\ holdTimer' = FALSE
  /\ redraw' = Queue(redraw, plugged)
  /\ UNCHANGED <<vtActive, plugged, powered, flip, screen, lockVars, askVars, launchVars,
                 inputVars, client, unseen>>

WatchLock ==
  /\ watch
  /\ IF ~IsLocked
     THEN watch' = FALSE /\ UNCHANGED <<relaunches, recent, client>>
     ELSE /\ IF ClientGone THEN RelaunchLock(FALSE) ELSE UNCHANGED <<relaunches, recent, client>>
          /\ UNCHANGED watch
  /\ UNCHANGED <<screenVars, lockVars, askVars, inputVars, holdTimer, unseen>>

KeyPress ==
  /\ IsLocked /\ ClientGone /\ mode # "Pending"   \* lock_client_gone
  /\ RelaunchLock(TRUE)
  /\ UNCHANGED <<screenVars, lockVars, askVars, watch, inputVars, holdTimer, unseen>>

WindowSlides ==
  /\ \/ recent /\ recent' = FALSE /\ UNCHANGED relaunches
     \/ ~recent /\ relaunches > 0 /\ relaunches' = relaunches - 1 /\ UNCHANGED recent
  /\ UNCHANGED <<screenVars, lockVars, askVars, watch, inputVars, holdTimer, client, unseen>>

-----------------------------------------------------------------------------
(***************************************************************************)
(* The session asks for input: set_keyboard_focus and popup grabs refuse   *)
(* it while locked; restore_keyboard_focus gives it to a lock surface.     *)
(***************************************************************************)
onlyInput == <<screenVars, lockVars, askVars, launchVars, holdTimer, client, unseen>>

SessionTakesInput ==
  /\ ~IsLocked
  /\ \/ keyboard' = "session" /\ UNCHANGED grab
     \/ grab' = TRUE /\ UNCHANGED keyboard
  /\ UNCHANGED onlyInput

SessionDropsInput ==
  /\ \/ grab' = FALSE /\ UNCHANGED keyboard
     \/ keyboard = "session" /\ keyboard' = "nobody" /\ UNCHANGED grab
  /\ UNCHANGED onlyInput

RestoreKeyboardFocus ==
  /\ IsLocked /\ \E o \in Outputs : surfaces[o] # "none"
  /\ keyboard' = "lock"
  /\ UNCHANGED <<onlyInput, grab>>

-----------------------------------------------------------------------------
(***************************************************************************)
(* The outputs change under the lock; nothing in the code tells it.  A     *)
(* connector plugged in again is a new Output object: what the old one     *)
(* carried (its mark, its lock surface, its place in `waiting`) stays with *)
(* the old one.                                                            *)
(***************************************************************************)
lockOnly == <<mode, holder, hold, generation, askVars, launchVars, inputVars, holdTimer, client>>

Power ==
  /\ "power" \in Disturbances
  /\ \E os \in PowerTargets, on \in BOOLEAN : SetPower(os, on)
  /\ UNCHANGED <<lockOnly, waiting, surfaces, rendered, unseen>>

Plug(o) ==
  /\ "hotplug" \in Disturbances
  /\ Connect(o)
  /\ UNCHANGED <<lockOnly, waiting, surfaces, rendered, unseen>>

Unplug(o) ==
  /\ "hotplug" \in Disturbances
  /\ Disconnect(o)
  /\ waiting' = IF o \in waiting THEN (waiting \ {o}) \cup {Unplugged} ELSE waiting
  /\ surfaces' = [surfaces EXCEPT ![o] = "none"]
  /\ rendered' = [rendered EXCEPT ![o] = 0]
  /\ unseen' = unseen \ {o}
  /\ UNCHANGED lockOnly

SwitchVT ==
  /\ "vt" \in Disturbances
  /\ PauseSession \/ ActivateSession
  /\ UNCHANGED <<lockOnly, waiting, surfaces, rendered, unseen>>

-----------------------------------------------------------------------------
ClientStep(c) ==
  \/ StartClient(c) \/ LockRequest(c) \/ Unlock(c) \/ ClientDies(c)
  \/ \E o \in Outputs : NewSurface(c, o) \/ CommitBuffer(c, o)

OutputStep(o) ==
  \/ Render(o) \/ VBlank(o) \/ EstimatedVBlank(o) \/ SceneChanges(o)
  \/ Plug(o) \/ Unplug(o) \/ DropSurface(o)

InputStep == SessionTakesInput \/ SessionDropsInput \/ RestoreKeyboardFocus \/ KeyPress

TimerStep ==
  \/ HoldPasses \/ HoldTimer \/ WatchLock \/ WindowSlides
  \/ \E ask \in 1 .. MaxAsks : GuardTimer(ask)

Next ==
  \/ LockSession \/ InputStep \/ TimerStep \/ Power \/ SwitchVT
  \/ \E c \in Clients : ClientStep(c)
  \/ \E o \in Outputs : OutputStep(o)

Spec == Init /\ [][Next]_vars
-----------------------------------------------------------------------------
(***************************************************************************)
(* Safety.                                                                 *)
(***************************************************************************)
(* While the session is locked its windows, drags, menus and panels have neither
   the keyboard nor a grab, whichever way it came to be locked (a client, a
   relock, the guard) and whatever asked for the input before. *)
LockedIsUnreachable == IsLocked => keyboard # "session" /\ ~grab

(* Once a lock must hide the session (confirmed, guarded, a relock, or past its
   hold), an output that shows or is about to show a session frame always has a
   draw coming that will cover it: queued, due after the pending vblank, or at the
   hold timer.  Nothing leaves a stale session frame on a panel for good. *)
MustHide == IsLocked /\ ~HoldOpen
CoverIsDue(o) == holdTimer \/ redraw[o] \in {"Queued", "VBlankRedraw", "EstimatedRedraw"}
SessionIsCovered ==
  MustHide => \A o \in plugged :
    /\ flip[o] = SessionFrame => CoverIsDue(o)
    /\ screen[o] = SessionFrame => CoverIsDue(o) \/ flip[o] > SessionFrame

(* The client is told `locked` (and the guard lets sleep go) only after every
   output it had to wait for has shown a frame of this very lock: frames drawn
   for an earlier lock, frames drawn but never flipped, and flips that were
   pending when the lock came do not count. *)
ToldMeansShown ==
  (mode = "Locked" /\ HolderAlive) \/ (mode = "Guard" /\ waiting = {}) => unseen = {}

(***************************************************************************)
(* What a step may never do.                                               *)
(***************************************************************************)
(* The session opens only when the client that holds the confirmed lock, alive
   and told, unlocks it: not a death, a guard, a timer or another client. *)
OnlyItsClientUnlocks ==
  [][IsLocked /\ mode' = "Unlocked" =>
       \E c \in Clients : holder = c /\ client[c] = "told" /\ mode = "Locked"]_vars

(* A guard timer locks only for an ask nobody answered: once a lock request has
   come after the ask (its session perhaps unlocked again since), the timer of
   that ask is spent. *)
GuardOnlyUnanswered ==
  [][\A ask \in guardTimers \ guardTimers' :
       mode = "Unlocked" /\ mode' = "Guard" => ask > answered]_vars

(***************************************************************************)
(* The contract lock.rs is held to, and where this module's state stands   *)
(* in it.                                                                  *)
(***************************************************************************)
Phase == IF ~IsLocked THEN "open" ELSE IF HoldOpen THEN "closing" ELSE "closed"
HolderTold == \E c \in Clients : holder = c /\ client[c] = "told"
InputHeldBy == IF grab THEN "session" ELSE keyboard
Exposed == {o \in Outputs : screen[o] = SessionFrame \/ flip[o] = SessionFrame}

Contract == INSTANCE LockContract
            WITH phase <- Phase, told <- HolderTold, input <- InputHeldBy, exposed <- Exposed

(* The lock as coded keeps the contract: input is cut with the request, the session
   is drawn again only during the hold of a new lock, a relock or a dead client
   never brings it back, and only a client that was told opens it. *)
KeepsContract == Contract!Spec

(***************************************************************************)
(* Fairness.  The kernel answers a flip, the event loop runs what it has   *)
(* queued and fires the timers it holds; nothing is assumed of the lock    *)
(* clients or of the user but that a refused client exits.                 *)
(***************************************************************************)
RefusedExits(c) == client[c] = "refused" /\ ClientDies(c)

Fairness ==
  /\ \A o \in Outputs : WF_vars(Render(o)) /\ WF_vars(VBlank(o)) /\ WF_vars(EstimatedVBlank(o))
  /\ \A ask \in 1 .. MaxAsks : WF_vars(GuardTimer(ask))
  /\ \A c \in Clients : WF_vars(RefusedExits(c))
  /\ WF_vars(HoldPasses) /\ WF_vars(HoldTimer) /\ WF_vars(WatchLock) /\ WF_vars(WindowSlides)

FairSpec == Spec /\ Fairness

(***************************************************************************)
(* Liveness.                                                               *)
(***************************************************************************)
(* A lock Hyalo wants is a lock the session gets, even when no client starts or
   none ever asks. *)
AskedIsLocked == awaiting # 0 ~> IsLocked

(* A locked session is off every panel in the end, even if its client never
   draws, dies, or is replaced, unless it is unlocked first. *)
LockedIsHidden ==
  IsLocked ~> ~IsLocked \/ \A o \in Outputs : screen[o] # SessionFrame

(* A lock without a client is not left alone: another client is started, however
   many relaunches have been used up. *)
DeadIsReplaced ==
  IsLocked /\ ~HolderAlive ~> ~IsLocked \/ HolderAlive \/ \E c \in Clients : client[c] = "running"

(***************************************************************************)
(* What lock.rs says and does not do: "The client is told the session is   *)
(* locked once every output that shows frames has shown one of the locked  *)
(* ones" (lock.rs:23).  A live client whose outputs have all shown the     *)
(* lock is told so.  An output unplugged while it was waited for never     *)
(* shows one, and the run of this property refutes it.                     *)
(***************************************************************************)
ShownIsTold ==
  mode = "Pending" /\ HolderAlive /\ unseen = {} ~> mode # "Pending" \/ ~HolderAlive

=============================================================================
