-------------------------- MODULE SessionLockProofs --------------------------
(***************************************************************************)
(* Proofs about SessionLock, for any outputs, lock clients and bounds.     *)
(***************************************************************************)
EXTENDS SessionLock, TLAPS

USE ClientsAssumption, OutputsAssumption, BoundsAssumption
    DEF ClientsAssumption, OutputsAssumption, BoundsAssumption

-----------------------------------------------------------------------------
(***************************************************************************)
(* What the operators on the outputs preserve.                             *)
(***************************************************************************)
(* queue_redraw moves every redraw state to a redraw state. *)
LEMMA QueueType ==
  ASSUME NEW rd \in [Outputs -> Redraws], NEW os
  PROVE  Queue(rd, os) \in [Outputs -> Redraws]
  BY DEF Queue, AfterQueue, Redraws

(* render_surface leaves the outputs well formed, whichever way it ends. *)
LEMMA RenderSurfaceType ==
  ASSUME NEW o \in Outputs, NEW frame \in SessionFrame .. MaxLocks, NEW how \in Endings,
         NEW shown \in Nothing .. MaxLocks,
         ScreensTypeOK(MaxLocks), RenderSurface(o, frame, how, shown)
  PROVE  ScreensTypeOK(MaxLocks)'
  BY DEF ScreensTypeOK, RenderSurface, Endings, RedrawAfter, Redraws, Nothing, SessionFrame

(* So does a vblank after which nothing is drawn. *)
LEMMA SettleType ==
  ASSUME NEW o \in Outputs, NEW shown \in Nothing .. MaxLocks,
         ScreensTypeOK(MaxLocks), Settle(o, shown)
  PROVE  ScreensTypeOK(MaxLocks)'
  BY DEF ScreensTypeOK, Settle, Redraws, Nothing

(* So do power, hot-plug and VT changes. *)
LEMMA EnvironmentType ==
  ASSUME ScreensTypeOK(MaxLocks)
  PROVE  /\ \A os \in PowerTargets, on \in BOOLEAN : SetPower(os, on) => ScreensTypeOK(MaxLocks)'
         /\ \A o \in Outputs : Connect(o) \/ Disconnect(o) => ScreensTypeOK(MaxLocks)'
         /\ PauseSession \/ ActivateSession => ScreensTypeOK(MaxLocks)'
<1>1. ASSUME NEW os \in PowerTargets, NEW on \in BOOLEAN, SetPower(os, on)
      PROVE  ScreensTypeOK(MaxLocks)'
  <2> DEFINE changed == {o \in os \cap plugged : (o \in powered) # on}
             rd == [o \in Outputs |-> IF o \in changed THEN (IF on THEN "Queued" ELSE "Idle") ELSE redraw[o]]
  <2>1. rd \in [Outputs -> Redraws]
    BY DEF ScreensTypeOK, Redraws
  <2>2. redraw' = Queue(rd, plugged)
    BY <1>1 DEF SetPower
  <2>3. redraw' \in [Outputs -> Redraws]
    BY <2>1, <2>2, QueueType
  <2>4. /\ flip' \in [Outputs -> Nothing .. MaxLocks]
        /\ screen' \in [Outputs -> Nothing .. MaxLocks]
    BY <1>1 DEF SetPower, ScreensTypeOK, Nothing
  <2>5. powered' \in SUBSET plugged' /\ plugged' \in SUBSET Outputs /\ vtActive' \in BOOLEAN
    BY <1>1 DEF SetPower, ScreensTypeOK
  <2> QED BY <2>3, <2>4, <2>5 DEF ScreensTypeOK
<1>2. ASSUME NEW o \in Outputs, Connect(o) \/ Disconnect(o)
      PROVE  ScreensTypeOK(MaxLocks)'
  BY <1>2 DEF Connect, Disconnect, ScreensTypeOK, Redraws, Nothing
<1>3. ASSUME PauseSession \/ ActivateSession
      PROVE  ScreensTypeOK(MaxLocks)'
  <2>1. CASE PauseSession
    <3>1. vtActive' \in BOOLEAN
      BY <2>1 DEF PauseSession
    <3>2. screen' = [o \in Outputs |-> Nothing] /\ UNCHANGED <<plugged, powered, redraw, flip>>
      BY <2>1 DEF PauseSession
    <3> QED BY <3>1, <3>2 DEF ScreensTypeOK, Nothing
  <2>2. CASE ActivateSession
    <3>1. [o \in Outputs |-> "Idle"] \in [Outputs -> Redraws]
      BY DEF Redraws
    <3>2. redraw' \in [Outputs -> Redraws]
      BY <2>2, <3>1, QueueType DEF ActivateSession
    <3> QED BY <2>2, <3>2 DEF ActivateSession, ScreensTypeOK, Nothing
  <2> QED BY <1>3, <2>1, <2>2
<1> QED BY <1>1, <1>2, <1>3
-----------------------------------------------------------------------------
(***************************************************************************)
(* The inductive invariant.  A lock's mode, holder and clients agree; an   *)
(* ask that is awaited is the newest, is unanswered, finds the session     *)
(* open and room for its guard; a lock that is held is watched.            *)
(***************************************************************************)
AskInv ==
  /\ answered <= asked
  /\ awaiting # 0 => /\ awaiting = asked /\ answered < asked
                     /\ mode = "Unlocked" /\ generation < MaxLocks

HolderInv ==
  /\ holder = NoClient <=> mode \in {"Unlocked", "Guard"}
  /\ \A c \in Clients : holder = c => client[c] = IF mode = "Locked" THEN "told" ELSE "asked"

ModeInv ==
  /\ hold # "none" => mode = "Pending"
  /\ mode \in {"Unlocked", "Locked"} => waiting = {}
  /\ mode = "Pending" => waiting # {}
  /\ IsLocked => generation # 0
  /\ watch <=> IsLocked

IInv == TypeOK /\ AskInv /\ HolderInv /\ ModeInv /\ LockedIsUnreachable

(* The initial states satisfy it. *)
LEMMA InitIInv == Init => IInv
<1> SUFFICES ASSUME Init PROVE IInv
  OBVIOUS
<1>1. ScreensTypeOK(MaxLocks)
  <2>1. vtActive \in BOOLEAN
    BY DEF Init, ScreensInit
  <2> QED BY <2>1 DEF Init, ScreensInit, ScreensTypeOK, Redraws, Nothing, SessionFrame
<1>2. /\ holdTimer \in BOOLEAN /\ watch \in BOOLEAN /\ recent \in BOOLEAN /\ grab \in BOOLEAN
      /\ watch <=> IsLocked
      /\ LockedIsUnreachable
  BY DEF Init, IsLocked, LockedIsUnreachable
<1>3. TypeOK
  BY <1>1, <1>2 DEF Init, TypeOK, NoSurfaces, ClientStates
<1>4. AskInv /\ HolderInv /\ ModeInv
  BY <1>2 DEF Init, AskInv, HolderInv, ModeInv, IsLocked
<1> QED BY <1>2, <1>3, <1>4 DEF IInv

(* Every step keeps the outputs well formed. *)
LEMMA ScreensStep ==
  ASSUME TypeOK, [Next]_vars
  PROVE  ScreensTypeOK(MaxLocks)'
<1> USE DEF TypeOK
<1>0. ScreensTypeOK(MaxLocks)
  OBVIOUS
<1>u. ASSUME UNCHANGED screenVars PROVE ScreensTypeOK(MaxLocks)'
  BY <1>0, <1>u DEF ScreensTypeOK, screenVars
<1>q. ASSUME NEW os, redraw' = Queue(redraw, os),
             UNCHANGED <<vtActive, plugged, powered, flip, screen>>
      PROVE  ScreensTypeOK(MaxLocks)'
  <2>1. redraw' \in [Outputs -> Redraws]
    BY <1>0, <1>q, QueueType DEF ScreensTypeOK
  <2> QED BY <1>0, <1>q, <2>1 DEF ScreensTypeOK
<1>d. ASSUME NEW o \in Outputs, NEW shown \in Nothing .. MaxLocks, NEW v, Draw(o, shown, v)
      PROVE  ScreensTypeOK(MaxLocks)'
  <2> DEFINE frame == IF (v /\ mode = "Pending" /\ ((v /\ rendered[o] = generation) /\ waiting \subseteq {o})) \/ DrawsLocked(o) THEN generation ELSE SessionFrame
  <2>1. PICK how \in Endings : RenderSurface(o, frame, how, shown)
    BY <1>d DEF Draw, NoteRendered
  <2>2. frame \in SessionFrame .. MaxLocks
    BY DEF SessionFrame
  <2> HIDE DEF frame
  <2> QED BY <1>0, <2>1, <2>2, RenderSurfaceType
<1>1. CASE LockSession
  BY <1>1, <1>u DEF LockSession
<1>2. CASE InputStep
  BY <1>2, <1>u DEF InputStep, SessionTakesInput, SessionDropsInput, RestoreKeyboardFocus, KeyPress, onlyInput
<1>3. CASE TimerStep
  <2>1. CASE HoldTimer
    BY <2>1, <1>q DEF HoldTimer
  <2>2. CASE HoldPasses \/ WatchLock \/ WindowSlides
    BY <2>2, <1>u DEF HoldPasses, WatchLock, WindowSlides
  <2>3. ASSUME NEW ask \in 1 .. MaxAsks, GuardTimer(ask)
        PROVE  ScreensTypeOK(MaxLocks)'
    BY <2>3, <1>u, <1>q DEF GuardTimer, GuardSession, RaiseGuard, LockWithoutClient
  <2> QED BY <1>3, <2>1, <2>2, <2>3 DEF TimerStep
<1>4. CASE Power \/ SwitchVT
  BY <1>4, <1>0, EnvironmentType DEF Power, SwitchVT
<1>5. ASSUME NEW c \in Clients, ClientStep(c)
      PROVE  ScreensTypeOK(MaxLocks)'
  <2>1. CASE StartClient(c) \/ ClientDies(c)
    BY <2>1, <1>u DEF StartClient, ClientDies
  <2>2. CASE LockRequest(c)
    BY <2>2, <1>u, <1>q DEF LockRequest, Refuse, TakeLock
  <2>3. CASE Unlock(c)
    BY <2>3, <1>q DEF Unlock
  <2>4. ASSUME NEW o \in Outputs, NewSurface(c, o) \/ CommitBuffer(c, o)
        PROVE  ScreensTypeOK(MaxLocks)'
    BY <2>4, <1>q DEF NewSurface, CommitBuffer
  <2> QED BY <1>5, <2>1, <2>2, <2>3, <2>4 DEF ClientStep
<1>6. ASSUME NEW o \in Outputs, OutputStep(o)
      PROVE  ScreensTypeOK(MaxLocks)'
  <2>0. screen[o] \in Nothing .. MaxLocks /\ flip[o] \in Nothing .. MaxLocks
    BY <1>0 DEF ScreensTypeOK
  <2>1. CASE Render(o)
    <3>1. CASE o \in powered
      BY <2>0, <2>1, <3>1, <1>d DEF Render
    <3>2. CASE o \notin powered
      BY <1>0, <2>1, <3>2 DEF Render, ScreensTypeOK, Redraws
    <3> QED BY <3>1, <3>2
  <2>2. CASE VBlank(o)
    <3> DEFINE shown == IF vtActive THEN flip[o] ELSE Nothing
    <3>1. shown \in Nothing .. MaxLocks
      BY <2>0 DEF Nothing
    <3>2. Draw(o, shown, TRUE) \/ Settle(o, shown)
      BY <2>2 DEF VBlank
    <3> HIDE DEF shown
    <3> QED BY <1>0, <3>1, <3>2, <1>d, SettleType
  <2>3. CASE EstimatedVBlank(o)
    BY <1>0, <2>0, <2>3, <1>d, SettleType DEF EstimatedVBlank
  <2>4. CASE SceneChanges(o)
    BY <2>4, <1>q DEF SceneChanges
  <2>5. CASE Plug(o) \/ Unplug(o)
    BY <1>0, <2>5, EnvironmentType DEF Plug, Unplug
  <2>6. CASE DropSurface(o)
    BY <2>6, <1>u DEF DropSurface
  <2> QED BY <1>6, <2>1, <2>2, <2>3, <2>4, <2>5, <2>6 DEF OutputStep
<1>7. CASE UNCHANGED vars
  BY <1>7, <1>u DEF vars
<1> QED BY <1>1, <1>2, <1>3, <1>4, <1>5, <1>6, <1>7 DEF Next

(***************************************************************************)
(* The switches: the Boolean part of the state, and what it has to do with *)
(* the lock.                                                               *)
(***************************************************************************)
Switches ==
  /\ holdTimer \in BOOLEAN /\ watch \in BOOLEAN /\ recent \in BOOLEAN /\ grab \in BOOLEAN
  /\ watch <=> IsLocked
  /\ LockedIsUnreachable

(***************************************************************************)
(* And the rest of it.                                                     *)
(***************************************************************************)
Data ==
  /\ mode \in {"Unlocked", "Pending", "Locked", "Guard"}
  /\ holder \in Clients \cup {NoClient, Dead}
  /\ waiting \in SUBSET (Outputs \cup {Unplugged})
  /\ hold \in {"none", "open", "over"}
  /\ generation \in 0 .. MaxLocks
  /\ surfaces \in [Outputs -> {"none", "bare", "drawn"}]
  /\ rendered \in [Outputs -> 0 .. MaxLocks]
  /\ asked \in 0 .. MaxAsks /\ awaiting \in 0 .. MaxAsks /\ answered \in 0 .. MaxAsks
  /\ guardTimers \in SUBSET (1 .. MaxAsks)
  /\ relaunches \in 0 .. RELAUNCH_LIMIT
  /\ client \in [Clients -> ClientStates]
  /\ keyboard \in {"session", "lock", "nobody"}
  /\ unseen \in SUBSET Outputs
  /\ AskInv /\ HolderInv
  /\ hold # "none" => mode = "Pending"
  /\ mode \in {"Unlocked", "Locked"} => waiting = {}
  /\ mode = "Pending" => waiting # {}
  /\ mode # "Unlocked" => generation # 0

(* Every step keeps the switches: input is cut, and the watch set, with every way
   into the lock; both stay so until the unlock. *)
LEMMA SwitchesStep ==
  ASSUME IInv, [Next]_vars
  PROVE  Switches'
<1>0. Switches
  BY DEF IInv, TypeOK, ModeInv, Switches
<1>u. ASSUME UNCHANGED <<mode, keyboard, grab, watch>>, holdTimer' \in BOOLEAN, recent' \in BOOLEAN
      PROVE  Switches'
  BY <1>0, <1>u DEF Switches, IsLocked, LockedIsUnreachable
<1>r. ASSUME NEW byKey, RelaunchLock(byKey)
      PROVE  recent' \in BOOLEAN
  BY <1>0, <1>r DEF RelaunchLock, Switches
<1>l. ASSUME LetGoOfInput, IsLocked', holdTimer' \in BOOLEAN, recent' \in BOOLEAN
      PROVE  Switches'
  BY <1>l DEF LetGoOfInput, Switches, LockedIsUnreachable
<1>k. ASSUME UNCHANGED <<mode, grab, watch, holdTimer, recent>>, keyboard' \in {keyboard, "lock", "nobody"}
      PROVE  Switches'
  <2>1. keyboard' = "session" => keyboard = "session"
    BY <1>k
  <2> QED BY <1>0, <1>k, <2>1 DEF Switches, IsLocked, LockedIsUnreachable
<1>1. CASE LockSession
  BY <1>0, <1>1, <1>u DEF LockSession, lockVars, launchVars, inputVars, Switches
<1>2. CASE InputStep
  <2>1. CASE SessionTakesInput
    BY <1>0, <2>1 DEF SessionTakesInput, onlyInput, lockVars, launchVars, Switches, IsLocked, LockedIsUnreachable
  <2>2. CASE SessionDropsInput
    BY <1>0, <2>2 DEF SessionDropsInput, onlyInput, lockVars, launchVars, Switches, IsLocked, LockedIsUnreachable
  <2>3. CASE RestoreKeyboardFocus
    BY <2>3, <1>k DEF RestoreKeyboardFocus, onlyInput, lockVars, launchVars
  <2>4. CASE KeyPress
    BY <1>0, <1>r, <2>4, <1>u DEF KeyPress, lockVars, inputVars, Switches
  <2> QED BY <1>2, <2>1, <2>2, <2>3, <2>4 DEF InputStep
<1>3. CASE TimerStep
  <2>1. CASE HoldPasses
    BY <1>0, <2>1, <1>u DEF HoldPasses, launchVars, inputVars, Switches
  <2>2. CASE HoldTimer
    BY <1>0, <2>2, <1>u DEF HoldTimer, lockVars, launchVars, inputVars, Switches
  <2>3. CASE WatchLock
    <3>1. UNCHANGED <<mode, keyboard, grab, holdTimer>>
      BY <2>3 DEF WatchLock, lockVars, inputVars
    <3>2. CASE IsLocked
      BY <1>0, <1>r, <2>3, <3>1, <3>2, <1>u DEF WatchLock, Switches
    <3>3. CASE ~IsLocked
      <4>1. watch' = FALSE /\ recent' = recent
        BY <2>3, <3>3 DEF WatchLock
      <4>2. ~IsLocked'
        BY <3>1, <3>3 DEF IsLocked
      <4> QED BY <1>0, <3>1, <4>1, <4>2 DEF Switches, LockedIsUnreachable
    <3> QED BY <3>2, <3>3
  <2>4. CASE WindowSlides
    BY <1>0, <2>4, <1>u DEF WindowSlides, lockVars, inputVars, Switches
  <2>5. ASSUME NEW ask \in 1 .. MaxAsks, GuardTimer(ask)
        PROVE  Switches'
    <3>1. CASE RaiseGuard
      <4>1. IsLocked' /\ holdTimer' = holdTimer
        BY <2>5, <3>1 DEF RaiseGuard, LockWithoutClient, GuardTimer, IsLocked
      <4> QED BY <1>0, <3>1, <4>1, <1>r, <1>l DEF RaiseGuard, LockWithoutClient, Switches
    <3>2. CASE ~RaiseGuard
      BY <1>0, <2>5, <3>2, <1>u DEF GuardTimer, GuardSession, lockVars, launchVars, inputVars, Switches
    <3> QED BY <3>1, <3>2
  <2> QED BY <1>3, <2>1, <2>2, <2>3, <2>4, <2>5 DEF TimerStep
<1>4. CASE Power \/ SwitchVT
  BY <1>0, <1>4, <1>u DEF Power, SwitchVT, lockOnly, launchVars, inputVars, Switches
<1>5. ASSUME NEW c \in Clients, ClientStep(c)
      PROVE  Switches'
  <2>1. CASE StartClient(c)
    BY <1>0, <2>1, <1>u DEF StartClient, lockVars, launchVars, inputVars, Switches
  <2>2. CASE ClientDies(c)
    BY <2>2, <1>k DEF ClientDies, launchVars
  <2>3. CASE LockRequest(c)
    <3>1. CASE HolderAlive
      BY <1>0, <2>3, <3>1, <1>u DEF LockRequest, Refuse, lockVars, launchVars, inputVars, Switches
    <3>2. CASE ~HolderAlive
      <4>1. TakeLock(c)
        BY <2>3, <3>2 DEF LockRequest
      <4>2. IsLocked'
        BY <4>1 DEF TakeLock, IsLocked
      <4>3. CASE IsLocked
        <5>1. UNCHANGED <<keyboard, grab, watch, holdTimer, recent>>
          BY <4>1, <4>3 DEF TakeLock
        <5>2. watch' <=> IsLocked'
          BY <1>0, <4>2, <4>3, <5>1 DEF Switches
        <5>3. LockedIsUnreachable'
          BY <1>0, <4>3, <5>1 DEF Switches, LockedIsUnreachable
        <5> QED BY <1>0, <5>1, <5>2, <5>3 DEF Switches
      <4>4. CASE ~IsLocked
        <5>1. LetGoOfInput /\ holdTimer' = TRUE /\ recent' = recent
          BY <4>1, <4>4 DEF TakeLock
        <5> QED BY <1>0, <4>2, <5>1, <1>l DEF Switches
      <4> QED BY <4>3, <4>4
    <3> QED BY <3>1, <3>2
  <2>4. CASE Unlock(c)
    <3>1. watch' = FALSE /\ recent' = FALSE /\ UNCHANGED <<grab, holdTimer>> /\ ~IsLocked'
      BY <2>4 DEF Unlock, IsLocked
    <3>2. (watch' <=> IsLocked') /\ LockedIsUnreachable'
      BY <3>1 DEF LockedIsUnreachable
    <3> QED BY <1>0, <3>1, <3>2 DEF Switches
  <2>5. ASSUME NEW o \in Outputs, NewSurface(c, o) \/ CommitBuffer(c, o)
        PROVE  Switches'
    BY <2>5, <1>k DEF NewSurface, CommitBuffer, launchVars, inputVars
  <2> QED BY <1>5, <2>1, <2>2, <2>3, <2>4, <2>5 DEF ClientStep
<1>6. ASSUME NEW o \in Outputs, OutputStep(o)
      PROVE  Switches'
  <2>1. CASE Render(o) \/ VBlank(o) \/ EstimatedVBlank(o)
    <3>1. UNCHANGED <<keyboard, grab, watch, recent, holdTimer>>
      BY <2>1 DEF Render, VBlank, EstimatedVBlank, frameFrame, launchVars, inputVars
    <3>2. mode' = mode \/ (mode = "Pending" /\ mode' = "Locked")
      BY <2>1 DEF Render, VBlank, EstimatedVBlank, Draw, LockFrameShown
    <3>3. IsLocked' = IsLocked
      BY <3>2 DEF IsLocked
    <3> QED BY <1>0, <3>1, <3>3 DEF Switches, LockedIsUnreachable
  <2>2. CASE SceneChanges(o) \/ Plug(o) \/ Unplug(o)
    BY <1>0, <2>2, <1>u DEF SceneChanges, Plug, Unplug, lockOnly, lockVars, launchVars, inputVars, Switches
  <2>3. CASE DropSurface(o)
    BY <2>3, <1>k DEF DropSurface, launchVars
  <2> QED BY <1>6, <2>1, <2>2, <2>3 DEF OutputStep
<1>7. CASE UNCHANGED vars
  BY <1>0, <1>7, <1>u DEF vars, lockVars, launchVars, inputVars, Switches
<1> QED BY <1>1, <1>2, <1>3, <1>4, <1>5, <1>6, <1>7 DEF Next

(* Every step keeps the rest of the invariant. *)
LEMMA DataStep ==
  ASSUME IInv, [Next]_vars
  PROVE  Data'
<1> USE DEF Data, HolderAlive, ClientStates, NoSurfaces
<1>0. Data
  BY DEF IInv, TypeOK, ModeInv, AskInv, HolderInv, IsLocked
<1>s. ShowsFrames \in SUBSET Outputs
  BY DEF ShowsFrames, ScreensTypeOK, IInv, TypeOK
<1>p. ASSUME Spawn PROVE /\ client' \in [Clients -> ClientStates]
                         /\ \A c \in Clients : client[c] # "absent" => client'[c] = client[c]
  BY <1>0, <1>p DEF Spawn
<1>r. ASSUME NEW byKey, RelaunchLock(byKey)
      PROVE  /\ relaunches' \in 0 .. RELAUNCH_LIMIT
             /\ client' \in [Clients -> ClientStates]
             /\ \A c \in Clients : client[c] # "absent" => client'[c] = client[c]
  BY <1>0, <1>r, <1>p DEF RelaunchLock
<1>u. ASSUME UNCHANGED <<mode, holder, waiting, hold, generation>>,
             UNCHANGED <<surfaces, rendered, askVars, unseen>>,
             relaunches' \in 0 .. RELAUNCH_LIMIT,
             client' \in [Clients -> ClientStates],
             \A c \in Clients : client[c] # "absent" => client'[c] = client[c],
             keyboard' \in {"session", "lock", "nobody"}
      PROVE  Data'
  BY <1>0, <1>u DEF askVars, AskInv, HolderInv
<1>1. CASE LockSession
  <2>1. /\ asked' = asked + 1 /\ awaiting' = asked + 1 /\ answered' = answered
        /\ guardTimers' = guardTimers \cup {asked + 1}
        /\ asked < MaxAsks /\ generation < MaxLocks /\ mode = "Unlocked"
        /\ UNCHANGED <<relaunches, keyboard>>
    BY <1>1 DEF LockSession, SetGuardTimer, IsLocked, launchVars, inputVars
  <2>2. UNCHANGED <<mode, holder, waiting, hold, generation, surfaces, rendered, unseen>>
    BY <1>1 DEF LockSession, lockVars
  <2>3. /\ client' \in [Clients -> ClientStates]
        /\ \A c \in Clients : client[c] # "absent" => client'[c] = client[c]
    BY <1>1, <1>p DEF LockSession
  <2> QED BY <1>0, <2>1, <2>2, <2>3 DEF AskInv, HolderInv
<1>2. CASE InputStep
  <2>1. CASE SessionTakesInput \/ SessionDropsInput \/ RestoreKeyboardFocus
    <3>1. keyboard' \in {"session", "lock", "nobody"}
      BY <1>0, <2>1 DEF SessionTakesInput, SessionDropsInput, RestoreKeyboardFocus
    <3>2. UNCHANGED onlyInput
      BY <2>1 DEF SessionTakesInput, SessionDropsInput, RestoreKeyboardFocus
    <3> QED BY <1>0, <3>1, <3>2, <1>u DEF onlyInput, lockVars, launchVars
  <2>2. CASE KeyPress
    <3>1. RelaunchLock(TRUE) /\ UNCHANGED <<lockVars, askVars, unseen, keyboard>>
      BY <2>2 DEF KeyPress, inputVars
    <3> QED BY <1>0, <3>1, <1>r, <1>u DEF lockVars
  <2> QED BY <1>2, <2>1, <2>2 DEF InputStep
<1>3. CASE TimerStep
  <2>1. CASE HoldPasses
    BY <1>0, <2>1 DEF HoldPasses, HoldOpen, AskInv, HolderInv, askVars, launchVars, inputVars
  <2>2. CASE HoldTimer
    BY <1>0, <2>2, <1>u DEF HoldTimer, lockVars, launchVars, inputVars
  <2>3. CASE WatchLock
    <3>1. \/ RelaunchLock(FALSE)
          \/ UNCHANGED <<relaunches, client>>
      BY <2>3 DEF WatchLock
    <3>2. UNCHANGED <<lockVars, askVars, unseen, keyboard>>
      BY <2>3 DEF WatchLock, inputVars
    <3>3. /\ client' \in [Clients -> ClientStates] /\ relaunches' \in 0 .. RELAUNCH_LIMIT
          /\ \A c \in Clients : client[c] # "absent" => client'[c] = client[c]
      BY <1>0, <3>1, <1>r
    <3> QED BY <1>0, <3>2, <3>3, <1>u DEF lockVars
  <2>4. CASE WindowSlides
    BY <1>0, <2>4 DEF WindowSlides, lockVars, inputVars, askVars, AskInv, HolderInv
  <2>5. ASSUME NEW ask \in 1 .. MaxAsks, GuardTimer(ask)
        PROVE  Data'
    <3>g. guardTimers' = guardTimers \ {ask} /\ UNCHANGED <<asked, answered>>
      BY <2>5 DEF GuardTimer
    <3>0. guardTimers' \in SUBSET (1 .. MaxAsks) /\ UNCHANGED <<asked, answered>>
      BY <1>0, <3>g
    <3>1. CASE awaiting = ask
      <4>1. awaiting' = 0 /\ mode = "Unlocked" /\ generation < MaxLocks /\ RaiseGuard
        BY <1>0, <2>5, <3>1 DEF GuardTimer, GuardSession, IsLocked, AskInv
      <4>2. /\ mode' = "Guard" /\ holder' = NoClient /\ surfaces' = NoSurfaces
            /\ generation' = generation + 1 /\ waiting' = ShowsFrames /\ unseen' = ShowsFrames
            /\ keyboard' = "nobody" /\ UNCHANGED <<hold, rendered>>
        BY <4>1 DEF RaiseGuard, LockWithoutClient, LetGoOfInput
      <4>3. /\ relaunches' \in 0 .. RELAUNCH_LIMIT /\ client' \in [Clients -> ClientStates]
        BY <4>1, <1>r DEF RaiseGuard, LockWithoutClient
      <4> QED BY <1>0, <1>s, <3>0, <4>1, <4>2, <4>3 DEF AskInv, HolderInv
    <3>2. CASE awaiting # ask
      <4>1. /\ UNCHANGED <<awaiting, client, unseen, relaunches, keyboard>>
            /\ UNCHANGED lockVars
        BY <2>5, <3>2 DEF GuardTimer, launchVars, inputVars
      <4> QED BY <1>0, <3>0, <4>1 DEF lockVars, AskInv, HolderInv
    <3> QED BY <3>1, <3>2
  <2> QED BY <1>3, <2>1, <2>2, <2>3, <2>4, <2>5 DEF TimerStep
<1>4. CASE Power \/ SwitchVT
  <2>1. UNCHANGED <<lockOnly, waiting, surfaces, rendered, unseen>>
    BY <1>4 DEF Power, SwitchVT
  <2> QED BY <1>0, <2>1, <1>u DEF lockOnly, launchVars, inputVars
<1>5. ASSUME NEW c \in Clients, ClientStep(c)
      PROVE  Data'
  <2>1. CASE StartClient(c)
    BY <1>0, <2>1, <1>u DEF StartClient, lockVars, launchVars, inputVars
  <2>2. CASE ClientDies(c)
    <3>1. UNCHANGED <<mode, waiting, hold, generation, rendered, askVars, relaunches, unseen>>
      BY <2>2 DEF ClientDies, launchVars
    <3> QED BY <1>0, <2>2, <3>1 DEF ClientDies, askVars, AskInv, HolderInv
  <2>3. CASE LockRequest(c)
    <3>0. answered' = asked /\ awaiting' = 0 /\ UNCHANGED <<asked, guardTimers>> /\ client[c] = "running"
      BY <2>3 DEF LockRequest, Answer
    <3>1. CASE HolderAlive
      <4>1. client' = [client EXCEPT ![c] = "refused"] /\ UNCHANGED <<lockVars, relaunches, keyboard, unseen>>
        BY <2>3, <3>1 DEF LockRequest, Refuse, launchVars, inputVars
      <4>2. holder # c
        BY <1>0, <3>0 DEF HolderInv
      <4> QED BY <1>0, <3>0, <4>1, <4>2 DEF lockVars, AskInv, HolderInv
    <3>2. CASE ~HolderAlive
      <4>1. /\ generation < MaxLocks /\ holder' = c /\ surfaces' = NoSurfaces
            /\ generation' = generation + 1 /\ waiting' = ShowsFrames /\ unseen' = ShowsFrames
            /\ IF ShowsFrames = {}
               THEN mode' = "Locked" /\ hold' = "none" /\ client' = [client EXCEPT ![c] = "told"]
               ELSE mode' = "Pending" /\ hold' = HoldUntil /\ client' = [client EXCEPT ![c] = "asked"]
            /\ UNCHANGED <<rendered, relaunches>>
            /\ keyboard' \in {keyboard, "nobody"}
        BY <2>3, <3>2 DEF LockRequest, TakeLock, LetGoOfInput
      <4> QED BY <1>0, <1>s, <3>0, <4>1 DEF AskInv, HolderInv, HoldUntil
    <3> QED BY <3>1, <3>2
  <2>4. CASE Unlock(c)
    <3>1. /\ holder = c /\ client[c] = "told" /\ mode' = "Unlocked" /\ holder' = NoClient
          /\ surfaces' = NoSurfaces /\ relaunches' = 0 /\ keyboard' \in {"session", "nobody"}
          /\ client' = [client EXCEPT ![c] = "absent"]
          /\ UNCHANGED <<waiting, hold, generation, rendered, askVars, unseen>>
      BY <2>4 DEF Unlock, MayUnlock
    <3>2. mode = "Locked"
      BY <1>0, <3>1 DEF HolderInv
    <3> QED BY <1>0, <3>1, <3>2 DEF askVars, AskInv, HolderInv
  <2>5. ASSUME NEW o \in Outputs, NewSurface(c, o) \/ CommitBuffer(c, o)
        PROVE  Data'
    <3>1. /\ surfaces' \in [Outputs -> {"none", "bare", "drawn"}]
          /\ keyboard' \in {keyboard, "lock"}
          /\ UNCHANGED <<mode, holder, waiting, hold, generation, rendered, askVars, relaunches, client, unseen>>
      BY <1>0, <2>5 DEF NewSurface, CommitBuffer, launchVars, inputVars
    <3> QED BY <1>0, <3>1 DEF askVars, AskInv, HolderInv
  <2> QED BY <1>5, <2>1, <2>2, <2>3, <2>4, <2>5 DEF ClientStep
<1>6. ASSUME NEW o \in Outputs, OutputStep(o)
      PROVE  Data'
  <2>k. ASSUME UNCHANGED frameFrame
        PROVE  UNCHANGED <<holder, generation, surfaces, askVars, relaunches, keyboard>>
    BY <2>k DEF frameFrame, launchVars, inputVars
  <2>f. ASSUME NEW counts, LockFrameShown(o, counts), UNCHANGED frameFrame,
               rendered' \in [Outputs -> 0 .. MaxLocks], unseen' \in SUBSET Outputs
        PROVE  Data'
    <3>1. UNCHANGED <<holder, generation, surfaces, askVars, relaunches, keyboard>>
      BY <2>f, <2>k
    <3>2. waiting' \in SUBSET waiting
      BY <2>f DEF LockFrameShown, StillWaiting
    <3>3. CASE mode = "Pending" /\ waiting' = {}
      <4>1. /\ mode' = "Locked" /\ hold' = "none"
            /\ client' = IF HolderAlive THEN [client EXCEPT ![holder] = "told"] ELSE client
        BY <2>f, <3>3 DEF LockFrameShown
      <4> QED BY <1>0, <2>f, <3>1, <3>2, <3>3, <4>1 DEF askVars, AskInv, HolderInv
    <3>4. CASE ~(mode = "Pending" /\ waiting' = {})
      <4>1. UNCHANGED <<mode, hold, client>>
        BY <2>f, <3>4 DEF LockFrameShown
      <4> QED BY <1>0, <2>f, <3>1, <3>2, <3>4, <4>1 DEF askVars, AskInv, HolderInv
    <3> QED BY <3>3, <3>4
  <2>n. ASSUME UNCHANGED <<mode, hold, client, waiting>>, UNCHANGED frameFrame,
               rendered' \in [Outputs -> 0 .. MaxLocks], unseen' \in SUBSET Outputs
        PROVE  Data'
    BY <1>0, <2>n, <2>k DEF askVars, AskInv, HolderInv
  <2>d. ASSUME NEW shown, NEW v, Draw(o, shown, v), UNCHANGED frameFrame
        PROVE  Data'
    <3> DEFINE frame == IF (v /\ mode = "Pending" /\ ((v /\ rendered[o] = generation) /\ waiting \subseteq {o})) \/ DrawsLocked(o) THEN generation ELSE SessionFrame
    <3>1. PICK how \in Endings :
            /\ rendered' = IF frame = SessionFrame THEN rendered ELSE [rendered EXCEPT ![o] = frame]
            /\ IF v \/ how = "quiet"
               THEN LockFrameShown(o, (v /\ rendered[o] = generation) \/ (how = "quiet" /\ rendered'[o] = generation))
               ELSE UNCHANGED <<waiting, mode, hold, client>>
      BY <2>d DEF Draw, NoteRendered
    <3>2. frame \in 0 .. MaxLocks
      BY <1>0 DEF SessionFrame
    <3>3. rendered' \in [Outputs -> 0 .. MaxLocks]
      BY <1>0, <3>1, <3>2
    <3>4. unseen' \in SUBSET Outputs
      BY <1>0, <2>d DEF Draw, NoteRendered
    <3> HIDE DEF frame
    <3>5. (\E counts : LockFrameShown(o, counts)) \/ UNCHANGED <<mode, hold, client, waiting>>
      BY <3>1
    <3> QED BY <2>d, <2>f, <2>n, <3>3, <3>4, <3>5
  <2>1. CASE Render(o)
    <3>1. CASE o \in powered
      BY <2>1, <3>1, <2>d DEF Render
    <3>2. CASE o \notin powered
      BY <1>0, <2>1, <3>2, <2>n DEF Render
    <3> QED BY <3>1, <3>2
  <2>2. CASE VBlank(o)
    <3>1. CASE redraw[o] = "VBlankRedraw" /\ vtActive
      BY <2>2, <3>1, <2>d DEF VBlank
    <3>2. CASE ~(redraw[o] = "VBlankRedraw" /\ vtActive)
      <4>1. LockFrameShown(o, rendered[o] = generation) /\ rendered' = rendered /\ UNCHANGED frameFrame
        BY <2>2, <3>2 DEF VBlank
      <4>2. unseen' \in SUBSET Outputs
        BY <1>0, <2>2, <3>2 DEF VBlank
      <4> QED BY <1>0, <4>1, <4>2, <2>f
    <3> QED BY <3>1, <3>2
  <2>3. CASE EstimatedVBlank(o)
    <3>1. CASE redraw[o] = "EstimatedRedraw" /\ vtActive
      BY <2>3, <3>1, <2>d DEF EstimatedVBlank
    <3>2. CASE ~(redraw[o] = "EstimatedRedraw" /\ vtActive)
      <4>1. UNCHANGED <<rendered, waiting, mode, hold, client, unseen, frameFrame>>
        BY <2>3, <3>2 DEF EstimatedVBlank
      <4> QED BY <1>0, <4>1, <2>n
    <3> QED BY <3>1, <3>2
  <2>4. CASE SceneChanges(o)
    BY <1>0, <2>4, <1>u DEF SceneChanges, lockVars, launchVars, inputVars
  <2>5. CASE Plug(o)
    <3>1. UNCHANGED <<lockOnly, waiting, surfaces, rendered, unseen>>
      BY <2>5 DEF Plug
    <3> QED BY <1>0, <3>1, <1>u DEF lockOnly, launchVars, inputVars
  <2>6. CASE Unplug(o)
    <3>1. /\ waiting' = IF o \in waiting THEN (waiting \ {o}) \cup {Unplugged} ELSE waiting
          /\ surfaces' = [surfaces EXCEPT ![o] = "none"]
          /\ rendered' = [rendered EXCEPT ![o] = 0]
          /\ unseen' = unseen \ {o}
          /\ UNCHANGED <<mode, holder, hold, generation, askVars, relaunches, keyboard, client>>
      BY <2>6 DEF Unplug, lockOnly, launchVars, inputVars
    <3> QED BY <1>0, <3>1 DEF askVars, AskInv, HolderInv
  <2>7. CASE DropSurface(o)
    <3>1. /\ surfaces' = [surfaces EXCEPT ![o] = "none"]
          /\ keyboard' \in {keyboard, "nobody"}
          /\ UNCHANGED <<mode, holder, waiting, hold, generation, rendered, askVars, relaunches, client, unseen>>
      BY <2>7 DEF DropSurface, launchVars
    <3> QED BY <1>0, <3>1 DEF askVars, AskInv, HolderInv
  <2> QED BY <1>6, <2>1, <2>2, <2>3, <2>4, <2>5, <2>6, <2>7 DEF OutputStep
<1>7. CASE UNCHANGED vars
  BY <1>0, <1>7, <1>u DEF vars, lockVars, launchVars, inputVars
<1> QED BY <1>1, <1>2, <1>3, <1>4, <1>5, <1>6, <1>7 DEF Next

(* Every step keeps the invariant. *)
LEMMA Step == IInv /\ [Next]_vars => IInv'
<1> SUFFICES ASSUME IInv, [Next]_vars PROVE IInv'
  OBVIOUS
<1>1. ScreensTypeOK(MaxLocks)'
  BY ScreensStep DEF IInv
<1>2. Switches'
  BY SwitchesStep
<1>3. Data'
  BY DataStep
<1>4. TypeOK'
  BY <1>1, <1>2, <1>3 DEF TypeOK, Switches, Data
<1>5. AskInv' /\ HolderInv'
  BY <1>3 DEF Data
<1>6. IsLocked' => generation' # 0
  BY <1>3 DEF Data, IsLocked
<1>7. ModeInv' /\ LockedIsUnreachable'
  BY <1>2, <1>3, <1>6 DEF ModeInv, Switches, Data
<1> QED BY <1>4, <1>5, <1>7 DEF IInv

(* The invariant holds of every behaviour. *)
THEOREM Inductive == Spec => []IInv
  BY InitIInv, Step, PTL DEF Spec

(* Type correctness, whatever the outputs, the clients and the bounds. *)
THEOREM TypeCorrect == Spec => []TypeOK
<1>1. IInv => TypeOK
  BY DEF IInv
<1> QED BY <1>1, Inductive, PTL

(* A locked session holds neither the keyboard nor a grab: let_go_of_input runs
   on every way into the lock, and nothing gives the input back before unlock. *)
THEOREM Unreachable == Spec => []LockedIsUnreachable
<1>1. IInv => LockedIsUnreachable
  BY DEF IInv
<1> QED BY <1>1, Inductive, PTL

-----------------------------------------------------------------------------
(* Only Unlock leads out of a locked mode. *)
LEMMA StaysLocked ==
  ASSUME IInv, [Next]_vars, IsLocked
  PROVE  \/ mode' \in {"Pending", "Locked", "Guard"}
         \/ \E c \in Clients : Unlock(c)
<1>0. mode \in {"Pending", "Locked", "Guard"}
  BY DEF IInv, TypeOK, IsLocked
<1>1. CASE LockSession \/ InputStep
  BY <1>0, <1>1 DEF LockSession, InputStep, SessionTakesInput, SessionDropsInput, RestoreKeyboardFocus, KeyPress, onlyInput, lockVars
<1>2. CASE TimerStep
  BY <1>0, <1>2 DEF TimerStep, HoldPasses, HoldTimer, WatchLock, WindowSlides, GuardTimer, GuardSession, RaiseGuard, LockWithoutClient, lockVars
<1>3. CASE Power \/ SwitchVT \/ UNCHANGED vars
  BY <1>0, <1>3 DEF Power, SwitchVT, lockOnly, vars, lockVars
<1>4. ASSUME NEW c \in Clients, ClientStep(c)
      PROVE  mode' \in {"Pending", "Locked", "Guard"} \/ Unlock(c)
  <2>1. CASE LockRequest(c)
    BY <1>0, <2>1 DEF LockRequest, Refuse, TakeLock, lockVars
  <2>2. CASE StartClient(c) \/ ClientDies(c) \/ \E o \in Outputs : NewSurface(c, o) \/ CommitBuffer(c, o)
    BY <1>0, <2>2 DEF StartClient, ClientDies, NewSurface, CommitBuffer, lockVars
  <2> QED BY <1>4, <2>1, <2>2 DEF ClientStep
<1>5. ASSUME NEW o \in Outputs, OutputStep(o)
      PROVE  mode' \in {"Pending", "Locked", "Guard"}
  <2>1. CASE Render(o) \/ VBlank(o) \/ EstimatedVBlank(o)
    BY <1>0, <2>1 DEF Render, VBlank, EstimatedVBlank, Draw, LockFrameShown
  <2>2. CASE SceneChanges(o) \/ Plug(o) \/ Unplug(o) \/ DropSurface(o)
    BY <1>0, <2>2 DEF SceneChanges, Plug, Unplug, DropSurface, lockOnly, lockVars
  <2> QED BY <1>5, <2>1, <2>2 DEF OutputStep
<1> QED BY <1>1, <1>2, <1>3, <1>4, <1>5 DEF Next

(* The session opens only by the unlock of the client that holds the confirmed
   lock and was told so. *)
THEOREM OnlyClientUnlocks == Spec => OnlyItsClientUnlocks
<1> DEFINE Opens == \E c \in Clients : holder = c /\ client[c] = "told" /\ mode = "Locked"
<1>1. IInv /\ [Next]_vars => (IsLocked /\ mode' = "Unlocked" => Opens)
  <2> SUFFICES ASSUME IInv, [Next]_vars, IsLocked, mode' = "Unlocked" PROVE Opens
    OBVIOUS
  <2>1. PICK c \in Clients : Unlock(c)
    BY StaysLocked
  <2>2. holder = c /\ client[c] = "told"
    BY <2>1 DEF Unlock, MayUnlock
  <2>3. mode = "Locked"
    BY <2>2 DEF IInv, HolderInv
  <2> QED BY <2>2, <2>3
<1>2. IInv /\ [Next]_vars => [IsLocked /\ mode' = "Unlocked" => Opens]_vars
  BY <1>1
<1> QED BY <1>2, Inductive, PTL DEF Spec, OnlyItsClientUnlocks

(* A guard timer locks only for an ask that no lock request came after: `awaiting`
   names the newest ask, and a request clears it. *)
THEOREM GuardUnanswered == Spec => GuardOnlyUnanswered
<1> DEFINE P == \A ask \in guardTimers \ guardTimers' : mode = "Unlocked" /\ mode' = "Guard" => ask > answered
<1>1. IInv /\ [Next]_vars => P
  <2> SUFFICES ASSUME IInv, [Next]_vars,
                      NEW ask \in guardTimers \ guardTimers', mode = "Unlocked", mode' = "Guard"
               PROVE  ask > answered
    OBVIOUS
  <2>1. GuardTimer(ask)
    <3>1. CASE TimerStep
      BY <3>1 DEF TimerStep, HoldPasses, HoldTimer, WatchLock, WindowSlides, GuardTimer, askVars
    <3>2. CASE InputStep \/ Power \/ SwitchVT \/ UNCHANGED vars
      BY <3>2 DEF InputStep, SessionTakesInput, SessionDropsInput, RestoreKeyboardFocus, KeyPress,
                  onlyInput, Power, SwitchVT, lockOnly, vars, askVars
    <3>3. CASE LockSession
      BY <3>3 DEF LockSession, SetGuardTimer
    <3>4. ASSUME NEW c \in Clients, ClientStep(c) PROVE guardTimers' = guardTimers
      BY <3>4 DEF ClientStep, StartClient, LockRequest, Unlock, ClientDies, NewSurface, CommitBuffer, askVars
    <3>5. ASSUME NEW o \in Outputs, OutputStep(o) PROVE guardTimers' = guardTimers
      BY <3>5 DEF OutputStep, Render, VBlank, EstimatedVBlank, frameFrame, SceneChanges, Plug,
                  Unplug, DropSurface, lockOnly, askVars
    <3> QED BY <3>1, <3>2, <3>3, <3>4, <3>5 DEF Next
  <2>2. awaiting = ask
    BY <2>1 DEF GuardTimer, lockVars
  <2> QED BY <2>2 DEF IInv, TypeOK, AskInv
<1>2. IInv /\ [Next]_vars => [P]_vars
  BY <1>1
<1> QED BY <1>2, Inductive, PTL DEF Spec, GuardOnlyUnanswered
-----------------------------------------------------------------------------
(***************************************************************************)
(* The refinement: what a step does to the outputs on which the session is *)
(* shown, and then each step as a step of LockContract.                    *)
(***************************************************************************)
(* A frame drawn for a lock that must hide the session is a locked frame, and one
   found to be on the panel already exposes nothing new. *)
LEMMA DrawCovers ==
  ASSUME IInv, NEW o \in Outputs, NEW shown \in Nothing .. MaxLocks, NEW v \in BOOLEAN,
         shown = SessionFrame => o \in Exposed,
         Draw(o, shown, v), UNCHANGED frameFrame,
         IsLocked, ~HoldOpen'
  PROVE  Exposed' \subseteq Exposed
<1> DEFINE first == v /\ rendered[o] = generation
           confirmed == v /\ mode = "Pending" /\ (first /\ waiting \subseteq {o})
           frame == IF confirmed \/ DrawsLocked(o) THEN generation ELSE SessionFrame
<1>1. PICK how \in Endings :
        /\ RenderSurface(o, frame, how, shown)
        /\ rendered' = IF frame = SessionFrame THEN rendered ELSE [rendered EXCEPT ![o] = frame]
        /\ IF v \/ how = "quiet"
           THEN LockFrameShown(o, first \/ (how = "quiet" /\ rendered'[o] = generation))
           ELSE UNCHANGED <<waiting, mode, hold, client>>
  BY DEF Draw, NoteRendered
<1>2. /\ flip \in [Outputs -> Nothing .. MaxLocks] /\ screen \in [Outputs -> Nothing .. MaxLocks]
      /\ generation # 0 /\ waiting \subseteq Outputs \cup {Unplugged}
      /\ mode = "Pending" => waiting # {}
  BY DEF IInv, TypeOK, ScreensTypeOK, ModeInv
<1>3. CASE how = "flip"
  <2>1. frame # SessionFrame
    <3>1. CASE HoldOpen
      <4>1. v /\ mode' = "Locked" /\ waiting' = {} /\ waiting' = StillWaiting(o, first)
        BY <1>1, <1>3, <3>1 DEF LockFrameShown, HoldOpen
      <4>2. first /\ waiting \subseteq {o}
        BY <1>2, <3>1, <4>1 DEF StillWaiting, HoldOpen
      <4>3. confirmed
        BY <3>1, <4>1, <4>2 DEF HoldOpen
      <4> QED BY <1>2, <4>3 DEF SessionFrame
    <3>2. CASE ~HoldOpen
      BY <1>2, <3>2 DEF DrawsLocked, SessionFrame
    <3> QED BY <3>1, <3>2
  <2>2. flip' = [flip EXCEPT ![o] = frame] /\ screen' = [screen EXCEPT ![o] = shown]
    BY <1>1, <1>3 DEF RenderSurface
  <2> HIDE DEF frame
  <2> QED BY <1>2, <2>1, <2>2 DEF Exposed
<1>4. CASE how # "flip"
  <2>1. /\ flip' = [flip EXCEPT ![o] = Nothing]
        /\ screen' = [screen EXCEPT ![o] = IF how = "quiet" THEN frame ELSE shown]
        /\ how = "quiet" => (frame = SessionFrame) = (shown = SessionFrame)
    BY <1>1, <1>4 DEF RenderSurface, CanEnd, SameContent
  <2> HIDE DEF frame
  <2>2. screen'[o] = SessionFrame => shown = SessionFrame
    BY <1>2, <2>1
  <2> QED BY <1>2, <2>1, <2>2 DEF Exposed, Nothing, SessionFrame
<1> QED BY <1>3, <1>4

(* Once the session must be hidden, and in the step that locks it, no output
   begins to show it. *)
LEMMA StepCovers ==
  ASSUME IInv, [Next]_vars, IsLocked', ~IsLocked \/ ~HoldOpen'
  PROVE  Exposed' \subseteq Exposed
<1>0. /\ flip \in [Outputs -> Nothing .. MaxLocks] /\ screen \in [Outputs -> Nothing .. MaxLocks]
  BY DEF IInv, TypeOK, ScreensTypeOK
<1>u. ASSUME UNCHANGED <<flip, screen>> PROVE Exposed' \subseteq Exposed
  BY <1>u DEF Exposed
<1>1. CASE LockSession \/ InputStep
  BY <1>1, <1>u DEF LockSession, InputStep, SessionTakesInput, SessionDropsInput, RestoreKeyboardFocus, KeyPress,
                    onlyInput, screenVars
<1>2. CASE TimerStep
  BY <1>2, <1>u DEF TimerStep, HoldPasses, HoldTimer, WatchLock, WindowSlides, GuardTimer, GuardSession,
                    RaiseGuard, LockWithoutClient, screenVars
<1>3. CASE Power \/ SwitchVT
  <2>1. CASE Power
    <3>1. PICK os \in PowerTargets, on \in BOOLEAN : SetPower(os, on)
      BY <2>1 DEF Power
    <3>2. \A o \in Outputs : flip'[o] \in {flip[o], Nothing} /\ screen'[o] \in {screen[o], Nothing}
      BY <1>0, <3>1 DEF SetPower
    <3> QED BY <3>2 DEF Exposed, Nothing, SessionFrame
  <2>2. CASE SwitchVT
    <3>1. \A o \in Outputs : flip'[o] \in {flip[o], Nothing} /\ screen'[o] \in {screen[o], Nothing}
      BY <1>0, <2>2 DEF SwitchVT, PauseSession, ActivateSession
    <3> QED BY <3>1 DEF Exposed, Nothing, SessionFrame
  <2> QED BY <1>3, <2>1, <2>2
<1>4. ASSUME NEW c \in Clients, ClientStep(c)
      PROVE  Exposed' \subseteq Exposed
  BY <1>4, <1>u DEF ClientStep, StartClient, LockRequest, Refuse, TakeLock, Unlock, ClientDies, NewSurface,
                    CommitBuffer, screenVars
<1>5. ASSUME NEW o \in Outputs, OutputStep(o)
      PROVE  Exposed' \subseteq Exposed
  <2>d. ASSUME NEW shown \in Nothing .. MaxLocks, NEW v \in BOOLEAN,
               shown = SessionFrame => o \in Exposed, Draw(o, shown, v), UNCHANGED frameFrame
        PROVE  Exposed' \subseteq Exposed
    <3>1. IsLocked
      BY <2>d DEF IsLocked, Draw, LockFrameShown
    <3> QED BY <2>d, <3>1, DrawCovers
  <2>s. ASSUME NEW shown \in Nothing .. MaxLocks,
               shown = SessionFrame => o \in Exposed, Settle(o, shown)
        PROVE  Exposed' \subseteq Exposed
    BY <1>0, <2>s DEF Settle, Exposed, Nothing, SessionFrame
  <2>0. /\ screen[o] \in Nothing .. MaxLocks /\ (screen[o] = SessionFrame => o \in Exposed)
        /\ flip[o] \in Nothing .. MaxLocks /\ (flip[o] = SessionFrame => o \in Exposed)
    BY <1>0 DEF Exposed
  <2>1. CASE Render(o)
    <3>1. CASE o \in powered
      BY <2>0, <2>1, <3>1, <2>d DEF Render
    <3>2. CASE o \notin powered
      BY <2>1, <3>2, <1>u DEF Render
    <3> QED BY <3>1, <3>2
  <2>2. CASE VBlank(o)
    <3> DEFINE shown == IF vtActive THEN flip[o] ELSE Nothing
    <3>1. shown \in Nothing .. MaxLocks /\ (shown = SessionFrame => o \in Exposed)
      BY <2>0 DEF Nothing, SessionFrame
    <3>2. (Draw(o, shown, TRUE) \/ Settle(o, shown)) /\ UNCHANGED frameFrame
      BY <2>2 DEF VBlank
    <3> HIDE DEF shown
    <3> QED BY <3>1, <3>2, <2>d, <2>s
  <2>3. CASE EstimatedVBlank(o)
    BY <2>0, <2>3, <2>d, <2>s DEF EstimatedVBlank
  <2>4. CASE SceneChanges(o) \/ DropSurface(o)
    BY <2>4, <1>u DEF SceneChanges, DropSurface, screenVars
  <2>5. CASE Plug(o) \/ Unplug(o)
    <3>1. \A p \in Outputs : flip'[p] \in {flip[p], Nothing} /\ screen'[p] \in {screen[p], Nothing}
      BY <1>0, <2>5 DEF Plug, Unplug, Connect, Disconnect
    <3> QED BY <3>1 DEF Exposed, Nothing, SessionFrame
  <2> QED BY <1>5, <2>1, <2>2, <2>3, <2>4, <2>5 DEF OutputStep
<1>6. CASE UNCHANGED vars
  BY <1>6, <1>u DEF vars, screenVars
<1> QED BY <1>1, <1>2, <1>3, <1>4, <1>5, <1>6 DEF Next

(* Only an open session's new lock holds the session: a hold never begins again. *)
LEMMA HoldOnlyOnce ==
  ASSUME IInv, [Next]_vars, HoldOpen'
  PROVE  HoldOpen \/ ~IsLocked
<1>1. CASE LockSession \/ InputStep
  BY <1>1 DEF LockSession, InputStep, SessionTakesInput, SessionDropsInput, RestoreKeyboardFocus, KeyPress,
              onlyInput, lockVars, HoldOpen
<1>2. CASE TimerStep
  BY <1>2 DEF TimerStep, HoldPasses, HoldTimer, WatchLock, WindowSlides, GuardTimer, GuardSession,
              RaiseGuard, LockWithoutClient, lockVars, HoldOpen
<1>3. CASE Power \/ SwitchVT \/ UNCHANGED vars
  BY <1>3 DEF Power, SwitchVT, lockOnly, vars, lockVars, HoldOpen
<1>4. ASSUME NEW c \in Clients, ClientStep(c)
      PROVE  HoldOpen \/ ~IsLocked
  BY <1>4 DEF ClientStep, StartClient, LockRequest, Refuse, TakeLock, HoldUntil, Unlock, ClientDies,
              NewSurface, CommitBuffer, lockVars, HoldOpen
<1>5. ASSUME NEW o \in Outputs, OutputStep(o)
      PROVE  HoldOpen \/ ~IsLocked
  BY <1>5 DEF OutputStep, Render, VBlank, EstimatedVBlank, Draw, LockFrameShown, SceneChanges, Plug, Unplug,
              DropSurface, lockOnly, lockVars, HoldOpen
<1> QED BY <1>1, <1>2, <1>3, <1>4, <1>5 DEF Next

(* In terms of the contract: what the invariant says of an open, a closing and a
   locked session. *)
InContract ==
  /\ InputHeldBy \in {"session", "lock", "nobody"}
  /\ IsLocked => InputHeldBy \in {"lock", "nobody"}
  /\ ~IsLocked \/ HoldOpen => HolderTold = FALSE
  /\ HolderTold \in BOOLEAN
  /\ Exposed \in SUBSET Outputs

(* The invariant implies it. *)
LEMMA ContractState == IInv => InContract
<1> SUFFICES ASSUME IInv PROVE InContract
  OBVIOUS
<1>1. /\ InputHeldBy \in {"session", "lock", "nobody"}
      /\ IsLocked => InputHeldBy \in {"lock", "nobody"}
  BY DEF InputHeldBy, IInv, TypeOK, LockedIsUnreachable
<1>2. ~IsLocked \/ HoldOpen => ~HolderTold
  BY DEF HolderTold, IInv, HolderInv, IsLocked, HoldOpen
<1>3. HolderTold \in BOOLEAN
  BY DEF HolderTold
<1> QED BY <1>1, <1>2, <1>3 DEF Exposed, InContract

(* Every step of the lock is a step of its contract, or changes nothing in it. *)
LEMMA ContractStep == IInv /\ IInv' /\ [Next]_vars => [Contract!Next]_(Contract!vars)
<1> SUFFICES ASSUME IInv, IInv', [Next]_vars
             PROVE  Contract!Next
  BY DEF Contract!vars
<1> USE DEF Phase
<1>s. InContract /\ InContract'
  BY ContractState, PTL
<1> USE DEF InContract
<1>n. HoldOpen => IsLocked
  BY DEF HoldOpen, IsLocked
<1>1. CASE ~IsLocked /\ ~IsLocked'
  <2>1. HolderTold' = HolderTold
    BY <1>1, <1>s
  <2>2. Contract!Use
    BY <1>1, <1>s, <2>1 DEF Contract!Use
  <2> QED BY <2>2 DEF Contract!Next
<1>2. CASE ~IsLocked /\ IsLocked'
  <2>1. Exposed' \subseteq Exposed
    BY <1>2, StepCovers
  <2>2. Contract!Lock
    BY <1>2, <1>s, <2>1 DEF Contract!Lock, Contract!OutOfReach, Contract!OnlyCovers
  <2> QED BY <2>2 DEF Contract!Next
<1>3. CASE IsLocked /\ ~IsLocked'
  <2>1. PICK c \in Clients : Unlock(c)
    BY <1>3, StaysLocked DEF IsLocked
  <2>2. holder = c /\ client[c] = "told"
    BY <2>1 DEF Unlock, MayUnlock
  <2>3. HolderTold /\ ~HoldOpen
    BY <2>2, <1>s DEF HolderTold
  <2>4. Exposed' = Exposed
    BY <2>1 DEF Unlock, Exposed
  <2>5. InputHeldBy' \in {"session", "nobody"}
    BY <1>3, <2>1 DEF Unlock, InputHeldBy, IInv, LockedIsUnreachable
  <2>6. Contract!Unlock
    BY <1>3, <1>s, <2>3, <2>4, <2>5 DEF Contract!Unlock
  <2> QED BY <2>6 DEF Contract!Next
<1>4. CASE HoldOpen /\ HoldOpen'
  <2>1. IsLocked /\ IsLocked'
    BY <1>4 DEF HoldOpen, IsLocked
  <2>2. HolderTold' = HolderTold
    BY <1>4, <1>s
  <2>3. Contract!Hold
    BY <1>4, <1>s, <2>1, <2>2 DEF Contract!Hold, Contract!OutOfReach
  <2> QED BY <2>3 DEF Contract!Next
<1>5. CASE IsLocked /\ IsLocked' /\ ~HoldOpen'
  <2>1. Exposed' \subseteq Exposed
    BY <1>5, StepCovers
  <2>2. Contract!Close \/ Contract!Keep
    BY <1>5, <1>s, <2>1 DEF Contract!Close, Contract!Keep, Contract!OutOfReach, Contract!OnlyCovers
  <2> QED BY <2>2 DEF Contract!Next
<1> QED BY <1>1, <1>2, <1>3, <1>4, <1>5, HoldOnlyOnce

(* The lock as coded keeps the contract, for any outputs, clients and bounds and
   whatever disturbs the outputs. *)
THEOREM Refinement == Spec => KeepsContract
<1>1. Init => Contract!Init
  <2> SUFFICES ASSUME Init PROVE Contract!Init
    OBVIOUS
  <2>1. Phase = "open" /\ InputHeldBy = "session"
    BY DEF Init, Phase, IsLocked, InputHeldBy
  <2>2. HolderTold = FALSE
    BY InitIInv, ContractState DEF Init, IsLocked, InContract
  <2>3. Exposed = Outputs
    BY DEF Init, ScreensInit, Exposed
  <2> QED BY <2>1, <2>2, <2>3 DEF Contract!Init
<1> QED BY <1>1, Inductive, ContractStep, PTL DEF Spec, KeepsContract, Contract!Spec

-----------------------------------------------------------------------------
(***************************************************************************)
(* The session is covered.  What has to hold besides: the hold's timer is  *)
(* set while a hold is open, a frame is pending only on an output that     *)
(* waits for its vblank, and an output without power shows nothing and     *)
(* waits for nothing.                                                      *)
(***************************************************************************)
HoldInv == HoldOpen => holdTimer

ScreenInv ==
  \A o \in Outputs :
    /\ flip[o] # Nothing => Waiting(redraw[o])
    /\ o \notin powered => redraw[o] \in {"Idle", "Queued"} /\ screen[o] = Nothing

CoverInv == HoldInv /\ ScreenInv /\ SessionIsCovered

Due == {"Queued", "VBlankRedraw", "EstimatedRedraw"}

(* What queue_redraw does to one output: a redraw becomes due, a flip that is
   pending stays so, and an output that waits for nothing begins to wait for
   nothing. *)
LEMMA QueueKeeps ==
  ASSUME NEW rd \in [Outputs -> Redraws], NEW os, NEW o \in Outputs
  PROVE  /\ o \in os \/ rd[o] \in Due => Queue(rd, os)[o] \in Due
         /\ Waiting(rd[o]) => Waiting(Queue(rd, os)[o])
         /\ rd[o] \in {"Idle", "Queued"} => Queue(rd, os)[o] \in {"Idle", "Queued"}
  BY DEF Queue, AfterQueue, Redraws, Due, Waiting

(* The frame that render_surface chooses, and its ending, by name. *)
DrawnFrame(o, v) ==
  IF \/ v /\ mode = "Pending" /\ ((v /\ rendered[o] = generation) /\ waiting \subseteq {o})
     \/ DrawsLocked(o)
  THEN generation ELSE SessionFrame

LEMMA DrawIs ==
  ASSUME NEW o \in Outputs, NEW shown, NEW v, Draw(o, shown, v)
  PROVE  \E how \in Endings :
           /\ RenderSurface(o, DrawnFrame(o, v), how, shown)
           /\ NoteRendered(o, DrawnFrame(o, v))
           /\ IF v \/ how = "quiet"
              THEN LockFrameShown(o, \/ v /\ rendered[o] = generation
                                     \/ how = "quiet" /\ rendered'[o] = generation)
              ELSE UNCHANGED <<waiting, mode, hold, client>>
           /\ unseen' = IF \/ v /\ flip[o] = generation
                           \/ how = "quiet" /\ DrawnFrame(o, v) = generation
                        THEN unseen \ {o} ELSE unseen
  BY DEF Draw, DrawnFrame

(* A frame step draws on an output that has power, or settles it, or lets an output
   without power go Idle; nothing else of the session moves with it. *)
LEMMA FrameStepIs ==
  ASSUME ScreenInv, NEW o \in Outputs, Render(o) \/ VBlank(o) \/ EstimatedVBlank(o)
  PROVE  /\ UNCHANGED frameFrame
         /\ \/ /\ o \in powered /\ Draw(o, screen[o], FALSE) /\ ~Waiting(redraw[o])
            \/ /\ o \in powered /\ Draw(o, flip[o], TRUE) /\ flip[o] # Nothing
            \/ /\ o \in powered /\ flip[o] # Nothing
               /\ Settle(o, IF vtActive THEN flip[o] ELSE Nothing)
               /\ LockFrameShown(o, rendered[o] = generation)
               /\ unseen' = IF flip[o] = generation THEN unseen \ {o} ELSE unseen
               /\ UNCHANGED rendered
            \/ /\ o \in powered /\ Estimating(redraw[o]) /\ Settle(o, screen[o])
               /\ UNCHANGED <<rendered, waiting, mode, hold, client, unseen>>
            \/ /\ o \notin powered /\ redraw' = [redraw EXCEPT ![o] = "Idle"]
               /\ UNCHANGED <<vtActive, plugged, powered, flip, screen>>
               /\ UNCHANGED <<rendered, waiting, mode, hold, client, unseen>>
<1>1. CASE Render(o)
  BY <1>1 DEF Render, Waiting
<1>2. CASE VBlank(o)
  <2>1. o \in powered /\ flip[o] # Nothing
    BY <1>2 DEF VBlank, ScreenInv, Waiting
  <2> QED BY <1>2, <2>1 DEF VBlank
<1>3. CASE EstimatedVBlank(o)
  <2>1. o \in powered /\ Estimating(redraw[o]) /\ ~Waiting(redraw[o])
    BY <1>3 DEF EstimatedVBlank, ScreenInv, Waiting, Estimating
  <2> QED BY <1>3, <2>1 DEF EstimatedVBlank
<1> QED BY <1>1, <1>2, <1>3

(* Every other step: the outputs as they are, or only redraws asked for, or the
   environment at work.  (Plug and Unplug are steps of one output.) *)
LEMMA ScreenStepIs ==
  ASSUME [Next]_vars
  PROVE  \/ UNCHANGED screenVars
         \/ \E os : redraw' = Queue(redraw, os) /\ UNCHANGED <<vtActive, plugged, powered, flip, screen>>
         \/ Power \/ SwitchVT
         \/ \E o \in Outputs : Plug(o) \/ Unplug(o) \/ Render(o) \/ VBlank(o) \/ EstimatedVBlank(o)
<1> DEFINE Queues == \E os : redraw' = Queue(redraw, os) /\ UNCHANGED <<vtActive, plugged, powered, flip, screen>>
<1>1. CASE LockSession \/ InputStep \/ UNCHANGED vars
  BY <1>1 DEF LockSession, InputStep, SessionTakesInput, SessionDropsInput, RestoreKeyboardFocus, KeyPress,
              onlyInput, vars
<1>2. CASE TimerStep
  BY <1>2 DEF TimerStep, HoldTimer, HoldPasses, WatchLock, WindowSlides, GuardTimer, GuardSession, RaiseGuard
<1>3. ASSUME NEW c \in Clients, ClientStep(c) PROVE UNCHANGED screenVars \/ Queues
  BY <1>3 DEF ClientStep, StartClient, ClientDies, LockRequest, Refuse, TakeLock, Unlock, NewSurface,
              CommitBuffer
<1>4. ASSUME NEW o \in Outputs, SceneChanges(o) \/ DropSurface(o) PROVE UNCHANGED screenVars \/ Queues
  BY <1>4 DEF SceneChanges, DropSurface
<1> QED BY <1>1, <1>2, <1>3, <1>4 DEF Next, OutputStep

(* Flips stay where vblanks are awaited, and dark outputs dark. *)
LEMMA ScreenInvStep ==
  ASSUME IInv, ScreenInv, [Next]_vars
  PROVE  ScreenInv'
<1>0. /\ redraw \in [Outputs -> Redraws] /\ flip \in [Outputs -> Nothing .. MaxLocks]
      /\ screen \in [Outputs -> Nothing .. MaxLocks] /\ powered \subseteq plugged /\ plugged \subseteq Outputs
  BY DEF IInv, TypeOK, ScreensTypeOK
<1>1. CASE UNCHANGED screenVars
  BY <1>1 DEF ScreenInv, screenVars
<1>2. ASSUME NEW os, redraw' = Queue(redraw, os), UNCHANGED <<vtActive, plugged, powered, flip, screen>>
      PROVE  ScreenInv'
  BY <1>0, <1>2, QueueKeeps DEF ScreenInv
<1>3. CASE Power
  <2>1. PICK os \in PowerTargets, on \in BOOLEAN : SetPower(os, on)
    BY <1>3 DEF Power
  <2> DEFINE changed == {o \in os \cap plugged : (o \in powered) # on}
             rd == [o \in Outputs |-> IF o \in changed THEN (IF on THEN "Queued" ELSE "Idle") ELSE redraw[o]]
  <2>2. rd \in [Outputs -> Redraws]
    BY <1>0 DEF Redraws
  <2>3. redraw' = Queue(rd, plugged) /\ powered' = IF on THEN powered \cup changed ELSE powered \ changed
    BY <2>1 DEF SetPower
  <2>4. \A o \in Outputs : /\ flip'[o] = IF o \in changed THEN Nothing ELSE flip[o]
                           /\ screen'[o] = IF o \in changed THEN Nothing ELSE screen[o]
    BY <2>1 DEF SetPower
  <2>5. \A o \in changed : (rd[o] = IF on THEN "Queued" ELSE "Idle") /\ o \in Outputs
    BY <1>0
  <2>6. \A o \in Outputs \ changed : rd[o] = redraw[o] /\ (o \in powered' <=> o \in powered)
    BY <2>3
  <2> HIDE DEF changed, rd
  <2>7. SUFFICES ASSUME NEW o \in Outputs
                 PROVE  /\ flip'[o] # Nothing => Waiting(redraw'[o])
                        /\ o \notin powered' => redraw'[o] \in {"Idle", "Queued"} /\ screen'[o] = Nothing
    BY DEF ScreenInv
  <2>8. CASE o \in changed
    BY <2>2, <2>3, <2>4, <2>5, <2>8, QueueKeeps
  <2>9. CASE o \notin changed
    BY <2>2, <2>3, <2>4, <2>6, <2>9, QueueKeeps DEF ScreenInv
  <2> QED BY <2>8, <2>9
<1>4. CASE SwitchVT
  <2>1. CASE PauseSession
    BY <2>1 DEF PauseSession, ScreenInv
  <2>2. CASE ActivateSession
    <3>1. redraw' = Queue([o \in Outputs |-> "Idle"], plugged) /\ flip' = [o \in Outputs |-> Nothing]
          /\ UNCHANGED <<powered, screen>>
      BY <2>2 DEF ActivateSession
    <3>2. [o \in Outputs |-> "Idle"] \in [Outputs -> Redraws]
      BY DEF Redraws
    <3> QED BY <3>1, <3>2, QueueKeeps DEF ScreenInv
  <2> QED BY <1>4, <2>1, <2>2 DEF SwitchVT
<1>5. ASSUME NEW o \in Outputs, Plug(o) \/ Unplug(o) PROVE ScreenInv'
  BY <1>0, <1>5 DEF Plug, Unplug, Connect, Disconnect, ScreenInv, Waiting
<1>6. ASSUME NEW o \in Outputs, Render(o) \/ VBlank(o) \/ EstimatedVBlank(o) PROVE ScreenInv'
  <2>d. ASSUME NEW shown, NEW v, Draw(o, shown, v), o \in powered PROVE ScreenInv'
    <3>1. PICK how \in Endings : RenderSurface(o, DrawnFrame(o, v), how, shown)
      BY <2>d, DrawIs
    <3>2. /\ powered' = powered
          /\ redraw' = [redraw EXCEPT ![o] = RedrawAfter[how]]
          /\ flip' = [flip EXCEPT ![o] = IF how = "flip" THEN DrawnFrame(o, v) ELSE Nothing]
          /\ \A p \in Outputs \ {o} : screen'[p] = screen[p]
      BY <1>0, <3>1 DEF RenderSurface
    <3>3. how = "flip" => RedrawAfter[how] = "VBlank"
      BY DEF RedrawAfter
    <3> QED BY <1>0, <2>d, <3>2, <3>3 DEF ScreenInv, Waiting
  <2>s. ASSUME NEW shown, Settle(o, shown), o \in powered PROVE ScreenInv'
    BY <1>0, <2>s DEF Settle, ScreenInv
  <2>i. ASSUME o \notin powered, redraw' = [redraw EXCEPT ![o] = "Idle"], UNCHANGED <<powered, flip, screen>>
        PROVE  ScreenInv'
    BY <1>0, <2>i DEF ScreenInv, Waiting
  <2> QED BY <1>6, <2>d, <2>s, <2>i, FrameStepIs
<1> QED BY <1>1, <1>2, <1>3, <1>4, <1>5, <1>6, ScreenStepIs

(* The hold's timer is there as long as the hold: it is set with the hold, and spent
   only after it. *)
LEMMA HoldInvStep ==
  ASSUME IInv, HoldInv, [Next]_vars
  PROVE  HoldInv'
<1> SUFFICES ASSUME HoldOpen' PROVE holdTimer' = TRUE
  BY DEF HoldInv
<1>0. holdTimer \in BOOLEAN
  BY DEF IInv, TypeOK
<1>1. CASE HoldOpen
  <2>1. holdTimer = TRUE
    BY <1>0, <1>1 DEF HoldInv
  <2>2. CASE LockSession \/ InputStep \/ Power \/ SwitchVT \/ UNCHANGED vars
    BY <2>1, <2>2 DEF LockSession, InputStep, SessionTakesInput, SessionDropsInput, RestoreKeyboardFocus,
                      KeyPress, onlyInput, Power, SwitchVT, lockOnly, vars
  <2>3. CASE TimerStep
    BY <1>1, <2>1, <2>3 DEF TimerStep, HoldTimer, HoldPasses, WatchLock, WindowSlides, GuardTimer
  <2>4. ASSUME NEW c \in Clients, ClientStep(c) PROVE holdTimer' = TRUE
    BY <2>1, <2>4 DEF ClientStep, StartClient, LockRequest, Refuse, TakeLock, Unlock, ClientDies,
                      NewSurface, CommitBuffer
  <2>5. ASSUME NEW o \in Outputs, OutputStep(o) PROVE holdTimer' = TRUE
    BY <2>1, <2>5 DEF OutputStep, Render, VBlank, EstimatedVBlank, frameFrame, SceneChanges, Plug, Unplug,
                      lockOnly, DropSurface
  <2> QED BY <2>2, <2>3, <2>4, <2>5 DEF Next
<1>2. CASE ~HoldOpen
  <2>1. ~IsLocked
    BY <1>2, HoldOnlyOnce
  <2>2. mode # "Pending" /\ mode' = "Pending"
    BY <2>1 DEF IsLocked, HoldOpen
  <2>3. CASE LockSession \/ InputStep \/ TimerStep \/ Power \/ SwitchVT \/ UNCHANGED vars
    BY <2>2, <2>3 DEF LockSession, InputStep, SessionTakesInput, SessionDropsInput, RestoreKeyboardFocus,
                      KeyPress, onlyInput, Power, SwitchVT, lockOnly, lockVars, vars, TimerStep, HoldTimer,
                      HoldPasses, HoldOpen, WatchLock, WindowSlides, GuardTimer, GuardSession, RaiseGuard,
                      LockWithoutClient
  <2>4. ASSUME NEW c \in Clients, ClientStep(c) PROVE holdTimer' = TRUE
    BY <2>1, <2>2, <2>4 DEF ClientStep, StartClient, LockRequest, Refuse, TakeLock, Unlock, ClientDies,
                            NewSurface, CommitBuffer, lockVars
  <2>5. ASSUME NEW o \in Outputs, OutputStep(o) PROVE FALSE
    BY <2>2, <2>5 DEF OutputStep, Render, VBlank, EstimatedVBlank, Draw, LockFrameShown, SceneChanges,
                      Plug, Unplug, lockOnly, lockVars, DropSurface
  <2> QED BY <2>3, <2>4, <2>5 DEF Next
<1> QED BY <1>1, <1>2

(***************************************************************************)
(* One output that is covered, and a step on it.                           *)
(***************************************************************************)
Covered(o) ==
  /\ flip[o] = SessionFrame => redraw[o] \in Due
  /\ screen[o] = SessionFrame => redraw[o] \in Due \/ flip[o] > SessionFrame

(* What is drawn under a lock that must hide the session covers the output, unless
   drawing it fails. *)
LEMMA DrawCovered ==
  ASSUME IInv, MustHide, "render" \notin Disturbances,
         NEW o \in Outputs, NEW shown, NEW v, Draw(o, shown, v)
  PROVE  Covered(o)' /\ \A p \in Outputs \ {o} : Covered(p) => Covered(p)'
<1>0. /\ redraw \in [Outputs -> Redraws] /\ flip \in [Outputs -> Nothing .. MaxLocks]
      /\ screen \in [Outputs -> Nothing .. MaxLocks] /\ generation \in 0 .. MaxLocks /\ generation # 0
  BY DEF IInv, TypeOK, ScreensTypeOK, ModeInv, MustHide
<1>1. PICK how \in Endings : RenderSurface(o, DrawnFrame(o, v), how, shown)
  BY DrawIs
<1>2. DrawnFrame(o, v) = generation
  BY DEF DrawnFrame, DrawsLocked, MustHide
<1>3. how = "flip" \/ how = "quiet"
  BY <1>1 DEF RenderSurface, CanEnd, Endings
<1>4. /\ redraw' = [redraw EXCEPT ![o] = RedrawAfter[how]]
      /\ flip' = [flip EXCEPT ![o] = IF how = "flip" THEN generation ELSE Nothing]
      /\ screen' = [screen EXCEPT ![o] = IF how = "quiet" THEN generation ELSE shown]
  BY <1>1, <1>2 DEF RenderSurface
<1>5. Covered(o)'
  BY <1>0, <1>3, <1>4 DEF Covered, Nothing, SessionFrame
<1>6. \A p \in Outputs \ {o} : Covered(p) => Covered(p)'
  BY <1>0, <1>4 DEF Covered
<1> QED BY <1>5, <1>6

(* A vblank or an estimated vblank after which nothing is drawn leaves a covered
   output covered: the frame that was pending is shown, and a draw that was due is
   still due. *)
LEMMA SettleCovered ==
  ASSUME IInv, ScreenInv, NEW o \in Outputs, NEW shown, Settle(o, shown),
         \/ shown = flip[o] /\ flip[o] # Nothing
         \/ shown = Nothing
         \/ shown = screen[o] /\ Estimating(redraw[o])
  PROVE  \A p \in Outputs : Covered(p) => Covered(p)'
<1>0. /\ redraw \in [Outputs -> Redraws] /\ flip \in [Outputs -> Nothing .. MaxLocks]
      /\ screen \in [Outputs -> Nothing .. MaxLocks]
  BY DEF IInv, TypeOK, ScreensTypeOK
<1>1. /\ redraw' = [redraw EXCEPT ![o] = IF @ \in {"VBlank", "Estimated"} THEN "Idle" ELSE "Queued"]
      /\ flip' = [flip EXCEPT ![o] = Nothing]
      /\ screen' = [screen EXCEPT ![o] = shown]
  BY DEF Settle
<1>2. Covered(o) => Covered(o)'
  <2>1. redraw[o] \in Due => redraw'[o] \in Due
    BY <1>0, <1>1 DEF Due
  <2>2. Estimating(redraw[o]) => flip[o] = Nothing
    BY DEF ScreenInv, Waiting, Estimating
  <2> QED BY <1>0, <1>1, <2>1, <2>2 DEF Covered, Nothing, SessionFrame
<1>3. \A p \in Outputs \ {o} : Covered(p) => Covered(p)'
  BY <1>0, <1>1 DEF Covered
<1> QED BY <1>2, <1>3

(* Asking for redraws uncovers nothing. *)
LEMMA QueueCovered ==
  ASSUME IInv, NEW os, redraw' = Queue(redraw, os), UNCHANGED <<flip, screen>>
  PROVE  \A p \in Outputs : p \in os \/ Covered(p) => Covered(p)'
<1>1. redraw \in [Outputs -> Redraws]
  BY DEF IInv, TypeOK, ScreensTypeOK
<1> QED BY <1>1, QueueKeeps DEF Covered

LEMMA UnchangedCovered ==
  ASSUME UNCHANGED <<redraw, flip, screen>>
  PROVE  \A p \in Outputs : Covered(p) => Covered(p)'
BY DEF Covered

(* What the environment does: it takes frames away, or has every output drawn. *)
LEMMA EnvironmentCovers ==
  ASSUME IInv, ScreenInv, \A p \in plugged : Covered(p),
         Power \/ SwitchVT \/ \E o \in Outputs : Plug(o) \/ Unplug(o)
  PROVE  \A p \in plugged' : Covered(p)'
<1>0. /\ redraw \in [Outputs -> Redraws] /\ flip \in [Outputs -> Nothing .. MaxLocks]
      /\ screen \in [Outputs -> Nothing .. MaxLocks] /\ plugged \subseteq Outputs
  BY DEF IInv, TypeOK, ScreensTypeOK
<1>1. CASE Power
  <2>1. PICK os \in PowerTargets, on \in BOOLEAN : SetPower(os, on)
    BY <1>1 DEF Power
  <2> DEFINE rd == [o \in Outputs |-> IF o \in {q \in os \cap plugged : (q \in powered) # on}
                                     THEN (IF on THEN "Queued" ELSE "Idle") ELSE redraw[o]]
  <2>2. rd \in [Outputs -> Redraws]
    BY <1>0 DEF Redraws
  <2>3. redraw' = Queue(rd, plugged) /\ plugged' = plugged
    BY <2>1 DEF SetPower
  <2> HIDE DEF rd
  <2>4. \A p \in plugged' : redraw'[p] \in Due
    BY <1>0, <2>2, <2>3, QueueKeeps
  <2> QED BY <2>4 DEF Covered
<1>2. CASE PauseSession
  BY <1>0, <1>2 DEF PauseSession, Covered, Nothing, SessionFrame
<1>3. CASE ActivateSession
  <2>1. redraw' = Queue([o \in Outputs |-> "Idle"], plugged) /\ plugged' = plugged
    BY <1>3 DEF ActivateSession
  <2>2. [o \in Outputs |-> "Idle"] \in [Outputs -> Redraws]
    BY DEF Redraws
  <2>3. \A p \in plugged' : redraw'[p] \in Due
    BY <1>0, <2>1, <2>2, QueueKeeps
  <2> QED BY <2>3 DEF Covered
<1>4. ASSUME NEW o \in Outputs, Plug(o) PROVE \A p \in plugged' : Covered(p)'
  BY <1>0, <1>4 DEF Plug, Connect, Covered, Due
<1>5. ASSUME NEW o \in Outputs, Unplug(o) PROVE \A p \in plugged' : Covered(p)'
  BY <1>0, <1>5 DEF Unplug, Disconnect, Covered
<1> QED BY <1>1, <1>2, <1>3, <1>4, <1>5 DEF SwitchVT

(* A step that locks the session, or moves the hold's timer, has every output drawn
   again. *)
QueuesAll == redraw' = Queue(redraw, plugged) /\ UNCHANGED <<plugged, flip, screen>>

LEMMA LockQueuesAll ==
  ASSUME [Next]_vars, ~QueuesAll
  PROVE  holdTimer' = holdTimer /\ (IsLocked' => IsLocked)
<1> USE DEF IsLocked
<1>1. CASE LockSession \/ InputStep \/ Power \/ SwitchVT \/ UNCHANGED vars
  BY <1>1 DEF LockSession, InputStep, SessionTakesInput, SessionDropsInput, RestoreKeyboardFocus,
              KeyPress, onlyInput, Power, SwitchVT, lockOnly, lockVars, vars
<1>2. CASE TimerStep
  BY <1>2 DEF TimerStep, HoldTimer, HoldPasses, HoldOpen, WatchLock, WindowSlides, GuardTimer, GuardSession,
              RaiseGuard, lockVars, QueuesAll
<1>3. ASSUME NEW c \in Clients, ClientStep(c) PROVE holdTimer' = holdTimer /\ (IsLocked' => IsLocked)
  BY <1>3 DEF ClientStep, StartClient, LockRequest, Refuse, TakeLock, Unlock, ClientDies,
              NewSurface, CommitBuffer, lockVars, QueuesAll
<1>4. ASSUME NEW o \in Outputs, OutputStep(o) PROVE holdTimer' = holdTimer /\ (IsLocked' => IsLocked)
  BY <1>4 DEF OutputStep, Render, VBlank, EstimatedVBlank, Draw, LockFrameShown, frameFrame, SceneChanges,
              Plug, Unplug, lockOnly, lockVars, DropSurface
<1> QED BY <1>1, <1>2, <1>3, <1>4 DEF Next

LEMMA CoveredIs ==
  SessionIsCovered <=> (MustHide => (holdTimer \/ \A o \in plugged : Covered(o)))
BY DEF SessionIsCovered, CoverIsDue, Covered, Due

(* Every step keeps the session covered. *)
LEMMA CoverStep ==
  ASSUME IInv, CoverInv, [Next]_vars, "render" \notin Disturbances
  PROVE  CoverInv'
<1>0. IInv /\ HoldInv /\ ScreenInv /\ SessionIsCovered /\ plugged \subseteq Outputs
  BY DEF CoverInv, IInv, TypeOK, ScreensTypeOK
<1>1. ASSUME MustHide', ~holdTimer' PROVE \A p \in plugged' : Covered(p)'
  <2>1. CASE QueuesAll
    BY <1>0, <2>1, QueueCovered DEF QueuesAll
  <2>2. CASE ~QueuesAll
    <3>1. ~holdTimer /\ MustHide
      BY <1>0, <1>1, <2>2, LockQueuesAll DEF MustHide, HoldInv
    <3>2. \A p \in plugged : Covered(p)
      BY <1>0, <3>1, CoveredIs
    <3>3. CASE UNCHANGED screenVars
      BY <1>0, <3>2, <3>3, UnchangedCovered DEF screenVars
    <3>4. ASSUME NEW os, redraw' = Queue(redraw, os), UNCHANGED <<vtActive, plugged, powered, flip, screen>>
          PROVE  \A p \in plugged' : Covered(p)'
      BY <1>0, <3>2, <3>4, QueueCovered
    <3>5. CASE Power \/ SwitchVT \/ \E o \in Outputs : Plug(o) \/ Unplug(o)
      BY <1>0, <3>2, <3>5, EnvironmentCovers
    <3>6. ASSUME NEW o \in Outputs, Render(o) \/ VBlank(o) \/ EstimatedVBlank(o)
          PROVE  \A p \in plugged' : Covered(p)'
      <4>d. ASSUME NEW shown, NEW v, Draw(o, shown, v) PROVE \A p \in plugged' : Covered(p)'
        <5>1. plugged' = plugged
          BY <4>d, DrawIs DEF RenderSurface
        <5> QED BY <1>0, <3>1, <3>2, <4>d, <5>1, DrawCovered
      <4>s. ASSUME NEW shown, Settle(o, shown),
                   \/ shown = flip[o] /\ flip[o] # Nothing
                   \/ shown = Nothing
                   \/ shown = screen[o] /\ Estimating(redraw[o])
            PROVE  \A p \in plugged' : Covered(p)'
        <5>1. plugged' = plugged
          BY <4>s DEF Settle
        <5> QED BY <1>0, <3>2, <4>s, <5>1, SettleCovered
      <4>i. ASSUME o \notin powered, redraw' = [redraw EXCEPT ![o] = "Idle"],
                   UNCHANGED <<vtActive, plugged, powered, flip, screen>>
            PROVE  \A p \in plugged' : Covered(p)'
        <5>1. flip[o] = Nothing /\ screen[o] = Nothing
          BY <1>0, <4>i DEF ScreenInv, Waiting
        <5>2. redraw \in [Outputs -> Redraws]
          BY DEF IInv, TypeOK, ScreensTypeOK
        <5> QED BY <1>0, <3>2, <4>i, <5>1, <5>2 DEF Covered, Nothing, SessionFrame
      <4> DEFINE vblankShows == IF vtActive THEN flip[o] ELSE Nothing
      <4>1. vblankShows = flip[o] \/ vblankShows = Nothing
        OBVIOUS
      <4>2. \/ \E shown, v : Draw(o, shown, v)
            \/ Settle(o, vblankShows) /\ flip[o] # Nothing
            \/ Settle(o, screen[o]) /\ Estimating(redraw[o])
            \/ /\ o \notin powered /\ redraw' = [redraw EXCEPT ![o] = "Idle"]
               /\ UNCHANGED <<vtActive, plugged, powered, flip, screen>>
        BY <1>0, <3>6, FrameStepIs
      <4> HIDE DEF vblankShows
      <4> QED BY <4>1, <4>2, <4>d, <4>s, <4>i
    <3> QED BY <3>3, <3>4, <3>5, <3>6, ScreenStepIs
  <2> QED BY <2>1, <2>2
<1>2. SessionIsCovered'
  <2>1. (MustHide => (holdTimer \/ \A o \in plugged : Covered(o)))' => SessionIsCovered'
    BY CoveredIs, PTL
  <2> QED BY <1>1, <2>1
<1> QED BY <1>0, <1>2, HoldInvStep, ScreenInvStep DEF CoverInv

(* Once a lock must hide the session, every output that shows a session frame, or is
   about to, is going to be drawn again (backend/tty.rs, queue_redraw_all and the
   redraw states; lock.rs, take_lock's timer).  A draw that fails is the exception:
   it leaves its output idle, with what it showed, until something else asks for a
   redraw there. *)
THEOREM SessionStaysCovered ==
  ASSUME "render" \notin Disturbances
  PROVE  Spec => []SessionIsCovered
<1>1. Init => CoverInv
  <2> SUFFICES ASSUME Init PROVE CoverInv
    OBVIOUS
  <2>1. ~IsLocked /\ ~HoldOpen /\ ~MustHide
    BY DEF Init, IsLocked, HoldOpen, MustHide
  <2>2. ScreenInv
    BY DEF Init, ScreensInit, ScreenInv
  <2> QED BY <2>1, <2>2 DEF CoverInv, HoldInv, SessionIsCovered
<1>2. IInv /\ CoverInv /\ [Next]_vars => CoverInv'
  BY CoverStep
<1>3. CoverInv => SessionIsCovered
  BY DEF CoverInv
<1> QED BY <1>1, <1>2, <1>3, Inductive, PTL DEF Spec

-----------------------------------------------------------------------------
(***************************************************************************)
(* Told means shown.  While somebody is there to be told (a live holder,   *)
(* or the guard), an output's mark tells the truth about it: what carries  *)
(* this lock's number has been drawn locked ever since, so a flip that is  *)
(* pending there is one of this lock's.  And nobody is waited for less     *)
(* than seen.                                                              *)
(***************************************************************************)
Accountable == HolderAlive \/ mode = "Guard"

Marked(o) ==
  /\ rendered[o] <= generation
  /\ Accountable /\ rendered[o] = generation => DrawsLocked(o) /\ flip[o] \in {Nothing, generation}

ShownInv == (\A o \in Outputs : Marked(o)) /\ (Accountable => unseen \subseteq waiting)

LEMMA AccountableIsLocked == IInv /\ Accountable => IsLocked /\ generation # 0
BY DEF IInv, HolderInv, ModeInv, Accountable, HolderAlive, IsLocked

(* A new lock: no output carries its number, and it has seen what it waits for. *)
LEMMA NewLockShown ==
  ASSUME IInv, ShownInv, generation' = generation + 1, UNCHANGED rendered, unseen' = waiting'
  PROVE  ShownInv'
<1>1. generation \in Nat /\ rendered \in [Outputs -> Nat]
  BY DEF IInv, TypeOK
<1>2. \A o \in Outputs : rendered'[o] < generation' /\ rendered'[o] <= generation'
  BY <1>1 DEF ShownInv, Marked
<1> QED BY <1>1, <1>2 DEF ShownInv, Marked

(* What leaves the lock's number, its marks and its waiting alone, and takes frames
   or holds away at most, keeps the marks true. *)
LEMMA MarksStay ==
  ASSUME IInv, ShownInv, UNCHANGED <<generation, rendered, waiting, unseen>>,
         Accountable' => Accountable,
         Accountable' => \A o \in Outputs : /\ DrawsLocked(o) => DrawsLocked(o)'
                                           /\ flip'[o] \in {flip[o], Nothing}
  PROVE  ShownInv'
<1>1. ASSUME NEW o \in Outputs PROVE Marked(o)'
  <2>1. rendered'[o] <= generation'
    BY DEF ShownInv, Marked
  <2>2. ASSUME Accountable', rendered'[o] = generation' PROVE DrawsLocked(o)' /\ flip'[o] \in {Nothing, generation'}
    BY <2>2 DEF ShownInv, Marked
  <2> QED BY <2>1, <2>2 DEF Marked
<1>2. Accountable' => unseen' \subseteq waiting'
  BY DEF ShownInv
<1> QED BY <1>1, <1>2 DEF ShownInv

(* The steps of the clients. *)
LEMMA ClientShown ==
  ASSUME IInv, ShownInv, NEW c \in Clients, ClientStep(c)
  PROVE  ShownInv'
<1>1. CASE StartClient(c) \/ (LockRequest(c) /\ HolderAlive)
  BY <1>1, MarksStay DEF StartClient, LockRequest, Refuse, lockVars, screenVars, Accountable, HolderAlive,
                         DrawsLocked, HoldOpen, IsLocked
<1>2. CASE LockRequest(c) /\ ~HolderAlive
  BY <1>2, NewLockShown DEF LockRequest, TakeLock
<1>3. CASE Unlock(c)
  <2>1. generation \in Nat /\ UNCHANGED <<generation, rendered, waiting, unseen>> /\ ~Accountable'
    BY <1>3 DEF IInv, TypeOK, Unlock, Accountable, HolderAlive
  <2> QED BY <2>1, MarksStay
<1>4. CASE ClientDies(c)
  <2>1. UNCHANGED <<mode, waiting, hold, generation, rendered, unseen, flip>>
    BY <1>4 DEF ClientDies, screenVars
  <2>2. CASE holder = c
    <3>1. ~Accountable'
      BY <1>4, <2>1, <2>2 DEF ClientDies, IInv, HolderInv, Accountable, HolderAlive
    <3> QED BY <2>1, <3>1, MarksStay
  <2>3. CASE holder # c
    <3>1. UNCHANGED <<holder, surfaces>>
      BY <1>4, <2>3 DEF ClientDies
    <3> QED BY <2>1, <3>1, MarksStay DEF Accountable, HolderAlive, DrawsLocked, HoldOpen, IsLocked
  <2> QED BY <2>2, <2>3
<1>5. ASSUME NEW o \in Outputs, NewSurface(c, o) \/ CommitBuffer(c, o) PROVE ShownInv'
  <2>1. UNCHANGED <<mode, holder, waiting, hold, generation, rendered, unseen, flip>>
    BY <1>5 DEF NewSurface, CommitBuffer
  <2>2. surfaces \in [Outputs -> {"none", "bare", "drawn"}]
    BY DEF IInv, TypeOK
  <2>3. \A p \in Outputs : surfaces[p] = "drawn" => surfaces'[p] = "drawn"
    BY <1>5, <2>2 DEF NewSurface, CommitBuffer
  <2> QED BY <2>1, <2>3, MarksStay DEF Accountable, HolderAlive, DrawsLocked, HoldOpen, IsLocked
<1> QED BY <1>1, <1>2, <1>3, <1>4, <1>5 DEF ClientStep

(* A vblank or a frame found to be shown counts for an output when the frame is this
   lock's, and what is drawn there is marked as what it is. *)
LEMMA CountsShown ==
  ASSUME IInv, ShownInv, NEW o \in Outputs, NEW counts \in BOOLEAN,
         LockFrameShown(o, counts), UNCHANGED <<holder, generation, surfaces>>,
         unseen' \in {unseen, unseen \ {o}},
         Accountable /\ counts => unseen' = unseen \ {o},
         \A p \in Outputs \ {o} : rendered'[p] = rendered[p] /\ flip'[p] = flip[p],
         rendered'[o] <= generation,
         Accountable /\ rendered'[o] = generation => DrawsLocked(o)' /\ flip'[o] \in {Nothing, generation}
  PROVE  ShownInv'
<1>1. /\ waiting' = IF counts THEN waiting \ {o} ELSE waiting
      /\ \/ mode = "Pending" /\ mode' = "Locked" /\ hold' = "none"
         \/ UNCHANGED <<mode, hold>>
  BY DEF LockFrameShown, StillWaiting
<1>2. Accountable' <=> Accountable
  BY <1>1 DEF Accountable, HolderAlive
<1>3. \A p \in Outputs : DrawsLocked(p) => DrawsLocked(p)'
  BY <1>1 DEF DrawsLocked, HoldOpen, IsLocked
<1>4. ASSUME NEW p \in Outputs \ {o} PROVE Marked(p)'
  BY <1>2, <1>3 DEF ShownInv, Marked
<1>5. Marked(o)'
  BY <1>2 DEF Marked
<1>6. Accountable' => unseen' \subseteq waiting'
  BY <1>1, <1>2 DEF ShownInv
<1> QED BY <1>4, <1>5, <1>6 DEF ShownInv

(* The frames. *)
LEMMA FramesShown ==
  ASSUME IInv, ShownInv, ScreenInv, NEW o \in Outputs, Render(o) \/ VBlank(o) \/ EstimatedVBlank(o)
  PROVE  ShownInv'
<1>0. /\ flip \in [Outputs -> Nothing .. MaxLocks] /\ rendered \in [Outputs -> 0 .. MaxLocks]
      /\ generation \in 0 .. MaxLocks
  BY DEF IInv, TypeOK, ScreensTypeOK
<1>h. UNCHANGED <<holder, generation, surfaces>>
  BY FrameStepIs DEF frameFrame
<1>m. /\ rendered[o] <= generation
      /\ Accountable /\ rendered[o] = generation => DrawsLocked(o) /\ flip[o] \in {Nothing, generation}
  BY DEF ShownInv, Marked
<1>d. ASSUME NEW shown, NEW v \in BOOLEAN, Draw(o, shown, v), v => flip[o] # Nothing PROVE ShownInv'
  <2> DEFINE frame == DrawnFrame(o, v)
  <2>1. PICK how \in Endings :
          /\ RenderSurface(o, frame, how, shown)
          /\ NoteRendered(o, frame)
          /\ IF v \/ how = "quiet"
             THEN LockFrameShown(o, \/ v /\ rendered[o] = generation
                                    \/ how = "quiet" /\ rendered'[o] = generation)
             ELSE UNCHANGED <<waiting, mode, hold, client>>
          /\ unseen' = IF \/ v /\ flip[o] = generation
                          \/ how = "quiet" /\ frame = generation
                       THEN unseen \ {o} ELSE unseen
    BY <1>d, DrawIs
  <2>2. /\ frame \in {SessionFrame, generation}
        /\ DrawsLocked(o) => frame = generation
    BY DEF DrawnFrame
  <2>3. frame = generation /\ Accountable =>
          \/ DrawsLocked(o)
          \/ v /\ mode = "Pending" /\ rendered[o] = generation /\ waiting \subseteq {o}
    BY AccountableIsLocked DEF DrawnFrame, SessionFrame
  <2> HIDE DEF frame
  <2>4. /\ flip' = [flip EXCEPT ![o] = IF how = "flip" THEN frame ELSE Nothing]
        /\ rendered' = IF frame = SessionFrame THEN rendered ELSE [rendered EXCEPT ![o] = frame]
    BY <2>1 DEF RenderSurface, NoteRendered
  <2>5. \A p \in Outputs \ {o} : rendered'[p] = rendered[p] /\ flip'[p] = flip[p]
    BY <1>0, <2>4
  <2>6. rendered'[o] <= generation
    BY <1>0, <1>m, <2>2, <2>4
  <2>7. Accountable /\ rendered'[o] = generation =>
          DrawsLocked(o) /\ frame = generation /\ flip'[o] \in {Nothing, generation}
    <3> SUFFICES ASSUME Accountable, rendered'[o] = generation
                 PROVE  DrawsLocked(o) /\ frame = generation /\ flip'[o] \in {Nothing, generation}
      OBVIOUS
    <3>1. DrawsLocked(o)
      <4>1. CASE rendered[o] = generation
        BY <1>m, <4>1
      <4>2. CASE rendered[o] # generation
        <5>1. frame = generation
          BY <1>0, <2>2, <2>4, <4>2
        <5> QED BY <2>3, <4>2, <5>1
      <4> QED BY <4>1, <4>2
    <3> QED BY <1>0, <2>2, <2>4, <3>1
  <2>8. CASE v \/ how = "quiet"
    <3> DEFINE counts == (v /\ rendered[o] = generation) \/ (how = "quiet" /\ rendered'[o] = generation)
    <3>1. counts \in BOOLEAN
      OBVIOUS
    <3>2. LockFrameShown(o, counts)
      BY <2>1, <2>8
    <3>3. unseen' \in {unseen, unseen \ {o}}
      BY <2>1
    <3>4. Accountable /\ counts => unseen' = unseen \ {o}
      BY <1>d, <1>m, <2>1, <2>7
    <3> HIDE DEF counts
    <3>5. DrawsLocked(o) => DrawsLocked(o)'
      BY <1>h, <3>2 DEF LockFrameShown, DrawsLocked, HoldOpen, IsLocked
    <3> QED BY <1>h, <2>5, <2>6, <2>7, <3>1, <3>2, <3>3, <3>4, <3>5, CountsShown
  <2>9. CASE ~(v \/ how = "quiet")
    <3>1. UNCHANGED <<waiting, mode, hold>> /\ unseen' = unseen
      BY <2>1, <2>9
    <3>2. (Accountable' <=> Accountable) /\ \A p \in Outputs : DrawsLocked(p)' <=> DrawsLocked(p)
      BY <1>h, <3>1 DEF Accountable, HolderAlive, DrawsLocked, HoldOpen, IsLocked
    <3>3. \A p \in Outputs \ {o} : Marked(p)'
      BY <1>h, <2>5, <3>2 DEF ShownInv, Marked
    <3>4. Marked(o)'
      BY <1>h, <2>6, <2>7, <3>2 DEF Marked
    <3> QED BY <3>1, <3>2, <3>3, <3>4 DEF ShownInv
  <2> QED BY <2>8, <2>9
<1>s. ASSUME NEW shown, Settle(o, shown), flip[o] # Nothing, LockFrameShown(o, rendered[o] = generation),
             unseen' = IF flip[o] = generation THEN unseen \ {o} ELSE unseen, UNCHANGED rendered
      PROVE  ShownInv'
  <2> DEFINE counts == rendered[o] = generation
  <2>1. counts \in BOOLEAN /\ LockFrameShown(o, counts)
    BY <1>s
  <2>2. unseen' \in {unseen, unseen \ {o}} /\ (Accountable /\ counts => unseen' = unseen \ {o})
    BY <1>m, <1>s
  <2>3. flip' = [flip EXCEPT ![o] = Nothing]
    BY <1>s DEF Settle
  <2>4. \A p \in Outputs \ {o} : rendered'[p] = rendered[p] /\ flip'[p] = flip[p]
    BY <1>0, <1>s, <2>3
  <2>5. rendered'[o] <= generation /\ rendered'[o] = rendered[o] /\ flip'[o] = Nothing
    BY <1>0, <1>m, <1>s, <2>3
  <2> HIDE DEF counts
  <2>6. DrawsLocked(o) => DrawsLocked(o)'
    BY <1>h, <2>1 DEF LockFrameShown, DrawsLocked, HoldOpen, IsLocked
  <2> QED BY <1>h, <1>m, <2>1, <2>2, <2>4, <2>5, <2>6, CountsShown
<1>q. ASSUME UNCHANGED <<rendered, waiting, mode, hold, unseen>>,
             \A p \in Outputs : flip'[p] \in {flip[p], Nothing}
      PROVE  ShownInv'
  BY <1>h, <1>q, MarksStay DEF Accountable, HolderAlive, DrawsLocked, HoldOpen, IsLocked
<1>e. ASSUME NEW shown, Settle(o, shown), UNCHANGED <<rendered, waiting, mode, hold, unseen>> PROVE ShownInv'
  BY <1>0, <1>e, <1>q DEF Settle
<1> QED BY <1>d, <1>s, <1>q, <1>e, FrameStepIs

(* The environment, but for a client that takes a surface back. *)
LEMMA EnvironmentShown ==
  ASSUME IInv, ShownInv, Power \/ SwitchVT \/ \E o \in Outputs : Plug(o) \/ Unplug(o)
  PROVE  ShownInv'
<1>0. /\ flip \in [Outputs -> Nothing .. MaxLocks] /\ rendered \in [Outputs -> 0 .. MaxLocks]
      /\ surfaces \in [Outputs -> {"none", "bare", "drawn"}] /\ generation \in 0 .. MaxLocks
  BY DEF IInv, TypeOK, ScreensTypeOK
<1>1. CASE Power \/ SwitchVT \/ \E o \in Outputs : Plug(o)
  <2>1. UNCHANGED <<mode, holder, hold, generation, waiting, surfaces, rendered, unseen>>
    BY <1>1 DEF Power, SwitchVT, Plug, lockOnly
  <2>2. \A p \in Outputs : flip'[p] \in {flip[p], Nothing}
    BY <1>0, <1>1 DEF Power, SetPower, SwitchVT, PauseSession, ActivateSession, Plug, Connect
  <2> QED BY <2>1, <2>2, MarksStay DEF Accountable, HolderAlive, DrawsLocked, HoldOpen, IsLocked
<1>2. ASSUME NEW o \in Outputs, Unplug(o) PROVE ShownInv'
  <2>1. /\ waiting' = IF o \in waiting THEN (waiting \ {o}) \cup {Unplugged} ELSE waiting
        /\ surfaces' = [surfaces EXCEPT ![o] = "none"] /\ rendered' = [rendered EXCEPT ![o] = 0]
        /\ flip' = [flip EXCEPT ![o] = Nothing] /\ unseen' = unseen \ {o}
        /\ UNCHANGED <<mode, holder, hold, generation>>
    BY <1>2 DEF Unplug, Disconnect, lockOnly
  <2>2. Accountable' <=> Accountable
    BY <2>1 DEF Accountable, HolderAlive
  <2>3. Marked(o)'
    <3>1. rendered'[o] = 0 /\ rendered'[o] <= generation'
      BY <1>0, <2>1
    <3>2. Accountable' => rendered'[o] # generation'
      BY <2>1, <2>2, <3>1, AccountableIsLocked
    <3> QED BY <3>1, <3>2 DEF Marked
  <2>4. ASSUME NEW p \in Outputs \ {o} PROVE Marked(p)'
    <3>1. rendered'[p] = rendered[p] /\ flip'[p] = flip[p] /\ surfaces'[p] = surfaces[p]
      BY <1>0, <2>1
    <3>2. DrawsLocked(p)' <=> DrawsLocked(p)
      BY <2>1, <3>1 DEF DrawsLocked, HoldOpen, IsLocked
    <3> QED BY <2>1, <2>2, <3>1, <3>2 DEF ShownInv, Marked
  <2>5. Accountable' => unseen' \subseteq waiting'
    BY <2>1, <2>2 DEF ShownInv
  <2> QED BY <2>3, <2>4, <2>5 DEF ShownInv
<1> QED BY <1>1, <1>2

(* Every step keeps the marks true. *)
LEMMA ShownStep ==
  ASSUME IInv, ShownInv, ScreenInv, [Next]_vars, "surface" \notin Disturbances
  PROVE  ShownInv'
<1>u. ASSUME UNCHANGED <<mode, holder, waiting, hold, generation, surfaces, rendered, flip, unseen>>
      PROVE  ShownInv'
  BY <1>u, MarksStay DEF Accountable, HolderAlive, DrawsLocked, HoldOpen, IsLocked
<1>1. CASE LockSession \/ InputStep \/ UNCHANGED vars
  BY <1>1, <1>u DEF LockSession, InputStep, SessionTakesInput, SessionDropsInput, RestoreKeyboardFocus,
                    KeyPress, onlyInput, lockVars, screenVars, vars
<1>2. CASE TimerStep
  <2>1. CASE HoldPasses
    <3>1. /\ UNCHANGED <<mode, holder, waiting, generation, surfaces, rendered, flip, unseen>>
          /\ mode = "Pending" /\ hold' = "over"
      BY <2>1 DEF HoldPasses, HoldOpen, screenVars
    <3> QED BY <3>1, MarksStay DEF Accountable, HolderAlive, DrawsLocked, HoldOpen, IsLocked
  <2>2. CASE HoldTimer \/ WatchLock \/ WindowSlides
    BY <2>2, <1>u DEF HoldTimer, WatchLock, WindowSlides, lockVars, screenVars
  <2>3. ASSUME NEW ask \in 1 .. MaxAsks, GuardTimer(ask) PROVE ShownInv'
    <3>1. CASE RaiseGuard
      BY <3>1, NewLockShown DEF RaiseGuard, LockWithoutClient
    <3>2. CASE ~RaiseGuard
      BY <2>3, <3>2, <1>u DEF GuardTimer, GuardSession, lockVars, screenVars
    <3> QED BY <3>1, <3>2
  <2> QED BY <1>2, <2>1, <2>2, <2>3 DEF TimerStep
<1>3. CASE Power \/ SwitchVT \/ \E o \in Outputs : Plug(o) \/ Unplug(o)
  BY <1>3, EnvironmentShown
<1>4. ASSUME NEW c \in Clients, ClientStep(c) PROVE ShownInv'
  BY <1>4, ClientShown
<1>5. ASSUME NEW o \in Outputs, Render(o) \/ VBlank(o) \/ EstimatedVBlank(o) PROVE ShownInv'
  BY <1>5, FramesShown
<1>6. ASSUME NEW o \in Outputs, SceneChanges(o) PROVE ShownInv'
  BY <1>6, <1>u DEF SceneChanges, lockVars
<1>7. ASSUME NEW o \in Outputs, DropSurface(o) PROVE FALSE
  BY <1>7 DEF DropSurface
<1> QED BY <1>1, <1>2, <1>3, <1>4, <1>5, <1>6, <1>7 DEF Next, OutputStep

(* The client is told `locked`, and the guard lets sleep go, only after every output
   it waited for has shown a frame of this very lock, whatever fails, sleeps, is
   unplugged or switched away meanwhile (lock.rs, lock_frame_shown and
   note_rendered).  A client that takes a surface back during the hold is the
   exception: the session is drawn again under a mark that says locked. *)
THEOREM ToldIsShown ==
  ASSUME "surface" \notin Disturbances
  PROVE  Spec => []ToldMeansShown
<1>1. Init => ShownInv /\ ScreenInv
  <2> SUFFICES ASSUME Init PROVE ShownInv /\ ScreenInv
    OBVIOUS
  <2>1. ~Accountable
    BY DEF Init, Accountable, HolderAlive
  <2>2. \A o \in Outputs : rendered[o] <= generation
    <3>1. (\A o \in Outputs : rendered[o] = 0) /\ generation = 0
      BY DEF Init
    <3>2. 0 <= 0
      OBVIOUS
    <3> QED BY <3>1, <3>2
  <2>3. ScreenInv
    BY DEF Init, ScreensInit, ScreenInv
  <2> QED BY <2>1, <2>2, <2>3 DEF ShownInv, Marked
<1>2. IInv /\ ShownInv /\ ScreenInv /\ [Next]_vars => ShownInv' /\ ScreenInv'
  BY ShownStep, ScreenInvStep
<1>3. IInv /\ ShownInv => ToldMeansShown
  BY DEF IInv, ModeInv, ShownInv, Accountable, ToldMeansShown
<1> QED BY <1>1, <1>2, <1>3, Inductive, PTL DEF Spec

-----------------------------------------------------------------------------
(***************************************************************************)
(* What the liveness of the lock rests on: each thing that is waited for   *)
(* has the timer that ends the wait.                                       *)
(***************************************************************************)
AskTimed == awaiting # 0 => awaiting \in guardTimers
WaitsAreTimed == AskTimed /\ HoldInv /\ (IsLocked => watch)

SameAsk == guardTimers' = guardTimers /\ awaiting' \in {awaiting, 0}

LEMMA TimersKeepAsks ==
  ASSUME TimerStep, AskTimed
  PROVE  AskTimed'
<1>1. CASE HoldPasses
  BY <1>1 DEF HoldPasses, askVars, AskTimed
<1>2. CASE HoldTimer
  BY <1>2 DEF HoldTimer, askVars, AskTimed
<1>3. CASE WatchLock
  BY <1>3 DEF WatchLock, askVars, AskTimed
<1>4. CASE WindowSlides
  BY <1>4 DEF WindowSlides, askVars, AskTimed
<1>5. ASSUME NEW ask \in 1 .. MaxAsks, GuardTimer(ask)
      PROVE  AskTimed'
  <2>1. guardTimers' = guardTimers \ {ask}
    BY <1>5 DEF GuardTimer
  <2>2. CASE awaiting = ask
    <3>1. awaiting' = 0
      BY <1>5, <2>2 DEF GuardTimer, GuardSession
    <3> QED BY <3>1 DEF AskTimed
  <2>3. CASE awaiting # ask
    <3>1. awaiting' = awaiting
      BY <1>5, <2>3 DEF GuardTimer
    <3> QED BY <2>1, <2>3, <3>1 DEF AskTimed
  <2> QED BY <2>2, <2>3
<1> QED BY <1>1, <1>2, <1>3, <1>4, <1>5 DEF TimerStep

LEMMA ClientsKeepAsks ==
  ASSUME NEW c \in Clients, ClientStep(c)
  PROVE  SameAsk
<1>1. CASE StartClient(c)
  BY <1>1 DEF StartClient, askVars, SameAsk
<1>2. CASE LockRequest(c)
  BY <1>2 DEF LockRequest, Answer, SameAsk
<1>3. CASE Unlock(c)
  BY <1>3 DEF Unlock, askVars, SameAsk
<1>4. CASE ClientDies(c)
  BY <1>4 DEF ClientDies, askVars, SameAsk
<1>5. ASSUME NEW o \in Outputs, NewSurface(c, o) \/ CommitBuffer(c, o)
      PROVE  SameAsk
  BY <1>5 DEF NewSurface, CommitBuffer, askVars, SameAsk
<1> QED BY <1>1, <1>2, <1>3, <1>4, <1>5 DEF ClientStep

LEMMA OutputsKeepAsks ==
  ASSUME NEW o \in Outputs, OutputStep(o)
  PROVE  SameAsk
<1>1. CASE Render(o)
  BY <1>1 DEF Render, frameFrame, askVars, SameAsk
<1>2. CASE VBlank(o)
  BY <1>2 DEF VBlank, frameFrame, askVars, SameAsk
<1>3. CASE EstimatedVBlank(o)
  BY <1>3 DEF EstimatedVBlank, frameFrame, askVars, SameAsk
<1>4. CASE SceneChanges(o)
  BY <1>4 DEF SceneChanges, askVars, SameAsk
<1>5. CASE Plug(o)
  BY <1>5 DEF Plug, lockOnly, askVars, SameAsk
<1>6. CASE Unplug(o)
  BY <1>6 DEF Unplug, lockOnly, askVars, SameAsk
<1>7. CASE DropSurface(o)
  BY <1>7 DEF DropSurface, askVars, SameAsk
<1> QED BY <1>1, <1>2, <1>3, <1>4, <1>5, <1>6, <1>7 DEF OutputStep

LEMMA InputKeepsAsks ==
  ASSUME InputStep
  PROVE  SameAsk
<1>1. CASE SessionTakesInput
  BY <1>1 DEF SessionTakesInput, onlyInput, askVars, SameAsk
<1>2. CASE SessionDropsInput
  BY <1>2 DEF SessionDropsInput, onlyInput, askVars, SameAsk
<1>3. CASE RestoreKeyboardFocus
  BY <1>3 DEF RestoreKeyboardFocus, onlyInput, askVars, SameAsk
<1>4. CASE KeyPress
  BY <1>4 DEF KeyPress, askVars, SameAsk
<1> QED BY <1>1, <1>2, <1>3, <1>4 DEF InputStep

LEMMA AskTimedStep ==
  ASSUME AskTimed, [Next]_vars
  PROVE  AskTimed'
<1>1. SameAsk => AskTimed'
  BY DEF SameAsk, AskTimed
<1>2. CASE LockSession
  <2>1. awaiting' = asked + 1 /\ guardTimers' = guardTimers \cup {asked + 1}
    BY <1>2 DEF LockSession, SetGuardTimer
  <2> QED BY <2>1 DEF AskTimed
<1>3. CASE InputStep
  BY <1>1, <1>3, InputKeepsAsks
<1>4. CASE Power \/ SwitchVT
  BY <1>1, <1>4 DEF Power, SwitchVT, lockOnly, askVars, SameAsk
<1>5. CASE UNCHANGED vars
  BY <1>1, <1>5 DEF vars, askVars, SameAsk
<1> QED BY <1>1, <1>2, <1>3, <1>4, <1>5, TimersKeepAsks, ClientsKeepAsks, OutputsKeepAsks DEF Next

(* A lock that Hyalo wants and nobody has answered has its guard's timer running, an
   open hold has the timer that ends it, and a locked session is watched, so a dead
   client is noticed: whatever asks, requests and deaths came in between. *)
THEOREM NothingWaitsUntimed == Spec => []WaitsAreTimed
<1>1. Init => AskTimed /\ HoldInv
  BY DEF Init, AskTimed, HoldInv, HoldOpen
<1>2. IInv /\ AskTimed /\ HoldInv /\ [Next]_vars => AskTimed' /\ HoldInv'
  BY AskTimedStep, HoldInvStep
<1>3. IInv /\ AskTimed /\ HoldInv => WaitsAreTimed
  BY DEF IInv, ModeInv, WaitsAreTimed
<1> QED BY <1>1, <1>2, <1>3, Inductive, PTL DEF Spec
=============================================================================
