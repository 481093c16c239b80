------------------------------ MODULE SleepLock ------------------------------
(***************************************************************************)
(* The lock before sleep (hyalo/compositor/src/logind.rs), composed with   *)
(* the session lock: logind announces sleep, a thread of the compositor    *)
(* hears it and passes it on through a channel, the event loop locks the   *)
(* session and lets go of the delay inhibitor, the machine sleeps and      *)
(* comes back.                                                             *)
(*                                                                         *)
(* logind itself is external: it waits for the delay inhibitor before it   *)
(* suspends, and refuses a new one while a sleep is under way.  It also    *)
(* stops waiting after a while (InhibitDelayMaxSec, 5 s), which takes an   *)
(* event loop that is late.  Nothing of the session runs in its sleep.     *)
(***************************************************************************)
EXTENDS SessionLock, Sequences

CONSTANTS
  MaxSleeps,     \* bound: sleeps announced
  ClientLocks,   \* bound: locks that are not the sleep handlers' own guards
  LateSleeps     \* bound: sleeps, from the first, that may find the event loop late

ASSUME SleepAssumption == MaxSleeps \in Nat \ {0} /\ ClientLocks \in Nat /\ LateSleeps \in Nat

VARIABLES
  machine,      \* "awake", "announced" (going to sleep) or "asleep"
  sleeps,       \* sleeps announced so far: the number of the present one
  signals,      \* PrepareForSleep signals the thread has not read
  events,       \* PrepareForSleep events in the channel to the event loop
  delay,        \* Login.delay holds logind's inhibitor
  sleepPending, \* Login.sleep_pending
  graceTimers,  \* SLEEP_GRACE timers, by the sleep that set them
  shownTimers,  \* GUARD_SHOWN timers, likewise (the code's timers carry no number)
  excuse        \* history: why this sleep may find the session open, or its end

machineVars == <<machine, sleeps, signals>>
loginVars == <<sleepPending, graceTimers, shownTimers>>
sleepVars == <<machineVars, events, delay, loginVars, excuse>>
allVars == <<vars, sleepVars>>

Signals == {"sleep", "wake"}    \* PrepareForSleep(true) and (false)
Excuses == {"opened", "unheld", "stale", "late"}

SleepTypeOK ==
  /\ machine \in {"awake", "announced", "asleep"}
  /\ sleeps \in 0 .. MaxSleeps
  /\ signals \in Seq(Signals) /\ events \in Seq(Signals)
  /\ Len(signals) + Len(events) <= 2 * MaxSleeps
  /\ delay \in BOOLEAN /\ sleepPending \in BOOLEAN
  /\ graceTimers \in SUBSET (1 .. MaxSleeps) /\ shownTimers \in SUBSET (1 .. MaxSleeps)
  /\ excuse \in SUBSET Excuses

SleepInit ==
  /\ Init
  /\ machine = "awake" /\ sleeps = 0 /\ signals = <<>> /\ events = <<>>
  /\ delay = TRUE /\ sleepPending = FALSE
  /\ graceTimers = {} /\ shownTimers = {} /\ excuse = {}

\* History: being locked again needs no excuse, being opened is one.
Excused(e) == IF IsLocked' THEN e \ {"opened", "stale"} ELSE IF IsLocked THEN e \cup {"opened"} ELSE e

Running == machine # "asleep"
Quiet == signals = <<>> /\ events = <<>>

-----------------------------------------------------------------------------
(***************************************************************************)
(* logind.                                                                 *)
(***************************************************************************)
Announce ==
  /\ machine = "awake" /\ sleeps < MaxSleeps
  /\ machine' = "announced"
  /\ sleeps' = sleeps + 1
  /\ signals' = Append(signals, "sleep")
  /\ excuse' = IF ~delay THEN {"unheld"} ELSE IF Quiet THEN {} ELSE excuse \cap {"unheld", "late"}
  /\ UNCHANGED <<vars, events, delay, loginVars>>

FallAsleep(why) ==
  /\ machine = "announced" /\ machine' = "asleep"
  /\ excuse' = (excuse \ {"opened"}) \cup why
  /\ UNCHANGED <<vars, sleeps, signals, events, delay, loginVars>>

Suspend == ~delay /\ FallAsleep({})

\* logind waits for an inhibitor until its cap (InhibitDelayMaxSec) only.
Overtake == delay /\ sleeps <= LateSleeps /\ FallAsleep({"late"})

Resume ==
  /\ machine = "asleep"
  /\ machine' = "awake"
  /\ signals' = Append(signals, "wake")
  /\ UNCHANGED <<vars, sleeps, events, delay, loginVars, excuse>>

(***************************************************************************)
(* The hyalo-logind thread: on the way back the inhibitor is taken before  *)
(* the event is sent.                                                      *)
(***************************************************************************)
\* Mutant: the inhibitor is not taken again.
TakeDelayNever == UNCHANGED delay
TakeDelay == delay' = (delay \/ machine = "awake")

\* Mutant: the signal stays to be read again.
ReadSignalAgain == UNCHANGED signals
ReadSignal == signals' = Tail(signals)

ThreadHears ==
  /\ Running /\ signals # <<>>
  /\ ReadSignal
  /\ IF Head(signals) = "wake" THEN TakeDelay ELSE UNCHANGED delay
  /\ events' = Append(events, Head(signals))
  /\ UNCHANGED <<vars, machine, sleeps, loginVars, excuse>>

-----------------------------------------------------------------------------
(***************************************************************************)
(* release_sleep_delay, and lock_confirmed_for_sleep, which lock.rs calls  *)
(* in the step that confirms a lock or brings the guard on screen.         *)
(***************************************************************************)
Release == sleepPending' = FALSE /\ delay' = FALSE
Hold == UNCHANGED <<sleepPending, delay>>

ConfirmsLock == mode' = "Locked" /\ (mode = "Locked" => generation' # generation)
ShowsGuard == mode' = "Guard" /\ waiting' = {} /\ (mode = "Guard" => waiting # {})

LockConfirmedForSleep ==
  IF (ConfirmsLock \/ ShowsGuard) /\ sleepPending THEN Release ELSE Hold

(***************************************************************************)
(* A step of the lock while the machine runs.                              *)
(***************************************************************************)
LockStep ==
  /\ Running /\ Next
  /\ generation' # generation => generation < ClientLocks      \* bound
  /\ asked' # asked => asked + MaxSleeps < MaxAsks             \* bound
  /\ LockConfirmedForSleep
  /\ excuse' = Excused(excuse)
  /\ UNCHANGED <<machineVars, events, graceTimers, shownTimers>>

(***************************************************************************)
(* on_login_event.                                                         *)
(***************************************************************************)
GoingToSleep ==
  /\ Running /\ events # <<>> /\ Head(events) = "sleep"
  /\ events' = Tail(events)
  /\ IF IsLocked
     THEN /\ Release
          /\ UNCHANGED <<vars, graceTimers, shownTimers>>
     ELSE /\ sleepPending' = TRUE
          /\ LockSession
          /\ graceTimers' = graceTimers \cup {sleeps}
          /\ UNCHANGED <<delay, shownTimers>>
  /\ UNCHANGED <<machineVars, excuse>>

\* Mutant: the wait for the guard has no end of its own.
SetShownTimerNever(n) == UNCHANGED shownTimers
SetShownTimer(n) == shownTimers' = shownTimers \cup {n}

\* Mutant: at the end of the grace sleep goes ahead whatever the lock's state.
GraceTimerNoGuard(n) ==
  /\ Running /\ n \in graceTimers
  /\ graceTimers' = graceTimers \ {n}
  /\ IF sleepPending THEN Release ELSE Hold
  /\ UNCHANGED <<vars, shownTimers, machineVars, events, excuse>>

GraceTimer(n) ==
  /\ Running /\ n \in graceTimers
  /\ graceTimers' = graceTimers \ {n}
  /\ IF ~sleepPending
     THEN Hold /\ UNCHANGED <<vars, shownTimers>>
     ELSE IF IsLocked
     THEN Release /\ UNCHANGED <<vars, shownTimers>>
     ELSE /\ GuardSession
          /\ UNCHANGED <<asked, guardTimers, answered, holdTimer>>
          /\ LockConfirmedForSleep
          /\ SetShownTimer(n)
  /\ excuse' = Excused(excuse)
  /\ UNCHANGED <<machineVars, events>>

ShownTimer(n) ==
  /\ Running /\ n \in shownTimers
  /\ shownTimers' = shownTimers \ {n}
  /\ IF sleepPending
     THEN /\ Release
          /\ excuse' = IF IsLocked THEN excuse ELSE excuse \cup {"stale"}
     ELSE Hold /\ UNCHANGED excuse
  /\ UNCHANGED <<vars, machineVars, events, graceTimers>>

\* Mutant: a session that came back open is left so.
FloorAbsent == UNCHANGED <<lockVars, launchVars, inputVars, client, unseen, awaiting>>
Floor ==
  IF IsLocked
  THEN UNCHANGED <<lockVars, launchVars, inputVars, client, unseen, awaiting>>
  ELSE awaiting' = 0 /\ LockWithoutClient

BackFromSleep ==
  /\ Running /\ events # <<>> /\ Head(events) = "wake"
  /\ events' = Tail(events)
  /\ sleepPending' = FALSE
  /\ Floor
  /\ SetPower(plugged, TRUE)
  /\ UNCHANGED <<asked, guardTimers, answered, holdTimer>>
  /\ excuse' = Excused(excuse)
  /\ UNCHANGED <<machineVars, delay, graceTimers, shownTimers>>

-----------------------------------------------------------------------------
SleepNext ==
  \/ LockStep
  \/ Announce \/ Suspend \/ Overtake \/ Resume \/ ThreadHears
  \/ GoingToSleep \/ BackFromSleep
  \/ \E n \in 1 .. MaxSleeps : GraceTimer(n) \/ ShownTimer(n)

SleepSpec == SleepInit /\ [][SleepNext]_allVars
-----------------------------------------------------------------------------
(***************************************************************************)
(* Safety.                                                                 *)
(***************************************************************************)
Suspends == machine = "announced" /\ machine' = "asleep"
LetsGo == delay /\ ~delay'
QuietAwake == machine = "awake" /\ Quiet

(* Once the inhibitor is let go the machine sleeps only with the session locked,
   unless a client opened it after the sleep was announced and nothing locked it
   since, the inhibitor was not held at the announcement (of this sleep, or of one
   whose end is still to be heard), or a timer of an earlier sleep let go. *)
SleepsLocked == [][Suspends /\ ~delay => IsLocked \/ excuse \ {"late"} # {}]_allVars

(* Nothing comes back unlocked: once the event loop has heard of the way back the
   session is locked until a client opens it, however it went to sleep and however
   late the loop was. *)
ComesBackLocked == QuietAwake /\ sleeps > 0 => IsLocked \/ "opened" \in excuse

(* Between sleeps the inhibitor is held: no late answer to one sleep takes away
   what protects the next, unless the machine was sent back to sleep before the
   thread could take it again, or slept before the event loop had answered. *)
InhibitorBack == QuietAwake /\ excuse \cap {"unheld", "late"} = {} => delay

(***************************************************************************)
(* Liveness.  The thread, the event loop and logind go on; frames, lock    *)
(* clients and users need not.                                             *)
(***************************************************************************)
SleepFairness ==
  /\ WF_allVars(ThreadHears) /\ WF_allVars(Suspend)
  /\ WF_allVars(GoingToSleep) /\ WF_allVars(BackFromSleep)
  /\ \A n \in 1 .. MaxSleeps : WF_allVars(GraceTimer(n)) /\ WF_allVars(ShownTimer(n))

FairSleepSpec == SleepSpec /\ SleepFairness

(* Sleep is delayed, never prevented: whatever the lock client does, and though no
   frame ever reaches a screen, the inhibitor is let go. *)
SleepGoesAhead == machine = "announced" ~> machine = "asleep"

(***************************************************************************)
(* What the comments of logind.rs say and the code does not do.            *)
(***************************************************************************)
(* "the guard did not reach the screen in time; the computer sleeps locked"
   (logind.rs:287): the timer of an earlier sleep lets go of an open session. *)
LetGoOnlyLocked == [][LetsGo => IsLocked']_allVars
=============================================================================
