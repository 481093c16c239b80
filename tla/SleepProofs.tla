---------------------------- MODULE SleepProofs ----------------------------
(***************************************************************************)
(* Proofs about SleepLock, for every instance of the session lock and any  *)
(* number of sleeps.  Of the lock they need only what a step may do to     *)
(* `mode`: a guard locks, and the inhibitor is let go with a lock.         *)
(***************************************************************************)
EXTENDS SleepLock, SequenceTheorems, TLAPS

USE SleepAssumption DEF SleepAssumption

(***************************************************************************)
(* What is under way: a sleep brings two signals, the thread and the event *)
(* loop take them in order, and awake the last of them is that of the way  *)
(* back.                                                                   *)
(***************************************************************************)
Ends(s, e) == s # <<>> => s[Len(s)] = e
AllBack(s) == \A i \in 1 .. Len(s) : s[i] = "wake"
BackButLast(s) == \A i \in 1 .. Len(s) - 1 : s[i] = "wake"

Sent == 2 * sleeps - (IF machine = "awake" THEN 0 ELSE 1)
QueueInv ==
  /\ machine # "awake" => sleeps > 0
  /\ Len(signals) + Len(events) <= Sent

BackInv ==
  /\ machine = "awake" => IF signals # <<>> THEN Ends(signals, "wake") ELSE Ends(events, "wake")
  /\ QuietAwake => ~sleepPending
  /\ ComesBackLocked

(***************************************************************************)
(* Without an inhibitor a sleep that was announced has a lock or an excuse.*)
(***************************************************************************)
LetGoInv ==
  machine = "announced" /\ ~delay => IsLocked \/ excuse \cap {"opened", "unheld", "stale"} # {}

(***************************************************************************)
(* With no other excuse, one sleep is dealt with before the next: its      *)
(* announcement is the last of the queue until the event loop takes it,    *)
(* and once the inhibitor is let go nothing of it is left.                 *)
(***************************************************************************)
Announced ==
  IF signals # <<>>
  THEN AllBack(events) /\ BackButLast(signals) /\ Ends(signals, "sleep")
  ELSE BackButLast(events) /\ Ends(events, "sleep")

Dealt == Quiet /\ ~sleepPending

OneAtATime ==
  /\ machine = "announced" => Announced /\ (sleepPending => Quiet) /\ (delay \/ Dealt)
  /\ machine = "asleep" => Dealt
  /\ machine = "awake" => AllBack(signals) /\ AllBack(events) /\ ~sleepPending /\ (delay \/ signals # <<>>)

InTurn == excuse \cap {"unheld", "late"} = {} => OneAtATime

(***************************************************************************)
(* A queue when its first is taken, and when one more is put in.           *)
(***************************************************************************)
LEMMA Taken ==
  ASSUME NEW s \in Seq(Signals), s # <<>>
  PROVE  /\ Head(s) \in Signals /\ Tail(s) \in Seq(Signals)
         /\ Len(s) \in Nat \ {0} /\ Len(Tail(s)) = Len(s) - 1
         /\ Head(s) = s[1]
         /\ \A i \in 1 .. Len(Tail(s)) : Tail(s)[i] = s[i + 1]
<1>1. Len(s) \in Nat \ {0}
  BY EmptySeq
<1>2. Head(s) = s[1]
  OBVIOUS
<1> QED BY <1>1, <1>2, HeadTailProperties

LEMMA TakenEmpty == ASSUME NEW s \in Seq(Signals), s # <<>> PROVE Tail(s) = <<>> <=> Len(s) = 1
<1>1. Tail(s) \in Seq(Signals) /\ Len(Tail(s)) = Len(s) - 1 /\ Len(s) \in Nat
  BY Taken
<1>2. Tail(s) # <<>> => Len(Tail(s)) \in Nat \ {0}
  BY <1>1, EmptySeq
<1>3. Tail(s) = <<>> => Len(Tail(s)) = 0
  BY EmptySeq
<1> QED BY <1>1, <1>2, <1>3

LEMMA TakenEnds ==
  ASSUME NEW s \in Seq(Signals), s # <<>>, NEW e, Ends(s, e)
  PROVE  Ends(Tail(s), e) /\ (Tail(s) = <<>> => Head(s) = e)
<1>1. s[Len(s)] = e
  BY DEF Ends
<1>2. CASE Tail(s) = <<>>
  BY <1>1, <1>2, Taken, TakenEmpty DEF Ends
<1>3. CASE Tail(s) # <<>>
  <2>1. Len(Tail(s)) \in 1 .. Len(Tail(s)) /\ Len(Tail(s)) + 1 = Len(s)
    BY <1>3, Taken, EmptySeq
  <2> QED BY <1>1, <1>3, <2>1, Taken DEF Ends
<1> QED BY <1>2, <1>3

LEMMA TakenBack ==
  ASSUME NEW s \in Seq(Signals), s # <<>>
  PROVE  /\ AllBack(s) => Head(s) = "wake" /\ AllBack(Tail(s))
         /\ BackButLast(s) => BackButLast(Tail(s)) /\ (Head(s) = "wake" \/ Tail(s) = <<>>)
<1> DEFINE t == Tail(s)
<1>0. Len(s) \in Nat \ {0} /\ Len(t) = Len(s) - 1 /\ Head(s) = s[1] /\ \A i \in 1 .. Len(t) : t[i] = s[i + 1]
  BY Taken
<1> HIDE DEF t
<1>1. AllBack(s) => Head(s) = "wake" /\ AllBack(t)
  BY <1>0 DEF AllBack
<1>2. BackButLast(s) => BackButLast(t) /\ (Head(s) = "wake" \/ Len(s) = 1)
  BY <1>0 DEF BackButLast
<1> QED BY <1>1, <1>2, TakenEmpty DEF t

LEMMA Put ==
  ASSUME NEW s \in Seq(Signals), NEW e \in Signals
  PROVE  /\ Append(s, e) \in Seq(Signals) /\ Append(s, e) # <<>>
         /\ Len(s) \in Nat /\ Len(Append(s, e)) = Len(s) + 1
         /\ Ends(Append(s, e), e)
         /\ AllBack(s) => BackButLast(Append(s, e))
         /\ AllBack(s) /\ e = "wake" => AllBack(Append(s, e))
<1> DEFINE t == Append(s, e)
<1>1. /\ t \in Seq(Signals) /\ t # <<>> /\ Len(s) \in Nat /\ Len(t) = Len(s) + 1
      /\ \A i \in 1 .. Len(s) : t[i] = s[i]
      /\ t[Len(s) + 1] = e
  BY AppendProperties, LenProperties
<1> HIDE DEF t
<1>2. Ends(t, e)
  BY <1>1 DEF Ends
<1>3. AllBack(s) => BackButLast(t)
  BY <1>1 DEF AllBack, BackButLast
<1>4. AllBack(s) /\ e = "wake" => AllBack(t)
  BY <1>1 DEF AllBack
<1> QED BY <1>1, <1>2, <1>3, <1>4 DEF t

LEMMA NoneLeft == ASSUME NEW s, s = <<>> PROVE Len(s) = 0 /\ AllBack(s) /\ BackButLast(s)
<1>1. Len(s) = 0
  OBVIOUS
<1> QED BY <1>1 DEF AllBack, BackButLast

(***************************************************************************)
(* A step of the lock and a grace timer are alike here: nothing changes,   *)
(* or a pending sleep is let go with the session locked.                   *)
(***************************************************************************)
Guards ==
  /\ Running
  /\ Hold \/ (sleepPending /\ Release /\ IsLocked')
  /\ excuse' = Excused(excuse)
  /\ UNCHANGED <<machineVars, events>>

LEMMA LockGuards == LockStep => Guards
<1> SUFFICES ASSUME LockStep PROVE Guards
  OBVIOUS
<1>1. (ConfirmsLock \/ ShowsGuard) => IsLocked'
  BY DEF ConfirmsLock, ShowsGuard, IsLocked
<1> QED BY <1>1 DEF LockStep, Guards, LockConfirmedForSleep

LEMMA GraceGuards == ASSUME NEW n, GraceTimer(n) PROVE Guards
<1>1. CASE ~sleepPending
  BY <1>1 DEF GraceTimer, Guards
<1>2. CASE sleepPending /\ IsLocked
  <2>1. IsLocked'
    BY <1>2 DEF GraceTimer, vars, lockVars, IsLocked
  <2> QED BY <1>2, <2>1 DEF GraceTimer, Guards
<1>3. CASE sleepPending /\ ~IsLocked
  <2>1. LockConfirmedForSleep /\ excuse' = Excused(excuse) /\ Running /\ UNCHANGED <<machineVars, events>>
    BY <1>3 DEF GraceTimer
  <2>2. (ConfirmsLock \/ ShowsGuard) => IsLocked'
    BY DEF ConfirmsLock, ShowsGuard, IsLocked
  <2> QED BY <2>1, <2>2 DEF Guards, LockConfirmedForSleep
<1> QED BY <1>1, <1>2, <1>3

LEMMA FloorLocks == BackFromSleep => IsLocked'
<1> SUFFICES ASSUME BackFromSleep PROVE IsLocked'
  OBVIOUS
<1>1. Floor
  BY DEF BackFromSleep
<1> QED BY <1>1 DEF Floor, LockWithoutClient, lockVars, IsLocked

LEMMA SameLock == ASSUME UNCHANGED vars PROVE IsLocked' <=> IsLocked
BY DEF vars, lockVars, IsLocked

-----------------------------------------------------------------------------
(***************************************************************************)
(* Types, and how much is under way.                                       *)
(***************************************************************************)
SleepInv == SleepTypeOK /\ QueueInv

LEMMA SleepInitTypes == SleepInit => SleepInv
<1> SUFFICES ASSUME SleepInit PROVE SleepInv
  OBVIOUS
<1>1. machine = "awake" /\ sleeps = 0 /\ signals = <<>> /\ events = <<>>
  BY DEF SleepInit
<1>2. delay = TRUE /\ sleepPending = FALSE /\ graceTimers = {} /\ shownTimers = {} /\ excuse = {}
  BY DEF SleepInit
<1>3. <<>> \in Seq(Signals) /\ Len(<<>>) = 0
  OBVIOUS
<1>4. SleepTypeOK
  <2>1. delay \in BOOLEAN /\ sleepPending \in BOOLEAN
    BY <1>2
  <2>2. signals \in Seq(Signals) /\ events \in Seq(Signals)
    BY <1>1, <1>3
  <2>3. sleeps \in 0 .. MaxSleeps /\ Len(signals) + Len(events) <= 2 * MaxSleeps
    BY <1>1, <1>3
  <2>4. excuse \in SUBSET Excuses /\ graceTimers \in SUBSET (1 .. MaxSleeps) /\ shownTimers \in SUBSET (1 .. MaxSleeps)
    BY <1>2
  <2> QED BY <1>1, <2>1, <2>2, <2>3, <2>4 DEF SleepTypeOK
<1> QED BY <1>1, <1>3, <1>4 DEF SleepInv, QueueInv, Sent

\* The values of the queue are Boolean, its lengths are not: each has its own lemma.
Flags ==
  /\ signals \in Seq(Signals) /\ events \in Seq(Signals)
  /\ delay \in BOOLEAN /\ sleepPending \in BOOLEAN
  /\ excuse \in SUBSET Excuses

Numbers ==
  /\ machine \in {"awake", "announced", "asleep"}
  /\ sleeps \in 0 .. MaxSleeps
  /\ graceTimers \in SUBSET (1 .. MaxSleeps) /\ shownTimers \in SUBSET (1 .. MaxSleeps)

LEMMA InvParts == SleepInv <=> Flags /\ Numbers /\ QueueInv
<1>1. SleepInv => Flags /\ Numbers /\ QueueInv
  BY DEF SleepInv, SleepTypeOK, Flags, Numbers
<1>2. ASSUME Flags, Numbers, QueueInv PROVE SleepInv
  <2>1. Len(signals) + Len(events) <= 2 * MaxSleeps
    <3>1. sleeps \in 0 .. MaxSleeps /\ Len(signals) \in Nat /\ Len(events) \in Nat
      BY <1>2 DEF Flags, Numbers
    <3>2. Len(signals) + Len(events) <= 2 * sleeps
      <4>1. Sent <= 2 * sleeps /\ Sent \in Int
        BY <3>1 DEF Sent
      <4> QED BY <1>2, <3>1, <4>1 DEF QueueInv
    <3> QED BY <3>1, <3>2
  <2> QED BY <1>2, <2>1 DEF SleepInv, SleepTypeOK, Flags, Numbers
<1> QED BY <1>1, <1>2

LEMMA FlagsStep == Flags /\ [SleepNext]_allVars => Flags'
<1> SUFFICES ASSUME Flags, [SleepNext]_allVars PROVE Flags'
  OBVIOUS
<1> USE DEF Flags
<1>0. "sleep" \in Signals /\ "wake" \in Signals
  BY DEF Signals
<1>1. ASSUME Guards PROVE Flags'
  BY <1>1 DEF Guards, Hold, Release, machineVars, Excused, Excuses
<1>2. CASE LockStep
  BY <1>2, <1>1, LockGuards
<1>3. CASE Announce
  <2>1. signals' = Append(signals, "sleep") /\ events' = events
    BY <1>3 DEF Announce
  <2>2. signals' \in Seq(Signals) /\ events' \in Seq(Signals)
    BY <1>0, <2>1, Put
  <2>3. excuse' \in SUBSET Excuses
    BY <1>3 DEF Announce, Excuses
  <2> QED BY <1>3, <2>2, <2>3 DEF Announce, loginVars
<1>4. CASE Suspend \/ Overtake
  BY <1>4 DEF Suspend, Overtake, FallAsleep, loginVars, Excuses
<1>5. CASE Resume
  <2>1. signals' = Append(signals, "wake") /\ events' = events
    BY <1>5 DEF Resume
  <2>2. signals' \in Seq(Signals) /\ events' \in Seq(Signals)
    BY <1>0, <2>1, Put
  <2> QED BY <1>5, <2>2 DEF Resume, loginVars
<1>6. CASE ThreadHears
  <2>1. signals # <<>> /\ signals' = Tail(signals) /\ events' = Append(events, Head(signals))
    BY <1>6 DEF ThreadHears, ReadSignal
  <2>2. signals' \in Seq(Signals) /\ events' \in Seq(Signals)
    BY <2>1, Taken, Put
  <2>3. delay' \in BOOLEAN
    BY <1>6 DEF ThreadHears, TakeDelay
  <2> QED BY <1>6, <2>2, <2>3 DEF ThreadHears, loginVars
<1>7. CASE GoingToSleep
  <2>1. events # <<>> /\ events' = Tail(events) /\ signals' = signals /\ excuse' = excuse
    BY <1>7 DEF GoingToSleep, machineVars
  <2>2. delay' \in BOOLEAN /\ sleepPending' \in BOOLEAN
    BY <1>7 DEF GoingToSleep, Release
  <2> QED BY <2>1, <2>2, Taken
<1>8. CASE BackFromSleep
  <2>1. events # <<>> /\ events' = Tail(events) /\ signals' = signals
    BY <1>8 DEF BackFromSleep, machineVars
  <2>2. excuse' \in SUBSET Excuses
    BY <1>8 DEF BackFromSleep, Excused, Excuses
  <2>3. delay' \in BOOLEAN /\ sleepPending' \in BOOLEAN
    BY <1>8 DEF BackFromSleep
  <2> QED BY <2>1, <2>2, <2>3, Taken
<1>9. ASSUME NEW n \in 1 .. MaxSleeps, GraceTimer(n) PROVE Flags'
  BY <1>9, <1>1, GraceGuards
<1>10. ASSUME NEW n \in 1 .. MaxSleeps, ShownTimer(n) PROVE Flags'
  BY <1>10 DEF ShownTimer, Release, Hold, machineVars, Excuses
<1>11. CASE UNCHANGED allVars
  BY <1>11 DEF allVars, sleepVars, machineVars, loginVars
<1> QED
  BY <1>2, <1>3, <1>4, <1>5, <1>6, <1>7, <1>8, <1>9, <1>10, <1>11 DEF SleepNext

\* The lengths of the queue and the number of the sleep.
LEMMA NumbersStep == Flags /\ Numbers /\ QueueInv /\ [SleepNext]_allVars => Numbers' /\ QueueInv'
<1> SUFFICES ASSUME Flags, Numbers, QueueInv, [SleepNext]_allVars PROVE Numbers' /\ QueueInv'
  OBVIOUS
<1> DEFINE a == Len(signals)
           b == Len(events)
           Timers == graceTimers' \in SUBSET (1 .. MaxSleeps) /\ shownTimers' \in SUBSET (1 .. MaxSleeps)
<1>0. /\ signals \in Seq(Signals) /\ events \in Seq(Signals)
      /\ a \in Nat /\ b \in Nat /\ sleeps \in 0 .. MaxSleeps
      /\ "sleep" \in Signals /\ "wake" \in Signals
  <2>1. signals \in Seq(Signals) /\ events \in Seq(Signals)
    BY DEF Flags
  <2> QED BY <2>1, LenProperties DEF Numbers, Signals
<1>q. ASSUME UNCHANGED <<machine, sleeps>>, Timers, Len(signals') + Len(events') <= a + b,
             Len(signals') + Len(events') \in Nat
      PROVE  Numbers' /\ QueueInv'
  <2>1. Numbers'
    BY <1>q DEF Numbers
  <2> QED BY <1>0, <1>q, <2>1 DEF QueueInv, Sent
<1>1. ASSUME Guards, Timers PROVE Numbers' /\ QueueInv'
  <2>1. UNCHANGED <<machine, sleeps, signals, events>>
    BY <1>1 DEF Guards, machineVars
  <2> QED BY <1>0, <1>1, <1>q, <2>1
<1>2. CASE LockStep
  <2>1. Timers
    BY <1>2 DEF LockStep, Numbers
  <2> QED BY <1>2, <1>1, <2>1, LockGuards
<1>3. CASE Announce
  <2>1. /\ machine = "awake" /\ sleeps < MaxSleeps /\ machine' = "announced" /\ sleeps' = sleeps + 1
        /\ signals' = Append(signals, "sleep") /\ events' = events
    BY <1>3 DEF Announce
  <2>2. Timers
    BY <1>3 DEF Announce, loginVars, Numbers
  <2>3. Len(signals') = a + 1
    BY <1>0, <2>1, Put
  <2>4. Numbers'
    BY <1>0, <2>1, <2>2 DEF Numbers
  <2> QED BY <1>0, <2>1, <2>3, <2>4 DEF QueueInv, Sent
<1>4. CASE Suspend \/ Overtake
  <2>1. /\ machine = "announced" /\ machine' = "asleep"
        /\ UNCHANGED <<sleeps, signals, events, graceTimers, shownTimers>>
    BY <1>4 DEF Suspend, Overtake, FallAsleep, loginVars
  <2>2. Numbers'
    BY <2>1 DEF Numbers
  <2> QED BY <2>1, <2>2 DEF QueueInv, Sent
<1>5. CASE Resume
  <2>1. /\ machine = "asleep" /\ machine' = "awake" /\ signals' = Append(signals, "wake")
        /\ UNCHANGED <<sleeps, events, graceTimers, shownTimers>>
    BY <1>5 DEF Resume, loginVars
  <2>2. Len(signals') = a + 1
    BY <1>0, <2>1, Put
  <2>3. Numbers'
    BY <2>1 DEF Numbers
  <2> QED BY <1>0, <2>1, <2>2, <2>3 DEF QueueInv, Sent
<1>6. CASE ThreadHears
  <2>1. /\ signals # <<>> /\ signals' = Tail(signals) /\ events' = Append(events, Head(signals))
        /\ UNCHANGED <<machine, sleeps, graceTimers, shownTimers>>
    BY <1>6 DEF ThreadHears, ReadSignal, loginVars
  <2>2. Len(signals') = a - 1 /\ a \in Nat \ {0} /\ Len(events') = b + 1
    BY <1>0, <2>1, Taken, Put
  <2>3. Timers
    BY <2>1 DEF Numbers
  <2> QED BY <1>0, <1>q, <2>1, <2>2, <2>3
<1>7. CASE GoingToSleep
  <2>1. events # <<>> /\ events' = Tail(events) /\ UNCHANGED <<machine, sleeps, signals, shownTimers>>
    BY <1>7 DEF GoingToSleep, machineVars
  <2>2. Len(events') = b - 1 /\ b \in Nat \ {0}
    BY <1>0, <2>1, Taken
  <2>3. sleeps \in 1 .. MaxSleeps
    BY <1>0, <2>2 DEF QueueInv, Sent
  <2>4. graceTimers' \in {graceTimers, graceTimers \cup {sleeps}}
    BY <1>7 DEF GoingToSleep
  <2>5. Timers
    BY <2>1, <2>3, <2>4 DEF Numbers
  <2> QED BY <1>0, <1>q, <2>1, <2>2, <2>5
<1>8. CASE BackFromSleep
  <2>1. events # <<>> /\ events' = Tail(events) /\ UNCHANGED <<machine, sleeps, signals, graceTimers, shownTimers>>
    BY <1>8 DEF BackFromSleep, machineVars
  <2>2. Len(events') = b - 1 /\ b \in Nat \ {0}
    BY <1>0, <2>1, Taken
  <2>3. Timers
    BY <2>1 DEF Numbers
  <2> QED BY <1>0, <1>q, <2>1, <2>2, <2>3
<1>9. ASSUME NEW n \in 1 .. MaxSleeps, GraceTimer(n) PROVE Numbers' /\ QueueInv'
  <2>1. Timers
    BY <1>9 DEF GraceTimer, SetShownTimer, Numbers
  <2> QED BY <1>1, <1>9, <2>1, GraceGuards
<1>10. ASSUME NEW n \in 1 .. MaxSleeps, ShownTimer(n) PROVE Numbers' /\ QueueInv'
  <2>1. UNCHANGED <<machine, sleeps, signals, events>>
    BY <1>10 DEF ShownTimer, machineVars
  <2>2. Timers
    BY <1>10 DEF ShownTimer, Numbers
  <2> QED BY <1>0, <1>q, <2>1, <2>2
<1>11. CASE UNCHANGED allVars
  <2>1. UNCHANGED <<machine, sleeps, signals, events, graceTimers, shownTimers>>
    BY <1>11 DEF allVars, sleepVars, machineVars, loginVars
  <2> QED BY <2>1 DEF Numbers, QueueInv, Sent
<1> QED
  BY <1>2, <1>3, <1>4, <1>5, <1>6, <1>7, <1>8, <1>9, <1>10, <1>11 DEF SleepNext

LEMMA SleepStep == SleepInv /\ [SleepNext]_allVars => SleepInv'
<1> SUFFICES ASSUME SleepInv, [SleepNext]_allVars PROVE SleepInv'
  OBVIOUS
<1>1. Flags' /\ Numbers' /\ QueueInv'
  BY InvParts, FlagsStep, NumbersStep
<1>2. (SleepInv <=> Flags /\ Numbers /\ QueueInv)'
  BY InvParts, PTL
<1> QED BY <1>1, <1>2

THEOREM SleepAlwaysTyped == SleepSpec => []SleepInv
BY SleepInitTypes, SleepStep, PTL DEF SleepSpec

(* Every reachable state of the machine, logind's queue and the timers is well
   formed, with no more under way than the sleeps announced bring. *)
THEOREM SleepIsTyped == SleepSpec => []SleepTypeOK
BY SleepAlwaysTyped, PTL DEF SleepInv

-----------------------------------------------------------------------------
(***************************************************************************)
(* The way back.                                                           *)
(***************************************************************************)
LEMMA BackStep == Flags /\ BackInv /\ [SleepNext]_allVars => BackInv'
<1> SUFFICES ASSUME Flags, BackInv, [SleepNext]_allVars PROVE BackInv'
  OBVIOUS
<1> DEFINE LastBack == IF signals # <<>> THEN Ends(signals, "wake") ELSE Ends(events, "wake")
<1>0. /\ signals \in Seq(Signals) /\ events \in Seq(Signals)
      /\ machine = "awake" => LastBack
      /\ "sleep" \in Signals /\ "wake" \in Signals
  BY DEF Flags, BackInv, Signals
<1>1. ASSUME Guards PROVE BackInv'
  <2>1. UNCHANGED <<machine, sleeps, signals, events>> /\ excuse' = Excused(excuse)
    BY <1>1 DEF Guards, machineVars
  <2>2. ~sleepPending => ~sleepPending'
    BY <1>1 DEF Guards, Hold, Release
  <2>3. ComesBackLocked'
    BY <2>1 DEF BackInv, ComesBackLocked, QuietAwake, Quiet, Excused
  <2> QED BY <2>1, <2>2, <2>3 DEF BackInv, QuietAwake, Quiet, Ends
<1>a. ASSUME ~QuietAwake', (machine = "awake" => LastBack)' PROVE BackInv'
  BY <1>a DEF BackInv, ComesBackLocked
<1>2. CASE LockStep
  BY <1>2, <1>1, LockGuards
<1>3. CASE Announce \/ Suspend \/ Overtake
  <2>1. machine' # "awake"
    BY <1>3 DEF Announce, Suspend, Overtake, FallAsleep
  <2> QED BY <1>a, <2>1 DEF QuietAwake
<1>4. CASE Resume
  <2>1. signals' = Append(signals, "wake")
    BY <1>4 DEF Resume
  <2>2. signals' # <<>> /\ Ends(signals', "wake")
    BY <1>0, <2>1, Put
  <2> QED BY <1>a, <2>2 DEF QuietAwake, Quiet
<1>5. CASE ThreadHears
  <2>1. /\ signals # <<>> /\ signals' = Tail(signals) /\ events' = Append(events, Head(signals))
        /\ machine' = machine
    BY <1>5 DEF ThreadHears, ReadSignal
  <2>2. events' # <<>> /\ Ends(events', Head(signals))
    BY <1>0, <2>1, Taken, Put
  <2>3. Ends(signals, "wake") => Ends(signals', "wake") /\ (signals' = <<>> => Head(signals) = "wake")
    BY <1>0, <2>1, TakenEnds
  <2> QED BY <1>0, <1>a, <2>1, <2>2, <2>3 DEF QuietAwake, Quiet
<1>6. CASE GoingToSleep
  <2>1. /\ events # <<>> /\ Head(events) = "sleep" /\ events' = Tail(events)
        /\ UNCHANGED <<machine, signals>>
    BY <1>6 DEF GoingToSleep, machineVars
  <2>2. Ends(events, "wake") => Ends(events', "wake") /\ events' # <<>>
    BY <1>0, <2>1, TakenEnds
  <2> QED BY <1>0, <1>a, <2>1, <2>2 DEF QuietAwake, Quiet
<1>7. CASE BackFromSleep
  <2>1. events # <<>> /\ events' = Tail(events) /\ UNCHANGED <<machine, signals>> /\ sleepPending' = FALSE
    BY <1>7 DEF BackFromSleep, machineVars
  <2>2. Ends(events, "wake") => Ends(events', "wake")
    BY <1>0, <2>1, TakenEnds
  <2>3. (machine = "awake" => LastBack)'
    BY <1>0, <2>1, <2>2
  <2>4. ComesBackLocked'
    BY <1>7, FloorLocks DEF ComesBackLocked
  <2> QED BY <2>1, <2>3, <2>4 DEF BackInv
<1>8. ASSUME NEW n \in 1 .. MaxSleeps, GraceTimer(n) PROVE BackInv'
  BY <1>8, <1>1, GraceGuards
<1>9. ASSUME NEW n \in 1 .. MaxSleeps, ShownTimer(n) PROVE BackInv'
  <2>1. UNCHANGED <<vars, machine, sleeps, signals, events>> /\ excuse \subseteq excuse'
    BY <1>9 DEF ShownTimer, machineVars
  <2>2. ~sleepPending => ~sleepPending'
    BY <1>9 DEF ShownTimer, Hold, Release
  <2>3. ComesBackLocked'
    BY <2>1, SameLock DEF BackInv, ComesBackLocked, QuietAwake, Quiet
  <2> QED BY <2>1, <2>2, <2>3 DEF BackInv, QuietAwake, Quiet, Ends
<1>10. CASE UNCHANGED allVars
  <2>1. UNCHANGED <<vars, machine, sleeps, signals, events, excuse, sleepPending>>
    BY <1>10 DEF allVars, sleepVars, machineVars, loginVars
  <2>2. ComesBackLocked'
    BY <2>1, SameLock DEF BackInv, ComesBackLocked, QuietAwake, Quiet
  <2> QED BY <2>1, <2>2 DEF BackInv, QuietAwake, Quiet, Ends
<1> QED
  BY <1>2, <1>3, <1>4, <1>5, <1>6, <1>7, <1>8, <1>9, <1>10 DEF SleepNext

-----------------------------------------------------------------------------
(***************************************************************************)
(* Letting go.                                                             *)
(***************************************************************************)
LEMMA LetGoStep == Flags /\ LetGoInv /\ [SleepNext]_allVars => LetGoInv'
<1> SUFFICES ASSUME Flags, LetGoInv, [SleepNext]_allVars,
                    machine' = "announced", delay' = FALSE
             PROVE  IsLocked' \/ excuse' \cap {"opened", "unheld", "stale"} # {}
  <2>1. Flags /\ [SleepNext]_allVars => Flags'
    BY FlagsStep
  <2> QED BY <2>1 DEF LetGoInv, Flags
<1>0. delay \in BOOLEAN
  BY DEF Flags
<1>1. ASSUME Guards PROVE IsLocked' \/ excuse' \cap {"opened", "unheld", "stale"} # {}
  <2>1. machine = "announced" /\ (delay' = delay \/ IsLocked') /\ excuse' = Excused(excuse)
    BY <1>1 DEF Guards, Hold, machineVars
  <2> QED BY <1>0, <2>1 DEF LetGoInv, Excused
<1>2. CASE LockStep
  BY <1>2, <1>1, LockGuards
<1>3. CASE Announce
  <2>1. delay = FALSE /\ "unheld" \in excuse'
    BY <1>3, <1>0 DEF Announce
  <2> QED BY <2>1
<1>4. CASE Suspend \/ Overtake \/ Resume
  BY <1>4 DEF Suspend, Overtake, FallAsleep, Resume
<1>5. CASE ThreadHears
  <2>1. machine = "announced" /\ UNCHANGED vars /\ excuse' = excuse /\ delay = FALSE
    BY <1>5, <1>0 DEF ThreadHears, TakeDelay
  <2> QED BY <2>1, SameLock DEF LetGoInv
<1>6. CASE GoingToSleep
  <2>1. machine = "announced" /\ excuse' = excuse
    BY <1>6 DEF GoingToSleep, machineVars
  <2>2. CASE IsLocked
    <3>1. UNCHANGED vars
      BY <1>6, <2>2 DEF GoingToSleep
    <3> QED BY <2>2, <3>1, SameLock
  <2>3. CASE ~IsLocked
    <3>1. delay' = delay
      BY <1>6, <2>3 DEF GoingToSleep
    <3> QED BY <2>1, <2>3, <3>1 DEF LetGoInv
  <2> QED BY <2>2, <2>3
<1>7. CASE BackFromSleep
  BY <1>7, FloorLocks
<1>8. ASSUME NEW n \in 1 .. MaxSleeps, GraceTimer(n)
      PROVE  IsLocked' \/ excuse' \cap {"opened", "unheld", "stale"} # {}
  BY <1>8, <1>1, GraceGuards
<1>9. ASSUME NEW n \in 1 .. MaxSleeps, ShownTimer(n)
      PROVE  IsLocked' \/ excuse' \cap {"opened", "unheld", "stale"} # {}
  <2>1. machine = "announced" /\ UNCHANGED vars
    BY <1>9 DEF ShownTimer, machineVars
  <2>2. (delay' = delay /\ excuse' = excuse) \/ IsLocked \/ "stale" \in excuse'
    BY <1>9 DEF ShownTimer, Hold
  <2> QED BY <2>1, <2>2, SameLock DEF LetGoInv
<1>10. CASE UNCHANGED allVars
  <2>1. UNCHANGED <<vars, machine, delay, excuse>>
    BY <1>10 DEF allVars, sleepVars, machineVars
  <2> QED BY <2>1, SameLock DEF LetGoInv
<1> QED
  BY <1>2, <1>3, <1>4, <1>5, <1>6, <1>7, <1>8, <1>9, <1>10 DEF SleepNext

-----------------------------------------------------------------------------
(***************************************************************************)
(* One sleep at a time.                                                    *)
(***************************************************************************)
LEMMA InTurnStep == Flags /\ BackInv /\ InTurn /\ [SleepNext]_allVars => InTurn'
<1> SUFFICES ASSUME Flags, BackInv, InTurn, [SleepNext]_allVars, excuse' \cap {"unheld", "late"} = {}
             PROVE  OneAtATime'
  BY DEF InTurn
<1> DEFINE Unexcused == excuse \cap {"unheld", "late"} = {}
<1>0. /\ signals \in Seq(Signals) /\ events \in Seq(Signals) /\ delay \in BOOLEAN /\ sleepPending \in BOOLEAN
      /\ "sleep" \in Signals /\ "wake" \in Signals
  BY DEF Flags, Signals
<1>u. Unexcused => OneAtATime
  BY DEF InTurn
<1>1. ASSUME Guards PROVE OneAtATime'
  <2>1. UNCHANGED <<machine, signals, events>> /\ machine # "asleep"
    BY <1>1 DEF Guards, Running, machineVars
  <2>2. OneAtATime
    BY <1>1, <1>u DEF Guards, Excused
  <2>3. CASE Hold
    BY <2>1, <2>2, <2>3 DEF Hold, OneAtATime, Announced, Dealt, Quiet, AllBack, BackButLast, Ends
  <2>4. CASE sleepPending /\ Release
    BY <2>1, <2>2, <2>4 DEF Release, OneAtATime, Announced, Dealt, Quiet, AllBack, BackButLast, Ends
  <2> QED BY <1>1, <2>3, <2>4 DEF Guards
<1>2. CASE LockStep
  BY <1>2, <1>1, LockGuards
<1>3. CASE Announce
  <2>1. /\ machine = "awake" /\ machine' = "announced" /\ signals' = Append(signals, "sleep")
        /\ UNCHANGED <<events, delay, sleepPending>>
    BY <1>3 DEF Announce, loginVars
  <2>2. delay /\ (Quiet \/ Unexcused)
    BY <1>3 DEF Announce
  <2>3. AllBack(signals) /\ AllBack(events) /\ ~sleepPending
    <3>1. CASE Quiet
      BY <2>1, <3>1, NoneLeft DEF BackInv, QuietAwake, Quiet
    <3>2. CASE Unexcused
      BY <1>u, <2>1, <3>2 DEF OneAtATime
    <3> QED BY <2>2, <3>1, <3>2
  <2>4. signals' # <<>> /\ Ends(signals', "sleep") /\ BackButLast(signals')
    BY <1>0, <2>1, <2>3, Put
  <2>5. AllBack(events')
    BY <2>1, <2>3
  <2> QED BY <2>1, <2>2, <2>3, <2>4, <2>5 DEF OneAtATime, Announced
<1>4. CASE Suspend
  <2>1. /\ machine = "announced" /\ machine' = "asleep" /\ delay = FALSE
        /\ UNCHANGED <<signals, events, sleepPending>> /\ Unexcused
    BY <1>0, <1>4 DEF Suspend, FallAsleep, loginVars
  <2> QED BY <1>u, <2>1 DEF OneAtATime, Dealt, Quiet
<1>5. CASE Overtake
  BY <1>5 DEF Overtake, FallAsleep
<1>6. CASE Resume
  <2>1. /\ machine = "asleep" /\ machine' = "awake" /\ signals' = Append(signals, "wake")
        /\ UNCHANGED <<events, sleepPending>> /\ Unexcused
    BY <1>6 DEF Resume, loginVars
  <2>2. signals = <<>> /\ events = <<>> /\ ~sleepPending
    BY <1>u, <2>1 DEF OneAtATime, Dealt, Quiet
  <2>3. signals' # <<>> /\ AllBack(signals')
    BY <1>0, <2>1, <2>2, Put, NoneLeft
  <2>4. AllBack(events')
    BY <2>1, <2>2, NoneLeft
  <2> QED BY <2>1, <2>2, <2>3, <2>4 DEF OneAtATime
<1>7. CASE ThreadHears
  <2>1. /\ signals # <<>> /\ signals' = Tail(signals) /\ events' = Append(events, Head(signals))
        /\ machine # "asleep" /\ UNCHANGED <<machine, sleepPending>> /\ Unexcused
    BY <1>7 DEF ThreadHears, ReadSignal, Running, loginVars
  <2>2. IF Head(signals) = "wake" THEN delay' = (delay \/ machine = "awake") ELSE delay' = delay
    BY <1>7 DEF ThreadHears, TakeDelay
  <2>3. OneAtATime /\ events' # <<>>
    BY <1>0, <1>u, <2>1, Taken, Put
  <2>4. CASE machine = "announced"
    <3>1. AllBack(events) /\ BackButLast(signals) /\ Ends(signals, "sleep") /\ ~sleepPending /\ delay
      BY <2>1, <2>3, <2>4 DEF OneAtATime, Announced, Dealt, Quiet
    <3>2. BackButLast(signals') /\ Ends(signals', "sleep")
      BY <1>0, <2>1, <3>1, TakenBack, TakenEnds
    <3>3. CASE signals' # <<>>
      <4>1. Head(signals) = "wake"
        BY <1>0, <2>1, <3>1, <3>3, TakenBack
      <4>2. AllBack(events')
        BY <1>0, <2>1, <3>1, <4>1, Put
      <4> QED BY <2>1, <2>2, <2>4, <3>1, <3>2, <3>3, <4>2 DEF OneAtATime, Announced
    <3>4. CASE signals' = <<>>
      <4>1. Head(signals) = "sleep"
        BY <1>0, <2>1, <3>1, <3>4, TakenEnds
      <4>2. BackButLast(events') /\ Ends(events', "sleep")
        BY <1>0, <2>1, <3>1, <4>1, Put
      <4> QED BY <2>1, <2>2, <2>4, <3>1, <3>4, <4>2 DEF OneAtATime, Announced
    <3> QED BY <3>3, <3>4
  <2>5. CASE machine = "awake"
    <3>1. AllBack(signals) /\ AllBack(events) /\ ~sleepPending
      BY <2>3, <2>5 DEF OneAtATime
    <3>2. Head(signals) = "wake" /\ AllBack(signals')
      BY <1>0, <2>1, <3>1, TakenBack
    <3>3. AllBack(events')
      BY <1>0, <2>1, <3>1, <3>2, Put
    <3> QED BY <2>1, <2>2, <2>5, <3>1, <3>2, <3>3 DEF OneAtATime
  <2> QED BY <2>1, <2>4, <2>5 DEF OneAtATime
<1>8. CASE GoingToSleep
  <2>1. /\ events # <<>> /\ Head(events) = "sleep" /\ events' = Tail(events)
        /\ machine # "asleep" /\ UNCHANGED <<machine, signals>> /\ Unexcused
    BY <1>8 DEF GoingToSleep, Running, machineVars
  <2>2. OneAtATime /\ ~AllBack(events)
    BY <1>0, <1>u, <2>1, TakenBack
  <2>3. CASE machine = "announced"
    <3>1. signals = <<>> /\ BackButLast(events) /\ delay
      BY <2>1, <2>2, <2>3 DEF OneAtATime, Announced, Dealt, Quiet
    <3>2. events' = <<>>
      BY <1>0, <2>1, <3>1, TakenBack
    <3>3. (sleepPending' /\ delay') \/ (~sleepPending' /\ ~delay')
      BY <1>8, <3>1 DEF GoingToSleep, Release
    <3>4. BackButLast(events') /\ Ends(events', "sleep")
      BY <3>2, NoneLeft DEF Ends
    <3> QED BY <2>1, <2>3, <3>1, <3>2, <3>3, <3>4 DEF OneAtATime, Announced, Dealt, Quiet
  <2> QED BY <2>1, <2>2, <2>3 DEF OneAtATime
<1>9. CASE BackFromSleep
  <2>1. /\ events # <<>> /\ Head(events) = "wake" /\ events' = Tail(events) /\ ~sleepPending'
        /\ machine # "asleep" /\ UNCHANGED <<machine, signals, delay>> /\ Unexcused
    BY <1>9 DEF BackFromSleep, Running, machineVars, Excused
  <2>2. OneAtATime
    BY <1>u, <2>1
  <2>3. CASE machine = "announced"
    <3>1. delay
      BY <2>1, <2>2, <2>3 DEF OneAtATime, Dealt, Quiet
    <3>2. Announced'
      <4>1. CASE signals # <<>>
        <5>1. AllBack(events) /\ BackButLast(signals) /\ Ends(signals, "sleep")
          BY <2>2, <2>3, <4>1 DEF OneAtATime, Announced
        <5>2. AllBack(events')
          BY <1>0, <2>1, <5>1, TakenBack
        <5> QED BY <2>1, <4>1, <5>1, <5>2 DEF Announced
      <4>2. CASE signals = <<>>
        <5>1. BackButLast(events) /\ Ends(events, "sleep")
          BY <2>2, <2>3, <4>2 DEF OneAtATime, Announced
        <5>2. BackButLast(events') /\ Ends(events', "sleep")
          BY <1>0, <2>1, <5>1, TakenBack, TakenEnds
        <5> QED BY <2>1, <4>2, <5>2 DEF Announced
      <4> QED BY <4>1, <4>2
    <3> QED BY <2>1, <2>3, <3>1, <3>2 DEF OneAtATime
  <2>4. CASE machine = "awake"
    <3>1. AllBack(signals) /\ AllBack(events) /\ (delay \/ signals # <<>>)
      BY <2>2, <2>4 DEF OneAtATime
    <3>2. AllBack(events')
      BY <1>0, <2>1, <3>1, TakenBack
    <3> QED BY <2>1, <2>4, <3>1, <3>2 DEF OneAtATime
  <2> QED BY <2>1, <2>3, <2>4 DEF OneAtATime
<1>10. ASSUME NEW n \in 1 .. MaxSleeps, GraceTimer(n) PROVE OneAtATime'
  BY <1>10, <1>1, GraceGuards
<1>11. ASSUME NEW n \in 1 .. MaxSleeps, ShownTimer(n) PROVE OneAtATime'
  <2>1. UNCHANGED <<machine, signals, events>> /\ machine # "asleep" /\ Unexcused
    BY <1>11 DEF ShownTimer, Running, machineVars
  <2>2. OneAtATime
    BY <1>u, <2>1
  <2>3. Hold \/ (sleepPending /\ Release)
    BY <1>11 DEF ShownTimer
  <2>4. CASE Hold
    BY <2>1, <2>2, <2>4 DEF Hold, OneAtATime, Announced, Dealt, Quiet, AllBack, BackButLast, Ends
  <2>5. CASE sleepPending /\ Release
    BY <2>1, <2>2, <2>5 DEF Release, OneAtATime, Announced, Dealt, Quiet, AllBack, BackButLast, Ends
  <2> QED BY <2>3, <2>4, <2>5
<1>12. CASE UNCHANGED allVars
  <2>1. UNCHANGED <<machine, signals, events, delay, sleepPending, excuse>>
    BY <1>12 DEF allVars, sleepVars, machineVars, loginVars
  <2> QED BY <1>u, <2>1 DEF OneAtATime, Announced, Dealt, Quiet, AllBack, BackButLast, Ends
<1> QED
  BY <1>2, <1>3, <1>4, <1>5, <1>6, <1>7, <1>8, <1>9, <1>10, <1>11, <1>12 DEF SleepNext

-----------------------------------------------------------------------------
(***************************************************************************)
(* Together.                                                               *)
(***************************************************************************)
WholeInv == SleepInv /\ BackInv /\ LetGoInv /\ InTurn

LEMMA WholeInit == SleepInit => WholeInv
<1> SUFFICES ASSUME SleepInit PROVE WholeInv
  OBVIOUS
<1>1. /\ machine = "awake" /\ sleeps = 0 /\ signals = <<>> /\ events = <<>>
      /\ delay = TRUE /\ sleepPending = FALSE
  BY DEF SleepInit
<1>2. BackInv
  BY <1>1, NoneLeft DEF BackInv, Ends, ComesBackLocked
<1>3. InTurn
  BY <1>1, NoneLeft DEF InTurn, OneAtATime
<1> QED BY <1>1, <1>2, <1>3, SleepInitTypes DEF WholeInv, LetGoInv

LEMMA WholeStep == WholeInv /\ [SleepNext]_allVars => WholeInv'
<1> SUFFICES ASSUME WholeInv, [SleepNext]_allVars PROVE WholeInv'
  OBVIOUS
<1>1. Flags
  BY InvParts DEF WholeInv
<1> QED BY <1>1, SleepStep, BackStep, LetGoStep, InTurnStep DEF WholeInv

LEMMA WholeAlways == SleepSpec => []WholeInv
BY WholeInit, WholeStep, PTL DEF SleepSpec

(* However many sleeps, screens and lock clients: once the event loop has heard of
   the way back the session is locked until a client opens it. *)
THEOREM SleepComesBackLocked == SleepSpec => []ComesBackLocked
<1>1. WholeInv => ComesBackLocked
  BY DEF WholeInv, BackInv
<1> QED BY <1>1, WholeAlways, PTL

(* Between sleeps the inhibitor is held, unless a sleep was announced without it or
   went ahead without the event loop's answer. *)
THEOREM SleepInhibitorBack == SleepSpec => []InhibitorBack
<1>1. WholeInv => InhibitorBack
  BY DEF WholeInv, InTurn, OneAtATime, InhibitorBack, QuietAwake, Quiet
<1> QED BY <1>1, WholeAlways, PTL

(* Once the inhibitor is let go the machine sleeps only locked, but for a client
   that opened the session, a sleep that found no inhibitor and an older timer. *)
THEOREM SleepFindsLocked == SleepSpec => SleepsLocked
<1>1. WholeInv /\ [SleepNext]_allVars => [Suspends /\ ~delay => IsLocked \/ excuse \ {"late"} # {}]_allVars
  BY DEF WholeInv, LetGoInv, Suspends
<1> QED BY <1>1, WholeAlways, PTL DEF SleepSpec, SleepsLocked
-----------------------------------------------------------------------------
(***************************************************************************)
(* What SleepGoesAhead rests on: nothing that holds a sleep up is without  *)
(* a next step of the thread, the event loop or a timer.                   *)
(***************************************************************************)
OnItsWay == IF signals # <<>> THEN Ends(signals, "sleep") ELSE events # <<>> /\ Ends(events, "sleep")
SleepIsHeard == machine = "announced" /\ delay => OnItsWay \/ (Quiet /\ sleepPending)
PendingIsTimed == sleepPending => graceTimers \cup shownTimers # {}
SleepHasAnEnd == SleepIsHeard /\ PendingIsTimed

LEMMA GraceHandsOn == ASSUME NEW n, GraceTimer(n), PendingIsTimed PROVE PendingIsTimed'
<1>1. CASE ~sleepPending
  BY <1>1 DEF GraceTimer, Hold, PendingIsTimed
<1>2. CASE sleepPending /\ IsLocked
  BY <1>2 DEF GraceTimer, Release, PendingIsTimed
<1>3. CASE sleepPending /\ ~IsLocked
  <2>1. shownTimers' = shownTimers \cup {n}
    BY <1>3 DEF GraceTimer, SetShownTimer
  <2> QED BY <2>1 DEF PendingIsTimed
<1> QED BY <1>1, <1>2, <1>3

LEMMA TimedStep == PendingIsTimed /\ [SleepNext]_allVars => PendingIsTimed'
<1> SUFFICES ASSUME PendingIsTimed, [SleepNext]_allVars PROVE PendingIsTimed'
  OBVIOUS
<1>1. CASE LockStep
  BY <1>1 DEF LockStep, LockConfirmedForSleep, Release, Hold, PendingIsTimed
<1>2. CASE Announce \/ Suspend \/ Overtake \/ Resume \/ ThreadHears \/ UNCHANGED allVars
  <2>1. UNCHANGED loginVars
    BY <1>2 DEF Announce, Suspend, Overtake, FallAsleep, Resume, ThreadHears, allVars, sleepVars
  <2> QED BY <2>1 DEF loginVars, PendingIsTimed
<1>3. CASE GoingToSleep
  <2>1. CASE IsLocked
    BY <1>3, <2>1 DEF GoingToSleep, Release, PendingIsTimed
  <2>2. CASE ~IsLocked
    <3>1. graceTimers' = graceTimers \cup {sleeps}
      BY <1>3, <2>2 DEF GoingToSleep
    <3> QED BY <3>1 DEF PendingIsTimed
  <2> QED BY <2>1, <2>2
<1>4. CASE BackFromSleep
  BY <1>4 DEF BackFromSleep, PendingIsTimed
<1>5. ASSUME NEW n \in 1 .. MaxSleeps, GraceTimer(n) PROVE PendingIsTimed'
  BY <1>5, GraceHandsOn
<1>6. ASSUME NEW n \in 1 .. MaxSleeps, ShownTimer(n) PROVE PendingIsTimed'
  BY <1>6 DEF ShownTimer, Release, Hold, PendingIsTimed
<1> QED BY <1>1, <1>2, <1>3, <1>4, <1>5, <1>6 DEF SleepNext

LEMMA HeardStep == Flags /\ SleepIsHeard /\ [SleepNext]_allVars => SleepIsHeard'
<1> SUFFICES ASSUME Flags, SleepIsHeard, [SleepNext]_allVars, machine' = "announced", delay'
             PROVE  OnItsWay' \/ (Quiet' /\ sleepPending')
  BY DEF SleepIsHeard
<1>0. /\ signals \in Seq(Signals) /\ events \in Seq(Signals) /\ delay \in BOOLEAN
      /\ "sleep" \in Signals /\ "wake" \in Signals
  BY DEF Flags, Signals
<1>1. ASSUME UNCHANGED <<machine, signals, events>>, Hold
      PROVE  OnItsWay' \/ (Quiet' /\ sleepPending')
  <2>1. SleepIsHeard /\ machine = "announced" /\ delay /\ sleepPending' = sleepPending
    BY <1>1 DEF Hold
  <2> QED BY <1>1, <2>1 DEF SleepIsHeard, OnItsWay, Quiet, Ends
<1>2. ASSUME Guards PROVE OnItsWay' \/ (Quiet' /\ sleepPending')
  BY <1>1, <1>2 DEF Guards, Release, machineVars
<1>3. CASE LockStep
  BY <1>2, <1>3, LockGuards
<1>4. CASE Announce
  <2>1. signals' = Append(signals, "sleep")
    BY <1>4 DEF Announce
  <2>2. signals' # <<>> /\ Ends(signals', "sleep")
    BY <1>0, <2>1, Put
  <2> QED BY <2>2 DEF OnItsWay
<1>5. CASE Suspend \/ Overtake \/ Resume
  BY <1>5 DEF Suspend, Overtake, FallAsleep, Resume
<1>6. CASE ThreadHears
  <2>1. /\ signals # <<>> /\ signals' = Tail(signals) /\ events' = Append(events, Head(signals))
        /\ machine = "announced"
    BY <1>6 DEF ThreadHears, ReadSignal
  <2>2. delay
    BY <1>6, <2>1 DEF ThreadHears, TakeDelay
  <2>3. Ends(signals, "sleep")
    BY <2>1, <2>2 DEF SleepIsHeard, OnItsWay, Quiet
  <2>4. Ends(signals', "sleep") /\ (signals' = <<>> => Head(signals) = "sleep")
    BY <1>0, <2>1, <2>3, TakenEnds
  <2>5. events' # <<>> /\ Ends(events', Head(signals))
    BY <1>0, <2>1, Taken, Put
  <2> QED BY <2>4, <2>5 DEF OnItsWay
<1>7. ASSUME events # <<>>, events' = Tail(events), UNCHANGED <<machine, signals, delay>>,
             Head(events) = "wake" \/ sleepPending'
      PROVE  OnItsWay' \/ (Quiet' /\ sleepPending')
  <2>1. OnItsWay
    BY <1>7 DEF SleepIsHeard, Quiet
  <2>2. CASE signals # <<>>
    BY <1>7, <2>1, <2>2 DEF OnItsWay, Ends
  <2>3. CASE signals = <<>>
    <3>1. Ends(events, "sleep")
      BY <2>1, <2>3 DEF OnItsWay
    <3>2. Ends(events', "sleep") /\ (events' = <<>> => Head(events) = "sleep")
      BY <1>0, <1>7, <3>1, TakenEnds
    <3> QED BY <1>7, <2>3, <3>2 DEF OnItsWay, Quiet
  <2> QED BY <2>2, <2>3
<1>8. CASE GoingToSleep
  <2>1. events # <<>> /\ events' = Tail(events) /\ UNCHANGED <<machine, signals>>
    BY <1>8 DEF GoingToSleep, machineVars
  <2>2. sleepPending' /\ delay' = delay
    BY <1>8 DEF GoingToSleep, Release
  <2> QED BY <1>7, <2>1, <2>2
<1>9. CASE BackFromSleep
  BY <1>7, <1>9 DEF BackFromSleep, machineVars
<1>10. ASSUME NEW n \in 1 .. MaxSleeps, GraceTimer(n) PROVE OnItsWay' \/ (Quiet' /\ sleepPending')
  BY <1>2, <1>10, GraceGuards
<1>11. ASSUME NEW n \in 1 .. MaxSleeps, ShownTimer(n) PROVE OnItsWay' \/ (Quiet' /\ sleepPending')
  <2>1. UNCHANGED <<machine, signals, events>> /\ Hold
    BY <1>11 DEF ShownTimer, Release, machineVars
  <2> QED BY <1>1, <2>1
<1>12. CASE UNCHANGED allVars
  BY <1>1, <1>12 DEF allVars, sleepVars, machineVars, loginVars, Hold
<1> QED
  BY <1>3, <1>4, <1>5, <1>6, <1>8, <1>9, <1>10, <1>11, <1>12 DEF SleepNext

(* A sleep that the inhibitor holds up always has what lets it go ahead: its
   announcement is still to be read or heard, or the event loop waits for the lock
   with a timer that ends the wait, however the timers of earlier sleeps, the locks
   and the ways back came in between. *)
THEOREM HeldSleepHasAnEnd == SleepSpec => []SleepHasAnEnd
<1>1. SleepInit => SleepIsHeard /\ PendingIsTimed
  BY DEF SleepInit, SleepIsHeard, PendingIsTimed
<1>2. SleepInv => Flags
  BY InvParts
<1>3. SleepInv /\ SleepIsHeard /\ PendingIsTimed /\ [SleepNext]_allVars
      => SleepIsHeard' /\ PendingIsTimed'
  BY <1>2, HeardStep, TimedStep
<1> QED BY <1>1, <1>3, SleepAlwaysTyped, PTL DEF SleepSpec, SleepHasAnEnd
=============================================================================
