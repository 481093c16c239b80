------------------------------- MODULE Display -------------------------------
(***************************************************************************)
(* Display1 in the compositor (hyalo/compositor/src/display/mod.rs): the   *)
(* preview of an output layout is a lease, which is confirmed to disk or   *)
(* taken back, against hot-plug, VT switches, the lock, the lid, reloads   *)
(* of the configuration and a backend that may fail.                       *)
(*                                                                         *)
(* `state: &mut Hyalo` is one record.  A handler takes it through several  *)
(* steps that may fail, so an operator gives the set of records it may end *)
(* in.  The machine is a laptop with one socket.  Of an output's settings  *)
(* a model keeps whether it is on and who set them: 0 for a profile, the   *)
(* configuration or a safe default, n for the n-th preview.                *)
(*                                                                         *)
(* Connection ids carry the generation of the inventory, so a layout taken *)
(* before a change of topology is Stale: no output has its ids.            *)
(***************************************************************************)
EXTENDS Naturals, FiniteSets

CONSTANTS
  None, Stale,
  MaxPreviews,  \* bound: Preview calls
  MaxFails      \* bound: times the backend refuses what it could show

VARIABLES
  hyalo,     \* the compositor: display::State, the screens, the session
  disk,      \* the profile file
  store,     \* the disk worker: "idle", "writing", or its answer on the way
  previews,  \* Preview calls so far
  confirmed  \* history: previews whose layout reached the disk

vars == <<hyalo, disk, store, previews, confirmed>>

Outputs == {"internal", "external"}
Settings == [on: BOOLEAN, by: 0 .. MaxPreviews]
Layouts == [{"internal"} -> Settings] \cup [Outputs -> Settings]
Profiles == [BOOLEAN -> Layouts \cup {None}]     \* by whether the external is there
Leases ==
  [by: 1 .. MaxPreviews, before: Layouts \cup {Stale}, after: Layouts \cup {Stale},
   owner: {"here", "gone", "lost"}, waiting: SUBSET Outputs,
   activated: BOOLEAN, expired: BOOLEAN]

ASSUME DisplayAssumption ==
  /\ MaxPreviews \in Nat /\ MaxFails \in Nat
  /\ None # Stale /\ {None, Stale} \cap Layouts = {}
  /\ None \notin Leases /\ None \notin Profiles

By0(on) == [on |-> on, by |-> 0]
Connected(external) == IF external THEN Outputs ELSE {"internal"}
Present(s) == Connected(s.plugged)
Seen(s) == Connected(s.seen)

Shown(s) == [o \in Present(s) |-> s.shown[o]]
CurrentLayout(s) == [o \in Seen(s) |-> s.shown[o]]
DefaultLayout(s) == [o \in Seen(s) |-> By0(TRUE)]

(***************************************************************************)
(* start(): the outputs come up as configured, profiles are not there yet. *)
(***************************************************************************)
Started(external, fails) ==
  [plugged |-> external, active |-> TRUE, locked |-> FALSE,
   shown |-> [o \in Outputs |-> By0(o \in Connected(external))],
   config |-> [o \in Outputs |-> By0(TRUE)],
   ready |-> FALSE, seen |-> external, needed |-> FALSE, queued |-> FALSE, armed |-> FALSE,
   lease |-> None, commit |-> None, profiles |-> [e \in BOOLEAN |-> None],
   closed |-> FALSE, lidBefore |-> None, recovery |-> None,
   fails |-> fails, gap |-> FALSE]

Init ==
  /\ \E external \in BOOLEAN : hyalo = Started(external, 0)
  /\ disk = [e \in BOOLEAN |-> None] /\ store = "idle"
  /\ previews = 0 /\ confirmed = {}

Each(S, Op(_)) == UNION {Op(s) : s \in S}

-----------------------------------------------------------------------------
(***************************************************************************)
(* refresh: a new topology gives new ids.  A change that apply or rollback *)
(* notices is noticed by nobody after them; `gap` remembers that, and a    *)
(* safe layout that failed.                                                *)
(***************************************************************************)
Aged(l) == IF l = None THEN None ELSE Stale

Refresh(s) ==
  IF s.seen = s.plugged THEN s
  ELSE [s EXCEPT !.seen = s.plugged,
                 !.recovery = Aged(s.recovery), !.lidBefore = Aged(s.lidBefore),
                 !.lease = IF s.lease = None THEN None
                           ELSE [s.lease EXCEPT !.before = Stale, !.after = Stale]]

RefreshUnheard(s) ==
  [Refresh(s) EXCEPT !.gap = s.gap \/ (s.seen # s.plugged /\ ~s.needed)]

(***************************************************************************)
(* apply: every target configuration is installed, then the outputs change *)
(* one by one, and what the backend shows is compared.                     *)
(***************************************************************************)
Put(s, l, done) ==
  [s EXCEPT !.config = [o \in Outputs |-> IF o \in DOMAIN l THEN l[o] ELSE s.config[o]],
            !.shown = [o \in Outputs |-> IF o \in done THEN l[o] ELSE s.shown[o]]]

Outcome(ok, s) == [ok |-> ok, state |-> RefreshUnheard(s)]

Apply(s, l) ==
  IF l = Stale THEN {Outcome(FALSE, s)}
  ELSE LET here == DOMAIN l \cap Present(s)
           failing == IF s.fails < MaxFails THEN SUBSET here ELSE {}
       IN {Outcome(DOMAIN l \subseteq Present(s), Put(s, l, here))}
          \cup {Outcome(FALSE, [Put(s, l, done) EXCEPT !.fails = s.fails + 1]) : done \in failing}

SafeLayout(s) ==
  LET lit == {o \in Seen(s) : s.shown[o].on}
      only(p) == [o \in Seen(s) |-> By0(o = p)]
  IN UNION {{[r.state EXCEPT !.gap = r.state.gap \/ ~r.ok] : r \in Apply(s, only(p))} :
              p \in IF lit = {} THEN {"internal"} ELSE lit}

ApplyOrSafe(s, l) ==
  UNION {IF r.ok THEN {r.state} ELSE SafeLayout(r.state) : r \in Apply(s, l)}

\* Mutant: on an inactive VT there is nothing to take back.
RollbackForgets(s) ==
  IF s.commit # None \/ s.lease = None THEN {s}
  ELSE LET ended == [s EXCEPT !.lease = None]
       IN {RefreshUnheard(t) : t \in IF s.active THEN ApplyOrSafe(ended, s.lease.before) ELSE {ended}}
Rollback(s) ==
  IF s.commit # None \/ s.lease = None THEN {s}
  ELSE LET ended == [s EXCEPT !.lease = None]
       IN {RefreshUnheard(t) : t \in IF s.active THEN ApplyOrSafe(ended, s.lease.before)
                                     ELSE {[ended EXCEPT !.recovery = s.lease.before]}}

RestoreProfile(s) ==
  IF s.commit # None \/ ~s.active THEN {s}
  ELSE ApplyOrSafe(s, IF s.profiles[s.seen] = None THEN DefaultLayout(s) ELSE s.profiles[s.seen])

(***************************************************************************)
(* The lid: a closed panel beside a lit external goes dark, and comes back *)
(* as it was.                                                              *)
(***************************************************************************)
Inhibits(s) == s.closed /\ s.seen /\ s.shown["external"].on

PanelOff(s) ==
  IF ~(s.seen /\ s.shown["internal"].on /\ s.shown["external"].on) THEN {s}
  ELSE {[r.state EXCEPT !.lidBefore = IF ~r.ok THEN @
                                      ELSE IF r.state.seen = s.seen THEN CurrentLayout(s) ELSE Stale] :
          r \in Apply(s, [CurrentLayout(s) EXCEPT !["internal"] = By0(FALSE)])}

ReconcileLid(s) ==
  IF ~s.ready \/ s.commit # None \/ ~s.active THEN {s}
  ELSE IF Inhibits(s) /\ s.lidBefore = None THEN Each(Rollback(s), PanelOff)
  ELSE IF ~Inhibits(s) /\ s.lidBefore # None
       THEN ApplyOrSafe([s EXCEPT !.lidBefore = None], s.lidBefore)
  ELSE {s}

(***************************************************************************)
(* reconcile, in its order.                                                *)
(***************************************************************************)
Notice(s) == [Refresh(s) EXCEPT !.needed = s.needed \/ s.seen # s.plugged]

Recover(s) ==
  IF s.active /\ s.recovery # None
  THEN ApplyOrSafe([s EXCEPT !.recovery = None], s.recovery) ELSE {s}

\* On an inactive VT the change is taken note of and its profile never restored.
Retopologize(s) ==
  IF ~s.needed \/ s.commit # None THEN {s}
  ELSE UNION {RestoreProfile([t EXCEPT !.lidBefore = None, !.gap = t.gap \/ ~t.active]) :
                t \in Rollback([s EXCEPT !.needed = FALSE])}

Overdue(s) == s.lease # None /\ s.commit = None /\ (~s.active \/ s.locked \/ s.lease.expired)
Expire(s) == IF Overdue(s) THEN Rollback(s) ELSE {s}

Reconcile(s) ==
  IF ~s.ready THEN {s}
  ELSE Each(Each(Each(Recover(Notice(s)), Retopologize), Expire), ReconcileLid)

\* Mutant: the timer of the activation is not set again for the confirmation.
ArmOnce(s) == [s EXCEPT !.armed = s.lease # None /\ ~s.lease.activated]
Arm(s) == [s EXCEPT !.armed = s.lease # None /\ s.commit = None]

-----------------------------------------------------------------------------
(***************************************************************************)
(* The properties' own reading of a state: which layouts hold nothing of a *)
(* preview that was not confirmed.  A gap lasts until nothing is left of   *)
(* one.                                                                    *)
(***************************************************************************)
Clean(l) == l \in {None, Stale} \/ \A o \in DOMAIN l : l[o].by \in {0} \cup confirmed

Remembered(s) ==
  {s.recovery, s.lidBefore} \cup IF s.lease = None THEN {} ELSE {s.lease.before}

Tidy(s) ==
  /\ s.lease = None => Clean(Shown(s))
  /\ \A l \in Remembered(s) : Clean(l)

Closes(s) == Tidy(s) /\ Clean(s.config)
Ends(S) == \E t \in S : hyalo' = [t EXCEPT !.gap = t.gap /\ ~Closes(t)]

\* The channel's callback reconciles and sets the timer after whatever it handled.
Answers(S) == Ends({Arm(t) : t \in Each(S, Reconcile)})

-----------------------------------------------------------------------------
(***************************************************************************)
(* The machine.  A monitor that is plugged in comes up as state.config     *)
(* says.  changed() queues one reconciliation after the present callback.  *)
(***************************************************************************)
Changed(s) == [s EXCEPT !.queued = s.ready]

Plug ==
  /\ hyalo' = Changed([hyalo EXCEPT !.plugged = ~@,
                !.shown["external"] = IF hyalo.plugged THEN By0(FALSE) ELSE hyalo.config["external"]])
  /\ UNCHANGED <<disk, store, previews, confirmed>>

SwitchVT ==
  /\ hyalo' = Changed([hyalo EXCEPT !.active = ~@])
  /\ UNCHANGED <<disk, store, previews, confirmed>>

LockChanges ==
  /\ hyalo' = Changed([hyalo EXCEPT !.locked = ~@])
  /\ UNCHANGED <<disk, store, previews, confirmed>>

Idle ==
  /\ hyalo.queued
  /\ Ends({Arm(t) : t \in Reconcile([hyalo EXCEPT !.queued = FALSE])})
  /\ UNCHANGED <<disk, store, previews, confirmed>>

(***************************************************************************)
(* Preview: one lease at a time, none over a closed lid.  A layout the     *)
(* backend refuses is replaced by the one before.                          *)
(***************************************************************************)
Allowed(s) == s.active /\ ~s.locked /\ s.ready /\ s.commit = None

Lease(s, l, n) ==
  [by |-> n, before |-> CurrentLayout(s), after |-> l, owner |-> "here",
   waiting |-> {o \in DOMAIN l : l[o].on}, activated |-> FALSE, expired |-> FALSE]

\* A layout that did not come up takes its lease with it.
Previewed(s, l, n) ==
  UNION {IF r.ok THEN {r.state}
         ELSE ApplyOrSafe([r.state EXCEPT !.lease = None], CurrentLayout(s)) :
           r \in Apply([s EXCEPT !.lease = Lease(s, l, n)], l)}

Preview(l) ==
  /\ previews < MaxPreviews /\ previews' = previews + 1
  /\ LET n == previews + 1
         taken(s) == IF /\ Allowed(s) /\ s.lease = None /\ s.lidBefore = None
                        /\ DOMAIN l = Seen(s)
                     THEN Previewed(s, [o \in DOMAIN l |-> [on |-> l[o], by |-> n]], n) ELSE {s}
     IN Answers(Each(Reconcile(hyalo), taken))
  /\ UNCHANGED <<disk, store, confirmed>>

(***************************************************************************)
(* presented: a frame built after the apply.  The last output's activates  *)
(* the lease, with a deadline of its own.                                  *)
(***************************************************************************)
FramePresented(o) ==
  /\ hyalo.active /\ o \in Present(hyalo) /\ hyalo.shown[o].on
  /\ hyalo.lease # None /\ ~hyalo.lease.activated /\ o \in hyalo.lease.waiting
  /\ LET waiting == hyalo.lease.waiting \ {o}
         told == [hyalo EXCEPT !.lease.waiting = waiting]
     IN hyalo' = IF waiting # {} THEN told
                 ELSE Arm([told EXCEPT !.lease.activated = TRUE, !.lease.expired = FALSE])
  /\ UNCHANGED <<disk, store, previews, confirmed>>

DeadlinePasses ==
  /\ hyalo.lease # None /\ ~hyalo.lease.expired
  /\ hyalo' = [hyalo EXCEPT !.lease.expired = TRUE]
  /\ UNCHANGED <<disk, store, previews, confirmed>>

\* A lease that ended without arm_lease_timer leaves its timer behind.
TimerFires ==
  /\ hyalo.armed /\ (hyalo.lease # None => hyalo.lease.expired)
  /\ Ends({Arm(t) : t \in Reconcile([hyalo EXCEPT !.armed = FALSE])})
  /\ UNCHANGED <<disk, store, previews, confirmed>>

(***************************************************************************)
(* The owner's answers, and its end.  The daemon tells of the loss later.  *)
(***************************************************************************)
Owned(s) == s.lease # None /\ s.commit = None

Saving(s) ==
  [s EXCEPT !.commit = [s.profiles EXCEPT ![s.seen] = s.lease.after]]

Confirms(s) == Owned(s) /\ Allowed(s) /\ s.lease.activated /\ ~s.lease.expired

Confirm ==
  /\ hyalo.lease # None /\ hyalo.lease.owner = "here"
  /\ \E s \in Reconcile(hyalo) :
       /\ Answers({IF Confirms(s) THEN Saving(s) ELSE s})
       /\ store' = IF Confirms(s) THEN "writing" ELSE store
  /\ UNCHANGED <<disk, previews, confirmed>>

Cancel ==
  /\ hyalo.lease # None /\ hyalo.lease.owner = "here"
  /\ Answers(Each(Reconcile(hyalo), Rollback))
  /\ UNCHANGED <<disk, store, previews, confirmed>>

ClientDies ==
  /\ hyalo.lease # None /\ hyalo.lease.owner = "here"
  /\ hyalo' = [hyalo EXCEPT !.lease.owner = "gone"]
  /\ UNCHANGED <<disk, store, previews, confirmed>>

OwnerLost ==
  /\ hyalo.lease # None /\ hyalo.lease.owner = "gone"
  /\ Answers(Rollback([hyalo EXCEPT !.lease.owner = "lost"]))
  /\ UNCHANGED <<disk, store, previews, confirmed>>

(***************************************************************************)
(* The lid, told by the power policy; its silence opens it.                *)
(***************************************************************************)
LidSays(closed) ==
  /\ hyalo.ready /\ hyalo.closed # closed
  /\ Answers(Each({[s EXCEPT !.closed = closed] : s \in Reconcile(hyalo)}, ReconcileLid))
  /\ UNCHANGED <<disk, store, previews, confirmed>>

LidOwnerLost ==
  /\ hyalo.closed
  /\ Answers(ReconcileLid([hyalo EXCEPT !.closed = FALSE]))
  /\ UNCHANGED <<disk, store, previews, confirmed>>

(***************************************************************************)
(* The disk worker.  The file is replaced before its directory is synced:  *)
(* a failure there is told although the new profiles are in place.         *)
(***************************************************************************)
DiskWrites ==
  /\ store = "writing"
  /\ \E replaced \in BOOLEAN :
       /\ store' \in IF replaced THEN {"saved", "failed"} ELSE {"failed"}
       /\ disk' = IF replaced THEN hyalo.commit ELSE disk
       /\ confirmed' = IF replaced THEN confirmed \cup {hyalo.lease.by} ELSE confirmed
  /\ UNCHANGED <<hyalo, previews>>

\* Mutant: a failed save leaves the confirmation pending.
SavedKeeps(s, ok) ==
  IF ok THEN [s EXCEPT !.commit = None, !.profiles = s.commit, !.lease = None] ELSE s
Settled(s, ok) ==
  IF ok THEN [s EXCEPT !.commit = None, !.profiles = s.commit, !.lease = None]
  ELSE [s EXCEPT !.commit = None]

Saved ==
  /\ store \in {"saved", "failed"} /\ store' = "idle"
  /\ Answers({Settled(hyalo, store = "saved")})
  /\ UNCHANGED <<disk, previews, confirmed>>

(***************************************************************************)
(* Other ways to the screens.  A reload takes the preview back before it   *)
(* looks at the new configuration (every output on, no mode of its own).   *)
(* SetOutput changes one output, runtime only.                             *)
(***************************************************************************)
Reloaded(s) == [s EXCEPT !.config = [o \in Outputs |-> By0(TRUE)]]

ConfigReload(valid) ==
  /\ LET before == Rollback(hyalo)
         taken(s) == IF valid /\ s.lease = None
                     THEN {Changed(t) : t \in IF s.ready THEN RestoreProfile(Reloaded(s))
                                              ELSE {Reloaded(s)}}
                     ELSE {s}
     IN Ends(Each(before, taken))
  /\ UNCHANGED <<disk, store, previews, confirmed>>

LegacyApply(o, on) ==
  /\ Allowed(hyalo) /\ hyalo.lease = None /\ o \in Seen(hyalo)
  /\ LET before == CurrentLayout(hyalo)
         l == [before EXCEPT ![o] = By0(on)]
     IN /\ \E p \in DOMAIN l : l[p].on
        /\ Ends(UNION {IF r.ok THEN {Changed(r.state)} ELSE ApplyOrSafe(r.state, before) :
                         r \in Apply(hyalo, l)})
  /\ UNCHANGED <<disk, store, previews, confirmed>>

(***************************************************************************)
(* The compositor starts again; the worker's first answer is the profiles. *)
(***************************************************************************)
Crash ==
  /\ hyalo' = Started(hyalo.plugged, hyalo.fails) /\ store' = "idle"
  /\ UNCHANGED <<disk, previews, confirmed>>

Loaded ==
  /\ ~hyalo.ready
  /\ Answers(RestoreProfile([hyalo EXCEPT !.profiles = disk, !.ready = TRUE]))
  /\ UNCHANGED <<disk, store, previews, confirmed>>

-----------------------------------------------------------------------------
Client ==
  \/ \E external \in BOOLEAN : \E l \in [Connected(external) -> BOOLEAN] :
       (\E o \in DOMAIN l : l[o]) /\ Preview(l)
  \/ Confirm \/ Cancel \/ ClientDies
  \/ \E o \in Outputs, on \in BOOLEAN : LegacyApply(o, on)

Machine ==
  \/ Plug \/ SwitchVT \/ LockChanges \/ LidOwnerLost \/ Crash
  \/ \E closed \in BOOLEAN : LidSays(closed)
  \/ \E o \in Outputs : FramePresented(o)
  \/ \E valid \in BOOLEAN : ConfigReload(valid)

Loop == Idle \/ TimerFires \/ DeadlinePasses \/ OwnerLost \/ DiskWrites \/ Saved \/ Loaded

Next == Client \/ Machine \/ Loop

Spec == Init /\ [][Next]_vars

\* Time passes, calloop runs its timers and channels, the worker answers.
FairSpec ==
  /\ Spec
  /\ WF_vars(TimerFires) /\ WF_vars(DeadlinePasses)
  /\ WF_vars(DiskWrites) /\ WF_vars(Saved)

-----------------------------------------------------------------------------
(***************************************************************************)
(* Types.  A save is at the worker, or on its way back, exactly while a    *)
(* confirmation waits for it, and the confirmed preview is still there.    *)
(***************************************************************************)
Hyalo ==
  [plugged: BOOLEAN, active: BOOLEAN, locked: BOOLEAN,
   shown: [Outputs -> Settings], config: [Outputs -> Settings],
   ready: BOOLEAN, seen: BOOLEAN, needed: BOOLEAN, queued: BOOLEAN, armed: BOOLEAN,
   lease: Leases \cup {None}, commit: Profiles \cup {None}, profiles: Profiles,
   closed: BOOLEAN, lidBefore: Layouts \cup {None, Stale},
   recovery: Layouts \cup {None, Stale}, fails: 0 .. MaxFails, gap: BOOLEAN]

DisplayTypeOK ==
  /\ hyalo \in Hyalo
  /\ disk \in Profiles /\ store \in {"idle", "writing", "saved", "failed"}
  /\ previews \in 0 .. MaxPreviews /\ confirmed \subseteq 1 .. previews
  /\ (store # "idle") <=> (hyalo.commit # None)
  /\ hyalo.commit # None => hyalo.lease # None

(***************************************************************************)
(* While no preview is pending and the loop has nothing queued, nothing of *)
(* a preview that was not confirmed is on the screens of the active        *)
(* session, and no layout kept for later holds any; a preview that nobody  *)
(* confirmed does not outlive the session's being active and unlocked.     *)
(***************************************************************************)
NoStrayPreview ==
  ~hyalo.gap /\ ~hyalo.queued /\ hyalo.commit = None =>
    /\ hyalo.active => Tidy(hyalo)
    /\ hyalo.lease # None => hyalo.active /\ ~hyalo.locked

(***************************************************************************)
(* Every preview ends, confirmed or taken back, whatever its owner, the    *)
(* screens and the disk do.                                                *)
(***************************************************************************)
Pending(n) == hyalo.lease # None /\ hyalo.lease.by = n
PreviewEnds == \A n \in 1 .. MaxPreviews : Pending(n) ~> ~Pending(n)
=============================================================================
