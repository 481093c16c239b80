---------------------------- MODULE DisplayProofs ----------------------------
(***************************************************************************)
(* Proofs about Display, for any number of previews and of failures.       *)
(***************************************************************************)
EXTENDS Display, TLAPS

USE DisplayAssumption DEF DisplayAssumption

(***************************************************************************)
(* The strengthening, as predicates on a state s of the compositor and the *)
(* set c of confirmed previews.                                            *)
(*                                                                         *)
(* Shape: a kept layout fits the inventory unless it is stale, and is kept *)
(* by a lease, or for the lid or an inactive session, never by both.       *)
(***************************************************************************)
CleanIn(l, c) == l \in {None, Stale} \/ \A o \in DOMAIN l : l[o].by \in {0} \cup c
Fits(l, s) == l \in {None, Stale} \/ DOMAIN l = Seen(s)
FitsAll(p) == \A e \in BOOLEAN : p[e] # None => DOMAIN p[e] = Connected(e)

Shape(s) ==
  /\ s.lease # None =>
       /\ Fits(s.lease.before, s) /\ Fits(s.lease.after, s)
       /\ s.lease.after # Stale => \A o \in DOMAIN s.lease.after : s.lease.after[o].by = s.lease.by
       /\ s.lidBefore = None /\ s.recovery = None
  /\ Fits(s.recovery, s) /\ Fits(s.lidBefore, s)
  /\ s.commit # None => s.lease # None /\ FitsAll(s.commit)
  /\ FitsAll(s.profiles)
  /\ ~s.plugged => s.shown["external"].by = 0

(***************************************************************************)
(* Kept: the layouts kept hold confirmed previews only, the one on its way *)
(* to the disk holds its own as well.                                      *)
(***************************************************************************)
Kept(s, c) ==
  /\ \A e \in BOOLEAN : CleanIn(s.profiles[e], c)
  /\ s.commit # None => \A e \in BOOLEAN : CleanIn(s.commit[e], c \cup {s.lease.by})
  /\ ~s.gap => /\ CleanIn(s.recovery, c) /\ CleanIn(s.lidBefore, c)
               /\ s.lease # None => CleanIn(s.lease.before, c)

(***************************************************************************)
(* On: so do the screens, but for the pending preview, unless a new        *)
(* topology or a layout to recover is still to be dealt with.              *)
(***************************************************************************)
OnlyBy(s, c) == \A o \in Seen(s) : s.shown[o].by \in {0} \cup c /\ s.config[o].by \in {0} \cup c

On(s, c) ==
  /\ s.lease # None /\ ~s.needed => s.lease.after # Stale /\ OnlyBy(s, c \cup {s.lease.by})
  /\ s.lease = None /\ ~s.gap /\ ~s.needed /\ s.recovery = None => OnlyBy(s, c)

Good(s, c) == s \in Hyalo /\ Shape(s) /\ Kept(s, c) /\ On(s, c)

(***************************************************************************)
(* Between handlers: what reconcile has dealt with, and a start without    *)
(* its profiles.                                                           *)
(***************************************************************************)
NotReady(s) ==
  ~s.ready => /\ s.lease = None /\ s.commit = None /\ s.recovery = None /\ s.lidBefore = None
              /\ ~s.needed /\ ~s.queued
              /\ \A o \in Outputs : s.shown[o].by = 0 /\ s.config[o].by = 0

Dealt(s) ==
  /\ s.ready => s.seen = s.plugged
  /\ s.commit = None =>
       /\ s.lease # None => s.active /\ ~s.locked
       /\ s.active => s.recovery = None

Between(s) ==
  /\ NotReady(s)
  /\ s.needed => s.commit # None
  /\ ~s.queued => Dealt(s)

LEMMA LayoutParts ==
  ASSUME NEW l \in Layouts
  PROVE  /\ DOMAIN l \in {{"internal"}, Outputs}
         /\ \A o \in DOMAIN l : l[o] \in Settings
         /\ l # None /\ l # Stale
BY DEF Layouts

LEMMA SeenLayouts ==
  ASSUME NEW s \in Hyalo
  PROVE  /\ Seen(s) \in {{"internal"}, Outputs} /\ Seen(s) = Connected(s.seen)
         /\ \A f \in [Seen(s) -> Settings] : f \in Layouts
         /\ CurrentLayout(s) \in Layouts /\ DOMAIN CurrentLayout(s) = Seen(s)
         /\ \A o \in Seen(s) : CurrentLayout(s)[o] = s.shown[o]
         /\ DefaultLayout(s) \in Layouts /\ DOMAIN DefaultLayout(s) = Seen(s)
         /\ \A o \in Seen(s) : DefaultLayout(s)[o].by = 0
<1>1. Seen(s) \in {{"internal"}, Outputs} /\ Seen(s) = Connected(s.seen) /\ Seen(s) \subseteq Outputs
  BY DEF Seen, Connected, Outputs
<1>2. \A f \in [Seen(s) -> Settings] : f \in Layouts
  BY <1>1 DEF Layouts
<1>3. \A o \in Seen(s) : s.shown[o] \in Settings /\ By0(TRUE) \in Settings
  BY <1>1 DEF Hyalo, Settings, By0
<1> QED BY <1>1, <1>2, <1>3 DEF CurrentLayout, DefaultLayout, By0

(***************************************************************************)
(* What a handler's steps may do to the compositor besides the screens: a  *)
(* refresh, which the state remembers as a gap unless it was asked for.    *)
(***************************************************************************)
SameMachine(s, t) ==
  /\ t.plugged = s.plugged /\ t.active = s.active /\ t.locked = s.locked /\ t.ready = s.ready
  /\ t.queued = s.queued /\ t.armed = s.armed /\ t.closed = s.closed

AgedLease(l) == IF l = None THEN None ELSE [l EXCEPT !.before = Stale, !.after = Stale]

Moved(s, t) ==
  /\ t \in Hyalo /\ SameMachine(s, t)
  /\ t.needed = s.needed /\ t.commit = s.commit /\ t.profiles = s.profiles
  /\ s.gap => t.gap
  /\ IF t.seen = s.seen
     THEN t.lease = s.lease /\ t.lidBefore = s.lidBefore /\ t.recovery = s.recovery
     ELSE /\ t.seen = s.plugged
          /\ t.lease = AgedLease(s.lease)
          /\ t.lidBefore = Aged(s.lidBefore) /\ t.recovery = Aged(s.recovery)
          /\ t.gap \/ t.needed
  /\ ~t.plugged => t.shown["external"].by = 0 \/ t.shown["external"] = s.shown["external"]

LEMMA MovedTwice == ASSUME NEW r, NEW s, NEW t, Moved(r, s), Moved(s, t) PROVE Moved(r, t)
<1> USE DEF Moved
<1>1. t \in Hyalo /\ SameMachine(r, t)
  BY DEF SameMachine
<1>2. t.needed = r.needed /\ t.commit = r.commit /\ t.profiles = r.profiles /\ (r.gap => t.gap)
  OBVIOUS
<1>3. r.plugged = s.plugged /\ (s.gap => t.gap) /\ t.needed = s.needed
  BY DEF SameMachine
<1>4. ~t.plugged => t.shown["external"].by = 0 \/ t.shown["external"] = r.shown["external"]
  BY DEF SameMachine
<1>5. CASE t.seen = s.seen
  <2>1. t.lease = s.lease /\ t.lidBefore = s.lidBefore /\ t.recovery = s.recovery
    BY <1>5
  <2>2. CASE s.seen = r.seen
    <3>1. t.lease = r.lease /\ t.lidBefore = r.lidBefore /\ t.recovery = r.recovery /\ t.seen = r.seen
      BY <1>5, <2>1, <2>2
    <3> QED BY <1>1, <1>2, <1>4, <3>1
  <2>3. CASE s.seen # r.seen
    <3>1. /\ t.lease = AgedLease(r.lease) /\ t.lidBefore = Aged(r.lidBefore) /\ t.recovery = Aged(r.recovery)
          /\ t.seen = r.plugged /\ t.seen # r.seen
      BY <1>5, <2>1, <2>3
    <3>2. t.gap \/ t.needed
      BY <1>3, <2>3
    <3> QED BY <1>1, <1>2, <1>4, <3>1, <3>2
  <2> QED BY <2>2, <2>3
<1>6. CASE t.seen # s.seen
  <2>1. t.seen = s.plugged /\ t.seen = r.plugged
    BY <1>3, <1>6
  <2>2. s.seen = r.seen
    BY <1>6, <2>1
  <2>3. /\ t.lease = AgedLease(r.lease) /\ t.lidBefore = Aged(r.lidBefore) /\ t.recovery = Aged(r.recovery)
        /\ t.seen # r.seen /\ (t.gap \/ t.needed)
    BY <1>6, <2>2
  <2> QED BY <1>1, <1>2, <1>4, <2>1, <2>3
<1> QED BY <1>5, <1>6

LEMMA MovedNowhere == ASSUME NEW s \in Hyalo PROVE Moved(s, s)
BY DEF Moved, SameMachine

LEMMA RefreshMoves == ASSUME NEW s \in Hyalo PROVE Moved(s, RefreshUnheard(s)) /\ RefreshUnheard(s).seen = s.plugged
               /\ RefreshUnheard(s).shown = s.shown /\ RefreshUnheard(s).config = s.config
<1>1. CASE s.seen = s.plugged
  <2>1. RefreshUnheard(s) = s
    BY <1>1 DEF RefreshUnheard, Refresh, Hyalo
  <2> QED BY <1>1, <2>1, MovedNowhere
<1>2. CASE s.seen # s.plugged
  <2> DEFINE t == RefreshUnheard(s)
             gap == s.gap \/ ~s.needed
  <2>1. t = [s EXCEPT !.seen = s.plugged, !.recovery = Aged(s.recovery), !.lidBefore = Aged(s.lidBefore),
                      !.lease = AgedLease(s.lease), !.gap = gap]
    BY <1>2 DEF RefreshUnheard, Refresh, AgedLease, Hyalo
  <2>2. AgedLease(s.lease) \in Leases \cup {None}
    BY DEF AgedLease, Hyalo, Leases
  <2>3. Aged(s.recovery) \in Layouts \cup {None, Stale} /\ Aged(s.lidBefore) \in Layouts \cup {None, Stale}
    BY DEF Aged
  <2>0. gap \in BOOLEAN /\ s.plugged \in BOOLEAN
    BY DEF Hyalo
  <2> HIDE DEF t, gap
  <2>4. t \in Hyalo
    BY <2>0, <2>1, <2>2, <2>3 DEF Hyalo
  <2>5. /\ SameMachine(s, t) /\ t.needed = s.needed /\ t.commit = s.commit /\ t.profiles = s.profiles
        /\ t.shown = s.shown /\ t.config = s.config
    BY <2>1 DEF Hyalo, SameMachine
  <2>6. /\ t.seen = s.plugged /\ t.lease = AgedLease(s.lease)
        /\ t.lidBefore = Aged(s.lidBefore) /\ t.recovery = Aged(s.recovery)
        /\ t.gap = gap
    BY <2>1 DEF Hyalo
  <2>7. Moved(s, t)
    BY <1>2, <2>4, <2>5, <2>6 DEF Moved, gap
  <2> QED BY <2>5, <2>6, <2>7 DEF t
<1> QED BY <1>1, <1>2

Placed(s, l, done, t) ==
  \A o \in Outputs : /\ t.config[o] = IF o \in DOMAIN l THEN l[o] ELSE s.config[o]
                     /\ t.shown[o] = IF o \in done THEN l[o] ELSE s.shown[o]

LEMMA PutMoves ==
  ASSUME NEW s \in Hyalo, NEW l \in Layouts, NEW done \in SUBSET (DOMAIN l \cap Present(s))
  PROVE  /\ Moved(s, Put(s, l, done)) /\ Put(s, l, done).seen = s.seen /\ Put(s, l, done).fails = s.fails
         /\ Placed(s, l, done, Put(s, l, done))
<1> DEFINE t == Put(s, l, done)
           config == [o \in Outputs |-> IF o \in DOMAIN l THEN l[o] ELSE s.config[o]]
           shown == [o \in Outputs |-> IF o \in done THEN l[o] ELSE s.shown[o]]
<1>1. config \in [Outputs -> Settings] /\ shown \in [Outputs -> Settings]
  <2>1. s.config \in [Outputs -> Settings] /\ s.shown \in [Outputs -> Settings]
    BY DEF Hyalo
  <2> QED BY <2>1, LayoutParts
<1>2. t = [s EXCEPT !.config = config, !.shown = shown]
  BY DEF Put
<1>3. ~s.plugged => "external" \notin done
  BY DEF Present, Connected
<1>4. ~s.plugged => shown["external"] = s.shown["external"]
  BY <1>3 DEF Outputs
<1> HIDE DEF t, config, shown
<1>5. t \in Hyalo
  BY <1>1, <1>2 DEF Hyalo
<1>6. /\ SameMachine(s, t) /\ t.needed = s.needed /\ t.commit = s.commit /\ t.profiles = s.profiles /\ t.gap = s.gap
      /\ t.seen = s.seen /\ t.lease = s.lease /\ t.lidBefore = s.lidBefore /\ t.recovery = s.recovery
      /\ t.fails = s.fails /\ t.config = config /\ t.shown = shown
  BY <1>2 DEF Hyalo, SameMachine
<1>7. Moved(s, t)
  BY <1>4, <1>5, <1>6 DEF Moved, SameMachine
<1>8. Placed(s, l, done, t)
  BY <1>6 DEF Placed, config, shown
<1> QED BY <1>6, <1>7, <1>8 DEF t

LEMMA AgedParts ==
  ASSUME NEW l \in Leases \cup {None}
  PROVE  /\ AgedLease(l) = None <=> l = None
         /\ l # None => /\ AgedLease(l).before = Stale /\ AgedLease(l).after = Stale
                        /\ AgedLease(l).by = l.by
<1>1. CASE l = None
  BY <1>1 DEF AgedLease
<1>2. CASE l # None
  <2>1. AgedLease(l) \in Leases /\ AgedLease(l).before = Stale /\ AgedLease(l).after = Stale /\ AgedLease(l).by = l.by
    BY <1>2 DEF AgedLease, Leases
  <2> QED BY <1>2, <2>1
<1> QED BY <1>1, <1>2

LEMMA MovedKeeps ==
  ASSUME NEW s \in Hyalo, NEW t, Moved(s, t), Shape(s)
  PROVE  /\ Shape(t)
         /\ \A c : Kept(s, c) => Kept(t, c)
         /\ (t.lease = None <=> s.lease = None) /\ (s.lease # None => t.lease.by = s.lease.by)
         /\ (t.recovery = None <=> s.recovery = None) /\ (t.lidBefore = None <=> s.lidBefore = None)
<1>1. s.lease \in Leases \cup {None}
  BY DEF Hyalo
<1>2. /\ (t.lease = None <=> s.lease = None) /\ (s.lease # None => t.lease.by = s.lease.by)
      /\ (t.recovery = None <=> s.recovery = None) /\ (t.lidBefore = None <=> s.lidBefore = None)
  BY <1>1, AgedParts DEF Moved, Aged
<1>3. Fits(t.recovery, t) /\ Fits(t.lidBefore, t)
  BY DEF Moved, Shape, Fits, Aged, Seen
<1>4. t.lease # None => Fits(t.lease.before, t) /\ Fits(t.lease.after, t)
  BY <1>1, AgedParts DEF Moved, Shape, Fits, Seen
<1>5. t.lease # None /\ t.lease.after # Stale => \A o \in DOMAIN t.lease.after : t.lease.after[o].by = t.lease.by
  BY <1>1, AgedParts DEF Moved, Shape
<1>6. ~t.plugged => t.shown["external"].by = 0
  BY DEF Moved, SameMachine, Shape
<1>7. Shape(t)
  BY <1>2, <1>3, <1>4, <1>5, <1>6 DEF Moved, Shape
<1>8. ASSUME NEW c, Kept(s, c) PROVE Kept(t, c)
  <2>1. t.commit # None => \A e \in BOOLEAN : CleanIn(t.commit[e], c \cup {t.lease.by})
    BY <1>2, <1>8 DEF Moved, Kept, Shape
  <2>2. ~t.gap => CleanIn(t.recovery, c) /\ CleanIn(t.lidBefore, c)
    BY <1>8 DEF Moved, Kept, CleanIn, Aged
  <2>3. ~t.gap /\ t.lease # None => CleanIn(t.lease.before, c)
    BY <1>1, <1>2, <1>8, AgedParts DEF Moved, Kept, CleanIn
  <2> QED BY <1>8, <2>1, <2>2, <2>3 DEF Moved, Kept
<1> QED BY <1>2, <1>7, <1>8

(***************************************************************************)
(* apply, safe_layout and their sequence: the screens hold what was asked  *)
(* for, or what they held.                                                 *)
(***************************************************************************)
LEMMA FailMoves ==
  ASSUME NEW s \in Hyalo, s.fails < MaxFails
  PROVE  LET t == [s EXCEPT !.fails = s.fails + 1] IN
         Moved(s, t) /\ t.seen = s.seen /\ t.shown = s.shown /\ t.config = s.config
<1> DEFINE t == [s EXCEPT !.fails = s.fails + 1]
<1>1. s.fails + 1 \in 0 .. MaxFails
  BY DEF Hyalo
<1>2. t \in Hyalo
  BY <1>1 DEF Hyalo
<1>3. /\ SameMachine(s, t) /\ t.needed = s.needed /\ t.commit = s.commit /\ t.profiles = s.profiles /\ t.gap = s.gap
      /\ t.seen = s.seen /\ t.lease = s.lease /\ t.lidBefore = s.lidBefore /\ t.recovery = s.recovery
      /\ t.config = s.config /\ t.shown = s.shown
  BY DEF Hyalo, SameMachine
<1> HIDE DEF t
<1>4. Moved(s, t)
  BY <1>2, <1>3 DEF Moved
<1> QED BY <1>3, <1>4 DEF t

Screened(s, l, u) ==
  \A o \in Outputs :
    /\ u.config[o] = s.config[o] \/ (o \in DOMAIN l /\ u.config[o] = l[o])
    /\ u.shown[o] = s.shown[o] \/ (o \in DOMAIN l /\ u.shown[o] = l[o])

Shows(l, u) == \A o \in DOMAIN l : u.shown[o] = l[o] /\ u.config[o] = l[o]

LEMMA ApplyPuts ==
  ASSUME NEW s \in Hyalo, NEW l \in Layouts, NEW r \in Apply(s, l)
  PROVE  /\ r.ok \in BOOLEAN
         /\ \E u \in Hyalo :
              /\ Moved(s, u) /\ u.seen = s.seen /\ r.state = RefreshUnheard(u)
              /\ Screened(s, l, u)
              /\ r.ok => DOMAIN l \subseteq Present(s) /\ Shows(l, u)
<1> DEFINE here == DOMAIN l \cap Present(s)
<1>1. l # Stale /\ DOMAIN l \subseteq Outputs
  BY LayoutParts DEF Outputs
<1>2. CASE r = Outcome(DOMAIN l \subseteq Present(s), Put(s, l, here))
  <2> DEFINE u == Put(s, l, here)
  <2>1. Moved(s, u) /\ u.seen = s.seen
        /\ Placed(s, l, here, u)
    <3>1. here \in SUBSET (DOMAIN l \cap Present(s))
      OBVIOUS
    <3> QED BY <3>1, PutMoves
  <2>2. r.ok = (DOMAIN l \subseteq Present(s)) /\ r.state = RefreshUnheard(u)
    BY <1>2 DEF Outcome
  <2> HIDE DEF u
  <2>3. Screened(s, l, u)
    <3>1. ASSUME NEW o \in Outputs
          PROVE  /\ u.config[o] = s.config[o] \/ (o \in DOMAIN l /\ u.config[o] = l[o])
                 /\ u.shown[o] = s.shown[o] \/ (o \in DOMAIN l /\ u.shown[o] = l[o])
      BY <2>1 DEF Placed
    <3> QED BY <3>1 DEF Screened
  <2>4. ASSUME DOMAIN l \subseteq Present(s) PROVE Shows(l, u)
    <3>1. ASSUME NEW o \in DOMAIN l PROVE u.shown[o] = l[o] /\ u.config[o] = l[o]
      BY <1>1, <2>1, <2>4 DEF Placed
    <3> QED BY <3>1 DEF Shows
  <2>5. u \in Hyalo /\ r.ok \in BOOLEAN
    BY <2>1, <2>2 DEF Moved
  <2> QED BY <2>1, <2>2, <2>3, <2>4, <2>5
<1>3. ASSUME NEW done \in SUBSET here, s.fails < MaxFails,
             r = Outcome(FALSE, [Put(s, l, done) EXCEPT !.fails = s.fails + 1])
      PROVE  /\ r.ok \in BOOLEAN
             /\ \E u \in Hyalo :
                  /\ Moved(s, u) /\ u.seen = s.seen /\ r.state = RefreshUnheard(u)
                  /\ Screened(s, l, u)
                  /\ r.ok => DOMAIN l \subseteq Present(s) /\ Shows(l, u)
  <2> DEFINE p == Put(s, l, done)
             u == [p EXCEPT !.fails = p.fails + 1]
  <2>1. Moved(s, p) /\ p.seen = s.seen /\ p.fails = s.fails
        /\ Placed(s, l, done, p)
    <3>1. done \in SUBSET (DOMAIN l \cap Present(s))
      OBVIOUS
    <3> QED BY <3>1, PutMoves
  <2>2. ~r.ok /\ r.ok \in BOOLEAN /\ r.state = RefreshUnheard(u)
    BY <1>3, <2>1 DEF Outcome
  <2> HIDE DEF p
  <2>3. p \in Hyalo /\ p.fails < MaxFails
    BY <1>3, <2>1 DEF Moved
  <2>4. Moved(p, u) /\ u.seen = p.seen /\ u.shown = p.shown /\ u.config = p.config
    BY <2>3, FailMoves
  <2> HIDE DEF u
  <2>5. Moved(s, u) /\ u \in Hyalo
    BY <2>1, <2>4, MovedTwice DEF Moved
  <2>6. Screened(s, l, u)
    <3>1. ASSUME NEW o \in Outputs
          PROVE  /\ u.config[o] = s.config[o] \/ (o \in DOMAIN l /\ u.config[o] = l[o])
                 /\ u.shown[o] = s.shown[o] \/ (o \in DOMAIN l /\ u.shown[o] = l[o])
      <4>1. done \subseteq DOMAIN l
        OBVIOUS
      <4> QED BY <2>1, <2>4, <4>1 DEF Placed
    <3> QED BY <3>1 DEF Screened
  <2> QED BY <2>1, <2>2, <2>4, <2>5, <2>6
<1> QED BY <1>1, <1>2, <1>3 DEF Apply

LEMMA ApplyMoves ==
  ASSUME NEW s \in Hyalo, NEW l \in Layouts \cup {Stale}, NEW r \in Apply(s, l)
  PROVE  r.ok \in BOOLEAN /\ Moved(s, r.state) /\ r.state.seen = s.plugged
<1>1. CASE l = Stale
  <2>1. r.ok = FALSE /\ r.state = RefreshUnheard(s)
    BY <1>1 DEF Apply, Outcome
  <2> QED BY <2>1, RefreshMoves
<1>2. CASE l # Stale
  <2>1. l \in Layouts
    BY <1>2
  <2>2. PICK u \in Hyalo : Moved(s, u) /\ u.seen = s.seen /\ r.state = RefreshUnheard(u)
    BY <2>1, ApplyPuts
  <2>3. Moved(s, r.state) /\ r.state.seen = u.plugged
    BY <2>2, RefreshMoves, MovedTwice
  <2> QED BY <2>1, <2>2, <2>3, ApplyPuts DEF Moved, SameMachine
<1> QED BY <1>1, <1>2

Lit(t, c) == t.gap \/ t.needed \/ OnlyBy(t, c)

LEMMA ApplyShows ==
  ASSUME NEW s \in Hyalo, NEW l \in Layouts \cup {Stale}, Fits(l, s), NEW c, CleanIn(l, c), NEW r \in Apply(s, l)
  PROVE  (r.ok => Lit(r.state, c)) /\ (OnlyBy(s, c) => Lit(r.state, c))
         /\ (r.ok /\ s.seen = s.plugged => r.state.seen = s.seen /\ OnlyBy(r.state, c))
<1>1. Moved(s, r.state) /\ r.state.seen = s.plugged
  BY ApplyMoves
<1>2. CASE s.seen # s.plugged
  <2>1. r.state.gap \/ r.state.needed
    BY <1>1, <1>2 DEF Moved
  <2> QED BY <1>2, <2>1 DEF Lit
<1>3. CASE s.seen = s.plugged /\ l = Stale
  <2>1. r.ok = FALSE /\ r.state = RefreshUnheard(s)
    BY <1>3 DEF Apply, Outcome
  <2>2. r.state.shown = s.shown /\ r.state.config = s.config /\ r.state.seen = s.seen
    BY <1>3, <2>1, RefreshMoves
  <2> QED BY <2>1, <2>2 DEF Lit, OnlyBy, Seen
<1>4. CASE s.seen = s.plugged /\ l # Stale
  <2>1. l \in Layouts /\ DOMAIN l = Seen(s) /\ \A o \in DOMAIN l : l[o].by \in {0} \cup c
    BY <1>4, LayoutParts DEF Fits, CleanIn
  <2>2. PICK u \in Hyalo : /\ Moved(s, u) /\ u.seen = s.seen /\ r.state = RefreshUnheard(u)
                           /\ Screened(s, l, u) /\ (r.ok => Shows(l, u))
    BY <2>1, ApplyPuts
  <2>3. r.state.shown = u.shown /\ r.state.config = u.config /\ Seen(r.state) = Seen(s)
    BY <1>1, <1>4, <2>2, RefreshMoves DEF Seen
  <2>4. r.ok => OnlyBy(r.state, c)
    BY <2>1, <2>2, <2>3 DEF OnlyBy, Shows
  <2>5. ASSUME OnlyBy(s, c) PROVE OnlyBy(r.state, c)
    <3>1. Seen(s) \subseteq Outputs
      BY DEF Seen, Connected, Outputs
    <3> QED BY <2>1, <2>2, <2>3, <2>5, <3>1 DEF OnlyBy, Screened
  <2> QED BY <1>1, <1>4, <2>4, <2>5 DEF Lit
<1> QED BY <1>2, <1>3, <1>4

LEMMA GapMoves ==
  ASSUME NEW s \in Hyalo, NEW g \in BOOLEAN, s.gap => g
  PROVE  LET t == [s EXCEPT !.gap = g] IN
         Moved(s, t) /\ t.seen = s.seen /\ t.shown = s.shown /\ t.config = s.config /\ t.gap = g
<1> DEFINE t == [s EXCEPT !.gap = g]
<1>1. t \in Hyalo
  BY DEF Hyalo
<1>2. /\ SameMachine(s, t) /\ t.needed = s.needed /\ t.commit = s.commit /\ t.profiles = s.profiles /\ t.gap = g
      /\ t.seen = s.seen /\ t.lease = s.lease /\ t.lidBefore = s.lidBefore /\ t.recovery = s.recovery
      /\ t.config = s.config /\ t.shown = s.shown
  BY DEF Hyalo, SameMachine
<1> HIDE DEF t
<1>3. Moved(s, t)
  BY <1>1, <1>2 DEF Moved
<1> QED BY <1>2, <1>3 DEF t

Only(s, p) == [o \in Seen(s) |-> By0(o = p)]
Marked(r) == [r.state EXCEPT !.gap = r.state.gap \/ ~r.ok]

LEMMA SafeMoves ==
  ASSUME NEW s \in Hyalo, NEW t \in SafeLayout(s)
  PROVE  Moved(s, t) /\ t.seen = s.plugged /\ \A c : Lit(t, c)
<1> DEFINE lit == {o \in Seen(s) : s.shown[o].on}
           Ways == IF lit = {} THEN {"internal"} ELSE lit
<1>0. SafeLayout(s) = UNION {{Marked(r) : r \in Apply(s, Only(s, p))} : p \in Ways}
  BY DEF SafeLayout, Only, Marked
<1> HIDE DEF lit, Ways
<1>a. PICK p : \E r \in Apply(s, Only(s, p)) : t = Marked(r)
  BY <1>0
<1> DEFINE only == Only(s, p)
<1>1. PICK r \in Apply(s, only) : t = [r.state EXCEPT !.gap = r.state.gap \/ ~r.ok]
  BY <1>a DEF Marked
<1>2. only \in Layouts /\ Fits(only, s) /\ \A c : CleanIn(only, c)
  <2>1. only \in [Seen(s) -> Settings] /\ \A o \in Seen(s) : only[o].by = 0
    BY DEF Only, By0, Settings
  <2> QED BY <2>1, SeenLayouts DEF Fits, CleanIn, Only
<1> HIDE DEF only
<1>3. r.ok \in BOOLEAN /\ Moved(s, r.state) /\ r.state.seen = s.plugged
  BY <1>2, ApplyMoves
<1> DEFINE g == r.state.gap \/ ~r.ok
<1>4. r.state \in Hyalo /\ g \in BOOLEAN /\ (r.state.gap => g) /\ t = [r.state EXCEPT !.gap = g]
  BY <1>1, <1>3 DEF Moved
<1>5. Moved(r.state, t) /\ t.seen = r.state.seen /\ t.shown = r.state.shown /\ t.config = r.state.config /\ t.gap = g
  <2> HIDE DEF g
  <2> QED BY <1>4, GapMoves
<1>6. ASSUME NEW c PROVE Lit(t, c)
  <2>1. r.ok => Lit(r.state, c)
    BY <1>2, ApplyShows
  <2>2. t.needed = r.state.needed
    BY <1>5 DEF Moved
  <2> QED BY <1>5, <2>1, <2>2 DEF Lit, OnlyBy, Seen
<1> QED BY <1>3, <1>5, <1>6, MovedTwice

LEMMA RestoreMoves ==
  ASSUME NEW s \in Hyalo, NEW l \in Layouts \cup {Stale}, NEW t \in ApplyOrSafe(s, l)
  PROVE  /\ Moved(s, t) /\ t.seen = s.plugged
         /\ \A c : Fits(l, s) /\ CleanIn(l, c) => Lit(t, c)
<1>1. PICK r \in Apply(s, l) : t \in IF r.ok THEN {r.state} ELSE SafeLayout(r.state)
  BY DEF ApplyOrSafe
<1>2. r.ok \in BOOLEAN /\ Moved(s, r.state) /\ r.state.seen = s.plugged /\ r.state \in Hyalo
  BY ApplyMoves DEF Moved
<1>3. CASE r.ok
  <2>1. t = r.state
    BY <1>1, <1>3
  <2> QED BY <1>2, <1>3, <2>1, ApplyShows
<1>4. CASE ~r.ok
  <2>1. t \in SafeLayout(r.state)
    BY <1>1, <1>4
  <2>2. Moved(r.state, t) /\ t.seen = r.state.plugged /\ \A c : Lit(t, c)
    BY <1>2, <2>1, SafeMoves
  <2>3. r.state.plugged = s.plugged
    BY <1>2 DEF Moved, SameMachine
  <2> QED BY <1>2, <2>2, <2>3, MovedTwice
<1> QED BY <1>2, <1>3, <1>4

-----------------------------------------------------------------------------
(***************************************************************************)
(* rollback and its callers.  Frame: what they all leave alone.            *)
(***************************************************************************)
Frame(s, t) ==
  /\ SameMachine(s, t)
  /\ t.commit = s.commit /\ t.profiles = s.profiles
  /\ s.gap => t.gap
  /\ t.seen = s.seen \/ t.seen = s.plugged
  /\ t.lease # None => s.lease # None /\ t.lease.by = s.lease.by
  /\ s.active /\ s.recovery = None => t.recovery = None

LEMMA FrameTwice == ASSUME NEW r, NEW s, NEW t, Frame(r, s), Frame(s, t) PROVE Frame(r, t)
<1> USE DEF Frame
<1>1. SameMachine(r, t)
  BY DEF SameMachine
<1>2. s.plugged = r.plugged /\ s.active = r.active
  BY DEF SameMachine
<1>3. r.active /\ r.recovery = None => t.recovery = None
  BY <1>2
<1>4. t.lease # None => r.lease # None /\ t.lease.by = r.lease.by
  OBVIOUS
<1>5. t.seen = r.seen \/ t.seen = r.plugged
  BY <1>2
<1> QED BY <1>1, <1>3, <1>4, <1>5

LEMMA FrameNowhere == ASSUME NEW s PROVE Frame(s, s)
BY DEF Frame, SameMachine

LEMMA MovedFrame == ASSUME NEW s \in Hyalo, NEW t, Moved(s, t), Shape(s) PROVE Frame(s, t)
<1>1. (t.lease = None <=> s.lease = None) /\ (s.lease # None => t.lease.by = s.lease.by) /\ (t.recovery = None <=> s.recovery = None)
  BY MovedKeeps
<1> QED BY <1>1 DEF Frame, Moved

LEMMA LitOn == ASSUME NEW t, NEW c, t.lease = None, Lit(t, c) PROVE On(t, c)
BY DEF Lit, On

LEMMA EndedLease ==
  ASSUME NEW s \in Hyalo, NEW c, Shape(s), Kept(s, c), s.commit = None, s.lease # None
  PROVE  LET t == [s EXCEPT !.lease = None] IN
         /\ t \in Hyalo /\ Shape(t) /\ Kept(t, c) /\ t.lease = None /\ t.seen = s.seen /\ t.gap = s.gap
         /\ SameMachine(s, t) /\ t.commit = None /\ t.needed = s.needed
         /\ t.profiles = s.profiles /\ t.recovery = None
<1> DEFINE t == [s EXCEPT !.lease = None]
<1>1. t \in Hyalo
  BY DEF Hyalo
<1>2. /\ SameMachine(s, t) /\ t.needed = s.needed /\ t.commit = s.commit /\ t.profiles = s.profiles /\ t.gap = s.gap
      /\ t.seen = s.seen /\ t.lease = None /\ t.lidBefore = s.lidBefore /\ t.recovery = s.recovery
      /\ t.config = s.config /\ t.shown = s.shown
  BY DEF Hyalo, SameMachine
<1> HIDE DEF t
<1>3. Shape(t)
  BY <1>2 DEF Shape, SameMachine, Fits
<1>4. Kept(t, c)
  BY <1>2 DEF Kept
<1>5. t.recovery = None
  BY <1>2 DEF Shape
<1> QED BY <1>1, <1>2, <1>3, <1>4, <1>5 DEF t

LEMMA RollbackKeeps ==
  ASSUME NEW s \in Hyalo, NEW c, Shape(s), Kept(s, c), NEW t \in Rollback(s)
  PROVE  /\ t \in Hyalo /\ Shape(t) /\ Kept(t, c) /\ Frame(s, t) /\ t.needed = s.needed
         /\ s.commit = None => t.lease = None
         /\ IF s.commit # None \/ s.lease = None THEN t = s
            ELSE t.seen = s.plugged /\ On(t, c) /\ (s.active => t.recovery = None)
<1>1. CASE s.commit # None \/ s.lease = None
  BY <1>1, FrameNowhere DEF Rollback
<1>2. CASE s.commit = None /\ s.lease # None
  <2> DEFINE ended == [s EXCEPT !.lease = None]
             before == s.lease.before
  <2>1. /\ ended \in Hyalo /\ Shape(ended) /\ Kept(ended, c) /\ ended.lease = None /\ ended.seen = s.seen
        /\ ended.gap = s.gap /\ SameMachine(s, ended) /\ ended.commit = None /\ ended.needed = s.needed
        /\ ended.profiles = s.profiles /\ ended.recovery = None
    BY <1>2, EndedLease
  <2>2. before \in Layouts \cup {Stale} /\ before # None /\ Fits(before, s) /\ (~s.gap => CleanIn(before, c))
    BY <1>2 DEF Hyalo, Leases, Shape, Kept
  <2>3. Fits(before, ended)
    BY <2>1, <2>2 DEF Fits, Seen
  <2>4. PICK u \in IF s.active THEN ApplyOrSafe(ended, before) ELSE {[ended EXCEPT !.recovery = before]} :
           t = RefreshUnheard(u)
    BY <1>2 DEF Rollback
  <2>5. Frame(s, ended)
    BY <1>2, <2>1 DEF Frame, SameMachine
  <2> HIDE DEF ended, before
  <2>6. CASE s.active
    <3>1. u \in ApplyOrSafe(ended, before)
      BY <2>4, <2>6
    <3>2. Moved(ended, u) /\ u.seen = ended.plugged /\ (CleanIn(before, c) => Lit(u, c))
      BY <2>1, <2>2, <2>3, <3>1, RestoreMoves
    <3>3. u \in Hyalo /\ u.plugged = ended.plugged
      BY <3>2 DEF Moved, SameMachine
    <3>4. Moved(u, t) /\ t.seen = u.plugged /\ t.shown = u.shown /\ t.config = u.config
      BY <2>4, <3>3, RefreshMoves
    <3>5. Moved(ended, t)
      BY <3>2, <3>4, MovedTwice
    <3>6. Shape(t) /\ Kept(t, c) /\ Frame(ended, t) /\ t.lease = None /\ t.recovery = None
      BY <2>1, <3>5, MovedKeeps, MovedFrame
    <3>7. t \in Hyalo /\ t.needed = s.needed /\ t.seen = s.plugged /\ (ended.gap => t.gap)
      BY <2>1, <3>3, <3>4, <3>5 DEF Moved, SameMachine
    <3>8. Lit(u, c) => Lit(t, c)
      BY <3>2, <3>3, <3>4 DEF Lit, OnlyBy, Seen, Moved
    <3>9. Lit(t, c)
      BY <2>1, <2>2, <3>2, <3>7, <3>8 DEF Lit
    <3>10. On(t, c)
      BY <3>6, <3>9, LitOn
    <3>11. Frame(s, t)
      BY <2>5, <3>6, FrameTwice
    <3> QED BY <1>2, <3>6, <3>7, <3>10, <3>11
  <2>7. CASE ~s.active
    <3>1. u = [ended EXCEPT !.recovery = before]
      BY <2>4, <2>7
    <3>2. u \in Hyalo
      BY <2>1, <2>2, <3>1 DEF Hyalo
    <3>3. /\ SameMachine(ended, u) /\ u.needed = ended.needed /\ u.commit = ended.commit
          /\ u.profiles = ended.profiles /\ u.gap = ended.gap /\ u.seen = ended.seen /\ u.lease = ended.lease
          /\ u.lidBefore = ended.lidBefore /\ u.recovery = before
          /\ u.config = ended.config /\ u.shown = ended.shown
      BY <2>1, <3>1 DEF Hyalo, SameMachine
    <3>4. Shape(u)
      BY <2>1, <2>3, <3>3 DEF Shape, SameMachine, Fits, Seen
    <3>5. Kept(u, c)
      BY <2>1, <2>2, <3>3 DEF Kept
    <3>6. Moved(u, t) /\ t.seen = u.plugged
      BY <2>4, <3>2, RefreshMoves
    <3>7. Shape(t) /\ Kept(t, c) /\ Frame(u, t) /\ t.lease = None /\ t.recovery # None
      BY <2>1, <2>2, <3>2, <3>3, <3>4, <3>5, <3>6, MovedKeeps, MovedFrame
    <3>8. t \in Hyalo /\ t.needed = s.needed /\ t.seen = s.plugged
      BY <2>1, <3>3, <3>6 DEF Moved, SameMachine
    <3>9. On(t, c)
      BY <3>7 DEF On
    <3>10. Frame(ended, u)
      BY <2>1, <2>7, <3>3 DEF Frame, SameMachine
    <3>11. Frame(s, t)
      BY <2>5, <3>7, <3>10, FrameTwice
    <3> QED BY <1>2, <2>7, <3>7, <3>8, <3>9, <3>11
  <2> QED BY <2>6, <2>7
<1> QED BY <1>1, <1>2

LEMMA ProfileMoves ==
  ASSUME NEW s \in Hyalo, NEW c, Shape(s), Kept(s, c), NEW t \in RestoreProfile(s)
  PROVE  IF s.commit # None \/ ~s.active THEN t = s
         ELSE Moved(s, t) /\ t.seen = s.plugged /\ Lit(t, c)
<1>1. CASE s.commit # None \/ ~s.active
  BY <1>1 DEF RestoreProfile
<1>2. CASE s.commit = None /\ s.active
  <2> DEFINE l == IF s.profiles[s.seen] = None THEN DefaultLayout(s) ELSE s.profiles[s.seen]
  <2>1. t \in ApplyOrSafe(s, l)
    BY <1>2 DEF RestoreProfile
  <2>2. s.seen \in BOOLEAN /\ s.profiles[s.seen] \in Layouts \cup {None}
    BY DEF Hyalo, Profiles
  <2>3. l \in Layouts
    BY <2>2, SeenLayouts
  <2>4. Fits(l, s)
    BY <2>2, SeenLayouts DEF Shape, FitsAll, Fits
  <2>5. CleanIn(l, c)
    BY <2>2, SeenLayouts DEF Kept, CleanIn
  <2> HIDE DEF l
  <2> QED BY <1>2, <2>1, <2>3, <2>4, <2>5, RestoreMoves
<1> QED BY <1>1, <1>2

(***************************************************************************)
(* The lid.                                                                *)
(***************************************************************************)
PanelLayout(s) == [CurrentLayout(s) EXCEPT !["internal"] = By0(FALSE)]

LEMMA PanelKeeps ==
  ASSUME NEW s, NEW c, Good(s, c), s.lease = None, s.recovery = None, ~s.needed, NEW t \in PanelOff(s)
  PROVE  Good(t, c) /\ Frame(s, t) /\ t.needed = s.needed
<1>1. CASE ~(s.seen /\ s.shown["internal"].on /\ s.shown["external"].on)
  <2>1. t = s
    BY <1>1 DEF PanelOff
  <2> QED BY <2>1, FrameNowhere
<1>2. CASE s.seen /\ s.shown["internal"].on /\ s.shown["external"].on
  <2> DEFINE l == PanelLayout(s)
  <2>0. s \in Hyalo /\ Shape(s) /\ Kept(s, c) /\ On(s, c)
    BY DEF Good
  <2>1. PICK r \in Apply(s, l) :
          t = [r.state EXCEPT !.lidBefore = IF ~r.ok THEN @
                                            ELSE IF r.state.seen = s.seen THEN CurrentLayout(s) ELSE Stale]
    BY <1>2 DEF PanelOff, PanelLayout
  <2>2. CurrentLayout(s) \in Layouts /\ DOMAIN CurrentLayout(s) = Seen(s) /\ CurrentLayout(s) # None
        /\ \A o \in Seen(s) : CurrentLayout(s)[o] = s.shown[o] /\ s.shown[o] \in Settings
    <3>1. Seen(s) \subseteq Outputs
      BY <2>0, SeenLayouts DEF Outputs
    <3>2. \A o \in Outputs : s.shown[o] \in Settings
      BY <2>0 DEF Hyalo
    <3> QED BY <2>0, <3>1, <3>2, SeenLayouts
  <2>3. l \in Layouts /\ DOMAIN l = Seen(s)
    <3>1. By0(FALSE) \in Settings
      BY DEF By0, Settings
    <3>2. l \in [Seen(s) -> Settings]
      BY <2>2, <3>1 DEF PanelLayout, CurrentLayout
    <3> QED BY <2>0, <3>2, SeenLayouts
  <2>4. ~s.gap => OnlyBy(s, c)
    BY <2>0 DEF On
  <2>5. ~s.gap => CleanIn(CurrentLayout(s), c) /\ CleanIn(l, c)
    <3>1. ASSUME ~s.gap, NEW o \in Seen(s) PROVE s.shown[o].by \in {0} \cup c /\ l[o].by \in {0} \cup c
      <4>1. l[o] = s.shown[o] \/ l[o] = By0(FALSE)
        BY <2>2 DEF PanelLayout, CurrentLayout
      <4> QED BY <2>4, <3>1, <4>1 DEF OnlyBy, By0
    <3> QED BY <2>2, <2>3, <3>1 DEF CleanIn
  <2> HIDE DEF l
  <2>6. r.ok \in BOOLEAN /\ Moved(s, r.state)
    BY <2>0, <2>3, ApplyMoves
  <2>7. ~s.gap => Lit(r.state, c)
    BY <2>0, <2>3, <2>4, <2>5, ApplyShows DEF Fits
  <2> DEFINE u == r.state
             lid == IF ~r.ok THEN u.lidBefore ELSE IF u.seen = s.seen THEN CurrentLayout(s) ELSE Stale
  <2>8. /\ u \in Hyalo /\ Shape(u) /\ Kept(u, c) /\ Frame(s, u) /\ u.needed = s.needed
        /\ u.lease = None /\ u.recovery = None /\ (s.gap => u.gap)
    BY <2>0, <2>6, MovedKeeps, MovedFrame DEF Moved
  <2>9. t = [u EXCEPT !.lidBefore = lid]
    BY <2>1, <2>8 DEF Hyalo
  <2>10. lid \in Layouts \cup {None, Stale} /\ Fits(lid, u) /\ (~u.gap => CleanIn(lid, c))
    <3>1. CASE ~r.ok
      BY <2>8, <3>1 DEF Hyalo, Shape, Kept
    <3>2. CASE r.ok /\ u.seen = s.seen
      BY <2>2, <2>5, <2>8, <3>2 DEF Fits, Seen
    <3>3. CASE r.ok /\ u.seen # s.seen
      BY <3>3 DEF Fits, CleanIn
    <3> QED BY <3>1, <3>2, <3>3
  <2>11. Lit(u, c)
    BY <2>7, <2>8 DEF Lit
  <2> HIDE DEF u, lid
  <2>12. t \in Hyalo
    BY <2>8, <2>9, <2>10 DEF Hyalo
  <2>13. /\ SameMachine(u, t) /\ t.needed = u.needed /\ t.commit = u.commit
         /\ t.profiles = u.profiles /\ t.gap = u.gap /\ t.seen = u.seen /\ t.lease = u.lease
         /\ t.lidBefore = lid /\ t.recovery = u.recovery
         /\ t.config = u.config /\ t.shown = u.shown
    BY <2>8, <2>9 DEF Hyalo, SameMachine
  <2>14. Shape(t)
    BY <2>8, <2>10, <2>13 DEF Shape, SameMachine, Fits, Seen
  <2>15. Kept(t, c)
    BY <2>8, <2>10, <2>13 DEF Kept
  <2>16. On(t, c)
    BY <2>8, <2>11, <2>13 DEF On, Lit, OnlyBy, Seen
  <2>17. Frame(u, t)
    BY <2>13 DEF Frame
  <2> QED BY <2>8, <2>12, <2>13, <2>14, <2>15, <2>16, <2>17, FrameTwice DEF Good
<1> QED BY <1>1, <1>2

LEMMA LidKeeps ==
  ASSUME NEW s, NEW c, Good(s, c), s.needed => s.commit # None, s.active /\ s.closed => s.recovery = None,
         NEW t \in ReconcileLid(s)
  PROVE  Good(t, c) /\ Frame(s, t) /\ t.needed = s.needed
<1>0. s \in Hyalo /\ Shape(s) /\ Kept(s, c) /\ On(s, c)
  BY DEF Good
<1>1. CASE t = s
  BY <1>1, FrameNowhere
<1>2. ASSUME s.ready, s.commit = None, s.active, Inhibits(s), t \in Each(Rollback(s), PanelOff)
      PROVE  Good(t, c) /\ Frame(s, t) /\ t.needed = s.needed
  <2>1. PICK u \in Rollback(s) : t \in PanelOff(u)
    BY <1>2 DEF Each
  <2>2. /\ u \in Hyalo /\ Shape(u) /\ Kept(u, c) /\ Frame(s, u) /\ u.needed = s.needed /\ u.lease = None
        /\ IF s.lease = None THEN u = s ELSE On(u, c) /\ u.recovery = None
    BY <1>0, <1>2, RollbackKeeps
  <2>3. s.recovery = None /\ ~s.needed
    BY <1>2 DEF Inhibits
  <2>4. Good(u, c) /\ u.recovery = None /\ ~u.needed
    BY <1>0, <2>2, <2>3 DEF Good
  <2> QED BY <2>1, <2>2, <2>4, PanelKeeps, FrameTwice
<1>3. ASSUME s.ready, s.commit = None, s.active, s.lidBefore # None,
             t \in ApplyOrSafe([s EXCEPT !.lidBefore = None], s.lidBefore)
      PROVE  Good(t, c) /\ Frame(s, t) /\ t.needed = s.needed
  <2> DEFINE u == [s EXCEPT !.lidBefore = None]
  <2>1. u \in Hyalo
    BY <1>0 DEF Hyalo
  <2>2. /\ SameMachine(s, u) /\ u.needed = s.needed /\ u.commit = s.commit
        /\ u.profiles = s.profiles /\ u.gap = s.gap /\ u.seen = s.seen /\ u.lease = s.lease
        /\ u.lidBefore = None /\ u.recovery = s.recovery
        /\ u.config = s.config /\ u.shown = s.shown
    BY <1>0 DEF Hyalo, SameMachine
  <2> HIDE DEF u
  <2>3. Shape(u)
    BY <1>0, <2>2 DEF Shape, SameMachine, Fits, Seen
  <2>4. Kept(u, c)
    BY <1>0, <2>2 DEF Kept, CleanIn
  <2>5. s.lidBefore \in Layouts \cup {Stale} /\ Fits(s.lidBefore, u) /\ (~s.gap => CleanIn(s.lidBefore, c))
    BY <1>0, <1>3, <2>2 DEF Hyalo, Shape, Kept, Fits, Seen
  <2>6. Moved(u, t) /\ (CleanIn(s.lidBefore, c) => Lit(t, c))
    BY <1>3, <2>1, <2>5, RestoreMoves DEF u
  <2>7. s.lease = None
    BY <1>0, <1>3 DEF Shape
  <2>8. Shape(t) /\ Kept(t, c) /\ Frame(u, t) /\ t.lease = None
    BY <2>1, <2>2, <2>3, <2>4, <2>6, <2>7, MovedKeeps, MovedFrame
  <2>9. t \in Hyalo /\ t.needed = s.needed /\ (s.gap => t.gap)
    BY <2>2, <2>6 DEF Moved
  <2>10. On(t, c)
    BY <2>5, <2>6, <2>8, <2>9 DEF On, Lit
  <2>11. Frame(s, u)
    BY <2>2 DEF Frame
  <2> QED BY <2>8, <2>9, <2>10, <2>11, FrameTwice DEF Good
<1> QED BY <1>1, <1>2, <1>3 DEF ReconcileLid

-----------------------------------------------------------------------------
(***************************************************************************)
(* reconcile, step by step.                                                *)
(***************************************************************************)
LEMMA NoticeKeeps ==
  ASSUME NEW s, NEW c, Good(s, c)
  PROVE  LET t == Notice(s) IN
         Good(t, c) /\ Frame(s, t) /\ t.seen = s.plugged
<1>0. s \in Hyalo /\ Shape(s) /\ Kept(s, c) /\ On(s, c)
  BY DEF Good
<1> DEFINE t == Notice(s)
           n == s.needed \/ s.seen # s.plugged
           u == [s EXCEPT !.needed = n]
<1>1. n \in BOOLEAN
  BY <1>0 DEF Hyalo
<1>2. u \in Hyalo
  <2> HIDE DEF n
  <2> QED BY <1>0, <1>1 DEF Hyalo
<1>3. /\ SameMachine(s, u) /\ u.needed = n /\ u.commit = s.commit
      /\ u.profiles = s.profiles /\ u.gap = s.gap /\ u.seen = s.seen /\ u.lease = s.lease
      /\ u.lidBefore = s.lidBefore /\ u.recovery = s.recovery
      /\ u.config = s.config /\ u.shown = s.shown
  BY <1>0 DEF Hyalo, SameMachine
<1>4. CASE s.seen = s.plugged
  <2>1. t = [s EXCEPT !.needed = s.needed \/ s.seen # s.plugged]
    BY <1>4 DEF Notice, Refresh
  <2>2. s.needed \in BOOLEAN /\ (s.needed \/ s.seen # s.plugged) = s.needed
    BY <1>0, <1>4 DEF Hyalo
  <2>3. t = s
    BY <1>0, <2>1, <2>2 DEF Hyalo
  <2> QED BY <1>4, <2>3, FrameNowhere
<1>5. CASE s.seen # s.plugged
  <2>1. n = TRUE
    BY <1>5
  <2>2. t.seen = s.plugged /\ t.needed = TRUE /\ Moved(u, t)
    <3> DEFINE r == RefreshUnheard(u)
    <3>1. Moved(u, r) /\ r.seen = u.plugged /\ r.shown = u.shown /\ r.config = u.config
      BY <1>2, RefreshMoves
    <3>2. u.seen # u.plugged /\ u.plugged = s.plugged
      BY <1>3, <1>5 DEF SameMachine
    <3>3. r = [u EXCEPT !.seen = u.plugged, !.recovery = Aged(u.recovery), !.lidBefore = Aged(u.lidBefore),
                        !.lease = AgedLease(u.lease), !.gap = u.gap]
      <4>1. u.gap \in BOOLEAN /\ (u.gap \/ (u.seen # u.plugged /\ ~u.needed)) = u.gap
        BY <1>0, <1>3, <2>1 DEF Hyalo
      <4> HIDE DEF u
      <4>2. r = [Refresh(u) EXCEPT !.gap = u.gap]
        BY <4>1 DEF RefreshUnheard
      <4> QED BY <3>2, <4>2 DEF Refresh, AgedLease
    <3>4. t = [s EXCEPT !.seen = s.plugged, !.recovery = Aged(s.recovery), !.lidBefore = Aged(s.lidBefore),
                        !.lease = AgedLease(s.lease), !.needed = TRUE]
      BY <1>0, <1>5 DEF Notice, Refresh, AgedLease, Hyalo
    <3>5. t = r
      <4>1. AgedLease(s.lease) \in Leases \cup {None} /\ s.plugged \in BOOLEAN
            /\ Aged(s.recovery) \in Layouts \cup {None, Stale} /\ Aged(s.lidBefore) \in Layouts \cup {None, Stale}
        BY <1>0 DEF AgedLease, Aged, Hyalo, Leases
      <4>2. t \in Hyalo
        <5> HIDE DEF t
        <5> QED BY <1>0, <3>4, <4>1 DEF Hyalo
      <4>3. /\ SameMachine(s, t) /\ t.needed = TRUE /\ t.commit = s.commit /\ t.fails = s.fails
            /\ t.profiles = s.profiles /\ t.gap = s.gap /\ t.seen = s.plugged /\ t.lease = AgedLease(s.lease)
            /\ t.lidBefore = Aged(s.lidBefore) /\ t.recovery = Aged(s.recovery)
            /\ t.config = s.config /\ t.shown = s.shown
        <5> HIDE DEF t
        <5> QED BY <1>0, <3>4 DEF Hyalo, SameMachine
      <4>4. u.fails = s.fails
        BY <1>0 DEF Hyalo
      <4> HIDE DEF u, n, t
      <4>5. /\ SameMachine(u, r) /\ r.needed = u.needed /\ r.commit = u.commit /\ r.fails = u.fails
            /\ r.profiles = u.profiles /\ r.gap = u.gap /\ r.seen = u.plugged /\ r.lease = AgedLease(u.lease)
            /\ r.lidBefore = Aged(u.lidBefore) /\ r.recovery = Aged(u.recovery)
            /\ r.config = u.config /\ r.shown = u.shown
        <5> HIDE DEF r
        <5> QED BY <1>2, <3>3 DEF Hyalo, SameMachine
      <4>6. r \in Hyalo
        BY <3>1 DEF Moved
      <4> HIDE DEF r
      <4>7. /\ SameMachine(t, r) /\ r.needed = t.needed /\ r.commit = t.commit /\ r.fails = t.fails
            /\ r.profiles = t.profiles /\ r.gap = t.gap /\ r.seen = t.seen /\ r.lease = t.lease
            /\ r.lidBefore = t.lidBefore /\ r.recovery = t.recovery
            /\ r.config = t.config /\ r.shown = t.shown
        BY <1>3, <2>1, <4>3, <4>4, <4>5 DEF SameMachine
      <4> QED BY <4>2, <4>6, <4>7 DEF Hyalo, SameMachine
    <3> QED BY <1>3, <2>1, <3>1, <3>2, <3>5 DEF Moved
  <2> HIDE DEF t, u, n
  <2>3. Shape(u) /\ Kept(u, c)
    BY <1>0, <1>3 DEF Shape, Kept, SameMachine, Fits, Seen
  <2>4. Shape(t) /\ Kept(t, c) /\ Frame(u, t) /\ t \in Hyalo
    BY <1>2, <2>2, <2>3, MovedKeeps, MovedFrame DEF Moved
  <2>5. Frame(s, u)
    BY <1>3 DEF Frame
  <2>6. On(t, c)
    BY <2>2 DEF On
  <2> QED BY <2>2, <2>4, <2>5, <2>6, FrameTwice DEF Good, t
<1> QED BY <1>4, <1>5

LEMMA RecoverKeeps ==
  ASSUME NEW s, NEW c, Good(s, c), s.seen = s.plugged, NEW t \in Recover(s)
  PROVE  Good(t, c) /\ Frame(s, t) /\ t.seen = t.plugged /\ (t.active => t.recovery = None)
<1>0. s \in Hyalo /\ Shape(s) /\ Kept(s, c) /\ On(s, c)
  BY DEF Good
<1>1. CASE ~(s.active /\ s.recovery # None)
  <2>1. t = s
    BY <1>1 DEF Recover
  <2> QED BY <1>1, <2>1, FrameNowhere
<1>2. CASE s.active /\ s.recovery # None
  <2> DEFINE u == [s EXCEPT !.recovery = None]
  <2>1. u \in Hyalo
    BY <1>0 DEF Hyalo
  <2>2. /\ SameMachine(s, u) /\ u.needed = s.needed /\ u.commit = s.commit
        /\ u.profiles = s.profiles /\ u.gap = s.gap /\ u.seen = s.seen /\ u.lease = s.lease
        /\ u.lidBefore = s.lidBefore /\ u.recovery = None
        /\ u.config = s.config /\ u.shown = s.shown
    BY <1>0 DEF Hyalo, SameMachine
  <2>3. t \in ApplyOrSafe(u, s.recovery)
    BY <1>2 DEF Recover
  <2> HIDE DEF u
  <2>4. Shape(u)
    BY <1>0, <2>2 DEF Shape, SameMachine, Fits, Seen
  <2>5. Kept(u, c)
    BY <1>0, <2>2 DEF Kept, CleanIn
  <2>6. s.recovery \in Layouts \cup {Stale} /\ Fits(s.recovery, u) /\ (~s.gap => CleanIn(s.recovery, c))
    BY <1>0, <1>2, <2>2 DEF Hyalo, Shape, Kept, Fits, Seen
  <2>7. Moved(u, t) /\ t.seen = u.plugged /\ (CleanIn(s.recovery, c) => Lit(t, c))
    BY <2>1, <2>3, <2>6, RestoreMoves
  <2>8. s.lease = None
    BY <1>0, <1>2 DEF Shape
  <2>9. Shape(t) /\ Kept(t, c) /\ Frame(u, t) /\ t.lease = None /\ t.recovery = None
    BY <2>1, <2>2, <2>4, <2>5, <2>7, <2>8, MovedKeeps, MovedFrame
  <2>10. t \in Hyalo /\ (s.gap => t.gap) /\ t.seen = t.plugged
    BY <2>2, <2>7 DEF Moved, SameMachine
  <2>11. On(t, c)
    BY <2>6, <2>7, <2>9, <2>10 DEF On, Lit
  <2>12. Frame(s, u)
    BY <2>2 DEF Frame
  <2> QED BY <2>9, <2>10, <2>11, <2>12, FrameTwice DEF Good
<1> QED BY <1>1, <1>2

LEMMA RetopologizeKeeps ==
  ASSUME NEW s, NEW c, Good(s, c), s.seen = s.plugged, s.active => s.recovery = None, NEW t \in Retopologize(s)
  PROVE  Good(t, c) /\ Frame(s, t) /\ t.seen = t.plugged /\ (t.needed => t.commit # None)
<1>0. s \in Hyalo /\ Shape(s) /\ Kept(s, c) /\ On(s, c)
  BY DEF Good
<1>1. CASE ~s.needed \/ s.commit # None
  <2>1. t = s
    BY <1>1 DEF Retopologize
  <2> QED BY <1>1, <2>1, FrameNowhere
<1>2. CASE s.needed /\ s.commit = None
  <2> DEFINE w == [s EXCEPT !.needed = FALSE]
  <2>1. w \in Hyalo
    BY <1>0 DEF Hyalo
  <2>2. /\ SameMachine(s, w) /\ w.needed = FALSE /\ w.commit = s.commit
        /\ w.profiles = s.profiles /\ w.gap = s.gap /\ w.seen = s.seen /\ w.lease = s.lease
        /\ w.lidBefore = s.lidBefore /\ w.recovery = s.recovery
        /\ w.config = s.config /\ w.shown = s.shown
    BY <1>0 DEF Hyalo, SameMachine
  <2>3. PICK u \in Rollback(w) : t \in RestoreProfile([u EXCEPT !.lidBefore = None, !.gap = u.gap \/ ~u.active])
    BY <1>2 DEF Retopologize
  <2> HIDE DEF w
  <2>4. Shape(w) /\ Kept(w, c) /\ Frame(s, w)
    BY <1>0, <2>2 DEF Shape, Kept, Frame, SameMachine, Fits, Seen
  <2>5. /\ u \in Hyalo /\ Shape(u) /\ Kept(u, c) /\ Frame(w, u) /\ u.needed = FALSE /\ u.lease = None
        /\ u.commit = None /\ u.seen = u.plugged
    BY <1>2, <2>1, <2>2, <2>4, RollbackKeeps DEF Frame, SameMachine
  <2> DEFINE g == u.gap \/ ~u.active
             x == [u EXCEPT !.lidBefore = None, !.gap = g]
  <2>6. g \in BOOLEAN
    BY <2>5 DEF Hyalo
  <2> HIDE DEF g
  <2>7. x \in Hyalo
    BY <2>5, <2>6 DEF Hyalo
  <2>8. /\ SameMachine(u, x) /\ x.needed = u.needed /\ x.commit = u.commit
        /\ x.profiles = u.profiles /\ x.gap = g /\ x.seen = u.seen /\ x.lease = u.lease
        /\ x.lidBefore = None /\ x.recovery = u.recovery
        /\ x.config = u.config /\ x.shown = u.shown
    BY <2>5 DEF Hyalo, SameMachine
  <2>9. t \in RestoreProfile(x)
    BY <2>3 DEF g
  <2> HIDE DEF x
  <2>10. Shape(x)
    BY <2>5, <2>8 DEF Shape, SameMachine, Fits, Seen
  <2>11. Kept(x, c)
    BY <2>5, <2>8 DEF Kept, CleanIn, g
  <2>12. Frame(u, x)
    BY <2>8 DEF Frame, g
  <2>13. IF ~x.active THEN t = x ELSE Moved(x, t) /\ t.seen = x.plugged /\ Lit(t, c)
    BY <2>5, <2>7, <2>8, <2>9, <2>10, <2>11, ProfileMoves
  <2>14. CASE ~x.active
    <3>1. t = x /\ t.gap
      BY <2>8, <2>13, <2>14 DEF g, SameMachine
    <3>2. On(t, c)
      BY <2>5, <2>8, <3>1 DEF On
    <3>3. t.seen = t.plugged /\ ~t.needed
      BY <2>5, <2>8, <3>1 DEF SameMachine
    <3> QED BY <2>4, <2>5, <2>7, <2>10, <2>11, <2>12, <3>1, <3>2, <3>3, FrameTwice DEF Good
  <2>15. CASE x.active
    <3>1. Moved(x, t) /\ t.seen = x.plugged /\ Lit(t, c)
      BY <2>13, <2>15
    <3>2. Shape(t) /\ Kept(t, c) /\ Frame(x, t) /\ t.lease = None
      BY <2>5, <2>7, <2>8, <2>10, <2>11, <3>1, MovedKeeps, MovedFrame
    <3>3. t \in Hyalo /\ t.needed = FALSE /\ t.seen = t.plugged
      BY <2>5, <2>8, <3>1 DEF Moved, SameMachine
    <3>4. On(t, c)
      BY <3>1, <3>2, LitOn
    <3> QED BY <2>4, <2>5, <2>12, <3>2, <3>3, <3>4, FrameTwice DEF Good
  <2> QED BY <2>14, <2>15
<1> QED BY <1>1, <1>2

LEMMA ExpireKeeps ==
  ASSUME NEW s, NEW c, Good(s, c), NEW t \in Expire(s)
  PROVE  /\ Good(t, c) /\ Frame(s, t) /\ t.needed = s.needed
         /\ t.lease # None /\ t.commit = None => t.active /\ ~t.locked
<1>0. s \in Hyalo /\ Shape(s) /\ Kept(s, c) /\ On(s, c)
  BY DEF Good
<1>1. CASE ~Overdue(s)
  <2>1. t = s
    BY <1>1 DEF Expire
  <2> QED BY <1>1, <2>1, FrameNowhere DEF Overdue
<1>2. CASE Overdue(s)
  <2>1. t \in Rollback(s) /\ s.commit = None /\ s.lease # None
    BY <1>2 DEF Expire, Overdue
  <2> QED BY <1>0, <2>1, RollbackKeeps DEF Good
<1> QED BY <1>1, <1>2

LEMMA ReconcileKeeps ==
  ASSUME NEW s, NEW c, Good(s, c), NotReady(s), NEW t \in Reconcile(s)
  PROVE  /\ Good(t, c) /\ Frame(s, t) /\ NotReady(t) /\ Dealt(t)
         /\ t.needed => t.commit # None
<1>1. CASE ~s.ready
  <2>1. t = s
    BY <1>1 DEF Reconcile
  <2> QED BY <1>1, <2>1, FrameNowhere DEF NotReady, Dealt
<1>2. CASE s.ready
  <2> DEFINE n == Notice(s)
  <2>1. t \in Each(Each(Each(Recover(n), Retopologize), Expire), ReconcileLid)
    BY <1>2 DEF Reconcile
  <2>2. Good(n, c) /\ Frame(s, n) /\ n.seen = s.plugged
    BY NoticeKeeps
  <2> HIDE DEF n
  <2>3. PICK x \in Each(Each(Recover(n), Retopologize), Expire) : t \in ReconcileLid(x)
    BY <2>1 DEF Each
  <2>4. PICK v \in Each(Recover(n), Retopologize) : x \in Expire(v)
    BY <2>3 DEF Each
  <2>5. PICK u \in Recover(n) : v \in Retopologize(u)
    BY <2>4 DEF Each
  <2>6. Good(u, c) /\ Frame(n, u) /\ u.seen = u.plugged /\ (u.active => u.recovery = None)
    BY <2>2, RecoverKeeps DEF Frame, SameMachine
  <2>7. Good(v, c) /\ Frame(u, v) /\ v.seen = v.plugged /\ (v.needed => v.commit # None)
    BY <2>5, <2>6, RetopologizeKeeps
  <2>8. /\ Good(x, c) /\ Frame(v, x) /\ x.needed = v.needed
        /\ x.lease # None /\ x.commit = None => x.active /\ ~x.locked
    BY <2>4, <2>7, ExpireKeeps
  <2>9. (v.active => v.recovery = None) /\ (x.active => x.recovery = None) /\ x.seen = x.plugged
        /\ (x.needed => x.commit # None)
    BY <2>6, <2>7, <2>8 DEF Frame, SameMachine
  <2>10. Good(t, c) /\ Frame(x, t) /\ t.needed = x.needed
    BY <2>3, <2>8, <2>9, LidKeeps
  <2>11. Frame(s, t)
    BY <2>2, <2>6, <2>7, <2>8, <2>10, FrameTwice
  <2>12. t.needed => t.commit # None
    BY <2>9, <2>10 DEF Frame
  <2>13. Dealt(t)
    BY <2>8, <2>9, <2>10 DEF Dealt, Frame, SameMachine
  <2>14. NotReady(t)
    BY <1>2, <2>11 DEF NotReady, Frame, SameMachine
  <2> QED BY <2>10, <2>11, <2>12, <2>13, <2>14
<1> QED BY <1>1, <1>2

-----------------------------------------------------------------------------
(***************************************************************************)
(* A handler's end: the timer is set, and a gap may close.                 *)
(***************************************************************************)
SameLease(s, t) ==
  /\ t.lease = None <=> s.lease = None
  /\ s.lease # None => /\ t.lease.by = s.lease.by
                       /\ t.lease.before = s.lease.before /\ t.lease.after = s.lease.after

SameRest(s, t) ==
  /\ t.plugged = s.plugged /\ t.seen = s.seen /\ t.needed = s.needed /\ t.commit = s.commit
  /\ t.profiles = s.profiles /\ t.gap = s.gap
  /\ t.lidBefore = s.lidBefore /\ t.recovery = s.recovery
  /\ t.config = s.config /\ t.shown = s.shown

LEMMA SmallKeeps ==
  ASSUME NEW s, NEW c, Good(s, c), NEW t \in Hyalo, SameLease(s, t), SameRest(s, t)
  PROVE  Good(t, c)
<1>0. s \in Hyalo /\ Shape(s) /\ Kept(s, c) /\ On(s, c)
  BY DEF Good
<1> USE DEF SameLease, SameRest
<1>1. Shape(t)
  <2>1. /\ t.lease # None =>
             /\ Fits(t.lease.before, t) /\ Fits(t.lease.after, t)
             /\ t.lidBefore = None /\ t.recovery = None
        /\ Fits(t.recovery, t) /\ Fits(t.lidBefore, t)
    BY <1>0 DEF Shape, Fits, Seen
  <2>2. t.lease # None /\ t.lease.after # Stale => \A o \in DOMAIN t.lease.after : t.lease.after[o].by = t.lease.by
    BY <1>0 DEF Shape
  <2>3. ~t.plugged => t.shown["external"].by = 0
    BY <1>0 DEF Shape
  <2> QED BY <1>0, <2>1, <2>2, <2>3 DEF Shape
<1>2. Kept(t, c)
  <2>1. t.commit # None => t.lease.by = s.lease.by
    BY <1>0 DEF Shape
  <2> QED BY <1>0, <2>1 DEF Kept
<1>3. On(t, c)
  BY <1>0 DEF On, OnlyBy, Seen
<1> QED BY <1>1, <1>2, <1>3 DEF Good

LEMMA ArmParts ==
  ASSUME NEW s \in Hyalo
  PROVE  LET t == Arm(s) IN
         /\ t \in Hyalo /\ SameRest(s, t) /\ SameLease(s, t)
         /\ t.active = s.active /\ t.locked = s.locked /\ t.ready = s.ready
         /\ t.queued = s.queued /\ t.closed = s.closed
<1> DEFINE a == s.lease # None /\ s.commit = None
           t == [s EXCEPT !.armed = a]
<1>1. a \in BOOLEAN /\ t = Arm(s)
  BY DEF Arm
<1> HIDE DEF a
<1>2. t \in Hyalo
  BY <1>1 DEF Hyalo
<1>3. /\ SameRest(s, t) /\ t.lease = s.lease
      /\ t.active = s.active /\ t.locked = s.locked /\ t.ready = s.ready
      /\ t.queued = s.queued /\ t.closed = s.closed
  BY DEF Hyalo, SameRest
<1>4. SameLease(s, t)
  BY <1>3 DEF SameLease
<1> QED BY <1>1, <1>2, <1>3, <1>4

LEMMA ArmKeeps ==
  ASSUME NEW s, NEW c, Good(s, c)
  PROVE  /\ Good(Arm(s), c) /\ Arm(s).commit = s.commit /\ SameLease(s, Arm(s))
         /\ NotReady(s) => NotReady(Arm(s))
         /\ Dealt(s) => Dealt(Arm(s))
         /\ Between(s) => Between(Arm(s))
<1> DEFINE t == Arm(s)
<1>1. /\ t \in Hyalo /\ SameRest(s, t) /\ SameLease(s, t)
      /\ t.active = s.active /\ t.locked = s.locked /\ t.ready = s.ready
      /\ t.queued = s.queued /\ t.closed = s.closed
  BY ArmParts DEF Good
<1> HIDE DEF t
<1>2. Good(t, c)
  BY <1>1, SmallKeeps
<1>3. NotReady(s) => NotReady(t)
  BY <1>1 DEF NotReady, SameRest, SameLease
<1>4. Dealt(s) => Dealt(t)
  BY <1>1 DEF Dealt, SameRest, SameLease
<1>5. Between(s) => Between(t)
  BY <1>1, <1>3, <1>4 DEF Between, SameRest
<1> QED BY <1>1, <1>2, <1>3, <1>4, <1>5 DEF t, SameRest

LEMMA EndKeeps ==
  ASSUME NEW t, Good(t, confirmed), Between(t)
  PROVE  LET x == [t EXCEPT !.gap = t.gap /\ ~Closes(t)] IN
         Good(x, confirmed) /\ Between(x) /\ x.commit = t.commit /\ x.lease = t.lease
<1>0. t \in Hyalo /\ Shape(t) /\ Kept(t, confirmed) /\ On(t, confirmed)
  BY DEF Good
<1> DEFINE g == t.gap /\ ~Closes(t)
           x == [t EXCEPT !.gap = g]
<1>1. g \in BOOLEAN
  BY <1>0 DEF Hyalo
<1>2. ~g => ~t.gap \/ (Tidy(t) /\ Clean(t.config))
  BY DEF Closes
<1> HIDE DEF g
<1>3. x \in Hyalo
  BY <1>0, <1>1 DEF Hyalo
<1>4. /\ SameMachine(t, x) /\ x.needed = t.needed /\ x.commit = t.commit
      /\ x.profiles = t.profiles /\ x.gap = g /\ x.seen = t.seen /\ x.lease = t.lease
      /\ x.lidBefore = t.lidBefore /\ x.recovery = t.recovery
      /\ x.config = t.config /\ x.shown = t.shown
  BY <1>0 DEF Hyalo, SameMachine
<1> HIDE DEF x
<1>5. Shape(x)
  BY <1>0, <1>4 DEF Shape, SameMachine, Fits, Seen
<1>6. Tidy(t) => /\ CleanIn(t.recovery, confirmed) /\ CleanIn(t.lidBefore, confirmed)
                 /\ t.lease # None => CleanIn(t.lease.before, confirmed)
  BY DEF Tidy, Remembered, Clean, CleanIn
<1>7. Kept(x, confirmed)
  BY <1>0, <1>2, <1>4, <1>6 DEF Kept
<1>8. ASSUME t.lease = None, Tidy(t), Clean(t.config) PROVE OnlyBy(t, confirmed)
  <2>1. t.config \in Layouts /\ Shown(t) \in Layouts /\ DOMAIN t.config = Outputs /\ DOMAIN Shown(t) = Present(t)
    <3>1. Present(t) \in {{"internal"}, Outputs}
      BY DEF Present, Connected
    <3>2. t.config \in [Outputs -> Settings] /\ t.shown \in [Outputs -> Settings] /\ "internal" \in Outputs
      BY <1>0 DEF Hyalo, Outputs
    <3>3. Shown(t) \in [Present(t) -> Settings]
      BY <3>1, <3>2 DEF Shown
    <3> QED BY <3>1, <3>2, <3>3 DEF Layouts
  <2>2. /\ \A o \in Outputs : t.config[o].by \in {0} \cup confirmed
        /\ \A o \in Present(t) : Shown(t)[o].by \in {0} \cup confirmed
    BY <1>8, <2>1, LayoutParts DEF Tidy, Clean
  <2>3. \A o \in Present(t) : t.shown[o].by \in {0} \cup confirmed
    BY <2>2 DEF Shown
  <2>4. \A o \in Outputs : o \in Present(t) \/ (~t.plugged /\ o = "external")
    BY DEF Present, Connected, Outputs
  <2>5. ~t.plugged => t.shown["external"].by = 0
    BY <1>0 DEF Shape
  <2>6. Seen(t) \subseteq Outputs
    BY DEF Seen, Connected, Outputs
  <2> QED BY <2>2, <2>3, <2>4, <2>5, <2>6 DEF OnlyBy
<1>9. On(x, confirmed)
  BY <1>0, <1>2, <1>4, <1>8 DEF On, OnlyBy, Seen
<1>10. Between(x)
  BY <1>4 DEF Between, NotReady, Dealt, SameMachine
<1> QED BY <1>3, <1>4, <1>5, <1>7, <1>9, <1>10 DEF Good, x, g

LEMMA EndsKeep ==
  ASSUME NEW S, \A t \in S : Good(t, confirmed) /\ Between(t), Ends(S)
  PROVE  /\ Good(hyalo', confirmed) /\ Between(hyalo')
         /\ \E t \in S : hyalo'.commit = t.commit /\ hyalo'.lease = t.lease
<1>1. PICK t \in S : hyalo' = [t EXCEPT !.gap = t.gap /\ ~Closes(t)]
  BY DEF Ends
<1>2. Good(t, confirmed) /\ Between(t)
  OBVIOUS
<1> QED BY <1>1, <1>2, EndKeeps

LEMMA ReconciledKeeps ==
  ASSUME NEW s, NEW c, Good(s, c), NotReady(s), NEW t \in Reconcile(s)
  PROVE  /\ Good(Arm(t), c) /\ Between(Arm(t)) /\ Arm(t).commit = s.commit
         /\ Arm(t).lease # None => s.lease # None /\ Arm(t).lease.by = s.lease.by
<1>1. Good(t, c) /\ Frame(s, t) /\ NotReady(t) /\ Dealt(t) /\ (t.needed => t.commit # None)
  BY ReconcileKeeps
<1>2. Between(t)
  BY <1>1 DEF Between
<1> QED BY <1>1, <1>2, ArmKeeps DEF Frame, SameLease

Follows(s) ==
  /\ Good(hyalo', confirmed) /\ Between(hyalo')
  /\ hyalo'.commit = s.commit
  /\ hyalo'.lease # None => s.lease # None /\ hyalo'.lease.by = s.lease.by

LEMMA AnswersKeep ==
  ASSUME NEW S, \A s \in S : Good(s, confirmed) /\ NotReady(s), Answers(S)
  PROVE  \E s \in S : Follows(s)
<1> DEFINE R == {Arm(t) : t \in Each(S, Reconcile)}
<1>1. \A x \in R : \E s \in S : /\ Good(x, confirmed) /\ Between(x) /\ x.commit = s.commit
                                /\ x.lease # None => s.lease # None /\ x.lease.by = s.lease.by
  <2> TAKE x \in R
  <2>1. PICK t \in Each(S, Reconcile) : x = Arm(t)
    OBVIOUS
  <2>2. PICK s \in S : t \in Reconcile(s)
    BY <2>1 DEF Each
  <2> QED BY <2>1, <2>2, ReconciledKeeps
<1>2. Ends(R)
  BY DEF Answers
<1> HIDE DEF R
<1>3. /\ Good(hyalo', confirmed) /\ Between(hyalo')
      /\ \E t \in R : hyalo'.commit = t.commit /\ hyalo'.lease = t.lease
  BY <1>1, <1>2, EndsKeep
<1> QED BY <1>1, <1>3 DEF Follows

-----------------------------------------------------------------------------
(***************************************************************************)
(* The invariant, and the actions that leave the disk and its worker.      *)
(***************************************************************************)
Books ==
  /\ disk \in Profiles /\ FitsAll(disk) /\ \A e \in BOOLEAN : CleanIn(disk[e], confirmed)
  /\ store \in {"idle", "writing", "saved", "failed"}
  /\ previews \in 0 .. MaxPreviews /\ confirmed \subseteq 1 .. previews
  /\ (store # "idle") <=> (hyalo.commit # None)
  /\ store = "saved" => hyalo.lease.by \in confirmed
  /\ hyalo.lease # None => hyalo.lease.by \in 1 .. previews

DisplayInv == Good(hyalo, confirmed) /\ Between(hyalo) /\ Books

Elsewhere == UNCHANGED <<disk, store, previews, confirmed>>

LEMMA BooksKeep ==
  ASSUME DisplayInv, Elsewhere, NEW s, Follows(s), s.commit = hyalo.commit,
         s.lease # None => hyalo.lease # None /\ s.lease.by = hyalo.lease.by
  PROVE  DisplayInv'
<1> USE DEF DisplayInv, Elsewhere, Follows
<1>1. hyalo'.commit = hyalo.commit
  OBVIOUS
<1>2. hyalo'.lease # None => hyalo.lease # None /\ hyalo'.lease.by = hyalo.lease.by
  OBVIOUS
<1>3. hyalo'.commit # None => hyalo'.lease # None
  BY DEF Good, Shape
<1>4. Books'
  <2>1. /\ (disk \in Profiles /\ FitsAll(disk) /\ \A e \in BOOLEAN : CleanIn(disk[e], confirmed))'
        /\ store' \in {"idle", "writing", "saved", "failed"}
        /\ previews' \in 0 .. MaxPreviews /\ confirmed' \subseteq 1 .. previews'
    BY DEF Books
  <2>2. (store' # "idle") <=> (hyalo'.commit # None)
    BY <1>1 DEF Books
  <2>3. store' = "saved" => hyalo'.lease.by \in confirmed'
    BY <1>1, <1>2, <1>3 DEF Books
  <2>4. hyalo'.lease # None => hyalo'.lease.by \in 1 .. previews'
    BY <1>2 DEF Books
  <2> QED BY <2>1, <2>2, <2>3, <2>4 DEF Books
<1> QED BY <1>4

LEMMA RunsKeep ==
  ASSUME NEW s, Good(s, confirmed), NotReady(s), Ends({Arm(t) : t \in Reconcile(s)})
  PROVE  Follows(s)
<1> DEFINE R == {Arm(t) : t \in Reconcile(s)}
<1>1. \A x \in R : /\ Good(x, confirmed) /\ Between(x) /\ x.commit = s.commit
                   /\ x.lease # None => s.lease # None /\ x.lease.by = s.lease.by
  BY ReconciledKeeps
<1> HIDE DEF R
<1>2. Ends(R)
  BY DEF R
<1>3. /\ Good(hyalo', confirmed) /\ Between(hyalo')
      /\ \E t \in R : hyalo'.commit = t.commit /\ hyalo'.lease = t.lease
  BY <1>1, <1>2, EndsKeep
<1> QED BY <1>1, <1>3 DEF Follows

LEMMA ChangedParts ==
  ASSUME NEW s \in Hyalo
  PROVE  LET t == Changed(s) IN
         /\ t \in Hyalo /\ SameRest(s, t) /\ t.lease = s.lease /\ SameLease(s, t)
         /\ t.active = s.active /\ t.locked = s.locked /\ t.ready = s.ready /\ t.queued = s.ready
<1>1. s.ready \in BOOLEAN
  BY DEF Hyalo
<1> DEFINE t == Changed(s)
<1>2. t = [s EXCEPT !.queued = s.ready]
  BY DEF Changed
<1>3. t \in Hyalo
  BY <1>1, <1>2 DEF Hyalo
<1>4. SameRest(s, t) /\ t.lease = s.lease /\ t.active = s.active /\ t.locked = s.locked
      /\ t.ready = s.ready /\ t.queued = s.ready
  BY <1>2 DEF Hyalo, SameRest
<1> HIDE DEF t
<1> QED BY <1>3, <1>4 DEF SameLease, t

LEMMA ChangedKeeps ==
  ASSUME NEW s, NEW c, Good(s, c), NotReady(s), s.needed => s.commit # None
  PROVE  Good(Changed(s), c) /\ Between(Changed(s)) /\ Changed(s).commit = s.commit /\ Changed(s).lease = s.lease
<1> DEFINE t == Changed(s)
<1>1. /\ t \in Hyalo /\ SameRest(s, t) /\ t.lease = s.lease /\ SameLease(s, t)
      /\ t.active = s.active /\ t.locked = s.locked /\ t.ready = s.ready /\ t.queued = s.ready
  BY ChangedParts DEF Good
<1> HIDE DEF t
<1>2. Good(t, c)
  BY <1>1, SmallKeeps
<1>3. Between(t)
  <2>1. NotReady(t)
    BY <1>1 DEF NotReady, SameRest
  <2>2. t.needed => t.commit # None
    BY <1>1 DEF SameRest
  <2>3. ~t.queued => Dealt(t)
    BY <1>1, <2>1 DEF Dealt, NotReady
  <2> QED BY <2>1, <2>2, <2>3 DEF Between
<1> QED BY <1>1, <1>2, <1>3 DEF SameRest, t

LEMMA SwitchKeeps == ASSUME DisplayInv, SwitchVT \/ LockChanges PROVE DisplayInv'
<1> USE DEF DisplayInv
<1>1. PICK s \in {[hyalo EXCEPT !.active = ~@], [hyalo EXCEPT !.locked = ~@]} : hyalo' = Changed(s)
  BY DEF SwitchVT, LockChanges
<1> DEFINE a == ~hyalo.active
           k == ~hyalo.locked
<1>a. a \in BOOLEAN /\ k \in BOOLEAN /\ s \in {[hyalo EXCEPT !.active = a], [hyalo EXCEPT !.locked = k]}
  OBVIOUS
<1>h. hyalo \in Hyalo
  BY DEF Good
<1> HIDE DEF a, k
<1>2. /\ s \in Hyalo /\ SameRest(hyalo, s) /\ s.lease = hyalo.lease /\ s.ready = hyalo.ready /\ s.queued = hyalo.queued
  <2>1. CASE s = [hyalo EXCEPT !.active = a]
    BY <1>a, <1>h, <2>1 DEF Hyalo, SameRest
  <2>2. CASE s = [hyalo EXCEPT !.locked = k]
    BY <1>a, <1>h, <2>2 DEF Hyalo, SameRest
  <2> QED BY <1>a, <2>1, <2>2
<1>3. Good(s, confirmed) /\ NotReady(s) /\ (s.needed => s.commit # None)
  BY <1>2, SmallKeeps DEF SameLease, SameRest, Between, NotReady
<1>4. Follows(s)
  BY <1>1, <1>3, ChangedKeeps DEF Follows
<1>5. Elsewhere
  BY DEF SwitchVT, LockChanges, Elsewhere
<1> QED BY <1>2, <1>4, <1>5, BooksKeep DEF SameRest

LEMMA PlugKeeps == ASSUME DisplayInv, Plug PROVE DisplayInv'
<1> USE DEF DisplayInv
<1> DEFINE new == IF hyalo.plugged THEN By0(FALSE) ELSE hyalo.config["external"]
           p == ~hyalo.plugged
           s == [hyalo EXCEPT !.plugged = p, !.shown["external"] = new]
<1>0. hyalo \in Hyalo /\ Shape(hyalo) /\ Kept(hyalo, confirmed) /\ On(hyalo, confirmed)
  BY DEF Good
<1>1. hyalo' = Changed(s) /\ Elsewhere
  BY DEF Plug, Elsewhere
<1>2. new \in Settings /\ (new.by = 0 \/ new = hyalo.config["external"]) /\ (hyalo.plugged => new.by = 0)
  BY <1>0 DEF By0, Settings, Hyalo, Outputs
<1>b. p \in BOOLEAN /\ (p <=> ~hyalo.plugged)
  OBVIOUS
<1> HIDE DEF new, p
<1>3. s \in Hyalo
  <2>1. [hyalo.shown EXCEPT !["external"] = new] \in [Outputs -> Settings]
    BY <1>0, <1>2 DEF Hyalo, Outputs
  <2> QED BY <1>0, <1>b, <2>1 DEF Hyalo
<1>4. /\ s.plugged = p /\ s.seen = hyalo.seen /\ s.needed = hyalo.needed /\ s.commit = hyalo.commit
      /\ s.profiles = hyalo.profiles /\ s.gap = hyalo.gap /\ s.lease = hyalo.lease
      /\ s.lidBefore = hyalo.lidBefore /\ s.recovery = hyalo.recovery
      /\ s.config = hyalo.config /\ s.ready = hyalo.ready /\ s.queued = hyalo.queued
  BY <1>0 DEF Hyalo
<1>5. s.shown = [hyalo.shown EXCEPT !["external"] = new]
  BY <1>0 DEF Hyalo
<1>6. s.shown["external"] = new /\ \A o \in Outputs \ {"external"} : s.shown[o] = hyalo.shown[o]
  BY <1>0, <1>5 DEF Hyalo, Outputs
<1> HIDE DEF s
<1>7. Shape(s)
  BY <1>0, <1>2, <1>b, <1>4, <1>6 DEF Shape, Fits, Seen, Hyalo
<1>8. Kept(s, confirmed)
  BY <1>0, <1>4 DEF Kept
<1>9. ASSUME NEW c, OnlyBy(hyalo, c) PROVE OnlyBy(s, c)
  <2>1. Seen(s) = Seen(hyalo) /\ Seen(s) \subseteq Outputs
    BY <1>4 DEF Seen, Connected, Outputs
  <2>2. ASSUME NEW o \in Seen(s) PROVE s.shown[o].by \in {0} \cup c /\ s.config[o].by \in {0} \cup c
    <3>1. hyalo.shown[o].by \in {0} \cup c /\ hyalo.config[o].by \in {0} \cup c
      BY <1>9, <2>1 DEF OnlyBy
    <3>2. CASE o = "external"
      BY <1>2, <1>4, <1>6, <3>1, <3>2
    <3>3. CASE o # "external"
      BY <1>4, <1>6, <2>1, <3>1, <3>3
    <3> QED BY <3>2, <3>3
  <2> QED BY <2>2 DEF OnlyBy
<1>10. On(s, confirmed)
  BY <1>0, <1>4, <1>9 DEF On
<1>11. NotReady(s) /\ (s.needed => s.commit # None)
  <2>1. hyalo.ready \/ \A o \in Outputs : s.shown[o].by = 0 /\ s.config[o].by = 0
    <3>1. CASE ~hyalo.ready
      <4>1. \A o \in Outputs : hyalo.shown[o].by = 0 /\ hyalo.config[o].by = 0
        BY <3>1 DEF Between, NotReady
      <4>2. new.by = 0
        BY <1>2, <4>1 DEF Outputs
      <4> QED BY <1>4, <1>6, <4>1, <4>2
    <3> QED BY <3>1
  <2> QED BY <1>4, <2>1 DEF Between, NotReady
<1>12. Good(s, confirmed)
  BY <1>3, <1>7, <1>8, <1>10 DEF Good
<1>13. Follows(s)
  BY <1>1, <1>11, <1>12, ChangedKeeps DEF Follows
<1> QED BY <1>1, <1>4, <1>13, BooksKeep

LEMMA TouchKeeps ==
  ASSUME DisplayInv, Elsewhere, NEW s \in Hyalo, hyalo' = s, SameLease(hyalo, s), SameRest(hyalo, s),
         s.active = hyalo.active, s.locked = hyalo.locked, s.ready = hyalo.ready, s.queued = hyalo.queued
  PROVE  DisplayInv'
<1> USE DEF DisplayInv
<1>1. Good(s, confirmed)
  BY SmallKeeps
<1>2. NotReady(s)
  BY DEF Between, NotReady, SameLease, SameRest
<1>3. Dealt(hyalo) => Dealt(s)
  BY DEF Dealt, SameLease, SameRest
<1>4. Between(s)
  BY <1>2, <1>3 DEF Between, SameRest
<1>5. s.lease # None => hyalo.lease # None /\ s.lease.by = hyalo.lease.by
  BY DEF SameLease
<1>6. Follows(s)
  BY <1>1, <1>4, <1>5 DEF Follows
<1> QED BY <1>5, <1>6, BooksKeep DEF SameRest

LEMMA LoopKeeps == ASSUME DisplayInv, Idle \/ TimerFires PROVE DisplayInv'
<1> USE DEF DisplayInv
<1>1. PICK s \in {[hyalo EXCEPT !.queued = FALSE], [hyalo EXCEPT !.armed = FALSE]} :
        Ends({Arm(t) : t \in Reconcile(s)})
  BY DEF Idle, TimerFires
<1>2. Elsewhere
  BY DEF Idle, TimerFires, Elsewhere
<1>3. hyalo \in Hyalo
  BY DEF Good
<1>4. /\ s \in Hyalo /\ SameRest(hyalo, s) /\ s.lease = hyalo.lease
      /\ s.ready = hyalo.ready /\ (s.queued => hyalo.queued)
  <2>1. CASE s = [hyalo EXCEPT !.queued = FALSE]
    BY <1>3, <2>1 DEF Hyalo, SameRest
  <2>2. CASE s = [hyalo EXCEPT !.armed = FALSE]
    BY <1>3, <2>2 DEF Hyalo, SameRest
  <2> QED BY <2>1, <2>2
<1>5. Good(s, confirmed) /\ NotReady(s)
  BY <1>4, SmallKeeps DEF SameLease, SameRest, Between, NotReady
<1>6. Follows(s)
  BY <1>1, <1>5, RunsKeep
<1> QED BY <1>2, <1>4, <1>6, BooksKeep DEF SameRest

LEMMA NewLease ==
  ASSUME NEW s \in Hyalo, s.lease # None, NEW w \in Leases,
         w.by = s.lease.by, w.before = s.lease.before, w.after = s.lease.after
  PROVE  LET t == [s EXCEPT !.lease = w] IN
         /\ t \in Hyalo /\ SameLease(s, t) /\ SameRest(s, t) /\ t.lease = w
         /\ t.active = s.active /\ t.locked = s.locked /\ t.ready = s.ready /\ t.queued = s.queued
<1> DEFINE t == [s EXCEPT !.lease = w]
<1>1. t \in Hyalo
  BY DEF Hyalo
<1>2. /\ SameRest(s, t) /\ t.lease = w
      /\ t.active = s.active /\ t.locked = s.locked /\ t.ready = s.ready /\ t.queued = s.queued
  BY DEF Hyalo, SameRest
<1>3. w # None
  OBVIOUS
<1> HIDE DEF t
<1> QED BY <1>1, <1>2, <1>3 DEF SameLease, t

LEMMA OwnerKeeps == ASSUME DisplayInv, DeadlinePasses \/ ClientDies PROVE DisplayInv'
<1> USE DEF DisplayInv
<1>0. hyalo \in Hyalo /\ hyalo.lease # None /\ hyalo.lease \in Leases
  BY DEF Good, Hyalo, DeadlinePasses, ClientDies
<1>1. Elsewhere
  BY DEF DeadlinePasses, ClientDies, Elsewhere
<1>2. PICK w \in {[hyalo.lease EXCEPT !.expired = TRUE], [hyalo.lease EXCEPT !.owner = "gone"]} :
        hyalo' = [hyalo EXCEPT !.lease = w]
  BY DEF DeadlinePasses, ClientDies
<1>3. w \in Leases /\ w.by = hyalo.lease.by /\ w.before = hyalo.lease.before /\ w.after = hyalo.lease.after
  BY <1>0 DEF Leases
<1> QED BY <1>0, <1>1, <1>2, <1>3, NewLease, TouchKeeps

LEMMA FrameKeeps == ASSUME DisplayInv, NEW o, FramePresented(o) PROVE DisplayInv'
<1> USE DEF DisplayInv
<1>0. hyalo \in Hyalo /\ hyalo.lease # None /\ hyalo.lease \in Leases
  BY DEF Good, Hyalo, FramePresented
<1>1. Elsewhere
  BY DEF FramePresented, Elsewhere
<1> DEFINE v == [hyalo.lease EXCEPT !.waiting = hyalo.lease.waiting \ {o}]
           w == [[v EXCEPT !.activated = TRUE] EXCEPT !.expired = FALSE]
           t == [hyalo EXCEPT !.lease = w]
<1>2. hyalo' \in {[hyalo EXCEPT !.lease = v], Arm(t)}
  BY DEF FramePresented
<1>3. /\ v \in Leases /\ v.by = hyalo.lease.by /\ v.before = hyalo.lease.before /\ v.after = hyalo.lease.after
      /\ w \in Leases /\ w.by = hyalo.lease.by /\ w.before = hyalo.lease.before /\ w.after = hyalo.lease.after
  BY <1>0 DEF Leases
<1> HIDE DEF v, w
<1>4. CASE hyalo' = [hyalo EXCEPT !.lease = v]
  BY <1>0, <1>1, <1>3, <1>4, NewLease, TouchKeeps
<1>5. CASE hyalo' = Arm(t)
  <2>1. /\ t \in Hyalo /\ SameLease(hyalo, t) /\ SameRest(hyalo, t)
        /\ t.active = hyalo.active /\ t.locked = hyalo.locked /\ t.ready = hyalo.ready /\ t.queued = hyalo.queued
    BY <1>0, <1>3, NewLease
  <2> HIDE DEF t
  <2> DEFINE x == Arm(t)
  <2>2. /\ x \in Hyalo /\ SameRest(t, x) /\ SameLease(t, x)
        /\ x.active = t.active /\ x.locked = t.locked /\ x.ready = t.ready /\ x.queued = t.queued
    BY <2>1, ArmParts
  <2>3. hyalo' = x
    BY <1>5
  <2> HIDE DEF x
  <2>4. SameRest(hyalo, x) /\ SameLease(hyalo, x)
    BY <2>1, <2>2 DEF SameRest, SameLease
  <2> QED BY <1>1, <2>1, <2>2, <2>3, <2>4, TouchKeeps
<1> QED BY <1>2, <1>4, <1>5

(***************************************************************************)
(* The owner's answers and the lid: what the handler does before the       *)
(* reconciliation that follows it is kin to the state it was called in.    *)
(***************************************************************************)
Kin(s, t) ==
  /\ t.commit = s.commit
  /\ t.lease # None => s.lease # None /\ t.lease.by = s.lease.by

LEMMA AnswersBooks ==
  ASSUME DisplayInv, Elsewhere, NEW S, \A s \in S : Good(s, confirmed) /\ NotReady(s) /\ Kin(hyalo, s), Answers(S)
  PROVE  DisplayInv'
<1>1. PICK s \in S : Follows(s)
  BY AnswersKeep
<1>2. Kin(hyalo, s)
  OBVIOUS
<1> QED BY <1>1, <1>2, BooksKeep DEF Kin

LEMMA RolledBack ==
  ASSUME NEW s, NEW c, Good(s, c), NotReady(s), NEW t \in Rollback(s)
  PROVE  /\ Good(t, c) /\ NotReady(t) /\ Frame(s, t) /\ t.needed = s.needed
         /\ t = s \/ (s.commit = None /\ t.lease = None /\ t.seen = s.plugged /\ (s.active => t.recovery = None))
<1>1. s \in Hyalo /\ Shape(s) /\ Kept(s, c) /\ On(s, c)
  BY DEF Good
<1>2. /\ t \in Hyalo /\ Shape(t) /\ Kept(t, c) /\ Frame(s, t) /\ t.needed = s.needed
      /\ s.commit = None => t.lease = None
      /\ IF s.commit # None \/ s.lease = None THEN t = s
         ELSE t.seen = s.plugged /\ On(t, c) /\ (s.active => t.recovery = None)
  BY <1>1, RollbackKeeps
<1>3. CASE s.commit # None \/ s.lease = None
  BY <1>2, <1>3
<1>4. CASE s.commit = None /\ s.lease # None
  <2>1. s.ready /\ t.ready
    BY <1>2, <1>4 DEF NotReady, Frame, SameMachine
  <2> QED BY <1>2, <1>4, <2>1 DEF Good, NotReady
<1> QED BY <1>3, <1>4

LEMMA CancelKeeps == ASSUME DisplayInv, Cancel PROVE DisplayInv'
<1> USE DEF DisplayInv
<1> DEFINE S == Each(Reconcile(hyalo), Rollback)
<1>1. Answers(S) /\ Elsewhere
  BY DEF Cancel, Elsewhere
<1>2. ASSUME NEW s \in S PROVE Good(s, confirmed) /\ NotReady(s) /\ Kin(hyalo, s)
  <2>1. PICK t \in Reconcile(hyalo) : s \in Rollback(t)
    BY DEF Each
  <2>2. Good(t, confirmed) /\ Frame(hyalo, t) /\ NotReady(t)
    BY ReconcileKeeps DEF Between
  <2>3. Good(s, confirmed) /\ NotReady(s) /\ Frame(t, s)
    BY <2>1, <2>2, RolledBack
  <2> QED BY <2>2, <2>3 DEF Frame, Kin
<1> HIDE DEF S
<1> QED BY <1>1, <1>2, AnswersBooks

LEMMA LostKeeps == ASSUME DisplayInv, OwnerLost PROVE DisplayInv'
<1> USE DEF DisplayInv
<1>0. hyalo \in Hyalo /\ hyalo.lease # None /\ hyalo.lease \in Leases
  BY DEF Good, Hyalo, OwnerLost
<1> DEFINE w == [hyalo.lease EXCEPT !.owner = "lost"]
           t == [hyalo EXCEPT !.lease = w]
           S == Rollback(t)
<1>1. Answers(S) /\ Elsewhere
  BY DEF OwnerLost, Elsewhere
<1>2. w \in Leases /\ w.by = hyalo.lease.by /\ w.before = hyalo.lease.before /\ w.after = hyalo.lease.after
  BY <1>0 DEF Leases
<1> HIDE DEF w
<1>3. /\ t \in Hyalo /\ SameLease(hyalo, t) /\ SameRest(hyalo, t)
      /\ t.active = hyalo.active /\ t.locked = hyalo.locked /\ t.ready = hyalo.ready /\ t.queued = hyalo.queued
  BY <1>0, <1>2, NewLease
<1> HIDE DEF t
<1>4. Good(t, confirmed)
  BY <1>3, SmallKeeps
<1>5. NotReady(t)
  BY <1>0, <1>3 DEF Between, NotReady
<1>6. ASSUME NEW s \in S PROVE Good(s, confirmed) /\ NotReady(s) /\ Kin(hyalo, s)
  <2>1. Good(s, confirmed) /\ NotReady(s) /\ Frame(t, s)
    BY <1>4, <1>5, RolledBack
  <2> QED BY <1>3, <2>1 DEF Frame, Kin, SameRest, SameLease
<1> HIDE DEF S
<1> QED BY <1>1, <1>6, AnswersBooks

LEMMA LidDealt ==
  ASSUME NEW s, NEW c, NEW closed \in BOOLEAN, Good(s, c), NotReady(s), s.needed => s.commit # None,
         closed /\ s.active /\ s.commit = None => s.recovery = None,
         NEW t \in ReconcileLid([s EXCEPT !.closed = closed])
  PROVE  Good(t, c) /\ NotReady(t) /\ Kin(s, t)
<1> DEFINE u == [s EXCEPT !.closed = closed]
<1>0. s \in Hyalo /\ Shape(s)
  BY DEF Good
<1>1. /\ u \in Hyalo /\ SameRest(s, u) /\ u.lease = s.lease /\ u.active = s.active
      /\ u.ready = s.ready /\ u.queued = s.queued /\ u.closed = closed
  BY <1>0 DEF Hyalo, SameRest
<1>2. t \in ReconcileLid(u)
  OBVIOUS
<1> HIDE DEF u
<1>3. Good(u, c)
  BY <1>1, SmallKeeps DEF SameLease
<1>4. u.needed => u.commit # None
  BY <1>1 DEF SameRest
<1>5. u.active /\ u.closed => u.recovery = None
  BY <1>0, <1>1 DEF SameRest, Shape
<1>6. Good(t, c) /\ Frame(u, t) /\ t.needed = u.needed
  BY <1>2, <1>3, <1>4, <1>5, LidKeeps
<1>7. NotReady(t)
  <2>1. CASE s.ready
    BY <1>1, <1>6, <2>1 DEF NotReady, Frame, SameMachine
  <2>2. CASE ~s.ready
    <3>1. t = u
      BY <1>1, <1>2, <2>2 DEF ReconcileLid
    <3> QED BY <1>1, <2>2, <3>1 DEF NotReady, SameRest
  <2> QED BY <2>1, <2>2
<1> QED BY <1>1, <1>6, <1>7 DEF Kin, Frame, SameRest

LEMMA LidSaysKeeps == ASSUME DisplayInv, NEW closed \in BOOLEAN, LidSays(closed) PROVE DisplayInv'
<1> USE DEF DisplayInv
<1> DEFINE S == Each({[s EXCEPT !.closed = closed] : s \in Reconcile(hyalo)}, ReconcileLid)
<1>1. Answers(S) /\ Elsewhere
  BY DEF LidSays, Elsewhere
<1>2. ASSUME NEW s \in S PROVE Good(s, confirmed) /\ NotReady(s) /\ Kin(hyalo, s)
  <2>1. PICK t \in Reconcile(hyalo) : s \in ReconcileLid([t EXCEPT !.closed = closed])
    BY DEF Each
  <2>2. /\ Good(t, confirmed) /\ Frame(hyalo, t) /\ NotReady(t) /\ Dealt(t)
        /\ t.needed => t.commit # None
    BY ReconcileKeeps DEF Between
  <2>3. Good(s, confirmed) /\ NotReady(s) /\ Kin(t, s)
    BY <2>1, <2>2, LidDealt DEF Dealt
  <2> QED BY <2>2, <2>3 DEF Frame, Kin
<1> HIDE DEF S
<1> QED BY <1>1, <1>2, AnswersBooks

LEMMA LidOwnerKeeps == ASSUME DisplayInv, LidOwnerLost PROVE DisplayInv'
<1> USE DEF DisplayInv
<1> DEFINE S == ReconcileLid([hyalo EXCEPT !.closed = FALSE])
<1>1. Answers(S) /\ Elsewhere
  BY DEF LidOwnerLost, Elsewhere
<1>2. ASSUME NEW s \in S PROVE Good(s, confirmed) /\ NotReady(s) /\ Kin(hyalo, s)
  BY LidDealt DEF Between
<1> HIDE DEF S
<1> QED BY <1>1, <1>2, AnswersBooks

(***************************************************************************)
(* The disk worker, and a start.                                           *)
(***************************************************************************)
LEMMA CleanGrows == ASSUME NEW l, NEW c, NEW d, c \subseteq d, CleanIn(l, c) PROVE CleanIn(l, d)
BY DEF CleanIn

LEMMA GoodGrows == ASSUME NEW s, NEW c, NEW d, c \subseteq d, Good(s, c) PROVE Good(s, d)
<1>0. s \in Hyalo /\ Shape(s) /\ Kept(s, c) /\ On(s, c)
  BY DEF Good
<1>1. Kept(s, d)
  <2>1. \A l : CleanIn(l, c) => CleanIn(l, d)
    BY CleanGrows
  <2>2. \A l, n : CleanIn(l, c \cup {n}) => CleanIn(l, d \cup {n})
    BY DEF CleanIn
  <2> QED BY <1>0, <2>1, <2>2 DEF Kept
<1>2. On(s, d)
  BY <1>0 DEF On, OnlyBy
<1> QED BY <1>0, <1>1, <1>2 DEF Good

LEMMA DiskKeeps == ASSUME DisplayInv, DiskWrites PROVE DisplayInv'
<1> USE DEF DisplayInv
<1>0. hyalo \in Hyalo /\ Shape(hyalo) /\ Kept(hyalo, confirmed)
  BY DEF Good
<1>1. store = "writing" /\ hyalo' = hyalo /\ previews' = previews
  BY DEF DiskWrites
<1>2. PICK replaced \in BOOLEAN :
        /\ store' \in IF replaced THEN {"saved", "failed"} ELSE {"failed"}
        /\ disk' = IF replaced THEN hyalo.commit ELSE disk
        /\ confirmed' = IF replaced THEN confirmed \cup {hyalo.lease.by} ELSE confirmed
  BY DEF DiskWrites
<1>3. hyalo.commit # None /\ hyalo.lease # None /\ hyalo.commit \in Profiles /\ hyalo.lease.by \in 1 .. previews
  BY <1>0, <1>1 DEF Books, Shape, Hyalo
<1>4. confirmed \subseteq confirmed' /\ confirmed' \subseteq 1 .. previews'
  BY <1>1, <1>2, <1>3 DEF Books
<1>5. Good(hyalo, confirmed')
  BY <1>4, GoodGrows
<1>6. disk' \in Profiles /\ FitsAll(disk') /\ \A e \in BOOLEAN : CleanIn(disk'[e], confirmed')
  <2>1. CASE replaced
    BY <1>0, <1>2, <1>3, <2>1 DEF Shape, Kept
  <2>2. CASE ~replaced
    BY <1>2, <2>2 DEF Books
  <2> QED BY <2>1, <2>2
<1>7. Books'
  <2>1. store' \in {"saved", "failed"} /\ (store' = "saved" => hyalo.lease.by \in confirmed')
    BY <1>2
  <2>2. previews' \in 0 .. MaxPreviews
    BY <1>1 DEF Books
  <2> QED BY <1>1, <1>3, <1>4, <1>6, <2>1, <2>2 DEF Books
<1> QED BY <1>1, <1>5, <1>7

LEMMA SettledKeeps ==
  ASSUME NEW s, NEW c, NEW ok \in BOOLEAN, Good(s, c), s.commit # None, ok => s.lease.by \in c
  PROVE  LET t == Settled(s, ok) IN
         Good(t, c) /\ t.ready = s.ready /\ t.commit = None
         /\ (t.lease # None => s.lease # None /\ t.lease.by = s.lease.by)
<1>0. s \in Hyalo /\ Shape(s) /\ Kept(s, c) /\ On(s, c) /\ s.lease # None /\ s.commit \in Profiles
  BY DEF Good, Shape, Hyalo
<1>1. CASE ~ok
  <2> DEFINE t == [s EXCEPT !.commit = None]
  <2>1. t = Settled(s, ok)
    BY <1>1 DEF Settled
  <2>2. t \in Hyalo
    BY <1>0 DEF Hyalo
  <2>3. /\ SameMachine(s, t) /\ t.seen = s.seen /\ t.needed = s.needed /\ t.commit = None
        /\ t.profiles = s.profiles /\ t.gap = s.gap /\ t.lease = s.lease
        /\ t.lidBefore = s.lidBefore /\ t.recovery = s.recovery
        /\ t.config = s.config /\ t.shown = s.shown
    BY <1>0 DEF Hyalo, SameMachine
  <2> HIDE DEF t
  <2>4. Shape(t)
    BY <1>0, <2>3 DEF Shape, SameMachine, Fits, Seen
  <2>5. Kept(t, c)
    BY <1>0, <2>3 DEF Kept
  <2>6. On(t, c)
    BY <1>0, <2>3 DEF On, OnlyBy, Seen
  <2> QED BY <2>1, <2>2, <2>3, <2>4, <2>5, <2>6 DEF Good, SameMachine
<1>2. CASE ok
  <2> DEFINE t == [s EXCEPT !.commit = None, !.profiles = s.commit, !.lease = None]
  <2>1. t = Settled(s, ok)
    BY <1>2 DEF Settled
  <2>2. t \in Hyalo
    BY <1>0 DEF Hyalo
  <2>3. /\ SameMachine(s, t) /\ t.seen = s.seen /\ t.needed = s.needed /\ t.commit = None
        /\ t.profiles = s.commit /\ t.gap = s.gap /\ t.lease = None
        /\ t.lidBefore = s.lidBefore /\ t.recovery = s.recovery
        /\ t.config = s.config /\ t.shown = s.shown
    BY <1>0 DEF Hyalo, SameMachine
  <2> HIDE DEF t
  <2>4. Shape(t)
    BY <1>0, <2>3 DEF Shape, SameMachine, Fits, Seen
  <2>5. c \cup {s.lease.by} = c
    BY <1>2
  <2>6. Kept(t, c)
    BY <1>0, <2>3, <2>5 DEF Kept
  <2>7. On(t, c)
    BY <1>0, <2>3, <2>5 DEF On, OnlyBy, Seen
  <2> QED BY <2>1, <2>2, <2>3, <2>4, <2>6, <2>7 DEF Good, SameMachine
<1> QED BY <1>1, <1>2

LEMMA SavedAnswers == ASSUME DisplayInv, Saved PROVE DisplayInv'
<1> USE DEF DisplayInv
<1> DEFINE ok == store = "saved"
           t == Settled(hyalo, ok)
<1>1. /\ store \in {"saved", "failed"} /\ store' = "idle" /\ Answers({t})
      /\ disk' = disk /\ previews' = previews /\ confirmed' = confirmed
  BY DEF Saved
<1>2. hyalo.commit # None /\ (ok => hyalo.lease.by \in confirmed)
  BY <1>1 DEF Books
<1>3. hyalo.ready
  BY <1>2 DEF Between, NotReady
<1>4. ok \in BOOLEAN
  OBVIOUS
<1> HIDE DEF ok
<1>5. /\ Good(t, confirmed) /\ t.ready = hyalo.ready /\ t.commit = None
      /\ t.lease # None => hyalo.lease # None /\ t.lease.by = hyalo.lease.by
  BY <1>2, <1>4, SettledKeeps
<1> HIDE DEF t
<1>6. NotReady(t)
  BY <1>3, <1>5 DEF NotReady
<1>7. Follows(t)
  BY <1>1, <1>5, <1>6, AnswersKeep
<1>8. Books'
  BY <1>1, <1>5, <1>7 DEF Books, Follows
<1> QED BY <1>1, <1>7, <1>8 DEF Follows

LEMMA StartedKeeps ==
  ASSUME NEW e \in BOOLEAN, NEW n \in 0 .. MaxFails, NEW c
  PROVE  LET s == Started(e, n) IN
         Good(s, c) /\ Between(s) /\ s.commit = None /\ s.lease = None
<1> DEFINE s == Started(e, n)
<1>1. By0(TRUE) \in Settings /\ \A o \in Outputs : By0(o \in Connected(e)) \in Settings
  BY DEF By0, Settings
<1>2. /\ [o \in Outputs |-> By0(o \in Connected(e))] \in [Outputs -> Settings]
      /\ [o \in Outputs |-> By0(TRUE)] \in [Outputs -> Settings]
      /\ [b \in BOOLEAN |-> None] \in Profiles
  BY <1>1 DEF Profiles
<1>3. s \in Hyalo
  BY <1>2 DEF Started, Hyalo
<1>4. /\ s.lease = None /\ s.commit = None /\ s.recovery = None /\ s.lidBefore = None
      /\ ~s.needed /\ ~s.queued /\ ~s.ready /\ s.profiles = [b \in BOOLEAN |-> None]
  BY DEF Started
<1>5. \A o \in Outputs : s.shown[o].by = 0 /\ s.config[o].by = 0
  BY DEF Started, By0
<1> HIDE DEF s
<1>6. Seen(s) \subseteq Outputs /\ "external" \in Outputs
  BY DEF Seen, Connected, Outputs
<1>7. Shape(s)
  BY <1>4, <1>5, <1>6 DEF Shape, Fits, FitsAll
<1>8. Kept(s, c)
  BY <1>4 DEF Kept, CleanIn
<1>9. On(s, c)
  BY <1>4, <1>5, <1>6 DEF On, OnlyBy
<1>10. Between(s)
  BY <1>4, <1>5 DEF Between, NotReady, Dealt
<1> QED BY <1>3, <1>4, <1>7, <1>8, <1>9, <1>10 DEF Good, s

LEMMA DisplayInit == Init => DisplayInv
<1> SUFFICES ASSUME Init PROVE DisplayInv
  OBVIOUS
<1>1. PICK e \in BOOLEAN : hyalo = Started(e, 0)
  BY DEF Init
<1>2. Good(hyalo, confirmed) /\ Between(hyalo) /\ hyalo.commit = None /\ hyalo.lease = None
  BY <1>1, StartedKeeps
<1>3. Books
  BY <1>2 DEF Init, Books, Profiles, FitsAll, CleanIn
<1> QED BY <1>2, <1>3 DEF DisplayInv

LEMMA CrashKeeps == ASSUME DisplayInv, Crash PROVE DisplayInv'
<1> USE DEF DisplayInv
<1>1. /\ hyalo' = Started(hyalo.plugged, hyalo.fails) /\ store' = "idle"
      /\ disk' = disk /\ previews' = previews /\ confirmed' = confirmed
  BY DEF Crash
<1>2. hyalo.plugged \in BOOLEAN /\ hyalo.fails \in 0 .. MaxFails
  BY DEF Good, Hyalo
<1>3. Good(hyalo', confirmed') /\ Between(hyalo') /\ hyalo'.commit = None /\ hyalo'.lease = None
  BY <1>1, <1>2, StartedKeeps
<1>4. Books'
  BY <1>1, <1>3 DEF Books
<1> QED BY <1>3, <1>4

LEMMA LoadedKeeps == ASSUME DisplayInv, Loaded PROVE DisplayInv'
<1> USE DEF DisplayInv
<1> DEFINE u == [hyalo EXCEPT !.profiles = disk, !.ready = TRUE]
           S == RestoreProfile(u)
<1>0. hyalo \in Hyalo /\ Shape(hyalo) /\ Kept(hyalo, confirmed) /\ On(hyalo, confirmed) /\ ~hyalo.ready
  BY DEF Good, Loaded
<1>1. Answers(S) /\ Elsewhere
  BY DEF Loaded, Elsewhere
<1>2. /\ hyalo.lease = None /\ hyalo.commit = None /\ hyalo.recovery = None /\ hyalo.lidBefore = None
      /\ ~hyalo.needed
  BY <1>0 DEF Between, NotReady
<1>3. disk \in Profiles /\ FitsAll(disk) /\ \A e \in BOOLEAN : CleanIn(disk[e], confirmed)
  BY DEF Books
<1>4. u \in Hyalo
  BY <1>0, <1>3 DEF Hyalo
<1>5. /\ u.plugged = hyalo.plugged /\ u.seen = hyalo.seen /\ ~u.needed /\ u.commit = None
      /\ u.profiles = disk /\ u.gap = hyalo.gap /\ u.lease = None
      /\ u.lidBefore = None /\ u.recovery = None /\ u.ready
      /\ u.config = hyalo.config /\ u.shown = hyalo.shown
  BY <1>0, <1>2 DEF Hyalo
<1> HIDE DEF u
<1>6. Shape(u)
  BY <1>0, <1>3, <1>5 DEF Shape, Fits
<1>7. Kept(u, confirmed)
  BY <1>0, <1>3, <1>5 DEF Kept, CleanIn
<1>8. On(u, confirmed)
  BY <1>0, <1>2, <1>5 DEF On, OnlyBy, Seen
<1>9. ASSUME NEW s \in S PROVE Good(s, confirmed) /\ NotReady(s) /\ Kin(hyalo, s)
  <2>1. CASE s = u
    BY <1>2, <1>4, <1>5, <1>6, <1>7, <1>8, <2>1 DEF Good, NotReady, Kin
  <2>2. CASE s # u
    <3>1. Moved(u, s) /\ Lit(s, confirmed)
      BY <1>4, <1>6, <1>7, <2>2, ProfileMoves
    <3>2. Shape(s) /\ Kept(s, confirmed) /\ s.lease = None
      BY <1>4, <1>5, <1>6, <1>7, <3>1, MovedKeeps
    <3>3. On(s, confirmed)
      BY <3>1, <3>2, LitOn
    <3>4. s \in Hyalo /\ s.ready /\ s.commit = None
      BY <1>5, <3>1 DEF Moved, SameMachine
    <3> QED BY <1>2, <3>2, <3>3, <3>4 DEF Good, NotReady, Kin
  <2> QED BY <2>1, <2>2
<1> HIDE DEF S
<1> QED BY <1>1, <1>9, AnswersBooks

(***************************************************************************)
(* The other ways to the screens.                                          *)
(***************************************************************************)
LEMMA EndsBooks ==
  ASSUME DisplayInv, Elsewhere, NEW S, \A s \in S : Good(s, confirmed) /\ Between(s) /\ Kin(hyalo, s), Ends(S)
  PROVE  DisplayInv'
<1>1. /\ Good(hyalo', confirmed) /\ Between(hyalo')
      /\ \E t \in S : hyalo'.commit = t.commit /\ hyalo'.lease = t.lease
  BY EndsKeep
<1>2. Follows(hyalo)
  BY <1>1 DEF Follows, Kin
<1> QED BY <1>2, BooksKeep

LEMMA MovedGood ==
  ASSUME NEW s, NEW t, NEW c, s \in Hyalo, Shape(s), Kept(s, c), s.lease = None, Moved(s, t), Lit(t, c)
  PROVE  Good(t, c) /\ t.lease = None /\ t.commit = s.commit /\ t.needed = s.needed /\ t.ready = s.ready
<1>1. Shape(t) /\ Kept(t, c) /\ t.lease = None
  BY MovedKeeps
<1>2. On(t, c)
  BY <1>1, LitOn
<1> QED BY <1>1, <1>2 DEF Good, Moved, SameMachine

LEMMA ReloadParts ==
  ASSUME NEW s, NEW c, Good(s, c), NotReady(s), ~s.needed, s.lease = None
  PROVE  LET u == Reloaded(s) IN
         Good(u, c) /\ NotReady(u) /\ ~u.needed /\ u.lease = None /\ u.commit = None
         /\ u.ready = s.ready
<1> DEFINE u == Reloaded(s)
           k == [o \in Outputs |-> By0(TRUE)]
<1>0. s \in Hyalo /\ Shape(s) /\ Kept(s, c) /\ On(s, c) /\ s.commit = None
  BY DEF Good, Shape
<1>1. k \in [Outputs -> Settings] /\ \A o \in Outputs : k[o].by = 0
  BY DEF By0, Settings
<1>2. u = [s EXCEPT !.config = k]
  BY DEF Reloaded
<1> HIDE DEF k
<1>3. u \in Hyalo
  BY <1>0, <1>1, <1>2 DEF Hyalo
<1>4. /\ SameMachine(s, u) /\ u.seen = s.seen /\ u.needed = s.needed /\ u.commit = s.commit
      /\ u.profiles = s.profiles /\ u.gap = s.gap /\ u.lease = s.lease
      /\ u.lidBefore = s.lidBefore /\ u.recovery = s.recovery
      /\ u.config = k /\ u.shown = s.shown
  BY <1>0, <1>2 DEF Hyalo, SameMachine
<1> HIDE DEF u
<1>5. Shape(u)
  BY <1>0, <1>4 DEF Shape, SameMachine, Fits, Seen
<1>6. Kept(u, c)
  BY <1>0, <1>4 DEF Kept
<1>7. On(u, c)
  <2>1. Seen(u) = Seen(s) /\ Seen(u) \subseteq Outputs
    BY <1>4 DEF Seen, Connected, Outputs
  <2> QED BY <1>0, <1>1, <1>4, <2>1 DEF On, OnlyBy
<1>8. NotReady(u)
  BY <1>1, <1>4 DEF NotReady, SameMachine
<1> QED BY <1>0, <1>3, <1>4, <1>5, <1>6, <1>7, <1>8 DEF Good, SameMachine, u

LEMMA ReloadKeeps ==
  ASSUME DisplayInv, NEW valid, ConfigReload(valid)
  PROVE  DisplayInv' /\ (hyalo'.lease # None => hyalo'.commit # None)
<1> USE DEF DisplayInv
<1> DEFINE taken(s) == IF valid /\ s.lease = None
                       THEN {Changed(t) : t \in IF s.ready THEN RestoreProfile(Reloaded(s))
                                                ELSE {Reloaded(s)}}
                       ELSE {s}
           S == Each(Rollback(hyalo), taken)
<1>1. Ends(S) /\ Elsewhere
  BY DEF ConfigReload, Elsewhere
<1>2. ASSUME NEW x \in S
      PROVE  /\ Good(x, confirmed) /\ Between(x) /\ Kin(hyalo, x)
             /\ x.lease # None => x.commit # None
  <2>1. PICK s \in Rollback(hyalo) : x \in taken(s)
    BY DEF Each
  <2>2. /\ Good(s, confirmed) /\ NotReady(s) /\ Frame(hyalo, s) /\ s.needed = hyalo.needed
        /\ s = hyalo \/ ( /\ hyalo.commit = None /\ s.lease = None /\ s.seen = hyalo.plugged
                          /\ hyalo.active => s.recovery = None)
    BY RolledBack DEF Between
  <2>3. Between(s)
    <3>1. CASE s = hyalo
      BY <3>1
    <3>2. CASE s # hyalo
      BY <2>2, <3>2 DEF Between, Dealt, Frame, SameMachine
    <3> QED BY <3>1, <3>2
  <2>4. CASE ~(valid /\ s.lease = None)
    <3>1. x = s
      BY <2>1, <2>4
    <3>2. s.lease # None => s.commit # None
      BY <2>2, <2>4, RollbackKeeps DEF Good, Frame
    <3> QED BY <2>2, <2>3, <3>1, <3>2 DEF Frame, Kin
  <2>5. CASE valid /\ s.lease = None
    <3>1. PICK t \in IF s.ready THEN RestoreProfile(Reloaded(s)) ELSE {Reloaded(s)} : x = Changed(t)
      BY <2>1, <2>5
    <3>2. s.commit = None /\ ~s.needed
      BY <2>2, <2>3, <2>5 DEF Good, Shape, Between
    <3> DEFINE u == Reloaded(s)
    <3>3. /\ Good(u, confirmed) /\ NotReady(u) /\ ~u.needed /\ u.lease = None /\ u.commit = None
          /\ u.ready = s.ready
      BY <2>2, <2>5, <3>2, ReloadParts
    <3>4. t \in IF s.ready THEN RestoreProfile(u) ELSE {u}
      BY <3>1
    <3> HIDE DEF u
    <3>5. Good(t, confirmed) /\ NotReady(t) /\ ~t.needed /\ t.lease = None /\ t.commit = None
      <4>1. CASE t = u
        BY <3>3, <4>1
      <4>2. CASE t # u
        <5>1. s.ready /\ t \in RestoreProfile(u)
          BY <3>4, <4>2
        <5>2. u \in Hyalo /\ Shape(u) /\ Kept(u, confirmed)
          BY <3>3 DEF Good
        <5>3. Moved(u, t) /\ Lit(t, confirmed)
          BY <4>2, <5>1, <5>2, ProfileMoves
        <5>4. Good(t, confirmed) /\ t.lease = None /\ t.commit = None /\ ~t.needed /\ t.ready
          BY <3>3, <5>1, <5>2, <5>3, MovedGood
        <5> QED BY <5>4 DEF NotReady
      <4> QED BY <4>1, <4>2
    <3>6. Good(x, confirmed) /\ Between(x) /\ x.commit = None /\ x.lease = None
      BY <3>1, <3>5, ChangedKeeps
    <3> QED BY <2>2, <3>2, <3>6 DEF Kin, Frame
  <2> QED BY <2>4, <2>5
<1> HIDE DEF S
<1>3. \E x \in S : hyalo'.commit = x.commit /\ hyalo'.lease = x.lease
  BY <1>1, <1>2, EndsKeep
<1> QED BY <1>1, <1>2, <1>3, EndsBooks

LEMMA LegacyKeeps ==
  ASSUME DisplayInv, NEW o, NEW on \in BOOLEAN, LegacyApply(o, on)
  PROVE  DisplayInv' /\ hyalo'.lease = None
<1> USE DEF DisplayInv
<1> DEFINE before == CurrentLayout(hyalo)
           l == [before EXCEPT ![o] = By0(on)]
           S == UNION {IF r.ok THEN {Changed(r.state)} ELSE ApplyOrSafe(r.state, before) : r \in Apply(hyalo, l)}
<1>0. hyalo \in Hyalo /\ Shape(hyalo) /\ Kept(hyalo, confirmed) /\ On(hyalo, confirmed)
  BY DEF Good
<1>1. Ends(S) /\ Elsewhere
  BY DEF LegacyApply, Elsewhere
<1>2. /\ hyalo.active /\ hyalo.ready /\ hyalo.commit = None /\ hyalo.lease = None /\ o \in Seen(hyalo)
      /\ ~hyalo.needed
  BY DEF LegacyApply, Allowed, Between
<1>3. /\ before \in Layouts /\ DOMAIN before = Seen(hyalo) /\ before \in [Seen(hyalo) -> Settings]
      /\ \A q \in Seen(hyalo) : before[q] = hyalo.shown[q]
  BY <1>0, SeenLayouts, LayoutParts DEF CurrentLayout
<1>4. /\ l \in [Seen(hyalo) -> Settings] /\ DOMAIN l = Seen(hyalo)
      /\ \A q \in Seen(hyalo) : l[q] = before[q] \/ l[q].by = 0
  <2>1. By0(on) \in Settings /\ By0(on).by = 0
    BY DEF By0, Settings
  <2> HIDE DEF before
  <2> QED BY <1>2, <1>3, <2>1
<1> HIDE DEF before, l
<1>5. l \in Layouts /\ Fits(l, hyalo)
  BY <1>0, <1>4, SeenLayouts DEF Fits
<1>6. hyalo.gap \/ hyalo.recovery # None \/ (OnlyBy(hyalo, confirmed) /\ CleanIn(before, confirmed) /\ CleanIn(l, confirmed))
  BY <1>0, <1>2, <1>3, <1>4 DEF On, OnlyBy, CleanIn
<1>7. ASSUME NEW r \in Apply(hyalo, l)
      PROVE  /\ Moved(hyalo, r.state) /\ r.state.seen = hyalo.plugged
             /\ hyalo.gap \/ hyalo.recovery # None \/ Lit(r.state, confirmed)
             /\ r.ok \in BOOLEAN
  <2>1. r.ok \in BOOLEAN /\ Moved(hyalo, r.state) /\ r.state.seen = hyalo.plugged
    BY <1>0, <1>5, ApplyMoves
  <2>2. CASE hyalo.gap \/ hyalo.recovery # None
    BY <2>1, <2>2
  <2>3. CASE ~(hyalo.gap \/ hyalo.recovery # None)
    <3>1. OnlyBy(hyalo, confirmed) /\ CleanIn(l, confirmed)
      BY <1>6, <2>3
    <3> QED BY <1>0, <1>5, <2>1, <3>1, ApplyShows
  <2> QED BY <2>2, <2>3
<1>8. ASSUME NEW t, Moved(hyalo, t), t.seen = hyalo.plugged,
             hyalo.gap \/ hyalo.recovery # None \/ Lit(t, confirmed)
      PROVE  Good(t, confirmed) /\ Between(t) /\ Kin(hyalo, t) /\ NotReady(t) /\ ~t.needed
  <2>1. /\ Shape(t) /\ Kept(t, confirmed) /\ t.lease = None
        /\ (t.recovery = None <=> hyalo.recovery = None)
    BY <1>0, <1>2, <1>8, MovedKeeps
  <2>2. /\ t \in Hyalo /\ ~t.needed /\ t.commit = None /\ t.ready /\ (hyalo.gap => t.gap)
        /\ t.active = hyalo.active /\ t.plugged = hyalo.plugged /\ t.queued = hyalo.queued
    BY <1>2, <1>8 DEF Moved, SameMachine
  <2>3. On(t, confirmed)
    BY <1>8, <2>1, <2>2 DEF On, Lit
  <2>4. Between(t)
    BY <1>2, <1>8, <2>1, <2>2 DEF Between, NotReady, Dealt
  <2> QED BY <1>2, <2>1, <2>2, <2>3, <2>4 DEF Good, Kin, NotReady
<1>9. ASSUME NEW x \in S PROVE Good(x, confirmed) /\ Between(x) /\ Kin(hyalo, x)
  <2>1. PICK r \in Apply(hyalo, l) : x \in IF r.ok THEN {Changed(r.state)} ELSE ApplyOrSafe(r.state, before)
    OBVIOUS
  <2>2. /\ Moved(hyalo, r.state) /\ r.state.seen = hyalo.plugged
        /\ hyalo.gap \/ hyalo.recovery # None \/ Lit(r.state, confirmed)
        /\ r.ok \in BOOLEAN
    BY <1>7
  <2>3. CASE r.ok
    <3>1. /\ Good(r.state, confirmed) /\ Kin(hyalo, r.state) /\ NotReady(r.state) /\ ~r.state.needed
      BY <1>8, <2>2
    <3>2. x = Changed(r.state)
      BY <2>1, <2>3
    <3> QED BY <3>1, <3>2, ChangedKeeps DEF Kin
  <2>4. CASE ~r.ok
    <3>1. x \in ApplyOrSafe(r.state, before)
      BY <2>1, <2>4
    <3>2. r.state \in Hyalo
      BY <2>2 DEF Moved
    <3>3. /\ Moved(r.state, x) /\ x.seen = r.state.plugged
          /\ Fits(before, r.state) /\ CleanIn(before, confirmed) => Lit(x, confirmed)
      BY <1>3, <3>1, <3>2, RestoreMoves
    <3>4. Moved(hyalo, x) /\ x.seen = hyalo.plugged
      BY <2>2, <3>3, MovedTwice DEF Moved, SameMachine
    <3>5. hyalo.gap \/ hyalo.recovery # None \/ Lit(x, confirmed)
      <4>1. CASE hyalo.seen = hyalo.plugged
        <5>1. Fits(before, r.state)
          BY <1>3, <2>2, <4>1 DEF Fits, Seen
        <5> QED BY <1>6, <3>3, <5>1
      <4>2. CASE hyalo.seen # hyalo.plugged
        BY <2>2, <3>4, <4>2 DEF Moved, Lit
      <4> QED BY <4>1, <4>2
    <3> QED BY <1>8, <3>4, <3>5
  <2> QED BY <2>2, <2>3, <2>4
<1> HIDE DEF S
<1>10. \E x \in S : hyalo'.lease = x.lease /\ x.lease = None
  BY <1>1, <1>2, <1>9, EndsKeep DEF Kin
<1> QED BY <1>1, <1>9, <1>10, EndsBooks

(***************************************************************************)
(* A preview is taken after a reconciliation: the inventory is fresh and   *)
(* nothing is kept for later.                                              *)
(***************************************************************************)
LEMMA LeaseTaken ==
  ASSUME NEW s, NEW c, Good(s, c), s.lease = None, s.lidBefore = None, s.recovery = None, s.commit = None, ~s.needed,
         NEW n \in 1 .. MaxPreviews, NEW l \in [Seen(s) -> Settings], \A o \in Seen(s) : l[o].by = n
  PROVE  LET u == [s EXCEPT !.lease = Lease(s, l, n)] IN
         /\ u \in Hyalo /\ Shape(u) /\ Kept(u, c) /\ SameMachine(s, u)
         /\ u.lease # None /\ u.lease.by = n /\ u.lease.after = l
         /\ u.seen = s.seen /\ u.commit = None /\ ~u.needed /\ u.gap = s.gap
         /\ l \in Layouts /\ Fits(l, u) /\ CleanIn(l, c \cup {n})
         /\ Fits(CurrentLayout(s), u) /\ (~s.gap => CleanIn(CurrentLayout(s), c))
<1> DEFINE w == Lease(s, l, n)
           u == [s EXCEPT !.lease = w]
           before == CurrentLayout(s)
<1>0. s \in Hyalo /\ Shape(s) /\ Kept(s, c) /\ On(s, c)
  BY DEF Good
<1>1. /\ Seen(s) \subseteq Outputs /\ l \in Layouts /\ before \in Layouts /\ DOMAIN before = Seen(s)
      /\ \A o \in Seen(s) : before[o] = s.shown[o]
  <2>1. Seen(s) \in {{"internal"}, Outputs} /\ {"internal"} \subseteq Outputs
    BY <1>0, SeenLayouts DEF Outputs
  <2> QED BY <1>0, <2>1, SeenLayouts
<1>2. ~s.gap => CleanIn(before, c)
  BY <1>0, <1>1 DEF On, OnlyBy, CleanIn
<1> HIDE DEF before
<1>3. w = [by |-> n, before |-> before, after |-> l, owner |-> "here",
           waiting |-> {o \in DOMAIN l : l[o].on}, activated |-> FALSE, expired |-> FALSE]
  BY DEF Lease, before
<1>4. {o \in DOMAIN l : l[o].on} \in SUBSET Outputs
  BY <1>1
<1>5. w \in Leases
  BY <1>1, <1>3, <1>4 DEF Leases
<1>6. w.by = n /\ w.before = before /\ w.after = l /\ w # None
  <2>1. w # None
    BY <1>5
  <2> QED BY <1>3, <2>1
<1> HIDE DEF w
<1>7. u \in Hyalo
  BY <1>0, <1>5 DEF Hyalo
<1>8. /\ SameMachine(s, u) /\ u.seen = s.seen /\ u.needed = s.needed /\ u.commit = s.commit
      /\ u.profiles = s.profiles /\ u.gap = s.gap /\ u.lease = w
      /\ u.lidBefore = s.lidBefore /\ u.recovery = s.recovery
      /\ u.config = s.config /\ u.shown = s.shown
  BY <1>0 DEF Hyalo, SameMachine
<1> HIDE DEF u
<1>9. Fits(l, u) /\ Fits(before, u) /\ CleanIn(l, c \cup {n})
  BY <1>1, <1>8 DEF Fits, Seen, CleanIn
<1>10. Shape(u)
  <2>1. u.lease # None => /\ Fits(u.lease.before, u) /\ Fits(u.lease.after, u)
                          /\ u.lease.after # Stale => \A o \in DOMAIN u.lease.after : u.lease.after[o].by = u.lease.by
                          /\ u.lidBefore = None /\ u.recovery = None
    BY <1>6, <1>8, <1>9
  <2>2. Fits(u.recovery, u) /\ Fits(u.lidBefore, u)
    BY <1>8 DEF Fits
  <2> QED BY <1>0, <1>8, <2>1, <2>2 DEF Shape, SameMachine
<1>11. Kept(u, c)
  BY <1>0, <1>2, <1>6, <1>8 DEF Kept
<1> QED BY <1>1, <1>2, <1>6, <1>7, <1>8, <1>9, <1>10, <1>11 DEF w, u, before

LEMMA PreviewedKeeps ==
  ASSUME NEW s, NEW c, Good(s, c), s.lease = None, s.lidBefore = None, s.recovery = None, s.commit = None, ~s.needed,
         s.seen = s.plugged, s.ready,
         NEW n \in 1 .. MaxPreviews, NEW l \in [Seen(s) -> Settings], \A o \in Seen(s) : l[o].by = n,
         NEW t \in Previewed(s, l, n)
  PROVE  Good(t, c) /\ NotReady(t) /\ t.commit = None /\ (t.lease # None => t.lease.by = n)
<1> DEFINE u == [s EXCEPT !.lease = Lease(s, l, n)]
           before == CurrentLayout(s)
<1>1. /\ u \in Hyalo /\ Shape(u) /\ Kept(u, c) /\ SameMachine(s, u)
      /\ u.lease # None /\ u.lease.by = n /\ u.lease.after = l
      /\ u.seen = s.seen /\ u.commit = None /\ ~u.needed /\ u.gap = s.gap
      /\ l \in Layouts /\ Fits(l, u) /\ CleanIn(l, c \cup {n})
      /\ Fits(before, u) /\ (~s.gap => CleanIn(before, c))
  BY LeaseTaken
<1>2. PICK r \in Apply(u, l) :
        t \in IF r.ok THEN {r.state} ELSE ApplyOrSafe([r.state EXCEPT !.lease = None], before)
  BY DEF Previewed
<1>3. before \in Layouts
  BY SeenLayouts DEF Good
<1> HIDE DEF u, before
<1>4. u.plugged = u.seen /\ u.ready
  BY <1>1 DEF SameMachine
<1> DEFINE v == r.state
<1>5. r.ok \in BOOLEAN /\ Moved(u, v) /\ v.seen = u.plugged
  BY <1>1, <1>2, ApplyMoves
<1>6. r.ok => OnlyBy(v, c \cup {n})
  BY <1>1, <1>2, <1>4, ApplyShows
<1>7. /\ Shape(v) /\ Kept(v, c) /\ v \in Hyalo /\ v.lease = u.lease /\ v.commit = None /\ ~v.needed
      /\ v.ready /\ v.seen = u.seen /\ v.plugged = u.plugged /\ (u.gap => v.gap)
  BY <1>1, <1>4, <1>5, MovedKeeps DEF Moved, SameMachine
<1>8. CASE r.ok
  <2>1. t = v
    BY <1>2, <1>8
  <2>2. On(v, c)
    BY <1>1, <1>3, <1>6, <1>7, <1>8, LayoutParts DEF On
  <2> QED BY <1>1, <1>7, <2>1, <2>2 DEF Good, NotReady
<1>9. CASE ~r.ok
  <2> DEFINE x == [v EXCEPT !.lease = None]
  <2>1. t \in ApplyOrSafe(x, before)
    BY <1>2, <1>9
  <2>2. /\ x \in Hyalo /\ Shape(x) /\ Kept(x, c) /\ x.lease = None /\ x.seen = v.seen /\ x.gap = v.gap
        /\ SameMachine(v, x) /\ x.commit = None
    BY <1>1, <1>7, EndedLease
  <2> HIDE DEF x
  <2>3. /\ Moved(x, t)
        /\ Fits(before, x) /\ CleanIn(before, c) => Lit(t, c)
    BY <1>3, <2>1, <2>2, RestoreMoves
  <2>4. Fits(before, x)
    BY <1>1, <1>7, <2>2 DEF Fits, Seen
  <2>5. Lit(t, c)
    <3>1. CASE s.gap
      BY <1>1, <1>7, <2>2, <2>3, <3>1 DEF Moved, Lit
    <3>2. CASE ~s.gap
      BY <1>1, <2>3, <2>4, <3>2
    <3> QED BY <3>1, <3>2
  <2>6. Good(t, c) /\ t.lease = None /\ t.commit = None /\ t.ready
    BY <1>7, <2>2, <2>3, <2>5, MovedGood DEF SameMachine
  <2> QED BY <2>6 DEF NotReady
<1> QED BY <1>5, <1>8, <1>9

LEMMA PreviewKeeps ==
  ASSUME DisplayInv, NEW e \in BOOLEAN, NEW l \in [Connected(e) -> BOOLEAN], Preview(l)
  PROVE  DisplayInv'
<1> USE DEF DisplayInv
<1> DEFINE n == previews + 1
           asked == [o \in DOMAIN l |-> [on |-> l[o], by |-> n]]
           taken(s) == IF Allowed(s) /\ s.lease = None /\ s.lidBefore = None /\ DOMAIN l = Seen(s)
                       THEN Previewed(s, asked, n) ELSE {s}
           S == Each(Reconcile(hyalo), taken)
<1>1. Answers(S) /\ disk' = disk /\ store' = store /\ confirmed' = confirmed
  BY DEF Preview
<1>2. previews' = n /\ n \in 1 .. MaxPreviews /\ previews \in 0 .. MaxPreviews
  <2>1. previews < MaxPreviews /\ previews' = previews + 1
    BY DEF Preview
  <2>2. previews \in 0 .. MaxPreviews
    BY DEF Books
  <2> QED BY <2>1, <2>2
<1>3. \A b \in BOOLEAN : [on |-> b, by |-> n] \in Settings
  BY <1>2 DEF Settings
<1>4. asked \in [DOMAIN l -> Settings] /\ \A o \in DOMAIN l : asked[o].by = n
  BY <1>3
<1> HIDE DEF asked, n
<1>5. ASSUME NEW x \in S
      PROVE  /\ Good(x, confirmed) /\ NotReady(x) /\ x.commit = hyalo.commit
             /\ x.lease # None => \/ (x.commit = None /\ x.lease.by = n)
                                  \/ (hyalo.lease # None /\ x.lease.by = hyalo.lease.by)
  <2>1. PICK s \in Reconcile(hyalo) : x \in taken(s)
    BY DEF Each
  <2>2. /\ Good(s, confirmed) /\ Frame(hyalo, s) /\ NotReady(s) /\ Dealt(s)
        /\ s.needed => s.commit # None
    BY ReconcileKeeps DEF Between
  <2> DEFINE granted == Allowed(s) /\ s.lease = None /\ s.lidBefore = None /\ DOMAIN l = Seen(s)
  <2>3. CASE ~granted
    <3>1. x = s
      BY <2>1, <2>3
    <3> QED BY <2>2, <3>1 DEF Frame
  <2>4. CASE granted
    <3>1. x \in Previewed(s, asked, n)
      BY <2>1, <2>4
    <3>2. /\ s.commit = None /\ s.ready /\ ~s.needed /\ s.recovery = None /\ s.seen = s.plugged
          /\ s.lease = None /\ s.lidBefore = None
      BY <2>2, <2>4 DEF Allowed, Dealt
    <3>3. asked \in [Seen(s) -> Settings] /\ \A o \in Seen(s) : asked[o].by = n
      BY <1>4, <2>4
    <3>4. Good(x, confirmed) /\ NotReady(x) /\ x.commit = None /\ (x.lease # None => x.lease.by = n)
      <4>1. n \in 1 .. MaxPreviews /\ Good(s, confirmed)
        BY <1>2, <2>2
      <4> HIDE DEF S, taken, granted
      <4> QED BY <3>1, <3>2, <3>3, <4>1, PreviewedKeeps
    <3> QED BY <2>2, <3>2, <3>4 DEF Frame
  <2> QED BY <2>3, <2>4
<1> HIDE DEF S
<1>6. PICK x \in S : Follows(x)
  BY <1>1, <1>5, AnswersKeep
<1>7. /\ Good(hyalo', confirmed) /\ Between(hyalo') /\ hyalo'.commit = hyalo.commit
      /\ hyalo'.lease # None => \/ (hyalo'.commit = None /\ hyalo'.lease.by = n)
                                \/ (hyalo.lease # None /\ hyalo'.lease.by = hyalo.lease.by)
  BY <1>5, <1>6 DEF Follows
<1>8. Books'
  <2>1. /\ (disk \in Profiles /\ FitsAll(disk) /\ \A e2 \in BOOLEAN : CleanIn(disk[e2], confirmed))'
        /\ store' \in {"idle", "writing", "saved", "failed"}
        /\ (store' # "idle") <=> (hyalo'.commit # None)
    BY <1>1, <1>7 DEF Books
  <2>2. previews' \in 0 .. MaxPreviews /\ confirmed' \subseteq 1 .. previews'
    BY <1>1, <1>2 DEF Books, n
  <2>3. hyalo'.lease # None => hyalo'.lease.by \in 1 .. previews'
    BY <1>2, <1>7 DEF Books, n
  <2>4. store' = "saved" => hyalo'.lease.by \in confirmed'
    <3>1. CASE store = "saved"
      <4>1. hyalo.commit # None /\ hyalo.lease.by \in confirmed
        BY <3>1 DEF Books
      <4>2. hyalo'.lease # None
        BY <1>7, <4>1 DEF Good, Shape
      <4> QED BY <1>1, <1>7, <4>1, <4>2
    <3> QED BY <1>1, <3>1
  <2> QED BY <2>1, <2>2, <2>3, <2>4 DEF Books
<1> QED BY <1>1, <1>7, <1>8

LEMMA SavingKeeps ==
  ASSUME NEW s, NEW c, Good(s, c), s.commit = None, s.lease # None, ~s.needed, s.ready
  PROVE  LET t == Saving(s) IN
         Good(t, c) /\ NotReady(t) /\ t.commit # None /\ t.lease = s.lease
<1>0. s \in Hyalo /\ Shape(s) /\ Kept(s, c) /\ On(s, c) /\ s.lease \in Leases
  BY DEF Good, Hyalo
<1> DEFINE after == s.lease.after
           k == [s.profiles EXCEPT ![s.seen] = after]
           t == [s EXCEPT !.commit = k]
<1>1. t = Saving(s)
  BY DEF Saving
<1>2. after \in Layouts /\ DOMAIN after = Seen(s) /\ \A o \in DOMAIN after : after[o].by = s.lease.by
  <2>1. after # Stale /\ after \in Layouts \cup {Stale}
    BY <1>0 DEF On, Leases
  <2>2. after \in Layouts
    BY <2>1
  <2>3. after # None
    BY <2>2, LayoutParts
  <2> QED BY <1>0, <2>1, <2>2, <2>3 DEF Shape, Fits
<1> HIDE DEF after
<1>3. s.seen \in BOOLEAN /\ s.profiles \in [BOOLEAN -> Layouts \cup {None}]
  BY <1>0 DEF Hyalo, Profiles
<1>4. k \in [BOOLEAN -> Layouts \cup {None}] /\ \A e \in BOOLEAN : k[e] = IF e = s.seen THEN after ELSE s.profiles[e]
  <2> DEFINE e0 == s.seen
  <2>1. e0 \in BOOLEAN /\ k = [s.profiles EXCEPT ![e0] = after]
    BY <1>3
  <2> HIDE DEF e0, k
  <2>2. k \in [BOOLEAN -> Layouts \cup {None}] /\ \A e \in BOOLEAN : k[e] = IF e = e0 THEN after ELSE s.profiles[e]
    BY <1>2, <1>3, <2>1
  <2> QED BY <2>2 DEF e0
<1>5. k \in Profiles /\ k # None
  BY <1>4 DEF Profiles
<1> HIDE DEF k
<1>6. t \in Hyalo
  BY <1>0, <1>5 DEF Hyalo
<1>7. /\ SameMachine(s, t) /\ t.seen = s.seen /\ t.needed = s.needed /\ t.commit = k
      /\ t.profiles = s.profiles /\ t.gap = s.gap /\ t.lease = s.lease
      /\ t.lidBefore = s.lidBefore /\ t.recovery = s.recovery
      /\ t.config = s.config /\ t.shown = s.shown
  BY <1>0 DEF Hyalo, SameMachine
<1> HIDE DEF t
<1>8. FitsAll(k)
  <2>1. \A e \in BOOLEAN : e = s.seen => DOMAIN after = Connected(e)
    BY <1>2 DEF Seen
  <2> QED BY <1>0, <1>4, <2>1 DEF FitsAll, Shape
<1>9. Shape(t)
  BY <1>0, <1>7, <1>8 DEF Shape, SameMachine, Fits, Seen
<1>10. \A e \in BOOLEAN : CleanIn(k[e], c \cup {s.lease.by})
  <2>1. CleanIn(after, c \cup {s.lease.by})
    BY <1>2 DEF CleanIn
  <2>2. \A e \in BOOLEAN : CleanIn(s.profiles[e], c \cup {s.lease.by})
    BY <1>0 DEF Kept, CleanIn
  <2> QED BY <1>4, <2>1, <2>2
<1>11. Kept(t, c)
  BY <1>0, <1>7, <1>10 DEF Kept
<1>12. On(t, c)
  BY <1>0, <1>7 DEF On, OnlyBy, Seen
<1>13. NotReady(t)
  BY <1>7 DEF NotReady, SameMachine
<1> QED BY <1>1, <1>5, <1>6, <1>7, <1>9, <1>11, <1>12, <1>13 DEF Good

LEMMA ConfirmKeeps == ASSUME DisplayInv, Confirm PROVE DisplayInv'
<1> USE DEF DisplayInv
<1>1. PICK s \in Reconcile(hyalo) :
        /\ Answers({IF Confirms(s) THEN Saving(s) ELSE s})
        /\ store' = IF Confirms(s) THEN "writing" ELSE store
  BY DEF Confirm
<1>2. disk' = disk /\ previews' = previews /\ confirmed' = confirmed
  BY DEF Confirm
<1>3. /\ Good(s, confirmed) /\ Frame(hyalo, s) /\ NotReady(s)
      /\ s.needed => s.commit # None
  BY ReconcileKeeps DEF Between
<1>4. CASE ~Confirms(s)
  <2>1. Answers({s}) /\ Elsewhere
    BY <1>1, <1>2, <1>4 DEF Elsewhere
  <2>2. Kin(hyalo, s)
    BY <1>3 DEF Frame, Kin
  <2> QED BY <1>3, <2>1, <2>2, AnswersBooks
<1>5. CASE Confirms(s)
  <2> DEFINE t == Saving(s)
  <2>1. Answers({t}) /\ store' = "writing"
    BY <1>1, <1>5
  <2>2. s.commit = None /\ s.lease # None /\ s.ready /\ ~s.needed
    BY <1>3, <1>5 DEF Confirms, Owned, Allowed
  <2>3. Good(t, confirmed) /\ NotReady(t) /\ t.commit # None /\ t.lease = s.lease
    BY <1>3, <2>2, SavingKeeps
  <2> HIDE DEF t
  <2>4. Follows(t)
    BY <2>1, <2>3, AnswersKeep
  <2>5. hyalo'.lease # None => hyalo.lease # None /\ hyalo'.lease.by = hyalo.lease.by
    BY <1>3, <2>3, <2>4 DEF Follows, Frame
  <2>6. Books'
    BY <1>2, <2>1, <2>3, <2>4, <2>5 DEF Books, Follows
  <2> QED BY <1>2, <2>4, <2>6 DEF Follows
<1> QED BY <1>4, <1>5

-----------------------------------------------------------------------------
LEMMA StutterKeeps == ASSUME DisplayInv, UNCHANGED vars PROVE DisplayInv'
<1>1. hyalo' = hyalo /\ disk' = disk /\ store' = store /\ previews' = previews /\ confirmed' = confirmed
  BY DEF vars
<1> QED BY <1>1 DEF DisplayInv, Books

LEMMA DisplayNext == DisplayInv /\ [Next]_vars => DisplayInv'
<1> SUFFICES ASSUME DisplayInv, [Next]_vars PROVE DisplayInv'
  OBVIOUS
<1>1. CASE Client
  <2>1. ASSUME NEW e \in BOOLEAN, NEW l \in [Connected(e) -> BOOLEAN], Preview(l) PROVE DisplayInv'
    BY <2>1, PreviewKeeps
  <2>2. ASSUME NEW o \in Outputs, NEW on \in BOOLEAN, LegacyApply(o, on) PROVE DisplayInv'
    BY <2>2, LegacyKeeps
  <2> QED BY <1>1, <2>1, <2>2, ConfirmKeeps, CancelKeeps, OwnerKeeps DEF Client
<1>2. CASE Machine
  <2>1. ASSUME NEW closed \in BOOLEAN, LidSays(closed) PROVE DisplayInv'
    BY <2>1, LidSaysKeeps
  <2>2. ASSUME NEW o \in Outputs, FramePresented(o) PROVE DisplayInv'
    BY <2>2, FrameKeeps
  <2>3. ASSUME NEW valid \in BOOLEAN, ConfigReload(valid) PROVE DisplayInv'
    BY <2>3, ReloadKeeps
  <2> QED BY <1>2, <2>1, <2>2, <2>3, PlugKeeps, SwitchKeeps, LidOwnerKeeps, CrashKeeps DEF Machine
<1>3. CASE Loop
  BY <1>3, LoopKeeps, OwnerKeeps, LostKeeps, DiskKeeps, SavedAnswers, LoadedKeeps DEF Loop
<1>4. CASE UNCHANGED vars
  BY <1>4, StutterKeeps
<1> QED BY <1>1, <1>2, <1>3, <1>4 DEF Next

(***************************************************************************)
(* The types hold, whatever the number of previews and failures, and a     *)
(* save is at the disk worker exactly while the preview it confirms waits. *)
(***************************************************************************)
THEOREM DisplayIsTyped == Spec => []DisplayTypeOK
<1>1. DisplayInv => DisplayTypeOK
  <2> SUFFICES ASSUME DisplayInv PROVE DisplayTypeOK
    OBVIOUS
  <2>1. hyalo \in Hyalo /\ (hyalo.commit # None => hyalo.lease # None)
    BY DEF DisplayInv, Good, Shape
  <2> QED BY <2>1 DEF DisplayTypeOK, DisplayInv, Books
<1> QED BY <1>1, DisplayInit, DisplayNext, PTL DEF Spec

(***************************************************************************)
(* With no preview pending and nothing queued, reconcile and rollback have *)
(* left nothing of an unconfirmed preview on the screens or kept for       *)
(* later, and no preview outlives an active and unlocked session.          *)
(***************************************************************************)
THEOREM DisplayLeavesNothing == Spec => []NoStrayPreview
<1>1. DisplayInv => NoStrayPreview
  <2> SUFFICES ASSUME DisplayInv, ~hyalo.gap, ~hyalo.queued, hyalo.commit = None
               PROVE  /\ hyalo.active => Tidy(hyalo)
                      /\ hyalo.lease # None => hyalo.active /\ ~hyalo.locked
    BY DEF NoStrayPreview
  <2>0. hyalo \in Hyalo /\ Shape(hyalo) /\ Kept(hyalo, confirmed) /\ On(hyalo, confirmed)
    BY DEF DisplayInv, Good
  <2>1. Dealt(hyalo) /\ NotReady(hyalo) /\ ~hyalo.needed
    BY DEF DisplayInv, Between
  <2>2. \A l \in Remembered(hyalo) : Clean(l)
    BY <2>0 DEF Kept, Remembered, Clean, CleanIn
  <2>3. ASSUME hyalo.active, hyalo.lease = None PROVE Clean(Shown(hyalo))
    <3>1. \A o \in Present(hyalo) : hyalo.shown[o].by \in {0} \cup confirmed
      <4>1. CASE hyalo.ready
        <5>1. Seen(hyalo) = Present(hyalo) /\ hyalo.recovery = None
          BY <2>1, <2>3, <4>1 DEF Dealt, Seen, Present
        <5> QED BY <2>0, <2>1, <2>3, <5>1 DEF On, OnlyBy
      <4>2. CASE ~hyalo.ready
        <5>1. Present(hyalo) \subseteq Outputs
          BY DEF Present, Connected, Outputs
        <5> QED BY <2>1, <4>2, <5>1 DEF NotReady
      <4> QED BY <4>1, <4>2
    <3> QED BY <3>1 DEF Clean, Shown
  <2> QED BY <2>1, <2>2, <2>3 DEF Tidy, Dealt
<1> QED BY <1>1, DisplayInit, DisplayNext, PTL DEF Spec

-----------------------------------------------------------------------------
(***************************************************************************)
(* What PreviewEnds rests on: a preview that no confirmation waits for has *)
(* the timer that takes it back.  Every end of a handler that may leave    *)
(* one sets the timer; the others leave none.                              *)
(***************************************************************************)
PreviewTimed == hyalo.lease # None /\ hyalo.commit = None => hyalo.armed

LEMMA ArmTimes ==
  ASSUME NEW t, Arm(t) \in Hyalo
  PROVE  Arm(t).armed = (Arm(t).lease # None /\ Arm(t).commit = None)
<1> DEFINE a == t.lease # None /\ t.commit = None
           x == [t EXCEPT !.armed = a]
<1>1. x = Arm(t)
  BY DEF Arm
<1> HIDE DEF a
<1>2. DOMAIN x = DOMAIN t
  OBVIOUS
<1>3. {"armed", "lease", "commit"} \subseteq DOMAIN x
  BY <1>1 DEF Hyalo
<1>4. x.armed = a /\ x.lease = t.lease /\ x.commit = t.commit
  BY <1>2, <1>3
<1> QED BY <1>1, <1>4 DEF a

LEMMA EndsTimed ==
  ASSUME NEW T, hyalo' \in Hyalo, Ends({Arm(t) : t \in T})
  PROVE  PreviewTimed'
<1>1. PICK t \in T : hyalo' = [Arm(t) EXCEPT !.gap = Arm(t).gap /\ ~Closes(Arm(t))]
  BY DEF Ends
<1> DEFINE y == Arm(t)
           g == y.gap /\ ~Closes(y)
<1>2. hyalo' = [y EXCEPT !.gap = g]
  BY <1>1
<1> HIDE DEF g
<1> DEFINE a == t.lease # None /\ t.commit = None
<1>3. y = [t EXCEPT !.armed = a]
  BY DEF Arm
<1> HIDE DEF y, a
<1>4. DOMAIN hyalo' = DOMAIN y /\ DOMAIN y = DOMAIN t
  BY <1>2, <1>3
<1>5. {"armed", "lease", "commit"} \subseteq DOMAIN t
  <2>1. {"armed", "lease", "commit"} \subseteq DOMAIN hyalo'
    BY DEF Hyalo
  <2> QED BY <1>4, <2>1
<1>6. y.armed = a /\ y.lease = t.lease /\ y.commit = t.commit
  BY <1>3, <1>5
<1>7. hyalo'.armed = y.armed /\ hyalo'.lease = y.lease /\ hyalo'.commit = y.commit
  BY <1>2, <1>4, <1>5
<1> QED BY <1>6, <1>7 DEF PreviewTimed, a

LEMMA TouchTimed ==
  ASSUME hyalo \in Hyalo, PreviewTimed, NEW o,
         DeadlinePasses \/ ClientDies \/ FramePresented(o)
  PROVE  PreviewTimed'
<1>0. hyalo.lease # None /\ hyalo.lease \in Leases
  BY DEF Hyalo, DeadlinePasses, ClientDies, FramePresented
<1>1. ASSUME NEW w, hyalo' = [hyalo EXCEPT !.lease = w] PROVE PreviewTimed'
  <2>1. hyalo'.armed = hyalo.armed /\ hyalo'.commit = hyalo.commit
    BY <1>1 DEF Hyalo
  <2> QED BY <1>0, <2>1 DEF PreviewTimed
<1>2. ASSUME NEW w \in Leases, hyalo' = Arm([hyalo EXCEPT !.lease = w]) PROVE PreviewTimed'
  <2> DEFINE t == [hyalo EXCEPT !.lease = w]
  <2>1. t \in Hyalo
    BY DEF Hyalo
  <2> HIDE DEF t
  <2>2. Arm(t) \in Hyalo
    BY <2>1, ArmParts
  <2>3. hyalo' = Arm(t)
    BY <1>2 DEF t
  <2> QED BY <2>2, <2>3, ArmTimes DEF PreviewTimed
<1>3. CASE DeadlinePasses \/ ClientDies
  BY <1>1, <1>3 DEF DeadlinePasses, ClientDies
<1>4. CASE FramePresented(o)
  <2> DEFINE v == [hyalo.lease EXCEPT !.waiting = hyalo.lease.waiting \ {o}]
             w == [[v EXCEPT !.activated = TRUE] EXCEPT !.expired = FALSE]
  <2>1. hyalo' \in {[hyalo EXCEPT !.lease = v], Arm([hyalo EXCEPT !.lease = w])}
    BY <1>4 DEF FramePresented
  <2>2. w \in Leases
    BY <1>0 DEF Leases
  <2> HIDE DEF v, w
  <2> QED BY <1>1, <1>2, <2>1, <2>2
<1> QED BY <1>3, <1>4

LEMMA PlugTimed ==
  ASSUME hyalo \in Hyalo, Plug \/ SwitchVT \/ LockChanges
  PROVE  /\ hyalo'.armed = hyalo.armed /\ hyalo'.commit = hyalo.commit
         /\ hyalo'.lease = hyalo.lease
<1>1. CASE Plug
  BY <1>1 DEF Plug, Changed, Hyalo
<1>2. CASE SwitchVT \/ LockChanges
  BY <1>2 DEF SwitchVT, LockChanges, Changed, Hyalo
<1> QED BY <1>1, <1>2

LEMMA TimedKeeps == DisplayInv /\ DisplayInv' /\ PreviewTimed /\ [Next]_vars => PreviewTimed'
<1> SUFFICES ASSUME DisplayInv, DisplayInv', PreviewTimed, [Next]_vars PROVE PreviewTimed'
  OBVIOUS
<1>0. hyalo \in Hyalo /\ hyalo' \in Hyalo
  BY DEF DisplayInv, Good
<1>1. \A S : Answers(S) => PreviewTimed'
  BY <1>0, EndsTimed DEF Answers
<1>2. hyalo'.lease = None \/ hyalo'.commit # None => PreviewTimed'
  BY DEF PreviewTimed
<1>3. ASSUME hyalo'.armed = hyalo.armed, hyalo'.commit = hyalo.commit, hyalo'.lease = None <=> hyalo.lease = None
      PROVE  PreviewTimed'
  BY <1>3 DEF PreviewTimed
<1>4. CASE Client
  <2>1. ASSUME NEW e \in BOOLEAN, NEW l \in [Connected(e) -> BOOLEAN], Preview(l) PROVE PreviewTimed'
    BY <1>1, <2>1 DEF Preview
  <2>2. ASSUME NEW o \in Outputs, NEW on \in BOOLEAN, LegacyApply(o, on) PROVE PreviewTimed'
    BY <1>2, <2>2, LegacyKeeps
  <2>3. CASE Confirm \/ Cancel
    BY <1>1, <2>3 DEF Confirm, Cancel
  <2>4. CASE ClientDies
    BY <1>0, <2>4, TouchTimed
  <2> QED BY <1>4, <2>1, <2>2, <2>3, <2>4 DEF Client
<1>5. CASE Machine
  <2>1. CASE Plug
    BY <1>0, <1>3, <2>1, PlugTimed
  <2>2. CASE SwitchVT \/ LockChanges
    BY <1>0, <1>3, <2>2, PlugTimed
  <2>3. CASE LidOwnerLost
    BY <1>1, <2>3 DEF LidOwnerLost
  <2>4. CASE Crash
    BY <1>2, <2>4 DEF Crash, Started
  <2>5. ASSUME NEW closed \in BOOLEAN, LidSays(closed) PROVE PreviewTimed'
    BY <1>1, <2>5 DEF LidSays
  <2>6. ASSUME NEW o \in Outputs, FramePresented(o) PROVE PreviewTimed'
    BY <1>0, <2>6, TouchTimed
  <2>7. ASSUME NEW valid \in BOOLEAN, ConfigReload(valid) PROVE PreviewTimed'
    BY <1>2, <2>7, ReloadKeeps
  <2> QED BY <1>5, <2>1, <2>2, <2>3, <2>4, <2>5, <2>6, <2>7 DEF Machine
<1>6. CASE Loop
  <2>1. CASE Idle \/ TimerFires
    BY <1>0, <2>1, EndsTimed DEF Idle, TimerFires
  <2>2. CASE DeadlinePasses
    BY <1>0, <2>2, TouchTimed
  <2>3. CASE OwnerLost \/ Saved \/ Loaded
    BY <1>1, <2>3 DEF OwnerLost, Saved, Loaded
  <2>4. CASE DiskWrites
    BY <1>3, <2>4 DEF DiskWrites
  <2> QED BY <1>6, <2>1, <2>2, <2>3, <2>4 DEF Loop
<1>7. CASE UNCHANGED vars
  BY <1>3, <1>7 DEF vars
<1> QED BY <1>4, <1>5, <1>6, <1>7 DEF Next

(***************************************************************************)
(* A preview always has an end of its own: while no confirmation of it is  *)
(* being saved its timer is set, whatever reconciled, failed, was          *)
(* presented or answered in between (display.rs, arm_lease_timer).         *)
(***************************************************************************)
THEOREM PreviewHasItsTimer == Spec => []PreviewTimed
<1>1. Init => PreviewTimed
  BY DEF Init, Started, PreviewTimed
<1>2. DisplayInv /\ PreviewTimed /\ [Next]_vars => DisplayInv' /\ PreviewTimed'
  BY DisplayNext, TimedKeeps
<1> QED BY <1>1, <1>2, DisplayInit, PTL DEF Spec
=============================================================================
