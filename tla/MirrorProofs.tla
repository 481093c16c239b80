---------------------------- MODULE MirrorProofs ----------------------------
(***************************************************************************)
(* Proofs about NotificationMirror, for any ids, any shapes and any number *)
(* of notifications, restarts and messages on the way.                     *)
(***************************************************************************)
EXTENDS NotificationMirror, NotificationsProofs

-----------------------------------------------------------------------------
(***************************************************************************)
(* Replaying the buffered signals on a roster: for each id the last one    *)
(* tells, and the roster where none does.                                  *)
(***************************************************************************)
Rosters == [Ids -> 0 .. MaxNotify]
Events ==
  {e \in [type : {"notified", "resolved"}, life : 1 .. MaxLives, id : Ids, version : 0 .. MaxNotify] :
     e.type = "resolved" <=> e.version = 0}

Replayed(m, p) == FoldLeft(Apply, m, p)

Happened(p, s, id) == {i \in s : p[i].id = id}
LastOf(m, p, s) ==
  [id \in Ids |-> IF Happened(p, s, id) = {} THEN m[id] ELSE p[Max(Happened(p, s, id))].version]

(* A set of indexes that has an element has a greatest one. *)
LEMMA MaxOf ==
  ASSUME NEW n \in Nat, NEW s \in SUBSET (1 .. n), s # {}
  PROVE  Max(s) \in s /\ \A y \in s : Max(s) >= y
<1> DEFINE T == {n - x : x \in s}
<1>1. T \in SUBSET Nat /\ T # {}
  <2>1. \A x \in s : n - x \in Nat
    OBVIOUS
  <2> QED BY <2>1
<1>2. PICK t \in T : \A u \in T : t <= u
  <2> HIDE DEF T
  <2> QED BY <1>1, LeastExists
<1>3. PICK x \in s : t = n - x
  BY <1>2
<1>4. \A y \in s : n - x <= n - y
  BY <1>2, <1>3
<1>5. \A y \in s : x >= y
  BY <1>4
<1> QED BY <1>5 DEF Max

(* It is enough to know the greatest element by its property. *)
LEMMA MaxIs ==
  ASSUME NEW n \in Nat, NEW s \in SUBSET (1 .. n), NEW x \in s, \A y \in s : x >= y
  PROVE  Max(s) = x
<1>1. Max(s) \in s /\ Max(s) >= x
  BY MaxOf
<1>2. x >= Max(s) /\ Max(s) \in 1 .. n /\ x \in 1 .. n
  BY <1>1
<1> HIDE DEF Max
<1> QED BY <1>1, <1>2

LEMMA LastOfTyped ==
  ASSUME NEW m \in Rosters, NEW p \in Seq(Events), NEW s \in SUBSET DOMAIN p
  PROVE  LastOf(m, p, s) \in Rosters
<1>1. ASSUME NEW id \in Ids, Happened(p, s, id) # {}
      PROVE  p[Max(Happened(p, s, id))].version \in 0 .. MaxNotify
  <2>1. DOMAIN p = 1 .. Len(p) /\ Len(p) \in Nat /\ Happened(p, s, id) \in SUBSET (1 .. Len(p))
    BY DEF Happened
  <2>2. Max(Happened(p, s, id)) \in DOMAIN p
    BY <1>1, <2>1, MaxOf
  <2> QED BY <2>2 DEF Events
<1> QED BY <1>1 DEF LastOf, Rosters

LEMMA LastOfNone == ASSUME NEW m \in Rosters, NEW p PROVE LastOf(m, p, {}) = m
BY DEF LastOf, Happened, Rosters

LEMMA LastOfOne ==
  ASSUME NEW m \in Rosters, NEW p \in Seq(Events), NEW s \in SUBSET DOMAIN p, NEW x \in s, \A y \in s : x >= y
  PROVE  LastOf(m, p, s) = Apply(LastOf(m, p, s \ {x}), p[x])
<1>0. DOMAIN p = 1 .. Len(p) /\ Len(p) \in Nat /\ p[x] \in Events /\ p[x].id \in Ids
  BY DEF Events
<1> DEFINE e == p[x]
           old == LastOf(m, p, s \ {x})
<1>1. old = [id \in Ids |-> IF Happened(p, s \ {x}, id) = {} THEN m[id] ELSE p[Max(Happened(p, s \ {x}, id))].version]
  BY DEF LastOf
<1>2. ASSUME NEW id \in Ids
      PROVE  LastOf(m, p, s)[id] = IF id = e.id THEN e.version ELSE old[id]
  <2>1. CASE id = e.id
    <3>1. x \in Happened(p, s, id) /\ Happened(p, s, id) \in SUBSET (1 .. Len(p))
          /\ \A y \in Happened(p, s, id) : x >= y
      BY <1>0, <2>1 DEF Happened
    <3>2. Max(Happened(p, s, id)) = x
      BY <1>0, <3>1, MaxIs
    <3> QED BY <2>1, <3>1, <3>2 DEF LastOf
  <2>2. CASE id # e.id
    <3>1. Happened(p, s, id) = Happened(p, s \ {x}, id)
      BY <2>2 DEF Happened
    <3> QED BY <2>2, <3>1 DEF LastOf
  <2> QED BY <2>1, <2>2
<1>3. Apply(old, e) = [id \in Ids |-> IF id = e.id THEN e.version ELSE old[id]]
  BY <1>0, <1>1 DEF Apply
<1>4. LastOf(m, p, s) = [id \in Ids |-> LastOf(m, p, s)[id]]
  BY DEF LastOf
<1> HIDE DEF old, e
<1> QED BY <1>2, <1>3, <1>4 DEF old, e

Iter(m, p) ==
  CHOOSE f : f = [s \in SUBSET DOMAIN p |-> IF s = {} THEN m ELSE Apply(f[s \ {Max(s)}], p[Max(s)])]

LEMMA IterExists ==
  ASSUME NEW m \in Rosters, NEW p \in Seq(Events)
  PROVE  /\ Iter(m, p) = [s \in SUBSET DOMAIN p |->
                            IF s = {} THEN m ELSE Apply(Iter(m, p)[s \ {Max(s)}], p[Max(s)])]
         /\ Replayed(m, p) = Iter(m, p)[DOMAIN p]
<1> DEFINE g == [s \in SUBSET DOMAIN p |-> LastOf(m, p, s)]
<1>1. ASSUME NEW s \in SUBSET DOMAIN p
      PROVE  g[s] = IF s = {} THEN m ELSE Apply(g[s \ {Max(s)}], p[Max(s)])
  <2>1. CASE s = {}
    BY <2>1, LastOfNone
  <2>2. CASE s # {}
    <3>1. DOMAIN p = 1 .. Len(p) /\ Len(p) \in Nat
      OBVIOUS
    <3>2. Max(s) \in s /\ \A y \in s : Max(s) >= y
      BY <2>2, <3>1, MaxOf
    <3>3. g[s] = LastOf(m, p, s) /\ g[s \ {Max(s)}] = LastOf(m, p, s \ {Max(s)})
      OBVIOUS
    <3> QED BY <2>2, <3>2, <3>3, LastOfOne
  <2> QED BY <2>1, <2>2
<1>2. g = [s \in SUBSET DOMAIN p |-> IF s = {} THEN m ELSE Apply(g[s \ {Max(s)}], p[Max(s)])]
  <2>1. g = [s \in SUBSET DOMAIN p |-> g[s]]
    OBVIOUS
  <2> HIDE DEF g
  <2> QED BY <1>1, <2>1
<1> HIDE DEF g
<1>3. \E f : f = [s \in SUBSET DOMAIN p |-> IF s = {} THEN m ELSE Apply(f[s \ {Max(s)}], p[Max(s)])]
  BY <1>2
<1>4. Iter(m, p) = [s \in SUBSET DOMAIN p |-> IF s = {} THEN m ELSE Apply(Iter(m, p)[s \ {Max(s)}], p[Max(s)])]
  BY <1>3 DEF Iter
<1>5. Replayed(m, p) = Iter(m, p)[DOMAIN p]
  BY DEF Replayed, FoldLeft, MapThenFoldSet, Iter
<1> QED BY <1>4, <1>5

(* So the fold is what its last events say. *)
LEMMA ReplayedIs ==
  ASSUME NEW m \in Rosters, NEW p \in Seq(Events)
  PROVE  Replayed(m, p) = LastOf(m, p, DOMAIN p)
<1> DEFINE f == Iter(m, p)
           Bad == {n \in 0 .. Len(p) : f[1 .. n] # LastOf(m, p, 1 .. n)}
<1>0. DOMAIN p = 1 .. Len(p) /\ Len(p) \in Nat
  OBVIOUS
<1>1. f = [s \in SUBSET DOMAIN p |-> IF s = {} THEN m ELSE Apply(f[s \ {Max(s)}], p[Max(s)])]
  BY IterExists
<1> HIDE DEF f
<1>2. Bad = {}
  <2>1. SUFFICES ASSUME Bad # {} PROVE FALSE
    OBVIOUS
  <2>2. Bad \in SUBSET Nat
    BY <1>0
  <2>3. PICK n \in Bad : \A k \in Bad : n <= k
    <3> HIDE DEF Bad
    <3> QED BY <2>1, <2>2, LeastExists
  <2>4. n \in 0 .. Len(p) /\ f[1 .. n] # LastOf(m, p, 1 .. n)
    OBVIOUS
  <2>5. CASE n = 0
    <3>1. 1 .. n = {}
      BY <2>5
    <3>2. f[{}] = m
      BY <1>1
    <3> QED BY <2>4, <3>1, <3>2, LastOfNone
  <2>6. CASE n # 0
    <3>1. n - 1 \in 0 .. Len(p) /\ n - 1 \notin Bad
      BY <1>0, <2>3, <2>4, <2>6
    <3>2. f[1 .. n - 1] = LastOf(m, p, 1 .. n - 1)
      BY <3>1
    <3>3. n \in 1 .. n /\ 1 .. n \in SUBSET DOMAIN p /\ n \in Nat /\ \A y \in 1 .. n : n >= y
      BY <1>0, <2>4, <2>6
    <3>4. Max(1 .. n) = n
      BY <3>3, MaxIs
    <3>5. (1 .. n) \ {n} = 1 .. n - 1
      BY <2>4, <2>6
    <3>6. f[1 .. n] = Apply(f[1 .. n - 1], p[n])
      BY <1>1, <3>3, <3>4, <3>5
    <3>7. LastOf(m, p, 1 .. n) = Apply(LastOf(m, p, 1 .. n - 1), p[n])
      BY <3>3, <3>5, LastOfOne
    <3> QED BY <2>4, <3>2, <3>6, <3>7
  <2> QED BY <2>5, <2>6
<1>3. f[1 .. Len(p)] = LastOf(m, p, 1 .. Len(p))
  BY <1>0, <1>2
<1> QED BY <1>0, <1>3, IterExists DEF f

LEMMA ReplayedTyped ==
  ASSUME NEW m \in Rosters, NEW p \in Seq(Events)
  PROVE  Replayed(m, p) \in Rosters
BY ReplayedIs, LastOfTyped

LEMMA ReplayedNone == ASSUME NEW m \in Rosters PROVE Replayed(m, <<>>) = m
<1>1. <<>> \in Seq(Events) /\ DOMAIN <<>> = {}
  OBVIOUS
<1> QED BY <1>1, ReplayedIs, LastOfNone

LEMMA ReplayedOne ==
  ASSUME NEW m \in Rosters, NEW p \in Seq(Events), NEW e \in Events
  PROVE  Replayed(m, Append(p, e)) = Apply(Replayed(m, p), e)
<1> DEFINE q == Append(p, e)
           n == Len(p) + 1
<1>1. /\ q \in Seq(Events) /\ DOMAIN q = 1 .. n /\ DOMAIN p = 1 .. Len(p) /\ n \in Nat /\ n \in DOMAIN q
      /\ q[n] = e /\ (DOMAIN q) \ {n} = DOMAIN p /\ \A y \in DOMAIN q : n >= y
      /\ \A i \in DOMAIN p : q[i] = p[i]
  <2>1. q \in Seq(Events) /\ Len(q) = n /\ Len(p) \in Nat /\ DOMAIN p = 1 .. Len(p) /\ q[n] = e
    OBVIOUS
  <2>2. \A i \in DOMAIN p : q[i] = p[i]
    OBVIOUS
  <2>3. DOMAIN q = 1 .. Len(q)
    BY <2>1
  <2> HIDE DEF q
  <2> QED BY <2>1, <2>2, <2>3
<1> HIDE DEF q, n
<1>2. \A id \in Ids : Happened(q, DOMAIN p, id) = Happened(p, DOMAIN p, id)
  BY <1>1 DEF Happened
<1>3. ASSUME NEW id \in Ids
      PROVE  LastOf(m, q, DOMAIN p)[id] = LastOf(m, p, DOMAIN p)[id]
  <2>1. CASE Happened(p, DOMAIN p, id) = {}
    BY <1>2, <2>1 DEF LastOf
  <2>2. CASE Happened(p, DOMAIN p, id) # {}
    <3>1. Max(Happened(p, DOMAIN p, id)) \in DOMAIN p
      <4>1. Happened(p, DOMAIN p, id) \in SUBSET (1 .. Len(p))
        BY <1>1 DEF Happened
      <4>2. Len(p) \in Nat
        OBVIOUS
      <4>3. Max(Happened(p, DOMAIN p, id)) \in Happened(p, DOMAIN p, id)
        BY <2>2, <4>1, <4>2, MaxOf
      <4> QED BY <1>1, <4>1, <4>3
    <3> QED BY <1>1, <1>2, <2>2, <3>1 DEF LastOf
  <2> QED BY <2>1, <2>2
<1>4. LastOf(m, q, DOMAIN p) = LastOf(m, p, DOMAIN p)
  BY <1>3 DEF LastOf
<1>5. LastOf(m, q, DOMAIN q) = Apply(LastOf(m, q, (DOMAIN q) \ {n}), q[n])
  BY <1>1, LastOfOne
<1>6. Replayed(m, q) = Apply(Replayed(m, p), e)
  BY <1>1, <1>4, <1>5, ReplayedIs
<1> QED BY <1>6 DEF q

-----------------------------------------------------------------------------
(***************************************************************************)
(* What is on the way.  A signal counts if it is of the life l; an id is   *)
(* Silent in a queue that has no signal of it.                             *)
(***************************************************************************)
Owners == [type : {"owner"}, life : 0 .. MaxLives]
Lists == [type : {"list"}, gen : Nat, roster : Rosters]
Messages == Events \cup Owners \cup Lists

IsSignal(e, l) == e.type \in {"notified", "resolved"} /\ e.life = l
Silent(q, id, l) == \A i \in DOMAIN q : ~(IsSignal(q[i], l) /\ q[i].id = id)
Newest(q, i, l) == \A j \in DOMAIN q : j > i => ~(IsSignal(q[j], l) /\ q[j].id = q[i].id)

\* The newest signal of an id says what the roster R has.
Latest(q, R, l) ==
  \A i \in DOMAIN q : IsSignal(q[i], l) /\ Newest(q, i, l) => q[i].version = R[q[i].id]

\* The roster m is R but for what the queue will tell.
UpToDate(m, q, R, l) == \A id \in Ids : Silent(q, id, l) => m[id] = R[id]

\* The buffer p takes nothing from a roster that is right already.
Replayable(p, q, R, l) ==
  \A m \in Rosters, id \in Ids : Silent(q, id, l) /\ m[id] = R[id] => Replayed(m, p)[id] = R[id]

LEMMA MessageParts ==
  ASSUME NEW e \in Messages
  PROVE  /\ e.type \in {"notified", "resolved"} => e \in Events
         /\ e.type = "owner" => e \in Owners
         /\ e.type = "list" => e \in Lists
         /\ e.type \in {"notified", "resolved", "owner", "list"}
         /\ \A l : IsSignal(e, l) => e \in Events /\ e.id \in Ids /\ e.version \in 0 .. MaxNotify
BY DEF Messages, Events, Owners, Lists, IsSignal

LEMMA Appended ==
  ASSUME NEW S, NEW q \in Seq(S), NEW e \in S
  PROVE  /\ Append(q, e) \in Seq(S) /\ Len(q) \in Nat /\ Len(Append(q, e)) = Len(q) + 1
         /\ DOMAIN q = 1 .. Len(q) /\ DOMAIN Append(q, e) = 1 .. Len(q) + 1
         /\ Append(q, e)[Len(q) + 1] = e
         /\ \A i \in DOMAIN q : Append(q, e)[i] = q[i] /\ i \in DOMAIN Append(q, e)
<1>1. Append(q, e) \in Seq(S) /\ Len(q) \in Nat /\ Len(Append(q, e)) = Len(q) + 1 /\ DOMAIN q = 1 .. Len(q)
  OBVIOUS
<1>2. DOMAIN Append(q, e) = 1 .. Len(Append(q, e))
  BY <1>1
<1>3. Append(q, e)[Len(q) + 1] = e /\ \A i \in DOMAIN q : Append(q, e)[i] = q[i]
  OBVIOUS
<1> QED BY <1>1, <1>2, <1>3

LEMMA Tailed ==
  ASSUME NEW S, NEW q \in Seq(S), q # <<>>
  PROVE  /\ Tail(q) \in Seq(S) /\ Len(q) \in Nat /\ Len(q) > 0 /\ Len(Tail(q)) = Len(q) - 1
         /\ DOMAIN q = 1 .. Len(q) /\ DOMAIN Tail(q) = 1 .. Len(q) - 1
         /\ Head(q) = q[1] /\ 1 \in DOMAIN q /\ q[1] \in S
         /\ \A i \in DOMAIN Tail(q) : Tail(q)[i] = q[i + 1] /\ i + 1 \in DOMAIN q
<1>1. Tail(q) \in Seq(S) /\ Len(q) \in Nat /\ Len(q) > 0 /\ Len(Tail(q)) = Len(q) - 1 /\ DOMAIN q = 1 .. Len(q)
  OBVIOUS
<1>2. DOMAIN Tail(q) = 1 .. Len(q) - 1
  BY <1>1
<1>3. Head(q) = q[1] /\ 1 \in DOMAIN q /\ q[1] \in S
  BY <1>1
<1>4. \A i \in DOMAIN Tail(q) : Tail(q)[i] = q[i + 1] /\ i + 1 \in DOMAIN q
  BY <1>1, <1>2
<1> QED BY <1>1, <1>2, <1>3, <1>4

LEMMA SilentAppend ==
  ASSUME NEW q \in Seq(Messages), NEW e \in Messages, NEW id, NEW l
  PROVE  Silent(Append(q, e), id, l) <=> Silent(q, id, l) /\ ~(IsSignal(e, l) /\ e.id = id)
<1> DEFINE r == Append(q, e)
           n == Len(q) + 1
<1>1. /\ n \in DOMAIN r /\ r[n] = e /\ \A i \in DOMAIN q : r[i] = q[i] /\ i \in DOMAIN r
      /\ \A i \in DOMAIN r : i \in DOMAIN q \/ i = n
  BY Appended
<1> HIDE DEF r, n
<1>2. Silent(r, id, l) <=> Silent(q, id, l) /\ ~(IsSignal(e, l) /\ e.id = id)
  BY <1>1 DEF Silent
<1> QED BY <1>2 DEF r

LEMMA SilentTail ==
  ASSUME NEW q \in Seq(Messages), q # <<>>, NEW id, NEW l
  PROVE  Silent(q, id, l) <=> Silent(Tail(q), id, l) /\ ~(IsSignal(q[1], l) /\ q[1].id = id)
<1> DEFINE r == Tail(q)
<1>1. /\ \A i \in DOMAIN r : r[i] = q[i + 1] /\ i + 1 \in DOMAIN q
      /\ \A i \in DOMAIN q : i = 1 \/ (i - 1 \in DOMAIN r /\ r[i - 1] = q[i])
      /\ 1 \in DOMAIN q
  <2>1. /\ Len(q) \in Nat /\ DOMAIN q = 1 .. Len(q) /\ DOMAIN r = 1 .. Len(q) - 1
        /\ 1 \in DOMAIN q /\ \A i \in DOMAIN r : r[i] = q[i + 1] /\ i + 1 \in DOMAIN q
    BY Tailed
  <2> HIDE DEF r
  <2>2. \A i \in DOMAIN q : i = 1 \/ (i - 1 \in DOMAIN r /\ r[i - 1] = q[i])
    BY <2>1
  <2> QED BY <2>1, <2>2
<1> HIDE DEF r
<1>2. Silent(q, id, l) <=> Silent(r, id, l) /\ ~(IsSignal(q[1], l) /\ q[1].id = id)
  BY <1>1 DEF Silent
<1> QED BY <1>2 DEF r

LEMMA LatestAppend ==
  ASSUME NEW q \in Seq(Messages), NEW e \in Messages, NEW R \in Rosters, NEW l, Latest(q, R, l)
  PROVE  /\ IsSignal(e, l) => Latest(Append(q, e), [R EXCEPT ![e.id] = e.version], l)
         /\ ~IsSignal(e, l) => Latest(Append(q, e), R, l)
<1> DEFINE r == Append(q, e)
           n == Len(q) + 1
<1>1. /\ n \in DOMAIN r /\ r[n] = e /\ \A i \in DOMAIN q : r[i] = q[i] /\ i \in DOMAIN r /\ n > i
      /\ \A i \in DOMAIN r : i \in DOMAIN q \/ i = n
  BY Appended
<1> HIDE DEF r, n
<1>2. ASSUME NEW i \in DOMAIN q, Newest(r, i, l)
      PROVE  Newest(q, i, l) /\ (IsSignal(e, l) => e.id # q[i].id)
  <2>1. r[i] = q[i] /\ n > i /\ n \in DOMAIN r
    BY <1>1
  <2> QED BY <1>1, <1>2, <2>1 DEF Newest
<1>3. \A i \in DOMAIN q : IsSignal(q[i], l) => q[i].id \in Ids
  <2>1. \A i \in DOMAIN q : q[i] \in Messages
    OBVIOUS
  <2> QED BY <2>1, MessageParts
<1>4. IsSignal(e, l) => Latest(r, [R EXCEPT ![e.id] = e.version], l)
  <2> SUFFICES ASSUME IsSignal(e, l), NEW i \in DOMAIN r, IsSignal(r[i], l), Newest(r, i, l)
               PROVE  r[i].version = [R EXCEPT ![e.id] = e.version][r[i].id]
    BY DEF Latest
  <2>1. e.id \in Ids /\ DOMAIN R = Ids
    BY MessageParts DEF Rosters
  <2>2. CASE i = n
    BY <1>1, <2>1, <2>2
  <2>3. CASE i \in DOMAIN q
    <3>1. r[i] = q[i] /\ Newest(q, i, l) /\ e.id # q[i].id /\ q[i].id \in Ids
      BY <1>1, <1>2, <1>3, <2>3
    <3>2. q[i].version = R[q[i].id]
      BY <2>3, <3>1 DEF Latest
    <3> QED BY <2>1, <3>1, <3>2
  <2> QED BY <1>1, <2>2, <2>3
<1>5. ~IsSignal(e, l) => Latest(r, R, l)
  <2> SUFFICES ASSUME ~IsSignal(e, l), NEW i \in DOMAIN r, IsSignal(r[i], l), Newest(r, i, l)
               PROVE  r[i].version = R[r[i].id]
    BY DEF Latest
  <2>1. i \in DOMAIN q /\ r[i] = q[i]
    BY <1>1
  <2> QED BY <1>2, <2>1 DEF Latest
<1> QED BY <1>4, <1>5 DEF r

LEMMA LatestTail ==
  ASSUME NEW q \in Seq(Messages), q # <<>>, NEW R, NEW l, Latest(q, R, l)
  PROVE  /\ Latest(Tail(q), R, l)
         /\ IsSignal(q[1], l) /\ Silent(Tail(q), q[1].id, l) => q[1].version = R[q[1].id]
<1> DEFINE r == Tail(q)
<1>1. /\ Len(q) \in Nat /\ DOMAIN q = 1 .. Len(q) /\ DOMAIN r = 1 .. Len(q) - 1
      /\ 1 \in DOMAIN q /\ \A i \in DOMAIN r : r[i] = q[i + 1] /\ i + 1 \in DOMAIN q
  BY Tailed
<1> HIDE DEF r
<1>2. \A i \in DOMAIN q : i = 1 \/ (i - 1 \in DOMAIN r /\ r[i - 1] = q[i])
  BY <1>1
<1>3. ASSUME NEW i \in DOMAIN r, Newest(r, i, l) PROVE Newest(q, i + 1, l)
  <2> SUFFICES ASSUME NEW j \in DOMAIN q, j > i + 1 PROVE ~(IsSignal(q[j], l) /\ q[j].id = q[i + 1].id)
    BY DEF Newest
  <2>1. j - 1 \in DOMAIN r /\ r[j - 1] = q[j] /\ j - 1 > i /\ r[i] = q[i + 1]
    BY <1>1, <1>2
  <2> QED BY <1>3, <2>1 DEF Newest
<1>4. Latest(r, R, l)
  BY <1>1, <1>3 DEF Latest
<1>5. ASSUME IsSignal(q[1], l), Silent(r, q[1].id, l) PROVE q[1].version = R[q[1].id]
  <2>1. Newest(q, 1, l)
    <3> SUFFICES ASSUME NEW j \in DOMAIN q, j > 1 PROVE ~(IsSignal(q[j], l) /\ q[j].id = q[1].id)
      BY DEF Newest
    <3>1. j - 1 \in DOMAIN r /\ r[j - 1] = q[j]
      BY <1>1, <1>2
    <3> QED BY <1>5, <3>1 DEF Silent
  <2> QED BY <1>1, <1>5, <2>1 DEF Latest
<1> QED BY <1>4, <1>5 DEF r

(* What the server's next signal, or any other message, leaves of the three. *)
LEMMA KeptByAppend ==
  ASSUME NEW q \in Seq(Messages), NEW e \in Messages, NEW R \in Rosters, NEW l, IsSignal(e, l)
  PROVE  LET S == [R EXCEPT ![e.id] = e.version] IN
         /\ \A m \in Rosters : UpToDate(m, q, R, l) => UpToDate(m, Append(q, e), S, l)
         /\ \A p \in Seq(Events) : Replayable(p, q, R, l) => Replayable(p, Append(q, e), S, l)
<1> DEFINE S == [R EXCEPT ![e.id] = e.version]
<1>1. e.id \in Ids /\ \A id \in Ids : id # e.id => S[id] = R[id]
  BY MessageParts DEF Rosters
<1>2. ASSUME NEW id \in Ids, Silent(Append(q, e), id, l) PROVE id # e.id /\ Silent(q, id, l) /\ S[id] = R[id]
  BY <1>1, <1>2, SilentAppend
<1> HIDE DEF S
<1>3. ASSUME NEW m \in Rosters, UpToDate(m, q, R, l) PROVE UpToDate(m, Append(q, e), S, l)
  BY <1>2, <1>3 DEF UpToDate
<1>4. ASSUME NEW p \in Seq(Events), Replayable(p, q, R, l) PROVE Replayable(p, Append(q, e), S, l)
  BY <1>2, <1>4 DEF Replayable
<1> QED BY <1>3, <1>4 DEF S

LEMMA KeptByOther ==
  ASSUME NEW q \in Seq(Messages), NEW e \in Messages, NEW R, NEW l, ~IsSignal(e, l)
  PROVE  /\ \A m \in Rosters : UpToDate(m, q, R, l) => UpToDate(m, Append(q, e), R, l)
         /\ \A p \in Seq(Events) : Replayable(p, q, R, l) => Replayable(p, Append(q, e), R, l)
<1>1. \A id \in Ids : Silent(Append(q, e), id, l) => Silent(q, id, l)
  BY SilentAppend
<1> QED BY <1>1 DEF UpToDate, Replayable

(* And what hearing a message leaves. *)
LEMMA KeptByTail ==
  ASSUME NEW q \in Seq(Messages), q # <<>>, NEW R, NEW l, ~IsSignal(q[1], l)
  PROVE  /\ \A m \in Rosters : UpToDate(m, q, R, l) => UpToDate(m, Tail(q), R, l)
         /\ \A p \in Seq(Events) : Replayable(p, q, R, l) => Replayable(p, Tail(q), R, l)
<1>1. \A id \in Ids : Silent(Tail(q), id, l) => Silent(q, id, l)
  BY SilentTail
<1> QED BY <1>1 DEF UpToDate, Replayable

LEMMA KeptByHearing ==
  ASSUME NEW q \in Seq(Messages), q # <<>>, NEW R, NEW l, IsSignal(q[1], l), Latest(q, R, l)
  PROVE  /\ \A m \in Rosters : UpToDate(m, q, R, l) => UpToDate(Apply(m, q[1]), Tail(q), R, l)
         /\ \A p \in Seq(Events) : Replayable(p, q, R, l) => Replayable(Append(p, q[1]), Tail(q), R, l)
<1> DEFINE e == q[1]
<1>0. e \in Events /\ e.id \in Ids
  BY Tailed, MessageParts
<1>1. ASSUME NEW id \in Ids, Silent(Tail(q), id, l)
      PROVE  IF id = e.id THEN e.version = R[id] ELSE Silent(q, id, l)
  BY <1>1, SilentTail, LatestTail
<1>2. \A m \in Rosters, id \in Ids : Apply(m, e)[id] = IF id = e.id THEN e.version ELSE m[id]
  BY <1>0 DEF Apply, Rosters
<1> HIDE DEF e
<1>3. ASSUME NEW m \in Rosters, UpToDate(m, q, R, l) PROVE UpToDate(Apply(m, e), Tail(q), R, l)
  BY <1>1, <1>2, <1>3 DEF UpToDate
<1>4. ASSUME NEW p \in Seq(Events), Replayable(p, q, R, l) PROVE Replayable(Append(p, e), Tail(q), R, l)
  <2> SUFFICES ASSUME NEW m \in Rosters, NEW id \in Ids, Silent(Tail(q), id, l), m[id] = R[id]
               PROVE  Replayed(m, Append(p, e))[id] = R[id]
    BY DEF Replayable
  <2>1. Replayed(m, Append(p, e)) = Apply(Replayed(m, p), e) /\ Replayed(m, p) \in Rosters
    BY <1>0, ReplayedOne, ReplayedTyped
  <2>2. CASE id = e.id
    BY <1>1, <1>2, <2>1, <2>2
  <2>3. CASE id # e.id
    <3>1. Silent(q, id, l)
      BY <1>1, <2>3
    <3>2. Replayed(m, p)[id] = R[id]
      BY <1>4, <3>1 DEF Replayable
    <3> QED BY <1>2, <2>1, <2>3, <3>2
  <2> QED BY <2>2, <2>3
<1> QED BY <1>3, <1>4 DEF e

LEMMA ReplayableUse ==
  ASSUME NEW R \in Rosters, NEW l, NEW q
  PROVE  /\ Replayable(<<>>, q, R, l)
         /\ \A p \in Seq(Events) : Replayable(p, q, R, l) => UpToDate(Replayed(R, p), q, R, l)
BY ReplayedNone DEF Replayable, UpToDate

-----------------------------------------------------------------------------
(***************************************************************************)
(* The roster as the server's steps change it.                             *)
(***************************************************************************)
LEMMA EntryIs == ASSUME ServerTypeOK, NEW n \in history PROVE Entry(n.id) = n
BY DEF ServerTypeOK, Entry

LEMMA RosterTyped == ASSUME ServerTypeOK PROVE Roster \in Rosters
<1>1. ASSUME NEW id \in Live PROVE Entry(id).version \in 0 .. MaxNotify
  <2>1. PICK n \in history : n.id = id
    BY DEF Live
  <2>2. n.version \in Versions
    BY DEF ServerTypeOK, Entries
  <2>3. Entry(id) = n
    BY <2>1, EntryIs
  <2>4. n.version \in 0 .. MaxNotify
    BY <2>2 DEF Versions
  <2> QED BY <2>3, <2>4
<1>2. 0 \in 0 .. MaxNotify
  BY NotificationAssumption DEF NotificationAssumption
<1> QED BY <1>1, <1>2 DEF Roster, Rosters

LEMMA RosterEnter ==
  ASSUME ServerTypeOK, ServerTypeOK', NEW n, n.id \in Ids, history' = Without(n.id) \cup {n}
  PROVE  Roster' = [Roster EXCEPT ![n.id] = n.version]
<1>1. \A m \in history : Entry(m.id) = m
  BY EntryIs
<1>2. \A m \in history' : Entry(m.id)' = m
  BY DEF ServerTypeOK, Entry
<1>3. ASSUME NEW id \in Ids
      PROVE  (IF id \in Live THEN Entry(id).version ELSE 0)' =
               IF id = n.id THEN n.version ELSE IF id \in Live THEN Entry(id).version ELSE 0
  <2>1. CASE id = n.id
    <3>1. n \in history' /\ (id \in Live)'
      BY <2>1 DEF Live
    <3> QED BY <1>2, <2>1, <3>1
  <2>2. CASE id # n.id /\ id \in Live
    <3>1. PICK m \in history : m.id = id
      BY <2>2 DEF Live
    <3>2. m \in history' /\ (id \in Live)'
      BY <2>2, <3>1 DEF Without, Live
    <3> QED BY <1>1, <1>2, <2>2, <3>1, <3>2
  <2>3. CASE id # n.id /\ id \notin Live
    <3>1. ~(id \in Live)'
      BY <2>3 DEF Without, Live
    <3> QED BY <2>3, <3>1
  <2> QED BY <2>1, <2>2, <2>3
<1> QED BY <1>3 DEF Roster

LEMMA RosterWithout ==
  ASSUME ServerTypeOK, ServerTypeOK', NEW i \in Ids, history' = Without(i)
  PROVE  Roster' = [Roster EXCEPT ![i] = 0]
<1>1. \A m \in history : Entry(m.id) = m
  BY EntryIs
<1>2. \A m \in history' : Entry(m.id)' = m
  BY DEF ServerTypeOK, Entry
<1>3. ASSUME NEW id \in Ids
      PROVE  (IF id \in Live THEN Entry(id).version ELSE 0)' =
               IF id = i THEN 0 ELSE IF id \in Live THEN Entry(id).version ELSE 0
  <2>1. CASE id = i \/ id \notin Live
    <3>1. ~(id \in Live)'
      BY <2>1 DEF Live, Without
    <3> QED BY <2>1, <3>1
  <2>2. CASE id # i /\ id \in Live
    <3>1. PICK m \in history : m.id = id
      BY <2>2 DEF Live
    <3>2. m \in history' /\ (id \in Live)'
      BY <2>2, <3>1 DEF Without, Live
    <3> QED BY <1>1, <1>2, <2>2, <3>1, <3>2
  <2> QED BY <2>1, <2>2
<1> QED BY <1>3 DEF Roster

-----------------------------------------------------------------------------
(***************************************************************************)
(* The inductive invariant.                                                *)
(***************************************************************************)
WireInv ==
  /\ inbox \in Seq(Messages) /\ pending \in Seq(Events)
  /\ asked \subseteq [gen : Nat, life : 0 .. MaxLives]
  /\ replies \subseteq [gen : Nat, roster : Rosters]
  /\ calls \subseteq [kind : {"dismiss", "invoke"}, id : Ids]

\* A daemon that has no name yet has sent nothing.
LifeInv ==
  /\ owner <= life
  /\ \A i \in DOMAIN inbox : inbox[i].type # "list" => inbox[i].life <= life
  /\ daemon = "public" =>
       /\ owner < life
       /\ \A i \in DOMAIN inbox : inbox[i].type # "list" => inbox[i].life < life

GenInv ==
  /\ \A a \in asked : a.gen <= generation
  /\ \A r \in replies : r.gen <= generation
  /\ \A i \in DOMAIN inbox : inbox[i].type = "list" => inbox[i].gen <= generation

\* The last owner the shell hears of before place b is none.
Owns(e) == e.type = "owner"
NoneBetween(q, a, b) == \A j \in DOMAIN q : a < j /\ j < b => ~Owns(q[j])
Ownerless(q, o, b) ==
  \/ o = 0 /\ NoneBetween(q, 0, b)
  \/ \E i \in DOMAIN q : i < b /\ Owns(q[i]) /\ q[i].life = 0 /\ NoneBetween(q, i, b)

\* The name goes before it comes back.
Chained(q, o) == \A b \in DOMAIN q : Owns(q[b]) /\ q[b].life # 0 => Ownerless(q, o, b)
ChainInv ==
  /\ Chained(inbox, owner)
  /\ daemon # "serving" => Ownerless(inbox, owner, Len(inbox) + 1)

\* A shell that waits for its List, or knows no daemon, has nothing.
EmptyInv ==
  /\ buffering => owner # 0
  /\ owner = 0 \/ buffering => mirror = NoRoster

\* A roster that the List of this owner brings.
IsDue(x) ==
  \/ \E r \in replies : r.gen = generation /\ r.roster = x
  \/ \E i \in DOMAIN inbox : inbox[i].type = "list" /\ inbox[i].gen = generation /\ inbox[i].roster = x

FreshInv ==
  daemon = "serving" =>
    /\ Latest(inbox, Roster, life)
    /\ owner = life /\ ~buffering /\ ~unlisted => UpToDate(mirror, inbox, Roster, life)
    /\ owner = life /\ buffering =>
         /\ Replayable(pending, inbox, Roster, life)
         /\ \A x \in Rosters : IsDue(x) => UpToDate(Replayed(x, pending), inbox, Roster, life)

MirrorInv ==
  /\ IInv /\ MirrorTypeOK /\ WireInv /\ LifeInv /\ GenInv /\ ChainInv /\ EmptyInv /\ NoGhosts
  /\ FreshInv

LEMMA OwnerlessAppend ==
  ASSUME NEW q \in Seq(Messages), NEW e \in Messages, NEW o
  PROVE  /\ \A b \in 1 .. Len(q) + 1 : Ownerless(q, o, b) => Ownerless(Append(q, e), o, b)
         /\ Chained(q, o) => IF Owns(e) /\ e.life # 0 /\ ~Ownerless(q, o, Len(q) + 1) THEN TRUE
                             ELSE Chained(Append(q, e), o)
         /\ ~Owns(e) /\ Ownerless(q, o, Len(q) + 1) => Ownerless(Append(q, e), o, Len(q) + 2)
         /\ Owns(e) /\ e.life = 0 => Ownerless(Append(q, e), o, Len(q) + 2)
<1> DEFINE r == Append(q, e)
           n == Len(q) + 1
<1>1. /\ n \in DOMAIN r /\ r[n] = e /\ n \in Nat /\ Len(q) + 2 = n + 1
      /\ \A i \in DOMAIN q : r[i] = q[i] /\ i \in DOMAIN r /\ n > i /\ i \in Nat /\ i > 0
      /\ \A i \in DOMAIN r : i \in DOMAIN q \/ i = n
  <2>1. /\ Len(q) \in Nat /\ DOMAIN q = 1 .. Len(q) /\ DOMAIN r = 1 .. Len(q) + 1
        /\ r[Len(q) + 1] = e /\ \A i \in DOMAIN q : r[i] = q[i] /\ i \in DOMAIN r
    BY Appended
  <2> HIDE DEF r
  <2> QED BY <2>1
<1> HIDE DEF r, n
<1>2. ASSUME NEW b \in 1 .. n, Ownerless(q, o, b) PROVE Ownerless(r, o, b)
  <2>1. \A a : NoneBetween(q, a, b) => NoneBetween(r, a, b)
    BY <1>1 DEF NoneBetween
  <2> QED BY <1>1, <1>2, <2>1 DEF Ownerless
<1>3. ASSUME Chained(q, o), Owns(e) /\ e.life # 0 => Ownerless(q, o, n) PROVE Chained(r, o)
  <2> SUFFICES ASSUME NEW b \in DOMAIN r, Owns(r[b]), r[b].life # 0 PROVE Ownerless(r, o, b)
    BY DEF Chained
  <2>1. CASE b \in DOMAIN q
    <3>1. Ownerless(q, o, b) /\ b \in 1 .. n
      BY <1>1, <1>3, <2>1 DEF Chained
    <3> QED BY <1>2, <3>1
  <2>2. CASE b = n
    <3>1. Ownerless(q, o, n) /\ n \in 1 .. n
      BY <1>1, <1>3, <2>2 DEF n
    <3> QED BY <1>2, <2>2, <3>1
  <2> QED BY <1>1, <2>1, <2>2
<1>4. ASSUME ~Owns(e), Ownerless(q, o, n) PROVE Ownerless(r, o, n + 1)
  <2>1. \A a : NoneBetween(q, a, n) => NoneBetween(r, a, n + 1)
    BY <1>1, <1>4 DEF NoneBetween
  <2> QED BY <1>1, <1>4, <2>1 DEF Ownerless
<1>5. ASSUME Owns(e), e.life = 0 PROVE Ownerless(r, o, n + 1)
  <2>1. NoneBetween(r, n, n + 1) /\ n < n + 1
    BY <1>1 DEF NoneBetween
  <2> QED BY <1>1, <1>5, <2>1 DEF Ownerless
<1> QED BY <1>1, <1>2, <1>3, <1>4, <1>5 DEF r, n

LEMMA OwnerlessTail ==
  ASSUME NEW q \in Seq(Messages), q # <<>>, NEW o
  PROVE  LET p == IF Owns(q[1]) THEN q[1].life ELSE o IN
         /\ \A b \in 1 .. Len(q) : Ownerless(q, o, b + 1) => Ownerless(Tail(q), p, b)
         /\ Chained(q, o) => Chained(Tail(q), p)
         /\ Chained(q, o) /\ Owns(q[1]) /\ q[1].life # 0 => o = 0
<1> DEFINE r == Tail(q)
           p == IF Owns(q[1]) THEN q[1].life ELSE o
<1>1. /\ \A i \in DOMAIN r : r[i] = q[i + 1] /\ i + 1 \in DOMAIN q /\ i \in 1 .. Len(q)
      /\ \A i \in DOMAIN q : i = 1 \/ (i - 1 \in DOMAIN r /\ r[i - 1] = q[i])
      /\ \A i \in DOMAIN q : i \in Nat /\ i > 0
      /\ 1 \in DOMAIN q /\ Len(q) \in Nat
  <2>1. /\ Len(q) \in Nat /\ DOMAIN q = 1 .. Len(q) /\ DOMAIN r = 1 .. Len(q) - 1
        /\ 1 \in DOMAIN q /\ \A i \in DOMAIN r : r[i] = q[i + 1] /\ i + 1 \in DOMAIN q
    BY Tailed
  <2> HIDE DEF r
  <2>2. \A i \in DOMAIN q : i = 1 \/ (i - 1 \in DOMAIN r /\ r[i - 1] = q[i])
    BY <2>1
  <2> QED BY <2>1, <2>2
<1> HIDE DEF r
<1>2. \A a \in Nat, b \in 1 .. Len(q) : NoneBetween(q, a + 1, b + 1) => NoneBetween(r, a, b)
  BY <1>1 DEF NoneBetween
<1>3. \A b \in 1 .. Len(q) : NoneBetween(q, 0, b + 1) => NoneBetween(r, 0, b) /\ ~Owns(q[1])
  BY <1>1 DEF NoneBetween
<1>4. ASSUME NEW b \in 1 .. Len(q), Ownerless(q, o, b + 1) PROVE Ownerless(r, p, b)
  <2>1. CASE o = 0 /\ NoneBetween(q, 0, b + 1)
    BY <1>3, <2>1 DEF Ownerless
  <2>2. CASE \E i \in DOMAIN q : i < b + 1 /\ Owns(q[i]) /\ q[i].life = 0 /\ NoneBetween(q, i, b + 1)
    <3>1. PICK i \in DOMAIN q : i < b + 1 /\ Owns(q[i]) /\ q[i].life = 0 /\ NoneBetween(q, i, b + 1)
      BY <2>2
    <3>2. CASE i = 1
      <4>1. p = 0 /\ NoneBetween(q, 0 + 1, b + 1)
        BY <3>1, <3>2
      <4>2. NoneBetween(r, 0, b)
        BY <1>2, <4>1
      <4> QED BY <4>1, <4>2 DEF Ownerless
    <3>3. CASE i # 1
      <4>0. i - 1 \in DOMAIN r /\ r[i - 1] = q[i] /\ i \in Nat /\ i > 0
        BY <1>1, <3>3
      <4>1. i - 1 \in Nat /\ i - 1 < b /\ (i - 1) + 1 = i
        BY <3>1, <4>0
      <4>2. NoneBetween(r, i - 1, b)
        BY <1>2, <3>1, <4>1
      <4> QED BY <3>1, <4>0, <4>1, <4>2 DEF Ownerless
    <3> QED BY <3>2, <3>3
  <2> QED BY <1>4, <2>1, <2>2 DEF Ownerless
<1>5. ASSUME Chained(q, o) PROVE Chained(r, p)
  <2> SUFFICES ASSUME NEW b \in DOMAIN r, Owns(r[b]), r[b].life # 0 PROVE Ownerless(r, p, b)
    BY DEF Chained
  <2>1. Ownerless(q, o, b + 1) /\ b \in 1 .. Len(q)
    BY <1>1, <1>5 DEF Chained
  <2> QED BY <1>4, <2>1
<1>6. ASSUME Chained(q, o), Owns(q[1]), q[1].life # 0 PROVE o = 0
  <2>1. Ownerless(q, o, 1)
    BY <1>1, <1>6 DEF Chained
  <2> QED BY <1>1, <2>1 DEF Ownerless
<1> QED BY <1>4, <1>5, <1>6 DEF r

-----------------------------------------------------------------------------
(***************************************************************************)
(* The daemon's steps.                                                     *)
(***************************************************************************)
(* A step that sends nothing, takes nothing and leaves the roster alone. *)
LEMMA QuietKeeps ==
  ASSUME MirrorInv, IInv', UNCHANGED <<inbox, asked, replies, daemon, life, shellVars>>,
         WireInv', daemon = "serving" => Roster' = Roster
  PROVE  MirrorInv'
<1>1. UNCHANGED <<owner, generation, buffering, pending, mirror, told, unlisted>>
  BY DEF shellVars
<1>2. MirrorTypeOK'
  BY <1>1 DEF MirrorInv, MirrorTypeOK, IInv
<1>3. LifeInv' /\ GenInv' /\ EmptyInv' /\ NoGhosts'
  BY <1>1 DEF MirrorInv, LifeInv, GenInv, EmptyInv, NoGhosts, Known, NoRoster
<1>4. ChainInv'
  BY <1>1 DEF MirrorInv, ChainInv
<1>5. FreshInv'
  BY <1>1 DEF MirrorInv, FreshInv, IsDue
<1> QED BY <1>2, <1>3, <1>4, <1>5 DEF MirrorInv

(* A message on the way besides those there were. *)
LEMMA SentKeeps ==
  ASSUME MirrorInv, NEW e \in Messages, inbox' = Append(inbox, e),
         UNCHANGED <<generation, owner>>, e.type = "list" => e.gen <= generation,
         asked' \subseteq asked, replies' \subseteq replies, pending' = pending, calls' \subseteq calls
  PROVE  /\ WireInv' /\ GenInv'
         /\ \A i \in DOMAIN inbox' : inbox'[i] = e \/ \E j \in DOMAIN inbox : inbox'[i] = inbox[j]
<1>1. \A i \in DOMAIN inbox' : inbox'[i] = e \/ \E j \in DOMAIN inbox : inbox'[i] = inbox[j]
  <2> DEFINE q == Append(inbox, e)
  <2>1. /\ \A i \in DOMAIN inbox : q[i] = inbox[i]
        /\ DOMAIN q = 1 .. Len(inbox) + 1 /\ DOMAIN inbox = 1 .. Len(inbox) /\ q[Len(inbox) + 1] = e
        /\ Len(inbox) \in Nat
    BY Appended DEF MirrorInv, WireInv
  <2> HIDE DEF q
  <2>2. \A i \in DOMAIN q : i \in DOMAIN inbox \/ i = Len(inbox) + 1
    BY <2>1
  <2>3. \A i \in DOMAIN q : q[i] = e \/ \E j \in DOMAIN inbox : q[i] = inbox[j]
    BY <2>1, <2>2
  <2> QED BY <2>3 DEF q
<1>2. WireInv'
  <2>1. inbox' \in Seq(Messages)
    BY DEF MirrorInv, WireInv
  <2> QED BY <2>1 DEF MirrorInv, WireInv
<1>3. GenInv'
  BY <1>1 DEF MirrorInv, GenInv
<1> QED BY <1>1, <1>2, <1>3

(* A signal that leaves with the change of the roster it tells. *)
LEMMA TellKeeps ==
  ASSUME MirrorInv, IInv', UNCHANGED <<asked, replies, daemon, life, shellVars>>, calls' \subseteq calls,
         daemon = "serving", NEW e \in Events, e.life = life, inbox' = Append(inbox, e),
         Roster' = [Roster EXCEPT ![e.id] = e.version]
  PROVE  MirrorInv'
<1>1. UNCHANGED <<owner, generation, buffering, pending, mirror, told, unlisted>>
  BY DEF shellVars
<1>2. MirrorTypeOK'
  BY <1>1 DEF MirrorInv, MirrorTypeOK, IInv
<1>3. EmptyInv' /\ NoGhosts'
  BY <1>1 DEF MirrorInv, EmptyInv, NoGhosts, Known, NoRoster
<1>4. e \in Messages /\ e.type # "list" /\ ~Owns(e) /\ IsSignal(e, life)
  BY DEF Messages, Events, Owns, IsSignal
<1>5. /\ WireInv' /\ GenInv'
      /\ \A i \in DOMAIN inbox' : inbox'[i] = e \/ \E j \in DOMAIN inbox : inbox'[i] = inbox[j]
  BY <1>1, <1>4, SentKeeps
<1>6. LifeInv'
  <2>1. e.life <= life
    BY DEF MirrorInv, MirrorTypeOK, ServerTypeOK
  <2> QED BY <1>1, <1>5, <2>1 DEF MirrorInv, LifeInv
<1>7. ChainInv'
  BY <1>1, <1>4, OwnerlessAppend DEF MirrorInv, ChainInv, WireInv
<1>8. FreshInv'
  <2>1. /\ Roster \in Rosters /\ mirror \in Rosters /\ inbox \in Seq(Messages) /\ pending \in Seq(Events)
    BY RosterTyped DEF MirrorInv, IInv, MirrorTypeOK, WireInv, Rosters
  <2>2. \A x : IsDue(x)' => IsDue(x)
    BY <1>1, <1>4, <1>5 DEF IsDue
  <2>3. Latest(inbox, Roster, life)' 
    BY <1>4, <2>1, LatestAppend DEF MirrorInv, FreshInv
  <2>4. \A m \in Rosters : UpToDate(m, inbox, Roster, life) => UpToDate(m, inbox', Roster', life')
    BY <1>4, <2>1, KeptByAppend
  <2>5. Replayable(pending, inbox, Roster, life) => Replayable(pending', inbox', Roster', life')
    BY <1>1, <1>4, <2>1, KeptByAppend
  <2>6. owner = life /\ ~buffering /\ ~unlisted => UpToDate(mirror', inbox', Roster', life')
    BY <1>1, <2>1, <2>4 DEF MirrorInv, FreshInv
  <2>7. ASSUME owner = life, buffering, NEW x \in Rosters, IsDue(x)'
        PROVE  UpToDate(Replayed(x, pending'), inbox', Roster', life')
    <3>1. UpToDate(Replayed(x, pending), inbox, Roster, life) /\ Replayed(x, pending) \in Rosters
      BY <2>1, <2>2, <2>7, ReplayedTyped DEF MirrorInv, FreshInv
    <3> QED BY <1>1, <2>4, <3>1
  <2> QED BY <1>1, <2>3, <2>5, <2>6, <2>7 DEF MirrorInv, FreshInv
<1> QED BY <1>2, <1>3, <1>5, <1>6, <1>7, <1>8 DEF MirrorInv

(* The signals are what the daemon does. *)
LEMMA NewsKeeps ==
  ASSUME MirrorInv, IInv', UNCHANGED <<asked, replies, daemon, life, shellVars>>, calls' \subseteq calls,
         NEW e \in Events, e.life = life, Signal(e),
         Roster' = [Roster EXCEPT ![e.id] = e.version]
  PROVE  MirrorInv'
<1>1. CASE daemon = "serving"
  BY <1>1, TellKeeps DEF Signal
<1>2. CASE daemon # "serving"
  <2>1. inbox' = inbox /\ pending' = pending
    BY <1>2 DEF Signal, shellVars
  <2>2. WireInv'
    BY <2>1 DEF MirrorInv, WireInv
  <2> QED BY <1>2, <2>1, <2>2, QuietKeeps
<1> QED BY <1>1, <1>2

LEMMA NotifyKeeps ==
  ASSUME MirrorInv, NEW replaces \in 0 .. MAX_ID + 1, NEW shape \in Shapes, NotifyCall(replaces, shape)
  PROVE  MirrorInv'
<1> DEFINE id == Allocate(replaces)
           version == sent + 1
           n == [id |-> id, version |-> version, replaces |-> replaces, shape |-> shape]
           e == Notified(id, version)
<1>1. IInv /\ IInv'
  BY Step DEF MirrorInv, NotifyCall, ServerNext
<1>2. id \in Ids
  BY <1>1, AllocateIsSafe DEF IInv, ServerTypeOK, NotifyCall, Notify
<1>3. version \in 1 .. MaxNotify /\ version # 0 /\ life \in 1 .. MaxLives
  BY <1>1 DEF IInv, ServerTypeOK, NotifyCall, Notify
<1>4. e \in Events /\ e.life = life /\ e.id = id /\ e.version = version
  BY <1>2, <1>3 DEF Notified, Events
<1>5. n.id = id /\ n.version = version
  OBVIOUS
<1>6. history' = Without(n.id) \cup {n} /\ UNCHANGED <<daemon, life>>
  BY DEF NotifyCall, Notify, Enter, daemonVars
<1>7. Signal(e) /\ UNCHANGED <<asked, replies, calls, shellVars>>
  BY DEF NotifyCall
<1> HIDE DEF e, n, id, version
<1>8. Roster' = [Roster EXCEPT ![e.id] = e.version]
  BY <1>1, <1>2, <1>4, <1>5, <1>6, RosterEnter DEF IInv
<1> QED BY <1>1, <1>4, <1>6, <1>7, <1>8, NewsKeeps

LEMMA ResolvedKeeps ==
  ASSUME MirrorInv, IInv', NEW id \in Ids, Resolve(id), Signal(Resolved(id)), calls' \subseteq calls,
         UNCHANGED <<asked, replies, shellVars>>
  PROVE  MirrorInv'
<1>1. IInv /\ life \in 1 .. MaxLives /\ 0 \in 0 .. MaxNotify
  BY NotificationAssumption DEF MirrorInv, IInv, ServerTypeOK, NotificationAssumption
<1>2. Resolved(id) \in Events /\ Resolved(id).life = life /\ Resolved(id).id = id /\ Resolved(id).version = 0
  BY <1>1 DEF Resolved, Events
<1>3. history' = Without(id) /\ UNCHANGED <<daemon, life>>
  BY DEF Resolve, daemonVars
<1>4. Roster' = [Roster EXCEPT ![id] = 0]
  BY <1>1, <1>3, RosterWithout DEF IInv
<1> QED BY <1>2, <1>3, <1>4, NewsKeeps

LEMMA CloseKeeps ==
  ASSUME MirrorInv, NEW id \in Ids, CloseCall(id)
  PROVE  MirrorInv'
<1>1. IInv'
  BY Step DEF MirrorInv, CloseCall, ServerNext
<1> QED BY <1>1, ResolvedKeeps DEF CloseCall, Close

LEMMA ExpiryKeeps ==
  ASSUME MirrorInv, NEW t \in tasks, ExpiryTask(t)
  PROVE  MirrorInv'
<1>1. IInv /\ IInv'
  BY Step DEF MirrorInv, ExpiryTask, ServerNext
<1>2. t.id \in Ids /\ Resolve(t.id)
  BY <1>1, ExpiryIsLive DEF ExpiryTask
<1>3. t.id \in Live
  BY <1>1 DEF IInv, TaskInv, Live
<1> QED BY <1>1, <1>2, <1>3, ResolvedKeeps DEF ExpiryTask

LEMMA ShellCallKeeps ==
  ASSUME MirrorInv, NEW c \in calls, ShellCall(c)
  PROVE  MirrorInv'
<1>1. c.id \in Ids /\ calls' \subseteq calls /\ UNCHANGED <<asked, replies, shellVars>>
  BY DEF MirrorInv, WireInv, ShellCall
<1>2. CASE Close(c.id) /\ Signal(Resolved(c.id))
  <2>1. IInv'
    BY <1>1, <1>2, Step DEF MirrorInv, ServerNext
  <2> QED BY <1>1, <1>2, <2>1, ResolvedKeeps DEF Close
<1>3. CASE UNCHANGED <<notifVars, inbox>>
  <2>1. IInv'
    BY <1>3, Step DEF MirrorInv
  <2>2. UNCHANGED <<history, daemon, life, pending>>
    BY <1>1, <1>3 DEF notifVars, daemonVars, rosterVars, shellVars
  <2>3. WireInv' /\ Roster' = Roster
    BY <1>1, <1>3, <2>2 DEF MirrorInv, WireInv, Roster, Live, Entry
  <2> QED BY <1>1, <1>3, <2>1, <2>2, <2>3, QuietKeeps
<1> QED BY <1>2, <1>3 DEF ShellCall

(* The List is answered with the roster as it is: what is on the way by then is older,
   or in the buffer. *)
LEMMA TakeListKeeps ==
  ASSUME MirrorInv, NEW a \in asked, TakeList(a)
  PROVE  MirrorInv'
<1>1. /\ UNCHANGED <<notifVars, inbox, calls, shellVars>> /\ asked' \subseteq asked
      /\ replies' = replies \cup {[gen |-> a.gen, roster |-> Roster]}
  BY DEF TakeList
<1>2. /\ IInv' /\ UNCHANGED <<daemon, life, history, owner, generation, buffering, pending, mirror, told, unlisted>>
  <2>1. IInv'
    BY <1>1, Step DEF MirrorInv
  <2> QED BY <1>1, <2>1 DEF notifVars, daemonVars, rosterVars, shellVars
<1>3. Roster' = Roster /\ Roster \in Rosters
  BY <1>2, RosterTyped DEF Roster, Live, Entry, MirrorInv, IInv
<1>4. MirrorTypeOK' /\ EmptyInv' /\ NoGhosts' /\ LifeInv'
  BY <1>1, <1>2 DEF MirrorInv, MirrorTypeOK, IInv, EmptyInv, NoGhosts, Known, NoRoster, LifeInv
<1>5. ChainInv'
  BY <1>1, <1>2 DEF MirrorInv, ChainInv
<1>6. a.gen \in Nat /\ a.gen <= generation
  BY DEF MirrorInv, WireInv, GenInv
<1>7. WireInv'
  BY <1>1, <1>2, <1>3, <1>6 DEF MirrorInv, WireInv
<1>8. GenInv'
  BY <1>1, <1>2, <1>6 DEF MirrorInv, GenInv
<1>9. FreshInv'
  <2>1. \A x : IsDue(x)' => IsDue(x) \/ x = Roster
    BY <1>1, <1>2 DEF IsDue
  <2>2. ASSUME Replayable(pending, inbox, Roster, life)
        PROVE  UpToDate(Replayed(Roster, pending), inbox, Roster, life)
    BY <1>3, <2>2, ReplayableUse DEF MirrorInv, WireInv
  <2> QED BY <1>1, <1>2, <1>3, <2>1, <2>2 DEF MirrorInv, FreshInv
<1> QED BY <1>2, <1>4, <1>5, <1>7, <1>8, <1>9 DEF MirrorInv

LEMMA SendListKeeps ==
  ASSUME MirrorInv, NEW r \in replies, SendList(r)
  PROVE  MirrorInv'
<1> DEFINE e == [type |-> "list", gen |-> r.gen, roster |-> r.roster]
<1>1. /\ UNCHANGED <<notifVars, asked, calls, shellVars>>
      /\ inbox' = Append(inbox, e) /\ replies' = replies \ {r}
  BY DEF SendList
<1>2. /\ IInv' /\ UNCHANGED <<daemon, life, history, owner, generation, buffering, pending, mirror, told, unlisted>>
  <2>1. IInv'
    BY <1>1, Step DEF MirrorInv
  <2> QED BY <1>1, <2>1 DEF notifVars, daemonVars, rosterVars, shellVars
<1>3. Roster' = Roster /\ Roster \in Rosters
  BY <1>2, RosterTyped DEF Roster, Live, Entry, MirrorInv, IInv
<1>4. e \in Messages /\ e.type = "list" /\ e.gen = r.gen /\ e.roster = r.roster /\ r.gen <= generation
  BY DEF MirrorInv, WireInv, GenInv, Messages, Lists
<1> HIDE DEF e
<1>5. ~Owns(e) /\ ~IsSignal(e, life)
  BY <1>4 DEF Owns, IsSignal
<1>6. /\ WireInv' /\ GenInv'
      /\ \A i \in DOMAIN inbox' : inbox'[i] = e \/ \E j \in DOMAIN inbox : inbox'[i] = inbox[j]
  BY <1>1, <1>2, <1>4, SentKeeps
<1>7. MirrorTypeOK' /\ EmptyInv' /\ NoGhosts'
  BY <1>2 DEF MirrorInv, MirrorTypeOK, IInv, EmptyInv, NoGhosts, Known, NoRoster
<1>8. LifeInv'
  BY <1>2, <1>4, <1>6 DEF MirrorInv, LifeInv
<1>9. ChainInv'
  <2>1. Len(inbox') + 1 = Len(inbox) + 2
    BY <1>1, <1>4, Appended DEF MirrorInv, WireInv
  <2> QED BY <1>1, <1>2, <1>4, <1>5, <2>1, OwnerlessAppend DEF MirrorInv, ChainInv, WireInv
<1>10. FreshInv'
  <2>1. /\ mirror \in Rosters /\ inbox \in Seq(Messages) /\ pending \in Seq(Events)
    BY DEF MirrorInv, IInv, MirrorTypeOK, WireInv, Rosters
  <2>2. \A x : IsDue(x)' => IsDue(x)
    BY <1>1, <1>2, <1>4, <1>6 DEF IsDue
  <2>3. daemon = "serving" => Latest(inbox', Roster, life)
    BY <1>1, <1>3, <1>4, <1>5, <2>1, LatestAppend DEF MirrorInv, FreshInv
  <2>4. \A m \in Rosters : UpToDate(m, inbox, Roster, life) => UpToDate(m, inbox', Roster, life)
    BY <1>1, <1>4, <1>5, <2>1, KeptByOther
  <2>5. Replayable(pending, inbox, Roster, life) => Replayable(pending, inbox', Roster, life)
    BY <1>1, <1>4, <1>5, <2>1, KeptByOther
  <2>6. \A x \in Rosters : Replayed(x, pending) \in Rosters
    BY <2>1, ReplayedTyped
  <2> QED BY <1>2, <1>3, <2>1, <2>2, <2>3, <2>4, <2>5, <2>6 DEF MirrorInv, FreshInv
<1> QED BY <1>2, <1>6, <1>7, <1>8, <1>9, <1>10 DEF MirrorInv

LEMMA WriteKeeps == ASSUME MirrorInv, WriteStore PROVE MirrorInv'
<1>1. IInv'
  BY Step DEF MirrorInv, WriteStore, ServerNext
<1>2. UNCHANGED <<daemon, life, history, wireVars, shellVars>>
  BY DEF WriteStore, Flush, daemonVars, rosterVars
<1>3. Roster' = Roster
  BY <1>2 DEF Roster, Live, Entry
<1>4. WireInv'
  BY <1>2 DEF MirrorInv, WireInv, wireVars, shellVars
<1> QED BY <1>1, <1>2, <1>3, <1>4, QuietKeeps DEF wireVars

(* The name goes: nothing is promised until another life has it. *)
LEMMA EndsKeeps == ASSUME MirrorInv, DaemonEnds PROVE MirrorInv'
<1>1. IInv'
  BY Step DEF MirrorInv, DaemonEnds, ServerNext
<1>2. daemon' = "down" /\ life' = life
  BY DEF DaemonEnds, Crash, Terminate, Stop
<1>3. /\ UNCHANGED <<owner, generation, buffering, pending, mirror, told, unlisted>>
      /\ asked' = {} /\ replies' = {} /\ calls' = {} /\ Signal(OwnerIs(0))
  BY DEF DaemonEnds, shellVars
<1>4. MirrorTypeOK' /\ EmptyInv' /\ NoGhosts'
  BY <1>1, <1>3 DEF MirrorInv, MirrorTypeOK, IInv, EmptyInv, NoGhosts, Known, NoRoster
<1>5. FreshInv'
  BY <1>2 DEF FreshInv
<1>6. CASE daemon = "serving"
  <2> DEFINE e == OwnerIs(0)
  <2>1. inbox' = Append(inbox, e)
    BY <1>3, <1>6 DEF Signal
  <2>2. e \in Messages /\ Owns(e) /\ e.life = 0 /\ e.type = "owner"
    <3>1. 0 \in 0 .. MaxLives
      BY NotificationAssumption DEF NotificationAssumption
    <3> QED BY <3>1 DEF OwnerIs, Messages, Owners, Owns
  <2> HIDE DEF e
  <2>3. /\ WireInv' /\ GenInv'
        /\ \A i \in DOMAIN inbox' : inbox'[i] = e \/ \E j \in DOMAIN inbox : inbox'[i] = inbox[j]
    BY <1>3, <2>1, <2>2, SentKeeps
  <2>4. 0 <= life
    BY DEF MirrorInv, MirrorTypeOK, ServerTypeOK
  <2>5. LifeInv'
    BY <1>2, <1>3, <2>2, <2>3, <2>4 DEF MirrorInv, LifeInv
  <2>6. Len(inbox) \in Nat /\ Len(inbox') = Len(inbox) + 1 /\ Len(inbox') + 1 = Len(inbox) + 2
    BY <2>1, <2>2, Appended DEF MirrorInv, WireInv
  <2>7. ChainInv'
    BY <1>3, <2>1, <2>2, <2>6, OwnerlessAppend DEF MirrorInv, ChainInv, WireInv
  <2> QED BY <1>1, <1>4, <1>5, <2>3, <2>5, <2>7 DEF MirrorInv
<1>7. CASE daemon # "serving"
  <2>1. inbox' = inbox
    BY <1>3, <1>7 DEF Signal
  <2>2. WireInv' /\ GenInv' /\ LifeInv'
    BY <1>2, <1>3, <2>1 DEF MirrorInv, WireInv, GenInv, LifeInv
  <2>3. ChainInv'
    BY <1>3, <1>7, <2>1 DEF MirrorInv, ChainInv
  <2> QED BY <1>1, <1>4, <1>5, <2>2, <2>3 DEF MirrorInv
<1> QED BY <1>6, <1>7

LEMMA StartKeeps == ASSUME MirrorInv, DaemonStarts PROVE MirrorInv'
<1>1. IInv'
  BY Step DEF MirrorInv, DaemonStarts, ServerNext
<1>2. daemon = "down" /\ daemon' = "public" /\ life' = life + 1 /\ life \in Nat
  BY DEF DaemonStarts, Start, MirrorInv, IInv, ServerTypeOK
<1>3. /\ UNCHANGED <<owner, generation, buffering, pending, mirror, told, unlisted>>
      /\ UNCHANGED <<inbox, asked, replies, calls>>
  BY DEF DaemonStarts, shellVars, wireVars
<1>4. MirrorTypeOK' /\ EmptyInv' /\ NoGhosts' /\ WireInv' /\ GenInv'
  BY <1>1, <1>3 DEF MirrorInv, MirrorTypeOK, IInv, EmptyInv, NoGhosts, Known, NoRoster, WireInv, GenInv
<1>5. FreshInv'
  BY <1>2 DEF FreshInv
<1>6. LifeInv'
  <2>1. owner \in Nat
    BY DEF MirrorInv, MirrorTypeOK
  <2>2. ASSUME NEW i \in DOMAIN inbox, inbox[i].type # "list" PROVE inbox[i].life \in Int
    <3>1. inbox[i] \in Messages
      BY DEF MirrorInv, WireInv
    <3> QED BY <2>2, <3>1 DEF Messages, Events, Owners, Lists
  <2> QED BY <1>2, <1>3, <2>1, <2>2 DEF MirrorInv, LifeInv
<1>7. ChainInv'
  BY <1>2, <1>3 DEF MirrorInv, ChainInv
<1> QED BY <1>1, <1>4, <1>5, <1>6, <1>7 DEF MirrorInv

(* A daemon that takes the name has told nothing yet, and was told of to nobody. *)
LEMMA ClaimKeeps == ASSUME MirrorInv, ClaimName PROVE MirrorInv'
<1> DEFINE e == OwnerIs(life)
<1>1. IInv'
  BY Step DEF MirrorInv, ClaimName, ServerNext
<1>2. /\ daemon = "public" /\ daemon' = "serving" /\ UNCHANGED <<life, history>>
      /\ inbox' = Append(inbox, e) /\ life \in 1 .. MaxLives
  BY DEF ClaimName, Claim, rosterVars, MirrorInv, IInv, ServerTypeOK
<1>3. UNCHANGED <<owner, generation, buffering, pending, mirror, told, unlisted, asked, replies, calls>>
  BY DEF ClaimName, shellVars
<1>4. e \in Messages /\ Owns(e) /\ e.life = life /\ e.type = "owner" /\ ~IsSignal(e, life)
  <2>1. life \in 0 .. MaxLives
    BY <1>2
  <2> QED BY <2>1 DEF OwnerIs, Messages, Owners, Owns, IsSignal
<1> HIDE DEF e
<1>5. /\ WireInv' /\ GenInv'
      /\ \A i \in DOMAIN inbox' : inbox'[i] = e \/ \E j \in DOMAIN inbox : inbox'[i] = inbox[j]
  BY <1>2, <1>3, <1>4, SentKeeps
<1>6. MirrorTypeOK' /\ EmptyInv' /\ NoGhosts'
  BY <1>1, <1>3 DEF MirrorInv, MirrorTypeOK, IInv, EmptyInv, NoGhosts, Known, NoRoster
<1>7. LifeInv'
  BY <1>2, <1>3, <1>4, <1>5 DEF MirrorInv, LifeInv
<1>8. ChainInv'
  BY <1>2, <1>3, <1>4, OwnerlessAppend DEF MirrorInv, ChainInv, WireInv
<1>9. FreshInv'
  <2>1. owner < life /\ \A i \in DOMAIN inbox : ~IsSignal(inbox[i], life)
    <3>1. \A i \in DOMAIN inbox : inbox[i].type # "list" => inbox[i].life < life
      BY <1>2 DEF MirrorInv, LifeInv
    <3> QED BY <1>2, <3>1 DEF MirrorInv, LifeInv, IsSignal
  <2>2. owner \in Nat /\ owner # life
    BY <1>2, <2>1 DEF MirrorInv, MirrorTypeOK
  <2>3. Latest(inbox', Roster', life')
    BY <1>2, <1>4, <1>5, <2>1 DEF Latest
  <2> QED BY <1>2, <1>3, <2>2, <2>3 DEF FreshInv
<1> QED BY <1>1, <1>5, <1>6, <1>7, <1>8, <1>9 DEF MirrorInv

-----------------------------------------------------------------------------
(***************************************************************************)
(* The shell's steps.                                                      *)
(***************************************************************************)
LEMMA PressKeeps ==
  ASSUME MirrorInv, NEW kind \in {"dismiss", "invoke"}, NEW id \in Ids, Press(kind, id)
  PROVE  MirrorInv'
<1>1. UNCHANGED <<notifVars, inbox, asked, replies, shellVars>> /\ calls' = {[kind |-> kind, id |-> id]}
  BY DEF Press
<1>2. IInv' /\ UNCHANGED <<daemon, life, history, pending>>
  <2>1. IInv'
    BY <1>1, Step DEF MirrorInv
  <2> QED BY <1>1, <2>1 DEF notifVars, daemonVars, rosterVars, shellVars
<1>3. Roster' = Roster
  BY <1>2 DEF Roster, Live, Entry
<1>4. WireInv'
  BY <1>1, <1>2 DEF MirrorInv, WireInv
<1> QED BY <1>1, <1>2, <1>3, <1>4, QuietKeeps

LEMMA ListFailsKeeps == ASSUME MirrorInv, ListFails PROVE MirrorInv'
<1>1. /\ UNCHANGED <<notifVars, inbox, asked, replies, calls, owner, generation, told>>
      /\ buffering /\ ~buffering' /\ pending' = <<>> /\ mirror' = NoRoster /\ unlisted'
  BY DEF ListFails, wireVars
<1>2. IInv' /\ UNCHANGED <<daemon, life, history>>
  <2>1. IInv'
    BY <1>1, Step DEF MirrorInv
  <2> QED BY <1>1, <2>1 DEF notifVars, daemonVars, rosterVars
<1>3. mirror = NoRoster
  BY <1>1 DEF MirrorInv, EmptyInv
<1>4. Roster' = Roster
  BY <1>2 DEF Roster, Live, Entry
<1>5. MirrorTypeOK'
  BY <1>1, <1>2, <1>3 DEF MirrorInv, MirrorTypeOK, IInv, ListFails
<1>6. EmptyInv' /\ NoGhosts'
  BY <1>1, <1>3 DEF MirrorInv, EmptyInv, NoGhosts, Known, NoRoster
<1>7. WireInv' /\ LifeInv' /\ GenInv'
  BY <1>1, <1>2 DEF MirrorInv, WireInv, LifeInv, GenInv
<1>8. ChainInv'
  BY <1>1, <1>2 DEF MirrorInv, ChainInv
<1>9. FreshInv'
  BY <1>1, <1>2, <1>4 DEF MirrorInv, FreshInv
<1> QED BY <1>2, <1>5, <1>6, <1>7, <1>8, <1>9 DEF MirrorInv

LEMMA RestartKeeps == ASSUME MirrorInv, ShellRestarts PROVE MirrorInv'
<1>1. /\ UNCHANGED <<notifVars, calls>> /\ generation' = generation + 1
      /\ inbox' = <<>> /\ replies' = {} /\ pending' = <<>>
      /\ mirror' = NoRoster /\ told' = {} /\ unlisted' = FALSE
  BY DEF ShellRestarts
<1>2. IInv' /\ UNCHANGED <<daemon, life, history>> /\ life \in 1 .. MaxLives
      /\ daemon \in {"down", "public", "serving"}
  <2>1. IInv'
    BY <1>1, Step DEF MirrorInv
  <2> QED BY <1>1, <2>1 DEF notifVars, daemonVars, rosterVars, MirrorInv, IInv, ServerTypeOK
<1>3. IF daemon = "serving"
      THEN owner' = life /\ buffering' = TRUE /\ asked' = {[gen |-> generation', life |-> life]}
      ELSE owner' = 0 /\ buffering' = FALSE /\ asked' = {}
  BY DEF ShellRestarts
<1>4. generation \in Nat /\ generation' \in Nat
  BY <1>1 DEF MirrorInv, MirrorTypeOK
<1>5. NoRoster \in Rosters
  BY NotificationAssumption DEF NotificationAssumption, NoRoster, Rosters
<1>6. owner' \in 0 .. MaxLives /\ buffering' \in BOOLEAN /\ (buffering' => owner' # 0)
      /\ (owner' = 0 \/ (owner' = life /\ daemon = "serving"))
  <2>1. CASE daemon = "serving"
    BY <1>2, <1>3, <2>1
  <2>2. CASE daemon # "serving"
    <3>1. owner' = 0 /\ buffering' = FALSE
      BY <1>3, <2>2
    <3>2. owner' \in 0 .. MaxLives
      BY <3>1, NotificationAssumption DEF NotificationAssumption
    <3> QED BY <3>1, <3>2
  <2> QED BY <2>1, <2>2
<1>7. MirrorTypeOK'
  BY <1>1, <1>2, <1>4, <1>5, <1>6 DEF MirrorTypeOK, IInv, Rosters
<1>8. EmptyInv' /\ NoGhosts'
  BY <1>1, <1>6 DEF EmptyInv, NoGhosts, NoRoster, Known
<1>9. WireInv'
  <2>1. inbox' \in Seq(Messages) /\ pending' \in Seq(Events)
    BY <1>1
  <2>2. asked' \subseteq [gen : Nat, life : 0 .. MaxLives]
    <3>1. life \in 0 .. MaxLives
      BY <1>2
    <3> QED BY <1>3, <1>4, <3>1
  <2> QED BY <1>1, <2>1, <2>2 DEF MirrorInv, WireInv
<1>10. DOMAIN inbox' = {} /\ Len(inbox') + 1 = 1
  BY <1>1
<1>11. LifeInv' /\ GenInv'
  <2>1. LifeInv'
    BY <1>2, <1>6, <1>10 DEF LifeInv
  <2>2. GenInv'
    BY <1>1, <1>3, <1>4, <1>10 DEF GenInv
  <2> QED BY <2>1, <2>2
<1>12. ChainInv'
  BY <1>2, <1>3, <1>10 DEF ChainInv, Chained, Ownerless, NoneBetween
<1>13. FreshInv'
  <2> SUFFICES ASSUME daemon' = "serving" PROVE FreshInv'
    BY DEF FreshInv
  <2>1. buffering'
    BY <1>2, <1>3
  <2>2. \A x : ~IsDue(x)'
    BY <1>1, <1>10 DEF IsDue
  <2>3. Latest(inbox', Roster', life')
    BY <1>10 DEF Latest
  <2>4. Roster' \in Rosters
    <3>1. Roster' = Roster
      BY <1>2 DEF Roster, Live, Entry
    <3> QED BY <3>1, RosterTyped DEF MirrorInv, IInv
  <2>5. Replayable(pending', inbox', Roster', life')
    BY <1>1, <2>4, ReplayableUse
  <2> QED BY <2>1, <2>2, <2>3, <2>5 DEF FreshInv
<1> QED BY <1>2, <1>7, <1>8, <1>9, <1>11, <1>12, <1>13 DEF MirrorInv

(* What hearing any message leaves. *)
LEMMA HearingLeaves ==
  ASSUME MirrorInv, inbox # <<>>, inbox' = Tail(inbox), UNCHANGED <<notifVars, replies, calls, shells>>
  PROVE  /\ IInv' /\ UNCHANGED <<daemon, life, history>> /\ Roster' = Roster /\ Roster \in Rosters
         /\ life \in 1 .. MaxLives
         /\ inbox' \in Seq(Messages) /\ inbox[1] \in Messages /\ Head(inbox) = inbox[1] /\ 1 \in DOMAIN inbox
         /\ \A i \in DOMAIN inbox' : \E j \in DOMAIN inbox : inbox'[i] = inbox[j]
         /\ mirror \in Rosters /\ pending \in Seq(Events) /\ inbox \in Seq(Messages)
<1>1. IInv'
  BY Step DEF MirrorInv
<1>2. UNCHANGED <<daemon, life, history>>
  BY DEF notifVars, daemonVars, rosterVars
<1>3. Roster' = Roster /\ Roster \in Rosters
  BY <1>2, RosterTyped DEF Roster, Live, Entry, MirrorInv, IInv
<1>4. mirror \in Rosters /\ pending \in Seq(Events) /\ inbox \in Seq(Messages) /\ life \in 1 .. MaxLives
  BY DEF MirrorInv, WireInv, MirrorTypeOK, Rosters, IInv, ServerTypeOK
<1>5. /\ inbox' \in Seq(Messages) /\ inbox[1] \in Messages /\ Head(inbox) = inbox[1] /\ 1 \in DOMAIN inbox
      /\ \A i \in DOMAIN inbox' : \E j \in DOMAIN inbox : inbox'[i] = inbox[j]
  BY <1>4, Tailed
<1> QED BY <1>1, <1>2, <1>3, <1>4, <1>5

(* The name comes or goes.  It comes when the shell knows of none. *)
LEMMA OwnerHeard ==
  ASSUME MirrorInv, inbox # <<>>, inbox' = Tail(inbox), UNCHANGED <<notifVars, replies, calls, shells>>,
         inbox[1].type = "owner", Reconnect(inbox[1].life)
  PROVE  MirrorInv'
<1> DEFINE l == inbox[1].life
<1>0. /\ IInv' /\ UNCHANGED <<daemon, life, history>> /\ Roster' = Roster /\ Roster \in Rosters
      /\ life \in 1 .. MaxLives
      /\ inbox' \in Seq(Messages) /\ inbox[1] \in Messages /\ 1 \in DOMAIN inbox
      /\ \A i \in DOMAIN inbox' : \E j \in DOMAIN inbox : inbox'[i] = inbox[j]
      /\ mirror \in Rosters /\ pending \in Seq(Events) /\ inbox \in Seq(Messages)
  BY HearingLeaves
<1>1. l \in 0 .. MaxLives /\ Owns(inbox[1]) /\ ~IsSignal(inbox[1], life) /\ inbox[1].type # "list"
  BY <1>0, MessageParts DEF Owners, Owns, IsSignal
<1>2. l # 0 => owner = 0
  BY <1>0, <1>1, OwnerlessTail DEF MirrorInv, ChainInv
<1>3. /\ generation' = generation + 1 /\ unlisted' = FALSE /\ owner' = l /\ pending' = <<>>
      /\ mirror' = NoRoster /\ told' = {}
      /\ buffering' \in BOOLEAN /\ (buffering' <=> l # 0)
      /\ \A a \in asked' : a \in asked \/ a = [gen |-> generation', life |-> l]
  <2>1. CASE l = 0
    BY <2>1 DEF Reconnect, ForgetAll, MirrorInv, NoGhosts
  <2>2. CASE l # 0
    <3>1. mirror = NoRoster /\ told = {}
      BY <1>2, <2>2 DEF MirrorInv, EmptyInv, NoGhosts, Known, NoRoster
    <3> QED BY <2>2, <3>1 DEF Reconnect, AskList
  <2> QED BY <2>1, <2>2
<1> HIDE DEF l
<1>4. generation \in Nat /\ generation' \in Nat /\ generation < generation'
  BY <1>3 DEF MirrorInv, MirrorTypeOK
<1>5. NoRoster \in Rosters
  BY NotificationAssumption DEF NotificationAssumption, NoRoster, Rosters
<1>6. MirrorTypeOK'
  BY <1>0, <1>1, <1>3, <1>4, <1>5 DEF MirrorTypeOK, IInv, Rosters
<1>7. EmptyInv' /\ NoGhosts'
  <2>1. EmptyInv'
    BY <1>3 DEF EmptyInv, NoRoster
  <2> QED BY <1>3, <2>1 DEF NoGhosts
<1>8. WireInv'
  <2>1. pending' \in Seq(Events)
    BY <1>3
  <2>2. asked' \subseteq [gen : Nat, life : 0 .. MaxLives]
    BY <1>1, <1>3, <1>4 DEF MirrorInv, WireInv
  <2> QED BY <1>0, <2>1, <2>2 DEF MirrorInv, WireInv
<1>9. LifeInv'
  <2>1. l <= life /\ (daemon = "public" => l < life)
    BY <1>0, <1>1 DEF MirrorInv, LifeInv, l
  <2> QED BY <1>0, <1>3, <2>1 DEF MirrorInv, LifeInv
<1>10. /\ \A r \in replies' : r.gen < generation'
       /\ \A i \in DOMAIN inbox' : inbox'[i].type = "list" => inbox'[i].gen < generation'
  <2>1. \A r \in replies : r.gen < generation'
    BY <1>4 DEF MirrorInv, GenInv, WireInv
  <2>2. ASSUME NEW j \in DOMAIN inbox, inbox[j].type = "list" PROVE inbox[j].gen < generation'
    <3>1. inbox[j] \in Lists
      BY <1>0, <2>2, MessageParts
    <3> QED BY <1>4, <2>2, <3>1 DEF MirrorInv, GenInv, Lists
  <2> QED BY <1>0, <2>1, <2>2
<1>11. GenInv'
  <2>1. \A r \in replies' : r.gen <= generation'
    BY <1>4, <1>10 DEF MirrorInv, WireInv
  <2>2. \A i \in DOMAIN inbox' : inbox'[i].type = "list" => inbox'[i].gen <= generation'
    <3>1. \A i \in DOMAIN inbox' : inbox'[i].type = "list" => inbox'[i].gen \in Nat
      <4>1. \A i \in DOMAIN inbox' : inbox'[i] \in Messages
        BY <1>0
      <4> QED BY <4>1, MessageParts DEF Lists
    <3> QED BY <1>4, <1>10, <3>1
  <2>3. \A a \in asked' : a.gen <= generation'
    BY <1>3, <1>4 DEF MirrorInv, GenInv, WireInv
  <2> QED BY <2>1, <2>2, <2>3 DEF GenInv
<1>12. ChainInv'
  <2>1. Len(inbox) \in Nat /\ Len(inbox) > 0 /\ Len(inbox') + 1 = Len(inbox) /\ Len(inbox) \in 1 .. Len(inbox)
    BY <1>0, Tailed
  <2>2. Chained(inbox', owner')
    BY <1>0, <1>1, <1>3, OwnerlessTail DEF MirrorInv, ChainInv, l
  <2>3. daemon # "serving" => Ownerless(inbox', owner', Len(inbox))
    BY <1>0, <1>1, <1>3, <2>1, OwnerlessTail DEF MirrorInv, ChainInv, l
  <2> QED BY <1>0, <2>1, <2>2, <2>3 DEF ChainInv
<1>13. FreshInv'
  <2> SUFFICES ASSUME daemon = "serving" PROVE FreshInv'
    BY <1>0 DEF FreshInv
  <2>1. Latest(inbox', Roster', life')
    BY <1>0, LatestTail DEF MirrorInv, FreshInv
  <2>2. \A x : ~IsDue(x)'
    BY <1>4, <1>10 DEF IsDue
  <2>3. Replayable(pending', inbox', Roster', life')
    BY <1>0, <1>3, ReplayableUse
  <2>4. owner' = life' => buffering'
    BY <1>0, <1>3
  <2> QED BY <2>1, <2>2, <2>3, <2>4 DEF FreshInv
<1> QED BY <1>0, <1>6, <1>7, <1>8, <1>9, <1>11, <1>12, <1>13 DEF MirrorInv

(* Hearing anything but the name and the signals of this life changes nothing but the
   queue: what holds of it is kept. *)
LEMMA OthersHeard ==
  ASSUME MirrorInv, inbox # <<>>, inbox' = Tail(inbox), UNCHANGED <<notifVars, replies, calls, shells>>,
         inbox[1].type # "owner", UNCHANGED <<asked, owner, generation, unlisted>>
  PROVE  /\ LifeInv' /\ GenInv' /\ ChainInv'
         /\ \A x : IsDue(x)' => IsDue(x)
         /\ daemon = "serving" => Latest(inbox', Roster, life)
<1>0. /\ IInv' /\ UNCHANGED <<daemon, life, history>> /\ Roster' = Roster /\ Roster \in Rosters
      /\ inbox' \in Seq(Messages) /\ inbox[1] \in Messages /\ 1 \in DOMAIN inbox
      /\ \A i \in DOMAIN inbox' : \E j \in DOMAIN inbox : inbox'[i] = inbox[j]
      /\ inbox \in Seq(Messages)
  BY HearingLeaves
<1>1. LifeInv' /\ GenInv' /\ \A x : IsDue(x)' => IsDue(x)
  <2>1. LifeInv'
    BY <1>0 DEF MirrorInv, LifeInv
  <2>2. GenInv'
    BY <1>0 DEF MirrorInv, GenInv
  <2>3. \A x : IsDue(x)' => IsDue(x)
    BY <1>0 DEF IsDue
  <2> QED BY <2>1, <2>2, <2>3
<1>2. ChainInv'
  <2>1. Len(inbox) \in Nat /\ Len(inbox) > 0 /\ Len(inbox') + 1 = Len(inbox) /\ Len(inbox) \in 1 .. Len(inbox)
    BY <1>0, Tailed
  <2>2. ~Owns(inbox[1])
    BY DEF Owns
  <2>3. Chained(inbox', owner')
    BY <1>0, <2>2, OwnerlessTail DEF MirrorInv, ChainInv
  <2>4. daemon # "serving" => Ownerless(inbox', owner', Len(inbox))
    BY <1>0, <2>1, <2>2, OwnerlessTail DEF MirrorInv, ChainInv
  <2> QED BY <1>0, <2>1, <2>3, <2>4 DEF ChainInv
<1>3. daemon = "serving" => Latest(inbox', Roster, life)
  BY <1>0, LatestTail DEF MirrorInv, FreshInv
<1> QED BY <1>1, <1>2, <1>3

LEMMA EventHeard ==
  ASSUME MirrorInv, inbox # <<>>, inbox' = Tail(inbox), UNCHANGED <<notifVars, replies, calls, shells>>,
         inbox[1].type \in {"notified", "resolved"}, Event(inbox[1])
  PROVE  MirrorInv'
<1> DEFINE e == inbox[1]
<1>0. /\ IInv' /\ UNCHANGED <<daemon, life, history>> /\ Roster' = Roster /\ Roster \in Rosters
      /\ life \in 1 .. MaxLives
      /\ inbox' \in Seq(Messages) /\ inbox[1] \in Messages
      /\ mirror \in Rosters /\ pending \in Seq(Events) /\ inbox \in Seq(Messages)
  BY HearingLeaves
<1>1. e \in Events /\ e.id \in Ids /\ e.version \in 0 .. MaxNotify /\ e.life # 0
      /\ (e.type = "resolved" <=> e.version = 0) /\ e.type \in {"notified", "resolved"}
  BY <1>0, MessageParts DEF Events
<1>2. UNCHANGED <<asked, owner, generation, buffering, unlisted>>
  BY DEF Event
<1>3. /\ LifeInv' /\ GenInv' /\ ChainInv'
      /\ \A x : IsDue(x)' => IsDue(x)
      /\ daemon = "serving" => Latest(inbox', Roster, life)
  BY <1>1, <1>2, OthersHeard
<1>4. /\ e.life # owner => UNCHANGED <<pending, mirror, told>>
      /\ e.life = owner /\ buffering => pending' = Append(pending, e) /\ UNCHANGED <<mirror, told>>
      /\ e.life = owner /\ ~buffering =>
           /\ pending' = pending /\ mirror' = Apply(mirror, e)
           /\ told' = IF e.type = "notified" THEN told \cup {e.id} ELSE told \ {e.id}
  BY DEF Event, Buffer
<1>5. IsSignal(e, life) <=> e.life = life
  BY <1>1 DEF IsSignal
<1> HIDE DEF e
<1>6. Apply(mirror, e) \in Rosters /\ \A id \in Ids : Apply(mirror, e)[id] = IF id = e.id THEN e.version ELSE mirror[id]
  BY <1>0, <1>1 DEF Apply, Rosters
<1>7. mirror' \in Rosters /\ pending' \in Seq(Events)
  BY <1>0, <1>1, <1>4, <1>6
<1>8. NoGhosts'
  <2>1. CASE e.life = owner /\ ~buffering
    <3>1. told \subseteq Known(mirror)
      BY DEF MirrorInv, NoGhosts
    <3>2. ASSUME NEW id \in told' PROVE id \in Ids /\ mirror'[id] # 0
      <4>1. CASE id = e.id
        <5>1. e.type = "notified"
          BY <1>1, <1>4, <2>1, <3>2, <4>1
        <5>2. e.version # 0
          BY <1>1, <5>1
        <5> QED BY <1>1, <1>4, <1>6, <2>1, <4>1, <5>2
      <4>2. CASE id # e.id
        <5>1. id \in told
          BY <1>4, <2>1, <3>2, <4>2
        <5>2. id \in Ids /\ mirror[id] # 0
          BY <3>1, <5>1 DEF Known
        <5> QED BY <1>4, <1>6, <2>1, <4>2, <5>2
      <4> QED BY <4>1, <4>2
    <3> QED BY <3>2 DEF NoGhosts, Known
  <2>2. CASE ~(e.life = owner /\ ~buffering)
    <3>1. UNCHANGED <<mirror, told>>
      BY <1>4, <2>2
    <3> QED BY <3>1 DEF MirrorInv, NoGhosts, Known
  <2> QED BY <2>1, <2>2
<1>9. MirrorTypeOK'
  <2>1. told' \subseteq Ids
    BY <1>8 DEF NoGhosts, Known
  <2> QED BY <1>0, <1>2, <1>7, <2>1 DEF MirrorInv, MirrorTypeOK, IInv, Rosters
<1>10. EmptyInv'
  BY <1>1, <1>2, <1>4 DEF MirrorInv, EmptyInv, NoRoster
<1>11. WireInv'
  BY <1>0, <1>2, <1>7 DEF MirrorInv, WireInv
<1>12. FreshInv'
  <2> SUFFICES ASSUME daemon = "serving" PROVE FreshInv'
    BY <1>0 DEF FreshInv
  <2>1. Latest(inbox, Roster, life) /\ Latest(inbox', Roster', life')
    BY <1>0, <1>3 DEF MirrorInv, FreshInv
  <2>2. CASE owner = life /\ ~buffering /\ ~unlisted
    <3>1. UpToDate(mirror, inbox, Roster, life)
      BY <2>2 DEF MirrorInv, FreshInv
    <3>2. UpToDate(mirror', inbox', Roster, life)
      <4>1. CASE e.life = life
        BY <1>0, <1>4, <1>5, <2>1, <2>2, <3>1, <4>1, KeptByHearing DEF e
      <4>2. CASE e.life # life
        BY <1>0, <1>4, <1>5, <2>2, <3>1, <4>2, KeptByTail DEF e
      <4> QED BY <4>1, <4>2
    <3> QED BY <1>0, <1>2, <2>1, <2>2, <3>2 DEF FreshInv
  <2>3. CASE owner = life /\ buffering
    <3>1. /\ Replayable(pending, inbox, Roster, life)
          /\ \A x \in Rosters : IsDue(x) => UpToDate(Replayed(x, pending), inbox, Roster, life)
      BY <2>3 DEF MirrorInv, FreshInv
    <3>2. \A x \in Rosters : Replayed(x, pending) \in Rosters
      BY <1>0, ReplayedTyped
    <3>3. CASE e.life = life
      <4>1. pending' = Append(pending, e)
        BY <1>4, <2>3, <3>3
      <4>2. \A x \in Rosters : Replayed(x, pending') = Apply(Replayed(x, pending), e)
        BY <1>0, <1>1, <4>1, ReplayedOne
      <4>3. Replayable(pending', inbox', Roster, life)
        BY <1>0, <1>5, <2>1, <3>1, <3>3, <4>1, KeptByHearing DEF e
      <4>4. \A x \in Rosters : IsDue(x)' => UpToDate(Apply(Replayed(x, pending), e), inbox', Roster, life)
        BY <1>0, <1>3, <1>5, <2>1, <3>1, <3>2, <3>3, KeptByHearing DEF e
      <4> QED BY <1>0, <1>2, <2>1, <2>3, <4>2, <4>3, <4>4 DEF FreshInv
    <3>4. CASE e.life # life
      <4>1. pending' = pending
        BY <1>4, <2>3, <3>4
      <4>2. Replayable(pending', inbox', Roster, life)
        BY <1>0, <1>5, <3>1, <3>4, <4>1, KeptByTail DEF e
      <4>3. \A x \in Rosters : IsDue(x)' => UpToDate(Replayed(x, pending'), inbox', Roster, life)
        BY <1>0, <1>3, <1>5, <3>1, <3>2, <3>4, <4>1, KeptByTail DEF e
      <4> QED BY <1>0, <1>2, <2>1, <2>3, <4>2, <4>3 DEF FreshInv
    <3> QED BY <3>3, <3>4
  <2>4. CASE ~(owner = life /\ (buffering \/ (~buffering /\ ~unlisted)))
    BY <1>0, <1>2, <2>1, <2>4 DEF FreshInv
  <2> QED BY <2>2, <2>3, <2>4
<1> QED BY <1>0, <1>3, <1>8, <1>9, <1>10, <1>11, <1>12 DEF MirrorInv

(* The List's reply, on which the buffer is replayed. *)
LEMMA ListHeard ==
  ASSUME MirrorInv, inbox # <<>>, inbox' = Tail(inbox), UNCHANGED <<notifVars, replies, calls, shells>>,
         inbox[1].type = "list", Hydrate(inbox[1])
  PROVE  MirrorInv'
<1> DEFINE e == inbox[1]
<1>0. /\ IInv' /\ UNCHANGED <<daemon, life, history>> /\ Roster' = Roster /\ Roster \in Rosters
      /\ inbox' \in Seq(Messages) /\ inbox[1] \in Messages /\ 1 \in DOMAIN inbox
      /\ mirror \in Rosters /\ pending \in Seq(Events) /\ inbox \in Seq(Messages)
  BY HearingLeaves
<1>1. e \in Lists /\ e.roster \in Rosters /\ e.type = "list" /\ ~IsSignal(e, life)
  BY <1>0, MessageParts DEF Lists, IsSignal
<1>2. UNCHANGED <<asked, owner, generation, unlisted>>
  BY DEF Hydrate
<1>3. /\ LifeInv' /\ GenInv' /\ ChainInv'
      /\ \A x : IsDue(x)' => IsDue(x)
      /\ daemon = "serving" => Latest(inbox', Roster, life)
  BY <1>1, <1>2, OthersHeard
<1>4. /\ buffering /\ e.gen = generation =>
           /\ mirror' = Replayed(e.roster, pending)
           /\ told' = told \ (Known(mirror) \ Known(mirror'))
           /\ buffering' = FALSE /\ pending' = <<>>
      /\ ~(buffering /\ e.gen = generation) => UNCHANGED <<mirror, told, buffering, pending>>
  BY DEF Hydrate, Replayed
<1>5. e.gen = generation => IsDue(e.roster)
  BY <1>0, <1>1 DEF IsDue
<1>6. /\ \A m \in Rosters : UpToDate(m, inbox, Roster, life) => UpToDate(m, inbox', Roster, life)
      /\ \A p \in Seq(Events) : Replayable(p, inbox, Roster, life) => Replayable(p, inbox', Roster, life)
  BY <1>0, <1>1, KeptByTail
<1>7. \A x \in Rosters : Replayed(x, pending) \in Rosters
  BY <1>0, ReplayedTyped
<1> HIDE DEF e
<1>8. CASE buffering /\ e.gen = generation
  <2>1. mirror' \in Rosters /\ pending' \in Seq(Events) /\ buffering' = FALSE
    BY <1>1, <1>4, <1>7, <1>8
  <2>2. told \subseteq Known(mirror)
    BY DEF MirrorInv, NoGhosts
  <2>3. NoGhosts'
    BY <1>4, <1>8, <2>2 DEF NoGhosts
  <2>4. told' \subseteq Ids
    BY <2>3 DEF NoGhosts, Known
  <2>5. MirrorTypeOK'
    BY <1>0, <1>2, <2>1, <2>4 DEF MirrorInv, MirrorTypeOK, IInv, Rosters
  <2>6. EmptyInv'
    BY <1>2, <1>8, <2>1 DEF MirrorInv, EmptyInv
  <2>7. WireInv'
    BY <1>0, <1>2, <2>1 DEF MirrorInv, WireInv
  <2>8. FreshInv'
    <3> SUFFICES ASSUME daemon = "serving" PROVE FreshInv'
      BY <1>0 DEF FreshInv
    <3>1. ASSUME owner = life PROVE UpToDate(mirror', inbox', Roster, life)
      <4>1. UpToDate(mirror', inbox, Roster, life)
        BY <1>1, <1>4, <1>5, <1>8, <3>1 DEF MirrorInv, FreshInv
      <4> QED BY <1>6, <2>1, <4>1
    <3> QED BY <1>0, <1>2, <1>3, <2>1, <3>1 DEF FreshInv
  <2> QED BY <1>0, <1>3, <2>3, <2>5, <2>6, <2>7, <2>8 DEF MirrorInv
<1>9. CASE ~(buffering /\ e.gen = generation)
  <2>1. UNCHANGED <<mirror, told, buffering, pending>>
    BY <1>4, <1>9
  <2>2. MirrorTypeOK' /\ EmptyInv' /\ NoGhosts' /\ WireInv'
    BY <1>0, <1>2, <2>1 DEF MirrorInv, MirrorTypeOK, IInv, EmptyInv, NoGhosts, Known, NoRoster, WireInv
  <2>3. FreshInv'
    BY <1>0, <1>2, <1>3, <1>6, <1>7, <2>1 DEF MirrorInv, FreshInv
  <2> QED BY <1>0, <1>3, <2>2, <2>3 DEF MirrorInv
<1> QED BY <1>8, <1>9

LEMMA HearsKeeps == ASSUME MirrorInv, ShellHears PROVE MirrorInv'
<1>1. /\ inbox # <<>> /\ inbox' = Tail(inbox) /\ UNCHANGED <<notifVars, replies, calls, shells>>
      /\ \/ Head(inbox).type = "owner" /\ Reconnect(Head(inbox).life)
         \/ Head(inbox).type \in {"notified", "resolved"} /\ Event(Head(inbox))
         \/ Head(inbox).type = "list" /\ Hydrate(Head(inbox))
  BY DEF ShellHears
<1>2. Head(inbox) = inbox[1]
  BY <1>1, HearingLeaves
<1> QED BY <1>1, <1>2, OwnerHeard, EventHeard, ListHeard

-----------------------------------------------------------------------------
LEMMA MirrorInitInv == MirrorInit => MirrorInv
<1> SUFFICES ASSUME MirrorInit PROVE MirrorInv
  OBVIOUS
<1>1. IInv
  BY InitIInv DEF MirrorInit
<1>2. 0 \in 0 .. MaxLives /\ 0 \in 0 .. MaxNotify
  BY NotificationAssumption DEF NotificationAssumption
<1>3. MirrorTypeOK
  BY <1>1, <1>2 DEF MirrorInit, MirrorTypeOK, IInv, NoRoster
<1>4. WireInv /\ GenInv /\ EmptyInv /\ NoGhosts
  BY DEF MirrorInit, WireInv, GenInv, EmptyInv, NoGhosts
<1>5. LifeInv
  BY DEF MirrorInit, Init, LifeInv
<1>6. ChainInv
  BY DEF MirrorInit, ChainInv, Chained, Ownerless, NoneBetween
<1>7. FreshInv
  BY DEF MirrorInit, Init, FreshInv
<1> QED BY <1>1, <1>3, <1>4, <1>5, <1>6, <1>7 DEF MirrorInv

LEMMA MirrorStep == MirrorInv /\ [MirrorNext]_mirrorVars => MirrorInv'
<1> SUFFICES ASSUME MirrorInv, [MirrorNext]_mirrorVars PROVE MirrorInv'
  OBVIOUS
<1>1. CASE Handlers
  BY <1>1, NotifyKeeps, CloseKeeps, ExpiryKeeps, ShellCallKeeps, TakeListKeeps, SendListKeeps DEF Handlers
<1>2. CASE Lives
  BY <1>2, WriteKeeps, EndsKeeps, StartKeeps, ClaimKeeps DEF Lives
<1>3. CASE Shell
  BY <1>3, HearsKeeps, ListFailsKeeps, RestartKeeps, PressKeeps DEF Shell
<1>4. CASE UNCHANGED mirrorVars
  <2>1. UNCHANGED <<notifVars, inbox, asked, replies, calls, shellVars>>
    BY <1>4 DEF mirrorVars, wireVars
  <2>2. IInv'
    BY <2>1, Step DEF MirrorInv
  <2>3. UNCHANGED <<daemon, life, history, pending>>
    BY <2>1 DEF notifVars, daemonVars, rosterVars, shellVars
  <2>4. Roster' = Roster
    BY <2>3 DEF Roster, Live, Entry
  <2>5. WireInv'
    BY <2>1, <2>3 DEF MirrorInv, WireInv
  <2> QED BY <2>1, <2>2, <2>3, <2>4, <2>5, QuietKeeps
<1> QED BY <1>1, <1>2, <1>3, <1>4 DEF MirrorNext

THEOREM MirrorInductive == MirrorSpec => []MirrorInv
  BY MirrorInitInv, MirrorStep, PTL DEF MirrorSpec

(* Type correctness of the server and its mirror together, whatever the bounds. *)
THEOREM MirrorIsTyped == MirrorSpec => []MirrorTypeOK
<1>1. MirrorInv => MirrorTypeOK
  BY DEF MirrorInv
<1> QED BY <1>1, MirrorInductive, PTL

(* No surface keeps a banner of a notification the shell does not have, whatever is
   restarted, fails or is late. *)
THEOREM MirrorLeavesNoGhost == MirrorSpec => []NoGhosts
<1>1. MirrorInv => NoGhosts
  BY DEF MirrorInv
<1> QED BY <1>1, MirrorInductive, PTL

(* A shell that has heard everything has the daemon's roster, each notification in its
   last version: however many signals, restarts and List calls raced each other. *)
THEOREM MirrorFollows == MirrorSpec => []MirrorIsHistory
<1>1. MirrorInv => MirrorIsHistory
  <2> SUFFICES ASSUME MirrorInv, Settled PROVE mirror = Roster
    BY DEF MirrorIsHistory
  <2>1. UpToDate(mirror, <<>>, Roster, life)
    BY DEF MirrorInv, FreshInv, Settled
  <2>2. \A id \in Ids : mirror[id] = Roster[id]
    BY <2>1 DEF UpToDate, Silent
  <2>3. mirror \in Rosters /\ Roster \in Rosters
    BY RosterTyped DEF MirrorInv, MirrorTypeOK, IInv, Rosters
  <2> QED BY <2>2, <2>3 DEF Rosters
<1> QED BY <1>1, MirrorInductive, PTL
=============================================================================
