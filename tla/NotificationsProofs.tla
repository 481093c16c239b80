------------------------ MODULE NotificationsProofs ------------------------
(***************************************************************************)
(* Proofs about Notifications, for any ceiling of the ids, any shapes and  *)
(* any bounds.                                                             *)
(***************************************************************************)
EXTENDS Notifications, FiniteSetTheorems, TLAPS

USE NotificationAssumption DEF NotificationAssumption

-----------------------------------------------------------------------------
(***************************************************************************)
(* An id for a new notification.                                           *)
(***************************************************************************)
(* A set of naturals that has an element has a least one. *)
LEMMA LeastExists ==
  ASSUME NEW S \in SUBSET Nat, S # {}
  PROVE  \E x \in S : \A y \in S : x <= y
<1> DEFINE Less == OpToRel(<, Nat)
<1>1. IsWellFoundedOn(Less, Nat)
  BY NatLessThanWellFounded
<1>2. PICK x \in S : \A y \in S : <<y, x>> \notin Less
  <2> HIDE DEF Less
  <2> QED BY <1>1, WFMin
<1>3. \A y \in S : ~(y < x)
  BY <1>2 DEF OpToRel
<1> QED BY <1>3

(* A set of ids that has an element has a greatest one. *)
LEMMA GreatestExists ==
  ASSUME NEW S \in SUBSET Ids, S # {}
  PROVE  \E x \in S : \A y \in S : y <= x
<1> DEFINE T == {MAX_ID - x : x \in S}
<1>1. T \in SUBSET Nat /\ T # {}
  <2>1. \A x \in S : MAX_ID - x \in Nat
    BY DEF Ids
  <2> QED BY <2>1
<1>2. PICK t \in T : \A u \in T : t <= u
  <2> HIDE DEF T
  <2> QED BY <1>1, LeastExists
<1>3. PICK x \in S : t = MAX_ID - x
  BY <1>2
<1>4. \A y \in S : MAX_ID - x <= MAX_ID - y
  BY <1>2, <1>3
<1> QED BY <1>3, <1>4 DEF Ids

(* allocate's search ends at an id that no live notification has, if there is one. *)
LEMMA FreshIsFree ==
  ASSUME next \in Ids, Ids \ Live # {}
  PROVE  Fresh \in Ids \ Live
<1> DEFINE from(id) == (id + MAX_ID - next) % MAX_ID
           T == {from(id) : id \in Ids \ Live}
<1>1. \A id \in Ids : from(id) \in Nat
  BY DEF Ids
<1>2. T \in SUBSET Nat /\ T # {}
  BY <1>1
<1>3. PICK t \in T : \A u \in T : t <= u
  <2> HIDE DEF T
  <2> QED BY <1>2, LeastExists
<1>4. PICK id \in Ids \ Live : t = from(id)
  BY <1>3
<1>5. \A other \in Ids \ Live : from(id) <= from(other)
  BY <1>3, <1>4
<1>6. Fresh = CHOOSE i \in Ids \ Live : \A other \in Ids \ Live : from(i) <= from(other)
  BY DEF Fresh
<1> HIDE DEF from
<1> QED BY <1>4, <1>5, <1>6

-----------------------------------------------------------------------------
(***************************************************************************)
(* The inductive invariant.                                                *)
(***************************************************************************)
\* An expiry task that sleeps is the one its id's handle aborts, and was set for
\* the notification that has the id.
TaskInv ==
  \A t \in tasks :
    /\ timers[t.id] = t.version
    /\ \E n \in history : n.id = t.id /\ n.version = t.version

\* What the store holds is a roster, and a daemon that is down has none.
StoreInv ==
  /\ \A n \in disk : ~n.shape.transient
  /\ \A m, n \in disk : m.id = n.id => m = n
  /\ ~Up => history = {}

IInv == ServerTypeOK /\ TaskInv /\ StoreInv /\ StoreFollows

LEMMA InitIInv == Init => IInv
<1> SUFFICES ASSUME Init PROVE IInv
  OBVIOUS
<1>1. /\ next \in Ids /\ timers \in [Ids -> 0 .. MaxNotify] /\ life \in 1 .. MaxLives
      /\ sent \in 0 .. MaxNotify
  BY DEF Init, Ids
<1>3. ServerTypeOK
  BY <1>1 DEF Init, ServerTypeOK
<1>2. TaskInv /\ StoreInv /\ StoreFollows
  BY DEF Init, TaskInv, StoreInv, StoreFollows, Stored
<1> QED BY <1>2, <1>3 DEF IInv

(* The id a Notify is given: its own, or one that no live notification has. *)
LEMMA AllocateIsSafe ==
  ASSUME next \in Ids, history \subseteq Entries, NEW replaces \in 0 .. MAX_ID + 1,
         replaces \in Ids \/ Live # Ids
  PROVE  /\ Allocate(replaces) \in Ids
         /\ Allocate(replaces) \in Live => Allocate(replaces) = replaces
         /\ NextAfter(Allocate(replaces), replaces) \in Ids
<1>1. Live \subseteq Ids
  BY DEF Live, Entries
<1>2. replaces \in Ids \/ Fresh \in Ids \ Live
  BY <1>1, FreshIsFree
<1>3. /\ Allocate(replaces) \in Ids
      /\ Allocate(replaces) \in Live => Allocate(replaces) = replaces
  BY <1>2 DEF Allocate
<1>4. \A id \in Ids : After(id) \in Ids
  BY DEF After, Ids
<1>5. NextAfter(Allocate(replaces), replaces) \in Ids
  BY <1>3, <1>4 DEF NextAfter
<1> QED BY <1>3, <1>5

(* A Notify keeps the invariant. *)
LEMMA NotifyStep ==
  ASSUME IInv, NEW replaces \in 0 .. MAX_ID + 1, NEW shape \in Shapes, Notify(replaces, shape)
  PROVE  IInv'
<1> DEFINE id == Allocate(replaces)
           version == sent + 1
           n == [id |-> id, version |-> version, replaces |-> replaces, shape |-> shape]
<1>1. id \in Ids /\ NextAfter(id, replaces) \in Ids
  BY AllocateIsSafe DEF IInv, ServerTypeOK, Notify
<1>2. version \in Versions /\ sent' = version /\ version \in 0 .. MaxNotify
  BY DEF IInv, ServerTypeOK, Notify, Versions
<1>3. n \in Entries
  BY <1>1, <1>2 DEF Entries
<1>4. history' = Without(id) \cup {n} /\ next' = NextAfter(id, replaces)
  BY DEF Notify, Enter
<1>5. RestartTimer(id, version, shape.timed)
  BY DEF Notify
<1>6. UNCHANGED <<daemon, life, restored, disk, unwritten>> /\ flush' = TRUE /\ Up
  BY DEF Notify, QueueFlush, daemonVars
<1> HIDE DEF n, id, version
<1>7. n.id = id /\ n.version = version
  BY DEF n
<1>8. /\ timers' \in [Ids -> 0 .. MaxNotify]
      /\ tasks' \subseteq [id : Ids, version : Versions]
  BY <1>1, <1>2, <1>5 DEF IInv, ServerTypeOK, RestartTimer, ClearTimer, Unaborted
<1>9. ServerTypeOK'
  BY <1>1, <1>2, <1>3, <1>4, <1>6, <1>7, <1>8 DEF IInv, ServerTypeOK, Without
<1>10. TaskInv'
  <2> SUFFICES ASSUME NEW t \in tasks'
               PROVE  timers'[t.id] = t.version /\ \E m \in history' : m.id = t.id /\ m.version = t.version
    BY DEF TaskInv
  <2>1. CASE t \in Unaborted(id)
    <3>1. t.id # id /\ t \in tasks
      BY <2>1 DEF Unaborted, IInv, TaskInv
    <3>2. timers'[t.id] = timers[t.id]
      BY <3>1, <1>5 DEF RestartTimer, ClearTimer, IInv, ServerTypeOK
    <3> QED BY <3>1, <3>2, <1>4 DEF IInv, TaskInv, Without
  <2>2. CASE t \notin Unaborted(id)
    <3>1. t = [id |-> id, version |-> version] /\ timers' = [timers EXCEPT ![id] = version]
      BY <2>2, <1>5 DEF RestartTimer, ClearTimer
    <3> QED BY <3>1, <1>1, <1>4, <1>7 DEF IInv, ServerTypeOK
  <2> QED BY <2>1, <2>2
<1>11. StoreInv' /\ StoreFollows'
  BY <1>6 DEF IInv, StoreInv, StoreFollows, Up
<1> QED BY <1>9, <1>10, <1>11 DEF IInv

(* So does the end of a notification, closed or expired. *)
LEMMA RemovalStep ==
  ASSUME IInv, Up, NEW id \in Ids, Resolve(id),
         timers' = [timers EXCEPT ![id] = 0],
         tasks' \subseteq tasks, \A t \in tasks' : t.id # id
  PROVE  IInv'
<1>1. /\ history' = Without(id) /\ flush' = TRUE
      /\ UNCHANGED <<daemon, life, restored, next, disk, unwritten, sent>>
  BY DEF Resolve, FlushRemoval, QueueFlush, daemonVars
<1>2. ServerTypeOK'
  BY <1>1 DEF IInv, ServerTypeOK, Without
<1>3. TaskInv'
  BY <1>1 DEF IInv, TaskInv, ServerTypeOK, Without
<1>4. StoreInv' /\ StoreFollows'
  BY <1>1 DEF IInv, StoreInv, StoreFollows, Up
<1> QED BY <1>2, <1>3, <1>4 DEF IInv

LEMMA CloseStep ==
  ASSUME IInv, NEW id \in Ids, Close(id)
  PROVE  IInv'
<1>1. Up /\ Resolve(id) /\ timers' = [timers EXCEPT ![id] = 0] /\ tasks' = Unaborted(id)
  BY DEF Close, ClearTimer
<1>2. tasks' \subseteq tasks /\ \A t \in tasks' : t.id # id
  BY <1>1 DEF Unaborted, IInv, TaskInv
<1> QED BY <1>1, <1>2, RemovalStep

(* The id of an expiry that comes is live: nothing took its notification away. *)
LEMMA ExpiryIsLive ==
  ASSUME IInv, NEW t \in tasks, Expire(t)
  PROVE  t.id \in Ids /\ Up /\ Resolve(t.id)
<1>1. t.id \in Live
  BY DEF IInv, TaskInv, Live
<1> QED BY <1>1 DEF Expire, IInv, ServerTypeOK

LEMMA ExpireStep ==
  ASSUME IInv, NEW t \in tasks, Expire(t)
  PROVE  IInv'
<1>1. timers' = [timers EXCEPT ![t.id] = 0] /\ tasks' = tasks \ {t}
  BY DEF Expire
<1>2. \A other \in tasks : other.id = t.id => other = t
  <2>1. \A other \in tasks : other = [id |-> other.id, version |-> other.version]
    BY DEF IInv, ServerTypeOK
  <2>2. \A other \in tasks : other.id = t.id => other.version = t.version
    BY DEF IInv, TaskInv
  <2> QED BY <2>1, <2>2
<1> QED BY <1>1, <1>2, ExpiryIsLive, RemovalStep

(* A written store holds a roster without what is transient. *)
LEMMA PersistStep ==
  ASSUME IInv, Persist
  PROVE  /\ disk' \subseteq Entries /\ unwritten' \in BOOLEAN
         /\ \A n \in disk' : ~n.shape.transient
         /\ \A m, n \in disk' : m.id = n.id => m = n
         /\ disk' = Stored \/ unwritten'
  BY DEF IInv, ServerTypeOK, StoreInv, Persist, Stored

LEMMA FlushStep ==
  ASSUME IInv, Flush
  PROVE  IInv'
<1>1. UNCHANGED <<daemon, life, restored, history, next, timers, tasks, sent>> /\ flush' = FALSE /\ Up
  BY DEF Flush, daemonVars, rosterVars, taskVars
<1>2. ServerTypeOK'
  BY <1>1, PersistStep DEF Flush, IInv, ServerTypeOK
<1>3. TaskInv' /\ StoreInv'
  BY <1>1, PersistStep DEF Flush, IInv, TaskInv, StoreInv, Up
<1>4. StoreFollows'
  BY <1>1, PersistStep DEF Flush, StoreFollows, Stored
<1> QED BY <1>2, <1>3, <1>4 DEF IInv

(* The daemon's ends, its start and its name. *)
LEMMA LifeStep ==
  ASSUME IInv, Crash \/ Terminate \/ Start \/ Claim
  PROVE  IInv'
<1>1. CASE Crash \/ Terminate
  <2>1. Stop
    BY <1>1 DEF Crash, Terminate
  <2>2. /\ disk' \subseteq Entries /\ unwritten' \in BOOLEAN
        /\ \A n \in disk' : ~n.shape.transient
        /\ \A m, n \in disk' : m.id = n.id => m = n
    BY <1>1, PersistStep DEF Crash, Terminate, IInv, ServerTypeOK, StoreInv
  <2>3. ServerTypeOK'
    <3>1. timers' \in [Ids -> 0 .. MaxNotify] /\ daemon' = "down" /\ history' = {} /\ tasks' = {}
          /\ flush' = FALSE /\ UNCHANGED <<life, restored, next, sent>>
      BY <2>1 DEF Stop
    <3> QED BY <2>2, <3>1 DEF IInv, ServerTypeOK
  <2>4. TaskInv' /\ StoreInv' /\ StoreFollows'
    BY <2>1, <2>2 DEF Stop, TaskInv, StoreInv, StoreFollows, Up
  <2> QED BY <2>3, <2>4 DEF IInv
<1>2. CASE Start
  <2>1. /\ daemon' = "public" /\ life' = life + 1 /\ history' = disk /\ next' = NextOf(disk)
        /\ unwritten' = FALSE /\ restored' = {n.version : n \in disk}
        /\ UNCHANGED <<timers, tasks, flush, disk, sent>>
        /\ life < MaxLives /\ ~Up
    BY <1>2 DEF Start, taskVars, Up
  <2>2. NextOf(disk) \in Ids
    <3> DEFINE ids == {n.id : n \in disk}
    <3>1. ids \in SUBSET Ids
      BY DEF IInv, ServerTypeOK, Entries
    <3>2. CASE ids = {} \/ MAX_ID \in ids
      <4>1. NextOf(disk) = 1
        BY <3>2 DEF NextOf
      <4> QED BY <4>1 DEF Ids
    <3>3. CASE ~(ids = {} \/ MAX_ID \in ids)
      <4> DEFINE top == CHOOSE id \in ids : \A other \in ids : other <= id
      <4>1. top \in ids
        <5> HIDE DEF ids
        <5> QED BY <3>1, <3>3, GreatestExists
      <4>2. top + 1 \in Ids
        <5> HIDE DEF top, ids
        <5> QED BY <3>1, <3>3, <4>1 DEF Ids
      <4>3. NextOf(disk) = top + 1
        BY <3>3 DEF NextOf
      <4> QED BY <4>2, <4>3
    <3> QED BY <3>2, <3>3
  <2>3. restored' \subseteq Versions
    BY <2>1 DEF IInv, ServerTypeOK, Entries
  <2>4. ServerTypeOK'
    <3>1. life' \in 1 .. MaxLives
      BY <2>1 DEF IInv, ServerTypeOK
    <3> QED BY <2>1, <2>2, <2>3, <3>1 DEF IInv, ServerTypeOK, StoreInv
  <2>5. tasks = {}
    BY <2>1 DEF IInv, TaskInv, StoreInv
  <2>6. TaskInv' /\ StoreInv' /\ StoreFollows'
    BY <2>1, <2>5 DEF IInv, TaskInv, StoreInv, StoreFollows, Stored, Up
  <2> QED BY <2>4, <2>6 DEF IInv
<1>3. CASE Claim
  <2>1. daemon' = "serving" /\ Up /\ UNCHANGED <<life, restored, rosterVars, taskVars, storeVars, sent>>
    BY <1>3 DEF Claim, Up
  <2>2. ServerTypeOK'
    BY <2>1 DEF IInv, ServerTypeOK, rosterVars, taskVars, storeVars
  <2>3. TaskInv' /\ StoreInv' /\ StoreFollows'
    BY <2>1 DEF IInv, TaskInv, StoreInv, StoreFollows, Stored, Up, rosterVars, taskVars, storeVars
  <2> QED BY <2>2, <2>3 DEF IInv
<1> QED BY <1>1, <1>2, <1>3

LEMMA Step == IInv /\ [ServerNext]_notifVars => IInv'
<1> SUFFICES ASSUME IInv, [ServerNext]_notifVars PROVE IInv'
  OBVIOUS
<1>1. CASE \E replaces \in 0 .. MAX_ID + 1, shape \in Shapes : Notify(replaces, shape)
  BY <1>1, NotifyStep
<1>2. CASE \E id \in Ids : Close(id)
  BY <1>2, CloseStep
<1>3. CASE \E t \in tasks : Expire(t)
  BY <1>3, ExpireStep
<1>4. CASE Flush
  BY <1>4, FlushStep
<1>5. CASE Crash \/ Terminate \/ Start \/ Claim
  BY <1>5, LifeStep
<1>6. CASE UNCHANGED notifVars
  BY <1>6 DEF notifVars, daemonVars, rosterVars, taskVars, storeVars, IInv, ServerTypeOK, TaskInv,
              StoreInv, StoreFollows, Stored, Up
<1> QED BY <1>1, <1>2, <1>3, <1>4, <1>5, <1>6 DEF ServerNext

THEOREM ServerInductive == Spec => []IInv
  BY InitIInv, Step, PTL DEF Spec

(* Type correctness, whatever the ceiling of the ids, the shapes and the bounds. *)
THEOREM ServerTypeCorrect == Spec => []ServerTypeOK
<1>1. IInv => ServerTypeOK
  BY DEF IInv
<1> QED BY <1>1, ServerInductive, PTL

(* The store is what it should hold, or a write is queued, or the last one failed:
   whatever handlers, crashes and restarts came between. *)
THEOREM StoreNeverForgotten == Spec => []StoreFollows
<1>1. IInv => StoreFollows
  BY DEF IInv
<1> QED BY <1>1, ServerInductive, PTL

-----------------------------------------------------------------------------
(***************************************************************************)
(* What a step may never do.                                               *)
(***************************************************************************)
(* The server never gives a new notification the id of a live one. *)
THEOREM NobodysId == Spec => NoStolenId
<1> DEFINE A == \A m \in history, n \in history' :
                  m.id = n.id /\ m.version # n.version => n.replaces = m.id
<1>1. IInv /\ [ServerNext]_notifVars => A
  <2> SUFFICES ASSUME IInv, [ServerNext]_notifVars, NEW m \in history, NEW n \in history',
                      m.id = n.id, m.version # n.version
               PROVE  n.replaces = m.id
    OBVIOUS
  <2>1. n \notin history
    BY DEF IInv, ServerTypeOK
  <2>2. Up
    BY DEF IInv, StoreInv
  <2>3. PICK replaces \in 0 .. MAX_ID + 1, shape \in Shapes : Notify(replaces, shape)
    BY <2>1, <2>2 DEF ServerNext, Close, Expire, Resolve, Without, Flush, Crash, Terminate, Stop, Start,
              Claim, Up, notifVars, daemonVars, rosterVars
  <2>4. n.id = Allocate(replaces) /\ n.replaces = replaces
    BY <2>1, <2>3 DEF Notify, Enter, Without
  <2>5. n.id \in Live
    BY DEF Live
  <2> QED BY <2>3, <2>4, <2>5, AllocateIsSafe DEF IInv, ServerTypeOK, Notify
<1>2. IInv /\ [ServerNext]_notifVars => [A]_notifVars
  BY <1>1
<1> QED BY <1>2, ServerInductive, PTL DEF Spec, NoStolenId

(* An expiry resolves the notification it was set for and no other, although it names
   only the id. *)
THEOREM OnlyItself == Spec => ExpiresOnlyItself
<1> DEFINE A == \A t \in tasks : Expire(t) => LiveVersions \ {t.version} \subseteq LiveVersions'
<1>1. IInv /\ [ServerNext]_notifVars => A
  <2> SUFFICES ASSUME IInv, NEW t \in tasks, Expire(t)
               PROVE  LiveVersions \ {t.version} \subseteq LiveVersions'
    OBVIOUS
  <2>1. history' = Without(t.id)
    BY ExpiryIsLive DEF Resolve
  <2>2. \A n \in history : n.version # t.version => n.id # t.id
    BY DEF IInv, TaskInv, ServerTypeOK
  <2> QED BY <2>1, <2>2 DEF LiveVersions, Without
<1>2. IInv /\ [ServerNext]_notifVars => [A]_notifVars
  BY <1>1
<1> QED BY <1>2, ServerInductive, PTL DEF Spec, ExpiresOnlyItself

-----------------------------------------------------------------------------
(***************************************************************************)
(* What TimedGoes rests on.                                                *)
(***************************************************************************)
\* The converse of TaskInv: the notification's task sleeps.
TimedHasTask ==
  \A n \in history : n.shape.timed /\ n.version \notin restored =>
    [id |-> n.id, version |-> n.version] \in tasks

(* A removal takes the task of its own id only. *)
LEMMA RemovalKeepsTasks ==
  ASSUME TimedHasTask, NEW id, history' = Without(id), restored' = restored,
         \A t \in tasks : t.id # id => t \in tasks'
  PROVE  TimedHasTask'
BY DEF TimedHasTask, Without

LEMMA TimedStep ==
  ASSUME IInv, TimedHasTask, [ServerNext]_notifVars
  PROVE  TimedHasTask'
<1>1. ASSUME NEW replaces \in 0 .. MAX_ID + 1, NEW shape \in Shapes, Notify(replaces, shape)
      PROVE  TimedHasTask'
  <2> DEFINE id == Allocate(replaces)
             n == [id |-> id, version |-> sent + 1, replaces |-> replaces, shape |-> shape]
  <2>1. history' = Without(id) \cup {n} /\ RestartTimer(id, sent + 1, shape.timed) /\ restored' = restored
    BY <1>1 DEF Notify, Enter, daemonVars
  <2>2. n.id = id /\ n.version = sent + 1 /\ n.shape = shape
    OBVIOUS
  <2> HIDE DEF id, n
  <2>3. \A t \in tasks : t.id # id => t \in tasks'
    BY <2>1 DEF RestartTimer, ClearTimer, Unaborted
  <2>4. shape.timed => [id |-> id, version |-> sent + 1] \in tasks'
    BY <2>1 DEF RestartTimer
  <2>5. ASSUME NEW m \in history', m.shape.timed, m.version \notin restored'
        PROVE  [id |-> m.id, version |-> m.version] \in tasks'
    <3>1. CASE m = n
      BY <2>2, <2>4, <2>5, <3>1
    <3>2. CASE m # n
      <4>1. m \in history /\ m.id # id
        BY <2>1, <3>2 DEF Without
      <4> QED BY <2>1, <2>3, <2>5, <4>1 DEF TimedHasTask
    <3> QED BY <3>1, <3>2
  <2> QED BY <2>5 DEF TimedHasTask
<1>2. ASSUME NEW id \in Ids, Close(id) PROVE TimedHasTask'
  <2>1. history' = Without(id) /\ restored' = restored /\ tasks' = Unaborted(id)
    BY <1>2 DEF Close, Resolve, ClearTimer, daemonVars
  <2>2. \A t \in tasks : t.id # id => t \in tasks'
    BY <2>1 DEF Unaborted
  <2> QED BY <2>1, <2>2, RemovalKeepsTasks
<1>3. ASSUME NEW t \in tasks, Expire(t) PROVE TimedHasTask'
  <2>1. history' = Without(t.id) /\ restored' = restored /\ tasks' = tasks \ {t}
    BY <1>3, ExpiryIsLive DEF Expire, Resolve, daemonVars
  <2> QED BY <2>1, RemovalKeepsTasks
<1>4. CASE Flush
  BY <1>4 DEF Flush, TimedHasTask, daemonVars, rosterVars, taskVars
<1>5. CASE Crash \/ Terminate
  BY <1>5 DEF Crash, Terminate, Stop, TimedHasTask
<1>6. CASE Start
  BY <1>6 DEF Start, TimedHasTask
<1>7. CASE Claim
  BY <1>7 DEF Claim, TimedHasTask, rosterVars, taskVars
<1>8. CASE UNCHANGED notifVars
  BY <1>8 DEF TimedHasTask, notifVars, daemonVars, rosterVars, taskVars
<1> QED BY <1>1, <1>2, <1>3, <1>4, <1>5, <1>6, <1>7, <1>8 DEF ServerNext

(* A notification whose sender gave it a time always has its task asleep, unless a
   restart brought it back: no replacement, closing or expiry of another one, and no
   id that is given again, leaves it on screen for good. *)
THEOREM TimedKeepsItsTask == Spec => []TimedHasTask
<1>1. Init => TimedHasTask
  BY DEF Init, TimedHasTask
<1> QED BY <1>1, TimedStep, ServerInductive, PTL DEF Spec
=============================================================================
