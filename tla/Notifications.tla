--------------------------- MODULE Notifications ---------------------------
(***************************************************************************)
(* The notification server of nidara-sessiond (session/daemon/src/main.rs, *)
(* model.rs, store.rs): the roster, the allocation of ids, the senders'    *)
(* expiry timers, the debounced write of the store, and the restarts.      *)
(*                                                                         *)
(* Every handler holds the state's mutex from its first line to its last   *)
(* signal, so a handler is one step, and a task that is aborted before it  *)
(* has the mutex does nothing.  A notification's content is the number of  *)
(* the Notify call that brought it; the order of the roster, which no      *)
(* reader of it uses, is left out.                                         *)
(***************************************************************************)
EXTENDS Naturals

CONSTANTS
  MAX_ID,     \* 0x7fffffff in the code
  Shapes,     \* the notifications senders send: see Shape
  DiskMayFail, \* writing the store may fail
  MaxNotify,  \* bound: Notify calls
  MaxLives    \* bound: starts of the daemon

Shape == [transient : BOOLEAN, resident : BOOLEAN, timed : BOOLEAN]
Ids == 1 .. MAX_ID
Versions == 1 .. MaxNotify

ASSUME NotificationAssumption ==
  /\ MAX_ID \in Nat \ {0} /\ MaxNotify \in Nat \ {0} /\ MaxLives \in Nat \ {0}
  /\ Shapes \subseteq Shape /\ DiskMayFail \in BOOLEAN

VARIABLES
  daemon,    \* "down", "public" (no shell name yet) or "serving"
  life,      \* the daemon's starts so far: its unique bus name
  history,   \* State.notifications
  next,      \* State.next
  timers,    \* State.timers: the version whose expiry task it can abort, or 0
  tasks,     \* the expiry tasks that sleep: [id, version]
  flush,     \* State.flush: a write of the store is queued
  disk,      \* state.json
  unwritten, \* history variable: the last write failed
  restored,  \* history variable: versions that came from the store
  sent       \* Notify calls so far

rosterVars == <<history, next>>
taskVars == <<timers, tasks>>
storeVars == <<flush, disk, unwritten>>
daemonVars == <<daemon, life, restored>>
notifVars == <<daemonVars, rosterVars, taskVars, storeVars, sent>>

Live == {n.id : n \in history}
LiveVersions == {n.version : n \in history}
Entry(id) == CHOOSE n \in history : n.id = id

Init ==
  /\ daemon = "public" /\ life = 1 /\ restored = {}
  /\ history = {} /\ next = 1
  /\ timers = [id \in Ids |-> 0] /\ tasks = {}
  /\ flush = FALSE /\ disk = {} /\ unwritten = FALSE
  /\ sent = 0

Up == daemon # "down"

-----------------------------------------------------------------------------
(***************************************************************************)
(* allocate: the sender's own id, live or not, or the first one from       *)
(* `next` on, around MAX_ID, that no live notification has.                *)
(***************************************************************************)
After(id) == IF id >= MAX_ID THEN 1 ELSE id + 1

\* Mutant: the search does not look at what is live.
FreshAny == next
Fresh ==
  LET from(id) == (id + MAX_ID - next) % MAX_ID
  IN  CHOOSE id \in Ids \ Live : \A other \in Ids \ Live : from(id) <= from(other)

Allocate(replaces) == IF replaces \in Ids THEN replaces ELSE Fresh
NextAfter(id, replaces) ==
  LET start == IF replaces \in Ids THEN next ELSE id
  IN  IF id >= start THEN After(id) ELSE start

-----------------------------------------------------------------------------
(***************************************************************************)
(* clear_timer and queue_flush, and what they leave of the tasks.          *)
(***************************************************************************)
\* Mutant: the old task is forgotten, not aborted.
NotAborted(id) == tasks
Unaborted(id) == {t \in tasks : ~(t.id = id /\ t.version = timers[id])}

ClearTimer(id) ==
  /\ timers' = [timers EXCEPT ![id] = 0]
  /\ tasks' = Unaborted(id)

\* Mutant: the new timer is cleared with the old one.
RestartTimerCleared(id, version, timed) == ClearTimer(id)
RestartTimer(id, version, timed) ==
  IF timed
  THEN /\ timers' = [timers EXCEPT ![id] = version]
       /\ tasks' = Unaborted(id) \cup {[id |-> id, version |-> version]}
  ELSE ClearTimer(id)

QueueFlush == flush' = TRUE /\ UNCHANGED <<disk, unwritten>>

-----------------------------------------------------------------------------
(***************************************************************************)
(* The handlers.  Their signals are the composing module's.                *)
(***************************************************************************)
Without(id) == {n \in history : n.id # id}

\* Mutant: the entry that is replaced stays.
EnterTwice(n) == history' = history \cup {n}
Enter(n) == history' = Without(n.id) \cup {n}

Notify(replaces, shape) ==
  LET id == Allocate(replaces)
      version == sent + 1
  IN  /\ Up /\ sent < MaxNotify
      /\ replaces \in Ids \/ Live # Ids   \* bound: memory ends before the ids do
      /\ Enter([id |-> id, version |-> version, replaces |-> replaces, shape |-> shape])
      /\ next' = NextAfter(id, replaces)
      /\ RestartTimer(id, version, shape.timed)
      /\ QueueFlush
      /\ sent' = version
      /\ UNCHANGED daemonVars

\* Mutant: a removal is not written.
FlushUnqueued == UNCHANGED <<flush, disk, unwritten>>
FlushRemoval == QueueFlush

\* resolve, of a live id.
Resolve(id) ==
  /\ history' = Without(id)
  /\ FlushRemoval
  /\ UNCHANGED <<next, daemonVars, sent>>

\* close_notification and dismiss.
Close(id) ==
  /\ Up /\ id \in Live
  /\ Resolve(id) /\ ClearTimer(id)

\* The task forgets its own handle before resolve could abort it.
Expire(t) ==
  /\ Up /\ t \in tasks
  /\ timers' = [timers EXCEPT ![t.id] = 0]
  /\ tasks' = tasks \ {t}
  /\ IF t.id \in Live THEN Resolve(t.id)
     ELSE UNCHANGED <<rosterVars, storeVars, daemonVars, sent>>

-----------------------------------------------------------------------------
(***************************************************************************)
(* The store, and the daemon's ends and starts.  A write may fail; nothing *)
(* retries it before the next change.                                      *)
(***************************************************************************)
Stored == {n \in history : ~n.shape.transient}

Persist ==
  \/ disk' = Stored /\ unwritten' = FALSE
  \/ DiskMayFail /\ UNCHANGED disk /\ unwritten' = TRUE

Flush ==
  /\ Up /\ flush
  /\ flush' = FALSE
  /\ Persist
  /\ UNCHANGED <<daemonVars, rosterVars, taskVars, sent>>

Stop ==
  /\ Up
  /\ daemon' = "down"
  /\ history' = {} /\ timers' = [id \in Ids |-> 0] /\ tasks' = {} /\ flush' = FALSE
  /\ UNCHANGED <<life, restored, next, sent>>

Crash == Stop /\ UNCHANGED <<disk, unwritten>>
\* main waits for SIGTERM once it serves.
Terminate == daemon = "serving" /\ Stop /\ Persist

NextOf(notifications) ==
  LET ids == {n.id : n \in notifications}
      top == CHOOSE id \in ids : \A other \in ids : other <= id
  IN  IF ids = {} \/ MAX_ID \in ids THEN 1 ELSE top + 1

Start ==
  /\ daemon = "down" /\ life < MaxLives
  /\ daemon' = "public"
  /\ life' = life + 1
  /\ history' = disk
  /\ next' = NextOf(disk)
  /\ unwritten' = FALSE
  /\ restored' = {n.version : n \in disk}
  /\ UNCHANGED <<taskVars, flush, disk, sent>>

\* org.nidara.Session, the name the shell looks for, is claimed last.
Claim ==
  /\ daemon = "public"
  /\ daemon' = "serving"
  /\ UNCHANGED <<life, restored, rosterVars, taskVars, storeVars, sent>>

-----------------------------------------------------------------------------
ServerNext ==
  \/ \E replaces \in 0 .. MAX_ID + 1, shape \in Shapes : Notify(replaces, shape)
  \/ \E id \in Ids : Close(id)
  \/ \E t \in tasks : Expire(t)
  \/ Flush \/ Crash \/ Terminate \/ Start \/ Claim

(***************************************************************************)
(* tokio's timers go off, and the mutex is fair.                           *)
(***************************************************************************)
Spec ==
  /\ Init /\ [][ServerNext]_notifVars
  /\ \A id \in Ids, version \in Versions :
       WF_notifVars(Expire([id |-> id, version |-> version]))

-----------------------------------------------------------------------------
Entries == [id : Ids, version : Versions, replaces : 0 .. MAX_ID + 1, shape : Shapes]

ServerTypeOK ==
  /\ daemon \in {"down", "public", "serving"} /\ life \in 1 .. MaxLives
  /\ restored \subseteq Versions
  /\ history \subseteq Entries /\ disk \subseteq Entries
  /\ \A m, n \in history : m.id = n.id => m = n
  /\ next \in Ids /\ sent \in 0 .. MaxNotify
  /\ timers \in [Ids -> 0 .. MaxNotify]
  /\ tasks \subseteq [id : Ids, version : Versions]
  /\ flush \in BOOLEAN /\ unwritten \in BOOLEAN

(* A notification's place is only ever taken by a Notify that names its id: an id the
   server picks is nobody's, also after `next` went around or the store was read. *)
NoStolenId ==
  [][\A m \in history, n \in history' :
       m.id = n.id /\ m.version # n.version => n.replaces = m.id]_notifVars

(* An expiry removes the notification it was set for, never one that came to its id
   since. *)
ExpiresOnlyItself ==
  [][\A t \in tasks : Expire(t) =>
       LiveVersions \ {t.version} \subseteq LiveVersions']_notifVars

(* The store is never behind without a write to come, unless the last write failed. *)
StoreFollows == Up => disk = Stored \/ flush \/ unwritten

(* A notification whose sender gave it a time goes, unless a restart brought it back. *)
Timed(version) ==
  \E n \in history : n.version = version /\ n.shape.timed /\ version \notin restored
TimedGoes == \A version \in Versions : Timed(version) ~> ~Timed(version)
=============================================================================
