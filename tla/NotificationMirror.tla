------------------------- MODULE NotificationMirror -------------------------
(***************************************************************************)
(* The shell's mirror of the notifications (ui/shell/core/notifd.ts),      *)
(* composed with the server.                                               *)
(*                                                                         *)
(* The bus keeps the order in which the daemon sends: signals, replies and *)
(* the changes of its name reach the shell through one queue.  Calls to    *)
(* the daemon name its unique owner and are taken up in any order, and a   *)
(* reply may leave after signals of later handlers.                        *)
(***************************************************************************)
EXTENDS Notifications, Sequences, SequencesExt

CONSTANTS
  MaxShells, \* bound: starts of the shell
  MaxInbox   \* bound: messages on the way to the shell when a daemon handler runs

ASSUME MirrorAssumption == MaxShells \in Nat \ {0} /\ MaxInbox \in Nat \ {0}

VARIABLES
  inbox,      \* messages on the way to the shell
  asked,      \* List calls the daemon has not taken up: [gen, life]
  replies,    \* rosters it took and has not sent: [gen, roster]
  calls,      \* Dismiss and InvokeAction calls on the way: [kind, id]
  owner,      \* the daemon's life the shell knows, 0 for none
  generation, \* counts reconnects
  buffering,  \* `pending` is not null: List is under way
  pending,    \* the signals buffered meanwhile
  mirror,     \* notifs: the version the shell has for an id, or 0
  told,       \* ids the surfaces were notified of and not told resolved
  unlisted,   \* history variable: this owner's List failed
  shells      \* the shell's starts so far

wireVars == <<inbox, asked, replies, calls>>
shellVars == <<owner, generation, buffering, pending, mirror, told, unlisted, shells>>
mirrorVars == <<notifVars, wireVars, shellVars>>

NoRoster == [id \in Ids |-> 0]
Roster == [id \in Ids |-> IF id \in Live THEN Entry(id).version ELSE 0]
Known(m) == {id \in Ids : m[id] # 0}

MirrorInit ==
  /\ Init
  /\ inbox = <<>> /\ asked = {} /\ replies = {} /\ calls = {}
  /\ owner = 0 /\ generation = 1 /\ buffering = FALSE /\ pending = <<>>
  /\ mirror = NoRoster /\ told = {} /\ unlisted = FALSE /\ shells = 1

-----------------------------------------------------------------------------
(***************************************************************************)
(* The daemon's handlers with their signals.                               *)
(***************************************************************************)
Signal(event) == inbox' = IF daemon = "serving" THEN Append(inbox, event) ELSE inbox
Notified(id, version) == [type |-> "notified", life |-> life, id |-> id, version |-> version]
Resolved(id) == [type |-> "resolved", life |-> life, id |-> id, version |-> 0]

NotifyCall(replaces, shape) ==
  LET id == Allocate(replaces)
      version == sent + 1
  IN  /\ Notify(replaces, shape)
      /\ Signal(Notified(id, version))
      /\ UNCHANGED <<asked, replies, calls, shellVars>>

CloseCall(id) ==
  /\ Close(id)
  /\ Signal(Resolved(id))
  /\ UNCHANGED <<asked, replies, calls, shellVars>>

ExpiryTask(t) ==
  /\ Expire(t)
  /\ IF t.id \in Live THEN Signal(Resolved(t.id)) ELSE UNCHANGED inbox
  /\ UNCHANGED <<asked, replies, calls, shellVars>>

\* dismiss and invoke_action: nothing happens for an id that is not live.
ShellCall(c) ==
  /\ Up /\ c \in calls
  /\ calls' = calls \ {c}
  /\ IF c.id \in Live /\ (c.kind = "invoke" => ~Entry(c.id).shape.resident)
     THEN Close(c.id) /\ Signal(Resolved(c.id))
     ELSE UNCHANGED <<notifVars, inbox>>
  /\ UNCHANGED <<asked, replies, shellVars>>

\* A call names the owner it is for: a daemon takes its own.
TakeList(a) ==
  /\ Up /\ a \in asked /\ a.life = life
  /\ asked' = asked \ {a}
  /\ replies' = replies \cup {[gen |-> a.gen, roster |-> Roster]}
  /\ UNCHANGED <<notifVars, inbox, calls, shellVars>>

SendList(r) ==
  /\ r \in replies
  /\ replies' = replies \ {r}
  /\ inbox' = Append(inbox, [type |-> "list", gen |-> r.gen, roster |-> r.roster])
  /\ UNCHANGED <<notifVars, asked, calls, shellVars>>

WriteStore == Flush /\ UNCHANGED <<wireVars, shellVars>>

\* The name goes with the process, and so do the calls to it.
OwnerIs(l) == [type |-> "owner", life |-> l]
DaemonEnds ==
  /\ Crash \/ Terminate
  /\ Signal(OwnerIs(0))
  /\ asked' = {} /\ replies' = {} /\ calls' = {}
  /\ UNCHANGED <<shellVars>>

DaemonStarts == Start /\ UNCHANGED <<wireVars, shellVars>>

ClaimName ==
  /\ Claim
  /\ inbox' = Append(inbox, OwnerIs(life))
  /\ UNCHANGED <<asked, replies, calls, shellVars>>

-----------------------------------------------------------------------------
(***************************************************************************)
(* The shell.                                                              *)
(***************************************************************************)
Apply(m, event) == [m EXCEPT ![event.id] = event.version]

\* Mutant: the surfaces are not told that everything is gone.
ForgetSilently == UNCHANGED told
ForgetAll == told' = told \ Known(mirror)

\* Mutant: signals that race the List are dropped.
BufferNothing(event) == UNCHANGED pending
Buffer(event) == pending' = Append(pending, event)

\* Before the shell's own List the signals are subscribed to.
AskList(l) ==
  /\ owner' = l
  /\ buffering' = TRUE /\ pending' = <<>>
  /\ asked' = asked \cup {[gen |-> generation', life |-> l]}

Reconnect(l) ==
  /\ generation' = generation + 1
  /\ unlisted' = FALSE
  /\ IF l = 0
     THEN /\ owner' = 0 /\ buffering' = FALSE /\ pending' = <<>>
          /\ mirror' = NoRoster
          /\ ForgetAll
          /\ UNCHANGED asked
     ELSE AskList(l) /\ UNCHANGED <<mirror, told>>

Event(event) ==
  /\ IF event.life # owner
     THEN UNCHANGED <<pending, mirror, told>>
     ELSE IF buffering
     THEN Buffer(event) /\ UNCHANGED <<mirror, told>>
     ELSE /\ mirror' = Apply(mirror, event)
          /\ told' = IF event.type = "notified" THEN told \cup {event.id} ELSE told \ {event.id}
          /\ UNCHANGED pending
  /\ UNCHANGED <<asked, owner, generation, buffering, unlisted>>

Hydrate(reply) ==
  /\ IF buffering /\ reply.gen = generation
     THEN /\ mirror' = FoldLeft(Apply, reply.roster, pending)
          /\ told' = told \ (Known(mirror) \ Known(mirror'))
          /\ buffering' = FALSE /\ pending' = <<>>
     ELSE UNCHANGED <<mirror, told, buffering, pending>>
  /\ UNCHANGED <<asked, owner, generation, unlisted>>

ShellHears ==
  /\ inbox # <<>>
  /\ inbox' = Tail(inbox)
  /\ LET message == Head(inbox)
     IN  \/ message.type = "owner" /\ Reconnect(message.life)
         \/ message.type \in {"notified", "resolved"} /\ Event(message)
         \/ message.type = "list" /\ Hydrate(message)
  /\ UNCHANGED <<notifVars, replies, calls, shells>>

\* List fails (3 s, or a roster that does not parse): nothing asks again.
ListFails ==
  /\ buffering
  /\ buffering' = FALSE /\ pending' = <<>>
  /\ mirror' = NoRoster
  /\ unlisted' = TRUE
  /\ UNCHANGED <<notifVars, wireVars, owner, generation, told, shells>>

\* The user dismisses a row, or picks an action of it.  Bound: one call at a time.
Press(kind, id) ==
  /\ calls = {} /\ inbox = <<>>                                  \* bound
  /\ owner # 0 /\ ~buffering /\ mirror[id] # 0
  /\ owner = life /\ Up
  /\ calls' = {[kind |-> kind, id |-> id]}
  /\ UNCHANGED <<notifVars, inbox, asked, replies, shellVars>>

ShellRestarts ==
  /\ shells < MaxShells
  /\ shells' = shells + 1
  /\ generation' = generation + 1
  /\ inbox' = <<>> /\ replies' = {}
  /\ mirror' = NoRoster /\ told' = {} /\ unlisted' = FALSE
  /\ IF daemon = "serving"
     THEN /\ owner' = life /\ buffering' = TRUE /\ pending' = <<>>
          /\ asked' = {[gen |-> generation', life |-> life]}
     ELSE owner' = 0 /\ buffering' = FALSE /\ pending' = <<>> /\ asked' = {}
  /\ UNCHANGED <<notifVars, calls>>

-----------------------------------------------------------------------------
Handlers ==
  /\ Len(inbox) < MaxInbox
  /\ \/ \E replaces \in 0 .. MAX_ID + 1, shape \in Shapes : NotifyCall(replaces, shape)
     \/ \E id \in Ids : CloseCall(id)
     \/ \E t \in tasks : ExpiryTask(t)
     \/ \E c \in calls : ShellCall(c)
     \/ \E a \in asked : TakeList(a)
     \/ \E r \in replies : SendList(r)

Lives == WriteStore \/ DaemonEnds \/ DaemonStarts \/ ClaimName

Shell ==
  \/ ShellHears \/ ListFails \/ ShellRestarts
  \/ \E kind \in {"dismiss", "invoke"}, id \in Ids : Press(kind, id)

MirrorNext == Handlers \/ Lives \/ Shell

MirrorSpec == MirrorInit /\ [][MirrorNext]_mirrorVars

-----------------------------------------------------------------------------
MirrorTypeOK ==
  /\ ServerTypeOK
  /\ owner \in 0 .. MaxLives /\ generation \in Nat
  /\ buffering \in BOOLEAN /\ unlisted \in BOOLEAN
  /\ mirror \in [Ids -> 0 .. MaxNotify] /\ told \subseteq Ids

(* Whatever raced what (signals and the List's reply, restarts of either side, a name
   claimed late), a shell that has heard everything shows exactly the daemon's roster,
   each notification in its last version. *)
Settled ==
  /\ daemon = "serving" /\ owner = life /\ inbox = <<>>
  /\ ~buffering /\ ~unlisted
MirrorIsHistory == Settled => mirror = Roster

(* No surface keeps a banner for an id the mirror does not have. *)
NoGhosts == told \subseteq Known(mirror)
=============================================================================
