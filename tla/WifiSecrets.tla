----------------------------- MODULE WifiSecrets -----------------------------
(***************************************************************************)
(* The shell as NetworkManager's secret agent (shell/core/NetworkAgent.ts) *)
(* with the dialog that answers it (shell/common/WifiSecretsAgent.ts) and  *)
(* the record of dismissed dialogs (shell/core/NetworkCancels.ts).         *)
(*                                                                         *)
(* A call is one GetSecrets invocation.  GJS runs one callback at a time,  *)
(* and a promise's reactions right after the callback that settles it, so  *)
(* a callback and its reactions are one step; the keyring is searched      *)
(* between two steps.  Every network asks for one setting, so a path and a *)
(* setting are a profile.  The keyring may hold any key or none; what is   *)
(* stored there and cleared changes nothing else.                          *)
(***************************************************************************)
EXTENDS Naturals, FiniteSets

CONSTANTS
  Profiles,   \* the UUIDs of Wi-Fi profiles
  MaxCalls    \* bound: GetSecrets calls

ASSUME SecretsAssumption == Profiles # {} /\ MaxCalls \in Nat

VARIABLES
  call,       \* per call: what was asked, how far it is, what it was answered
  pending,    \* the call whose dialog is on screen, or 0
  timers,     \* calls whose two minutes run
  userCancels \* profiles with a dismissal recorded less than 30 s ago

askVars == <<pending, timers>>
secretsVars == <<call, askVars, userCancels>>

Calls == 1 .. MaxCalls
Keys == {"wrong", "right"}

\* `interact`: ALLOW_INTERACTION; `retry`: REQUEST_NEW.
CallRecords ==
  [profile: Profiles, interact: BOOLEAN, retry: BOOLEAN,
   stage: {"unused", "lookup", "asked", "answered"},
   reply: {"none", "noSecrets", "userCanceled"} \cup Keys]

Unasked == [profile |-> CHOOSE u \in Profiles : TRUE, interact |-> FALSE, retry |-> FALSE,
            stage |-> "unused", reply |-> "none"]

SecretsInit ==
  /\ call = [c \in Calls |-> Unasked]
  /\ pending = 0 /\ timers = {} /\ userCancels = {}

Answered(c, reply) == [call EXCEPT ![c].stage = "answered", ![c].reply = reply]

-----------------------------------------------------------------------------
(***************************************************************************)
(* ask(): one question at a time, and a timer of its own, since            *)
(* NetworkManager gives up on a call without a word.  A dialog that cannot *)
(* be built counts as dismissed.                                           *)
(***************************************************************************)
\* Mutant: the question has no end of its own.
SetNoTimer(c) == UNCHANGED timers
SetTimer(c) == timers' = timers \cup {c}

Ask(c, r) ==
  \/ /\ ~r.interact
     /\ call' = [call EXCEPT ![c] = [r EXCEPT !.stage = "answered", !.reply = "noSecrets"]]
     /\ UNCHANGED <<askVars, userCancels>>
  \/ /\ r.interact /\ pending # 0
     /\ call' = [call EXCEPT ![c] = [r EXCEPT !.stage = "answered", !.reply = "userCanceled"]]
     /\ UNCHANGED <<askVars, userCancels>>
  \/ /\ r.interact /\ pending = 0
     /\ call' = [call EXCEPT ![c] = [r EXCEPT !.stage = "asked"]]
     /\ pending' = c /\ SetTimer(c)
     /\ UNCHANGED userCancels
  \/ /\ r.interact /\ pending = 0
     /\ call' = [call EXCEPT ![c] = [r EXCEPT !.stage = "answered", !.reply = "userCanceled"]]
     /\ userCancels' = userCancels \cup {r.profile}
     /\ UNCHANGED askVars

(***************************************************************************)
(* getSecrets: a retry is never answered from the keyring, which is        *)
(* searched for anything else.                                             *)
(***************************************************************************)
GetSecrets(c, u, interact, retry) ==
  /\ call[c].stage = "unused" /\ \A d \in Calls : d < c => call[d].stage # "unused"
  /\ LET r == [profile |-> u, interact |-> interact, retry |-> retry,
               stage |-> "lookup", reply |-> "none"]
     IN IF retry THEN Ask(c, r)
                 ELSE call' = [call EXCEPT ![c] = r] /\ UNCHANGED <<askVars, userCancels>>

LookupEnds(c) ==
  /\ call[c].stage = "lookup"
  /\ \/ Ask(c, call[c])
     \/ \E key \in Keys : call' = Answered(c, key) /\ UNCHANGED <<askVars, userCancels>>

-----------------------------------------------------------------------------
(***************************************************************************)
(* The dialog's end, which is the promise's, which stops the timer.        *)
(***************************************************************************)
Closed(c) == pending' = 0 /\ timers' = timers \ {c}

KeyTyped(c, key) ==
  pending = c /\ Closed(c) /\ call' = Answered(c, key) /\ UNCHANGED userCancels

\* Mutant: the dismissal is not recorded.
DismissedUnrecorded(c) ==
  pending = c /\ Closed(c) /\ call' = Answered(c, "userCanceled") /\ UNCHANGED userCancels
Dismissed(c) ==
  /\ pending = c /\ Closed(c) /\ call' = Answered(c, "userCanceled")
  /\ userCancels' = userCancels \cup {call[c].profile}

(***************************************************************************)
(* The three withdrawals: the timer, CancelGetSecrets and NetworkManager's *)
(* name going.  Each closes the dialog, whose promise then finds that its  *)
(* call is not pending any more.                                           *)
(***************************************************************************)
\* Mutant: a withdrawn question's dialog counts as dismissed by the user.
WithdrawRecorded(c) ==
  /\ Closed(c) /\ call' = Answered(c, "userCanceled")
  /\ userCancels' = userCancels \cup {call[c].profile}
Withdraw(c) ==
  Closed(c) /\ call' = Answered(c, "userCanceled") /\ UNCHANGED userCancels

TimerFires(c) == c \in timers /\ pending = c /\ Withdraw(c)

\* What the dialog holds cannot be turned into an answer.
PromptFails(c) == pending = c /\ Withdraw(c)

\* Mutant: a cancelled question keeps its dialog.
CancelForgets(u) == UNCHANGED secretsVars
CancelGetSecrets(u) ==
  IF pending # 0 /\ call[pending].profile = u THEN Withdraw(pending)
  ELSE UNCHANGED secretsVars

\* Nobody is left to answer: the dialog is closed, the call is not returned.
OwnerVanishes ==
  /\ IF pending # 0 THEN Closed(pending) ELSE UNCHANGED askVars
  /\ UNCHANGED <<call, userCancels>>

(***************************************************************************)
(* takeUserCancel: the record is consumed, and explains an attempt for     *)
(* half a minute only.                                                     *)
(***************************************************************************)
TakeUserCancel(u) == userCancels' = userCancels \ {u} /\ UNCHANGED <<call, askVars>>
SaysCancelled(u) == u \in userCancels

RecordAges(u) == u \in userCancels /\ TakeUserCancel(u)

SecretsTypeOK ==
  /\ call \in [Calls -> CallRecords]
  /\ pending \in 0 .. MaxCalls /\ timers \subseteq Calls
  /\ userCancels \subseteq Profiles
=============================================================================
