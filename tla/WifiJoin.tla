------------------------------ MODULE WifiJoin ------------------------------
(***************************************************************************)
(* Joining a Wi-Fi network: the promise of connectAp                       *)
(* (shell/core/NetworkService.ts), which the Control Centre has in the     *)
(* shell and Settings in a process of its own, over the secret agent of    *)
(* WifiSecrets.  NetworkManager is modelled from what they use of it: one  *)
(* activation at a time, which asks the agent for a missing or a refused   *)
(* key, may be cancelled by another, and gives up on an answer by itself.  *)
(*                                                                         *)
(* D-Bus keeps the order of what NetworkManager sends to one process.      *)
(***************************************************************************)
EXTENDS WifiSecrets

CONSTANTS
  Known,      \* the profiles saved at first
  MaxJoins    \* bound: joins, and activations nobody follows

ASSUME JoinAssumption == Known \subseteq Profiles /\ MaxJoins \in Nat

VARIABLES
  nmUp,      \* NetworkManager owns its name
  saved,     \* its profiles
  join,      \* per join: its promise, and its activation
  cancels,   \* calls whose CancelGetSecrets is on its way to the shell
  deletions, \* profiles whose deletion is on its way to NetworkManager
  letGo,     \* history: calls given up on while the keyring was searched
  overdue,   \* history: calls NetworkManager gave up on by itself while asked
  dismissed, \* history: joins whose question the user dismissed while it was awaited
  refused,   \* history: profiles whose dialog was dismissed or could not be built
  joined,    \* history: profiles that were connected
  unheard,   \* history: profiles whose record Settings asked for in vain
  left       \* history: profiles whose deletion was not asked for, or came to nothing

nmVars == <<nmUp, saved, cancels, deletions>>
resultVars == <<joined, unheard, left>>
historyVars == <<letGo, overdue, dismissed, refused, resultVars>>
vars == <<secretsVars, nmVars, join, historyVars>>

Joins == 1 .. MaxJoins
Pending == {"starting", "following", "consuming"}
Settled == {"connected", "failed", "cancelled"}

\* `at`: the promise; `act`: the activation; `asks`: the call it waits for.
JoinRecords ==
  [who: {"shell", "settings", "auto"}, profile: Profiles, fresh: BOOLEAN,
   at: {"unused", "form", "auto"} \cup Pending \cup Settled,
   act: {"none", "trying", "asking", "activated", "deactivated"},
   secret: {"none"} \cup Keys, asks: 0 .. MaxCalls]

Unused == [who |-> "auto", profile |-> CHOOSE u \in Profiles : TRUE, fresh |-> FALSE,
           at |-> "unused", act |-> "none", secret |-> "none", asks |-> 0]

JoinInit ==
  /\ SecretsInit
  /\ nmUp = TRUE /\ saved = Known
  /\ join = [j \in Joins |-> Unused]
  /\ cancels = {} /\ deletions = {}
  /\ letGo = {} /\ overdue = {} /\ dismissed = {} /\ refused = {}
  /\ joined = Known /\ unheard = {} /\ left = {}

Live(j) == join[j].act \in {"trying", "asking", "activated"}
Awaited == {c \in Calls : \E j \in Joins : join[j].asks = c}
NextUnused(j) == join[j].at = "unused" /\ \A i \in Joins : i < j => join[i].at # "unused"

-----------------------------------------------------------------------------
(***************************************************************************)
(* The user's side: connectAp decides at once between a saved profile and  *)
(* one that NetworkManager completes; an enterprise or a hidden network's  *)
(* form comes before it.                                                   *)
(***************************************************************************)
JoinClicked(j, who) ==
  /\ NextUnused(j)
  /\ \/ \E u \in saved : join' = [join EXCEPT ![j].who = who, ![j].at = "starting", ![j].profile = u]
     \/ \E at \in {"starting", "form"} :
          join' = [join EXCEPT ![j].who = who, ![j].at = at, ![j].fresh = TRUE]
  /\ UNCHANGED <<secretsVars, nmVars, historyVars>>

FormAnswered(j) ==
  /\ join[j].at = "form"
  /\ \E at \in {"starting", "cancelled"} : join' = [join EXCEPT ![j].at = at]
  /\ UNCHANGED <<secretsVars, nmVars, historyVars>>

\* The call failed, or there is no client or adapter: nothing to follow, nothing to undo.
NMRefuses(j) ==
  /\ join[j].at = "starting"
  /\ join' = [join EXCEPT ![j].at = "failed"]
  /\ UNCHANGED <<secretsVars, nmVars, historyVars>>

-----------------------------------------------------------------------------
(***************************************************************************)
(* NetworkManager.  An activation's end lets go of the call it waits for,  *)
(* and tells the agent, except when the end is its own giving up.          *)
(***************************************************************************)
\* Mutant: an ended activation still waits for its call.
EndingDeaf(J) == [j \in Joins |-> IF j \in J /\ Live(j)
                                  THEN [join[j] EXCEPT !.act = "deactivated", !.secret = "none"]
                                  ELSE join[j]]
Ending(J) == [j \in Joins |-> IF j \in J /\ Live(j)
                              THEN [join[j] EXCEPT !.act = "deactivated", !.asks = 0, !.secret = "none"]
                              ELSE join[j]]
CancelOf(J) == {join[j].asks : j \in J} \ {0}

\* A UUID is made up once.
Unclaimed == Profiles \ (saved \cup {join[i].profile : i \in {k \in Joins : join[k].act # "none"}})

Activation(j, u, at) ==
  \E s \in {"none"} \cup Keys :
    /\ join' = [Ending(Joins) EXCEPT ![j].at = at, ![j].profile = u, ![j].act = "trying", ![j].secret = s]
    /\ cancels' = cancels \cup CancelOf(Joins)

NMActivates(j) ==
  /\ nmUp /\ join[j].at = "starting"
  /\ \E u \in IF join[j].fresh THEN Unclaimed ELSE {join[j].profile} \cap saved :
       /\ Activation(j, u, "following")
       /\ saved' = saved \cup {u}
  /\ UNCHANGED <<secretsVars, nmUp, deletions, historyVars>>

AutoActivates(j, u) ==
  /\ nmUp /\ NextUnused(j) /\ u \in saved /\ \A i \in Joins : ~Live(i)
  /\ Activation(j, u, "auto")
  /\ UNCHANGED <<secretsVars, nmUp, saved, deletions, historyVars>>

\* What was sent to the shell before a question is heard before it.
NMAsks(j, c, interact) ==
  /\ join[j].act = "trying" /\ join[j].secret # "right" /\ cancels = {}
  /\ \A i \in Joins : join[i].at = "following" /\ join[i].who = "shell" => join[i].act # "deactivated"
  /\ join[j].at = "following" => interact
  /\ GetSecrets(c, join[j].profile, interact, join[j].secret = "wrong")
  /\ join' = [join EXCEPT ![j].act = "asking", ![j].asks = c]
  /\ refused' = refused \cup {u \in {join[j].profile} : pending = 0 /\ call'[c].reply = "userCanceled"}
  /\ UNCHANGED <<nmVars, letGo, overdue, dismissed, resultVars>>

NMHears(j) ==
  /\ join[j].act = "asking" /\ call[join[j].asks].stage = "answered"
  /\ LET reply == call[join[j].asks].reply
     IN join' = IF reply \in Keys
                THEN [join EXCEPT ![j].act = "trying", ![j].asks = 0, ![j].secret = reply]
                ELSE Ending({j})
  /\ UNCHANGED <<secretsVars, nmVars, historyVars>>

NMConnects(j) ==
  /\ join[j].act = "trying" /\ join[j].secret = "right"
  /\ join' = [join EXCEPT ![j].act = "activated", ![j].secret = "none",
                          ![j].at = IF @ = "following" THEN "connected" ELSE @]
  /\ joined' = joined \cup {join[j].profile}
  /\ UNCHANGED <<secretsVars, nmVars, letGo, overdue, dismissed, refused, unheard, left>>

NMFails(j) ==
  /\ join[j].act \in {"trying", "activated"} /\ join' = Ending({j})
  /\ UNCHANGED <<secretsVars, nmVars, historyVars>>

\* Two minutes: there is no CancelGetSecrets then.
NMTimesOut(j) ==
  /\ join[j].act = "asking" /\ call[join[j].asks].stage # "answered"
  /\ IF call[join[j].asks].stage = "lookup"
     THEN letGo' = letGo \cup {join[j].asks} /\ UNCHANGED overdue
     ELSE overdue' = overdue \cup {join[j].asks} /\ UNCHANGED letGo
  /\ join' = Ending({j})
  /\ UNCHANGED <<secretsVars, nmVars, dismissed, refused, resultVars>>

CancelArrives(c) ==
  /\ c \in cancels /\ cancels' = cancels \ {c}
  /\ CancelGetSecrets(call[c].profile)
  /\ letGo' = letGo \cup {d \in {c} : call[c].stage = "lookup"}
  /\ UNCHANGED <<nmUp, saved, deletions, join, overdue, dismissed, refused, resultVars>>

\* NetworkManager restarts while nobody follows a join.
NMDies ==
  /\ nmUp /\ nmUp' = FALSE /\ OwnerVanishes
  /\ \A j \in Joins : join[j].at \notin Pending
  /\ letGo' = letGo \cup {c \in Awaited \cup cancels : call[c].stage = "lookup"}
  /\ join' = Ending(Joins) /\ cancels' = {}
  /\ deletions' = {} /\ left' = left \cup deletions
  /\ UNCHANGED <<saved, overdue, dismissed, refused, joined, unheard>>

NMStarts ==
  /\ ~nmUp /\ nmUp' = TRUE
  /\ UNCHANGED <<secretsVars, saved, cancels, deletions, join, historyVars>>

\* A profile is deleted with whoever uses it by then, or NetworkManager refuses.
NMDeletes(u) ==
  /\ nmUp /\ u \in deletions /\ deletions' = deletions \ {u}
  /\ LET users == {i \in Joins : join[i].profile = u}
     IN \/ /\ saved' = saved \ {u} /\ join' = Ending(users)
           /\ cancels' = cancels \cup CancelOf(users)
           /\ UNCHANGED left
        \/ left' = left \cup {u} /\ UNCHANGED <<saved, join, cancels>>
  /\ UNCHANGED <<secretsVars, nmUp, letGo, overdue, dismissed, refused, joined, unheard>>

-----------------------------------------------------------------------------
(***************************************************************************)
(* The agent's steps within the join.                                      *)
(***************************************************************************)
KeyringAnswers(c) ==
  /\ LookupEnds(c)
  /\ refused' = refused \cup
       {u \in {call[c].profile} : pending = 0 /\ call'[c].reply = "userCanceled"}
  /\ UNCHANGED <<nmVars, join, letGo, overdue, dismissed, resultVars>>

UserTypes(c, key) == KeyTyped(c, key) /\ UNCHANGED <<nmVars, join, historyVars>>
QuestionExpires(c) == TimerFires(c) /\ UNCHANGED <<nmVars, join, historyVars>>
DialogBreaks(c) == PromptFails(c) /\ UNCHANGED <<nmVars, join, historyVars>>

UserDismisses(c) ==
  /\ Dismissed(c)
  /\ dismissed' = dismissed \cup {j \in Joins : join[j].asks = c}
  /\ refused' = refused \cup {call[c].profile}
  /\ UNCHANGED <<nmVars, join, letGo, overdue, resultVars>>

\* A request that Settings gave up on may still take the record in the shell.  Else
\* (bound on delay) an answer ends its attempt, and that end is read, within 30 s.
RecordExpires(u) ==
  /\ RecordAges(u)
  /\ \/ u \in unheard
     \/ \A j \in Joins : join[j].profile = u =>
          /\ join[j].at \in {"following", "consuming"} => join[j].act # "deactivated"
          /\ join[j].act = "asking" => call[join[j].asks].stage # "answered"
  /\ UNCHANGED <<nmVars, join, historyVars>>

-----------------------------------------------------------------------------
(***************************************************************************)
(* The attempt's end.  A profile that this join made is to be deleted,     *)
(* whoever uses it by now, if libnm still knows it: the deletion is asked  *)
(* for and its outcome is nobody's.                                        *)
(***************************************************************************)
\* Mutant: the profile stays.
DoneKeeping(j, why) ==
  join' = [join EXCEPT ![j].at = why] /\ UNCHANGED <<deletions, left>>
Done(j, why) ==
  /\ join' = [join EXCEPT ![j].at = why]
  /\ \/ ~join[j].fresh /\ UNCHANGED <<deletions, left>>
     \/ join[j].fresh /\ deletions' = deletions \cup {join[j].profile} /\ UNCHANGED left
     \/ join[j].fresh /\ left' = left \cup {join[j].profile} /\ UNCHANGED deletions

Consumes(j) ==
  /\ Done(j, IF SaysCancelled(join[j].profile) THEN "cancelled" ELSE "failed")
  /\ TakeUserCancel(join[j].profile)
  /\ UNCHANGED <<nmUp, saved, cancels, letGo, overdue, dismissed, refused, joined, unheard>>

\* Mutant: only a refusal by the agent ends the promise.
HearsRefusals(j) ==
  /\ join[j].at = "following" /\ join[j].act = "deactivated" /\ join[j].who = "shell"
  /\ \E c \in Calls : call[c].reply = "userCanceled" /\ call[c].profile = join[j].profile
  /\ Consumes(j)
JoinHears(j) ==
  /\ join[j].at = "following" /\ join[j].act = "deactivated"
  /\ IF join[j].who = "shell" THEN Consumes(j)
     ELSE /\ join' = [join EXCEPT ![j].at = "consuming"]
          /\ UNCHANGED <<secretsVars, nmVars, historyVars>>

\* Settings asks the shell for the record over D-Bus.
SettingsConsumes(j) == join[j].at = "consuming" /\ Consumes(j)

\* The request fails, or has had no answer for 5 s: it answers false.
RequestFails(j) ==
  /\ join[j].at = "consuming" /\ Done(j, "failed")
  /\ unheard' = unheard \cup {join[j].profile}
  /\ UNCHANGED <<secretsVars, nmUp, saved, cancels, letGo, overdue, dismissed, refused, joined>>

-----------------------------------------------------------------------------
UserStep ==
  \/ \E j \in Joins, who \in {"shell", "settings"} : JoinClicked(j, who)
  \/ \E j \in Joins : FormAnswered(j)
  \/ \E c \in Calls : UserDismisses(c) \/ \E key \in Keys : UserTypes(c, key)

NMStep ==
  \/ \E j \in Joins : \/ NMRefuses(j) \/ NMActivates(j) \/ NMHears(j) \/ NMConnects(j)
                      \/ NMFails(j) \/ NMTimesOut(j)
  \/ \E j \in Joins, u \in Profiles : AutoActivates(j, u)
  \/ \E j \in Joins, c \in Calls, interact \in BOOLEAN : NMAsks(j, c, interact)
  \/ \E u \in Profiles : NMDeletes(u)
  \/ NMDies \/ NMStarts

ShellStep ==
  \/ \E c \in Calls : KeyringAnswers(c) \/ QuestionExpires(c) \/ DialogBreaks(c) \/ CancelArrives(c)
  \/ \E j \in Joins : JoinHears(j) \/ SettingsConsumes(j) \/ RequestFails(j)
  \/ \E u \in Profiles : RecordExpires(u)

JoinNext == UserStep \/ NMStep \/ ShellStep
JoinSpec == JoinInit /\ [][JoinNext]_vars

(***************************************************************************)
(* Timers fire, the keyring and D-Bus deliver; NetworkManager answers an   *)
(* activation, hears a reply and does not try a key for ever.  Nothing is  *)
(* assumed of the user.                                                    *)
(***************************************************************************)
JoinFair ==
  /\ JoinSpec
  /\ \A c \in Calls : WF_vars(QuestionExpires(c)) /\ WF_vars(KeyringAnswers(c)) /\ WF_vars(CancelArrives(c))
  /\ \A j \in Joins :
       /\ WF_vars(JoinHears(j)) /\ WF_vars(SettingsConsumes(j) \/ RequestFails(j))
       /\ WF_vars(NMActivates(j) \/ NMRefuses(j)) /\ WF_vars(NMHears(j))
       /\ WF_vars(NMConnects(j) \/ NMFails(j)) /\ WF_vars(NMTimesOut(j))

-----------------------------------------------------------------------------
(***************************************************************************)
(* Types; an activation waits for a call exactly while it asks.            *)
(***************************************************************************)
JoinTypeOK ==
  /\ SecretsTypeOK
  /\ nmUp \in BOOLEAN /\ saved \subseteq Profiles
  /\ join \in [Joins -> JoinRecords]
  /\ cancels \subseteq Calls /\ deletions \subseteq Profiles
  /\ \A j \in Joins : (join[j].act = "asking") <=> (join[j].asks # 0)

(***************************************************************************)
(* A dialog on screen is for a call somebody waits for, save for the time  *)
(* a CancelGetSecrets is on its way or the agent's own two minutes lag     *)
(* behind NetworkManager's, and save for a call that was let go of while   *)
(* the keyring was searched (DialogHasCall).                               *)
(***************************************************************************)
DialogIsAsked ==
  pending # 0 => \/ pending \in Awaited \cup cancels \cup letGo
                \/ pending \in overdue \cap timers

(***************************************************************************)
(* "NM withdrew the request (timeout, the activation was cancelled): close *)
(* the dialog" (NetworkAgent.ts:110).  A withdrawal that comes while the   *)
(* keyring is searched, perhaps behind its own unlock prompt, finds        *)
(* nothing pending, and the dialog opens after it.                         *)
(***************************************************************************)
DialogHasCall ==
  pending # 0 => pending \in Awaited \cup cancels \cup (overdue \cap timers)

(***************************************************************************)
(* A dismissed question is not a failure, in the shell or in Settings: the *)
(* join it was for does not report one, unless the record explained        *)
(* another attempt at the same profile, as it may explain one only, or a   *)
(* request of Settings for that record had no answer, which counts as "not *)
(* dismissed" (NetworkCancels.ts:34).                                      *)
(***************************************************************************)
CancelIsTold ==
  \A j \in dismissed : join[j].at = "failed" =>
    \/ \E i \in Joins : join[i].at = "cancelled" /\ join[i].profile = join[j].profile
    \/ join[j].profile \in unheard

(***************************************************************************)
(* And nothing else is passed over in silence: a join that says it was     *)
(* cancelled had a dialog of its network dismissed, or one that could not  *)
(* be built, or its form.                                                  *)
(***************************************************************************)
CancelledByUser ==
  \A j \in Joins : join[j].at = "cancelled" =>
    \/ join[j].profile \in refused
    \/ join[j].act = "none"

(***************************************************************************)
(* No profile without a working key is left behind unseen: one that a join *)
(* made and that never connected has that join under way, or its deletion; *)
(* or it is left because libnm had dropped it when the join's end looked   *)
(* (ac.get_connection() is null), or because NetworkManager refused the    *)
(* deletion or died on it, which the code does not hear of.                *)
(***************************************************************************)
SavedWorks ==
  \A u \in saved \ joined :
    \/ u \in deletions \cup left
    \/ \E j \in Joins : join[j].profile = u /\ join[j].at \in Pending

(***************************************************************************)
(* No question holds the agent for good: every later one would be refused, *)
(* and no network could be joined.                                         *)
(***************************************************************************)
AgentIsFreed == \A c \in Calls : (pending = c) ~> (pending # c)

(***************************************************************************)
(* A join that was started ends: the row that waits for it wakes up.       *)
(***************************************************************************)
JoinSettles == \A j \in Joins : (join[j].at \in Pending) ~> (join[j].at \in Settled)
=============================================================================
