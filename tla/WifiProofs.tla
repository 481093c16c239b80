----------------------------- MODULE WifiProofs -----------------------------
(***************************************************************************)
(* Proofs about WifiJoin, for every set of profiles and every bound.       *)
(***************************************************************************)
EXTENDS WifiJoin, TLAPS

(***************************************************************************)
(* The strengthening: the pending question is asked and timed, a search of *)
(* the keyring is for a call somebody waits for or has let go of, a join   *)
(* without an activation has not got far, the record of dismissals is only *)
(* of dialogs that were, and a profile that never worked has its maker,    *)
(* is to be deleted, or is one whose deletion came to nothing.             *)
(***************************************************************************)
PendingAsked == pending # 0 => pending \in timers /\ call[pending].stage = "asked"
Held == Awaited \cup cancels \cup letGo
LookupHeld == \A c \in Calls : call[c].stage = "lookup" => c \in Held
NotYetActive == \A j \in Joins : join[j].at \in {"unused", "form", "starting"} => join[j].act = "none"
RecordedRefused == userCancels \subseteq refused
MakerPending ==
  \A u \in saved \ joined :
    \/ u \in deletions \cup left
    \/ \E j \in Joins :
         join[j].fresh /\ join[j].profile = u /\ join[j].at \in {"following", "consuming"}

CallInv == PendingAsked /\ LookupHeld /\ DialogIsAsked
JoinInv == NotYetActive /\ RecordedRefused /\ CancelledByUser /\ MakerPending

-----------------------------------------------------------------------------
LEMMA InitTypes == JoinInit => JoinTypeOK
BY SecretsAssumption, JoinAssumption
   DEF JoinInit, SecretsInit, JoinTypeOK, SecretsTypeOK, Unasked, Unused, CallRecords, JoinRecords,
       Calls, Joins, Keys, Pending, Settled

LEMMA EndingTyped ==
  ASSUME JoinTypeOK, NEW J
  PROVE  /\ Ending(J) \in [Joins -> JoinRecords]
         /\ \A j \in Joins : (Ending(J)[j].act = "asking") <=> (Ending(J)[j].asks # 0)
<1>1. ASSUME NEW j \in Joins
      PROVE  /\ Ending(J)[j] \in JoinRecords
             /\ (Ending(J)[j].act = "asking") <=> (Ending(J)[j].asks # 0)
  <2>1. join[j] \in JoinRecords /\ ((join[j].act = "asking") <=> (join[j].asks # 0))
    BY DEF JoinTypeOK
  <2>2. 0 \in 0 .. MaxCalls
    BY SecretsAssumption
  <2>3. CASE j \in J /\ Live(j)
    <3>1. Ending(J)[j] = [join[j] EXCEPT !.act = "deactivated", !.asks = 0, !.secret = "none"]
      BY <2>3 DEF Ending
    <3> QED  BY <2>1, <2>2, <3>1 DEF JoinRecords
  <2>4. CASE ~(j \in J /\ Live(j))
    BY <2>1, <2>4 DEF Ending
  <2> QED  BY <2>3, <2>4
<1> QED  BY <1>1 DEF Ending

LEMMA EndingKeeps ==
  ASSUME JoinTypeOK, NEW J, NEW j \in Joins
  PROVE  /\ Ending(J)[j].at = join[j].at
         /\ Ending(J)[j].profile = join[j].profile
         /\ Ending(J)[j].fresh = join[j].fresh
         /\ (join[j].act = "none") <=> (Ending(J)[j].act = "none")
         /\ Ending(J)[j].asks = join[j].asks \/ (Ending(J)[j].asks = 0 /\ j \in J)
<1>1. join[j] \in JoinRecords
  BY DEF JoinTypeOK
<1>2. CASE j \in J /\ Live(j)
  <2>1. Ending(J)[j] = [join[j] EXCEPT !.act = "deactivated", !.asks = 0, !.secret = "none"]
    BY <1>2 DEF Ending
  <2>2. join[j].act # "none"
    BY <1>2 DEF Live
  <2> QED  BY <1>1, <1>2, <2>1, <2>2 DEF JoinRecords
<1>3. CASE ~(j \in J /\ Live(j))
  BY <1>3 DEF Ending
<1> QED  BY <1>2, <1>3

\* The calls that an ending lets go of are the ones it cancels.
LEMMA EndingAwaited ==
  ASSUME JoinTypeOK, NEW J
  PROVE  \A c \in Awaited : (\E j \in Joins : Ending(J)[j].asks = c) \/ c \in CancelOf(J)
<1> SUFFICES ASSUME NEW c \in Awaited PROVE (\E j \in Joins : Ending(J)[j].asks = c) \/ c \in CancelOf(J)
  OBVIOUS
<1>1. c \in Calls /\ \E j \in Joins : join[j].asks = c
  BY DEF Awaited
<1>2. PICK j \in Joins : join[j].asks = c
  BY <1>1
<1>3. Ending(J)[j].asks = c \/ j \in J
  BY <1>2, EndingKeeps
<1>4. c # 0
  BY <1>1 DEF Calls
<1> QED  BY <1>2, <1>3, <1>4 DEF CancelOf

LEMMA AskTyped ==
  ASSUME SecretsTypeOK, NEW c \in Calls, NEW r \in CallRecords, Ask(c, r)
  PROVE  SecretsTypeOK'
<1>1. /\ \A stage \in {"asked", "answered"} : [r EXCEPT !.stage = stage] \in CallRecords
      /\ \A reply \in {"noSecrets", "userCanceled"} :
           [r EXCEPT !.stage = "answered", !.reply = reply] \in CallRecords
  BY DEF CallRecords
<1>2. call' \in [Calls -> CallRecords]
  <2>1. \E s \in CallRecords : call' = [call EXCEPT ![c] = s]
    BY <1>1 DEF Ask
  <2> QED  BY <2>1 DEF SecretsTypeOK
<1>3. pending' \in 0 .. MaxCalls /\ timers' \subseteq Calls
  BY SecretsAssumption DEF Ask, SetTimer, SecretsTypeOK, askVars, Calls
<1>4. userCancels' \subseteq Profiles
  BY DEF Ask, SecretsTypeOK, CallRecords
<1> QED  BY <1>2, <1>3, <1>4 DEF SecretsTypeOK

LEMMA AnsweredTyped ==
  ASSUME SecretsTypeOK, NEW c \in Calls, NEW reply \in {"noSecrets", "userCanceled"} \cup Keys
  PROVE  Answered(c, reply) \in [Calls -> CallRecords]
<1>1. call[c] \in CallRecords
  BY DEF SecretsTypeOK
<1>2. [call[c] EXCEPT !.stage = "answered", !.reply = reply] \in CallRecords
  BY <1>1 DEF CallRecords
<1> QED  BY <1>2 DEF Answered, SecretsTypeOK

LEMMA ClosedTyped ==
  ASSUME SecretsTypeOK, NEW c, Closed(c)
  PROVE  pending' \in 0 .. MaxCalls /\ timers' \subseteq Calls
BY SecretsAssumption DEF Closed, SecretsTypeOK

LEMMA WithdrawTyped ==
  ASSUME SecretsTypeOK, NEW c \in Calls, Withdraw(c)
  PROVE  SecretsTypeOK'
BY AnsweredTyped, ClosedTyped DEF Withdraw, SecretsTypeOK

LEMMA CancelsTyped ==
  ASSUME JoinTypeOK, NEW J \in SUBSET Joins
  PROVE  cancels \cup CancelOf(J) \subseteq Calls
<1>1. \A j \in J : join[j].asks \in 0 .. MaxCalls
  BY DEF JoinTypeOK, JoinRecords
<1>2. CancelOf(J) \subseteq Calls
  BY <1>1, SecretsAssumption DEF CancelOf, Calls
<1> QED  BY <1>2 DEF JoinTypeOK

\* One join changes, and asks what it asked.
LEMMA OneChanges ==
  ASSUME JoinTypeOK, NEW j \in Joins, NEW r \in JoinRecords,
         (r.act = "asking") <=> (r.asks # 0),
         NEW f \in [Joins -> JoinRecords],
         \A i \in Joins : (f[i].act = "asking") <=> (f[i].asks # 0),
         join' = [f EXCEPT ![j] = r]
  PROVE  /\ join' \in [Joins -> JoinRecords]
         /\ \A i \in Joins : (join'[i].act = "asking") <=> (join'[i].asks # 0)
OBVIOUS

JoinsTyped ==
  /\ join \in [Joins -> JoinRecords]
  /\ \A j \in Joins : (join[j].act = "asking") <=> (join[j].asks # 0)

LEMMA ActivationTyped ==
  ASSUME JoinTypeOK, NEW j \in Joins, NEW u \in Profiles, NEW at \in {"following", "auto"},
         Activation(j, u, at)
  PROVE  JoinsTyped' /\ cancels' \subseteq Calls
<1>1. PICK s \in {"none"} \cup Keys :
        join' = [Ending(Joins) EXCEPT ![j].at = at, ![j].profile = u, ![j].act = "trying", ![j].secret = s]
  BY DEF Activation
<1> DEFINE r == [Ending(Joins)[j] EXCEPT !.at = at, !.profile = u, !.act = "trying", !.secret = s]
<1>2. Ending(Joins) \in [Joins -> JoinRecords]
      /\ \A i \in Joins : (Ending(Joins)[i].act = "asking") <=> (Ending(Joins)[i].asks # 0)
  BY EndingTyped
<1>3. Ending(Joins)[j].asks = 0
  <2>1. Ending(Joins)[j].act # "asking"
    <3>1. CASE Live(j)
      BY <3>1 DEF Ending, JoinTypeOK, JoinRecords
    <3>2. CASE ~Live(j)
      BY <3>2 DEF Ending, Live
    <3> QED  BY <3>1, <3>2
  <2> QED  BY <1>2, <2>1
<1>4. r \in JoinRecords /\ r.act = "trying" /\ r.asks = 0
  BY <1>2, <1>3 DEF JoinRecords, Pending
<1>5. join' = [Ending(Joins) EXCEPT ![j] = r]
  BY <1>1, <1>2
<1>6. JoinsTyped'
  BY <1>2, <1>4, <1>5, OneChanges DEF JoinsTyped
<1>7. cancels' \subseteq Calls
  BY CancelsTyped DEF Activation
<1> QED  BY <1>6, <1>7

\* The promise's end changes what the promise says and asks for the deletion.
LEMMA DoneSays ==
  ASSUME JoinTypeOK, NEW j \in Joins, NEW why \in Settled, Done(j, why)
  PROVE  /\ join' \in [Joins -> JoinRecords]
         /\ \A i \in Joins : i # j => join'[i] = join[i]
         /\ join'[j].at = why /\ join'[j].profile = join[j].profile /\ join'[j].fresh = join[j].fresh
         /\ join'[j].act = join[j].act /\ join'[j].asks = join[j].asks
<1>1. join' = [join EXCEPT ![j].at = why]
  BY DEF Done
<1> QED  BY <1>1 DEF JoinTypeOK, JoinRecords

LEMMA DoneDeletes ==
  ASSUME JoinTypeOK, NEW j \in Joins, NEW why, Done(j, why)
  PROVE  /\ deletions' \subseteq Profiles
         /\ deletions \cup left \subseteq deletions' \cup left'
         /\ join[j].fresh => join[j].profile \in deletions' \cup left'
<1>1. join[j].profile \in Profiles
  BY DEF JoinTypeOK, JoinRecords
<1> QED  BY <1>1 DEF Done, JoinTypeOK

LEMMA DoneTyped ==
  ASSUME JoinTypeOK, NEW j \in Joins, NEW why \in Settled, Done(j, why), SecretsTypeOK',
         UNCHANGED <<nmUp, saved, cancels>>
  PROVE  JoinTypeOK'
<1>1. JoinsTyped'
  BY DoneSays DEF JoinTypeOK, JoinsTyped
<1> QED  BY <1>1, DoneDeletes DEF JoinTypeOK, JoinsTyped

LEMMA ConsumesTyped ==
  ASSUME JoinTypeOK, NEW j \in Joins, Consumes(j)
  PROVE  JoinTypeOK'
<1>1. SecretsTypeOK'
  BY DEF Consumes, TakeUserCancel, askVars, JoinTypeOK, SecretsTypeOK
<1>2. \E why \in Settled : Done(j, why)
  BY DEF Consumes, Settled
<1> QED  BY <1>1, <1>2, DoneTyped DEF Consumes

-----------------------------------------------------------------------------
LEMMA UserKeepsTypes ==
  ASSUME JoinTypeOK, UserStep
  PROVE  JoinTypeOK'
<1>1. ASSUME NEW j \in Joins, NEW who \in {"shell", "settings"}, JoinClicked(j, who) PROVE JoinTypeOK'
  <2>0. join[j] \in JoinRecords /\ ((join[j].act = "asking") <=> (join[j].asks # 0)) /\ JoinsTyped
    BY DEF JoinTypeOK, JoinsTyped
  <2>1. ASSUME NEW u \in saved,
               join' = [join EXCEPT ![j].who = who, ![j].at = "starting", ![j].profile = u]
        PROVE  JoinsTyped'
    <3> DEFINE r == [join[j] EXCEPT !.who = who, !.at = "starting", !.profile = u]
    <3>1. u \in Profiles
      BY DEF JoinTypeOK
    <3>2. r \in JoinRecords /\ ((r.act = "asking") <=> (r.asks # 0))
      BY <2>0, <3>1 DEF JoinRecords, Pending
    <3>3. join' = [join EXCEPT ![j] = r]
      BY <2>1
    <3> HIDE DEF r
    <3> QED  BY <2>0, <3>2, <3>3, OneChanges DEF JoinsTyped
  <2>2. ASSUME NEW at \in {"starting", "form"},
               join' = [join EXCEPT ![j].who = who, ![j].at = at, ![j].fresh = TRUE]
        PROVE  JoinsTyped'
    <3> DEFINE r == [join[j] EXCEPT !.who = who, !.at = at, !.fresh = TRUE]
    <3>1. r \in JoinRecords /\ ((r.act = "asking") <=> (r.asks # 0))
      BY <2>0 DEF JoinRecords, Pending
    <3>2. join' = [join EXCEPT ![j] = r]
      BY <2>2
    <3> HIDE DEF r
    <3> QED  BY <2>0, <3>1, <3>2, OneChanges DEF JoinsTyped
  <2>3. JoinsTyped'
    BY <1>1, <2>1, <2>2 DEF JoinClicked
  <2> QED  BY <1>1, <2>3 DEF JoinClicked, JoinTypeOK, JoinsTyped, secretsVars, askVars, nmVars,
                             SecretsTypeOK
<1>2. ASSUME NEW j \in Joins, FormAnswered(j) PROVE JoinTypeOK'
  <2>1. JoinsTyped'
    BY <1>2 DEF FormAnswered, JoinTypeOK, JoinsTyped, JoinRecords, Pending, Settled
  <2> QED  BY <1>2, <2>1 DEF FormAnswered, JoinTypeOK, JoinsTyped, secretsVars, askVars, nmVars,
                             SecretsTypeOK
<1>3. ASSUME NEW c \in Calls, UserDismisses(c) PROVE JoinTypeOK'
  <2>1. call[c].profile \in Profiles
    BY DEF JoinTypeOK, SecretsTypeOK, CallRecords
  <2>2. SecretsTypeOK'
    BY <1>3, <2>1, AnsweredTyped, ClosedTyped DEF UserDismisses, Dismissed, JoinTypeOK, SecretsTypeOK
  <2> QED  BY <1>3, <2>2 DEF UserDismisses, JoinTypeOK, nmVars
<1>4. ASSUME NEW c \in Calls, NEW key \in Keys, UserTypes(c, key) PROVE JoinTypeOK'
  <2>1. SecretsTypeOK'
    BY <1>4, AnsweredTyped, ClosedTyped DEF UserTypes, KeyTyped, JoinTypeOK, SecretsTypeOK
  <2> QED  BY <1>4, <2>1 DEF UserTypes, JoinTypeOK, nmVars
<1> QED  BY <1>1, <1>2, <1>3, <1>4 DEF UserStep

LEMMA NMKeepsTypes ==
  ASSUME JoinTypeOK, NMStep
  PROVE  JoinTypeOK'
<1>1. ASSUME NEW j \in Joins, NMRefuses(j) PROVE JoinTypeOK'
  <2>1. JoinsTyped'
    BY <1>1 DEF NMRefuses, JoinTypeOK, JoinsTyped, JoinRecords, Settled
  <2> QED  BY <1>1, <2>1 DEF NMRefuses, JoinTypeOK, JoinsTyped, secretsVars, askVars, nmVars,
                             SecretsTypeOK
<1>2. ASSUME NEW j \in Joins, NMActivates(j) PROVE JoinTypeOK'
  <2>1. PICK u \in Profiles : Activation(j, u, "following") /\ saved' = saved \cup {u}
    BY <1>2 DEF NMActivates, JoinTypeOK, Unclaimed
  <2>2. JoinsTyped' /\ cancels' \subseteq Calls
    BY <2>1, ActivationTyped
  <2> QED  BY <1>2, <2>1, <2>2 DEF NMActivates, JoinTypeOK, JoinsTyped, secretsVars, askVars,
                                   SecretsTypeOK
<1>3. ASSUME NEW j \in Joins, NMHears(j) PROVE JoinTypeOK'
  <2>1. JoinsTyped'
    <3>1. CASE call[join[j].asks].reply \in Keys
      BY <1>3, <3>1, SecretsAssumption DEF NMHears, JoinTypeOK, JoinsTyped, JoinRecords
    <3>2. CASE call[join[j].asks].reply \notin Keys
      BY <1>3, <3>2, EndingTyped DEF NMHears, JoinsTyped
    <3> QED  BY <3>1, <3>2
  <2> QED  BY <1>3, <2>1 DEF NMHears, JoinTypeOK, JoinsTyped, secretsVars, askVars, nmVars,
                             SecretsTypeOK
<1>4. ASSUME NEW j \in Joins, NMConnects(j) PROVE JoinTypeOK'
  <2>1. JoinsTyped'
    BY <1>4 DEF NMConnects, JoinTypeOK, JoinsTyped, JoinRecords, Settled
  <2> QED  BY <1>4, <2>1 DEF NMConnects, JoinTypeOK, JoinsTyped, secretsVars, askVars, nmVars,
                             SecretsTypeOK
<1>5. ASSUME NEW j \in Joins, NMFails(j) PROVE JoinTypeOK'
  <2>1. JoinsTyped'
    BY <1>5, EndingTyped DEF NMFails, JoinsTyped
  <2> QED  BY <1>5, <2>1 DEF NMFails, JoinTypeOK, JoinsTyped, secretsVars, askVars, nmVars,
                             SecretsTypeOK
<1>6. ASSUME NEW j \in Joins, NMTimesOut(j) PROVE JoinTypeOK'
  <2>1. JoinsTyped'
    BY <1>6, EndingTyped DEF NMTimesOut, JoinsTyped
  <2> QED  BY <1>6, <2>1 DEF NMTimesOut, JoinTypeOK, JoinsTyped, secretsVars, askVars, nmVars,
                             SecretsTypeOK
<1>7. ASSUME NEW j \in Joins, NEW u \in Profiles, AutoActivates(j, u) PROVE JoinTypeOK'
  <2>1. JoinsTyped' /\ cancels' \subseteq Calls
    BY <1>7, ActivationTyped DEF AutoActivates
  <2> QED  BY <1>7, <2>1 DEF AutoActivates, JoinTypeOK, JoinsTyped, secretsVars, askVars,
                             SecretsTypeOK
<1>8. ASSUME NEW j \in Joins, NEW c \in Calls, NEW interact \in BOOLEAN, NMAsks(j, c, interact)
      PROVE  JoinTypeOK'
  <2> DEFINE r == [profile |-> join[j].profile, interact |-> interact,
                   retry |-> join[j].secret = "wrong", stage |-> "lookup", reply |-> "none"]
  <2>1. r \in CallRecords
    BY DEF JoinTypeOK, JoinRecords, CallRecords
  <2>2. SecretsTypeOK'
    <3>1. Ask(c, r) \/ (call' = [call EXCEPT ![c] = r] /\ UNCHANGED <<askVars, userCancels>>)
      BY <1>8 DEF NMAsks, GetSecrets
    <3> HIDE DEF r
    <3>2. CASE Ask(c, r)
      BY <2>1, <3>2, AskTyped DEF JoinTypeOK
    <3>3. CASE call' = [call EXCEPT ![c] = r] /\ UNCHANGED <<askVars, userCancels>>
      BY <2>1, <3>3 DEF JoinTypeOK, SecretsTypeOK, askVars
    <3> QED  BY <3>1, <3>2, <3>3
  <2>3. c \in 0 .. MaxCalls /\ c # 0
    BY SecretsAssumption DEF Calls
  <2>4. JoinsTyped'
    BY <1>8, <2>3 DEF NMAsks, JoinTypeOK, JoinsTyped, JoinRecords
  <2> QED  BY <1>8, <2>2, <2>4 DEF NMAsks, JoinTypeOK, JoinsTyped, nmVars
<1>9. ASSUME NMDies PROVE JoinTypeOK'
  <2>1. JoinsTyped'
    BY <1>9, EndingTyped DEF NMDies, JoinsTyped
  <2>2. SecretsTypeOK'
    BY <1>9, ClosedTyped DEF NMDies, OwnerVanishes, JoinTypeOK, SecretsTypeOK, askVars
  <2> QED  BY <1>9, <2>1, <2>2 DEF NMDies, JoinTypeOK, JoinsTyped
<1>10. ASSUME NMStarts PROVE JoinTypeOK'
  BY <1>10 DEF NMStarts, JoinTypeOK, secretsVars, askVars, SecretsTypeOK
<1>11. ASSUME NEW u \in Profiles, NMDeletes(u) PROVE JoinTypeOK'
  <2> DEFINE users == {i \in Joins : join[i].profile = u}
  <2>1. JoinsTyped' /\ cancels' \subseteq Calls /\ saved' \subseteq Profiles
    <3>1. CASE join' = Ending(users) /\ cancels' = cancels \cup CancelOf(users) /\ saved' = saved \ {u}
      BY <3>1, EndingTyped, CancelsTyped DEF JoinsTyped, JoinTypeOK
    <3>2. CASE UNCHANGED <<saved, join, cancels>>
      BY <3>2 DEF JoinsTyped, JoinTypeOK
    <3> QED  BY <1>11, <3>1, <3>2 DEF NMDeletes
  <2> QED  BY <1>11, <2>1 DEF NMDeletes, JoinTypeOK, JoinsTyped, secretsVars, askVars, SecretsTypeOK
<1> QED  BY <1>1, <1>2, <1>3, <1>4, <1>5, <1>6, <1>7, <1>8, <1>9, <1>10, <1>11 DEF NMStep

LEMMA ShellKeepsTypes ==
  ASSUME JoinTypeOK, ShellStep
  PROVE  JoinTypeOK'
<1>1. ASSUME NEW c \in Calls, KeyringAnswers(c) PROVE JoinTypeOK'
  <2>1. SecretsTypeOK'
    <3>1. call[c] \in CallRecords /\ SecretsTypeOK
      BY DEF JoinTypeOK, SecretsTypeOK
    <3>2. CASE Ask(c, call[c])
      BY <3>1, <3>2, AskTyped
    <3>3. CASE \E key \in Keys : call' = Answered(c, key) /\ UNCHANGED <<askVars, userCancels>>
      BY <3>1, <3>3, AnsweredTyped DEF SecretsTypeOK, askVars
    <3> QED  BY <1>1, <3>2, <3>3 DEF KeyringAnswers, LookupEnds
  <2> QED  BY <1>1, <2>1 DEF KeyringAnswers, JoinTypeOK, nmVars
<1>2. ASSUME NEW c \in Calls, QuestionExpires(c) \/ DialogBreaks(c) PROVE JoinTypeOK'
  <2>1. SecretsTypeOK'
    BY <1>2, WithdrawTyped DEF QuestionExpires, DialogBreaks, TimerFires, PromptFails, JoinTypeOK
  <2> QED  BY <1>2, <2>1 DEF QuestionExpires, DialogBreaks, JoinTypeOK, nmVars
<1>3. ASSUME NEW c \in Calls, CancelArrives(c) PROVE JoinTypeOK'
  <2>1. SecretsTypeOK'
    <3>1. CASE pending # 0 /\ call[pending].profile = call[c].profile
      <4>1. pending \in Calls
        BY <3>1 DEF JoinTypeOK, SecretsTypeOK, Calls
      <4> QED  BY <1>3, <3>1, <4>1, WithdrawTyped DEF CancelArrives, CancelGetSecrets, JoinTypeOK
    <3>2. CASE ~(pending # 0 /\ call[pending].profile = call[c].profile)
      BY <1>3, <3>2 DEF CancelArrives, CancelGetSecrets, JoinTypeOK, SecretsTypeOK, secretsVars, askVars
    <3> QED  BY <3>1, <3>2
  <2> QED  BY <1>3, <2>1 DEF CancelArrives, JoinTypeOK
<1>4. ASSUME NEW j \in Joins, JoinHears(j) PROVE JoinTypeOK'
  <2>1. CASE Consumes(j)
    BY <2>1, ConsumesTyped
  <2>2. CASE /\ join' = [join EXCEPT ![j].at = "consuming"]
             /\ UNCHANGED <<secretsVars, nmVars, historyVars>>
    <3>1. JoinsTyped'
      BY <2>2 DEF JoinTypeOK, JoinsTyped, JoinRecords, Pending
    <3> QED  BY <2>2, <3>1 DEF JoinTypeOK, JoinsTyped, secretsVars, askVars, nmVars, SecretsTypeOK
  <2> QED  BY <1>4, <2>1, <2>2 DEF JoinHears
<1>5. ASSUME NEW j \in Joins, SettingsConsumes(j) PROVE JoinTypeOK'
  BY <1>5, ConsumesTyped DEF SettingsConsumes
<1>6. ASSUME NEW u \in Profiles, RecordExpires(u) PROVE JoinTypeOK'
  BY <1>6 DEF RecordExpires, RecordAges, TakeUserCancel, JoinTypeOK, SecretsTypeOK, askVars, nmVars
<1>7. ASSUME NEW j \in Joins, RequestFails(j) PROVE JoinTypeOK'
  <2>1. SecretsTypeOK'
    BY <1>7 DEF RequestFails, secretsVars, askVars, JoinTypeOK, SecretsTypeOK
  <2>2. Done(j, "failed") /\ "failed" \in Settled
    BY <1>7 DEF RequestFails, Settled
  <2> QED  BY <1>7, <2>1, <2>2, DoneTyped DEF RequestFails
<1> QED  BY <1>1, <1>2, <1>3, <1>4, <1>5, <1>6, <1>7 DEF ShellStep

LEMMA StutterKeepsTypes ==
  ASSUME JoinTypeOK, UNCHANGED vars
  PROVE  JoinTypeOK'
BY DEF vars, JoinTypeOK, SecretsTypeOK, secretsVars, askVars, nmVars

(***************************************************************************)
(* Types of the join and the agent, whatever NetworkManager and the user   *)
(* do.                                                                     *)
(***************************************************************************)
THEOREM JoinIsTyped == JoinSpec => []JoinTypeOK
<1>1. JoinInit => JoinTypeOK
  BY InitTypes
<1>2. JoinTypeOK /\ [JoinNext]_vars => JoinTypeOK'
  BY UserKeepsTypes, NMKeepsTypes, ShellKeepsTypes, StutterKeepsTypes DEF JoinNext
<1> QED  BY <1>1, <1>2, PTL DEF JoinSpec

-----------------------------------------------------------------------------
(***************************************************************************)
(* The dialog and its call.  A step that touches no question keeps what is *)
(* held: an activation that ends hands its call to the cancels.            *)
(***************************************************************************)
LEMMA HeldKeepsCalls ==
  ASSUME JoinTypeOK, CallInv, UNCHANGED <<call, pending, timers>>, overdue \subseteq overdue',
         \A c \in Calls \cap Held : call[c].stage = "lookup" => c \in Held',
         \A c \in Calls \cap Held : call[c].stage = "asked" /\ c \in timers =>
                                      c \in Held' \cup overdue'
  PROVE  CallInv'
<1>1. PendingAsked' /\ LookupHeld'
  BY DEF CallInv, PendingAsked, LookupHeld
<1>2. DialogIsAsked'
  <2> SUFFICES ASSUME pending # 0 PROVE DialogIsAsked'
    BY DEF DialogIsAsked
  <2>1. pending \in Calls /\ pending \in timers /\ call[pending].stage = "asked"
    BY DEF JoinTypeOK, SecretsTypeOK, Calls, CallInv, PendingAsked
  <2>2. pending \in Held \/ pending \in overdue \cap timers
    BY DEF CallInv, DialogIsAsked, Held
  <2> QED  BY <2>1, <2>2 DEF DialogIsAsked, Held
<1> QED  BY <1>1, <1>2 DEF CallInv

\* Nothing is let go of, or only what an ending cancels.
LEMMA EndedHeld ==
  ASSUME JoinTypeOK, NEW J, NEW j \in Joins,
         \A i \in Joins : join'[i].asks = Ending(J)[i].asks,
         cancels' = cancels \cup CancelOf(J), UNCHANGED letGo
  PROVE  Held \subseteq Held'
<1>1. \A c \in Awaited : c \in Awaited' \/ c \in CancelOf(J)
  BY EndingAwaited DEF Awaited
<1> QED  BY <1>1 DEF Held

LEMMA SameHeld ==
  ASSUME \A i \in Joins : join'[i].asks = join[i].asks, UNCHANGED <<cancels, letGo>>
  PROVE  Held' = Held
BY DEF Held, Awaited

\* The one question ends.
LEMMA AnswerKeepsCalls ==
  ASSUME JoinTypeOK, CallInv, NEW c \in Calls, NEW reply, Closed(c), call' = Answered(c, reply),
         UNCHANGED <<join, cancels, letGo, overdue>>
  PROVE  CallInv'
<1>1. PendingAsked' /\ DialogIsAsked'
  BY DEF Closed, PendingAsked, DialogIsAsked
<1>2. Held' = Held
  BY SameHeld
<1>3. \A d \in Calls : call'[d].stage = "lookup" => call[d].stage = "lookup"
  <2>1. call[c] \in CallRecords
    BY DEF JoinTypeOK, SecretsTypeOK
  <2> QED  BY <2>1 DEF Answered, JoinTypeOK, SecretsTypeOK, CallRecords
<1>4. LookupHeld'
  BY <1>2, <1>3 DEF CallInv, LookupHeld
<1> QED  BY <1>1, <1>4 DEF CallInv

\* A question is asked, or answered without asking.
LEMMA AskKeepsCalls ==
  ASSUME JoinTypeOK, CallInv, NEW c \in Calls, NEW r \in CallRecords, Ask(c, r), c \in Held',
         Held \subseteq Held', UNCHANGED overdue, timers \subseteq timers', pending # c
  PROVE  CallInv'
<1>1. \E s \in CallRecords : call' = [call EXCEPT ![c] = s] /\ s.stage \in {"asked", "answered"}
  <2>1. /\ [r EXCEPT !.stage = "asked"] \in CallRecords
        /\ [r EXCEPT !.stage = "asked"].stage = "asked"
        /\ \A reply \in {"noSecrets", "userCanceled"} :
             /\ [r EXCEPT !.stage = "answered", !.reply = reply] \in CallRecords
             /\ [r EXCEPT !.stage = "answered", !.reply = reply].stage = "answered"
    BY DEF CallRecords
  <2> QED  BY <2>1 DEF Ask
<1>2. LookupHeld'
  BY <1>1 DEF CallInv, LookupHeld, JoinTypeOK, SecretsTypeOK
<1>3. CASE pending' = c
  <2>1. call'[c].stage = "asked" /\ c \in timers'
    BY <1>3, SecretsAssumption DEF Ask, SetTimer, JoinTypeOK, SecretsTypeOK, CallRecords, askVars, Calls
  <2> QED  BY <1>2, <1>3, <2>1 DEF CallInv, PendingAsked, DialogIsAsked, Held
<1>4. CASE pending' # c
  <2>1. pending' = pending
    BY <1>4 DEF Ask, askVars
  <2>2. PendingAsked'
    BY <1>1, <2>1 DEF CallInv, PendingAsked, JoinTypeOK, SecretsTypeOK, Calls
  <2>3. DialogIsAsked'
    BY <2>1 DEF CallInv, DialogIsAsked, Held
  <2> QED  BY <1>2, <2>2, <2>3 DEF CallInv
<1> QED  BY <1>3, <1>4

LEMMA NMKeepsCalls ==
  ASSUME JoinTypeOK, CallInv, NMStep
  PROVE  CallInv'
<1>1. ASSUME NEW j \in Joins, NMRefuses(j) PROVE CallInv'
  <2>1. Held' = Held
    BY <1>1, SameHeld DEF NMRefuses, JoinTypeOK, JoinRecords, nmVars, historyVars, resultVars
  <2> QED  BY <1>1, <2>1, HeldKeepsCalls DEF NMRefuses, secretsVars, askVars, historyVars, resultVars
<1>2. ASSUME NEW j \in Joins, NEW u, NEW at, Activation(j, u, at),
             UNCHANGED <<secretsVars, historyVars>>
      PROVE  CallInv'
  <2>1. \A i \in Joins : join'[i].asks = Ending(Joins)[i].asks
    BY <1>2, EndingTyped DEF Activation, JoinRecords
  <2>2. Held \subseteq Held'
    BY <1>2, <2>1, EndedHeld DEF Activation, historyVars, resultVars
  <2> QED  BY <1>2, <2>2, HeldKeepsCalls DEF secretsVars, askVars, historyVars, resultVars
<1>3. ASSUME NEW j \in Joins, NMHears(j) PROVE CallInv'
  <2>1. \A i \in Joins : i # j => join'[i].asks = join[i].asks
    BY <1>3 DEF NMHears, Ending, JoinTypeOK, JoinRecords
  <2>2. \A c \in Calls \cap Held : call[c].stage # "answered" => c \in Held'
    BY <1>3, <2>1 DEF NMHears, Held, Awaited, nmVars, historyVars, resultVars
  <2>3. UNCHANGED <<call, pending, timers, overdue>>
    BY <1>3 DEF NMHears, secretsVars, askVars, historyVars, resultVars
  <2> QED  BY <2>2, <2>3, HeldKeepsCalls
<1>4. ASSUME NEW j \in Joins, NMConnects(j) PROVE CallInv'
  <2>1. Held' = Held
    BY <1>4, SameHeld DEF NMConnects, JoinTypeOK, JoinRecords, nmVars
  <2> QED  BY <1>4, <2>1, HeldKeepsCalls DEF NMConnects, secretsVars, askVars
<1>5. ASSUME NEW j \in Joins, NMFails(j) PROVE CallInv'
  <2>1. join[j].asks = 0
    BY <1>5 DEF NMFails, JoinTypeOK
  <2>2. \A i \in Joins : join'[i].asks = join[i].asks
    BY <1>5, <2>1, EndingKeeps DEF NMFails
  <2>3. Held' = Held
    BY <1>5, <2>2, SameHeld DEF NMFails, nmVars, historyVars, resultVars
  <2> QED  BY <1>5, <2>3, HeldKeepsCalls DEF NMFails, secretsVars, askVars, historyVars, resultVars
<1>6. ASSUME NEW j \in Joins, NMTimesOut(j) PROVE CallInv'
  <2>1. \A i \in Joins : i # j => join'[i].asks = join[i].asks
    BY <1>6 DEF NMTimesOut, Ending
  <2>2. \A c \in Held : c # join[j].asks => c \in Held'
    BY <1>6, <2>1 DEF NMTimesOut, Held, Awaited, nmVars
  <2>3. /\ UNCHANGED <<call, pending, timers>> /\ overdue \subseteq overdue'
        /\ call[join[j].asks].stage = "lookup" => join[j].asks \in Held'
        /\ call[join[j].asks].stage # "lookup" => join[j].asks \in overdue'
    BY <1>6 DEF NMTimesOut, secretsVars, askVars, Held
  <2> QED  BY <2>2, <2>3, HeldKeepsCalls
<1>7. ASSUME NEW j \in Joins, NEW c \in Calls, NEW interact \in BOOLEAN, NMAsks(j, c, interact)
      PROVE  CallInv'
  <2> DEFINE r == [profile |-> join[j].profile, interact |-> interact,
                   retry |-> join[j].secret = "wrong", stage |-> "lookup", reply |-> "none"]
  <2>1. r \in CallRecords
    BY DEF JoinTypeOK, JoinRecords, CallRecords
  <2>2. \A i \in Joins : join'[i].asks = IF i = j THEN c ELSE join[i].asks
    BY <1>7 DEF NMAsks, JoinTypeOK, JoinRecords
  <2>3. join[j].asks = 0 /\ UNCHANGED <<cancels, letGo, overdue>>
    BY <1>7 DEF NMAsks, JoinTypeOK, nmVars
  <2>4. c \in Held' /\ Held \subseteq Held'
    <3>1. c \in Awaited' /\ Awaited \subseteq Awaited'
      BY <2>2, <2>3 DEF Awaited, Calls
    <3> QED  BY <2>3, <3>1 DEF Held
  <2>5. pending # c
    BY <1>7, SecretsAssumption DEF NMAsks, GetSecrets, CallInv, PendingAsked, Calls
  <2>6. Ask(c, r) \/ (call' = [call EXCEPT ![c] = r] /\ UNCHANGED <<askVars, userCancels>>)
    BY <1>7 DEF NMAsks, GetSecrets
  <2>7. r.stage = "lookup"
    OBVIOUS
  <2> HIDE DEF r
  <2>8. CASE Ask(c, r)
    <3>1. timers \subseteq timers'
      BY <2>8 DEF Ask, SetTimer, askVars
    <3> QED  BY <2>1, <2>3, <2>4, <2>5, <2>8, <3>1, AskKeepsCalls
  <2>9. CASE call' = [call EXCEPT ![c] = r] /\ UNCHANGED <<askVars, userCancels>>
    <3>1. \A d \in Calls : call'[d] = IF d = c THEN r ELSE call[d]
      BY <2>9 DEF JoinTypeOK, SecretsTypeOK
    <3>2. LookupHeld'
      BY <2>4, <3>1 DEF CallInv, LookupHeld
    <3>3. PendingAsked'
      BY <2>5, <2>9, <3>1 DEF CallInv, PendingAsked, askVars, JoinTypeOK, SecretsTypeOK, Calls
    <3>4. DialogIsAsked'
      BY <2>3, <2>4, <2>9 DEF CallInv, DialogIsAsked, Held, askVars
    <3> QED  BY <3>2, <3>3, <3>4 DEF CallInv
  <2> QED  BY <2>6, <2>8, <2>9
<1>8. ASSUME NMDies PROVE CallInv'
  <2>1. pending' = 0
    BY <1>8 DEF NMDies, OwnerVanishes, Closed, askVars
  <2>2. LookupHeld'
    BY <1>8 DEF NMDies, OwnerVanishes, CallInv, LookupHeld, Held
  <2> QED  BY <2>1, <2>2 DEF CallInv, PendingAsked, DialogIsAsked
<1>9. ASSUME NMStarts PROVE CallInv'
  <2>1. Held' = Held
    BY <1>9, SameHeld DEF NMStarts, historyVars, resultVars
  <2> QED  BY <1>9, <2>1, HeldKeepsCalls DEF NMStarts, secretsVars, askVars, historyVars, resultVars
<1>10. ASSUME NEW j \in Joins, NMActivates(j) PROVE CallInv'
  BY <1>2, <1>10 DEF NMActivates
<1>11. ASSUME NEW j \in Joins, NEW u \in Profiles, AutoActivates(j, u) PROVE CallInv'
  BY <1>2, <1>11 DEF AutoActivates
<1>12. ASSUME NEW u \in Profiles, NMDeletes(u) PROVE CallInv'
  <2> DEFINE users == {i \in Joins : join[i].profile = u}
  <2>1. UNCHANGED <<call, pending, timers, letGo, overdue>>
    BY <1>12 DEF NMDeletes, secretsVars, askVars
  <2>2. CASE join' = Ending(users) /\ cancels' = cancels \cup CancelOf(users)
    <3>1. \A i \in Joins : join'[i].asks = Ending(users)[i].asks
      BY <2>2
    <3>2. users \subseteq Joins
      OBVIOUS
    <3> HIDE DEF users
    <3>3. Held \subseteq Held'
      <4>1. CASE Joins = {}
        BY <2>1, <2>2, <4>1 DEF Held, Awaited
      <4>2. ASSUME NEW j \in Joins PROVE Held \subseteq Held'
        BY <2>1, <2>2, <3>1, EndedHeld
      <4> QED  BY <4>1, <4>2
    <3> QED  BY <2>1, <3>3, HeldKeepsCalls
  <2>3. CASE UNCHANGED <<join, cancels>>
    <3>1. Held' = Held
      BY <2>1, <2>3, SameHeld
    <3> QED  BY <2>1, <3>1, HeldKeepsCalls
  <2> QED  BY <1>12, <2>2, <2>3 DEF NMDeletes
<1> QED  BY <1>1, <1>3, <1>4, <1>5, <1>6, <1>7, <1>8, <1>9, <1>10, <1>11, <1>12 DEF NMStep

LEMMA UserKeepsCalls ==
  ASSUME JoinTypeOK, CallInv, UserStep
  PROVE  CallInv'
<1>1. ASSUME NEW j \in Joins, NEW who, JoinClicked(j, who) \/ FormAnswered(j) PROVE CallInv'
  <2>1. \A i \in Joins : join'[i].asks = join[i].asks
    BY <1>1 DEF JoinClicked, FormAnswered, JoinTypeOK, JoinRecords
  <2>2. Held' = Held
    BY <1>1, <2>1, SameHeld DEF JoinClicked, FormAnswered, nmVars, historyVars, resultVars
  <2> QED  BY <1>1, <2>2, HeldKeepsCalls DEF JoinClicked, FormAnswered, secretsVars, askVars, historyVars, resultVars
<1>2. ASSUME NEW c \in Calls, UserDismisses(c) PROVE CallInv'
  BY <1>2, AnswerKeepsCalls DEF UserDismisses, Dismissed, nmVars
<1>3. ASSUME NEW c \in Calls, NEW key \in Keys, UserTypes(c, key) PROVE CallInv'
  BY <1>3, AnswerKeepsCalls DEF UserTypes, KeyTyped, nmVars, historyVars, resultVars
<1> QED  BY <1>1, <1>2, <1>3 DEF UserStep

LEMMA DoneKeepsCalls ==
  ASSUME JoinTypeOK, CallInv, NEW j \in Joins, NEW why \in Settled, Done(j, why),
         UNCHANGED <<call, pending, timers, cancels, letGo, overdue>>
  PROVE  CallInv'
<1>1. Held' = Held
  BY DoneSays, SameHeld
<1> QED  BY <1>1, HeldKeepsCalls

LEMMA ConsumesKeepsCalls ==
  ASSUME JoinTypeOK, CallInv, NEW j \in Joins, Consumes(j)
  PROVE  CallInv'
<1>1. \E why \in Settled : Done(j, why)
  BY DEF Consumes, Settled
<1> QED  BY <1>1, DoneKeepsCalls DEF Consumes, TakeUserCancel, askVars

LEMMA ShellKeepsCalls ==
  ASSUME JoinTypeOK, CallInv, ShellStep
  PROVE  CallInv'
<1>1. ASSUME NEW c \in Calls, KeyringAnswers(c) PROVE CallInv'
  <2>1. Held' = Held /\ UNCHANGED <<join, cancels, letGo, overdue>>
    BY <1>1, SameHeld DEF KeyringAnswers, nmVars
  <2>2. c \in Held /\ pending # c /\ call[c] \in CallRecords
    BY <1>1 DEF KeyringAnswers, LookupEnds, CallInv, LookupHeld, PendingAsked, JoinTypeOK,
                SecretsTypeOK, Calls
  <2>3. CASE Ask(c, call[c])
    <3>1. timers \subseteq timers'
      BY <2>3 DEF Ask, SetTimer, askVars
    <3> QED  BY <2>1, <2>2, <2>3, <3>1, AskKeepsCalls
  <2>4. CASE \E key \in Keys : call' = Answered(c, key) /\ UNCHANGED <<askVars, userCancels>>
    <3>1. \A d \in Calls : d # c => call'[d] = call[d]
      BY <2>4 DEF Answered, JoinTypeOK, SecretsTypeOK
    <3>2. call'[c].stage = "answered"
      BY <2>2, <2>4 DEF Answered, JoinTypeOK, SecretsTypeOK, CallRecords
    <3>3. LookupHeld'
      BY <2>1, <3>1, <3>2 DEF CallInv, LookupHeld
    <3>4. PendingAsked'
      BY <2>2, <2>4, <3>1 DEF CallInv, PendingAsked, askVars, JoinTypeOK, SecretsTypeOK, Calls
    <3>5. DialogIsAsked'
      BY <2>1, <2>4 DEF CallInv, DialogIsAsked, Held, askVars
    <3> QED  BY <3>3, <3>4, <3>5 DEF CallInv
  <2> QED  BY <1>1, <2>3, <2>4 DEF KeyringAnswers, LookupEnds
<1>2. ASSUME NEW c \in Calls, QuestionExpires(c) \/ DialogBreaks(c) PROVE CallInv'
  BY <1>2, AnswerKeepsCalls DEF QuestionExpires, DialogBreaks, TimerFires, PromptFails, Withdraw,
                                nmVars, historyVars, resultVars
<1>3. ASSUME NEW c \in Calls, CancelArrives(c) PROVE CallInv'
  <2>1. \A d \in Held : d # c => d \in Held'
    BY <1>3 DEF CancelArrives, Held, Awaited
  <2>2. call[c].stage = "lookup" => c \in Held'
    BY <1>3 DEF CancelArrives, Held
  <2>3. CASE pending # 0 /\ call[pending].profile = call[c].profile
    <3>1. pending \in Calls /\ call[pending].stage = "asked" /\ call[pending] \in CallRecords
      BY <2>3 DEF JoinTypeOK, SecretsTypeOK, Calls, CallInv, PendingAsked
    <3>2. Withdraw(pending)
      BY <1>3, <2>3 DEF CancelArrives, CancelGetSecrets
    <3>3. pending' = 0
      BY <3>2 DEF Withdraw, Closed
    <3>4. \A d \in Calls : call'[d].stage = "lookup" => call[d].stage = "lookup"
      BY <3>1, <3>2 DEF Withdraw, Answered, JoinTypeOK, SecretsTypeOK, CallRecords
    <3>5. LookupHeld'
      BY <2>1, <2>2, <3>4 DEF CallInv, LookupHeld
    <3> QED  BY <3>3, <3>5 DEF CallInv, PendingAsked, DialogIsAsked
  <2>4. CASE ~(pending # 0 /\ call[pending].profile = call[c].profile)
    <3>1. UNCHANGED <<call, pending, timers, overdue>>
      BY <1>3, <2>4 DEF CancelArrives, CancelGetSecrets, secretsVars, askVars
    <3>2. LookupHeld' /\ PendingAsked'
      BY <2>1, <2>2, <3>1 DEF CallInv, LookupHeld, PendingAsked
    <3>3. DialogIsAsked'
      BY <2>1, <2>4, <3>1 DEF CallInv, DialogIsAsked, Held
    <3> QED  BY <3>2, <3>3 DEF CallInv
  <2> QED  BY <2>3, <2>4
<1>4. ASSUME NEW j \in Joins, JoinHears(j) PROVE CallInv'
  <2>1. CASE Consumes(j)
    BY <2>1, ConsumesKeepsCalls
  <2>2. CASE /\ join' = [join EXCEPT ![j].at = "consuming"]
             /\ UNCHANGED <<secretsVars, nmVars, historyVars>>
    <3>1. Held' = Held
      BY <2>2, SameHeld DEF JoinTypeOK, JoinRecords, nmVars, historyVars, resultVars
    <3> QED  BY <2>2, <3>1, HeldKeepsCalls DEF secretsVars, askVars, historyVars, resultVars
  <2> QED  BY <1>4, <2>1, <2>2 DEF JoinHears
<1>5. ASSUME NEW j \in Joins, SettingsConsumes(j) PROVE CallInv'
  BY <1>5, ConsumesKeepsCalls DEF SettingsConsumes
<1>6. ASSUME NEW u \in Profiles, RecordExpires(u) PROVE CallInv'
  <2>1. Held' = Held
    BY <1>6, SameHeld DEF RecordExpires, nmVars, historyVars, resultVars
  <2> QED  BY <1>6, <2>1, HeldKeepsCalls DEF RecordExpires, RecordAges, TakeUserCancel, askVars, historyVars, resultVars
<1>7. ASSUME NEW j \in Joins, RequestFails(j) PROVE CallInv'
  <2>1. Done(j, "failed") /\ "failed" \in Settled
    BY <1>7 DEF RequestFails, Settled
  <2> QED  BY <1>7, <2>1, DoneKeepsCalls DEF RequestFails, secretsVars, askVars
<1> QED  BY <1>1, <1>2, <1>3, <1>4, <1>5, <1>6, <1>7 DEF ShellStep

LEMMA CallsInv == JoinSpec => []CallInv
<1>1. JoinInit => CallInv
  BY SecretsAssumption DEF JoinInit, SecretsInit, Unasked, CallInv, PendingAsked, LookupHeld, DialogIsAsked, Calls
<1>2. JoinTypeOK /\ CallInv /\ [JoinNext]_vars => CallInv'
  <2>1. ASSUME JoinTypeOK, CallInv, UNCHANGED vars PROVE CallInv'
    <3>1. Held' = Held
      BY <2>1, SameHeld DEF vars, nmVars, historyVars, resultVars
    <3> QED  BY <2>1, <3>1, HeldKeepsCalls DEF vars, secretsVars, askVars, historyVars, resultVars
  <2> QED  BY <2>1, UserKeepsCalls, NMKeepsCalls, ShellKeepsCalls DEF JoinNext
<1> QED  BY <1>1, <1>2, JoinIsTyped, PTL DEF JoinSpec

(***************************************************************************)
(* The dialog on screen is somebody's, whatever is withdrawn when, but for *)
(* a call let go of while the keyring was searched.                        *)
(***************************************************************************)
THEOREM DialogHasItsCall == JoinSpec => []DialogIsAsked
<1>1. CallInv => DialogIsAsked
  BY DEF CallInv
<1> QED  BY <1>1, CallsInv, PTL

-----------------------------------------------------------------------------
(***************************************************************************)
(* What a join says and what it leaves.  A step that only changes how far  *)
(* activations are changes neither.                                        *)
(***************************************************************************)
Same(i) ==
  join'[i].at = join[i].at /\ join'[i].profile = join[i].profile /\ join'[i].fresh = join[i].fresh

LEMMA ActsKeepJoins ==
  ASSUME JoinTypeOK, JoinInv, \A i \in Joins : Same(i),
         \A i \in Joins : join[i].act = "none" => join'[i].act = "none",
         saved' \subseteq saved, joined \subseteq joined',
         \A u \in saved' : u \in deletions \cup left => u \in deletions' \cup left',
         refused \subseteq refused', userCancels' \subseteq refused'
  PROVE  JoinInv'
<1>1. NotYetActive' /\ RecordedRefused'
  BY DEF JoinInv, NotYetActive, RecordedRefused, Same
<1>2. CancelledByUser'
  BY DEF JoinInv, CancelledByUser, Same
<1>3. MakerPending'
  BY DEF JoinInv, MakerPending, Same
<1> QED  BY <1>1, <1>2, <1>3 DEF JoinInv

LEMMA EndingKeepsJoins ==
  ASSUME JoinTypeOK, JoinInv, NEW J, join' = Ending(J), UNCHANGED <<joined, refused, userCancels>>,
         saved' \subseteq saved,
         \A u \in saved' : u \in deletions \cup left => u \in deletions' \cup left'
  PROVE  JoinInv'
<1>1. \A i \in Joins : Same(i) /\ (join[i].act = "none" => join'[i].act = "none")
  BY EndingKeeps DEF Same
<1> QED  BY <1>1, ActsKeepJoins DEF JoinInv, RecordedRefused

\* One join goes on; the others at most have their activations ended.
OthersSame(j) ==
  \A i \in Joins : i # j => Same(i) /\ (join[i].act = "none" => join'[i].act = "none")

LEMMA AskRecords ==
  ASSUME NEW c \in Calls, NEW r \in CallRecords, Ask(c, r), JoinTypeOK
  PROVE  \/ userCancels' = userCancels
         \/ /\ pending = 0 /\ userCancels' = userCancels \cup {r.profile}
            /\ call'[c].reply = "userCanceled"
<1>1. [r EXCEPT !.stage = "answered", !.reply = "userCanceled"].reply = "userCanceled"
  BY DEF CallRecords
<1> QED  BY <1>1 DEF Ask, JoinTypeOK, SecretsTypeOK

LEMMA NMKeepsJoins ==
  ASSUME JoinTypeOK, JoinInv, NMStep
  PROVE  JoinInv'
<1>0. RecordedRefused
  BY DEF JoinInv
<1>1. ASSUME NEW j \in Joins, NMRefuses(j) PROVE JoinInv'
  <2>1. OthersSame(j) /\ join'[j].at = "failed" /\ join[j].at = "starting"
    BY <1>1 DEF NMRefuses, OthersSame, Same, JoinTypeOK
  <2>2. UNCHANGED <<saved, deletions, left, joined, refused, userCancels>>
    BY <1>1 DEF NMRefuses, nmVars, historyVars, resultVars, secretsVars
  <2>3. NotYetActive' /\ RecordedRefused' /\ CancelledByUser'
    BY <2>1, <2>2 DEF JoinInv, NotYetActive, RecordedRefused, CancelledByUser, OthersSame, Same
  <2>4. MakerPending'
    BY <2>1, <2>2 DEF JoinInv, MakerPending, OthersSame, Same
  <2> QED  BY <2>3, <2>4 DEF JoinInv
<1>2. ASSUME NEW j \in Joins, NMActivates(j) PROVE JoinInv'
  <2>1. PICK u \in IF join[j].fresh THEN Unclaimed ELSE {join[j].profile} \cap saved :
          Activation(j, u, "following") /\ saved' = saved \cup {u}
    BY <1>2 DEF NMActivates
  <2>2. /\ OthersSame(j) /\ join'[j].at = "following" /\ join'[j].profile = u
        /\ join'[j].fresh = join[j].fresh
    BY <2>1, EndingTyped, EndingKeeps DEF Activation, OthersSame, Same, JoinRecords
  <2>3. UNCHANGED <<deletions, left, joined, refused, userCancels>> /\ join[j].at = "starting"
    BY <1>2 DEF NMActivates, historyVars, resultVars, secretsVars
  <2>4. NotYetActive' /\ RecordedRefused' /\ CancelledByUser'
    BY <2>2, <2>3 DEF JoinInv, NotYetActive, RecordedRefused, CancelledByUser, OthersSame, Same
  <2>5. MakerPending'
    <3>1. join[j].fresh \/ saved' = saved
      BY <2>1
    <3>2. \A i \in Joins : join[i].at \in {"following", "consuming"} => i # j
      BY <2>3
    <3> QED  BY <2>1, <2>2, <2>3, <3>1, <3>2 DEF JoinInv, MakerPending, OthersSame, Same
  <2> QED  BY <2>4, <2>5 DEF JoinInv
<1>3. ASSUME NEW j \in Joins, NMHears(j) PROVE JoinInv'
  <2>1. UNCHANGED <<saved, deletions, left, joined, refused, userCancels>> /\ join[j].act # "none"
    BY <1>3 DEF NMHears, nmVars, historyVars, resultVars, secretsVars
  <2>2. CASE call[join[j].asks].reply \in Keys
    <3>1. \A i \in Joins : Same(i) /\ (join[i].act = "none" => join'[i].act = "none")
      BY <1>3, <2>1, <2>2 DEF NMHears, Same, JoinTypeOK, JoinRecords
    <3> QED  BY <1>0, <2>1, <3>1, ActsKeepJoins DEF RecordedRefused
  <2>3. CASE call[join[j].asks].reply \notin Keys
    BY <1>3, <2>1, <2>3, EndingKeepsJoins DEF NMHears
  <2> QED  BY <2>2, <2>3
<1>4. ASSUME NEW j \in Joins, NMConnects(j) PROVE JoinInv'
  <2>1. /\ OthersSame(j) /\ join'[j].act = "activated" /\ join[j].act = "trying"
        /\ join'[j].profile = join[j].profile /\ join'[j].fresh = join[j].fresh
        /\ join'[j].at = IF join[j].at = "following" THEN "connected" ELSE join[j].at
    BY <1>4 DEF NMConnects, OthersSame, Same, JoinTypeOK, JoinRecords
  <2>2. UNCHANGED <<saved, deletions, left, refused, userCancels>> /\ joined' = joined \cup {join[j].profile}
    BY <1>4 DEF NMConnects, nmVars, secretsVars
  <2>3. NotYetActive' /\ RecordedRefused' /\ CancelledByUser'
    BY <2>1, <2>2 DEF JoinInv, NotYetActive, RecordedRefused, CancelledByUser, OthersSame, Same
  <2>4. MakerPending'
    <3> SUFFICES ASSUME NEW u \in saved \ joined, u # join[j].profile,
                        u \notin deletions \cup left
                 PROVE  \E i \in Joins : /\ join'[i].fresh /\ join'[i].profile = u
                                         /\ join'[i].at \in {"following", "consuming"}
      BY <2>2 DEF MakerPending
    <3>1. PICK i \in Joins : /\ join[i].fresh /\ join[i].profile = u
                             /\ join[i].at \in {"following", "consuming"}
      BY DEF JoinInv, MakerPending
    <3> QED  BY <2>1, <3>1 DEF OthersSame, Same
  <2> QED  BY <2>3, <2>4 DEF JoinInv
<1>5. ASSUME NEW j \in Joins, NMFails(j) \/ NMTimesOut(j) PROVE JoinInv'
  BY <1>5, EndingKeepsJoins DEF NMFails, NMTimesOut, nmVars, historyVars, resultVars, secretsVars
<1>6. ASSUME NEW j \in Joins, NEW u \in Profiles, AutoActivates(j, u) PROVE JoinInv'
  <2>1. /\ OthersSame(j) /\ join'[j].at = "auto" /\ join[j].at = "unused"
    BY <1>6, EndingTyped, EndingKeeps DEF AutoActivates, Activation, NextUnused, OthersSame, Same, JoinRecords
  <2>2. UNCHANGED <<saved, deletions, left, joined, refused, userCancels>>
    BY <1>6 DEF AutoActivates, historyVars, resultVars, secretsVars
  <2>3. NotYetActive' /\ RecordedRefused' /\ CancelledByUser'
    BY <2>1, <2>2 DEF JoinInv, NotYetActive, RecordedRefused, CancelledByUser, OthersSame, Same
  <2>4. MakerPending'
    BY <2>1, <2>2 DEF JoinInv, MakerPending, OthersSame, Same
  <2> QED  BY <2>3, <2>4 DEF JoinInv
<1>7. ASSUME NEW j \in Joins, NEW c \in Calls, NEW interact \in BOOLEAN, NMAsks(j, c, interact)
      PROVE  JoinInv'
  <2> DEFINE r == [profile |-> join[j].profile, interact |-> interact,
                   retry |-> join[j].secret = "wrong", stage |-> "lookup", reply |-> "none"]
  <2>1. \A i \in Joins : Same(i) /\ (join[i].act = "none" => join'[i].act = "none")
    BY <1>7 DEF NMAsks, Same, JoinTypeOK, JoinRecords
  <2>2. userCancels' \subseteq refused'
    <3>1. Ask(c, r) \/ userCancels' = userCancels
      BY <1>7 DEF NMAsks, GetSecrets
    <3>2. r.profile = join[j].profile /\ r \in CallRecords
      BY DEF JoinTypeOK, JoinRecords, CallRecords
    <3> HIDE DEF r
    <3>3. \/ userCancels' = userCancels
          \/ /\ pending = 0 /\ userCancels' = userCancels \cup {join[j].profile}
             /\ call'[c].reply = "userCanceled"
      BY <3>1, <3>2, AskRecords
    <3> QED  BY <1>0, <1>7, <3>3 DEF NMAsks, RecordedRefused
  <2> QED  BY <1>7, <2>1, <2>2, ActsKeepJoins DEF NMAsks, nmVars, resultVars
<1>8. ASSUME NMDies PROVE JoinInv'
  BY <1>8, EndingKeepsJoins DEF NMDies, OwnerVanishes
<1>9. ASSUME NEW u \in Profiles, NMDeletes(u) PROVE JoinInv'
  <2> DEFINE users == {i \in Joins : join[i].profile = u}
  <2>1. UNCHANGED <<joined, refused, userCancels>> /\ deletions' = deletions \ {u}
    BY <1>9 DEF NMDeletes, secretsVars
  <2>2. CASE saved' = saved \ {u} /\ join' = Ending(users) /\ UNCHANGED left
    BY <2>1, <2>2, EndingKeepsJoins
  <2>3. CASE left' = left \cup {u} /\ UNCHANGED <<saved, join>>
    BY <1>0, <2>1, <2>3, ActsKeepJoins DEF Same, RecordedRefused
  <2> QED  BY <1>9, <2>2, <2>3 DEF NMDeletes
<1>10. ASSUME NMStarts PROVE JoinInv'
  BY <1>0, <1>10, ActsKeepJoins DEF NMStarts, Same, secretsVars, historyVars, resultVars, RecordedRefused
<1> QED  BY <1>1, <1>2, <1>3, <1>4, <1>5, <1>6, <1>7, <1>8, <1>9, <1>10 DEF NMStep

LEMMA UserKeepsJoins ==
  ASSUME JoinTypeOK, JoinInv, UserStep
  PROVE  JoinInv'
<1>1. ASSUME NEW j \in Joins, NEW who, JoinClicked(j, who) \/ FormAnswered(j) PROVE JoinInv'
  <2>1. /\ OthersSame(j) /\ join'[j].at \in {"starting", "form", "cancelled"}
        /\ join'[j].act = join[j].act /\ join[j].at \in {"unused", "form"}
    BY <1>1 DEF JoinClicked, FormAnswered, NextUnused, OthersSame, Same, JoinTypeOK, JoinRecords
  <2>2. UNCHANGED <<saved, deletions, left, joined, refused, userCancels>>
    BY <1>1 DEF JoinClicked, FormAnswered, nmVars, historyVars, resultVars, secretsVars
  <2>3. NotYetActive' /\ RecordedRefused' /\ CancelledByUser'
    BY <2>1, <2>2 DEF JoinInv, NotYetActive, RecordedRefused, CancelledByUser, OthersSame, Same
  <2>4. MakerPending'
    BY <2>1, <2>2 DEF JoinInv, MakerPending, OthersSame, Same
  <2> QED  BY <2>3, <2>4 DEF JoinInv
<1>2. ASSUME NEW c \in Calls, UserDismisses(c) PROVE JoinInv'
  BY <1>2, ActsKeepJoins DEF UserDismisses, Dismissed, Same, nmVars, resultVars, JoinInv, RecordedRefused
<1>3. ASSUME NEW c \in Calls, NEW key \in Keys, UserTypes(c, key) PROVE JoinInv'
  BY <1>3, ActsKeepJoins DEF UserTypes, KeyTyped, Same, nmVars, historyVars, resultVars, JoinInv, RecordedRefused
<1> QED  BY <1>1, <1>2, <1>3 DEF UserStep

LEMMA DoneKeepsJoins ==
  ASSUME JoinTypeOK, JoinInv, NEW j \in Joins, NEW why \in {"cancelled", "failed"}, Done(j, why),
         why = "cancelled" => join[j].profile \in refused,
         userCancels' \subseteq userCancels, UNCHANGED <<saved, joined, refused>>
  PROVE  JoinInv'
<1>1. /\ OthersSame(j) /\ join'[j].at = why /\ join'[j].profile = join[j].profile
      /\ join'[j].fresh = join[j].fresh
  BY DoneSays DEF OthersSame, Same, Settled
<1>2. /\ deletions \cup left \subseteq deletions' \cup left'
      /\ join[j].fresh => join[j].profile \in deletions' \cup left'
  BY DoneDeletes
<1>3. NotYetActive' /\ RecordedRefused'
  BY <1>1 DEF JoinInv, NotYetActive, RecordedRefused, OthersSame, Same
<1>4. CancelledByUser'
  BY <1>1 DEF JoinInv, CancelledByUser, OthersSame, Same
<1>5. MakerPending'
  <2> SUFFICES ASSUME NEW u \in saved \ joined, u \notin deletions' \cup left'
               PROVE  \E i \in Joins : /\ join'[i].fresh /\ join'[i].profile = u
                                       /\ join'[i].at \in {"following", "consuming"}
    BY DEF MakerPending
  <2>1. PICK i \in Joins : /\ join[i].fresh /\ join[i].profile = u
                           /\ join[i].at \in {"following", "consuming"}
    BY <1>2 DEF JoinInv, MakerPending
  <2>2. i # j
    BY <1>2, <2>1
  <2> QED  BY <1>1, <2>1, <2>2 DEF OthersSame, Same
<1> QED  BY <1>3, <1>4, <1>5 DEF JoinInv

LEMMA ConsumesKeepsJoins ==
  ASSUME JoinTypeOK, JoinInv, NEW j \in Joins, Consumes(j)
  PROVE  JoinInv'
<1> DEFINE why == IF SaysCancelled(join[j].profile) THEN "cancelled" ELSE "failed"
<1>1. Done(j, why) /\ userCancels' \subseteq userCancels /\ UNCHANGED <<saved, joined, refused>>
  BY DEF Consumes, TakeUserCancel
<1>2. why = "cancelled" => join[j].profile \in refused
  BY DEF SaysCancelled, JoinInv, RecordedRefused
<1>3. why \in {"cancelled", "failed"}
  OBVIOUS
<1> HIDE DEF why
<1> QED  BY <1>1, <1>2, <1>3, DoneKeepsJoins

LEMMA ShellKeepsJoins ==
  ASSUME JoinTypeOK, JoinInv, ShellStep
  PROVE  JoinInv'
<1>0. RecordedRefused
  BY DEF JoinInv
<1>1. ASSUME NEW c \in Calls, KeyringAnswers(c) PROVE JoinInv'
  <2>1. Ask(c, call[c]) \/ userCancels' = userCancels
    BY <1>1 DEF KeyringAnswers, LookupEnds
  <2>2. userCancels' \subseteq refused'
    <3>1. call[c] \in CallRecords
      BY DEF JoinTypeOK, SecretsTypeOK
    <3> QED  BY <1>0, <1>1, <2>1, <3>1, AskRecords DEF KeyringAnswers, RecordedRefused
  <2> QED  BY <1>1, <2>2, ActsKeepJoins DEF KeyringAnswers, Same, nmVars, resultVars
<1>2. ASSUME NEW c \in Calls, QuestionExpires(c) \/ DialogBreaks(c) PROVE JoinInv'
  BY <1>0, <1>2, ActsKeepJoins DEF QuestionExpires, DialogBreaks, TimerFires, PromptFails, Withdraw,
                                   Same, nmVars, historyVars, resultVars, RecordedRefused
<1>3. ASSUME NEW c \in Calls, CancelArrives(c) PROVE JoinInv'
  <2>1. userCancels' = userCancels
    BY <1>3 DEF CancelArrives, CancelGetSecrets, Withdraw, secretsVars
  <2> QED  BY <1>0, <1>3, <2>1, ActsKeepJoins DEF CancelArrives, resultVars, Same, RecordedRefused
<1>4. ASSUME NEW j \in Joins, JoinHears(j) PROVE JoinInv'
  <2>1. CASE Consumes(j)
    BY <1>4, <2>1, ConsumesKeepsJoins DEF JoinHears
  <2>2. CASE /\ join' = [join EXCEPT ![j].at = "consuming"]
             /\ UNCHANGED <<secretsVars, nmVars, historyVars>>
    <3>1. /\ OthersSame(j) /\ join'[j].at = "consuming" /\ join'[j].profile = join[j].profile
          /\ join'[j].fresh = join[j].fresh
      BY <2>2 DEF OthersSame, Same, JoinTypeOK, JoinRecords
    <3>2. UNCHANGED <<saved, deletions, left, joined, refused, userCancels>>
      BY <2>2 DEF nmVars, historyVars, resultVars, secretsVars
    <3>3. NotYetActive' /\ RecordedRefused' /\ CancelledByUser'
      BY <3>1, <3>2 DEF JoinInv, NotYetActive, RecordedRefused, CancelledByUser, OthersSame, Same
    <3>4. MakerPending'
      BY <3>1, <3>2 DEF JoinInv, MakerPending, OthersSame, Same
    <3> QED  BY <3>3, <3>4 DEF JoinInv
  <2> QED  BY <1>4, <2>1, <2>2 DEF JoinHears
<1>5. ASSUME NEW j \in Joins, SettingsConsumes(j) PROVE JoinInv'
  BY <1>5, ConsumesKeepsJoins DEF SettingsConsumes
<1>6. ASSUME NEW u \in Profiles, RecordExpires(u) PROVE JoinInv'
  BY <1>0, <1>6, ActsKeepJoins DEF RecordExpires, RecordAges, TakeUserCancel, Same, nmVars, historyVars, resultVars,
                                   RecordedRefused
<1>7. ASSUME NEW j \in Joins, RequestFails(j) PROVE JoinInv'
  BY <1>7, DoneKeepsJoins DEF RequestFails, secretsVars
<1> QED  BY <1>1, <1>2, <1>3, <1>4, <1>5, <1>6, <1>7 DEF ShellStep

LEMMA JoinsInv == JoinSpec => []JoinInv
<1>1. JoinInit => JoinInv
  BY DEF JoinInit, SecretsInit, Unused, JoinInv, NotYetActive, RecordedRefused, CancelledByUser, MakerPending
<1>2. JoinTypeOK /\ JoinInv /\ [JoinNext]_vars => JoinInv'
  <2>1. ASSUME JoinTypeOK, JoinInv, UNCHANGED vars PROVE JoinInv'
    BY <2>1, ActsKeepJoins DEF vars, nmVars, historyVars, resultVars, secretsVars, Same, JoinInv, RecordedRefused
  <2> QED  BY <2>1, UserKeepsJoins, NMKeepsJoins, ShellKeepsJoins DEF JoinNext
<1> QED  BY <1>1, <1>2, JoinIsTyped, PTL DEF JoinSpec

(***************************************************************************)
(* A join that says it was cancelled was: the record it reads is only of   *)
(* dialogs that were dismissed or could not be built.                      *)
(***************************************************************************)
THEOREM CancelWasOne == JoinSpec => []CancelledByUser
<1>1. JoinInv => CancelledByUser
  BY DEF JoinInv
<1> QED  BY <1>1, JoinsInv, PTL

(***************************************************************************)
(* A failed join leaves no profile of its own unseen: each that never      *)
(* worked has its maker still under way or its deletion, or is one libnm   *)
(* had dropped or NetworkManager did not delete.                           *)
(***************************************************************************)
THEOREM NoBrokenProfiles == JoinSpec => []SavedWorks
<1>1. JoinInv => SavedWorks
  BY DEF JoinInv, MakerPending, SavedWorks, Pending
<1> QED  BY <1>1, JoinsInv, PTL

-----------------------------------------------------------------------------
(***************************************************************************)
(* A dismissal is told.  A key is tried and asked for only where an        *)
(* attempt is followed, a call asked for is of the profile it is asked     *)
(* for, and a join whose question was dismissed is nobody's promise, has   *)
(* its record spent on another attempt or asked for in vain, or finds its  *)
(* record when it ends: its activation has ended, or is about to hear the  *)
(* refusal.                                                                *)
(***************************************************************************)
Followed == \A j \in Joins : join[j].act \in {"trying", "asking"} => join[j].at \in {"following", "auto"}
AsksFor(j) ==
  join[j].asks # 0 =>
    call[join[j].asks].profile = join[j].profile /\ call[join[j].asks].stage # "unused"
Explained(u) ==
  u \in unheard \/ \E i \in Joins : join[i].at = "cancelled" /\ join[i].profile = u
Refused(j) ==
  \/ join[j].act = "deactivated"
  \/ /\ join[j].act = "asking"
     /\ call[join[j].asks].stage = "answered" /\ call[join[j].asks].reply = "userCanceled"
ToBeTold(j) ==
  join[j].at \in {"following", "consuming"} /\ join[j].profile \in userCancels /\ Refused(j)
Noted(j) ==
  join[j].act # "none" /\ (join[j].at = "auto" \/ Explained(join[j].profile) \/ ToBeTold(j))

AskInv ==
  /\ Followed
  /\ \A j \in Joins : AsksFor(j)
  /\ \A j \in dismissed : Noted(j)
  /\ dismissed \subseteq Joins

\* What was asked stays asked, and what was answered is answered for good.
CallsGo ==
  \A c \in Calls : call[c].stage # "unused" =>
    /\ call'[c].profile = call[c].profile /\ call'[c].stage # "unused"
    /\ call[c].stage = "answered" => call'[c] = call[c]

\* An activation goes on, or ends.
Kept(i) ==
  /\ Same(i)
  /\ \/ join'[i].act = join[i].act /\ join'[i].asks = join[i].asks
     \/ join'[i].act = "deactivated" /\ join'[i].asks = 0

LEMMA SameCallsGo == ASSUME call' = call PROVE CallsGo
BY DEF CallsGo

LEMMA AnswerGoes ==
  ASSUME JoinTypeOK, CallInv, NEW reply, pending # 0, call' = Answered(pending, reply)
  PROVE  CallsGo
<1>1. pending \in Calls /\ call[pending].stage = "asked" /\ call[pending] \in CallRecords
  BY DEF JoinTypeOK, SecretsTypeOK, Calls, CallInv, PendingAsked
<1>2. \A c \in Calls : c # pending => call'[c] = call[c]
  BY DEF Answered, JoinTypeOK, SecretsTypeOK
<1>3. call'[pending].profile = call[pending].profile /\ call'[pending].stage = "answered"
  BY <1>1 DEF Answered, JoinTypeOK, SecretsTypeOK, CallRecords
<1> QED  BY <1>1, <1>2, <1>3 DEF CallsGo

LEMMA AskAnswers ==
  ASSUME JoinTypeOK, NEW c \in Calls, NEW r \in CallRecords, Ask(c, r)
  PROVE  /\ \A d \in Calls : d # c => call'[d] = call[d]
         /\ call'[c].profile = r.profile /\ call'[c].stage # "unused"
<1>1. \E s \in CallRecords : /\ call' = [call EXCEPT ![c] = s]
                             /\ s.profile = r.profile /\ s.stage \in {"asked", "answered"}
  <2>1. /\ [r EXCEPT !.stage = "asked"] \in CallRecords
        /\ [r EXCEPT !.stage = "asked"].stage = "asked"
        /\ [r EXCEPT !.stage = "asked"].profile = r.profile
        /\ \A reply \in {"noSecrets", "userCanceled"} :
             /\ [r EXCEPT !.stage = "answered", !.reply = reply] \in CallRecords
             /\ [r EXCEPT !.stage = "answered", !.reply = reply].stage = "answered"
             /\ [r EXCEPT !.stage = "answered", !.reply = reply].profile = r.profile
    BY DEF CallRecords
  <2> QED  BY <2>1 DEF Ask
<1> QED  BY <1>1 DEF JoinTypeOK, SecretsTypeOK

LEMMA LookupGoes ==
  ASSUME JoinTypeOK, NEW c \in Calls, LookupEnds(c)
  PROVE  CallsGo
<1>1. call[c] \in CallRecords /\ call[c].stage = "lookup"
  BY DEF LookupEnds, JoinTypeOK, SecretsTypeOK
<1>2. CASE Ask(c, call[c])
  BY <1>1, <1>2, AskAnswers DEF CallsGo
<1>3. ASSUME NEW key \in Keys, call' = Answered(c, key) PROVE CallsGo
  <2>1. call'[c].profile = call[c].profile /\ call'[c].stage = "answered"
    BY <1>1, <1>3 DEF Answered, JoinTypeOK, SecretsTypeOK, CallRecords
  <2>2. \A d \in Calls : d # c => call'[d] = call[d]
    BY <1>3 DEF Answered, JoinTypeOK, SecretsTypeOK
  <2> QED  BY <1>1, <2>1, <2>2 DEF CallsGo
<1> QED  BY <1>2, <1>3 DEF LookupEnds

LEMMA CancelGoes ==
  ASSUME JoinTypeOK, CallInv, NEW u, CancelGetSecrets(u)
  PROVE  CallsGo
<1>1. CASE pending # 0 /\ call[pending].profile = u
  BY <1>1, AnswerGoes DEF CancelGetSecrets, Withdraw
<1>2. CASE ~(pending # 0 /\ call[pending].profile = u)
  BY <1>2, SameCallsGo DEF CancelGetSecrets, secretsVars
<1> QED  BY <1>1, <1>2

LEMMA EndingKept ==
  ASSUME JoinTypeOK, NEW J, NEW i \in Joins,
         join'[i].at = Ending(J)[i].at, join'[i].profile = Ending(J)[i].profile,
         join'[i].fresh = Ending(J)[i].fresh, join'[i].act = Ending(J)[i].act,
         join'[i].asks = Ending(J)[i].asks
  PROVE  Kept(i)
<1>1. Same(i)
  BY EndingKeeps DEF Same
<1>2. CASE i \in J /\ Live(i)
  <2>1. Ending(J)[i] = [join[i] EXCEPT !.act = "deactivated", !.asks = 0, !.secret = "none"]
    BY <1>2 DEF Ending
  <2>2. Ending(J)[i].act = "deactivated" /\ Ending(J)[i].asks = 0
    BY <2>1 DEF JoinTypeOK, JoinRecords
  <2> QED  BY <1>1, <2>2 DEF Kept
<1>3. CASE ~(i \in J /\ Live(i))
  <2>1. Ending(J)[i] = join[i]
    BY <1>3 DEF Ending
  <2> QED  BY <1>1, <2>1 DEF Kept
<1> QED  BY <1>2, <1>3

\* An attempt that goes on or ends asks for its profile, and stays where a record is found.
LEMMA KeptAsks ==
  ASSUME JoinTypeOK, AskInv, CallsGo, NEW i \in Joins, Kept(i)
  PROVE  /\ join'[i].act \in {"trying", "asking"} => join'[i].at \in {"following", "auto"}
         /\ AsksFor(i)'
         /\ Refused(i) => Refused(i)'
<1>1. join[i].asks \in 0 .. MaxCalls /\ ((join[i].act = "asking") <=> (join[i].asks # 0))
  BY DEF JoinTypeOK, JoinRecords
<1>2. join[i].asks # 0 => join[i].asks \in Calls
  BY <1>1, SecretsAssumption DEF Calls
<1>3. join'[i].act \in {"trying", "asking"} => join'[i].at \in {"following", "auto"}
  BY DEF Kept, Same, AskInv, Followed
<1>4. AsksFor(i)'
  BY <1>2 DEF Kept, Same, AskInv, AsksFor, CallsGo
<1>5. Refused(i) => Refused(i)'
  BY <1>1, <1>2 DEF Kept, Refused, AskInv, AsksFor, CallsGo
<1> QED  BY <1>3, <1>4, <1>5

\* One join goes on.  A record that is gone has explained an attempt.
LEMMA OneGoesOn ==
  ASSUME JoinTypeOK, AskInv, CallsGo, NEW j \in Joins, \A i \in Joins : i # j => Kept(i),
         join'[j].act \in {"trying", "asking"} => join'[j].at \in {"following", "auto"},
         AsksFor(j)', j \in dismissed' => Noted(j)',
         join[j].at = "cancelled" => Same(j),
         dismissed' = dismissed, unheard \subseteq unheard',
         \A i \in dismissed : i # j /\ join[i].profile \in userCancels \ userCancels' =>
                                Explained(join[i].profile)'
  PROVE  AskInv'
<1>1. Followed' /\ \A i \in Joins : AsksFor(i)'
  BY KeptAsks DEF Followed
<1>2. \A u : Explained(u) => Explained(u)'
  BY DEF Explained, Kept, Same
<1>3. ASSUME NEW i \in dismissed, i # j PROVE Noted(i)'
  <2>1. Noted(i) /\ i \in Joins /\ Kept(i)
    BY <1>3 DEF AskInv
  <2>2. join'[i].act # "none" /\ join'[i].profile = join[i].profile /\ join'[i].at = join[i].at
    BY <2>1 DEF Noted, Kept, Same
  <2>3. CASE join[i].at = "auto" \/ Explained(join[i].profile)
    BY <1>2, <2>2, <2>3 DEF Noted
  <2>4. CASE ToBeTold(i)
    <3>1. Refused(i)'
      BY <2>1, <2>4, KeptAsks DEF ToBeTold
    <3> QED  BY <1>3, <2>2, <2>4, <3>1 DEF Noted, ToBeTold
  <2> QED  BY <2>1, <2>3, <2>4 DEF Noted
<1> QED  BY <1>1, <1>3 DEF AskInv

LEMMA AllGoOn ==
  ASSUME JoinTypeOK, AskInv, CallsGo, \A i \in Joins : Kept(i), dismissed' = dismissed,
         unheard \subseteq unheard',
         \A i \in dismissed : ToBeTold(i) => join[i].profile \in userCancels' \cup unheard'
  PROVE  AskInv'
<1>1. Followed' /\ \A i \in Joins : AsksFor(i)'
  BY KeptAsks DEF Followed
<1>2. \A u : Explained(u) => Explained(u)'
  BY DEF Explained, Kept, Same
<1>3. ASSUME NEW i \in dismissed PROVE Noted(i)'
  <2>1. Noted(i) /\ i \in Joins /\ Kept(i)
    BY DEF AskInv
  <2>2. join'[i].act # "none" /\ join'[i].profile = join[i].profile /\ join'[i].at = join[i].at
    BY <2>1 DEF Noted, Kept, Same
  <2>3. CASE join[i].at = "auto" \/ Explained(join[i].profile)
    BY <1>2, <2>2, <2>3 DEF Noted
  <2>4. CASE ToBeTold(i)
    <3>1. Refused(i)'
      BY <2>1, <2>4, KeptAsks DEF ToBeTold
    <3> QED  BY <2>2, <2>4, <3>1 DEF Noted, ToBeTold, Explained
  <2> QED  BY <2>1, <2>3, <2>4 DEF Noted
<1> QED  BY <1>1, <1>3 DEF AskInv

\* A join without an activation has had no question dismissed.
LEMMA NoneDismissed ==
  ASSUME AskInv, NotYetActive, NEW j \in Joins, join[j].at \in {"unused", "form", "starting"}
  PROVE  join[j].act = "none" /\ j \notin dismissed
BY DEF AskInv, Noted, NotYetActive

LEMMA ActivationAsks ==
  ASSUME JoinTypeOK, AskInv, NotYetActive, NEW j \in Joins, NEW u \in Profiles,
         NEW at \in {"following", "auto"}, join[j].at \in {"unused", "starting"}, Activation(j, u, at),
         UNCHANGED <<secretsVars, historyVars>>
  PROVE  AskInv'
<1>1. PICK s \in {"none"} \cup Keys :
        join' = [Ending(Joins) EXCEPT ![j].at = at, ![j].profile = u, ![j].act = "trying", ![j].secret = s]
  BY DEF Activation
<1>2. Ending(Joins) \in [Joins -> JoinRecords]
  BY EndingTyped
<1>3. \A i \in Joins : i # j => Kept(i)
  BY <1>1, <1>2, EndingKept DEF JoinRecords
<1>4. /\ join'[j].at = at /\ join'[j].act = "trying" /\ join'[j].asks = Ending(Joins)[j].asks
  BY <1>1, <1>2 DEF JoinRecords
<1>5. join[j].act = "none" /\ j \notin dismissed
  BY NoneDismissed
<1>6. join'[j].asks = 0
  BY <1>4, <1>5, EndingKeeps DEF JoinTypeOK
<1>7. AsksFor(j)'
  BY <1>6 DEF AsksFor
<1>8. CallsGo /\ UNCHANGED <<dismissed, unheard, userCancels>>
  BY SameCallsGo DEF secretsVars, historyVars, resultVars
<1> QED  BY <1>3, <1>4, <1>5, <1>7, <1>8, OneGoesOn

\* An activation ends by itself, or all of them do.
LEMMA EndingAsks ==
  ASSUME JoinTypeOK, AskInv, NEW J, join' = Ending(J), UNCHANGED <<call, userCancels, dismissed, unheard>>
  PROVE  AskInv'
<1>1. \A i \in Joins : Kept(i)
  BY EndingKept
<1>2. CallsGo
  BY SameCallsGo
<1> QED  BY <1>1, <1>2, AllGoOn DEF ToBeTold

LEMMA NMKeepsAsks ==
  ASSUME JoinTypeOK, JoinTypeOK', CallInv, NotYetActive, AskInv, NMStep
  PROVE  AskInv'
<1>1. ASSUME NEW j \in Joins, NMRefuses(j) PROVE AskInv'
  <2>1. /\ \A i \in Joins : i # j => Kept(i)
        /\ join'[j].act = join[j].act /\ join'[j].asks = join[j].asks
    BY <1>1 DEF NMRefuses, Kept, Same, JoinTypeOK, JoinRecords
  <2>2. join[j].at = "starting" /\ CallsGo /\ UNCHANGED <<dismissed, unheard, userCancels>>
    BY <1>1, SameCallsGo DEF NMRefuses, secretsVars, historyVars, resultVars
  <2>3. join[j].act = "none" /\ j \notin dismissed
    BY <2>2, NoneDismissed
  <2>4. AsksFor(j)'
    BY <2>1, <2>3 DEF AsksFor, JoinTypeOK
  <2> QED  BY <2>1, <2>2, <2>3, <2>4, OneGoesOn
<1>2. ASSUME NEW j \in Joins, NMActivates(j) PROVE AskInv'
  <2>1. PICK u \in Profiles : Activation(j, u, "following")
    BY <1>2 DEF NMActivates, JoinTypeOK, Unclaimed
  <2> QED  BY <1>2, <2>1, ActivationAsks DEF NMActivates
<1>3. ASSUME NEW j \in Joins, NMHears(j) PROVE AskInv'
  <2>1. UNCHANGED <<call, userCancels, dismissed, unheard>>
    BY <1>3 DEF NMHears, secretsVars, historyVars, resultVars
  <2>2. CASE call[join[j].asks].reply \in Keys
    <3>1. join' = [join EXCEPT ![j].act = "trying", ![j].asks = 0, ![j].secret = call[join[j].asks].reply]
      BY <1>3, <2>2 DEF NMHears
    <3>2. /\ \A i \in Joins : i # j => Kept(i)
          /\ Same(j) /\ join'[j].act = "trying" /\ join'[j].asks = 0
      BY <3>1 DEF Kept, Same, JoinTypeOK, JoinRecords
    <3>3. join[j].act = "asking" /\ join[j].at \in {"following", "auto"}
      BY <1>3 DEF NMHears, AskInv, Followed
    <3>4. ~ToBeTold(j)
      BY <2>2, <3>3 DEF ToBeTold, Refused, Keys
    <3>5. \A u : Explained(u) => Explained(u)'
      BY <2>1, <3>2 DEF Explained, Kept, Same
    <3>6. j \in dismissed => Noted(j)'
      BY <3>2, <3>4, <3>5 DEF AskInv, Noted, Same
    <3>7. AsksFor(j)' /\ CallsGo
      BY <2>1, <3>2, SameCallsGo DEF AsksFor
    <3>8. join'[j].at \in {"following", "auto"}
      BY <3>2, <3>3 DEF Same
    <3> QED  BY <2>1, <3>2, <3>6, <3>7, <3>8, OneGoesOn
  <2>3. CASE call[join[j].asks].reply \notin Keys
    BY <1>3, <2>1, <2>3, EndingAsks DEF NMHears
  <2> QED  BY <2>2, <2>3
<1>4. ASSUME NEW j \in Joins, NMConnects(j) PROVE AskInv'
  <2>1. /\ \A i \in Joins : i # j => Kept(i)
        /\ join'[j].act = "activated" /\ join'[j].asks = join[j].asks /\ join[j].act = "trying"
        /\ join'[j].profile = join[j].profile
        /\ join'[j].at = IF join[j].at = "following" THEN "connected" ELSE join[j].at
    BY <1>4 DEF NMConnects, Kept, Same, JoinTypeOK, JoinRecords
  <2>2. CallsGo /\ UNCHANGED <<dismissed, unheard, userCancels>>
    BY <1>4, SameCallsGo DEF NMConnects, secretsVars
  <2>3. join[j].asks = 0 /\ join[j].at \in {"following", "auto"} /\ ~ToBeTold(j)
    BY <2>1 DEF JoinTypeOK, AskInv, Followed, ToBeTold, Refused
  <2>4. \A u : Explained(u) => Explained(u)'
    BY <2>1, <2>2, <2>3 DEF Explained, Kept, Same
  <2>5. j \in dismissed => Noted(j)'
    BY <2>1, <2>3, <2>4 DEF AskInv, Noted
  <2>6. AsksFor(j)'
    BY <2>1, <2>3 DEF AsksFor
  <2> QED  BY <2>1, <2>2, <2>3, <2>5, <2>6, OneGoesOn
<1>5. ASSUME NEW j \in Joins, NMFails(j) \/ NMTimesOut(j) PROVE AskInv'
  BY <1>5, EndingAsks DEF NMFails, NMTimesOut, secretsVars, historyVars, resultVars
<1>6. ASSUME NEW j \in Joins, NEW u \in Profiles, AutoActivates(j, u) PROVE AskInv'
  BY <1>6, ActivationAsks DEF AutoActivates, NextUnused
<1>7. ASSUME NEW j \in Joins, NEW c \in Calls, NEW interact \in BOOLEAN, NMAsks(j, c, interact)
      PROVE  AskInv'
  <2> DEFINE r == [profile |-> join[j].profile, interact |-> interact,
                   retry |-> join[j].secret = "wrong", stage |-> "lookup", reply |-> "none"]
  <2>1. r \in CallRecords /\ r.profile = join[j].profile /\ r.stage = "lookup"
    BY DEF JoinTypeOK, JoinRecords, CallRecords
  <2>2. /\ \A i \in Joins : i # j => Kept(i)
        /\ Same(j) /\ join'[j].act = "asking" /\ join'[j].asks = c /\ join[j].act = "trying"
    BY <1>7 DEF NMAsks, Kept, Same, JoinTypeOK, JoinRecords
  <2>3. /\ call[c].stage = "unused" /\ UNCHANGED <<dismissed, unheard>>
        /\ Ask(c, r) \/ (call' = [call EXCEPT ![c] = r] /\ UNCHANGED <<askVars, userCancels>>)
    BY <1>7 DEF NMAsks, resultVars, GetSecrets
  <2> HIDE DEF r
  <2>4. /\ \A d \in Calls : d # c => call'[d] = call[d]
        /\ call'[c].profile = join[j].profile /\ call'[c].stage # "unused"
    <3>1. CASE Ask(c, r)
      BY <2>1, <3>1, AskAnswers
    <3>2. CASE call' = [call EXCEPT ![c] = r]
      BY <2>1, <3>2 DEF JoinTypeOK, SecretsTypeOK
    <3> QED  BY <2>3, <3>1, <3>2
  <2>5. CallsGo
    BY <2>3, <2>4 DEF CallsGo
  <2>6. AsksFor(j)'
    BY <2>2, <2>4 DEF AsksFor, Same
  <2>7. join[j].at \in {"following", "auto"} /\ ~ToBeTold(j)
    BY <2>2 DEF AskInv, Followed, ToBeTold, Refused
  <2>8. \A u : Explained(u) => Explained(u)'
    BY <2>2, <2>3 DEF Explained, Kept, Same
  <2>9. j \in dismissed => Noted(j)'
    BY <2>2, <2>7, <2>8 DEF AskInv, Noted, Same
  <2>10. userCancels \subseteq userCancels'
    BY <2>1, <2>3, AskRecords
  <2>11. join'[j].at \in {"following", "auto"}
    BY <2>2, <2>7 DEF Same
  <2> QED  BY <2>2, <2>3, <2>5, <2>6, <2>9, <2>10, <2>11, OneGoesOn
<1>8. ASSUME NMDies PROVE AskInv'
  BY <1>8, EndingAsks DEF NMDies, OwnerVanishes
<1>9. ASSUME NEW u \in Profiles, NMDeletes(u) PROVE AskInv'
  <2>1. UNCHANGED <<call, userCancels, dismissed, unheard>>
    BY <1>9 DEF NMDeletes, secretsVars
  <2>2. CASE \E J : join' = Ending(J)
    BY <2>1, <2>2, EndingAsks
  <2>3. CASE join' = join
    <3>1. (\A i \in Joins : Kept(i)) /\ CallsGo
      BY <2>1, <2>3, SameCallsGo DEF Kept, Same
    <3> QED  BY <2>1, <3>1, AllGoOn DEF ToBeTold
  <2> QED  BY <1>9, <2>2, <2>3 DEF NMDeletes
<1>10. ASSUME NMStarts PROVE AskInv'
  <2>1. /\ \A i \in Joins : Kept(i)
        /\ UNCHANGED <<userCancels, dismissed, unheard>> /\ CallsGo
    BY <1>10, SameCallsGo DEF NMStarts, Kept, Same, secretsVars, historyVars, resultVars
  <2> QED  BY <2>1, AllGoOn DEF ToBeTold
<1> QED  BY <1>1, <1>2, <1>3, <1>4, <1>5, <1>6, <1>7, <1>8, <1>9, <1>10 DEF NMStep

LEMMA UserKeepsAsks ==
  ASSUME JoinTypeOK, JoinTypeOK', CallInv, NotYetActive, AskInv, UserStep
  PROVE  AskInv'
<1>1. ASSUME NEW j \in Joins, NEW who, JoinClicked(j, who) \/ FormAnswered(j) PROVE AskInv'
  <2>1. /\ \A i \in Joins : i # j => Kept(i)
        /\ join'[j].act = join[j].act /\ join'[j].asks = join[j].asks
        /\ join[j].at \in {"unused", "form"}
    BY <1>1 DEF JoinClicked, FormAnswered, NextUnused, Kept, Same, JoinTypeOK, JoinRecords
  <2>2. CallsGo /\ UNCHANGED <<dismissed, unheard, userCancels>>
    BY <1>1, SameCallsGo DEF JoinClicked, FormAnswered, secretsVars, historyVars, resultVars
  <2>3. join[j].act = "none" /\ j \notin dismissed
    BY <2>1, NoneDismissed
  <2>4. AsksFor(j)'
    BY <2>1, <2>3 DEF AsksFor, JoinTypeOK
  <2> QED  BY <2>1, <2>2, <2>3, <2>4, OneGoesOn
<1>2. ASSUME NEW c \in Calls, UserDismisses(c) PROVE AskInv'
  <2>1. /\ pending = c /\ pending # 0 /\ call' = Answered(pending, "userCanceled")
        /\ userCancels' = userCancels \cup {call[c].profile}
        /\ dismissed' = dismissed \cup {j \in Joins : join[j].asks = c}
        /\ join' = join /\ unheard' = unheard
    BY <1>2, SecretsAssumption DEF UserDismisses, Dismissed, resultVars, Calls
  <2>2. CallsGo /\ \A i \in Joins : Kept(i)
    BY <2>1, AnswerGoes DEF Kept, Same
  <2>3. call[c] \in CallRecords
    BY DEF JoinTypeOK, SecretsTypeOK
  <2>4. call'[c].stage = "answered" /\ call'[c].reply = "userCanceled"
    BY <2>1, <2>3 DEF Answered, JoinTypeOK, SecretsTypeOK, CallRecords
  <2>5. Followed' /\ \A i \in Joins : AsksFor(i)'
    BY <2>2, KeptAsks DEF Followed
  <2>6. ASSUME NEW j \in Joins, join[j].asks = c PROVE Noted(j)'
    <3>1. join[j].act = "asking" /\ join[j].at \in {"following", "auto"}
      BY <2>1, <2>6 DEF JoinTypeOK, AskInv, Followed
    <3>2. join[j].profile \in userCancels'
      BY <2>1, <2>6 DEF AskInv, AsksFor
    <3> QED  BY <2>1, <2>4, <2>6, <3>1, <3>2 DEF Noted, ToBeTold, Refused
  <2>7. ASSUME NEW j \in dismissed PROVE Noted(j)'
    <3>1. Noted(j) /\ j \in Joins /\ Kept(j)
      BY <2>2 DEF AskInv
    <3>2. Refused(j) => Refused(j)'
      BY <2>2, <3>1, KeptAsks
    <3> QED  BY <2>1, <3>1, <3>2 DEF Noted, ToBeTold, Explained
  <2> QED  BY <2>1, <2>5, <2>6, <2>7 DEF AskInv
<1>3. ASSUME NEW c \in Calls, NEW key \in Keys, UserTypes(c, key) PROVE AskInv'
  <2>1. /\ pending # 0 /\ call' = Answered(pending, key)
        /\ UNCHANGED <<userCancels, dismissed, unheard>> /\ \A i \in Joins : Kept(i)
    BY <1>3, SecretsAssumption DEF UserTypes, KeyTyped, historyVars, resultVars, Kept, Same, Calls
  <2>2. CallsGo
    BY <2>1, AnswerGoes
  <2> QED  BY <2>1, <2>2, AllGoOn DEF ToBeTold
<1> QED  BY <1>1, <1>2, <1>3 DEF UserStep

\* A join without a key tried or asked for ends: what it says is its own.
LEMMA DoneGoesOn ==
  ASSUME JoinTypeOK, AskInv, NEW j \in Joins, NEW why \in Settled, Done(j, why), call' = call,
         join[j].act \notin {"trying", "asking"}
  PROVE  /\ \A i \in Joins : i # j => Kept(i)
         /\ join'[j].at = why /\ join'[j].profile = join[j].profile /\ join'[j].act = join[j].act
         /\ join'[j].act \notin {"trying", "asking"} /\ join'[j].asks = 0
         /\ AsksFor(j)' /\ CallsGo
<1>1. join[j].asks = 0
  BY DEF JoinTypeOK
<1>2. /\ join'[j].at = why /\ join'[j].profile = join[j].profile /\ join'[j].act = join[j].act
      /\ join'[j].asks = join[j].asks
  BY DoneSays
<1>3. \A i \in Joins : i # j => Kept(i)
  BY DoneSays DEF Kept, Same
<1> QED  BY <1>1, <1>2, <1>3, SameCallsGo DEF AsksFor

(***************************************************************************)
(* The record is spent on the join that reads it, which then says so: what *)
(* any other dismissed join of this profile had to be told, is told.       *)
(***************************************************************************)
LEMMA ConsumesTells ==
  ASSUME JoinTypeOK, AskInv, NEW j \in Joins, join[j].at \in {"following", "consuming"},
         join[j].act \notin {"trying", "asking"}, Consumes(j)
  PROVE  AskInv'
<1> DEFINE why == IF SaysCancelled(join[j].profile) THEN "cancelled" ELSE "failed"
<1>1. Done(j, why) /\ why \in Settled
  BY DEF Consumes, Settled
<1>2. /\ UNCHANGED <<call, dismissed, unheard>> /\ userCancels' = userCancels \ {join[j].profile}
  BY DEF Consumes, TakeUserCancel
<1>3. join[j].profile \in userCancels => why = "cancelled"
  BY DEF SaysCancelled
<1> HIDE DEF why
<1>4. /\ \A i \in Joins : i # j => Kept(i)
      /\ join'[j].at = why /\ join'[j].profile = join[j].profile /\ join'[j].act = join[j].act
      /\ join'[j].act \notin {"trying", "asking"}
      /\ AsksFor(j)' /\ CallsGo
  BY <1>1, <1>2, DoneGoesOn
<1>5. join[j].profile \in userCancels => Explained(join[j].profile)'
  BY <1>3, <1>4 DEF Explained
<1>6. \A u : Explained(u) => Explained(u)'
  BY <1>2, <1>4 DEF Explained, Kept, Same
<1>7. j \in dismissed => Noted(j)'
  BY <1>4, <1>5, <1>6 DEF AskInv, Noted, ToBeTold
<1>8. \A i \in dismissed : i # j /\ join[i].profile \in userCancels \ userCancels' =>
                             Explained(join[i].profile)'
  BY <1>2, <1>4, <1>5 DEF AskInv, Explained, Kept, Same
<1> QED  BY <1>2, <1>4, <1>7, <1>8, OneGoesOn

\* The join that asked in vain has failed, and the record is there for another.
LEMMA RequestTells ==
  ASSUME JoinTypeOK, AskInv, NEW j \in Joins, RequestFails(j)
  PROVE  AskInv'
<1>1. join[j].at = "consuming" /\ join[j].act \notin {"trying", "asking"}
  BY DEF RequestFails, AskInv, Followed
<1>2. /\ UNCHANGED <<call, dismissed, userCancels>> /\ unheard' = unheard \cup {join[j].profile}
      /\ Done(j, "failed") /\ "failed" \in Settled
  BY DEF RequestFails, secretsVars, Settled
<1>3. /\ \A i \in Joins : i # j => Kept(i)
      /\ join'[j].profile = join[j].profile /\ join'[j].act = join[j].act
      /\ join'[j].act \notin {"trying", "asking"}
      /\ AsksFor(j)' /\ CallsGo
  BY <1>1, <1>2, DoneGoesOn
<1>4. Explained(join[j].profile)'
  BY <1>2, <1>3 DEF Explained
<1>5. j \in dismissed => Noted(j)'
  BY <1>3, <1>4 DEF AskInv, Noted
<1> QED  BY <1>1, <1>2, <1>3, <1>5, OneGoesOn

LEMMA ShellKeepsAsks ==
  ASSUME JoinTypeOK, JoinTypeOK', CallInv, NotYetActive, AskInv, ShellStep
  PROVE  AskInv'
<1>1. ASSUME NEW c \in Calls, KeyringAnswers(c) PROVE AskInv'
  <2>1. call[c] \in CallRecords /\ LookupEnds(c)
    BY <1>1 DEF KeyringAnswers, JoinTypeOK, SecretsTypeOK
  <2>2. CallsGo /\ userCancels \subseteq userCancels'
    BY <2>1, LookupGoes, AskRecords DEF LookupEnds
  <2>3. UNCHANGED <<dismissed, unheard>> /\ \A i \in Joins : Kept(i)
    BY <1>1 DEF KeyringAnswers, resultVars, Kept, Same
  <2> QED  BY <2>2, <2>3, AllGoOn DEF ToBeTold
<1>2. ASSUME NEW c \in Calls, QuestionExpires(c) \/ DialogBreaks(c) PROVE AskInv'
  <2>1. /\ pending # 0 /\ call' = Answered(pending, "userCanceled")
        /\ UNCHANGED <<userCancels, dismissed, unheard>> /\ \A i \in Joins : Kept(i)
    BY <1>2, SecretsAssumption
       DEF QuestionExpires, DialogBreaks, TimerFires, PromptFails, Withdraw, historyVars, resultVars, Kept, Same, Calls
  <2>2. CallsGo
    BY <2>1, AnswerGoes
  <2> QED  BY <2>1, <2>2, AllGoOn DEF ToBeTold
<1>3. ASSUME NEW c \in Calls, CancelArrives(c) PROVE AskInv'
  <2>1. UNCHANGED <<userCancels, dismissed, unheard>> /\ \A i \in Joins : Kept(i)
    BY <1>3 DEF CancelArrives, CancelGetSecrets, Withdraw, secretsVars, resultVars, Kept, Same
  <2>2. CallsGo
    BY <1>3, CancelGoes DEF CancelArrives
  <2> QED  BY <2>1, <2>2, AllGoOn DEF ToBeTold
<1>4. ASSUME NEW j \in Joins, JoinHears(j) PROVE AskInv'
  <2>1. CASE Consumes(j)
    BY <1>4, <2>1, ConsumesTells DEF JoinHears
  <2>2. CASE /\ join' = [join EXCEPT ![j].at = "consuming"]
             /\ UNCHANGED <<secretsVars, nmVars, historyVars>>
    <3>1. /\ \A i \in Joins : i # j => Kept(i)
          /\ join'[j].at = "consuming" /\ join'[j].profile = join[j].profile
          /\ join'[j].act = join[j].act /\ join'[j].asks = join[j].asks
      BY <2>2 DEF Kept, Same, JoinTypeOK, JoinRecords
    <3>2. UNCHANGED <<dismissed, unheard, userCancels>> /\ CallsGo
      BY <2>2, SameCallsGo DEF historyVars, resultVars, secretsVars
    <3>3. join[j].at = "following" /\ join[j].act = "deactivated" /\ join[j].asks = 0
      BY <1>4 DEF JoinHears, JoinTypeOK
    <3>4. \A u : Explained(u) => Explained(u)'
      BY <3>1, <3>2, <3>3 DEF Explained, Kept, Same
    <3>5. j \in dismissed => Noted(j)'
      BY <3>1, <3>2, <3>3, <3>4 DEF AskInv, Noted, ToBeTold, Refused
    <3>6. AsksFor(j)'
      BY <3>1, <3>3 DEF AsksFor
    <3> QED  BY <3>1, <3>2, <3>3, <3>5, <3>6, OneGoesOn
  <2> QED  BY <1>4, <2>1, <2>2 DEF JoinHears
<1>5. ASSUME NEW j \in Joins, SettingsConsumes(j) PROVE AskInv'
  <2>1. join[j].act \notin {"trying", "asking"}
    BY <1>5 DEF SettingsConsumes, AskInv, Followed
  <2> QED  BY <1>5, <2>1, ConsumesTells DEF SettingsConsumes
<1>6. ASSUME NEW u \in Profiles, RecordExpires(u) PROVE AskInv'
  <2>1. /\ CallsGo /\ UNCHANGED <<dismissed, unheard>> /\ userCancels' = userCancels \ {u}
        /\ \A i \in Joins : Kept(i)
    BY <1>6, SameCallsGo DEF RecordExpires, RecordAges, TakeUserCancel, historyVars, resultVars, Kept, Same
  <2>2. ASSUME NEW j \in dismissed, ToBeTold(j) PROVE join[j].profile # u \/ u \in unheard'
    BY <1>6, <2>1, <2>2 DEF RecordExpires, ToBeTold, Refused, AskInv
  <2> QED  BY <2>1, <2>2, AllGoOn DEF ToBeTold
<1>7. ASSUME NEW j \in Joins, RequestFails(j) PROVE AskInv'
  BY <1>7, RequestTells
<1> QED  BY <1>1, <1>2, <1>3, <1>4, <1>5, <1>6, <1>7 DEF ShellStep

LEMMA AsksInv == JoinSpec => []AskInv
<1>1. JoinInit => AskInv
  BY DEF JoinInit, SecretsInit, Unused, AskInv, Followed, AsksFor
<1>2. JoinTypeOK /\ JoinTypeOK' /\ CallInv /\ JoinInv /\ AskInv /\ [JoinNext]_vars => AskInv'
  <2>1. ASSUME JoinTypeOK, AskInv, UNCHANGED vars PROVE AskInv'
    <3>1. UNCHANGED <<call, userCancels, join, dismissed, unheard>>
      BY <2>1 DEF vars, secretsVars, historyVars, resultVars
    <3>2. (\A i \in Joins : Kept(i)) /\ CallsGo
      BY <3>1, SameCallsGo DEF Kept, Same
    <3> QED  BY <2>1, <3>1, <3>2, AllGoOn DEF ToBeTold
  <2> QED  BY <2>1, UserKeepsAsks, NMKeepsAsks, ShellKeepsAsks DEF JoinNext, JoinInv
<1> QED  BY <1>1, <1>2, JoinIsTyped, CallsInv, JoinsInv, PTL DEF JoinSpec

(***************************************************************************)
(* A dismissed question is not a failure: of a join that fails after its   *)
(* question was dismissed, the record was spent on another attempt at its  *)
(* profile, which says it was cancelled, or a request of Settings for it   *)
(* had no answer.                                                          *)
(***************************************************************************)
THEOREM DismissalIsTold == JoinSpec => []CancelIsTold
<1>1. AskInv => CancelIsTold
  BY DEF AskInv, Noted, Explained, ToBeTold, CancelIsTold
<1> QED  BY <1>1, AsksInv, PTL

-----------------------------------------------------------------------------
(***************************************************************************)
(* What JoinSettles and AgentIsFreed rest on.  In a step an attempt goes   *)
(* on or ends, or its join is one that has not settled; and a question is  *)
(* kept, put or answered.                                                  *)
(***************************************************************************)
Heard(j) ==
  join[j].asks # 0 => call[join[j].asks].stage # "asked" \/ pending = join[j].asks
FollowsOn(j) == join[j].at = "following" => join[j].act \in {"trying", "asking", "deactivated"}
WaitInv == \A j \in Joins : Heard(j) /\ FollowsOn(j)

QuestionsKept ==
  \A c \in Calls : call'[c].stage = "asked" =>
    pending' = c \/ (call[c].stage = "asked" /\ pending # c)
Onward(i) == Kept(i) \/ (Heard(i)' /\ FollowsOn(i)' /\ join[i].at \notin Settled)
GoesOn == (\A i \in Joins : Onward(i)) /\ (QuestionsKept \/ \A i \in Joins : Heard(i)') /\ CallsGo

LEMMA KeptWaits ==
  ASSUME JoinTypeOK, WaitInv, GoesOn
  PROVE  WaitInv'
<1> SUFFICES ASSUME NEW i \in Joins PROVE Heard(i)' /\ FollowsOn(i)'
  BY DEF WaitInv
<1>1. Heard(i) /\ FollowsOn(i) /\ Onward(i)
  BY DEF WaitInv, GoesOn
<1>2. CASE Kept(i)
  <2>1. FollowsOn(i)'
    BY <1>1, <1>2 DEF FollowsOn, Kept, Same
  <2>2. Heard(i)'
    <3>1. CASE QuestionsKept /\ join'[i].asks = join[i].asks /\ join[i].asks # 0
      <4>1. join[i].asks \in Calls
        BY <3>1, SecretsAssumption DEF JoinTypeOK, JoinRecords, Calls
      <4> QED  BY <1>1, <3>1, <4>1 DEF Heard, QuestionsKept
    <3>2. CASE join'[i].asks = 0
      BY <3>2 DEF Heard
    <3> QED  BY <1>2, <3>1, <3>2 DEF GoesOn, Kept
  <2> QED  BY <2>1, <2>2
<1> QED  BY <1>1, <1>2 DEF Onward

LEMMA SameKept == ASSUME call' = call, pending' = pending PROVE QuestionsKept /\ CallsGo
BY SameCallsGo DEF QuestionsKept

LEMMA AnswerKept ==
  ASSUME JoinTypeOK, CallInv, NEW reply, pending # 0, call' = Answered(pending, reply)
  PROVE  QuestionsKept /\ CallsGo
<1>1. pending \in Calls /\ call[pending] \in CallRecords
  BY DEF JoinTypeOK, SecretsTypeOK, Calls
<1>2. \A c \in Calls : c # pending => call'[c] = call[c]
  BY DEF Answered, JoinTypeOK, SecretsTypeOK
<1>3. call'[pending].stage = "answered"
  BY <1>1 DEF Answered, JoinTypeOK, SecretsTypeOK, CallRecords
<1> QED  BY <1>2, <1>3, AnswerGoes DEF QuestionsKept

LEMMA AskKept ==
  ASSUME JoinTypeOK, NEW c \in Calls, NEW r \in CallRecords, Ask(c, r)
  PROVE  QuestionsKept
<1>1. c \in 1 .. MaxCalls /\ 0 \notin Calls
  BY SecretsAssumption DEF Calls
<1>2. \A d \in Calls : d # c => call'[d] = call[d]
  BY AskAnswers
<1>3. pending' = pending \/ (pending = 0 /\ pending' = c)
  BY DEF Ask, askVars
<1>4. call'[c].stage = "asked" => pending' = c
  <2>1. \A reply \in {"noSecrets", "userCanceled"} :
           [r EXCEPT !.stage = "answered", !.reply = reply].stage = "answered"
    BY DEF CallRecords
  <2> QED  BY <2>1 DEF Ask, JoinTypeOK, SecretsTypeOK
<1> QED  BY <1>1, <1>2, <1>3, <1>4 DEF QuestionsKept

\* One join goes on by itself, the others at most have their activations ended.
LEMMA OneOnward ==
  ASSUME NEW j \in Joins, \A i \in Joins : i # j => Kept(i),
         Heard(j)', FollowsOn(j)', join[j].at \notin Settled, QuestionsKept, CallsGo
  PROVE  GoesOn
BY DEF GoesOn, Onward
LEMMA ActivationOnward ==
  ASSUME JoinTypeOK, NotYetActive, NEW j \in Joins, NEW u \in Profiles,
         NEW at \in {"following", "auto"}, join[j].at \in {"unused", "starting"}, Activation(j, u, at),
         UNCHANGED secretsVars
  PROVE  GoesOn
<1>1. PICK s \in {"none"} \cup Keys :
        join' = [Ending(Joins) EXCEPT ![j].at = at, ![j].profile = u, ![j].act = "trying", ![j].secret = s]
  BY DEF Activation
<1>2. Ending(Joins) \in [Joins -> JoinRecords]
  BY EndingTyped
<1>3. \A i \in Joins : i # j => Kept(i)
  BY <1>1, <1>2, EndingKept DEF JoinRecords
<1>4. join'[j].act = "trying" /\ join'[j].asks = Ending(Joins)[j].asks
  BY <1>1, <1>2 DEF JoinRecords
<1>5. join[j].asks = 0
  BY DEF JoinTypeOK, NotYetActive
<1>6. Heard(j)' /\ FollowsOn(j)'
  BY <1>4, <1>5, EndingKeeps DEF Heard, FollowsOn
<1>7. join[j].at \notin Settled
  BY DEF Settled
<1> QED  BY <1>3, <1>6, <1>7, SameKept, OneOnward DEF secretsVars, askVars

LEMMA EndingOnward ==
  ASSUME JoinTypeOK, NEW J, join' = Ending(J), UNCHANGED <<call, pending>>
  PROVE  GoesOn
<1>1. \A i \in Joins : Kept(i)
  BY EndingKept
<1> QED  BY <1>1, SameKept DEF GoesOn, Onward

LEMMA NMGoesOn ==
  ASSUME JoinTypeOK, NotYetActive, AskInv, NMStep
  PROVE  GoesOn
<1>1. ASSUME NEW j \in Joins, NMRefuses(j) PROVE GoesOn
  <2>1. /\ \A i \in Joins : i # j => Kept(i)
        /\ join'[j].at = "failed" /\ join'[j].asks = join[j].asks
    BY <1>1 DEF NMRefuses, Kept, Same, JoinTypeOK, JoinRecords
  <2>2. join[j].at = "starting" /\ join[j].asks = 0
    BY <1>1 DEF NMRefuses, NotYetActive, JoinTypeOK
  <2>3. Heard(j)' /\ FollowsOn(j)' /\ join[j].at \notin Settled
    BY <2>1, <2>2 DEF Heard, FollowsOn, Settled
  <2> QED  BY <1>1, <2>1, <2>3, SameKept, OneOnward DEF NMRefuses, secretsVars, askVars
<1>2. ASSUME NEW j \in Joins, NMActivates(j) PROVE GoesOn
  <2>1. PICK u \in Profiles : Activation(j, u, "following")
    BY <1>2 DEF NMActivates, JoinTypeOK, Unclaimed
  <2> QED  BY <1>2, <2>1, ActivationOnward DEF NMActivates
<1>3. ASSUME NEW j \in Joins, NMHears(j) PROVE GoesOn
  <2>1. UNCHANGED <<call, pending>>
    BY <1>3 DEF NMHears, secretsVars, askVars
  <2>2. CASE call[join[j].asks].reply \in Keys
    <3>1. join' = [join EXCEPT ![j].act = "trying", ![j].asks = 0, ![j].secret = call[join[j].asks].reply]
      BY <1>3, <2>2 DEF NMHears
    <3>2. /\ \A i \in Joins : i # j => Kept(i)
          /\ join'[j].act = "trying" /\ join'[j].asks = 0
      BY <3>1 DEF Kept, Same, JoinTypeOK, JoinRecords
    <3>3. join[j].at \in {"following", "auto"}
      BY <1>3 DEF NMHears, AskInv, Followed
    <3>4. Heard(j)' /\ FollowsOn(j)' /\ join[j].at \notin Settled
      BY <3>2, <3>3 DEF Heard, FollowsOn, Settled
    <3> QED  BY <2>1, <3>2, <3>4, SameKept, OneOnward
  <2>3. CASE call[join[j].asks].reply \notin Keys
    BY <1>3, <2>1, <2>3, EndingOnward DEF NMHears
  <2> QED  BY <2>2, <2>3
<1>4. ASSUME NEW j \in Joins, NMConnects(j) PROVE GoesOn
  <2>1. /\ \A i \in Joins : i # j => Kept(i)
        /\ join'[j].asks = join[j].asks /\ join[j].act = "trying"
        /\ join'[j].at = IF join[j].at = "following" THEN "connected" ELSE join[j].at
    BY <1>4 DEF NMConnects, Kept, Same, JoinTypeOK, JoinRecords
  <2>2. join[j].asks = 0 /\ join[j].at \in {"following", "auto"}
    BY <2>1 DEF JoinTypeOK, AskInv, Followed
  <2>3. Heard(j)' /\ FollowsOn(j)' /\ join[j].at \notin Settled
    BY <2>1, <2>2 DEF Heard, FollowsOn, Settled
  <2> QED  BY <1>4, <2>1, <2>3, SameKept, OneOnward DEF NMConnects, secretsVars, askVars
<1>5. ASSUME NEW j \in Joins, NMFails(j) \/ NMTimesOut(j) PROVE GoesOn
  BY <1>5, EndingOnward DEF NMFails, NMTimesOut, secretsVars, askVars
<1>6. ASSUME NEW j \in Joins, NEW u \in Profiles, AutoActivates(j, u) PROVE GoesOn
  BY <1>6, ActivationOnward DEF AutoActivates, NextUnused
<1>7. ASSUME NEW j \in Joins, NEW c \in Calls, NEW interact \in BOOLEAN, NMAsks(j, c, interact)
      PROVE  GoesOn
  <2> DEFINE r == [profile |-> join[j].profile, interact |-> interact,
                   retry |-> join[j].secret = "wrong", stage |-> "lookup", reply |-> "none"]
  <2>1. r \in CallRecords /\ r.stage = "lookup"
    BY DEF JoinTypeOK, JoinRecords, CallRecords
  <2>2. /\ \A i \in Joins : i # j => Kept(i)
        /\ join'[j].at = join[j].at /\ join'[j].act = "asking" /\ join'[j].asks = c /\ join[j].act = "trying"
    BY <1>7 DEF NMAsks, Kept, Same, JoinTypeOK, JoinRecords
  <2>3. /\ call[c].stage = "unused"
        /\ Ask(c, r) \/ (call' = [call EXCEPT ![c] = r] /\ UNCHANGED <<askVars, userCancels>>)
    BY <1>7 DEF NMAsks, GetSecrets
  <2> HIDE DEF r
  <2>4. /\ \A d \in Calls : d # c => call'[d] = call[d]
        /\ QuestionsKept /\ (call'[c].stage = "asked" => pending' = c)
    <3>1. CASE Ask(c, r)
      BY <2>1, <2>3, <3>1, AskAnswers, AskKept DEF QuestionsKept
    <3>2. CASE call' = [call EXCEPT ![c] = r] /\ UNCHANGED <<askVars, userCancels>>
      BY <2>1, <3>2 DEF JoinTypeOK, SecretsTypeOK, QuestionsKept, askVars
    <3> QED  BY <2>3, <3>1, <3>2
  <2>5. CallsGo
    BY <2>3, <2>4 DEF CallsGo
  <2>6. join[j].at \in {"following", "auto"}
    BY <2>2 DEF AskInv, Followed
  <2>7. Heard(j)' /\ FollowsOn(j)' /\ join[j].at \notin Settled
    BY <2>2, <2>4, <2>6 DEF Heard, FollowsOn, Settled
  <2> QED  BY <2>2, <2>4, <2>5, <2>7, OneOnward
<1>8. ASSUME NMDies PROVE GoesOn
  <2>1. join' = Ending(Joins) /\ call' = call
    BY <1>8 DEF NMDies, OwnerVanishes
  <2>2. \A i \in Joins : Kept(i)
    BY <2>1, EndingKept
  <2>3. ASSUME NEW i \in Joins PROVE join'[i].asks = 0
    <3>1. CASE Live(i)
      BY <2>1, <3>1 DEF Ending, JoinTypeOK, JoinRecords
    <3>2. CASE ~Live(i)
      BY <2>1, <3>2 DEF Ending, Live, JoinTypeOK
    <3> QED  BY <3>1, <3>2
  <2> QED  BY <2>1, <2>2, <2>3, SameCallsGo DEF GoesOn, Onward, Heard
<1>9. ASSUME NEW u \in Profiles, NMDeletes(u) PROVE GoesOn
  <2>1. UNCHANGED <<call, pending>>
    BY <1>9 DEF NMDeletes, secretsVars, askVars
  <2>2. CASE \E J : join' = Ending(J)
    BY <2>1, <2>2, EndingOnward
  <2>3. CASE join' = join
    BY <2>1, <2>3, SameKept DEF GoesOn, Onward, Kept, Same
  <2> QED  BY <1>9, <2>2, <2>3 DEF NMDeletes
<1>10. ASSUME NMStarts PROVE GoesOn
  BY <1>10, SameKept DEF NMStarts, GoesOn, Onward, Kept, Same, secretsVars, askVars
<1> QED BY <1>1, <1>2, <1>3, <1>4, <1>5, <1>6, <1>7, <1>8, <1>9, <1>10 DEF NMStep

LEMMA UserGoesOn ==
  ASSUME JoinTypeOK, CallInv, NotYetActive, UserStep
  PROVE  GoesOn
<1>1. ASSUME NEW j \in Joins, NEW who, JoinClicked(j, who) \/ FormAnswered(j) PROVE GoesOn
  <2>1. /\ \A i \in Joins : i # j => Kept(i)
        /\ join'[j].at # "following" /\ join'[j].asks = join[j].asks
        /\ join[j].at \in {"unused", "form"}
    BY <1>1 DEF JoinClicked, FormAnswered, NextUnused, Kept, Same, JoinTypeOK, JoinRecords
  <2>2. join[j].asks = 0
    BY <2>1 DEF NotYetActive, JoinTypeOK
  <2>3. Heard(j)' /\ FollowsOn(j)' /\ join[j].at \notin Settled
    BY <2>1, <2>2 DEF Heard, FollowsOn, Settled
  <2> QED  BY <1>1, <2>1, <2>3, SameKept, OneOnward DEF JoinClicked, FormAnswered, secretsVars, askVars
<1>2. ASSUME NEW c \in Calls, UserDismisses(c) \/ \E key \in Keys : UserTypes(c, key) PROVE GoesOn
  <2>1. /\ pending # 0 /\ \E reply : call' = Answered(pending, reply)
        /\ \A i \in Joins : Kept(i)
    BY <1>2, SecretsAssumption DEF UserDismisses, Dismissed, UserTypes, KeyTyped, Kept, Same, Calls
  <2> QED  BY <2>1, AnswerKept DEF GoesOn, Onward
<1> QED  BY <1>1, <1>2 DEF UserStep

LEMMA DoneOnward ==
  ASSUME JoinTypeOK, AskInv, NEW j \in Joins, join[j].at \in {"following", "consuming"},
         join[j].act \notin {"trying", "asking"}, NEW why \in Settled, Done(j, why),
         UNCHANGED <<call, pending>>
  PROVE  GoesOn
<1>1. (\A i \in Joins : i # j => Kept(i)) /\ join'[j].at = why /\ join'[j].asks = 0
  BY DoneGoesOn
<1>2. Heard(j)' /\ FollowsOn(j)' /\ join[j].at \notin Settled
  BY <1>1 DEF Heard, FollowsOn, Settled
<1> QED  BY <1>1, <1>2, SameKept, OneOnward

LEMMA ConsumesOnward ==
  ASSUME JoinTypeOK, AskInv, NEW j \in Joins, join[j].at \in {"following", "consuming"},
         join[j].act \notin {"trying", "asking"}, Consumes(j)
  PROVE  GoesOn
<1>1. \E why \in Settled : Done(j, why)
  BY DEF Consumes, Settled
<1>2. UNCHANGED <<call, pending>>
  BY DEF Consumes, TakeUserCancel, askVars
<1> QED  BY <1>1, <1>2, DoneOnward

LEMMA ShellGoesOn ==
  ASSUME JoinTypeOK, CallInv, AskInv, ShellStep
  PROVE  GoesOn
<1>1. ASSUME NEW c \in Calls, KeyringAnswers(c) PROVE GoesOn
  <2>1. LookupEnds(c) /\ call[c] \in CallRecords /\ \A i \in Joins : Kept(i)
    BY <1>1 DEF KeyringAnswers, Kept, Same, JoinTypeOK, SecretsTypeOK
  <2>2. CASE Ask(c, call[c])
    BY <2>1, <2>2, AskKept, LookupGoes DEF GoesOn, Onward
  <2>3. ASSUME NEW key \in Keys, call' = Answered(c, key), UNCHANGED askVars PROVE GoesOn
    <3>1. call'[c].stage = "answered" /\ \A d \in Calls : d # c => call'[d] = call[d]
      BY <2>1, <2>3 DEF Answered, JoinTypeOK, SecretsTypeOK, CallRecords
    <3>2. QuestionsKept
      BY <2>3, <3>1 DEF QuestionsKept, askVars
    <3> QED  BY <2>1, <3>2, LookupGoes DEF GoesOn, Onward
  <2> QED  BY <2>1, <2>2, <2>3 DEF LookupEnds
<1>2. ASSUME NEW c \in Calls, QuestionExpires(c) \/ DialogBreaks(c) PROVE GoesOn
  <2>1. /\ pending # 0 /\ call' = Answered(pending, "userCanceled") /\ \A i \in Joins : Kept(i)
    BY <1>2, SecretsAssumption
       DEF QuestionExpires, DialogBreaks, TimerFires, PromptFails, Withdraw, Kept, Same, Calls
  <2> QED  BY <2>1, AnswerKept DEF GoesOn, Onward
<1>3. ASSUME NEW c \in Calls, CancelArrives(c) PROVE GoesOn
  <2>1. \A i \in Joins : Kept(i)
    BY <1>3 DEF CancelArrives, Kept, Same
  <2>2. CASE pending # 0 /\ call[pending].profile = call[c].profile
    <3>1. call' = Answered(pending, "userCanceled")
      BY <1>3, <2>2 DEF CancelArrives, CancelGetSecrets, Withdraw
    <3> QED  BY <2>1, <2>2, <3>1, AnswerKept DEF GoesOn, Onward
  <2>3. CASE ~(pending # 0 /\ call[pending].profile = call[c].profile)
    <3>1. UNCHANGED <<call, pending>>
      BY <1>3, <2>3 DEF CancelArrives, CancelGetSecrets, secretsVars, askVars
    <3> QED  BY <2>1, <3>1, SameKept DEF GoesOn, Onward
  <2> QED  BY <2>2, <2>3
<1>4. ASSUME NEW j \in Joins, JoinHears(j) PROVE GoesOn
  <2>1. join[j].at = "following" /\ join[j].act = "deactivated" /\ join[j].asks = 0
    BY <1>4 DEF JoinHears, JoinTypeOK
  <2>2. CASE Consumes(j)
    BY <2>1, <2>2, ConsumesOnward
  <2>3. CASE join' = [join EXCEPT ![j].at = "consuming"] /\ UNCHANGED secretsVars
    <3>1. /\ \A i \in Joins : i # j => Kept(i)
          /\ join'[j].at = "consuming" /\ join'[j].asks = join[j].asks
      BY <2>3 DEF Kept, Same, JoinTypeOK, JoinRecords
    <3>2. Heard(j)' /\ FollowsOn(j)' /\ join[j].at \notin Settled
      BY <2>1, <3>1 DEF Heard, FollowsOn, Settled
    <3> QED  BY <2>3, <3>1, <3>2, SameKept, OneOnward DEF secretsVars, askVars
  <2> QED  BY <1>4, <2>2, <2>3 DEF JoinHears
<1>5. ASSUME NEW j \in Joins, SettingsConsumes(j) PROVE GoesOn
  <2>1. join[j].act \notin {"trying", "asking"}
    BY <1>5 DEF SettingsConsumes, AskInv, Followed
  <2> QED  BY <1>5, <2>1, ConsumesOnward DEF SettingsConsumes
<1>6. ASSUME NEW u \in Profiles, RecordExpires(u) PROVE GoesOn
  BY <1>6, SameKept DEF RecordExpires, RecordAges, TakeUserCancel, GoesOn, Onward, Kept, Same, askVars
<1>7. ASSUME NEW j \in Joins, RequestFails(j) PROVE GoesOn
  <2>1. join[j].at = "consuming" /\ join[j].act \notin {"trying", "asking"}
    BY <1>7 DEF RequestFails, AskInv, Followed
  <2>2. Done(j, "failed") /\ "failed" \in Settled /\ UNCHANGED <<call, pending>>
    BY <1>7 DEF RequestFails, Settled, secretsVars, askVars
  <2> QED  BY <2>1, <2>2, DoneOnward
<1> QED  BY <1>1, <1>2, <1>3, <1>4, <1>5, <1>6, <1>7 DEF ShellStep

StepInv == JoinTypeOK /\ CallInv /\ JoinInv /\ AskInv

LEMMA StepsInv == JoinSpec => []StepInv
BY JoinIsTyped, CallsInv, JoinsInv, AsksInv, PTL DEF StepInv

LEMMA StepGoesOn == ASSUME StepInv, [JoinNext]_vars PROVE GoesOn
<1>1. CASE UNCHANGED vars
  BY <1>1, SameKept DEF vars, secretsVars, askVars, GoesOn, Onward, Kept, Same
<1> QED  BY <1>1, UserGoesOn, NMGoesOn, ShellGoesOn DEF JoinNext, StepInv, JoinInv

(***************************************************************************)
(* A call NetworkManager waits for is answered once: no later key,         *)
(* dismissal, timer, cancellation or keyring answer returns it again.      *)
(***************************************************************************)
AnsweredOnce == [][\A c \in Calls : call[c].stage = "answered" => call'[c] = call[c]]_vars

THEOREM CallsAreAnsweredOnce == JoinSpec => AnsweredOnce
<1>1. StepInv /\ [JoinNext]_vars => [\A c \in Calls : call[c].stage = "answered" => call'[c] = call[c]]_vars
  BY StepGoesOn DEF GoesOn, CallsGo
<1> QED  BY <1>1, StepsInv, PTL DEF JoinSpec, AnsweredOnce

(***************************************************************************)
(* A join's promise settles once: whatever its activation, the other joins *)
(* and the dialogs do afterwards, it keeps what it said.                   *)
(***************************************************************************)
SettledOnce == [][\A j \in Joins : join[j].at \in Settled => join'[j].at = join[j].at]_vars

THEOREM PromisesSettleOnce == JoinSpec => SettledOnce
<1>1. StepInv /\ [JoinNext]_vars => [\A j \in Joins : join[j].at \in Settled => join'[j].at = join[j].at]_vars
  BY StepGoesOn DEF GoesOn, Onward, Kept, Same
<1> QED  BY <1>1, StepsInv, PTL DEF JoinSpec, SettledOnce

(***************************************************************************)
(* Nobody waits for nothing: a promise that is followed has an attempt     *)
(* that NetworkManager works on or has ended, and an attempt that asks     *)
(* waits for an answer on its way, a search of the keyring, or the one     *)
(* dialog on screen, which has its two minutes running.                    *)
(***************************************************************************)
HasAnEnd(j) ==
  /\ join[j].at = "following" => join[j].act \in {"trying", "asking", "deactivated"}
  /\ join[j].act = "asking" =>
       \/ call[join[j].asks].stage \in {"lookup", "answered"}
       \/ pending = join[j].asks /\ pending \in timers
JoinsHaveAnEnd == \A j \in Joins : HasAnEnd(j)

THEOREM NoJoinWaitsForNothing == JoinSpec => []JoinsHaveAnEnd
<1>1. JoinInit => WaitInv
  BY DEF JoinInit, Unused, WaitInv, Heard, FollowsOn
<1>2. StepInv /\ WaitInv /\ [JoinNext]_vars => WaitInv'
  BY StepGoesOn, KeptWaits DEF StepInv
<1>3. StepInv /\ WaitInv => JoinsHaveAnEnd
  <2> SUFFICES ASSUME StepInv, WaitInv, NEW j \in Joins PROVE HasAnEnd(j)
    BY DEF JoinsHaveAnEnd
  <2>1. join[j].act = "asking" => join[j].asks \in Calls /\ join[j].asks # 0
    BY SecretsAssumption DEF StepInv, JoinTypeOK, JoinRecords, Calls
  <2>2. \A c \in Calls : call[c].stage \in {"unused", "lookup", "asked", "answered"}
    BY DEF StepInv, JoinTypeOK, SecretsTypeOK, CallRecords
  <2>3. Heard(j) /\ FollowsOn(j) /\ AsksFor(j) /\ PendingAsked
    BY DEF WaitInv, StepInv, AskInv, CallInv
  <2> QED  BY <2>1, <2>2, <2>3 DEF HasAnEnd, Heard, FollowsOn, AsksFor, PendingAsked
<1> QED  BY <1>1, <1>2, <1>3, StepsInv, PTL DEF JoinSpec
=============================================================================
