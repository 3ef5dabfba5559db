----------------------------- MODULE OwnerProofs -----------------------------
(***************************************************************************)
(* What is promised to the owner and those who ask the owner:              *)
(* OperatorActions, of consent, of single effects, of keys and of the      *)
(* configuration, for any number of actions, decisions at a time and       *)
(* upsets; Evolution, for every number of signals, rollbacks and reads and *)
(* whichever process meets which signal; Skills, Plugins and FollowUps, for*)
(* any number of installations, plugins and cadences and whatever overlaps *)
(* or crashes.                                                             *)
(***************************************************************************)
EXTENDS OperatorActions, Evolution, Skills, Plugins, FollowUps,
        FiniteSetTheorems, SequenceFacts, TLAPS

-----------------------------------------------------------------------------
(* OperatorActions. One inductive invariant carries all of it: who has an  *)
(* action in hand, a statement of the orchestrator or one request, has it  *)
(* alone, and knows what its approval says.                                *)

Someone == CHOOSE k \in Askers : TRUE

ActionRow ==
    [kind : OperatorKinds, by : Askers \cup {Someone}, status : {"absent", "pending", "applied", "rejected"}]
RequestRecord == [at : {"idle", "before", "after", "sending", "sent"},
                  action : Actions \cup {NoAction}, says : {"approved", "rejected"}]
WorkRecord == [at : {"free", "ask", "apply", "write", "secret", "provider", "mark"},
               action : Actions \cup {NoAction}, copy : Configs]

ActionsTyped ==
    /\ action \in [Actions -> ActionRow]
    /\ approval \in [Actions -> {"none", "pending", "approved", "rejected"}]
    /\ work \in WorkRecord
    /\ request \in [OperatorRequests -> RequestRecord]
    /\ config \in Configs /\ promisedConfig \in Configs /\ learner \in [writes : BOOLEAN, copy : Configs]
    /\ secrets \subseteq {"search", "model"} /\ searchSet \in BOOLEAN /\ configCrossed \in BOOLEAN
    /\ effects \in [Actions -> Nat] /\ lost \subseteq Actions

Holding == {"after", "sending", "sent"}

Consented(a) ==
    \/ approval[a] = "approved"
    \/ approval[a] = "none" /\ action[a].by \in Trusted /\ LowRisk(action[a].kind)

(* The statement the orchestrator is at.                                   *)
WorkOK ==
    /\ work.at = "free" => work.action = NoAction
    /\ work.at # "free" => work.action \in Actions /\ action[work.action].status = "pending"
    /\ work.at = "ask" => approval[work.action] = "none" /\ effects[work.action] = 0
    /\ work.at \in {"apply", "write", "secret"} => Consented(work.action) /\ effects[work.action] = 0
    /\ work.at \in {"provider", "mark"} => Consented(work.action) /\ effects[work.action] = 1
    /\ work.at = "write" => action[work.action].kind \in ProviderKinds \cup {"channel"}
    /\ work.at = "secret" => action[work.action].kind = "modelKey"
    /\ work.at = "provider" => action[work.action].kind = "key"

Holds(q, a) == request[q].at \in Holding /\ request[q].action = a

(* A decision that is under way.                                           *)
RequestOK(q) ==
    LET a == request[q].action
    IN  /\ request[q].at # "idle" => a \in Actions /\ approval[a] # "none"
        /\ request[q].at \in Holding =>
              /\ approval[a] = request[q].says /\ action[a].status = "pending" /\ work.action # a
              /\ \A p \in OperatorRequests : Holds(p, a) => p = q
        /\ request[q].at \in {"after", "sending"} => effects[a] = 0
        /\ request[q].at = "sent" => effects[a] = 1
        /\ request[q].at \in {"sending", "sent"} => request[q].says = "approved"

(* An action that nobody has in hand yet.                                  *)
ActionOK(a) ==
    /\ action[a].status = "absent" => approval[a] = "none" /\ effects[a] = 0 /\ work.action # a
    /\ approval[a] = "pending" => action[a].status = "pending" /\ effects[a] = 0 /\ work.action # a

HandsOK ==
    /\ WorkOK
    /\ \A q \in OperatorRequests : RequestOK(q)
    /\ \A a \in Actions : ActionOK(a)

ModelHasKey(c) == c["model"] # NoAction => "model" \in secrets

(* Whatever will reach the configuration has its key already.              *)
KeysOK ==
    /\ searchSet => "search" \in secrets
    /\ work.at = "provider" => "search" \in secrets
    /\ ModelHasKey(config) /\ ModelHasKey(learner.copy) /\ ModelHasKey(work.copy)
    /\ \A a \in Actions : action[a].status # "absent" =>
          /\ action[a].kind = "provider" => "search" \in secrets
          /\ action[a].kind = "model" => "model" \in secrets

(* A copy of the configuration is up to date until writers overlap.        *)
CopiesOK ==
    ~configCrossed =>
        /\ config = promisedConfig
        /\ work.at = "write" => work.copy = config
        /\ learner.writes => learner.copy = config

(* Each pending action is still to be decided, or somebody has it in hand. *)
NobodyDropped ==
    \A a \in Actions : action[a].status = "pending" =>
        \/ approval[a] = "pending" \/ work.action = a \/ a \in lost
        \/ \E q \in OperatorRequests : Holds(q, a)

OperatorInv == ActionsTyped /\ HandsOK /\ KeysOK /\ CopiesOK /\ NobodyDropped

-----------------------------------------------------------------------------
(* Nothing is asked for yet, and the configuration is empty.               *)
LEMMA OperatorInitially ==
    ASSUME ActionAssumption, OperatorInit
    PROVE  OperatorInv
  <1>1. ActionsTyped
    BY DEF ActionAssumption, OperatorInit, ActionsTyped, ActionRow, RequestRecord, WorkRecord, Someone,
       OperatorKinds, AgentKinds, SettingKinds,
           ProviderKinds, NoWork, NoRequest, NotLearning, NoConfig, Configs
  <1>2. HandsOK
    BY DEF ActionAssumption, OperatorInit, HandsOK, WorkOK, RequestOK, ActionOK, NoWork, NoRequest, Holding
  <1>3. KeysOK
    BY DEF OperatorInit, KeysOK, ModelHasKey, NoWork, NotLearning, NoConfig
  <1>4. CopiesOK
    BY DEF OperatorInit, CopiesOK, NoWork, NotLearning
  <1>5. NobodyDropped
    BY DEF OperatorInit, NobodyDropped
  <1> QED BY <1>1, <1>2, <1>3, <1>4, <1>5 DEF OperatorInv

(* Every action keeps the types: rows, requests and copies of the          *)
(* configuration are updated field by field.                               *)
LEMMA ActionsTypedStep ==
    ASSUME ActionAssumption, OperatorInv, OperatorNext
    PROVE  ActionsTyped'
  <1>0. NoConfig \in Configs BY DEF ActionAssumption, NoConfig, Configs
  <1> USE <1>0 DEF OperatorInv, ActionsTyped, ActionRow, RequestRecord, WorkRecord, world, books, NoWork,
                   NoRequest, HandsOK,
              NotLearning, WorkOK
  <1>1. CASE AskApproval
    BY <1>1 DEF AskApproval
  <1>2. CASE ApplyAdd
    BY <1>2 DEF ApplyAdd, Applies, Takes, Goes
  <1>3. CASE ApplyToAgent
    BY <1>3 DEF ApplyToAgent, Applies, Takes, Goes
  <1>4. CASE ApplyToNobody
    BY <1>4 DEF ApplyToNobody, Applies
  <1>5. CASE ReadConfig
    BY <1>5 DEF ReadConfig, Applies
  <1>6. CASE WriteConfig
    <2>1. work.action \in Actions /\ action[work.action].kind \in {"model", "modelKey", "channel"}
      BY <1>6 DEF WriteConfig, ProviderKinds
    <2>2. config' \in Configs /\ promisedConfig' \in Configs
      BY <1>6, <2>1 DEF WriteConfig, Configs
    <2>3. work' \in WorkRecord
      BY <1>6 DEF WriteConfig, Goes
    <2>4. effects' \in [Actions -> Nat] /\ configCrossed' \in BOOLEAN
      BY <1>6, <2>1 DEF WriteConfig, Takes
    <2> QED BY <1>6, <2>2, <2>3, <2>4 DEF WriteConfig
  <1>7. CASE SetSecret
    BY <1>7 DEF SetSecret, Applies, Takes, Goes, NewSecret
  <1>8. CASE SetProvider
    BY <1>8 DEF SetProvider, Applies, Takes, Goes
  <1>9. CASE Mark
    <2>1. work.action \in Actions
      BY <1>9 DEF Mark
    <2>2. action' \in [Actions -> ActionRow]
      BY <1>9, <2>1 DEF Mark, MarkApplied
    <2>3. work' \in WorkRecord
      BY <1>9 DEF Mark
    <2> QED BY <1>9, <2>2, <2>3 DEF Mark
  <1>10. CASE StopOrchestrator
    BY <1>10 DEF StopOrchestrator, CutOff, ActionUpset
  <1>11. CASE LearnerReads
    BY <1>11 DEF LearnerReads, ActionUpset
  <1>12. CASE LearnerWrites
    BY <1>12 DEF LearnerWrites
  <1>13. ASSUME NEW q \in OperatorRequests, DecideAction(q) PROVE ActionsTyped'
    <2>1. request[q].action \in Actions
      BY <1>13 DEF DecideAction, Turn, RequestOK
    <2>2. approval' \in [Actions -> {"none", "pending", "approved", "rejected"}]
      BY <1>13, <2>1 DEF DecideAction
    <2>3. request' \in [OperatorRequests -> RequestRecord]
      BY <1>13 DEF DecideAction, Leaves
    <2> QED BY <1>13, <2>2, <2>3 DEF DecideAction
  <1>14. ASSUME NEW q \in OperatorRequests, Reject(q) PROVE ActionsTyped'
    <2>1. request[q].action \in Actions
      BY <1>14 DEF Reject, Turn, RequestOK
    <2>2. action' \in [Actions -> ActionRow]
      BY <1>14, <2>1 DEF Reject
    <2>3. request' \in [OperatorRequests -> RequestRecord]
      BY <1>14 DEF Reject, Leaves
    <2> QED BY <1>14, <2>2, <2>3 DEF Reject
  <1>15. ASSUME NEW q \in OperatorRequests, Approve(q) PROVE ActionsTyped'
    <2>1. request[q].action \in Actions
      BY <1>15 DEF Approve, Turn, RequestOK
    <2>2. request' \in [OperatorRequests -> RequestRecord]
      <3>1. CASE action[request[q].action].kind = "mail"
        BY <1>15, <3>1 DEF Approve
      <3>2. CASE action[request[q].action].kind # "mail"
        BY <1>15, <3>2 DEF Approve, Leaves
      <3> QED BY <3>1, <3>2
    <2>3. work' \in WorkRecord
      BY <1>15, <2>1 DEF Approve
    <2> QED BY <1>15, <2>2, <2>3 DEF Approve
  <1>16. ASSUME NEW q \in OperatorRequests, MailGoesOut(q) PROVE ActionsTyped'
    BY <1>16 DEF MailGoesOut,
           Takes, RequestOK, Holding
  <1>17. ASSUME NEW q \in OperatorRequests, MarkMail(q) PROVE ActionsTyped'
    <2>1. request[q].action \in Actions
      BY <1>17 DEF MarkMail, Turn, RequestOK
    <2>2. action' \in [Actions -> ActionRow]
      BY <1>17, <2>1 DEF MarkMail, MarkApplied
    <2>3. request' \in [OperatorRequests -> RequestRecord]
      BY <1>17 DEF MarkMail, Leaves
    <2> QED BY <1>17, <2>2, <2>3 DEF MarkMail
  <1>18. ASSUME NEW q \in OperatorRequests, MailRefused(q) PROVE ActionsTyped'
    BY <1>18 DEF MailRefused,
           ActionUpset, Leaves, RequestOK, Holding
  <1>19. ASSUME NEW k \in OperatorKinds, NEW who \in Askers, Ask(k, who) PROVE ActionsTyped'
    BY <1>19 DEF
           Ask, UnusedActions, Complete, AppliedAtOnce
  <1>20. ASSUME NEW a \in Actions, NEW says \in {"approved", "rejected"}, Receive(a, says) PROVE ActionsTyped'
    BY <1>20 DEF
           Receive, FreeRequests
  <1> QED
    BY <1>1, <1>2, <1>3, <1>4, <1>5, <1>6, <1>7, <1>8, <1>9, <1>10, <1>11, <1>12,
       <1>13, <1>14, <1>15, <1>16, <1>17, <1>18, <1>19, <1>20
       DEF OperatorNext, Orchestrator, Applying, Deciding

(* A key is stored before anything that needs it is asked for or written,  *)
(* since keys are never taken away.                                        *)
LEMMA KeysStep ==
    ASSUME ActionAssumption, OperatorInv, OperatorNext
    PROVE  KeysOK'
  <1> USE DEF OperatorInv, ActionsTyped, ActionRow, RequestRecord, WorkRecord, world, books, NoWork,
              NoRequest, HandsOK,
              NotLearning, NoConfig, KeysOK, ModelHasKey, WorkOK, ActionAssumption
  <1>1. CASE AskApproval
    BY <1>1 DEF AskApproval
  <1>2. CASE ApplyAdd
    BY <1>2 DEF ApplyAdd, Applies, Takes, Goes
  <1>3. CASE ApplyToAgent
    BY <1>3 DEF ApplyToAgent, Applies, Takes, Goes
  <1>4. CASE ApplyToNobody
    BY <1>4 DEF ApplyToNobody, Applies
  <1>5. CASE ReadConfig
    BY <1>5 DEF ReadConfig, Applies
  <1>6. CASE WriteConfig
    BY <1>6 DEF WriteConfig, Takes, Goes
  <1>7. CASE SetSecret
    BY <1>7 DEF SetSecret, Applies, Takes, Goes, NewSecret
  <1>8. CASE SetProvider
    BY <1>8 DEF SetProvider, Applies, Takes, Goes
  <1>9. CASE Mark
    BY <1>9 DEF Mark, MarkApplied
  <1>10. CASE StopOrchestrator
    BY <1>10 DEF StopOrchestrator, CutOff, ActionUpset
  <1>11. CASE LearnerReads
    BY <1>11 DEF LearnerReads, ActionUpset
  <1>12. CASE LearnerWrites
    BY <1>12 DEF LearnerWrites
  <1>13. ASSUME NEW q \in OperatorRequests, DecideAction(q) PROVE KeysOK'
    BY <1>13 DEF DecideAction, Turn,
           Decidable, Leaves, RequestOK, Holding
  <1>14. ASSUME NEW q \in OperatorRequests, Reject(q) PROVE KeysOK'
    BY <1>14 DEF Reject, Turn,
           Leaves, RequestOK, Holding
  <1>15. ASSUME NEW q \in OperatorRequests, Approve(q) PROVE KeysOK'
    <2>1. UNCHANGED <<action, world>>
      BY <1>15 DEF Approve
    <2>2. work' = work \/ (work'.at = "apply" /\ work'.copy = NoConfig)
      BY <1>15 DEF Approve
    <2>3. ModelHasKey(work'.copy)
      BY <2>2
    <2> QED BY <2>1, <2>2, <2>3
  <1>16. ASSUME NEW q \in OperatorRequests, MailGoesOut(q) PROVE KeysOK'
    BY <1>16 DEF MailGoesOut,
           Takes, RequestOK, Holding
  <1>17. ASSUME NEW q \in OperatorRequests, MarkMail(q) PROVE KeysOK'
    BY <1>17 DEF MarkMail, Turn,
           MarkApplied, Leaves, RequestOK, Holding
  <1>18. ASSUME NEW q \in OperatorRequests, MailRefused(q) PROVE KeysOK'
    BY <1>18 DEF MailRefused,
           ActionUpset, Leaves, RequestOK, Holding
  <1>19. ASSUME NEW k \in OperatorKinds, NEW who \in Askers, Ask(k, who) PROVE KeysOK'
    BY <1>19 DEF
           Ask, UnusedActions, Complete, AppliedAtOnce
  <1>20. ASSUME NEW a \in Actions, NEW says \in {"approved", "rejected"}, Receive(a, says) PROVE KeysOK'
    BY <1>20 DEF
           Receive, FreeRequests
  <1> QED
    BY <1>1, <1>2, <1>3, <1>4, <1>5, <1>6, <1>7, <1>8, <1>9, <1>10, <1>11, <1>12,
       <1>13, <1>14, <1>15, <1>16, <1>17, <1>18, <1>19, <1>20
       DEF OperatorNext, Orchestrator, Applying, Deciding

(* patchRuntimeConfig: a copy goes stale only when two writers overlap.    *)
LEMMA CopiesStep ==
    ASSUME ActionAssumption, OperatorInv, OperatorNext
    PROVE  CopiesOK'
  <1> USE DEF OperatorInv, ActionsTyped, ActionRow, RequestRecord, WorkRecord, world, books, NoWork,
              NoRequest, HandsOK,
              NotLearning, CopiesOK
  <1>1. CASE AskApproval
    BY <1>1 DEF AskApproval
  <1>2. CASE ApplyAdd
    BY <1>2 DEF ApplyAdd, Applies, Takes, Goes
  <1>3. CASE ApplyToAgent
    BY <1>3 DEF ApplyToAgent, Applies, Takes, Goes
  <1>4. CASE ApplyToNobody
    BY <1>4 DEF ApplyToNobody, Applies
  <1>5. CASE ReadConfig
    BY <1>5 DEF ReadConfig, Applies
  <1>6. CASE WriteConfig
    BY <1>6 DEF WriteConfig, Takes, Goes
  <1>7. CASE SetSecret
    BY <1>7 DEF SetSecret, Applies, Takes, Goes, NewSecret
  <1>8. CASE SetProvider
    BY <1>8 DEF SetProvider, Applies, Takes, Goes
  <1>9. CASE Mark
    BY <1>9 DEF Mark, MarkApplied
  <1>10. CASE StopOrchestrator
    BY <1>10 DEF StopOrchestrator, CutOff, ActionUpset
  <1>11. CASE LearnerReads
    BY <1>11 DEF LearnerReads, ActionUpset
  <1>12. CASE LearnerWrites
    BY <1>12 DEF LearnerWrites
  <1>13. ASSUME NEW q \in OperatorRequests, DecideAction(q) PROVE CopiesOK'
    BY <1>13 DEF DecideAction, Turn,
           Decidable, Leaves
  <1>14. ASSUME NEW q \in OperatorRequests, Reject(q) PROVE CopiesOK'
    BY <1>14 DEF Reject, Turn,
           Leaves
  <1>15. ASSUME NEW q \in OperatorRequests, Approve(q) PROVE CopiesOK'
    BY <1>15 DEF Approve, Turn,
           Leaves
  <1>16. ASSUME NEW q \in OperatorRequests, MailGoesOut(q) PROVE CopiesOK'
    BY <1>16 DEF MailGoesOut,
           Takes
  <1>17. ASSUME NEW q \in OperatorRequests, MarkMail(q) PROVE CopiesOK'
    BY <1>17 DEF MarkMail, Turn,
           MarkApplied, Leaves
  <1>18. ASSUME NEW q \in OperatorRequests, MailRefused(q) PROVE CopiesOK'
    BY <1>18 DEF MailRefused,
           ActionUpset, Leaves
  <1>19. ASSUME NEW k \in OperatorKinds, NEW who \in Askers, Ask(k, who) PROVE CopiesOK'
    BY <1>19 DEF
           Ask, UnusedActions, Complete, AppliedAtOnce
  <1>20. ASSUME NEW a \in Actions, NEW says \in {"approved", "rejected"}, Receive(a, says) PROVE CopiesOK'
    BY <1>20 DEF
           Receive, FreeRequests
  <1> QED
    BY <1>1, <1>2, <1>3, <1>4, <1>5, <1>6, <1>7, <1>8, <1>9, <1>10, <1>11, <1>12,
       <1>13, <1>14, <1>15, <1>16, <1>17, <1>18, <1>19, <1>20
       DEF OperatorNext, Orchestrator, Applying, Deciding

(* The action that applyOperatorAction is at stays pending, consented to,  *)
(* and without effect until the statement that has it.                     *)
LEMMA OrchestratorStep ==
    ASSUME ActionAssumption, OperatorInv, OperatorNext
    PROVE  WorkOK'
  <1> USE DEF OperatorInv, ActionsTyped, ActionRow, RequestRecord, WorkRecord, world, books, NoWork,
              NoRequest, HandsOK,
              WorkOK, Holding, Holds, RequestOK, ActionOK, Consented, ActionAssumption
  <1>1. CASE AskApproval
    BY <1>1 DEF AskApproval
  <1>2. CASE ApplyAdd
    BY <1>2 DEF ApplyAdd, Applies, Takes, Goes
  <1>3. CASE ApplyToAgent
    BY <1>3 DEF ApplyToAgent, Applies, Takes, Goes
  <1>4. CASE ApplyToNobody
    BY <1>4 DEF ApplyToNobody, Applies
  <1>5. CASE ReadConfig
    BY <1>5 DEF ReadConfig, Applies
  <1>6. CASE WriteConfig
    BY <1>6 DEF WriteConfig, Takes, Goes
  <1>7. CASE SetSecret
    BY <1>7 DEF SetSecret, Applies, Takes, Goes, NewSecret
  <1>8. CASE SetProvider
    BY <1>8 DEF SetProvider, Applies, Takes, Goes
  <1>9. CASE Mark
    BY <1>9 DEF Mark, MarkApplied
  <1>10. CASE StopOrchestrator
    BY <1>10 DEF StopOrchestrator, CutOff, ActionUpset
  <1>11. CASE LearnerReads
    BY <1>11 DEF LearnerReads, ActionUpset
  <1>12. CASE LearnerWrites
    BY <1>12 DEF LearnerWrites
  <1>13. ASSUME NEW q \in OperatorRequests, DecideAction(q) PROVE WorkOK'
    BY <1>13 DEF DecideAction, Turn,
           Decidable, Leaves
  <1>14. ASSUME NEW q \in OperatorRequests, Reject(q) PROVE WorkOK'
    BY <1>14 DEF Reject, Turn, Leaves
  <1>15. ASSUME NEW q \in OperatorRequests, Approve(q) PROVE WorkOK'
    <2> DEFINE c == request[q].action
    <2>1. /\ c \in Actions /\ approval[c] = "approved" /\ action[c].status = "pending"
          /\ effects[c] = 0 /\ work.at = "free" /\ request[q].at = "after"
      BY <1>15 DEF Approve, Turn
    <2>2. CASE action[c].kind = "mail"
      <3>1. work' = work /\ request' = [request EXCEPT ![q].at = "sending"]
        BY <1>15, <2>2 DEF Approve
      <3>2. UNCHANGED <<action, approval, effects, lost>>
        BY <1>15 DEF Approve
      <3> QED BY <1>15, <2>1, <3>1, <3>2 DEF Approve
    <2>3. CASE action[c].kind # "mail"
      <3>1. /\ request' = [request EXCEPT ![q] = NoRequest]
            /\ work' = [NoWork EXCEPT !.at = "apply", !.action = c]
        BY <1>15, <2>3 DEF Approve, Leaves
      <3>2. UNCHANGED <<action, approval, effects, lost>>
        BY <1>15 DEF Approve
      <3> QED BY <1>15, <2>1, <3>1, <3>2 DEF Approve
    <2> QED BY <2>2, <2>3
  <1>16. ASSUME NEW q \in OperatorRequests, MailGoesOut(q) PROVE WorkOK'
    BY <1>16 DEF MailGoesOut,
           Takes
  <1>17. ASSUME NEW q \in OperatorRequests, MarkMail(q) PROVE WorkOK'
    BY <1>17 DEF MarkMail, Turn,
           MarkApplied, Leaves
  <1>18. ASSUME NEW q \in OperatorRequests, MailRefused(q) PROVE WorkOK'
    BY <1>18 DEF MailRefused,
           ActionUpset, Leaves
  <1>19. ASSUME NEW k \in OperatorKinds, NEW who \in Askers, Ask(k, who) PROVE WorkOK'
    BY <1>19 DEF
           Ask, UnusedActions, Complete, AppliedAtOnce, LowRisk
  <1>20. ASSUME NEW a \in Actions, NEW says \in {"approved", "rejected"}, Receive(a, says) PROVE WorkOK'
    BY <1>20 DEF
           Receive, FreeRequests
  <1> QED
    BY <1>1, <1>2, <1>3, <1>4, <1>5, <1>6, <1>7, <1>8, <1>9, <1>10, <1>11, <1>12,
       <1>13, <1>14, <1>15, <1>16, <1>17, <1>18, <1>19, <1>20
       DEF OperatorNext, Orchestrator, Applying, Deciding

(* Of all decisions on an action one is taken, and its request alone holds *)
(* the action until its effects are applied.                               *)
LEMMA RequestStep ==
    ASSUME ActionAssumption, OperatorInv, OperatorNext, NEW r \in OperatorRequests
    PROVE  RequestOK(r)'
  <1> USE DEF OperatorInv, ActionsTyped, ActionRow, RequestRecord, WorkRecord, world, books, NoWork,
              NoRequest, HandsOK,
              WorkOK, Holding, Holds, RequestOK, ActionOK, Consented, ActionAssumption
  <1>1. CASE AskApproval
    BY <1>1 DEF AskApproval
  <1>2. CASE ApplyAdd
    BY <1>2 DEF ApplyAdd, Applies, Takes, Goes
  <1>3. CASE ApplyToAgent
    BY <1>3 DEF ApplyToAgent, Applies, Takes, Goes
  <1>4. CASE ApplyToNobody
    BY <1>4 DEF ApplyToNobody, Applies
  <1>5. CASE ReadConfig
    BY <1>5 DEF ReadConfig, Applies
  <1>6. CASE WriteConfig
    BY <1>6 DEF WriteConfig, Takes, Goes
  <1>7. CASE SetSecret
    BY <1>7 DEF SetSecret, Applies, Takes, Goes, NewSecret
  <1>8. CASE SetProvider
    BY <1>8 DEF SetProvider, Applies, Takes, Goes
  <1>9. CASE Mark
    BY <1>9 DEF Mark, MarkApplied
  <1>10. CASE StopOrchestrator
    BY <1>10 DEF StopOrchestrator, CutOff, ActionUpset
  <1>11. CASE LearnerReads
    BY <1>11 DEF LearnerReads, ActionUpset
  <1>12. CASE LearnerWrites
    BY <1>12 DEF LearnerWrites
  <1>13. ASSUME NEW q \in OperatorRequests, DecideAction(q) PROVE RequestOK(r)'
    <2> DEFINE c == request[q].action
    <2>1. c \in Actions /\ work.action = NoAction /\ request[q].at = "before"
      BY <1>13 DEF DecideAction, Turn
    <2>2. UNCHANGED <<action, work, effects>>
      BY <1>13 DEF DecideAction
    <2>3. CASE approval[c] = "pending"
      <3>1. /\ approval' = [approval EXCEPT ![c] = request[q].says]
            /\ request' = [request EXCEPT ![q].at = "after"]
        BY <1>13, <2>3 DEF DecideAction, Decidable
      <3>2. action[c].status = "pending" /\ effects[c] = 0
        BY <2>1, <2>3
      <3>3. \A p \in OperatorRequests : ~Holds(p, c)
        BY <2>3
      <3> QED BY <2>1, <2>2, <2>3, <3>1, <3>2, <3>3
    <2>4. CASE approval[c] # "pending"
      <3>1. UNCHANGED approval /\ request' = [request EXCEPT ![q] = NoRequest]
        BY <1>13, <2>4 DEF DecideAction, Decidable, Leaves
      <3> QED BY <2>1, <2>2, <3>1
    <2> QED BY <2>3, <2>4
  <1>14. ASSUME NEW q \in OperatorRequests, Reject(q) PROVE RequestOK(r)'
    BY <1>14 DEF Reject, Turn,
           Leaves
  <1>15. ASSUME NEW q \in OperatorRequests, Approve(q) PROVE RequestOK(r)'
    <2> DEFINE c == request[q].action
    <2>1. /\ c \in Actions /\ approval[c] = "approved" /\ action[c].status = "pending"
          /\ effects[c] = 0 /\ work.at = "free" /\ request[q].at = "after"
      BY <1>15 DEF Approve, Turn
    <2>2. CASE action[c].kind = "mail"
      <3>1. work' = work /\ request' = [request EXCEPT ![q].at = "sending"]
        BY <1>15, <2>2 DEF Approve
      <3>2. UNCHANGED <<action, approval, effects, lost>>
        BY <1>15 DEF Approve
      <3> QED BY <1>15, <2>1, <3>1, <3>2 DEF Approve
    <2>3. CASE action[c].kind # "mail"
      <3>1. /\ request' = [request EXCEPT ![q] = NoRequest]
            /\ work' = [NoWork EXCEPT !.at = "apply", !.action = c]
        BY <1>15, <2>3 DEF Approve, Leaves
      <3>2. UNCHANGED <<action, approval, effects, lost>>
        BY <1>15 DEF Approve
      <3> QED BY <1>15, <2>1, <3>1, <3>2 DEF Approve
    <2> QED BY <2>2, <2>3
  <1>16. ASSUME NEW q \in OperatorRequests, MailGoesOut(q) PROVE RequestOK(r)'
    BY <1>16 DEF
           MailGoesOut, Takes
  <1>17. ASSUME NEW q \in OperatorRequests, MarkMail(q) PROVE RequestOK(r)'
    BY <1>17 DEF MarkMail,
           Turn, MarkApplied, Leaves
  <1>18. ASSUME NEW q \in OperatorRequests, MailRefused(q) PROVE RequestOK(r)'
    BY <1>18 DEF
           MailRefused, ActionUpset, Leaves
  <1>19. ASSUME NEW k \in OperatorKinds, NEW who \in Askers, Ask(k, who) PROVE RequestOK(r)'
    BY <1>19 DEF
           Ask, UnusedActions, Complete, AppliedAtOnce
  <1>20. ASSUME NEW a \in Actions, NEW says \in {"approved", "rejected"}, Receive(a, says) PROVE RequestOK(r)'
    BY <1>20 DEF
           Receive, FreeRequests
  <1> QED
    BY <1>1, <1>2, <1>3, <1>4, <1>5, <1>6, <1>7, <1>8, <1>9, <1>10, <1>11, <1>12,
       <1>13, <1>14, <1>15, <1>16, <1>17, <1>18, <1>19, <1>20
       DEF OperatorNext, Orchestrator, Applying, Deciding

(* An action without approval, or whose approval is pending, has had no    *)
(* effect.                                                                 *)
LEMMA ActionStep ==
    ASSUME ActionAssumption, OperatorInv, OperatorNext, NEW b \in Actions
    PROVE  ActionOK(b)'
  <1> USE DEF OperatorInv, ActionsTyped, ActionRow, RequestRecord, WorkRecord, world, books, NoWork,
              NoRequest, HandsOK,
              WorkOK, Holding, Holds, RequestOK, ActionOK, Consented, ActionAssumption
  <1>1. CASE AskApproval
    BY <1>1 DEF AskApproval
  <1>2. CASE ApplyAdd
    BY <1>2 DEF ApplyAdd, Applies, Takes, Goes
  <1>3. CASE ApplyToAgent
    BY <1>3 DEF ApplyToAgent, Applies, Takes, Goes
  <1>4. CASE ApplyToNobody
    BY <1>4 DEF ApplyToNobody, Applies
  <1>5. CASE ReadConfig
    BY <1>5 DEF ReadConfig, Applies
  <1>6. CASE WriteConfig
    BY <1>6 DEF WriteConfig, Takes, Goes
  <1>7. CASE SetSecret
    BY <1>7 DEF SetSecret, Applies, Takes, Goes, NewSecret
  <1>8. CASE SetProvider
    BY <1>8 DEF SetProvider, Applies, Takes, Goes
  <1>9. CASE Mark
    BY <1>9 DEF Mark, MarkApplied
  <1>10. CASE StopOrchestrator
    BY <1>10 DEF StopOrchestrator, CutOff, ActionUpset
  <1>11. CASE LearnerReads
    BY <1>11 DEF LearnerReads, ActionUpset
  <1>12. CASE LearnerWrites
    BY <1>12 DEF LearnerWrites
  <1>13. ASSUME NEW q \in OperatorRequests, DecideAction(q) PROVE ActionOK(b)'
    BY <1>13 DEF DecideAction, Turn,
           Decidable, Leaves
  <1>14. ASSUME NEW q \in OperatorRequests, Reject(q) PROVE ActionOK(b)'
    BY <1>14 DEF Reject, Turn,
           Leaves
  <1>15. ASSUME NEW q \in OperatorRequests, Approve(q) PROVE ActionOK(b)'
    <2> DEFINE c == request[q].action
    <2>1. /\ c \in Actions /\ approval[c] = "approved" /\ action[c].status = "pending"
          /\ effects[c] = 0 /\ work.at = "free" /\ request[q].at = "after"
      BY <1>15 DEF Approve, Turn
    <2>2. CASE action[c].kind = "mail"
      <3>1. work' = work /\ request' = [request EXCEPT ![q].at = "sending"]
        BY <1>15, <2>2 DEF Approve
      <3>2. UNCHANGED <<action, approval, effects, lost>>
        BY <1>15 DEF Approve
      <3> QED BY <1>15, <2>1, <3>1, <3>2 DEF Approve
    <2>3. CASE action[c].kind # "mail"
      <3>1. /\ request' = [request EXCEPT ![q] = NoRequest]
            /\ work' = [NoWork EXCEPT !.at = "apply", !.action = c]
        BY <1>15, <2>3 DEF Approve, Leaves
      <3>2. UNCHANGED <<action, approval, effects, lost>>
        BY <1>15 DEF Approve
      <3> QED BY <1>15, <2>1, <3>1, <3>2 DEF Approve
    <2> QED BY <2>2, <2>3
  <1>16. ASSUME NEW q \in OperatorRequests, MailGoesOut(q) PROVE ActionOK(b)'
    BY <1>16 DEF
           MailGoesOut, Takes
  <1>17. ASSUME NEW q \in OperatorRequests, MarkMail(q) PROVE ActionOK(b)'
    BY <1>17 DEF MarkMail,
           Turn, MarkApplied, Leaves
  <1>18. ASSUME NEW q \in OperatorRequests, MailRefused(q) PROVE ActionOK(b)'
    BY <1>18 DEF
           MailRefused, ActionUpset, Leaves
  <1>19. ASSUME NEW k \in OperatorKinds, NEW who \in Askers, Ask(k, who) PROVE ActionOK(b)'
    BY <1>19 DEF
           Ask, UnusedActions, Complete, AppliedAtOnce
  <1>20. ASSUME NEW a \in Actions, NEW says \in {"approved", "rejected"}, Receive(a, says) PROVE ActionOK(b)'
    BY <1>20 DEF
           Receive, FreeRequests
  <1> QED
    BY <1>1, <1>2, <1>3, <1>4, <1>5, <1>6, <1>7, <1>8, <1>9, <1>10, <1>11, <1>12,
       <1>13, <1>14, <1>15, <1>16, <1>17, <1>18, <1>19, <1>20
       DEF OperatorNext, Orchestrator, Applying, Deciding

(* An action that is let go by the orchestrator is settled, or taken by    *)
(* the next step of its way, or lost.                                      *)
LEMMA DroppedStep ==
    ASSUME ActionAssumption, OperatorInv, OperatorNext
    PROVE  NobodyDropped'
  <1> USE DEF OperatorInv, ActionsTyped, ActionRow, RequestRecord, WorkRecord, world, books, NoWork,
              NoRequest, HandsOK,
              WorkOK, Holding, Holds, RequestOK, ActionOK, Consented, ActionAssumption,
              NobodyDropped
  <1>1. CASE AskApproval
    BY <1>1 DEF AskApproval
  <1>2. CASE ApplyAdd
    BY <1>2 DEF ApplyAdd, Applies, Takes, Goes
  <1>3. CASE ApplyToAgent
    BY <1>3 DEF ApplyToAgent, Applies, Takes, Goes
  <1>4. CASE ApplyToNobody
    BY <1>4 DEF ApplyToNobody, Applies
  <1>5. CASE ReadConfig
    BY <1>5 DEF ReadConfig, Applies
  <1>6. CASE WriteConfig
    BY <1>6 DEF WriteConfig, Takes, Goes
  <1>7. CASE SetSecret
    BY <1>7 DEF SetSecret, Applies, Takes, Goes, NewSecret
  <1>8. CASE SetProvider
    BY <1>8 DEF SetProvider, Applies, Takes, Goes
  <1>9. CASE Mark
    BY <1>9 DEF Mark, MarkApplied
  <1>10. CASE StopOrchestrator
    BY <1>10 DEF StopOrchestrator, CutOff, ActionUpset
  <1>11. CASE LearnerReads
    BY <1>11 DEF LearnerReads, ActionUpset
  <1>12. CASE LearnerWrites
    BY <1>12 DEF LearnerWrites
  <1>13. ASSUME NEW q \in OperatorRequests, DecideAction(q) PROVE NobodyDropped'
    BY <1>13 DEF DecideAction, Turn,
           Decidable, Leaves
  <1>14. ASSUME NEW q \in OperatorRequests, Reject(q) PROVE NobodyDropped'
    BY <1>14 DEF Reject, Turn,
           Leaves
  <1>15. ASSUME NEW q \in OperatorRequests, Approve(q) PROVE NobodyDropped'
    <2> DEFINE c == request[q].action
    <2>1. /\ c \in Actions /\ approval[c] = "approved" /\ action[c].status = "pending"
          /\ effects[c] = 0 /\ work.at = "free" /\ request[q].at = "after"
      BY <1>15 DEF Approve, Turn
    <2>2. CASE action[c].kind = "mail"
      <3>1. work' = work /\ request' = [request EXCEPT ![q].at = "sending"]
        BY <1>15, <2>2 DEF Approve
      <3>2. UNCHANGED <<action, approval, effects, lost>>
        BY <1>15 DEF Approve
      <3> QED BY <1>15, <2>1, <3>1, <3>2 DEF Approve
    <2>3. CASE action[c].kind # "mail"
      <3>1. /\ request' = [request EXCEPT ![q] = NoRequest]
            /\ work' = [NoWork EXCEPT !.at = "apply", !.action = c]
        BY <1>15, <2>3 DEF Approve, Leaves
      <3>2. UNCHANGED <<action, approval, effects, lost>>
        BY <1>15 DEF Approve
      <3> QED BY <1>15, <2>1, <3>1, <3>2 DEF Approve
    <2> QED BY <2>2, <2>3
  <1>16. ASSUME NEW q \in OperatorRequests, MailGoesOut(q) PROVE NobodyDropped'
    BY <1>16 DEF
           MailGoesOut, Takes
  <1>17. ASSUME NEW q \in OperatorRequests, MarkMail(q) PROVE NobodyDropped'
    BY <1>17 DEF MarkMail,
           Turn, MarkApplied, Leaves
  <1>18. ASSUME NEW q \in OperatorRequests, MailRefused(q) PROVE NobodyDropped'
    BY <1>18 DEF
           MailRefused, ActionUpset, Leaves
  <1>19. ASSUME NEW k \in OperatorKinds, NEW who \in Askers, Ask(k, who) PROVE NobodyDropped'
    BY <1>19 DEF
           Ask, UnusedActions, Complete, AppliedAtOnce
  <1>20. ASSUME NEW a \in Actions, NEW says \in {"approved", "rejected"}, Receive(a, says)
         PROVE  NobodyDropped'
    BY <1>20 DEF
           Receive, FreeRequests
  <1> QED
    BY <1>1, <1>2, <1>3, <1>4, <1>5, <1>6, <1>7, <1>8, <1>9, <1>10, <1>11, <1>12,
       <1>13, <1>14, <1>15, <1>16, <1>17, <1>18, <1>19, <1>20
       DEF OperatorNext, Orchestrator, Applying, Deciding

(* What one step may do to the effects of an action.                       *)
EffectOnce(a) ==
    /\ effects'[a] # effects[a] => effects[a] = 0 /\ action[a].status = "pending" /\ Consented(a)
    /\ action[a].status # "applied" /\ action'[a].status = "applied" => effects[a] = 1

(* An effect is the first one, of a pending action that was consented to.  *)
LEMMA EffectStep ==
    ASSUME ActionAssumption, OperatorInv, OperatorNext, NEW b \in Actions
    PROVE  EffectOnce(b)
  <1> USE DEF OperatorInv, ActionsTyped, ActionRow, RequestRecord, WorkRecord, world, books, NoWork,
              NoRequest, HandsOK,
              WorkOK, Holding, Holds, RequestOK, ActionOK, Consented, ActionAssumption,
              EffectOnce
  <1>1. CASE AskApproval
    BY <1>1 DEF AskApproval
  <1>2. CASE ApplyAdd
    BY <1>2 DEF ApplyAdd, Applies, Takes, Goes
  <1>3. CASE ApplyToAgent
    BY <1>3 DEF ApplyToAgent, Applies, Takes, Goes
  <1>4. CASE ApplyToNobody
    BY <1>4 DEF ApplyToNobody, Applies
  <1>5. CASE ReadConfig
    BY <1>5 DEF ReadConfig, Applies
  <1>6. CASE WriteConfig
    BY <1>6 DEF WriteConfig, Takes, Goes
  <1>7. CASE SetSecret
    BY <1>7 DEF SetSecret, Applies, Takes, Goes, NewSecret
  <1>8. CASE SetProvider
    BY <1>8 DEF SetProvider, Applies, Takes, Goes
  <1>9. CASE Mark
    BY <1>9 DEF Mark, MarkApplied
  <1>10. CASE StopOrchestrator
    BY <1>10 DEF StopOrchestrator, CutOff, ActionUpset
  <1>11. CASE LearnerReads
    BY <1>11 DEF LearnerReads, ActionUpset
  <1>12. CASE LearnerWrites
    BY <1>12 DEF LearnerWrites
  <1>13. ASSUME NEW q \in OperatorRequests, DecideAction(q) PROVE EffectOnce(b)
    BY <1>13 DEF DecideAction, Turn,
           Decidable, Leaves
  <1>14. ASSUME NEW q \in OperatorRequests, Reject(q) PROVE EffectOnce(b)
    BY <1>14 DEF Reject, Turn,
           Leaves
  <1>15. ASSUME NEW q \in OperatorRequests, Approve(q) PROVE EffectOnce(b)
    BY <1>15 DEF Approve
  <1>16. ASSUME NEW q \in OperatorRequests, MailGoesOut(q) PROVE EffectOnce(b)
    BY <1>16 DEF
           MailGoesOut, Takes
  <1>17. ASSUME NEW q \in OperatorRequests, MarkMail(q) PROVE EffectOnce(b)
    BY <1>17 DEF MarkMail,
           Turn, MarkApplied, Leaves
  <1>18. ASSUME NEW q \in OperatorRequests, MailRefused(q) PROVE EffectOnce(b)
    BY <1>18 DEF
           MailRefused, ActionUpset, Leaves
  <1>19. ASSUME NEW k \in OperatorKinds, NEW who \in Askers, Ask(k, who) PROVE EffectOnce(b)
    BY <1>19 DEF
           Ask, UnusedActions, Complete, AppliedAtOnce
  <1>20. ASSUME NEW a \in Actions, NEW says \in {"approved", "rejected"}, Receive(a, says) PROVE EffectOnce(b)
    BY <1>20 DEF
           Receive, FreeRequests
  <1> QED
    BY <1>1, <1>2, <1>3, <1>4, <1>5, <1>6, <1>7, <1>8, <1>9, <1>10, <1>11, <1>12,
       <1>13, <1>14, <1>15, <1>16, <1>17, <1>18, <1>19, <1>20
       DEF OperatorNext, Orchestrator, Applying, Deciding

(* The five parts hold through every step.                                 *)
LEMMA OperatorStep ==
    ASSUME ActionAssumption, OperatorInv, [OperatorNext]_operatorVars
    PROVE  OperatorInv'
  <1>1. CASE OperatorNext
    <2>1. HandsOK'
      BY <1>1, OrchestratorStep, RequestStep, ActionStep DEF HandsOK
    <2> QED BY <1>1, <2>1, ActionsTypedStep, KeysStep, CopiesStep, DroppedStep DEF OperatorInv
  <1>2. CASE UNCHANGED operatorVars
    <2>1. ActionsTyped' /\ CopiesOK'
      BY <1>2 DEF OperatorInv, operatorVars, ActionsTyped, CopiesOK
    <2>2. KeysOK'
      BY <1>2 DEF OperatorInv, operatorVars, KeysOK, ModelHasKey
    <2>3. HandsOK'
      BY <1>2 DEF OperatorInv, operatorVars, HandsOK, WorkOK, RequestOK, ActionOK, Holds, Consented
    <2>4. NobodyDropped'
      BY <1>2 DEF OperatorInv, operatorVars, NobodyDropped, Holds
    <2> QED BY <2>1, <2>2, <2>3, <2>4 DEF OperatorInv
  <1> QED BY <1>1, <1>2

(* And so they always hold.                                                *)
LEMMA OperatorInvariant ==
    ASSUME ActionAssumption
    PROVE  OperatorSpec => []OperatorInv
  <1>1. OperatorInit => OperatorInv BY OperatorInitially
  <1>2. OperatorInv /\ [OperatorNext]_operatorVars => OperatorInv' BY OperatorStep
  <1> QED BY <1>1, <1>2, PTL DEF OperatorSpec

-----------------------------------------------------------------------------
(* A search provider or a model is in force only with its key, however     *)
(* many actions are decided in whatever order, and through crashes between *)
(* any two statements of applyOperatorAction.                              *)
THEOREM KeysAlwaysComeFirst ==
    ASSUME ActionAssumption
    PROVE  OperatorSpec => []KeysComeFirst
  <1>1. OperatorInv => KeysComeFirst
    BY DEF OperatorInv, KeysOK, ModelHasKey, KeysComeFirst
  <1> QED BY <1>1, OperatorInvariant, PTL

(* The configuration holds what was applied last, as long as the task      *)
(* runner does not rewrite it between the read and the write of            *)
(* patchRuntimeConfig, or the other way round.                             *)
THEOREM ChangesAlwaysStand ==
    ASSUME ActionAssumption
    PROVE  OperatorSpec => []ChangesStand
  <1>1. OperatorInv => ChangesStand
    BY DEF OperatorInv, CopiesOK, ChangesStand
  <1> QED BY <1>1, OperatorInvariant, PTL

(* A pending action can still be decided, is in somebody's hands, or was   *)
(* cut off by a crash, a refused mail or a missing agent: no interleaving  *)
(* of decisions (decideApprovalWorkflowStep, applyApprovalDecisionEffects) *)
(* drops one.                                                              *)
THEOREM NobodyIsEverForgotten ==
    ASSUME ActionAssumption
    PROVE  OperatorSpec => []NobodyIsForgotten
  <1>1. OperatorInv => NobodyIsForgotten
    BY DEF OperatorInv, NobodyDropped, NobodyIsForgotten, Holds
  <1> QED BY <1>1, OperatorInvariant, PTL

(* However many decisions on an action are under way, it changes something *)
(* once, while it is pending, and is called applied only when it did.      *)
THEOREM EffectIsAlwaysSingle ==
    ASSUME ActionAssumption
    PROVE  OperatorSpec => EffectIsSingle
  <1>1. OperatorInv /\ [OperatorNext]_operatorVars =>
          [\A a \in Actions :
             /\ effects'[a] # effects[a] => effects[a] = 0 /\ action[a].status = "pending"
             /\ action[a].status # "applied" /\ action'[a].status = "applied" => effects[a] = 1]_operatorVars
    BY EffectStep DEF EffectOnce
  <1> QED BY <1>1, OperatorInvariant, PTL DEF OperatorSpec, EffectIsSingle

(* What is neither harmless nor asked for by somebody who is trusted       *)
(* (ownerLowRiskAutoApply) changes something only after an approval.       *)
THEOREM ConsentAlwaysComesFirst ==
    ASSUME ActionAssumption
    PROVE  OperatorSpec => ConsentComesFirst
  <1>1. OperatorInv /\ [OperatorNext]_operatorVars =>
          [\A a \in Actions : effects'[a] # effects[a] =>
             \/ approval[a] = "approved"
             \/ approval[a] = "none" /\ action[a].by \in Trusted
                   /\ action[a].kind \in {"add", "remove", "tone", "key", "provider"}]_operatorVars
    BY EffectStep DEF EffectOnce, Consented, LowRisk, AgentKinds, SettingKinds
  <1> QED BY <1>1, OperatorInvariant, PTL DEF OperatorSpec, ConsentComesFirst

(* Nothing happens without consent or twice, no key is missing, no change  *)
(* of the configuration is lost and no action is forgotten.                *)
THEOREM OperatorsAreAlwaysObeyed ==
    ASSUME ActionAssumption
    PROVE  OperatorSpec => OperatorsAreObeyed
  BY EffectIsAlwaysSingle, ConsentAlwaysComesFirst, KeysAlwaysComeFirst, ChangesAlwaysStand,
     NobodyIsEverForgotten DEF OperatorsAreObeyed

-----------------------------------------------------------------------------
(* The actions that have changed something.                                *)
Effected == {a \in Actions : effects[a] # 0}

(* An agent more than at the start was hired by an action.                 *)
TallyOK ==
    /\ agents \in Nat /\ agents <= 1 + Cardinality(Effected)
    /\ actionUpsets \in 0..MaxActionUpsets

(* Actions do not lose their effect, and one more agent is one more        *)
(* action.                                                                 *)
LEMMA TallyCalm ==
    ASSUME ActionAssumption, TallyOK, agents' \in Nat, agents' <= agents, Effected \subseteq Effected',
           actionUpsets' \in 0..MaxActionUpsets
    PROVE  TallyOK'
  <1>1. Effected \subseteq Actions /\ Effected' \subseteq Actions BY DEF Effected
  <1>2. IsFiniteSet(Effected) /\ IsFiniteSet(Effected')
    BY <1>1, FS_Subset DEF ActionAssumption
  <1>3. Cardinality(Effected) <= Cardinality(Effected') /\ Cardinality(Effected) \in Nat
        /\ Cardinality(Effected') \in Nat
    BY <1>2, FS_Subset, FS_CardinalityType
  <1> HIDE DEF Effected
  <1> QED BY <1>3 DEF TallyOK

(* Every step keeps the number of agents within that of the actions.       *)
LEMMA TallyStep ==
    ASSUME ActionAssumption, OperatorInv, TallyOK, [OperatorNext]_operatorVars
    PROVE  TallyOK'
  <1>0. MaxActionUpsets \in Nat /\ IsFiniteSet(Actions) BY DEF ActionAssumption
  <1>1. ActionsTyped /\ WorkOK /\ \A q \in OperatorRequests : RequestOK(q) BY DEF OperatorInv, HandsOK
  <1>2. effects \in [Actions -> Nat] BY <1>1 DEF ActionsTyped
  <1>3. ASSUME NEW a, Takes(a) PROVE Effected \subseteq Effected'
    BY <1>2, <1>3 DEF Takes, Effected
  <1>4. ASSUME UNCHANGED effects PROVE Effected \subseteq Effected'
    BY <1>4 DEF Effected
  <1>5. ASSUME UNCHANGED <<agents, actionUpsets>>, UNCHANGED effects \/ \E a : Takes(a) PROVE TallyOK'
    BY <1>3, <1>4, <1>5, TallyCalm DEF TallyOK
  <1>6. ASSUME NEW k, UNCHANGED <<agents, effects>>, ActionUpset(k) PROVE TallyOK'
    <2>1. actionUpsets' \in 0..MaxActionUpsets BY <1>0, <1>6 DEF ActionUpset, TallyOK
    <2> QED BY <1>4, <1>6, <2>1, TallyCalm DEF TallyOK
  <1>7. CASE UNCHANGED operatorVars BY <1>5, <1>7 DEF operatorVars
  <1>8. CASE ApplyAdd
    <2> DEFINE a == work.action
    <2>1. a \in Actions /\ effects[a] = 0 /\ effects' = [effects EXCEPT ![a] = @ + 1] /\ agents' = agents + 1
      BY <1>1, <1>8 DEF ApplyAdd, Applies, WorkOK, Takes
    <2>2. a \notin Effected /\ Effected' = Effected \cup {a}
      BY <1>2, <2>1 DEF Effected
    <2>3. IsFiniteSet(Effected) BY <1>0, FS_Subset DEF Effected
    <2>4. Cardinality(Effected') = Cardinality(Effected) + 1 /\ Cardinality(Effected) \in Nat
      BY <2>2, <2>3, FS_AddElement, FS_CardinalityType
    <2>5. actionUpsets' = actionUpsets BY <1>8 DEF ApplyAdd
    <2> HIDE DEF Effected
    <2> QED BY <2>1, <2>4, <2>5 DEF TallyOK
  <1>9. CASE ApplyToAgent
    <2>1. agents' \in Nat /\ agents' <= agents BY <1>9 DEF ApplyToAgent, TallyOK
    <2>2. Takes(work.action) /\ actionUpsets' = actionUpsets BY <1>9 DEF ApplyToAgent
    <2> QED BY <1>3, <2>1, <2>2, TallyCalm DEF TallyOK
  <1>10. CASE ApplyToNobody \/ ReadConfig \/ WriteConfig \/ SetSecret \/ SetProvider \/ Mark \/ AskApproval \/ LearnerWrites
    BY <1>5, <1>10 DEF ApplyToNobody, ReadConfig, WriteConfig, SetSecret, SetProvider, Mark, AskApproval,
         LearnerWrites, world, books
  <1>11. CASE StopOrchestrator \/ LearnerReads
    BY <1>6, <1>11 DEF StopOrchestrator, LearnerReads, world
  <1>12. ASSUME NEW q \in OperatorRequests, Deciding(q) PROVE TallyOK'
    BY <1>5, <1>12 DEF Deciding, DecideAction, Reject, Approve, MailGoesOut, MarkMail, world, books
  <1>13. ASSUME NEW q \in OperatorRequests, MailRefused(q) PROVE TallyOK'
    BY <1>6, <1>13 DEF MailRefused, world
  <1>14. CASE (\E k \in OperatorKinds, who \in Askers : Ask(k, who))
             \/ \E a \in Actions, says \in {"approved", "rejected"} : Receive(a, says)
    BY <1>5, <1>14 DEF Ask, Receive, world, books
  <1> QED BY <1>7, <1>8, <1>9, <1>10, <1>11, <1>12, <1>13, <1>14 DEF OperatorNext, Orchestrator, Applying

(* One agent to begin with.                                                *)
LEMMA TallyInitially == ASSUME ActionAssumption, OperatorInit PROVE TallyOK
  <1>1. Effected = {} BY DEF OperatorInit, Effected
  <1>2. Cardinality(Effected) = 0 BY <1>1, FS_EmptySet
  <1> QED BY <1>2 DEF ActionAssumption, OperatorInit, TallyOK

(* The invariants imply the types.                                         *)
LEMMA ActionTypes ==
    ASSUME ActionAssumption, OperatorInv, TallyOK PROVE OperatorTypeOK
  <1>1. IsFiniteSet(Actions) /\ Effected \subseteq Actions BY DEF ActionAssumption, Effected
  <1>2. Cardinality(Effected) <= Cardinality(Actions) /\ Cardinality(Actions) \in Nat
        /\ Cardinality(Effected) \in Nat
    BY <1>1, FS_Subset, FS_CardinalityType
  <1>3. agents \in 0..Cardinality(Actions) + 1 BY <1>2 DEF TallyOK
  <1>4. Askers \cup {Someone} = Askers BY DEF ActionAssumption, Someone
  <1> QED BY <1>3, <1>4 DEF OperatorInv, ActionsTyped, ActionRow, RequestRecord, WorkRecord, TallyOK,
             OperatorTypeOK

(* Rows, requests and copies keep their types, and a role gets no more     *)
(* agents than there were actions that asked for one.                      *)
THEOREM OperatorTypes ==
    ASSUME ActionAssumption PROVE OperatorSpec => []OperatorTypeOK
  <1>1. OperatorInit => OperatorInv /\ TallyOK BY OperatorInitially, TallyInitially
  <1>2. OperatorInv /\ TallyOK /\ [OperatorNext]_operatorVars => OperatorInv' /\ TallyOK'
    BY OperatorStep, TallyStep
  <1>3. OperatorInv /\ TallyOK => OperatorTypeOK BY ActionTypes
  <1> QED BY <1>1, <1>2, <1>3, PTL DEF OperatorSpec

-----------------------------------------------------------------------------
(* Everything that is learned, planned or remembered has its evidence.     *)

(* The counts n of signals are enough for a change of field f.             *)
Enough(n, f) ==
    /\ f = "router" => n["fallback"] >= 3
    /\ f = "preference" => n["unsure"] >= 2
    /\ f = "intake" => n["clarify"] >= 2 \/ (n["fallback"] >= 2 /\ n["unsure"] >= 2)

(* What a process may have on its desk. *)
Desks == [at : EvolutionSteps, ledger : Ledgers, todo : SUBSET Proposals, settings : [Fields -> BOOLEAN]]

(* The counts n justify the settings s. *)
SettingsBacked(s, n) ==
    /\ s \in [Fields -> BOOLEAN]
    /\ \A f \in Fields : s[f] => Enough(n, f)

(* Every change of the ledger l is of a proposal of its own, and the       *)
(* applied proposals are those with a change.                              *)
Single(l) ==
    /\ \A i, j \in DOMAIN l.changes : l.changes[i].proposal = l.changes[j].proposal => i = j
    /\ l.applied = {l.changes[i].proposal : i \in DOMAIN l.changes}

(* The counts n justify what the ledger l plans and could bring back.      *)
LedgerBacked(l, n) ==
    /\ l \in Ledgers
    /\ Single(l)
    /\ \A k \in Kinds : l.signals[k] <= n[k]
    /\ \A i \in DOMAIN l.proposals : Enough(n, l.proposals[i].field)
    /\ \A i \in DOMAIN l.changes : l.changes[i].before => Enough(n, l.changes[i].proposal.field)

(* The counts n justify the desk d, whose work is there to be done.        *)
DeskBacked(d, n) ==
    /\ d \in Desks
    /\ LedgerBacked(d.ledger, n)
    /\ SettingsBacked(d.settings, n)
    /\ d.todo \subseteq ToSet(d.ledger.proposals)
    /\ d.todo \cap d.ledger.applied = {}
    /\ d.at = "undo" => d.ledger.changes # <<>>
    /\ d.at = "write" => d.todo # {}

EvidenceInv ==
    /\ EvolutionTypeOK
    /\ LedgerBacked(ledger, emitted)
    /\ SettingsBacked(settings, emitted)
    /\ \A p \in Procs : DeskBacked(mine[p], emitted)

(* Signals are only added to the counts. *)
Grows(m, n) == \A k \in Kinds : m[k] <= n[k]

(* What is enough stays enough. *)
LEMMA EnoughStays ==
    ASSUME NEW m \in [Kinds -> Nat], NEW n \in [Kinds -> Nat], Grows(m, n), NEW f, Enough(m, f)
    PROVE  Enough(n, f)
<1>1. m["fallback"] <= n["fallback"] /\ m["unsure"] <= n["unsure"] /\ m["clarify"] <= n["clarify"]
  BY DEF Grows, Kinds
<1>2. /\ m["fallback"] \in Nat /\ m["unsure"] \in Nat /\ m["clarify"] \in Nat
      /\ n["fallback"] \in Nat /\ n["unsure"] \in Nat /\ n["clarify"] \in Nat
  BY DEF Kinds
<1> QED  BY <1>1, <1>2 DEF Enough

(* So does what justifies the settings, a ledger and a desk.               *)
LEMMA BackedStays ==
    ASSUME NEW m \in [Kinds -> Nat], NEW n \in [Kinds -> Nat], Grows(m, n)
    PROVE  /\ \A s : SettingsBacked(s, m) => SettingsBacked(s, n)
           /\ \A l : LedgerBacked(l, m) => LedgerBacked(l, n)
           /\ \A d : DeskBacked(d, m) => DeskBacked(d, n)
<1>0. \A f : Enough(m, f) => Enough(n, f)
  BY EnoughStays
<1>1. \A s : SettingsBacked(s, m) => SettingsBacked(s, n)
  BY <1>0 DEF SettingsBacked
<1>2. ASSUME NEW l, LedgerBacked(l, m) PROVE LedgerBacked(l, n)
  <2>1. l.signals \in [Kinds -> Nat]
    BY <1>2 DEF LedgerBacked, Ledgers
  <2>2. \A k \in Kinds : l.signals[k] <= n[k]
    <3> TAKE k \in Kinds
    <3>1. l.signals[k] <= m[k] /\ m[k] <= n[k]
      BY <1>2 DEF LedgerBacked, Grows
    <3>2. l.signals[k] \in Nat /\ m[k] \in Nat /\ n[k] \in Nat
      BY <2>1
    <3> QED  BY <3>1, <3>2
  <2> QED  BY <1>0, <1>2, <2>2 DEF LedgerBacked
<1>3. \A d : DeskBacked(d, m) => DeskBacked(d, n)
  BY <1>1, <1>2 DEF DeskBacked
<1> QED  BY <1>1, <1>2, <1>3

(* The proposals have one of the fields. *)
LEMMA ProposalField == \A x \in Proposals : x.field \in Fields
BY DEF Proposals, Fields

(* What is in a sequence of one, and of none. *)
LEMMA SmallSeqs ==
    /\ \A S : \A x \in S : <<x>> \in Seq(S)
    /\ \A S : <<>> \in Seq(S)
    /\ \A x : \A y \in ToSet(<<x>>) : y = x
    /\ ToSet(<<>>) = {}
<1>1. \A S : \A x \in S : <<x>> \in Seq(S)
  OBVIOUS
<1>2. \A S : <<>> \in Seq(S)
  OBVIOUS
<1>3. ASSUME NEW x, NEW y \in ToSet(<<x>>) PROVE y = x
  <2>1. PICK i \in DOMAIN <<x>> : y = <<x>>[i]
    BY <1>3 DEF ToSet
  <2>2. i = 1
    BY <2>1
  <2> QED  BY <2>1, <2>2
<1>4. ToSet(<<>>) = {}
  BY DEF ToSet
<1> QED  BY <1>1, <1>2, <1>3, <1>4

(* What is in a sequence that is put together was in one of the two.       *)
LEMMA SetOfConcat ==
    ASSUME NEW S, NEW s \in Seq(S), NEW t \in Seq(S)
    PROVE  /\ s \o t \in Seq(S)
           /\ \A y \in ToSet(s \o t) : y \in ToSet(s) \/ y \in ToSet(t)
<1>1. s \o t \in Seq(S)
  BY ConcatProperties
<1>2. ASSUME NEW y \in ToSet(s \o t) PROVE y \in ToSet(s) \/ y \in ToSet(t)
  <2>1. PICK i \in DOMAIN (s \o t) : y = (s \o t)[i]
    BY DEF ToSet
  <2>2. i \in 1..(Len(s) + Len(t)) /\ DOMAIN s = 1..Len(s) /\ DOMAIN t = 1..Len(t)
        /\ Len(s) \in Nat /\ Len(t) \in Nat
    BY <2>1, ConcatProperties, LenProperties
  <2>3. CASE i <= Len(s)
    <3>1. i \in DOMAIN s /\ y = s[i]
      BY <2>1, <2>2, <2>3, ConcatProperties
    <3> QED  BY <3>1 DEF ToSet
  <2>4. CASE i > Len(s)
    <3>1. i - Len(s) \in DOMAIN t /\ y = t[i - Len(s)]
      BY <2>1, <2>2, <2>4, ConcatProperties
    <3> QED  BY <3>1 DEF ToSet
  <2> QED  BY <2>2, <2>3, <2>4
<1> QED  BY <1>1, <1>2

(* What is offered has the evidence of the signals, when its condition     *)
(* gives it.                                                               *)
LEMMA OfferIsBacked ==
    ASSUME NEW n, NEW known, NEW due, NEW x \in Proposals, due => Enough(n, x.field)
    PROVE  /\ Offer(due, x, known) \in Seq(Proposals)
           /\ \A y \in ToSet(Offer(due, x, known)) : Enough(n, y.field)
<1> DEFINE a == Offer(due, x, known)
<1>1. CASE due /\ x \notin known
  <2>1. a = <<x>>
    BY <1>1 DEF Offer
  <2> HIDE DEF a
  <2>2. a \in Seq(Proposals) /\ \A y \in ToSet(a) : y = x
    BY <2>1, SmallSeqs
  <2> QED  BY <1>1, <2>2 DEF a
<1>2. CASE ~(due /\ x \notin known)
  <2>1. a = <<>>
    BY <1>2 DEF Offer
  <2> HIDE DEF a
  <2>2. a \in Seq(Proposals) /\ \A y \in ToSet(a) : Enough(n, y.field)
    BY <2>1, SmallSeqs
  <2> QED  BY <2>2 DEF a
<1> QED  BY <1>1, <1>2

(* So has everything that is proposed. *)
LEMMA ProposedIsBacked ==
    ASSUME NEW n \in [Kinds -> Nat], NEW known
    PROVE  /\ Proposed(n, known) \in Seq(Proposals)
           /\ \A y \in ToSet(Proposed(n, known)) : Enough(n, y.field)
<1> DEFINE x1 == [field |-> "router", from |-> {"fallback"}]
           x2 == [field |-> "preference", from |-> {"unsure"}]
           x3 == [field |-> "intake", from |-> {"clarify"}]
           x4 == [field |-> "intake", from |-> {"fallback", "unsure"}]
           a1 == Offer(n["fallback"] >= 3, x1, known)
           a2 == Offer(n["unsure"] >= 2, x2, known)
           a3 == Offer(n["clarify"] >= 2, x3, known)
           a4 == Offer(n["fallback"] >= 2 /\ n["unsure"] >= 2, x4, known)
           OK(a) == a \in Seq(Proposals) /\ \A y \in ToSet(a) : Enough(n, y.field)
<1>1. x1 \in Proposals /\ x2 \in Proposals /\ x3 \in Proposals /\ x4 \in Proposals
  BY DEF Proposals
<1>2. /\ n["fallback"] >= 3 => Enough(n, x1.field)
      /\ n["unsure"] >= 2 => Enough(n, x2.field)
      /\ n["clarify"] >= 2 => Enough(n, x3.field)
      /\ n["fallback"] >= 2 /\ n["unsure"] >= 2 => Enough(n, x4.field)
  BY DEF Enough
<1>3. Proposed(n, known) = ((a1 \o a2) \o a3) \o a4
  <2>1. Proposed(n, known) = a1 \o a2 \o a3 \o a4
    BY DEF Proposed
  <2> QED  BY <2>1
<1> HIDE DEF x1, x2, x3, x4
<1>4. OK(a1) /\ OK(a2) /\ OK(a3) /\ OK(a4)
  <2>1. OK(a1)
    BY <1>1, <1>2, OfferIsBacked
  <2>2. OK(a2)
    BY <1>1, <1>2, OfferIsBacked
  <2>3. OK(a3)
    BY <1>1, <1>2, OfferIsBacked
  <2>4. OK(a4)
    BY <1>1, <1>2, OfferIsBacked
  <2> QED  BY <2>1, <2>2, <2>3, <2>4
<1> HIDE DEF a1, a2, a3, a4
<1>5. ASSUME NEW a, NEW b, OK(a), OK(b) PROVE OK(a \o b)
  BY <1>5, SetOfConcat
<1>6. OK(a1 \o a2)
  BY <1>4, <1>5
<1>7. OK((a1 \o a2) \o a3)
  BY <1>4, <1>5, <1>6
<1>8. OK(((a1 \o a2) \o a3) \o a4)
  BY <1>4, <1>5, <1>7
<1> QED  BY <1>3, <1>8

(* A ledger with one more signal is justified by the counts with it.       *)
LEMMA WithSignalIsBacked ==
    ASSUME NEW k \in Kinds, NEW m \in [Kinds -> Nat], NEW n \in [Kinds -> Nat],
           n = [m EXCEPT ![k] = @ + 1], NEW l, LedgerBacked(l, m)
    PROVE  /\ LedgerBacked(WithSignal(l, k), n)
           /\ WithSignal(l, k).changes = l.changes
           /\ WithSignal(l, k).applied = l.applied
<1> DEFINE signals == [l.signals EXCEPT ![k] = @ + 1]
           added == Proposed(signals, ToSet(l.proposals))
           w == WithSignal(l, k)
<1>0. Grows(m, n)
  BY DEF Grows
<1>1. l \in Ledgers /\ l.signals \in [Kinds -> Nat] /\ l.proposals \in Seq(Proposals)
  BY DEF LedgerBacked, Ledgers
<1>2. signals \in [Kinds -> Nat] /\ \A j \in Kinds : signals[j] <= n[j]
  BY <1>0, <1>1 DEF LedgerBacked
<1>4. added \in Seq(Proposals) /\ \A y \in ToSet(added) : Enough(signals, y.field)
  BY <1>2, ProposedIsBacked
<1>5. w.signals = signals /\ w.proposals = l.proposals \o added
      /\ w.changes = l.changes /\ w.applied = l.applied
  BY <1>1 DEF WithSignal, Ledgers
<1>6. w \in Ledgers
  <2>1. l.proposals \o added \in Seq(Proposals)
    BY <1>1, <1>4, ConcatProperties
  <2>2. w = [l EXCEPT !.signals = signals, !.proposals = l.proposals \o added]
    BY <1>1 DEF WithSignal, Ledgers
  <2> HIDE DEF signals, added, w
  <2> QED  BY <1>1, <1>2, <2>1, <2>2 DEF Ledgers
<1> HIDE DEF signals, added, w
<1>7. Grows(signals, n)
  BY <1>2 DEF Grows
<1>8. LedgerBacked(l, n)
  BY <1>0, BackedStays
<1>9. \A y \in ToSet(w.proposals) : Enough(n, y.field)
  <2>1. \A y \in ToSet(l.proposals) : Enough(n, y.field)
    BY <1>8 DEF LedgerBacked, ToSet
  <2>2. \A y \in ToSet(added) : Enough(n, y.field)
    BY <1>0, <1>2, <1>4, <1>7, EnoughStays
  <2> QED  BY <1>1, <1>4, <1>5, <2>1, <2>2, SetOfConcat
<1>10. \A i \in DOMAIN w.proposals : Enough(n, w.proposals[i].field)
  BY <1>9 DEF ToSet
<1>11. Single(w)
  BY <1>5, <1>8 DEF LedgerBacked, Single
<1>12. LedgerBacked(w, n)
  BY <1>2, <1>5, <1>6, <1>8, <1>10, <1>11 DEF LedgerBacked
<1> QED  BY <1>5, <1>12 DEF w

(* Of the proposals to do, one comes first. *)
LEMMA FirstIsToDo ==
    ASSUME NEW l \in Ledgers, NEW todo, todo \subseteq ToSet(l.proposals), todo # {}
    PROVE  First(l, todo) \in todo
<1> DEFINE places == {i \in DOMAIN l.proposals : l.proposals[i] \in todo}
<1>1. DOMAIN l.proposals \subseteq Nat
  <2>1. l.proposals \in Seq(Proposals)
    BY DEF Ledgers
  <2> QED  BY <2>1, LenProperties
<1>2. places # {} /\ places \subseteq Nat
  BY <1>1 DEF ToSet
<1>3. PICK i \in places : \A j \in places : i <= j
  BY <1>2, LeastOfNat
<1>4. \E i_1 \in DOMAIN l.proposals :
         /\ l.proposals[i_1] \in todo
         /\ \A j \in DOMAIN l.proposals : l.proposals[j] \in todo => i_1 <= j
  BY <1>3
<1> QED  BY <1>4 DEF First

(* A step of process p on its desk keeps the evidence, when the new desk,  *)
(* ledger and settings have it.                                            *)
LEMMA DeskStep ==
    ASSUME EvidenceInv, NEW p \in Procs, NEW d, Put(p, d), DeskBacked(d, emitted'),
           emitted' \in [Kinds -> Nat], Grows(emitted, emitted'),
           LedgerBacked(ledger, emitted') => LedgerBacked(ledger', emitted'),
           SettingsBacked(settings, emitted') => SettingsBacked(settings', emitted'),
           undos' \in 0..MaxUndos, looks' \in 0..MaxLooks, disturbed' \in BOOLEAN
    PROVE  EvidenceInv'
<1>0. emitted \in [Kinds -> Nat] /\ emitted' \in [Kinds -> Nat]
  BY DEF EvidenceInv, EvolutionTypeOK
<1>1. LedgerBacked(ledger', emitted')
  BY <1>0, BackedStays DEF EvidenceInv
<1>2. SettingsBacked(settings', emitted')
  BY <1>0, BackedStays DEF EvidenceInv
<1>3. mine \in [Procs -> Desks]
  BY DEF EvidenceInv, EvolutionTypeOK, Desks
<1>4. d \in Desks
  BY DEF DeskBacked
<1>5. mine' = [mine EXCEPT ![p] = d]
  BY DEF Put
<1>6. mine' \in [Procs -> Desks]
  BY <1>3, <1>4, <1>5
<1>7. \A q \in Procs : DeskBacked(mine'[q], emitted')
  <2> TAKE q \in Procs
  <2>1. CASE q = p
    BY <1>3, <1>5, <2>1
  <2>2. CASE q # p
    <3>1. mine'[q] = mine[q] /\ DeskBacked(mine[q], emitted)
      BY <1>3, <1>5, <2>2 DEF EvidenceInv
    <3> QED  BY <1>0, <3>1, BackedStays
  <2> QED  BY <2>1, <2>2
<1>8. EvolutionTypeOK'
  BY <1>0, <1>1, <1>2, <1>6 DEF EvolutionTypeOK, LedgerBacked, SettingsBacked, Desks
<1> QED  BY <1>1, <1>2, <1>7, <1>8 DEF EvidenceInv

(* The empty desk, with any place that needs nothing, is justified.        *)
LEMMA EmptyDesk ==
    ASSUME NEW n \in [Kinds -> Nat]
    PROVE  /\ LedgerBacked(NoLedger, n) /\ SettingsBacked(Defaults, n)
           /\ DeskBacked(Idle, n)
<1>1. NoLedger \in Ledgers
  BY DEF NoLedger, Ledgers
<1>2. LedgerBacked(NoLedger, n)
  <2>1. /\ NoLedger.proposals = <<>> /\ NoLedger.changes = <<>> /\ NoLedger.applied = {}
        /\ NoLedger.signals = [k \in Kinds |-> 0]
    BY DEF NoLedger
  <2> QED  BY <1>1, <2>1 DEF LedgerBacked, Single
<1>3. SettingsBacked(Defaults, n)
  BY DEF SettingsBacked, Defaults
<1>4. Idle \in Desks
  BY <1>1, <1>3 DEF Idle, Desks, EvolutionSteps, SettingsBacked
<1>5. Idle.at = "idle" /\ Idle.ledger = NoLedger /\ Idle.settings = Defaults /\ Idle.todo = {}
  BY DEF Idle
<1> QED  BY <1>2, <1>3, <1>4, <1>5 DEF DeskBacked

(* A justified desk is one of such parts. *)
LEMMA DeskOf ==
    ASSUME NEW n, NEW d, d \in Desks, LedgerBacked(d.ledger, n), SettingsBacked(d.settings, n),
           d.todo \subseteq ToSet(d.ledger.proposals), d.todo \cap d.ledger.applied = {},
           d.at = "undo" => d.ledger.changes # <<>>, d.at = "write" => d.todo # {}
    PROVE  DeskBacked(d, n)
BY DEF DeskBacked

(* What is to be done next has its evidence. *)
LEMMA ToDoIsBacked ==
    ASSUME NEW d, NEW n, DeskBacked(d, n), d.todo # {}
    PROVE  LET x == First(d.ledger, d.todo) IN
           x \in d.todo /\ x \in Proposals /\ x.field \in Fields /\ Enough(n, x.field)
<1> DEFINE x == First(d.ledger, d.todo)
<1>1. x \in d.todo
  BY FirstIsToDo DEF DeskBacked, LedgerBacked
<1>2. x \in Proposals
  BY <1>1 DEF DeskBacked, Desks
<1>3. x \in ToSet(d.ledger.proposals)
  BY <1>1 DEF DeskBacked
<1>4. Enough(n, x.field)
  BY <1>3 DEF DeskBacked, LedgerBacked, ToSet
<1> QED  BY <1>1, <1>2, <1>4, ProposalField

(* The settings that a change writes are justified. *)
LEMMA WithIsBacked ==
    ASSUME NEW n, SettingsBacked(settings, n), NEW read, SettingsBacked(read, n),
           NEW f \in Fields, NEW v \in BOOLEAN, v => Enough(n, f)
    PROVE  SettingsBacked(Patched(read, f, v), n)
<1> DEFINE w == Patched(read, f, v)
<1>1. w = [g \in Fields |-> IF g = f THEN v
                            ELSE IF "preference" \in {f, g} THEN settings[g] ELSE read[g]]
  BY DEF Patched
<1> HIDE DEF w
<1>2. w \in [Fields -> BOOLEAN]
  BY <1>1 DEF SettingsBacked
<1>3. \A g \in Fields : w[g] => Enough(n, g)
  BY <1>1 DEF SettingsBacked
<1> QED  BY <1>2, <1>3 DEF SettingsBacked, w

(* Where nobody wrote meanwhile, only the field is changed. *)
LEMMA WithOwn ==
    ASSUME settings \in [Fields -> BOOLEAN], NEW f \in Fields, NEW v \in BOOLEAN
    PROVE  Patched(settings, f, v) = [settings EXCEPT ![f] = v]
BY DEF Patched

(* A ledger with a change of a proposal that had none. *)
LEMMA AppendIsSingle ==
    ASSUME NEW l \in Ledgers, Single(l), NEW c \in Changes, c.proposal \notin l.applied,
           NEW m, m.applied = l.applied \cup {c.proposal}, m.changes = Append(l.changes, c)
    PROVE  Single(m)
<1> DEFINE n == Len(l.changes)
           x == c.proposal
<1>1. l.changes \in Seq(Changes) /\ n \in Nat /\ DOMAIN l.changes = 1..n
  BY LenProperties DEF Ledgers
<1>2. /\ DOMAIN m.changes = 1..(n + 1)
      /\ \A i \in 1..n : m.changes[i] = l.changes[i]
      /\ m.changes[n + 1] = c
  BY <1>1, AppendProperties
<1> HIDE DEF n
<1>3. \A i \in 1..(n + 1) : i \in 1..n \/ i = n + 1
  BY <1>1
<1>4. 1..n \subseteq 1..(n + 1) /\ n + 1 \in 1..(n + 1)
  BY <1>1
<1>5. \A i, j \in DOMAIN m.changes : m.changes[i].proposal = m.changes[j].proposal => i = j
  <2> TAKE i, j \in DOMAIN m.changes
  <2> HAVE m.changes[i].proposal = m.changes[j].proposal
  <2>1. \A k \in 1..n : l.changes[k].proposal # x
    BY <1>1 DEF Single
  <2>2. CASE i \in 1..n /\ j \in 1..n
    BY <1>1, <1>2, <2>2 DEF Single
  <2>3. CASE i = n + 1 /\ j = n + 1
    BY <2>3
  <2>4. CASE i \in 1..n /\ j = n + 1
    BY <1>2, <2>1, <2>4
  <2>5. CASE i = n + 1 /\ j \in 1..n
    BY <1>2, <2>1, <2>5
  <2> QED  BY <1>2, <1>3, <2>2, <2>3, <2>4, <2>5
<1>6. m.applied = {m.changes[i].proposal : i \in DOMAIN m.changes}
  <2>1. l.applied = {l.changes[i].proposal : i \in 1..n}
    BY <1>1 DEF Single
  <2>2. {m.changes[i].proposal : i \in 1..(n + 1)} = {l.changes[i].proposal : i \in 1..n} \cup {x}
    BY <1>2, <1>3, <1>4
  <2> QED  BY <1>2, <2>1, <2>2
<1> QED  BY <1>5, <1>6 DEF Single

(* A ledger with one more change is justified. *)
LEMMA AppendIsBacked ==
    ASSUME NEW n, NEW l, LedgerBacked(l, n), NEW c \in Changes, c.before => Enough(n, c.proposal.field),
           c.proposal \in Proposals \ l.applied,
           NEW m, m = [l EXCEPT !.applied = l.applied \cup {c.proposal}, !.changes = Append(l.changes, c)]
    PROVE  LedgerBacked(m, n)
<1>1. l \in Ledgers /\ l.changes \in Seq(Changes)
  BY DEF LedgerBacked, Ledgers
<1>2. Append(l.changes, c) \in Seq(Changes)
  BY <1>1
<1>3. m \in Ledgers
  BY <1>1, <1>2 DEF Ledgers
<1>4. m.signals = l.signals /\ m.proposals = l.proposals /\ m.changes = Append(l.changes, c)
      /\ m.applied = l.applied \cup {c.proposal}
  BY <1>1 DEF Ledgers
<1>5. ASSUME NEW i \in DOMAIN m.changes, m.changes[i].before PROVE Enough(n, m.changes[i].proposal.field)
  <2>1. CASE i \in DOMAIN l.changes
    <3>1. m.changes[i] = l.changes[i]
      BY <1>1, <1>4, <2>1
    <3> QED  BY <1>5, <2>1, <3>1 DEF LedgerBacked
  <2>2. CASE i \notin DOMAIN l.changes
    <3>1. m.changes[i] = c
      BY <1>1, <1>4, <1>5, <2>2
    <3> QED  BY <1>5, <3>1
  <2> QED  BY <2>1, <2>2
<1>6. Single(m)
  BY <1>1, <1>4, AppendIsSingle DEF LedgerBacked
<1> QED  BY <1>3, <1>4, <1>5, <1>6 DEF LedgerBacked

(* The latest change of a ledger, and those before it. *)
LEMMA LatestChange ==
    ASSUME NEW l \in Ledgers, l.changes # <<>>
    PROVE  LET n == Len(l.changes) IN
           /\ n \in Nat /\ n > 0 /\ DOMAIN l.changes = 1..n
           /\ Last(l.changes) = l.changes[n] /\ l.changes[n] \in Changes
           /\ Front(l.changes) \in Seq(Changes)
           /\ DOMAIN Front(l.changes) = 1..(n - 1) /\ Len(Front(l.changes)) = n - 1
           /\ \A i \in 1..(n - 1) : Front(l.changes)[i] = l.changes[i]
<1> DEFINE n == Len(l.changes)
<1>1. l.changes \in Seq(Changes)
  BY DEF Ledgers
<1>2. n \in Nat /\ n > 0 /\ DOMAIN l.changes = 1..n
  BY <1>1, EmptySeq, LenProperties
<1>3. Last(l.changes) = l.changes[n] /\ l.changes[n] \in Changes
  BY <1>1, <1>2, ElementOfSeq DEF Last
<1>4. Front(l.changes) = SubSeq(l.changes, 1, n - 1)
  BY DEF Front
<1>5. /\ Front(l.changes) \in Seq(Changes) /\ Len(Front(l.changes)) = n - 1
      /\ \A i \in 1..(n - 1) : Front(l.changes)[i] = l.changes[i]
  BY <1>1, <1>2, <1>4
<1>6. DOMAIN Front(l.changes) = 1..(n - 1)
  BY <1>5, LenProperties
<1> QED  BY <1>2, <1>3, <1>5, <1>6

(* A ledger without its latest change, whose proposal is open again.       *)
LEMMA FrontIsSingle ==
    ASSUME NEW l \in Ledgers, Single(l), l.changes # <<>>
    PROVE  Single(WithoutLatest(l))
<1> DEFINE n == Len(l.changes)
           m == WithoutLatest(l)
           c == Last(l.changes)
<1>1. /\ n \in Nat /\ n > 0 /\ DOMAIN l.changes = 1..n
      /\ c = l.changes[n]
      /\ DOMAIN Front(l.changes) = 1..(n - 1)
      /\ \A i \in 1..(n - 1) : Front(l.changes)[i] = l.changes[i]
  BY LatestChange
<1>2. m.changes = Front(l.changes) /\ m.applied = l.applied \ {c.proposal}
  BY DEF WithoutLatest, Ledgers
<1> HIDE DEF n, m, c
<1>3. \A i \in 1..n : i \in 1..(n - 1) \/ i = n
  BY <1>1
<1>4. 1..(n - 1) \subseteq 1..n /\ n \in 1..n /\ n \notin 1..(n - 1)
  BY <1>1
<1>5. (\A i \in 1..(n - 1) : m.changes[i] = l.changes[i]) /\ DOMAIN m.changes = 1..(n - 1)
  BY <1>1, <1>2
<1>6. \A i, j \in DOMAIN m.changes : m.changes[i].proposal = m.changes[j].proposal => i = j
  BY <1>1, <1>4, <1>5 DEF Single
<1>7. m.applied = {m.changes[i].proposal : i \in DOMAIN m.changes}
  <2>1. l.applied = {l.changes[i].proposal : i \in 1..n}
    BY <1>1 DEF Single
  <2>2. \A i \in 1..(n - 1) : l.changes[i].proposal # c.proposal
    BY <1>1, <1>4 DEF Single
  <2>3. {l.changes[i].proposal : i \in 1..n} \ {c.proposal} = {l.changes[i].proposal : i \in 1..(n - 1)}
    BY <1>1, <1>3, <1>4, <2>2
  <2>4. {m.changes[i].proposal : i \in 1..(n - 1)} = {l.changes[i].proposal : i \in 1..(n - 1)}
    BY <1>5
  <2> QED  BY <1>2, <1>5, <2>1, <2>3, <2>4
<1> QED  BY <1>6, <1>7 DEF Single, m

(* A ledger without its latest change is justified. *)
LEMMA FrontIsBacked ==
    ASSUME NEW n, NEW l, LedgerBacked(l, n), l.changes # <<>>
    PROVE  LedgerBacked(WithoutLatest(l), n)
<1> DEFINE m == WithoutLatest(l)
<1>1. l \in Ledgers
  BY DEF LedgerBacked
<1>2. m = [l EXCEPT !.changes = Front(l.changes), !.applied = l.applied \ {Last(l.changes).proposal}]
  BY <1>1 DEF WithoutLatest, Ledgers
<1>3. Front(l.changes) \in Seq(Changes)
  BY <1>1, LatestChange
<1>4. m \in Ledgers /\ m.signals = l.signals /\ m.proposals = l.proposals /\ m.changes = Front(l.changes)
  <2> HIDE DEF m
  <2> QED  BY <1>1, <1>2, <1>3 DEF Ledgers
<1> HIDE DEF m
<1>5. \A i \in DOMAIN m.changes : i \in DOMAIN l.changes /\ m.changes[i] = l.changes[i]
  <2> DEFINE k == Len(l.changes)
  <2>1. k \in Nat /\ DOMAIN l.changes = 1..k /\ DOMAIN Front(l.changes) = 1..(k - 1)
        /\ \A i \in 1..(k - 1) : Front(l.changes)[i] = l.changes[i]
    BY <1>1, LatestChange
  <2> HIDE DEF k
  <2>2. 1..(k - 1) \subseteq 1..k
    BY <2>1
  <2> QED  BY <1>4, <2>1, <2>2
<1>6. Single(m)
  BY <1>1, FrontIsSingle DEF LedgerBacked, m
<1>7. LedgerBacked(m, n)
  BY <1>4, <1>5, <1>6 DEF LedgerBacked
<1> QED  BY <1>7 DEF m

(* Every step keeps the evidence. *)
LEMMA StepEvidence ==
    EvolutionAssumption /\ EvidenceInv /\ [EvolutionNext]_evolutionVars => EvidenceInv'
<1> SUFFICES ASSUME EvolutionAssumption, EvidenceInv, [EvolutionNext]_evolutionVars PROVE EvidenceInv'
  OBVIOUS
<1>0. /\ emitted \in [Kinds -> Nat] /\ mine \in [Procs -> Desks]
      /\ LedgerBacked(ledger, emitted) /\ SettingsBacked(settings, emitted)
      /\ \A p \in Procs : DeskBacked(mine[p], emitted)
      /\ undos \in 0..MaxUndos /\ looks \in 0..MaxLooks /\ disturbed \in BOOLEAN
      /\ MaxUndos \in Nat /\ MaxLooks \in Nat
  BY DEF EvidenceInv, EvolutionTypeOK, Desks, EvolutionAssumption
<1>same. Grows(emitted, emitted)
  BY <1>0 DEF Grows
<1>idle. Idle \in Desks /\ Idle.ledger = NoLedger /\ Idle.todo = {} /\ Idle.settings = Defaults
         /\ LedgerBacked(NoLedger, emitted) /\ SettingsBacked(Defaults, emitted) /\ DeskBacked(Idle, emitted)
  BY <1>0, EmptyDesk DEF DeskBacked, Idle
<1>flag. ASSUME NEW p \in Procs, TakesCopy(p) PROVE disturbed' \in BOOLEAN
  BY <1>0, <1>flag DEF TakesCopy
<1>look. ASSUME NEW d, d = [Idle EXCEPT !.at = "look"] PROVE DeskBacked(d, emitted)
  <2>1. d \in Desks /\ d.at = "look" /\ d.ledger = NoLedger /\ d.settings = Defaults /\ d.todo = {}
    BY <1>idle, <1>look DEF Idle, Desks, EvolutionSteps
  <2> QED  BY <1>idle, <2>1, DeskOf
<1>1. ASSUME NEW p \in Procs, NEW k \in Kinds, Signal(p, k) PROVE EvidenceInv'
  <2> DEFINE d == [Idle EXCEPT !.at = "record", !.ledger = WithSignal(ledger, k)]
  <2>1. emitted' = [emitted EXCEPT ![k] = @ + 1] /\ Put(p, d) /\ TakesCopy(p)
        /\ UNCHANGED <<ledger, settings, undos, looks>>
    BY <1>1 DEF Signal
  <2>2. emitted' \in [Kinds -> Nat] /\ Grows(emitted, emitted') /\ disturbed' \in BOOLEAN
    BY <1>0, <1>flag, <2>1 DEF Grows
  <2>3. LedgerBacked(WithSignal(ledger, k), emitted')
    BY <1>0, <2>1, <2>2, WithSignalIsBacked
  <2>4. WithSignal(ledger, k) \in Ledgers
    BY <2>3 DEF LedgerBacked
  <2>5. d \in Desks /\ d.at = "record" /\ d.ledger = WithSignal(ledger, k) /\ d.settings = Defaults
        /\ d.todo = {}
    BY <1>idle, <2>4 DEF Idle, Desks, EvolutionSteps
  <2>6. SettingsBacked(Defaults, emitted')
    BY <2>2, EmptyDesk
  <2> HIDE DEF d
  <2>7. DeskBacked(d, emitted')
    BY <2>3, <2>5, <2>6, DeskOf
  <2> QED  BY <1>0, <2>1, <2>2, <2>7, DeskStep
<1>2. ASSUME NEW p \in Procs, Look(p) PROVE EvidenceInv'
  <2>1. Put(p, [Idle EXCEPT !.at = "look"]) /\ looks' = looks + 1 /\ looks < MaxLooks
        /\ UNCHANGED <<ledger, settings, emitted, undos, disturbed>>
    BY <1>2 DEF Look
  <2>2. looks' \in 0..MaxLooks
    BY <1>0, <2>1
  <2>3. DeskBacked([Idle EXCEPT !.at = "look"], emitted)
    BY <1>look
  <2> QED  BY <1>0, <1>same, <2>1, <2>2, <2>3, DeskStep
<1>3. ASSUME NEW p \in Procs, SaveSignal(p) PROVE EvidenceInv'
  <2>1. Put(p, [Idle EXCEPT !.at = "look"]) /\ ledger' = mine[p].ledger
        /\ UNCHANGED <<settings, emitted, undos, looks, disturbed>>
    BY <1>3 DEF SaveSignal
  <2>2. DeskBacked([Idle EXCEPT !.at = "look"], emitted)
    BY <1>look
  <2>3. LedgerBacked(ledger', emitted)
    BY <1>0, <2>1 DEF DeskBacked
  <2> QED  BY <1>0, <1>same, <2>1, <2>2, <2>3, DeskStep
<1>4. ASSUME NEW p \in Procs, StartApply(p) PROVE EvidenceInv'
  <2> DEFINE open == ToSet(ledger.proposals) \ ledger.applied
             d == [Idle EXCEPT !.at = "patch", !.ledger = ledger, !.todo = open]
  <2>1. Put(p, d) /\ UNCHANGED <<ledger, settings, emitted, undos, looks>> /\ disturbed' \in BOOLEAN
    BY <1>4, <1>flag DEF StartApply
  <2>2. ledger \in Ledgers /\ open \subseteq Proposals
    <3>1. ledger \in Ledgers /\ ledger.proposals \in Seq(Proposals)
      BY <1>0 DEF LedgerBacked, Ledgers
    <3> QED  BY <3>1, ElementOfSeq, LenProperties DEF ToSet
  <2> HIDE DEF open
  <2>3. d \in Desks /\ d.at = "patch" /\ d.ledger = ledger /\ d.settings = Defaults /\ d.todo = open
    BY <1>idle, <2>2 DEF Idle, Desks, EvolutionSteps
  <2> HIDE DEF d
  <2>4. open \subseteq ToSet(ledger.proposals) /\ open \cap ledger.applied = {}
    BY DEF open
  <2>5. DeskBacked(d, emitted)
    BY <1>0, <1>idle, <2>3, <2>4, DeskOf
  <2> QED  BY <1>0, <1>same, <2>1, <2>5, DeskStep
<1>5. ASSUME NEW p \in Procs, ReadSettings(p) PROVE EvidenceInv'
  <2> DEFINE d == [mine[p] EXCEPT !.at = "write", !.settings = settings]
  <2>0. mine[p] \in Desks /\ DeskBacked(mine[p], emitted) /\ settings \in [Fields -> BOOLEAN]
    BY <1>0 DEF SettingsBacked
  <2>1. Put(p, d) /\ mine[p].todo # {} /\ UNCHANGED <<ledger, settings, emitted, undos, looks, disturbed>>
    BY <1>5 DEF ReadSettings
  <2>2. d \in Desks /\ d.at = "write" /\ d.ledger = mine[p].ledger /\ d.settings = settings
        /\ d.todo = mine[p].todo
    BY <2>0 DEF Desks, EvolutionSteps
  <2> HIDE DEF d
  <2>3. DeskBacked(d, emitted)
    BY <1>0, <2>0, <2>1, <2>2 DEF DeskBacked
  <2> QED  BY <1>0, <1>same, <2>1, <2>3, DeskStep
<1>6. ASSUME NEW p \in Procs, WriteSettings(p) PROVE EvidenceInv'
  <2> DEFINE x == First(mine[p].ledger, mine[p].todo)
             c == [proposal |-> x, before |-> mine[p].settings[x.field]]
             l == mine[p].ledger
             m == [l EXCEPT !.applied = l.applied \cup {x}, !.changes = Append(l.changes, c)]
             d == [mine[p] EXCEPT !.at = "patch", !.settings = Defaults, !.todo = @ \ {x},
                                  !.ledger.applied = @ \cup {x}, !.ledger.changes = Append(@, c)]
  <2>0. /\ mine[p] \in Desks /\ DeskBacked(mine[p], emitted) /\ l \in Ledgers /\ LedgerBacked(l, emitted)
        /\ Defaults \in [Fields -> BOOLEAN]
    BY <1>0, <1>idle DEF DeskBacked, LedgerBacked, SettingsBacked
  <2>1. mine[p].at = "write" /\ settings' = Patched(mine[p].settings, x.field, TRUE) /\ Put(p, d)
        /\ UNCHANGED <<ledger, emitted, undos, looks, disturbed>>
    BY <1>6 DEF WriteSettings
  <2>2. x \in mine[p].todo /\ x \in Proposals /\ x.field \in Fields /\ Enough(emitted, x.field)
    <3>1. mine[p].todo # {}
      BY <2>0, <2>1 DEF DeskBacked
    <3> QED  BY <2>0, <3>1, ToDoIsBacked
  <2> HIDE DEF x
  <2>3. SettingsBacked(mine[p].settings, emitted)
    BY <2>0 DEF DeskBacked
  <2>4. SettingsBacked(settings', emitted)
    BY <1>0, <2>1, <2>2, <2>3, WithIsBacked
  <2>5. c \in Changes /\ (c.before => Enough(emitted, c.proposal.field)) /\ c.proposal = x
    BY <2>2, <2>3 DEF Changes, SettingsBacked
  <2>6. x \in Proposals \ l.applied
    BY <2>0, <2>2 DEF DeskBacked
  <2>7. d.at = "patch" /\ d.todo = mine[p].todo \ {x} /\ d.settings = Defaults /\ d.ledger = m
    BY <2>0 DEF Desks, Ledgers
  <2> HIDE DEF c
  <2>9. LedgerBacked(m, emitted) /\ m.proposals = l.proposals /\ m.applied = l.applied \cup {x}
    <3>1. m.proposals = l.proposals /\ m.applied = l.applied \cup {x}
      BY <2>0 DEF Ledgers
    <3>2. m = [l EXCEPT !.applied = l.applied \cup {c.proposal}, !.changes = Append(l.changes, c)]
      BY <2>5
    <3> HIDE DEF l, m
    <3>3. LedgerBacked(m, emitted)
      BY <2>0, <2>5, <2>6, <3>2, AppendIsBacked
    <3> QED  BY <3>1, <3>3
  <2>10. m \in Ledgers
    BY <2>9 DEF LedgerBacked
  <2>11. d = [mine[p] EXCEPT !.at = "patch", !.settings = Defaults, !.todo = mine[p].todo \ {x}, !.ledger = m]
    BY <2>0 DEF Desks, Ledgers
  <2> HIDE DEF d, m
  <2>12. d \in Desks
    BY <2>0, <2>10, <2>11 DEF Desks, EvolutionSteps
  <2>13. d.todo \subseteq ToSet(d.ledger.proposals) /\ d.todo \cap d.ledger.applied = {}
    BY <2>0, <2>7, <2>9 DEF DeskBacked
  <2>14. DeskBacked(d, emitted)
    BY <1>idle, <2>7, <2>9, <2>12, <2>13, DeskOf
  <2> QED  BY <1>0, <1>same, <2>1, <2>4, <2>14, DeskStep
<1>7. ASSUME NEW p \in Procs, SaveApply(p) \/ SaveUndo(p) PROVE EvidenceInv'
  <2>1. Put(p, Idle) /\ ledger' = mine[p].ledger /\ UNCHANGED <<settings, emitted, undos, looks, disturbed>>
    BY <1>7 DEF SaveApply, SaveUndo
  <2>2. LedgerBacked(ledger', emitted)
    BY <1>0, <2>1 DEF DeskBacked
  <2> QED  BY <1>0, <1>same, <1>idle, <2>1, <2>2, DeskStep
<1>8. ASSUME NEW p \in Procs, StartUndo(p) PROVE EvidenceInv'
  <2> DEFINE d == [Idle EXCEPT !.at = "undo", !.ledger = ledger, !.settings = settings]
  <2>1. Put(p, d) /\ ledger.changes # <<>> /\ undos < MaxUndos /\ undos' = undos + 1
        /\ UNCHANGED <<ledger, settings, emitted, looks>> /\ disturbed' \in BOOLEAN
    BY <1>8, <1>flag DEF StartUndo
  <2>2. undos' \in 0..MaxUndos
    BY <1>0, <2>1
  <2>3. ledger \in Ledgers /\ settings \in [Fields -> BOOLEAN]
    BY <1>0 DEF LedgerBacked, SettingsBacked
  <2>4. d \in Desks /\ d.at = "undo" /\ d.ledger = ledger /\ d.settings = settings /\ d.todo = {}
    BY <1>idle, <2>3 DEF Idle, Desks, EvolutionSteps
  <2> HIDE DEF d
  <2>5. DeskBacked(d, emitted)
    BY <1>0, <2>1, <2>4, DeskOf
  <2> QED  BY <1>0, <1>same, <2>1, <2>2, <2>5, DeskStep
<1>9. ASSUME NEW p \in Procs, Undo(p) PROVE EvidenceInv'
  <2> DEFINE l == mine[p].ledger
             c == Last(l.changes)
             m == WithoutLatest(l)
             d == [mine[p] EXCEPT !.at = "unsaved", !.ledger = m]
  <2>0. mine[p] \in Desks /\ DeskBacked(mine[p], emitted) /\ l \in Ledgers /\ LedgerBacked(l, emitted)
    BY <1>0 DEF DeskBacked, LedgerBacked
  <2>1. /\ mine[p].at = "undo" /\ settings' = Patched(mine[p].settings, c.proposal.field, c.before)
        /\ Put(p, d) /\ UNCHANGED <<ledger, emitted, undos, looks, disturbed>>
    BY <1>9, <2>0 DEF Undo, Desks
  <2>2. l.changes # <<>>
    BY <2>0, <2>1 DEF DeskBacked
  <2>3. LedgerBacked(m, emitted) /\ m \in Ledgers /\ m.proposals = l.proposals /\ m.applied \subseteq l.applied
    <3>1. m.proposals = l.proposals /\ m.applied \subseteq l.applied
      BY <2>0 DEF WithoutLatest, Ledgers
    <3>2. LedgerBacked(m, emitted)
      BY <2>0, <2>2, FrontIsBacked
    <3> QED  BY <3>1, <3>2 DEF LedgerBacked
  <2>4. c \in Changes /\ (c.before => Enough(emitted, c.proposal.field))
    BY <2>0, <2>2, LatestChange DEF LedgerBacked
  <2> HIDE DEF l, c, m
  <2>5. c.before \in BOOLEAN /\ c.proposal.field \in Fields
    BY <2>4, ProposalField DEF Changes
  <2>6. SettingsBacked(mine[p].settings, emitted)
    BY <2>0 DEF DeskBacked
  <2>7. SettingsBacked(settings', emitted)
    BY <1>0, <2>1, <2>4, <2>5, <2>6, WithIsBacked
  <2>8. d \in Desks /\ d.at = "unsaved" /\ d.ledger = m /\ d.todo = mine[p].todo
        /\ d.settings = mine[p].settings
    BY <2>0, <2>3 DEF Desks, EvolutionSteps
  <2> HIDE DEF d
  <2>9. DeskBacked(d, emitted)
    BY <2>0, <2>3, <2>6, <2>8 DEF DeskBacked, l
  <2> QED  BY <1>0, <1>same, <2>1, <2>7, <2>9, DeskStep
<1>10. ASSUME NEW p \in Procs, Interrupt(p) PROVE EvidenceInv'
  <2>1. /\ Put(p, Idle) /\ disturbed' \in BOOLEAN
        /\ UNCHANGED <<ledger, settings, emitted, undos, looks>>
    BY <1>10 DEF Interrupt, Unsaved
  <2> QED  BY <1>0, <1>same, <1>idle, <2>1, DeskStep
<1>11. CASE UNCHANGED evolutionVars
  BY <1>11 DEF evolutionVars, EvidenceInv, EvolutionTypeOK
<1> QED  BY <1>1, <1>2, <1>3, <1>4, <1>5, <1>6, <1>7, <1>8, <1>9, <1>10, <1>11 DEF EvolutionNext

(* The evidence is there initially: nothing was learned. *)
LEMMA InitEvidence == EvolutionAssumption /\ EvolutionInit => EvidenceInv
<1> SUFFICES ASSUME EvolutionAssumption, EvolutionInit PROVE EvidenceInv
  OBVIOUS
<1>1. emitted \in [Kinds -> Nat] /\ emitted = Known
  BY DEF EvolutionInit, EvolutionAssumption
<1>2. LedgerBacked(NoLedger, emitted) /\ SettingsBacked(Defaults, emitted) /\ DeskBacked(Idle, emitted)
  BY <1>1, EmptyDesk
<1>ledger. LedgerBacked(ledger, emitted)
  <2> DEFINE l == [NoLedger EXCEPT !.signals = Known]
  <2>1. ledger = l
    BY DEF EvolutionInit
  <2>2. l \in Ledgers /\ l.signals = Known /\ l.proposals = <<>> /\ l.changes = <<>> /\ l.applied = {}
    <3>1. NoLedger \in Ledgers
      BY <1>2 DEF LedgerBacked
    <3>2. l.signals = Known /\ l.proposals = <<>> /\ l.changes = <<>> /\ l.applied = {}
      BY DEF NoLedger
    <3>3. Known \in [Kinds -> Nat]
      BY <1>1
    <3>4. l \in Ledgers
      BY <3>1, <3>3 DEF Ledgers
    <3> QED  BY <3>2, <3>4
  <2> HIDE DEF l
  <2>3. \A k \in Kinds : Known[k] <= Known[k]
    BY <1>1
  <2> QED  BY <1>1, <2>1, <2>2, <2>3 DEF LedgerBacked, Single
<1>3. mine \in [Procs -> Desks]
  BY <1>2 DEF EvolutionInit, DeskBacked
<1>4. \A p \in Procs : DeskBacked(mine[p], emitted)
  BY <1>2 DEF EvolutionInit
<1>5. EvolutionTypeOK
  <2>1. ledger \in Ledgers /\ settings \in [Fields -> BOOLEAN]
    BY <1>2, <1>ledger DEF EvolutionInit, LedgerBacked, SettingsBacked
  <2>2. undos \in 0..MaxUndos /\ looks \in 0..MaxLooks /\ disturbed \in BOOLEAN
    <3>1. undos = 0 /\ looks = 0 /\ disturbed = FALSE
      BY DEF EvolutionInit
    <3>2. MaxUndos \in Nat /\ MaxLooks \in Nat
      BY DEF EvolutionAssumption
    <3>3. 0 \in 0..MaxUndos /\ 0 \in 0..MaxLooks
      BY <3>2
    <3> QED  BY <3>1, <3>3
  <2> QED  BY <1>1, <1>3, <2>1, <2>2 DEF EvolutionTypeOK, Desks
<1> QED  BY <1>1, <1>2, <1>ledger, <1>4, <1>5 DEF EvolutionInit, EvidenceInv

-----------------------------------------------------------------------------
(* As long as no two processes hold the ledger and no crash comes between  *)
(* its writes, the ledger accounts for the settings.                       *)

(* The field of the i-th change. *)
FieldOf(l, i) == l.changes[i].proposal.field

(* Every change of the ledger l knows whether an earlier one had set its   *)
(* field, and together they give the settings s.                           *)
Accounts(l, s) ==
    /\ \A i \in DOMAIN l.changes :
         l.changes[i].before <=> \E j \in DOMAIN l.changes : j < i /\ FieldOf(l, j) = FieldOf(l, i)
    /\ \A f \in Fields : s[f] <=> \E i \in DOMAIN l.changes : FieldOf(l, i) = f

(* The settings s are accounted for by the ledger of the desk d, and by    *)
(* the ledger l where d has changed nothing yet.                           *)
DeskAccounts(d, l, s) ==
    /\ Accounts(d.ledger, s)
    /\ d.at \in {"record", "undo"} => Accounts(l, s)
    /\ d.at \in {"write", "undo"} => d.settings = s

AccountInv ==
    ~disturbed =>
      /\ \A p, q \in Procs : HasCopy(p) /\ HasCopy(q) => p = q
      /\ (\A p \in Procs : ~HasCopy(p)) => Accounts(ledger, settings)
      /\ \A p \in Procs : HasCopy(p) => DeskAccounts(mine[p], ledger, settings)

(* One more change is accounted for.                                       *)
LEMMA AppendAccounts ==
    ASSUME NEW l \in Ledgers, NEW s \in [Fields -> BOOLEAN], Accounts(l, s),
           NEW x \in Proposals, NEW c, c = [proposal |-> x, before |-> s[x.field]],
           NEW m, m.changes = Append(l.changes, c)
    PROVE  Accounts(m, [s EXCEPT ![x.field] = TRUE])
<1> DEFINE n == Len(l.changes)
           t == [s EXCEPT ![x.field] = TRUE]
<1>1. l.changes \in Seq(Changes) /\ n \in Nat /\ DOMAIN l.changes = 1..n
  BY LenProperties DEF Ledgers
<1>2. x.field \in Fields
  BY ProposalField
<1>3. c \in Changes /\ c.proposal = x /\ c.before = s[x.field]
  BY <1>2 DEF Changes
<1>4. /\ DOMAIN m.changes = 1..(n + 1)
      /\ \A i \in 1..n : m.changes[i] = l.changes[i]
      /\ m.changes[n + 1] = c
  BY <1>1, <1>3, AppendProperties
<1> HIDE DEF n
<1>5. \A i \in 1..(n + 1) : i \in 1..n \/ i = n + 1
  BY <1>1
<1>6. 1..n \subseteq 1..(n + 1) /\ n + 1 \in 1..(n + 1) /\ n + 1 \notin 1..n
  BY <1>1
<1>7. /\ \A i \in 1..n : FieldOf(m, i) = FieldOf(l, i)
      /\ FieldOf(m, n + 1) = x.field
  BY <1>3, <1>4 DEF FieldOf
<1>8. ASSUME NEW i \in DOMAIN m.changes
       PROVE  m.changes[i].before <=> \E j \in DOMAIN m.changes : j < i /\ FieldOf(m, j) = FieldOf(m, i)
  <2>1. CASE i \in 1..n
    <3>1. l.changes[i].before <=> \E j \in 1..n : j < i /\ FieldOf(l, j) = FieldOf(l, i)
      BY <1>1, <2>1 DEF Accounts
    <3>2. \A j \in 1..(n + 1) : j < i => j \in 1..n
      BY <1>1, <2>1
    <3> QED  BY <1>4, <1>6, <1>7, <2>1, <3>1, <3>2
  <2>2. CASE i = n + 1
    <3>1. s[x.field] <=> \E j \in 1..n : FieldOf(l, j) = x.field
      BY <1>1, <1>2 DEF Accounts
    <3>2. \A j \in 1..(n + 1) : j < n + 1 <=> j \in 1..n
      BY <1>1
    <3> QED  BY <1>3, <1>4, <1>6, <1>7, <2>2, <3>1, <3>2
  <2> QED  BY <1>4, <1>5, <2>1, <2>2
<1>9. ASSUME NEW f \in Fields
       PROVE  t[f] <=> \E i \in DOMAIN m.changes : FieldOf(m, i) = f
  <2>1. s[f] <=> \E i \in 1..n : FieldOf(l, i) = f
    BY <1>1 DEF Accounts
  <2>2. t[f] <=> s[f] \/ f = x.field
    BY <1>2
  <2> QED  BY <1>4, <1>5, <1>6, <1>7, <2>1, <2>2
<1> QED  BY <1>8, <1>9 DEF Accounts

(* Without the latest change, what it found is in place again.             *)
LEMMA FrontAccounts ==
    ASSUME NEW l \in Ledgers, NEW s \in [Fields -> BOOLEAN], Accounts(l, s), l.changes # <<>>,
           NEW c, c = Last(l.changes)
    PROVE  Accounts(WithoutLatest(l), [s EXCEPT ![c.proposal.field] = c.before])
<1> DEFINE n == Len(l.changes)
           m == WithoutLatest(l)
           f0 == c.proposal.field
           t == [s EXCEPT ![f0] = c.before]
<1>1. /\ n \in Nat /\ n > 0 /\ DOMAIN l.changes = 1..n
      /\ c = l.changes[n] /\ c \in Changes
      /\ DOMAIN Front(l.changes) = 1..(n - 1)
      /\ \A i \in 1..(n - 1) : Front(l.changes)[i] = l.changes[i]
  BY LatestChange
<1>2. m.changes = Front(l.changes)
  BY DEF WithoutLatest, Ledgers
<1>3. f0 \in Fields /\ c.before \in BOOLEAN
  BY <1>1, ProposalField DEF Changes
<1> HIDE DEF n, m
<1>4. \A i \in 1..n : i \in 1..(n - 1) \/ i = n
  BY <1>1
<1>5. 1..(n - 1) \subseteq 1..n /\ n \in 1..n /\ n \notin 1..(n - 1)
  BY <1>1
<1>6. /\ \A i \in 1..(n - 1) : m.changes[i] = l.changes[i] /\ FieldOf(m, i) = FieldOf(l, i)
      /\ DOMAIN m.changes = 1..(n - 1) /\ FieldOf(l, n) = f0
  BY <1>1, <1>2 DEF FieldOf
<1>7. ASSUME NEW i \in DOMAIN m.changes
      PROVE  m.changes[i].before <=> \E j \in DOMAIN m.changes : j < i /\ FieldOf(m, j) = FieldOf(m, i)
  <2>1. l.changes[i].before <=> \E j \in 1..n : j < i /\ FieldOf(l, j) = FieldOf(l, i)
    BY <1>1, <1>5, <1>6, <1>7 DEF Accounts
  <2>2. \A j \in 1..n : j < i => j \in 1..(n - 1)
    BY <1>1, <1>6, <1>7
  <2> QED  BY <1>5, <1>6, <1>7, <2>1, <2>2
<1>8. ASSUME NEW f \in Fields
       PROVE  t[f] <=> \E i \in DOMAIN m.changes : FieldOf(m, i) = f
  <2>1. s[f] <=> \E i \in 1..n : FieldOf(l, i) = f
    BY <1>1 DEF Accounts
  <2>2. c.before <=> \E j \in 1..n : j < n /\ FieldOf(l, j) = f0
    BY <1>1, <1>5, <1>6 DEF Accounts
  <2>3. \A j \in 1..n : j < n <=> j \in 1..(n - 1)
    BY <1>1
  <2>4. CASE f = f0
    <3>1. t[f] = c.before
      BY <1>3, <2>4
    <3> QED  BY <1>5, <1>6, <2>2, <2>3, <2>4, <3>1
  <2>5. CASE f # f0
    <3>1. t[f] = s[f]
      BY <1>3, <2>5
    <3> QED  BY <1>4, <1>5, <1>6, <2>1, <2>5, <3>1
  <2> QED  BY <2>4, <2>5
<1> QED  BY <1>7, <1>8 DEF Accounts, m

(* Nothing accounts for the defaults. *)
LEMMA NothingAccounts == \A l : l.changes = <<>> => Accounts(l, Defaults)
BY DEF Accounts, Defaults

(* A step of the only process that holds the ledger keeps the accounts,    *)
(* when its new desk does.                                                 *)
LEMMA WorkStep ==
    ASSUME mine \in [Procs -> Desks], NEW p \in Procs, NEW d, Put(p, d),
           \A q \in Procs \ {p} : ~HasCopy(q),
           d.at \in {"idle", "look"} => Accounts(ledger', settings'),
           d.at \notin {"idle", "look"} => DeskAccounts(d, ledger', settings')
    PROVE  AccountInv'
<1>1. mine'[p] = d /\ \A q \in Procs \ {p} : mine'[q] = mine[q]
  BY DEF Put
<1>2. \A q \in Procs \ {p} : ~HasCopy(q)'
  BY <1>1 DEF HasCopy
<1>3. HasCopy(p)' <=> d.at \notin {"idle", "look"}
  BY <1>1 DEF HasCopy
<1>4. \A q, r \in Procs : HasCopy(q)' /\ HasCopy(r)' => q = r
  BY <1>2
<1>5. (\A q \in Procs : ~HasCopy(q)') => Accounts(ledger', settings')
  BY <1>3
<1>6. \A q \in Procs : HasCopy(q)' => DeskAccounts(mine'[q], ledger', settings')
  BY <1>1, <1>2, <1>3
<1>7. (\A q \in Procs : ~HasCopy(q)') => Accounts(ledger, settings)'
  BY <1>5 DEF Accounts, FieldOf
<1>8. \A q \in Procs : HasCopy(q)' => DeskAccounts(mine[q], ledger, settings)'
  BY <1>6 DEF DeskAccounts, Accounts, FieldOf
<1> QED  BY <1>4, <1>7, <1>8 DEF AccountInv

(* So does a process that holds nothing, before and after.                 *)
LEMMA PassiveStep ==
    ASSUME mine \in [Procs -> Desks], AccountInv, NEW p \in Procs, NEW d, Put(p, d), ~HasCopy(p),
           d.at \in {"idle", "look"}, ledger' = ledger, settings' = settings, ~disturbed
    PROVE  AccountInv'
<1>1. mine'[p] = d /\ \A q \in Procs \ {p} : mine'[q] = mine[q]
  BY DEF Put
<1>2. ~HasCopy(p)' /\ \A q \in Procs \ {p} : HasCopy(q)' <=> HasCopy(q)
  BY <1>1 DEF HasCopy
<1>3. \A q, r \in Procs : HasCopy(q)' /\ HasCopy(r)' => q = r
  BY <1>2 DEF AccountInv
<1>4. (\A q \in Procs : ~HasCopy(q)') => Accounts(ledger, settings)
  BY <1>2 DEF AccountInv
<1>5. \A q \in Procs : HasCopy(q)' => DeskAccounts(mine'[q], ledger, settings)
  BY <1>1, <1>2 DEF AccountInv
<1>6. (\A q \in Procs : ~HasCopy(q)') => Accounts(ledger, settings)'
  BY <1>4 DEF Accounts, FieldOf
<1>7. \A q \in Procs : HasCopy(q)' => DeskAccounts(mine[q], ledger, settings)'
  BY <1>5 DEF DeskAccounts, Accounts, FieldOf
<1> QED  BY <1>3, <1>6, <1>7 DEF AccountInv

(* Every step keeps the accounts.                                          *)
LEMMA StepAccounts == EvidenceInv /\ AccountInv /\ [EvolutionNext]_evolutionVars => AccountInv'
<1> SUFFICES ASSUME EvidenceInv, AccountInv, [EvolutionNext]_evolutionVars PROVE AccountInv'
  OBVIOUS
<1>0. /\ mine \in [Procs -> Desks] /\ ledger \in Ledgers /\ settings \in [Fields -> BOOLEAN]
      /\ emitted \in [Kinds -> Nat] /\ \A p \in Procs : DeskBacked(mine[p], emitted)
  BY DEF EvidenceInv, EvolutionTypeOK, Desks
<1>idle. Idle \in Desks /\ Idle.at = "idle" /\ Idle.settings = Defaults
  BY <1>0, EmptyDesk DEF DeskBacked, Idle
<1>calm. CASE disturbed'
  BY <1>calm DEF AccountInv
<1>work. CASE ~disturbed'
  <2>take. ASSUME NEW p \in Procs, TakesCopy(p), ~HasCopy(p)
           PROVE  (\A q \in Procs \ {p} : ~HasCopy(q)) /\ Accounts(ledger, settings)
    <3>1. ~disturbed /\ \A q \in Procs : ~HasCopy(q)
      BY <1>work, <2>take DEF TakesCopy
    <3> QED  BY <3>1 DEF AccountInv
  <2>busy. ASSUME NEW p \in Procs, disturbed' = disturbed, HasCopy(p)
           PROVE  (\A q \in Procs \ {p} : ~HasCopy(q)) /\ DeskAccounts(mine[p], ledger, settings)
    <3>1. ~disturbed
      BY <1>work, <2>busy
    <3> QED  BY <2>busy, <3>1 DEF AccountInv
  <2>1. ASSUME NEW p \in Procs, NEW k \in Kinds, Signal(p, k) PROVE AccountInv'
    <3> DEFINE w == WithSignal(ledger, k)
               d == [Idle EXCEPT !.at = "record", !.ledger = w]
    <3>1. Put(p, d) /\ TakesCopy(p) /\ ~HasCopy(p) /\ ledger' = ledger /\ settings' = settings
      BY <2>1 DEF Signal, HasCopy
    <3>2. d.at = "record" /\ d.ledger = w
      BY <1>idle DEF Idle
    <3>3. w.changes = ledger.changes
      BY <1>0 DEF WithSignal, Ledgers
    <3> HIDE DEF w, d
    <3>4. Accounts(ledger, settings)
      BY <2>take, <3>1
    <3>5. Accounts(w, settings)
      BY <3>3, <3>4 DEF Accounts, FieldOf
    <3>6. DeskAccounts(d, ledger', settings')
      BY <3>1, <3>2, <3>4, <3>5 DEF DeskAccounts
    <3> QED  BY <1>0, <2>take, <3>1, <3>2, <3>6, WorkStep
  <2>2. ASSUME NEW p \in Procs, Look(p) PROVE AccountInv'
    <3> DEFINE d == [Idle EXCEPT !.at = "look"]
    <3>1. Put(p, d) /\ ~HasCopy(p) /\ ledger' = ledger /\ settings' = settings /\ ~disturbed
      BY <1>work, <2>2 DEF Look, HasCopy
    <3>2. d.at = "look"
      BY <1>idle DEF Idle
    <3> HIDE DEF d
    <3> QED  BY <1>0, <3>1, <3>2, PassiveStep
  <2>3. ASSUME NEW p \in Procs, SaveSignal(p) PROVE AccountInv'
    <3> DEFINE d == [Idle EXCEPT !.at = "look"]
    <3>1. /\ HasCopy(p) /\ Put(p, d) /\ ledger' = mine[p].ledger /\ settings' = settings
          /\ disturbed' = disturbed
      BY <2>3 DEF SaveSignal, HasCopy
    <3>2. d.at = "look"
      BY <1>idle DEF Idle
    <3> HIDE DEF d
    <3>3. (\A q \in Procs \ {p} : ~HasCopy(q)) /\ Accounts(mine[p].ledger, settings)
      BY <2>busy, <3>1 DEF DeskAccounts
    <3>4. Accounts(ledger', settings')
      BY <3>1, <3>3
    <3> QED  BY <1>0, <3>1, <3>2, <3>3, <3>4, WorkStep
  <2>4. ASSUME NEW p \in Procs, StartApply(p) PROVE AccountInv'
    <3> DEFINE open == ToSet(ledger.proposals) \ ledger.applied
               d == [Idle EXCEPT !.at = "patch", !.ledger = ledger, !.todo = open]
    <3>1. /\ Put(p, d) /\ TakesCopy(p) /\ ~HasCopy(p) /\ ledger' = ledger /\ settings' = settings
      BY <2>4 DEF StartApply, HasCopy
    <3>2. d.at = "patch" /\ d.ledger = ledger
      BY <1>idle DEF Idle
    <3> HIDE DEF open, d
    <3>3. (\A q \in Procs \ {p} : ~HasCopy(q)) /\ Accounts(ledger, settings)
      BY <2>take, <3>1
    <3>4. DeskAccounts(d, ledger', settings')
      BY <3>1, <3>2, <3>3 DEF DeskAccounts
    <3> QED  BY <1>0, <3>1, <3>2, <3>3, <3>4, WorkStep
  <2>5. ASSUME NEW p \in Procs, ReadSettings(p) PROVE AccountInv'
    <3> DEFINE d == [mine[p] EXCEPT !.at = "write", !.settings = settings]
    <3>1. /\ HasCopy(p) /\ Put(p, d) /\ ledger' = ledger /\ settings' = settings
          /\ disturbed' = disturbed
      BY <2>5 DEF ReadSettings, HasCopy
    <3>2. d.at = "write" /\ d.ledger = mine[p].ledger /\ d.settings = settings
      BY <1>0 DEF Desks
    <3> HIDE DEF d
    <3>3. (\A q \in Procs \ {p} : ~HasCopy(q)) /\ Accounts(mine[p].ledger, settings)
      BY <2>busy, <3>1 DEF DeskAccounts
    <3>4. DeskAccounts(d, ledger', settings')
      BY <3>1, <3>2, <3>3 DEF DeskAccounts
    <3> QED  BY <1>0, <3>1, <3>2, <3>3, <3>4, WorkStep
  <2>6. ASSUME NEW p \in Procs, WriteSettings(p) PROVE AccountInv'
    <3> DEFINE x == First(mine[p].ledger, mine[p].todo)
               c == [proposal |-> x, before |-> mine[p].settings[x.field]]
               l == mine[p].ledger
               d == [mine[p] EXCEPT !.at = "patch", !.settings = Defaults, !.todo = @ \ {x},
                                    !.ledger.applied = @ \cup {x}, !.ledger.changes = Append(@, c)]
    <3>0. mine[p] \in Desks /\ DeskBacked(mine[p], emitted) /\ l \in Ledgers
      BY <1>0 DEF DeskBacked, LedgerBacked
    <3>1. /\ mine[p].at = "write" /\ HasCopy(p) /\ settings' = Patched(mine[p].settings, x.field, TRUE)
          /\ Put(p, d) /\ ledger' = ledger /\ disturbed' = disturbed
      BY <2>6 DEF WriteSettings, HasCopy
    <3>2. d.at = "patch" /\ d.ledger.changes = Append(l.changes, c)
      BY <3>0 DEF Desks, Ledgers
    <3>3. x \in Proposals /\ x.field \in Fields
      <4>1. mine[p].todo # {}
        BY <3>0, <3>1 DEF DeskBacked
      <4> QED  BY <3>0, <4>1, ToDoIsBacked
    <3> HIDE DEF d, x
    <3>4. /\ \A q \in Procs \ {p} : ~HasCopy(q)
          /\ Accounts(l, settings) /\ mine[p].settings = settings
      BY <2>busy, <3>1 DEF DeskAccounts
    <3>5. c = [proposal |-> x, before |-> settings[x.field]]
      BY <3>4
    <3>6. settings' = [settings EXCEPT ![x.field] = TRUE]
      BY <1>0, <3>1, <3>3, <3>4, WithOwn
    <3> HIDE DEF c, l
    <3>7. Accounts(d.ledger, [settings EXCEPT ![x.field] = TRUE])
      BY <1>0, <3>0, <3>2, <3>3, <3>4, <3>5, AppendAccounts
    <3>8. DeskAccounts(d, ledger', settings')
      BY <3>2, <3>6, <3>7 DEF DeskAccounts
    <3> QED  BY <1>0, <3>1, <3>2, <3>4, <3>8, WorkStep
  <2>7. ASSUME NEW p \in Procs, SaveApply(p) \/ SaveUndo(p) PROVE AccountInv'
    <3>1. /\ HasCopy(p) /\ Put(p, Idle) /\ ledger' = mine[p].ledger
          /\ settings' = settings /\ disturbed' = disturbed
      BY <2>7 DEF SaveApply, SaveUndo, HasCopy
    <3>2. (\A q \in Procs \ {p} : ~HasCopy(q)) /\ Accounts(mine[p].ledger, settings)
      BY <2>busy, <3>1 DEF DeskAccounts
    <3>3. Accounts(ledger', settings')
      BY <3>1, <3>2
    <3> QED  BY <1>0, <1>idle, <3>1, <3>2, <3>3, WorkStep
  <2>8. ASSUME NEW p \in Procs, StartUndo(p) PROVE AccountInv'
    <3> DEFINE d == [Idle EXCEPT !.at = "undo", !.ledger = ledger, !.settings = settings]
    <3>1. Put(p, d) /\ TakesCopy(p) /\ ~HasCopy(p) /\ ledger' = ledger /\ settings' = settings
      BY <2>8 DEF StartUndo, HasCopy
    <3>2. d.at = "undo" /\ d.ledger = ledger /\ d.settings = settings
      BY <1>idle DEF Idle
    <3> HIDE DEF d
    <3>3. DeskAccounts(d, ledger', settings')
      BY <2>take, <3>1, <3>2 DEF DeskAccounts
    <3> QED  BY <1>0, <2>take, <3>1, <3>2, <3>3, WorkStep
  <2>9. ASSUME NEW p \in Procs, Undo(p) PROVE AccountInv'
    <3> DEFINE l == mine[p].ledger
               c == Last(l.changes)
               m == WithoutLatest(l)
               d == [mine[p] EXCEPT !.at = "unsaved", !.ledger = m]
    <3>0. mine[p] \in Desks /\ DeskBacked(mine[p], emitted) /\ l \in Ledgers
      BY <1>0 DEF DeskBacked, LedgerBacked
    <3>1. /\ mine[p].at = "undo" /\ HasCopy(p) /\ settings' = Patched(mine[p].settings, c.proposal.field, c.before)
          /\ Put(p, d) /\ ledger' = ledger /\ disturbed' = disturbed
      BY <2>9, <3>0 DEF Undo, HasCopy, Desks
    <3>2. d.at = "unsaved" /\ d.ledger = m
      BY <3>0 DEF Desks
    <3>3. l.changes # <<>>
      BY <3>0, <3>1 DEF DeskBacked
    <3> HIDE DEF d
    <3>4. /\ \A q \in Procs \ {p} : ~HasCopy(q)
          /\ Accounts(l, settings) /\ mine[p].settings = settings
      BY <2>busy, <3>1 DEF DeskAccounts
    <3>5. Accounts(m, [settings EXCEPT ![c.proposal.field] = c.before])
      <4> HIDE DEF l
      <4> QED  BY <1>0, <3>0, <3>3, <3>4, FrontAccounts
    <3>6. c.proposal.field \in Fields /\ c.before \in BOOLEAN
      <4>1. c \in Changes
        BY <3>0, <3>3, LatestChange
      <4> QED  BY <4>1, ProposalField DEF Changes
    <3> HIDE DEF l, c, m
    <3>7. settings' = [settings EXCEPT ![c.proposal.field] = c.before]
      BY <1>0, <3>1, <3>4, <3>6, WithOwn
    <3>8. DeskAccounts(d, ledger', settings')
      BY <3>2, <3>5, <3>7 DEF DeskAccounts
    <3> QED  BY <1>0, <3>1, <3>2, <3>4, <3>8, WorkStep
  <2>10. ASSUME NEW p \in Procs, Interrupt(p) PROVE AccountInv'
    <3>1. Put(p, Idle) /\ ledger' = ledger /\ settings' = settings /\ ~disturbed /\ ~Unsaved(p)
      BY <1>work, <2>10 DEF Interrupt
    <3>2. CASE ~HasCopy(p)
      BY <1>0, <1>idle, <3>1, <3>2, PassiveStep
    <3>3. CASE HasCopy(p)
      <4>1. (\A q \in Procs \ {p} : ~HasCopy(q)) /\ DeskAccounts(mine[p], ledger, settings)
        BY <3>1, <3>3 DEF AccountInv
      <4>2. mine[p].at \in {"record", "undo"} \/ mine[p].ledger = ledger
        BY <1>0, <3>1, <3>3 DEF HasCopy, Unsaved, Desks, EvolutionSteps
      <4>3. Accounts(ledger', settings')
        BY <3>1, <4>1, <4>2 DEF DeskAccounts
      <4> QED  BY <1>0, <1>idle, <3>1, <4>1, <4>3, WorkStep
    <3> QED  BY <3>2, <3>3
  <2>11. CASE UNCHANGED evolutionVars
    BY <2>11 DEF evolutionVars, AccountInv, HasCopy, DeskAccounts, Accounts, FieldOf
  <2> QED  BY <2>1, <2>2, <2>3, <2>4, <2>5, <2>6, <2>7, <2>8, <2>9, <2>10, <2>11 DEF EvolutionNext
<1> QED  BY <1>calm, <1>work

(* The ledger of the start accounts for the defaults. *)
LEMMA InitAccounts == EvolutionInit => AccountInv
<1> SUFFICES ASSUME EvolutionInit PROVE AccountInv
  OBVIOUS
<1>1. ledger.changes = <<>> /\ settings = Defaults /\ \A p \in Procs : ~HasCopy(p)
  BY DEF EvolutionInit, NoLedger, Idle, HasCopy
<1>2. Accounts(ledger, settings)
  BY <1>1, NothingAccounts
<1> QED  BY <1>1, <1>2 DEF AccountInv

-----------------------------------------------------------------------------
(* What follows from the accounts.                                         *)

(* A ledger has as many applied proposals as changes. *)
LEMMA AppliedAreCounted ==
    ASSUME NEW l \in Ledgers, Single(l)
    PROVE  Cardinality(l.applied) = Len(l.changes)
<1> DEFINE n == Len(l.changes)
           of == [i \in 1..n |-> l.changes[i].proposal]
<1>1. n \in Nat /\ DOMAIN l.changes = 1..n
  BY LenProperties DEF Ledgers
<1>2. l.applied = {l.changes[i].proposal : i \in 1..n}
  BY <1>1 DEF Single
<1>3. \A i, j \in 1..n : l.changes[i].proposal = l.changes[j].proposal => i = j
  BY <1>1 DEF Single
<1> HIDE DEF n
<1>4. of \in Bijection(1..n, l.applied)
  BY <1>2, <1>3 DEF Bijection, Injection, Surjection, IsInjective
<1>5. ExistsBijection(1..n, l.applied)
  BY <1>4 DEF ExistsBijection
<1>6. Cardinality(l.applied) = n
  BY <1>1, <1>5, FS_CountingElements
<1> QED  BY <1>6 DEF n

(* The first change of a field found the default in place.                 *)
LEMMA FirstFoundDefault ==
    ASSUME NEW l \in Ledgers, NEW s, Accounts(l, s), NEW f \in Fields,
           NEW of, of = {i \in DOMAIN l.changes : l.changes[i].proposal.field = f}
    PROVE  /\ of = {} => ~s[f]
           /\ of # {} => ~l.changes[CHOOSE i \in of : \A j \in of : i <= j].before
<1>1. l.changes \in Seq(Changes) /\ DOMAIN l.changes \subseteq Nat
  BY LenProperties DEF Ledgers
<1>2. of = {} => ~s[f]
  BY DEF Accounts, FieldOf
<1>3. ASSUME of # {} PROVE ~l.changes[CHOOSE i \in of : \A j \in of : i <= j].before
  <2>1. of \subseteq Nat
    BY <1>1
  <2>2. \E i \in of : \A j \in of : i <= j
    BY <1>3, <2>1, LeastOfNat
  <2>3. PICK i \in of : i = (CHOOSE i_1 \in of : \A j \in of : i_1 <= j) /\ \A j \in of : i <= j
    BY <2>2
  <2>4. ~(\E j \in DOMAIN l.changes : j < i /\ FieldOf(l, j) = FieldOf(l, i))
    <3> SUFFICES ASSUME NEW j \in DOMAIN l.changes, j < i, FieldOf(l, j) = FieldOf(l, i) PROVE FALSE
      OBVIOUS
    <3>1. j \in of
      BY DEF FieldOf
    <3>2. i <= j /\ i \in Nat /\ j \in Nat
      BY <2>1, <2>3, <3>1
    <3> QED  BY <3>2
  <2>5. i \in DOMAIN l.changes
    OBVIOUS
  <2>6. l.changes[i].before <=> \E j \in DOMAIN l.changes : j < i /\ FieldOf(l, j) = FieldOf(l, i)
    BY <2>5 DEF Accounts
  <2>7. ~l.changes[i].before
    BY <2>4, <2>6
  <2> QED  BY <2>3, <2>7
<1> QED  BY <1>2, <1>3

(* What the two invariants say of the settings and the ledger.             *)
LEMMA LearningFollows == EvidenceInv /\ AccountInv => LearningIsAccountable
<1> SUFFICES ASSUME EvidenceInv, AccountInv PROVE LearningIsAccountable
  OBVIOUS
<1>1. EvidenceBacksSettings
  <2>1. \A f \in Fields : settings[f] => Enough(emitted, f)
    BY DEF EvidenceInv, SettingsBacked
  <2>2. "router" \in Fields /\ "preference" \in Fields /\ "intake" \in Fields
    BY DEF Fields
  <2> QED  BY <2>1, <2>2 DEF EvidenceBacksSettings, Enough
<1>2. ledger \in Ledgers /\ Single(ledger)
  BY DEF EvidenceInv, LedgerBacked
<1>3. UndoRestores
  <2> SUFFICES ASSUME ~disturbed, \A p \in Procs : ~HasCopy(p), NEW f \in Fields
               PROVE  LET of == {i \in DOMAIN ledger.changes : ledger.changes[i].proposal.field = f}
                      IN  IF of = {} THEN settings[f] = FALSE
                          ELSE ~ledger.changes[CHOOSE i \in of : \A j \in of : i <= j].before
    BY DEF UndoRestores
  <2>0. Accounts(ledger, settings)
    BY DEF AccountInv
  <2> DEFINE of == {i \in DOMAIN ledger.changes : ledger.changes[i].proposal.field = f}
  <2>1. /\ of = {} => ~settings[f]
        /\ of # {} => ~ledger.changes[CHOOSE i \in of : \A j \in of : i <= j].before
    <3>1. of = {i \in DOMAIN ledger.changes : ledger.changes[i].proposal.field = f}
      OBVIOUS
    <3> HIDE DEF of
    <3> QED  BY <1>2, <2>0, <3>1, FirstFoundDefault
  <2>2. settings[f] \in BOOLEAN
    BY DEF EvidenceInv, SettingsBacked
  <2> QED  BY <2>1, <2>2
<1>4. AppliedOnce
  BY <1>2, AppliedAreCounted DEF AppliedOnce, Single
<1> QED  BY <1>1, <1>3, <1>4 DEF LearningIsAccountable

(* The ledger, the settings and what the processes have read keep their    *)
(* types.                                                                  *)
THEOREM EvolutionTypes ==
    ASSUME EvolutionAssumption PROVE EvolutionSpec => []EvolutionTypeOK
<1>1. EvidenceInv => EvolutionTypeOK
  BY DEF EvidenceInv
<1> QED  BY <1>1, InitEvidence, StepEvidence, PTL DEF EvolutionSpec

(* evolution.ts: whatever overlaps or crashes, nothing is ever learned     *)
(* without its evidence and no proposal is accounted for twice; and as     *)
(* long as no two processes hold the ledger at a time and no crash comes   *)
(* between the settings and the ledger, rolling back every change gives    *)
(* the defaults again (LearningIsAccountable).                             *)
THEOREM LearningIsAlwaysAccountable ==
    ASSUME EvolutionAssumption PROVE EvolutionSpec => []LearningIsAccountable
<1> QED
  BY InitEvidence, StepEvidence, InitAccounts, StepAccounts, LearningFollows, PTL DEF EvolutionSpec

-----------------------------------------------------------------------------
(* Skills.  Until two writers of the row overlap, only the latest          *)
(* installation is being verified, what its verification has read of the   *)
(* row is what the row says, and a verdict in the row is the one it found. *)
SkillRowsOK ==
    /\ installs > 0 => binding.status # "absent"
    /\ \A n \in Installations :
          /\ verifying[n].at # "none" => n <= installs
          /\ verifying[n].at = "writing" => verifying[n].copy # NoCopy

SkillsUncrossed ==
    /\ \A n \in Installations :
          /\ Unfinished(n) => n = installs
          /\ verifying[n].at = "writing" => verifying[n].copy = binding.status
    /\ binding.verdict # "unverified" =>
          /\ binding.by = installs /\ installs \in Installations
          /\ verifying[installs].at = "done" /\ verifying[installs].verdict = binding.verdict

SkillsInv == SkillsTypeOK /\ SkillRowsOK /\ (~crossed => SkillsUncrossed)

SkillRow == [status : {"absent", "enabled", "disabled"}, verdict : SkillVerdicts, by : 0..MaxInstalls]
Verification == [at : {"none", "queued", "running", "ended", "writing", "done", "cancelled", "lost"},
                 verdict : SkillVerdicts, active : BOOLEAN, copy : {NoCopy, "enabled", "disabled"}]

LEMMA TaskShapes ==
    /\ NoVerification \in Verification /\ NoVerification.at = "none"
    /\ QueuedTask \in Verification /\ QueuedTask.at = "queued"
BY DEF NoVerification, QueuedTask, Verification, SkillVerdicts

LEMMA SkillsStarts == ASSUME SkillsAssumption PROVE SkillsInit => SkillsInv
<1> SUFFICES ASSUME SkillsInit PROVE SkillsInv
  OBVIOUS
<1>1. NoVerification \in Verification /\ NoVerification.at = "none"
  BY TaskShapes
<1>2. SkillsTypeOK
  <2>1. binding \in SkillRow /\ verifying \in [Installations -> Verification]
    BY <1>1 DEF SkillsInit, SkillsAssumption, SkillRow, SkillVerdicts
  <2>2. installs \in 0..MaxInstalls /\ skillUpsets \in 0..MaxSkillUpsets /\ catalog \in [Processes -> BOOLEAN]
    BY DEF SkillsInit, SkillsAssumption
  <2>3. integration = "none" /\ crossed = FALSE
    BY DEF SkillsInit
  <2> QED BY <2>1, <2>2, <2>3 DEF SkillsTypeOK, SkillRow, Verification
<1> QED
  BY <1>1, <1>2 DEF SkillsInit, SkillsInv, SkillRowsOK, SkillsUncrossed, Unfinished, Halfway

LEMMA InstallKeepsSkills ==
    ASSUME SkillsAssumption, SkillsInv, NEW task \in {QueuedTask, NoVerification}, Install(task)
    PROVE  SkillsInv'
<1> USE DEF SkillsAssumption, SkillsInv, Install
<1>1. /\ task \in Verification /\ task.at \in {"queued", "none"}
      /\ Installed \in SkillRow /\ Installed.status = "enabled" /\ Installed.verdict = "unverified"
  BY TaskShapes DEF Installed, SkillRow, SkillVerdicts
<1>2. /\ installs \in 0..MaxInstalls /\ installs' = installs + 1 /\ installs' \in Installations
      /\ verifying \in [Installations -> Verification]
  BY DEF SkillsTypeOK, Installations, Verification
<1>3. SkillsTypeOK'
  <2>1. binding' \in SkillRow /\ verifying' \in [Installations -> Verification]
    BY <1>1, <1>2
  <2>2. crossed' \in BOOLEAN /\ installs' \in 0..MaxInstalls
    BY <1>2 DEF Installations, SkillsTypeOK
  <2> QED BY <2>1, <2>2 DEF SkillsTypeOK, SkillRow, Verification
<1>4. SkillRowsOK'
  BY <1>1, <1>2 DEF SkillRowsOK, Installations
<1>5. ASSUME ~crossed' PROVE SkillsUncrossed'
  <2>1. ~crossed /\ ~\E n \in Installations : Unfinished(n)
    BY <1>5, Zenon
  <2>2. \A n \in Installations \ {installs'} : verifying'[n] = verifying[n]
    BY <1>2
  <2> QED BY <1>1, <1>2, <2>1, <2>2 DEF SkillsUncrossed, Unfinished, Halfway
<1> QED BY <1>3, <1>4, <1>5

LEMMA RunKeepsSkills ==
    ASSUME SkillsAssumption, SkillsInv, NEW n \in Installations,
           Run(n) \/ CancelVerification(n) \/ CrashVerifier(n)
    PROVE  SkillsInv'
<1> USE DEF SkillsAssumption, SkillsInv
<1>0. /\ verifying \in [Installations -> Verification] /\ skillUpsets \in 0..MaxSkillUpsets
      /\ installs \in 0..MaxInstalls /\ Installations = 1..MaxInstalls
      /\ binding \in SkillRow
  BY DEF SkillsTypeOK, Verification, Installations, SkillRow
<1>1. CASE Write(n)
  <2>1. /\ verifying' = [verifying EXCEPT ![n] = [verifying[n] EXCEPT !.at = "done", !.copy = NoCopy]]
        /\ binding' = [status |-> verifying[n].copy, verdict |-> verifying[n].verdict, by |-> n]
        /\ verifying[n].at = "writing"
        /\ UNCHANGED <<installs, catalog, integration, crossed, skillUpsets>>
    BY <1>0, <1>1 DEF Write, Written
  <2>2. verifying[n].copy \in {"enabled", "disabled"}
    BY <1>0, <2>1 DEF SkillRowsOK, Verification
  <2>3. SkillsTypeOK'
    <3>1. [verifying[n] EXCEPT !.at = "done", !.copy = NoCopy] \in Verification
      BY <1>0 DEF Verification
    <3>2. binding' \in SkillRow
      BY <1>0, <2>1, <2>2 DEF Verification, SkillRow
    <3>3. verifying' \in [Installations -> Verification]
      BY <1>0, <2>1, <3>1
    <3> QED BY <2>1, <3>2, <3>3 DEF SkillsTypeOK, Verification, SkillRow
  <2>4. SkillRowsOK'
    BY <1>0, <2>1, <2>2 DEF SkillRowsOK
  <2>5. ~crossed' => SkillsUncrossed'
    BY <1>0, <2>1 DEF SkillsUncrossed, Unfinished, Halfway
  <2> QED BY <2>3, <2>4, <2>5
<1>2. CASE Read(n)
  <2>1. /\ verifying' = [verifying EXCEPT ![n] = [verifying[n] EXCEPT !.at = "writing", !.copy = binding.status]]
        /\ verifying[n].at = "ended"
        /\ UNCHANGED <<binding, installs, catalog, integration, crossed, skillUpsets>>
    BY <1>2 DEF Read, Move
  <2>2. binding.status \in {"enabled", "disabled"}
    BY <1>0, <2>1 DEF SkillRowsOK, SkillRow
  <2>3. SkillsTypeOK'
    BY <1>0, <2>1, <2>2 DEF SkillsTypeOK, Verification
  <2>4. SkillRowsOK'
    BY <1>0, <2>1, <2>2 DEF SkillRowsOK, NoCopy
  <2>5. ~crossed' => SkillsUncrossed'
    BY <1>0, <2>1 DEF SkillsUncrossed, Unfinished, Halfway
  <2> QED BY <2>3, <2>4, <2>5
<1>3. ASSUME NEW t \in Verification, Move(n, t), skillUpsets' \in 0..MaxSkillUpsets,
             verifying[n].at \in {"queued", "running", "ended", "writing"},
             t.at # "writing",
             t.at \in {"queued", "running", "ended"} => Unfinished(n)
      PROVE  SkillsInv'
  <2>1. /\ verifying' = [verifying EXCEPT ![n] = t]
        /\ UNCHANGED <<binding, installs, catalog, integration, crossed>>
    BY <1>3 DEF Move
  <2>2. SkillsTypeOK'
    BY <1>0, <1>3, <2>1 DEF SkillsTypeOK, Verification
  <2>3. SkillRowsOK'
    BY <1>0, <1>3, <2>1 DEF SkillRowsOK
  <2>4. ~crossed' => SkillsUncrossed'
    BY <1>0, <1>3, <2>1 DEF SkillsUncrossed, Unfinished, Halfway
  <2> QED BY <2>2, <2>3, <2>4
<1>4. CASE StartVerification(n)
  <2>1. [verifying[n] EXCEPT !.at = "running", !.active = binding.status = "enabled"] \in Verification
    BY <1>0 DEF Verification
  <2> QED BY <1>0, <1>3, <1>4, <2>1 DEF StartVerification, Unfinished, Verification
<1>5. CASE EndVerification(n)
  <2>1. PICK v \in {"verified", "failed"} : Move(n, [verifying[n] EXCEPT !.at = "ended", !.verdict = v])
    BY <1>5 DEF EndVerification
  <2>2. [verifying[n] EXCEPT !.at = "ended", !.verdict = v] \in Verification
    BY <1>0 DEF Verification, SkillVerdicts
  <2> QED BY <1>0, <1>3, <1>5, <2>1, <2>2 DEF EndVerification, Unfinished, Verification
<1>6. CASE CancelVerification(n)
  <2>1. [verifying[n] EXCEPT !.at = "cancelled"] \in Verification
    BY <1>0 DEF Verification
  <2> QED BY <1>0, <1>3, <1>6, <2>1 DEF CancelVerification, SkillUpset, Verification
<1>7. CASE CrashVerifier(n)
  <2>1. QueuedTask \in Verification /\ QueuedTask.at = "queued"
        /\ [verifying[n] EXCEPT !.at = "lost", !.copy = NoCopy] \in Verification
    BY <1>0 DEF Verification, QueuedTask, NoVerification, SkillVerdicts
  <2>2. skillUpsets' \in 0..MaxSkillUpsets
    BY <1>0, <1>7 DEF CrashVerifier, SkillUpset
  <2>3. CASE verifying[n].at = "running" /\ Move(n, QueuedTask)
    BY <1>3, <2>1, <2>2, <2>3 DEF Unfinished
  <2>4. CASE verifying[n].at \in {"ended", "writing"}
             /\ Move(n, [verifying[n] EXCEPT !.at = "lost", !.copy = NoCopy])
    BY <1>0, <1>3, <2>1, <2>2, <2>4 DEF Verification
  <2> QED BY <1>7, <2>3, <2>4 DEF CrashVerifier
<1> QED BY <1>1, <1>2, <1>4, <1>5, <1>6, <1>7 DEF Run

LEMMA SkillsKept ==
    ASSUME SkillsAssumption, SkillsInv, [SkillsNext]_skillVars PROVE SkillsInv'
<1> USE DEF SkillsAssumption
<1>1. CASE UNCHANGED skillVars
  BY <1>1 DEF skillVars, SkillsInv, SkillsTypeOK, SkillRowsOK, SkillsUncrossed, Unfinished, Halfway
<1>2. ASSUME NEW task \in {QueuedTask, NoVerification}, Install(task) PROVE SkillsInv'
  BY <1>2, InstallKeepsSkills
<1>3. CASE RequestIntegration \/ EndIntegration \/ \E p \in Processes : LoadCatalog(p)
  <2>1. /\ UNCHANGED <<binding, verifying, installs, crossed>>
        /\ skillUpsets' \in 0..MaxSkillUpsets
    BY <1>3 DEF RequestIntegration, EndIntegration, LoadCatalog, SkillUpset, SkillsInv, SkillsTypeOK
  <2>3. catalog' \in [Processes -> BOOLEAN]
    <3>1. catalog \in [Processes -> BOOLEAN]
      BY DEF SkillsInv, SkillsTypeOK
    <3>2. catalog' = catalog \/ \E p \in Processes : catalog' = [catalog EXCEPT ![p] = TRUE]
      BY <1>3 DEF RequestIntegration, EndIntegration, LoadCatalog
    <3> QED BY <3>1, <3>2
  <2>2. integration' \in {"none", "queued", "local_installable", "discover_only", "silent"}
    BY <1>3 DEF RequestIntegration, EndIntegration, LoadCatalog, SkillsInv, SkillsTypeOK
  <2> QED
    BY <2>1, <2>2, <2>3 DEF SkillsInv, SkillsTypeOK, SkillRowsOK, SkillsUncrossed, Unfinished, Halfway
<1>4. CASE DisableSkill
  <2>1. /\ SkillsTypeOK' /\ SkillRowsOK'
    BY <1>4 DEF DisableSkill, SkillUpset, SkillsInv, SkillsTypeOK, SkillRowsOK, SkillVerdicts
  <2>2. ~crossed' => SkillsUncrossed'
    BY <1>4 DEF DisableSkill, SkillsInv, SkillsUncrossed, Unfinished, Halfway
  <2> QED BY <2>1, <2>2 DEF SkillsInv
<1>5. ASSUME NEW n \in Installations, Run(n) \/ CancelVerification(n) \/ CrashVerifier(n) PROVE SkillsInv'
  BY <1>5, RunKeepsSkills
<1> QED
  BY <1>1, <1>2, <1>3, <1>4, <1>5
  DEF SkillsNext, InstallByRoute, InstallByAction, InstallByChat, RequestByRoute

(* The binding, its verifications and the catalog keep their types.        *)
THEOREM SkillsTypes == ASSUME SkillsAssumption PROVE SkillsSpec => []SkillsTypeOK
<1>1. SkillsInv => SkillsTypeOK
  BY DEF SkillsInv
<1> QED BY SkillsStarts, SkillsKept, <1>1, PTL DEF SkillsSpec

(* What a step may do to the row.                                          *)
StaysDisabled ==
    binding.status = "disabled" /\ binding'.status = "enabled" /\ ~crossed => installs' > installs
EntersItsVerdict ==
    \A n \in Installations : verifying[n].at # "done" /\ verifying'[n].at = "done" => binding'.by = n

LEMMA SkillSteps ==
    ASSUME SkillsAssumption, SkillsInv, [SkillsNext]_skillVars PROVE StaysDisabled /\ EntersItsVerdict
<1>0. /\ verifying \in [Installations -> Verification] /\ installs \in 0..MaxInstalls
      /\ Installations = 1..MaxInstalls /\ MaxInstalls \in Nat
  BY DEF SkillsInv, SkillsTypeOK, Verification, Installations, SkillsAssumption
<1>1. ASSUME NEW task \in {QueuedTask, NoVerification}, Install(task) PROVE StaysDisabled /\ EntersItsVerdict
  <2>1. installs' = installs + 1 /\ installs' \in Installations /\ task.at # "done"
        /\ verifying' = [verifying EXCEPT ![installs'] = task]
    BY <1>0, <1>1 DEF Install, QueuedTask, NoVerification
  <2> QED BY <1>0, <2>1 DEF StaysDisabled, EntersItsVerdict
<1>2. ASSUME NEW n \in Installations, Write(n) PROVE StaysDisabled /\ EntersItsVerdict
  BY <1>0, <1>2 DEF Write, Written, StaysDisabled, EntersItsVerdict, SkillsInv, SkillsUncrossed
<1>3. ASSUME NEW n \in Installations, NEW t, t.at # "done", Move(n, t)
      PROVE  StaysDisabled /\ EntersItsVerdict
  BY <1>0, <1>3 DEF Move, StaysDisabled, EntersItsVerdict
<1>4. ASSUME NEW n \in Installations,
             \/ StartVerification(n) \/ EndVerification(n) \/ Read(n)
             \/ CancelVerification(n) \/ CrashVerifier(n)
      PROVE  StaysDisabled /\ EntersItsVerdict
  <2>1. \E t : t.at # "done" /\ Move(n, t)
    BY <1>0, <1>4 DEF StartVerification, EndVerification, Read, CancelVerification, CrashVerifier,
                      Verification, QueuedTask, NoVerification
  <2> QED BY <1>3, <2>1
<1>5. CASE DisableSkill
  BY <1>5 DEF DisableSkill, StaysDisabled, EntersItsVerdict
<1>6. CASE UNCHANGED <<binding, verifying>>
  BY <1>6 DEF StaysDisabled, EntersItsVerdict
<1> QED
  BY <1>1, <1>2, <1>4, <1>5, <1>6
  DEF SkillsNext, skillVars, InstallByRoute, InstallByAction, InstallByChat, RequestByRoute, Run,
      RequestIntegration, EndIntegration, LoadCatalog

(* VerdictsAreTrue: a verdict in the row is that of the latest             *)
(* installation and of the verification that entered it, and a disabled    *)
(* skill comes back only by an installation, until two writers overlap.    *)
THEOREM VerdictsAreAlwaysTrue == ASSUME SkillsAssumption PROVE SkillsSpec => VerdictsAreTrue
<1>1. SkillsInv => VerdictIsCurrent
  BY DEF SkillsInv, SkillsUncrossed, VerdictIsCurrent
<1>2. SkillsInv /\ [SkillsNext]_skillVars => [StaysDisabled]_skillVars /\ [EntersItsVerdict]_skillVars
  BY SkillSteps
<1> QED
  BY SkillsStarts, SkillsKept, <1>1, <1>2, PTL
  DEF SkillsSpec, VerdictsAreTrue, DisabledStays, VerdictIsEntered, StaysDisabled, EntersItsVerdict

-----------------------------------------------------------------------------
(* Plugins.  Of a plugin that nothing is doubtful of, the table agrees     *)
(* with what the owner was told, the registry with the table while the     *)
(* process is there, and the instance with the registry.  A round has told *)
(* every plugin it has passed that has been enabled since it began.        *)
Follows(p) ==
    /\ promised[p].config = storedStates[p].config
    /\ promised[p].choice = "on" => storedStates[p].choice # "off"
    /\ promised[p].choice = "off" => storedStates[p].choice = "off"
    /\ loading # 0 => ownStates[p] = storedStates[p]
    /\ instance[p].status # "absent" =>
          /\ instance[p].status \in {"enabled", "disabled"} /\ instance[p].config = ownStates[p].config
          /\ (instance[p].status = "disabled") = (ownStates[p].choice = "off")

OwnersInv ==
    /\ \A p \in Plugins \ doubtful : Follows(p)
    /\ loading = 0 => \A p \in Plugins : instance[p].status = "absent"

EmissionInv ==
    /\ emission.at # 0 => Up
    /\ emission.at = 0 => emission.constant = {} /\ ~emission.running
    /\ emission.constant \subseteq Enabled
    /\ \A i \in 1..Len(LoadOrder) : i < emission.at /\ LoadOrder[i] \in emission.constant => LoadOrder[i] \in emission.told
    /\ emission.running => emission.at \in 1..Len(LoadOrder) /\ LoadOrder[emission.at] \in emission.told

PluginsInv == PluginsTypeOK /\ OwnersInv /\ EmissionInv

LEMMA PluginsStart == ASSUME PluginsAssumption PROVE PluginsInit => PluginsInv
<1> SUFFICES ASSUME PluginsInit PROVE PluginsInv
  OBVIOUS
<1> USE DEF PluginsAssumption, PluginsInit
<1>1. Unknown \in PluginStates
  BY DEF Unknown, PluginStates
<1>2. PluginsTypeOK
  BY <1>1 DEF PluginsTypeOK, Absent, NoEmission
<1>3. OwnersInv
  BY DEF OwnersInv, Follows, Unknown, Absent
<1>4. EmissionInv
  BY DEF EmissionInv, NoEmission
<1> QED BY <1>2, <1>3, <1>4 DEF PluginsInv

(* What is stored of a plugin, and told of it.                             *)
LEMMA StoredFits ==
    ASSUME PluginsTypeOK, NEW p \in Plugins, NEW s \in PluginStates, StoreAndAnswer(p, s)
    PROVE  /\ storedStates' \in [Plugins -> PluginStates] /\ promised' \in [Plugins -> PluginStates]
           /\ ownStates' = [ownStates EXCEPT ![p] = s] => ownStates' \in [Plugins -> PluginStates]
BY DEF PluginsTypeOK, StoreAndAnswer

LEMMA PluginsTypesKept ==
    ASSUME PluginsAssumption, PluginsInv, [PluginsNext]_pluginVars PROVE PluginsTypeOK'
<1> USE DEF PluginsAssumption, PluginsTypeOK, PluginsInv
<1>0. /\ Len(LoadOrder) \in Nat /\ Unknown \in PluginStates
      /\ Absent \in [status : {"absent", "enabled", "disabled", "error"}, skills : 0..1, config : PluginConfigs]
      /\ NoEmission \in [at : 0..Len(LoadOrder) + 1, running : BOOLEAN, told : SUBSET Plugins, constant : SUBSET Plugins]
  BY DEF Unknown, Absent, NoEmission, PluginStates
<1>1. CASE UNCHANGED pluginVars
  BY <1>1 DEF pluginVars
<1>2. CASE StartProcess
  BY <1>0, <1>2 DEF StartProcess
<1>3. ASSUME NEW p \in Plugins, Load(p) PROVE PluginsTypeOK'
  <2>1. ownStates[p].config \in PluginConfigs
    BY DEF PluginStates
  <2>2. ASSUME NEW s \in {"disabled", "enabled", "error"}, NEW k \in 0..1
        PROVE  Registered(s, k, p) \in
                 [status : {"absent", "enabled", "disabled", "error"}, skills : 0..1, config : PluginConfigs]
    BY <2>1 DEF Registered
  <2>3. instance' \in [Plugins -> [status : {"absent", "enabled", "disabled", "error"}, skills : 0..1,
                                 config : PluginConfigs]]
    <3>1. PICK s \in {"disabled", "enabled", "error"}, k \in 0..1 :
             instance' = [instance EXCEPT ![p] = Registered(s, k, p)]
      BY <1>3 DEF Load
    <3>2. Registered(s, k, p) \in
            [status : {"absent", "enabled", "disabled", "error"}, skills : 0..1, config : PluginConfigs]
      BY <2>2
    <3> QED BY <3>1, <3>2
  <2>4. /\ loading' \in 0..Len(LoadOrder) + 1 /\ late' \subseteq Async /\ doubtful' \subseteq Plugins
        /\ mischief' \in 0..MaxMischief
    BY <1>0, <1>3 DEF Load, Starting, Mischief
  <2> QED BY <1>3, <2>3, <2>4 DEF Load
<1>4. ASSUME NEW p \in Plugins, Skip(p) PROVE PluginsTypeOK'
  BY <1>0, <1>4 DEF Skip, Starting, Mischief
<1>5. ASSUME NEW p \in Plugins, RegisteredLate(p) PROVE PluginsTypeOK'
  <2>0. /\ instance[p] \in [status : {"absent", "enabled", "disabled", "error"}, skills : 0..1, config : PluginConfigs]
        /\ 1 \in 0..1
    OBVIOUS
  <2>1. [instance[p] EXCEPT !.skills = 1] \in
          [status : {"absent", "enabled", "disabled", "error"}, skills : 0..1, config : PluginConfigs]
    BY ONLY <2>0
  <2> QED BY <1>0, <1>5, <2>1 DEF RegisteredLate
<1>6. ASSUME NEW p \in Plugins, EnablePlugin(p) PROVE PluginsTypeOK'
  <2>1. [choice |-> "on", config |-> instance[p].config] \in PluginStates
    BY DEF PluginStates
  <2>2. /\ promised' \in [Plugins -> PluginStates] /\ ownStates' \in [Plugins -> PluginStates]
        /\ storedStates' \in [Plugins -> PluginStates]
    <3> DEFINE on == [choice |-> "on", config |-> instance[p].config]
    <3>1. CASE promised' = [promised EXCEPT ![p] = on] /\ UNCHANGED <<ownStates, storedStates>>
      BY <1>0, <2>1, <3>1
    <3>2. CASE ownStates' = [ownStates EXCEPT ![p] = on] /\ StoreAndAnswer(p, on)
      <4> HIDE DEF on
      <4> QED BY <1>0, <2>1, <3>2, StoredFits DEF on
    <3> QED BY <1>6, <3>1, <3>2 DEF EnablePlugin
  <2>3. orders' \in 0..MaxOrders /\ mischief' \in 0..MaxMischief /\ doubtful' \subseteq Plugins
    BY <1>6 DEF EnablePlugin, StoreAndAnswer, Requested, SettledFor, Mischief
  <2> QED BY <1>6, <2>2, <2>3 DEF EnablePlugin
<1>7. ASSUME NEW p \in Plugins, DisablePlugin(p) PROVE PluginsTypeOK'
  <2>1. [choice |-> "off", config |-> instance[p].config] \in PluginStates
    BY DEF PluginStates
  <2>2. /\ promised' \in [Plugins -> PluginStates] /\ ownStates' \in [Plugins -> PluginStates]
        /\ storedStates' \in [Plugins -> PluginStates]
    <3>1. StoreAndAnswer(p, [choice |-> "off", config |-> instance[p].config])
          /\ ownStates' = [ownStates EXCEPT ![p] = [choice |-> "off", config |-> instance[p].config]]
      BY <1>7 DEF DisablePlugin
    <3> QED BY <1>0, <2>1, <3>1, StoredFits
  <2>3. orders' \in 0..MaxOrders /\ mischief' \in 0..MaxMischief /\ doubtful' \subseteq Plugins
    BY <1>7 DEF DisablePlugin, StoreAndAnswer, Requested, SettledFor, Mischief
  <2> QED BY <1>0, <1>7, <2>2, <2>3 DEF DisablePlugin
<1>8. ASSUME NEW p \in Plugins, NEW c \in PluginConfigs, Configure(p, c) PROVE PluginsTypeOK'
  <2>1. Configured(p, c) \in PluginStates
    BY DEF PluginStates, Configured
  <2>a. [promised[p] EXCEPT !.config = c] \in PluginStates
    BY DEF PluginStates
  <2>b. [instance[p] EXCEPT !.config = c] \in
          [status : {"absent", "enabled", "disabled", "error"}, skills : 0..1, config : PluginConfigs]
    OBVIOUS
  <2>2. ownStates' \in [Plugins -> PluginStates] /\ storedStates' \in [Plugins -> PluginStates]
    BY <1>8, <2>1 DEF Configure
  <2>4. promised' \in [Plugins -> PluginStates]
    BY <1>8, <2>a DEF Configure
  <2>5. instance' \in [Plugins -> [status : {"absent", "enabled", "disabled", "error"}, skills : 0..1,
                                  config : PluginConfigs]]
    BY <1>8, <2>b DEF Configure
  <2>3. orders' \in 0..MaxOrders /\ mischief' \in 0..MaxMischief /\ doubtful' \subseteq Plugins
    BY <1>8 DEF Configure, Requested, Mischief
  <2> QED BY <1>8, <2>2, <2>3, <2>4, <2>5 DEF Configure
<1>9. CASE DecideApproval
  <2>1. emission' = [at |-> 1, running |-> FALSE, told |-> {}, constant |-> Enabled]
        /\ Enabled \subseteq Plugins
    BY <1>9 DEF DecideApproval, NoEmission, Enabled
  <2>2. emission' \in [at : 0..Len(LoadOrder) + 1, running : BOOLEAN, told : SUBSET Plugins, constant : SUBSET Plugins]
    BY <1>0, <2>1
  <2> QED BY <1>0, <1>9, <2>2 DEF DecideApproval
<1>10. ASSUME NEW p \in Plugins, Hook(p) PROVE PluginsTypeOK'
  <2> DEFINE Rounds ==
               [at : 0..Len(LoadOrder) + 1, running : BOOLEAN, told : SUBSET Plugins, constant : SUBSET Plugins]
  <2>1. emission' \in Rounds
    <3>1. CASE emission' = [emission EXCEPT !.running = TRUE, !.told = @ \cup {p}]
      <4>1. emission \in Rounds /\ emission.told \cup {p} \in SUBSET Plugins
        OBVIOUS
      <4> QED BY ONLY <3>1, <4>1
    <3>2. CASE emission' = [emission EXCEPT !.at = @ + 1] /\ emission.at \in 1..Len(LoadOrder)
      <4>1. emission \in Rounds /\ emission.at + 1 \in 0..Len(LoadOrder) + 1
        BY <1>0, <3>2
      <4> QED BY ONLY <3>2, <4>1
    <3> QED BY <1>10, <3>1, <3>2 DEF Hook
  <2> QED BY <1>10, <2>1 DEF Hook
<1>11. CASE HookEnds
  <2>1. emission.at \in 1..Len(LoadOrder)
    BY <1>11 DEF HookEnds, EmissionInv
  <2>2. emission' \in [at : 0..Len(LoadOrder) + 1, running : BOOLEAN, told : SUBSET Plugins, constant : SUBSET Plugins]
    <3>1. emission' = [emission EXCEPT !.running = FALSE, !.at = emission.at + 1]
      BY <1>11 DEF HookEnds, NextPlugin
    <3>2. /\ emission.at + 1 \in 0..Len(LoadOrder) + 1
          /\ emission \in [at : 0..Len(LoadOrder) + 1, running : BOOLEAN, told : SUBSET Plugins,
                           constant : SUBSET Plugins]
      BY <1>0, <2>1
    <3> QED BY ONLY <3>1, <3>2
  <2> QED BY <1>11, <2>2 DEF HookEnds
<1>12. CASE DecisionGoesOn
  BY <1>0, <1>12 DEF DecisionGoesOn
<1>13. CASE CrashProcess
  BY <1>0, <1>13 DEF CrashProcess, Mischief
<1> QED
  BY <1>1, <1>2, <1>3, <1>4, <1>5, <1>6, <1>7, <1>8, <1>9, <1>10, <1>11, <1>12, <1>13
  DEF PluginsNext, Process, Emission

LEMMA OwnersInvKept ==
    ASSUME PluginsAssumption, PluginsInv, [PluginsNext]_pluginVars PROVE OwnersInv'
<1> USE DEF PluginsAssumption, PluginsTypeOK, PluginsInv, OwnersInv, Follows
<1>0. Len(LoadOrder) \in Nat
  OBVIOUS
<1>1. CASE UNCHANGED <<storedStates, instance, ownStates, loading, promised, doubtful>>
  BY <1>1
<1>2. CASE StartProcess
  BY <1>2 DEF StartProcess
<1>3. ASSUME NEW p \in Plugins, Load(p) PROVE OwnersInv'
  <2>1. loading # 0 /\ loading' # 0 /\ UNCHANGED <<storedStates, ownStates, promised>>
    BY <1>0, <1>3 DEF Load, Starting
  <2>2. ASSUME NEW q \in Plugins \ doubtful', q # p PROVE Follows(q)'
    BY <1>3, <2>1, <2>2 DEF Load
  <2>3. p \notin doubtful' => Follows(p)'
    <3>1. CASE ~Wanted(p) /\ instance' = [instance EXCEPT ![p] = Registered("disabled", 0, p)] /\ doubtful' = doubtful
      BY <2>1, <3>1 DEF Wanted, Registered
    <3>2. CASE Wanted(p) /\ instance' = [instance EXCEPT ![p] = Registered("enabled", 1, p)] /\ doubtful' = doubtful
      BY <2>1, <3>2 DEF Wanted, Registered
    <3>3. CASE p \in doubtful'
      BY <3>3
    <3> QED BY <1>3, <3>1, <3>2, <3>3 DEF Load
  <2> QED BY <2>1, <2>2, <2>3
<1>4. ASSUME NEW p \in Plugins, Skip(p) PROVE OwnersInv'
  BY <1>0, <1>4 DEF Skip, Starting
<1>5. ASSUME NEW p \in Plugins, RegisteredLate(p) PROVE OwnersInv'
  <2>1. \A q \in Plugins : instance'[q].status = instance[q].status /\ instance'[q].config = instance[q].config
    BY <1>5 DEF RegisteredLate
  <2> QED BY <1>5, <2>1 DEF RegisteredLate
<1>6. ASSUME NEW p \in Plugins, EnablePlugin(p) PROVE OwnersInv'
  <2>1. /\ loading' = loading /\ loading # 0 /\ instance[p].status # "absent"
        /\ instance'[p].status = "enabled" /\ instance'[p].config = instance[p].config
        /\ \A q \in Plugins : q # p => instance'[q] = instance[q]
    BY <1>0, <1>6 DEF EnablePlugin, Requested, Up
  <2>2. ASSUME NEW q \in Plugins \ doubtful', q # p PROVE Follows(q)'
    BY <1>6, <2>1, <2>2 DEF EnablePlugin, StoreAndAnswer, SettledFor
  <2>3. p \notin doubtful' => Follows(p)'
    <3> DEFINE state == [choice |-> "on", config |-> instance[p].config]
    <3>1. CASE /\ instance[p].status = "enabled" /\ promised' = [promised EXCEPT ![p] = state]
               /\ UNCHANGED <<ownStates, storedStates, doubtful>>
      BY <2>1, <3>1
    <3>2. CASE /\ ownStates' = [ownStates EXCEPT ![p] = state] /\ storedStates' = [storedStates EXCEPT ![p] = state]
               /\ promised' = [promised EXCEPT ![p] = state]
      BY <2>1, <3>2
    <3>3. CASE Mischief("busy") /\ doubtful' = SettledFor(p)
      BY <3>3 DEF Mischief, SettledFor
    <3> QED BY <1>6, <3>1, <3>2, <3>3 DEF EnablePlugin, StoreAndAnswer
  <2> QED BY <2>1, <2>2, <2>3
<1>7. ASSUME NEW p \in Plugins, DisablePlugin(p) PROVE OwnersInv'
  <2>1. /\ loading' = loading /\ loading # 0 /\ instance[p].status # "absent"
        /\ instance'[p].status = "disabled" /\ instance'[p].config = instance[p].config
        /\ \A q \in Plugins : q # p => instance'[q] = instance[q]
    BY <1>0, <1>7 DEF DisablePlugin, Requested, Up
  <2>2. ASSUME NEW q \in Plugins \ doubtful', q # p PROVE Follows(q)'
    BY <1>7, <2>1, <2>2 DEF DisablePlugin, StoreAndAnswer, SettledFor
  <2>3. p \notin doubtful' => Follows(p)'
    <3> DEFINE state == [choice |-> "off", config |-> instance[p].config]
    <3>2. CASE /\ ownStates' = [ownStates EXCEPT ![p] = state] /\ storedStates' = [storedStates EXCEPT ![p] = state]
               /\ promised' = [promised EXCEPT ![p] = state]
      BY <2>1, <3>2
    <3>3. CASE Mischief("busy") /\ doubtful' = SettledFor(p)
      BY <3>3 DEF Mischief, SettledFor
    <3> QED BY <1>7, <3>2, <3>3 DEF DisablePlugin, StoreAndAnswer
  <2> QED BY <2>1, <2>2, <2>3
<1>8. ASSUME NEW p \in Plugins, NEW c \in PluginConfigs, Configure(p, c) PROVE OwnersInv'
  <2>1. /\ loading' = loading /\ loading # 0 /\ instance[p].status # "absent"
        /\ instance'[p].status = instance[p].status /\ instance'[p].config = c
        /\ \A q \in Plugins : q # p => instance'[q] = instance[q]
        /\ ownStates' = [ownStates EXCEPT ![p] = Configured(p, c)]
    BY <1>0, <1>8 DEF Configure, Requested, Up
  <2>2. ASSUME NEW q \in Plugins \ doubtful', q # p PROVE Follows(q)'
    BY <1>8, <2>1, <2>2 DEF Configure
  <2>3. p \notin doubtful' => Follows(p)'
    <3>1. CASE /\ storedStates' = [storedStates EXCEPT ![p] = Configured(p, c)]
               /\ promised' = [promised EXCEPT ![p].config = c] /\ doubtful' = doubtful
      <4>1. promised'[p].config = c /\ promised'[p].choice = promised[p].choice
        BY <3>1 DEF PluginStates
      <4>2. /\ ownStates'[p] = Configured(p, c) /\ storedStates'[p] = Configured(p, c)
            /\ Configured(p, c).config = c
            /\ Configured(p, c).choice = IF instance[p].status = "enabled" THEN "on" ELSE "off"
        BY <2>1, <3>1 DEF Configured
      <4> QED BY <2>1, <3>1, <4>1, <4>2
    <3>3. CASE p \in doubtful'
      BY <3>3
    <3> QED BY <1>8, <3>1, <3>3 DEF Configure
  <2> QED BY <2>1, <2>2, <2>3
<1>9. CASE CrashProcess
  BY <1>9 DEF CrashProcess, Absent
<1> QED
  BY <1>1, <1>2, <1>3, <1>4, <1>5, <1>6, <1>7, <1>8, <1>9
  DEF PluginsNext, Process, Emission, pluginVars, DecideApproval, Hook, HookEnds, DecisionGoesOn

LEMMA RoundInvKept ==
    ASSUME PluginsAssumption, PluginsInv, [PluginsNext]_pluginVars PROVE EmissionInv'
<1> USE DEF PluginsAssumption, PluginsTypeOK, PluginsInv, EmissionInv
<1>0. Len(LoadOrder) \in Nat
  OBVIOUS
<1>1. CASE UNCHANGED <<instance, loading, emission>>
  BY <1>1 DEF Enabled, Up
<1>2. CASE StartProcess
  BY <1>0, <1>2 DEF StartProcess, Enabled, Up
<1>3. ASSUME NEW p \in Plugins, Load(p) \/ Skip(p) PROVE EmissionInv'
  <2>1. emission' = emission /\ ~Up
    BY <1>0, <1>3 DEF Load, Skip, Starting, Up
  <2> QED BY <2>1
<1>4. ASSUME NEW p \in Plugins, RegisteredLate(p) PROVE EmissionInv'
  <2>1. \A q \in Plugins : instance'[q].status = instance[q].status
    BY <1>4 DEF RegisteredLate
  <2> QED BY <1>4, <2>1 DEF RegisteredLate, Enabled, Up
<1>5. ASSUME NEW p \in Plugins, EnablePlugin(p) PROVE EmissionInv'
  <2>1. Enabled \subseteq Enabled'
    BY <1>5 DEF EnablePlugin, Enabled
  <2> QED BY <1>5, <2>1 DEF EnablePlugin, Up
<1>6. ASSUME NEW p \in Plugins, DisablePlugin(p) PROVE EmissionInv'
  <2>1. Enabled \ {p} \subseteq Enabled'
    BY <1>6 DEF DisablePlugin, Enabled
  <2>2. /\ emission'.at = emission.at /\ emission'.running = emission.running
        /\ emission'.told = emission.told
        /\ emission'.constant = emission.constant \ {p}
    BY <1>6 DEF DisablePlugin
  <2> QED BY <1>6, <2>1, <2>2 DEF DisablePlugin, Up
<1>7. ASSUME NEW p \in Plugins, NEW c \in PluginConfigs, Configure(p, c) PROVE EmissionInv'
  <2>1. Enabled \subseteq Enabled'
    BY <1>7 DEF Configure, Enabled
  <2> QED BY <1>7, <2>1 DEF Configure, Up
<1>8. CASE DecideApproval
  BY <1>8 DEF DecideApproval, NoEmission, Enabled, Up
<1>9. ASSUME NEW p \in Plugins, Hook(p) PROVE EmissionInv'
  <2>1. /\ emission.at \in 1..Len(LoadOrder) /\ p = LoadOrder[emission.at] /\ ~emission.running
        /\ Enabled' = Enabled
        /\ Up /\ Up' /\ emission'.constant = emission.constant
    BY <1>9 DEF Hook, Enabled, Up
  <2>2. CASE p \in Enabled
    <3>1. emission'.at = emission.at /\ emission'.running /\ emission'.told = emission.told \cup {p}
      BY <1>9, <2>2 DEF Hook
    <3> QED BY <2>1, <3>1
  <2>3. CASE p \notin Enabled
    <3>1. emission'.at = emission.at + 1 /\ ~emission'.running /\ emission'.told = emission.told
      BY <1>9, <2>1, <2>3 DEF Hook
    <3>2. ASSUME NEW i \in 1..Len(LoadOrder), i < emission'.at, LoadOrder[i] \in emission'.constant
          PROVE  LoadOrder[i] \in emission'.told
      BY <1>0, <2>1, <2>3, <3>1, <3>2
    <3> QED BY <1>0, <2>1, <3>1, <3>2
  <2> QED BY <2>2, <2>3
<1>10. CASE HookEnds
  <2>1. /\ emission.running /\ emission'.at = emission.at + 1 /\ ~emission'.running /\ Enabled' = Enabled
        /\ Up' = Up /\ emission'.constant = emission.constant /\ emission'.told = emission.told
    BY <1>10 DEF HookEnds, NextPlugin, Enabled, Up
  <2>2. ASSUME NEW i \in 1..Len(LoadOrder), i < emission'.at, LoadOrder[i] \in emission'.constant
        PROVE  LoadOrder[i] \in emission'.told
    BY <1>0, <2>1, <2>2
  <2> QED BY <1>0, <2>1, <2>2
<1>11. CASE DecisionGoesOn \/ CrashProcess
  <2>1. emission' = NoEmission
    BY <1>11 DEF DecisionGoesOn, CrashProcess
  <2> QED BY <1>0, <2>1 DEF NoEmission
<1> QED
  BY <1>1, <1>2, <1>3, <1>4, <1>5, <1>6, <1>7, <1>8, <1>9, <1>10, <1>11
  DEF PluginsNext, Process, Emission, pluginVars

LEMMA PluginsKept ==
    ASSUME PluginsAssumption, PluginsInv, [PluginsNext]_pluginVars PROVE PluginsInv'
BY PluginsTypesKept, OwnersInvKept, RoundInvKept DEF PluginsInv

(* The table, the registry, a round and its bookkeeping keep their types.  *)
THEOREM PluginTypes == ASSUME PluginsAssumption PROVE PluginsSpec => []PluginsTypeOK
<1>1. PluginsInv => PluginsTypeOK
  BY DEF PluginsInv
<1> QED BY PluginsStart, PluginsKept, <1>1, PTL DEF PluginsSpec

(* PluginsFollowTheOwner: what the owner was told of a plugin is what      *)
(* runs, before and after a restart, and a decision is told to every       *)
(* plugin that is enabled throughout it.                                   *)
THEOREM PluginsAlwaysFollow == ASSUME PluginsAssumption PROVE PluginsSpec => []PluginsFollowTheOwner
<1>1. ASSUME PluginsInv PROVE PluginsFollowTheOwner
  <2> USE <1>1 DEF PluginsAssumption, PluginsInv, PluginsTypeOK
  <2>1. ChoiceStands
    <3> SUFFICES ASSUME Up, NEW p \in Plugins \ doubtful, instance[p].status # "absent"
                 PROVE  /\ promised[p].choice = "on" => instance[p].status = "enabled"
                        /\ promised[p].choice = "off" => instance[p].status = "disabled"
                        /\ promised[p].config = instance[p].config
      BY DEF ChoiceStands
    <3>1. loading # 0
      BY DEF Up
    <3> QED BY <3>1 DEF OwnersInv, Follows
  <2>2. EveryoneIsTold
    <3> SUFFICES ASSUME emission.at = Len(LoadOrder) + 1, NEW p \in emission.constant
                 PROVE  p \in emission.told
      BY DEF EveryoneIsTold
    <3>1. PICK i \in 1..Len(LoadOrder) : p = LoadOrder[i]
      BY DEF Plugins
    <3> QED BY <3>1 DEF EmissionInv
  <2> QED BY <2>1, <2>2 DEF PluginsFollowTheOwner
<1> QED BY PluginsStart, PluginsKept, <1>1, PTL DEF PluginsSpec

-----------------------------------------------------------------------------
(* FollowUps.  A sweep and a contact exclude each other; what a sweep      *)
(* still has to do is due; a cadence that nobody has moved is due again an *)
(* interval after its last follow-up at the earliest.                      *)
LastDay(c) == followUps[c][Len(followUps[c])].day

FollowInv ==
    /\ FollowUpsTypeOK
    /\ contact.step # "none" => contact.of \in Cadences
    /\ contact.step = "none" => contact = NoContact
    /\ sweep = NoSweep \/ contact = NoContact
    /\ \A c \in sweep.todo : cadence[c].next <= today
    /\ \A c, d \in sweep.made : c = d
    /\ \A c \in Cadences \ moved : Len(followUps[c]) > 0 =>
          IF c \in sweep.made THEN LastDay(c) = today
          ELSE cadence[c].next >= LastDay(c) + Interval[c]
    /\ NoBurst

FollowRows == [day : 0..MaxDay, auto : BOOLEAN]
CadenceRows == [status : CadenceStatuses, next : Nat, last : 0..MaxDay]

LEMMA FollowUpsStart == ASSUME FollowUpsAssumption PROVE FollowUpsInit => FollowInv
<1> SUFFICES ASSUME FollowUpsInit PROVE FollowInv
  OBVIOUS
<1> USE DEF FollowUpsAssumption, FollowUpsInit
<1>1. lead \in [stage : {LeadStages[i] : i \in 1..6}, archived : BOOLEAN]
  <2>1. LeadStages[1] = "new"
    BY DEF LeadStages
  <2>2. "new" \in {LeadStages[i] : i \in 1..6}
    BY <2>1
  <2> QED BY <2>2 DEF NewLead
<1>2. cadence \in [Cadences -> CadenceRows]
  BY DEF NewCadence, CadenceRows, CadenceStatuses
<1>3. followUps \in [Cadences -> Seq(FollowRows)] /\ \A c \in Cadences : Len(followUps[c]) = 0
  BY DEF FollowRows
<1>4. /\ contact \in [of : Cadences \cup {"none"}, outcome : Outcomes \cup {"note"}, day : 0..MaxDay,
                      step : {"none", "stored", "led"}]
      /\ contact.step = "none"
  BY DEF NoContact
<1>5. sweep \in [todo : SUBSET Cadences, made : SUBSET Cadences] /\ sweep.made = {} /\ sweep.todo = {}
  BY DEF NoSweep
<1>6. FollowUpsTypeOK
  BY <1>1, <1>2, <1>3, <1>4, <1>5 DEF FollowUpsTypeOK, FollowRows, CadenceRows
<1>7. NoBurst
  BY <1>3 DEF NoBurst
<1> QED BY <1>3, <1>4, <1>5, <1>6, <1>7 DEF FollowInv

(* A row that is added to the follow-ups of a cadence.                     *)
LEMMA RowAdded ==
    ASSUME FollowUpsTypeOK, NEW c \in Cadences, NEW r \in FollowRows,
           followUps' = [followUps EXCEPT ![c] = Append(@, r)]
    PROVE  /\ followUps' \in [Cadences -> Seq(FollowRows)]
           /\ Len(followUps'[c]) = Len(followUps[c]) + 1 /\ Len(followUps[c]) \in Nat
           /\ followUps'[c][Len(followUps[c]) + 1] = r
           /\ \A i \in 1..Len(followUps[c]) : followUps'[c][i] = followUps[c][i]
           /\ \A d \in Cadences : d # c => followUps'[d] = followUps[d]
<1>1. followUps[c] \in Seq(FollowRows) /\ followUps \in [Cadences -> Seq(FollowRows)]
  BY DEF FollowUpsTypeOK, FollowRows
<1>2. followUps'[c] = Append(followUps[c], r) /\ \A d \in Cadences : d # c => followUps'[d] = followUps[d]
  BY <1>1
<1>3. Append(followUps[c], r) \in Seq(FollowRows)
  BY <1>1, AppendProperties
<1>4. followUps' \in [Cadences -> Seq(FollowRows)]
  BY <1>1, <1>3
<1> QED BY <1>1, <1>2, <1>4, AppendProperties

LEMMA DaysAreNat ==
    ASSUME FollowUpsAssumption, FollowUpsTypeOK
    PROVE  /\ \A c \in Cadences : /\ Len(followUps[c]) \in Nat
                                  /\ \A i \in 1..Len(followUps[c]) : followUps[c][i].day \in 0..MaxDay
                                  /\ Interval[c] \in Nat \ {0} /\ cadence[c].next \in Nat
           /\ today \in 0..MaxDay /\ MaxDay \in Nat
<1>1. /\ followUps \in [Cadences -> Seq(FollowRows)] /\ cadence \in [Cadences -> CadenceRows]
      /\ today \in 0..MaxDay /\ MaxDay \in Nat /\ Interval \in [Cadences -> Nat \ {0}]
  BY DEF FollowUpsAssumption, FollowUpsTypeOK, FollowRows, CadenceRows
<1>2. ASSUME NEW c \in Cadences
      PROVE  /\ Len(followUps[c]) \in Nat /\ Interval[c] \in Nat \ {0} /\ cadence[c].next \in Nat
             /\ \A i \in 1..Len(followUps[c]) : followUps[c][i].day \in 0..MaxDay
  <2>1. followUps[c] \in Seq(FollowRows) /\ cadence[c] \in CadenceRows
    BY <1>1
  <2>2. ASSUME NEW i \in 1..Len(followUps[c]) PROVE followUps[c][i].day \in 0..MaxDay
    <3>1. followUps[c][i] \in FollowRows
      BY <2>1, ElementOfSeq
    <3> QED BY <3>1 DEF FollowRows
  <2>3. cadence[c].next \in Nat
    BY <2>1 DEF CadenceRows
  <2>4. Len(followUps[c]) \in Nat
    BY <2>1, LenProperties
  <2>5. Interval[c] \in Nat \ {0}
    BY <1>1
  <2> QED BY <2>2, <2>3, <2>4, <2>5
<1> QED BY <1>1, <1>2

LEMMA MovedOn ==
    ASSUME FollowUpsAssumption, FollowUpsTypeOK, NEW c \in Cadences, cadence' = MoveOn(c)
    PROVE  /\ cadence' \in [Cadences -> CadenceRows] /\ cadence'[c].next = today + Interval[c]
           /\ \A d \in Cadences : d # c => cadence'[d] = cadence[d]
<1>1. cadence[c] \in CadenceRows /\ today \in 0..MaxDay /\ today + Interval[c] \in Nat
  BY DEF FollowUpsAssumption, FollowUpsTypeOK, CadenceRows
<1> DEFINE row == [cadence[c] EXCEPT !.last = today, !.next = today + Interval[c],
                      !.status = IF @ \in {"paused", "archived"} THEN @ ELSE "active"]
<1>2. row \in CadenceRows /\ row.next = today + Interval[c]
  BY <1>1 DEF CadenceRows, CadenceStatuses
<1>3. cadence' = [cadence EXCEPT ![c] = row] /\ cadence \in [Cadences -> CadenceRows]
  BY DEF MoveOn, NextDay, FollowUpsTypeOK, CadenceRows
<1> QED BY <1>2, <1>3

(* Steps that touch neither the cadences, their follow-ups nor the day.    *)
LEMMA NoBurstStays ==
    ASSUME FollowUpsAssumption, FollowInv, FollowUpsTypeOK', UNCHANGED <<followUps, cadence>>,
           moved \subseteq moved',
           today' = today \/ sweep.made = {}, sweep'.made \subseteq sweep.made, sweep.made \subseteq sweep'.made \cup moved'
    PROVE  /\ NoBurst'
           /\ \A c \in Cadences \ moved' : Len(followUps'[c]) > 0 =>
                IF c \in sweep'.made THEN LastDay(c)' = today'
                ELSE cadence'[c].next >= LastDay(c)' + Interval[c]
BY DEF FollowInv, NoBurst, LastDay

LEMMA FollowUpsKept ==
    ASSUME FollowUpsAssumption, FollowInv, [FollowUpsNext]_followUpVars PROVE FollowInv'
<1>0. FollowUpsTypeOK /\ NoContact.step = "none" /\ NoSweep.made = {} /\ NoSweep.todo = {}
      /\ NoSweep \in [todo : SUBSET Cadences, made : SUBSET Cadences]
  BY DEF FollowInv, NoContact, NoSweep
<1>n. NoContact \in [of : Cadences \cup {"none"}, outcome : Outcomes \cup {"note"}, day : 0..MaxDay,
                     step : {"none", "stored", "led"}]
  BY DEF NoContact, FollowUpsAssumption
<1>1. CASE UNCHANGED followUpVars
  BY <1>1 DEF followUpVars, FollowInv, FollowUpsTypeOK, NoBurst, LastDay
<1>2. CASE RunDue
  <2>1. /\ sweep' = [todo |-> DueCadences, made |-> {}] /\ DueCadences \subseteq Cadences /\ sweep.made = {}
        /\ \A c \in DueCadences : cadence[c].next <= today
    BY <1>0, <1>2 DEF RunDue, NoSweep, Free, DueCadences
  <2>2. FollowUpsTypeOK'
    BY <1>0, <1>2, <2>1 DEF RunDue, FollowUpsTypeOK
  <2> QED BY <1>0, <1>2, <2>1, <2>2, NoBurstStays DEF RunDue, Free, FollowInv
<1>3. ASSUME NEW c \in Cadences, MakeFollowUp(c) PROVE FollowInv'
  <2> DEFINE r == [day |-> today, auto |-> TRUE]
  <2>0. /\ c \in sweep.todo /\ sweep.made = {}
        /\ UNCHANGED <<today, lead, cadence, moved, contact, requests, crashes>>
        /\ followUps' = [followUps EXCEPT ![c] = Append(@, r)] /\ sweep' = [sweep EXCEPT !.made = {c}]
        /\ r \in FollowRows /\ r.day = today
    BY <1>0, <1>3 DEF MakeFollowUp, FollowRows, FollowUpsTypeOK
  <2>1. /\ followUps' \in [Cadences -> Seq(FollowRows)]
        /\ Len(followUps'[c]) = Len(followUps[c]) + 1 /\ Len(followUps[c]) \in Nat
        /\ followUps'[c][Len(followUps[c]) + 1] = r
        /\ \A i \in 1..Len(followUps[c]) : followUps'[c][i] = followUps[c][i]
        /\ \A d \in Cadences : d # c => followUps'[d] = followUps[d]
    BY <1>0, <2>0, RowAdded
  <2>2. /\ sweep' \in [todo : SUBSET Cadences, made : SUBSET Cadences] /\ sweep'.made = {c}
        /\ sweep'.todo = sweep.todo
    BY <1>0, <2>0 DEF FollowUpsTypeOK
  <2>3. FollowUpsTypeOK'
    BY <1>0, <2>0, <2>1, <2>2 DEF FollowUpsTypeOK, FollowRows
  <2>4. contact = NoContact
    BY <1>0, <2>0 DEF FollowInv
  <2>5. c \notin moved => \A i \in 1..Len(followUps'[c]) - 1 :
            followUps'[c][i + 1].day >= followUps'[c][i].day + Interval[c]
    <3> SUFFICES ASSUME c \notin moved, NEW i \in 1..Len(followUps'[c]) - 1
                 PROVE  followUps'[c][i + 1].day >= followUps'[c][i].day + Interval[c]
      OBVIOUS
    <3>1. CASE i = Len(followUps[c])
      <4>1. cadence[c].next >= LastDay(c) + Interval[c] /\ cadence[c].next <= today
        BY <2>0, <2>1, <3>1 DEF FollowInv
      <4>2. followUps'[c][i] = followUps[c][i] /\ followUps'[c][i + 1] = r /\ LastDay(c) = followUps[c][i].day
        BY <2>1, <3>1 DEF LastDay
      <4>3. /\ followUps[c][i].day \in Nat /\ Interval[c] \in Nat /\ cadence[c].next \in Nat /\ today \in Nat
        BY <1>0, <2>1, <3>1, DaysAreNat
      <4>4. followUps'[c][i].day = LastDay(c) /\ followUps'[c][i + 1].day = today
        BY <2>0, <4>2
      <4> QED BY <4>1, <4>2, <4>3, <4>4
    <3>2. CASE i < Len(followUps[c])
      <4>1. followUps'[c][i] = followUps[c][i] /\ followUps'[c][i + 1] = followUps[c][i + 1]
        BY <2>1, <3>2
      <4>2. i \in 1..Len(followUps[c]) - 1
        BY <2>1, <3>2
      <4> QED BY <4>1, <4>2 DEF FollowInv, NoBurst
    <3> QED BY <2>1, <3>1, <3>2
  <2>6. NoBurst'
    BY <2>0, <2>1, <2>5 DEF FollowInv, NoBurst
  <2>7. \A d \in Cadences \ moved' : Len(followUps'[d]) > 0 =>
            IF d \in sweep'.made THEN LastDay(d)' = today' ELSE cadence'[d].next >= LastDay(d)' + Interval[d]
    <3> SUFFICES ASSUME NEW d \in Cadences \ moved', Len(followUps'[d]) > 0
                 PROVE  IF d \in sweep'.made THEN LastDay(d)' = today'
                        ELSE cadence'[d].next >= LastDay(d)' + Interval[d]
      OBVIOUS
    <3>1. CASE d = c
      BY <2>0, <2>1, <2>2, <3>1 DEF LastDay
    <3>2. CASE d # c
      BY <2>0, <2>1, <2>2, <3>2 DEF LastDay, FollowInv
    <3> QED BY <3>1, <3>2
  <2> QED BY <1>0, <2>0, <2>2, <2>3, <2>4, <2>6, <2>7 DEF FollowInv
<1>4. ASSUME NEW c \in Cadences, AdvanceCadence(c) PROVE FollowInv'
  <2>0. /\ c \in sweep.made /\ cadence' = MoveOn(c)
        /\ UNCHANGED <<today, lead, followUps, moved, contact, requests, crashes>>
        /\ sweep' = [todo |-> sweep.todo \ {c}, made |-> {}]
    BY <1>4 DEF AdvanceCadence
  <2>1. /\ cadence' \in [Cadences -> CadenceRows] /\ cadence'[c].next = today + Interval[c]
        /\ \A d \in Cadences : d # c => cadence'[d] = cadence[d]
    BY <1>0, <2>0, MovedOn
  <2>2. FollowUpsTypeOK'
    BY <1>0, <2>0, <2>1 DEF FollowUpsTypeOK, CadenceRows
  <2>3. contact = NoContact
    BY <1>0, <2>0 DEF FollowInv
  <2>4. ASSUME NEW d \in Cadences \ moved', Len(followUps'[d]) > 0
        PROVE  cadence'[d].next >= LastDay(d)' + Interval[d]
    <3>1. CASE d = c
      <4>1. LastDay(c) = today /\ LastDay(c)' = LastDay(c) /\ today \in Nat /\ Interval[c] \in Nat
        BY <1>0, <2>0, <2>4, <3>1, DaysAreNat DEF FollowInv, LastDay
      <4> QED BY <2>1, <3>1, <4>1
    <3>2. CASE d # c
      <4>1. d \notin sweep.made
        BY <2>0, <3>2, <1>0 DEF FollowInv, FollowUpsTypeOK
      <4> QED BY <2>0, <2>1, <2>4, <3>2, <4>1 DEF FollowInv, LastDay
    <3> QED BY <3>1, <3>2
  <2>5. \A d \in sweep'.todo : cadence'[d].next <= today'
    BY <1>0, <2>0, <2>1 DEF FollowInv, FollowUpsTypeOK
  <2>6. NoBurst'
    BY <2>0 DEF FollowInv, NoBurst
  <2> QED BY <1>0, <2>0, <2>2, <2>3, <2>4, <2>5, <2>6 DEF FollowInv
<1>5. ASSUME NEW c \in Cadences, TriggerByHand(c) PROVE FollowInv'
  <2> DEFINE r == [day |-> today, auto |-> FALSE]
  <2>0. /\ Free /\ UNCHANGED <<today, lead, sweep, contact, crashes>> /\ requests' \in 0..MaxOwnerRequests
        /\ followUps' = [followUps EXCEPT ![c] = Append(@, r)] /\ cadence' = MoveOn(c)
        /\ moved' = moved \cup {c}
        /\ r \in FollowRows /\ sweep.made = {} /\ sweep.todo = {}
    BY <1>0, <1>5 DEF TriggerByHand, OwnerRequest, FollowRows, FollowUpsTypeOK, Free, FollowUpsAssumption
  <2>1. /\ followUps' \in [Cadences -> Seq(FollowRows)] /\ \A d \in Cadences : d # c => followUps'[d] = followUps[d]
    BY <1>0, <2>0, RowAdded
  <2>2. /\ cadence' \in [Cadences -> CadenceRows] /\ \A d \in Cadences : d # c => cadence'[d] = cadence[d]
    BY <1>0, <2>0, MovedOn
  <2>3. FollowUpsTypeOK'
    BY <1>0, <2>0, <2>1, <2>2 DEF FollowUpsTypeOK, FollowRows, CadenceRows
  <2> QED BY <1>0, <2>0, <2>1, <2>2, <2>3 DEF FollowInv, NoBurst, LastDay, Free
<1>6. ASSUME NEW c \in Cadences, NEW outcome \in Outcomes, NEW day \in 0..MaxDay, Record(c, outcome, day)
      PROVE  FollowInv'
  <2>0. /\ Free /\ UNCHANGED <<today, lead, cadence, followUps, sweep, moved, crashes>>
        /\ requests' \in 0..MaxOwnerRequests
        /\ contact' = [of |-> c, outcome |-> outcome, day |-> day, step |-> "stored"] /\ sweep.made = {}
    BY <1>0, <1>6 DEF Record, OwnerRequest, FollowUpsTypeOK, Free, FollowUpsAssumption
  <2>1. FollowUpsTypeOK'
    BY <1>0, <2>0 DEF FollowUpsTypeOK
  <2> QED BY <1>0, <2>0, <2>1, NoBurstStays DEF FollowInv, Free
<1>7. CASE UpdateLead
  <2>0. /\ UNCHANGED <<today, cadence, followUps, sweep, moved, requests, crashes>> /\ contact.step = "stored"
        /\ contact' = [contact EXCEPT !.step = "led"]
        /\ lead' = [lead EXCEPT !.stage = StageAfter(@, contact.outcome)]
        /\ sweep = NoSweep
    BY <1>0, <1>7 DEF UpdateLead, FollowInv
  <2>1. LeadStages[1] = "new" /\ LeadStages[2] = "contacted" /\ LeadStages[3] = "qualified"
        /\ LeadStages[4] = "proposal" /\ LeadStages[5] = "won" /\ LeadStages[6] = "lost"
    BY DEF LeadStages
  <2>2. /\ "new" \in {LeadStages[i] : i \in 1..6} /\ "contacted" \in {LeadStages[i] : i \in 1..6}
        /\ "qualified" \in {LeadStages[i] : i \in 1..6} /\ "proposal" \in {LeadStages[i] : i \in 1..6}
        /\ "won" \in {LeadStages[i] : i \in 1..6} /\ "lost" \in {LeadStages[i] : i \in 1..6}
    BY <2>1
  <2>3. StageAfter(lead.stage, contact.outcome) \in {LeadStages[i] : i \in 1..6}
    BY <1>0, <2>2 DEF StageAfter, Desired, FollowUpsTypeOK
  <2>4. lead' \in [stage : {LeadStages[i] : i \in 1..6}, archived : BOOLEAN]
    BY <1>0, <2>0, <2>3 DEF FollowUpsTypeOK
  <2>5. /\ contact' \in [of : Cadences \cup {"none"}, outcome : Outcomes \cup {"note"}, day : 0..MaxDay,
                         step : {"none", "stored", "led"}]
        /\ contact'.step = "led" /\ contact'.of = contact.of
    BY <1>0, <2>0 DEF FollowUpsTypeOK
  <2>6. FollowUpsTypeOK'
    BY <1>0, <2>0, <2>4, <2>5 DEF FollowUpsTypeOK
  <2> QED BY <1>0, <2>0, <2>5, <2>6, NoBurstStays DEF FollowInv
<1>8. CASE UpdateCadence
  <2>0. /\ UNCHANGED <<today, lead, followUps, sweep, requests, crashes>> /\ contact.step = "led"
        /\ contact' = NoContact
        /\ cadence' = [cadence EXCEPT ![contact.of] = AfterContact(@)] /\ moved' = moved \cup {contact.of}
        /\ sweep = NoSweep /\ contact.of \in Cadences
    BY <1>0, <1>8 DEF UpdateCadence, FollowInv
  <2>1. AfterContact(cadence[contact.of]) \in CadenceRows
    <3>1. cadence[contact.of] \in CadenceRows /\ contact.day \in 0..MaxDay
          /\ contact.day + Interval[contact.of] \in Nat
      BY <1>0, <2>0 DEF FollowUpsTypeOK, CadenceRows, FollowUpsAssumption
    <3> QED BY <3>1 DEF AfterContact, CadenceRows, CadenceStatuses
  <2>2. cadence' \in [Cadences -> CadenceRows]
        /\ \A d \in Cadences : d # contact.of => cadence'[d] = cadence[d]
    BY <1>0, <2>0, <2>1 DEF FollowUpsTypeOK, CadenceRows
  <2>3. FollowUpsTypeOK'
    BY <1>0, <1>n, <2>0, <2>2 DEF FollowUpsTypeOK, CadenceRows
  <2> QED BY <1>0, <2>0, <2>2, <2>3 DEF FollowInv, NoBurst, LastDay
<1>9. CASE BadDate
  <2>0. UNCHANGED <<today, lead, cadence, followUps, sweep, moved, requests, crashes>> /\ contact' = NoContact
    BY <1>9 DEF BadDate
  <2>1. FollowUpsTypeOK'
    BY <1>0, <1>n, <2>0 DEF FollowUpsTypeOK
  <2> QED BY <1>0, <2>0, <2>1, NoBurstStays DEF FollowInv
<1>10. ASSUME NEW c \in Cadences, NEW status \in CadenceStatuses, NEW day \in 0..MaxDay,
              PatchCadence(c, status, day)
       PROVE FollowInv'
  <2> DEFINE k == [cadence[c] EXCEPT !.status = status, !.next = day]
  <2>0. /\ Free /\ UNCHANGED <<today, lead, followUps, sweep, contact, crashes>>
        /\ requests' \in 0..MaxOwnerRequests
        /\ cadence' = [cadence EXCEPT ![c] = k] /\ moved' = moved \cup {c} /\ sweep.made = {}
        /\ sweep.todo = {}
    BY <1>0, <1>10 DEF PatchCadence, OwnerRequest, FollowUpsTypeOK, Free, FollowUpsAssumption
  <2>1. k \in CadenceRows
    <3>1. cadence[c] \in CadenceRows
      BY <1>0 DEF FollowUpsTypeOK, CadenceRows
    <3>2. day \in Nat
      BY DEF FollowUpsAssumption
    <3> QED BY <3>1, <3>2 DEF CadenceRows
  <2> HIDE DEF k
  <2>2. cadence' \in [Cadences -> CadenceRows] /\ \A d \in Cadences : d # c => cadence'[d] = cadence[d]
    BY <1>0, <2>0, <2>1 DEF FollowUpsTypeOK, CadenceRows
  <2>3. FollowUpsTypeOK'
    BY <1>0, <2>0, <2>2 DEF FollowUpsTypeOK, CadenceRows
  <2> QED BY <1>0, <2>0, <2>2, <2>3 DEF FollowInv, NoBurst, LastDay, Free
<1>11. CASE EditLead
  <2>0. Free /\ UNCHANGED <<today, cadence, followUps, sweep, moved, contact, crashes>>
        /\ requests' \in 0..MaxOwnerRequests
    BY <1>0, <1>11 DEF EditLead, OwnerRequest, FollowUpsTypeOK, FollowUpsAssumption
  <2>1. lead' \in [stage : {LeadStages[i] : i \in 1..6}, archived : BOOLEAN]
    BY <1>0, <1>11 DEF EditLead, FollowUpsTypeOK
  <2>2. FollowUpsTypeOK'
    BY <1>0, <2>0, <2>1 DEF FollowUpsTypeOK
  <2> QED BY <1>0, <2>0, <2>2, NoBurstStays DEF FollowInv
<1>12. CASE CrashSweep
  <2>0. UNCHANGED <<today, lead, cadence, followUps, requests>> /\ sweep' = NoSweep /\ contact' = NoContact
        /\ moved' = moved \cup sweep.made /\ crashes' \in 0..MaxCrashes
    BY <1>0, <1>12 DEF CrashSweep, FollowUpsTypeOK, FollowUpsAssumption
  <2>1. FollowUpsTypeOK'
    BY <1>0, <1>n, <2>0 DEF FollowUpsTypeOK
  <2> QED BY <1>0, <2>0, <2>1, NoBurstStays DEF FollowInv
<1>13. CASE NextMorning
  <2>0. /\ UNCHANGED <<lead, cadence, followUps, sweep, moved, contact, requests, crashes>> /\ Free
        /\ today' \in 0..MaxDay /\ sweep.made = {} /\ sweep.todo = {}
    BY <1>0, <1>13 DEF NextMorning, FollowUpsTypeOK, Free, FollowUpsAssumption
  <2>1. FollowUpsTypeOK'
    BY <1>0, <2>0 DEF FollowUpsTypeOK
  <2> QED BY <1>0, <2>0, <2>1, NoBurstStays DEF FollowInv, Free
<1> QED
  BY <1>1, <1>2, <1>3, <1>4, <1>5, <1>6, <1>7, <1>8, <1>9, <1>10, <1>11, <1>12, <1>13
     DEF FollowUpsNext, FollowUpStep

(* The lead, its cadences and their follow-ups keep their types.           *)
THEOREM FollowUpTypes == ASSUME FollowUpsAssumption PROVE FollowUpsSpec => []FollowUpsTypeOK
<1>1. FollowInv => FollowUpsTypeOK
  BY DEF FollowInv
<1> QED BY FollowUpsStart, FollowUpsKept, <1>1, PTL DEF FollowUpsSpec

LEMMA RankOfStage == \A s \in {LeadStages[i] : i \in 1..6} : Rank(s) \in 1..6
BY DEF Rank

DoesNotFallBack ==
    contact.step # "none" /\ lead'.stage \notin {"won", "lost"} => Rank(lead'.stage) >= Rank(lead.stage)

LEMMA LeadDoesNotFallBack == ASSUME FollowInv, [FollowUpsNext]_followUpVars PROVE DoesNotFallBack
<1> SUFFICES ASSUME contact.step # "none", lead'.stage \notin {"won", "lost"}
             PROVE  Rank(lead'.stage) >= Rank(lead.stage)
  BY DEF DoesNotFallBack
<1>1. ~Free /\ Rank(lead.stage) \in 1..6
  BY RankOfStage DEF FollowInv, Free, NoContact, FollowUpsTypeOK
<1>2. CASE UpdateLead
  <2>1. lead'.stage = StageAfter(lead.stage, contact.outcome)
    BY <1>2 DEF UpdateLead, FollowInv, FollowUpsTypeOK
  <2>2. LeadStages[1] = "new" /\ LeadStages[2] = "contacted" /\ LeadStages[3] = "qualified"
        /\ LeadStages[4] = "proposal"
    BY DEF LeadStages
  <2>3. Desired(contact.outcome) \in {LeadStages[i] : i \in 1..6}
    BY <2>2 DEF Desired
  <2>4. Rank(Desired(contact.outcome)) \in 1..6
    BY <2>3, RankOfStage
  <2> QED BY <1>1, <2>1, <2>4 DEF StageAfter
<1>3. CASE lead' = lead
  BY <1>1, <1>3
<1>4. ASSUME NEW c \in Cadences, NEW status \in CadenceStatuses, NEW day \in 0..MaxDay,
             PatchCadence(c, status, day)
      PROVE  lead' = lead
  BY <1>4 DEF PatchCadence
<1>5. (\E c \in Cadences, status \in CadenceStatuses, day \in 0..MaxDay : PatchCadence(c, status, day)) => lead' = lead
  BY <1>4
<1> QED
  BY <1>1, <1>2, <1>3, <1>5 DEF FollowUpsNext, FollowUpStep, followUpVars, RunDue, MakeFollowUp, AdvanceCadence,
     TriggerByHand, OwnerRequest, Record, UpdateCadence, BadDate, EditLead, CrashSweep, NextMorning

(* LeadsAreKept: two follow-ups that the scheduler makes are an interval   *)
(* apart, and no contact makes a lead fall back.                           *)
THEOREM LeadsAreAlwaysKept == ASSUME FollowUpsAssumption PROVE FollowUpsSpec => LeadsAreKept
<1>1. FollowInv => NoBurst
  BY DEF FollowInv
<1>2. FollowInv /\ [FollowUpsNext]_followUpVars => [DoesNotFallBack]_followUpVars
  BY LeadDoesNotFallBack
<1> QED
  BY FollowUpsStart, FollowUpsKept, <1>1, <1>2, PTL
  DEF FollowUpsSpec, LeadsAreKept, NoFallBack, DoesNotFallBack
=============================================================================
