--------------------------- MODULE OperatorActions ---------------------------
(***************************************************************************)
(* Operator actions (orchestrator: server.ts handleInboundMessage and      *)
(* applyApprovalDecisionEffects; shared: operator-actions.ts and the       *)
(* store): a text asks for a change of the team, of its settings, or for   *)
(* an e-mail. What is harmless and comes from somebody who is trusted is   *)
(* applied at once; the rest waits for an approval.  The handler of the    *)
(* text is synchronous, but it writes row by row, and the task runner,     *)
(* which learns settings and hires agents itself, writes in between.       *)
(* Skills has the actions about skills.                                    *)
(***************************************************************************)
EXTENDS Naturals, FiniteSets

CONSTANTS
    Actions,     \* rows of operator_actions; bound: so many are asked for
    OperatorRequests,    \* decisions that can be under way at a time
    Askers,      \* who asks
    Askable,       \* bound: what they ask for, as pairs of a kind and an asker
    Trusted,     \* whom the scope of the automatic approval covers
    NoAction,
    ActionUpsets,      \* of "crash", "refuse", "learn"
    MaxActionUpsets    \* bound

ActionAssumption ==
    /\ NoAction \notin Actions /\ IsFiniteSet(Actions)
    /\ Askers # {} /\ Trusted \subseteq Askers /\ MaxActionUpsets \in Nat
    /\ ActionUpsets \subseteq {"crash", "refuse", "learn"}

VARIABLES
    action,     \* the rows: kind, who asked, status
    approval,   \* of each action: its status, which is that of its only step
    work,       \* the statement the orchestrator is at: action, and its copy of the configuration
    request,    \* decisions under way
    agents,     \* active agent_instances of a role
    secrets,    \* keys in RUNTIME_SECRETS
    searchSet,     \* SEARCH_PROVIDER is set
    config,     \* runtime-config: the action that set the channels, and the model
    learner,    \* the copy of it that the task runner is about to write
    effects,    \* effects[a]: how often a changed something
    promisedConfig,   \* what config should be
    lost,       \* actions cut off by a crash, a refused mail, a missing agent
    configCrossed,    \* two writers of the configuration have overlapped
    actionUpsets

operatorVars == <<action, approval, work, request, agents, secrets, searchSet, config, learner, effects,
                promisedConfig, lost, configCrossed, actionUpsets>>

AgentKinds == {"add", "remove", "tone"}
SettingKinds == {"key", "provider"}
ProviderKinds == {"model", "modelKey"}
OperatorKinds == AgentKinds \cup SettingKinds \cup ProviderKinds \cup {"channel", "mail"}

Configs == [{"channel", "model"} -> Actions \cup {NoAction}]
NoConfig == [f \in {"channel", "model"} |-> NoAction]
NoWork == [at |-> "free", action |-> NoAction, copy |-> NoConfig]
NotLearning == [writes |-> FALSE, copy |-> NoConfig]
NoRequest == [at |-> "idle", action |-> NoAction, says |-> "approved"]

OperatorTypeOK ==
    /\ action \in [Actions -> [kind : OperatorKinds, by : Askers,
                               status : {"absent", "pending", "applied", "rejected"}]]
    /\ approval \in [Actions -> {"none", "pending", "approved", "rejected"}]
    /\ work \in [at : {"free", "ask", "apply", "write", "secret", "provider", "mark"},
                 action : Actions \cup {NoAction}, copy : Configs]
    /\ request \in [OperatorRequests -> [at : {"idle", "before", "after", "sending", "sent"},
                                 action : Actions \cup {NoAction}, says : {"approved", "rejected"}]]
    /\ agents \in 0..Cardinality(Actions) + 1
    /\ secrets \subseteq {"search", "model"} /\ searchSet \in BOOLEAN
    /\ config \in Configs /\ learner \in [writes : BOOLEAN, copy : Configs] /\ promisedConfig \in Configs
    /\ effects \in [Actions -> Nat] /\ lost \subseteq Actions /\ configCrossed \in BOOLEAN
    /\ actionUpsets \in 0..MaxActionUpsets

OperatorInit ==
    /\ action = [a \in Actions |-> [kind |-> "add", by |-> CHOOSE k \in Askers : TRUE, status |-> "absent"]]
    /\ approval = [a \in Actions |-> "none"]
    /\ work = NoWork /\ request = [q \in OperatorRequests |-> NoRequest]
    /\ agents = 1 /\ secrets = {} /\ searchSet = FALSE   \* seedDefaultAgentInstances
    /\ config = NoConfig /\ promisedConfig = config /\ learner = NotLearning
    /\ effects = [a \in Actions |-> 0] /\ lost = {} /\ configCrossed = FALSE /\ actionUpsets = 0

-----------------------------------------------------------------------------
ActionUpset(kind) == kind \in ActionUpsets /\ actionUpsets < MaxActionUpsets /\ actionUpsets' = actionUpsets + 1

world == <<agents, secrets, searchSet, config, learner, promisedConfig, configCrossed>>
books == <<effects, lost, actionUpsets>>

(* What the handler asks back for before it makes an action of a text: a   *)
(* provider or a model without its key, and a role that has no agent.      *)
Complete(kind) ==
    /\ kind = "provider" => "search" \in secrets
    /\ kind = "model" => "model" \in secrets
    /\ kind \in {"remove", "tone"} => agents > 0

(* isOwnerLowRiskOperatorAction                                            *)
LowRisk(kind) == kind \in AgentKinds \cup SettingKinds

(* Mutant: whoever asks for something harmless gets it at once.            *)
AppliedForAll(kind, who) == LowRisk(kind)

(* ownerLowRiskAutoApply                                                   *)
AppliedAtOnce(kind, who) == LowRisk(kind) /\ who \in Trusted

Goes(to) == work' = [work EXCEPT !.at = to]
MarkApplied(a) == action' = [action EXCEPT ![a].status = "applied"]
Takes(a) == effects' = [effects EXCEPT ![a] = @ + 1]

(* createOperatorAction, and what comes next in the same stretch.          *)
UnusedActions == {a \in Actions : action[a].status = "absent"}

Ask(kind, who) ==
    /\ work.at = "free" /\ UnusedActions # {} /\ <<kind, who>> \in Askable /\ Complete(kind)
    /\ LET a == CHOOSE a \in UnusedActions : TRUE
       IN  /\ action' = [action EXCEPT ![a] = [kind |-> kind, by |-> who, status |-> "pending"]]
           /\ work' = [NoWork EXCEPT !.at = IF AppliedAtOnce(kind, who) THEN "apply" ELSE "ask", !.action = a]
    /\ UNCHANGED <<approval, request, world, books>>

(* createApproval, ensureApprovalWorkflow with one step, and the link,     *)
(* which nothing decides by.  A missing workflow is made by the first      *)
(* decision.                                                               *)
AskApproval ==
    /\ work.at = "ask" /\ work' = NoWork
    /\ approval' = [approval EXCEPT ![work.action] = "pending"]
    /\ UNCHANGED <<action, request, world, books>>

-----------------------------------------------------------------------------
(* applyOperatorAction, statement by statement.                            *)
Applies(kinds) == work.at = "apply" /\ action[work.action].kind \in kinds

ApplyAdd ==
    /\ Applies({"add"}) /\ agents' = agents + 1
    /\ Takes(work.action) /\ Goes("mark")
    /\ UNCHANGED <<action, approval, request, secrets, searchSet, config, learner, promisedConfig, configCrossed,
                   lost, actionUpsets>>

(* The agent that was made last goes, or speaks in another tone.           *)
ApplyToAgent ==
    /\ Applies({"remove", "tone"}) /\ agents > 0
    /\ agents' = IF action[work.action].kind = "remove" THEN agents - 1 ELSE agents
    /\ Takes(work.action) /\ Goes("mark")
    /\ UNCHANGED <<action, approval, request, secrets, searchSet, config, learner, promisedConfig, configCrossed,
                   lost, actionUpsets>>

(* By the time of the approval the role may have no agent: it throws, and  *)
(* the action stays as it is.                                              *)
ApplyToNobody ==
    /\ Applies({"remove", "tone"}) /\ agents = 0
    /\ lost' = lost \cup {work.action} /\ work' = NoWork
    /\ UNCHANGED <<action, approval, request, world, effects, actionUpsets>>

(* patchRuntimeConfig reads the whole document and writes it back.         *)
ReadConfig ==
    /\ Applies(ProviderKinds \cup {"channel"})
    /\ work' = [work EXCEPT !.at = "write", !.copy = config]
    /\ UNCHANGED <<action, approval, request, world, books>>

WriteConfig ==
    LET a == work.action
        Change(c) == IF action[a].kind = "modelKey" THEN c ELSE [c EXCEPT ![action[a].kind] = a]
    IN  /\ work.at = "write"
        /\ config' = Change(work.copy) /\ promisedConfig' = Change(promisedConfig)
        /\ configCrossed' = (configCrossed \/ learner.writes)
        /\ IF action[a].kind = "modelKey" THEN Goes("secret") /\ UNCHANGED effects
           ELSE Goes("mark") /\ Takes(a)
        /\ UNCHANGED <<action, approval, request, agents, secrets, searchSet, learner, lost, actionUpsets>>

(* Mutant: every key is stored under the default name. *)
DefaultKey == {"model"}

(* setRuntimeSecret: the key of the tool provider, or of the search.       *)
NewSecret == IF action[work.action].kind = "key" THEN {"search"} ELSE {"model"}

SetSecret ==
    /\ work.at = "secret" \/ Applies({"key"})
    /\ secrets' = secrets \cup NewSecret /\ Takes(work.action)
    /\ IF action[work.action].kind = "key" THEN Goes("provider") ELSE Goes("mark")
    /\ UNCHANGED <<action, approval, request, agents, searchSet, config, learner, promisedConfig, configCrossed,
                   lost, actionUpsets>>

(* A key of a search provider switches that provider on when there is      *)
(* none.                                                                   *)
SetProvider ==
    /\ work.at = "provider" \/ Applies({"provider"})
    /\ searchSet' = TRUE /\ Goes("mark")
    /\ IF action[work.action].kind = "provider" THEN Takes(work.action) ELSE UNCHANGED effects
    /\ UNCHANGED <<action, approval, request, agents, secrets, config, learner, promisedConfig, configCrossed,
                   lost, actionUpsets>>

(* markOperatorActionStatus                                                *)
Mark ==
    /\ work.at = "mark" /\ MarkApplied(work.action) /\ work' = NoWork
    /\ UNCHANGED <<approval, request, world, books>>

-----------------------------------------------------------------------------
(* A decision: the pending step is read, the plugins are told, the step is *)
(* decided, the plugins are told again, and the effects are applied.       *)
FreeRequests == {q \in OperatorRequests : request[q].at = "idle"}

Receive(a, says) ==
    /\ work.at = "free" /\ FreeRequests # {} /\ approval[a] = "pending"
    /\ request' = [request EXCEPT ![CHOOSE q \in FreeRequests : TRUE] = [at |-> "before", action |-> a, says |-> says]]
    /\ UNCHANGED <<action, approval, work, world, books>>

Turn(q, at) == work.at = "free" /\ request[q].at = at
Leaves(q) == request' = [request EXCEPT ![q] = NoRequest]

(* Mutant: the step is not looked at again after the await.                *)
StillPending(a) == TRUE

(* decideApprovalWorkflowStep throws when the step was decided meanwhile.  *)
Decidable(a) == approval[a] = "pending"

DecideAction(q) ==
    LET a == request[q].action
    IN  /\ Turn(q, "before")
        /\ IF Decidable(a)
           THEN /\ approval' = [approval EXCEPT ![a] = request[q].says]
                /\ request' = [request EXCEPT ![q].at = "after"]
           ELSE Leaves(q) /\ UNCHANGED approval
        /\ UNCHANGED <<action, work, world, books>>

(* applyApprovalDecisionEffects, of the approval as the decision left it.  *)
Reject(q) ==
    /\ Turn(q, "after") /\ request[q].says = "rejected" /\ Leaves(q)
    /\ action' = [action EXCEPT ![request[q].action].status = "rejected"]
    /\ UNCHANGED <<approval, work, world, books>>

Approve(q) ==
    /\ Turn(q, "after") /\ request[q].says = "approved"
    /\ IF action[request[q].action].kind = "mail"
       THEN request' = [request EXCEPT ![q].at = "sending"] /\ UNCHANGED work
       ELSE Leaves(q) /\ work' = [NoWork EXCEPT !.at = "apply", !.action = request[q].action]
    /\ UNCHANGED <<action, approval, world, books>>

(* sendApprovedEmail: the server takes the mail, or refuses it, or is no   *)
(* longer configured.                                                      *)
MailGoesOut(q) ==
    /\ request[q].at = "sending" /\ request' = [request EXCEPT ![q].at = "sent"]
    /\ Takes(request[q].action)
    /\ UNCHANGED <<action, approval, work, world, lost, actionUpsets>>

MailRefused(q) ==
    /\ request[q].at = "sending" /\ ActionUpset("refuse") /\ Leaves(q)
    /\ lost' = lost \cup {request[q].action}
    /\ UNCHANGED <<action, approval, work, world, effects>>

MarkMail(q) ==
    /\ Turn(q, "sent") /\ MarkApplied(request[q].action) /\ Leaves(q)
    /\ UNCHANGED <<approval, work, world, books>>

-----------------------------------------------------------------------------
(* The task runner rewrites the configuration when it has learned          *)
(* something.                                                              *)
LearnerReads ==
    /\ ~learner.writes /\ ActionUpset("learn") /\ learner' = [writes |-> TRUE, copy |-> config]
    /\ UNCHANGED <<action, approval, work, request, agents, secrets, searchSet, config, promisedConfig, configCrossed,
                   effects, lost>>

LearnerWrites ==
    /\ learner.writes /\ config' = learner.copy /\ learner' = NotLearning
    /\ configCrossed' = (configCrossed \/ work.at = "write")
    /\ UNCHANGED <<action, approval, work, request, agents, secrets, searchSet, promisedConfig, books>>

(* Mutant: a decision that is under way is not taken for lost.             *)
CutOffAtWork == {work.action} \ {NoAction}

\* What a crash of the orchestrator leaves unfinished.
CutOff == {a \in Actions : work.action = a
                           \/ \E q \in OperatorRequests : request[q].action = a /\ request[q].at # "before"}

StopOrchestrator ==
    /\ ActionUpset("crash") /\ (work # NoWork \/ \E q \in OperatorRequests : request[q] # NoRequest)
    /\ work' = NoWork /\ request' = [q \in OperatorRequests |-> NoRequest] /\ lost' = lost \cup CutOff
    /\ UNCHANGED <<action, approval, world, effects>>

-----------------------------------------------------------------------------
Applying == ApplyAdd \/ ApplyToAgent \/ ApplyToNobody \/ ReadConfig \/ WriteConfig \/ SetSecret \/ SetProvider \/ Mark
Deciding(q) == DecideAction(q) \/ Reject(q) \/ Approve(q) \/ MailGoesOut(q) \/ MarkMail(q)
Orchestrator == AskApproval \/ Applying \/ \E q \in OperatorRequests : Deciding(q)

OperatorNext ==
    \/ Orchestrator \/ StopOrchestrator \/ LearnerReads \/ LearnerWrites
    \/ \E k \in OperatorKinds, who \in Askers : Ask(k, who)
    \/ (\E q \in OperatorRequests : MailRefused(q))
    \/ \E a \in Actions, says \in {"approved", "rejected"} : Receive(a, says)

OperatorSpec == OperatorInit /\ [][OperatorNext]_operatorVars

OperatorFairSpec ==
    /\ OperatorSpec
    /\ WF_operatorVars(Orchestrator)

-----------------------------------------------------------------------------
(* An action changes something once and while it is pending, whoever       *)
(* decides it at the same time, and is called applied only when it did.    *)
EffectIsSingle ==
    [][\A a \in Actions :
        /\ effects'[a] # effects[a] => effects[a] = 0 /\ action[a].status = "pending"
        /\ action[a].status # "applied" /\ action'[a].status = "applied" => effects[a] = 1]_operatorVars

(* Nothing happens without consent: what is neither harmless nor asked for *)
(* by somebody who is trusted changes something only after an approval,    *)
(* and nothing that was rejected does.                                     *)
ConsentComesFirst ==
    [][\A a \in Actions : effects'[a] # effects[a] =>
        \/ approval[a] = "approved"
        \/ approval[a] = "none" /\ action[a].by \in Trusted
              /\ action[a].kind \in {"add", "remove", "tone", "key", "provider"}]_operatorVars

(* A search provider or a model is in force only with its key, in whatever *)
(* order they were asked for and approved.                                 *)
KeysComeFirst ==
    /\ searchSet => "search" \in secrets
    /\ config["model"] # NoAction => "model" \in secrets

(* The configuration holds what was applied last, unless the task runner   *)
(* was writing it at the same time.                                        *)
ChangesStand == ~configCrossed => config = promisedConfig

(* An action that is pending can still be decided, is being worked on, or  *)
(* was cut off.                                                            *)
NobodyIsForgotten ==
    \A a \in Actions : action[a].status = "pending" =>
        \/ approval[a] = "pending" \/ work.action = a \/ a \in lost
        \/ \E q \in OperatorRequests : request[q].action = a

(* Nothing happens without consent or twice, no key is missing, no change  *)
(* gets lost and no action is forgotten.                                   *)
OperatorsAreObeyed ==
    /\ EffectIsSingle
    /\ ConsentComesFirst
    /\ []KeysComeFirst
    /\ []ChangesStand
    /\ []NobodyIsForgotten

\* Every decision on an action has had its effect.
Obeyed ==
    \A a \in Actions : approval[a] \in {"approved", "rejected"} =>
        a \in lost \/ action[a].status # "pending"

(* Every decision reaches its action, unless it is cut off.                *)
DecisionsAreObeyed == []<>Obeyed
=============================================================================
