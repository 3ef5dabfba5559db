---------------------------- MODULE ServicesProofs ----------------------------
(***************************************************************************)
(* The components around the queue, one beside the other: every behaviour  *)
(* of the module that holds them all is a behaviour of each of them, so    *)
(* that what is proved of a component alone is true of it there.           *)
(***************************************************************************)
EXTENDS MCServices, ChannelProofs, ExecutionProofs, OwnerProofs

(* ToolApproval with the instance of MCServices, and what is proved of it. *)
Proved == INSTANCE ToolApprovalProofs WITH
    task <- gateTask, risk <- gateRisk, run <- gateRun, approval <- gateApproval,
    steps <- gateSteps, slot <- gateSlot, request <- gateRequest, faults <- gateFaults,
    effects <- gateEffects, Slots <- {"w1", "w2"}, Requests <- {"q1", "q2"}, Runs <- {"run1", "run2"},
    Approvals <- {"a1", "a2"}, MaxSteps <- 1, Risks <- {"low", "high"}, NoRun <- "none",
    NoApproval <- "none", Hazards <- {"slow"}, MaxFaults <- 2

(* Every behaviour starts where each of the components does.               *)
LEMMA PartsStart ==
    ASSUME MCInit
    PROVE  /\ ReviewInit /\ SignInInit /\ ConsoleInit /\ AgentInit /\ MailInit /\ InboundInit
           /\ EvolutionInit /\ FeishuInit /\ CardInit /\ RoutingInit /\ SkillsInit /\ ActionsInit
           /\ DeliveryInit /\ CommandInit /\ FollowUpsInit /\ PluginsInit /\ Init /\ Gate!Init
           /\ OperatorInit
  BY DEF MCInit

(* A step of one component leaves the variables of all the others alone.   *)
LEMMA PartsStep ==
    ASSUME [MCNext]_mcVars
    PROVE  /\ [ReviewNext]_reviewVars /\ [SignInNext]_signInVars /\ [ConsoleNext]_consoleVars
           /\ [AgentStep]_agentVars /\ [MailNext]_mailVars /\ [InboundNext]_inboundVars
           /\ [EvolutionNext]_evolutionVars /\ [FeishuNext]_feishuVars /\ [CardNext]_cardVars
           /\ [RoutingNext]_routingVars /\ [SkillsNext]_skillVars /\ [ActionsNext]_actionVars
           /\ [DeliveryNext]_deliveryVars /\ [CommandNext]_commandVars
           /\ [FollowUpsNext]_followUpVars /\ [PluginsNext]_pluginVars /\ [Next]_vars
           /\ [Gate!Next]_gateVars /\ [OperatorNext]_operatorVars
  BY DEF MCNext, mcVars, teamVars, OnlyReview, OnlyAuth, OnlyView, OnlyAgent, OnlyMail, OnlyIn, OnlyEvo,
         OnlyFeishu, OnlyCard, OnlyRoute, OnlySkill, OnlyAct, OnlyFounder, OnlyTool, OnlyCrm, OnlyPlug,
         OnlyTeam, OnlyGate, OnlyOp

(* The two instances are one: MCServices takes ToolApproval as it is, and  *)
(* the facts come with its proofs.                                         *)
LEMMA OneGate ==
    /\ Gate!Init <=> Proved!Init
    /\ [Gate!Next]_gateVars <=> [Proved!Next]_Proved!vars
    /\ Gate!TypeOK <=> Proved!TypeOK
  <1> USE DEF Gate!AllHazards, Proved!AllHazards, Gate!TaskStatus, Proved!TaskStatus, Gate!NoRow,
              Proved!NoRow, Gate!IdleSlot, Proved!IdleSlot, Gate!IdleRequest, Proved!IdleRequest,
              Gate!Fault, Proved!Fault, Gate!Active, Proved!Active, Gate!TaskEnded,
              Proved!TaskEnded, Gate!PendingSteps, Proved!PendingSteps, Gate!Goto, Proved!Goto,
              Gate!Leave, Proved!Leave, Gate!Executable, Proved!Executable, Gate!Opened,
              Proved!Opened, Gate!Concludes, Proved!Concludes, Gate!ApplyApproval,
              Proved!ApplyApproval
  <1>1. \A w :
        /\ Gate!Claim(w) <=> Proved!Claim(w)
        /\ Gate!AutoApprove(w) <=> Proved!AutoApprove(w)
        /\ Gate!OpenWorkflow(w) <=> Proved!OpenWorkflow(w)
        /\ Gate!MarkToolRunApprovalPending(w) <=> Proved!MarkToolRunApprovalPending(w)
    BY DEF Gate!Claim, Proved!Claim, Gate!AutoApprove, Proved!AutoApprove, Gate!OpenWorkflow,
           Proved!OpenWorkflow, Gate!MarkToolRunApprovalPending, Proved!MarkToolRunApprovalPending
  <1>2. \A w :
        /\ Gate!MarkTaskWaitingApproval(w) <=> Proved!MarkTaskWaitingApproval(w)
        /\ Gate!StartToolRun(w) <=> Proved!StartToolRun(w)
        /\ Gate!EndToolRun(w) <=> Proved!EndToolRun(w)
        /\ Gate!Deliver(w) <=> Proved!Deliver(w)
    BY DEF Gate!MarkTaskWaitingApproval, Proved!MarkTaskWaitingApproval, Gate!StartToolRun,
           Proved!StartToolRun, Gate!EndToolRun, Proved!EndToolRun, Gate!Deliver, Proved!Deliver
  <1>3. \A w :
        /\ Gate!GiveUp(w) <=> Proved!GiveUp(w)
        /\ Gate!Throw(w) <=> Proved!Throw(w)
        /\ Gate!CrashRunner(w) <=> Proved!CrashRunner(w)
    BY DEF Gate!GiveUp, Proved!GiveUp, Gate!Throw, Proved!Throw, Gate!CrashRunner,
           Proved!CrashRunner
  <1>4. \A w, r :
        /\ Gate!PickQueuedRun(w, r) <=> Proved!PickQueuedRun(w, r)
        /\ Gate!CreateToolRun(w, r) <=> Proved!CreateToolRun(w, r)
    BY DEF Gate!PickQueuedRun, Proved!PickQueuedRun, Gate!CreateToolRun, Proved!CreateToolRun
  <1>5. \A w, a : Gate!CreateApproval(w, a) <=> Proved!CreateApproval(w, a)
    BY DEF Gate!CreateApproval, Proved!CreateApproval
  <1>6. /\ Gate!RecoverStaleTask <=> Proved!RecoverStaleTask
        /\ Gate!ExpireWaitingTask <=> Proved!ExpireWaitingTask
        /\ Gate!CancelTask <=> Proved!CancelTask
        /\ Gate!CrashOrchestrator <=> Proved!CrashOrchestrator
    BY DEF Gate!RecoverStaleTask, Proved!RecoverStaleTask, Gate!ExpireWaitingTask,
           Proved!ExpireWaitingTask, Gate!CancelTask, Proved!CancelTask, Gate!CrashOrchestrator,
           Proved!CrashOrchestrator
  <1>7. \A q :
        /\ Gate!DecideStep(q) <=> Proved!DecideStep(q)
        /\ Gate!ApplyToRuns(q) <=> Proved!ApplyToRuns(q)
        /\ Gate!ApplyToTask(q) <=> Proved!ApplyToTask(q)
    BY DEF Gate!DecideStep, Proved!DecideStep, Gate!ApplyToRuns, Proved!ApplyToRuns,
           Gate!ApplyToTask, Proved!ApplyToTask
  <1>8. \A q, a, i, v : Gate!ReceiveDecision(q, a, i, v) <=> Proved!ReceiveDecision(q, a, i, v)
    BY DEF Gate!ReceiveDecision, Proved!ReceiveDecision
  <1>9. \A r :
        /\ Gate!TimeOutRun(r) <=> Proved!TimeOutRun(r)
        /\ Gate!CleanOrphanRun(r) <=> Proved!CleanOrphanRun(r)
    BY DEF Gate!TimeOutRun, Proved!TimeOutRun, Gate!CleanOrphanRun, Proved!CleanOrphanRun
  <1>10. \A a : Gate!Escalate(a) <=> Proved!Escalate(a)
    BY DEF Gate!Escalate, Proved!Escalate
  <1>11. Gate!Next <=> Proved!Next
    BY <1>1, <1>2, <1>3, <1>4, <1>5, <1>6, <1>7, <1>8, <1>9, <1>10
       DEF Gate!Next, Proved!Next, Gate!SlotStep, Proved!SlotStep, Gate!RequestStep, Proved!RequestStep
  <1>12. Gate!Init <=> Proved!Init
    BY DEF Gate!Init, Proved!Init
  <1>13. Gate!TypeOK <=> Proved!TypeOK
    BY DEF Gate!TypeOK, Proved!TypeOK, Gate!TaskStatus, Proved!TaskStatus, Gate!RunStatus,
           Proved!RunStatus, Gate!Verdicts, Proved!Verdicts, Gate!RunRow, Proved!RunRow,
           Gate!SlotPc, Proved!SlotPc, Gate!SlotState, Proved!SlotState, Gate!RequestState,
           Proved!RequestState
  <1> QED BY <1>11, <1>12, <1>13 DEF gateVars, Proved!vars

(* The constants of the gate are as ToolApproval assumes them.             *)
LEMMA GateConstants == Proved!RiskAssumption /\ Proved!NullAssumption /\ Proved!BoundAssumption
  BY DEF Proved!AllHazards, Proved!RiskAssumption, Proved!NullAssumption, Proved!BoundAssumption

(* A behaviour of the services is one of each component by itself.         *)
THEOREM EveryPartBehaves ==
    MCSpec => /\ ReviewSpec /\ SignInSpec /\ ConsoleSpec /\ AgentSpec /\ MailSpec /\ InboundSpec
              /\ EvolutionSpec /\ FeishuSpec /\ CardSpec /\ RoutingSpec /\ SkillsSpec /\ ActionsSpec
              /\ DeliverySpec /\ CommandSpec /\ FollowUpsSpec /\ PluginsSpec /\ Spec /\ Proved!Spec
              /\ OperatorSpec
  BY PartsStart, PartsStep, OneGate, PTL
  DEF MCSpec, ReviewSpec, SignInSpec, ConsoleSpec, AgentSpec, MailSpec, InboundSpec, EvolutionSpec,
      FeishuSpec, CardSpec, RoutingSpec, SkillsSpec, ActionsSpec, DeliverySpec, CommandSpec,
      FollowUpsSpec, PluginsSpec, Spec, Proved!Spec, OperatorSpec

(* Every component keeps its types.                                        *)
THEOREM ServicesTypes == MCSpec => []ServicesTypeOK
  <1> USE PartsAssumption
  <1>1. MCSpec => []ReviewTypeOK BY EveryPartBehaves, ReviewTypes
  <1>2. MCSpec => []SignInTypeOK BY EveryPartBehaves, SignInTypes
  <1>3. MCSpec => []ConsoleTypeOK BY EveryPartBehaves, ConsoleTypes
  <1>4. MCSpec => []AgentTypeOK BY EveryPartBehaves, AgentTypes
  <1>5. MCSpec => []MailTypeOK BY EveryPartBehaves, MailTypes
  <1>6. MCSpec => []InboundTypeOK BY EveryPartBehaves, InboundTypes
  <1>7. MCSpec => []EvolutionTypeOK BY EveryPartBehaves, EvolutionTypes
  <1>8. MCSpec => []FeishuTypeOK BY EveryPartBehaves, FeishuTypes
  <1>9. MCSpec => []CardTypeOK BY EveryPartBehaves, CardTypes
  <1>10. MCSpec => []RoutingTypeOK BY EveryPartBehaves, RoutingTypes
  <1>11. MCSpec => []SkillsTypeOK BY EveryPartBehaves, SkillsTypes
  <1>12. MCSpec => []ActionsTypeOK BY EveryPartBehaves, SessionActionTypes
  <1>13. MCSpec => []DeliveryTypeOK BY EveryPartBehaves, DeliveryTypes
  <1>14. MCSpec => []CommandTypeOK BY EveryPartBehaves, CommandTypes
  <1>15. MCSpec => []FollowUpsTypeOK BY EveryPartBehaves, FollowUpTypes
  <1>16. MCSpec => []PluginsTypeOK BY EveryPartBehaves, PluginTypes
  <1>17. MCSpec => []TypeOK BY EveryPartBehaves, TypeCorrect
  <1>18. MCSpec => []Gate!TypeOK
    <2>1. Proved!Typed => Gate!TypeOK BY OneGate DEF Proved!Typed
    <2> QED BY <2>1, EveryPartBehaves, GateConstants, Proved!Types, PTL
  <1>19. MCSpec => []OperatorTypeOK BY EveryPartBehaves, OperatorTypes
  <1> QED
    BY <1>1, <1>2, <1>3, <1>4, <1>5, <1>6, <1>7, <1>8, <1>9, <1>10, <1>11, <1>12, <1>13, <1>14,
       <1>15, <1>16, <1>17, <1>18, <1>19, PTL DEF ServicesTypeOK

(* E-mails, panes, session actions and leads come out right.               *)
THEOREM OutcomesAreAlwaysRight == MCSpec => OutcomesAreRight
  <1> USE PartsAssumption
  <1>1. MCSpec => []HandledOnce BY EveryPartBehaves, MailIsHandledOnce
  <1>2. MCSpec => []ConsoleIsRight BY EveryPartBehaves, ConsoleIsAlwaysRight
  <1>3. MCSpec => ActionsAreAnswered BY EveryPartBehaves, ActionsAreAlwaysAnswered
  <1>4. MCSpec => LeadsAreKept BY EveryPartBehaves, LeadsAreAlwaysKept
  <1> QED BY <1>1, <1>2, <1>3, <1>4 DEF OutcomesAreRight

(* High-risk runs wait for the owner, and a completed task stays           *)
(* completed.                                                              *)
THEOREM ToolsAlwaysObeyTheGate == MCSpec => ToolsObeyTheGate
  <1>1. MCSpec => Proved!HighRiskNeedsOwner
    BY EveryPartBehaves, GateConstants, Proved!HighRiskNeedsTheOwner
  <1>2. MCSpec => Proved!CompletedStays
    BY EveryPartBehaves, GateConstants, Proved!CompletedIsFinal
  <1>3. Gate!HighRiskNeedsOwner <=> Proved!HighRiskNeedsOwner
    BY DEF Gate!HighRiskNeedsOwner, Proved!HighRiskNeedsOwner, Gate!StartToolRun, Proved!StartToolRun,
           Gate!ApprovedByOwner, Proved!ApprovedByOwner, Gate!vars, Proved!vars,
           Gate!IdleSlot, Proved!IdleSlot, Gate!Goto, Proved!Goto
  <1>4. Gate!CompletedStays <=> Proved!CompletedStays
    BY DEF Gate!CompletedStays, Proved!CompletedStays, Gate!vars, Proved!vars
  <1> QED BY <1>1, <1>2, <1>3, <1>4 DEF ToolsObeyTheGate

(* Side by side the components do what each of them owes: messages, cards, *)
(* sign-in, routing, the agent, skills, plugins, reviews, stages, tools,   *)
(* teams, operator actions and learning.  A question finds its answer when *)
(* there is one chat: with two, the latest paused task hides the other.    *)
THEOREM ServicesAreSound ==
    ASSUME \A c, d \in Chats : c = d
    PROVE  MCSpec => /\ [](MessageHandledOnce /\ StepDecidedOnce /\ AnswersAreSound)
                     /\ [](ReviewsAreBounded /\ PluginsFollowTheOwner /\ LearningIsAccountable)
                     /\ SessionIsKept /\ RoutesAreSound /\ MessagesFindTheirWork /\ VerdictsAreTrue
                     /\ StagesAreTrue /\ CommandsAreSound /\ TeamsMergeOnce /\ RoundImplemented
                     /\ OperatorsAreObeyed
  <1> USE PartsAssumption
  <1>1. MCSpec => []MessageHandledOnce BY EveryPartBehaves, FeishuHandlesOnce
  <1>2. MCSpec => []StepDecidedOnce BY EveryPartBehaves, CardsDecideOnce
  <1>3. MCSpec => []AnswersAreSound BY EveryPartBehaves, AgentAnswersSoundly
  <1>4. MCSpec => []ReviewsAreBounded BY EveryPartBehaves, ReviewsAlwaysBounded
  <1>5. MCSpec => []PluginsFollowTheOwner BY EveryPartBehaves, PluginsAlwaysFollow
  <1>6. MCSpec => []LearningIsAccountable BY EveryPartBehaves, LearningIsAlwaysAccountable
  <1>7. MCSpec => SessionIsKept BY EveryPartBehaves, SignInKeepsSession
  <1>8. MCSpec => RoutesAreSound BY EveryPartBehaves, RoutesAreAlwaysSound
  <1>9. MCSpec => MessagesFindTheirWork BY EveryPartBehaves, MessagesAlwaysFindTheirWork
  <1>10. MCSpec => VerdictsAreTrue BY EveryPartBehaves, VerdictsAreAlwaysTrue
  <1>11. MCSpec => StagesAreTrue BY EveryPartBehaves, StagesAreAlwaysTrue
  <1>12. MCSpec => CommandsAreSound BY EveryPartBehaves, CommandsAreAlwaysSound
  <1>13. MCSpec => TeamsMergeOnce BY EveryPartBehaves, TeamsAlwaysMergeOnce
  <1>14. MCSpec => RoundImplemented BY EveryPartBehaves, RoundIsImplemented
  <1>15. MCSpec => OperatorsAreObeyed BY EveryPartBehaves, OperatorsAreAlwaysObeyed
  <1> QED
    BY <1>1, <1>2, <1>3, <1>4, <1>5, <1>6, <1>7, <1>8, <1>9, <1>10, <1>11, <1>12, <1>13, <1>14,
       <1>15, PTL
=============================================================================
