----------------------------- MODULE MCServices -----------------------------
(***************************************************************************)
(* Small instances for TLC of the components around the queue.  They       *)
(* share no state, so one module holds them all: a behaviour is about one  *)
(* of them, its part, and the variables of the others keep their initial   *)
(* values.  Their modules are extended, so that the runs check the very    *)
(* definitions the proofs are about; ToolApproval, which has runs of its   *)
(* own, is instantiated.                                                   *)
(* What must happen again and again ([]<>) is asked of the part only       *)
(* where the initial state of the others does not fulfil it.               *)
(***************************************************************************)
EXTENDS LightReview, SignIn, Console, AgentLoop, Inbound, FeishuMessages, FeishuCards, Routing,
        Skills, SessionActions, Delivery, ToolCommand, FollowUps, Plugins, OperatorActions,
        Evolution, Collaboration, MailIntake, TLC

CONSTANT Parts   \* the components of this run

VARIABLE part    \* the component that this behaviour is about

VARIABLES
    gateTask, gateRisk, gateRun, gateApproval, gateSteps, gateSlot, gateRequest, gateFaults, gateEffects

gateVars == <<gateTask, gateRisk, gateRun, gateApproval, gateSteps, gateSlot, gateRequest, gateFaults, gateEffects>>
teamVars == vars

(* The constants of Evolution: one signal more of each kind is enough for  *)
(* every proposal.                                                         *)
SignalEmitter == [fallback |-> "orchestrator", unsure |-> "runner", clarify |-> "orchestrator"]
SignalsKnown == [fallback |-> 2, unsure |-> 1, clarify |-> 1]

(* Of LightReview: four drafts.                                            *)
FourDrafts == 1..4

(* Of ToolCommand: two tools to try, limits of three, one and two units of *)
(* time.                                                                   *)
TwoTools == <<"opencode", "codex">>
ClockLimits == [age |-> 3, quiet |-> 1, idle |-> 2]

(* Of FollowUps: a cadence of two days.                                    *)
TwoDays == [weekly |-> 2]

(* Of Plugins: two, in this order.                                         *)
TwoPlugins == <<"p", "q">>

(* Of MailIntake: four messages, of which a poll sees the latest.          *)
FourMails == <<"command", "broken", "log", "command">>

(* Of OperatorActions: what is asked for.                                  *)
AskedFor ==
    {<<"add", "owner">>, <<"add", "member">>, <<"remove", "member">>, <<"tone", "owner">>,
     <<"key", "owner">>, <<"provider", "member">>, <<"modelKey", "member">>,
     <<"model", "member">>, <<"channel", "owner">>, <<"mail", "owner">>}

\* Two slots, two runs and two concurrent requests; tools may be slow.
Gate == INSTANCE ToolApproval WITH
    task <- gateTask, risk <- gateRisk, run <- gateRun, approval <- gateApproval,
    steps <- gateSteps, slot <- gateSlot, request <- gateRequest, faults <- gateFaults,
    effects <- gateEffects, Slots <- {"w1", "w2"}, Requests <- {"q1", "q2"}, Runs <- {"run1", "run2"},
    Approvals <- {"a1", "a2"}, MaxSteps <- 1, Risks <- {"low", "high"}, NoRun <- "none",
    NoApproval <- "none", Hazards <- {"slow"}, MaxFaults <- 2

ASSUME PartsAssumption ==
    /\ ReviewAssumption
    /\ SignInAssumption
    /\ ConsoleAssumption
    /\ AgentAssumption
    /\ MailAssumption
    /\ InboundAssumption
    /\ EvolutionAssumption
    /\ FeishuAssumption
    /\ CardAssumption
    /\ RoutingAssumption
    /\ SkillsAssumption
    /\ ActionsAssumption
    /\ DeliveryAssumption
    /\ CommandAssumption
    /\ FollowUpsAssumption
    /\ PluginsAssumption
    /\ TeamAssumption
    /\ ActionAssumption

mcVars == <<part, reviewVars, signInVars, consoleVars, agentVars, mailVars, inboundVars, evolutionVars, feishuVars, cardVars, routingVars, skillVars, actionVars, deliveryVars, commandVars, followUpVars, pluginVars, teamVars, gateVars, operatorVars>>

MCInit ==
    /\ part \in Parts
    /\ ReviewInit
    /\ SignInInit
    /\ ConsoleInit
    /\ AgentInit /\ (part # "agent" => at = "start" /\ primary = "openai")
    /\ MailInit
    /\ InboundInit
    /\ EvolutionInit
    /\ FeishuInit
    /\ CardInit
    /\ RoutingInit /\ (part # "routing" => stage = "new" /\ router = "on" /\ words.keywordsOf = {})
    /\ SkillsInit /\ (part # "skills" => catalog["orchestrator"] /\ catalog["runner"])
    /\ ActionsInit
    /\ DeliveryInit
    /\ CommandInit /\ (part # "tool" => gate = [risk |-> "low", manual |-> FALSE] /\ approved)
    /\ FollowUpsInit
    /\ PluginsInit
    /\ Init
    /\ Gate!Init /\ (part # "gate" => gateRisk = "high")
    /\ OperatorInit

OnlyReview == part = "review" /\ UNCHANGED <<part, signInVars, consoleVars, agentVars, mailVars, inboundVars, evolutionVars, feishuVars, cardVars, routingVars, skillVars, actionVars, deliveryVars, commandVars, followUpVars, pluginVars, teamVars, gateVars, operatorVars>>
OnlyAuth == part = "signin" /\ UNCHANGED <<part, reviewVars, consoleVars, agentVars, mailVars, inboundVars, evolutionVars, feishuVars, cardVars, routingVars, skillVars, actionVars, deliveryVars, commandVars, followUpVars, pluginVars, teamVars, gateVars, operatorVars>>
OnlyView == part = "console" /\ UNCHANGED <<part, reviewVars, signInVars, agentVars, mailVars, inboundVars, evolutionVars, feishuVars, cardVars, routingVars, skillVars, actionVars, deliveryVars, commandVars, followUpVars, pluginVars, teamVars, gateVars, operatorVars>>
OnlyAgent == part = "agent" /\ UNCHANGED <<part, reviewVars, signInVars, consoleVars, mailVars, inboundVars, evolutionVars, feishuVars, cardVars, routingVars, skillVars, actionVars, deliveryVars, commandVars, followUpVars, pluginVars, teamVars, gateVars, operatorVars>>
OnlyMail == part = "mail" /\ UNCHANGED <<part, reviewVars, signInVars, consoleVars, agentVars, inboundVars, evolutionVars, feishuVars, cardVars, routingVars, skillVars, actionVars, deliveryVars, commandVars, followUpVars, pluginVars, teamVars, gateVars, operatorVars>>
OnlyIn == part = "inbound" /\ UNCHANGED <<part, reviewVars, signInVars, consoleVars, agentVars, mailVars, evolutionVars, feishuVars, cardVars, routingVars, skillVars, actionVars, deliveryVars, commandVars, followUpVars, pluginVars, teamVars, gateVars, operatorVars>>
OnlyEvo == part = "evolution" /\ UNCHANGED <<part, reviewVars, signInVars, consoleVars, agentVars, mailVars, inboundVars, feishuVars, cardVars, routingVars, skillVars, actionVars, deliveryVars, commandVars, followUpVars, pluginVars, teamVars, gateVars, operatorVars>>
OnlyFeishu == part = "messages" /\ UNCHANGED <<part, reviewVars, signInVars, consoleVars, agentVars, mailVars, inboundVars, evolutionVars, cardVars, routingVars, skillVars, actionVars, deliveryVars, commandVars, followUpVars, pluginVars, teamVars, gateVars, operatorVars>>
OnlyCard == part = "cards" /\ UNCHANGED <<part, reviewVars, signInVars, consoleVars, agentVars, mailVars, inboundVars, evolutionVars, feishuVars, routingVars, skillVars, actionVars, deliveryVars, commandVars, followUpVars, pluginVars, teamVars, gateVars, operatorVars>>
OnlyRoute == part = "routing" /\ UNCHANGED <<part, reviewVars, signInVars, consoleVars, agentVars, mailVars, inboundVars, evolutionVars, feishuVars, cardVars, skillVars, actionVars, deliveryVars, commandVars, followUpVars, pluginVars, teamVars, gateVars, operatorVars>>
OnlySkill == part = "skills" /\ UNCHANGED <<part, reviewVars, signInVars, consoleVars, agentVars, mailVars, inboundVars, evolutionVars, feishuVars, cardVars, routingVars, actionVars, deliveryVars, commandVars, followUpVars, pluginVars, teamVars, gateVars, operatorVars>>
OnlyAct == part = "actions" /\ UNCHANGED <<part, reviewVars, signInVars, consoleVars, agentVars, mailVars, inboundVars, evolutionVars, feishuVars, cardVars, routingVars, skillVars, deliveryVars, commandVars, followUpVars, pluginVars, teamVars, gateVars, operatorVars>>
OnlyFounder == part = "delivery" /\ UNCHANGED <<part, reviewVars, signInVars, consoleVars, agentVars, mailVars, inboundVars, evolutionVars, feishuVars, cardVars, routingVars, skillVars, actionVars, commandVars, followUpVars, pluginVars, teamVars, gateVars, operatorVars>>
OnlyTool == part = "tool" /\ UNCHANGED <<part, reviewVars, signInVars, consoleVars, agentVars, mailVars, inboundVars, evolutionVars, feishuVars, cardVars, routingVars, skillVars, actionVars, deliveryVars, followUpVars, pluginVars, teamVars, gateVars, operatorVars>>
OnlyCrm == part = "crm" /\ UNCHANGED <<part, reviewVars, signInVars, consoleVars, agentVars, mailVars, inboundVars, evolutionVars, feishuVars, cardVars, routingVars, skillVars, actionVars, deliveryVars, commandVars, pluginVars, teamVars, gateVars, operatorVars>>
OnlyPlug == part = "plugins" /\ UNCHANGED <<part, reviewVars, signInVars, consoleVars, agentVars, mailVars, inboundVars, evolutionVars, feishuVars, cardVars, routingVars, skillVars, actionVars, deliveryVars, commandVars, followUpVars, teamVars, gateVars, operatorVars>>
OnlyTeam == part = "team" /\ UNCHANGED <<part, reviewVars, signInVars, consoleVars, agentVars, mailVars, inboundVars, evolutionVars, feishuVars, cardVars, routingVars, skillVars, actionVars, deliveryVars, commandVars, followUpVars, pluginVars, gateVars, operatorVars>>
OnlyGate == part = "gate" /\ UNCHANGED <<part, reviewVars, signInVars, consoleVars, agentVars, mailVars, inboundVars, evolutionVars, feishuVars, cardVars, routingVars, skillVars, actionVars, deliveryVars, commandVars, followUpVars, pluginVars, teamVars, operatorVars>>
OnlyOp == part = "operator" /\ UNCHANGED <<part, reviewVars, signInVars, consoleVars, agentVars, mailVars, inboundVars, evolutionVars, feishuVars, cardVars, routingVars, skillVars, actionVars, deliveryVars, commandVars, followUpVars, pluginVars, teamVars, gateVars>>

MCNext ==
    \/ OnlyReview /\ ReviewNext
    \/ OnlyAuth /\ SignInNext
    \/ OnlyView /\ ConsoleNext
    \/ OnlyAgent /\ AgentStep
    \/ OnlyMail /\ MailNext
    \/ OnlyIn /\ InboundNext
    \/ OnlyEvo /\ EvolutionNext
    \/ OnlyFeishu /\ FeishuNext
    \/ OnlyCard /\ CardNext
    \/ OnlyRoute /\ RoutingNext
    \/ OnlySkill /\ SkillsNext
    \/ OnlyAct /\ ActionsNext
    \/ OnlyFounder /\ DeliveryNext
    \/ OnlyTool /\ CommandNext
    \/ OnlyCrm /\ FollowUpsNext
    \/ OnlyPlug /\ PluginsNext
    \/ OnlyTeam /\ Next
    \/ OnlyGate /\ Gate!Next
    \/ OnlyOp /\ OperatorNext

MCSpec == MCInit /\ [][MCNext]_mcVars

MCFairSpec ==
    /\ MCSpec
    /\ WF_reviewVars(part = "review" /\ Reviewing)
    /\ \A t \in Tabs : WF_signInVars(part = "signin" /\ PageStep(t))
    /\ WF_consoleVars(part = "console" /\ Refresh)
    /\ WF_consoleVars(part = "console" /\ asked # <<>> /\ Arrives(1))
    /\ WF_agentVars(part = "agent" /\ AgentStep)
    /\ WF_mailVars(part = "mail" /\ Polling)
    /\ WF_mailVars(part = "mail" /\ CoolDown)
    /\ WF_mailVars(part = "mail" /\ ~enabled /\ Switch)
    /\ \A m \in Msgs : WF_inboundVars(part = "inbound" /\ Proceed(m))
    /\ \A m \in Messages : WF_feishuVars(part = "messages" /\ MessageStep(m))
    /\ \A m \in Messages : WF_feishuVars(part = "messages" /\ Deliver(m))
    /\ WF_cardVars(part = "cards" /\ Handlers)
    /\ WF_routingVars(part = "routing" /\ RoutingStep)
    /\ \A n \in Installations : WF_skillVars(part = "skills" /\ Run(n))
    /\ WF_skillVars(part = "skills" /\ EndIntegration)
    /\ WF_actionVars(part = "actions" /\ Handling)
    /\ WF_actionVars(part = "actions" /\ PollTimeline)
    /\ WF_deliveryVars(part = "delivery" /\ Sync)
    /\ WF_deliveryVars(part = "delivery" /\ \E n \in DOMAIN rows : Working(n))
    /\ WF_commandVars(part = "tool" /\ Timers)
    /\ WF_commandVars(part = "tool" /\ Slot)
    /\ WF_commandVars(part = "tool" /\ System)
    /\ WF_followUpVars(part = "crm" /\ RunDue)
    /\ WF_followUpVars(part = "crm" /\ FollowUpStep)
    /\ WF_pluginVars(part = "plugins" /\ Process)
    /\ WF_pluginVars(part = "plugins" /\ Emission)
    /\ \A t \in Tasks : WF_teamVars(part = "team" /\ (SlotStep(t) \/ SweepStep(t)))
    /\ WF_teamVars(part = "team" /\ \E t \in Tasks : Claim(t))
    /\ WF_operatorVars(part = "operator" /\ Orchestrator)

-----------------------------------------------------------------------------
(* Every part keeps its types.                                             *)
ServicesTypeOK ==
    /\ ReviewTypeOK
    /\ SignInTypeOK
    /\ ConsoleTypeOK
    /\ AgentTypeOK
    /\ MailTypeOK
    /\ InboundTypeOK
    /\ EvolutionTypeOK
    /\ FeishuTypeOK
    /\ CardTypeOK
    /\ RoutingTypeOK
    /\ SkillsTypeOK
    /\ ActionsTypeOK
    /\ DeliveryTypeOK
    /\ CommandTypeOK
    /\ FollowUpsTypeOK
    /\ PluginsTypeOK
    /\ TypeOK
    /\ Gate!TypeOK
    /\ OperatorTypeOK

(* What was done is right: the e-mail worker handles a message once, but   *)
(* for what goes wrong after it was sent; once every answer is in, the     *)
(* panes show what is selected; an action that is named runs once and is   *)
(* told of; a lead is followed up without a burst.                         *)
OutcomesAreRight ==
    /\ []HandledOnce
    /\ []ConsoleIsRight
    /\ ActionsAreAnswered
    /\ LeadsAreKept

(* Whoever waits is served: an e-mail and a Feishu message are handled in  *)
(* the end, a step of an approval reaches its approvers, every text that   *)
(* is routed is answered, no tab is sent back and forth between two pages  *)
(* for ever, a goal run is shown whatever overtook what, and the viewer    *)
(* sees what came of an action.                                            *)
PeopleAreServed ==
    /\ MailIsHandled
    /\ MessagesAreHandled
    /\ \A s \in WorkflowSteps : []<>(part = "cards" => Pushed(s))
    /\ []<>(part = "routing" => Routed)
    /\ \A t \in Tabs : []<>(part = "signin" => Still(t))
    /\ GoalIsShown
    /\ TimelineIsFollowed

(* What was begun is brought to an end: a result is judged, a model        *)
(* answers, a skill is verified, a workflow and a tool conclude, a lead    *)
(* that is due is followed up, no decision waits for a plugin for ever, a  *)
(* team answers its boss, and every decision reaches its operator action.  *)
WorkConcludes ==
    /\ ResultsAreJudged
    /\ []<>(part = "agent" => Ended)
    /\ VerdictArrives
    /\ []<>(part = "delivery" => Concluded)
    /\ []<>(part = "tool" => Settled)
    /\ DueIsFollowedUp
    /\ DecisionsGoOn
    /\ []<>(part = "team" => Answered)
    /\ DecisionsAreObeyed

(* Two slots and two requests: high-risk runs start only when the owner    *)
(* has approved them, and a completed task is not reopened.                *)
ToolsObeyTheGate ==
    /\ Gate!HighRiskNeedsOwner
    /\ Gate!CompletedStays

=============================================================================
