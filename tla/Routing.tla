------------------------------ MODULE Routing ------------------------------
(***************************************************************************)
(* Where a text goes (services/orchestrator: inbound-router-v2.ts,         *)
(* router-*.ts, routing-template-policy.ts, inbound-policy*.ts,            *)
(* intent-classifier.ts and what server.ts makes of them).  A new text is  *)
(* routed by a model whose answer is checked against the templates, with   *)
(* the keywords to fall back on; a text whose questions are answered is    *)
(* classified by a model that is held to the rules.  The templates may     *)
(* change while a model is asked.  A text is what the rules see in it.     *)
(***************************************************************************)
EXTENDS Naturals, FiniteSets

CONSTANTS
    Templates,  \* routing templates
    DefaultTemplates,   \* those that come with the program
    MaxEdits    \* bound: changes of the templates

RoutingAssumption == DefaultTemplates \subseteq Templates /\ MaxEdits \in Nat

VARIABLES
    words,       \* what the rules see in the text
    templates,  \* templates[x]: absent, off, or on
    listed,     \* the templates as they were when the text came
    router,     \* VINKO_ROUTER_V2_ENABLED, VINKO_ROUTER_V2_SHADOW_ONLY
    stage,      \* where the text is
    route,      \* the decision on it
    reply,      \* the answer of handleInboundMessage
    ordered,       \* the task that was made: single, with a review, of a team
    planned,    \* its collaboration plan has arrived
    edits

routingVars == <<words, templates, listed, router, stage, route, reply, ordered, planned, edits>>

TemplateStates == {"absent", "off", "on"}
NoTemplate == "none"
Intents == {"goalrun", "collaboration", "light_collaboration", "operator_config", "task"}
Levels == {"none", "light", "standard"}

Plain == [goal |-> "none", complex |-> FALSE, team |-> {}, form |-> "plain", long |-> FALSE,
          tail |-> "plain", keywordsOf |-> {}]
RoutedTexts == [goal : {"none", "smalltalk", "strong", "delivery", "build", "steps"}, complex : BOOLEAN,
          team : SUBSET {"optOut", "trigger", "work", "explicit"},
          form : {"plain", "document", "quick"}, long : BOOLEAN, tail : {"plain", "check", "config"},
          keywordsOf : SUBSET Templates]

(* What a router model may say.                                            *)
Answers == [mode : {"conversation", "task", "template", "goalrun", "collaboration", "operator_config"},
            template : Templates \cup {NoTemplate, "invented"}, level : Levels,
            clarify : {"no", "asks", "empty"}, knownRole : BOOLEAN, sure : BOOLEAN]
Fallback(mode, x) == [mode |-> mode, template |-> x, level |-> "none", clarify |-> "no",
                      knownRole |-> TRUE, sure |-> FALSE]
NoRoute == [by |-> "nobody", answer |-> Fallback("task", NoTemplate)]

RoutingTypeOK ==
    /\ words \in RoutedTexts /\ templates \in [Templates -> TemplateStates] /\ listed \in [Templates -> TemplateStates]
    /\ router \in {"on", "off", "shadow"}
    /\ stage \in {"new", "answered", "routed", "clarify", "replied"}
    /\ route.by \in {"nobody", "llm", "fallback", "classifier"}
    /\ reply \in {"none", "question", "template", "goal", "answered", "config", "task", "lost"}
    /\ ordered \in {"none", "single", "light", "team"} /\ planned \in BOOLEAN
    /\ edits \in 0..MaxEdits

(* Either a new text, or one whose questions were answered.                *)
RoutingInit ==
    /\ \/ stage = "new" /\ router \in {"on", "off", "shadow"}
          /\ words \in {[Plain EXCEPT !.keywordsOf = k] : k \in SUBSET Templates}
       \/ stage = "answered" /\ router = "on" /\ words \in {t \in RoutedTexts : t.keywordsOf = {}}
    /\ templates = [x \in Templates |-> "on"] /\ listed = templates
    /\ route = NoRoute /\ reply = "none" /\ ordered = "none" /\ planned = FALSE /\ edits = 0

-----------------------------------------------------------------------------
(* The rules.  evaluateGoalRunRouting                                      *)
IsGoal(t) ==
    \/ t.goal = "strong"
    \/ t.goal \in {"delivery", "build", "steps"} /\ t.complex

(* shouldUseTeamCollaboration                                              *)
IsTeamWork(t) ==
    /\ "optOut" \notin t.team
    /\ \/ "trigger" \in t.team
       \/ /\ "work" \in t.team /\ t.form # "quick"
          /\ t.form = "document" => "explicit" \in t.team
          /\ "explicit" \in t.team \/ t.long

(* evaluateInboundIntentPolicy                                             *)
Rules(t) ==
    CASE IsGoal(t) -> "goalrun"
      [] ~IsGoal(t) /\ IsTeamWork(t) -> "collaboration"
      [] ~IsGoal(t) /\ ~IsTeamWork(t) /\ t.tail = "check" -> "light_collaboration"
      [] ~IsGoal(t) /\ ~IsTeamWork(t) /\ t.tail = "config" -> "operator_config"
      [] OTHER -> "task"

(* Mutant: the model is taken at its word. *)
TakenAtItsWord(intent, t) == intent

(* normalizeModelInboundIntent                                             *)
HeldToRules(intent, t) ==
    IF intent = "collaboration" /\ "explicit" \notin t.team
    THEN IF Rules(t) = "collaboration" THEN "task" ELSE Rules(t)
    ELSE IF intent = "goalrun" /\ ~IsGoal(t) THEN Rules(t) ELSE intent

(* classifyInboundIntentDecision: a model that fails leaves it to the      *)
(* rules.                                                                  *)
Classify ==
    /\ stage = "answered" /\ stage' = "routed"
    /\ \E intent \in {HeldToRules(i, words) : i \in Intents} \cup {Rules(words)} :
          route' = [by |-> "classifier", answer |->
              [Fallback(intent, NoTemplate) EXCEPT
                  !.mode = IF intent = "light_collaboration" THEN "task" ELSE intent,
                  !.level = IF intent = "light_collaboration" THEN "light" ELSE "none"]]
    /\ UNCHANGED <<words, templates, listed, router, reply, ordered, planned, edits>>

-----------------------------------------------------------------------------
(* The router.  selectRoutingTemplateDecision: an enabled template whose   *)
(* keywords, or learned hints, are in the text.                            *)
Matching == {x \in words.keywordsOf : listed[x] = "on"}

Legacy == IF Matching = {} THEN {Fallback("task", NoTemplate)}
          ELSE {Fallback("template", x) : x \in Matching}

(* Mutant: a template only has to exist. *)
ValidIfKnown(a) ==
    /\ a.knownRole
    /\ a.mode = "template" => a.template \in Templates
    /\ a.mode # "operator_config" => a.clarify # "empty"

(* validateRouterDecision; a template without tasks is refused like one    *)
(* that is off.                                                            *)
Valid(a) ==
    /\ a.knownRole
    /\ a.mode = "template" => a.template \in Templates /\ listed[a.template] = "on"
    /\ a.mode # "operator_config" => a.clarify # "empty"

(* routeInboundWithRouterV2: an answer that cannot be read, is not valid   *)
(* or not sure enough leaves it to the keywords.                           *)
Route ==
    /\ stage = "new" /\ stage' = "routed"
    /\ \/ \E a \in Legacy : route' = [by |-> "fallback", answer |-> a]
       \/ /\ router = "on"
          /\ \E a \in Answers :
                /\ a.mode # "template" => a.template = NoTemplate
                /\ Valid(a) /\ a.sure
                /\ route' = [by |-> "llm", answer |-> a]
    /\ UNCHANGED <<words, templates, listed, router, reply, ordered, planned, edits>>

-----------------------------------------------------------------------------
(* What handleInboundMessage makes of the decision; the text is done with. *)
ReplyWith(r, t) ==
    /\ stage' = "replied" /\ reply' = r /\ ordered' = t
    /\ words' = Plain /\ route' = NoRoute /\ listed' = templates /\ router' = "on"
    /\ UNCHANGED <<templates, planned, edits>>

AskBack ==
    /\ stage = "routed" /\ route.answer.clarify = "asks"
    /\ ReplyWith("question", "none")

(* Mutant: the template is used as it was listed. *)
InUseAsListed(x) == listed[x] = "on"

(* The template is looked up again after the model was asked.              *)
InUse(x) == templates[x] = "on"

(* Mutant: a template that is gone meanwhile has no branch of its own.     *)
UseTemplateOnly ==
    /\ stage = "routed" /\ route.answer.clarify # "asks" /\ route.answer.mode = "template"
    /\ InUse(route.answer.template) /\ ReplyWith("template", "none")

UseTemplate ==
    /\ stage = "routed" /\ route.answer.clarify # "asks" /\ route.answer.mode = "template"
    /\ IF InUse(route.answer.template) THEN ReplyWith("template", "none")
       ELSE /\ stage' = "clarify"
            /\ UNCHANGED <<words, templates, listed, router, route, reply, ordered, planned, edits>>

(* analyzeIntakeClarity; then there is no route left.                      *)
NoWay ==
    /\ stage = "clarify"
    /\ ReplyWith("question", "none") \/ ReplyWith("lost", "none")

(* A task, of a team when the mode or the level asks for it and            *)
(* collaboration is enabled, as it is here. For a chat with a goal run in  *)
(* flight the answer is about that one instead of a new goal: see Inbound. *)
Execute ==
    /\ stage = "routed" /\ route.answer.clarify # "asks"
    /\ CASE route.answer.mode = "goalrun" -> ReplyWith("goal", "none")
         [] route.answer.mode = "conversation" -> ReplyWith("answered", "none")
         [] route.answer.mode = "operator_config" -> ReplyWith("config", "none")
         [] route.answer.mode \in {"task", "collaboration"} ->
              ReplyWith("task", IF route.answer.mode = "collaboration" \/ route.answer.level = "standard"
                             THEN "team" ELSE IF route.answer.level = "light" THEN "light" ELSE "single")
         [] OTHER -> FALSE

(* applyCollaborationPlanToTask, when there is a task and                  *)
(* analyzeCollaborationNeed has answered (short texts are trivial, a model *)
(* that fails leaves it to the rules): a plan adds to what the router      *)
(* said.                                                                   *)
ApplyPlan ==
    /\ ~planned /\ ordered # "none" /\ planned' = TRUE
    /\ \E level \in Levels :
          ordered' = CASE level = "standard" -> "team"
                    [] level = "light" /\ ordered = "single" -> "light"
                    [] OTHER -> ordered
    /\ UNCHANGED <<words, templates, listed, router, stage, route, reply, edits>>

(* The routes and chat commands on templates; every process that opens the *)
(* store brings missing defaults back.  Bound: while a router is at work.  *)
Edit ==
    /\ edits < MaxEdits /\ edits' = edits + 1
    /\ stage = "new" \/ route.by \in {"llm", "fallback"}
    /\ \/ \E x \in Templates, s \in TemplateStates : templates' = [templates EXCEPT ![x] = s]
       \/ templates' = [x \in Templates |->
              IF x \in DefaultTemplates /\ templates[x] = "absent" THEN "on" ELSE templates[x]]
    /\ templates' # templates
    /\ UNCHANGED <<words, listed, router, stage, route, reply, ordered, planned>>

(* The list is read when the router is called.                             *)
List ==
    /\ stage = "new" /\ listed # templates /\ listed' = templates
    /\ UNCHANGED <<words, templates, router, stage, route, reply, ordered, planned, edits>>

RoutingStep == Classify \/ Route \/ AskBack \/ UseTemplate \/ NoWay \/ Execute \/ ApplyPlan

RoutingNext == RoutingStep \/ Edit \/ List

RoutingSpec == RoutingInit /\ [][RoutingNext]_routingVars

RoutingFairSpec ==
    /\ RoutingSpec
    /\ WF_routingVars(RoutingStep)

-----------------------------------------------------------------------------
(* What a model says of a clarified text counts only as far as the rules   *)
(* bear it out: a goal run needs the signs of one, a team an explicit word *)
(* or a rule.                                                              *)
ClassifierIsHeld ==
    route.by = "classifier" =>
        /\ route.answer.mode = "goalrun" => IsGoal(words)
        /\ route.answer.mode = "collaboration" => "explicit" \in words.team \/ IsTeamWork(words)

(* Tasks are made from a template only when it is enabled at that moment,  *)
(* though it was chosen before a model was asked.                          *)
TemplatesAreCurrent ==
    [][reply' = "template" /\ reply = "none" => templates[route.answer.template] = "on"]_routingVars

(* A template the router names is one that was offered to it.              *)
TemplatesAreOffered ==
    route.answer.mode = "template" => listed[route.answer.template] = "on"

(* A model is held to the rules, and templates are offered, chosen and     *)
(* used only while they are enabled.                                       *)
RoutesAreSound ==
    /\ []ClassifierIsHeld
    /\ []TemplatesAreOffered
    /\ TemplatesAreCurrent

(* Every text is answered, and a task that is made gets its plan.          *)
Routed == stage = "replied" /\ (ordered # "none" => planned)
TextsAreRouted == []<>Routed
=============================================================================
