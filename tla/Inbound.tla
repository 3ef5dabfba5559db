------------------------------ MODULE Inbound ------------------------------
(***************************************************************************)
(* handleInboundMessage (services/orchestrator/src/server.ts): what becomes*)
(* of the messages of one user.  A message is taken for the first thing it *)
(* can be, in a fixed order; the later decisions wait for a language model,*)
(* and other messages are handled meanwhile.                               *)
(***************************************************************************)
EXTENDS Naturals, Sequences, FiniteSets, SequencesExt

CONSTANTS
    MaxMsgs,    \* bound: messages
    Chats,      \* the user's chats, each with a session
    NoChat,
    MaxEvents   \* bound: questions of tasks, goal runs and teams to the user

Msgs == 1..MaxMsgs
NoMsg == 0

InboundAssumption == MaxMsgs \in Nat /\ MaxEvents \in Nat /\ NoChat \notin Chats

(* What the parsers make of a text: a number after a skill search, a       *)
(* search for skills, a template to switch, an approval command,           *)
(* smalltalk, a question about progress, key:value pairs, direct           *)
(* conversation, an operator action, a skill to install, a request, one    *)
(* for a new goal.                                                         *)
Texts == {"number", "search", "switch", "decision", "smalltalk", "query", "values",
          "talk", "action", "install", "request", "another"}

VARIABLES
    place,      \* where each message is
    chat, text, \* its chat and kind
    effect,     \* what came of it: "answered" also with a task, an approval, a setting
    busy,       \* inFlightGoalRun, read when the message came
    offered,    \* the templates were enabled when the router was asked
    merged,     \* merged[m]: messages taken as the answer to the question about m
    question,   \* question[c]: the message of pendingClarification, or NoMsg
    search,     \* chats with pendingSkillSearch
    goal,       \* goal[c]: the latest goal run of the chat
    waitingTeams,       \* chats with a collaboration that awaits its user
    paused,     \* chats with a task in paused_input, the latest last
    usable,     \* the routing template is enabled
    crowd,      \* a message has come while another was under way
    events

inboundVars == <<place, chat, text, effect, busy, offered, merged, question, search, goal,
                 waitingTeams, paused, usable, crowd, events>>

MessagePlaces == {"unsent", "search", "clarified", "ambiguous", "install", "router", "intake", "done"}
Effects == {"none", "answered", "question", "goal", "template"}

InboundTypeOK ==
    /\ place \in [Msgs -> MessagePlaces] /\ chat \in [Msgs -> Chats \cup {NoChat}]
    /\ text \in [Msgs -> Texts \cup {"none"}] /\ effect \in [Msgs -> Effects]
    /\ busy \subseteq Msgs /\ offered \subseteq Msgs
    /\ merged \in [Msgs -> Nat]
    /\ question \in [Chats -> Msgs \cup {NoMsg}]
    /\ search \subseteq Chats /\ waitingTeams \subseteq Chats
    /\ goal \in [Chats -> {"none", "running", "awaiting"}]
    /\ paused \in Seq(Chats) /\ IsInjective(paused)
    /\ usable \in BOOLEAN /\ crowd \in BOOLEAN /\ events \in 0..MaxEvents

InboundInit ==
    /\ place = [m \in Msgs |-> "unsent"] /\ chat = [m \in Msgs |-> NoChat]
    /\ text = [m \in Msgs |-> "none"] /\ effect = [m \in Msgs |-> "none"]
    /\ busy = {} /\ offered = {} /\ merged = [m \in Msgs |-> 0]
    /\ question = [c \in Chats |-> NoMsg]
    /\ search = {} /\ waitingTeams = {} /\ paused = <<>>
    /\ goal = [c \in Chats |-> "none"]
    /\ usable = TRUE /\ crowd = FALSE /\ events = MaxEvents

(* finalize                                                                *)
ReplyTo(m, e) ==
    /\ place' = [place EXCEPT ![m] = "done"]
    /\ text' = [text EXCEPT ![m] = "none"]
    /\ effect' = [effect EXCEPT ![m] = e]
    /\ busy' = busy \ {m} /\ offered' = offered \ {m}

WaitAt(m, t, where) ==
    /\ place' = [place EXCEPT ![m] = where] /\ text' = [text EXCEPT ![m] = t]
    /\ UNCHANGED effect

(* getPausedTask: the user's latest paused task, if it is of this chat.    *)
PausedHere(c) == paused # <<>> /\ Last(paused) = c

(* Mutant: a question is taken up only while no goal run is under way.     *)
QuestionWhenIdle(c) == question[c] # NoMsg /\ goal[c] = "none"

QuestionOpen(c) == question[c] # NoMsg

Chooses(c, t) == t = "number" /\ c \in search
Decides(t) == t \in {"number", "decision"}
(* A query about a task that is at work is answered here as well, without  *)
(* a change; that answer is left out, and the query goes on as it does     *)
(* when nothing is at work.                                                *)
AsksProgress(c, t) == t = "query" /\ (goal[c] # "none" \/ c \in waitingTeams)
(* parseGoalRunInputFromText: key-value pairs, or as many segments as      *)
(* there are fields to fill.                                               *)
GivesValues(t) == t = "values"
GoalAwaits(c) == goal[c] = "awaiting"
GoalInFlight(c) == goal[c] = "running"
TeamAwaits(c) == c \in waitingTeams

(* What a message is, by the first test that fits: up to the direct        *)
(* conversation no test waits for anything. A signal to go on with a goal  *)
(* run in flight is answered without a change and is left out.             *)
FirstFit(c, t) ==
    IF Chooses(c, t) THEN "number"
    ELSE IF t \in {"search", "switch", "smalltalk"} THEN t
    ELSE IF Decides(t) THEN "decision"
    ELSE IF AsksProgress(c, t) THEN "query"
    ELSE IF GoalAwaits(c) THEN "input"
    ELSE IF GoalInFlight(c) /\ GivesValues(t) THEN "prefill"
    ELSE IF TeamAwaits(c) THEN "team"
    ELSE IF PausedHere(c) THEN "resume"
    ELSE IF QuestionOpen(c) THEN "clarification"
    ELSE IF t = "talk" THEN "talk"
    ELSE "ambiguous"

-----------------------------------------------------------------------------
(* A message comes; the session is looked up; the first tests are made.    *)

Received == {m \in Msgs : place[m] # "unsent"}

Comes(m, c) ==
    /\ place[m] = "unsent" /\ (m > 1 => place[m - 1] # "unsent")
    /\ chat' = [chat EXCEPT ![m] = c]
    /\ crowd' = (crowd \/ \E n \in Received : place[n] # "done")

(* Answered without a change to what the later ones read.                  *)
AnswerAtOnce(m, c, t) ==
    /\ Comes(m, c)
    /\ \/ FirstFit(c, t) \in {"smalltalk", "talk", "query", "decision", "prefill"}
       \/ FirstFit(c, t) = "input" /\ ~GivesValues(t)
    /\ ReplyTo(m, "answered")
    /\ UNCHANGED <<merged, question, search, goal, waitingTeams, paused, usable, events>>

(* The number of a found skill: a task to build it in, its installation,   *)
(* or a wrong or missing role, which keeps the search open.                *)
ChooseSkill(m, c, t) ==
    /\ Comes(m, c) /\ FirstFit(c, t) = "number"
    /\ search' \in {search, search \ {c}} /\ ReplyTo(m, "answered")
    /\ UNCHANGED <<merged, question, goal, waitingTeams, paused, usable, events>>

SwitchTemplate(m, c, t) ==
    /\ Comes(m, c) /\ FirstFit(c, t) = "switch"
    /\ usable' = ~usable /\ ReplyTo(m, "answered")
    /\ UNCHANGED <<merged, question, search, goal, waitingTeams, paused, events>>

(* handleInboundResumeStage                                                *)
GiveGoalInput(m, c, t) ==
    /\ Comes(m, c) /\ FirstFit(c, t) = "input" /\ GivesValues(t)
    /\ goal' = [goal EXCEPT ![c] = "running"] /\ ReplyTo(m, "answered")
    /\ UNCHANGED <<merged, question, search, waitingTeams, paused, usable, events>>

ResumeTeam(m, c, t) ==
    /\ Comes(m, c) /\ FirstFit(c, t) = "team"
    /\ waitingTeams' = waitingTeams \ {c} /\ ReplyTo(m, "answered")
    /\ UNCHANGED <<merged, question, search, goal, paused, usable, events>>

ResumeTask(m, c, t) ==
    /\ Comes(m, c) /\ FirstFit(c, t) = "resume"
    /\ paused' = RemoveFirst(paused, c) /\ ReplyTo(m, "answered")
    /\ UNCHANGED <<merged, question, search, goal, waitingTeams, usable, events>>

NoteBusy(m, c) ==
    /\ busy' = IF GoalInFlight(c) THEN busy \cup {m} ELSE busy
    /\ UNCHANGED offered

(* Mutant: the question is closed only when its answer has been            *)
(* classified.                                                             *)
ClarifyLeavesOpen(m, c, t) ==
    /\ Comes(m, c) /\ FirstFit(c, t) = "clarification"
    /\ merged' = [merged EXCEPT ![question[c]] = @ + 1]
    /\ question' = question
    /\ NoteBusy(m, c) /\ WaitAt(m, t, "clarified")
    /\ UNCHANGED <<search, goal, waitingTeams, paused, usable, events>>

(* The answer is merged with the request it belongs to, and classified.    *)
Clarify(m, c, t) ==
    /\ Comes(m, c) /\ FirstFit(c, t) = "clarification"
    /\ merged' = [merged EXCEPT ![question[c]] = @ + 1]
    /\ question' = [question EXCEPT ![c] = NoMsg]
    /\ NoteBusy(m, c) /\ WaitAt(m, t, "clarified")
    /\ UNCHANGED <<search, goal, waitingTeams, paused, usable, events>>

LookUp(m, c, t) ==
    /\ Comes(m, c)
    /\ \/ FirstFit(c, t) = "search" /\ UNCHANGED <<busy, offered>> /\ WaitAt(m, t, "search")
       \/ FirstFit(c, t) = "ambiguous" /\ NoteBusy(m, c) /\ WaitAt(m, t, "ambiguous")
    /\ UNCHANGED <<merged, question, search, goal, waitingTeams, paused, usable, events>>

-----------------------------------------------------------------------------
(* What a message does when the answer it waits for is there.              *)

SkillsFound(m) ==
    /\ place[m] = "search" /\ ReplyTo(m, "answered")
    /\ search' = search \cup {chat[m]}
    /\ UNCHANGED <<chat, merged, question, goal, waitingTeams, paused, usable, crowd, events>>

(* requestsNewIndependentGoal                                              *)
AsksForAnother(m) == text[m] = "another"

(* Mutant: a goal run under way is no obstacle. *)
OpenAnyGoal(m) ==
    ReplyTo(m, "goal") /\ goal' = [goal EXCEPT ![chat[m]] = "running"]

(* createGoalRun, unless one was in flight when the message came.          *)
OpenGoal(m) ==
    IF m \in busy /\ ~AsksForAnother(m)
    THEN ReplyTo(m, "answered") /\ UNCHANGED goal
    ELSE ReplyTo(m, "goal") /\ goal' = [goal EXCEPT ![chat[m]] = "running"]

Clarified(m) ==
    /\ place[m] = "clarified"
    /\ \/ ReplyTo(m, "answered") /\ UNCHANGED goal
       \/ OpenGoal(m)
    /\ UNCHANGED <<chat, merged, question, search, waitingTeams, paused, usable, crowd, events>>

(* An operator action lacks something, is applied at once (low risk, or on *)
(* the allow-list), or waits for its approval.                             *)
ActionTaken(m) == text[m] = "action" /\ ReplyTo(m, "answered")

(* Conversation after all, an operator action, a skill to install, or what *)
(* the router shall decide.                                                *)
Understood(m) ==
    /\ place[m] = "ambiguous"
    /\ \/ ReplyTo(m, "answered")
       \/ ActionTaken(m)
       \/ /\ text[m] = "install" /\ WaitAt(m, text[m], "install") /\ UNCHANGED <<busy, offered>>
       \/ /\ text[m] \notin {"action", "install"} /\ WaitAt(m, text[m], "router") /\ UNCHANGED busy
          /\ offered' = IF usable THEN offered \cup {m} ELSE offered
    /\ UNCHANGED <<chat, merged, question, search, goal, waitingTeams, paused, usable, crowd, events>>

(* Several skills are offered for choice; one that fits is installed, or   *)
(* has to be built in first.                                               *)
InstallSkill(m) ==
    /\ place[m] = "install"
    /\ ReplyTo(m, "answered")
    /\ search' \in {search, search \cup {chat[m]}}
    /\ UNCHANGED <<chat, merged, question, goal, waitingTeams, paused, usable, crowd, events>>

AskUser(m) ==
    /\ question' = [question EXCEPT ![chat[m]] = m]
    /\ ReplyTo(m, "question")

(* Mutant: the template is taken as the router has seen it.                *)
TemplateAsOffered(m) == m \in offered

(* The template is read again.                                             *)
TemplateUsable(m) == m \in offered /\ usable

(* createTemplateTasks                                                     *)
MakeTasks(m) == ReplyTo(m, "template")

(* The decision of the router, or of the rules it falls back on.           *)
RouterAnswers(m) ==
    /\ place[m] = "router"
    /\ \/ AskUser(m) /\ UNCHANGED goal
       \/ TemplateUsable(m) /\ MakeTasks(m) /\ UNCHANGED <<goal, question>>
       \/ /\ m \in offered /\ ~TemplateUsable(m)
          /\ WaitAt(m, text[m], "intake") /\ UNCHANGED <<goal, question, busy, offered>>
       \/ OpenGoal(m) /\ UNCHANGED question
       \/ ReplyTo(m, "answered") /\ UNCHANGED <<goal, question>>
    /\ UNCHANGED <<chat, merged, search, waitingTeams, paused, usable, crowd, events>>

(* No route was left: the request is questioned, or refused.               *)
Intake(m) ==
    /\ place[m] = "intake"
    /\ AskUser(m) \/ (ReplyTo(m, "answered") /\ UNCHANGED question)
    /\ UNCHANGED <<chat, merged, search, goal, waitingTeams, paused, usable, crowd, events>>

Proceed(m) == SkillsFound(m) \/ Clarified(m) \/ Understood(m) \/ InstallSkill(m) \/ RouterAnswers(m) \/ Intake(m)

-----------------------------------------------------------------------------
(* The runner: goal runs, teams and tasks turn to the user.                *)
Event == events > 0 /\ events' = events - 1

GoalAsks(c) ==
    /\ Event /\ goal[c] = "running"
    /\ goal' = [goal EXCEPT ![c] = "awaiting"]
    /\ UNCHANGED <<place, chat, text, effect, busy, offered, merged, question, search, waitingTeams, paused, usable, crowd>>

GoalEnds(c) ==
    /\ Event /\ goal[c] = "running"
    /\ goal' = [goal EXCEPT ![c] = "none"]
    /\ UNCHANGED <<place, chat, text, effect, busy, offered, merged, question, search, waitingTeams, paused, usable, crowd>>

TeamAsks(c) ==
    /\ Event /\ waitingTeams' = waitingTeams \cup {c}
    /\ UNCHANGED <<place, chat, text, effect, busy, offered, merged, question, search, goal, paused, usable, crowd>>

TaskAsks(c) ==
    /\ Event /\ paused' = Append(RemoveFirst(paused, c), c)
    /\ UNCHANGED <<place, chat, text, effect, busy, offered, merged, question, search, goal, waitingTeams, usable, crowd>>

InboundNext ==
    \/ \E m \in Msgs, c \in Chats, t \in Texts :
          \/ AnswerAtOnce(m, c, t) \/ ChooseSkill(m, c, t) \/ SwitchTemplate(m, c, t)
          \/ GiveGoalInput(m, c, t) \/ ResumeTeam(m, c, t) \/ ResumeTask(m, c, t)
          \/ Clarify(m, c, t) \/ LookUp(m, c, t)
    \/ \E m \in Msgs : Proceed(m)
    \/ \E c \in Chats : GoalAsks(c) \/ GoalEnds(c) \/ TeamAsks(c) \/ TaskAsks(c)

InboundSpec == InboundInit /\ [][InboundNext]_inboundVars

InboundFairSpec ==
    /\ InboundSpec
    /\ \A m \in Msgs : WF_inboundVars(Proceed(m))

-----------------------------------------------------------------------------
(* A reply to a question of a task, a goal run, a team or the router goes  *)
(* there, and never on to the router as a fresh request.  With two chats   *)
(* it may: the latest paused task hides the one of the other chat.         *)
RepliesResume ==
    [][\A m \in Msgs : place[m] = "unsent" /\ place'[m] = "ambiguous" =>
          LET c == chat'[m] IN
          /\ c \notin ToSet(paused) \cup waitingTeams
          /\ question[c] = NoMsg /\ goal[c] # "awaiting"]_inboundVars

(* A question is answered once, however close two replies follow.          *)
AnsweredOnce == \A m \in Msgs : merged[m] <= 1

(* A request that was questioned is not forgotten: its question is open,   *)
(* or was answered.  Two requests at a time may lose the first one.        *)
QuestionIsKept ==
    ~crowd => \A m \in Msgs : effect[m] = "question" =>
        question[chat[m]] = m \/ merged[m] = 1

(* A second goal run is opened beside one in flight only when the user     *)
(* asks for it, as long as messages come one at a time.                    *)
OneGoalInFlight ==
    [][\A m \in Msgs : effect[m] # "goal" /\ effect'[m] = "goal" =>
          crowd \/ AsksForAnother(m) \/ goal[chat[m]] # "running"]_inboundVars

(* Tasks are made from a template only while it is enabled, although it may*)
(* be switched while the router thinks.                                    *)
TemplateIsEnabled ==
    [][\A m \in Msgs : effect[m] # "template" /\ effect'[m] = "template" => usable]_inboundVars

(* handleInboundMessage: replies go where the question is, once; a         *)
(* question stays until it is answered; one goal run at a time; a template *)
(* that is used is enabled.                                                *)
MessagesFindTheirWork ==
    /\ RepliesResume
    /\ []AnsweredOnce
    /\ []QuestionIsKept
    /\ OneGoalInFlight
    /\ TemplateIsEnabled
=============================================================================
