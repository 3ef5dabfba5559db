---------------------------- MODULE ChannelProofs ----------------------------
(***************************************************************************)
(* What the parts that talk to people promise, for any number of messages, *)
(* chats, tabs, requests, approvers, templates and faults: FeishuMessages, *)
(* FeishuCards, SignIn, AgentLoop, Routing, Inbound, Console,              *)
(* SessionActions and MailIntake. Each part has a type invariant, an       *)
(* inductive invariant where the property is not one, and the theorems that*)
(* follow from it.                                                         *)
(***************************************************************************)
EXTENDS FeishuMessages, FeishuCards, SignIn, AgentLoop, Routing, Inbound, Console, SessionActions,
        MailIntake, FiniteSetTheorems, SequenceFacts, TLAPS

-----------------------------------------------------------------------------
(* FeishuMessages.  A message that is under way holds its token, and one   *)
(* that was handled keeps it until it is forgotten.                        *)
FeishuInv ==
    /\ FeishuTypeOK
    /\ \A m \in Messages :
          /\ copies[m] <= delivered[m]
          /\ handling[m] # "no" => m \in known
          /\ handled[m] > 0 => m \in known \cup forgotten
          /\ handled[m] > 0 /\ handling[m] = "named" => m \in forgotten
          /\ handled[m] <= 1 \/ m \in forgotten

LEMMA FeishuStarts == ASSUME FeishuAssumption PROVE FeishuInit => FeishuInv
BY DEF FeishuAssumption, FeishuInit, FeishuInv, FeishuTypeOK

LEMMA FeishuKept ==
    ASSUME FeishuAssumption, FeishuInv, [FeishuNext]_feishuVars PROVE FeishuInv'
<1> USE DEF FeishuAssumption, FeishuInv, FeishuTypeOK
<1>1. CASE UNCHANGED feishuVars
  BY <1>1 DEF feishuVars
<1>2. ASSUME NEW m \in Messages, Deliver(m) PROVE FeishuInv'
  BY <1>2 DEF Deliver
<1>3. ASSUME NEW m \in Messages, Take(m) PROVE FeishuInv'
  BY <1>3 DEF Take, Token
<1>4. ASSUME NEW m \in Messages, Handle(m) PROVE FeishuInv'
  BY <1>4 DEF Handle, MessageFault
<1>5. ASSUME NEW m \in Messages, React(m) PROVE FeishuInv'
  BY <1>5 DEF React, MessageFault
<1>6. ASSUME NEW m \in Messages, SendText(m) PROVE FeishuInv'
  BY <1>6 DEF SendText, MessageFault
<1>7. ASSUME NEW m \in Messages, ExpireToken(m) PROVE FeishuInv'
  BY <1>7 DEF ExpireToken, MessageFault, Token
<1>8. CASE ForgetMessages
  BY <1>8 DEF ForgetMessages, MessageFault, Token
<1> QED BY <1>1, <1>2, <1>3, <1>4, <1>5, <1>6, <1>7, <1>8 DEF FeishuNext, MessageStep

(* The rows of FeishuMessages keep their types.                            *)
THEOREM FeishuTypes == ASSUME FeishuAssumption PROVE FeishuSpec => []FeishuTypeOK
<1>1. FeishuInv => FeishuTypeOK
  BY DEF FeishuInv
<1> QED BY FeishuStarts, FeishuKept, <1>1, PTL DEF FeishuSpec

(* MessageHandledOnce: however often a message is delivered, it is handled *)
(* once, unless its token has been forgotten.                              *)
THEOREM FeishuHandlesOnce ==
    ASSUME FeishuAssumption PROVE FeishuSpec => []MessageHandledOnce
<1>1. FeishuInv => MessageHandledOnce
  BY DEF FeishuInv, MessageHandledOnce
<1> QED BY FeishuStarts, FeishuKept, <1>1, PTL DEF FeishuSpec

-----------------------------------------------------------------------------
(* FeishuCards.  A step that is decided has one decision, one that is      *)
(* pending none; a click that is being handled is about a step.            *)
CardInv ==
    /\ CardTypeOK
    /\ \A s \in WorkflowSteps : decisions[s] = IF outcome[s] = "pending" THEN 0 ELSE 1

LEMMA CardStarts == ASSUME CardAssumption PROVE CardInit => CardInv
BY DEF CardAssumption, CardInit, CardInv, CardTypeOK, WorkflowSteps

LEMMA CardKept == ASSUME CardAssumption, CardInv, [CardNext]_cardVars PROVE CardInv'
<1> USE DEF CardAssumption, CardInv, CardTypeOK
<1>1. CASE UNCHANGED cardVars
  BY <1>1 DEF cardVars
<1>2. CASE Push
  BY <1>2 DEF Push
<1>3. ASSUME NEW s \in WorkflowSteps, NEW a \in Approvers, SendCard(s, a) PROVE CardInv'
  <2>1. notified' \subseteq 0..LastStep
    BY <1>3 DEF SendCard, Key, WorkflowSteps
  <2>2. pushing' \in [WorkflowSteps -> SUBSET Approvers]
    BY <1>3 DEF SendCard
  <2> QED BY <1>3, <2>1, <2>2 DEF SendCard, CardFault
<1>4. ASSUME NEW s \in WorkflowSteps, NEW a \in Approvers,
             NEW says \in {"approved", "rejected"}, Press(s, a, says)
      PROVE CardInv'
  <2>1. [step |-> s, by |-> a, says |-> says, checked |-> FALSE] \in Presses
    BY DEF Presses
  <2>2. pressed' \subseteq Presses
    BY <1>4, <2>1 DEF Press
  <2> QED BY <1>4, <2>2 DEF Press
<1>5. ASSUME NEW c \in pressed, Check(c) PROVE CardInv'
  BY <1>5 DEF Check, Presses
<1>6. ASSUME NEW c \in pressed, DecideStep(c) PROVE CardInv'
  BY <1>6 DEF DecideStep, Decision, Presses
<1>7. ASSUME NEW s \in WorkflowSteps, NEW says \in {"approved", "rejected"},
             DecideElsewhere(s, says)
      PROVE CardInv'
  BY <1>7 DEF DecideElsewhere, Decision, Pending
<1>8. ASSUME NEW s \in WorkflowSteps, NEW a \in Approvers, ExpireCard(s, a) PROVE CardInv'
  BY <1>8 DEF ExpireCard, CardFault
<1>9. CASE RestartHandlers
  BY <1>9 DEF RestartHandlers, CardFault
<1> QED BY <1>1, <1>2, <1>3, <1>4, <1>5, <1>6, <1>7, <1>8, <1>9 DEF CardNext, Handlers

(* The cards, the clicks and the steps keep their types.                   *)
THEOREM CardTypes == ASSUME CardAssumption PROVE CardSpec => []CardTypeOK
<1>1. CardInv => CardTypeOK
  BY DEF CardInv
<1> QED BY CardStarts, CardKept, <1>1, PTL DEF CardSpec

(* StepDecidedOnce: a step is decided once, whoever pressed which card     *)
(* while the hooks of another decision ran.                                *)
THEOREM CardsDecideOnce == ASSUME CardAssumption PROVE CardSpec => []StepDecidedOnce
<1>1. CardInv => StepDecidedOnce
  BY DEF CardInv, StepDecidedOnce
<1> QED BY CardStarts, CardKept, <1>1, PTL DEF CardSpec

-----------------------------------------------------------------------------
(* SignIn.  A page that has its token checked sent one that was given out, *)
(* and one that was refused sent one that is not live; unless there was a  *)
(* trouble, that token is the one the browser holds, if it holds any.      *)
SignInInv ==
    /\ SignInTypeOK
    /\ stored.session # NoLogin => row[stored.session] # "absent"
    /\ \A t \in Tabs :
          /\ tab[t].page \in {"checking", "refused"} =>
                /\ tab[t].token \in Logins /\ row[tab[t].token] # "absent"
                /\ troubles = MaxTroubles => stored.session \in {tab[t].token, NoLogin}
          /\ tab[t].page = "refused" => row[tab[t].token] # "live"

LEMMA SignInStarts == ASSUME SignInAssumption PROVE SignInInit => SignInInv
BY DEF SignInAssumption, SignInInit, SignInInv, SignInTypeOK, Pages, At, Nothing

LEMMA SignInKept ==
    ASSUME SignInAssumption, SignInInv, [SignInNext]_signInVars PROVE SignInInv'
<1> USE DEF SignInAssumption, SignInInv, SignInTypeOK, Pages, Nothing
<1>0. At("login") \in [page : Pages, token : Logins \cup {NoLogin}]
      /\ \A page \in Pages : At(page).page = page /\ At(page).token = NoLogin
                          /\ At(page) \in [page : Pages, token : Logins \cup {NoLogin}]
  BY DEF At
<1>1. CASE UNCHANGED signInVars
  BY <1>1 DEF signInVars
<1>2. ASSUME NEW t \in Tabs, OpenLogin(t) PROVE SignInInv'
  BY <1>0, <1>2 DEF OpenLogin, Go, Current
<1>3. ASSUME NEW t \in Tabs, Submit(t) PROVE SignInInv'
  BY <1>0, <1>3 DEF Submit, Go
<1>4. ASSUME NEW t \in Tabs, Granted(t) PROVE SignInInv'
  <2>1. PICK s \in Unused :
          /\ row' = [row EXCEPT ![s] = "live"]
          /\ \/ /\ IF SomebodyChecks THEN Trouble("stale") ELSE UNCHANGED troubles
                /\ stored' = [session |-> s, fresh |-> TRUE]
                /\ Go(t, "loading")
             \/ Trouble("offline") /\ UNCHANGED stored /\ Go(t, "form")
    BY <1>4 DEF Granted
  <2>2. CASE Go(t, "form")
    BY <1>0, <1>4, <2>1, <2>2 DEF Granted, Go, Unused, Trouble
  <2>3. CASE Go(t, "loading")
    <3>1. /\ tab' = [tab EXCEPT ![t] = At("loading")] /\ stored' = [session |-> s, fresh |-> TRUE]
          /\ IF SomebodyChecks THEN Trouble("stale") ELSE UNCHANGED troubles
      BY <1>0, <2>1, <2>3 DEF Go
    <3>2. troubles' \in 0..MaxTroubles /\ (troubles' = MaxTroubles => ~SomebodyChecks)
      BY <3>1 DEF Trouble
    <3>3. tab' \in [Tabs -> [page : Pages, token : Logins \cup {NoLogin}]] /\ tab'[t].page = "loading"
      BY <1>0, <3>1
    <3>4. ASSUME NEW u \in Tabs, tab'[u].page \in {"checking", "refused"}
          PROVE  u # t /\ tab'[u] = tab[u] /\ troubles' # MaxTroubles
      BY <3>1, <3>2, <3>3, <3>4 DEF SomebodyChecks
    <3> QED BY <2>1, <3>1, <3>2, <3>3, <3>4 DEF Unused
  <2> QED BY <2>1, <2>2, <2>3
<1>5. ASSUME NEW t \in Tabs, Denied(t) PROVE SignInInv'
  BY <1>0, <1>5 DEF Denied, Go
<1>6. ASSUME NEW t \in Tabs, OpenConsole(t) PROVE SignInInv'
  BY <1>0, <1>6 DEF OpenConsole, Current
<1>7. ASSUME NEW t \in Tabs, Validate(t) PROVE SignInInv'
  BY <1>0, <1>7 DEF Validate, Go
<1>8. ASSUME NEW t \in Tabs, ValidateOffline(t) PROVE SignInInv'
  BY <1>0, <1>8 DEF ValidateOffline, Go, Trouble, Current
<1>9. ASSUME NEW t \in Tabs, Refused(t) PROVE SignInInv'
  BY <1>0, <1>9 DEF Refused, Go
<1>10. ASSUME NEW t \in Tabs, Reload(t) PROVE SignInInv'
  BY <1>0, <1>10 DEF Reload, Go
<1>11. ASSUME NEW t \in Tabs, Logout(t) PROVE SignInInv'
  BY <1>0, <1>11 DEF Logout, Current
<1>12. ASSUME NEW t \in Tabs, Revoked(t) PROVE SignInInv'
  BY <1>0, <1>12 DEF Revoked, Go, Trouble
<1>13. ASSUME NEW s \in Logins, ExpireSession(s) PROVE SignInInv'
  BY <1>13 DEF ExpireSession
<1>14. CASE ExpireStored
  BY <1>14 DEF ExpireStored
<1>15. CASE Purge
  BY <1>15 DEF Purge
<1> QED
  BY <1>1, <1>2, <1>3, <1>4, <1>5, <1>6, <1>7, <1>8, <1>9, <1>10, <1>11, <1>12, <1>13, <1>14, <1>15
  DEF SignInNext, PageStep

(* The sessions, the browser and its tabs keep their types.                *)
THEOREM SignInTypes == ASSUME SignInAssumption PROVE SignInSpec => []SignInTypeOK
<1>1. SignInInv => SignInTypeOK
  BY DEF SignInInv
<1> QED BY SignInStarts, SignInKept, <1>1, PTL DEF SignInSpec

(* What a step may do to the session the browser holds.                    *)
LosesNone ==
    \A s \in Logins :
         (/\ stored.session = s /\ stored'.session = NoLogin
          /\ row[s] = "live" /\ row'[s] = "live" /\ stored.fresh)
             => troubles < MaxTroubles \/ troubles' < MaxTroubles

LEMMA SignInLosesNone ==
    ASSUME SignInAssumption, SignInInv, [SignInNext]_signInVars PROVE LosesNone
<1> USE DEF SignInAssumption, SignInInv, SignInTypeOK, LosesNone, Nothing
<1> SUFFICES ASSUME NEW s \in Logins, stored.session = s, stored'.session = NoLogin,
                    row[s] = "live", row'[s] = "live", stored.fresh
             PROVE  troubles < MaxTroubles \/ troubles' < MaxTroubles
  OBVIOUS
<1>1. stored'.session # stored.session
  OBVIOUS
<1>2. ASSUME NEW t \in Tabs, PageStep(t) \/ Submit(t) \/ ValidateOffline(t) \/ Reload(t) \/ Logout(t)
      PROVE  Refused(t) \/ Revoked(t)
  BY <1>1, <1>2 DEF PageStep, OpenLogin, Submit, Granted, Denied, OpenConsole, Validate,
                    ValidateOffline, Reload, Logout, Current, Unused
<1>3. ASSUME NEW t \in Tabs, Refused(t) PROVE troubles < MaxTroubles
  BY <1>3 DEF Refused
<1>4. ASSUME NEW t \in Tabs, Revoked(t) PROVE troubles < MaxTroubles \/ troubles' < MaxTroubles
  BY <1>4 DEF Revoked, Trouble
<1> QED BY <1>1, <1>2, <1>3, <1>4 DEF SignInNext, signInVars, ExpireSession, ExpireStored, Purge

(* SessionIsKept: a browser whose session is live loses it only by         *)
(* leaving, or when a request failed or the session changed during a       *)
(* check.                                                                  *)
THEOREM SignInKeepsSession ==
    ASSUME SignInAssumption PROVE SignInSpec => SessionIsKept
<1>1. SignInInv /\ [SignInNext]_signInVars => [LosesNone]_signInVars
  BY SignInLosesNone
<1> QED BY SignInStarts, SignInKept, <1>1, PTL DEF SignInSpec, SessionIsKept, LosesNone

-----------------------------------------------------------------------------
(* AgentLoop.  The calls at hand are those nothing answers yet; a text has *)
(* an author where one is expected; the tools left files only after        *)
(* rounds.                                                                 *)
AgentInv ==
    /\ AgentTypeOK
    /\ unanswered = Len(calls)
    /\ at # "tools" => calls = <<>>
    /\ at \in {"plan", "start", "round", "tools"} => round < MaxRounds
    /\ at = "plan" \/ at = "start" \/ at = "plain" \/ at = "repair" => files = FALSE
    /\ AnswersAreSound

LEMMA OrdersAreOrders ==
    ASSUME NEW p
    PROVE  /\ ToolOrder(p) \in Seq(Backends) /\ Len(ToolOrder(p)) <= 5
           /\ PlainOrder(p) \in Seq(Backends) /\ Len(PlainOrder(p)) <= 5
<1>1. ASSUME NEW a \in Backends, NEW b \in Backends, NEW c \in Backends, NEW d \in Backends
      PROVE  <<a, b, c, d>> \in Seq(Backends) /\ Len(<<a, b, c, d>>) = 4
  OBVIOUS
<1>2. ASSUME NEW a \in Backends, NEW b \in Backends, NEW c \in Backends, NEW d \in Backends,
             NEW e \in Backends
      PROVE  <<a, b, c, d, e>> \in Seq(Backends) /\ Len(<<a, b, c, d, e>>) = 5
  OBVIOUS
<1>3. /\ "openai" \in Backends /\ "zhipu" \in Backends /\ "dashscope" \in Backends
      /\ "sglang" \in Backends /\ "ollama" \in Backends
  BY DEF Backends, Keyed
<1>4. ToolOrder(p) \in Seq(Backends) /\ Len(ToolOrder(p)) = 4
  BY <1>1, <1>3 DEF ToolOrder
<1>5. ASSUME NEW s \in Seq(Backends), Len(s) = 4, NEW b \in Backends
      PROVE  Append(s, b) \in Seq(Backends) /\ Len(Append(s, b)) = 5
  <2>1. Append(s, b) \in Seq(Backends) /\ Len(Append(s, b)) = Len(s) + 1
    BY AppendProperties, Zenon
  <2> QED BY <1>5, <2>1
<1>6. Append(ToolOrder(p), "ollama") \in Seq(Backends) /\ Len(Append(ToolOrder(p), "ollama")) = 5
  BY <1>3, <1>4, <1>5, Zenon
<1> QED BY <1>2, <1>3, <1>4, <1>6 DEF PlainOrder

LEMMA AgentStarts == ASSUME AgentAssumption PROVE AgentInit => AgentInv
<1> SUFFICES ASSUME AgentAssumption, AgentInit PROVE AgentInv
  OBVIOUS
<1> USE DEF AgentAssumption, AgentInit
<1>1. left \in Seq(Backends) /\ Len(left) <= 5
  BY OrdersAreOrders
<1>2. NoAnswer \in [by : Authors, backend : Authors, files : BOOLEAN] /\ Nobody \in Authors
  BY DEF NoAnswer, Authors
<1>3. /\ calls \in Seq(RuleVerdicts) /\ Len(calls) <= MaxCalls /\ round \in 0..MaxRounds
      /\ unanswered \in 0..MaxCalls
  OBVIOUS
<1>5. author \in Authors /\ answer \in [by : Authors, backend : Authors, files : BOOLEAN]
  BY <1>2
<1>6. at \in Asking \cup {"start", "tools", "reasoning", "returned", "thrown"} /\ files \in BOOLEAN
      /\ trace \in {"none", "started", "completed"}
  BY DEF Asking
<1>4. AgentTypeOK
  BY <1>1, <1>3, <1>5, <1>6 DEF AgentTypeOK
<1> QED
  BY <1>4 DEF AgentInv, AnswersAreSound, CallsAreAnswered, AnswerIsHonest, FilesAreHandedOver

LEMMA AgentKept ==
    ASSUME AgentAssumption, AgentInv, [AgentStep]_agentVars PROVE AgentInv'
<1> USE DEF AgentAssumption, AgentInv, AgentTypeOK, AnswersAreSound, CallsAreAnswered,
            AnswerIsHonest, FilesAreHandedOver, Asking
<1>0. /\ \A p : ToolOrder(p) \in Seq(Backends) /\ Len(ToolOrder(p)) <= 5
      /\ \A p : PlainOrder(p) \in Seq(Backends) /\ Len(PlainOrder(p)) <= 5
      /\ <<>> \in Seq(Backends) /\ Len(<<>>) = 0
  BY OrdersAreOrders
<1>a. "fallback" \in Authors /\ Backends \subseteq Authors
  BY DEF Authors
<1>b. ASSUME NEW x \in Authors, NEW f \in BOOLEAN, Answer(x, x, f)
      PROVE  /\ answer' \in [by : Authors, backend : Authors, files : BOOLEAN]
             /\ answer'.by = answer'.backend /\ answer'.files = f
             /\ at' = "returned" /\ left' \in Seq(Backends) /\ Len(left') <= 5
             /\ trace' \in {"none", "started", "completed"}
  BY <1>b DEF Answer
<1>c. ASSUME NEW w, NEW p, AskServers(w, ToolOrder(p)) \/ AskServers(w, PlainOrder(p))
      PROVE  at' = w /\ left' \in Seq(Backends) /\ Len(left') <= 5
  <2>1. CASE AskServers(w, ToolOrder(p))
    BY <1>0, <2>1 DEF AskServers
  <2>2. CASE AskServers(w, PlainOrder(p))
    BY <1>0, <2>2 DEF AskServers
  <2> QED BY <1>c, <2>1, <2>2
<1>d. ASSUME NEW w, AskServers(w, <<>>)
      PROVE  at' = w /\ left' \in Seq(Backends) /\ Len(left') <= 5
  BY <1>0, <1>d DEF AskServers
<1>1. CASE UNCHANGED agentVars
  BY <1>1 DEF agentVars
<1>2. CASE StartTrace
  BY <1>c, <1>2 DEF StartTrace
<1>3. CASE ServerFails
  BY <1>3 DEF ServerFails
<1>4. CASE AllFail
  <2>1. CASE at = "plan"
    BY <1>0, <1>4, <2>1 DEF AllFail
  <2>2. CASE at = "round"
    BY <1>a, <1>b, <1>4, <2>2 DEF AllFail, FallBack
  <2>3. CASE at = "plain"
    BY <1>a, <1>b, <1>4, <2>3 DEF AllFail, FallBack
  <2>4. CASE at = "json"
    BY <1>b, <1>4, <2>4 DEF AllFail
  <2>5. CASE at = "repair"
    BY <1>b, <1>4, <2>5 DEF AllFail
  <2> QED BY <1>4, <2>1, <2>2, <2>3, <2>4, <2>5 DEF AllFail
<1>5. CASE Deny
  BY <1>5 DEF Deny
<1>6. CASE ExecuteCall
  <2>1. calls' \in Seq(RuleVerdicts) /\ Len(calls') = Len(calls) - 1 /\ Len(calls) > 0
    BY <1>6 DEF ExecuteCall
  <2>2. files' \in BOOLEAN
    BY <1>6 DEF ExecuteCall
  <2> QED BY <1>6, <2>1, <2>2 DEF ExecuteCall
<1>7. CASE NextRound
  <2>1. CASE round + 1 < MaxRounds
    BY <1>c, <1>7, <2>1 DEF NextRound
  <2>2. CASE ~(round + 1 < MaxRounds)
    BY <1>a, <1>b, <1>7, <2>2 DEF NextRound, FallBack
  <2> QED BY <2>1, <2>2
<1>8. CASE Finalize
  BY <1>b, <1>c, <1>8 DEF Finalize
<1>9. ASSUME NEW b \in Backends, Plan(b) PROVE AgentInv'
  <2>1. CASE AskServers("start", <<>>)
    <3>1. at' = "start" /\ left' \in Seq(Backends) /\ Len(left') <= 5
      BY <1>d, <2>1
    <3> QED BY <1>9, <2>1, <3>1 DEF Plan, Answer, FallBack
  <2>2. CASE FallBack(FALSE)
    BY <1>a, <1>b, <1>9, <2>2 DEF Plan, FallBack
  <2> QED BY <1>9, <2>1, <2>2 DEF Plan
<1>10. ASSUME NEW b \in Backends, ModelCalls(b) PROVE AgentInv'
  <2>1. PICK n \in 1..MaxCalls : calls' \in [1..n -> RuleVerdicts] /\ unanswered' = n
    BY <1>10 DEF ModelCalls
  <2>2. calls' \in Seq(RuleVerdicts) /\ Len(calls') = n
    BY <2>1
  <2> QED BY <1>10, <2>1, <2>2 DEF ModelCalls
<1>11. ASSUME NEW b \in Backends, ModelAnswers(b) PROVE AgentInv'
  BY <1>a, <1>b, <1>c, <1>d, <1>11 DEF ModelAnswers, FallBack
<1>12. ASSUME NEW b \in Backends, SecondAttempt(b) PROVE AgentInv'
  BY <1>a, <1>b, <1>12 DEF SecondAttempt
<1>13. ASSUME NEW b \in Backends, PlainAnswers(b) PROVE AgentInv'
  <2>1. CASE Answer(b, b, FALSE) /\ UNCHANGED author
    BY <1>a, <1>b, <1>13, <2>1 DEF PlainAnswers
  <2>2. CASE AskServers("repair", PlainOrder(primary)) /\ author' = b /\ UNCHANGED <<trace, answer>>
    BY <1>a, <1>c, <1>13, <2>2 DEF PlainAnswers
  <2> QED BY <1>13, <2>1, <2>2 DEF PlainAnswers
<1> QED
  BY <1>1, <1>2, <1>3, <1>4, <1>5, <1>6, <1>7, <1>8, <1>9, <1>10, <1>11, <1>12, <1>13 DEF AgentStep

(* What execute keeps has its types, in every round and fall-back.         *)
THEOREM AgentTypes == ASSUME AgentAssumption PROVE AgentSpec => []AgentTypeOK
<1>1. AgentInv => AgentTypeOK
  BY DEF AgentInv
<1> QED BY AgentStarts, AgentKept, <1>1, PTL DEF AgentSpec

(* AnswersAreSound: no conversation is sent with an unanswered tool call,  *)
(* the answer names who wrote it, and comes with the files of the tools.   *)
THEOREM AgentAnswersSoundly == ASSUME AgentAssumption PROVE AgentSpec => []AnswersAreSound
<1>1. AgentInv => AnswersAreSound
  BY DEF AgentInv
<1> QED BY AgentStarts, AgentKept, <1>1, PTL DEF AgentSpec

-----------------------------------------------------------------------------
(* Routing.  A text has no decision before it was routed; a decision that  *)
(* names a template names one of the list it was made from.                *)
RoutingInv ==
    /\ RoutingTypeOK
    /\ stage \in {"new", "answered"} => route = NoRoute
    /\ ClassifierIsHeld /\ TemplatesAreOffered

LEMMA RoutingStarts == ASSUME RoutingAssumption PROVE RoutingInit => RoutingInv
<1> SUFFICES ASSUME RoutingAssumption, RoutingInit PROVE RoutingInv
  OBVIOUS
<1>1. words \in RoutedTexts
  BY DEF RoutingInit, RoutedTexts, Plain
<1>2. route.by = "nobody" /\ route.answer.mode = "task"
  BY DEF RoutingInit, NoRoute, Fallback
<1>3. templates \in [Templates -> TemplateStates] /\ listed \in [Templates -> TemplateStates]
  BY DEF RoutingInit, TemplateStates
<1>4. /\ stage \in {"new", "answered"} /\ router \in {"on", "off", "shadow"} /\ route = NoRoute
      /\ reply = "none" /\ ordered = "none" /\ planned = FALSE /\ edits \in 0..MaxEdits
  BY DEF RoutingInit, RoutingAssumption
<1> QED
  BY <1>1, <1>2, <1>3, <1>4 DEF RoutingInv, RoutingTypeOK, ClassifierIsHeld, TemplatesAreOffered

LEMMA ReplyKeepsRouting ==
    ASSUME RoutingInv, NEW r \in {"question", "template", "goal", "answered", "config", "task", "lost"},
           NEW t \in {"none", "single", "light", "team"}, ReplyWith(r, t)
    PROVE  RoutingInv'
<1>1. Plain \in RoutedTexts
  BY DEF Plain, RoutedTexts
<1>2. NoRoute.by = "nobody" /\ NoRoute.answer.mode = "task"
  BY DEF NoRoute, Fallback
<1> QED
  BY <1>1, <1>2 DEF RoutingInv, RoutingTypeOK, ClassifierIsHeld, TemplatesAreOffered, ReplyWith

(* What the classifier says passes the rules.                              *)
LEMMA RulesHold ==
    ASSUME NEW t, NEW i \in Intents
    PROVE  /\ HeldToRules(i, t) = "goalrun" => IsGoal(t)
           /\ HeldToRules(i, t) = "collaboration" => "explicit" \in t.team \/ IsTeamWork(t)
           /\ Rules(t) = "goalrun" => IsGoal(t)
           /\ Rules(t) = "collaboration" => IsTeamWork(t)
BY DEF HeldToRules, Rules

LEMMA RoutingKept ==
    ASSUME RoutingAssumption, RoutingInv, [RoutingNext]_routingVars PROVE RoutingInv'
<1> USE DEF RoutingAssumption, RoutingInv, RoutingTypeOK, ClassifierIsHeld, TemplatesAreOffered
<1>1. CASE UNCHANGED routingVars
  BY <1>1 DEF routingVars
<1>2. CASE Classify
  <2>1. PICK intent \in {HeldToRules(i, words) : i \in Intents} \cup {Rules(words)} :
          route' = [by |-> "classifier", answer |->
              [Fallback(intent, NoTemplate) EXCEPT
                  !.mode = IF intent = "light_collaboration" THEN "task" ELSE intent,
                  !.level = IF intent = "light_collaboration" THEN "light" ELSE "none"]]
    BY <1>2 DEF Classify
  <2>2. /\ intent = "goalrun" => IsGoal(words)
        /\ intent = "collaboration" => "explicit" \in words.team \/ IsTeamWork(words)
        /\ intent # "template"
    BY RulesHold, <2>1 DEF Rules, HeldToRules, Intents
  <2>3. /\ route'.by = "classifier"
        /\ route'.answer.mode = IF intent = "light_collaboration" THEN "task" ELSE intent
    BY <2>1 DEF Fallback
  <2>4. stage' = "routed" /\ UNCHANGED <<words, templates, listed, router, reply, ordered, planned, edits>>
    BY <1>2 DEF Classify
  <2>5. (ClassifierIsHeld /\ TemplatesAreOffered)'
    BY <2>2, <2>3, <2>4 DEF IsGoal, IsTeamWork
  <2> QED BY <2>3, <2>4, <2>5
<1>3. CASE Route
  <2>1. /\ stage' = "routed"
        /\ UNCHANGED <<words, templates, listed, router, reply, ordered, planned, edits>>
    BY <1>3 DEF Route
  <2>2. CASE \E a \in Legacy : route' = [by |-> "fallback", answer |-> a]
    <3>1. PICK a \in Legacy : route' = [by |-> "fallback", answer |-> a]
      BY <2>2
    <3>2. a.mode = "template" => listed[a.template] = "on"
      BY <3>1 DEF Legacy, Matching, Fallback
    <3> QED BY <2>1, <3>1, <3>2
  <2>3. CASE \E a \in Answers : Valid(a) /\ route' = [by |-> "llm", answer |-> a]
    BY <2>1, <2>3 DEF Valid
  <2> QED BY <1>3, <2>2, <2>3 DEF Route
<1>4. CASE AskBack
  BY <1>4, ReplyKeepsRouting DEF AskBack
<1>5. CASE UseTemplate
  <2>1. CASE ReplyWith("template", "none")
    BY <2>1, ReplyKeepsRouting
  <2>2. CASE stage' = "clarify"
            /\ UNCHANGED <<words, templates, listed, router, route, reply, ordered, planned, edits>>
    BY <2>2
  <2> QED BY <1>5, <2>1, <2>2 DEF UseTemplate
<1>6. CASE NoWay
  BY <1>6, ReplyKeepsRouting DEF NoWay
<1>7. CASE Execute
  BY <1>7, ReplyKeepsRouting DEF Execute
<1>8. CASE ApplyPlan
  BY <1>8 DEF ApplyPlan
<1>9. CASE Edit
  BY <1>9 DEF Edit, TemplateStates
<1>10. CASE List
  BY <1>10 DEF List, NoRoute, Fallback
<1> QED
  BY <1>1, <1>2, <1>3, <1>4, <1>5, <1>6, <1>7, <1>8, <1>9, <1>10 DEF RoutingNext, RoutingStep

(* The text, the templates and the decision keep their types.              *)
THEOREM RoutingTypes == ASSUME RoutingAssumption PROVE RoutingSpec => []RoutingTypeOK
<1>1. RoutingInv => RoutingTypeOK
  BY DEF RoutingInv
<1> QED BY RoutingStarts, RoutingKept, <1>1, PTL DEF RoutingSpec

(* A template is used when it is enabled.                                  *)
UsesEnabled == reply' = "template" /\ reply = "none" => templates[route.answer.template] = "on"

LEMMA RoutingUsesEnabled == ASSUME [RoutingNext]_routingVars PROVE UsesEnabled
BY DEF RoutingNext, RoutingStep, routingVars, Classify, Route, AskBack, UseTemplate, NoWay, Execute,
       ApplyPlan, Edit, List, ReplyWith, InUse, UsesEnabled

(* RoutesAreSound: a model's word counts as far as the rules bear it out,  *)
(* and a template is offered, chosen and used only while it is enabled.    *)
THEOREM RoutesAreAlwaysSound == ASSUME RoutingAssumption PROVE RoutingSpec => RoutesAreSound
<1>1. RoutingInv => ClassifierIsHeld /\ TemplatesAreOffered
  BY DEF RoutingInv
<1>2. [RoutingNext]_routingVars => [UsesEnabled]_routingVars
  BY RoutingUsesEnabled
<1> QED
  BY RoutingStarts, RoutingKept, <1>1, <1>2, PTL
  DEF RoutingSpec, RoutesAreSound, TemplatesAreCurrent, UsesEnabled

-----------------------------------------------------------------------------
(* Inbound.  What a message comes to, it comes to when it is done; a       *)
(* question is open or was answered, never both.  As long as messages come *)
(* one at a time, the one under way knows of the question and of the goal  *)
(* run of its chat what it knew when it came.                              *)
UnderWay(m) == place[m] \notin {"unsent", "done"}

OneByOne ==
    /\ \A m, n \in Msgs : UnderWay(m) /\ UnderWay(n) => m = n
    /\ \A m \in Msgs : place[m] \in {"clarified", "ambiguous", "install", "router", "intake"} =>
          question[chat[m]] = NoMsg
    /\ \A m \in Msgs : place[m] \in {"clarified", "ambiguous", "router"} /\ m \notin busy =>
          goal[chat[m]] # "running"
    /\ \A m \in Msgs : effect[m] = "question" => question[chat[m]] = m \/ merged[m] = 1

MessagesOK ==
    \A m \in Msgs :
       /\ place[m] # "unsent" => chat[m] \in Chats
       /\ place[m] # "done" => effect[m] = "none"
       /\ merged[m] > 0 => effect[m] = "question"
       /\ merged[m] <= 1

QuestionsOK ==
    \A c \in Chats : question[c] # NoMsg =>
       /\ effect[question[c]] = "question" /\ chat[question[c]] = c /\ merged[question[c]] = 0

InboundInv == InboundTypeOK /\ MessagesOK /\ QuestionsOK /\ (~crowd => OneByOne)

LEMMA NoMsgIsNone == ASSUME InboundAssumption PROVE NoMsg \notin Msgs
BY DEF InboundAssumption, NoMsg, Msgs

LEMMA InboundStarts == ASSUME InboundAssumption PROVE InboundInit => InboundInv
<1> SUFFICES ASSUME InboundInit PROVE InboundInv
  OBVIOUS
<1>1. paused \in Seq(Chats) /\ IsInjective(paused)
  BY DEF InboundInit, IsInjective
<1>2. InboundTypeOK
  <2>1. place \in [Msgs -> MessagePlaces] /\ effect \in [Msgs -> Effects]
    BY DEF InboundInit, MessagePlaces, Effects
  <2>2. chat \in [Msgs -> Chats \cup {NoChat}] /\ text \in [Msgs -> Texts \cup {"none"}]
    BY DEF InboundInit
  <2>3. question \in [Chats -> Msgs \cup {NoMsg}] /\ goal \in [Chats -> {"none", "running", "awaiting"}]
    BY DEF InboundInit
  <2>4. merged \in [Msgs -> Nat] /\ events \in 0..MaxEvents
    BY DEF InboundInit, InboundAssumption
  <2>5. /\ busy \subseteq Msgs /\ offered \subseteq Msgs /\ search \subseteq Chats
        /\ waitingTeams \subseteq Chats /\ usable \in BOOLEAN /\ crowd \in BOOLEAN
    BY DEF InboundInit
  <2> QED BY <1>1, <2>1, <2>2, <2>3, <2>4, <2>5 DEF InboundTypeOK
<1> QED
  BY <1>2 DEF InboundInit, InboundInv, MessagesOK, QuestionsOK, OneByOne, UnderWay

(* Taking a chat out of the paused ones, and putting it at their end.      *)
LEMMA PausedFits ==
    ASSUME paused \in Seq(Chats), IsInjective(paused), NEW c \in Chats
    PROVE  /\ RemoveFirst(paused, c) \in Seq(Chats) /\ IsInjective(RemoveFirst(paused, c))
           /\ Append(RemoveFirst(paused, c), c) \in Seq(Chats)
           /\ IsInjective(Append(RemoveFirst(paused, c), c))
BY RemovedElement

(* A message that comes and is answered at once.                           *)
LEMMA AnsweredOnArrival ==
    ASSUME InboundAssumption, InboundInv,
           NEW m \in Msgs, NEW c \in Chats, Comes(m, c), ReplyTo(m, "answered"),
           UNCHANGED <<merged, question, events>>,
           goal' \in [Chats -> {"none", "running", "awaiting"}], usable' \in BOOLEAN,
           search' \subseteq Chats, waitingTeams' \subseteq Chats,
           paused' \in Seq(Chats), IsInjective(paused)'
    PROVE  InboundInv'
<1> USE DEF InboundInv, MessagesOK, QuestionsOK, Comes, ReplyTo
<1>1. place[m] = "unsent" /\ place' = [place EXCEPT ![m] = "done"] /\ chat' = [chat EXCEPT ![m] = c]
      /\ effect' = [effect EXCEPT ![m] = "answered"]
  OBVIOUS
<1>2. InboundTypeOK'
  <2>1. /\ place' \in [Msgs -> MessagePlaces] /\ effect' \in [Msgs -> Effects]
        /\ chat' \in [Msgs -> Chats \cup {NoChat}]
    BY <1>1 DEF InboundTypeOK, MessagePlaces, Effects
  <2>2. /\ text' \in [Msgs -> Texts \cup {"none"}] /\ busy' \subseteq Msgs /\ offered' \subseteq Msgs
        /\ crowd' \in BOOLEAN
    BY DEF InboundTypeOK
  <2> QED BY <2>1, <2>2 DEF InboundTypeOK
<1>3. MessagesOK'
  BY <1>1 DEF InboundTypeOK
<1>4. QuestionsOK'
  BY <1>1, NoMsgIsNone DEF InboundTypeOK
<1>5. ASSUME ~crowd' PROVE OneByOne'
  <2>1. ~(\E n \in Received : place[n] # "done") /\ ~crowd
    BY <1>5, Zenon
  <2>2. \A n \in Msgs : place[n] \in {"unsent", "done"}
    BY <2>1 DEF Received
  <2>3. \A n \in Msgs : place'[n] \in {"unsent", "done"}
    BY <1>1, <2>2 DEF InboundTypeOK
  <2>4. ASSUME NEW n \in Msgs, effect'[n] = "question"
        PROVE  question'[chat'[n]] = n \/ merged'[n] = 1
    <3>1. n # m /\ effect[n] = "question" /\ chat'[n] = chat[n]
      BY <1>1, <2>4 DEF InboundTypeOK
    <3> QED BY <2>1, <3>1 DEF OneByOne
  <2> QED BY <2>3, <2>4 DEF OneByOne, UnderWay
<1> QED BY <1>2, <1>3, <1>4, <1>5

(* A message that comes and has to wait.                                   *)
LEMMA WaitsOnArrival ==
    ASSUME InboundAssumption, InboundInv,
           NEW m \in Msgs, NEW c \in Chats, NEW t \in Texts, Clarify(m, c, t) \/ LookUp(m, c, t)
    PROVE  InboundInv'
<1> USE DEF InboundInv, MessagesOK, QuestionsOK
<1>0. PICK w \in {"clarified", "ambiguous", "search"} :
         /\ place' = [place EXCEPT ![m] = w] /\ text' = [text EXCEPT ![m] = t] /\ UNCHANGED effect
         /\ w = "search" => UNCHANGED busy
         /\ w # "search" => busy' = IF goal[c] = "running" THEN busy \cup {m} ELSE busy
         /\ w = "clarified" => question[c] # NoMsg /\ question' = [question EXCEPT ![c] = NoMsg]
                               /\ merged' = [merged EXCEPT ![question[c]] = @ + 1]
         /\ w # "clarified" => UNCHANGED <<question, merged>>
         /\ w = "ambiguous" => question[c] = NoMsg
  <2>1. FirstFit(c, t) = "clarification" => question[c] # NoMsg
    BY DEF FirstFit, QuestionOpen, Texts
  <2>2. FirstFit(c, t) = "ambiguous" => question[c] = NoMsg
    BY DEF FirstFit, QuestionOpen, Texts
  <2> QED BY <2>1, <2>2 DEF Clarify, LookUp, WaitAt, NoteBusy, GoalInFlight
<1>1. /\ place[m] = "unsent" /\ chat' = [chat EXCEPT ![m] = c]
      /\ crowd' = (crowd \/ \E n \in Received : place[n] # "done")
      /\ UNCHANGED <<offered, search, goal, waitingTeams, paused, usable, events>>
  BY DEF Clarify, LookUp, Comes, NoteBusy
<1>2. InboundTypeOK'
  <2>1. place' \in [Msgs -> MessagePlaces]
    BY <1>0 DEF InboundTypeOK, MessagePlaces
  <2>2. question' \in [Chats -> Msgs \cup {NoMsg}] /\ merged' \in [Msgs -> Nat]
    <3>1. CASE w = "clarified"
      <4>1. question[c] \in Msgs
        BY <1>0, <3>1 DEF InboundTypeOK
      <4> QED BY <1>0, <3>1, <4>1 DEF InboundTypeOK
    <3>2. CASE w # "clarified"
      BY <1>0, <3>2 DEF InboundTypeOK
    <3> QED BY <3>1, <3>2
  <2>3. busy' \subseteq Msgs /\ text' \in [Msgs -> Texts \cup {"none"}] /\ crowd' \in BOOLEAN
        /\ chat' \in [Msgs -> Chats \cup {NoChat}]
    BY <1>0, <1>1 DEF InboundTypeOK
  <2> QED BY <1>0, <1>1, <2>1, <2>2, <2>3 DEF InboundTypeOK
<1>3. MessagesOK'
  BY <1>0, <1>1, NoMsgIsNone DEF InboundTypeOK
<1>4. QuestionsOK'
  <2> SUFFICES ASSUME NEW d \in Chats, question'[d] # NoMsg
               PROVE  /\ effect'[question'[d]] = "question" /\ chat'[question'[d]] = d
                      /\ merged'[question'[d]] = 0
    OBVIOUS
  <2>1. question'[d] = question[d] /\ (w = "clarified" => d # c)
    BY <1>0 DEF InboundTypeOK
  <2>2. /\ question[d] \in Msgs /\ effect[question[d]] = "question" /\ chat[question[d]] = d
        /\ merged[question[d]] = 0 /\ question[d] # m
    <3>1. effect[m] = "none"
      BY <1>1
    <3>2. question[d] # NoMsg
      BY <2>1
    <3> QED BY <3>1, <3>2 DEF InboundTypeOK
  <2>3. chat'[question[d]] = d /\ effect'[question[d]] = "question"
    BY <1>0, <1>1, <2>2 DEF InboundTypeOK
  <2>4. merged'[question[d]] = 0
    <3>1. CASE w = "clarified"
      <4>1. question[c] \in Msgs /\ chat[question[c]] = c
        BY <1>0, <3>1 DEF InboundTypeOK
      <4>2. question[c] # question[d]
        BY <2>1, <2>2, <3>1, <4>1
      <4> QED BY <1>0, <2>2, <3>1, <4>1, <4>2 DEF InboundTypeOK
    <3>2. CASE w # "clarified"
      BY <1>0, <2>2, <3>2
    <3> QED BY <3>1, <3>2
  <2> QED BY <2>1, <2>3, <2>4
<1>5. ASSUME ~crowd' PROVE OneByOne'
  <2>0. ~(\E n \in Received : place[n] # "done") /\ ~crowd
    BY <1>1, <1>5, Zenon
  <2>1. \A n \in Msgs \ {m} : place'[n] \in {"unsent", "done"}
    BY <1>0, <1>1, <2>0 DEF Received, InboundTypeOK
  <2>2. chat'[m] = c /\ (place'[m] \in {"clarified", "ambiguous"} => question'[c] = NoMsg)
    BY <1>0, <1>1 DEF InboundTypeOK
  <2>3. place'[m] \in {"clarified", "ambiguous", "search"}
        /\ (place'[m] # "search" /\ m \notin busy' => goal'[c] # "running")
    BY <1>0, <1>1 DEF InboundTypeOK
  <2>4. ASSUME NEW n \in Msgs, effect'[n] = "question"
        PROVE  question'[chat'[n]] = n \/ merged'[n] = 1
    <3>1. n # m /\ effect[n] = "question" /\ chat'[n] = chat[n] /\ chat[n] \in Chats
      BY <1>0, <1>1, <2>4 DEF InboundTypeOK
    <3>2. question[chat[n]] = n \/ merged[n] = 1
      BY <2>0, <3>1 DEF OneByOne
    <3> QED BY <1>0, <1>1, <3>1, <3>2, NoMsgIsNone DEF InboundTypeOK
  <2> QED BY <2>1, <2>2, <2>3, <2>4 DEF OneByOne, UnderWay
<1> QED BY <1>2, <1>3, <1>4, <1>5

(* A message that was under way and is answered, opens a goal run or has   *)
(* tasks made.                                                             *)
LEMMA EndsInbound ==
    ASSUME InboundAssumption, InboundInv, NEW m \in Msgs, UnderWay(m),
           NEW e \in {"answered", "goal", "template"}, ReplyTo(m, e),
           UNCHANGED <<chat, merged, question, waitingTeams, paused, usable, crowd, events>>,
           goal' \in [Chats -> {"none", "running", "awaiting"}], search' \subseteq Chats
    PROVE  InboundInv'
<1> USE DEF InboundInv, MessagesOK, QuestionsOK, ReplyTo, UnderWay
<1>2. InboundTypeOK'
  <2>1. place' \in [Msgs -> MessagePlaces] /\ effect' \in [Msgs -> Effects]
    BY DEF InboundTypeOK, MessagePlaces, Effects
  <2>2. text' \in [Msgs -> Texts \cup {"none"}] /\ busy' \subseteq Msgs /\ offered' \subseteq Msgs
    BY DEF InboundTypeOK
  <2> QED BY <2>1, <2>2 DEF InboundTypeOK
<1>3. MessagesOK'
  BY DEF InboundTypeOK
<1>4. QuestionsOK'
  BY NoMsgIsNone DEF InboundTypeOK
<1>5. ASSUME ~crowd' PROVE OneByOne'
  <2>1. \A n \in Msgs : place'[n] \in {"unsent", "done"}
    BY <1>5 DEF OneByOne, InboundTypeOK, MessagePlaces
  <2>2. \A n \in Msgs : effect'[n] = "question" => effect[n] = "question"
    BY DEF InboundTypeOK
  <2> QED BY <1>5, <2>1, <2>2 DEF OneByOne
<1> QED BY <1>2, <1>3, <1>4, <1>5

(* A message that turns into a question.                                   *)
LEMMA AsksInbound ==
    ASSUME InboundAssumption, InboundInv, NEW m \in Msgs, place[m] \in {"router", "intake"}, AskUser(m),
           UNCHANGED <<chat, merged, goal, search, waitingTeams, paused, usable, crowd, events>>
    PROVE  InboundInv'
<1> USE DEF InboundInv, MessagesOK, QuestionsOK, AskUser, ReplyTo
<1>1. chat[m] \in Chats /\ merged[m] = 0
  <2>1. effect[m] = "none" /\ chat[m] \in Chats /\ merged[m] \in Nat /\ ~(merged[m] > 0)
    BY DEF InboundTypeOK
  <2> QED BY <2>1
<1>2. InboundTypeOK'
  <2>1. place' \in [Msgs -> MessagePlaces] /\ effect' \in [Msgs -> Effects]
    BY DEF InboundTypeOK, MessagePlaces, Effects
  <2>2. /\ text' \in [Msgs -> Texts \cup {"none"}] /\ busy' \subseteq Msgs /\ offered' \subseteq Msgs
        /\ question' \in [Chats -> Msgs \cup {NoMsg}]
    BY <1>1 DEF InboundTypeOK
  <2> QED BY <2>1, <2>2 DEF InboundTypeOK
<1>3. MessagesOK'
  BY DEF InboundTypeOK
<1>4. QuestionsOK'
  BY <1>1, NoMsgIsNone DEF InboundTypeOK
<1>5. ASSUME ~crowd' PROVE OneByOne'
  <2>1. \A n \in Msgs : place'[n] \in {"unsent", "done"}
    BY <1>5 DEF OneByOne, UnderWay, InboundTypeOK, MessagePlaces
  <2>2. question[chat[m]] = NoMsg
    BY <1>5 DEF OneByOne
  <2>3. \A n \in Msgs : effect'[n] = "question" => question'[chat'[n]] = n \/ merged'[n] = 1
    BY <1>1, <1>5, <2>2, NoMsgIsNone DEF OneByOne, InboundTypeOK
  <2> QED BY <2>1, <2>3 DEF OneByOne, UnderWay
<1> QED BY <1>2, <1>3, <1>4, <1>5

(* A message that goes on to the next test.                                *)
LEMMA GoesOnInbound ==
    ASSUME InboundAssumption, InboundInv, NEW m \in Msgs,
           \/ place[m] = "ambiguous" /\ WaitAt(m, text[m], "install")
           \/ place[m] = "ambiguous" /\ WaitAt(m, text[m], "router")
           \/ place[m] = "router" /\ WaitAt(m, text[m], "intake"),
           UNCHANGED <<chat, busy, merged, question, goal, search, waitingTeams, paused, usable, crowd, events>>,
           offered' \subseteq Msgs
    PROVE  InboundInv'
<1> USE DEF InboundInv, MessagesOK, QuestionsOK, WaitAt
<1>1. PICK w \in {"install", "router", "intake"} :
         place' = [place EXCEPT ![m] = w] /\ place[m] \in {"ambiguous", "router"}
         /\ (w = "router" => place[m] = "ambiguous")
  OBVIOUS
<1>2. InboundTypeOK'
  <2>1. place' \in [Msgs -> MessagePlaces] /\ UNCHANGED effect
    BY <1>1 DEF InboundTypeOK, MessagePlaces
  <2>2. text' \in [Msgs -> Texts \cup {"none"}]
    BY DEF InboundTypeOK
  <2> QED BY <2>1, <2>2 DEF InboundTypeOK
<1>3. MessagesOK'
  BY <1>1 DEF InboundTypeOK
<1>4. QuestionsOK'
  BY <1>1 DEF InboundTypeOK
<1>5. ASSUME ~crowd' PROVE OneByOne'
  BY <1>1, <1>5 DEF OneByOne, UnderWay, InboundTypeOK, MessagePlaces
<1> QED BY <1>2, <1>3, <1>4, <1>5

(* The runner turns to the user.                                           *)
LEMMA EventsKeepInbound ==
    ASSUME InboundAssumption, InboundInv, NEW c \in Chats,
           GoalAsks(c) \/ GoalEnds(c) \/ TeamAsks(c) \/ TaskAsks(c)
    PROVE  InboundInv'
<1> USE DEF InboundInv
<1>1. /\ UNCHANGED <<place, chat, text, effect, busy, offered, merged, question, search, usable, crowd>>
      /\ events' \in 0..MaxEvents
  BY DEF GoalAsks, GoalEnds, TeamAsks, TaskAsks, Event, InboundTypeOK, InboundAssumption
<1>2. /\ goal' \in [Chats -> {"none", "running", "awaiting"}] /\ waitingTeams' \subseteq Chats
      /\ \A d \in Chats : goal'[d] = "running" => goal[d] = "running"
  BY DEF GoalAsks, GoalEnds, TeamAsks, TaskAsks, InboundTypeOK
<1>3. paused' \in Seq(Chats) /\ IsInjective(paused)'
  BY PausedFits DEF GoalAsks, GoalEnds, TeamAsks, TaskAsks, InboundTypeOK
<1>4. InboundTypeOK'
  BY <1>1, <1>2, <1>3 DEF InboundTypeOK
<1>5. MessagesOK' /\ QuestionsOK'
  BY <1>1 DEF MessagesOK, QuestionsOK
<1>6. OneByOne => OneByOne'
  BY <1>1, <1>2 DEF OneByOne, UnderWay, MessagesOK
<1> QED BY <1>1, <1>4, <1>5, <1>6

LEMMA InboundKept ==
    ASSUME InboundAssumption, InboundInv, [InboundNext]_inboundVars PROVE InboundInv'
<1> USE DEF InboundAssumption
<1>1. CASE UNCHANGED inboundVars
  BY <1>1 DEF inboundVars, InboundInv, InboundTypeOK, MessagesOK, QuestionsOK, OneByOne, UnderWay
<1>t. InboundTypeOK /\ \A m \in Msgs : place[m] # "unsent" => chat[m] \in Chats
  BY DEF InboundInv, MessagesOK
<1>2. ASSUME NEW m \in Msgs, NEW c \in Chats, NEW t \in Texts,
             \/ AnswerAtOnce(m, c, t) \/ ChooseSkill(m, c, t) \/ SwitchTemplate(m, c, t)
             \/ GiveGoalInput(m, c, t) \/ ResumeTeam(m, c, t) \/ ResumeTask(m, c, t)
      PROVE  InboundInv'
  <2>1. Comes(m, c) /\ ReplyTo(m, "answered") /\ UNCHANGED <<merged, question, events>>
    BY <1>2 DEF AnswerAtOnce, ChooseSkill, SwitchTemplate, GiveGoalInput, ResumeTeam, ResumeTask
  <2>2. /\ goal' \in [Chats -> {"none", "running", "awaiting"}] /\ usable' \in BOOLEAN
        /\ search' \subseteq Chats /\ waitingTeams' \subseteq Chats
    BY <1>2, <1>t DEF AnswerAtOnce, ChooseSkill, SwitchTemplate, GiveGoalInput, ResumeTeam, ResumeTask,
                      InboundTypeOK
  <2>3. paused' \in Seq(Chats) /\ IsInjective(paused)'
    BY <1>2, <1>t, PausedFits
    DEF AnswerAtOnce, ChooseSkill, SwitchTemplate, GiveGoalInput, ResumeTeam, ResumeTask, InboundTypeOK
  <2> QED BY <2>1, <2>2, <2>3, AnsweredOnArrival
<1>3. ASSUME NEW m \in Msgs, NEW c \in Chats, NEW t \in Texts, Clarify(m, c, t) \/ LookUp(m, c, t)
      PROVE  InboundInv'
  BY <1>3, WaitsOnArrival
<1>4. ASSUME NEW m \in Msgs, Proceed(m) PROVE InboundInv'
  <2>0. ASSUME NEW e \in {"answered", "goal", "template"}, UnderWay(m), ReplyTo(m, e),
               UNCHANGED <<chat, merged, question, waitingTeams, paused, usable, crowd, events>>,
               goal' = goal \/ goal' = [goal EXCEPT ![chat[m]] = "running"],
               search' \in {search, search \cup {chat[m]}}
        PROVE  InboundInv'
    <3>1. goal' \in [Chats -> {"none", "running", "awaiting"}] /\ search' \subseteq Chats
      BY <1>t, <2>0 DEF InboundTypeOK, UnderWay
    <3> QED BY <2>0, <3>1, EndsInbound
  <2>1. CASE SkillsFound(m)
    BY <2>0, <2>1 DEF SkillsFound, UnderWay
  <2>2. CASE Clarified(m)
    BY <2>0, <2>2 DEF Clarified, OpenGoal, UnderWay
  <2>3. CASE InstallSkill(m)
    BY <2>0, <2>3 DEF InstallSkill, UnderWay
  <2>4. CASE Understood(m)
    <3>1. CASE ReplyTo(m, "answered")
      BY <2>0, <2>4, <3>1 DEF Understood, UnderWay
    <3>2. CASE WaitAt(m, text[m], "install") /\ UNCHANGED <<busy, offered>>
      BY <1>t, <2>4, <3>2, GoesOnInbound DEF Understood, InboundTypeOK
    <3>3. CASE /\ WaitAt(m, text[m], "router") /\ UNCHANGED busy
               /\ offered' = IF usable THEN offered \cup {m} ELSE offered
      <4>1. offered' \subseteq Msgs
        BY <1>t, <3>3 DEF InboundTypeOK
      <4> QED BY <2>4, <3>3, <4>1, GoesOnInbound DEF Understood
    <3> QED BY <2>4, <3>1, <3>2, <3>3 DEF Understood, ActionTaken
  <2>5. CASE RouterAnswers(m)
    <3>1. CASE AskUser(m) /\ UNCHANGED goal
      BY <2>5, <3>1, AsksInbound DEF RouterAnswers
    <3>2. CASE WaitAt(m, text[m], "intake") /\ UNCHANGED <<goal, question, busy, offered>>
      BY <1>t, <2>5, <3>2, GoesOnInbound DEF RouterAnswers, InboundTypeOK
    <3>3. CASE (MakeTasks(m) \/ ReplyTo(m, "answered")) /\ UNCHANGED <<goal, question>>
      BY <2>0, <2>5, <3>3 DEF RouterAnswers, MakeTasks, UnderWay
    <3>4. CASE OpenGoal(m) /\ UNCHANGED question
      BY <2>0, <2>5, <3>4 DEF RouterAnswers, OpenGoal, UnderWay
    <3> QED BY <2>5, <3>1, <3>2, <3>3, <3>4 DEF RouterAnswers
  <2>6. CASE Intake(m)
    <3>1. CASE AskUser(m)
      BY <2>6, <3>1, AsksInbound DEF Intake
    <3>2. CASE ReplyTo(m, "answered") /\ UNCHANGED question
      BY <2>0, <2>6, <3>2 DEF Intake, UnderWay
    <3> QED BY <2>6, <3>1, <3>2 DEF Intake
  <2> QED BY <1>4, <2>1, <2>2, <2>3, <2>4, <2>5, <2>6 DEF Proceed
<1>5. ASSUME NEW c \in Chats, GoalAsks(c) \/ GoalEnds(c) \/ TeamAsks(c) \/ TaskAsks(c) PROVE InboundInv'
  BY <1>5, EventsKeepInbound
<1> QED BY <1>1, <1>2, <1>3, <1>4, <1>5 DEF InboundNext

(* The messages, questions and paused tasks keep their types.              *)
THEOREM InboundTypes == ASSUME InboundAssumption PROVE InboundSpec => []InboundTypeOK
<1>1. InboundInv => InboundTypeOK
  BY DEF InboundInv
<1> QED BY InboundStarts, InboundKept, <1>1, PTL DEF InboundSpec

(* AnsweredOnce, QuestionIsKept: in any number of chats a question is      *)
(* answered once, and none is forgotten as long as messages come one at a  *)
(* time.                                                                   *)
THEOREM QuestionsAreKept ==
    ASSUME InboundAssumption PROVE InboundSpec => [](AnsweredOnce /\ QuestionIsKept)
<1>1. InboundInv => AnsweredOnce /\ QuestionIsKept
  BY DEF InboundInv, MessagesOK, OneByOne, AnsweredOnce, QuestionIsKept
<1> QED BY InboundStarts, InboundKept, <1>1, PTL DEF InboundSpec

(* What a step may make of a message.                                      *)
GoalOpensAlone ==
    \A m \in Msgs : effect[m] # "goal" /\ effect'[m] = "goal" =>
          crowd \/ AsksForAnother(m) \/ goal[chat[m]] # "running"
TemplateUsedOn == \A m \in Msgs : effect[m] # "template" /\ effect'[m] = "template" => usable

LEMMA InboundEffects ==
    ASSUME InboundAssumption, InboundInv, [InboundNext]_inboundVars PROVE GoalOpensAlone /\ TemplateUsedOn
<1> SUFFICES ASSUME NEW m \in Msgs, effect[m] # effect'[m], effect'[m] \in {"goal", "template"}
             PROVE  /\ effect'[m] = "goal" => crowd \/ AsksForAnother(m) \/ goal[chat[m]] # "running"
                    /\ effect'[m] = "template" => usable
  BY DEF GoalOpensAlone, TemplateUsedOn
<1>0. InboundTypeOK
  BY DEF InboundInv
<1>1. \A n \in Msgs : Proceed(n) => n = m
  BY <1>0 DEF Proceed, SkillsFound, Clarified, Understood, ActionTaken, InstallSkill, RouterAnswers, Intake,
              AskUser, MakeTasks, OpenGoal, ReplyTo, WaitAt, InboundTypeOK
<1>2. \A n \in Msgs, c \in Chats, t \in Texts :
         ~(\/ AnswerAtOnce(n, c, t) \/ ChooseSkill(n, c, t) \/ SwitchTemplate(n, c, t)
           \/ GiveGoalInput(n, c, t) \/ ResumeTeam(n, c, t) \/ ResumeTask(n, c, t)
           \/ Clarify(n, c, t) \/ LookUp(n, c, t))
  BY <1>0 DEF AnswerAtOnce, ChooseSkill, SwitchTemplate, GiveGoalInput, ResumeTeam, ResumeTask, Clarify,
              LookUp, ReplyTo, WaitAt, InboundTypeOK
<1>3. Proceed(m)
  BY <1>1, <1>2 DEF InboundNext, inboundVars, GoalAsks, GoalEnds, TeamAsks, TaskAsks
<1>4. CASE Clarified(m) \/ RouterAnswers(m)
  <2>1. ~crowd /\ m \notin busy => goal[chat[m]] # "running"
    BY <1>4 DEF InboundInv, OneByOne, Clarified, RouterAnswers
  <2>2. effect'[m] = "goal" => m \notin busy \/ AsksForAnother(m)
    BY <1>0, <1>4 DEF Clarified, RouterAnswers, OpenGoal, AskUser, MakeTasks, ReplyTo, WaitAt, InboundTypeOK
  <2>3. effect'[m] = "template" => usable
    BY <1>0, <1>4 DEF Clarified, RouterAnswers, OpenGoal, AskUser, TemplateUsable, ReplyTo, WaitAt,
                      InboundTypeOK
  <2> QED BY <2>1, <2>2, <2>3
<1>5. ~SkillsFound(m) /\ ~Understood(m) /\ ~InstallSkill(m) /\ ~Intake(m)
  BY <1>0 DEF SkillsFound, Understood, ActionTaken, InstallSkill, Intake, AskUser, ReplyTo, WaitAt,
              InboundTypeOK
<1> QED BY <1>3, <1>4, <1>5 DEF Proceed

(* OneGoalInFlight and TemplateIsEnabled, in any number of chats: no       *)
(* second goal run unasked for, and no use of a template that is off.      *)
THEOREM GoalsAndTemplatesInOrder ==
    ASSUME InboundAssumption PROVE InboundSpec => OneGoalInFlight /\ TemplateIsEnabled
<1>1. InboundInv /\ [InboundNext]_inboundVars => [GoalOpensAlone]_inboundVars /\ [TemplateUsedOn]_inboundVars
  BY InboundEffects
<1> QED
  BY InboundStarts, InboundKept, <1>1, PTL
  DEF InboundSpec, OneGoalInFlight, TemplateIsEnabled, GoalOpensAlone, TemplateUsedOn

(* With one chat, a message that no test fits is a reply to nobody.        *)
NoReplyGoesOn ==
    \A m \in Msgs : place[m] = "unsent" /\ place'[m] = "ambiguous" =>
          LET c == chat'[m] IN
          /\ c \notin ToSet(paused) \cup waitingTeams
          /\ question[c] = NoMsg /\ goal[c] # "awaiting"

LEMMA InboundReplies ==
    ASSUME InboundAssumption, \A c, d \in Chats : c = d, InboundInv, [InboundNext]_inboundVars
    PROVE  NoReplyGoesOn
<1> SUFFICES ASSUME NEW m \in Msgs, place[m] = "unsent", place'[m] = "ambiguous"
             PROVE  /\ chat'[m] \notin ToSet(paused) \cup waitingTeams
                    /\ question[chat'[m]] = NoMsg /\ goal[chat'[m]] # "awaiting"
  BY DEF NoReplyGoesOn
<1>0. InboundTypeOK
  BY DEF InboundInv
<1>1. \A n \in Msgs : ~Proceed(n)
  BY <1>0 DEF Proceed, SkillsFound, Clarified, Understood, ActionTaken, InstallSkill, RouterAnswers, Intake,
              AskUser, MakeTasks, OpenGoal, ReplyTo, WaitAt, InboundTypeOK
<1>2. ASSUME NEW n \in Msgs, NEW c \in Chats, NEW t \in Texts,
             \/ AnswerAtOnce(n, c, t) \/ ChooseSkill(n, c, t) \/ SwitchTemplate(n, c, t)
             \/ GiveGoalInput(n, c, t) \/ ResumeTeam(n, c, t) \/ ResumeTask(n, c, t)
             \/ Clarify(n, c, t)
      PROVE  FALSE
  BY <1>0, <1>2 DEF AnswerAtOnce, ChooseSkill, SwitchTemplate, GiveGoalInput, ResumeTeam, ResumeTask, Clarify,
              ReplyTo, WaitAt, InboundTypeOK
<1>3. PICK c \in Chats, t \in Texts : LookUp(m, c, t)
  <2>1. \E n \in Msgs, c \in Chats, t \in Texts : LookUp(n, c, t)
    BY <1>1, <1>2 DEF InboundNext, inboundVars, GoalAsks, GoalEnds, TeamAsks, TaskAsks
  <2>2. ASSUME NEW n \in Msgs, NEW c \in Chats, NEW t \in Texts, LookUp(n, c, t) PROVE n = m
    BY <1>0, <2>2 DEF LookUp, WaitAt, InboundTypeOK
  <2> QED BY <2>1, <2>2
<1>4. FirstFit(c, t) = "ambiguous" /\ chat'[m] = c
  BY <1>0, <1>3 DEF LookUp, WaitAt, Comes, InboundTypeOK
<1>5. question[c] = NoMsg /\ goal[c] # "awaiting" /\ c \notin waitingTeams /\ ~PausedHere(c)
  BY <1>4 DEF FirstFit, QuestionOpen, GoalAwaits, TeamAwaits, Texts
<1>6. paused = <<>>
  BY <1>0, <1>5 DEF PausedHere, Last, InboundTypeOK
<1> QED BY <1>4, <1>5, <1>6 DEF ToSet

(* MessagesFindTheirWork, for a user with one chat: with two, the latest   *)
(* paused task hides the one of the other chat, and RepliesResume fails.   *)
THEOREM MessagesAlwaysFindTheirWork ==
    ASSUME InboundAssumption, \A c, d \in Chats : c = d PROVE InboundSpec => MessagesFindTheirWork
<1>1. InboundInv /\ [InboundNext]_inboundVars => [NoReplyGoesOn]_inboundVars
  BY InboundReplies
<1>2. InboundSpec => RepliesResume
  BY InboundStarts, InboundKept, <1>1, PTL DEF InboundSpec, RepliesResume, NoReplyGoesOn
<1> QED
  BY <1>2, QuestionsAreKept, GoalsAndTemplatesInOrder, PTL DEF MessagesFindTheirWork

-----------------------------------------------------------------------------
(* Console.  Without an overtaking or a failure the latest request of a    *)
(* pane is for what is selected in it, and when there is none the pane     *)
(* shows that; a timer to reconnect runs only while there is no stream.    *)
AnswersDue(q, p) == {k \in DOMAIN q : q[k].pane = p}

LatestIsFor(q, p, item, shown) ==
    /\ item = NoItem => shown = NoItem
    /\ item # NoItem /\ AnswersDue(q, p) = {} => shown = item
    /\ item # NoItem => \A k \in AnswersDue(q, p) : (\A j \in AnswersDue(q, p) : j <= k) => q[k].item = item

Followed ==
    selected["session"] # NoItem /\ AnswersDue(asked, "session") = {} =>
        stream = selected["session"] \/ (stream = NoItem /\ reconnect = selected["session"])

ConsoleInv ==
    /\ ConsoleTypeOK
    /\ reconnect # NoItem => stream = NoItem
    /\ glitches = MaxGlitches =>
          /\ \A p \in {"task", "session"} : LatestIsFor(asked, p, selected[p], panes[p])
          /\ Followed

LEMMA ConsoleStarts == ASSUME ConsoleAssumption PROVE ConsoleInit => ConsoleInv
BY DEF ConsoleAssumption, ConsoleInit, ConsoleInv, ConsoleTypeOK, LatestIsFor, Followed, AnswersDue, Panes

(* What an answer leaves in the queue.                                     *)
LEMMA QueueShrinks ==
    ASSUME NEW q \in Seq(Requests), NEW k \in DOMAIN q
    PROVE  LET r == RemoveAt(q, k)
           IN /\ r \in Seq(Requests) /\ Len(r) = Len(q) - 1 /\ DOMAIN q = 1..Len(q)
              /\ DOMAIN r = 1..Len(q) - 1 /\ Len(q) \in Nat \ {0} /\ q[k] \in Requests
              /\ \A j \in 1..Len(q) - 1 : r[j] = IF j < k THEN q[j] ELSE q[j + 1]
<1> DEFINE r == RemoveAt(q, k)
<1>1. DOMAIN q = 1..Len(q) /\ k \in 1..Len(q) /\ Len(q) \in Nat \ {0}
  OBVIOUS
<1>2. r \in Seq(Requests) /\ Len(r) = Len(q) - 1
      /\ \A j \in 1..Len(q) - 1 : r[j] = IF j < k THEN q[j] ELSE q[j + 1]
  BY <1>1, RemovedFits
<1> QED BY <1>1, <1>2, ElementOfSeq, LenProperties

(* A pane whose requests are not touched keeps them in their order.        *)
LEMMA OthersKeepTheirs ==
    ASSUME NEW q \in Seq(Requests), NEW k \in DOMAIN q, NEW p, q[k].pane # p, NEW item, NEW shown,
           LatestIsFor(q, p, item, shown)
    PROVE  LatestIsFor(RemoveAt(q, k), p, item, shown) /\ (AnswersDue(RemoveAt(q, k), p) = {} => AnswersDue(q, p) = {})
<1> DEFINE r == RemoveAt(q, k)
<1>0. /\ DOMAIN q = 1..Len(q) /\ DOMAIN r = 1..Len(q) - 1 /\ Len(q) \in Nat \ {0}
      /\ \A j \in 1..Len(q) - 1 : r[j] = IF j < k THEN q[j] ELSE q[j + 1]
  BY QueueShrinks
<1> DEFINE after(j) == IF j < k THEN j ELSE j - 1
           before(j) == IF j < k THEN j ELSE j + 1
<1> HIDE DEF r
<1>1. ASSUME NEW j \in AnswersDue(q, p) PROVE after(j) \in AnswersDue(r, p) /\ r[after(j)] = q[j]
  BY <1>0, <1>1 DEF AnswersDue
<1>2. ASSUME NEW j \in AnswersDue(r, p) PROVE before(j) \in AnswersDue(q, p) /\ q[before(j)] = r[j]
  BY <1>0, <1>2 DEF AnswersDue
<1>3. ASSUME NEW j \in AnswersDue(r, p), \A i \in AnswersDue(r, p) : i <= j
      PROVE  \A i \in AnswersDue(q, p) : i <= before(j)
  <2> SUFFICES ASSUME NEW i \in AnswersDue(q, p) PROVE i <= before(j)
    OBVIOUS
  <2>1. after(i) <= j
    BY <1>1, <1>3
  <2>2. i \in 1..Len(q) /\ j \in 1..Len(q) - 1 /\ i # k
    BY <1>0 DEF AnswersDue
  <2> QED BY <1>0, <2>1, <2>2
<1>4. LatestIsFor(r, p, item, shown) /\ (AnswersDue(r, p) = {} => AnswersDue(q, p) = {})
  BY <1>1, <1>2, <1>3 DEF LatestIsFor
<1> QED BY <1>4 DEF r

(* An answer of a pane that none overtook.                                 *)
LEMMA OwnGoesOn ==
    ASSUME NEW q \in Seq(Requests), NEW k \in DOMAIN q, NEW p, q[k].pane = p,
           \A j \in 1..k - 1 : q[j].pane # p, NEW item, NEW shown, LatestIsFor(q, p, item, shown)
    PROVE  /\ LatestIsFor(RemoveAt(q, k), p, item, IF item = NoItem THEN NoItem ELSE q[k].item)
           /\ AnswersDue(RemoveAt(q, k), p) = {} => item = NoItem \/ item = q[k].item
<1> DEFINE r == RemoveAt(q, k)
           now == IF item = NoItem THEN NoItem ELSE q[k].item
<1>0. /\ DOMAIN q = 1..Len(q) /\ DOMAIN r = 1..Len(q) - 1 /\ Len(q) \in Nat \ {0}
      /\ \A j \in 1..Len(q) - 1 : r[j] = IF j < k THEN q[j] ELSE q[j + 1]
  BY QueueShrinks
<1> HIDE DEF r
<1>1. ASSUME NEW j \in AnswersDue(q, p), j # k PROVE j > k /\ j - 1 \in AnswersDue(r, p) /\ r[j - 1] = q[j]
  <2>1. j \in 1..Len(q) /\ q[j].pane = p
    BY <1>0 DEF AnswersDue
  <2>2. j > k
    BY <1>0, <1>1, <2>1
  <2> QED BY <1>0, <2>1, <2>2 DEF AnswersDue
<1>2. ASSUME NEW j \in AnswersDue(r, p) PROVE j + 1 \in AnswersDue(q, p) /\ q[j + 1] = r[j] /\ j + 1 # k
  <2>1. j \in 1..Len(q) - 1 /\ r[j].pane = p
    BY <1>0 DEF AnswersDue
  <2>2. ~(j < k)
    BY <1>0, <2>1
  <2> QED BY <1>0, <2>1, <2>2 DEF AnswersDue
<1>3. CASE AnswersDue(r, p) = {}
  <2>1. \A j \in AnswersDue(q, p) : j <= k
    BY <1>0, <1>1, <1>3 DEF AnswersDue
  <2>2. k \in AnswersDue(q, p)
    BY DEF AnswersDue
  <2>3. item # NoItem => q[k].item = item
    BY <2>1, <2>2 DEF LatestIsFor
  <2> QED BY <1>3, <2>3 DEF LatestIsFor, r
<1>4. CASE AnswersDue(r, p) # {}
  <2>1. ASSUME item # NoItem, NEW j \in AnswersDue(r, p), \A l \in AnswersDue(r, p) : l <= j
        PROVE  r[j].item = item
    <3>1. \A l \in AnswersDue(q, p) : l <= j + 1
      <4> SUFFICES ASSUME NEW l \in AnswersDue(q, p) PROVE l <= j + 1
        OBVIOUS
      <4>1. l \in 1..Len(q) /\ j \in 1..Len(q) - 1 /\ j + 1 \in AnswersDue(q, p) /\ j + 1 # k
        BY <1>0, <1>2 DEF AnswersDue
      <4>2. CASE l = k
        BY <1>0, <1>1, <4>1, <4>2
      <4>3. CASE l # k
        <5>1. l - 1 <= j
          BY <1>1, <2>1, <4>3
        <5> QED BY <4>1, <5>1
      <4> QED BY <4>2, <4>3
    <3> QED BY <1>2, <2>1, <3>1 DEF LatestIsFor
  <2>2. LatestIsFor(r, p, item, now)
    BY <1>4, <2>1 DEF LatestIsFor
  <2> QED BY <1>4, <2>2 DEF r
<1> QED BY <1>3, <1>4

(* A request of a pane is the latest of it, and not of any other.          *)
LEMMA QueueGrows ==
    ASSUME NEW q \in Seq(Requests), NEW r \in Requests, NEW p, NEW item, NEW shown
    PROVE  /\ r.pane # p /\ LatestIsFor(q, p, item, shown) => LatestIsFor(Append(q, r), p, item, shown)
           /\ r.pane # p => (AnswersDue(Append(q, r), p) = {} <=> AnswersDue(q, p) = {})
           /\ r.pane = p /\ item # NoItem /\ r.item = item => LatestIsFor(Append(q, r), p, item, shown)
           /\ r.pane = p => AnswersDue(Append(q, r), p) # {}
<1> DEFINE s == Append(q, r)
<1>1. DOMAIN q = 1..Len(q) /\ Len(q) \in Nat
  BY LenProperties
<1>2. /\ DOMAIN s = 1..Len(q) + 1 /\ s[Len(q) + 1] = r /\ \A j \in 1..Len(q) : s[j] = q[j]
  BY AppendProperties, LenProperties
<1> HIDE DEF s
<1>3. ASSUME r.pane # p PROVE AnswersDue(s, p) = AnswersDue(q, p) /\ \A j \in AnswersDue(q, p) : s[j] = q[j]
  BY <1>1, <1>2, <1>3 DEF AnswersDue
<1>4. ASSUME r.pane = p
      PROVE  /\ Len(q) + 1 \in AnswersDue(s, p)
             /\ \A k \in AnswersDue(s, p) : (\A j \in AnswersDue(s, p) : j <= k) => s[k] = r
  <2>1. Len(q) + 1 \in AnswersDue(s, p)
    BY <1>1, <1>2, <1>4 DEF AnswersDue
  <2>2. ASSUME NEW k \in AnswersDue(s, p), \A j \in AnswersDue(s, p) : j <= k PROVE s[k] = r
    <3>1. k \in 1..Len(q) + 1 /\ Len(q) + 1 <= k
      BY <1>2, <2>1, <2>2 DEF AnswersDue
    <3>2. k = Len(q) + 1
      BY <1>1, <3>1
    <3> QED BY <1>2, <3>2
  <2> QED BY <2>1, <2>2
<1>5. /\ r.pane # p /\ LatestIsFor(q, p, item, shown) => LatestIsFor(s, p, item, shown)
      /\ r.pane # p => (AnswersDue(s, p) = {} <=> AnswersDue(q, p) = {})
  BY <1>3 DEF LatestIsFor
<1>6. /\ r.pane = p /\ item # NoItem /\ r.item = item => LatestIsFor(s, p, item, shown)
      /\ r.pane = p => AnswersDue(s, p) # {}
  BY <1>4 DEF LatestIsFor
<1> QED BY <1>5, <1>6 DEF s

LEMMA AskedIsPending == ASSUME NEW q \in Seq(Requests), NEW r \in Requests
                        PROVE  AnswersDue(Append(q, r), r.pane) # {}
<1>1. Len(q) + 1 \in DOMAIN Append(q, r) /\ Append(q, r)[Len(q) + 1] = r
  BY AppendProperties, LenProperties
<1> QED BY <1>1 DEF AnswersDue

(* A pane in which nothing is selected shows nothing, whatever is asked.   *)
LEMMA ClosedIsClosed == \A q, p : LatestIsFor(q, p, NoItem, NoItem)
BY DEF LatestIsFor

LEMMA ConsoleTypesKept ==
    ASSUME ConsoleAssumption, ConsoleInv, [ConsoleNext]_consoleVars PROVE ConsoleTypeOK'
<1> USE DEF ConsoleAssumption, ConsoleTypeOK, ConsoleInv
<1>0. Len(asked) \in Nat
  OBVIOUS
<1>1. CASE UNCHANGED consoleVars
  BY <1>1 DEF consoleVars
<1>2. ASSUME NEW p \in Panes, NEW i \in Items, Open(p, i) PROVE ConsoleTypeOK'
  <2>1. RequestFor(p, i, FALSE) \in Requests
    BY DEF RequestFor, Requests
  <2>2. asked' \in Seq(Requests) /\ Len(asked') <= MaxAsked + 1
    <3>1. asked' = Append(asked, RequestFor(p, i, FALSE)) /\ Len(asked) < MaxAsked
      BY <1>2 DEF Open
    <3>2. Append(asked, RequestFor(p, i, FALSE)) \in Seq(Requests)
          /\ Len(Append(asked, RequestFor(p, i, FALSE))) = Len(asked) + 1
      BY <2>1, AppendProperties
    <3> DEFINE q == Append(asked, RequestFor(p, i, FALSE))
    <3>3. asked' = q /\ q \in Seq(Requests) /\ Len(q) = Len(asked) + 1 /\ MaxAsked \in Nat
      BY <3>1, <3>2
    <3>4. Len(asked) < MaxAsked
      BY <3>1
    <3> HIDE DEF q
    <3> QED BY ONLY <1>0, <3>3, <3>4
  <2>3. stream' \in Items \cup {NoItem} /\ reconnect' \in Items \cup {NoItem}
    BY <1>2 DEF Open
  <2>4. selected' \in [Panes -> Items \cup {NoItem}] /\ panes' = panes
    BY <1>2 DEF Open
  <2>5. clicks' \in 0..MaxClicks /\ glitches' = glitches
    BY <1>2 DEF Open, Click
  <2> QED BY <2>2, <2>3, <2>4, <2>5
<1>3. ASSUME NEW p \in Panes, Close(p) PROVE ConsoleTypeOK'
  <2>1. stream' \in Items \cup {NoItem} /\ reconnect' \in Items \cup {NoItem}
    BY <1>3 DEF Close
  <2> QED BY <1>3, <2>1 DEF Close, Click
<1>4. ASSUME NEW k \in DOMAIN asked, asked' = RemoveAt(asked, k)
      PROVE  asked' \in Seq(Requests) /\ Len(asked') <= MaxAsked + 1
  BY <1>0, <1>4, QueueShrinks
<1>5. ASSUME NEW k \in DOMAIN asked, asked[k].pane \in Panes PROVE asked[k].item \in Items
  <2>1. asked[k] \in Requests
    BY ElementOfSeq
  <2> QED BY <1>5, <2>1 DEF Requests, Panes
<1>6. ASSUME NEW k \in DOMAIN asked, TaskArrives(k) PROVE ConsoleTypeOK'
  BY <1>4, <1>5, <1>6 DEF TaskArrives, Arrived, Glitch, Render, Panes
<1>7. ASSUME NEW k \in DOMAIN asked, GoalArrives(k) PROVE ConsoleTypeOK'
  BY <1>4, <1>5, <1>7 DEF GoalArrives, Arrived, Glitch, Render, Panes
<1>8. ASSUME NEW k \in DOMAIN asked, SessionArrives(k) PROVE ConsoleTypeOK'
  BY <1>4, <1>5, <1>8 DEF SessionArrives, Arrived, Glitch, Render, StartStream, Panes
<1>9. CASE Refresh
  <2>1. AskList \in Requests
    BY DEF AskList, Requests
  <2>2. asked' \in Seq(Requests) /\ Len(asked') <= MaxAsked + 1
    BY <1>0, <1>9, <2>1, AppendProperties DEF Refresh
  <2> QED BY <1>9, <2>2 DEF Refresh
<1>10. ASSUME NEW k \in DOMAIN asked, ListArrives(k) PROVE ConsoleTypeOK'
  <2>1. asked' \in Seq(Requests) /\ Len(asked') <= MaxAsked + 1
    <3>1. CASE asked' = RemoveAt(asked, k)
      BY <1>4, <3>1
    <3>2. CASE selected["goal"] # NoItem /\ asked' = Append(RemoveAt(asked, k), RequestFor("goal", selected["goal"], TRUE))
      <4>1. RequestFor("goal", selected["goal"], TRUE) \in Requests
        BY <3>2 DEF RequestFor, Requests, Panes
      <4>2. RemoveAt(asked, k) \in Seq(Requests) /\ Len(RemoveAt(asked, k)) = Len(asked) - 1
        BY QueueShrinks
      <4> DEFINE q == RemoveAt(asked, k)
                 g == RequestFor("goal", selected["goal"], TRUE)
      <4>3. Append(q, g) \in Seq(Requests) /\ Len(Append(q, g)) = Len(q) + 1
        BY <4>1, <4>2, AppendProperties
      <4>4. asked' = Append(q, g) /\ Len(q) = Len(asked) - 1 /\ Len(asked) <= MaxAsked + 1
        BY <3>2, <4>2
      <4> HIDE DEF q, g
      <4> QED BY ONLY <1>0, <4>3, <4>4
    <3>3. asked' = RemoveAt(asked, k)
          \/ (selected["goal"] # NoItem /\ asked' = Append(RemoveAt(asked, k), RequestFor("goal", selected["goal"], TRUE)))
      BY <1>10, Zenon DEF ListArrives
    <3> QED BY <3>1, <3>2, <3>3
  <2>2. UNCHANGED <<selected, panes, stream, reconnect, clicks>> /\ glitches' \in 0..MaxGlitches
    BY <1>10 DEF ListArrives, Glitch
  <2> QED BY <2>1, <2>2
<1>11. ASSUME NEW k \in DOMAIN asked, RequestFails(k) PROVE ConsoleTypeOK'
  BY <1>4, <1>11 DEF RequestFails, Glitch
<1>12. CASE Snapshot
  BY <1>12 DEF Snapshot
<1>13. CASE StreamBreaks
  BY <1>13 DEF StreamBreaks
<1>14. CASE Reconnect
  BY <1>14 DEF Reconnect
<1> QED
  BY <1>1, <1>2, <1>3, <1>6, <1>7, <1>8, <1>9, <1>10, <1>11, <1>12, <1>13, <1>14 DEF ConsoleNext, Arrives

LEMMA ConsoleKept ==
    ASSUME ConsoleAssumption, ConsoleInv, [ConsoleNext]_consoleVars PROVE ConsoleInv'
<1> DEFINE Shown == {"task", "session"}
<1>0. /\ ConsoleTypeOK /\ ConsoleTypeOK' /\ asked \in Seq(Requests) /\ glitches \in 0..MaxGlitches
      /\ MaxGlitches \in Nat /\ NoItem \notin Items /\ "goal" \notin Shown /\ "list" \notin Shown
      /\ reconnect # NoItem => stream = NoItem
      /\ \A p \in Shown : p \in Panes
  BY ConsoleTypesKept DEF ConsoleInv, ConsoleTypeOK, ConsoleAssumption, Panes
<1>a. ASSUME glitches = MaxGlitches
      PROVE  /\ \A p \in Shown : LatestIsFor(asked, p, selected[p], panes[p])
             /\ Followed
  BY <1>a DEF ConsoleInv
<1>b. \A kind : ~(Glitch(kind) /\ glitches' = MaxGlitches)
  BY <1>0 DEF Glitch
<1>1. CASE UNCHANGED consoleVars
  BY <1>1 DEF consoleVars, ConsoleInv, ConsoleTypeOK, LatestIsFor, Followed, AnswersDue
<1>2. ASSUME NEW p \in Panes, NEW i \in Items, Open(p, i) PROVE ConsoleInv'
  <2>0. /\ RequestFor(p, i, FALSE) \in Requests /\ RequestFor(p, i, FALSE).pane = p
        /\ RequestFor(p, i, FALSE).item = i
        /\ asked' = Append(asked, RequestFor(p, i, FALSE)) /\ panes' = panes /\ glitches' = glitches
        /\ selected'[p] = i /\ \A o \in Panes : o # p => selected'[o] = selected[o]
        /\ i # NoItem
    BY <1>0, <1>2 DEF Open, RequestFor, Requests, ConsoleTypeOK
  <2>1. reconnect' # NoItem => stream' = NoItem
    BY <1>0, <1>2 DEF Open
  <2>2. ASSUME glitches = MaxGlitches, NEW o \in Shown PROVE LatestIsFor(asked', o, selected'[o], panes'[o])
    <3>1. CASE o = p
      BY <1>0, <2>0, <3>1, QueueGrows
    <3>2. CASE o # p
      BY <1>0, <1>a, <2>0, <2>2, <3>2, QueueGrows
    <3> QED BY <3>1, <3>2
  <2>3. ASSUME glitches = MaxGlitches PROVE Followed'
    <3>1. CASE p = "session"
      <4>1. AnswersDue(asked', "session") # {}
        BY <1>0, <2>0, <3>1, AskedIsPending
      <4> QED BY <4>1 DEF Followed
    <3>2. CASE p # "session"
      <4>1. AnswersDue(asked', "session") = {} => AnswersDue(asked, "session") = {}
        BY <1>0, <2>0, <3>2, QueueGrows
      <4>2. stream' = stream /\ reconnect' = reconnect /\ selected'["session"] = selected["session"]
        BY <1>0, <1>2, <2>0, <3>2 DEF Open
      <4> QED BY <1>a, <2>3, <4>1, <4>2 DEF Followed
    <3> QED BY <3>1, <3>2
  <2> QED BY <1>0, <2>0, <2>1, <2>2, <2>3 DEF ConsoleInv
<1>3. ASSUME NEW p \in Panes, Close(p) PROVE ConsoleInv'
  <2>0. /\ asked' = asked /\ glitches' = glitches
        /\ selected'[p] = NoItem /\ panes'[p] = NoItem
        /\ \A o \in Panes : o # p => selected'[o] = selected[o] /\ panes'[o] = panes[o]
        /\ p # "session" => stream' = stream /\ reconnect' = reconnect
    BY <1>3 DEF Close, ConsoleInv, ConsoleTypeOK
  <2>1. reconnect' # NoItem => stream' = NoItem
    BY <1>0, <1>3 DEF Close
  <2>2. ASSUME glitches = MaxGlitches, NEW o \in Shown PROVE LatestIsFor(asked', o, selected'[o], panes'[o])
    <3>1. CASE o = p
      BY <2>0, <3>1, ClosedIsClosed
    <3>2. CASE o # p
      BY <1>0, <1>a, <2>0, <2>2, <3>2
    <3> QED BY <3>1, <3>2
  <2>3. ASSUME glitches = MaxGlitches PROVE Followed'
    BY <1>0, <1>a, <2>0, <2>3 DEF Followed
  <2> QED BY <1>0, <2>0, <2>1, <2>2, <2>3 DEF ConsoleInv
<1>4. ASSUME NEW k \in DOMAIN asked, NEW p \in {"task", "goal", "session"}, asked[k].pane = p, Arrived(k),
             selected' = selected, \A o \in Panes : o # p => panes'[o] = panes[o],
             p # "goal" => panes'[p] = IF selected[p] = NoItem THEN NoItem ELSE asked[k].item,
             p # "session" => stream' = stream /\ reconnect' = reconnect,
             p = "session" => StartStream(asked[k].item)
      PROVE  ConsoleInv'
  <2>0. asked' = RemoveAt(asked, k) /\ asked[k].item \in Items
    <3>1. asked[k] \in Requests
      BY <1>0, ElementOfSeq
    <3> QED BY <1>4, <3>1 DEF Arrived, Requests
  <2>1. reconnect' # NoItem => stream' = NoItem
    BY <1>0, <1>4, <2>0 DEF StartStream
  <2>2. ASSUME glitches' = MaxGlitches PROVE glitches = MaxGlitches /\ \A j \in 1..k - 1 : asked[j].pane # p
    BY <1>b, <1>4, <2>2 DEF Arrived
  <2>3. ASSUME glitches' = MaxGlitches, NEW o \in Shown
        PROVE  /\ LatestIsFor(asked', o, selected'[o], panes'[o])
               /\ o = p => (AnswersDue(asked', o) = {} => selected[o] = NoItem \/ selected[o] = asked[k].item)
               /\ o # p => (AnswersDue(asked', o) = {} => AnswersDue(asked, o) = {})
    <3>1. LatestIsFor(asked, o, selected[o], panes[o])
      BY <1>a, <2>2, <2>3
    <3>2. CASE o = p
      BY <1>0, <1>4, <2>0, <2>2, <2>3, <3>1, <3>2, OwnGoesOn
    <3>3. CASE o # p
      BY <1>0, <1>4, <2>0, <2>3, <3>1, <3>3, OthersKeepTheirs
    <3> QED BY <3>2, <3>3
  <2>4. ASSUME glitches' = MaxGlitches PROVE Followed'
    <3>1. CASE p = "session"
      BY <1>4, <2>3, <2>4, <3>1 DEF Followed, StartStream
    <3>2. CASE p # "session"
      BY <1>a, <1>4, <2>2, <2>3, <2>4, <3>2 DEF Followed
    <3> QED BY <3>1, <3>2
  <2> QED BY <1>0, <2>1, <2>3, <2>4 DEF ConsoleInv
<1>5. ASSUME NEW k \in DOMAIN asked, TaskArrives(k) \/ GoalArrives(k) \/ SessionArrives(k) PROVE ConsoleInv'
  <2>1. CASE TaskArrives(k)
    BY <1>0, <1>4, <2>1 DEF TaskArrives, Render, ConsoleTypeOK
  <2>2. CASE GoalArrives(k)
    BY <1>0, <1>4, <2>2 DEF GoalArrives, Render, ConsoleTypeOK
  <2>3. CASE SessionArrives(k)
    BY <1>0, <1>4, <2>3 DEF SessionArrives, Render, ConsoleTypeOK
  <2> QED BY <1>5, <2>1, <2>2, <2>3
<1>6. CASE Refresh
  <2>0. /\ AskList \in Requests /\ AskList.pane = "list" /\ asked' = Append(asked, AskList)
        /\ UNCHANGED <<selected, panes, stream, reconnect, glitches>>
    BY <1>6 DEF Refresh, AskList, Requests
  <2>1. ASSUME glitches = MaxGlitches, NEW o \in Shown
        PROVE  LatestIsFor(asked', o, selected[o], panes[o]) /\ (AnswersDue(asked', o) = {} => AnswersDue(asked, o) = {})
    BY <1>0, <1>a, <2>0, <2>1, QueueGrows
  <2> QED BY <1>0, <1>a, <2>0, <2>1 DEF ConsoleInv, Followed
<1>7. ASSUME NEW k \in DOMAIN asked, ListArrives(k) PROVE ConsoleInv'
  <2> DEFINE q == RemoveAt(asked, k)
  <2>0. /\ asked[k].pane = "list" /\ UNCHANGED <<selected, panes, stream, reconnect>> /\ q \in Seq(Requests)
        /\ glitches' = MaxGlitches => glitches = MaxGlitches
    BY <1>0, <1>b, <1>7, QueueShrinks DEF ListArrives
  <2>1. ASSUME glitches = MaxGlitches, NEW o \in Shown
        PROVE  LatestIsFor(q, o, selected[o], panes[o]) /\ (AnswersDue(q, o) = {} => AnswersDue(asked, o) = {})
    BY <1>0, <1>a, <2>0, <2>1, OthersKeepTheirs
  <2>2. ASSUME glitches = MaxGlitches, NEW o \in Shown
        PROVE  LatestIsFor(asked', o, selected[o], panes[o]) /\ (AnswersDue(asked', o) = {} => AnswersDue(asked, o) = {})
    <3>1. CASE asked' = q
      BY <2>1, <2>2, <3>1
    <3>2. CASE selected["goal"] # NoItem /\ asked' = Append(q, RequestFor("goal", selected["goal"], TRUE))
      <4>1. /\ RequestFor("goal", selected["goal"], TRUE) \in Requests
            /\ RequestFor("goal", selected["goal"], TRUE).pane = "goal"
        BY <1>0, <3>2 DEF RequestFor, Requests, Panes, ConsoleTypeOK
      <4> QED BY <1>0, <2>0, <2>1, <2>2, <3>2, <4>1, QueueGrows
    <3> QED BY <1>7, <3>1, <3>2 DEF ListArrives
  <2> QED BY <1>0, <1>a, <2>0, <2>2 DEF ConsoleInv, Followed
<1>8. ASSUME NEW k \in DOMAIN asked, RequestFails(k) PROVE ConsoleInv'
  <2>1. glitches' # MaxGlitches
    BY <1>b, <1>8 DEF RequestFails
  <2> QED BY <1>0, <1>8, <2>1 DEF RequestFails, ConsoleInv
<1>9. CASE Snapshot
  <2>1. panes'["session"] = selected["session"] /\ panes'["task"] = panes["task"]
        /\ selected["session"] # NoItem
    BY <1>9 DEF Snapshot, ConsoleInv, ConsoleTypeOK, Panes
  <2>2. UNCHANGED <<selected, asked, stream, reconnect, glitches>>
    BY <1>9 DEF Snapshot
  <2> QED BY <1>0, <1>a, <2>1, <2>2 DEF ConsoleInv, LatestIsFor, Followed
<1>10. CASE StreamBreaks
  <2>1. UNCHANGED <<selected, asked, panes, glitches>> /\ stream # NoItem /\ stream' = NoItem
        /\ reconnect' = IF selected["session"] = stream THEN stream ELSE NoItem
    BY <1>10 DEF StreamBreaks
  <2> QED BY <1>0, <1>a, <2>1 DEF ConsoleInv, Followed
<1>11. CASE Reconnect
  <2>1. UNCHANGED <<selected, asked, panes, glitches>> /\ reconnect # NoItem /\ stream' = reconnect
        /\ reconnect' = NoItem
    BY <1>11 DEF Reconnect
  <2> QED BY <1>0, <1>a, <2>1 DEF ConsoleInv, Followed
<1> QED
  BY <1>1, <1>2, <1>3, <1>5, <1>6, <1>7, <1>8, <1>9, <1>10, <1>11 DEF ConsoleNext, Arrives

(* The panes, the requests under way and the stream keep their types.      *)
THEOREM ConsoleTypes == ASSUME ConsoleAssumption PROVE ConsoleSpec => []ConsoleTypeOK
<1>1. ConsoleInv => ConsoleTypeOK
  BY DEF ConsoleInv
<1> QED BY ConsoleStarts, ConsoleKept, <1>1, PTL DEF ConsoleSpec

(* ConsoleIsRight: when every answer is there the panes show what is       *)
(* selected, and the selected session is followed, however the clicks,     *)
(* the answers and the breaks of the stream fell.                          *)
THEOREM ConsoleIsAlwaysRight == ASSUME ConsoleAssumption PROVE ConsoleSpec => []ConsoleIsRight
<1>1. ASSUME ConsoleInv PROVE ConsoleIsRight
  <2> SUFFICES ASSUME asked = <<>>, glitches = MaxGlitches
               PROVE  /\ \A p \in {"task", "session"} : panes[p] = selected[p]
                      /\ selected["session"] # NoItem => selected["session"] \in {stream, reconnect}
    BY DEF ConsoleIsRight, PanesAreRight, SessionIsFollowed
  <2>1. \A p : AnswersDue(asked, p) = {}
    BY DEF AnswersDue
  <2> QED BY <1>1, <2>1 DEF ConsoleInv, LatestIsFor, Followed
<1> QED BY ConsoleStarts, ConsoleKept, <1>1, PTL DEF ConsoleSpec

-----------------------------------------------------------------------------
(* SessionActions. What is known of an execution is in the log.            *)

(* What an execution keeps from step to step: it goes on from running      *)
(* only.                                                                   *)
GoesOn(old, new) == new.id = old.id /\ new.kind = old.kind /\ (old.at = "running" \/ new.at = old.at)

(* A row says which execution it is about, and how that ended.             *)
RowsInv ==
    /\ \A k \in 1..Len(audit) : audit[k].of # 0 => audit[k].of \in 1..Len(executions)
    /\ \A k \in 1..Len(audit) : audit[k].of = 0 <=> audit[k].what = "other"
    /\ \A k \in 1..Len(audit) : audit[k].what \in {"completed", "failed"} =>
          audit[k].of # 0 /\ executions[audit[k].of].at = audit[k].what

(* The row that every execution began with is there.                       *)
BegunInv ==
    \A n \in 1..Len(executions) :
        \E k \in 1..Len(audit) :
            /\ audit[k] = [what |-> "requested", of |-> n]

(* Once an execution has ended, a later row says so.                       *)
EndedInv ==
    \A n \in 1..Len(executions) : executions[n].at \in {"completed", "failed"} =>
        \E j \in 1..Len(audit) :
            /\ audit[j] = [what |-> executions[n].at, of |-> n]
            /\ \A k \in 1..Len(audit) : audit[k] = [what |-> "requested", of |-> n] => k < j

ActionInv ==
    /\ executions \in Seq(Executions) /\ Len(executions) <= posts
    /\ ActionsTypeOK
    /\ ActionsRunOnce
    /\ RowsInv
    /\ BegunInv
    /\ EndedInv

(* The workbench begins with nothing.                                      *)
LEMMA InitActions == ASSUME ActionsAssumption, ActionsInit PROVE ActionInv
<1>1. /\ executions = <<>> /\ audit = <<>> /\ told = NothingTold /\ posts = 0 /\ others = 0
      /\ filter = NoFilter
  BY DEF ActionsInit
<1>2. Len(executions) = 0 /\ Len(audit) = 0 /\ executions \in Seq(Executions) /\ audit \in Seq(AuditRows)
      /\ DOMAIN executions = {} /\ DOMAIN audit = {}
  BY <1>1, EmptySeq
<1>3. ActionsTypeOK
  BY <1>1, <1>2 DEF ActionsTypeOK, ActionsAssumption, NothingTold
<1>4. ActionsRunOnce
  BY <1>2 DEF ActionsRunOnce
<1> QED BY <1>1, <1>2, <1>3, <1>4 DEF ActionInv, RowsInv, BegunInv, EndedInv

(* The facts about the two sequences that the proofs below use.            *)
LEMMA ActionFacts ==
    ASSUME ActionsAssumption, ActionInv
    PROVE  /\ executions \in Seq(Executions) /\ Len(executions) \in 0..MaxPosts /\ DOMAIN executions = 1..Len(executions)
           /\ audit \in Seq(AuditRows) /\ Len(audit) \in Nat /\ DOMAIN audit = 1..Len(audit)
           /\ \A n \in 1..Len(executions) : executions[n] \in Executions
           /\ \A k \in 1..Len(audit) : audit[k] \in AuditRows
           /\ MaxPosts \in Nat /\ LogWindow \in Nat /\ posts \in 0..MaxPosts /\ Len(executions) <= posts
<1>1. executions \in Seq(Executions) /\ Len(executions) <= posts /\ audit \in Seq(AuditRows)
      /\ posts \in 0..MaxPosts
      /\ MaxPosts \in Nat /\ LogWindow \in Nat
  BY DEF ActionInv, ActionsTypeOK, ActionsAssumption
<1>2. DOMAIN executions = 1..Len(executions) /\ DOMAIN audit = 1..Len(audit) /\ Len(executions) \in Nat
      /\ Len(audit) \in Nat
  BY <1>1, LenProperties
<1>3. \A n \in 1..Len(executions) : executions[n] \in Executions
  BY <1>1, ElementOfSeq
<1>4. \A k \in 1..Len(audit) : audit[k] \in AuditRows
  BY <1>1, ElementOfSeq
<1> QED BY <1>1, <1>2, <1>3, <1>4

(* One more row of the log.                                                *)
LEMMA RowLogged ==
    ASSUME ActionsAssumption, ActionInv, NEW what \in {"requested", "completed", "failed", "other"},
           NEW n \in 0..MaxPosts, Log(what, n)
    PROVE  /\ audit' \in Seq(AuditRows) /\ Len(audit') = Len(audit) + 1 /\ DOMAIN audit' = 1..(Len(audit) + 1)
           /\ \A k \in 1..Len(audit) : audit'[k] = audit[k]
           /\ audit'[Len(audit) + 1] = [what |-> what, of |-> n]
           /\ audit'[Len(audit) + 1].what = what /\ audit'[Len(audit) + 1].of = n
           /\ \A k \in 1..(Len(audit) + 1) : k \in 1..Len(audit) \/ k = Len(audit) + 1
           /\ Len(audit) \in Nat /\ Len(audit) + 1 \notin 1..Len(audit)
<1> DEFINE added == [what |-> what, of |-> n]
<1>1. added \in AuditRows /\ audit \in Seq(AuditRows) /\ audit' = Append(audit, added)
  BY DEF AuditRows, ActionInv, ActionsTypeOK, Log
<1> HIDE DEF added
<1>2. audit' \in Seq(AuditRows) /\ Len(audit') = Len(audit) + 1 /\ audit'[Len(audit) + 1] = added
      /\ \A k \in 1..Len(audit) : audit'[k] = audit[k]
  BY <1>1, AppendProperties
<1>3. DOMAIN audit' = 1..Len(audit')
  BY <1>2, LenProperties
<1>4. Len(audit) \in Nat
  BY <1>1, LenProperties
<1> QED BY <1>2, <1>3, <1>4 DEF added

(* Steps that neither begin an execution nor write to the log.             *)
LEMMA GoingOnKeeps ==
    ASSUME ActionsAssumption, ActionInv, executions' \in Seq(Executions), Len(executions') = Len(executions),
           \A n \in 1..Len(executions) :
              \/ GoesOn(executions[n], executions'[n]) /\ executions'[n].at \notin {"completed", "failed"}
              \/ executions'[n].at = executions[n].at /\ executions'[n].id = executions[n].id,
           UNCHANGED audit, posts' >= posts, ActionsTypeOK'
    PROVE  ActionInv'
<1>1. /\ DOMAIN executions = 1..Len(executions) /\ Len(executions) \in Nat /\ Len(executions) <= posts
      /\ posts \in Nat /\ posts' \in Nat
  BY ActionFacts DEF ActionsTypeOK, ActionsAssumption
<1>2. DOMAIN executions' = 1..Len(executions)
  BY LenProperties
<1>3. ActionsRunOnce'
  BY <1>1, <1>2 DEF ActionInv, ActionsRunOnce, GoesOn
<1>4. RowsInv'
  BY DEF ActionInv, RowsInv, GoesOn
<1>5. BegunInv' /\ EndedInv'
  BY DEF ActionInv, BegunInv, EndedInv, GoesOn
<1>6. Len(executions') <= posts'
  BY <1>1
<1> QED BY <1>3, <1>4, <1>5, <1>6 DEF ActionInv

(* A fresh request begins an execution: while all rows are looked at,      *)
(* there was none of its id.                                               *)
LEMMA BeginningKeeps ==
    ASSUME ActionsAssumption, ActionInv, NEW id \in ActionIds, NEW kind \in ActionKinds,
           posts < MaxPosts, posts' = posts + 1, Found(id) = {}, BeginAction(id, kind),
           UNCHANGED <<filter, others>>
    PROVE  ActionInv'
<1> DEFINE new == [id |-> id, kind |-> kind, at |-> "running", task |-> "none"]
<1> DEFINE n == Len(executions) + 1
<1>1. /\ executions \in Seq(Executions) /\ Len(executions) \in 0..MaxPosts
      /\ DOMAIN executions = 1..Len(executions)
      /\ audit \in Seq(AuditRows) /\ Len(audit) \in Nat /\ DOMAIN audit = 1..Len(audit)
      /\ Len(executions) <= posts /\ posts \in 0..MaxPosts /\ MaxPosts \in Nat /\ LogWindow \in Nat
  BY ActionFacts
<1>2. n \in 1..MaxPosts /\ new \in Executions /\ new.id = id /\ new.at = "running"
  BY <1>1 DEF Executions, ActionTaskStatuses
<1>3. executions' = Append(executions, new) /\ Log("requested", n) /\ told' = NothingTold
  BY DEF BeginAction
<1> HIDE DEF new
<1>4. /\ executions' \in Seq(Executions) /\ Len(executions') = n /\ executions'[n] = new
      /\ \A m \in 1..Len(executions) : executions'[m] = executions[m]
  BY <1>1, <1>2, <1>3, AppendProperties
<1>5. DOMAIN executions' = 1..n
  BY <1>4, LenProperties
<1>6. /\ audit' \in Seq(AuditRows) /\ Len(audit') = Len(audit) + 1 /\ DOMAIN audit' = 1..(Len(audit) + 1)
      /\ \A k \in 1..Len(audit) : audit'[k] = audit[k]
      /\ audit'[Len(audit) + 1] = [what |-> "requested", of |-> n]
      /\ audit'[Len(audit) + 1].what = "requested" /\ audit'[Len(audit) + 1].of = n
      /\ \A k \in 1..(Len(audit) + 1) : k \in 1..Len(audit) \/ k = Len(audit) + 1
      /\ Len(audit) + 1 \notin 1..Len(audit)
  BY <1>2, <1>3, RowLogged
<1>7. ActionsTypeOK'
  BY <1>1, <1>2, <1>3, <1>4, <1>6 DEF ActionInv, ActionsTypeOK, ActionsAssumption, NothingTold
<1>8. RowsInv'
  <2>1. ASSUME NEW k \in 1..(Len(audit) + 1)
        PROVE  /\ audit'[k].of # 0 => audit'[k].of \in 1..n
               /\ audit'[k].of = 0 <=> audit'[k].what = "other"
               /\ audit'[k].what \in {"completed", "failed"} =>
                     audit'[k].of # 0 /\ executions'[audit'[k].of].at = audit'[k].what
    <3>1. CASE k = Len(audit) + 1
      BY <3>1, <1>2, <1>6
    <3>2. CASE k \in 1..Len(audit)
      <4>1. /\ audit[k].of # 0 => audit[k].of \in 1..Len(executions)
            /\ audit[k].of = 0 <=> audit[k].what = "other"
            /\ audit[k].what \in {"completed", "failed"} =>
                     audit[k].of # 0 /\ executions[audit[k].of].at = audit[k].what
        BY <3>2 DEF ActionInv, RowsInv
      <4> QED BY <3>2, <4>1, <1>1, <1>4, <1>6
    <3> QED BY <2>1, <1>6, <3>1, <3>2
  <2> QED BY <2>1, <1>4, <1>6 DEF RowsInv
<1>9. BegunInv'
  <2>1. ASSUME NEW m \in 1..n PROVE \E k \in 1..Len(audit') : audit'[k] = [what |-> "requested", of |-> m]
    <3>1. CASE m = n
      BY <1>1, <1>6, <3>1
    <3>2. CASE m \in 1..Len(executions)
      BY <1>1, <1>6, <3>2 DEF ActionInv, BegunInv
    <3> QED BY <1>1, <3>1, <3>2
  <2> QED BY <2>1, <1>4 DEF BegunInv
<1>10. EndedInv'
  <2>1. ASSUME NEW m \in 1..n, executions'[m].at \in {"completed", "failed"}
        PROVE  \E j \in 1..Len(audit') :
                  /\ audit'[j] = [what |-> executions'[m].at, of |-> m]
                  /\ \A k \in 1..Len(audit') : audit'[k] = [what |-> "requested", of |-> m] => k < j
    <3>1. m # n
      BY <2>1, <1>2, <1>4
    <3>2. m \in 1..Len(executions) /\ executions'[m] = executions[m]
      BY <3>1, <1>1, <1>4
    <3>3. PICK j \in 1..Len(audit) :
                  /\ audit[j] = [what |-> executions[m].at, of |-> m]
                  /\ \A k \in 1..Len(audit) : audit[k] = [what |-> "requested", of |-> m] => k < j
      BY <2>1, <3>2 DEF ActionInv, EndedInv
    <3>4. j \in 1..Len(audit') /\ audit'[j] = [what |-> executions'[m].at, of |-> m]
      BY <1>1, <1>6, <3>2, <3>3
    <3>5. ASSUME NEW k \in 1..Len(audit'), audit'[k] = [what |-> "requested", of |-> m] PROVE k < j
      <4>1. k # Len(audit) + 1
        <5>1. audit'[k].of = m
          BY <3>5
        <5> QED BY <1>6, <3>1, <5>1
      <4> QED BY <1>1, <1>6, <3>3, <3>5, <4>1
    <3> QED BY <3>4, <3>5
  <2> QED BY <2>1, <1>4 DEF EndedInv
<1>11. ActionsRunOnce'
  <2>1. SUFFICES ASSUME Len(audit) + 1 <= LogWindow, NEW m \in 1..n, NEW o \in 1..n,
                        executions'[m].id = executions'[o].id
                 PROVE  m = o
    BY <1>5, <1>6 DEF ActionsRunOnce
  <2>2. Seen = 1..Len(audit)
    BY <1>1, <2>1 DEF Seen
  <2>3. ASSUME NEW i \in 1..Len(executions) PROVE executions[i].id # id
    <3>1. PICK k \in 1..Len(audit) : audit[k] = [what |-> "requested", of |-> i]
      BY DEF ActionInv, BegunInv
    <3>2. audit[k].of # 0 /\ audit[k].of = i
      BY <3>1, <1>1
    <3> QED BY <3>2, <2>2 DEF Found, RowsOf
  <2>4. CASE m = n /\ o = n
    BY <2>4
  <2>5. CASE m = n /\ o \in 1..Len(executions)
    BY <1>2, <1>4, <2>1, <2>3, <2>5
  <2>6. CASE o = n /\ m \in 1..Len(executions)
    BY <1>2, <1>4, <2>1, <2>3, <2>6
  <2>7. CASE o \in 1..Len(executions) /\ m \in 1..Len(executions)
    BY <1>1, <1>4, <2>1, <2>7 DEF ActionInv, ActionsRunOnce
  <2> QED BY <1>1, <2>4, <2>5, <2>6, <2>7
<1>12. Len(executions') <= posts'
  BY <1>1, <1>4
<1> QED BY <1>4, <1>7, <1>8, <1>9, <1>10, <1>11, <1>12 DEF ActionInv

(* The state of one execution is changed.                                  *)
LEMMA ExecutionChanged ==
    ASSUME ActionsAssumption, ActionInv, NEW n \in 1..Len(executions), NEW e \in Executions,
           executions' = [executions EXCEPT ![n] = e]
    PROVE  /\ executions' \in Seq(Executions) /\ Len(executions') = Len(executions)
           /\ DOMAIN executions' = 1..Len(executions) /\ executions'[n] = e
           /\ \A m \in 1..Len(executions) : m # n => executions'[m] = executions[m]
<1>1. executions \in Seq(Executions)
  BY ActionFacts
<1>2. executions' \in Seq(Executions) /\ Len(executions') = Len(executions)
      /\ \A m \in 1..Len(executions) : executions'[m] = IF m = n THEN e ELSE executions[m]
  BY <1>1, ExceptSeq
<1> QED BY <1>2, LenProperties

(* An execution that ran is over, and a row of the log tells of it.        *)
LEMMA EndingKeeps ==
    ASSUME ActionsAssumption, ActionInv, NEW n \in DOMAIN executions, NEW how \in {"completed", "failed"},
           Over(n, how)
    PROVE  ActionInv'
<1> DEFINE e == [executions[n] EXCEPT !.at = how]
<1>1. /\ executions \in Seq(Executions) /\ Len(executions) \in 0..MaxPosts
      /\ DOMAIN executions = 1..Len(executions)
      /\ audit \in Seq(AuditRows) /\ Len(audit) \in Nat /\ DOMAIN audit = 1..Len(audit)
      /\ Len(executions) <= posts /\ posts \in 0..MaxPosts /\ MaxPosts \in Nat /\ LogWindow \in Nat
      /\ executions[n] \in Executions
  BY ActionFacts
<1>2. n \in 1..Len(executions) /\ n \in 0..MaxPosts /\ n # 0 /\ n \in Nat
  BY <1>1
<1>3. e \in Executions /\ e.at = how /\ e.id = executions[n].id
  BY <1>1 DEF Executions
<1>4. executions[n].at = "running" /\ Log(how, n) /\ UNCHANGED <<filter, posts, others>>
      /\ told' = NothingTold
  BY DEF Over
<1>5. executions' = [executions EXCEPT ![n] = e]
  BY DEF Over
<1> HIDE DEF e
<1>6. /\ executions' \in Seq(Executions) /\ Len(executions') = Len(executions)
      /\ DOMAIN executions' = 1..Len(executions) /\ executions'[n] = e
      /\ \A m \in 1..Len(executions) : m # n => executions'[m] = executions[m]
  BY <1>2, <1>3, <1>5, ExecutionChanged
<1>7. /\ audit' \in Seq(AuditRows) /\ Len(audit') = Len(audit) + 1 /\ DOMAIN audit' = 1..(Len(audit) + 1)
      /\ \A k \in 1..Len(audit) : audit'[k] = audit[k]
      /\ audit'[Len(audit) + 1] = [what |-> how, of |-> n]
      /\ audit'[Len(audit) + 1].what = how /\ audit'[Len(audit) + 1].of = n
      /\ \A k \in 1..(Len(audit) + 1) : k \in 1..Len(audit) \/ k = Len(audit) + 1
      /\ Len(audit) + 1 \notin 1..Len(audit)
  BY <1>2, <1>4, RowLogged
<1>8. ActionsTypeOK'
  BY <1>1, <1>4, <1>6, <1>7 DEF ActionInv, ActionsTypeOK, ActionsAssumption, NothingTold
<1>9. RowsInv'
  <2>1. ASSUME NEW k \in 1..(Len(audit) + 1)
        PROVE  /\ audit'[k].of # 0 => audit'[k].of \in 1..Len(executions)
               /\ audit'[k].of = 0 <=> audit'[k].what = "other"
               /\ audit'[k].what \in {"completed", "failed"} =>
                     audit'[k].of # 0 /\ executions'[audit'[k].of].at = audit'[k].what
    <3>1. CASE k = Len(audit) + 1
      BY <3>1, <1>2, <1>3, <1>6, <1>7
    <3>2. CASE k \in 1..Len(audit)
      <4>1. /\ audit[k].of # 0 => audit[k].of \in 1..Len(executions)
            /\ audit[k].of = 0 <=> audit[k].what = "other"
            /\ audit[k].what \in {"completed", "failed"} =>
                     audit[k].of # 0 /\ executions[audit[k].of].at = audit[k].what
        BY <3>2 DEF ActionInv, RowsInv
      <4>2. audit[k].what \in {"completed", "failed"} => audit[k].of # n
        BY <1>4, <4>1
      <4> QED BY <3>2, <4>1, <4>2, <1>6, <1>7
    <3> QED BY <1>1, <3>1, <3>2
  <2> QED BY <2>1, <1>6, <1>7 DEF RowsInv
<1>10. BegunInv'
  <2>1. ASSUME NEW m \in 1..Len(executions)
        PROVE  \E k \in 1..Len(audit') : audit'[k] = [what |-> "requested", of |-> m]
    BY <1>1, <1>7 DEF ActionInv, BegunInv
  <2> QED BY <2>1, <1>6 DEF BegunInv
<1>11. EndedInv'
  <2>1. ASSUME NEW m \in 1..Len(executions), executions'[m].at \in {"completed", "failed"}
        PROVE  \E j \in 1..Len(audit') :
                  /\ audit'[j] = [what |-> executions'[m].at, of |-> m]
                  /\ \A k \in 1..Len(audit') : audit'[k] = [what |-> "requested", of |-> m] => k < j
    <3>1. CASE m = n
      <4>1. audit'[Len(audit) + 1] = [what |-> executions'[m].at, of |-> m]
        BY <3>1, <1>3, <1>6, <1>7
      <4>2. ASSUME NEW k \in 1..Len(audit'), audit'[k] = [what |-> "requested", of |-> m]
            PROVE  k < Len(audit) + 1
        <5>1. k # Len(audit) + 1
          <6>1. audit'[k].what = "requested"
            BY <4>2
          <6> QED BY <1>7, <6>1
        <5> QED BY <5>1, <1>1, <1>7
      <4> QED BY <4>1, <4>2, <1>1, <1>7
    <3>2. CASE m # n
      <4>1. executions'[m] = executions[m]
        BY <3>2, <1>6
      <4>2. PICK j \in 1..Len(audit) :
                  /\ audit[j] = [what |-> executions[m].at, of |-> m]
                  /\ \A k \in 1..Len(audit) : audit[k] = [what |-> "requested", of |-> m] => k < j
        BY <2>1, <4>1 DEF ActionInv, EndedInv
      <4>3. j \in 1..Len(audit') /\ audit'[j] = [what |-> executions'[m].at, of |-> m]
        BY <1>1, <1>7, <4>1, <4>2
      <4>4. ASSUME NEW k \in 1..Len(audit'), audit'[k] = [what |-> "requested", of |-> m] PROVE k < j
        <5>1. k # Len(audit) + 1
          <6>1. audit'[k].of = m
            BY <4>4
          <6> QED BY <1>7, <3>2, <6>1
        <5> QED BY <1>1, <1>7, <4>2, <4>4, <5>1
      <4> QED BY <4>3, <4>4
    <3> QED BY <3>1, <3>2
  <2> QED BY <2>1, <1>6 DEF EndedInv
<1>12. ActionsRunOnce'
  <2>1. \A m \in 1..Len(executions) : executions'[m].id = executions[m].id
    BY <1>3, <1>6
  <2> QED BY <2>1, <1>1, <1>6, <1>7 DEF ActionInv, ActionsRunOnce
<1> QED BY <1>1, <1>4, <1>6, <1>8, <1>9, <1>10, <1>11, <1>12 DEF ActionInv

(* Rows of others are about no execution.                                  *)
LEMMA OtherRowKeeps == ASSUME ActionsAssumption, ActionInv, OtherRow PROVE ActionInv'
<1>1. /\ executions \in Seq(Executions) /\ Len(executions) \in 0..MaxPosts
      /\ DOMAIN executions = 1..Len(executions)
      /\ audit \in Seq(AuditRows) /\ Len(audit) \in Nat /\ DOMAIN audit = 1..Len(audit)
      /\ Len(executions) <= posts /\ posts \in 0..MaxPosts /\ MaxPosts \in Nat /\ LogWindow \in Nat
  BY ActionFacts
<1>2. Log("other", 0) /\ UNCHANGED <<executions, filter, posts>> /\ told' = NothingTold /\ others < MaxOther
      /\ others' = others + 1
  BY DEF OtherRow
<1>3. 0 \in 0..MaxPosts
  BY <1>1
<1>7. /\ audit' \in Seq(AuditRows) /\ Len(audit') = Len(audit) + 1 /\ DOMAIN audit' = 1..(Len(audit) + 1)
      /\ \A k \in 1..Len(audit) : audit'[k] = audit[k]
      /\ audit'[Len(audit) + 1] = [what |-> "other", of |-> 0]
      /\ audit'[Len(audit) + 1].what = "other" /\ audit'[Len(audit) + 1].of = 0
      /\ \A k \in 1..(Len(audit) + 1) : k \in 1..Len(audit) \/ k = Len(audit) + 1
      /\ Len(audit) + 1 \notin 1..Len(audit)
  BY <1>2, <1>3, RowLogged
<1>8. ActionsTypeOK'
  BY <1>1, <1>2, <1>7 DEF ActionInv, ActionsTypeOK, ActionsAssumption, NothingTold
<1>9. RowsInv'
  <2>1. ASSUME NEW k \in 1..(Len(audit) + 1)
        PROVE  /\ audit'[k].of # 0 => audit'[k].of \in 1..Len(executions)
               /\ audit'[k].of = 0 <=> audit'[k].what = "other"
               /\ audit'[k].what \in {"completed", "failed"} =>
                     audit'[k].of # 0 /\ executions[audit'[k].of].at = audit'[k].what
    <3>1. CASE k = Len(audit) + 1
      BY <3>1, <1>7
    <3>2. CASE k \in 1..Len(audit)
      BY <3>2, <1>7 DEF ActionInv, RowsInv
    <3> QED BY <2>1, <1>7, <3>1, <3>2
  <2> QED BY <2>1, <1>2, <1>7 DEF RowsInv
<1>10. BegunInv'
  BY <1>1, <1>2, <1>7 DEF ActionInv, BegunInv
<1>11. EndedInv'
  <2>1. ASSUME NEW m \in 1..Len(executions), executions[m].at \in {"completed", "failed"}
        PROVE  \E j \in 1..Len(audit') :
                  /\ audit'[j] = [what |-> executions[m].at, of |-> m]
                  /\ \A k \in 1..Len(audit') : audit'[k] = [what |-> "requested", of |-> m] => k < j
    <4>2. PICK j \in 1..Len(audit) :
                  /\ audit[j] = [what |-> executions[m].at, of |-> m]
                  /\ \A k \in 1..Len(audit) : audit[k] = [what |-> "requested", of |-> m] => k < j
      BY <2>1 DEF ActionInv, EndedInv
    <4>3. j \in 1..Len(audit') /\ audit'[j] = [what |-> executions[m].at, of |-> m]
      BY <1>1, <1>7, <4>2
    <4>4. ASSUME NEW k \in 1..Len(audit'), audit'[k] = [what |-> "requested", of |-> m] PROVE k < j
      <5>1. k # Len(audit) + 1
        <6>1. audit'[k].what = "requested"
          BY <4>4
        <6> QED BY <1>7, <6>1
      <5> QED BY <1>1, <1>7, <4>2, <4>4, <5>1
    <4> QED BY <4>3, <4>4
  <2> QED BY <2>1, <1>2 DEF EndedInv
<1>12. ActionsRunOnce'
  BY <1>1, <1>2, <1>7 DEF ActionInv, ActionsRunOnce
<1> QED BY <1>1, <1>2, <1>8, <1>9, <1>10, <1>11, <1>12 DEF ActionInv

(* A task is made or ends: the execution is as it was.                     *)
LEMMA TaskKeeps ==
    ASSUME ActionsAssumption, ActionInv, NEW n \in DOMAIN executions, NEW s \in ActionTaskStatuses,
           executions' = [executions EXCEPT ![n].task = s], told' = NothingTold,
           UNCHANGED <<audit, filter, posts, others>>
    PROVE  ActionInv'
<1> DEFINE e == [executions[n] EXCEPT !.task = s]
<1>1. /\ executions[n] \in Executions /\ n \in 1..Len(executions) /\ Len(executions) \in 0..MaxPosts
      /\ posts \in 0..MaxPosts
      /\ MaxPosts \in Nat
  BY ActionFacts
<1>2. e \in Executions /\ e.at = executions[n].at /\ e.id = executions[n].id
  BY <1>1 DEF Executions
<1>3. executions' = [executions EXCEPT ![n] = e]
  OBVIOUS
<1> HIDE DEF e
<1>4. /\ executions' \in Seq(Executions) /\ Len(executions') = Len(executions) /\ executions'[n] = e
      /\ \A m \in 1..Len(executions) : m # n => executions'[m] = executions[m]
  BY <1>1, <1>2, <1>3, ExecutionChanged
<1>5. ActionsTypeOK'
  BY <1>4 DEF ActionInv, ActionsTypeOK, NothingTold, ActionsAssumption
<1>6. \A m \in 1..Len(executions) : executions'[m].at = executions[m].at /\ executions'[m].id = executions[m].id
  BY <1>2, <1>4
<1> QED BY <1>1, <1>4, <1>5, <1>6, GoingOnKeeps

(* A crash loses what was running; the log keeps what it said.             *)
LEMMA CrashingKeeps == ASSUME ActionsAssumption, ActionInv, CrashHandlers PROVE ActionInv'
<1> DEFINE f(n) == IF executions[n].at = "running" THEN [executions[n] EXCEPT !.at = "lost"] ELSE executions[n]
<1>1. /\ Len(executions) \in 0..MaxPosts /\ DOMAIN executions = 1..Len(executions) /\ MaxPosts \in Nat
      /\ \A n \in 1..Len(executions) : executions[n] \in Executions
      /\ posts \in 0..MaxPosts
  BY ActionFacts
<1>2. \A n \in 1..Len(executions) : f(n) \in Executions /\ GoesOn(executions[n], f(n))
                                    /\ (executions[n].at = "running" => f(n).at = "lost")
                                    /\ (executions[n].at # "running" => f(n) = executions[n])
  BY <1>1 DEF Executions, GoesOn
<1>3. executions' = [n \in 1..Len(executions) |-> f(n)]
  BY <1>1 DEF CrashHandlers
<1> HIDE DEF f
<1>4. executions' \in [1..Len(executions) -> Executions]
      /\ \A n \in 1..Len(executions) : executions'[n] = f(n)
  BY <1>2, <1>3
<1>5. executions' \in Seq(Executions)
  BY <1>1, <1>4, SeqDef
<1>6. Len(executions') = Len(executions)
  BY <1>1, <1>4, <1>5, LenProperties
<1>7. told' = NothingTold /\ UNCHANGED <<audit, filter, posts>> /\ others' = others + 1 /\ others < MaxOther
  BY DEF CrashHandlers
<1>8. ActionsTypeOK'
  BY <1>1, <1>5, <1>6, <1>7 DEF ActionInv, ActionsTypeOK, NothingTold, ActionsAssumption
<1>9. ASSUME NEW n \in 1..Len(executions)
      PROVE  \/ GoesOn(executions[n], executions'[n]) /\ executions'[n].at \notin {"completed", "failed"}
             \/ executions'[n].at = executions[n].at /\ executions'[n].id = executions[n].id
  <2>1. CASE executions[n].at = "running"
    BY <2>1, <1>2, <1>4
  <2>2. CASE executions[n].at # "running"
    BY <2>2, <1>2, <1>4
  <2> QED BY <2>1, <2>2
<1> QED BY <1>1, <1>5, <1>6, <1>7, <1>8, <1>9, GoingOnKeeps

(* Of rows of the log one is the best: the heaviest, and of these the      *)
(* latest.                                                                 *)
LEMMA LatestOf ==
    ASSUME NEW top \in Nat, NEW S, S \subseteq 1..top, S # {} PROVE \E i \in S : \A j \in S : i >= j
<1> DEFINE T == {top - i : i \in S}
<1>1. T \subseteq Nat /\ T # {}
  <2>1. \A i \in S : i \in Nat /\ i <= top
    OBVIOUS
  <2>2. \A i \in S : top - i \in Nat
    BY <2>1
  <2> QED BY ONLY <2>2, S # {}
<1>2. PICK t \in T : \A u \in T : ~(<<u, t>> \in OpToRel(<, Nat))
  BY <1>1, NatLessThanWellFounded, WFMin
<1>3. PICK i \in S : t = top - i
  OBVIOUS
<1>4. ASSUME NEW j \in S PROVE i >= j
  <2>1. i \in Nat /\ j \in Nat /\ top - j \in T /\ top - j \in Nat /\ t \in Nat
    BY <1>1
  <2>2. SUFFICES ASSUME j > i PROVE FALSE
    BY <2>1
  <2>3. top - j < t
    BY <1>3, <2>1, <2>2
  <2>4. <<top - j, t>> \in OpToRel(<, Nat)
    BY <2>1, <2>3 DEF OpToRel
  <2> QED BY <1>2, <2>1, <2>4
<1> QED BY <1>4

(* The row that findExistingSessionActionAudit picks.                      *)
LEMMA BestIsBest ==
    ASSUME ActionsAssumption, ActionInv, NEW S, S \subseteq 1..Len(audit), S # {}
    PROVE  BestOf(S) \in S /\ \A m \in S : Weight(BestOf(S)) >= Weight(m)
<1>1. Len(audit) \in Nat
  BY ActionFacts
<1>2. \A n \in S : Weight(n) \in 1..3
  BY DEF Weight
<1>3. \E w \in S : \A m \in S : Weight(w) >= Weight(m)
  <2>1. CASE \E w \in S : Weight(w) = 3
    BY <2>1, <1>2
  <2>2. CASE ~(\E w \in S : Weight(w) = 3) /\ \E w \in S : Weight(w) = 2
    BY <2>2, <1>2
  <2>3. CASE ~(\E w \in S : Weight(w) = 3) /\ ~(\E w \in S : Weight(w) = 2)
    <3>1. \A w \in S : Weight(w) = 1
      BY <2>3, <1>2
    <3>2. PICK w \in S : TRUE
      OBVIOUS
    <3> QED BY <3>1, <3>2
  <2> QED BY <2>1, <2>2, <2>3
<1>4. PICK w \in S : \A m \in S : Weight(w) >= Weight(m)
  BY <1>3
<1> DEFINE H == {m \in S : Weight(m) = Weight(w)}
<1>5. PICK i \in H : \A j \in H : i >= j
  <2>1. H \subseteq 1..Len(audit) /\ H # {}
    BY <1>4
  <2> HIDE DEF H
  <2> QED BY <2>1, <1>1, LatestOf
<1>6. \A m \in S : Weight(i) > Weight(m) \/ (Weight(i) = Weight(m) /\ i >= m)
  BY <1>2, <1>4, <1>5
<1> DEFINE Best(n) == \A m \in S : Weight(n) > Weight(m) \/ (Weight(n) = Weight(m) /\ n >= m)
<1>7. BestOf(S) \in S /\ Best(BestOf(S))
  <2>1. i \in S /\ Best(i)
    BY <1>5, <1>6
  <2>2. BestOf(S) = CHOOSE n \in S : Best(n)
    BY Zenon DEF BestOf
  <2> HIDE DEF Best
  <2> QED BY <2>1, <2>2
<1>8. \A m \in S : Weight(BestOf(S)) \in 1..3 /\ Weight(m) \in 1..3
  BY <1>2, <1>7
<1>9. ASSUME NEW m \in S PROVE Weight(BestOf(S)) >= Weight(m)
  <2>1. Weight(BestOf(S)) > Weight(m) \/ Weight(BestOf(S)) = Weight(m)
    BY <1>7
  <2> QED BY <1>8, <2>1
<1> QED BY <1>7, <1>9

(* What a repeated request is told is so.                                  *)
LEMMA RepeatIsTold ==
    ASSUME ActionsAssumption, ActionInv, NEW id \in ActionIds, NEW kind \in ActionKinds, Found(id) # {},
           Repeat(id, kind)
    PROVE  /\ told' \in [told : {"conflict", "completed", "failed", "in_flight"}, of : 1..Len(executions)]
           /\ told'.told # "conflict" =>
                 executions[told'.of].at \in
                    (IF told'.told = "in_flight" THEN {"running", "lost"} ELSE {told'.told})
<1> DEFINE k == BestOf(Found(id))
<1>1. /\ Len(executions) \in 0..MaxPosts /\ DOMAIN executions = 1..Len(executions) /\ MaxPosts \in Nat
      /\ Len(audit) \in Nat /\ DOMAIN audit = 1..Len(audit) /\ LogWindow \in Nat
      /\ \A n \in 1..Len(executions) : executions[n] \in Executions
      /\ \A n \in 1..Len(audit) : audit[n] \in AuditRows
  BY ActionFacts
<1>2. Found(id) \subseteq 1..Len(audit)
  BY <1>1 DEF Found, RowsOf, Seen
<1>3. k \in Found(id) /\ \A m \in Found(id) : Weight(k) >= Weight(m)
  BY <1>2, BestIsBest
<1> HIDE DEF k
<1>4. /\ k \in 1..Len(audit) /\ k > Len(audit) - LogWindow /\ audit[k].of # 0
      /\ executions[audit[k].of].id = id
      /\ audit[k] \in AuditRows
  BY <1>1, <1>2, <1>3 DEF Found, RowsOf, Seen
<1>5. /\ audit[k].of \in 1..Len(executions)
      /\ audit[k].what \in {"completed", "failed"} => executions[audit[k].of].at = audit[k].what
  BY <1>4 DEF ActionInv, RowsInv
<1>6. told' = IF executions[audit[k].of].kind # kind THEN [told |-> "conflict", of |-> audit[k].of]
              ELSE [told |-> Told(audit[k]), of |-> audit[k].of]
  BY DEF Repeat, k
<1>7. CASE audit[k].what \in {"completed", "failed"}
  BY <1>5, <1>6, <1>7 DEF Told
<1>8. CASE audit[k].what \notin {"completed", "failed"}
  <2> DEFINE n == audit[k].of
  <2>1. Weight(k) = 1
    BY <1>8 DEF Weight
  <2>2. n \in 1..Len(executions) /\ executions[n] \in Executions /\ executions[n].id = id
    BY <1>1, <1>4, <1>5
  <2>3. executions[n].at \notin {"completed", "failed"} \/ audit[k].what = "other"
    <3>1. SUFFICES ASSUME executions[n].at \in {"completed", "failed"}, audit[k].what # "other" PROVE FALSE
      OBVIOUS
    <3>2. audit[k].what = "requested" /\ audit[k] = [what |-> "requested", of |-> n]
      BY <1>4, <1>8, <3>1 DEF AuditRows
    <3>3. PICK j \in 1..Len(audit) : audit[j] = [what |-> executions[n].at, of |-> n] /\ k < j
      BY <2>2, <3>1, <3>2, <1>4 DEF ActionInv, EndedInv
    <3>4. j \in Found(id)
      BY <1>1, <1>4, <2>2, <3>3 DEF Found, RowsOf, Seen
    <3>5. Weight(j) \in {2, 3}
      BY <3>1, <3>3 DEF Weight
    <3> QED BY <1>3, <2>1, <3>4, <3>5
  <2>4. audit[k].what = "requested"
    <3>1. audit[k].what # "other" \/ audit[k].of = 0
      BY <1>4 DEF ActionInv, RowsInv
    <3> QED BY <3>1, <1>4, <1>8 DEF AuditRows
  <2> QED BY <1>6, <2>2, <2>3, <2>4 DEF Told, Executions
<1> QED BY <1>7, <1>8

(* A request is answered, or begins an execution.                          *)
LEMMA RequestKeeps ==
    ASSUME ActionsAssumption, ActionInv, NEW id \in ActionIds, NEW kind \in ActionKinds, Post(id, kind)
    PROVE  ActionInv'
<1>1. posts < MaxPosts /\ posts' = posts + 1 /\ UNCHANGED <<filter, others>>
  BY DEF Post
<1>2. CASE Found(id) = {}
  BY <1>1, <1>2, BeginningKeeps DEF Post
<1>3. CASE Found(id) # {}
  <2>1. Repeat(id, kind)
    BY <1>3 DEF Post
  <2>2. told' \in [told : {"conflict", "completed", "failed", "in_flight"}, of : 1..Len(executions)]
        /\ Len(executions) \in 0..MaxPosts /\ MaxPosts \in Nat /\ posts \in 0..MaxPosts
    BY <1>3, <2>1, RepeatIsTold, ActionFacts
  <2>3. UNCHANGED <<executions, audit>>
    BY <2>1 DEF Repeat
  <2>4. ActionsTypeOK'
    BY <1>1, <2>2, <2>3 DEF ActionInv, ActionsTypeOK
  <2> QED BY <1>1, <2>2, <2>3, <2>4, GoingOnKeeps DEF ActionInv
<1> QED BY <1>2, <1>3

(* Every step keeps the invariant.                                         *)
LEMMA NextActions == ASSUME ActionsAssumption, ActionInv, [ActionsNext]_actionVars PROVE ActionInv'
<1>1. ASSUME NEW id \in ActionIds, NEW kind \in ActionKinds, Post(id, kind) PROVE ActionInv'
  BY <1>1, RequestKeeps
<1>2. ASSUME NEW n \in DOMAIN executions, MakeActionTask(n) PROVE ActionInv'
  BY <1>2, TaskKeeps DEF MakeActionTask, ActionTaskStatuses
<1>3. ASSUME NEW n \in DOMAIN executions, NEW how \in {"completed", "failed"}, Over(n, how) PROVE ActionInv'
  BY <1>3, EndingKeeps
<1>4. ASSUME NEW n \in DOMAIN executions, EndTask(n) PROVE ActionInv'
  BY <1>4, TaskKeeps DEF EndTask, ActionTaskStatuses
<1>5. CASE OtherRow
  BY <1>5, OtherRowKeeps
<1>6. CASE CrashHandlers
  BY <1>6, CrashingKeeps
<1>7. CASE PollTimeline
  <2>1. UNCHANGED <<executions, audit, filter, posts, others>> /\ told' = NothingTold
    BY <1>7 DEF PollTimeline
  <2>2. ActionsTypeOK'
    BY <2>1 DEF ActionInv, ActionsTypeOK, NothingTold, ActionsAssumption
  <2> QED BY <2>1, <2>2, GoingOnKeeps, ActionFacts DEF ActionInv
<1>8. CASE Follow
  <2>1. UNCHANGED <<executions, audit, posts>> /\ told' = NothingTold /\ others < MaxOther
        /\ others' = others + 1
        /\ filter' \in ActionIds \cup {NoFilter}
    BY <1>8 DEF Follow
  <2>2. ActionsTypeOK'
    BY <2>1 DEF ActionInv, ActionsTypeOK, NothingTold, ActionsAssumption
  <2> QED BY <2>1, <2>2, GoingOnKeeps, ActionFacts DEF ActionInv
<1>9. CASE UNCHANGED actionVars
  <2>1. UNCHANGED <<executions, audit, filter, posts, others, told>>
    BY <1>9 DEF actionVars
  <2>2. ActionsTypeOK'
    BY <2>1 DEF ActionInv, ActionsTypeOK
  <2> QED BY <2>1, <2>2, GoingOnKeeps, ActionFacts DEF ActionInv
<1> QED BY <1>1, <1>2, <1>3, <1>4, <1>5, <1>6, <1>7, <1>8, <1>9 DEF ActionsNext, Handling

(* What an action has made is found by the row that tells of its end.      *)
LEMMA EvidenceIsThere == ASSUME ActionsAssumption, ActionInv PROVE EvidenceIsKept
<1>1. SUFFICES ASSUME NEW n \in DOMAIN executions, executions[n].at = "completed",
                      executions[n].task # "none",
                      NEW k \in Seen, audit[k] = [what |-> "completed", of |-> n]
               PROVE  <<"task", n, executions[n].task>> \in Timeline(executions[n].id)
  BY DEF EvidenceIsKept
<1>2. n \in 1..Len(executions) /\ executions[n].id # NoFilter /\ n # 0
  BY ActionFacts DEF Executions, ActionIds, ActionsAssumption
<1>3. k \in RowsOf(executions[n].id) /\ audit[k].what = "completed" /\ audit[k].of = n
  BY <1>1, <1>2 DEF RowsOf
<1>4. n \in MadeBy(executions[n].id)
  BY <1>1, <1>3 DEF MadeBy
<1> QED BY <1>2, <1>4 DEF Timeline

(* The types of the session workbench (ActionsTypeOK).                     *)
THEOREM SessionActionTypes == ASSUME ActionsAssumption PROVE ActionsSpec => []ActionsTypeOK
<1>1. ActionsSpec => []ActionInv
  BY InitActions, NextActions, PTL DEF ActionsSpec
<1>2. ActionInv => ActionsTypeOK
  BY DEF ActionInv
<1> QED BY <1>1, <1>2, PTL

(* A named action runs once while all rows are looked at, what it made is  *)
(* evidence of it, and a repeated request is told what has become of the   *)
(* first (ActionsAreAnswered).                                             *)
THEOREM ActionsAreAlwaysAnswered == ASSUME ActionsAssumption PROVE ActionsSpec => ActionsAreAnswered
<1>1. ActionsSpec => []ActionInv
  BY InitActions, NextActions, PTL DEF ActionsSpec
<1>2. ActionInv => ActionsRunOnce /\ EvidenceIsKept
  BY EvidenceIsThere DEF ActionInv
<1>3. ASSUME ActionInv, [ActionsNext]_actionVars
      PROVE  [posts' > posts /\ told' # NothingTold /\ told'.told # "conflict" =>
                executions[told'.of].at \in
                   (IF told'.told = "in_flight" THEN {"running", "lost"} ELSE {told'.told})]_actionVars
  <2>1. SUFFICES ASSUME posts' > posts, told' # NothingTold, told'.told # "conflict", ActionsNext
                 PROVE  executions[told'.of].at \in
                           (IF told'.told = "in_flight" THEN {"running", "lost"} ELSE {told'.told})
    BY <1>3
  <2>2. posts \in Nat
    BY <1>3, ActionFacts
  <2>3. PICK id \in ActionIds, kind \in ActionKinds : Post(id, kind)
    BY <2>1, <2>2 DEF ActionsNext, Handling, MakeActionTask, Over, EndTask, OtherRow, CrashHandlers,
       PollTimeline, Follow
  <2>4. Found(id) # {} /\ Repeat(id, kind)
    BY <2>1, <2>3 DEF Post, BeginAction
  <2> QED BY <1>3, <2>1, <2>4, RepeatIsTold
<1> QED BY <1>1, <1>2, <1>3, PTL DEF ActionsSpec, ActionsAreAnswered, RepeatsAreTold

-----------------------------------------------------------------------------
(* MailIntake.  A mark leaves the seen set only when its message has left  *)
(* every window: the marks are almost in the order of the mailbox.  So a   *)
(* message that had its effect and is not marked is in hand, out of reach, *)
(* or one of those that a mishap left behind.                              *)
MarksInOrder(s) == \A i, j \in DOMAIN s : i < j => s[i] < s[j] + Lookback

InHand == ToSet(todo) \cup {u \in Uids : u = current}

Tip(x) == x \in InHand /\ \A w \in ToSet(seen) \cup InHand : w <= x

WindowOK ==
    /\ \A i, j \in DOMAIN todo : i < j => todo[i] < todo[j]
    /\ current # 0 => \A i \in DOMAIN todo : current < todo[i]
    /\ \A x, y \in InHand : x < y + Lookback
    /\ \A x \in InHand \cup ToSet(seen) : x <= arrived
    /\ InHand # {} => \E x \in InHand : Tip(x)

MarksOK == saved = seen /\ MarksInOrder(seen)

(* Messages that had their effect and could be taken up again.             *)
Loose == {u \in Uids : /\ sentTo[u] > 0 /\ u \notin ToSet(seen) /\ u # current
                       /\ u + Lookback > arrived \/ u \in ToSet(todo)}

Excused ==
    /\ IsFiniteSet(Repeats)
    /\ Cardinality(Repeats) + Cardinality(Loose) <= Cardinality(Excuses)

MailInv == MailTypeOK /\ WindowOK /\ MarksOK /\ Excused

(* The messages are finitely many, and so are those left behind.           *)
LEMMA MailNumbers ==
    ASSUME MailAssumption
    PROVE  /\ Len(KindOf) \in Nat /\ Uids = 1..Len(KindOf) /\ IsFiniteSet(Uids)
           /\ Lookback \in Nat \ {0} /\ MaxSeen \in Nat /\ MaxSeen >= 2 * Lookback
           /\ IsFiniteSet(Mishaps)
<1>1. Len(KindOf) \in Nat /\ DOMAIN KindOf = 1..Len(KindOf)
  BY LenProperties DEF MailAssumption
<1>2. IsFiniteSet(1..Len(KindOf))
  BY <1>1, FS_Interval
<1>3. IsFiniteSet(AllMishaps)
  <2>1. IsFiniteSet({"refused"} \cup {"lost"}) BY FS_Singleton, FS_AddElement
  <2>2. IsFiniteSet({"busy"} \cup {"crash"}) BY FS_Singleton, FS_AddElement
  <2>3. IsFiniteSet({"restart"} \cup {"break"} \cup {"off"})
    <3>1. IsFiniteSet({"restart"} \cup {"break"}) BY FS_Singleton, FS_AddElement
    <3> QED BY <3>1, FS_AddElement
  <2>4. IsFiniteSet(({"refused"} \cup {"lost"}) \cup ({"busy"} \cup {"crash"})) BY <2>1, <2>2, FS_Union
  <2>5. IsFiniteSet((({"refused"} \cup {"lost"}) \cup ({"busy"} \cup {"crash"}))
                      \cup ({"restart"} \cup {"break"} \cup {"off"}))
    BY <2>3, <2>4, FS_Union
  <2>6. AllMishaps = (({"refused"} \cup {"lost"}) \cup ({"busy"} \cup {"crash"}))
                      \cup ({"restart"} \cup {"break"} \cup {"off"})
    BY DEF AllMishaps
  <2> QED BY <2>5, <2>6
<1>4. IsFiniteSet(Mishaps)
  BY <1>3, FS_Subset DEF MailAssumption
<1> QED BY <1>1, <1>2, <1>4 DEF Uids, MailAssumption

LEMMA MailMishap ==
    ASSUME MailAssumption, mishaps \subseteq Mishaps, NEW h, Mishap(h)
    PROVE  /\ mishaps' \subseteq Mishaps /\ Cardinality(mishaps') <= MaxMishaps
           /\ IsFiniteSet(Excuses) /\ Excuses \subseteq Excuses' /\ IsFiniteSet(Excuses')
           /\ h \in {"crash", "lost", "busy"} => Excuses' = Excuses \cup {h} /\ h \notin Excuses
<1>1. IsFiniteSet(mishaps)
  BY MailNumbers, FS_Subset
<1>2. IsFiniteSet(mishaps') /\ Cardinality(mishaps') = Cardinality(mishaps) + 1
  BY <1>1, FS_AddElement DEF Mishap
<1>3. Cardinality(mishaps) \in Nat
  BY <1>1, FS_CardinalityType
<1>4. Cardinality(mishaps') <= MaxMishaps
  BY <1>2, <1>3 DEF Mishap, MailAssumption
<1>5. IsFiniteSet(Excuses) /\ IsFiniteSet(Excuses')
  BY <1>1, <1>2, FS_Subset DEF Excuses
<1> QED BY <1>4, <1>5 DEF Mishap, Excuses

(* Counting: nothing new, a message that was left behind and is sent       *)
(* again, and a mishap that leaves one behind or repeats one.              *)
LEMMA CountKept ==
    ASSUME NEW L, IsFiniteSet(L), NEW M \in SUBSET L, NEW E, NEW F, IsFiniteSet(F), E \subseteq F,
           NEW r \in Nat, r + Cardinality(L) <= Cardinality(E)
    PROVE  r + Cardinality(M) <= Cardinality(F)
<1>1. Cardinality(M) <= Cardinality(L) /\ IsFiniteSet(M)
  BY FS_Subset
<1>2. Cardinality(E) <= Cardinality(F) /\ IsFiniteSet(E)
  BY FS_Subset
<1>3. /\ Cardinality(M) \in Nat /\ Cardinality(L) \in Nat
      /\ Cardinality(E) \in Nat /\ Cardinality(F) \in Nat
  BY <1>1, <1>2, FS_CardinalityType
<1> QED BY <1>1, <1>2, <1>3

LEMMA CountMoved ==
    ASSUME NEW L, IsFiniteSet(L), NEW u \in L, NEW M, M \subseteq L \ {u}, NEW R, IsFiniteSet(R), NEW p,
           NEW n \in Nat, Cardinality(R) + Cardinality(L) <= n
    PROVE  IsFiniteSet(R \cup {p}) /\ Cardinality(R \cup {p}) + Cardinality(M) <= n
<1>1. IsFiniteSet(L \ {u}) /\ Cardinality(L \ {u}) = Cardinality(L) - 1
  BY FS_RemoveElement
<1>2. IsFiniteSet(M) /\ Cardinality(M) <= Cardinality(L \ {u})
  BY <1>1, FS_Subset
<1>3. IsFiniteSet(R \cup {p}) /\ Cardinality(R \cup {p}) <= Cardinality(R) + 1
  <2>1. Cardinality(R) \in Nat BY FS_CardinalityType
  <2>2. /\ IsFiniteSet(R \cup {p})
        /\ Cardinality(R \cup {p}) = IF p \in R THEN Cardinality(R) ELSE Cardinality(R) + 1
    BY FS_AddElement
  <2> QED BY <2>1, <2>2
<1>4. /\ Cardinality(M) \in Nat /\ Cardinality(L) \in Nat /\ Cardinality(R) \in Nat
      /\ Cardinality(R \cup {p}) \in Nat
  BY <1>2, <1>3, FS_CardinalityType
<1> QED BY <1>1, <1>2, <1>3, <1>4

LEMMA CountExcused ==
    ASSUME NEW L, IsFiniteSet(L), NEW M, NEW R, IsFiniteSet(R), NEW Q, NEW E, IsFiniteSet(E), NEW h,
           h \notin E,
           Cardinality(R) + Cardinality(L) <= Cardinality(E),
           \/ Q = R /\ \E u : M \subseteq L \cup {u}
           \/ (\E p : Q = R \cup {p}) /\ M \subseteq L
    PROVE  IsFiniteSet(Q) /\ Cardinality(Q) + Cardinality(M) <= Cardinality(E \cup {h})
<1>1. Cardinality(E \cup {h}) = Cardinality(E) + 1 BY FS_AddElement
<1>2. Cardinality(R) \in Nat /\ Cardinality(L) \in Nat /\ Cardinality(E) \in Nat
  BY FS_CardinalityType
<1>3. CASE Q = R /\ \E u : M \subseteq L \cup {u}
  <2>1. PICK u : M \subseteq L \cup {u} BY <1>3
  <2>2. IsFiniteSet(L \cup {u}) /\ Cardinality(L \cup {u}) <= Cardinality(L) + 1
    <3>1. /\ IsFiniteSet(L \cup {u})
          /\ Cardinality(L \cup {u}) = IF u \in L THEN Cardinality(L) ELSE Cardinality(L) + 1
      BY FS_AddElement
    <3> QED BY <1>2, <3>1
  <2>3. IsFiniteSet(M) /\ Cardinality(M) <= Cardinality(L \cup {u}) BY <2>1, <2>2, FS_Subset
  <2>4. Cardinality(M) \in Nat /\ Cardinality(L \cup {u}) \in Nat BY <2>2, <2>3, FS_CardinalityType
  <2> QED BY <1>1, <1>2, <1>3, <2>2, <2>3, <2>4
<1>4. CASE (\E p : Q = R \cup {p}) /\ M \subseteq L
  <2>1. PICK p : Q = R \cup {p} BY <1>4
  <2>2. IsFiniteSet(Q) /\ Cardinality(Q) <= Cardinality(R) + 1
    <3>1. /\ IsFiniteSet(R \cup {p})
          /\ Cardinality(R \cup {p}) = IF p \in R THEN Cardinality(R) ELSE Cardinality(R) + 1
      BY FS_AddElement
    <3> QED BY <1>2, <2>1, <3>1
  <2>3. IsFiniteSet(M) /\ Cardinality(M) <= Cardinality(L) BY <1>4, FS_Subset
  <2>4. Cardinality(M) \in Nat /\ Cardinality(Q) \in Nat BY <2>2, <2>3, FS_CardinalityType
  <2> QED BY <1>1, <1>2, <2>2, <2>3, <2>4
<1> QED BY <1>3, <1>4

(* One effect more is a repetition if there was one before.                *)
LEMMA EffectRepeats ==
    ASSUME sentTo \in [Uids -> Nat], NEW u \in Uids, sentTo' = [sentTo EXCEPT ![u] = @ + 1]
    PROVE  Repeats' = IF sentTo[u] = 0 THEN Repeats ELSE Repeats \cup {<<u, sentTo[u] + 1>>}
<1> DEFINE n == sentTo[u]
           Of(v, k) == {v} \X (2..k)
<1>1. n \in Nat /\ n + 1 \in Nat
  OBVIOUS
<1>2. Of(u, n + 1) = IF n = 0 THEN Of(u, n) ELSE Of(u, n) \cup {<<u, n + 1>>}
  <2>1. ASSUME NEW i PROVE i \in 2..(n + 1) <=> i \in 2..n \/ (n # 0 /\ i = n + 1)
    BY <1>1
  <2>2. 2..(n + 1) = IF n = 0 THEN 2..n ELSE (2..n) \cup {n + 1}
    BY <2>1
  <2> QED BY <2>2
<1>3. \A v \in Uids : sentTo'[v] = IF v = u THEN n + 1 ELSE sentTo[v]
  OBVIOUS
<1>4. Repeats = UNION {Of(v, sentTo[v]) : v \in Uids} /\ Repeats' = UNION {Of(v, sentTo'[v]) : v \in Uids}
  BY DEF Repeats
<1> HIDE DEF Of
<1>5. ASSUME NEW x PROVE x \in Repeats' <=> \E v \in Uids : x \in Of(v, sentTo'[v])
  BY <1>4
<1>6. ASSUME NEW x PROVE x \in Repeats <=> \E v \in Uids : x \in Of(v, sentTo[v])
  BY <1>4
<1>7. ASSUME NEW x PROVE x \in Repeats' <=> (x \in Repeats \/ (n # 0 /\ x = <<u, n + 1>>))
  BY <1>2, <1>3, <1>5, <1>6
<1> QED BY <1>7

(* A mark of a message in hand keeps the marks in order, and one that is   *)
(* compacted away for it is of a message out of reach.                     *)
LEMMA MarkFits ==
    ASSUME MailAssumption, MailTypeOK, WindowOK, MarksOK, NEW u \in InHand, MarkSeen(u)
    PROVE  /\ seen' \in Seq(Uids) /\ IsInjective(seen') /\ Len(seen') <= MaxSeen
           /\ MarksInOrder(seen') /\ u \in ToSet(seen') /\ ToSet(seen') \subseteq ToSet(seen) \cup {u}
           /\ \A v \in ToSet(seen) \ ToSet(seen') : v \notin InHand /\ v + Lookback <= arrived
<1> DEFINE r == RemoveFirst(seen, u)
           a == Append(r, u)
           n == Len(r)
<1>1. /\ Uids \subseteq Nat /\ Lookback \in Nat \ {0} /\ MaxSeen \in Nat /\ MaxSeen >= 2 * Lookback
      /\ seen \in Seq(Uids) /\ IsInjective(seen) /\ Len(seen) <= MaxSeen /\ arrived \in Nat
      /\ InHand \subseteq Uids /\ u \in Uids
  BY MailNumbers, RangeOfSeq DEF MailTypeOK, MarksOK, InHand, ToSet
<1>2. Len(seen) \in Nat /\ DOMAIN seen = 1..Len(seen)
  BY <1>1, LenProperties
<1>3. PICK k \in Nat \ {0} :
         /\ r \in Seq(Uids) /\ n = IF k \in 1..Len(seen) THEN Len(seen) - 1 ELSE Len(seen)
         /\ \A j \in 1..n : r[j] = seen[IF j < k THEN j ELSE j + 1] /\ r[j] # u
  BY <1>1, RemovedFirst
<1>4. a \in Seq(Uids) /\ IsInjective(a) /\ ToSet(a) = ToSet(seen) \cup {u}
  BY <1>1, RemovedElement
<1>5. Len(a) = n + 1 /\ a[n + 1] = u /\ \A j \in 1..n : a[j] = r[j]
  BY <1>3, AppendProperties
<1> HIDE DEF r, a
<1>6. n \in Nat /\ n <= Len(seen) /\ n <= MaxSeen /\ DOMAIN a = 1..n + 1
  <2>1. n \in Nat BY <1>3, LenProperties
  <2>2. k \in Nat \ {0} /\ n = IF k \in 1..Len(seen) THEN Len(seen) - 1 ELSE Len(seen) BY <1>3
  <2>3. n <= Len(seen)
    <3>1. Len(seen) \in Nat BY <1>2
    <3> QED BY <2>1, <2>2, <3>1
  <2> QED BY <1>1, <1>2, <1>4, <1>5, <2>1, <2>3, LenProperties
<1>7. PICK top \in InHand : \A w \in ToSet(seen) \cup InHand : w <= top
  BY DEF WindowOK, Tip
<1>8. top \in Nat /\ u \in Nat /\ top <= arrived /\ top < u + Lookback
      /\ \A w \in InHand : w < top + Lookback /\ top < w + Lookback
  BY <1>1, <1>7 DEF WindowOK
<1>9. \A j \in 1..n + 1 : a[j] \in Nat /\ a[j] <= top
  <2> TAKE j \in 1..n + 1
  <2>1. a[j] \in Uids BY <1>4, <1>6, ElementOfSeq
  <2>2. a[j] \in ToSet(a) BY <1>6 DEF ToSet
  <2>3. a[j] \in ToSet(seen) \cup InHand BY <1>4, <2>2
  <2> QED BY <1>1, <1>7, <2>1, <2>3
<1>10. ASSUME NEW i \in 1..n + 1, NEW j \in 1..n + 1, i < j PROVE a[i] < a[j] + Lookback
  <2>1. i \in 1..n BY <1>6, <1>10
  <2>2. CASE j = n + 1
    BY <1>1, <1>5, <1>8, <1>9, <2>2
  <2>3. CASE j \in 1..n
    <3> DEFINE x == IF i < k THEN i ELSE i + 1
               y == IF j < k THEN j ELSE j + 1
    <3>1. x \in 1..Len(seen) /\ y \in 1..Len(seen) /\ x < y
      <4>1. k \in Nat \ {0} /\ n = IF k \in 1..Len(seen) THEN Len(seen) - 1 ELSE Len(seen) BY <1>3
      <4>2. n \in Nat /\ Len(seen) \in Nat BY <1>2, <1>6
      <4> HIDE DEF n
      <4> QED BY <1>10, <2>1, <2>3, <4>1, <4>2
    <3>2. a[i] = seen[x] /\ a[j] = seen[y]
      BY <1>3, <1>5, <2>1, <2>3
    <3> HIDE DEF x, y
    <3>3. seen[x] < seen[y] + Lookback
      BY <1>2, <3>1 DEF MarksOK, MarksInOrder
    <3> QED BY <3>2, <3>3
  <2> QED BY <1>6, <2>2, <2>3
<1>11. MarksInOrder(a)
  BY <1>6, <1>10 DEF MarksInOrder
<1>12. seen' = Compact(a)
  BY DEF MarkSeen, a, r
<1>13. CASE n + 1 <= MaxSeen
  <2>1. seen' = a BY <1>5, <1>12, <1>13 DEF Compact
  <2> QED BY <1>4, <1>5, <1>11, <1>13, <2>1
<1>14. CASE ~(n + 1 <= MaxSeen)
  <2>1. n = MaxSeen BY <1>1, <1>6, <1>14
  <2> DEFINE b == SubSeq(a, 2, n + 1)
  <2>2. seen' = b
    <3>1. Len(a) - MaxSeen + 1 = 2 /\ ~(Len(a) <= MaxSeen) BY <1>5, <1>6, <2>1
    <3> QED BY <1>5, <1>12, <3>1 DEF Compact
  <2>3. b \in Seq(Uids) /\ Len(b) = n /\ \A j \in 1..n : b[j] = a[j + 1]
    <3>1. \A j \in 2..n + 1 : a[j] \in Uids BY <1>4, <1>6, ElementOfSeq
    <3>2. 2 \in 1..Len(a) + 1 /\ n + 1 \in 1 .. Len(a) /\ n + 1 >= 2 /\ (n + 1) - 2 + 1 = n
      BY <1>1, <1>5, <1>6, <2>1
    <3>3. \A j \in 1..n : 2 + j - 1 = j + 1 BY <1>6
    <3> HIDE DEF n
    <3> QED BY <1>4, <3>1, <3>2, <3>3, SubSeqProperties
  <2> HIDE DEF b
  <2>4. DOMAIN b = 1..n BY <1>6, <2>3, LenProperties
  <2>5. IsInjective(b)
    <3> SUFFICES ASSUME NEW i \in 1..n, NEW j \in 1..n, b[i] = b[j] PROVE i = j
      BY <2>4 DEF IsInjective
    <3>1. i + 1 \in 1..n + 1 /\ j + 1 \in 1..n + 1 BY <1>6
    <3>2. i + 1 = j + 1 BY <1>4, <1>6, <2>3, <3>1 DEF IsInjective
    <3> QED BY <1>6, <3>2
  <2>6. MarksInOrder(b)
    <3> SUFFICES ASSUME NEW i \in 1..n, NEW j \in 1..n, i < j PROVE b[i] < b[j] + Lookback
      BY <2>4 DEF MarksInOrder
    <3>1. i + 1 \in 1..n + 1 /\ j + 1 \in 1..n + 1 /\ i + 1 < j + 1 BY <1>6
    <3> QED BY <1>10, <2>3, <3>1
  <2>7. u \in ToSet(b)
    <3>1. n \in 1..n BY <1>1, <2>1
    <3>2. b[n] = u BY <1>5, <2>3, <3>1
    <3> QED BY <2>4, <3>1, <3>2 DEF ToSet
  <2>8. ASSUME NEW x \in ToSet(b) PROVE x \in ToSet(a)
    <3>1. PICK j \in 1..n : b[j] = x BY <2>4, <2>8 DEF ToSet
    <3>2. j + 1 \in 1..n + 1 /\ a[j + 1] = x BY <1>6, <2>3, <3>1
    <3> QED BY <1>6, <3>2 DEF ToSet
  <2>9. ASSUME NEW x \in ToSet(a), x \notin ToSet(b) PROVE x = a[1]
    <3>1. PICK j \in 1..n + 1 : a[j] = x BY <1>6, <2>9 DEF ToSet
    <3>2. SUFFICES ASSUME j # 1 PROVE FALSE BY <3>1
    <3>3. j - 1 \in 1..n /\ j - 1 + 1 = j BY <1>6, <3>2
    <3>4. b[j - 1] = x BY <2>3, <3>1, <3>3
    <3> QED BY <2>4, <2>9, <3>3, <3>4 DEF ToSet
  <2>10. a[1] + Lookback < top
    <3> DEFINE v == a[1]
               low == v + 1 - Lookback
               T == (low..top) \ {v}
               f == [j \in 2..n + 1 |-> a[j]]
    <3>1. v \in Nat /\ v <= top BY <1>6, <1>9
    <3>2. \A j \in 2..n + 1 : a[j] \in T
      <4> TAKE j \in 2..n + 1
      <4>1. j \in 1..n + 1 /\ 1 \in 1..n + 1 /\ 1 < j BY <1>6
      <4>2. v < a[j] + Lookback /\ a[j] \in Nat /\ a[j] <= top BY <1>9, <1>10, <4>1
      <4>3. a[j] # v BY <1>4, <1>6, <4>1 DEF IsInjective
      <4> HIDE DEF v
      <4>4. a[j] \in low..top BY <1>1, <1>8, <3>1, <4>2
      <4> QED BY <4>3, <4>4
    <3>3. f \in Injection(2..n + 1, T)
      <4>1. f \in [2..n + 1 -> T] BY <3>2
      <4>2. \A i, j \in 2..n + 1 : f[i] = f[j] => i = j
        <5> TAKE i, j \in 2..n + 1
        <5>1. i \in 1..n + 1 /\ j \in 1..n + 1 BY <1>6
        <5> QED BY <1>4, <1>6, <5>1 DEF IsInjective
      <4> HIDE DEF T
      <4> QED BY <4>1, <4>2 DEF Injection, IsInjective
    <3> HIDE DEF f, v
    <3>4. low \in Int /\ top \in Int /\ low <= v /\ v \in low..top BY <1>1, <1>8, <3>1
    <3>5. IsFiniteSet(low..top) /\ Cardinality(low..top) = top - low + 1
      <4>1. ~(low > top) BY <1>1, <1>8, <3>1, <3>4
      <4> QED BY <3>4, <4>1, FS_Interval
    <3>6. IsFiniteSet(T) /\ Cardinality(T) = top - low
      <4>1. IsFiniteSet(T) /\ Cardinality(T) = Cardinality(low..top) - 1 BY <3>4, <3>5, FS_RemoveElement
      <4> HIDE DEF T, low
      <4> QED BY <3>4, <3>5, <4>1
    <3> HIDE DEF T
    <3>7. Cardinality(2..n + 1) <= Cardinality(T) BY <3>3, <3>6, FS_Injection
    <3>8. Cardinality(2..n + 1) = n
      <4>1. 2 \in Int /\ n + 1 \in Int /\ ~(2 > n + 1) /\ (n + 1) - 2 + 1 = n BY <1>1, <1>6, <2>1
      <4> HIDE DEF n
      <4> QED BY <4>1, FS_Interval
    <3>9. n <= top - low BY <3>6, <3>7, <3>8
    <3> QED BY <1>1, <1>6, <1>8, <2>1, <3>1, <3>9 DEF v
  <2>11. \A v \in ToSet(seen) \ ToSet(b) : v \notin InHand /\ v + Lookback <= arrived
    <3> TAKE v \in ToSet(seen) \ ToSet(b)
    <3>1. v = a[1] BY <1>4, <2>9
    <3>2. a[1] \in Nat BY <1>6, <1>9
    <3> QED BY <1>1, <1>8, <2>10, <3>1, <3>2
  <2> QED BY <1>4, <2>1, <2>2, <2>3, <2>5, <2>6, <2>7, <2>8, <2>11
<1> QED BY <1>6, <1>13, <1>14

(* The first message of the poll is taken from it.                         *)
LEMMA PopFits ==
    ASSUME MailAssumption, MailTypeOK, WindowOK, NEW u \in Uids, Looking(u)
    PROVE  /\ u \in InHand /\ current = 0
           /\ todo' \in Seq(Uids) /\ Len(todo') <= Lookback /\ ToSet(todo) = ToSet(todo') \cup {u}
           /\ \A i, j \in DOMAIN todo' : i < j => todo'[i] < todo'[j]
           /\ \A i \in DOMAIN todo' : u < todo'[i]
<1> DEFINE t == Tail(todo)
<1>1. todo \in Seq(Uids) /\ todo # <<>> /\ todo' = t /\ u = todo[1] /\ current = 0
  BY DEF Looking, MailTypeOK
<1>2. /\ t \in Seq(Uids) /\ Len(t) = Len(todo) - 1
      /\ \A i \in 1..Len(t) : t[i] = todo[i + 1]
  BY <1>1, HeadTailProperties
<1> HIDE DEF t
<1>3. Len(todo) \in Nat /\ Len(t) \in Nat /\ Len(todo) <= Lookback /\ Lookback \in Nat
  BY <1>1, <1>2, LenProperties, MailNumbers DEF MailTypeOK
<1>4. DOMAIN todo = 1..Len(todo) /\ DOMAIN t = 1..Len(t)
  BY <1>1, <1>2, LenProperties
<1>5. 1 \in 1..Len(todo) /\ \A i \in 1..Len(t) : i + 1 \in 1..Len(todo) /\ 1 < i + 1
  BY <1>2, <1>3
<1>6. \A i, j \in 1..Len(t) : i < j => t[i] < t[j]
  <2> TAKE i, j \in 1..Len(t)
  <2>1. i < j => i + 1 < j + 1 BY <1>3
  <2> QED BY <1>2, <1>4, <1>5, <2>1 DEF WindowOK
<1>7. \A i \in 1..Len(t) : u < t[i]
  BY <1>1, <1>2, <1>4, <1>5 DEF WindowOK
<1>8. ToSet(todo) = ToSet(t) \cup {u}
  <2>1. \A x \in ToSet(t) : x \in ToSet(todo) BY <1>2, <1>4, <1>5 DEF ToSet
  <2>2. u \in ToSet(todo) BY <1>1, <1>4, <1>5 DEF ToSet
  <2>3. ASSUME NEW x \in ToSet(todo), x # u PROVE x \in ToSet(t)
    <3>1. PICK i \in 1..Len(todo) : todo[i] = x BY <1>4 DEF ToSet
    <3>2. i # 1 BY <1>1, <2>3, <3>1
    <3>3. i - 1 \in 1..Len(t) /\ i - 1 + 1 = i BY <1>2, <1>3, <3>2
    <3>4. t[i - 1] = x BY <1>2, <3>1, <3>3
    <3> QED BY <1>4, <3>3, <3>4 DEF ToSet
  <2> QED BY <2>1, <2>2, <2>3
<1>9. Len(t) <= Lookback BY <1>2, <1>3
<1> QED BY <1>1, <1>2, <1>4, <1>6, <1>7, <1>8, <1>9 DEF InHand

(* What is in hand gets fewer, from its start or all at once.              *)
LEMMA WindowKept ==
    ASSUME MailAssumption, MailTypeOK, WindowOK, arrived' \in Nat, arrived <= arrived',
           \A i, j \in DOMAIN todo' : i < j => todo'[i] < todo'[j],
           current' # 0 => \A i \in DOMAIN todo' : current' < todo'[i],
           InHand' \subseteq InHand, ToSet(seen)' \subseteq ToSet(seen) \cup InHand,
           InHand' # {} => \A x : Tip(x) => x \in InHand'
    PROVE  WindowOK'
<1>1. InHand \subseteq Nat /\ ToSet(seen) \subseteq Nat /\ arrived \in Nat
  BY MailNumbers, RangeOfSeq DEF MailTypeOK, InHand, ToSet
<1>2. \A x \in InHand' \cup ToSet(seen)' : x <= arrived'
  BY <1>1 DEF WindowOK
<1>3. ASSUME InHand' # {} PROVE \E x \in InHand' : Tip(x)'
  <2>1. PICK x \in InHand : Tip(x) BY <1>3 DEF WindowOK
  <2>2. x \in InHand' BY <1>3, <2>1
  <2>3. Tip(x)' BY <2>1, <2>2 DEF Tip
  <2> QED BY <2>2, <2>3
<1>4. \A x, y \in InHand' : x < y + Lookback
  BY DEF WindowOK
<1> QED BY <1>2, <1>3, <1>4 DEF WindowOK

(* A message that is passed over, or taken in hand.                        *)
LEMMA WindowPopped ==
    ASSUME MailAssumption, MailTypeOK, WindowOK, NEW u \in Uids, Looking(u), current' \in {0, u},
           arrived' = arrived, ToSet(seen)' \subseteq ToSet(seen) \cup {u}
    PROVE  WindowOK'
<1>0. 0 \notin Uids /\ Uids \subseteq Nat BY MailNumbers
<1>1. /\ u \in InHand /\ current = 0
      /\ todo' \in Seq(Uids) /\ Len(todo') <= Lookback /\ ToSet(todo) = ToSet(todo') \cup {u}
      /\ \A i, j \in DOMAIN todo' : i < j => todo'[i] < todo'[j]
      /\ \A i \in DOMAIN todo' : u < todo'[i]
  BY PopFits
<1>2. InHand = ToSet(todo)' \cup {u} /\ InHand' = ToSet(todo)' \cup (IF current' = u THEN {u} ELSE {})
  BY <1>0, <1>1 DEF InHand
<1>3. \A y \in ToSet(todo)' : u < y /\ y \in Nat
  BY <1>0, <1>1, RangeOfSeq DEF ToSet
<1>4. ASSUME InHand' # {}, NEW x, Tip(x) PROVE x \in InHand'
  <2>1. x \in ToSet(todo)' \cup {u} BY <1>2, <1>4 DEF Tip
  <2>2. SUFFICES ASSUME x = u, current' # u PROVE FALSE BY <1>2, <2>1
  <2>3. PICK y \in ToSet(todo)' : y \in InHand BY <1>2, <1>4, <2>2
  <2>4. y <= u BY <1>4, <2>2, <2>3 DEF Tip
  <2> QED BY <1>0, <1>3, <2>3, <2>4
<1>5. arrived' \in Nat /\ arrived <= arrived' BY MailNumbers DEF MailTypeOK
<1>6. current' # 0 => \A i \in DOMAIN todo' : current' < todo'[i] BY <1>1
<1>7. InHand' \subseteq InHand /\ ToSet(seen)' \subseteq ToSet(seen) \cup InHand BY <1>1, <1>2
<1> QED BY <1>1, <1>4, <1>5, <1>6, <1>7, WindowKept

(* The message in hand is finished.                                        *)
LEMMA WindowFinished ==
    ASSUME MailAssumption, MailTypeOK, WindowOK, current # 0, current' = 0, todo' = todo,
           arrived' = arrived, ToSet(seen)' \subseteq ToSet(seen) \cup {current}
    PROVE  WindowOK'
<1>0. 0 \notin Uids /\ Uids \subseteq Nat /\ current \in Uids BY MailNumbers DEF MailTypeOK
<1>1. InHand = ToSet(todo) \cup {current} /\ InHand' = ToSet(todo)
  BY <1>0 DEF InHand
<1>2. \A y \in ToSet(todo) : current < y /\ y \in Nat
  <2> TAKE y \in ToSet(todo)
  <2>1. PICK i \in DOMAIN todo : todo[i] = y BY DEF ToSet
  <2>2. todo \in Seq(Uids) BY DEF MailTypeOK
  <2>3. y \in Uids BY <2>1, <2>2, ElementOfSeq, LenProperties
  <2> QED BY <1>0, <2>1, <2>3 DEF WindowOK
<1>3. ASSUME InHand' # {}, NEW x, Tip(x) PROVE x \in InHand'
  <2>1. x \in ToSet(todo) \cup {current} BY <1>1, <1>3 DEF Tip
  <2>2. SUFFICES ASSUME x = current PROVE FALSE BY <1>1, <2>1
  <2>3. PICK y \in ToSet(todo) : y \in InHand BY <1>1, <1>3
  <2>4. y <= current BY <1>3, <2>2, <2>3 DEF Tip
  <2> QED BY <1>0, <1>2, <2>3, <2>4
<1>4. arrived' \in Nat /\ arrived <= arrived' BY MailNumbers DEF MailTypeOK
<1>5. \A i, j \in DOMAIN todo' : i < j => todo'[i] < todo'[j] BY DEF WindowOK
<1> QED BY <1>1, <1>3, <1>4, <1>5, WindowKept

(* Nothing is in hand any more.                                            *)
LEMMA WindowEmptied ==
    ASSUME MailAssumption, MailTypeOK, WindowOK, todo' = <<>>, current' = 0,
           arrived' = arrived, ToSet(seen)' \subseteq ToSet(seen)
    PROVE  WindowOK'
<1>1. InHand' = {} BY MailNumbers DEF InHand, ToSet
<1>2. arrived' \in Nat /\ arrived <= arrived' BY MailNumbers DEF MailTypeOK
<1>3. \A i, j \in DOMAIN todo' : i < j => todo'[i] < todo'[j] OBVIOUS
<1> QED BY <1>1, <1>2, <1>3, WindowKept

LEMMA MailStarts == ASSUME MailAssumption, MailInit PROVE MailInv
<1> USE MailNumbers
<1>1. InHand = {} /\ Loose = {} /\ Excuses = {} /\ Repeats = {}
  <2>1. InHand = {} BY DEF MailInit, InHand, ToSet
  <2>2. Loose = {} BY DEF MailInit, Loose
  <2>3. Excuses = {} BY DEF MailInit, Excuses
  <2>4. Repeats = {}
    <3>1. \A u \in Uids : sentTo[u] = 0 BY DEF MailInit
    <3>2. 2..0 = {} OBVIOUS
    <3> QED BY <3>1, <3>2 DEF Repeats
  <2> QED BY <2>1, <2>2, <2>3, <2>4
<1>2. MailTypeOK
  <2>1. IsInjective(<<>>) BY DEF IsInjective
  <2>2. Cardinality({}) = 0 BY FS_EmptySet
  <2>3. MaxMishaps \in Nat /\ RateLimit \in Nat BY DEF MailAssumption
  <2>4. <<>> \in Seq(Uids) /\ Len(<<>>) = 0 OBVIOUS
  <2> QED BY <2>1, <2>2, <2>3, <2>4 DEF MailInit, MailTypeOK
<1>3. WindowOK BY <1>1 DEF MailInit, WindowOK, ToSet
<1>4. MarksOK BY DEF MailInit, MarksOK, MarksInOrder
<1>5. Excused BY <1>1, FS_EmptySet DEF Excused
<1> QED BY <1>2, <1>3, <1>4, <1>5 DEF MailInv

(* Those left behind are some of the messages.                             *)
LEMMA LooseAreFew ==
    ASSUME MailAssumption, MailTypeOK
    PROVE  IsFiniteSet(Loose) /\ IsFiniteSet(Excuses)
<1>1. IsFiniteSet(mishaps) BY MailNumbers, FS_Subset DEF MailTypeOK
<1>2. IsFiniteSet(Excuses) BY <1>1, FS_Subset DEF Excuses
<1>3. IsFiniteSet(Loose) BY MailNumbers, FS_Subset DEF Loose
<1> QED BY <1>2, <1>3

(* Nothing is sent: nobody new is left behind, unless for a mishap.        *)
LEMMA NothingSent ==
    ASSUME MailAssumption, MailInv, sentTo' = sentTo,
           \/ UNCHANGED mishaps /\ Loose' \subseteq Loose
           \/ \E h : Mishap(h) /\ Loose' \subseteq Loose
           \/ \E h \in {"crash", "lost", "busy"} : Mishap(h) /\ \E u : Loose' \subseteq Loose \cup {u}
    PROVE  Excused'
<1>1. /\ IsFiniteSet(Loose) /\ IsFiniteSet(Excuses) /\ IsFiniteSet(Repeats) /\ mishaps \subseteq Mishaps
      /\ Cardinality(Repeats) + Cardinality(Loose) <= Cardinality(Excuses)
  BY LooseAreFew DEF MailInv, Excused, MailTypeOK
<1>2. Repeats' = Repeats BY DEF Repeats
<1>3. Cardinality(Repeats) \in Nat BY <1>1, FS_CardinalityType
<1>4. CASE UNCHANGED mishaps /\ Loose' \subseteq Loose
  <2>1. Excuses' = Excuses BY <1>4 DEF Excuses
  <2>2. Cardinality(Repeats) + Cardinality(Loose') <= Cardinality(Excuses)
    BY <1>1, <1>3, <1>4, CountKept
  <2> QED BY <1>1, <1>2, <2>1, <2>2 DEF Excused
<1>5. ASSUME NEW h, Mishap(h), Loose' \subseteq Loose PROVE Excused'
  <2>1. Excuses \subseteq Excuses' /\ IsFiniteSet(Excuses') BY <1>1, <1>5, MailMishap
  <2>2. Cardinality(Repeats) + Cardinality(Loose') <= Cardinality(Excuses')
    BY <1>1, <1>3, <1>5, <2>1, CountKept
  <2> QED BY <1>1, <1>2, <2>2 DEF Excused
<1>6. ASSUME NEW h \in {"crash", "lost", "busy"}, Mishap(h), NEW u, Loose' \subseteq Loose \cup {u}
      PROVE  Excused'
  <2>1. Excuses' = Excuses \cup {h} /\ h \notin Excuses BY <1>1, <1>6, MailMishap
  <2>2. Cardinality(Repeats) + Cardinality(Loose') <= Cardinality(Excuses \cup {h})
    BY <1>1, <1>6, <2>1, CountExcused
  <2> QED BY <1>1, <1>2, <2>1, <2>2 DEF Excused
<1> QED BY <1>4, <1>5, <1>6

LEMMA MarkKept ==
    ASSUME MailAssumption, MailInv, NEW u \in InHand, MarkSeen(u), UNCHANGED <<arrived, sentTo>>, 
           ToSet(todo)' \subseteq ToSet(todo), \A v \in Uids : v \notin {u, current'} => v # current
    PROVE  /\ seen' \in Seq(Uids) /\ IsInjective(seen') /\ Len(seen') <= MaxSeen /\ MarksOK'
           /\ ToSet(seen)' \subseteq ToSet(seen) \cup {u} /\ Loose' \subseteq Loose
<1>1. /\ seen' \in Seq(Uids) /\ IsInjective(seen') /\ Len(seen') <= MaxSeen
      /\ MarksInOrder(seen') /\ u \in ToSet(seen') /\ ToSet(seen') \subseteq ToSet(seen) \cup {u}
      /\ \A v \in ToSet(seen) \ ToSet(seen') : v \notin InHand /\ v + Lookback <= arrived
  BY MarkFits DEF MailInv
<1>2. MarksOK' BY <1>1 DEF MarksOK, MarkSeen, MarksInOrder
<1>3. ASSUME NEW v \in Loose' PROVE v \in Loose
  <2>1. /\ v \in Uids /\ sentTo[v] > 0 /\ v \notin ToSet(seen') /\ v # current'
        /\ v + Lookback > arrived \/ v \in ToSet(todo)
    BY <1>3 DEF Loose
  <2>2. v # u /\ v # current BY <1>1, <2>1
  <2>3. v \notin ToSet(seen)
    <3>1. SUFFICES ASSUME v \in ToSet(seen) PROVE FALSE OBVIOUS
    <3>2. v \notin InHand /\ v + Lookback <= arrived BY <1>1, <2>1, <3>1
    <3>3. v \notin ToSet(todo) BY <3>2 DEF InHand
    <3>4. v \in Nat /\ Lookback \in Nat /\ arrived \in Nat BY <2>1, MailNumbers DEF MailInv, MailTypeOK
    <3> QED BY <2>1, <3>2, <3>3, <3>4
  <2> QED BY <2>1, <2>2, <2>3 DEF Loose
<1> QED BY <1>1, <1>2, <1>3

(* The effect of a message, which may have had it before.                  *)
LEMMA SentCounts ==
    ASSUME MailAssumption, MailInv, NEW u \in Uids, Looking(u), u \notin ToSet(seen),
           sentTo' = [sentTo EXCEPT ![u] = @ + 1], UNCHANGED <<arrived, seen>>,
           \/ current' = u /\ UNCHANGED mishaps
           \/ current' = current /\ Mishap("lost")
    PROVE  Excused'
<1>1. /\ IsFiniteSet(Loose) /\ IsFiniteSet(Excuses) /\ IsFiniteSet(Repeats) /\ mishaps \subseteq Mishaps
      /\ Cardinality(Repeats) + Cardinality(Loose) <= Cardinality(Excuses)
  BY LooseAreFew DEF MailInv, Excused, MailTypeOK
<1>2. Repeats' = IF sentTo[u] = 0 THEN Repeats ELSE Repeats \cup {<<u, sentTo[u] + 1>>}
  BY EffectRepeats DEF MailInv, MailTypeOK
<1>3. /\ current = 0 /\ u \in ToSet(todo) /\ ToSet(todo)' \subseteq ToSet(todo)
  <2>1. ToSet(todo) = ToSet(todo') \cup {u} /\ current = 0 BY PopFits DEF MailInv
  <2> QED BY <2>1
<1>4. sentTo \in [Uids -> Nat] /\ \A v \in Uids : v # u => sentTo'[v] = sentTo[v]
  BY DEF MailInv, MailTypeOK
<1>5. 0 \notin Uids BY MailNumbers
<1>6. sentTo[u] # 0 => u \in Loose
  BY <1>3, <1>4, <1>5 DEF Loose
<1>7. ASSUME NEW v \in Loose', v # u PROVE v \in Loose
  <2>1. v \in Uids /\ sentTo'[v] > 0 /\ v \notin ToSet(seen)
    BY <1>7 DEF Loose
  <2>2. v + Lookback > arrived \/ v \in ToSet(todo) BY <1>3, <1>7 DEF Loose
  <2> QED BY <1>3, <1>4, <1>5, <1>7, <2>1, <2>2 DEF Loose
<1>8. CASE current' = u /\ UNCHANGED mishaps
  <2>1. Excuses' = Excuses BY <1>8 DEF Excuses
  <2>2. u \notin Loose' BY <1>8 DEF Loose
  <2>3. Loose' \subseteq Loose \ {u} BY <1>7, <2>2
  <2>4. Cardinality(Excuses) \in Nat /\ Cardinality(Repeats) \in Nat BY <1>1, FS_CardinalityType
  <2>5. CASE sentTo[u] = 0
    <3>1. Loose' \in SUBSET Loose BY <2>3
    <3>2. Cardinality(Repeats) + Cardinality(Loose') <= Cardinality(Excuses)
      BY <1>1, <2>4, <3>1, CountKept
    <3> QED BY <1>1, <1>2, <2>1, <2>5, <3>2 DEF Excused
  <2>6. CASE sentTo[u] # 0
    <3>1. IsFiniteSet(Repeats') /\ Cardinality(Repeats') + Cardinality(Loose') <= Cardinality(Excuses)
      <4>1. Repeats' = Repeats \cup {<<u, sentTo[u] + 1>>} /\ u \in Loose BY <1>2, <1>6, <2>6
      <4> DEFINE p == <<u, sentTo[u] + 1>>
      <4> HIDE DEF p
      <4>2. /\ IsFiniteSet(Repeats \cup {p})
            /\ Cardinality(Repeats \cup {p}) + Cardinality(Loose') <= Cardinality(Excuses)
        BY ONLY <1>1, <2>3, <2>4, <4>1, CountMoved
      <4> QED BY <4>1, <4>2 DEF p
    <3> QED BY <2>1, <3>1 DEF Excused
  <2> QED BY <2>5, <2>6
<1>9. CASE current' = current /\ Mishap("lost")
  <2>1. Excuses' = Excuses \cup {"lost"} /\ "lost" \notin Excuses BY <1>1, <1>9, MailMishap
  <2>2. Loose' \subseteq Loose \cup {u} BY <1>7
  <2>3. \/ Repeats' = Repeats /\ \E x : Loose' \subseteq Loose \cup {x}
        \/ (\E p : Repeats' = Repeats \cup {p}) /\ Loose' \subseteq Loose
    <3>1. CASE sentTo[u] = 0 BY <1>2, <2>2, <3>1
    <3>2. CASE sentTo[u] # 0 BY <1>2, <1>6, <2>2, <3>2
    <3> QED BY <3>1, <3>2
  <2>4. IsFiniteSet(Repeats')
        /\ Cardinality(Repeats') + Cardinality(Loose') <= Cardinality(Excuses \cup {"lost"})
    BY ONLY <1>1, <2>1, <2>3, CountExcused
  <2> QED BY <2>1, <2>4 DEF Excused
<1> QED BY <1>8, <1>9

(* What leaves the marks, the effects and the message in hand, and takes   *)
(* from the poll at most, leaves nobody behind.                            *)
LEMMA FewerToDo ==
    ASSUME MailAssumption, MailTypeOK, UNCHANGED <<seen, sentTo>>, arrived <= arrived', arrived' \in Nat,
           ToSet(todo)' \subseteq ToSet(todo), NEW c, \A v \in Uids : v # c /\ v # current' => v # current
    PROVE  Loose' \subseteq Loose \cup {c}
<1> SUFFICES ASSUME NEW v \in Loose', v # c PROVE v \in Loose
  OBVIOUS
<1>1. /\ v \in Uids /\ sentTo[v] > 0 /\ v \notin ToSet(seen) /\ v # current'
      /\ v + Lookback > arrived' \/ v \in ToSet(todo)
  BY DEF Loose
<1>2. v \in Nat /\ Lookback \in Nat /\ arrived \in Nat BY <1>1, MailNumbers DEF MailTypeOK
<1>3. v + Lookback > arrived \/ v \in ToSet(todo) BY <1>1, <1>2
<1> QED BY <1>1, <1>3 DEF Loose

LEMMA MailKept ==
    ASSUME MailAssumption, MailInv, [MailNext]_mailVars PROVE MailInv'
<1> DEFINE Typed(t, c, s, v, k) ==
       /\ t \in Seq(Uids) /\ Len(t) <= Lookback /\ c \in Uids \cup {0}
       /\ s \in Seq(Uids) /\ IsInjective(s) /\ Len(v) <= MaxSeen /\ v = s /\ k \subseteq Uids
<1>0. /\ MailTypeOK /\ WindowOK /\ MarksOK /\ Excused
      /\ Typed(todo, current, seen, saved, cooling)
      /\ arrived \in 0..Len(KindOf) /\ enabled \in BOOLEAN /\ minute \in 0..RateLimit
      /\ sentTo \in [Uids -> Nat] /\ limited \subseteq Uids
      /\ mishaps \subseteq Mishaps /\ Cardinality(mishaps) <= MaxMishaps
  BY DEF MailInv, MailTypeOK, MarksOK
<1>n. /\ Len(KindOf) \in Nat /\ Uids = 1..Len(KindOf) /\ 0 \notin Uids
      /\ Lookback \in Nat \ {0} /\ MaxSeen \in Nat /\ RateLimit \in Nat \ {0}
  BY MailNumbers DEF MailAssumption
<1>l. ASSUME NEW c \in {0}, Loose' \subseteq Loose \cup {c} PROVE Loose' \subseteq Loose
  BY <1>n, <1>l DEF Loose
<1>1. CASE UNCHANGED mailVars
  <2>1. MailTypeOK' /\ WindowOK' /\ MarksOK' /\ Excused'
    BY <1>0, <1>1 DEF mailVars, MailTypeOK, WindowOK, MarksOK, MarksInOrder, Excused, InHand, Tip, Loose,
       Repeats, Excuses
  <2> QED BY <2>1 DEF MailInv
<1>2. CASE Arrive \/ MinutePasses \/ CoolDown \/ Switch
  <2>1. /\ arrived' \in 0..Len(KindOf) /\ arrived <= arrived' /\ enabled' \in BOOLEAN
        /\ minute' \in 0..RateLimit
        /\ UNCHANGED <<todo, current, seen, saved, sentTo, limited>> /\ cooling' \subseteq Uids
        /\ UNCHANGED mishaps \/ Mishap("off")
    <3>1. CASE Arrive BY <1>0, <1>n, <3>1 DEF Arrive
    <3>2. CASE MinutePasses BY <1>0, <1>n, <3>2 DEF MinutePasses
    <3>3. CASE CoolDown
      <4>1. cooling' \subseteq Uids BY <1>0, <3>3 DEF CoolDown
      <4> QED BY <1>0, <1>n, <3>3, <4>1 DEF CoolDown
    <3>4. CASE Switch BY <1>0, <1>n, <3>4 DEF Switch
    <3> QED BY <1>2, <3>1, <3>2, <3>3, <3>4
  <2>2. mishaps' \subseteq Mishaps /\ Cardinality(mishaps') <= MaxMishaps
    BY <1>0, <2>1, MailMishap
  <2>3. MailTypeOK' BY <1>0, <2>1, <2>2 DEF MailTypeOK
  <2>4. InHand' = InHand /\ ToSet(seen)' = ToSet(seen) /\ ToSet(todo)' = ToSet(todo)
    BY <2>1 DEF InHand
  <2>5. WindowOK'
    <3>1. \A x : Tip(x) => x \in InHand' BY <2>4 DEF Tip
    <3>2. arrived' \in Nat BY <1>n, <2>1
    <3>3. \A i, j \in DOMAIN todo' : i < j => todo'[i] < todo'[j] BY <1>0, <2>1 DEF WindowOK
    <3>4. current' # 0 => \A i \in DOMAIN todo' : current' < todo'[i] BY <1>0, <2>1 DEF WindowOK
    <3> QED BY <1>0, <2>1, <2>4, <3>1, <3>2, <3>3, <3>4, WindowKept
  <2>6. MarksOK' BY <1>0, <2>1 DEF MarksOK, MarksInOrder
  <2>7. Loose' \subseteq Loose \cup {0}
    <3>1. arrived' \in Nat BY <1>n, <2>1
    <3> QED BY <1>0, <2>1, <2>4, <3>1, FewerToDo
  <2>8. Excused' BY <1>l, <2>1, <2>7, NothingSent
  <2> QED BY <2>3, <2>5, <2>6, <2>8 DEF MailInv
<1>3. CASE Poll
  <2>1. /\ todo = <<>> /\ current = 0 /\ arrived > 0 /\ todo' = Window
        /\ UNCHANGED <<arrived, enabled, current, seen, saved, cooling, minute, sentTo, limited, mishaps>>
    BY <1>3 DEF Poll
  <2>2. /\ Newest \in 1..Lookback /\ Newest <= arrived /\ (Newest = Lookback \/ Newest = arrived)
        /\ arrived \in Nat /\ arrived <= Len(KindOf)
    BY <1>0, <1>n, <2>1 DEF Newest
  <2>3. /\ DOMAIN Window = 1..Newest
        /\ \A i \in 1..Newest : Window[i] = arrived - Newest + i /\ Window[i] \in Uids
    BY <1>n, <2>2 DEF Window
  <2>4. Window \in Seq(Uids) /\ Len(Window) = Newest
    <3>1. Window = [i \in 1..Newest |-> Window[i]] BY DEF Window
    <3>2. Window \in Seq(Uids) BY <2>2, <2>3, <3>1, IsASeq
    <3> QED BY <2>2, <2>3, <3>2, LenProperties
  <2>5. MailTypeOK' BY <1>0, <1>n, <2>1, <2>2, <2>4 DEF MailTypeOK
  <2>6. InHand' = {Window[i] : i \in 1..Newest}
    BY <1>n, <2>1, <2>3 DEF InHand, ToSet
  <2>7. Window[Newest] = arrived /\ Newest \in 1..Newest BY <2>2, <2>3
  <2>8. \A x \in InHand' : x \in Nat /\ x <= arrived /\ arrived < x + Lookback
    BY <1>n, <2>2, <2>3, <2>6
  <2>9. WindowOK'
    <3>1. \A i, j \in DOMAIN todo' : i < j => todo'[i] < todo'[j] BY <2>1, <2>2, <2>3
    <3>2. \A x, y \in InHand' : x < y + Lookback BY <1>n, <2>2, <2>8
    <3>3. \A w \in InHand' \cup ToSet(seen)' : w <= arrived' BY <1>0, <2>1, <2>8 DEF WindowOK
    <3>4. arrived \in InHand' BY <2>6, <2>7
    <3>5. Tip(arrived)' BY <2>1, <3>3, <3>4 DEF Tip
    <3> QED BY <2>1, <3>1, <3>2, <3>3, <3>4, <3>5 DEF WindowOK
  <2>10. MarksOK' BY <1>0, <2>1 DEF MarksOK, MarksInOrder
  <2>11. ASSUME NEW v \in Loose' PROVE v \in Loose
    <3>1. v \in Uids /\ sentTo[v] > 0 /\ v \notin ToSet(seen) /\ v # current
      BY <2>1, <2>11 DEF Loose
    <3>2. v \in ToSet(todo)' => v + Lookback > arrived
      <4>1. v \in ToSet(todo)' => v \in InHand' BY DEF InHand
      <4> QED BY <1>n, <2>2, <2>8, <4>1
    <3>3. v + Lookback > arrived BY <2>1, <2>11, <3>2 DEF Loose
    <3> QED BY <3>1, <3>3 DEF Loose
  <2>12. Excused' BY <2>1, <2>11, NothingSent
  <2> QED BY <2>5, <2>9, <2>10, <2>12 DEF MailInv
<1>4. ASSUME NEW u \in Uids, PassOver(u) PROVE MailInv'
  <2>1. Looking(u) /\ UNCHANGED <<arrived, enabled, current, minute, sentTo, limited, mishaps>>
    BY <1>4 DEF PassOver
  <2>2. /\ u \in InHand /\ current = 0 /\ todo' \in Seq(Uids) /\ Len(todo') <= Lookback
        /\ ToSet(todo) = ToSet(todo') \cup {u}
    BY <1>0, <2>1, PopFits
  <2>3. \/ MarkSeen(u)
        \/ UNCHANGED <<seen, saved, cooling>>
    BY <1>4 DEF PassOver
  <2>4. /\ seen' \in Seq(Uids) /\ IsInjective(seen') /\ Len(seen') <= MaxSeen /\ MarksOK'
        /\ ToSet(seen)' \subseteq ToSet(seen) \cup {u} /\ Loose' \subseteq Loose /\ cooling' \subseteq Uids
    <3>1. CASE MarkSeen(u)
      <4>1. ToSet(todo)' \subseteq ToSet(todo) BY <2>2
      <4>2. \A v \in Uids : v \notin {u, current'} => v # current BY <1>n, <2>2
      <4>3. /\ seen' \in Seq(Uids) /\ IsInjective(seen') /\ Len(seen') <= MaxSeen /\ MarksOK'
            /\ ToSet(seen)' \subseteq ToSet(seen) \cup {u} /\ Loose' \subseteq Loose
        BY <2>1, <2>2, <3>1, <4>1, <4>2, MarkKept
      <4> QED BY <1>0, <3>1, <4>3 DEF MarkSeen
    <3>2. CASE UNCHANGED <<seen, saved, cooling>>
      <4>1. MarksOK' BY <1>0, <3>2 DEF MarksOK, MarksInOrder
      <4>2. ToSet(todo)' \subseteq ToSet(todo) BY <2>2
      <4>3. arrived <= arrived' /\ arrived' \in Nat BY <1>0, <1>n, <2>1
      <4>4. Loose' \subseteq Loose \cup {0}
        BY <1>0, <1>n, <2>1, <2>2, <3>2, <4>2, <4>3, FewerToDo
      <4> QED BY <1>0, <1>l, <3>2, <4>1, <4>4
    <3> QED BY <2>3, <3>1, <3>2
  <2>5. MailTypeOK' BY <1>0, <2>1, <2>2, <2>4 DEF MailTypeOK, MarksOK
  <2>6. WindowOK' BY <1>0, <2>1, <2>2, <2>4, WindowPopped
  <2>7. Excused' BY <2>1, <2>4, NothingSent
  <2> QED BY <2>4, <2>5, <2>6, <2>7 DEF MailInv
<1>5. ASSUME NEW u \in Uids, Note(u) PROVE MailInv'
  <2>1. /\ Looking(u) /\ UNCHANGED <<arrived, enabled, seen, saved, cooling, minute, sentTo, mishaps>>
        /\ current' = u /\ limited' \subseteq Uids
    BY <1>0, <1>5 DEF Note, Due
  <2>2. /\ u \in InHand /\ current = 0 /\ todo' \in Seq(Uids) /\ Len(todo') <= Lookback
        /\ ToSet(todo) = ToSet(todo') \cup {u}
    BY <1>0, <2>1, PopFits
  <2>3. MailTypeOK' BY <1>0, <2>1, <2>2 DEF MailTypeOK
  <2>4. WindowOK' BY <1>0, <2>1, WindowPopped
  <2>5. MarksOK' BY <1>0, <2>1 DEF MarksOK, MarksInOrder
  <2>6. Loose' \subseteq Loose \cup {0}
    <3>1. ToSet(todo)' \subseteq ToSet(todo) BY <2>2
    <3>2. arrived <= arrived' /\ arrived' \in Nat BY <1>0, <1>n, <2>1
    <3> QED BY <1>0, <1>n, <2>1, <2>2, <3>1, <3>2, FewerToDo
  <2>7. Excused' BY <1>l, <2>1, <2>6, NothingSent
  <2> QED BY <2>3, <2>4, <2>5, <2>7 DEF MailInv
<1>6. ASSUME NEW u \in Uids, Send(u) PROVE MailInv'
  <2>1. /\ Looking(u) /\ u \notin ToSet(seen) /\ UNCHANGED <<arrived, enabled, limited, seen, saved>>
        /\ minute' \in 0..RateLimit /\ current' \in {0, u} /\ cooling' \subseteq Uids
        /\ sentTo' \in {sentTo, [sentTo EXCEPT ![u] = @ + 1]}
    <3>1. Looking(u) /\ u \notin ToSet(seen) /\ current = 0 BY <1>6 DEF Send, Due, Looking
    <3>2. minute' \in 0..RateLimit
      <4>1. /\ KindOf[u] = "command" => minute < RateLimit
            /\ minute' = IF KindOf[u] = "command" THEN minute + 1 ELSE minute
        BY <1>6 DEF Send
      <4> QED BY <1>0, <1>n, <4>1
    <3> QED BY <1>0, <1>6, <3>1, <3>2 DEF Send, Failed
  <2>2. /\ u \in InHand /\ current = 0 /\ todo' \in Seq(Uids) /\ Len(todo') <= Lookback
        /\ ToSet(todo) = ToSet(todo') \cup {u}
    BY <1>0, <2>1, PopFits
  <2>3. \/ /\ sentTo' = [sentTo EXCEPT ![u] = @ + 1]
           /\ (current' = u /\ UNCHANGED mishaps) \/ (current' = current /\ Mishap("lost"))
        \/ sentTo' = sentTo /\ current' = current /\ Mishap("refused")
    BY <1>6 DEF Send
  <2>4. mishaps' \subseteq Mishaps /\ Cardinality(mishaps') <= MaxMishaps
    BY <1>0, <2>3, MailMishap
  <2>5. MailTypeOK' BY <1>0, <2>1, <2>2, <2>4 DEF MailTypeOK
  <2>6. WindowOK' BY <1>0, <2>1, WindowPopped
  <2>7. MarksOK' BY <1>0, <2>1 DEF MarksOK, MarksInOrder
  <2>8. Excused'
    <3>1. CASE sentTo' = [sentTo EXCEPT ![u] = @ + 1]
      <4>1. (current' = u /\ UNCHANGED mishaps) \/ (current' = current /\ Mishap("lost"))
        <5>1. sentTo'[u] # sentTo[u] BY <1>0, <3>1
        <5> QED BY <2>3, <5>1
      <4> QED BY <2>1, <3>1, <4>1, SentCounts
    <3>2. CASE sentTo' = sentTo /\ current' = current /\ Mishap("refused")
      <4>1. ToSet(todo)' \subseteq ToSet(todo) BY <2>2
      <4>2. arrived <= arrived' /\ arrived' \in Nat BY <1>0, <1>n, <2>1
      <4>3. Loose' \subseteq Loose \cup {0}
        BY <1>0, <1>n, <2>1, <2>2, <3>2, <4>1, <4>2, FewerToDo
      <4> QED BY <1>l, <3>2, <4>3, NothingSent
    <3> QED BY <2>3, <3>1, <3>2
  <2> QED BY <2>5, <2>6, <2>7, <2>8 DEF MailInv
<1>7. CASE FinishMail
  <2>1. /\ current # 0 /\ current' = 0 /\ UNCHANGED <<arrived, enabled, minute, sentTo, limited>>
        /\ current \in Uids /\ current \in InHand
    BY <1>0, <1>7 DEF FinishMail, InHand
  <2>2. CASE MarkSeen(current) /\ UNCHANGED <<todo, mishaps>>
    <3>1. /\ seen' \in Seq(Uids) /\ IsInjective(seen') /\ Len(seen') <= MaxSeen /\ MarksOK'
          /\ ToSet(seen)' \subseteq ToSet(seen) \cup {current} /\ Loose' \subseteq Loose
      BY <2>1, <2>2, MarkKept
    <3>2. MailTypeOK'
      <4>1. cooling' \subseteq Uids /\ saved' = seen' BY <1>0, <2>2 DEF MarkSeen
      <4> QED BY <1>0, <2>1, <2>2, <3>1, <4>1 DEF MailTypeOK
    <3>3. WindowOK' BY <1>0, <2>1, <2>2, <3>1, WindowFinished
    <3>4. Excused' BY <2>1, <2>2, <3>1, NothingSent
    <3> QED BY <3>1, <3>2, <3>3, <3>4 DEF MailInv
  <2>3. CASE /\ Mishap("busy") /\ UNCHANGED <<seen, saved>> /\ cooling' \subseteq Uids
             /\ UNCHANGED todo \/ todo' = <<>>
    <3>1. mishaps' \subseteq Mishaps /\ Cardinality(mishaps') <= MaxMishaps
      BY <1>0, <2>3, MailMishap
    <3>2. todo' \in Seq(Uids) /\ Len(todo') <= Lookback /\ ToSet(todo)' \subseteq ToSet(todo)
      <4>1. CASE UNCHANGED todo BY <1>0, <4>1
      <4>2. CASE todo' = <<>> BY <1>n, <4>2 DEF ToSet
      <4> QED BY <2>3, <4>1, <4>2
    <3>3. MailTypeOK' BY <1>0, <2>1, <2>3, <3>1, <3>2 DEF MailTypeOK
    <3>4. WindowOK'
      <4>1. ToSet(seen)' \subseteq ToSet(seen) BY <2>3
      <4> QED BY <1>0, <2>1, <2>3, <4>1, WindowFinished, WindowEmptied
    <3>5. MarksOK' BY <1>0, <2>3 DEF MarksOK, MarksInOrder
    <3>6. arrived <= arrived' /\ arrived' \in Nat BY <1>0, <1>n, <2>1
    <3>7. Loose' \subseteq Loose \cup {current}
      BY <1>0, <2>1, <2>3, <3>2, <3>6, FewerToDo
    <3>8. Excused' BY <2>1, <2>3, <3>7, NothingSent
    <3> QED BY <3>3, <3>4, <3>5, <3>8 DEF MailInv
  <2> QED BY <1>0, <1>7, <2>1, <2>2, <2>3 DEF FinishMail, Failed
<1>8. CASE SessionBreaks
  <2>1. /\ current = 0 /\ todo' = <<>> /\ Mishap("break")
        /\ UNCHANGED <<arrived, enabled, current, seen, saved, cooling, minute, sentTo, limited>>
    BY <1>8 DEF SessionBreaks
  <2>2. mishaps' \subseteq Mishaps /\ Cardinality(mishaps') <= MaxMishaps BY <1>0, <2>1, MailMishap
  <2>3. MailTypeOK' BY <1>0, <1>n, <2>1, <2>2 DEF MailTypeOK
  <2>4. WindowOK' BY <1>0, <2>1, WindowEmptied
  <2>5. MarksOK' BY <1>0, <2>1 DEF MarksOK, MarksInOrder
  <2>6. Loose' \subseteq Loose \cup {0}
    <3>1. ToSet(todo)' \subseteq ToSet(todo) BY <2>1 DEF ToSet
    <3>2. arrived <= arrived' /\ arrived' \in Nat BY <1>0, <1>n, <2>1
    <3> QED BY <1>0, <2>1, <3>1, <3>2, FewerToDo
  <2>7. Excused' BY <1>l, <2>1, <2>6, NothingSent
  <2> QED BY <2>3, <2>4, <2>5, <2>7 DEF MailInv
<1>9. CASE Restart
  <2>1. /\ (Mishap("restart") /\ current = 0) \/ Mishap("crash")
        /\ seen' = saved /\ todo' = <<>> /\ current' = 0 /\ cooling' = {} /\ minute' = 0
        /\ UNCHANGED <<arrived, enabled, saved, sentTo, limited>>
    BY <1>0, <1>9 DEF Restart, Hydrate, Compact
  <2>2. mishaps' \subseteq Mishaps /\ Cardinality(mishaps') <= MaxMishaps BY <1>0, <2>1, MailMishap
  <2>3. seen' = seen BY <1>0, <2>1
  <2>4. MailTypeOK' BY <1>0, <1>n, <2>1, <2>2, <2>3 DEF MailTypeOK
  <2>5. WindowOK' BY <1>0, <2>1, <2>3, WindowEmptied
  <2>6. MarksOK' BY <1>0, <2>1, <2>3 DEF MarksOK, MarksInOrder
  <2>7. Loose' \subseteq Loose \cup {current}
    <3>1. ToSet(todo)' \subseteq ToSet(todo) BY <2>1 DEF ToSet
    <3>2. arrived <= arrived' /\ arrived' \in Nat BY <1>0, <1>n, <2>1
    <3> QED BY <1>0, <2>1, <2>3, <3>1, <3>2, FewerToDo
  <2>8. Excused' BY <1>l, <2>1, <2>7, NothingSent
  <2> QED BY <2>4, <2>5, <2>6, <2>8 DEF MailInv
<1> QED BY <1>1, <1>2, <1>3, <1>4, <1>5, <1>6, <1>7, <1>8, <1>9 DEF MailNext, Polling

(* The types of MailIntake.                                                *)
THEOREM MailTypes == ASSUME MailAssumption PROVE MailSpec => []MailTypeOK
<1>1. MailInit => MailInv BY MailStarts
<1>2. MailInv /\ [MailNext]_mailVars => MailInv' BY MailKept
<1>3. MailInv => MailTypeOK BY DEF MailInv
<1> QED BY <1>1, <1>2, <1>3, PTL DEF MailSpec

(* A message of the mailbox has its effect once, whatever the window, the  *)
(* capacity of the marks and the order of arrival, polls, cool-downs,      *)
(* sessions and restarts: an effect too many costs one mishap of its own.  *)
THEOREM MailIsHandledOnce == ASSUME MailAssumption PROVE MailSpec => []HandledOnce
<1>1. MailInit => MailInv BY MailStarts
<1>2. MailInv /\ [MailNext]_mailVars => MailInv' BY MailKept
<1>3. MailInv => HandledOnce
  <2> SUFFICES ASSUME MailInv PROVE HandledOnce OBVIOUS
  <2>1. IsFiniteSet(Repeats) /\ IsFiniteSet(Loose) /\ IsFiniteSet(Excuses)
    BY LooseAreFew DEF MailInv, Excused
  <2>2. Cardinality(Repeats) \in Nat /\ Cardinality(Loose) \in Nat /\ Cardinality(Excuses) \in Nat
    BY <2>1, FS_CardinalityType
  <2> QED BY <2>2 DEF MailInv, Excused, HandledOnce
<1> QED BY <1>1, <1>2, <1>3, PTL DEF MailSpec
=============================================================================
