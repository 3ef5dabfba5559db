---------------------------- MODULE FeishuCards ----------------------------
(***************************************************************************)
(* Approval cards in Feishu (server.ts, feishu-approval.ts): the pending   *)
(* step of a workflow is pushed to its approvers as cards; a click on one  *)
(* is checked, decides the step and pushes the next one.  The control      *)
(* center decides steps too.                                               *)
(***************************************************************************)
EXTENDS Naturals, FiniteSets

CONSTANTS
    Approvers,  \* who may decide each step, by Feishu
    LastStep,   \* the steps of the workflow are 1..LastStep
    MaxPresses,  \* bound: clicks on cards
    MaxCardFaults   \* bound: cards not sent, restarts

WorkflowSteps == 1..LastStep
CardAssumption == LastStep \in Nat \ {0} /\ MaxPresses \in Nat /\ MaxCardFaults \in Nat

VARIABLES
    outcome,    \* outcome[s]: the decision on step s
    decisions,  \* decisions[s]: how many were taken
    cards,      \* the cards that were sent
    expired,    \* cards past their fifteen minutes
    pushing,    \* pushing[s]: the approvers a card is still to be sent to
    arrivedAny, \* steps one card of which was sent in this push
    notified,   \* feishuNotifiedApprovalSteps
    pressed,     \* the clicks being handled
    count,      \* clicks so far
    toPush,     \* handlers that have decided a step and will push the next one
    missed,     \* steps whose card was refused, or whose push fell to a restart
    cardFaults

cardVars == <<outcome, decisions, cards, expired, pushing, arrivedAny, notified, pressed, count, toPush,
              missed, cardFaults>>

Presses == [step : WorkflowSteps, by : Approvers, says : {"approved", "rejected"}, checked : BOOLEAN]

CardTypeOK ==
    /\ outcome \in [WorkflowSteps -> {"pending", "approved", "rejected"}]
    /\ decisions \in [WorkflowSteps -> Nat]
    /\ cards \subseteq WorkflowSteps \X Approvers /\ expired \subseteq cards
    /\ pushing \in [WorkflowSteps -> SUBSET Approvers] /\ arrivedAny \subseteq WorkflowSteps
    /\ notified \subseteq 0..LastStep /\ pressed \subseteq Presses
    /\ count \in 0..MaxPresses /\ toPush \in Nat /\ missed \subseteq WorkflowSteps
    /\ cardFaults \in 0..MaxCardFaults

CardInit ==
    /\ outcome = [s \in WorkflowSteps |-> "pending"] /\ decisions = [s \in WorkflowSteps |-> 0]
    /\ cards = {} /\ expired = {} /\ pushing = [s \in WorkflowSteps |-> {}] /\ arrivedAny = {} /\ notified = {}
    /\ pressed = {} /\ count = 0 /\ toPush = 1 /\ missed = {} /\ cardFaults = 0

CardFault == cardFaults < MaxCardFaults /\ cardFaults' = cardFaults + 1

(* getPendingApprovalWorkflowStep                                          *)
Pending(s) ==
    /\ outcome[s] = "pending"
    /\ \A t \in WorkflowSteps : t < s => outcome[t] = "approved"

(* feishuNotifiedApprovalSteps holds steps.                                *)
(* Mutant: it holds approvals.                                             *)
KeyOfApproval(s) == 0

Key(s) == s

(* notifyApprovalStepViaFeishu: nothing is pushed twice. A decision pushes *)
(* whatever step is pending by then; only the creation of a workflow names *)
(* the step, which is the pending one as it is pushed at once.             *)
Push ==
    /\ toPush > 0 /\ toPush' = toPush - 1
    /\ pushing' = [s \in WorkflowSteps |->
          IF Pending(s) /\ Key(s) \notin notified THEN Approvers ELSE pushing[s]]
    /\ UNCHANGED <<outcome, decisions, cards, expired, arrivedAny, notified, pressed, count, missed, cardFaults>>

(* One card after the other; the step is noted when at least one was sent. *)
SendCard(s, a) ==
    /\ a \in pushing[s]
    /\ pushing' = [pushing EXCEPT ![s] = @ \ {a}]
    /\ \/ cards' = cards \cup {<<s, a>>} /\ arrivedAny' = arrivedAny \cup {s}
          /\ UNCHANGED <<missed, cardFaults>>
       \/ CardFault /\ missed' = missed \cup {s} /\ UNCHANGED <<cards, arrivedAny>>
    /\ notified' = IF pushing'[s] = {} /\ s \in arrivedAny' THEN notified \cup {Key(s)} ELSE notified
    /\ UNCHANGED <<outcome, decisions, expired, pressed, count, toPush>>

(* A click and, for its token, one handler.                                *)
Press(s, a, says) ==
    /\ <<s, a>> \in cards /\ count < MaxPresses
    /\ count' = count + 1
    /\ pressed' = pressed \cup {[step |-> s, by |-> a, says |-> says, checked |-> FALSE]}
    /\ UNCHANGED <<outcome, decisions, cards, expired, pushing, arrivedAny, notified, toPush, missed, cardFaults>>

(* validateFeishuCardDecision; then the hooks run before the decision.     *)
Check(c) ==
    /\ c \in pressed /\ ~c.checked
    /\ pressed' = (pressed \ {c}) \cup
          (IF Pending(c.step) /\ <<c.step, c.by>> \notin expired THEN {[c EXCEPT !.checked = TRUE]} ELSE {})
    /\ UNCHANGED <<outcome, decisions, cards, expired, pushing, arrivedAny, notified, count, toPush, missed, cardFaults>>

Decision(s, says) ==
    /\ outcome' = [outcome EXCEPT ![s] = says]
    /\ decisions' = [decisions EXCEPT ![s] = @ + 1]
    /\ toPush' = toPush + 1

(* Mutant: the decision relies on the check. *)
DecideAsChecked(c) ==
    /\ c \in pressed /\ c.checked /\ pressed' = pressed \ {c}
    /\ Decision(c.step, c.says)
    /\ UNCHANGED <<cards, expired, pushing, arrivedAny, notified, count, missed, cardFaults>>

(* decideApprovalWorkflowStep looks again; the next step is pushed when    *)
(* the effects of the decision have been applied.                          *)
DecideStep(c) ==
    /\ c \in pressed /\ c.checked /\ pressed' = pressed \ {c}
    /\ IF outcome[c.step] = "pending" THEN Decision(c.step, c.says)
       ELSE UNCHANGED <<outcome, decisions, toPush>>
    /\ UNCHANGED <<cards, expired, pushing, arrivedAny, notified, count, missed, cardFaults>>

(* The routes of the control center, or a command in a chat.               *)
DecideElsewhere(s, says) ==
    /\ Pending(s) /\ Decision(s, says)
    /\ UNCHANGED <<cards, expired, pushing, arrivedAny, notified, pressed, count, missed, cardFaults>>

ExpireCard(s, a) ==
    /\ <<s, a>> \in cards \ expired /\ CardFault
    /\ expired' = expired \cup {<<s, a>>}
    /\ UNCHANGED <<outcome, decisions, cards, pushing, arrivedAny, notified, pressed, count, toPush, missed>>

(* The handlers and the memory of the orchestrator are gone.               *)
RestartHandlers ==
    /\ CardFault
    /\ missed' = missed \cup {s \in WorkflowSteps : pushing[s] # {} \/ (toPush > 0 /\ Pending(s))}
    /\ pushing' = [s \in WorkflowSteps |-> {}] /\ arrivedAny' = {} /\ notified' = {}
    /\ pressed' = {} /\ toPush' = 0
    /\ UNCHANGED <<outcome, decisions, cards, expired, count>>

Handlers ==
    Push \/ (\E s \in WorkflowSteps, a \in Approvers : SendCard(s, a)) \/ \E c \in pressed : Check(c) \/ DecideStep(c)

CardNext ==
    \/ Handlers \/ RestartHandlers
    \/ \E s \in WorkflowSteps, a \in Approvers, says \in {"approved", "rejected"} : Press(s, a, says)
    \/ \E s \in WorkflowSteps, says \in {"approved", "rejected"} : DecideElsewhere(s, says)
    \/ \E s \in WorkflowSteps, a \in Approvers : ExpireCard(s, a)

CardSpec == CardInit /\ [][CardNext]_cardVars

CardFairSpec ==
    /\ CardSpec
    /\ WF_cardVars(Handlers)

-----------------------------------------------------------------------------
(* A step is decided once, whoever pressed what while the hooks run.       *)
StepDecidedOnce == \A s \in WorkflowSteps : decisions[s] <= 1

(* Every step that becomes pending reaches all of its approvers, or is     *)
(* decided first; unless a card is refused or a restart cuts its push off: *)
(* nobody pushes it again then.                                            *)
Pushed(s) == Pending(s) => s \in missed \/ \A a \in Approvers : <<s, a>> \in cards
StepsArePushed == \A s \in WorkflowSteps : []<>Pushed(s)
=============================================================================
