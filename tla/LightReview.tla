----------------------------- MODULE LightReview -----------------------------
(***************************************************************************)
(* The light review of a result (services/task-runner/src/worker.ts, end   *)
(* of processNormalTask).  A completed draft gets one review task per      *)
(* reviewer; the review that finds the whole group done has it assessed by *)
(* a model, whose verdict approves the draft, shows a card to the user, or *)
(* creates a revision, which is a draft again.                             *)
(*                                                                         *)
(* The slots interleave at two awaits: after the result is written (the    *)
(* evolution record) and while the model assesses.                         *)
(***************************************************************************)
EXTENDS Integers, FiniteSets

CONSTANTS
    PlannedReviewers,        \* collaborationPlan.suggestedReviewers, after the filter
    FallbackReviewer,    \* resolveLightCollaborationReviewer of the draft's role
    PlanLimit,   \* what the plan's complexity allows; 0 when there is no plan
    Rounds,      \* collaboration.defaultConfig.maxRounds
    Drafts,      \* bound: the drafts 1..n that can be created
    Slots,       \* RUNNER_TASK_CONCURRENCY
    ReviewUpsets,      \* hazards that may happen, see below
    MaxReviewUpsets

(* fail: a review fails; cancel: the user cancels a task; crash: the       *)
(* runner dies; close: a review ends while the slot of another one of its  *)
(* group is still on its way from the result to the look at the group.     *)
AllUpsets == {"fail", "cancel", "crash", "close"}

ReviewAssumption ==
    /\ IsFiniteSet(PlannedReviewers) /\ PlanLimit \in Nat /\ Rounds \in Nat /\ Slots \in Nat \ {0}
    /\ IsFiniteSet(Drafts) /\ Drafts = 1..Cardinality(Drafts) /\ 1 \in Drafts
    /\ ReviewUpsets \subseteq AllUpsets /\ MaxReviewUpsets \in Nat

VARIABLES
    draft,      \* draft[d]: its task, its count of iterations, its parent
    review,     \* review[d]: the review tasks of d, by reviewer
    verdict,    \* verdict[d]: what the assessment of d came to
    reviewUpsets

reviewVars == <<draft, review, verdict, reviewUpsets>>

Status == {"absent", "queued", "running", "completed", "failed", "cancelled"}

(* written: completeTask is done, the rest of the pipeline is not.         *)
Place == {"idle", "working", "written", "assessing"}

Reviewers == PlannedReviewers \cup {FallbackReviewer}
Task == [status : Status, at : Place]
NoReviewTask == [status |-> "absent", at |-> "idle"]
NewTask == [status |-> "queued", at |-> "idle"]

ReviewTypeOK ==
    /\ draft \in [Drafts -> [task : Task, count : 0..Cardinality(Drafts),
                             parent : {0} \cup Drafts, asked : SUBSET Reviewers,
                             revised : BOOLEAN]]
    /\ review \in [Drafts -> [Reviewers -> Task]]
    /\ verdict \in [Drafts -> {"none", "approve", "revise", "escalate"}]
    /\ reviewUpsets \in 0..MaxReviewUpsets

NewDraft(parent, count) ==
    [task |-> NewTask, count |-> count, parent |-> parent, asked |-> {}, revised |-> FALSE]

ReviewInit ==
    /\ draft = [d \in Drafts |->
                  IF d = 1 THEN NewDraft(0, 0) ELSE [NewDraft(0, 0) EXCEPT !.task = NoReviewTask]]
    /\ review = [d \in Drafts |-> [r \in Reviewers |-> NoReviewTask]]
    /\ verdict = [d \in Drafts |-> "none"]
    /\ reviewUpsets = MaxReviewUpsets

ReviewUpset(h) == h \in ReviewUpsets /\ reviewUpsets > 0 /\ reviewUpsets' = reviewUpsets - 1

BusyDrafts == {d \in Drafts : draft[d].task.at # "idle"}
BusyReviews == {x \in Drafts \X Reviewers : review[x[1]][x[2]].at # "idle"}
SlotFree == Cardinality(BusyDrafts) + Cardinality(BusyReviews) < Slots

-----------------------------------------------------------------------------
(* A draft: the primary task or a revision.                                *)

DraftTo(d, status, at) == draft' = [draft EXCEPT ![d].task = [status |-> status, at |-> at]]

ClaimDraft(d) ==
    /\ draft[d].task = NewTask /\ SlotFree
    /\ DraftTo(d, "running", "working")
    /\ UNCHANGED <<review, verdict, reviewUpsets>>

FinishDraft(d) ==
    /\ draft[d].task.at = "working"
    /\ DraftTo(d, "completed", "written")
    /\ UNCHANGED <<review, verdict, reviewUpsets>>

FailDraft(d) ==
    /\ draft[d].task.at = "working"
    /\ DraftTo(d, "failed", "idle")
    /\ UNCHANGED <<review, verdict, reviewUpsets>>

(* Only the first draft carries the plan; revisions have one reviewer.     *)
ReviewersOf(d) == IF d = 1 /\ PlannedReviewers # {} THEN PlannedReviewers ELSE {FallbackReviewer}

AskForReview(d) ==
    /\ draft[d].task.at = "written"
    /\ draft' = [draft EXCEPT ![d].task.at = "idle", ![d].asked = ReviewersOf(d)]
    /\ review' = [review EXCEPT ![d] = [r \in Reviewers |->
                    IF r \in ReviewersOf(d) THEN NewTask ELSE @[r]]]
    /\ UNCHANGED <<verdict, reviewUpsets>>

-----------------------------------------------------------------------------
(* A review.                                                               *)

ReviewTo(d, r, status, at) ==
    review' = [review EXCEPT ![d][r] = [status |-> status, at |-> at]]

ClaimReview(d, r) ==
    /\ review[d][r] = NewTask /\ SlotFree
    /\ ReviewTo(d, r, "running", "working")
    /\ UNCHANGED <<draft, verdict, reviewUpsets>>

OnTheWay(d) == \E r \in Reviewers : review[d][r].at = "written"

FinishReview(d, r) ==
    /\ review[d][r].at = "working"
    /\ IF OnTheWay(d) THEN ReviewUpset("close") ELSE UNCHANGED reviewUpsets
    /\ ReviewTo(d, r, "completed", "written")
    /\ UNCHANGED <<draft, verdict>>

(* The catch block of processTask: a failed review looks at nothing.       *)
FailReview(d, r) ==
    /\ review[d][r].at = "working"
    /\ ReviewUpset("fail")
    /\ ReviewTo(d, r, "failed", "idle")
    /\ UNCHANGED <<draft, verdict>>

(* Mutant: the first review of a group is enough. *)
SomeDone(d) == \E r \in draft[d].asked : review[d][r].status \in {"completed", "failed"}

(* Mutant: a revision waits for the reviewers of the first draft.          *)
AllDoneOfPlan(d) == \A r \in Reviewers : review[d][r].status \in {"completed", "failed"}

AllDone(d) == \A r \in draft[d].asked : review[d][r].status \in {"completed", "failed"}

(* The draft has no revision, and every review of its group is done.       *)
LookAtGroup(d, r) ==
    /\ review[d][r].at = "written"
    /\ review' = [review EXCEPT ![d][r].at =
                    IF ~draft[d].revised /\ AllDone(d) THEN "assessing" ELSE "idle"]
    /\ UNCHANGED <<draft, verdict, reviewUpsets>>

(* resolveMaxIterations.                                                   *)
RoundLimit(d) == IF d = 1 /\ PlanLimit > 0 THEN PlanLimit ELSE Rounds

(* Mutant: the limit itself is still let through. *)
VerdictsPast(d) ==
    IF draft[d].count > RoundLimit(d) THEN {"approve"} ELSE {"approve", "revise", "escalate"}

(* assessReviewQuality: the model says anything, the fallback approves or  *)
(* asks for a revision; at the limit the draft is approved unseen.         *)
ReviewVerdicts(d) ==
    IF draft[d].count >= RoundLimit(d) THEN {"approve"} ELSE {"approve", "revise", "escalate"}

FreshDraft == {d \in Drafts : draft[d].task.status = "absent"}

(* applyQualityAssessment: it does not look again whether d is revised.    *)
Apply(d, r, v) ==
    /\ review[d][r].at = "assessing"
    /\ v \in ReviewVerdicts(d)
    /\ v = "revise" => FreshDraft # {}
    /\ draft' = IF v = "revise"
                THEN LET n == CHOOSE n \in FreshDraft : \A m \in FreshDraft : n <= m IN
                     [draft EXCEPT ![n] = NewDraft(d, draft[d].count + 1), ![d].revised = TRUE]
                ELSE draft
    /\ verdict' = [verdict EXCEPT ![d] = v]
    /\ review' = [review EXCEPT ![d][r].at = "idle"]
    /\ UNCHANGED reviewUpsets

-----------------------------------------------------------------------------
CancelDraft(d) ==
    /\ draft[d].task.status \in {"queued", "running"} /\ ReviewUpset("cancel")
    /\ draft' = [draft EXCEPT ![d].task.status = "cancelled"]
    /\ UNCHANGED <<review, verdict>>

CancelReview(d, r) ==
    /\ review[d][r].status \in {"queued", "running"} /\ ReviewUpset("cancel")
    /\ review' = [review EXCEPT ![d][r].status = "cancelled"]
    /\ UNCHANGED <<draft, verdict>>

(* The runner dies and is started again; the recovery at start queues what *)
(* was running.                                                            *)
Restarted(task) ==
    [status |-> IF task.status = "running" THEN "queued" ELSE task.status, at |-> "idle"]

CrashRunner ==
    /\ BusyDrafts # {} \/ BusyReviews # {}
    /\ ReviewUpset("crash")
    /\ draft' = [d \in Drafts |-> [draft[d] EXCEPT !.task = Restarted(@)]]
    /\ review' = [d \in Drafts |-> [r \in Reviewers |-> Restarted(review[d][r])]]
    /\ UNCHANGED verdict

DraftStep(d) == ClaimDraft(d) \/ FinishDraft(d) \/ FailDraft(d) \/ AskForReview(d)

ReviewStep(d, r) ==
    \/ ClaimReview(d, r) \/ FinishReview(d, r) \/ LookAtGroup(d, r)
    \/ \E v \in {"approve", "revise", "escalate"} : Apply(d, r, v)

(* What the runner does by itself.                                         *)
Reviewing == \E d \in Drafts : DraftStep(d) \/ \E r \in Reviewers : ReviewStep(d, r)

ReviewNext ==
    \/ Reviewing
    \/ \E d \in Drafts : CancelDraft(d) \/ \E r \in Reviewers : FailReview(d, r) \/ CancelReview(d, r)
    \/ CrashRunner

ReviewSpec == ReviewInit /\ [][ReviewNext]_reviewVars

-----------------------------------------------------------------------------
Unhindered == reviewUpsets = MaxReviewUpsets

(* Whatever the model says, and whatever goes wrong, a chain of revisions  *)
(* ends at the limit of its plan or of the configuration.                  *)
IterationsAreBounded ==
    \A d \in Drafts : draft[d].count <= IF PlanLimit > Rounds THEN PlanLimit ELSE Rounds

(* A draft is sent back at most once, however many reviews it has.         *)
OneRevision ==
    Unhindered => \A d \in Drafts : Cardinality({n \in Drafts : draft[n].parent = d}) <= 1

(* The rounds of a result stay within their limit, and a result is sent    *)
(* back once however its reviews overlap.                                  *)
ReviewsAreBounded == IterationsAreBounded /\ OneRevision

(* A result that was sent to review is judged, as long as nothing goes     *)
(* wrong on the way.                                                       *)
ResultsAreJudged ==
    []<>(\A d \in Drafts : draft[d].task.status = "completed" => verdict[d] # "none" \/ ~Unhindered)
=============================================================================
