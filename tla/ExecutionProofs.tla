--------------------------- MODULE ExecutionProofs ---------------------------
(***************************************************************************)
(* What the execution of work guarantees: LightReview for every plan,      *)
(* limit, number of drafts and slots, Delivery for every interleaving of   *)
(* the runner, the synchronisation and the owner, ToolCommand for every    *)
(* list of tools and every limit, and Collaboration for any team and any   *)
(* number of aggregation tasks and of slots, whatever upsets occur.        *)
(***************************************************************************)
EXTENDS LightReview, Delivery, ToolCommand, Collaboration,
        FiniteSetTheorems, SequenceFacts, TLAPS

-----------------------------------------------------------------------------
(* Drafts are created one after the other, and each is one round further   *)
(* than the draft it revises.                                              *)

Unborn(d) == draft[d].task.status = "absent"

(* An unborn draft has no review, no parent and no revision.               *)
UnbornOK(d) ==
    Unborn(d) =>
      /\ draft[d] = [NewDraft(0, 0) EXCEPT !.task = NoReviewTask]
      /\ \A r \in Reviewers : review[d][r] = NoReviewTask
      /\ \A e \in Drafts : e > d => Unborn(e)

(* The rounds that the longest chain may have.                             *)
ChainLimit == IF PlanLimit > Rounds THEN PlanLimit ELSE Rounds

CountOK(d) == draft[d].count < d /\ draft[d].count <= ChainLimit

RoundsInv ==
    /\ ReviewTypeOK
    /\ \A d \in Drafts : UnbornOK(d) /\ CountOK(d)

-----------------------------------------------------------------------------
(* As long as no upset happens, one review of a group assesses it.         *)

(* A draft is sent to review when it is completed, and once.               *)
SentOnce(d) ==
    /\ draft[d].task.at = "working" => draft[d].task.status = "running"
    /\ draft[d].task.at = "written" => draft[d].task.status = "completed"
    /\ draft[d].task.status # "completed" \/ draft[d].task.at = "written" =>
         ~draft[d].revised /\ \A r \in Reviewers : review[d][r] = NoReviewTask

(* The reviews of a group end one after the other, and the last one that   *)
(* looks at the group is the only one that is still there.                 *)
GroupOK(d) ==
    /\ \A r \in Reviewers :
         /\ r \notin draft[d].asked => review[d][r] = NoReviewTask
         /\ review[d][r].at = "working" => review[d][r].status = "running"
         /\ review[d][r].at \in {"written", "assessing"} => review[d][r].status = "completed"
         /\ review[d][r].at = "assessing" => ~draft[d].revised
    /\ \A r, s \in Reviewers :
         /\ review[d][r].at = "written" /\ review[d][s].at = "written" => r = s
         /\ review[d][r].at = "assessing" /\ s # r => review[d][s].at = "idle"
         /\ review[d][r].at = "assessing" \/ draft[d].revised =>
              review[d][s].status \notin {"queued", "running"}

(* Only a draft that is marked as revised has a revision, and only one.    *)
OneChild(d) ==
    \A m, n \in Drafts : draft[m].parent = d /\ draft[n].parent = d => draft[d].revised /\ m = n

CalmAll == \A d \in Drafts : SentOnce(d) /\ GroupOK(d) /\ OneChild(d)

UnhinderedInv == Unhindered => CalmAll

(* What the step of one task leaves of the drafts.                         *)
DraftRows == [task : Task, count : 0..Cardinality(Drafts), parent : {0} \cup Drafts,
              asked : SUBSET Reviewers, revised : BOOLEAN]

(* Draft d gets the task k, and nothing else happens to the drafts.        *)
DraftGets(d, k) ==
    /\ draft'[d].task = k
    /\ draft'[d].count = draft[d].count /\ draft'[d].parent = draft[d].parent
    /\ draft'[d].asked = draft[d].asked /\ draft'[d].revised = draft[d].revised
    /\ \A e \in Drafts \ {d} : draft'[e] = draft[e]

(* The review of d by r becomes k, and the other reviews stay.             *)
ReviewGets(d, r, k) ==
    /\ review'[d][r] = k
    /\ \A s \in Reviewers \ {r} : review'[d][s] = review[d][s]
    /\ \A e \in Drafts \ {d} : review'[e] = review[e]

(* The tables of the drafts and of the reviews.                            *)
Tables == /\ draft \in [Drafts -> DraftRows]
          /\ review \in [Drafts -> [Reviewers -> Task]]

(* The task of a draft is written.                                         *)
LEMMA DraftWrite ==
    ASSUME Tables, NEW d \in Drafts, NEW k \in Task, draft' = [draft EXCEPT ![d].task = k]
    PROVE  DraftGets(d, k) /\ draft' \in [Drafts -> DraftRows]
<1>1. draft[d] \in DraftRows /\ draft \in [Drafts -> DraftRows]
  BY DEF Tables
<1>2. draft' = [draft EXCEPT ![d] = [draft[d] EXCEPT !.task = k]]
  OBVIOUS
<1>3. [draft[d] EXCEPT !.task = k] \in DraftRows
  BY <1>1 DEF DraftRows
<1>4. draft' \in [Drafts -> DraftRows] /\ draft'[d] = [draft[d] EXCEPT !.task = k]
      /\ \A e \in Drafts \ {d} : draft'[e] = draft[e]
  BY <1>1, <1>2, <1>3
<1> QED  BY <1>1, <1>4 DEF DraftGets, DraftRows

(* A review is written.                                                    *)
LEMMA ReviewWrite ==
    ASSUME Tables, NEW d \in Drafts, NEW r \in Reviewers, NEW k \in Task,
           review' = [review EXCEPT ![d][r] = k]
    PROVE  ReviewGets(d, r, k) /\ review' \in [Drafts -> [Reviewers -> Task]]
<1>1. review[d] \in [Reviewers -> Task]
  BY DEF Tables
<1>2. review' = [review EXCEPT ![d] = [review[d] EXCEPT ![r] = k]]
  OBVIOUS
<1>3. [review[d] EXCEPT ![r] = k] \in [Reviewers -> Task]
  BY <1>1
<1>4. review' \in [Drafts -> [Reviewers -> Task]] /\ review'[d] = [review[d] EXCEPT ![r] = k]
      /\ \A e \in Drafts \ {d} : review'[e] = review[e]
  BY <1>2, <1>3 DEF Tables
<1> QED  BY <1>1, <1>4 DEF ReviewGets

(* The drafts are the numbers up to their bound.                           *)
LEMMA DraftNumbers ==
    ASSUME ReviewAssumption
    PROVE  /\ Cardinality(Drafts) \in Nat /\ Drafts = 1..Cardinality(Drafts)
           /\ Drafts \subseteq Nat /\ 0 \notin Drafts /\ 1 \in Drafts
           /\ ChainLimit \in Nat /\ \A d \in Drafts : RoundLimit(d) <= ChainLimit /\ RoundLimit(d) \in Nat
<1>1. Cardinality(Drafts) \in Nat
  BY FS_CardinalityType DEF ReviewAssumption
<1>2. PlanLimit \in Nat /\ Rounds \in Nat
  BY DEF ReviewAssumption
<1>3. ChainLimit \in Nat /\ PlanLimit <= ChainLimit /\ Rounds <= ChainLimit
  BY <1>2 DEF ChainLimit
<1>4. \A d \in Drafts : RoundLimit(d) \in {PlanLimit, Rounds}
  BY DEF RoundLimit
<1>5. Drafts = 1..Cardinality(Drafts)
  BY DEF ReviewAssumption
<1>6. Drafts \subseteq Nat /\ 0 \notin Drafts /\ 1 \in Drafts
  <2> DEFINE c == Cardinality(Drafts)
  <2>1. c \in Nat /\ Drafts = 1..c /\ 1 \in Drafts
    BY <1>1, <1>5 DEF ReviewAssumption
  <2> HIDE DEF c
  <2> QED  BY <2>1
<1> QED  BY <1>1, <1>2, <1>3, <1>4, <1>5, <1>6

(* What every step does to the task of one draft or of one review.         *)
StepOfDraft(d, k) ==
    /\ DraftGets(d, k) /\ k \in Task /\ k.status # "absent" /\ ~Unborn(d)
    /\ draft' \in [Drafts -> DraftRows] /\ review' = review /\ verdict' = verdict

StepOfReview(d, r, k) ==
    /\ ReviewGets(d, r, k) /\ k \in Task /\ review[d][r] # NoReviewTask
    /\ review' \in [Drafts -> [Reviewers -> Task]] /\ draft' = draft /\ verdict' = verdict

(* The steps of a draft write its task.                                    *)
LEMMA DraftSteps ==
    ASSUME Tables, NEW d \in Drafts, UnbornOK(d)
    PROVE  /\ ClaimDraft(d) => StepOfDraft(d, [status |-> "running", at |-> "working"])
           /\ FinishDraft(d) => StepOfDraft(d, [status |-> "completed", at |-> "written"])
           /\ FailDraft(d) => StepOfDraft(d, [status |-> "failed", at |-> "idle"])
           /\ CancelDraft(d) => StepOfDraft(d, [status |-> "cancelled", at |-> draft[d].task.at])
<1>0. draft[d].task \in Task /\ draft[d].task.at \in Place
  BY DEF Tables, DraftRows, Task
<1>born. draft[d].task.at # "idle" => ~Unborn(d)
  BY DEF UnbornOK, NewDraft, NoReviewTask
<1>write. ASSUME NEW k \in Task, k.status # "absent", draft' = [draft EXCEPT ![d].task = k],
                 ~Unborn(d), review' = review, verdict' = verdict
          PROVE  StepOfDraft(d, k)
  BY <1>write, DraftWrite DEF StepOfDraft
<1>1. ASSUME ClaimDraft(d) PROVE StepOfDraft(d, [status |-> "running", at |-> "working"])
  <2> DEFINE k == [status |-> "running", at |-> "working"]
  <2>1. k \in Task /\ k.status # "absent"
    BY <1>0 DEF Task, Status, Place
  <2>2. draft' = [draft EXCEPT ![d].task = k]
    BY <1>0, <1>1 DEF ClaimDraft, DraftTo, Task, Tables, DraftRows
  <2>3. review' = review /\ verdict' = verdict /\ ~Unborn(d)
    BY <1>1, <1>born DEF ClaimDraft, Unborn, NewTask
  <2> HIDE DEF k
  <2>4. StepOfDraft(d, k)
    BY <1>write, <2>1, <2>2, <2>3
  <2> QED  BY <2>4 DEF k
<1>2. ASSUME FinishDraft(d) PROVE StepOfDraft(d, [status |-> "completed", at |-> "written"])
  <2> DEFINE k == [status |-> "completed", at |-> "written"]
  <2>1. k \in Task /\ k.status # "absent"
    BY <1>0 DEF Task, Status, Place
  <2>2. draft' = [draft EXCEPT ![d].task = k]
    BY <1>0, <1>2 DEF FinishDraft, DraftTo, Task, Tables, DraftRows
  <2>3. review' = review /\ verdict' = verdict /\ ~Unborn(d)
    BY <1>2, <1>born DEF FinishDraft, Unborn, NewTask
  <2> HIDE DEF k
  <2>4. StepOfDraft(d, k)
    BY <1>write, <2>1, <2>2, <2>3
  <2> QED  BY <2>4 DEF k
<1>3. ASSUME FailDraft(d) PROVE StepOfDraft(d, [status |-> "failed", at |-> "idle"])
  <2> DEFINE k == [status |-> "failed", at |-> "idle"]
  <2>1. k \in Task /\ k.status # "absent"
    BY <1>0 DEF Task, Status, Place
  <2>2. draft' = [draft EXCEPT ![d].task = k]
    BY <1>0, <1>3 DEF FailDraft, DraftTo, Task, Tables, DraftRows
  <2>3. review' = review /\ verdict' = verdict /\ ~Unborn(d)
    BY <1>3, <1>born DEF FailDraft, Unborn, NewTask
  <2> HIDE DEF k
  <2>4. StepOfDraft(d, k)
    BY <1>write, <2>1, <2>2, <2>3
  <2> QED  BY <2>4 DEF k
<1>4. ASSUME CancelDraft(d) PROVE StepOfDraft(d, [status |-> "cancelled", at |-> draft[d].task.at])
  <2> DEFINE k == [status |-> "cancelled", at |-> draft[d].task.at]
  <2>1. k \in Task /\ k.status # "absent"
    BY <1>0 DEF Task, Status, Place
  <2>2. draft' = [draft EXCEPT ![d].task = k]
    <3>1. k = [draft[d].task EXCEPT !.status = "cancelled"]
      BY <1>0 DEF Task
    <3>2. draft' = [draft EXCEPT ![d].task = [draft[d].task EXCEPT !.status = "cancelled"]]
      BY <1>4 DEF CancelDraft
    <3> QED  BY <3>1, <3>2
  <2>3. review' = review /\ verdict' = verdict /\ ~Unborn(d)
    BY <1>4, <1>born DEF CancelDraft, Unborn, NewTask
  <2> HIDE DEF k
  <2>4. StepOfDraft(d, k)
    BY <1>write, <2>1, <2>2, <2>3
  <2> QED  BY <2>4 DEF k
<1> QED  BY <1>1, <1>2, <1>3, <1>4

(* The steps of a review write it.                                         *)
LEMMA ReviewSteps ==
    ASSUME Tables, NEW d \in Drafts, NEW r \in Reviewers
    PROVE  /\ ClaimReview(d, r) => StepOfReview(d, r, [status |-> "running", at |-> "working"])
           /\ FinishReview(d, r) => StepOfReview(d, r, [status |-> "completed", at |-> "written"])
           /\ FailReview(d, r) => StepOfReview(d, r, [status |-> "failed", at |-> "idle"])
           /\ LookAtGroup(d, r) =>
                \E at \in {"assessing", "idle"} :
                   /\ StepOfReview(d, r, [status |-> review[d][r].status, at |-> at])
                   /\ at = "assessing" => ~draft[d].revised /\ AllDone(d)
           /\ CancelReview(d, r) => StepOfReview(d, r, [status |-> "cancelled", at |-> review[d][r].at])
<1>0. review[d][r] \in Task /\ review[d][r].at \in Place /\ review[d][r].status \in Status
  BY DEF Tables, Task
<1>write. ASSUME NEW k \in Task, review' = [review EXCEPT ![d][r] = k],
                 review[d][r] # NoReviewTask, draft' = draft, verdict' = verdict
          PROVE  StepOfReview(d, r, k)
  BY <1>write, ReviewWrite DEF StepOfReview
<1>1. ASSUME ClaimReview(d, r) PROVE StepOfReview(d, r, [status |-> "running", at |-> "working"])
  <2> DEFINE k == [status |-> "running", at |-> "working"]
  <2>1. k \in Task
    BY <1>0 DEF Task, Status, Place
  <2>2. review' = [review EXCEPT ![d][r] = k]
    BY <1>0, <1>1 DEF ClaimReview, ReviewTo, Task, Tables
  <2>3. draft' = draft /\ verdict' = verdict /\ review[d][r] # NoReviewTask
    BY <1>1 DEF ClaimReview, NoReviewTask, NewTask
  <2> HIDE DEF k
  <2>4. StepOfReview(d, r, k)
    BY <1>write, <2>1, <2>2, <2>3
  <2> QED  BY <2>4 DEF k
<1>2. ASSUME FinishReview(d, r) PROVE StepOfReview(d, r, [status |-> "completed", at |-> "written"])
  <2> DEFINE k == [status |-> "completed", at |-> "written"]
  <2>1. k \in Task
    BY <1>0 DEF Task, Status, Place
  <2>2. review' = [review EXCEPT ![d][r] = k]
    BY <1>0, <1>2 DEF FinishReview, ReviewTo, Task, Tables
  <2>3. draft' = draft /\ verdict' = verdict /\ review[d][r] # NoReviewTask
    BY <1>2 DEF FinishReview, NoReviewTask, NewTask
  <2> HIDE DEF k
  <2>4. StepOfReview(d, r, k)
    BY <1>write, <2>1, <2>2, <2>3
  <2> QED  BY <2>4 DEF k
<1>3. ASSUME FailReview(d, r) PROVE StepOfReview(d, r, [status |-> "failed", at |-> "idle"])
  <2> DEFINE k == [status |-> "failed", at |-> "idle"]
  <2>1. k \in Task
    BY <1>0 DEF Task, Status, Place
  <2>2. review' = [review EXCEPT ![d][r] = k]
    BY <1>0, <1>3 DEF FailReview, ReviewTo, Task, Tables
  <2>3. draft' = draft /\ verdict' = verdict /\ review[d][r] # NoReviewTask
    BY <1>3 DEF FailReview, NoReviewTask, NewTask
  <2> HIDE DEF k
  <2>4. StepOfReview(d, r, k)
    BY <1>write, <2>1, <2>2, <2>3
  <2> QED  BY <2>4 DEF k
<1>4. ASSUME CancelReview(d, r) PROVE StepOfReview(d, r, [status |-> "cancelled", at |-> review[d][r].at])
  <2> DEFINE k == [status |-> "cancelled", at |-> review[d][r].at]
  <2>1. k \in Task
    BY <1>0 DEF Task, Status, Place
  <2>2. review' = [review EXCEPT ![d][r] = k]
    <3>1. k = [review[d][r] EXCEPT !.status = "cancelled"]
      BY <1>0 DEF Task
    <3>2. review' = [review EXCEPT ![d][r] = [review[d][r] EXCEPT !.status = "cancelled"]]
      BY <1>4 DEF CancelReview
    <3> QED  BY <3>1, <3>2
  <2>3. draft' = draft /\ verdict' = verdict /\ review[d][r] # NoReviewTask
    BY <1>4 DEF CancelReview, NoReviewTask, NewTask
  <2> HIDE DEF k
  <2>4. StepOfReview(d, r, k)
    BY <1>write, <2>1, <2>2, <2>3
  <2> QED  BY <2>4 DEF k
<1>5. ASSUME LookAtGroup(d, r)
      PROVE  \E at \in {"assessing", "idle"} :
                /\ StepOfReview(d, r, [status |-> review[d][r].status, at |-> at])
                /\ at = "assessing" => ~draft[d].revised /\ AllDone(d)
  <2> DEFINE at == IF ~draft[d].revised /\ AllDone(d) THEN "assessing" ELSE "idle"
             k == [status |-> review[d][r].status, at |-> at]
  <2>1. at \in {"assessing", "idle"} /\ (at = "assessing" => ~draft[d].revised /\ AllDone(d))
    OBVIOUS
  <2>2. review' = [review EXCEPT ![d][r].at = at] /\ draft' = draft /\ verdict' = verdict
        /\ review[d][r] # NoReviewTask
    BY <1>5 DEF LookAtGroup, NoReviewTask
  <2> HIDE DEF at
  <2>3. k \in Task
    BY <1>0, <2>1 DEF Task, Place
  <2>4. review' = [review EXCEPT ![d][r] = k]
    <3>1. k = [review[d][r] EXCEPT !.at = at]
      BY <1>0 DEF Task
    <3>2. review' = [review EXCEPT ![d][r] = [review[d][r] EXCEPT !.at = at]]
      BY <2>2
    <3> QED  BY <3>1, <3>2
  <2> HIDE DEF k
  <2>5. StepOfReview(d, r, k)
    BY <1>write, <2>2, <2>3, <2>4
  <2> QED  BY <2>1, <2>5 DEF k
<1> QED  BY <1>1, <1>2, <1>3, <1>4, <1>5

(* The least of the unborn drafts is the next one.                         *)
LEMMA NextDraft ==
    ASSUME ReviewAssumption, \A e \in Drafts : UnbornOK(e), NEW d \in Drafts, ~Unborn(d), FreshDraft # {},
           NEW n, n = CHOOSE k \in FreshDraft : \A m \in FreshDraft : k <= m
    PROVE  /\ n \in Drafts /\ Unborn(n) /\ n # d /\ d < n
           /\ \A e \in Drafts : Unborn(e) => n <= e
<1>1. Drafts \subseteq Nat /\ FreshDraft \subseteq Drafts
  BY DraftNumbers DEF FreshDraft
<1>2. \E m \in FreshDraft : \A e \in FreshDraft : m <= e
  <2>1. FreshDraft \subseteq Nat
    BY <1>1
  <2> QED  BY <2>1, LeastOfNat
<1>3. n \in FreshDraft /\ \A e \in FreshDraft : n <= e
  BY <1>2
<1>4. n \in Drafts /\ Unborn(n)
  BY <1>3 DEF FreshDraft, Unborn
<1>5. \A e \in Drafts : Unborn(e) => n <= e
  BY <1>3 DEF FreshDraft, Unborn
<1>6. n # d /\ ~(d > n)
  BY <1>4 DEF UnbornOK
<1>7. n \in Nat /\ d \in Nat
  BY <1>1, <1>4
<1> QED  BY <1>4, <1>5, <1>6, <1>7

(* The counts and what is unborn stay as they are.                         *)
LEMMA RoundsStay ==
    ASSUME RoundsInv, ReviewTypeOK',
           \A e \in Drafts : /\ draft'[e].count = draft[e].count
                             /\ Unborn(e)' <=> Unborn(e)
                             /\ Unborn(e) => draft'[e] = draft[e] /\ review'[e] = review[e]
    PROVE  RoundsInv'
<1>1. ASSUME NEW e \in Drafts PROVE UnbornOK(e)' /\ CountOK(e)'
  <2>1. UnbornOK(e) /\ CountOK(e)
    BY DEF RoundsInv
  <2>2. CountOK(e)'
    BY <2>1 DEF CountOK
  <2>3. UnbornOK(e)'
    BY <2>1 DEF UnbornOK
  <2> QED  BY <2>2, <2>3
<1> QED  BY <1>1 DEF RoundsInv

(* What creates a revision.                                                *)
Revises(d, r, n) ==
    /\ Unborn(n) /\ n # d
    /\ draft'[n] = NewDraft(d, draft[d].count + 1)
    /\ draft'[d] = [draft[d] EXCEPT !.revised = TRUE]
    /\ \A e \in Drafts \ {d, n} : draft'[e] = draft[e]

(* An assessment sends its review home; it creates the next draft, or      *)
(* none.                                                                   *)
LEMMA ApplyStep ==
    ASSUME ReviewAssumption, RoundsInv, NEW d \in Drafts, NEW r \in Reviewers, NEW v, Apply(d, r, v)
    PROVE  /\ review[d][r].at = "assessing" /\ ~Unborn(d) /\ reviewUpsets' = reviewUpsets
           /\ ReviewGets(d, r, [status |-> review[d][r].status, at |-> "idle"])
           /\ ReviewTypeOK'
           /\ \/ draft' = draft
              \/ \E n \in Drafts : /\ Revises(d, r, n) /\ draft[d].count + 1 <= ChainLimit /\ d < n
                                   /\ \A e \in Drafts : Unborn(e) => n <= e
<1> DEFINE k == [status |-> review[d][r].status, at |-> "idle"]
<1>0. Tables /\ verdict \in [Drafts -> {"none", "approve", "revise", "escalate"}]
  BY DEF RoundsInv, ReviewTypeOK, Tables, DraftRows
<1>1. review[d][r].at = "assessing" /\ reviewUpsets' = reviewUpsets /\ v \in {"approve", "revise", "escalate"}
  BY DEF Apply, ReviewVerdicts
<1>2. ~Unborn(d) /\ \A e \in Drafts : UnbornOK(e)
  BY <1>1 DEF RoundsInv, UnbornOK, NoReviewTask
<1>3. ReviewGets(d, r, k) /\ review' \in [Drafts -> [Reviewers -> Task]]
  <2>1. review[d][r] \in Task
    BY <1>0 DEF Tables
  <2>2. k = [review[d][r] EXCEPT !.at = "idle"] /\ k \in Task
    BY <2>1 DEF Task, Place
  <2>3. review' = [review EXCEPT ![d][r] = [review[d][r] EXCEPT !.at = "idle"]]
    BY DEF Apply
  <2> HIDE DEF k
  <2> QED  BY <1>0, <2>2, <2>3, ReviewWrite
<1>4. verdict' \in [Drafts -> {"none", "approve", "revise", "escalate"}]
  BY <1>0, <1>1 DEF Apply
<1>5. CASE v # "revise"
  <2>1. draft' = draft
    BY <1>5 DEF Apply
  <2>2. ReviewTypeOK'
    BY <1>1, <1>3, <1>4, <2>1 DEF RoundsInv, ReviewTypeOK
  <2> QED  BY <1>1, <1>2, <1>3, <2>1, <2>2
<1>6. CASE v = "revise"
  <2> DEFINE n == CHOOSE n \in FreshDraft : \A m \in FreshDraft : n <= m
             row == NewDraft(d, draft[d].count + 1)
  <2>1. FreshDraft # {} /\ draft' = [draft EXCEPT ![n] = row, ![d].revised = TRUE]
    BY <1>6 DEF Apply
  <2>2. n \in Drafts /\ Unborn(n) /\ n # d /\ d < n /\ \A e \in Drafts : Unborn(e) => n <= e
    BY <1>2, <2>1, NextDraft
  <2> HIDE DEF n
  <2>3. draft[d].count < RoundLimit(d)
    <3>1. ~(draft[d].count >= RoundLimit(d))
      BY <1>6 DEF Apply, ReviewVerdicts
    <3>2. draft[d].count \in 0..Cardinality(Drafts)
      BY <1>0 DEF Tables, DraftRows
    <3> QED  BY <3>1, <3>2, DraftNumbers
  <2>4. draft[d].count \in Nat /\ draft[d].count < d /\ d \in Nat /\ n \in Nat /\ n <= Cardinality(Drafts)
    <3>1. draft[d].count < d
      BY DEF RoundsInv, CountOK
    <3>2. draft[d].count \in 0..Cardinality(Drafts)
      BY <1>0 DEF Tables, DraftRows
    <3>3. n \in 1..Cardinality(Drafts) /\ d \in 1..Cardinality(Drafts) /\ Cardinality(Drafts) \in Nat
      BY <2>2, DraftNumbers
    <3> QED  BY <3>1, <3>2, <3>3
  <2>5. draft[d].count + 1 <= ChainLimit
    <3>1. RoundLimit(d) \in Nat /\ RoundLimit(d) <= ChainLimit /\ ChainLimit \in Nat
      BY DraftNumbers
    <3> QED  BY <2>3, <2>4, <3>1
  <2>6. draft[d].count + 1 \in 0..Cardinality(Drafts)
    <3>1. Cardinality(Drafts) \in Nat
      BY DraftNumbers
    <3> QED  BY <2>2, <2>4, <3>1
  <2>7. row \in DraftRows
    BY <2>6 DEF NewDraft, NewTask, DraftRows, Task, Status, Place
  <2> HIDE DEF row
  <2>8. [draft[d] EXCEPT !.revised = TRUE] \in DraftRows
    <3>1. draft[d] \in DraftRows
      BY <1>0 DEF Tables
    <3> QED  BY <3>1 DEF DraftRows
  <2>9. draft' = [draft EXCEPT ![n] = row, ![d] = [draft[d] EXCEPT !.revised = TRUE]]
    BY <2>1, <2>2
  <2>10. draft' \in [Drafts -> DraftRows]
    BY <1>0, <2>2, <2>7, <2>8, <2>9 DEF Tables
  <2>11. /\ draft'[n] = row /\ draft'[d] = [draft[d] EXCEPT !.revised = TRUE]
         /\ \A e \in Drafts \ {d, n} : draft'[e] = draft[e]
    BY <1>0, <2>2, <2>9 DEF Tables
  <2>12. Revises(d, r, n)
    BY <2>2, <2>11 DEF Revises, row
  <2>13. ReviewTypeOK'
    BY <1>1, <1>3, <1>4, <2>10 DEF RoundsInv, ReviewTypeOK, DraftRows
  <2> QED  BY <1>1, <1>2, <1>3, <2>2, <2>5, <2>12, <2>13
<1> QED  BY <1>5, <1>6


(* A written draft is sent to its reviewers.                               *)
LEMMA AskStep ==
    ASSUME RoundsInv, NEW d \in Drafts, AskForReview(d)
    PROVE  /\ draft[d].task.at = "written" /\ ~Unborn(d) /\ reviewUpsets' = reviewUpsets
           /\ draft'[d].task = [status |-> draft[d].task.status, at |-> "idle"]
           /\ draft'[d].asked = ReviewersOf(d) /\ draft'[d].count = draft[d].count
           /\ draft'[d].parent = draft[d].parent /\ draft'[d].revised = draft[d].revised
           /\ \A e \in Drafts \ {d} : draft'[e] = draft[e] /\ review'[e] = review[e]
           /\ \A r \in Reviewers : review'[d][r] = IF r \in ReviewersOf(d) THEN NewTask ELSE review[d][r]
           /\ ReviewTypeOK'
<1> DEFINE k == [status |-> draft[d].task.status, at |-> "idle"]
           group == [r \in Reviewers |-> IF r \in ReviewersOf(d) THEN NewTask ELSE review[d][r]]
<1>0. draft \in [Drafts -> DraftRows] /\ review \in [Drafts -> [Reviewers -> Task]]
  BY DEF RoundsInv, ReviewTypeOK, DraftRows
<1>1. draft[d].task.at = "written" /\ reviewUpsets' = reviewUpsets /\ verdict' = verdict
  BY DEF AskForReview
<1>2. ~Unborn(d)
  BY <1>1 DEF RoundsInv, UnbornOK, NewDraft, NoReviewTask
<1>3. draft[d] \in DraftRows /\ draft[d].task \in Task
  BY <1>0 DEF DraftRows
<1>4. k = [draft[d].task EXCEPT !.at = "idle"] /\ k \in Task
  BY <1>3 DEF Task, Place
<1>5. draft' = [draft EXCEPT ![d] = [draft[d] EXCEPT !.task = [draft[d].task EXCEPT !.at = "idle"],
                                                     !.asked = ReviewersOf(d)]]
  BY DEF AskForReview
<1>6. ReviewersOf(d) \subseteq Reviewers
  BY DEF ReviewersOf, Reviewers
<1> HIDE DEF k
<1>7. [draft[d] EXCEPT !.task = k, !.asked = ReviewersOf(d)] \in DraftRows
  BY <1>3, <1>4, <1>6 DEF DraftRows
<1>8. draft' = [draft EXCEPT ![d] = [draft[d] EXCEPT !.task = k, !.asked = ReviewersOf(d)]]
  BY <1>4, <1>5
<1>9. /\ draft' \in [Drafts -> DraftRows]
      /\ draft'[d] = [draft[d] EXCEPT !.task = k, !.asked = ReviewersOf(d)]
      /\ \A e \in Drafts \ {d} : draft'[e] = draft[e]
  BY <1>0, <1>7, <1>8
<1>10. NewTask \in Task
  BY DEF NewTask, Task, Status, Place
<1>11. review[d] \in [Reviewers -> Task]
  BY <1>0
<1>12. group \in [Reviewers -> Task]
  BY <1>10, <1>11
<1>13. review' = [review EXCEPT ![d] = group]
  BY DEF AskForReview
<1>14. \A r \in Reviewers : group[r] = IF r \in ReviewersOf(d) THEN NewTask ELSE review[d][r]
  OBVIOUS
<1> HIDE DEF group
<1>15. review' \in [Drafts -> [Reviewers -> Task]] /\ review'[d] = group
       /\ \A e \in Drafts \ {d} : review'[e] = review[e]
  BY <1>0, <1>12, <1>13
<1>16. ReviewTypeOK'
  BY <1>1, <1>9, <1>15 DEF RoundsInv, ReviewTypeOK, DraftRows
<1>17. \A r \in Reviewers : review'[d][r] = IF r \in ReviewersOf(d) THEN NewTask ELSE review[d][r]
  BY <1>14, <1>15
<1>18. /\ draft'[d].task = k /\ draft'[d].asked = ReviewersOf(d)
       /\ draft'[d].count = draft[d].count /\ draft'[d].parent = draft[d].parent
       /\ draft'[d].revised = draft[d].revised
  <2>1. draft'[d] = [draft[d] EXCEPT !.task = k, !.asked = ReviewersOf(d)]
    BY <1>9
  <2>2. draft[d] \in DraftRows
    BY <1>3
  <2> DEFINE old == draft[d]
             asked == ReviewersOf(d)
             row == draft'[d]
  <2>3. row = [old EXCEPT !.task = k, !.asked = asked] /\ old \in DraftRows
    BY <2>1, <2>2
  <2> HIDE DEF old, asked, row
  <2>4. /\ row.task = k /\ row.asked = asked /\ row.count = old.count
        /\ row.parent = old.parent /\ row.revised = old.revised
    BY <2>3 DEF DraftRows
  <2> QED  BY <2>4 DEF old, asked, row
<1> QED  BY <1>1, <1>2, <1>9, <1>15, <1>16, <1>17, <1>18 DEF k

(* A crash of the runner sends every task home.                            *)
LEMMA CrashStep ==
    ASSUME RoundsInv, CrashRunner, reviewUpsets' \in 0..MaxReviewUpsets
    PROVE  RoundsInv'
<1>0. draft \in [Drafts -> DraftRows] /\ review \in [Drafts -> [Reviewers -> Task]]
  BY DEF RoundsInv, ReviewTypeOK, DraftRows
<1>1. ASSUME NEW t \in Task PROVE Restarted(t) \in Task
  BY DEF Restarted, Task, Status, Place
<1>2. ASSUME NEW e \in Drafts
      PROVE  /\ draft'[e] = [draft[e] EXCEPT !.task = Restarted(draft[e].task)]
             /\ review'[e] = [r \in Reviewers |-> Restarted(review[e][r])]
  BY DEF CrashRunner
<1>3. ASSUME NEW e \in Drafts
      PROVE  [draft[e] EXCEPT !.task = Restarted(draft[e].task)] \in DraftRows
  <2>1. draft[e] \in DraftRows
    BY <1>0
  <2>2. Restarted(draft[e].task) \in Task
    BY <1>1, <2>1 DEF DraftRows
  <2> QED  BY <2>1, <2>2 DEF DraftRows
<1>4. ASSUME NEW e \in Drafts
      PROVE  [r \in Reviewers |-> Restarted(review[e][r])] \in [Reviewers -> Task]
  <2>1. review[e] \in [Reviewers -> Task]
    BY <1>0
  <2> QED  BY <1>1, <2>1
<1>5. draft' \in [Drafts -> DraftRows]
  BY <1>3 DEF CrashRunner
<1>6. review' \in [Drafts -> [Reviewers -> Task]]
  BY <1>4 DEF CrashRunner
<1>7. verdict' = verdict
  BY DEF CrashRunner
<1>8. ReviewTypeOK'
  BY <1>5, <1>6, <1>7 DEF RoundsInv, ReviewTypeOK, DraftRows
<1>9. Restarted(NoReviewTask) = NoReviewTask
  BY DEF Restarted, NoReviewTask
<1>10. ASSUME NEW e \in Drafts
       PROVE  /\ draft'[e].count = draft[e].count
              /\ Unborn(e)' <=> Unborn(e)
              /\ Unborn(e) => draft'[e] = draft[e] /\ review'[e] = review[e]
  <2>1. draft[e] \in DraftRows /\ draft[e].task \in Task
    BY <1>0 DEF DraftRows
  <2>2. draft'[e] = [draft[e] EXCEPT !.task = Restarted(draft[e].task)]
    BY <1>2
  <2>3. draft'[e].count = draft[e].count /\ draft'[e].task = Restarted(draft[e].task)
    BY <2>1, <2>2 DEF DraftRows
  <2>4. draft'[e].task.status = "absent" <=> draft[e].task.status = "absent"
    BY <2>3 DEF Restarted
  <2>5. ASSUME Unborn(e) PROVE draft'[e] = draft[e] /\ review'[e] = review[e]
    <3>1. draft[e].task = NoReviewTask /\ \A r \in Reviewers : review[e][r] = NoReviewTask
      BY <2>5 DEF RoundsInv, UnbornOK, NewDraft
    <3>2. draft'[e] = draft[e]
      BY <1>9, <2>1, <2>2, <3>1 DEF DraftRows
    <3>3. review'[e] = [r \in Reviewers |-> NoReviewTask]
      <4>1. review'[e] = [r \in Reviewers |-> Restarted(review[e][r])]
        BY <1>2
      <4>2. \A r \in Reviewers : Restarted(review[e][r]) = NoReviewTask
        BY <1>9, <3>1
      <4> QED  BY <4>1, <4>2
    <3>4. review[e] = [r \in Reviewers |-> NoReviewTask]
      BY <1>0, <3>1
    <3> QED  BY <3>2, <3>3, <3>4
  <2> QED  BY <2>3, <2>4, <2>5 DEF Unborn
<1> QED  BY <1>8, <1>10, RoundsStay

(* The step of one draft leaves the rounds as they are.                    *)
LEMMA DraftRounds ==
    ASSUME RoundsInv, NEW d \in Drafts, NEW k, StepOfDraft(d, k), reviewUpsets' \in 0..MaxReviewUpsets
    PROVE  RoundsInv'
<1>1. ReviewTypeOK'
  BY DEF StepOfDraft, RoundsInv, ReviewTypeOK, DraftRows
<1>2. \A e \in Drafts : /\ draft'[e].count = draft[e].count
                        /\ Unborn(e)' <=> Unborn(e)
                        /\ Unborn(e) => draft'[e] = draft[e] /\ review'[e] = review[e]
  BY DEF StepOfDraft, DraftGets, Unborn
<1> QED  BY <1>1, <1>2, RoundsStay

(* The step of one review leaves the rounds as they are.                   *)
LEMMA ReviewRounds ==
    ASSUME RoundsInv, NEW d \in Drafts, NEW r \in Reviewers, NEW k, StepOfReview(d, r, k),
           reviewUpsets' \in 0..MaxReviewUpsets
    PROVE  RoundsInv'
<1>1. ReviewTypeOK'
  BY DEF StepOfReview, RoundsInv, ReviewTypeOK
<1>2. ~Unborn(d)
  BY DEF StepOfReview, RoundsInv, UnbornOK
<1>3. \A e \in Drafts : /\ draft'[e].count = draft[e].count
                        /\ Unborn(e)' <=> Unborn(e)
                        /\ Unborn(e) => draft'[e] = draft[e] /\ review'[e] = review[e]
  BY <1>2 DEF StepOfReview, ReviewGets, Unborn
<1> QED  BY <1>1, <1>3, RoundsStay

(* A revision is one round further than its draft, and later.              *)
LEMMA RevisionRounds ==
    ASSUME ReviewAssumption, RoundsInv, ReviewTypeOK', NEW d \in Drafts, NEW r \in Reviewers,
           NEW n \in Drafts, Revises(d, r, n), draft[d].count + 1 <= ChainLimit, d < n,
           \A e \in Drafts : Unborn(e) => n <= e, ~Unborn(d),
           \A e \in Drafts \ {d} : review'[e] = review[e]
    PROVE  RoundsInv'
<1>0. draft \in [Drafts -> DraftRows] /\ Drafts \subseteq Nat
  BY DraftNumbers DEF RoundsInv, ReviewTypeOK, DraftRows
<1>1. draft[d] \in DraftRows /\ draft[d].count \in Nat /\ CountOK(d)
  BY <1>0, DraftNumbers DEF DraftRows, RoundsInv
<1>2. draft'[d].count = draft[d].count /\ draft'[d].task = draft[d].task
  BY <1>1 DEF Revises, DraftRows
<1>3. draft'[n].count = draft[d].count + 1 /\ ~Unborn(n)'
  BY DEF Revises, NewDraft, NewTask, Unborn
<1>4. \A e \in Drafts \ {d, n} : draft'[e] = draft[e]
  BY DEF Revises
<1>5. ASSUME NEW e \in Drafts PROVE CountOK(e)'
  <2>1. CASE e = n
    <3>1. draft[d].count + 1 < n
      BY <1>0, <1>1 DEF CountOK
    <3> QED  BY <2>1, <3>1, <1>3 DEF CountOK, ChainLimit
  <2>2. CASE e # n
    <3>1. CountOK(e) /\ draft'[e].count = draft[e].count
      BY <1>2, <1>4, <2>2 DEF RoundsInv
    <3> QED  BY <3>1 DEF CountOK, ChainLimit
  <2> QED  BY <2>1, <2>2
<1>6. ASSUME NEW e \in Drafts, Unborn(e)'
      PROVE  Unborn(e) /\ e # d /\ e # n /\ draft'[e] = draft[e] /\ review'[e] = review[e]
  <2>1. e # n /\ e # d
    BY <1>2, <1>3, <1>6 DEF Unborn
  <2> QED  BY <1>4, <1>6, <2>1 DEF Unborn
<1>7. ASSUME NEW e \in Drafts, Unborn(e)', NEW f \in Drafts, f > e PROVE Unborn(f)'
  <2>1. Unborn(e) /\ e # n
    BY <1>6, <1>7
  <2>2. Unborn(f)
    BY <1>7, <2>1 DEF RoundsInv, UnbornOK
  <2>3. n <= e
    BY <2>1
  <2>4. f # n /\ f # d
    BY <1>0, <1>7, <2>2, <2>3
  <2> QED  BY <1>4, <2>2, <2>4 DEF Unborn
<1>8. ASSUME NEW e \in Drafts PROVE UnbornOK(e)'
  <2> SUFFICES ASSUME Unborn(e)' PROVE UnbornOK(e)'
    BY DEF UnbornOK
  <2>1. Unborn(e) /\ draft'[e] = draft[e] /\ review'[e] = review[e]
    BY <1>6
  <2>2. UnbornOK(e)
    BY DEF RoundsInv
  <2>3. draft'[e] = [NewDraft(0, 0) EXCEPT !.task = NoReviewTask]
        /\ \A s \in Reviewers : review'[e][s] = NoReviewTask
    BY <2>1, <2>2 DEF UnbornOK
  <2>4. \A f \in Drafts : f > e => Unborn(f)'
    BY <1>7
  <2> QED  BY <2>3, <2>4 DEF UnbornOK
<1> QED  BY <1>5, <1>8 DEF RoundsInv

(* Every step keeps the rounds in order.                                   *)
LEMMA StepRounds ==
    ASSUME ReviewAssumption, RoundsInv, [ReviewNext]_reviewVars
    PROVE  RoundsInv'
<1>0. Tables /\ reviewUpsets \in 0..MaxReviewUpsets /\ MaxReviewUpsets \in Nat
  BY DEF RoundsInv, ReviewTypeOK, Tables, DraftRows, ReviewAssumption
<1>up. ASSUME NEW h, ReviewUpset(h) PROVE reviewUpsets' \in 0..MaxReviewUpsets
  BY <1>0, <1>up DEF ReviewUpset
<1>1. ASSUME NEW d \in Drafts, ClaimDraft(d) \/ FinishDraft(d) \/ FailDraft(d) \/ CancelDraft(d)
      PROVE  RoundsInv'
  <2>1. UnbornOK(d)
    BY DEF RoundsInv
  <2>2. \E k : StepOfDraft(d, k)
    BY <1>0, <1>1, <2>1, DraftSteps
  <2>3. reviewUpsets' \in 0..MaxReviewUpsets
    BY <1>0, <1>1, <1>up DEF ClaimDraft, FinishDraft, FailDraft, CancelDraft
  <2> QED  BY <2>2, <2>3, DraftRounds
<1>2. ASSUME NEW d \in Drafts, AskForReview(d) PROVE RoundsInv'
  <2>1. /\ ~Unborn(d) /\ ReviewTypeOK'
        /\ draft'[d].task = [status |-> draft[d].task.status, at |-> "idle"]
        /\ draft'[d].count = draft[d].count
        /\ \A e \in Drafts \ {d} : draft'[e] = draft[e] /\ review'[e] = review[e]
    BY <1>2, AskStep
  <2>3. draft'[d].count = draft[d].count /\ draft'[d].task.status = draft[d].task.status
    BY <2>1
  <2>4. \A e \in Drafts : /\ draft'[e].count = draft[e].count
                          /\ Unborn(e)' <=> Unborn(e)
                          /\ Unborn(e) => draft'[e] = draft[e] /\ review'[e] = review[e]
    BY <2>1, <2>3 DEF Unborn
  <2> QED  BY <2>1, <2>4, RoundsStay
<1>3. ASSUME NEW d \in Drafts, NEW r \in Reviewers,
             ClaimReview(d, r) \/ FinishReview(d, r) \/ LookAtGroup(d, r) \/ FailReview(d, r) \/ CancelReview(d, r)
      PROVE  RoundsInv'
  <2>1. \E k : StepOfReview(d, r, k)
    BY <1>0, <1>3, ReviewSteps
  <2>2. reviewUpsets' \in 0..MaxReviewUpsets
    BY <1>0, <1>3, <1>up DEF ClaimReview, FinishReview, LookAtGroup, FailReview, CancelReview
  <2> QED  BY <2>1, <2>2, ReviewRounds
<1>4. ASSUME NEW d \in Drafts, NEW r \in Reviewers, NEW v, Apply(d, r, v) PROVE RoundsInv'
  <2>1. /\ review[d][r].at = "assessing" /\ ~Unborn(d) /\ ReviewTypeOK'
        /\ ReviewGets(d, r, [status |-> review[d][r].status, at |-> "idle"])
        /\ \/ draft' = draft
           \/ \E n \in Drafts : /\ Revises(d, r, n) /\ draft[d].count + 1 <= ChainLimit /\ d < n
                                /\ \A e \in Drafts : Unborn(e) => n <= e
    BY <1>4, ApplyStep
  <2>2. \A e \in Drafts \ {d} : review'[e] = review[e]
    BY <2>1 DEF ReviewGets
  <2>3. CASE draft' = draft
    <3>1. \A e \in Drafts : /\ draft'[e].count = draft[e].count
                            /\ Unborn(e)' <=> Unborn(e)
                            /\ Unborn(e) => draft'[e] = draft[e] /\ review'[e] = review[e]
      BY <2>1, <2>2, <2>3 DEF Unborn
    <3> QED  BY <2>1, <3>1, RoundsStay
  <2>4. CASE draft' # draft
    BY <2>1, <2>2, <2>4, RevisionRounds
  <2> QED  BY <2>3, <2>4
<1>5. CASE CrashRunner
  <2>1. reviewUpsets' \in 0..MaxReviewUpsets
    BY <1>5, <1>up DEF CrashRunner
  <2> QED  BY <1>5, <2>1, CrashStep
<1>6. CASE UNCHANGED reviewVars
  <2>1. draft' = draft /\ review' = review /\ verdict' = verdict /\ reviewUpsets' = reviewUpsets
    BY <1>6 DEF reviewVars
  <2> QED  BY <2>1 DEF RoundsInv, ReviewTypeOK, UnbornOK, CountOK, Unborn, ChainLimit
<1>7. CASE Reviewing
  BY <1>1, <1>2, <1>3, <1>4, <1>7 DEF Reviewing, DraftStep, ReviewStep
<1>8. CASE \E d \in Drafts : CancelDraft(d) \/ \E r \in Reviewers : FailReview(d, r) \/ CancelReview(d, r)
  BY <1>1, <1>3, <1>8
<1> QED  BY <1>5, <1>6, <1>7, <1>8 DEF ReviewNext

(* The first draft is the only one at the start.                           *)
LEMMA InitRounds ==
    ASSUME ReviewAssumption, ReviewInit
    PROVE  RoundsInv
<1>0. Cardinality(Drafts) \in Nat /\ Drafts \subseteq Nat /\ 0 \notin Drafts /\ ChainLimit \in Nat
      /\ MaxReviewUpsets \in Nat
  BY DraftNumbers DEF ReviewAssumption
<1>1. NewTask \in Task /\ NoReviewTask \in Task /\ NewTask.status # "absent" /\ NoReviewTask.status = "absent"
  BY DEF NewTask, NoReviewTask, Task, Status, Place
<1> DEFINE none == [NewDraft(0, 0) EXCEPT !.task = NoReviewTask]
<1>2. /\ NewDraft(0, 0) \in DraftRows /\ none \in DraftRows
      /\ NewDraft(0, 0).task = NewTask /\ NewDraft(0, 0).count = 0 /\ none.task = NoReviewTask
      /\ none.count = 0
  <2>1. /\ NewDraft(0, 0) \in DraftRows
        /\ NewDraft(0, 0).task = NewTask /\ NewDraft(0, 0).count = 0
    BY <1>0, <1>1 DEF NewDraft, DraftRows
  <2>2. ASSUME NEW row \in DraftRows
        PROVE  /\ [row EXCEPT !.task = NoReviewTask] \in DraftRows
               /\ [row EXCEPT !.task = NoReviewTask].task = NoReviewTask
               /\ [row EXCEPT !.task = NoReviewTask].count = row.count
    BY <1>1 DEF DraftRows
  <2> QED  BY <2>1, <2>2
<1>3. \A e \in Drafts : draft[e] = IF e = 1 THEN NewDraft(0, 0) ELSE none
  BY DEF ReviewInit
<1>4. draft \in [Drafts -> DraftRows]
  BY <1>2 DEF ReviewInit
<1>5. review \in [Drafts -> [Reviewers -> Task]]
      /\ \A e \in Drafts, s \in Reviewers : review[e][s] = NoReviewTask
  BY <1>1 DEF ReviewInit
<1>6. ReviewTypeOK
  BY <1>0, <1>4, <1>5 DEF ReviewTypeOK, ReviewInit, DraftRows
<1> HIDE DEF none
<1>7. \A e \in Drafts : Unborn(e) <=> e # 1
  BY <1>1, <1>2, <1>3 DEF Unborn
<1>8. ASSUME NEW e \in Drafts PROVE CountOK(e)
  BY <1>0, <1>2, <1>3 DEF CountOK
<1>9. ASSUME NEW e \in Drafts PROVE UnbornOK(e)
  <2>1. e # 1 => \A f \in Drafts : f > e => f # 1
    BY <1>0
  <2> QED  BY <1>3, <1>5, <1>7, <2>1 DEF UnbornOK, none
<1> QED  BY <1>6, <1>8, <1>9 DEF RoundsInv

(* Drafts, reviews and verdicts stay in their tables.                      *)
THEOREM ReviewTypes ==
    ASSUME ReviewAssumption
    PROVE  ReviewSpec => []ReviewTypeOK
<1>1. ReviewInit => RoundsInv
  BY InitRounds
<1>2. RoundsInv /\ [ReviewNext]_reviewVars => RoundsInv'
  BY StepRounds
<1>3. RoundsInv => ReviewTypeOK
  BY DEF RoundsInv
<1> QED  BY <1>1, <1>2, <1>3, PTL DEF ReviewSpec

(* A chain of revisions ends at the limit of its plan or of the            *)
(* configuration, whatever the models say and whatever goes wrong          *)
(* (resolveMaxIterations and assessReviewQuality).                         *)
THEOREM IterationsAlwaysBounded ==
    ASSUME ReviewAssumption
    PROVE  ReviewSpec => []IterationsAreBounded
<1>1. ReviewInit => RoundsInv
  BY InitRounds
<1>2. RoundsInv /\ [ReviewNext]_reviewVars => RoundsInv'
  BY StepRounds
<1>3. RoundsInv => IterationsAreBounded
  BY DEF RoundsInv, CountOK, IterationsAreBounded, ChainLimit
<1> QED  BY <1>1, <1>2, <1>3, PTL DEF ReviewSpec

(* A draft that keeps its row and its reviews keeps its order.             *)
LEMMA SameDraft ==
    ASSUME NEW e, draft'[e] = draft[e], review'[e] = review[e], SentOnce(e), GroupOK(e)
    PROVE  SentOnce(e)' /\ GroupOK(e)'
<1>1. SentOnce(e)'
  BY DEF SentOnce
<1>2. GroupOK(e)'
  BY DEF GroupOK
<1> QED  BY <1>1, <1>2

(* Where nobody gets a parent or a revision, nobody gets a second one.     *)
LEMMA SameChildren ==
    ASSUME NEW e \in Drafts, OneChild(e), draft'[e].revised = draft[e].revised,
           \A m \in Drafts : draft'[m].parent = draft[m].parent
    PROVE  OneChild(e)'
BY DEF OneChild

(* A draft is claimed, ends or fails.                                      *)
LEMMA CalmDraft ==
    ASSUME CalmAll, Tables, NEW d \in Drafts, NEW k, StepOfDraft(d, k),
           \/ draft[d].task = NewTask /\ k = [status |-> "running", at |-> "working"]
           \/ draft[d].task.at = "working" /\ k = [status |-> "completed", at |-> "written"]
           \/ draft[d].task.at = "working" /\ k = [status |-> "failed", at |-> "idle"]
    PROVE  CalmAll'
<1>1. /\ draft'[d].task = k /\ draft'[d].count = draft[d].count /\ draft'[d].parent = draft[d].parent
      /\ draft'[d].asked = draft[d].asked /\ draft'[d].revised = draft[d].revised
      /\ review' = review
      /\ \A e \in Drafts \ {d} : draft'[e] = draft[e]
  BY DEF StepOfDraft, DraftGets
<1>2. SentOnce(d) /\ GroupOK(d)
  BY DEF CalmAll
<1>3. ~draft[d].revised /\ \A r \in Reviewers : review[d][r] = NoReviewTask
  <2>1. draft[d].task.status # "completed"
    BY <1>2 DEF SentOnce, NewTask
  <2> QED  BY <1>2, <2>1 DEF SentOnce
<1>4. SentOnce(d)'
  BY <1>1, <1>3 DEF SentOnce
<1>5. GroupOK(d)'
  BY <1>1, <1>2 DEF GroupOK
<1>6. ASSUME NEW e \in Drafts PROVE SentOnce(e)' /\ GroupOK(e)'
  BY <1>1, <1>4, <1>5, SameDraft DEF CalmAll
<1>7. ASSUME NEW e \in Drafts PROVE OneChild(e)'
  <2>1. OneChild(e) /\ draft'[e].revised = draft[e].revised
    BY <1>1 DEF CalmAll
  <2>2. \A m \in Drafts : draft'[m].parent = draft[m].parent
    BY <1>1
  <2> QED  BY <2>1, <2>2, SameChildren
<1> QED  BY <1>6, <1>7 DEF CalmAll

(* A draft is sent to its reviewers.                                       *)
LEMMA CalmAsk ==
    ASSUME CalmAll, RoundsInv, NEW d \in Drafts, AskForReview(d)
    PROVE  CalmAll'
<1>1. /\ draft[d].task.at = "written"
      /\ draft'[d].task = [status |-> draft[d].task.status, at |-> "idle"]
      /\ draft'[d].asked = ReviewersOf(d)
      /\ draft'[d].parent = draft[d].parent /\ draft'[d].revised = draft[d].revised
      /\ \A e \in Drafts \ {d} : draft'[e] = draft[e] /\ review'[e] = review[e]
  BY AskStep
<1>2. \A r \in Reviewers : review'[d][r] = IF r \in ReviewersOf(d) THEN NewTask ELSE review[d][r]
  BY AskStep
<1>3. SentOnce(d)
  BY DEF CalmAll
<1>4. draft[d].task.status = "completed" /\ ~draft[d].revised
      /\ \A r \in Reviewers : review[d][r] = NoReviewTask
  BY <1>1, <1>3 DEF SentOnce
<1>5. SentOnce(d)'
  BY <1>1, <1>4 DEF SentOnce
<1>6. ASSUME NEW r \in Reviewers
      PROVE  review'[d][r].at = "idle" /\ (r \notin draft'[d].asked => review'[d][r] = NoReviewTask)
  BY <1>1, <1>2, <1>4 DEF NewTask, NoReviewTask
<1>7. ~draft'[d].revised
  BY <1>1, <1>4
<1>8. GroupOK(d)'
  BY <1>6, <1>7 DEF GroupOK
<1>9. ASSUME NEW e \in Drafts PROVE SentOnce(e)' /\ GroupOK(e)'
  BY <1>1, <1>5, <1>8, SameDraft DEF CalmAll
<1>10. ASSUME NEW e \in Drafts PROVE OneChild(e)'
  <2>1. OneChild(e) /\ draft'[e].revised = draft[e].revised
    BY <1>1 DEF CalmAll
  <2>2. \A m \in Drafts : draft'[m].parent = draft[m].parent
    BY <1>1
  <2> QED  BY <2>1, <2>2, SameChildren
<1> QED  BY <1>9, <1>10 DEF CalmAll

(* What a review does to its group, when it does not revise the draft.     *)
ReviewMoves(d, r, k) ==
    \/ review[d][r] = NewTask /\ k = [status |-> "running", at |-> "working"]
    \/ /\ review[d][r].at = "working" /\ k = [status |-> "completed", at |-> "written"]
       /\ ~OnTheWay(d)
    \/ /\ review[d][r].at = "written" /\ k = [status |-> review[d][r].status, at |-> "assessing"]
       /\ ~draft[d].revised /\ AllDone(d)
    \/ review[d][r].at = "written" /\ k = [status |-> review[d][r].status, at |-> "idle"]
    \/ review[d][r].at = "assessing" /\ k = [status |-> review[d][r].status, at |-> "idle"]

(* A group whose review moves keeps its order.                             *)
LEMMA CalmGroup ==
    ASSUME Tables, NEW d \in Drafts, NEW r \in Reviewers, NEW k, GroupOK(d), ReviewMoves(d, r, k),
           ReviewGets(d, r, k), draft' = draft, review[d][r] # NoReviewTask
    PROVE  GroupOK(d)'
<1>1. review'[d][r] = k /\ \A s \in Reviewers \ {r} : review'[d][s] = review[d][s]
  BY DEF ReviewGets
<1>2. r \in draft[d].asked
  BY DEF GroupOK
<1>3. CASE review[d][r] = NewTask /\ k = [status |-> "running", at |-> "working"]
  <2>1. ~draft[d].revised /\ \A s \in Reviewers : review[d][s].at # "assessing"
    BY <1>3 DEF GroupOK, NewTask
  <2> QED  BY <1>1, <1>2, <1>3, <2>1 DEF GroupOK
<1>4. CASE /\ review[d][r].at = "working" /\ k = [status |-> "completed", at |-> "written"]
           /\ ~OnTheWay(d)
  <2>1. review[d][r].status = "running"
    BY <1>4 DEF GroupOK
  <2>2. ~draft[d].revised /\ \A s \in Reviewers : review[d][s].at # "assessing" /\ review[d][s].at # "written"
    BY <1>4, <2>1 DEF GroupOK, OnTheWay
  <2> QED  BY <1>1, <1>2, <1>4, <2>2 DEF GroupOK
<1>5. CASE /\ review[d][r].at = "written" /\ k = [status |-> review[d][r].status, at |-> "assessing"]
           /\ ~draft[d].revised /\ AllDone(d)
  <2>1. review[d][r].status = "completed"
    BY <1>5 DEF GroupOK
  <2>2. ASSUME NEW s \in Reviewers PROVE review[d][s].status \notin {"queued", "running"}
    <3>1. CASE s \in draft[d].asked
      BY <1>5, <3>1 DEF AllDone
    <3>2. CASE s \notin draft[d].asked
      BY <3>2 DEF GroupOK, NoReviewTask
    <3> QED  BY <3>1, <3>2
  <2>3. ASSUME NEW s \in Reviewers, s # r PROVE review[d][s].at = "idle"
    <3>0. review[d][s].at \in Place
      BY DEF Tables, Task
    <3>1. review[d][s].at # "working"
      BY <2>2 DEF GroupOK
    <3>2. review[d][s].at # "written"
      BY <1>5, <2>3 DEF GroupOK
    <3>3. review[d][s].at # "assessing"
      BY <1>5, <2>3 DEF GroupOK
    <3> QED  BY <3>0, <3>1, <3>2, <3>3 DEF Place
  <2> QED  BY <1>1, <1>2, <1>5, <2>1, <2>2, <2>3 DEF GroupOK
<1>6. CASE review[d][r].at \in {"written", "assessing"} /\ k = [status |-> review[d][r].status, at |-> "idle"]
  BY <1>1, <1>2, <1>6 DEF GroupOK
<1> QED  BY <1>3, <1>4, <1>5, <1>6 DEF ReviewMoves

(* A review moves and its draft stays as it is.                            *)
LEMMA CalmReview ==
    ASSUME CalmAll, Tables, NEW d \in Drafts, NEW r \in Reviewers, NEW k, ReviewMoves(d, r, k),
           ReviewGets(d, r, k), draft' = draft, review[d][r] # NoReviewTask
    PROVE  CalmAll'
<1>1. GroupOK(d)'
  BY CalmGroup DEF CalmAll
<1>2. SentOnce(d)'
  <2>1. SentOnce(d)
    BY DEF CalmAll
  <2>2. draft[d].task.status = "completed" /\ draft[d].task.at # "written"
    BY <2>1 DEF SentOnce
  <2> QED  BY <2>1, <2>2 DEF SentOnce
<1>3. ASSUME NEW e \in Drafts PROVE SentOnce(e)' /\ GroupOK(e)'
  BY <1>1, <1>2, SameDraft DEF CalmAll, ReviewGets
<1>4. ASSUME NEW e \in Drafts PROVE OneChild(e)'
  BY SameChildren DEF CalmAll
<1> QED  BY <1>3, <1>4 DEF CalmAll

(* A verdict that asks for a revision creates the only one of its draft.   *)
LEMMA CalmRevision ==
    ASSUME ReviewAssumption, CalmAll, RoundsInv, NEW d \in Drafts, NEW r \in Reviewers,
           NEW n \in Drafts, NEW k, Revises(d, r, n), review[d][r].at = "assessing",
           k = [status |-> review[d][r].status, at |-> "idle"], ReviewGets(d, r, k)
    PROVE  CalmAll'
<1>0. draft[d] \in DraftRows /\ Unborn(n) /\ n # d /\ 0 \notin Drafts
  BY DraftNumbers DEF RoundsInv, ReviewTypeOK, DraftRows, Revises
<1>1. /\ draft'[d].task = draft[d].task /\ draft'[d].parent = draft[d].parent
      /\ draft'[d].asked = draft[d].asked /\ draft'[d].revised = TRUE
  BY <1>0 DEF Revises, DraftRows
<1>2. /\ draft'[n].task = NewTask /\ draft'[n].parent = d
      /\ draft'[n].asked = {} /\ draft'[n].revised = FALSE
  BY DEF Revises, NewDraft
<1>3. /\ \A e \in Drafts \ {d, n} : draft'[e] = draft[e]
      /\ \A e \in Drafts \ {d} : review'[e] = review[e]
      /\ review'[d][r] = k /\ \A s \in Reviewers \ {r} : review'[d][s] = review[d][s]
  BY DEF Revises, ReviewGets
<1>4. SentOnce(d) /\ GroupOK(d) /\ OneChild(d)
  BY DEF CalmAll
<1>5. ~draft[d].revised /\ r \in draft[d].asked
  BY <1>4 DEF GroupOK, NoReviewTask
<1>6. SentOnce(d)'
  <2>1. draft[d].task.status = "completed" /\ draft[d].task.at # "written"
    BY <1>4 DEF SentOnce, NoReviewTask
  <2> QED  BY <1>1, <1>4, <2>1 DEF SentOnce
<1>7. GroupOK(d)'
  <2>1. \A s \in Reviewers : review[d][s].status \notin {"queued", "running"}
    BY <1>4 DEF GroupOK
  <2>2. \A s \in Reviewers : review'[d][s].status = review[d][s].status /\ review'[d][s].at = "idle"
    BY <1>3, <1>4 DEF GroupOK
  <2>3. \A s \in Reviewers : s \notin draft'[d].asked => review'[d][s] = NoReviewTask
    BY <1>1, <1>3, <1>4, <1>5 DEF GroupOK
  <2> QED  BY <2>1, <2>2, <2>3 DEF GroupOK
<1>8. /\ \A s \in Reviewers : review'[n][s] = NoReviewTask
      /\ draft[n].revised = FALSE /\ draft[n].parent = 0
  BY <1>0, <1>3 DEF RoundsInv, UnbornOK, NewDraft
<1>9. SentOnce(n)'
  BY <1>2, <1>8 DEF SentOnce, NewTask
<1>10. GroupOK(n)'
  BY <1>2, <1>8 DEF GroupOK, NoReviewTask
<1>11. ASSUME NEW e \in Drafts PROVE SentOnce(e)' /\ GroupOK(e)'
  BY <1>3, <1>6, <1>7, <1>9, <1>10, SameDraft DEF CalmAll
<1>12. \A m \in Drafts \ {n} : draft'[m].parent = draft[m].parent
  BY <1>1, <1>3
<1>13. \A m \in Drafts : draft[m].parent # d /\ draft[m].parent # n
  BY <1>4, <1>5, <1>8 DEF CalmAll, OneChild
<1>14. ASSUME NEW e \in Drafts, NEW m \in Drafts, NEW l \in Drafts,
              draft'[m].parent = e, draft'[l].parent = e
       PROVE  draft'[e].revised /\ m = l
  <2>1. CASE e = d
    <3>1. m = n /\ l = n
      BY <1>12, <1>13, <1>14, <2>1
    <3> QED  BY <1>1, <2>1, <3>1
  <2>2. CASE e # d
    <3>1. m # n /\ l # n
      BY <1>2, <1>14, <2>2
    <3>2. draft[m].parent = e /\ draft[l].parent = e /\ e # n
      BY <1>12, <1>13, <1>14, <3>1
    <3>3. draft[e].revised /\ m = l
      BY <3>2 DEF CalmAll, OneChild
    <3> QED  BY <1>3, <2>2, <3>2, <3>3
  <2> QED  BY <2>1, <2>2
<1>15. ASSUME NEW e \in Drafts PROVE OneChild(e)'
  BY <1>14 DEF OneChild
<1> QED  BY <1>11, <1>15 DEF CalmAll

(* As long as nothing goes wrong, every step keeps the order of the        *)
(* groups.                                                                 *)
LEMMA StepCalm ==
    ASSUME ReviewAssumption, RoundsInv, UnhinderedInv, [ReviewNext]_reviewVars
    PROVE  UnhinderedInv'
<1>0. Tables /\ reviewUpsets \in 0..MaxReviewUpsets /\ MaxReviewUpsets \in Nat
  BY DEF RoundsInv, ReviewTypeOK, Tables, DraftRows, ReviewAssumption
<1>1. ASSUME NEW h, ReviewUpset(h) PROVE UnhinderedInv'
  <2>1. reviewUpsets' = reviewUpsets - 1
    BY <1>1 DEF ReviewUpset
  <2>2. reviewUpsets' # MaxReviewUpsets
    BY <1>0, <2>1
  <2> QED  BY <2>2 DEF UnhinderedInv, Unhindered
<1>calm. ASSUME reviewUpsets' = reviewUpsets, CalmAll => CalmAll' PROVE UnhinderedInv'
  BY <1>calm DEF UnhinderedInv, Unhindered
<1>2. ASSUME NEW d \in Drafts, ClaimDraft(d) \/ FinishDraft(d) \/ FailDraft(d) PROVE UnhinderedInv'
  <2>1. UnbornOK(d) /\ reviewUpsets' = reviewUpsets
    BY <1>2 DEF RoundsInv, ClaimDraft, FinishDraft, FailDraft
  <2>2. CASE ClaimDraft(d)
    <3>1. draft[d].task = NewTask /\ StepOfDraft(d, [status |-> "running", at |-> "working"])
      BY <1>0, <2>1, <2>2, DraftSteps DEF ClaimDraft
    <3>2. CalmAll => CalmAll'
      BY <1>0, <3>1, CalmDraft
    <3> QED  BY <1>calm, <2>1, <3>2
  <2>3. CASE FinishDraft(d)
    <3>1. draft[d].task.at = "working" /\ StepOfDraft(d, [status |-> "completed", at |-> "written"])
      BY <1>0, <2>1, <2>3, DraftSteps DEF FinishDraft
    <3>2. CalmAll => CalmAll'
      BY <1>0, <3>1, CalmDraft
    <3> QED  BY <1>calm, <2>1, <3>2
  <2>4. CASE FailDraft(d)
    <3>1. draft[d].task.at = "working" /\ StepOfDraft(d, [status |-> "failed", at |-> "idle"])
      BY <1>0, <2>1, <2>4, DraftSteps DEF FailDraft
    <3>2. CalmAll => CalmAll'
      BY <1>0, <3>1, CalmDraft
    <3> QED  BY <1>calm, <2>1, <3>2
  <2> QED  BY <1>2, <2>2, <2>3, <2>4
<1>3. ASSUME NEW d \in Drafts, AskForReview(d) PROVE UnhinderedInv'
  <2>1. reviewUpsets' = reviewUpsets
    BY <1>3 DEF AskForReview
  <2> QED  BY <1>3, <1>calm, <2>1, CalmAsk
<1>4. ASSUME NEW d \in Drafts, NEW r \in Reviewers, ClaimReview(d, r) PROVE UnhinderedInv'
  <2>1. reviewUpsets' = reviewUpsets /\ review[d][r] = NewTask
    BY <1>4 DEF ClaimReview
  <2> DEFINE k == [status |-> "running", at |-> "working"]
  <2>2. StepOfReview(d, r, k)
    BY <1>0, <1>4, ReviewSteps
  <2>3. ReviewMoves(d, r, k)
    BY <2>1 DEF ReviewMoves
  <2> HIDE DEF k
  <2>4. CalmAll => CalmAll'
    BY <1>0, <2>2, <2>3, CalmReview DEF StepOfReview
  <2> QED  BY <1>calm, <2>1, <2>4
<1>5. ASSUME NEW d \in Drafts, NEW r \in Reviewers, FinishReview(d, r) PROVE UnhinderedInv'
  <2>1. CASE OnTheWay(d)
    BY <1>1, <1>5, <2>1 DEF FinishReview
  <2>2. CASE ~OnTheWay(d)
    <3>1. reviewUpsets' = reviewUpsets /\ review[d][r].at = "working"
      BY <1>5, <2>2 DEF FinishReview
    <3> DEFINE k == [status |-> "completed", at |-> "written"]
    <3>2. StepOfReview(d, r, k)
      BY <1>0, <1>5, ReviewSteps
    <3>3. ReviewMoves(d, r, k)
      BY <2>2, <3>1 DEF ReviewMoves
    <3> HIDE DEF k
    <3>4. CalmAll => CalmAll'
      BY <1>0, <3>2, <3>3, CalmReview DEF StepOfReview
    <3> QED  BY <1>calm, <3>1, <3>4
  <2> QED  BY <2>1, <2>2
<1>6. ASSUME NEW d \in Drafts, NEW r \in Reviewers, LookAtGroup(d, r) PROVE UnhinderedInv'
  <2>1. reviewUpsets' = reviewUpsets /\ review[d][r].at = "written"
    BY <1>6 DEF LookAtGroup
  <2>2. PICK at \in {"assessing", "idle"} :
           /\ StepOfReview(d, r, [status |-> review[d][r].status, at |-> at])
           /\ at = "assessing" => ~draft[d].revised /\ AllDone(d)
    BY <1>0, <1>6, ReviewSteps
  <2> DEFINE k == [status |-> review[d][r].status, at |-> at]
  <2>3. ReviewMoves(d, r, k)
    BY <2>1, <2>2 DEF ReviewMoves
  <2>4. StepOfReview(d, r, k)
    BY <2>2
  <2> HIDE DEF k
  <2>5. CalmAll => CalmAll'
    BY <1>0, <2>3, <2>4, CalmReview DEF StepOfReview
  <2> QED  BY <1>calm, <2>1, <2>5
<1>7. ASSUME NEW d \in Drafts, NEW r \in Reviewers, NEW v, Apply(d, r, v) PROVE UnhinderedInv'
  <2> DEFINE k == [status |-> review[d][r].status, at |-> "idle"]
  <2>1. /\ review[d][r].at = "assessing" /\ reviewUpsets' = reviewUpsets /\ ReviewGets(d, r, k)
        /\ draft' = draft \/ \E n \in Drafts : Revises(d, r, n)
    BY <1>7, ApplyStep
  <2>2. ReviewMoves(d, r, k) /\ review[d][r] # NoReviewTask
    BY <2>1 DEF ReviewMoves, NoReviewTask
  <2>3. CASE draft' = draft
    <3>1. CalmAll => CalmAll'
      BY <1>0, <2>1, <2>2, <2>3, CalmReview
    <3> QED  BY <1>calm, <2>1, <3>1
  <2>4. ASSUME NEW n \in Drafts, Revises(d, r, n) PROVE UnhinderedInv'
    <3>1. CalmAll => CalmAll'
      BY <2>1, <2>4, CalmRevision
    <3> QED  BY <1>calm, <2>1, <3>1
  <2> QED  BY <2>1, <2>3, <2>4
<1>8. CASE CrashRunner
  BY <1>1, <1>8 DEF CrashRunner
<1>9. CASE \E d \in Drafts : CancelDraft(d) \/ \E r \in Reviewers : FailReview(d, r) \/ CancelReview(d, r)
  BY <1>1, <1>9 DEF CancelDraft, FailReview, CancelReview
<1>10. CASE UNCHANGED reviewVars
  <2>1. draft' = draft /\ review' = review /\ reviewUpsets' = reviewUpsets
    BY <1>10 DEF reviewVars
  <2>2. ASSUME CalmAll, NEW e \in Drafts PROVE SentOnce(e)' /\ GroupOK(e)' /\ OneChild(e)'
    BY <2>1, <2>2, SameDraft, SameChildren DEF CalmAll
  <2>3. CalmAll => CalmAll'
    BY <2>2 DEF CalmAll
  <2> QED  BY <1>calm, <2>1, <2>3
<1>11. CASE Reviewing
  BY <1>2, <1>3, <1>4, <1>5, <1>6, <1>7, <1>11 DEF Reviewing, DraftStep, ReviewStep
<1> QED  BY <1>8, <1>9, <1>10, <1>11 DEF ReviewNext

(* At the start nothing has been reviewed.                                 *)
LEMMA InitCalm ==
    ASSUME ReviewAssumption, ReviewInit
    PROVE  UnhinderedInv
<1>1. RoundsInv /\ 0 \notin Drafts
  BY InitRounds, DraftNumbers
<1>2. \A e \in Drafts, s \in Reviewers : review[e][s] = NoReviewTask
  BY DEF ReviewInit
<1>3. ASSUME NEW e \in Drafts
      PROVE  /\ draft[e].task \in {NewTask, NoReviewTask} /\ draft[e].parent = 0
             /\ draft[e].revised = FALSE
  <2>1. CASE e = 1
    BY <2>1 DEF ReviewInit, NewDraft
  <2>2. CASE e # 1
    <3>1. draft[e] = [NewDraft(0, 0) EXCEPT !.task = NoReviewTask]
      BY <2>2 DEF ReviewInit
    <3> QED  BY <3>1 DEF NewDraft
  <2> QED  BY <2>1, <2>2
<1>4. ASSUME NEW e \in Drafts PROVE SentOnce(e)
  <2>1. draft[e].task.at = "idle" /\ ~draft[e].revised
    <3>1. NewTask.at = "idle" /\ NoReviewTask.at = "idle"
      BY DEF NewTask, NoReviewTask
    <3>2. draft[e].task.at = "idle"
      BY <1>3, <3>1
    <3>3. ~draft[e].revised
      BY <1>3
    <3> QED  BY <3>2, <3>3
  <2> QED  BY <1>2, <2>1 DEF SentOnce
<1>5. ASSUME NEW e \in Drafts PROVE GroupOK(e)
  BY <1>2, <1>3 DEF GroupOK, NoReviewTask
<1>6. ASSUME NEW e \in Drafts PROVE OneChild(e)
  BY <1>1, <1>3 DEF OneChild
<1> QED  BY <1>4, <1>5, <1>6 DEF UnhinderedInv, CalmAll

(* As long as nothing goes wrong, a draft is sent back at most once,       *)
(* however many reviews its group has and however their slots interleave.  *)
THEOREM OneRevisionAlways ==
    ASSUME ReviewAssumption
    PROVE  ReviewSpec => []OneRevision
<1>1. ReviewInit => RoundsInv /\ UnhinderedInv
  BY InitRounds, InitCalm
<1>2. RoundsInv /\ UnhinderedInv /\ [ReviewNext]_reviewVars => RoundsInv' /\ UnhinderedInv'
  BY StepRounds, StepCalm
<1>3. ASSUME UnhinderedInv PROVE OneRevision
  <2> SUFFICES ASSUME Unhindered, NEW d \in Drafts
               PROVE  Cardinality({n \in Drafts : draft[n].parent = d}) <= 1
    BY DEF OneRevision
  <2> DEFINE children == {n \in Drafts : draft[n].parent = d}
  <2>1. \A m, n \in children : m = n
    BY <1>3 DEF UnhinderedInv, CalmAll, OneChild
  <2> HIDE DEF children
  <2>2. children = {} => Cardinality(children) = 0
    BY FS_EmptySet
  <2>3. children # {} => Cardinality(children) = 1
    <3> SUFFICES ASSUME NEW m \in children PROVE Cardinality(children) = 1
      OBVIOUS
    <3>1. children = {m}
      BY <2>1
    <3> QED  BY <3>1, FS_Singleton
  <2>4. Cardinality(children) <= 1
    BY <2>2, <2>3
  <2> QED  BY <2>4 DEF children
<1> QED  BY <1>1, <1>2, <1>3, PTL DEF ReviewSpec

(* A chain of revisions ends at its limit, and a result is sent back once  *)
(* however its reviews overlap.                                            *)
THEOREM ReviewsAlwaysBounded ==
    ASSUME ReviewAssumption
    PROVE  ReviewSpec => []ReviewsAreBounded
<1>1. IterationsAreBounded /\ OneRevision => ReviewsAreBounded
  BY DEF ReviewsAreBounded
<1> QED  BY <1>1, IterationsAlwaysBounded, OneRevisionAlways, PTL

-----------------------------------------------------------------------------
(* Delivery.  What is being synchronised is a task that has ended; without *)
(* a split the tasks are the stages in their order, and one that has been  *)
(* left has a child, or is completed for good; where nothing went wrong    *)
(* the state is the one that belongs to the last task and the step at      *)
(* which the runner is.                                                    *)
SyncInv ==
    /\ IsFiniteSet(met) /\ \A n \in DOMAIN rows : rows[n].root \in DOMAIN rows
    /\ sync.step # "none" => sync.of \in DOMAIN rows
    /\ sync.step = "none" => sync.of = 0
    /\ sync.step = "ended" => rows[sync.of].status \in {"completed", "failed"}
    /\ sync.step \in {"patched", "checked", "created"} =>
          rows[sync.of].status = "completed" /\ HasNext(rows[sync.of].stage)

LineInv ==
    "split" \notin met =>
        /\ \A n \in DOMAIN rows : n <= 4 /\ rows[n].stage = Stages[n] /\ rows[n].root = 1
        /\ \A n \in DOMAIN rows : n < Len(rows) =>
              \/ rows[n].kids
              \/ sync = [of |-> n, step |-> "created"]
              \/ rows[n].status = "completed" /\ rows[n].hands = 0 /\ sync.of # n
        /\ sync.step = "checked" => sync.of = Len(rows)

(* The state while the task of stage i is the one that is worked at.       *)
AtWork(i) ==
    [at |-> Stages[i], status |-> "active", done |-> {Stages[j] : j \in 1..i - 1},
     tested |-> IF i = 4 THEN "verified" ELSE "pending"]

Delivered == [at |-> "delivered", status |-> "completed", done |-> StageNames, tested |-> "verified"]

CalmInv ==
    Calm =>
        LET last == Len(rows)
        IN /\ \A n \in DOMAIN rows : n < last => rows[n].status = "completed" /\ rows[n].hands = 0
           /\ ~rows[last].kids /\ rows[last].status # "cancelled"
           /\ rows[last].hands = IF rows[last].status = "running" THEN 1 ELSE 0
           /\ sync.step = "none" =>
                 /\ rows[last].status \in {"queued", "running", "paused_input"} => state[1] = AtWork(last)
                 /\ rows[last].status = "failed" => state[1] = Blocked(AtWork(last), Stages[last])
                 /\ rows[last].status = "completed" => state[1] = Delivered /\ last = 4
           /\ sync.step = "ended" => sync.of = last /\ state[1] = AtWork(last)
           /\ sync.step \in {"patched", "checked"} => sync.of = last /\ last < 4 /\ state[1] = AtWork(last + 1)
           /\ sync.step = "created" =>
                 rows[last].status = "queued" /\ state[1] = AtWork(last) /\ sync.of = last - 1

DeliveryInv == DeliveryTypeOK /\ SyncInv /\ LineInv /\ CalmInv

-----------------------------------------------------------------------------
(* The stages in their order.                                              *)
LEMMA StagesInOrder ==
    /\ Stages[1] = "prd" /\ Stages[2] = "implementation" /\ Stages[3] = "qa" /\ Stages[4] = "recap"
    /\ StageNames = {"prd", "implementation", "qa", "recap"}
<1>1. Stages[1] = "prd" /\ Stages[2] = "implementation" /\ Stages[3] = "qa" /\ Stages[4] = "recap"
  BY DEF Stages
<1>2. 1..4 = {1, 2, 3, 4}
  OBVIOUS
<1> QED BY <1>1, <1>2, Zenon DEF StageNames

LEMMA PositionOfStage == \A i \in 1..4 : Position(Stages[i]) = i
<1> SUFFICES ASSUME NEW i \in 1..4 PROVE Position(Stages[i]) = i
  OBVIOUS
<1>1. \A j \in 1..4 : Stages[j] = Stages[i] => j = i
  BY StagesInOrder
<1> QED BY <1>1 DEF Position

LEMMA NextOfStage ==
    \A i \in 1..4 : /\ HasNext(Stages[i]) <=> i < 4
                    /\ i < 4 => NextStage(Stages[i]) = Stages[i + 1]
BY PositionOfStage DEF HasNext, NextStage

LEMMA StagesAreNames ==
    ASSUME NEW s \in StageNames
    PROVE  \E i \in 1..4 : s = Stages[i]
BY DEF StageNames

LEMMA NextIsStage ==
    ASSUME NEW s \in StageNames, HasNext(s) PROVE NextStage(s) \in StageNames
<1>1. PICK i \in 1..4 : s = Stages[i]
  BY StagesAreNames
<1>2. i < 4 /\ NextStage(s) = Stages[i + 1] /\ i + 1 \in 1..4
  BY <1>1, NextOfStage
<1> QED BY <1>2 DEF StageNames

(* The patches of the state lead from each stage to the next.              *)
LEMMA ProgressLeadsOn ==
    /\ \A i \in 1..3 : Progressed(AtWork(i), Stages[i]) = AtWork(i + 1)
    /\ Progressed(AtWork(4), Stages[4]) = Delivered
<1>1. ASSUME NEW i \in 1..3 PROVE Progressed(AtWork(i), Stages[i]) = AtWork(i + 1)
  <2>1. HasNext(Stages[i]) /\ NextStage(Stages[i]) = Stages[i + 1]
    BY NextOfStage
  <2>2. {Stages[j] : j \in 1..i - 1} \cup {Stages[i]} = {Stages[j] : j \in 1..(i + 1) - 1}
    OBVIOUS
  <2>3. (IF Stages[i] = "qa" THEN "verified" ELSE IF i = 4 THEN "verified" ELSE "pending")
          = IF i + 1 = 4 THEN "verified" ELSE "pending"
    BY StagesInOrder
  <2> QED BY <2>1, <2>2, <2>3 DEF Progressed, AtWork
<1>2. Progressed(AtWork(4), Stages[4]) = Delivered
  <2>1. ~HasNext(Stages[4])
    BY NextOfStage
  <2>2. {Stages[j] : j \in 1..4 - 1} \cup {Stages[4]} = StageNames
    BY DEF StageNames
  <2>3. Stages[4] # "qa"
    BY StagesInOrder
  <2> QED BY <2>1, <2>2, <2>3 DEF Progressed, AtWork, Delivered
<1> QED BY <1>1, <1>2

LEMMA StatePatches ==
    ASSUME NEW s \in WorkflowStates, NEW g \in StageNames
    PROVE  Progressed(s, g) \in WorkflowStates /\ Blocked(s, g) \in WorkflowStates
<1>1. (IF HasNext(g) THEN NextStage(g) ELSE "delivered") \in StageNames \cup {"delivered"}
  BY NextIsStage
<1>2. Progressed(s, g) \in WorkflowStates
  BY <1>1 DEF Progressed, WorkflowStates
<1>3. Blocked(s, g) \in WorkflowStates
  BY DEF Blocked, WorkflowStates
<1> QED BY <1>2, <1>3

-----------------------------------------------------------------------------
(* One row is written: nothing else changes, and not its stage or root.    *)
LEMMA RowWritten ==
    ASSUME DeliveryTypeOK, NEW n \in DOMAIN rows, NEW r \in StageRows, Set(n, r),
           r.stage = rows[n].stage, r.root = rows[n].root
    PROVE  /\ rows' \in Seq(StageRows) /\ Len(rows') = Len(rows) /\ DOMAIN rows' = DOMAIN rows
           /\ DOMAIN rows = 1..Len(rows) /\ Len(rows) \in Nat \ {0}
           /\ rows'[n] = r /\ \A m \in DOMAIN rows : m # n => rows'[m] = rows[m]
           /\ \A m \in DOMAIN rows : rows'[m].stage = rows[m].stage /\ rows'[m].root = rows[m].root
<1>1. rows \in Seq(StageRows) /\ DOMAIN rows = 1..Len(rows) /\ Len(rows) \in Nat \ {0}
  BY DEF DeliveryTypeOK
<1>2. rows' = [rows EXCEPT ![n] = r]
  BY DEF Set
<1>3. /\ rows' \in Seq(StageRows) /\ Len(rows') = Len(rows)
      /\ \A m \in 1..Len(rows) : rows'[m] = IF m = n THEN r ELSE rows[m]
  BY <1>1, <1>2, ExceptSeq
<1> QED BY <1>1, <1>3

LEMMA RowsAreRows ==
    ASSUME DeliveryTypeOK, NEW n \in DOMAIN rows
    PROVE  rows[n] \in StageRows
BY ElementOfSeq DEF DeliveryTypeOK

(* The steps of a slot, as changes of one row.                             *)
RowStep(n, r) ==
    \/ /\ sync = NoSync /\ rows[n].status = "queued" /\ rows[n].hands < 2
       /\ r = [rows[n] EXCEPT !.status = "running", !.hands = @ + 1] /\ UNCHANGED <<sync, met>>
    \/ /\ sync = NoSync /\ rows[n].hands > 0 /\ rows[n].status = "running"
       /\ r = [rows[n] EXCEPT !.status = "paused_input", !.hands = @ - 1] /\ UNCHANGED <<sync, met>>
    \/ /\ rows[n].status = "paused_input"
       /\ r = [rows[n] EXCEPT !.status = "queued"] /\ UNCHANGED <<sync, met>>
    \/ /\ sync = NoSync /\ rows[n].hands > 0
       /\ \/ r = [rows[n] EXCEPT !.status = "completed", !.hands = @ - 1]
          \/ r = [rows[n] EXCEPT !.status = "failed", !.hands = @ - 1]
       /\ sync' = [of |-> n, step |-> "ended"] /\ UNCHANGED met
    \/ /\ StageTrouble("again") /\ rows[n].status = "running"
       /\ r = [rows[n] EXCEPT !.status = "queued"] /\ UNCHANGED sync
    \/ /\ StageTrouble("cancel") /\ rows[n].status \in {"queued", "running", "paused_input"}
       /\ r = [rows[n] EXCEPT !.status = "cancelled"] /\ UNCHANGED sync
    \/ /\ sync.step = "created" /\ sync.of = n
       /\ r = [rows[n] EXCEPT !.kids = TRUE] /\ sync' = NoSync /\ UNCHANGED met

RowChanges(n, r) == Set(n, r) /\ RowStep(n, r) /\ state' = state /\ questions' \in 0..MaxQuestions

LEMMA StepIsRowStep ==
    ASSUME DeliveryAssumption, DeliveryTypeOK, SyncInv,
           \/ \E n \in DOMAIN rows : Working(n) \/ Again(n) \/ CancelStage(n)
           \/ Relate
    PROVE  \E n \in DOMAIN rows, r \in StageRows :
              RowChanges(n, r) /\ r.stage = rows[n].stage /\ r.root = rows[n].root
<1> USE DEF DeliveryAssumption
<1>0. questions \in 0..MaxQuestions /\ \A n \in DOMAIN rows : rows[n] \in StageRows
  BY RowsAreRows DEF DeliveryTypeOK
<1>1. ASSUME NEW n \in DOMAIN rows, StartStage(n)
      PROVE  \E r \in StageRows : RowChanges(n, r) /\ r.stage = rows[n].stage /\ r.root = rows[n].root
  <2> DEFINE r == [rows[n] EXCEPT !.status = "running", !.hands = @ + 1]
  <2>0. rows[n].hands + 1 \in 0..2 /\ "running" \in TaskStatuses
    BY <1>0, <1>1 DEF StartStage, StageRows, TaskStatuses
  <2>1. r \in StageRows
    BY <1>0, <2>0 DEF StageRows
  <2>2. r.stage = rows[n].stage /\ r.root = rows[n].root
    BY <1>0 DEF StageRows
  <2>3. RowChanges(n, r)
    BY <1>0, <1>1 DEF StartStage, RowChanges, RowStep
  <2> QED BY <2>1, <2>2, <2>3
<1>2. ASSUME NEW n \in DOMAIN rows, AskOwner(n)
      PROVE  \E r \in StageRows : RowChanges(n, r) /\ r.stage = rows[n].stage /\ r.root = rows[n].root
  <2> DEFINE r == [rows[n] EXCEPT !.status = "paused_input", !.hands = @ - 1]
  <2>0. rows[n].hands - 1 \in 0..2 /\ "paused_input" \in TaskStatuses
    BY <1>0, <1>2 DEF AskOwner, StageRows, TaskStatuses
  <2>1. r \in StageRows
    BY <1>0, <2>0 DEF StageRows
  <2>2. r.stage = rows[n].stage /\ r.root = rows[n].root
    BY <1>0 DEF StageRows
  <2>3. RowChanges(n, r)
    BY <1>0, <1>2 DEF AskOwner, RowChanges, RowStep
  <2> QED BY <2>1, <2>2, <2>3
<1>3. ASSUME NEW n \in DOMAIN rows, GetAnswer(n)
      PROVE  \E r \in StageRows : RowChanges(n, r) /\ r.stage = rows[n].stage /\ r.root = rows[n].root
  <2> DEFINE r == [rows[n] EXCEPT !.status = "queued"]
  <2>1. r \in StageRows
    BY <1>0, <1>3 DEF StageRows, TaskStatuses
  <2>2. r.stage = rows[n].stage /\ r.root = rows[n].root
    BY <1>0 DEF StageRows
  <2>3. RowChanges(n, r)
    BY <1>0, <1>3 DEF GetAnswer, RowChanges, RowStep
  <2> QED BY <2>1, <2>2, <2>3
<1>4. ASSUME NEW n \in DOMAIN rows, NEW how \in {"completed", "failed"}, EndStage(n, how)
      PROVE  \E r \in StageRows : RowChanges(n, r) /\ r.stage = rows[n].stage /\ r.root = rows[n].root
  <2> DEFINE r == [rows[n] EXCEPT !.status = how, !.hands = @ - 1]
  <2>0. rows[n].hands - 1 \in 0..2 /\ how \in TaskStatuses
    BY <1>0, <1>4 DEF EndStage, StageRows, TaskStatuses
  <2>1. r \in StageRows
    BY <1>0, <2>0 DEF StageRows
  <2>2. r.stage = rows[n].stage /\ r.root = rows[n].root
    BY <1>0 DEF StageRows
  <2>3. RowChanges(n, r)
    BY <1>0, <1>4 DEF EndStage, RowChanges, RowStep
  <2> QED BY <2>1, <2>2, <2>3
<1>5. ASSUME NEW n \in DOMAIN rows, Again(n)
      PROVE  \E r \in StageRows : RowChanges(n, r) /\ r.stage = rows[n].stage /\ r.root = rows[n].root
  <2> DEFINE r == [rows[n] EXCEPT !.status = "queued"]
  <2>1. r \in StageRows
    BY <1>0, <1>5 DEF StageRows, TaskStatuses
  <2>2. r.stage = rows[n].stage /\ r.root = rows[n].root
    BY <1>0 DEF StageRows
  <2>3. RowChanges(n, r)
    BY <1>0, <1>5 DEF Again, RowChanges, RowStep
  <2> QED BY <2>1, <2>2, <2>3
<1>6. ASSUME NEW n \in DOMAIN rows, CancelStage(n)
      PROVE  \E r \in StageRows : RowChanges(n, r) /\ r.stage = rows[n].stage /\ r.root = rows[n].root
  <2> DEFINE r == [rows[n] EXCEPT !.status = "cancelled"]
  <2>1. r \in StageRows
    BY <1>0, <1>6 DEF StageRows, TaskStatuses
  <2>2. r.stage = rows[n].stage /\ r.root = rows[n].root
    BY <1>0 DEF StageRows
  <2>3. RowChanges(n, r)
    BY <1>0, <1>6 DEF CancelStage, RowChanges, RowStep
  <2> QED BY <2>1, <2>2, <2>3
<1>7. ASSUME Relate
      PROVE  \E n \in DOMAIN rows,
      r \in StageRows : RowChanges(n, r) /\ r.stage = rows[n].stage /\ r.root = rows[n].root
  <2> DEFINE n == sync.of
             r == [rows[n] EXCEPT !.kids = TRUE]
  <2>0. n \in DOMAIN rows
    BY <1>7 DEF Relate, SyncInv
  <2>1. r \in StageRows
    BY <1>0, <2>0 DEF StageRows
  <2>2. r.stage = rows[n].stage /\ r.root = rows[n].root
    BY <1>0, <2>0 DEF StageRows
  <2>3. RowChanges(n, r)
    BY <1>0, <1>7 DEF Relate, RowChanges, RowStep
  <2> QED BY <2>0, <2>1, <2>2, <2>3
<1> QED BY <1>1, <1>2, <1>3, <1>4, <1>5, <1>6, <1>7 DEF Working, CompleteStage, FailStage

LEMMA DeliveryStarts == ASSUME DeliveryAssumption PROVE DeliveryInit => DeliveryInv
<1> SUFFICES ASSUME DeliveryInit PROVE DeliveryInv
  OBVIOUS
<1> USE DEF DeliveryAssumption, DeliveryInit
<1>1. NewRow("prd", 1) \in StageRows /\ NewState \in WorkflowStates
  BY StagesInOrder DEF NewRow, NewState, StageRows, WorkflowStates, TaskStatuses
<1>2. rows \in Seq(StageRows) /\ Len(rows) = 1 /\ DOMAIN rows = 1..1 /\ rows[1] = NewRow("prd", 1)
  BY <1>1
<1>3. state \in Seq(WorkflowStates) /\ Len(state) = 1 /\ state[1] = NewState
  BY <1>1
<1>4. IsFiniteSet(met) /\ Cardinality(met) = 0
  BY FS_EmptySet
<1>5. DeliveryTypeOK
  BY <1>2, <1>3, <1>4 DEF DeliveryTypeOK, NoSync
<1>6. SyncInv
  BY <1>2, <1>4 DEF SyncInv, NoSync, NewRow
<1>7. LineInv
  BY <1>2, StagesInOrder DEF LineInv, NoSync, NewRow
<1>8. NewState = AtWork(1)
  BY StagesInOrder DEF NewState, AtWork
<1>9. CalmInv
  BY <1>2, <1>3, <1>8 DEF CalmInv, NoSync, NewRow
<1> QED BY <1>5, <1>6, <1>7, <1>9 DEF DeliveryInv

-----------------------------------------------------------------------------
LEMMA TroublesAreFew ==
    ASSUME DeliveryAssumption, DeliveryTypeOK, SyncInv, NEW what, StageTrouble(what)
    PROVE  /\ IsFiniteSet(met') /\ met' \subseteq StageTroubles /\ Cardinality(met') <= MaxStageTroubles
           /\ what \in met' /\ met \subseteq met'
<1>1. IsFiniteSet(met') /\ Cardinality(met') = Cardinality(met) + 1
  BY FS_AddElement DEF StageTrouble, SyncInv
<1>2. Cardinality(met) \in Nat
  BY FS_CardinalityType DEF SyncInv
<1> QED BY <1>1, <1>2 DEF StageTrouble, DeliveryTypeOK, DeliveryAssumption

LEMMA RowStepKeepsTypes ==
    ASSUME DeliveryAssumption, DeliveryTypeOK, SyncInv, NEW n \in DOMAIN rows, NEW r \in StageRows,
           RowChanges(n, r), r.stage = rows[n].stage, r.root = rows[n].root
    PROVE  DeliveryTypeOK' /\ SyncInv'
<1>0. /\ rows' \in Seq(StageRows) /\ Len(rows') = Len(rows) /\ DOMAIN rows' = DOMAIN rows
      /\ DOMAIN rows = 1..Len(rows) /\ Len(rows) \in Nat \ {0}
      /\ rows'[n] = r /\ \A m \in DOMAIN rows : m # n => rows'[m] = rows[m]
      /\ \A m \in DOMAIN rows : rows'[m].stage = rows[m].stage /\ rows'[m].root = rows[m].root
  BY RowWritten DEF RowChanges
<1>1. IsFiniteSet(met') /\ met' \subseteq StageTroubles /\ Cardinality(met') <= MaxStageTroubles
  <2>1. met' = met \/ StageTrouble("again") \/ StageTrouble("cancel")
    BY DEF RowChanges, RowStep
  <2> QED BY <2>1, TroublesAreFew DEF DeliveryTypeOK, SyncInv
<1>2. n \in 1..MaxTasks
  BY <1>0 DEF DeliveryTypeOK, DeliveryAssumption
<1>3. /\ sync' \in [of : 0..MaxTasks, step : {"none", "ended", "patched", "checked", "created"}]
      /\ sync' = sync \/ sync' = NoSync \/ sync' = [of |-> n, step |-> "ended"]
  <2>1. sync' = sync \/ sync' = NoSync \/ sync' = [of |-> n, step |-> "ended"]
    BY DEF RowChanges, RowStep
  <2> QED BY <1>2, <2>1 DEF DeliveryTypeOK, NoSync, DeliveryAssumption
<1>4. DeliveryTypeOK'
  BY <1>0, <1>1, <1>3 DEF DeliveryTypeOK, RowChanges
<1>5. SyncInv'
  <2>1. CASE sync' = NoSync
    BY <1>0, <1>1, <2>1 DEF SyncInv, NoSync
  <2>2. CASE sync = NoSync /\ sync' = [of |-> n, step |-> "ended"]
    <3>1. r.status \in {"completed", "failed"}
      <4>1. rows[n] \in StageRows
        BY RowsAreRows
      <4>2. sync # sync' /\ sync.step # "created"
        BY <2>2 DEF NoSync
      <4>3. \/ r = [rows[n] EXCEPT !.status = "completed", !.hands = @ - 1]
            \/ r = [rows[n] EXCEPT !.status = "failed", !.hands = @ - 1]
        BY <4>2 DEF RowChanges, RowStep
      <4> QED BY <4>1, <4>3 DEF StageRows
    <3>2. sync'.of = n /\ sync'.step = "ended"
      BY <2>2
    <3> QED BY <1>0, <1>1, <3>1, <3>2 DEF SyncInv
  <2>3. CASE sync' = sync /\ sync # NoSync
    <3>1. rows[n].status \in {"queued", "running", "paused_input"}
      <4>1. ~(sync = NoSync /\ sync' = [of |-> n, step |-> "ended"])
        BY <2>3
      <4>2. ~(sync' = NoSync)
        BY <2>3
      <4> QED BY <2>3, <4>1, <4>2 DEF RowChanges, RowStep
    <3>2. sync.step # "none" => rows'[sync.of] = rows[sync.of]
      <4> SUFFICES ASSUME sync.step # "none" PROVE sync.of # n
        BY <1>0 DEF SyncInv
      <4>1. rows[sync.of].status \in {"completed", "failed"}
        BY DEF SyncInv, DeliveryTypeOK
      <4> QED BY <3>1, <4>1
    <3> QED BY <1>0, <1>1, <2>3, <3>2 DEF SyncInv
  <2> QED BY <2>1, <2>2, <2>3 DEF RowChanges, RowStep
<1> QED BY <1>4, <1>5

LEMMA RowStepKeepsLine ==
    ASSUME DeliveryAssumption, DeliveryInv, NEW n \in DOMAIN rows, NEW r \in StageRows,
           RowChanges(n, r), r.stage = rows[n].stage, r.root = rows[n].root
    PROVE  LineInv'
<1> SUFFICES ASSUME "split" \notin met'
             PROVE  /\ \A m \in DOMAIN rows' : m <= 4 /\ rows'[m].stage = Stages[m] /\ rows'[m].root = 1
                    /\ \A m \in DOMAIN rows' : m < Len(rows') =>
                          \/ rows'[m].kids
                          \/ sync' = [of |-> m, step |-> "created"]
                          \/ rows'[m].status = "completed" /\ rows'[m].hands = 0 /\ sync'.of # m
                    /\ sync'.step = "checked" => sync'.of = Len(rows')
  BY DEF LineInv
<1>0. /\ Len(rows') = Len(rows) /\ DOMAIN rows' = DOMAIN rows /\ DOMAIN rows = 1..Len(rows)
      /\ Len(rows) \in Nat \ {0}
      /\ rows'[n] = r /\ \A m \in DOMAIN rows : m # n => rows'[m] = rows[m]
      /\ \A m \in DOMAIN rows : rows'[m].stage = rows[m].stage /\ rows'[m].root = rows[m].root
  BY RowWritten DEF RowChanges, DeliveryInv
<1>1. "split" \notin met
  BY DEF RowChanges, RowStep, StageTrouble
<1>2. /\ \A m \in DOMAIN rows : m <= 4 /\ rows[m].stage = Stages[m] /\ rows[m].root = 1
      /\ \A m \in DOMAIN rows : m < Len(rows) =>
            \/ rows[m].kids
            \/ sync = [of |-> m, step |-> "created"]
            \/ rows[m].status = "completed" /\ rows[m].hands = 0 /\ sync.of # m
      /\ sync.step = "checked" => sync.of = Len(rows)
  BY <1>1 DEF LineInv, DeliveryInv
<1>3. \/ sync' = sync
      \/ sync = NoSync /\ sync' = [of |-> n, step |-> "ended"]
      \/ sync.step = "created" /\ sync.of = n /\ sync' = NoSync /\ r = [rows[n] EXCEPT !.kids = TRUE]
  BY DEF RowChanges, RowStep
<1>4. rows[n] \in StageRows
  BY RowsAreRows DEF DeliveryInv
<1>5. \A m \in DOMAIN rows : m <= 4 /\ rows'[m].stage = Stages[m] /\ rows'[m].root = 1
  BY <1>0, <1>2
<1>6. sync'.step = "checked" => sync'.of = Len(rows)
  BY <1>2, <1>3 DEF NoSync
<1>7. ASSUME NEW m \in DOMAIN rows, m < Len(rows), m # n
      PROVE  \/ rows'[m].kids
             \/ sync' = [of |-> m, step |-> "created"]
             \/ rows'[m].status = "completed" /\ rows'[m].hands = 0 /\ sync'.of # m
  <2>1. rows'[m] = rows[m]
    BY <1>0, <1>7
  <2>2. CASE sync = [of |-> m, step |-> "created"]
    <3>1. sync' = sync
      BY <1>3, <1>7, <2>2 DEF NoSync
    <3> QED BY <2>2, <3>1
  <2>3. CASE rows[m].status = "completed" /\ rows[m].hands = 0 /\ sync.of # m
    <3>1. sync'.of # m
      BY <1>0, <1>3, <1>7, <2>3 DEF NoSync
    <3> QED BY <2>1, <2>3, <3>1
  <2> QED BY <1>2, <1>7, <2>1, <2>2, <2>3
<1>8. ASSUME n < Len(rows)
      PROVE  \/ r.kids
             \/ sync' = [of |-> n, step |-> "created"]
             \/ r.status = "completed" /\ r.hands = 0 /\ sync'.of # n
  <2>1. CASE rows[n].kids
    <3>1. r.kids
      BY <1>4, <2>1 DEF RowChanges, RowStep, StageRows
    <3> QED BY <3>1
  <2>2. CASE sync = [of |-> n, step |-> "created"]
    <3>1. rows[n].status = "completed" /\ sync # NoSync
      BY <2>2 DEF SyncInv, DeliveryInv, NoSync
    <3>2. r = [rows[n] EXCEPT !.kids = TRUE]
      BY <3>1 DEF RowChanges, RowStep
    <3> QED BY <1>4, <3>2 DEF StageRows
  <2>3. CASE rows[n].status = "completed" /\ rows[n].hands = 0 /\ sync.of # n
    <3>1. FALSE
      BY <2>3 DEF RowChanges, RowStep
    <3> QED BY <3>1
  <2> QED BY <1>2, <1>8, <2>1, <2>2, <2>3
<1>9. \A m \in DOMAIN rows : m < Len(rows) =>
          \/ rows'[m].kids
          \/ sync' = [of |-> m, step |-> "created"]
          \/ rows'[m].status = "completed" /\ rows'[m].hands = 0 /\ sync'.of # m
  BY <1>0, <1>7, <1>8
<1> QED BY <1>0, <1>5, <1>6, <1>9

LEMMA RowStepKeepsCalm ==
    ASSUME DeliveryAssumption, DeliveryInv, NEW n \in DOMAIN rows, NEW r \in StageRows,
           RowChanges(n, r), r.stage = rows[n].stage, r.root = rows[n].root
    PROVE  CalmInv'
<1> SUFFICES ASSUME Calm' PROVE CalmInv'
  BY DEF CalmInv
<1> DEFINE last == Len(rows)
<1>0. /\ Len(rows') = last /\ DOMAIN rows' = DOMAIN rows /\ DOMAIN rows = 1..last /\ last \in Nat \ {0}
      /\ rows'[n] = r /\ \A m \in DOMAIN rows : m # n => rows'[m] = rows[m]
  BY RowWritten DEF RowChanges, DeliveryInv
<1>1. Calm /\ ~StageTrouble("again") /\ ~StageTrouble("cancel") /\ state' = state
  BY DEF RowChanges, RowStep, StageTrouble, Calm
<1>2. /\ \A m \in DOMAIN rows : m < last => rows[m].status = "completed" /\ rows[m].hands = 0
      /\ ~rows[last].kids /\ rows[last].status # "cancelled"
      /\ rows[last].hands = IF rows[last].status = "running" THEN 1 ELSE 0
      /\ sync.step = "none" =>
            /\ rows[last].status \in {"queued", "running", "paused_input"} => state[1] = AtWork(last)
            /\ rows[last].status = "failed" => state[1] = Blocked(AtWork(last), Stages[last])
            /\ rows[last].status = "completed" => state[1] = Delivered /\ last = 4
      /\ sync.step = "ended" => sync.of = last /\ state[1] = AtWork(last)
      /\ sync.step \in {"patched", "checked"} => sync.of = last /\ last < 4 /\ state[1] = AtWork(last + 1)
      /\ sync.step = "created" =>
            rows[last].status = "queued" /\ state[1] = AtWork(last) /\ sync.of = last - 1
  BY <1>1 DEF CalmInv, DeliveryInv
<1>3. /\ rows[n] \in StageRows /\ last \in DOMAIN rows
      /\ sync.step \in {"none", "ended", "patched", "checked", "created"}
  BY <1>0, RowsAreRows DEF DeliveryInv, DeliveryTypeOK
<1>4. CASE sync = NoSync /\ sync' = sync
  <2>1. n = last /\ rows[n].status \in {"queued", "running", "paused_input"}
    BY <1>0, <1>1, <1>2, <1>4 DEF RowChanges, RowStep, NoSync
  <2>2. /\ r.status \in {"queued", "running", "paused_input"} /\ ~r.kids
        /\ r.hands = IF r.status = "running" THEN 1 ELSE 0
    <3>1. CASE rows[n].status = "queued" /\ r = [rows[n] EXCEPT !.status = "running", !.hands = @ + 1]
      <4>1. rows[n].hands = 0 /\ ~rows[n].kids
        BY <1>2, <2>1, <3>1
      <4> QED BY <1>3, <3>1, <4>1 DEF StageRows
    <3>2. CASE rows[n].status = "running" /\ r = [rows[n] EXCEPT !.status = "paused_input", !.hands = @ - 1]
      <4>1. rows[n].hands = 1 /\ ~rows[n].kids
        BY <1>2, <2>1, <3>2
      <4> QED BY <1>3, <3>2, <4>1 DEF StageRows
    <3>3. CASE rows[n].status = "paused_input" /\ r = [rows[n] EXCEPT !.status = "queued"]
      <4>1. rows[n].hands = 0 /\ ~rows[n].kids
        BY <1>2, <2>1, <3>3
      <4> QED BY <1>3, <3>3, <4>1 DEF StageRows
    <3>4. sync.step = "none" /\ sync' # [of |-> n, step |-> "ended"]
      BY <1>4 DEF NoSync
    <3> QED BY <1>1, <3>1, <3>2, <3>3, <3>4 DEF RowChanges, RowStep
  <2> QED BY <1>0, <1>1, <1>2, <1>4, <2>1, <2>2 DEF CalmInv, NoSync
<1>5. CASE sync = NoSync /\ sync' = [of |-> n, step |-> "ended"]
  <2>1. rows[n].hands > 0
    BY <1>1, <1>5 DEF RowChanges, RowStep, NoSync
  <2>2. n = last /\ rows[n].status = "running" /\ rows[n].hands = 1
    BY <1>0, <1>2, <2>1
  <2>3. r.status # "cancelled" /\ r.status # "running" /\ ~r.kids /\ r.hands = 0
    <3>1. sync # sync' /\ sync' # NoSync
      BY <1>5 DEF NoSync
    <3>2. \/ r = [rows[n] EXCEPT !.status = "completed", !.hands = @ - 1]
          \/ r = [rows[n] EXCEPT !.status = "failed", !.hands = @ - 1]
      BY <3>1 DEF RowChanges, RowStep
    <3>3. ~rows[n].kids
      BY <1>2, <2>2
    <3>4. CASE r = [rows[n] EXCEPT !.status = "completed", !.hands = @ - 1]
      BY <1>3, <2>2, <3>3, <3>4 DEF StageRows
    <3>5. CASE r = [rows[n] EXCEPT !.status = "failed", !.hands = @ - 1]
      BY <1>3, <2>2, <3>3, <3>5 DEF StageRows
    <3> QED BY <3>2, <3>4, <3>5
  <2>4. sync'.of = last /\ sync'.step = "ended"
    BY <1>5, <2>2
  <2> QED BY <1>0, <1>1, <1>2, <1>5, <2>2, <2>3, <2>4 DEF CalmInv, NoSync
<1>6. CASE sync # NoSync /\ sync' = sync
  <2>1. rows[n].status = "paused_input" /\ sync.step # "none"
    BY <1>1, <1>6 DEF RowChanges, RowStep, SyncInv, DeliveryInv, NoSync, DeliveryTypeOK
  <2>2. n = last
    BY <1>0, <1>2, <2>1
  <2>3. FALSE
    BY <1>2, <1>3, <2>1, <2>2 DEF SyncInv, DeliveryInv
  <2> QED BY <2>3
<1>7. CASE sync.step = "created" /\ sync.of = n /\ sync' = NoSync
  <2>1. n = last - 1 /\ n # last
    <3>1. sync.of = last - 1
      BY <1>2, <1>7
    <3>2. last - 1 # last
      <4>1. last \in Nat
        BY <1>0
      <4> QED BY ONLY <4>1
    <3>3. n = sync.of
      BY <1>7
    <3> QED BY ONLY <3>1, <3>2, <3>3
  <2>2. rows[n].status = "completed"
    BY <1>7 DEF SyncInv, DeliveryInv
  <2>3. r = [rows[n] EXCEPT !.kids = TRUE]
    BY <1>1, <1>7, <2>2 DEF RowChanges, RowStep, NoSync
  <2>4. r.status = rows[n].status /\ r.hands = rows[n].hands
    BY <1>3, <2>3 DEF StageRows
  <2> QED BY <1>0, <1>1, <1>2, <1>3, <1>7, <2>1, <2>4 DEF CalmInv, NoSync
<1> QED BY <1>1, <1>4, <1>5, <1>6, <1>7 DEF RowChanges, RowStep

-----------------------------------------------------------------------------
(* The root's row, where there was no split.                               *)
LEMMA PatchKeeps ==
    ASSUME DeliveryAssumption, DeliveryInv, Patch PROVE DeliveryInv'
<1> DEFINE n == sync.of
           root == rows[n].root
           complete == rows[n].status = "completed"
           next == IF complete THEN Progressed(state[root], rows[n].stage) ELSE Blocked(state[root], rows[n].stage)
<1>0. /\ sync.step = "ended" /\ n \in DOMAIN rows /\ DOMAIN rows = 1..Len(rows) /\ Len(rows) \in Nat \ {0}
      /\ rows[n].status \in {"completed", "failed"} /\ rows' = rows /\ met' = met /\ questions' = questions
      /\ sync' = IF complete /\ HasNext(rows[n].stage) THEN [sync EXCEPT !.step = "patched"] ELSE NoSync
      /\ state' = [state EXCEPT ![root] = next, ![n] = next]
      /\ rows[n] \in StageRows /\ Len(state) = Len(rows) /\ state \in Seq(WorkflowStates)
  BY RowsAreRows DEF Patch, DeliveryInv, SyncInv, DeliveryTypeOK
<1>1. sync' \in [of : 0..MaxTasks, step : {"none", "ended", "patched", "checked", "created"}]
  <2>1. sync \in [of : 0..MaxTasks, step : {"none", "ended", "patched", "checked", "created"}]
    BY DEF DeliveryInv, DeliveryTypeOK
  <2>2. CASE sync' = NoSync
    BY <2>2 DEF NoSync, DeliveryAssumption
  <2>3. CASE sync' = [sync EXCEPT !.step = "patched"]
    BY <2>1, <2>3
  <2> QED BY <1>0, <2>2, <2>3
<1>2. root \in DOMAIN rows
  BY <1>0 DEF DeliveryInv, SyncInv
<1>3. next \in WorkflowStates
  <2>1. state[root] \in WorkflowStates /\ rows[n].stage \in StageNames
    BY <1>0, <1>2, ElementOfSeq DEF StageRows
  <2> QED BY <2>1, StatePatches
<1>4. [state EXCEPT ![root] = next] \in Seq(WorkflowStates) /\ Len([state EXCEPT ![root] = next]) = Len(state)
  BY <1>0, <1>2, <1>3, ExceptSeq
<1>5. /\ state' \in Seq(WorkflowStates) /\ Len(state') = Len(state)
      /\ state'[root] = next
  <2>1. state' = [[state EXCEPT ![root] = next] EXCEPT ![n] = next]
    BY <1>0
  <2>2. state' \in Seq(WorkflowStates) /\ Len(state') = Len(state)
    BY <1>0, <1>3, <1>4, <2>1, ExceptSeq
  <2>3. state'[root] = next
    BY <1>0, <1>2
  <2> QED BY <2>2, <2>3
<1>6. DeliveryTypeOK'
  BY <1>0, <1>1, <1>5 DEF DeliveryInv, DeliveryTypeOK
<1>7. /\ sync'.step = "patched" => sync'.of = n /\ complete /\ HasNext(rows[n].stage)
      /\ sync'.step \in {"none", "patched"} /\ (sync'.step = "none" => sync'.of = 0)
  <2>1. sync \in [of : 0..MaxTasks, step : {"none", "ended", "patched", "checked", "created"}]
    BY DEF DeliveryInv, DeliveryTypeOK
  <2> QED BY <1>0, <2>1 DEF NoSync
<1>8. SyncInv'
  BY <1>0, <1>7 DEF DeliveryInv, SyncInv
<1>9. LineInv'
  BY <1>0, <1>7 DEF DeliveryInv, LineInv
<1>10. CalmInv'
  <2> SUFFICES ASSUME Calm' PROVE CalmInv'
    BY DEF CalmInv
  <2> DEFINE last == Len(rows)
  <2>1. Calm /\ "split" \notin met
    BY <1>0 DEF Calm
  <2>2. /\ n = last /\ root = 1 /\ rows[n].stage = Stages[n] /\ n \in 1..4 /\ state[1] = AtWork(n)
        /\ \A m \in DOMAIN rows : m < last => rows[m].status = "completed" /\ rows[m].hands = 0
        /\ ~rows[last].kids /\ rows[last].status # "cancelled"
        /\ rows[last].hands = IF rows[last].status = "running" THEN 1 ELSE 0
    BY <1>0, <2>1 DEF DeliveryInv, LineInv, CalmInv
  <2>3. HasNext(rows[n].stage) <=> n < 4
    BY <2>2, NextOfStage
  <2>4. CASE complete /\ n < 4
    <3>1. sync'.step = "patched" /\ sync'.of = n
      BY <1>0, <1>7, <2>3, <2>4 DEF NoSync, DeliveryInv, DeliveryTypeOK
    <3>2. state'[1] = AtWork(n + 1)
      BY <1>5, <2>2, <2>4, ProgressLeadsOn
    <3> QED BY <1>0, <2>2, <2>4, <3>1, <3>2 DEF CalmInv
  <2>5. CASE complete /\ n = 4
    <3>1. sync'.step = "none"
      BY <1>0, <2>3, <2>5 DEF NoSync
    <3>2. state'[1] = Delivered
      BY <1>5, <2>2, <2>5, ProgressLeadsOn
    <3> QED BY <1>0, <2>2, <2>5, <3>1, <3>2 DEF CalmInv
  <2>6. CASE ~complete
    <3>1. sync'.step = "none"
      BY <1>0, <2>6 DEF NoSync
    <3>2. state'[1] = Blocked(AtWork(last), Stages[last])
      BY <1>5, <2>2, <2>6
    <3> QED BY <1>0, <2>2, <2>6, <3>1, <3>2 DEF CalmInv
  <2> QED BY <2>2, <2>4, <2>5, <2>6
<1> QED BY <1>6, <1>8, <1>9, <1>10 DEF DeliveryInv

LEMMA CheckKeeps ==
    ASSUME DeliveryAssumption, DeliveryInv, CheckChildren PROVE DeliveryInv'
<1> DEFINE n == sync.of
<1>0. /\ sync.step = "patched" /\ n \in DOMAIN rows /\ UNCHANGED <<rows, state, questions, met>>
      /\ sync' = IF rows[n].kids THEN NoSync ELSE [sync EXCEPT !.step = "checked"]
      /\ sync \in [of : 0..MaxTasks, step : {"none", "ended", "patched", "checked", "created"}]
      /\ DOMAIN rows = 1..Len(rows) /\ Len(rows) \in Nat \ {0}
  BY DEF CheckChildren, Advanced, DeliveryInv, SyncInv, DeliveryTypeOK
<1>1. /\ sync' \in [of : 0..MaxTasks, step : {"none", "ended", "patched", "checked", "created"}]
      /\ sync'.step \in {"none", "checked"} /\ (sync'.step = "none" => sync'.of = 0 /\ rows[n].kids)
      /\ sync'.step = "checked" => sync'.of = n /\ ~rows[n].kids
  BY <1>0 DEF NoSync, DeliveryAssumption
<1>2. DeliveryTypeOK'
  BY <1>0, <1>1 DEF DeliveryInv, DeliveryTypeOK
<1>3. SyncInv'
  BY <1>0, <1>1 DEF DeliveryInv, SyncInv
<1>4. LineInv'
  <2> SUFFICES ASSUME "split" \notin met PROVE LineInv'
    BY <1>0 DEF LineInv
  <2>1. \A m \in DOMAIN rows : m < Len(rows) =>
            \/ rows[m].kids
            \/ rows[m].status = "completed" /\ rows[m].hands = 0 /\ sync.of # m
    BY <1>0 DEF DeliveryInv, LineInv
  <2>2. ~rows[n].kids => n = Len(rows)
    BY <1>0, <2>1
  <2>3. ASSUME NEW m \in DOMAIN rows, rows[m].status = "completed", sync.of # m PROVE sync'.of # m
    BY <1>0, <1>1, <2>3
  <2>4. \A m \in DOMAIN rows : m <= 4 /\ rows[m].stage = Stages[m] /\ rows[m].root = 1
    BY DEF DeliveryInv, LineInv
  <2> QED BY <1>0, <1>1, <2>1, <2>2, <2>3, <2>4 DEF LineInv
<1>5. CalmInv'
  BY <1>0, <1>1 DEF DeliveryInv, CalmInv, Calm
<1> QED BY <1>2, <1>3, <1>4, <1>5 DEF DeliveryInv

LEMMA CreateKeeps ==
    ASSUME DeliveryAssumption, DeliveryInv, Create PROVE DeliveryInv'
<1> DEFINE n == sync.of
           last == Len(rows)
           row == NewRow(NextStage(rows[n].stage), rows[n].root)
<1>0. /\ sync.step = "checked" /\ n \in DOMAIN rows /\ UNCHANGED <<questions, met>>
      /\ rows' = Append(rows, row) /\ state' = Append(state, state[rows[n].root])
      /\ sync' = [sync EXCEPT !.step = "created"] /\ last + 1 \in 1..MaxTasks /\ Len(state) = last
      /\ sync \in [of : 0..MaxTasks, step : {"none", "ended", "patched", "checked", "created"}]
      /\ rows \in Seq(StageRows) /\ state \in Seq(WorkflowStates)
      /\ DOMAIN rows = 1..last /\ last \in Nat \ {0} /\ rows[n] \in StageRows
      /\ rows[n].status = "completed" /\ HasNext(rows[n].stage) /\ rows[n].root \in DOMAIN rows
  BY RowsAreRows DEF Create, DeliveryInv, SyncInv, DeliveryTypeOK, DeliveryAssumption
<1>1. row \in StageRows
  <2>1. NextStage(rows[n].stage) \in StageNames /\ rows[n].root \in 1..MaxTasks
    BY <1>0, NextIsStage DEF StageRows
  <2> QED BY <2>1 DEF NewRow, StageRows, TaskStatuses
<1>2. /\ rows' \in Seq(StageRows) /\ Len(rows') = last + 1 /\ DOMAIN rows' = 1..last + 1
      /\ rows'[last + 1] = row /\ \A m \in DOMAIN rows : rows'[m] = rows[m]
  BY <1>0, <1>1, AppendProperties, LenProperties
<1>3. state' \in Seq(WorkflowStates) /\ Len(state') = last + 1 /\ \A m \in 1..last : state'[m] = state[m]
  <2>1. state[rows[n].root] \in WorkflowStates
    BY <1>0, ElementOfSeq
  <2> QED BY <1>0, <2>1, AppendProperties
<1>4. /\ sync' \in [of : 0..MaxTasks, step : {"none", "ended", "patched", "checked", "created"}]
      /\ sync'.of = n /\ sync'.step = "created" /\ sync' = [of |-> n, step |-> "created"]
  BY <1>0
<1>5. DeliveryTypeOK'
  BY <1>0, <1>2, <1>3, <1>4 DEF DeliveryInv, DeliveryTypeOK
<1>6. SyncInv'
  <2>1. \A m \in DOMAIN rows' : rows'[m].root \in DOMAIN rows'
    BY <1>0, <1>2 DEF DeliveryInv, SyncInv, NewRow
  <2> QED BY <1>0, <1>2, <1>4, <2>1 DEF DeliveryInv, SyncInv
<1>7. row.status = "queued" /\ row.hands = 0 /\ row.kids = FALSE /\ row.root = rows[n].root
      /\ row.stage = NextStage(rows[n].stage)
  BY DEF NewRow
<1>8. "split" \notin met =>
          /\ n = last /\ last < 4 /\ rows[last].stage = Stages[last] /\ row.stage = Stages[last + 1]
          /\ row.root = 1
          /\ \A m \in DOMAIN rows : m < last => rows[m].kids \/ (rows[m].status = "completed" /\ rows[m].hands = 0 /\ n # m)
  <2> SUFFICES ASSUME "split" \notin met
               PROVE  /\ n = last /\ last < 4 /\ rows[last].stage = Stages[last] /\ row.stage = Stages[last + 1]
                      /\ row.root = 1
                      /\ \A m \in DOMAIN rows : m < last =>
                            rows[m].kids \/ (rows[m].status = "completed" /\ rows[m].hands = 0 /\ n # m)
    OBVIOUS
  <2>1. n = last /\ n \in 1..4 /\ rows[n].stage = Stages[n] /\ rows[n].root = 1
    BY <1>0 DEF DeliveryInv, LineInv
  <2>2. n < 4 /\ NextStage(rows[n].stage) = Stages[n + 1]
    BY <1>0, <2>1, NextOfStage
  <2>3. \A m \in DOMAIN rows : m < last => rows[m].kids \/ (rows[m].status = "completed" /\ rows[m].hands = 0 /\ n # m)
    BY <1>0 DEF DeliveryInv, LineInv
  <2> QED BY <1>7, <2>1, <2>2, <2>3
<1>9. LineInv'
  <2> SUFFICES ASSUME "split" \notin met
               PROVE  /\ \A m \in DOMAIN rows' : m <= 4 /\ rows'[m].stage = Stages[m] /\ rows'[m].root = 1
                      /\ \A m \in DOMAIN rows' : m < Len(rows') =>
                            \/ rows'[m].kids
                            \/ sync' = [of |-> m, step |-> "created"]
                            \/ rows'[m].status = "completed" /\ rows'[m].hands = 0 /\ sync'.of # m
    BY <1>0, <1>4 DEF LineInv
  <2>1. \A m \in DOMAIN rows : m <= 4 /\ rows[m].stage = Stages[m] /\ rows[m].root = 1
    BY DEF DeliveryInv, LineInv
  <2>2. \A m \in DOMAIN rows' : m <= 4 /\ rows'[m].stage = Stages[m] /\ rows'[m].root = 1
    BY <1>0, <1>2, <1>8, <2>1
  <2>3. ASSUME NEW m \in DOMAIN rows', m < Len(rows')
        PROVE  \/ rows'[m].kids
               \/ sync' = [of |-> m, step |-> "created"]
               \/ rows'[m].status = "completed" /\ rows'[m].hands = 0 /\ sync'.of # m
    <3>1. m \in DOMAIN rows /\ rows'[m] = rows[m]
      BY <1>0, <1>2, <2>3
    <3>2. CASE m = last
      BY <1>4, <1>8, <3>2
    <3>3. CASE m < last
      BY <1>4, <1>8, <3>1, <3>3
    <3> QED BY <1>0, <3>1, <3>2, <3>3
  <2> QED BY <2>2, <2>3
<1>10. CalmInv'
  <2> SUFFICES ASSUME Calm' PROVE CalmInv'
    BY DEF CalmInv
  <2>1. Calm /\ "split" \notin met
    BY <1>0 DEF Calm
  <2>2. /\ \A m \in DOMAIN rows : m < last => rows[m].status = "completed" /\ rows[m].hands = 0
        /\ rows[last].hands = IF rows[last].status = "running" THEN 1 ELSE 0
        /\ state[1] = AtWork(last + 1)
    BY <1>0, <2>1 DEF DeliveryInv, CalmInv
  <2>3. \A m \in DOMAIN rows' : m < last + 1 => rows'[m].status = "completed" /\ rows'[m].hands = 0
    <3> SUFFICES ASSUME NEW m \in 1..last PROVE rows'[m].status = "completed" /\ rows'[m].hands = 0
      BY <1>0, <1>2
    <3>1. rows'[m] = rows[m]
      BY <1>0, <1>2
    <3>2. CASE m = last
      BY <1>0, <1>8, <2>1, <2>2, <3>1, <3>2
    <3>3. CASE m < last
      BY <1>0, <2>2, <3>1, <3>3
    <3> QED BY <1>0, <3>2, <3>3
  <2>4. state'[1] = AtWork(last + 1)
    BY <1>0, <1>3, <2>2
  <2>5. n = (last + 1) - 1
    BY <1>0, <1>8, <2>1
  <2> QED BY <1>2, <1>4, <1>7, <2>3, <2>4, <2>5 DEF CalmInv
<1> QED BY <1>5, <1>6, <1>9, <1>10 DEF DeliveryInv

(* Two children of a row: rows that were there keep their stage and root.  *)
LEMMA SplitKeeps ==
    ASSUME DeliveryAssumption, DeliveryInv, NEW n \in DOMAIN rows, Split(n) PROVE DeliveryInv'
<1> DEFINE last == Len(rows)
           kept == [rows EXCEPT ![n].kids = TRUE]
           two == [i \in 1..2 |-> Child(n, last + i)]
           copies == [i \in 1..2 |-> state[n]]
<1>0. /\ rows' = kept \o two /\ state' = state \o copies /\ UNCHANGED <<sync, questions>>
      /\ last + 2 <= MaxTasks
      /\ Len(state) = last /\ rows \in Seq(StageRows) /\ state \in Seq(WorkflowStates)
      /\ DOMAIN rows = 1..last /\ last \in Nat \ {0} /\ rows[n] \in StageRows /\ StageTrouble("split")
  BY RowsAreRows DEF Split, DeliveryInv, DeliveryTypeOK
<1>1. IsFiniteSet(met') /\ met' \subseteq StageTroubles /\ Cardinality(met') <= MaxStageTroubles
      /\ "split" \in met'
  BY <1>0, TroublesAreFew DEF DeliveryInv
<1>2. /\ kept \in Seq(StageRows) /\ Len(kept) = last
      /\ \A m \in 1..last : kept[m] = IF m = n THEN [rows[n] EXCEPT !.kids = TRUE] ELSE rows[m]
  <2>1. [rows[n] EXCEPT !.kids = TRUE] \in StageRows
    BY <1>0 DEF StageRows
  <2>2. kept = [rows EXCEPT ![n] = [rows[n] EXCEPT !.kids = TRUE]]
    OBVIOUS
  <2> QED BY <1>0, <2>1, <2>2, ExceptSeq
<1>3. \A i \in 1..2 : Child(n, last + i) \in StageRows /\ Child(n, last + i).root \in {last + i, rows[n].root}
  <2> TAKE i \in 1..2
  <2>1. last + i \in 1..MaxTasks /\ rows[n].stage \in StageNames /\ rows[n].root \in 1..MaxTasks
    BY <1>0 DEF StageRows, DeliveryAssumption
  <2> QED BY <2>1 DEF Child, NewRow, StageRows, TaskStatuses
<1>4. two \in Seq(StageRows) /\ Len(two) = 2
  BY <1>3
<1>5. copies \in Seq(WorkflowStates) /\ Len(copies) = 2
  <2>1. state[n] \in WorkflowStates
    BY <1>0, ElementOfSeq
  <2> QED BY <2>1
<1>6. /\ rows' \in Seq(StageRows) /\ Len(rows') = last + 2 /\ DOMAIN rows' = 1..last + 2
      /\ \A m \in 1..last : rows'[m] = kept[m]
      /\ \A m \in last + 1..last + 2 : rows'[m] = Child(n, m)
  <2>1. /\ rows' \in Seq(StageRows) /\ Len(rows') = last + 2
        /\ \A m \in 1..last + 2 : rows'[m] = IF m <= last THEN kept[m] ELSE two[m - last]
    BY <1>0, <1>2, <1>4, ConcatProperties
  <2>2. DOMAIN rows' = 1..last + 2
    BY <2>1, LenProperties
  <2>3. \A m \in last + 1..last + 2 : m - last \in 1..2 /\ two[m - last] = Child(n, m)
    BY <1>0
  <2> QED BY <1>0, <2>1, <2>2, <2>3
<1>7. state' \in Seq(WorkflowStates) /\ Len(state') = last + 2
  BY <1>0, <1>5, ConcatProperties
<1>8. last + 2 \in 1..MaxTasks
  BY <1>0 DEF DeliveryAssumption
<1>9. DeliveryTypeOK'
  BY <1>0, <1>1, <1>6, <1>7, <1>8 DEF DeliveryInv, DeliveryTypeOK
<1>10. \A m \in 1..last : /\ rows'[m].stage = rows[m].stage /\ rows'[m].root = rows[m].root
                          /\ rows'[m].status = rows[m].status
  <2> TAKE m \in 1..last
  <2>1. rows[m] \in StageRows
    BY <1>0, ElementOfSeq
  <2> QED BY <1>0, <1>2, <1>6, <2>1 DEF StageRows
<1>11. SyncInv'
  <2>1. ASSUME NEW m \in DOMAIN rows' PROVE rows'[m].root \in DOMAIN rows'
    <3>1. \A k \in 1..last : rows[k].root \in 1..last
      BY <1>0 DEF DeliveryInv, SyncInv
    <3>2. CASE m \in 1..last
      BY <1>0, <1>6, <1>10, <3>1, <3>2
    <3>3. CASE m \in last + 1..last + 2
      <4>1. rows'[m].root \in {m, rows[n].root}
        <5>1. PICK i \in 1..2 : m = last + i
          BY <1>0, <3>3
        <5>2. rows'[m] = Child(n, m)
          BY <1>6, <3>3
        <5> QED BY <1>3, <5>1, <5>2
      <4> QED BY <1>0, <1>6, <3>1, <3>3, <4>1
    <3> QED BY <1>0, <1>6, <2>1, <3>2, <3>3
  <2>2. /\ sync.step # "none" => sync.of \in 1..last
        /\ sync.step = "none" => sync.of = 0
        /\ sync.step = "ended" => rows[sync.of].status \in {"completed", "failed"}
        /\ sync.step \in {"patched", "checked", "created"} =>
              rows[sync.of].status = "completed" /\ HasNext(rows[sync.of].stage)
    BY <1>0 DEF DeliveryInv, SyncInv
  <2>3. 1..last \subseteq DOMAIN rows'
    BY <1>0, <1>6
  <2>4. sync.step # "none" => /\ rows'[sync.of].status = rows[sync.of].status
                              /\ rows'[sync.of].stage = rows[sync.of].stage
    BY <1>10, <2>2
  <2>5. sync' = sync /\ IsFiniteSet(met')
    BY <1>0, <1>1
  <2> QED BY <2>1, <2>2, <2>3, <2>4, <2>5 DEF SyncInv
<1>12. LineInv' /\ CalmInv'
  BY <1>1 DEF LineInv, CalmInv, Calm
<1> QED BY <1>9, <1>11, <1>12 DEF DeliveryInv

LEMMA CrashKeeps ==
    ASSUME DeliveryAssumption, DeliveryInv, CrashSync PROVE DeliveryInv'
<1>0. /\ sync' = NoSync /\ UNCHANGED <<state, questions>> /\ StageTrouble("crash")
      /\ rows \in Seq(StageRows) /\ DOMAIN rows = 1..Len(rows) /\ Len(rows) \in Nat \ {0}
  <2>1. sync' = NoSync /\ UNCHANGED <<state, questions>> /\ StageTrouble("crash")
    BY Zenon DEF CrashSync
  <2>2. rows \in Seq(StageRows) /\ DOMAIN rows = 1..Len(rows) /\ Len(rows) \in Nat \ {0}
    BY DEF DeliveryInv, DeliveryTypeOK
  <2> QED BY <2>1, <2>2
<1>a. rows' = [n \in DOMAIN rows |-> [rows[n] EXCEPT !.hands = 0, !.status = IF @ = "running" THEN "queued" ELSE @]]
  BY DEF CrashSync
<1>1. IsFiniteSet(met') /\ met' \subseteq StageTroubles /\ Cardinality(met') <= MaxStageTroubles
      /\ "crash" \in met'
      /\ met \subseteq met'
  BY <1>0, TroublesAreFew DEF DeliveryInv
<1>2. \A n \in DOMAIN rows :
         /\ rows'[n] \in StageRows /\ rows'[n].stage = rows[n].stage /\ rows'[n].root = rows[n].root
         /\ rows'[n].kids = rows[n].kids /\ rows'[n].hands = 0
         /\ rows[n].status = "completed" => rows'[n].status = "completed"
         /\ rows[n].status = "failed" => rows'[n].status = "failed"
  <2> TAKE n \in DOMAIN rows
  <2>1. rows[n] \in StageRows
    BY <1>0, ElementOfSeq
  <2>2. rows'[n] = [rows[n] EXCEPT !.hands = 0, !.status = IF @ = "running" THEN "queued" ELSE @]
    BY <1>a
  <2>3. "queued" \in TaskStatuses /\ 0 \in 0..2
    BY DEF TaskStatuses
  <2> QED BY ONLY <2>1, <2>2, <2>3 DEF StageRows
<1>3. rows' \in Seq(StageRows) /\ Len(rows') = Len(rows) /\ DOMAIN rows' = DOMAIN rows
  <2>1. rows' \in [1..Len(rows) -> StageRows]
    BY <1>0, <1>a, <1>2
  <2>2. Len(rows) \in Nat
    BY <1>0
  <2>3. rows' \in Seq(StageRows) /\ Len(rows') = Len(rows)
    BY ONLY <2>1, <2>2
  <2> QED BY <1>0, <2>1, <2>3
<1>4. DeliveryTypeOK'
  <2>1. sync' \in [of : 0..MaxTasks, step : {"none", "ended", "patched", "checked", "created"}]
    BY <1>0 DEF NoSync, DeliveryAssumption
  <2> QED BY <1>0, <1>1, <1>3, <2>1 DEF DeliveryInv, DeliveryTypeOK
<1>5. SyncInv'
  BY <1>0, <1>1, <1>2, <1>3 DEF DeliveryInv, SyncInv, NoSync
<1>6. LineInv'
  <2> SUFFICES ASSUME "split" \notin met'
               PROVE  /\ \A m \in DOMAIN rows' : m <= 4 /\ rows'[m].stage = Stages[m] /\ rows'[m].root = 1
                      /\ \A m \in DOMAIN rows' : m < Len(rows') =>
                            \/ rows'[m].kids
                            \/ rows'[m].status = "completed" /\ rows'[m].hands = 0 /\ sync'.of # m
    BY <1>0 DEF LineInv, NoSync
  <2>1. /\ \A m \in DOMAIN rows : m <= 4 /\ rows[m].stage = Stages[m] /\ rows[m].root = 1
        /\ \A m \in DOMAIN rows : m < Len(rows) =>
              \/ rows[m].kids
              \/ sync = [of |-> m, step |-> "created"]
              \/ rows[m].status = "completed" /\ rows[m].hands = 0 /\ sync.of # m
    BY <1>1 DEF DeliveryInv, LineInv
  <2>2. ASSUME NEW m \in DOMAIN rows, sync = [of |-> m, step |-> "created"] PROVE rows[m].status = "completed"
    BY <2>2 DEF DeliveryInv, SyncInv
  <2>3. sync'.of = 0
    BY <1>0 DEF NoSync
  <2>4. \A m \in DOMAIN rows : m # 0
    BY <1>0
  <2> QED BY <1>2, <1>3, <2>1, <2>2, <2>3, <2>4
<1>7. CalmInv'
  BY <1>1 DEF CalmInv, Calm
<1> QED BY <1>4, <1>5, <1>6, <1>7 DEF DeliveryInv

LEMMA DeliveryKept ==
    ASSUME DeliveryAssumption, DeliveryInv, [DeliveryNext]_deliveryVars PROVE DeliveryInv'
<1>1. CASE UNCHANGED deliveryVars
  BY <1>1 DEF deliveryVars, DeliveryInv, DeliveryTypeOK, SyncInv, LineInv, CalmInv, Calm
<1>2. CASE (\E n \in DOMAIN rows : Working(n) \/ Again(n) \/ CancelStage(n)) \/ Relate
  <2>1. PICK n \in DOMAIN rows, r \in StageRows :
           RowChanges(n, r) /\ r.stage = rows[n].stage /\ r.root = rows[n].root
    BY <1>2, StepIsRowStep DEF DeliveryInv
  <2> QED BY <2>1, RowStepKeepsTypes, RowStepKeepsLine, RowStepKeepsCalm DEF DeliveryInv
<1> QED
  BY <1>1, <1>2, PatchKeeps, CheckKeeps, CreateKeeps, SplitKeeps, CrashKeeps DEF DeliveryNext, Sync

(* The tasks of a workflow, its states and the runner's step keep their    *)
(* types.                                                                  *)
THEOREM DeliveryTypes == ASSUME DeliveryAssumption PROVE DeliverySpec => []DeliveryTypeOK
<1>1. DeliveryInv => DeliveryTypeOK
  BY DEF DeliveryInv
<1> QED BY DeliveryStarts, DeliveryKept, <1>1, PTL DEF DeliverySpec

(* A new task is that of the next stage, made after the one before it.     *)
NewStage ==
    \A n \in DOMAIN rows' \ DOMAIN rows :
        "split" \notin met' =>
            /\ rows'[n].stage = Stages[n]
            /\ rows[n - 1].stage = Stages[n - 1] /\ rows[n - 1].status = "completed"

LEMMA StageIsNext == ASSUME DeliveryAssumption, DeliveryInv, DeliveryNext PROVE NewStage
<1> SUFFICES ASSUME NEW n \in DOMAIN rows' \ DOMAIN rows, "split" \notin met'
             PROVE  /\ rows'[n].stage = Stages[n]
                    /\ rows[n - 1].stage = Stages[n - 1] /\ rows[n - 1].status = "completed"
  BY DEF NewStage
<1>1. LineInv' /\ "split" \notin met /\ rows'[n].stage = Stages[n]
  <2>1. LineInv' /\ rows'[n].stage = Stages[n]
    BY DeliveryKept DEF DeliveryInv, LineInv
  <2>2. "split" \notin met
    <3>1. met \subseteq met'
      BY DEF DeliveryNext, Working, StartStage, AskOwner, GetAnswer, CompleteStage, FailStage, EndStage,
         Again,
             CancelStage, Split, Sync, Patch, CheckChildren, Create, Relate, CrashSync, StageTrouble
    <3> QED BY <3>1
  <2> QED BY <2>1, <2>2
<1>2. DOMAIN rows = 1..Len(rows) /\ Len(rows) \in Nat \ {0} /\ rows \in Seq(StageRows)
  BY DEF DeliveryInv, DeliveryTypeOK
<1>3. CASE DOMAIN rows' = DOMAIN rows
  BY <1>3
<1>4. CASE Create
  <2>1. n = Len(rows) + 1
    BY <1>2, <1>4 DEF Create
  <2>2. n - 1 \in DOMAIN rows
    BY <1>2, <2>1
  <2>3. rows[n - 1].status = "completed"
    BY <1>1, <1>2, <1>4, <2>1 DEF Create, DeliveryInv, SyncInv, LineInv
  <2> QED BY <1>1, <2>2, <2>3 DEF DeliveryInv, LineInv
<1>5. ~(\E m \in DOMAIN rows : Split(m))
  BY DEF Split, StageTrouble
<1>6. DeliveryNext => DOMAIN rows' = DOMAIN rows \/ Create \/ \E m \in DOMAIN rows : Split(m)
  BY <1>2 DEF DeliveryNext, Working, StartStage, AskOwner, GetAnswer, CompleteStage, FailStage, EndStage,
     Again,
         CancelStage, Sync, Patch, CheckChildren, Relate, CrashSync, Set
<1> QED BY <1>3, <1>4, <1>5, <1>6

(* Where all is calm, the state says what the tasks say.                   *)
LEMMA CalmStateIsTrue == ASSUME DeliveryAssumption, DeliveryInv PROVE StateIsTrue
<1> DEFINE completed == {rows[n].stage : n \in {k \in DOMAIN rows : rows[k].status = "completed"}}
           failed == {rows[n].stage : n \in {k \in DOMAIN rows : rows[k].status = "failed"}}
           last == Len(rows)
<1> SUFFICES ASSUME Calm, sync = NoSync
             PROVE  /\ state[1].done = completed
                    /\ (state[1].status = "blocked") = (failed # {})
                    /\ (state[1].tested = "verified") = ("qa" \in completed)
                    /\ (state[1].status = "completed") = (completed = StageNames)
                    /\ state[1].at # "delivered" => state[1].at = rows[Len(rows)].stage
  BY DEF StateIsTrue
<1>1. /\ DOMAIN rows = 1..last /\ last \in 1..4 /\ \A n \in 1..last : rows[n].stage = Stages[n]
      /\ \A n \in 1..last : n < last => rows[n].status = "completed"
      /\ rows[last].status \in {"queued", "running", "paused_input", "failed", "completed"}
      /\ rows[last].status \in {"queued", "running", "paused_input"} => state[1] = AtWork(last)
      /\ rows[last].status = "failed" => state[1] = Blocked(AtWork(last), Stages[last])
      /\ rows[last].status = "completed" => state[1] = Delivered /\ last = 4
  <2>1. DOMAIN rows = 1..last /\ last \in Nat \ {0} /\ "split" \notin met /\ sync.step = "none"
    BY DEF DeliveryInv, DeliveryTypeOK, Calm, NoSync
  <2>2. last \in 1..4 /\ \A n \in 1..last : rows[n].stage = Stages[n]
    BY <2>1 DEF DeliveryInv, LineInv
  <2>3. rows[last] \in StageRows
    BY <2>1, RowsAreRows DEF DeliveryInv
  <2> QED BY <2>1, <2>2, <2>3 DEF DeliveryInv, CalmInv, StageRows, TaskStatuses
<1>2. ASSUME rows[last].status # "completed" PROVE completed = {Stages[j] : j \in 1..last - 1}
  BY <1>1, <1>2
<1>3. "qa" \in {Stages[j] : j \in 1..last - 1} <=> last = 4
  BY <1>1, StagesInOrder
<1>4. {Stages[j] : j \in 1..last - 1} # StageNames
  <2>1. \A j \in 1..last - 1 : Stages[j] # Stages[4]
    BY <1>1, StagesInOrder
  <2>2. Stages[4] \in StageNames
    BY DEF StageNames
  <2> QED BY <2>1, <2>2
<1>5. CASE rows[last].status \in {"queued", "running", "paused_input"}
  <2>1. failed = {}
    BY <1>1, <1>5
  <2>2. /\ state[1].at = Stages[last] /\ state[1].status = "active"
        /\ state[1].done = {Stages[j] : j \in 1..last - 1}
        /\ (state[1].tested = "verified") <=> last = 4
    BY <1>1, <1>5 DEF AtWork
  <2>3. completed = {Stages[j] : j \in 1..last - 1} /\ rows[Len(rows)].stage = Stages[last]
        /\ Len(rows) = last
    BY <1>1, <1>2, <1>5
  <2> HIDE DEF completed, failed, last
  <2>4. (state[1].status = "blocked") <=> (failed # {})
    BY <2>1, <2>2
  <2>5. (state[1].status = "completed") <=> (completed = StageNames)
    BY <1>4, <2>2, <2>3
  <2>6. (state[1].tested = "verified") <=> ("qa" \in completed)
    BY <1>3, <2>2, <2>3
  <2> QED BY <2>2, <2>3, <2>4, <2>5, <2>6
<1>6. CASE rows[last].status = "failed"
  <2>1. failed # {}
    BY <1>1, <1>6
  <2>2. /\ state[1].at = Stages[last] /\ state[1].status = "blocked"
        /\ state[1].done = {Stages[j] : j \in 1..last - 1}
        /\ (state[1].tested = "verified") <=> last = 4
    <3> DEFINE s == AtWork(last)
    <3>1. state[1] = [s EXCEPT !.at = Stages[last], !.status = "blocked",
                               !.tested = IF Stages[last] = "qa" THEN "failed" ELSE @]
      BY <1>1, <1>6 DEF Blocked
    <3>2. s = [at |-> Stages[last], status |-> "active", done |-> {Stages[j] : j \in 1..last - 1},
               tested |-> IF last = 4 THEN "verified" ELSE "pending"]
      BY DEF AtWork
    <3>3. Stages[last] = "qa" <=> last = 3
      BY <1>1, StagesInOrder
    <3> QED BY ONLY <1>1, <3>1, <3>2, <3>3
  <2>3. completed = {Stages[j] : j \in 1..last - 1}
    BY <1>2, <1>6
  <2>4. state[1].done = completed /\ completed # StageNames
    BY <1>4, <2>2, <2>3
  <2>5. (state[1].tested = "verified") = ("qa" \in completed)
    <3>1. "qa" \in completed <=> last = 4
      BY <1>3, <2>3
    <3> QED BY ONLY <2>2, <3>1
  <2>6. state[1].at = rows[last].stage
    BY <1>1, <2>2
  <2> QED BY <2>1, <2>2, <2>4, <2>5, <2>6
<1>7. CASE rows[last].status = "completed"
  <2>1. failed = {}
    BY <1>1, <1>7
  <2>2. completed = StageNames
    BY <1>1, <1>7 DEF StageNames
  <2>3. "qa" \in StageNames
    BY StagesInOrder
  <2> QED BY <1>1, <1>7, <2>1, <2>2, <2>3 DEF Delivered
<1> QED BY <1>1, <1>5, <1>6, <1>7

(* StagesAreTrue: one task for each stage, whatever was executed twice and *)
(* wherever the process died, and a state that is true of the tasks.       *)
THEOREM StagesAreAlwaysTrue == ASSUME DeliveryAssumption PROVE DeliverySpec => StagesAreTrue
<1>1. DeliveryInv /\ [DeliveryNext]_deliveryVars => [NewStage]_deliveryVars
  BY StageIsNext
<1>2. DeliveryInv => StateIsTrue
  BY CalmStateIsTrue
<1> QED
  BY DeliveryStarts, DeliveryKept, <1>1, <1>2, PTL DEF DeliverySpec, StagesAreTrue, OneTaskPerStage, NewStage

-----------------------------------------------------------------------------
(* ToolCommand.  A tool is at work only while it is watched, and what is   *)
(* judged has exited; a result is there when the execution is over.        *)
CommandInv ==
    /\ CommandTypeOK
    /\ toolAt # "watch" => process.is \in {"none", "exited"}
    /\ toolAt \in {"watch", "judge"} => turn.provider <= Len(Providers)
    /\ result # "none" => toolAt = "over"
    /\ SuccessIsEarned

LEMMA CommandStarts == ASSUME CommandAssumption PROVE CommandInit => CommandInv
BY DEF CommandAssumption, CommandInit, CommandInv, CommandTypeOK, SuccessIsEarned, NoProcess, Stopped, Ends

LEMMA CommandKept ==
    ASSUME CommandAssumption, CommandInv, [CommandNext]_commandVars PROVE CommandInv'
<1> USE DEF CommandAssumption, CommandInv, CommandTypeOK, SuccessIsEarned, Ends
<1>a. Len(Providers) \in Nat
  OBVIOUS
<1>b. Stopped \in [Clocks \cup {"grace"} -> Nat]
  BY DEF Stopped
<1>c. NoProcess = [is |-> "none", ends |-> "none", held |-> FALSE] /\ NoProcess.is = "none"
  BY DEF NoProcess
<1>f. NoProcess \in [is : {"none", "working", "told", "killed", "exited"}, ends : Ends, held : BOOLEAN]
  BY <1>c
<1>e. Spawned \in [is : {"none", "working", "told", "killed", "exited"}, ends : Ends, held : BOOLEAN]
  BY <1>f DEF Spawned
<1>0. /\ Len(Providers) \in Nat /\ Stopped \in [Clocks \cup {"grace"} -> Nat]
      /\ NoProcess \in [is : {"none", "working", "told", "killed", "exited"}, ends : Ends, held : BOOLEAN]
      /\ Spawned \in [is : {"none", "working", "told", "killed", "exited"}, ends : Ends, held : BOOLEAN]
      /\ NoProcess.is = "none"
  BY <1>a, <1>b, <1>c, <1>e, <1>f
<1>1. CASE UNCHANGED commandVars
  BY <1>1 DEF commandVars
<1>2. CASE BeginExecution
  <2>1. /\ approved' \in BOOLEAN /\ toolAt' \in {"watch", "next"} /\ (toolAt' = "next" => process' = NoProcess)
        /\ process' \in {Spawned, NoProcess} /\ result = "none"
        /\ UNCHANGED <<gate, clock, cut, result, orphans, setbacks>>
    BY <1>2 DEF BeginExecution
  <2>2. turn'.provider \in 0..Len(Providers) + 1
        /\ turn' \in [provider : 0..Len(Providers) + 1, attempt : 1..2]
    BY <1>0, <1>2 DEF BeginExecution
  <2>3. toolAt' = "watch" => turn'.provider = 0
    BY <1>2 DEF BeginExecution
  <2>4. CommandTypeOK'
    BY <1>0, <2>1, <2>2
  <2> QED BY <1>0, <2>1, <2>2, <2>3, <2>4
<1>3. CASE Attempt
  BY <1>0, <1>3 DEF Attempt, Conclude
<1>4. ASSUME NEW meaningful \in BOOLEAN, Writes(meaningful) PROVE CommandInv'
  <2>1. clock' \in [Clocks \cup {"grace"} -> Nat]
    BY <1>4 DEF Writes, Clocks
  <2> QED BY <1>4, <2>1 DEF Writes, Running
<1>5. CASE Tick
  <2>1. clock' \in [Clocks \cup {"grace"} -> Nat]
    BY <1>5 DEF Tick, Clocks
  <2> QED BY <1>5, <2>1 DEF Tick
<1>6. ASSUME NEW c \in Clocks, TimeOut(c) PROVE CommandInv'
  BY <1>6 DEF TimeOut
<1>7. CASE Kill
  BY <1>7 DEF Kill
<1>8. ASSUME NEW how \in {"well", "badly", "outside"}, Exit(how) PROVE CommandInv'
  BY <1>8 DEF Exit
<1>9. CASE HoldPipes
  BY <1>9 DEF HoldPipes, Setback, Running
<1>10. CASE ClosePipes
  BY <1>0, <1>10 DEF ClosePipes
<1>11. CASE SpawnFails
  BY <1>0, <1>11 DEF SpawnFails, Setback, Conclude
<1>12. CASE Judge
  <2>1. /\ toolAt = "judge" /\ clock' = Stopped /\ UNCHANGED <<gate, approved, orphans, setbacks>>
        /\ toolAt' \in {"over", "next"}
    BY <1>12 DEF Judge, Conclude
  <2>2. CASE toolAt' = "over"
    BY <1>0, <1>12, <2>1, <2>2 DEF Judge, Conclude, Worked
  <2>3. CASE toolAt' = "next"
    <3>1. turn' \in [provider : 0..Len(Providers) + 1, attempt : 1..2]
      BY <1>0, <1>12, <2>1, <2>3 DEF Judge, Conclude
    <3>2. result' = result /\ process' = NoProcess /\ cut' = {}
      BY <1>12, <2>1, <2>3 DEF Judge, Conclude
    <3> QED BY <1>0, <2>1, <2>3, <3>1, <3>2
  <2> QED BY <2>1, <2>2, <2>3
<1>13. CASE CrashExecution
  BY <1>0, <1>13 DEF CrashExecution, Setback
<1>14. CASE OrphanEnds
  BY <1>14 DEF OrphanEnds
<1> QED
  BY <1>1, <1>2, <1>3, <1>4, <1>5, <1>6, <1>7, <1>8, <1>9, <1>10, <1>11, <1>12, <1>13, <1>14
  DEF CommandNext, Timers, Slot

(* An execution, its process and its clocks keep their types.              *)
THEOREM CommandTypes == ASSUME CommandAssumption PROVE CommandSpec => []CommandTypeOK
<1>1. CommandInv => CommandTypeOK
  BY DEF CommandInv
<1> QED BY CommandStarts, CommandKept, <1>1, PTL DEF CommandSpec

(* No step leaves a tool at work behind.                                   *)
LeavesNoTool ==
    process.is \in {"working", "told", "killed"} /\ toolAt' \in {"next", "over"} /\ setbacks' = setbacks
      => FALSE

LEMMA CommandLeavesNoTool ==
    ASSUME CommandInv, CommandNext PROVE LeavesNoTool
<1> SUFFICES ASSUME process.is \in {"working", "told", "killed"}, toolAt' \in {"next", "over"}
             PROVE  setbacks' # setbacks
  BY DEF LeavesNoTool
<1>1. toolAt = "watch"
  BY DEF CommandInv
<1> QED
  BY <1>1 DEF CommandNext, Timers, Slot, BeginExecution, Attempt, Writes, Tick, TimeOut, Kill, Exit,
     HoldPipes,
     ClosePipes, SpawnFails, Judge, CrashExecution, OrphanEnds, Conclude, Setback

(* CommandsAreSound: a task is completed by a tool that ended well before  *)
(* its clocks ran out, and no attempt begins beside the tool of the last.  *)
THEOREM CommandsAreAlwaysSound == ASSUME CommandAssumption PROVE CommandSpec => CommandsAreSound
<1>1. CommandInv => SuccessIsEarned
  BY DEF CommandInv
<1>2. CommandInv /\ [CommandNext]_commandVars => [LeavesNoTool]_commandVars
  BY CommandLeavesNoTool
<1> QED
  BY CommandStarts, CommandKept, <1>1, <1>2, PTL
  DEF CommandSpec, CommandsAreSound, OneToolAtATime, LeavesNoTool

-----------------------------------------------------------------------------
(* Collaboration. A collaboration that nothing disturbs goes through the   *)
(* stages of a team round. The argument is one predicate per stage,        *)
(* TeamRoundInv: where each slot stands, and who bears the merge. From the *)
(* opening of a merge to its report there is one bearer, first the slot    *)
(* that announces it and then the aggregation task; that is what keeps two *)
(* merges from racing for the outcome of the boss.                         *)

Outside == Roles \cup Merges

Is(status, phase) == team.status = status /\ team.phase = phase

BossIs(status, at) == task[Boss].status = status /\ task[Boss].at = at

QuietTask(t) == task[t].at = "idle" /\ task[t].status \in Terminal \cup {"absent"}

UnbornTask(t) == task[t].at = "idle" /\ task[t].status = "absent"

(* A role that is done, whose report may still be on its way.              *)
RoleDone(r) ==
    /\ task[r].status \in Terminal \cup {"absent"}
    /\ task[r].at \in {"idle", "reporting", "pushing"}
    /\ task[r].status = "absent" => task[r].at = "idle"

RoleAtWork(r) ==
    \/ (task[r].status \in {"absent", "queued"} /\ task[r].at = "idle")
    \/ (task[r].status = "running" /\ task[r].at = "working")
    \/ /\ task[r].status \in {"held", "completed", "failed"}
       /\ task[r].at \in {"idle", "reporting", "pushing"}
       /\ task[r].at = "pushing" => task[r].saw = "execution"

SomeRole == \E r \in Roles : task[r].status # "absent"

Forming ==
    /\ Is("absent", "none") /\ ~resume
    /\ BossIs("queued", "idle") \/ BossIs("running", "planning")
    /\ \A t \in Outside : UnbornTask(t)

(* The last role to report opens the merge: until then one is at work.     *)
TeamWorking ==
    /\ Is("active", "execution") /\ ~resume
    /\ BossIs("running", "idle")
    /\ \A m \in Merges : UnbornTask(m)
    /\ \A r \in Roles : RoleAtWork(r)
    /\ \E r \in Roles : task[r].status # "absent" /\ ~QuietTask(r)

AnnouncedBy(t) ==
    /\ t \notin Merges
    /\ task[t].at = "announcing"
    /\ IF t = Boss THEN task[Boss].status = "running" ELSE BossIs("running", "idle")
    /\ t \in Roles => task[t].status \in Terminal
    /\ \A r \in Roles \ {t} : RoleDone(r)

MergedBy(m) ==
    /\ m \in Merges
    /\ BossIs("running", "idle")
    /\ \/ /\ \/ (task[m].status = "queued" /\ task[m].at = "idle")
             \/ (task[m].status = "running" /\ task[m].at = "working")
          /\ \A r \in Roles : RoleDone(r)
       \/ /\ task[m].status \in {"completed", "failed", "held"} /\ task[m].at = "reporting"
          /\ \A r \in Roles : QuietTask(r)

Bears(t) ==
    /\ AnnouncedBy(t) \/ MergedBy(t)
    /\ \A m \in Merges \ {t} : QuietTask(m)

Merged ==
    /\ Is("active", "aggregation") /\ ~resume
    /\ SomeRole
    /\ \E t \in Tasks : Bears(t)

(* The merge whose announcement is under way, if any, has completed.       *)
MergesOver ==
    \A m \in Merges : QuietTask(m) \/ (task[m].status = "completed" /\ task[m].at = "closing")

TeamAsking ==
    /\ Is("active", "await_user")
    /\ SomeRole /\ \A r \in Roles : QuietTask(r)
    /\ \/ (BossIs("completed", "idle") /\ ~resume /\ MergesOver)
       \/ /\ BossIs("queued", "idle") \/ BossIs("running", "resuming")
          /\ resume /\ shown = "active"
          /\ \A m \in Merges : QuietTask(m)

Answering ==
    /\ Is("active", "converge") /\ ~resume
    /\ SomeRole /\ \A t \in Outside : QuietTask(t)
    /\ BossIs("running", "reopening")

TeamDelivered ==
    /\ Is("completed", "completed")
    /\ SomeRole /\ \A r \in Roles : QuietTask(r)
    /\ BossIs("completed", "idle")
    /\ MergesOver

(* A merge that was held may be released after the failure: nobody         *)
(* listens.                                                                *)
Failing ==
    /\ Is("failed", "aggregation")
    /\ SomeRole /\ \A r \in Roles : QuietTask(r)
    /\ BossIs("failed", "idle")
    /\ \E o \in Merges :
          /\ task[o].at \in {"idle", "working", "reporting"}
          /\ \A m \in Merges \ {o} : QuietTask(m)

TeamRoundInv ==
    Undisturbed => Forming \/ TeamWorking \/ Merged \/ TeamAsking \/ Answering \/ TeamDelivered \/ Failing

-----------------------------------------------------------------------------
(* Types.                                                                  *)

TaskRows == [status : Statuses, at : Places, saw : Phases, mode : Modes]

TeamRows == [status : {"absent", "active", "completed", "failed"}, phase : Phases, heard : SUBSET Roles]

MergeRows == [mode : Modes, heard : SUBSET Roles]

Sights == {"none", "active", "await_user", "partial", "completed", "failed"}

TeamTyped ==
    /\ task \in [Tasks -> TaskRows]
    /\ team \in TeamRows
    /\ merge \in [Merges -> MergeRows]
    /\ shown \in Sights
    /\ resume \in BOOLEAN
    /\ replies \in 0..MaxReplies
    /\ faults \in 0..MaxFaults

(* A merge that is closed was not blocked: a blocked one is left at once.  *)
ClosingOK ==
    \A m \in Merges :
        /\ task[m].at # "idle" => task[m].status # "absent"
        /\ task[m].at = "closing" => merge[m].mode # "blocked"

(* The types of Collaboration, with the sets of records named.             *)
LEMMA TypedIsTypeOK ==
    TypeOK <=> TeamTyped
  BY DEF TypeOK, TeamTyped, TaskRows, TeamRows, MergeRows, Sights

(* A new row is a row, wherever its slot stands.                           *)
LEMMA RowsAreTyped ==
    ASSUME NEW status \in Statuses
    PROVE  /\ Row(status) \in TaskRows
           /\ \A at \in Places : [Row(status) EXCEPT !.at = at] \in TaskRows
  BY DEF Row, TaskRows, Places, Phases, Modes

(* A row with one field changed is a row.                                  *)
LEMMA FieldsAreTyped ==
    ASSUME NEW row \in TaskRows
    PROVE  /\ row.status \in Statuses /\ row.at \in Places /\ row.saw \in Phases /\ row.mode \in Modes
           /\ \A status \in Statuses : [row EXCEPT !.status = status] \in TaskRows
           /\ \A at \in Places : [row EXCEPT !.at = at] \in TaskRows
           /\ \A saw \in Phases : [row EXCEPT !.saw = saw] \in TaskRows
           /\ \A mode \in Modes : [row EXCEPT !.mode = mode] \in TaskRows
  BY DEF TaskRows

(* The same of the record of the collaboration.                            *)
LEMMA TeamsAreTyped ==
    ASSUME NEW record \in TeamRows
    PROVE  /\ record.status \in {"absent", "active", "completed", "failed"}
           /\ record.phase \in Phases /\ record.heard \in SUBSET Roles
           /\ \A status \in {"absent", "active", "completed", "failed"}, phase \in Phases :
                 [record EXCEPT !.status = status, !.phase = phase] \in TeamRows
           /\ \A r \in Roles : [record EXCEPT !.heard = @ \cup {r}] \in TeamRows
  BY DEF TeamRows

(* The services that update the record keep its type.                      *)
LEMMA AdvancesTyped ==
    ASSUME TeamTyped, NEW phase \in Phases
    PROVE  /\ Advance(phase) \in TeamRows
           /\ FailCollaboration \in TeamRows
           /\ CompleteCollaboration \in TeamRows
  <1>1. /\ team.status \in {"absent", "active", "completed", "failed"} /\ team.phase \in Phases
        /\ "completed" \in Phases
    BY TeamsAreTyped DEF TeamTyped, Phases
  <1>2. ASSUME NEW s \in {"absent", "active", "completed", "failed"}, NEW p \in Phases
        PROVE  Updated(s, p) \in TeamRows
    BY TeamsAreTyped DEF TeamTyped, Updated
  <1> QED
    BY <1>1, <1>2 DEF Advance, FailCollaboration, CompleteCollaboration

(* So do the helpers that write a row ...                                  *)
LEMMA SettlesTyped ==
    ASSUME TeamTyped, NEW t \in Tasks, NEW status \in Statuses, NEW at \in Places, Settle(t, status, at)
    PROVE  task' \in [Tasks -> TaskRows]
  BY RowsAreTyped DEF Settle, TeamTyped

(* ... or take the slot away from it,                                      *)
LEMMA LeavesTyped ==
    ASSUME TeamTyped, NEW t \in Tasks, Leave(t)
    PROVE  task' \in [Tasks -> TaskRows]
  BY RowsAreTyped, FieldsAreTyped DEF Leave, TeamTyped

(* ... the creation of an aggregation task,                                *)
LEMMA CreatesTyped ==
    ASSUME TeamTyped, NEW t \in Tasks, NEW mode \in Modes, CreateMerge(t, mode)
    PROVE  task' \in [Tasks -> TaskRows] /\ merge' \in [Merges -> MergeRows]
  <1> DEFINE m == CHOOSE m \in FreshMerges : TRUE
  <1>1. m \in FreshMerges
    <2>1. FreshMerges # {}
      BY DEF CreateMerge
    <2> QED
      BY <2>1
  <1>2. /\ merge' = [merge EXCEPT ![m] = [mode |-> mode, heard |-> team.heard]]
        /\ task' = [task EXCEPT ![m] = Row("queued"), ![t] = Row(task[t].status)]
    BY DEF CreateMerge
  <1> HIDE DEF m
  <1>3. [mode |-> mode, heard |-> team.heard] \in MergeRows
    BY TeamsAreTyped DEF TeamTyped, MergeRows
  <1>4. Row("queued") \in TaskRows /\ Row(task[t].status) \in TaskRows
    BY RowsAreTyped, FieldsAreTyped DEF TeamTyped, Statuses
  <1> QED
    BY <1>1, <1>2, <1>3, <1>4 DEF TeamTyped, FreshMerges

(* ... the opening of a merge,                                             *)
LEMMA OpensTyped ==
    ASSUME TeamTyped, NEW t \in Tasks, NEW mode \in Modes, OpenMerge(t, mode)
    PROVE  task' \in [Tasks -> TaskRows] /\ merge' \in [Merges -> MergeRows] /\ team' \in TeamRows
  <1>1. CASE Merging(team.phase)
    BY <1>1, LeavesTyped DEF OpenMerge, TeamTyped
  <1>2. CASE ~Merging(team.phase)
    <2>1. team' \in TeamRows
      BY <1>2, AdvancesTyped DEF OpenMerge, Phases
    <2>2. CASE mode \in {"partial", "await_user"}
      <3> DEFINE row == [task[t] EXCEPT !.at = "announcing"]
                 next == [row EXCEPT !.mode = mode]
      <3>1. row \in TaskRows
        BY FieldsAreTyped DEF TeamTyped, Places
      <3> HIDE DEF row
      <3>2. next \in TaskRows
        BY <3>1, FieldsAreTyped
      <3>3. task' = [task EXCEPT ![t] = next]
        BY <1>2, <2>2 DEF OpenMerge, TeamTyped, row
      <3> HIDE DEF next
      <3> QED
        BY <1>2, <2>1, <2>2, <3>2, <3>3 DEF OpenMerge, TeamTyped
    <2>3. CASE mode \notin {"partial", "await_user"}
      BY <1>2, <2>1, <2>3, CreatesTyped DEF OpenMerge
    <2> QED
      BY <2>2, <2>3
  <1> QED
    BY <1>1, <1>2

(* ... a fault, or its absence,                                            *)
LEMMA FaultsTyped ==
    ASSUME TeamAssumption, TeamTyped,
           UNCHANGED faults \/ \E h \in AllHazards : Fault(h)
    PROVE  faults' \in 0..MaxFaults
  BY DEF Fault, TeamTyped, TeamAssumption

(* ... the report of a role,                                               *)
LEMMA ReportsTyped ==
    ASSUME TeamAssumption, TeamTyped, NEW t \in Tasks, ReportRole(t)
    PROVE  TeamTyped'
  <1> DEFINE row == [task[t] EXCEPT !.at = "pushing"]
             next == [row EXCEPT !.saw = team.phase]
  <1>1. row \in TaskRows
    BY FieldsAreTyped DEF TeamTyped, Places
  <1> HIDE DEF row
  <1>2. next \in TaskRows
    BY <1>1, FieldsAreTyped, TeamsAreTyped DEF TeamTyped
  <1>3. task' = [task EXCEPT ![t] = next]
    BY DEF ReportRole, TeamTyped, row
  <1> HIDE DEF next
  <1>4. team' \in TeamRows
    BY TeamsAreTyped DEF ReportRole, RecordPhaseResult, TeamTyped
  <1> QED
    BY <1>2, <1>3, <1>4 DEF ReportRole, TeamTyped

(* ... the report of a merge, which settles the boss,                      *)
LEMMA MergeReportsTyped ==
    ASSUME TeamAssumption, TeamTyped, NEW m \in Merges, ReportFailedMerge(m) \/ ReportMerge(m)
    PROVE  TeamTyped'
  <1>1. Boss \in Tasks /\ m \in Tasks /\ m # Boss
    BY DEF Tasks, TeamAssumption
  <1>2. \E at \in Places, status \in Statuses :
           task' = [task EXCEPT ![m].at = at, ![Boss].status = status]
    BY DEF ReportFailedMerge, ReportMerge, Places, Statuses
  <1>3. task' \in [Tasks -> TaskRows]
    <2> PICK at \in Places, status \in Statuses :
               task' = [task EXCEPT ![m].at = at, ![Boss].status = status]
      BY <1>2
    <2>1. task' = [task EXCEPT ![m] = [task[m] EXCEPT !.at = at],
                               ![Boss] = [task[Boss] EXCEPT !.status = status]]
      BY <1>1 DEF TeamTyped
    <2> QED
      BY <1>1, <2>1, FieldsAreTyped DEF TeamTyped
  <1>4. team' \in TeamRows
    <2>1. "await_user" \in Phases
      BY DEF Phases
    <2> QED
      BY <2>1, AdvancesTyped DEF ReportFailedMerge, ReportMerge
  <1>5. shown' \in Sights
    BY DEF ReportFailedMerge, ReportMerge, Sights
  <1> QED
    BY <1>3, <1>4, <1>5 DEF ReportFailedMerge, ReportMerge, TeamTyped

(* ... and the split of the boss, whole or in part.                        *)
LEMMA AssignsTyped ==
    ASSUME TeamAssumption, TeamTyped, NEW born \in SUBSET Roles,
           NEW phase \in Phases, NEW status \in Statuses, Assign(born, phase, status)
    PROVE  /\ task' \in [Tasks -> TaskRows] /\ team' \in TeamRows
           /\ shown' \in Sights /\ UNCHANGED <<merge, resume, replies>>
  <1>1. task' \in [Tasks -> TaskRows]
    BY RowsAreTyped DEF Assign, TeamTyped, Statuses
  <1>2. team' \in TeamRows
    BY TeamsAreTyped DEF Assign, Updated, TeamTyped
  <1> QED
    BY <1>1, <1>2 DEF Assign, Sights

(* Decisions are modes, and what is shown for them can be shown.           *)
LEMMA DecisionIsMode ==
    ASSUME TeamAssumption
    PROVE  DecisionMode \in Modes /\ ManualMode \in Modes /\ \A mode : ShownFor(mode) \in Sights
  BY DEF TeamAssumption, DecisionMode, Modes, ShownFor, Sights

(* Every step keeps the types.                                             *)
LEMMA TeamTypedStep ==
    ASSUME TeamAssumption, TeamTyped, ClosingOK, [Next]_vars
    PROVE  TeamTyped'
  <1> USE DEF Tasks
  <1>1. ASSUME NEW t \in Tasks, Claim(t) PROVE TeamTyped'
    BY <1>1, SettlesTyped DEF Claim, TeamTyped, Statuses, Places
  <1>2. CASE StartCollaboration \/ StartPartly
    <2>1. \E born \in SUBSET Roles, phase \in Phases, status \in Statuses : Assign(born, phase, status)
      BY <1>2 DEF StartCollaboration, StartPartly, Participants, Phases, Statuses
    <2>2. faults' \in 0..MaxFaults
      BY <1>2, FaultsTyped DEF StartCollaboration, StartPartly, AllHazards
    <2> QED
      BY <2>1, <2>2, AssignsTyped DEF TeamTyped
  <1>3. ASSUME NEW t \in Tasks, NEW status \in {"completed", "failed", "held"}, Work(t, status)
        PROVE  TeamTyped'
    <2>1. faults' \in 0..MaxFaults
      BY <1>3, FaultsTyped DEF Work, AllHazards
    <2>2. task' \in [Tasks -> TaskRows]
      BY <1>3, SettlesTyped DEF Work, Statuses, Places
    <2> QED
      BY <1>3, <2>1, <2>2 DEF Work, TeamTyped
  <1>4. ASSUME NEW t \in Tasks, ReportToNobody(t) PROVE TeamTyped'
    BY <1>4, LeavesTyped DEF ReportToNobody, TeamTyped
  <1>5. ASSUME NEW t \in Tasks, Decide(t) PROVE TeamTyped'
    <2>1. task' \in [Tasks -> TaskRows] /\ merge' \in [Merges -> MergeRows] /\ team' \in TeamRows
      BY <1>5, OpensTyped, LeavesTyped, DecisionIsMode DEF Decide, TeamTyped
    <2>2. shown' \in Sights
      BY <1>5, DecisionIsMode DEF Decide, TeamTyped
    <2> QED
      BY <1>5, <2>1, <2>2 DEF Decide, TeamTyped
  <1>6. ASSUME NEW t \in Tasks, Announce(t) PROVE TeamTyped'
    <2>1. task[t].mode \in Modes
      BY FieldsAreTyped DEF TeamTyped
    <2> QED
      BY <1>6, <2>1, CreatesTyped DEF Announce, TeamTyped
  <1>7. ASSUME NEW m \in Merges, CloseMerge(m) PROVE TeamTyped'
    <2>1. merge[m].mode \in Modes \ {"blocked"}
      BY <1>7 DEF TeamTyped, ClosingOK, CloseMerge, MergeRows
    <2>2. shown' \in Sights
      BY <1>7, <2>1 DEF CloseMerge, Modes, Sights
    <2> QED
      BY <1>7, <2>2, LeavesTyped DEF CloseMerge, TeamTyped
  <1>8. CASE Resume
    <2>1. team' \in TeamRows
      BY <1>8, TeamsAreTyped DEF Resume, Updated, TeamTyped, Phases
    <2>2. task' \in [Tasks -> TaskRows]
      BY <1>8, FieldsAreTyped DEF Resume, TeamTyped, Places
    <2> QED
      BY <1>8, <2>1, <2>2 DEF Resume, TeamTyped, Sights
  <1>9. CASE Reopen
    <2>1. task' \in [Tasks -> TaskRows] /\ merge' \in [Merges -> MergeRows] /\ team' \in TeamRows
      BY <1>9, OpensTyped, DecisionIsMode DEF Reopen
    <2> QED
      BY <1>9, <2>1 DEF Reopen, TeamTyped, Sights
  <1>10. CASE Reply
    <2>1. faults' \in 0..MaxFaults
      BY <1>10, FaultsTyped DEF Reply, AllHazards
    <2>2. task' \in [Tasks -> TaskRows]
      BY <1>10, FieldsAreTyped DEF Reply, TeamTyped, Statuses
    <2> QED
      BY <1>10, <2>1, <2>2 DEF Reply, TeamTyped, Sights, TeamAssumption
  <1>11. ASSUME NEW t \in Tasks, RequeueStale(t) \/ Release(t) \/ Throw(t) PROVE TeamTyped'
    <2>1. faults' \in 0..MaxFaults
      BY <1>11, FaultsTyped DEF RequeueStale, Release, Throw, AllHazards
    <2>2. \E status \in Statuses, at \in Places : Settle(t, status, at)
      BY <1>11 DEF RequeueStale, Release, Throw, Statuses, Places
    <2>3. task' \in [Tasks -> TaskRows]
      BY <2>2, SettlesTyped
    <2> QED
      BY <1>11, <2>1, <2>3 DEF RequeueStale, Release, Throw, TeamTyped
  <1>12. ASSUME NEW t \in Tasks, CloseOrphan(t) \/ Cancel(t) PROVE TeamTyped'
    <2>1. faults' \in 0..MaxFaults
      BY <1>12, FaultsTyped DEF CloseOrphan, Cancel, AllHazards
    <2>2. task' \in [Tasks -> TaskRows]
      BY <1>12, FieldsAreTyped DEF CloseOrphan, Cancel, TeamTyped, Statuses
    <2> QED
      BY <1>12, <2>1, <2>2 DEF CloseOrphan, Cancel, TeamTyped
  <1>13. CASE Crash
    <2>1. faults' \in 0..MaxFaults
      BY <1>13, FaultsTyped DEF Crash, AllHazards
    <2>2. task' \in [Tasks -> TaskRows]
      BY <1>13, FieldsAreTyped, RowsAreTyped DEF Crash, TeamTyped
    <2> QED
      BY <1>13, <2>1, <2>2 DEF Crash, TeamTyped
  <1>14. CASE UNCHANGED vars
    BY <1>14 DEF vars, TeamTyped
  <1> QED
    BY <1>1, <1>2, <1>3, <1>4, <1>5, <1>6, <1>7, <1>8, <1>9, <1>10, <1>11, <1>12, <1>13, <1>14,
       ReportsTyped, MergeReportsTyped
       DEF Next, TaskStep, SlotStep, SweepStep, Finish, GiveUp, Hold

(* ... and leaves a blocked merge without a slot that would close it.      *)
LEMMA ClosingStep ==
    ASSUME TeamAssumption, TeamTyped, ClosingOK, [Next]_vars
    PROVE  ClosingOK'
  <1> SUFFICES ASSUME NEW m \in Merges
               PROVE  /\ task'[m].at # "idle" => task'[m].status # "absent"
                      /\ task'[m].at = "closing" => merge'[m].mode # "blocked"
    BY DEF ClosingOK
  <1> USE DEF Tasks, Row
  <1>0. /\ task[m].at # "idle" => task[m].status # "absent"
        /\ task[m].at = "closing" => merge[m].mode # "blocked"
        /\ m \in Tasks /\ m # Boss
    BY DEF ClosingOK, TeamAssumption
  <1>1. ASSUME NEW t \in Tasks, NEW status \in Statuses \ {"absent"}, NEW at \in Places \ {"closing"},
               Settle(t, status, at), UNCHANGED merge
        PROVE  /\ task'[m].at # "idle" => task'[m].status # "absent"
               /\ task'[m].at = "closing" => merge'[m].mode # "blocked"
    BY <1>0, <1>1 DEF TeamTyped, Settle
  <1>2. ASSUME NEW t \in Tasks, Leave(t), UNCHANGED merge
        PROVE  /\ task'[m].at # "idle" => task'[m].status # "absent"
               /\ task'[m].at = "closing" => merge'[m].mode # "blocked"
    BY <1>0, <1>2 DEF TeamTyped, Leave
  <1>3. ASSUME NEW t \in Tasks, NEW mode, CreateMerge(t, mode)
        PROVE  /\ task'[m].at # "idle" => task'[m].status # "absent"
               /\ task'[m].at = "closing" => merge'[m].mode # "blocked"
    <2> DEFINE n == CHOOSE n \in FreshMerges : TRUE
    <2>1. n \in FreshMerges /\ task' = [task EXCEPT ![n] = Row("queued"), ![t] = Row(@.status)]
      BY <1>3 DEF CreateMerge
    <2>2. n \in Merges /\ n \in Tasks /\ task[n].status = "absent"
      BY <2>1 DEF FreshMerges
    <2>3. merge' = [merge EXCEPT ![n] = [mode |-> mode, heard |-> team.heard]]
      BY <1>3 DEF CreateMerge
    <2> HIDE DEF n
    <2>4. task'[m].at # "idle" => m # n /\ m # t /\ task'[m] = task[m]
      BY <2>1, <2>2, <1>0 DEF TeamTyped
    <2> QED
      BY <1>0, <2>3, <2>4 DEF TeamTyped
  <1>4. ASSUME NEW t \in Tasks, NEW mode, OpenMerge(t, mode), task[t].at # "idle"
        PROVE  /\ task'[m].at # "idle" => task'[m].status # "absent"
               /\ task'[m].at = "closing" => merge'[m].mode # "blocked"
    <2>1. CASE task' = [task EXCEPT ![t].at = "announcing", ![t].mode = mode] /\ UNCHANGED merge
      <3>1. CASE t = m
        <4> DEFINE row == [task[t] EXCEPT !.at = "announcing"]
        <4>0. task[t] \in TaskRows
          BY DEF TeamTyped
        <4>1. row \in TaskRows /\ row.status = task[t].status
          BY <4>0 DEF TaskRows, Places
        <4>2. task'[t] = [row EXCEPT !.mode = mode]
          BY <2>1 DEF TeamTyped
        <4>3. task'[t].status = task[t].status
          <5> HIDE DEF row
          <5> QED
            BY <4>1, <4>2 DEF TaskRows
        <4>4. task'[t].at = "announcing"
          BY <2>1 DEF TeamTyped, TaskRows
        <4> QED
          BY <1>0, <1>4, <3>1, <4>3, <4>4
      <3>2. CASE t # m
        BY <1>0, <2>1, <3>2 DEF TeamTyped
      <3> QED
        BY <3>1, <3>2
    <2> QED
      BY <1>2, <1>3, <1>4, <2>1 DEF OpenMerge
  <1>5. ASSUME NEW t \in Tasks,
               Claim(t) \/ Finish(t) \/ GiveUp(t) \/ Hold(t) \/ RequeueStale(t) \/ Release(t) \/ Throw(t)
        PROVE  /\ task'[m].at # "idle" => task'[m].status # "absent"
               /\ task'[m].at = "closing" => merge'[m].mode # "blocked"
    <2>1. \E status \in Statuses \ {"absent"}, at \in Places \ {"closing"} : Settle(t, status, at)
      BY <1>5 DEF Claim, Finish, GiveUp, Hold, Work, RequeueStale, Release, Throw, Statuses,
         Places
    <2>2. UNCHANGED merge
      BY <1>5 DEF Claim, Finish, GiveUp, Hold, Work, RequeueStale, Release, Throw
    <2> QED
      BY <1>1, <2>1, <2>2
  <1>6. ASSUME NEW t \in Tasks,
               ReportToNobody(t) \/ Decide(t) \/ Announce(t) \/ (t \in Merges /\ CloseMerge(t)) \/ Reopen
        PROVE  /\ task'[m].at # "idle" => task'[m].status # "absent"
               /\ task'[m].at = "closing" => merge'[m].mode # "blocked"
    BY <1>2, <1>3, <1>4, <1>6 DEF ReportToNobody, Decide, Announce, CloseMerge, Reopen
  <1>7. ASSUME NEW t \in Tasks, ReportRole(t) \/ CloseOrphan(t) \/ Cancel(t) \/ Reply \/ Resume
        PROVE  /\ task'[m].at # "idle" => task'[m].status # "absent"
               /\ task'[m].at = "closing" => merge'[m].mode # "blocked"
    <2>1. UNCHANGED merge
      BY <1>7 DEF ReportRole, CloseOrphan, Cancel, Reply, Resume
    <2>2. /\ task'[m].at = "closing" => task[m].at = "closing"
          /\ task'[m].at # "idle" => task'[m].status # "absent"
      BY <1>0, <1>7 DEF TeamTyped, TaskRows, ReportRole, CloseOrphan, Cancel, Reply, Resume
    <2> QED
      BY <1>0, <2>1, <2>2
  <1>8. ASSUME NEW n \in Merges, ReportFailedMerge(n) \/ ReportMerge(n)
        PROVE  /\ task'[m].at # "idle" => task'[m].status # "absent"
               /\ task'[m].at = "closing" => merge'[m].mode # "blocked"
    <2>1. UNCHANGED merge
      BY <1>8 DEF ReportFailedMerge, ReportMerge
    <2>2. /\ task'[m].at = "closing" => task[m].at = "closing" \/ merge[m].mode # "blocked"
          /\ task'[m].at # "idle" => task'[m].status # "absent"
      BY <1>0, <1>8 DEF TeamTyped, TaskRows, ReportFailedMerge, ReportMerge
    <2> QED
      BY <1>0, <2>1, <2>2
  <1>9. CASE StartCollaboration \/ StartPartly \/ Crash
    <2>1. UNCHANGED merge /\ (task'[m] = task[m] \/ task'[m].at = "idle")
      BY <1>0, <1>9 DEF StartCollaboration, StartPartly, Crash, Assign
    <2> QED
      BY <1>0, <2>1
  <1>10. CASE UNCHANGED vars
    BY <1>0, <1>10 DEF vars
  <1>11. CASE Reply \/ Resume \/ Reopen
    <2> Boss \in Tasks
      OBVIOUS
    <2> QED
      BY <1>6, <1>7, <1>11
  <1> QED
    BY <1>5, <1>6, <1>7, <1>8, <1>9, <1>10, <1>11 DEF Next, TaskStep, SlotStep, SweepStep

(* Both hold from the first state on.                                      *)
LEMMA TeamStarts == ASSUME TeamAssumption, Init PROVE TeamTyped /\ ClosingOK
  <1>1. \A t \in Tasks : Row(IF t = Boss THEN "queued" ELSE "absent") \in TaskRows
    BY RowsAreTyped DEF Statuses
  <1>2. team \in TeamRows
    BY DEF Init, TeamRows, Phases
  <1>3. NoMerge \in MergeRows
    BY DEF NoMerge, MergeRows, Modes
  <1>4. task \in [Tasks -> TaskRows] /\ merge \in [Merges -> MergeRows]
    BY <1>1, <1>3 DEF Init
  <1>5. replies \in 0..MaxReplies /\ faults \in 0..MaxFaults
    BY DEF Init, TeamAssumption
  <1>6. shown \in Sights /\ resume \in BOOLEAN
    BY DEF Init, Sights
  <1>7. ClosingOK
    BY DEF Init, ClosingOK, Row, Tasks
  <1> QED
    BY <1>2, <1>4, <1>5, <1>6, <1>7 DEF TeamTyped

LEMMA TypesAlways ==
    ASSUME TeamAssumption
    PROVE  Spec => [](TeamTyped /\ ClosingOK)
  <1>1. Init => TeamTyped /\ ClosingOK
    BY TeamStarts
  <1>2. (TeamTyped /\ ClosingOK) /\ [Next]_vars => (TeamTyped /\ ClosingOK)'
    BY TeamTypedStep, ClosingStep
  <1> QED
    BY <1>1, <1>2, PTL DEF Spec

(* TypeOK of Collaboration, for any team, merges, slots and faults.        *)
THEOREM TypeCorrect ==
    ASSUME TeamAssumption
    PROVE  Spec => []TypeOK
  BY TypesAlways, TypedIsTypeOK, PTL

-----------------------------------------------------------------------------
(* What a step without a fault does, to the rows, to the record and to     *)
(* what the user is shown.                                                 *)

Moves(t, status, at) ==
    \A u \in Tasks :
        /\ task'[u].status = IF u = t THEN status ELSE task[u].status
        /\ task'[u].at = IF u = t THEN at ELSE task[u].at
        /\ u # t => task'[u].saw = task[u].saw

Becomes(status, phase) == team'.status = status /\ team'.phase = phase

Same == UNCHANGED <<team, shown, resume>>

Creates(t) ==
    \E m \in FreshMerges : \A u \in Tasks :
        /\ task'[u].status = IF u = m THEN "queued" ELSE task[u].status
        /\ task'[u].at = IF u \in {m, t} THEN "idle" ELSE task[u].at

Claims(t) ==
    /\ task[t].status = "queued" /\ task[t].at = "idle"
    /\ Moves(t, "running", IF t # Boss THEN "working"
                           ELSE IF team.status = "absent" THEN "planning"
                           ELSE IF resume THEN "resuming" ELSE "alone")
    /\ Same

Splits ==
    /\ task[Boss].at = "planning"
    /\ \E born \in SUBSET Roles : born # {} /\ \A u \in Tasks :
          /\ task'[u].status = IF u \in born THEN "queued" ELSE IF u = Boss THEN "running" ELSE task[u].status
          /\ task'[u].at = IF u \in born \cup {Boss} THEN "idle" ELSE task[u].at
    /\ Becomes("active", "execution") /\ UNCHANGED resume

EndsWork(t) ==
    /\ task[t].at \in {"working", "alone"}
    /\ t \in Merges => Reporting = {}
    /\ \E status \in {"completed", "failed", "held"} : Moves(t, status, "reporting")
    /\ Same

Ignores(t) ==
    /\ task[t].at = "reporting" /\ team.status # "active"
    /\ Moves(t, task[t].status, "idle") /\ Same

Reports(t) ==
    /\ t \notin Merges
    /\ task[t].at = "reporting" /\ team.status = "active"
    /\ Moves(t, task[t].status, "pushing") /\ task'[t].saw = team.phase
    /\ Becomes(team.status, team.phase) /\ UNCHANGED <<shown, resume>>

Drops(t) ==
    /\ task[t].at = "pushing"
    /\ ~AllTerminal \/ Merging(task[t].saw) \/ Merging(team.phase)
    /\ Moves(t, task[t].status, "idle")
    /\ UNCHANGED <<team, resume>>

Opens(t) ==
    /\ \/ task[t].at = "pushing" /\ AllTerminal
       \/ t = Boss /\ task[t].at = "reopening"
    /\ ~Merging(team.phase)
    /\ Moves(t, task[t].status, "announcing") \/ Creates(t)
    /\ Becomes(team.status, "aggregation") /\ UNCHANGED resume

Withdraws == task[Boss].at = "reopening" /\ Merging(team.phase)

Announces(t) == task[t].at = "announcing" /\ Creates(t) /\ Same

FailsTeam(m) ==
    /\ m \in Merges /\ task[m].at = "reporting" /\ team.status = "active"
    /\ \A u \in Tasks :
          /\ task'[u].status = IF u = Boss THEN "failed" ELSE task[u].status
          /\ task'[u].at = IF u = m THEN "idle" ELSE task[u].at
    /\ Becomes("failed", team.phase) /\ UNCHANGED resume

Concludes(m) ==
    /\ m \in Merges /\ task[m].at = "reporting" /\ team.status = "active"
    /\ task[m].status = "completed"
    /\ \A u \in Tasks :
          /\ task'[u].status = IF u = Boss THEN "completed" ELSE task[u].status
          /\ task'[u].at = IF u = m THEN "closing" ELSE task[u].at
    /\ Becomes(team.status, "await_user") \/ Becomes("completed", "completed")
    /\ UNCHANGED resume

Closes(m) ==
    /\ m \in Merges /\ task[m].at = "closing"
    /\ Moves(m, task[m].status, "idle") /\ UNCHANGED <<team, resume>>

UserReplies ==
    /\ Asked /\ shown = "await_user"
    /\ Moves(Boss, "queued", task[Boss].at)
    /\ resume' /\ shown' = "active" /\ UNCHANGED team

Resumes ==
    /\ task[Boss].at = "resuming"
    /\ Moves(Boss, task[Boss].status, "reopening")
    /\ ~resume' /\ Becomes("active", "converge")

Requeues(t) ==
    /\ task[t].status = "running" /\ task[t].at = "idle"
    /\ t = Boss => ~TeamWorks
    /\ Moves(t, "queued", "idle") /\ Same

Orphans(t) ==
    /\ task[t].status \in {"queued", "running"}
    /\ (t # Boss /\ task[Boss].status \in Terminal) \/ team.status \in {"completed", "failed"}
    /\ Moves(t, "failed", task[t].at) /\ Same

Releases(t) ==
    /\ task[t].status = "held" /\ task[t].at = "idle"
    /\ Moves(t, "queued", "idle") /\ Same

CalmTask(t) ==
    \/ Claims(t) \/ EndsWork(t) \/ Ignores(t) \/ Reports(t) \/ Drops(t) \/ Opens(t) \/ Announces(t)
    \/ FailsTeam(t) \/ Concludes(t) \/ Closes(t) \/ Requeues(t) \/ Orphans(t) \/ Releases(t)

CalmStep == Splits \/ UserReplies \/ Resumes \/ Withdraws \/ \E t \in Tasks : CalmTask(t)

(* The helpers of Collaboration in these terms: Settle, Leave, a status,   *)
(* ...                                                                     *)
LEMMA SettlingMoves ==
    ASSUME TeamTyped, NEW t \in Tasks, NEW status, NEW at, Settle(t, status, at)
    PROVE  Moves(t, status, at)
  BY DEF TeamTyped, TaskRows, Settle, Row, Moves

(* A slot that leaves keeps the status of its row.                         *)
LEMMA LeavingMoves ==
    ASSUME TeamTyped, NEW t \in Tasks, Leave(t)
    PROVE  Moves(t, task[t].status, "idle")
  BY DEF TeamTyped, TaskRows, Leave, Row, Moves

(* A status that is written by id leaves the slot where it stands.         *)
LEMMA StatusMoves ==
    ASSUME TeamTyped, NEW t \in Tasks, NEW status, task' = [task EXCEPT ![t].status = status]
    PROVE  Moves(t, status, task[t].at)
  BY DEF TeamTyped, TaskRows, Moves

(* A slot that moves on leaves the status.                                 *)
LEMMA PlaceMoves ==
    ASSUME TeamTyped, NEW t \in Tasks, NEW at, task' = [task EXCEPT ![t].at = at]
    PROVE  Moves(t, task[t].status, at)
  BY DEF TeamTyped, TaskRows, Moves

(* ... also when it notes the mode of the merge it announces.              *)
LEMMA ModeMoves ==
    ASSUME TeamTyped, NEW t \in Tasks, NEW at, NEW mode, task' = [task EXCEPT ![t].at = at, ![t].mode = mode]
    PROVE  Moves(t, task[t].status, at)
  <1> DEFINE row == [task[t] EXCEPT !.at = at]
             next == [row EXCEPT !.mode = mode]
  <1>1. row.status = task[t].status /\ row.at = at
    BY DEF TeamTyped, TaskRows
  <1>2. next.status = row.status /\ next.at = row.at
    BY DEF TeamTyped, TaskRows
  <1>3. task' = [task EXCEPT ![t] = next]
    BY DEF TeamTyped
  <1> HIDE DEF row, next
  <1> QED
    BY <1>1, <1>2, <1>3 DEF Moves, TeamTyped

(* A created aggregation task was a fresh one, whichever CHOOSE picks.     *)
LEMMA CreatingCreates ==
    ASSUME TeamTyped, NEW t \in Tasks, NEW mode, CreateMerge(t, mode)
    PROVE  Creates(t)
  <1> DEFINE m == CHOOSE m \in FreshMerges : TRUE
  <1>1. m \in FreshMerges
    <2>1. FreshMerges # {}
      BY DEF CreateMerge
    <2> QED
      BY <2>1
  <1>2. task' = [task EXCEPT ![m] = Row("queued"), ![t] = Row(task[t].status)]
    BY DEF CreateMerge
  <1> HIDE DEF m
  <1> QED
    BY <1>1, <1>2 DEF TeamTyped, FreshMerges, Creates, Row, Tasks

(* performFinalAggregation does nothing in the phases of a merge, and      *)
(* opens one in the others.                                                *)
LEMMA OpeningOpens ==
    ASSUME TeamTyped, NEW t \in Tasks, NEW mode, OpenMerge(t, mode)
    PROVE  \/ Merging(team.phase) /\ Moves(t, task[t].status, "idle") /\ UNCHANGED team
           \/ /\ ~Merging(team.phase)
              /\ Moves(t, task[t].status, "announcing") \/ Creates(t)
              /\ Becomes(team.status, "aggregation")
  <1>1. CASE Merging(team.phase)
    BY <1>1, LeavingMoves DEF OpenMerge
  <1>2. CASE ~Merging(team.phase)
    <2>1. Becomes(team.status, "aggregation")
      BY <1>2 DEF OpenMerge, Advance, Updated, Becomes, TeamTyped, TeamRows
    <2> QED
      BY <1>2, <2>1, ModeMoves, CreatingCreates DEF OpenMerge
  <1> QED
    BY <1>1, <1>2

(* A step after which nothing has gone wrong yet is not a fault.           *)
LEMMA NoFault ==
    ASSUME TeamAssumption, TeamTyped, Undisturbed', NEW h, Fault(h)
    PROVE  FALSE
  BY DEF TeamAssumption, TeamTyped, Undisturbed, Fault

(* Every other step is one of those above.                                 *)
LEMMA StepsAreCalm ==
    ASSUME TeamAssumption, TeamTyped, ClosingOK, Next, Undisturbed'
    PROVE  CalmStep
  <1> USE DEF Tasks
  <1>0. Boss \in Tasks
    OBVIOUS
  <1>1. ASSUME NEW t \in Tasks, Claim(t) PROVE Claims(t)
    BY <1>1, SettlingMoves DEF Claim, Claims, Same
  <1>2. CASE StartCollaboration
    <2>1. PICK born \in SUBSET Roles : born # {} /\ Assign(born, "execution", "running")
      BY <1>2 DEF StartCollaboration, Participants
    <2>2. Becomes("active", "execution") /\ UNCHANGED resume /\ task[Boss].at = "planning"
      BY <2>1 DEF Assign, Becomes, Updated, TeamTyped, TeamRows
    <2>3. Boss \notin born
      BY DEF TeamAssumption
    <2>4. \A u \in Tasks :
              /\ task'[u].status = IF u \in born THEN "queued" ELSE IF u = Boss THEN "running" ELSE task[u].status
              /\ task'[u].at = IF u \in born \cup {Boss} THEN "idle" ELSE task[u].at
      BY <2>1, <2>3 DEF Assign, Row
    <2> QED
      BY <2>1, <2>2, <2>4 DEF CalmStep, Splits
  <1>3. ASSUME NEW t \in Tasks, NEW status \in {"completed", "failed", "held"}, Work(t, status)
        PROVE  EndsWork(t)
    BY <1>3, SettlingMoves, NoFault DEF Work, EndsWork, Same
  <1>4. ASSUME NEW t \in Tasks, ReportToNobody(t) PROVE Ignores(t)
    BY <1>4, LeavingMoves DEF ReportToNobody, Ignored, Ignores, Same
  <1>5. ASSUME NEW t \in Tasks, ReportRole(t) PROVE Reports(t)
    <2> DEFINE row == [task[t] EXCEPT !.at = "pushing"]
               next == [row EXCEPT !.saw = team.phase]
    <2>1. row.status = task[t].status /\ row.at = "pushing"
      BY DEF TeamTyped, TaskRows
    <2>2. next.status = row.status /\ next.at = row.at /\ next.saw = team.phase
      BY DEF TeamTyped, TaskRows
    <2>3. task' = [task EXCEPT ![t] = next]
      BY <1>5 DEF TeamTyped, ReportRole
    <2> HIDE DEF row, next
    <2>4. Moves(t, task[t].status, "pushing") /\ task'[t].saw = team.phase
      BY <2>1, <2>2, <2>3 DEF Moves, TeamTyped
    <2>5. Becomes(team.status, team.phase)
      BY <1>5 DEF ReportRole, RecordPhaseResult, Becomes, TeamTyped, TeamRows
    <2> QED
      BY <1>5, <2>4, <2>5 DEF ReportRole, Reports
  <1>6. ASSUME NEW t \in Tasks, Decide(t) PROVE Drops(t) \/ Opens(t)
    <2>1. CASE AllTerminal /\ ~Merging(task[t].saw)
      BY <1>6, <2>1, OpeningOpens DEF Decide, Drops, Opens
    <2>2. CASE ~(AllTerminal /\ ~Merging(task[t].saw))
      BY <1>6, <2>2, LeavingMoves DEF Decide, Drops
    <2> QED
      BY <2>1, <2>2
  <1>7. ASSUME NEW t \in Tasks, Announce(t) PROVE Announces(t)
    BY <1>7, CreatingCreates DEF Announce, Announces, Same
  <1>8. ASSUME NEW m \in Merges, ReportFailedMerge(m) \/ ReportMerge(m) PROVE FailsTeam(m) \/ Concludes(m)
    <2>0. m \in Tasks /\ m # Boss
      BY DEF TeamAssumption
    <2>1. ASSUME NEW at, NEW status, task' = [task EXCEPT ![m].at = at, ![Boss].status = status]
          PROVE  \A u \in Tasks :
                    /\ task'[u].status = IF u = Boss THEN status ELSE task[u].status
                    /\ task'[u].at = IF u = m THEN at ELSE task[u].at
      BY <2>0, <2>1 DEF TeamTyped, TaskRows
    <2>2. /\ team' = FailCollaboration => Becomes("failed", team.phase)
          /\ team' = CompleteCollaboration => Becomes("completed", "completed")
          /\ team' = Advance("await_user") => Becomes(team.status, "await_user")
      BY DEF FailCollaboration, CompleteCollaboration, Advance, Updated, Becomes, TeamTyped, TeamRows
    <2>3. CASE ReportFailedMerge(m)
      BY <2>1, <2>2, <2>3 DEF ReportFailedMerge, FailsTeam
    <2>4. CASE ReportMerge(m) /\ merge[m].mode = "blocked"
      BY <2>1, <2>2, <2>4 DEF ReportMerge, FailsTeam
    <2>5. CASE ReportMerge(m) /\ merge[m].mode # "blocked"
      BY <2>1, <2>2, <2>5 DEF ReportMerge, Concludes
    <2> QED
      BY <1>8, <2>3, <2>4, <2>5
  <1>9. ASSUME NEW m \in Merges, CloseMerge(m) PROVE Closes(m)
    BY <1>9, LeavingMoves DEF CloseMerge, Closes
  <1>10. CASE Resume
    <2>1. Becomes("active", "converge")
      BY <1>10 DEF Resume, Becomes, Updated, TeamTyped, TeamRows
    <2>2. Resumes
      BY <1>0, <1>10, <2>1, PlaceMoves DEF Resume, Resumes
    <2> QED
      BY <2>2 DEF CalmStep
  <1>11. CASE Reopen
    <2>1. CASE Merging(team.phase)
      BY <1>0, <1>11, <2>1, LeavingMoves DEF Reopen, OpenMerge, CalmStep, CalmTask, Withdraws
    <2>2. CASE ~Merging(team.phase)
      BY <1>0, <1>11, <2>2, OpeningOpens DEF Reopen, CalmStep, CalmTask, Opens
    <2> QED
      BY <2>1, <2>2
  <1>12. CASE Reply
    BY <1>0, <1>12, StatusMoves, NoFault DEF Reply, UserReplies, CalmStep
  <1>13. ASSUME NEW t \in Tasks, RequeueStale(t) PROVE Requeues(t)
    BY <1>13, SettlingMoves, NoFault DEF RequeueStale, Requeues, Same
  <1>14. ASSUME NEW t \in Tasks, CloseOrphan(t) PROVE Orphans(t)
    BY <1>14, StatusMoves DEF CloseOrphan, Orphans, Same
  <1>15. ASSUME NEW t \in Tasks, Release(t) PROVE Releases(t)
    BY <1>15, SettlingMoves, NoFault DEF Release, Releases, Same
  <1>16. ~StartPartly /\ ~Crash /\ \A t \in Tasks : ~Cancel(t) /\ ~Throw(t)
    BY NoFault DEF StartPartly, Crash, Cancel, Throw
  <1> QED
    BY <1>1, <1>2, <1>3, <1>4, <1>5, <1>6, <1>7, <1>8, <1>9, <1>10, <1>11, <1>12, <1>13, <1>14,
       <1>15, <1>16
       DEF Next, TaskStep, SlotStep, SweepStep, Finish, GiveUp, Hold, CalmStep, CalmTask

-----------------------------------------------------------------------------
(* The stages, one step at a time.                                         *)

(* A team is formed by the slot that plans the boss, and by nobody else.   *)
LEMMA FormingStep ==
    ASSUME TeamAssumption, Forming, CalmStep
    PROVE  Forming' \/ TeamWorking'
  <1> USE DEF Tasks, Outside, Is, BossIs, Terminal, Moves, Same, Becomes, TeamAssumption,
              Forming, UnbornTask
  <1>1. ~UserReplies /\ ~Resumes /\ ~Withdraws
    BY DEF UserReplies, Resumes, Withdraws, Asked
  <1>2. ASSUME NEW t \in Tasks PROVE ~EndsWork(t) /\ ~Ignores(t) /\ ~Reports(t) /\ ~Drops(t) /\
                                     ~Opens(t) /\ ~Announces(t) /\ ~FailsTeam(t) /\
                                     ~Concludes(t) /\ ~Closes(t) /\ ~Requeues(t) /\
                                     ~Orphans(t) /\ ~Releases(t)
    BY DEF EndsWork, Ignores, Reports, Drops, Opens, Announces, FailsTeam, Concludes, Closes,
           Requeues, Orphans, Releases
  <1>3. CASE Splits
    <2> PICK born \in SUBSET Roles : born # {} /\ \A u \in Tasks :
              /\ task'[u].status = IF u \in born THEN "queued" ELSE IF u = Boss THEN "running" ELSE task[u].status
              /\ task'[u].at = IF u \in born \cup {Boss} THEN "idle" ELSE task[u].at
      BY <1>3 DEF Splits
    <2>1. Is("active", "execution")' /\ ~resume' /\ BossIs("running", "idle")'
      BY <1>3 DEF Splits
    <2>2. \A m \in Merges : UnbornTask(m)'
      OBVIOUS
    <2>3. \A r \in Roles : RoleAtWork(r)'
      BY DEF RoleAtWork
    <2>4. \E r \in Roles : task'[r].status # "absent" /\ ~QuietTask(r)'
      <3>0. born # {}
        OBVIOUS
      <3> PICK r \in born : TRUE
        BY <3>0
      <3>1. r \in Roles
        OBVIOUS
      <3>2. task'[r].status = "queued"
        BY <3>1
      <3> QED
        BY <3>1, <3>2 DEF QuietTask
    <2> QED
      BY <2>1, <2>2, <2>3, <2>4 DEF TeamWorking
  <1>4. ASSUME NEW t \in Tasks, Claims(t) PROVE Forming' \/ TeamWorking'
    BY <1>4 DEF Claims
  <1> QED
    BY <1>1, <1>2, <1>3, <1>4 DEF CalmStep, CalmTask

(* The team works until all are done: it is the slot that saw so that      *)
(* opens the merge.                                                        *)
LEMMA WorkingStep ==
    ASSUME TeamAssumption, TeamWorking, CalmStep
    PROVE  TeamWorking' \/ (Merged' /\ AllTerminal)
  <1> USE DEF Tasks, Outside, Is, BossIs, Terminal, Moves, Same, Becomes, TeamAssumption,
              TeamWorking, UnbornTask, RoleAtWork
  <1>0. TeamWorks
    <2> PICK r \in Roles : task[r].status # "absent" /\ ~QuietTask(r)
      OBVIOUS
    <2>1. r \in Tasks \ {Boss} /\ (task[r].status \in {"queued", "held"} \/ task[r].at # "idle")
      BY DEF QuietTask
    <2> QED
      BY <2>1 DEF TeamWorks
  <1>1. ~Splits /\ ~UserReplies /\ ~Resumes /\ ~Withdraws
    BY DEF Splits, UserReplies, Resumes, Withdraws, Asked
  <1>2. ASSUME NEW t \in Tasks PROVE ~Ignores(t) /\ ~Announces(t) /\ ~FailsTeam(t) /\
                                     ~Concludes(t) /\ ~Closes(t) /\ ~Requeues(t) /\ ~Orphans(t)
    BY <1>0 DEF Ignores, Announces, FailsTeam, Concludes, Closes, Requeues, Orphans
  <1>3. ASSUME NEW t \in Tasks, Claims(t) PROVE TeamWorking' \/ (Merged' /\ AllTerminal)
    <2>1. t \in Roles
      BY <1>3 DEF Claims
    <2>2. Is("active", "execution")' /\ ~resume' /\ BossIs("running", "idle")'
          /\ \A m \in Merges : UnbornTask(m)'
      BY <1>3, <2>1 DEF Claims
    <2>3. \A r \in Roles : RoleAtWork(r)'
      BY <1>3, <2>1 DEF Claims
    <2>4. \E r \in Roles : task'[r].status # "absent" /\ ~QuietTask(r)'
      BY <1>3, <2>1 DEF Claims, QuietTask
    <2> QED
      BY <2>2, <2>3, <2>4
  <1>4. ASSUME NEW t \in Tasks, EndsWork(t) PROVE TeamWorking' \/ (Merged' /\ AllTerminal)
    <2>1. t \in Roles
      BY <1>4 DEF EndsWork
    <2>2. Is("active", "execution")' /\ ~resume' /\ BossIs("running", "idle")'
          /\ \A m \in Merges : UnbornTask(m)'
      BY <1>4, <2>1 DEF EndsWork
    <2>3. \A r \in Roles : RoleAtWork(r)'
      BY <1>4, <2>1 DEF EndsWork
    <2>4. \E r \in Roles : task'[r].status # "absent" /\ ~QuietTask(r)'
      BY <1>4, <2>1 DEF EndsWork, QuietTask
    <2> QED
      BY <2>2, <2>3, <2>4
  <1>5. ASSUME NEW t \in Tasks, Reports(t) PROVE TeamWorking' \/ (Merged' /\ AllTerminal)
    <2>1. t \in Roles
      BY <1>5 DEF Reports
    <2>2. Is("active", "execution")' /\ ~resume' /\ BossIs("running", "idle")'
          /\ \A m \in Merges : UnbornTask(m)'
      BY <1>5, <2>1 DEF Reports
    <2>3. \A r \in Roles : RoleAtWork(r)'
      BY <1>5, <2>1 DEF Reports
    <2>4. \E r \in Roles : task'[r].status # "absent" /\ ~QuietTask(r)'
      BY <1>5, <2>1 DEF Reports, QuietTask
    <2> QED
      BY <2>2, <2>3, <2>4
  <1>6. ASSUME NEW t \in Tasks, Drops(t) PROVE TeamWorking' \/ (Merged' /\ AllTerminal)
    <2>1. t \in Roles
      BY <1>6 DEF Drops
    <2>2. Is("active", "execution")' /\ ~resume' /\ BossIs("running", "idle")'
          /\ \A m \in Merges : UnbornTask(m)'
      BY <1>6, <2>1 DEF Drops
    <2>3. \A r \in Roles : RoleAtWork(r)'
      BY <1>6, <2>1 DEF Drops
    <2>4. ~AllTerminal
      BY <1>6, <2>1 DEF Drops, Merging
    <2>5. PICK r \in Roles : task[r].status \notin Terminal \cup {"absent"}
      BY <2>1, <2>4, <1>6 DEF AllTerminal, Children, Drops
    <2>6. task'[r].status # "absent" /\ ~QuietTask(r)'
      BY <1>6, <2>5 DEF Drops, QuietTask
    <2> QED
      BY <2>2, <2>3, <2>6
  <1>7. ASSUME NEW t \in Tasks, Opens(t) PROVE TeamWorking' \/ (Merged' /\ AllTerminal)
    <2>1. t \in Roles /\ AllTerminal
      BY <1>7 DEF Opens
    <2>2. Is("active", "aggregation")' /\ ~resume'
      BY <1>7 DEF Opens
    <2>3. \A r \in Roles : RoleDone(r) /\ (r = t => task[r].status \in Terminal)
      BY <1>7, <2>1 DEF AllTerminal, Children, RoleDone, Opens
    <2>4. SomeRole /\ SomeRole'
      <3>1. task[t].status # "absent"
        BY <1>7, <2>1 DEF Opens
      <3>2. task'[t].status = task[t].status
        BY <1>7, <2>1 DEF Opens, Creates, FreshMerges
      <3> QED
        BY <2>1, <3>1, <3>2 DEF SomeRole
    <2>5. CASE Moves(t, task[t].status, "announcing")
      <3>1. AnnouncedBy(t)'
        BY <2>1, <2>3, <2>5 DEF AnnouncedBy, RoleDone
      <3>2. \A m \in Merges : QuietTask(m)'
        BY <2>1, <2>5 DEF QuietTask
      <3> QED
        BY <2>1, <2>2, <2>4, <3>1, <3>2 DEF Merged, Bears
    <2>6. CASE Creates(t)
      <3> PICK m \in FreshMerges : \A u \in Tasks :
                /\ task'[u].status = IF u = m THEN "queued" ELSE task[u].status
                /\ task'[u].at = IF u \in {m, t} THEN "idle" ELSE task[u].at
        BY <2>6 DEF Creates
      <3>1. m \in Merges
        BY DEF FreshMerges
      <3>2. MergedBy(m)'
        BY <2>1, <2>3, <3>1 DEF MergedBy, RoleDone
      <3>3. \A n \in Merges \ {m} : QuietTask(n)'
        BY <2>1, <3>1 DEF QuietTask
      <3> QED
        BY <2>1, <2>2, <2>4, <3>1, <3>2, <3>3 DEF Merged, Bears
    <2> QED
      BY <1>7, <2>1, <2>5, <2>6 DEF Opens
  <1>8. ASSUME NEW t \in Tasks, Releases(t) PROVE TeamWorking' \/ (Merged' /\ AllTerminal)
    <2>1. t \in Roles
      BY <1>8 DEF Releases
    <2>2. Is("active", "execution")' /\ ~resume' /\ BossIs("running", "idle")'
          /\ \A m \in Merges : UnbornTask(m)'
      BY <1>8, <2>1 DEF Releases
    <2>3. \A r \in Roles : RoleAtWork(r)'
      BY <1>8, <2>1 DEF Releases
    <2>4. \E r \in Roles : task'[r].status # "absent" /\ ~QuietTask(r)'
      BY <1>8, <2>1 DEF Releases, QuietTask
    <2> QED
      BY <2>2, <2>3, <2>4
  <1> QED
    BY <1>1, <1>2, <1>3, <1>4, <1>5, <1>6, <1>7, <1>8 DEF CalmStep, CalmTask

(* While the opening of a merge is announced, roles may still report: they *)
(* find the phase changed.                                                 *)
LEMMA AnnouncedStep ==
    ASSUME TeamAssumption, Is("active", "aggregation"), ~resume, SomeRole, NEW b \in Tasks,
           AnnouncedBy(b), \A m \in Merges : QuietTask(m), CalmStep
    PROVE  Merged'
  <1> USE DEF Tasks, Outside, Is, BossIs, Terminal, Moves, Same, Becomes, TeamAssumption,
              AnnouncedBy, QuietTask, RoleDone, Merging
  <1>0. TeamWorks \/ b = Boss
    BY DEF TeamWorks
  <1>1. ~Splits /\ ~UserReplies /\ ~Resumes /\ ~Withdraws
    BY DEF Splits, UserReplies, Resumes, Withdraws, Asked
  <1>2. ASSUME NEW t \in Tasks PROVE ~Claims(t) /\ ~EndsWork(t) /\ ~Ignores(t) /\ ~Opens(t) /\
                                     ~FailsTeam(t) /\ ~Concludes(t) /\ ~Closes(t) /\
                                     ~Requeues(t) /\ ~Orphans(t) /\ ~Releases(t)
    BY <1>0 DEF Claims, EndsWork, Ignores, Opens, FailsTeam, Concludes, Closes, Requeues, Orphans,
           Releases
  <1>3. ASSUME NEW t \in Tasks, Reports(t) PROVE Merged'
    <2>1. t \in Roles /\ t # b
      BY <1>3 DEF Reports
    <2>2. Is("active", "aggregation")' /\ ~resume' /\ SomeRole'
      BY <1>3, <2>1 DEF Reports, SomeRole
    <2>3. AnnouncedBy(b)'
      BY <1>3, <2>1 DEF Reports
    <2>4. \A m \in Merges \ {b} : QuietTask(m)'
      BY <1>3, <2>1 DEF Reports
    <2> QED
      BY <2>2, <2>3, <2>4 DEF Merged, Bears
  <1>4. ASSUME NEW t \in Tasks, Drops(t) PROVE Merged'
    <2>1. t \in Roles /\ t # b
      BY <1>4 DEF Drops
    <2>2. Is("active", "aggregation")' /\ ~resume' /\ SomeRole'
      BY <1>4, <2>1 DEF Drops, SomeRole
    <2>3. AnnouncedBy(b)'
      BY <1>4, <2>1 DEF Drops
    <2>4. \A m \in Merges \ {b} : QuietTask(m)'
      BY <1>4, <2>1 DEF Drops
    <2> QED
      BY <2>2, <2>3, <2>4 DEF Merged, Bears
  <1>5. ASSUME NEW t \in Tasks, Announces(t) PROVE Merged'
    <2>1. t = b
      BY <1>5 DEF Announces
    <2> PICK m \in FreshMerges : \A u \in Tasks :
              /\ task'[u].status = IF u = m THEN "queued" ELSE task[u].status
              /\ task'[u].at = IF u \in {m, t} THEN "idle" ELSE task[u].at
      BY <1>5 DEF Announces, Creates
    <2>2. m \in Merges
      BY DEF FreshMerges
    <2>3. Is("active", "aggregation")' /\ ~resume'
      BY <1>5 DEF Announces
    <2>4. SomeRole'
      BY <2>2 DEF SomeRole
    <2>5. MergedBy(m)'
      BY <2>1, <2>2 DEF MergedBy
    <2>6. \A n \in Merges \ {m} : QuietTask(n)'
      BY <2>1, <2>2
    <2> QED
      BY <2>2, <2>3, <2>4, <2>5, <2>6 DEF Merged, Bears
  <1> QED
    BY <1>1, <1>2, <1>3, <1>4, <1>5 DEF CalmStep, CalmTask

(* One merge is under way, and nothing else: it ends the round or asks.    *)
LEMMA MergingStep ==
    ASSUME TeamAssumption, Is("active", "aggregation"), ~resume, SomeRole, NEW b \in Tasks,
           MergedBy(b), \A m \in Merges \ {b} : QuietTask(m), CalmStep
    PROVE  Merged' \/ TeamAsking' \/ TeamDelivered' \/ Failing'
  <1> USE DEF Tasks, Outside, Is, BossIs, Terminal, Moves, Same, Becomes, TeamAssumption,
              MergedBy, QuietTask, RoleDone, Merging
  <1>0. TeamWorks
    BY DEF TeamWorks
  <1>1. ~Splits /\ ~UserReplies /\ ~Resumes /\ ~Withdraws
    BY DEF Splits, UserReplies, Resumes, Withdraws, Asked
  <1>2. ASSUME NEW t \in Tasks PROVE ~Ignores(t) /\ ~Opens(t) /\ ~Announces(t) /\ ~Closes(t) /\
                                     ~Requeues(t) /\ ~Orphans(t) /\ ~Releases(t)
    BY <1>0 DEF Ignores, Opens, Announces, Closes, Requeues, Orphans, Releases
  <1>3. ASSUME NEW t \in Tasks, Claims(t) PROVE Merged' \/ TeamAsking' \/ TeamDelivered' \/ Failing'
    <2>1. t = b
      BY <1>3 DEF Claims
    <2>2. Is("active", "aggregation")' /\ ~resume' /\ SomeRole'
      BY <1>3, <2>1 DEF Claims, SomeRole
    <2>3. MergedBy(b)'
      BY <1>3, <2>1 DEF Claims
    <2>4. \A m \in Merges \ {b} : QuietTask(m)'
      BY <1>3, <2>1 DEF Claims
    <2> QED
      BY <2>2, <2>3, <2>4 DEF Merged, Bears
  <1>4. ASSUME NEW t \in Tasks, EndsWork(t) PROVE Merged' \/ TeamAsking' \/ TeamDelivered' \/ Failing'
    <2>1. t = b
      BY <1>4 DEF EndsWork
    <2>2. Is("active", "aggregation")' /\ ~resume' /\ SomeRole'
      BY <1>4, <2>1 DEF EndsWork, SomeRole
    <2>3. MergedBy(b)'
      BY <1>4, <2>1 DEF EndsWork, Reporting, Busy
    <2>4. \A m \in Merges \ {b} : QuietTask(m)'
      BY <1>4, <2>1 DEF EndsWork
    <2> QED
      BY <2>2, <2>3, <2>4 DEF Merged, Bears
  <1>5. ASSUME NEW t \in Tasks, Reports(t) PROVE Merged' \/ TeamAsking' \/ TeamDelivered' \/ Failing'
    <2>1. t \in Roles
      BY <1>5 DEF Reports
    <2>2. Is("active", "aggregation")' /\ ~resume' /\ SomeRole'
      BY <1>5, <2>1 DEF Reports, SomeRole
    <2>3. MergedBy(b)'
      BY <1>5, <2>1 DEF Reports
    <2>4. \A m \in Merges \ {b} : QuietTask(m)'
      BY <1>5, <2>1 DEF Reports
    <2> QED
      BY <2>2, <2>3, <2>4 DEF Merged, Bears
  <1>6. ASSUME NEW t \in Tasks, Drops(t) PROVE Merged' \/ TeamAsking' \/ TeamDelivered' \/ Failing'
    <2>1. t \in Roles
      BY <1>6 DEF Drops
    <2>2. Is("active", "aggregation")' /\ ~resume' /\ SomeRole'
      BY <1>6, <2>1 DEF Drops, SomeRole
    <2>3. MergedBy(b)'
      BY <1>6, <2>1 DEF Drops
    <2>4. \A m \in Merges \ {b} : QuietTask(m)'
      BY <1>6, <2>1 DEF Drops
    <2> QED
      BY <2>2, <2>3, <2>4 DEF Merged, Bears
  <1>7. ASSUME NEW t \in Tasks, FailsTeam(t) PROVE Merged' \/ TeamAsking' \/ TeamDelivered' \/ Failing'
    <2>1. t = b
      BY <1>7 DEF FailsTeam
    <2>2. Is("failed", "aggregation")' /\ SomeRole' /\ BossIs("failed", "idle")'
      BY <1>7, <2>1 DEF FailsTeam, SomeRole
    <2>3. \A r \in Roles : QuietTask(r)'
      BY <1>7, <2>1 DEF FailsTeam
    <2>4. task'[b].at = "idle" /\ \A m \in Merges \ {b} : QuietTask(m)'
      BY <1>7, <2>1 DEF FailsTeam
    <2> QED
      BY <2>2, <2>3, <2>4 DEF Failing
  <1>8. ASSUME NEW t \in Tasks, Concludes(t) PROVE Merged' \/ TeamAsking' \/ TeamDelivered' \/ Failing'
    <2>1. t = b
      BY <1>8 DEF Concludes
    <2>2. SomeRole' /\ BossIs("completed", "idle")' /\ ~resume'
      BY <1>8, <2>1 DEF Concludes, SomeRole
    <2>3. \A r \in Roles : QuietTask(r)'
      BY <1>8, <2>1 DEF Concludes
    <2>4. MergesOver'
      BY <1>8, <2>1 DEF Concludes, MergesOver
    <2>5. Is("active", "await_user")' \/ Is("completed", "completed")'
      BY <1>8 DEF Concludes
    <2> QED
      BY <2>2, <2>3, <2>4, <2>5 DEF TeamAsking, TeamDelivered
  <1> QED
    BY <1>1, <1>2, <1>3, <1>4, <1>5, <1>6, <1>7, <1>8 DEF CalmStep, CalmTask

(* The user is asked when the merge has reported, and answers once.        *)
LEMMA AskingStep ==
    ASSUME TeamAssumption, TeamAsking, CalmStep
    PROVE  TeamAsking' \/ Answering'
  <1> USE DEF Tasks, Outside, Is, BossIs, Terminal, Moves, Same, Becomes, TeamAssumption,
              TeamAsking, MergesOver, QuietTask
  <1>1. ~Splits /\ ~Withdraws
    BY DEF Splits, Withdraws
  <1>2. ASSUME NEW t \in Tasks PROVE ~EndsWork(t) /\ ~Ignores(t) /\ ~Reports(t) /\ ~Drops(t) /\
                                     ~Opens(t) /\ ~Announces(t) /\ ~FailsTeam(t) /\
                                     ~Concludes(t) /\ ~Requeues(t) /\ ~Orphans(t) /\
                                     ~Releases(t)
    BY DEF EndsWork, Ignores, Reports, Drops, Opens, Announces, FailsTeam, Concludes, Requeues,
           Orphans, Releases
  <1>3. ASSUME NEW t \in Tasks, Closes(t) PROVE TeamAsking' \/ Answering'
    <2>1. t \in Merges /\ Is("active", "await_user")' /\ BossIs("completed", "idle")' /\ ~resume'
      BY <1>3 DEF Closes
    <2>2. SomeRole' /\ \A r \in Roles : QuietTask(r)'
      BY <1>3 DEF Closes, SomeRole
    <2>3. MergesOver'
      BY <1>3 DEF Closes
    <2> QED
      BY <2>1, <2>2, <2>3
  <1>4. CASE UserReplies
    <2>1. \A m \in Merges : QuietTask(m) /\ QuietTask(m)'
      BY <1>4 DEF UserReplies, Asked, Busy
    <2>2. Is("active", "await_user")' /\ resume' /\ shown' = "active" /\ BossIs("queued", "idle")'
      BY <1>4 DEF UserReplies
    <2>3. SomeRole' /\ \A r \in Roles : QuietTask(r)'
      BY <1>4 DEF UserReplies, SomeRole
    <2> QED
      BY <2>1, <2>2, <2>3
  <1>5. ASSUME NEW t \in Tasks, Claims(t) PROVE TeamAsking' \/ Answering'
    <2>1. t = Boss /\ resume
      BY <1>5 DEF Claims
    <2>2. Is("active", "await_user")' /\ resume' /\ shown' = "active" /\ BossIs("running", "resuming")'
      BY <1>5, <2>1 DEF Claims
    <2>3. SomeRole' /\ (\A r \in Roles : QuietTask(r)') /\ \A m \in Merges : QuietTask(m)'
      BY <1>5, <2>1 DEF Claims, SomeRole
    <2> QED
      BY <2>2, <2>3
  <1>6. CASE Resumes
    <2>1. Is("active", "converge")' /\ ~resume' /\ BossIs("running", "reopening")'
      BY <1>6 DEF Resumes
    <2>2. SomeRole' /\ \A u \in Outside : QuietTask(u)'
      BY <1>6 DEF Resumes, SomeRole
    <2> QED
      BY <2>1, <2>2 DEF Answering
  <1> QED
    BY <1>1, <1>2, <1>3, <1>4, <1>5, <1>6 DEF CalmStep, CalmTask

(* An answer opens the next merge.                                         *)
LEMMA AnsweringStep ==
    ASSUME TeamAssumption, Answering, CalmStep
    PROVE  Merged'
  <1> USE DEF Tasks, Outside, Is, BossIs, Terminal, Moves, Same, Becomes, TeamAssumption,
              Answering, QuietTask, Merging
  <1>1. ~Splits /\ ~UserReplies /\ ~Resumes /\ ~Withdraws
    BY DEF Splits, UserReplies, Resumes, Withdraws, Asked
  <1>2. ASSUME NEW t \in Tasks PROVE ~Claims(t) /\ ~EndsWork(t) /\ ~Ignores(t) /\ ~Reports(t) /\
                                     ~Drops(t) /\ ~Announces(t) /\ ~FailsTeam(t) /\
                                     ~Concludes(t) /\ ~Closes(t) /\ ~Requeues(t) /\
                                     ~Orphans(t) /\ ~Releases(t)
    BY DEF Claims, EndsWork, Ignores, Reports, Drops, Announces, FailsTeam, Concludes, Closes,
           Requeues, Orphans, Releases
  <1>3. ASSUME NEW t \in Tasks, Opens(t) PROVE Merged'
    <2>1. t = Boss
      BY <1>3 DEF Opens
    <2>2. Is("active", "aggregation")' /\ ~resume'
      BY <1>3 DEF Opens
    <2>3. \A r \in Roles : RoleDone(r)
      BY DEF RoleDone
    <2>4. SomeRole'
      BY <1>3, <2>1 DEF Opens, Creates, FreshMerges, SomeRole
    <2>5. CASE Moves(t, task[t].status, "announcing")
      <3>1. AnnouncedBy(Boss)'
        BY <2>1, <2>3, <2>5 DEF AnnouncedBy, RoleDone
      <3>2. \A m \in Merges : QuietTask(m)'
        BY <2>1, <2>5
      <3> QED
        BY <2>2, <2>4, <3>1, <3>2 DEF Merged, Bears
    <2>6. CASE Creates(t)
      <3> PICK m \in FreshMerges : \A u \in Tasks :
                /\ task'[u].status = IF u = m THEN "queued" ELSE task[u].status
                /\ task'[u].at = IF u \in {m, t} THEN "idle" ELSE task[u].at
        BY <2>6 DEF Creates
      <3>1. m \in Merges
        BY DEF FreshMerges
      <3>2. MergedBy(m)'
        BY <2>1, <2>3, <3>1 DEF MergedBy, RoleDone
      <3>3. \A n \in Merges \ {m} : QuietTask(n)'
        BY <2>1, <3>1
      <3> QED
        BY <2>2, <2>4, <3>1, <3>2, <3>3 DEF Merged, Bears
    <2> QED
      BY <1>3, <2>5, <2>6 DEF Opens
  <1> QED
    BY <1>1, <1>2, <1>3 DEF CalmStep, CalmTask

(* Nothing comes after a delivery but the end of its announcement.         *)
LEMMA DeliveredStep ==
    ASSUME TeamAssumption, TeamDelivered, CalmStep
    PROVE  TeamDelivered'
  <1> USE DEF Tasks, Outside, Is, BossIs, Terminal, Moves, Same, Becomes, TeamAssumption,
              TeamDelivered, MergesOver, QuietTask, Merging
  <1>1. ~Splits /\ ~UserReplies /\ ~Resumes /\ ~Withdraws
    BY DEF Splits, UserReplies, Resumes, Withdraws, Asked
  <1>2. ASSUME NEW t \in Tasks PROVE ~Claims(t) /\ ~EndsWork(t) /\ ~Ignores(t) /\ ~Reports(t) /\
                                     ~Drops(t) /\ ~Opens(t) /\ ~Announces(t) /\ ~FailsTeam(t) /\
                                     ~Concludes(t) /\ ~Requeues(t) /\ ~Orphans(t) /\
                                     ~Releases(t)
    BY DEF Claims, EndsWork, Ignores, Reports, Drops, Opens, Announces, FailsTeam, Concludes,
           Requeues, Orphans, Releases
  <1>3. ASSUME NEW t \in Tasks, Closes(t) PROVE TeamDelivered'
    <2>1. t \in Merges /\ Is("completed", "completed")' /\ BossIs("completed", "idle")'
      BY <1>3 DEF Closes
    <2>2. SomeRole' /\ \A r \in Roles : QuietTask(r)'
      BY <1>3 DEF Closes, SomeRole
    <2>3. MergesOver'
      BY <1>3 DEF Closes
    <2> QED
      BY <2>1, <2>2, <2>3
  <1> QED
    BY <1>1, <1>2, <1>3 DEF CalmStep, CalmTask

(* After a failure at most the merge that was held goes on, to no effect.  *)
LEMMA FailingStep ==
    ASSUME TeamAssumption, Failing, CalmStep
    PROVE  Failing'
  <1> USE DEF Tasks, Outside, Is, BossIs, Terminal, Moves, Same, Becomes, TeamAssumption,
              Failing, QuietTask, Merging
  <1> PICK o \in Merges :
          /\ task[o].at \in {"idle", "working", "reporting"}
          /\ \A m \in Merges \ {o} : QuietTask(m)
    OBVIOUS
  <1>1. ~Splits /\ ~UserReplies /\ ~Resumes /\ ~Withdraws
    BY DEF Splits, UserReplies, Resumes, Withdraws, Asked
  <1>2. ASSUME NEW t \in Tasks PROVE ~Reports(t) /\ ~Drops(t) /\ ~Opens(t) /\ ~Announces(t) /\
                                     ~FailsTeam(t) /\ ~Concludes(t) /\ ~Closes(t)
    BY DEF Reports, Drops, Opens, Announces, FailsTeam, Concludes, Closes
  <1>3. ASSUME NEW t \in Tasks, Claims(t) PROVE Failing'
    <2>1. t = o
      BY <1>3 DEF Claims
    <2>2. Is("failed", "aggregation")' /\ BossIs("failed", "idle")'
      BY <1>3, <2>1 DEF Claims
    <2>3. SomeRole' /\ \A r \in Roles : QuietTask(r)'
      BY <1>3, <2>1 DEF Claims, SomeRole
    <2>4. task'[o].at \in {"idle", "working", "reporting"} /\ \A m \in Merges \ {o} : QuietTask(m)'
      BY <1>3, <2>1 DEF Claims
    <2> QED
      BY <2>2, <2>3, <2>4
  <1>4. ASSUME NEW t \in Tasks, EndsWork(t) PROVE Failing'
    <2>1. t = o
      BY <1>4 DEF EndsWork
    <2>2. Is("failed", "aggregation")' /\ BossIs("failed", "idle")'
      BY <1>4, <2>1 DEF EndsWork
    <2>3. SomeRole' /\ \A r \in Roles : QuietTask(r)'
      BY <1>4, <2>1 DEF EndsWork, SomeRole
    <2>4. task'[o].at \in {"idle", "working", "reporting"} /\ \A m \in Merges \ {o} : QuietTask(m)'
      BY <1>4, <2>1 DEF EndsWork
    <2> QED
      BY <2>2, <2>3, <2>4
  <1>5. ASSUME NEW t \in Tasks, Ignores(t) PROVE Failing'
    <2>1. t = o
      BY <1>5 DEF Ignores
    <2>2. Is("failed", "aggregation")' /\ BossIs("failed", "idle")'
      BY <1>5, <2>1 DEF Ignores
    <2>3. SomeRole' /\ \A r \in Roles : QuietTask(r)'
      BY <1>5, <2>1 DEF Ignores, SomeRole
    <2>4. task'[o].at \in {"idle", "working", "reporting"} /\ \A m \in Merges \ {o} : QuietTask(m)'
      BY <1>5, <2>1 DEF Ignores
    <2> QED
      BY <2>2, <2>3, <2>4
  <1>6. ASSUME NEW t \in Tasks, Requeues(t) PROVE Failing'
    <2>1. t = o
      BY <1>6 DEF Requeues
    <2>2. Is("failed", "aggregation")' /\ BossIs("failed", "idle")'
      BY <1>6, <2>1 DEF Requeues
    <2>3. SomeRole' /\ \A r \in Roles : QuietTask(r)'
      BY <1>6, <2>1 DEF Requeues, SomeRole
    <2>4. task'[o].at \in {"idle", "working", "reporting"} /\ \A m \in Merges \ {o} : QuietTask(m)'
      BY <1>6, <2>1 DEF Requeues
    <2> QED
      BY <2>2, <2>3, <2>4
  <1>7. ASSUME NEW t \in Tasks, Orphans(t) PROVE Failing'
    <2>1. t = o
      BY <1>7 DEF Orphans
    <2>2. Is("failed", "aggregation")' /\ BossIs("failed", "idle")'
      BY <1>7, <2>1 DEF Orphans
    <2>3. SomeRole' /\ \A r \in Roles : QuietTask(r)'
      BY <1>7, <2>1 DEF Orphans, SomeRole
    <2>4. task'[o].at \in {"idle", "working", "reporting"} /\ \A m \in Merges \ {o} : QuietTask(m)'
      BY <1>7, <2>1 DEF Orphans
    <2> QED
      BY <2>2, <2>3, <2>4
  <1>8. ASSUME NEW t \in Tasks, Releases(t) PROVE Failing'
    <2>1. t = o
      BY <1>8 DEF Releases
    <2>2. Is("failed", "aggregation")' /\ BossIs("failed", "idle")'
      BY <1>8, <2>1 DEF Releases
    <2>3. SomeRole' /\ \A r \in Roles : QuietTask(r)'
      BY <1>8, <2>1 DEF Releases, SomeRole
    <2>4. task'[o].at \in {"idle", "working", "reporting"} /\ \A m \in Merges \ {o} : QuietTask(m)'
      BY <1>8, <2>1 DEF Releases
    <2> QED
      BY <2>2, <2>3, <2>4
  <1> QED
    BY <1>1, <1>2, <1>3, <1>4, <1>5, <1>6, <1>7, <1>8 DEF CalmStep, CalmTask

-----------------------------------------------------------------------------
(* The round.                                                              *)

Steps ==
    \/ Forming /\ (Forming' \/ TeamWorking')
    \/ TeamWorking /\ (TeamWorking' \/ (Merged' /\ AllTerminal))
    \/ Merged /\ (Merged' \/ TeamAsking' \/ TeamDelivered' \/ Failing')
    \/ TeamAsking /\ (TeamAsking' \/ Answering')
    \/ Answering /\ Merged'
    \/ TeamDelivered /\ TeamDelivered'
    \/ Failing /\ Failing'

(* Whoever bears the merge, the round is merging until it reports.         *)
LEMMA MergedStep ==
    ASSUME TeamAssumption, Merged, CalmStep
    PROVE  Merged' \/ TeamAsking' \/ TeamDelivered' \/ Failing'
  <1>1. PICK b \in Tasks : Bears(b)
    BY DEF Merged
  <1>2. Is("active", "aggregation") /\ ~resume /\ SomeRole
    BY DEF Merged
  <1>3. CASE AnnouncedBy(b)
    <2>1. \A m \in Merges : QuietTask(m)
      BY <1>1, <1>3 DEF Bears, AnnouncedBy
    <2> QED
      BY <1>2, <1>3, <2>1, AnnouncedStep
  <1>4. CASE MergedBy(b)
    <2>1. \A m \in Merges \ {b} : QuietTask(m)
      BY <1>1 DEF Bears
    <2> QED
      BY <1>2, <1>4, <2>1, MergingStep
  <1> QED
    BY <1>1, <1>3, <1>4 DEF Bears

(* What has gone wrong stays wrong.                                        *)
LEMMA UndisturbedBefore ==
    ASSUME TeamAssumption, TeamTyped, [Next]_vars, Undisturbed'
    PROVE  Undisturbed
  <1>1. UNCHANGED faults \/ faults' = faults - 1
    BY DEF Next, vars, TaskStep, SlotStep, SweepStep, Claim, StartCollaboration, Resume, Reopen,
           Finish, GiveUp, Hold, Work, ReportToNobody, ReportRole, Decide, Announce,
           ReportFailedMerge, ReportMerge, CloseMerge, RequeueStale, CloseOrphan, Release,
           Cancel, Throw, StartPartly, Reply, Crash, Fault
  <1> QED
    BY <1>1 DEF TeamAssumption, TeamTyped, Undisturbed

(* Undisturbed, a step stays in its stage or goes to one that may follow.  *)
LEMMA RoundSteps ==
    ASSUME TeamAssumption, TeamTyped, ClosingOK, TeamRoundInv, Next, Undisturbed'
    PROVE  Steps
  <1>1. CalmStep
    BY StepsAreCalm
  <1>2. Undisturbed
    BY UndisturbedBefore
  <1> QED
    BY <1>1, <1>2, FormingStep, WorkingStep, MergedStep, AskingStep, AnsweringStep, DeliveredStep,
       FailingStep DEF TeamRoundInv, Steps

(* So the stages are an invariant.                                         *)
LEMMA RoundInvStep ==
    ASSUME TeamAssumption, TeamTyped, ClosingOK, TeamRoundInv, [Next]_vars
    PROVE  TeamRoundInv'
  <1>1. CASE Next
    BY <1>1, RoundSteps DEF TeamRoundInv, Steps
  <1>2. CASE UNCHANGED vars
    <2> USE <1>2 DEF vars, Is, BossIs, QuietTask, UnbornTask, SomeRole, RoleDone, RoleAtWork, MergesOver
    <2>1. Undisturbed' => Undisturbed
      BY DEF Undisturbed
    <2>2. Forming => Forming'
      BY DEF Forming
    <2>3. TeamWorking => TeamWorking'
      BY DEF TeamWorking
    <2>4. Merged => Merged'
      BY DEF Merged, Bears, AnnouncedBy, MergedBy
    <2>5. /\ TeamAsking => TeamAsking'
          /\ Answering => Answering'
          /\ TeamDelivered => TeamDelivered'
      BY DEF TeamAsking, Answering, TeamDelivered
    <2>6. Failing => Failing'
      BY DEF Failing
    <2> QED
      BY <2>1, <2>2, <2>3, <2>4, <2>5, <2>6 DEF TeamRoundInv
  <1> QED
    BY <1>1, <1>2

(* From the first state on, in any team.                                   *)
LEMMA RoundAlways ==
    ASSUME TeamAssumption
    PROVE  Spec => [](TeamTyped /\ ClosingOK /\ TeamRoundInv)
  <1>1. Init => TeamRoundInv
    BY DEF Init, TeamRoundInv, Forming, Is, BossIs, UnbornTask, Outside, Row, Tasks, TeamAssumption
  <1>2. TeamTyped /\ ClosingOK /\ TeamRoundInv /\ [Next]_vars => TeamRoundInv'
    BY RoundInvStep
  <1> QED
    BY <1>1, <1>2, TypesAlways, PTL DEF Spec

(* Where a stage of the invariant stands in the round.                     *)
LEMMA RoundStages ==
    /\ Forming => Stage = "forming"
    /\ TeamWorking => Stage = "working"
    /\ Merged => Stage = "merging"
    /\ TeamAsking => Stage = "asking"
    /\ Answering => Stage = "answered"
    /\ TeamDelivered => Stage = "delivered"
    /\ Failing => Stage = "failed"
  <1>1. Forming => Stage = "forming"
    <2>1. Forming => Is("absent", "none")
      BY DEF Forming
    <2> QED
      BY <2>1 DEF Is, Stage
  <1>2. TeamWorking => Stage = "working"
    <2>1. TeamWorking => Is("active", "execution")
      BY DEF TeamWorking
    <2> QED
      BY <2>1 DEF Is, Stage
  <1>3. Merged => Stage = "merging"
    <2>1. Merged => Is("active", "aggregation")
      BY DEF Merged
    <2> QED
      BY <2>1 DEF Is, Stage
  <1>4. TeamAsking => Stage = "asking"
    <2>1. TeamAsking => Is("active", "await_user")
      BY DEF TeamAsking
    <2> QED
      BY <2>1 DEF Is, Stage
  <1>5. Answering => Stage = "answered"
    <2>1. Answering => Is("active", "converge")
      BY DEF Answering
    <2> QED
      BY <2>1 DEF Is, Stage
  <1>6. TeamDelivered => Stage = "delivered"
    <2>1. TeamDelivered => Is("completed", "completed")
      BY DEF TeamDelivered
    <2> QED
      BY <2>1 DEF Is, Stage
  <1>7. Failing => Stage = "failed"
    <2>1. Failing => Is("failed", "aggregation")
      BY DEF Failing
    <2> QED
      BY <2>1 DEF Is, Stage
  <1> QED
    BY <1>1, <1>2, <1>3, <1>4, <1>5, <1>6, <1>7

(* RoundImplemented: the record goes through the stages of TeamRound, as   *)
(* long as nothing has gone wrong: no merge after a delivery or a failure, *)
(* no question but from a merge, no merge but of a team that worked or of  *)
(* an answer.                                                              *)
THEOREM RoundIsImplemented ==
    ASSUME TeamAssumption
    PROVE  Spec => RoundImplemented
  <1>1. Init => Round!Init
    BY DEF Init, Round!Init, Stage
  <1>2. TeamTyped /\ ClosingOK /\ TeamRoundInv /\ [Next]_vars => [Undisturbed' => Round!Next]_Stage
    <2> SUFFICES ASSUME TeamTyped, ClosingOK, TeamRoundInv, [Next]_vars, Undisturbed', Stage' # Stage
                 PROVE  Round!Next
      OBVIOUS
    <2>1. CASE UNCHANGED vars
      BY <2>1 DEF vars, Stage
    <2>2. CASE Next
      <3>1. Steps
        BY <2>2, RoundSteps
      <3>2. (/\ Forming => Stage = "forming"
             /\ TeamWorking => Stage = "working"
             /\ Merged => Stage = "merging"
             /\ TeamAsking => Stage = "asking"
             /\ Answering => Stage = "answered"
             /\ TeamDelivered => Stage = "delivered"
             /\ Failing => Stage = "failed")'
        BY RoundStages, PTL
      <3> QED
        BY <3>1, <3>2, RoundStages
           DEF Steps, Round!Next, Round!Form, Round!Merge, Round!Deliver, Round!Ask, Round!Answer, Round!Fail
    <2> QED
      BY <2>1, <2>2
  <1> QED
    BY <1>1, <1>2, RoundAlways, PTL DEF Spec, RoundImplemented

(* OneMerge: no two aggregation tasks race for the outcome of the boss.    *)
THEOREM OneMergeAlways ==
    ASSUME TeamAssumption
    PROVE  Spec => []OneMerge
  <1>1. TeamRoundInv => OneMerge
    <2> SUFFICES ASSUME TeamRoundInv, Undisturbed PROVE Cardinality(OpenMerges) <= 1
      BY DEF OneMerge
    <2>1. ASSUME NEW m \in OpenMerges, NEW n \in OpenMerges PROVE m = n
      <3>1. /\ m \in Merges /\ n \in Merges /\ ~QuietTask(m) /\ ~QuietTask(n)
            /\ task[m].status # "completed" /\ task[n].status # "completed"
        BY DEF OpenMerges, QuietTask, Terminal
      <3>2. Merged \/ Failing
        BY <3>1 DEF TeamRoundInv, Forming, TeamWorking, TeamAsking, Answering, TeamDelivered, MergesOver,
           Outside, UnbornTask, OpenMerges, QuietTask
      <3>3. CASE Merged
        BY <3>1, <3>3 DEF Merged, Bears
      <3>4. CASE Failing
        BY <3>1, <3>4 DEF Failing
      <3> QED
        BY <3>2, <3>3, <3>4
    <2>2. CASE OpenMerges = {}
      BY <2>2, FS_EmptySet
    <2>3. CASE OpenMerges # {}
      <3> PICK m \in OpenMerges : TRUE
        BY <2>3
      <3>1. OpenMerges = {m}
        BY <2>1
      <3> QED
        BY <3>1, FS_Singleton
    <2> QED
      BY <2>2, <2>3
  <1> QED
    BY <1>1, RoundAlways, PTL

(* WaitsForTeam: the slot that opens a merge found all roles done, however *)
(* old its copy of the record is.                                          *)
THEOREM WaitsForTeamAlways ==
    ASSUME TeamAssumption
    PROVE  Spec => WaitsForTeam
  <1> DEFINE Kept == \A m \in FreshMerges : task'[m].status # "absent" /\ Undisturbed' => AllTerminal
  <1>1. TeamTyped /\ ClosingOK /\ TeamRoundInv /\ [Next]_vars => [Kept]_vars
    <2> SUFFICES ASSUME TeamTyped, ClosingOK, TeamRoundInv, Next, Undisturbed',
                        NEW m \in FreshMerges, task'[m].status # "absent"
                 PROVE  AllTerminal
      OBVIOUS
    <2>1. Steps
      BY RoundSteps
    <2>2. m \in Merges
      BY DEF FreshMerges
    <2>3. ~Forming' /\ ~TeamWorking'
      BY <2>2 DEF Forming, TeamWorking, UnbornTask, Outside
    <2>4. CASE TeamWorking
      BY <2>1, <2>3, <2>4 DEF Steps, Forming, TeamWorking, Merged, TeamAsking, Answering, TeamDelivered,
         Failing, Is
    <2>5. CASE Merged
      BY <2>5 DEF Merged, Bears, AnnouncedBy, MergedBy, RoleDone, QuietTask, SomeRole, AllTerminal,
         Children
    <2>6. CASE TeamAsking \/ Answering \/ TeamDelivered \/ Failing
      BY <2>6 DEF TeamAsking, Answering, TeamDelivered, Failing, QuietTask, SomeRole, Outside, AllTerminal,
         Children
    <2> QED
      BY <2>1, <2>3, <2>4, <2>5, <2>6 DEF Steps
  <1>2. WaitsForTeam <=> [][Kept]_vars
    BY DEF WaitsForTeam
  <1> HIDE DEF Kept
  <1> QED
    BY <1>1, <1>2, RoundAlways, PTL DEF Spec

(* A team's results are merged once at a time, and not before every role   *)
(* is through.                                                             *)
THEOREM TeamsAlwaysMergeOnce ==
    ASSUME TeamAssumption
    PROVE  Spec => TeamsMergeOnce
  BY OneMergeAlways, WaitsForTeamAlways DEF TeamsMergeOnce
=============================================================================
