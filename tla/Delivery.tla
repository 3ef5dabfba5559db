------------------------------ MODULE Delivery ------------------------------
(***************************************************************************)
(* The delivery workflow of a founder's request (orchestrator: server.ts   *)
(* createFounderDeliveryWorkflow, splitTaskIntoChildren; runner: worker.ts *)
(* syncFounderWorkflowProgress and syncFounderWorkflowFailure; the shared  *)
(* orchestration state).  The request is one task; whenever the task of a  *)
(* stage completes, the runner first brings the state kept with the root   *)
(* task up to date and then makes the task of the next stage.  It does so  *)
(* synchronously, but in several transactions: the process may end between *)
(* them, and the orchestrator's requests come in between.                  *)
(***************************************************************************)
EXTENDS Naturals, Sequences, FiniteSets

CONSTANTS
    StageTroubles,      \* which of "again", "cancel", "crash", "split" may happen
    MaxStageTroubles,   \* bound: how many of them, each once
    MaxQuestions,  \* bound: questions to the owner
    MaxTasks       \* bound: rows

DeliveryAssumption ==
    /\ StageTroubles \subseteq {"again", "cancel", "crash", "split"}
    /\ MaxStageTroubles \in Nat /\ MaxQuestions \in Nat /\ MaxTasks \in Nat \ {0}

VARIABLES
    rows,      \* the tasks: stage, root, status, who executes it, has it children
    state,     \* orchestrationState of each task; that of the root is the workflow's
    sync,      \* the task the runner has just ended and what is left to do for it
    questions,
    met        \* the troubles so far

deliveryVars == <<rows, state, sync, questions, met>>

Stages == <<"prd", "implementation", "qa", "recap">>
StageNames == {Stages[i] : i \in 1..4}
TaskStatuses == {"queued", "running", "paused_input", "completed", "failed", "cancelled"}
StageRows == [stage : StageNames, root : 1..MaxTasks, status : TaskStatuses, hands : 0..2, kids : BOOLEAN]
WorkflowStates == [at : StageNames \cup {"delivered"}, status : {"active", "blocked", "completed"},
           done : SUBSET StageNames, tested : {"pending", "verified", "failed"}]
NoSync == [of |-> 0, step |-> "none"]

DeliveryTypeOK ==
    /\ rows \in Seq(StageRows) /\ Len(rows) \in 1..MaxTasks
    /\ state \in Seq(WorkflowStates) /\ Len(state) = Len(rows)
    /\ sync \in [of : 0..MaxTasks, step : {"none", "ended", "patched", "checked", "created"}]
    /\ questions \in 0..MaxQuestions /\ met \subseteq StageTroubles /\ Cardinality(met) <= MaxStageTroubles

NewRow(stage, root) == [stage |-> stage, root |-> root, status |-> "queued", hands |-> 0, kids |-> FALSE]

(* createOrchestrationState                                                *)
NewState == [at |-> "prd", status |-> "active", done |-> {}, tested |-> "pending"]

(* createFounderDeliveryWorkflow                                           *)
DeliveryInit ==
    /\ rows = <<NewRow("prd", 1)>> /\ state = <<NewState>>
    /\ sync = NoSync /\ questions = 0 /\ met = {}

-----------------------------------------------------------------------------
Set(n, change) == rows' = [rows EXCEPT ![n] = change]

StageTrouble(what) ==
    /\ what \in StageTroubles \ met /\ Cardinality(met) < MaxStageTroubles
    /\ met' = met \cup {what}

(* The runner claims a task ...                                            *)
StartStage(n) ==
    /\ sync = NoSync /\ rows[n].status = "queued" /\ rows[n].hands < 2
    /\ Set(n, [rows[n] EXCEPT !.status = "running", !.hands = @ + 1])
    /\ UNCHANGED <<state, sync, questions, met>>

(* ... and may find that it needs an answer first (pauseTask) ...          *)
AskOwner(n) ==
    /\ sync = NoSync /\ rows[n].hands > 0 /\ rows[n].status = "running"
    /\ questions < MaxQuestions /\ questions' = questions + 1
    /\ Set(n, [rows[n] EXCEPT !.status = "paused_input", !.hands = @ - 1])
    /\ UNCHANGED <<state, sync, met>>

(* ... which puts it back into the queue (resumeTask).                     *)
GetAnswer(n) ==
    /\ rows[n].status = "paused_input"
    /\ Set(n, [rows[n] EXCEPT !.status = "queued"])
    /\ UNCHANGED <<state, sync, questions, met>>

(* completeTask and failTask do not look at the status the task has by     *)
(* now.                                                                    *)
EndStage(n, how) ==
    /\ sync = NoSync /\ rows[n].hands > 0
    /\ Set(n, [rows[n] EXCEPT !.status = how, !.hands = @ - 1])
    /\ sync' = [of |-> n, step |-> "ended"]
    /\ UNCHANGED <<state, questions, met>>

CompleteStage(n) == EndStage(n, "completed")

(* failDeliverableContract, and the errors of an execution.                *)
FailStage(n) == EndStage(n, "failed")

Position(stage) == CHOOSE i \in 1..4 : Stages[i] = stage

(* resolveFounderWorkflowNextSpec                                          *)
HasNext(stage) == Position(stage) < 4
NextStage(stage) == Stages[Position(stage) + 1]

(* Mutant: the verdict is kept for the stage before. *)
ProgressedUntested(s, stage) ==
    [at |-> IF HasNext(stage) THEN NextStage(stage) ELSE "delivered",
     status |-> IF HasNext(stage) THEN "active" ELSE "completed",
     done |-> s.done \cup {stage},
     tested |-> IF stage = "implementation" THEN "verified" ELSE s.tested]

(* The patch of syncFounderWorkflowProgress.  A test stage that ends is a  *)
(* test passed, whatever it found.                                         *)
Progressed(s, stage) ==
    [at |-> IF HasNext(stage) THEN NextStage(stage) ELSE "delivered",
     status |-> IF HasNext(stage) THEN "active" ELSE "completed",
     done |-> s.done \cup {stage},
     tested |-> IF stage = "qa" THEN "verified" ELSE s.tested]

(* The patch of syncFounderWorkflowFailure.                                *)
Blocked(s, stage) ==
    [s EXCEPT !.at = stage, !.status = "blocked", !.tested = IF stage = "qa" THEN "failed" ELSE @]

(* patchTaskOrchestrationState of the root and of the task itself.         *)
Patch ==
    /\ sync.step = "ended"
    /\ LET n == sync.of  r == rows[n].root  complete == rows[n].status = "completed"
           next == IF complete THEN Progressed(state[r], rows[n].stage) ELSE Blocked(state[r], rows[n].stage)
       IN /\ state' = [state EXCEPT ![r] = next, ![n] = next]
          /\ sync' = IF complete /\ HasNext(rows[n].stage) THEN [sync EXCEPT !.step = "patched"] ELSE NoSync
    /\ UNCHANGED <<rows, questions, met>>

(* Mutant: nothing is looked at. *)
AdvancedNever(n) == FALSE

(* Mutant: the children of the root are looked at. *)
AdvancedOfRoot(n) == rows[rows[n].root].kids

(* listTaskChildren: a stage that has a child has been left already.       *)
Advanced(n) == rows[n].kids

CheckChildren ==
    /\ sync.step = "patched"
    /\ sync' = IF Advanced(sync.of) THEN NoSync ELSE [sync EXCEPT !.step = "checked"]
    /\ UNCHANGED <<rows, state, questions, met>>

Create ==
    /\ sync.step = "checked" /\ Len(rows) < MaxTasks
    /\ rows' = Append(rows, NewRow(NextStage(rows[sync.of].stage), rows[sync.of].root))
    /\ state' = Append(state, state[rows[sync.of].root])
    /\ sync' = [sync EXCEPT !.step = "created"]
    /\ UNCHANGED <<questions, met>>

(* createTaskRelation                                                      *)
Relate ==
    /\ sync.step = "created" /\ Set(sync.of, [rows[sync.of] EXCEPT !.kids = TRUE]) /\ sync' = NoSync
    /\ UNCHANGED <<state, questions, met>>

Sync == Patch \/ CheckChildren \/ Create \/ Relate

-----------------------------------------------------------------------------
(* A task that takes long is put back and executed a second time.          *)
Again(n) ==
    /\ StageTrouble("again") /\ rows[n].status = "running"
    /\ Set(n, [rows[n] EXCEPT !.status = "queued"])
    /\ UNCHANGED <<state, sync, questions>>

CancelStage(n) ==
    /\ StageTrouble("cancel") /\ rows[n].status \in {"queued", "running", "paused_input"}
    /\ Set(n, [rows[n] EXCEPT !.status = "cancelled"])
    /\ UNCHANGED <<state, sync, questions>>

(* splitTaskIntoChildren: a child, which will be row k, is given the       *)
(* metadata of its parent, with its stage and its root.  The first task of *)
(* a workflow names no root: each of its children is one.                  *)
Child(n, k) == NewRow(rows[n].stage, IF rows[n].root = n THEN k ELSE rows[n].root)

(* POST /api/tasks/:taskId/split, into two.                                *)
Split(n) ==
    /\ StageTrouble("split") /\ Len(rows) + 2 <= MaxTasks
    /\ rows' = [rows EXCEPT ![n].kids = TRUE] \o [i \in 1..2 |-> Child(n, Len(rows) + i)]
    /\ state' = state \o [i \in 1..2 |-> state[n]]
    /\ UNCHANGED <<sync, questions>>

(* The runner dies; what it was executing is put back in time.             *)
CrashSync ==
    /\ StageTrouble("crash")
    /\ rows' = [n \in DOMAIN rows |-> [rows[n] EXCEPT !.hands = 0,
                                          !.status = IF @ = "running" THEN "queued" ELSE @]]
    /\ sync' = NoSync
    /\ UNCHANGED <<state, questions>>

-----------------------------------------------------------------------------
Working(n) == StartStage(n) \/ AskOwner(n) \/ GetAnswer(n) \/ CompleteStage(n) \/ FailStage(n)

DeliveryNext ==
    \/ \E n \in DOMAIN rows : Working(n) \/ Again(n) \/ CancelStage(n) \/ Split(n)
    \/ Sync \/ CrashSync

DeliverySpec == DeliveryInit /\ [][DeliveryNext]_deliveryVars

DeliveryFairSpec ==
    /\ DeliverySpec
    /\ WF_deliveryVars(Sync)
    /\ WF_deliveryVars(\E n \in DOMAIN rows : Working(n))

-----------------------------------------------------------------------------
Calm == met = {}

(* As long as nobody splits a stage, there is one task of a stage and it   *)
(* is made when the one before it has completed, although a task may be    *)
(* executed twice and the process may die half-way.                        *)
OneTaskPerStage ==
    [][\A n \in DOMAIN rows' \ DOMAIN rows :
         "split" \notin met' =>
            /\ rows'[n].stage = Stages[n]
            /\ rows[n - 1].stage = Stages[n - 1] /\ rows[n - 1].status = "completed"]_deliveryVars

(* Where nothing went wrong, the state that the founder reads tells the    *)
(* truth between two steps of the runner: what is done is done, a stage is *)
(* blocked when its task failed, the result is verified by the test stage  *)
(* alone, and delivered is delivered.                                      *)
StateIsTrue ==
    Calm /\ sync = NoSync =>
        LET completed == {rows[n].stage : n \in {k \in DOMAIN rows : rows[k].status = "completed"}}
            failed == {rows[n].stage : n \in {k \in DOMAIN rows : rows[k].status = "failed"}}
        IN /\ state[1].done = completed
           /\ (state[1].status = "blocked") = (failed # {})
           /\ (state[1].tested = "verified") = ("qa" \in completed)
           /\ (state[1].status = "completed") = (completed = StageNames)
           /\ state[1].at # "delivered" => state[1].at = rows[Len(rows)].stage

(* One task for each stage, and a state that is true of the tasks.         *)
StagesAreTrue == OneTaskPerStage /\ []StateIsTrue

(* Where nothing goes wrong the workflow comes to its delivery, or to a    *)
(* stage that is blocked.                                                  *)
Concluded == ~Calm \/ state[1].status \in {"completed", "blocked"}
DeliveryEnds == []<>Concluded
=============================================================================
