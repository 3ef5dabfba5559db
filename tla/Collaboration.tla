---------------------------- MODULE Collaboration ----------------------------
(***************************************************************************)
(* One collaboration of a task (the boss) with a team of roles             *)
(* (services/task-runner/src/collaboration-manager.ts), as processTask of  *)
(* worker.ts drives it: the boss is split into one task per role, the slot *)
(* that finishes a role's task reports to the collaboration, the last      *)
(* report creates an aggregation task, and its report settles the boss.    *)
(*                                                                         *)
(* The slots of one process interleave at awaits: between the write of a   *)
(* result and its report, while an intermediate result is pushed to the    *)
(* chat, while changes of policy are announced, and before the metadata of *)
(* the boss is closed.  Each stretch between two awaits is one action.     *)
(***************************************************************************)
EXTENDS Integers, FiniteSets

CONSTANTS
    Boss,           \* the task that is done by a team
    Roles,          \* its possible participants, one task each
    Merges,         \* ids of aggregation tasks; bound on how many there can be
    Concurrency,    \* RUNNER_TASK_CONCURRENCY
    PartialMin,     \* policy.partialDeliveryMinCompletedRoles
    NoProgressMode, \* policy.terminalFailureNoProgressMode
    ManualMode,     \* policy.manualResumeAggregationMode
    MaxReplies,     \* bound: answers of the user
    Hazards, MaxFaults

(* crash: the runner dies and is started again; error: a statement or a    *)
(* message to the chat throws; slow: the boss is swept while its team      *)
(* still works, or a merge ends before a report; early: the user answers   *)
(* before being asked; cancel: the user cancels a task or rejects what it  *)
(* asks.                                                                   *)
AllHazards == {"crash", "error", "slow", "early", "cancel"}

TeamAssumption ==
    /\ Boss \notin Roles /\ Boss \notin Merges /\ Roles \cap Merges = {}
    /\ IsFiniteSet(Roles) /\ IsFiniteSet(Merges)
    /\ Concurrency \in Nat \ {0} /\ PartialMin \in Nat \ {0} /\ MaxReplies \in Nat
    /\ NoProgressMode \in {"await_user", "blocked"}
    /\ ManualMode \in {"deliver", "partial"}
    /\ Hazards \subseteq AllHazards /\ MaxFaults \in Nat

VARIABLES
    task,       \* task[t]: row of a task, and where the slot stands that runs it
    team,       \* the collaboration record
    merge,      \* merge[m]: what aggregation task m was created with
    shown,      \* metadata.collaborationStatus of the boss
    resume,     \* metadata.collaborationResumeRequested of the boss
    replies, faults

vars == <<task, team, merge, shown, resume, replies, faults>>

Tasks == {Boss} \cup Roles \cup Merges

Statuses == {"absent", "queued", "running", "held", "completed", "failed", "cancelled"}

(* idle: no slot runs the task.  working: in its handler (of the boss:     *)
(* planning, alone or resuming, as its metadata was at the claim).         *)
(* reporting: the outcome is written, handleTaskCompletion is not called   *)
(* yet.  pushing, announcing, closing: in handleTaskCompletion, at an      *)
(* await.  reopening: in resumeAwaitingCollaboration, at an await.         *)
Places == {"idle", "working", "planning", "alone", "resuming",
           "reporting", "pushing", "announcing", "closing", "reopening"}

(* A paused task and one that waits for an approval are both held.         *)
Terminal == {"completed", "failed", "cancelled"}

Phases == {"none", "assignment", "execution", "converge", "aggregation", "await_user", "completed"}

Modes == {"deliver", "partial", "await_user", "blocked"}

NoMerge == [mode |-> "deliver", heard |-> {}]

TypeOK ==
    /\ task \in [Tasks -> [status : Statuses, at : Places, saw : Phases, mode : Modes]]
    /\ team \in [status : {"absent", "active", "completed", "failed"},
                 phase : Phases, heard : SUBSET Roles]
    /\ merge \in [Merges -> [mode : Modes, heard : SUBSET Roles]]
    /\ shown \in {"none", "active", "await_user", "partial", "completed", "failed"}
    /\ resume \in BOOLEAN
    /\ replies \in 0..MaxReplies /\ faults \in 0..MaxFaults

Row(status) == [status |-> status, at |-> "idle", saw |-> "none", mode |-> "deliver"]

Init ==
    /\ task = [t \in Tasks |-> Row(IF t = Boss THEN "queued" ELSE "absent")]
    /\ team = [status |-> "absent", phase |-> "none", heard |-> {}]
    /\ merge = [m \in Merges |-> NoMerge]
    /\ shown = "none"
    /\ resume = FALSE
    /\ replies = 0
    /\ faults = MaxFaults

Fault(h) == h \in Hazards /\ faults > 0 /\ faults' = faults - 1

Busy == {t \in Tasks : task[t].at # "idle"}
Reporting == {t \in Busy : task[t].at \in {"reporting", "pushing", "announcing"}}

(* getExecutionChildren, and the counts of getCollaborationProgress.       *)
Children == {r \in Roles : task[r].status # "absent"}
Done == {r \in Children : task[r].status = "completed"}
OpenMerges == {m \in Merges : task[m].status \in {"queued", "running", "held"}}
FreshMerges == {m \in Merges : task[m].status = "absent"}
AllTerminal == Children # {} /\ \A r \in Children : task[r].status \in Terminal

(* updateAgentCollaboration, and the services that call it.                *)
Updated(status, phase) == [team EXCEPT !.status = status, !.phase = phase]
Advance(phase) == Updated(team.status, phase)
CompleteCollaboration == Updated("completed", "completed")
FailCollaboration == Updated("failed", team.phase)

Leave(t) == task' = [task EXCEPT ![t] = Row(@.status)]
Settle(t, status, at) == task' = [task EXCEPT ![t] = [Row(status) EXCEPT !.at = at]]

-----------------------------------------------------------------------------
(* Claims, and the handlers up to the outcome.                             *)

(* claimNextQueuedTask, and the branch of processTask that the metadata    *)
(* chooses: a boss that already has a team is executed like any other      *)
(* task.                                                                   *)
Claim(t) ==
    /\ task[t].status = "queued" /\ task[t].at = "idle"
    /\ Cardinality(Busy) < Concurrency
    /\ Settle(t, "running",
              IF t # Boss THEN "working"
              ELSE IF team.status = "absent" THEN "planning"
              ELSE IF resume THEN "resuming" ELSE "alone")
    /\ UNCHANGED <<team, merge, shown, resume, replies, faults>>

(* Splitting the boss: the row of the boss stays running, without a slot.  *)
Assign(born, phase, status) ==
    /\ task[Boss].at = "planning"
    /\ team' = Updated("active", phase)
    /\ task' = [t \in Tasks |-> IF t \in born THEN Row("queued")
                                ELSE IF t = Boss THEN Row(status) ELSE task[t]]
    /\ shown' = "active"
    /\ UNCHANGED <<merge, resume, replies>>

(* resolveParticipants: the leader's plan names the participants, or the   *)
(* heuristics do when there is no valid plan; never nobody.                *)
Participants == (SUBSET Roles) \ {{}}

StartCollaboration ==
    /\ \E participants \in Participants : Assign(participants, "execution", "running")
    /\ UNCHANGED faults

(* The process dies, or a statement throws, on the way: no roll back.      *)
StartPartly ==
    \E born \in SUBSET Roles :
        \/ Fault("crash") /\ Assign(born, "assignment", "running")
        \/ Fault("error") /\ \E s \in {"queued", "failed"} : Assign(born, "assignment", s)

(* The outcome of a handler is written by id; the slot still notifies.  A  *)
(* merge takes a call of the model, a report a few messages to the chat:   *)
(* it takes a slow slot for a merge to end before a report that is under   *)
(* way.                                                                    *)
Work(t, status) ==
    /\ task[t].at \in {"working", "alone"}
    /\ IF t \in Merges /\ Reporting # {} THEN Fault("slow") ELSE UNCHANGED faults
    /\ Settle(t, status, "reporting")
    /\ UNCHANGED <<team, merge, shown, resume, replies>>

Finish(t) == Work(t, "completed")
GiveUp(t) == Work(t, "failed")
Hold(t) == Work(t, "held")

-----------------------------------------------------------------------------
(* handleTaskCompletion of a role (or of a boss that worked alone).        *)

Ignored(t) == task[t].at = "reporting" /\ team.status # "active"

(* Nothing to report to: the collaboration is over.                        *)
ReportToNobody(t) ==
    /\ Ignored(t)
    /\ Leave(t)
    /\ UNCHANGED <<team, merge, shown, resume, replies, faults>>

(* Mutant: the report of the boss is recorded as that of a role.           *)
ReportAnyone(t) ==
    /\ t \notin Merges
    /\ task[t].at = "reporting" /\ team.status = "active"
    /\ team' = IF task[t].status = "completed"
               THEN [team EXCEPT !.heard = @ \cup {t}] ELSE team
    /\ task' = [task EXCEPT ![t].at = "pushing", ![t].saw = team.phase]
    /\ UNCHANGED <<merge, shown, resume, replies, faults>>

(* recordPhaseResult, which reads and writes the results with no await     *)
(* between, then the push of the intermediate result; the record of the    *)
(* collaboration is the one read here until the end of the report.         *)
RecordPhaseResult(t) == [team EXCEPT !.heard = @ \cup {t}]

ReportRole(t) ==
    /\ t \notin Merges
    /\ task[t].at = "reporting" /\ team.status = "active"
    /\ team' = IF task[t].status = "completed" /\ t \in Roles
               THEN RecordPhaseResult(t) ELSE team
    /\ task' = [task EXCEPT ![t].at = "pushing", ![t].saw = team.phase]
    /\ UNCHANGED <<merge, shown, resume, replies, faults>>

(* resolveAggregationDecision once all the children are terminal: with     *)
(* autoAggregateOnComplete the branches on time-outs are not reached.      *)
DecisionMode ==
    IF Done = Children THEN "deliver"
    ELSE IF Cardinality(Done) >= PartialMin THEN "partial" ELSE NoProgressMode

Merging(phase) == phase \in {"aggregation", "completed"}

(* createTask of performFinalAggregation: the prompt holds the results     *)
(* that have been recorded by now.                                         *)
CreateMerge(t, mode) ==
    LET m == CHOOSE m \in FreshMerges : TRUE
    IN  /\ FreshMerges # {}
        /\ merge' = [merge EXCEPT ![m] = [mode |-> mode, heard |-> team.heard]]
        /\ task' = [task EXCEPT ![m] = Row("queued"), ![t] = Row(@.status)]

(* Mutant: the phase is not looked at again. *)
OpenMergeAgain(t, mode) ==
    /\ team' = Advance("aggregation")
    /\ IF mode \in {"partial", "await_user"}
       THEN /\ task' = [task EXCEPT ![t].at = "announcing", ![t].mode = mode]
            /\ UNCHANGED merge
       ELSE CreateMerge(t, mode)

(* performFinalAggregation, called from a report or from a resumption.  A  *)
(* partial merge and one for the user's sake announce changes of policy    *)
(* between the change of phase and the creation of the task.               *)
OpenMerge(t, mode) ==
    IF Merging(team.phase)
    THEN Leave(t) /\ UNCHANGED <<team, merge>>
    ELSE /\ team' = Advance("aggregation")
         /\ IF mode \in {"partial", "await_user"}
            THEN /\ task' = [task EXCEPT ![t].at = "announcing", ![t].mode = mode]
                 /\ UNCHANGED merge
            ELSE CreateMerge(t, mode)

ShownFor(mode) == IF mode = "await_user" THEN "await_user" ELSE "active"

(* Mutant: a failed role is enough for a merge. *)
DecideEarly(t) ==
    /\ task[t].at = "pushing"
    /\ IF (AllTerminal \/ task[t].status = "failed") /\ ~Merging(task[t].saw)
       THEN OpenMerge(t, DecisionMode) /\ shown' = ShownFor(DecisionMode)
       ELSE Leave(t) /\ UNCHANGED <<team, merge, shown>>
    /\ UNCHANGED <<resume, replies, faults>>

Decide(t) ==
    /\ task[t].at = "pushing"
    /\ IF AllTerminal /\ ~Merging(task[t].saw)
       THEN OpenMerge(t, DecisionMode) /\ shown' = ShownFor(DecisionMode)
       ELSE Leave(t) /\ UNCHANGED <<team, merge, shown>>
    /\ UNCHANGED <<resume, replies, faults>>

Announce(t) ==
    /\ task[t].at = "announcing"
    /\ CreateMerge(t, task[t].mode)
    /\ UNCHANGED <<team, shown, resume, replies, faults>>

-----------------------------------------------------------------------------
(* handleTaskCompletion of an aggregation task.                            *)

(* It did not complete: it failed, or it was paused or held for approval.  *)
ReportFailedMerge(m) ==
    /\ task[m].at = "reporting" /\ team.status = "active"
    /\ task[m].status # "completed"
    /\ team' = FailCollaboration
    /\ task' = [task EXCEPT ![m].at = "idle", ![Boss].status = "failed"]
    /\ shown' = "failed"
    /\ UNCHANGED <<merge, resume, replies, faults>>

(* handleAggregationComplete, up to its await: the outcome of the merge    *)
(* becomes the outcome of the boss, whatever the row of the boss is by     *)
(* now. The last patch of a blocked merge overwrites the status "failed".  *)
ReportMerge(m) ==
    LET mode == merge[m].mode IN
    /\ task[m].at = "reporting" /\ team.status = "active"
    /\ task[m].status = "completed"
    /\ team' = CASE mode = "blocked" -> FailCollaboration
                  [] mode = "await_user" -> Advance("await_user")
                  [] OTHER -> CompleteCollaboration
    /\ task' = [task EXCEPT ![m].at = IF mode = "blocked" THEN "idle" ELSE "closing",
                            ![Boss].status = IF mode = "blocked" THEN "failed" ELSE "completed"]
    /\ shown' = CASE mode = "blocked" -> "completed"
                   [] mode = "await_user" -> "await_user"
                   [] OTHER -> "active"
    /\ UNCHANGED <<merge, resume, replies, faults>>

(* The metadata written after the announcement.                            *)
CloseMerge(m) ==
    /\ task[m].at = "closing"
    /\ shown' = IF merge[m].mode = "deliver" THEN "completed" ELSE merge[m].mode
    /\ Leave(m)
    /\ UNCHANGED <<team, merge, resume, replies, faults>>

-----------------------------------------------------------------------------
(* The user.  Bound: people act while two aggregations are left for what   *)
(* their action sets off.                                                  *)
Room == Cardinality(FreshMerges) > 1

(* The status is shown from the opening of a merge for the user's sake,    *)
(* the question is there when that merge has reported.                     *)
Asked == team.phase = "await_user" /\ Busy \cap Merges = {}

(* resumeAwaitingCollaborationTask of inbound-collaboration.ts: the        *)
(* message belongs to the collaboration that is shown as waiting for its   *)
(* user.                                                                   *)
Reply ==
    /\ shown = "await_user"
    /\ Room
    /\ replies < MaxReplies
    /\ IF Asked THEN UNCHANGED faults ELSE Fault("early")
    /\ replies' = replies + 1
    /\ resume' = TRUE
    /\ shown' = "active"
    /\ task' = [task EXCEPT ![Boss].status = "queued"]
    /\ UNCHANGED <<team, merge>>

(* Mutant: the team starts over. *)
ResumeAtWork ==
    /\ task[Boss].at = "resuming"
    /\ team' = Updated("active", "execution")
    /\ shown' = "active"
    /\ resume' = FALSE
    /\ task' = [task EXCEPT ![Boss].at = "reopening"]
    /\ UNCHANGED <<merge, replies, faults>>

(* resumeAwaitingCollaboration: the phase is set back, announced, and a    *)
(* new aggregation is opened; the boss is left running.                    *)
Resume ==
    /\ task[Boss].at = "resuming"
    /\ team' = Updated("active", "converge")
    /\ shown' = "active"
    /\ resume' = FALSE
    /\ task' = [task EXCEPT ![Boss].at = "reopening"]
    /\ UNCHANGED <<merge, replies, faults>>

Reopen ==
    /\ task[Boss].at = "reopening"
    /\ OpenMerge(Boss, ManualMode)
    /\ shown' = IF Merging(team.phase) THEN shown ELSE "active"
    /\ UNCHANGED <<resume, replies, faults>>

(* An answer to a paused task, or an approval: the task is queued again.   *)
(* A rejection or an expiry fails it, and nobody reports that.             *)
Release(t) ==
    /\ task[t].status = "held" /\ task[t].at = "idle"
    /\ Room
    /\ \/ Settle(t, "queued", "idle") /\ UNCHANGED faults
       \/ Settle(t, "failed", "idle") /\ Fault("cancel")
    /\ UNCHANGED <<team, merge, shown, resume, replies>>

Cancel(t) ==
    /\ task[t].status \in {"queued", "running", "held"}
    /\ Fault("cancel")
    /\ task' = [task EXCEPT ![t].status = "cancelled"]
    /\ UNCHANGED <<team, merge, shown, resume, replies>>

-----------------------------------------------------------------------------
(* Sweeps and faults.                                                      *)

TeamWorks ==
    \E t \in Tasks \ {Boss} : task[t].status \in {"queued", "held"} \/ task[t].at # "idle"

(* Mutant: a boss is left to its team. *)
RequeueMembers(t) ==
    /\ task[t].status = "running" /\ task[t].at = "idle" /\ t # Boss
    /\ Settle(t, "queued", "idle")
    /\ UNCHANGED <<team, merge, shown, resume, replies, faults>>

(* A row that is running without a slot has no heartbeat: it grows old and *)
(* runStaleRunningTaskRecovery puts it back, a boss after four times the   *)
(* usual age; that this is long enough for its team is what "slow" denies. *)
RequeueStale(t) ==
    /\ task[t].status = "running" /\ task[t].at = "idle"
    /\ IF t = Boss /\ TeamWorks THEN Fault("slow") ELSE UNCHANGED faults
    /\ Settle(t, "queued", "idle")
    /\ UNCHANGED <<team, merge, shown, resume, replies>>

(* runOrphanedCollaborationTaskCleanup.                                    *)
CloseOrphan(t) ==
    /\ task[t].status \in {"queued", "running"}
    /\ \/ t # Boss /\ task[Boss].status \in Terminal
       \/ team.status \in {"completed", "failed"}
    /\ task' = [task EXCEPT ![t].status = "failed"]
    /\ UNCHANGED <<team, merge, shown, resume, replies, faults>>

(* The catch blocks of processTask: "database is locked" puts the task     *)
(* back in the queue, anything else fails it, and that is reported.        *)
Throw(t) ==
    /\ task[t].at \notin {"idle", "planning"}
    /\ Fault("error")
    /\ \/ Settle(t, "queued", "idle")
       \/ Settle(t, "failed", IF team.status = "absent" THEN "idle" ELSE "reporting")
    /\ UNCHANGED <<team, merge, shown, resume, replies>>

Crash ==
    /\ Fault("crash")
    /\ Busy # {}
    /\ task' = [t \in Tasks |-> Row(task[t].status)]
    /\ UNCHANGED <<team, merge, shown, resume, replies>>

-----------------------------------------------------------------------------
SlotStep(t) ==
    \/ t = Boss /\ (StartCollaboration \/ Resume \/ Reopen)
    \/ Finish(t) \/ GiveUp(t)
    \/ ReportToNobody(t) \/ ReportRole(t) \/ Decide(t) \/ Announce(t)
    \/ t \in Merges /\ (ReportFailedMerge(t) \/ ReportMerge(t) \/ CloseMerge(t))

SweepStep(t) == RequeueStale(t) \/ CloseOrphan(t)

TaskStep(t) ==
    Claim(t) \/ SlotStep(t) \/ Hold(t) \/ SweepStep(t) \/ Release(t) \/ Cancel(t) \/ Throw(t)

Next == (\E t \in Tasks : TaskStep(t)) \/ StartPartly \/ Reply \/ Crash

Fairness ==
    /\ \A t \in Tasks : WF_vars(SlotStep(t) \/ SweepStep(t))
    /\ WF_vars(\E t \in Tasks : Claim(t))

Spec == Init /\ [][Next]_vars

FairSpec == Spec /\ Fairness

-----------------------------------------------------------------------------
Undisturbed == faults = MaxFaults

(* As long as nothing has gone wrong, at most one aggregation task is      *)
(* unfinished: no two merges race for the outcome of the boss.             *)
OneMerge == Undisturbed => Cardinality(OpenMerges) <= 1

(* ... and none is created while a role is still to deliver, whatever      *)
(* stale copy of the record the decision was made from and whatever was    *)
(* announced meanwhile.                                                    *)
WaitsForTeam ==
    [][\A m \in FreshMerges :
         task'[m].status # "absent" /\ Undisturbed' => AllTerminal]_vars

(* A team's results are merged once at a time, and not before it is        *)
(* through.                                                                *)
TeamsMergeOnce == []OneMerge /\ WaitsForTeam

(* "收集所有阶段结果": the aggregation that concludes a complete team is given     *)
(* the results of all its roles (collaboration-manager.ts:1613).  It is    *)
(* not: a role counts as done once its row is completed, while the slot    *)
(* that completed it is still on its way to recordPhaseResult.             *)
AllResultsCollected ==
    \A m \in Merges :
        task[m].status # "absent" /\ merge[m].mode = "deliver" => Children \subseteq merge[m].heard

(* A boss that was handed over is answered in the end: it is settled, or   *)
(* somebody is waiting for the user.                                       *)
Answered == task[Boss].status \in Terminal \/ \E t \in Tasks : task[t].status = "held"
BossIsAnswered == []<>Answered

(* The record goes through the stages of a team round, as long as nothing  *)
(* has gone wrong.                                                         *)
Stage ==
    CASE team.status = "absent" -> "forming"
      [] team.status = "failed" -> "failed"
      [] team.status = "completed" -> "delivered"
      [] team.status = "active" /\ team.phase = "aggregation" -> "merging"
      [] team.status = "active" /\ team.phase = "await_user" -> "asking"
      [] team.status = "active" /\ team.phase = "converge" -> "answered"
      [] OTHER -> "working"

Round == INSTANCE TeamRound WITH stage <- Stage

RoundImplemented == Round!Init /\ [][Undisturbed' => Round!Next]_Stage
=============================================================================
