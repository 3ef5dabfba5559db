---------------------------- MODULE ToolApproval ----------------------------
(***************************************************************************)
(* The approval gate of a code-execution task: the tool runs a task-runner *)
(* process creates for it (services/task-runner/src/worker.ts), the        *)
(* approvals and their workflow steps (packages/shared/src/store.ts), and  *)
(* the orchestrator's handlers that decide them and apply the decision     *)
(* (services/orchestrator/src/routes/approvals.ts, server.ts).             *)
(*                                                                         *)
(* One task; TaskQueue models how many tasks share the slots.  Every step  *)
(* of a runner slot ends at a statement of the store, because the other    *)
(* processes interleave there and a crash can fall there.                  *)
(***************************************************************************)
EXTENDS Integers, Sequences, FiniteSets

CONSTANTS
    Slots,          \* task processing loops, each in a process of its own
    Requests,       \* decision requests the orchestrator serves at a time
    Runs,           \* bound: tool_runs rows
    Approvals,      \* bound: approvals rows
    MaxSteps,       \* bound: steps of an approval workflow
    Risks,          \* what detectToolRiskLevel may say of the instruction
    NoRun, NoApproval,
    Hazards,        \* what the environment may do beyond the everyday
    MaxFaults       \* bound: how many times it may do it

(* crash: a runner process dies.  outage: the orchestrator dies.  lag: the *)
(* stale sweep requeues a task whose slot lives.  error: a statement of a  *)
(* slot throws.  slow: a tool runs past TOOL_RUN_MAX_RUNNING_MS.           *)
(* escalation: POST /api/approvals/:approvalId/escalate.  eager: a request *)
(* for an approval that its runner has not finished linking.               *)
AllHazards == {"crash", "outage", "lag", "error", "slow", "escalation", "eager"}

ASSUME RiskAssumption == Risks \subseteq {"low", "high"}
ASSUME NullAssumption == NoRun \notin Runs /\ NoApproval \notin Approvals
ASSUME BoundAssumption ==
    MaxSteps \in Nat \ {0} /\ MaxFaults \in Nat /\ Hazards \subseteq AllHazards

VARIABLES
    task,           \* status of the task's row
    risk,           \* risk level of its instruction
    run,            \* the tool_runs table
    approval,       \* status column of the approvals table
    steps,          \* steps[a]: approval_workflow_steps of a, by step_index
    slot,           \* the runner slots
    request,        \* the decision requests in flight
    faults,         \* faults the environment may still commit
    effects         \* history: how often the effects of an approval were applied

vars == <<task, risk, run, approval, steps, slot, request, faults, effects>>

-----------------------------------------------------------------------------

TaskStatus == {"queued", "running", "waiting_approval", "completed", "failed", "cancelled"}

RunStatus == {"queued", "approval_pending", "running", "completed", "failed", "blocked"}

(* verdict: the approval_status column. *)
Verdicts == {"not_required", "auto_approved", "pending", "approved", "rejected"}

RunRow == [status : RunStatus \cup {"absent"}, verdict : Verdicts,
           approval : Approvals \cup {NoApproval}]

NoRow == [status |-> "absent", verdict |-> "not_required", approval |-> NoApproval]

(* start: claimed, nothing looked up yet; created, asked, opened, linked:  *)
(* after createToolRun, createApproval, ensureApprovalWorkflow and         *)
(* markToolRunApprovalPending; picked: run is about to start; executing:   *)
(* the tool's process runs; delivering, failing: it has ended well or not. *)
SlotPc == {"idle", "start", "created", "asked", "opened", "linked", "picked",
           "executing", "delivering", "failing"}

SlotState == [pc : SlotPc, run : Runs \cup {NoRun},
              approval : Approvals \cup {NoApproval},
              resumed : BOOLEAN]        \* the run was found in the queue

IdleSlot == [pc |-> "idle", run |-> NoRun, approval |-> NoApproval, resumed |-> FALSE]

(* read: the approval and its pending step were read, the before event is  *)
(* awaited; decided: the step is, the after event is awaited; applied: the *)
(* tool run is updated and the task is not yet.                            *)
RequestState == [stage : {"idle", "read", "decided", "applied"},
                 approval : Approvals \cup {NoApproval}, step : 0..MaxSteps,
                 verdict : {"pending", "approved", "rejected"}]

IdleRequest == [stage |-> "idle", approval |-> NoApproval, step |-> 0, verdict |-> "pending"]

TypeOK ==
    /\ task \in TaskStatus
    /\ risk \in Risks
    /\ run \in [Runs -> RunRow]
    /\ approval \in [Approvals -> {"none", "pending", "approved", "rejected"}]
    /\ steps \in [Approvals -> Seq({"pending", "approved", "rejected"})]
    /\ \A a \in Approvals : Len(steps[a]) <= MaxSteps
    /\ slot \in [Slots -> SlotState]
    /\ request \in [Requests -> RequestState]
    /\ faults \in Nat
    /\ effects \in [Approvals -> Nat]

Init ==
    /\ task = "queued"
    /\ risk \in Risks
    /\ run = [r \in Runs |-> NoRow]
    /\ approval = [a \in Approvals |-> "none"]
    /\ steps = [a \in Approvals |-> <<>>]
    /\ slot = [w \in Slots |-> IdleSlot]
    /\ request = [q \in Requests |-> IdleRequest]
    /\ faults = MaxFaults
    /\ effects = [a \in Approvals |-> 0]

Fault(h) == h \in Hazards /\ faults > 0 /\ faults' = faults - 1

Active(r) == run[r].status \in {"queued", "approval_pending", "running"}

TaskEnded == task \in {"completed", "failed", "cancelled"}

PendingSteps(a) == {i \in DOMAIN steps[a] : steps[a][i] = "pending"}

Goto(w, pc) == slot' = [slot EXCEPT ![w].pc = pc]

Leave(w) == slot' = [slot EXCEPT ![w] = IdleSlot]

-----------------------------------------------------------------------------
(* A runner slot: processCodeExecutionTask.                                *)

Claim(w) ==
    /\ slot[w].pc = "idle"
    /\ task = "queued"
    /\ task' = "running"
    /\ slot' = [slot EXCEPT ![w] = [IdleSlot EXCEPT !.pc = "start"]]
    /\ UNCHANGED <<risk, run, approval, steps, request, faults, effects>>

(* Mutant: the status and the verdict are not both looked at.              *)
ExecutableUnseen(r) == run[r].status \in {"queued", "approval_pending"}

(* getQueuedExecutableToolRunForTask; which one of several is left open.   *)
Executable(r) ==
    /\ run[r].status = "queued"
    /\ run[r].verdict \in {"approved", "auto_approved", "not_required"}

PickQueuedRun(w, r) ==
    /\ slot[w].pc = "start"
    /\ Executable(r)
    /\ slot' = [slot EXCEPT ![w].pc = "picked", ![w].run = r, ![w].resumed = TRUE]
    /\ UNCHANGED <<task, risk, run, approval, steps, request, faults, effects>>

(* createToolRun: status queued, approval not_required, until the approval *)
(* is asked for.  The first provider, the next one, or a strict retry.     *)
CreateToolRun(w, r) ==
    /\ \/ slot[w].pc = "start" /\ ~\E q \in Runs : Executable(q)
       \/ slot[w].pc = "failing" /\ ~(slot[w].resumed /\ risk = "high")
    /\ run[r].status = "absent"
    /\ run' = [run EXCEPT ![r] = [NoRow EXCEPT !.status = "queued"]]
    /\ slot' = [slot EXCEPT ![w] = [IdleSlot EXCEPT !.pc = "created", !.run = r]]
    /\ UNCHANGED <<task, risk, approval, steps, request, faults, effects>>

(* Mutant: the risk is not looked at. *)
AutoApproveAny(w) ==
    /\ slot[w].pc = "created"
    /\ run' = [run EXCEPT ![slot[w].run] = [@ EXCEPT !.status = "queued", !.verdict = "auto_approved"]]
    /\ Goto(w, "picked")
    /\ UNCHANGED <<task, risk, approval, steps, request, faults, effects>>

(* ensureToolRunApproval under cto_auto_owner_fallback, the default mode.  *)
AutoApprove(w) ==
    /\ slot[w].pc = "created"
    /\ risk = "low"
    /\ run' = [run EXCEPT ![slot[w].run] = [@ EXCEPT !.status = "queued", !.verdict = "auto_approved"]]
    /\ Goto(w, "picked")
    /\ UNCHANGED <<task, risk, approval, steps, request, faults, effects>>

CreateApproval(w, a) ==
    /\ slot[w].pc = "created"
    /\ risk = "high"
    /\ approval[a] = "none"
    /\ approval' = [approval EXCEPT ![a] = "pending"]
    /\ slot' = [slot EXCEPT ![w].pc = "asked", ![w].approval = a]
    /\ UNCHANGED <<task, risk, run, steps, request, faults, effects>>

(* ensureApprovalWorkflow: the owner's side may have opened it already.    *)
Opened(a) == IF steps[a] = <<>> THEN <<"pending">> ELSE steps[a]

OpenWorkflow(w) ==
    /\ slot[w].pc = "asked"
    /\ steps' = [steps EXCEPT ![slot[w].approval] = Opened(slot[w].approval)]
    /\ Goto(w, "opened")
    /\ UNCHANGED <<task, risk, run, approval, request, faults, effects>>

MarkToolRunApprovalPending(w) ==
    /\ slot[w].pc = "opened"
    /\ run' = [run EXCEPT ![slot[w].run] =
                 [status |-> "approval_pending", verdict |-> "pending", approval |-> slot[w].approval]]
    /\ Goto(w, "linked")
    /\ UNCHANGED <<task, risk, approval, steps, request, faults, effects>>

MarkTaskWaitingApproval(w) ==
    /\ slot[w].pc = "linked"
    /\ task' = "waiting_approval"
    /\ Leave(w)
    /\ UNCHANGED <<risk, run, approval, steps, request, faults, effects>>

(* executeApprovedToolRun: startToolRun is guarded by the id only.         *)
StartToolRun(w) ==
    /\ slot[w].pc = "picked"
    /\ run' = [run EXCEPT ![slot[w].run].status = "running"]
    /\ Goto(w, "executing")
    /\ UNCHANGED <<task, risk, approval, steps, request, faults, effects>>

EndToolRun(w) ==
    /\ slot[w].pc = "executing"
    /\ \/ run' = [run EXCEPT ![slot[w].run].status = "completed"] /\ Goto(w, "delivering")
       \/ run' = [run EXCEPT ![slot[w].run].status = "failed"] /\ Goto(w, "failing")
    /\ UNCHANGED <<task, risk, approval, steps, request, faults, effects>>

(* completeToolTask; failTask when the deliverable contract is broken.     *)
Deliver(w) ==
    /\ slot[w].pc = "delivering"
    /\ task' \in {"completed", "failed"}
    /\ Leave(w)
    /\ UNCHANGED <<risk, run, approval, steps, request, faults, effects>>

(* No provider is available, all have failed, or an approved high-risk run *)
(* has.                                                                    *)
GiveUp(w) ==
    /\ \/ slot[w].pc = "start" /\ ~\E q \in Runs : Executable(q)
       \/ slot[w].pc = "failing"
    /\ task' = "failed"
    /\ Leave(w)
    /\ UNCHANGED <<risk, run, approval, steps, request, faults, effects>>

(* A statement throws: processTask requeues the task when the database is  *)
(* locked and fails it otherwise.                                          *)
Throw(w) ==
    /\ slot[w].pc # "idle"
    /\ Fault("error")
    /\ task' \in {"queued", "failed"}
    /\ Leave(w)
    /\ UNCHANGED <<risk, run, approval, steps, request, effects>>

CrashRunner(w) ==
    /\ slot[w].pc # "idle"
    /\ Fault("crash")
    /\ Leave(w)
    /\ UNCHANGED <<task, risk, run, approval, steps, request, effects>>

-----------------------------------------------------------------------------
(* The sweeps of the runners.                                              *)

(* runStaleRunningTaskRecovery. *)
RecoverStaleTask ==
    /\ task = "running"
    /\ IF \A w \in Slots : slot[w].pc = "idle" THEN UNCHANGED faults ELSE Fault("lag")
    /\ task' = "queued"
    /\ UNCHANGED <<risk, run, approval, steps, slot, request, effects>>

(* runStaleWaitingApprovalTaskCleanup. *)
ExpireWaitingTask ==
    /\ task = "waiting_approval"
    /\ task' = "failed"
    /\ UNCHANGED <<risk, run, approval, steps, slot, request, faults, effects>>

(* runOrphanedToolRunCleanup, a run that has been running for too long.    *)
TimeOutRun(r) ==
    /\ run[r].status = "running"
    /\ IF \E w \in Slots : slot[w].pc = "executing" /\ slot[w].run = r
       THEN Fault("slow")
       ELSE UNCHANGED faults
    /\ run' = [run EXCEPT ![r].status = "failed"]
    /\ task' = IF task = "running" /\ ~\E s \in Runs \ {r} : Active(s) THEN "failed" ELSE task
    /\ UNCHANGED <<risk, approval, steps, slot, request, effects>>

(* Mutant: a run that waits for its approval is left alone.                *)
CleanQueuedRun(r) ==
    /\ run[r].status \in {"queued", "running"}
    /\ TaskEnded
    /\ run' = [run EXCEPT ![r].status = "failed"]
    /\ UNCHANGED <<task, risk, approval, steps, slot, request, faults, effects>>

(* ... and a run whose task has ended. *)
CleanOrphanRun(r) ==
    /\ Active(r)
    /\ TaskEnded
    /\ run' = [run EXCEPT ![r].status = "failed"]
    /\ UNCHANGED <<task, risk, approval, steps, slot, request, faults, effects>>

-----------------------------------------------------------------------------
(* The orchestrator.                                                       *)

(* POST .../decision, .../step/:stepId/decision, .../cancel, .../cancel-   *)
(* stale and the chat commands: the handler reads the approval and a       *)
(* pending step, then awaits the before_approval_decision event.           *)
ReceiveDecision(q, a, i, v) ==
    /\ request[q].stage = "idle"
    /\ approval[a] # "none"
    /\ IF \E w \in Slots : slot[w].approval = a /\ slot[w].pc \in {"asked", "opened", "linked"}
       THEN Fault("eager")
       ELSE UNCHANGED faults
    /\ steps' = [steps EXCEPT ![a] = Opened(a)]
    /\ i \in DOMAIN steps'[a] /\ steps'[a][i] = "pending"
    /\ request' = [request EXCEPT ![q] = [stage |-> "read", approval |-> a, step |-> i, verdict |-> v]]
    /\ UNCHANGED <<task, risk, run, approval, slot, effects>>

(* decideApprovalWorkflowStep and, on a rejection or on the last pending   *)
(* step, decideApproval.  The step is checked again: it throws if another  *)
(* request decided it during the await.  The request keeps the status of   *)
(* the approval as it is now.                                              *)
Concludes(a, i, v) == v = "rejected" \/ ~\E j \in PendingSteps(a) : j > i

(* Mutant: the step is not checked again after the await.                  *)
DecideUnchecked(q) ==
    LET a == request[q].approval
        v == request[q].verdict
    IN
    /\ request[q].stage = "read"
    /\ steps' = [steps EXCEPT ![a][request[q].step] = v]
    /\ approval' = IF Concludes(a, request[q].step, v) THEN [approval EXCEPT ![a] = v] ELSE approval
    /\ request' = [request EXCEPT ![q].stage = "decided", ![q].verdict = approval'[a]]
    /\ UNCHANGED <<task, risk, run, slot, faults, effects>>

DecideStep(q) ==
    LET a == request[q].approval
        i == request[q].step
        v == request[q].verdict
    IN
    /\ request[q].stage = "read"
    /\ IF steps[a][i] # "pending"
       THEN /\ request' = [request EXCEPT ![q] = IdleRequest]
            /\ UNCHANGED <<approval, steps>>
       ELSE /\ steps' = [steps EXCEPT ![a][i] = v]
            /\ approval' = IF Concludes(a, i, v) THEN [approval EXCEPT ![a] = v] ELSE approval
            /\ request' = [request EXCEPT ![q].stage = "decided", ![q].verdict = approval'[a]]
    /\ UNCHANGED <<task, risk, run, slot, faults, effects>>

(* Mutant: the columns for the status and the verdict are mixed up.        *)
ApplyMixedUp(q) ==
    LET a == request[q].approval
        v == request[q].verdict
    IN
    /\ request[q].stage = "decided"
    /\ run' = [r \in Runs |-> IF run[r].approval = a THEN [run[r] EXCEPT !.status = v] ELSE run[r]]
    /\ request' = [request EXCEPT ![q].stage = "applied"]
    /\ UNCHANGED <<task, risk, approval, steps, slot, faults, effects>>

(* Mutant: an approval without a tool run has no effects.                  *)
ApplyToLinked(q) ==
    LET a == request[q].approval
        v == request[q].verdict
        ruled == IF v = "approved" THEN "queued" ELSE "blocked"
    IN
    /\ request[q].stage = "decided"
    /\ IF \A r \in Runs : run[r].approval # a
       THEN request' = [request EXCEPT ![q] = IdleRequest] /\ UNCHANGED run
       ELSE /\ run' = [r \in Runs |-> IF run[r].approval = a
                                      THEN [run[r] EXCEPT !.status = ruled, !.verdict = v]
                                      ELSE run[r]]
            /\ request' = [request EXCEPT ![q].stage = "applied"]
    /\ UNCHANGED <<task, risk, approval, steps, slot, faults, effects>>

(* applyApprovalDecisionEffects: approveToolRunByApproval or               *)
(* rejectToolRunByApproval, for whatever runs carry the approval now ...   *)
ApplyToRuns(q) ==
    LET a == request[q].approval
        v == request[q].verdict
        ruled == IF v = "approved" THEN "queued" ELSE "blocked"
    IN
    /\ request[q].stage = "decided"
    /\ IF v = "pending"
       THEN request' = [request EXCEPT ![q] = IdleRequest] /\ UNCHANGED run
       ELSE /\ run' = [r \in Runs |-> IF run[r].approval = a
                                      THEN [run[r] EXCEPT !.status = ruled, !.verdict = v]
                                      ELSE run[r]]
            /\ request' = [request EXCEPT ![q].stage = "applied"]
    /\ UNCHANGED <<task, risk, approval, steps, slot, faults, effects>>

(* Mutant: a rejection reaches the tool run and not the task.              *)
ApplyApproval(q) ==
    /\ request[q].stage = "applied"
    /\ task' = IF request[q].verdict = "approved" THEN "queued" ELSE task
    /\ request' = [request EXCEPT ![q] = IdleRequest]
    /\ effects' = [effects EXCEPT ![request[q].approval] = @ + 1]
    /\ UNCHANGED <<risk, run, approval, steps, slot, faults>>

(* ... and then requeueTask or failTask, whatever the task is doing now.   *)
ApplyToTask(q) ==
    /\ request[q].stage = "applied"
    /\ task' = IF request[q].verdict = "approved" THEN "queued" ELSE "failed"
    /\ request' = [request EXCEPT ![q] = IdleRequest]
    /\ effects' = [effects EXCEPT ![request[q].approval] = @ + 1]
    /\ UNCHANGED <<risk, run, approval, steps, slot, faults>>

(* escalateApprovalWorkflow: one more pending step; neither the approval   *)
(* nor the workflow has to be undecided.                                   *)
Escalate(a) ==
    /\ approval[a] # "none"
    /\ Len(Opened(a)) < MaxSteps
    /\ Fault("escalation")
    /\ steps' = [steps EXCEPT ![a] = Append(Opened(a), "pending")]
    /\ UNCHANGED <<task, risk, run, approval, slot, request, effects>>

CancelTask ==
    /\ task \in {"queued", "running", "waiting_approval"}
    /\ task' = "cancelled"
    /\ UNCHANGED <<risk, run, approval, steps, slot, request, faults, effects>>

(* Requests between two awaits are lost. *)
CrashOrchestrator ==
    /\ Fault("outage")
    /\ request' = [q \in Requests |-> IdleRequest]
    /\ UNCHANGED <<task, risk, run, approval, steps, slot, effects>>

-----------------------------------------------------------------------------

SlotStep(w) ==
    \/ \E r \in Runs : PickQueuedRun(w, r) \/ CreateToolRun(w, r)
    \/ \E a \in Approvals : CreateApproval(w, a)
    \/ AutoApprove(w) \/ OpenWorkflow(w) \/ MarkToolRunApprovalPending(w)
    \/ MarkTaskWaitingApproval(w) \/ StartToolRun(w) \/ EndToolRun(w) \/ Deliver(w) \/ GiveUp(w)

RequestStep(q) == DecideStep(q) \/ ApplyToRuns(q) \/ ApplyToTask(q)

Next ==
    \/ \E w \in Slots : Claim(w) \/ SlotStep(w) \/ Throw(w) \/ CrashRunner(w)
    \/ RecoverStaleTask \/ ExpireWaitingTask \/ CancelTask \/ CrashOrchestrator
    \/ \E r \in Runs : TimeOutRun(r) \/ CleanOrphanRun(r)
    \/ \E q \in Requests :
        \/ RequestStep(q)
        \/ \E a \in Approvals, i \in 1..MaxSteps, v \in {"approved", "rejected"} :
               ReceiveDecision(q, a, i, v)
    \/ \E a \in Approvals : Escalate(a)

Spec == Init /\ [][Next]_vars

(* Loops poll, handlers go on after their awaits, and the sweeps come      *)
(* back. A tool may hang until it is timed out; nobody has to decide       *)
(* anything.                                                               *)
Fairness ==
    /\ SF_vars(\E w \in Slots : Claim(w))
    /\ \A w \in Slots : WF_vars(SlotStep(w))
    /\ \A q \in Requests : WF_vars(RequestStep(q))
    /\ WF_vars(RecoverStaleTask)
    /\ WF_vars(ExpireWaitingTask)
    /\ \A r \in Runs : WF_vars(TimeOutRun(r)) /\ SF_vars(CleanOrphanRun(r))

FairSpec == Spec /\ Fairness

-----------------------------------------------------------------------------
(* What the gate guarantees.                                               *)

(* A high-risk run starts only when the owner has approved it: its         *)
(* approval is decided, and every step of the workflow agreed.             *)
ApprovedByOwner(r) ==
    LET a == run[r].approval IN
    /\ run[r].verdict = "approved"
    /\ a # NoApproval
    /\ approval[a] = "approved"
    /\ \A i \in DOMAIN steps[a] : steps[a][i] = "approved"

HighRiskNeedsOwner ==
    [][\A w \in Slots : StartToolRun(w) /\ risk = "high" => ApprovedByOwner(slot[w].run)]_vars

(* Once a run is linked to its approval, it does not start while the       *)
(* approval is open or after it is rejected, whatever crashes and retries  *)
(* do to its task.                                                         *)
LinkedRunsObey ==
    [][\A w \in Slots : StartToolRun(w) /\ run[slot[w].run].approval # NoApproval
            => ApprovedByOwner(slot[w].run)]_vars

(* The effects of an approval are applied once: of the requests that read  *)
(* the same pending step before their await, only one decides it.          *)
EffectsOnce == "escalation" \notin Hazards => \A a \in Approvals : effects[a] <= 1

(* A task that waits can be brought on: it has an approval with a step to  *)
(* decide, or a decision that is being applied.                            *)
BeingApplied(a) ==
    \E q \in Requests : request[q].approval = a /\ request[q].stage \in {"decided", "applied"}

WaitingIsDecidable ==
    task = "waiting_approval" =>
        \E r \in Runs :
            LET a == run[r].approval IN
            /\ a # NoApproval
            /\ (approval[a] = "pending" /\ PendingSteps(a) # {}) \/ BeingApplied(a)

(* Nobody reopens a completed task, and its tool is not run again.         *)
CompletedStays == [][task = "completed" => task' = "completed"]_vars

(* Every tool run comes to an end: runOrphanedToolRunCleanup ends those    *)
(* whose process died or whose task ended without them.                    *)
RunsEnd == \A r \in Runs : []<>~Active(r)

(* A step that is decided keeps its decision: of the requests that read it *)
(* pending before their await, the later ones change nothing.  An approval *)
(* that is asked for is never forgotten.                                   *)
DecisionsStand ==
    [][\A a \in Approvals :
          /\ approval[a] # "none" => approval'[a] # "none"
          /\ \A i \in DOMAIN steps[a] \ PendingSteps(a) : steps'[a][i] = steps[a][i]]_vars

(* docs/02-architecture/runtime-flow.md: after the approval the task is    *)
(* queued again (ApplyToTask, which effects counts), and the runner        *)
(* continues from the approved run.                                        *)
ApprovalTakesEffect ==
    \A a \in Approvals : approval[a] = "approved" /\ task = "waiting_approval" ~> effects[a] > 0

=============================================================================
