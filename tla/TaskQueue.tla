------------------------------ MODULE TaskQueue ------------------------------
(***************************************************************************)
(* Every writer of the `tasks` table at work at once: the slots of one or  *)
(* more task-runner processes (services/task-runner/src/worker.ts), the    *)
(* periodic sweeps of those processes, and the request handlers of the     *)
(* orchestrator (services/orchestrator/src).                               *)
(*                                                                         *)
(* Node runs a process's code without interruption between two awaits, so  *)
(* inside one runner a select-then-update or a scan-then-write sequence is *)
(* a critical section of its event loop; but the store autocommits every   *)
(* statement, so the other processes do interleave with its statements.    *)
(***************************************************************************)
EXTENDS Integers, FiniteSets, TaskStore

CONSTANTS
    Slots,          \* task processing loops, RUNNER_TASK_CONCURRENCY per process
    Runners,        \* task-runner processes, TASK_RUNNER_INSTANCES of them
    RunnerOf,       \* RunnerOf[w]: the process of slot w
    NoTask,
    Parent,         \* Parent[t]: metadata.parentTaskId of t, or NoTask
    Handlers,       \* Handlers[t]: what processTask may take t for
    Hazards,        \* what the environment may do beyond the everyday
    MaxFaults       \* bound: how many times it may do it

(* crash: a process dies and run-task-runners.mjs starts it again.         *)
(* lag: a heartbeat comes later than the staleness threshold.              *)
(* error: a statement throws (database is locked, or anything else) after  *)
(*   the task was claimed.                                                 *)
(* escalation: an approval already decided is escalated to one more step.  *)
(* eager: an approval is decided before the runner that asks for it has    *)
(*   marked the task as waiting.                                           *)
AllHazards == {"crash", "lag", "error", "escalation", "eager"}

ASSUME RunnerAssumption == RunnerOf \in [Slots -> Runners]
ASSUME ParentAssumption == Parent \in [Tasks -> Tasks \cup {NoTask}]
ASSUME HandlerAssumption == Handlers \in [Tasks -> SUBSET {"normal", "tool", "collaboration"}]
ASSUME NoTaskAssumption == NoTask \notin Tasks
ASSUME HazardAssumption == Hazards \subseteq AllHazards /\ MaxFaults \in Nat

VARIABLES
    tasks,          \* the table: [Tasks -> TaskRow]
    slot,           \* slot[w]: where loop w is, and with which task
    loop,           \* loop[r]: the critical section the event loop of r is in
    approval,       \* approval[t]: the approval that t's tool run asked for
    effect,         \* effect[t]: a decision taken whose effects are not applied yet
    faults,         \* faults the environment may still commit
    disturbed       \* history: tasks put back in the queue while a slot executed them

vars == <<tasks, slot, loop, approval, effect, faults, disturbed>>

-----------------------------------------------------------------------------
(* State of the processes.                                                 *)

(* selecting: between the SELECT and the UPDATE of claimNextQueuedTask;    *)
(* executing: in the handler; asking: between createApproval and           *)
(* markTaskWaitingApproval; settled: the handler has written the outcome   *)
(* and still notifies, records and reports; closing: the catch block has.  *)
SlotPc == {"idle", "selecting", "executing", "asking", "settled", "closing"}

IdleSlot == [pc |-> "idle", task |-> NoTask]

Sections == {"open", "claim", "ask", "staleSweep", "approvalSweep", "orphanSweep"}

OpenLoop == [at |-> "open", todo |-> {}]

TypeOK ==
    /\ tasks \in [Tasks -> TaskRow]
    /\ slot \in [Slots -> [pc : SlotPc, task : Tasks \cup {NoTask}]]
    /\ \A w \in Slots : slot[w].pc # "idle" => slot[w].task \in Tasks
    /\ loop \in [Runners -> [at : Sections, todo : SUBSET Tasks]]
    /\ approval \in [Tasks -> {"none", "pending", "decided"}]
    /\ effect \in [Tasks -> {"none", "approved", "rejected"}]
    /\ faults \in Nat
    /\ disturbed \in SUBSET Tasks

Init ==
    /\ tasks = [t \in Tasks |-> NoRow]
    /\ slot = [w \in Slots |-> IdleSlot]
    /\ loop = [r \in Runners |-> OpenLoop]
    /\ approval = [t \in Tasks |-> "none"]
    /\ effect = [t \in Tasks |-> "none"]
    /\ faults = MaxFaults
    /\ disturbed = {}

(* The slots whose handler still works on t and will write its outcome.    *)
Executors(t) == {w \in Slots : slot[w].pc \in {"executing", "asking"} /\ slot[w].task = t}

(* Mutant: the heartbeat starts only once the handler has returned.        *)
BeatingLate(t) == {w \in Slots : slot[w].pc \in {"settled", "closing"} /\ slot[w].task = t}

(* The slots whose heartbeat timer still touches t. *)
Beating(t) ==
    {w \in Slots : slot[w].pc \in {"executing", "asking", "settled", "closing"} /\ slot[w].task = t}

(* Slot w may take a step of its own: nothing else occupies its event      *)
(* loop.                                                                   *)
At(w, pc) == slot[w].pc = pc /\ loop[RunnerOf[w]].at = "open"

Enter(r, section, todo) == loop' = [loop EXCEPT ![r] = [at |-> section, todo |-> todo]]

Reopen(r) == loop' = [loop EXCEPT ![r] = OpenLoop]

Goto(w, pc) == slot' = [slot EXCEPT ![w].pc = pc]

(* Mutant: the slot forgets its task and keeps its place.                  *)
LeaveHalfway(w) == slot' = [slot EXCEPT ![w].task = NoTask]

Leave(w) == slot' = [slot EXCEPT ![w] = IdleSlot]

Fault(h) == h \in Hazards /\ faults > 0 /\ faults' = faults - 1

(* requeueTask, called by `caller` ({} when it is not a slot).             *)
Requeue(t, caller) ==
    /\ tasks' = RequeueTask(tasks, t)
    /\ disturbed' = IF Executors(t) \ caller = {} THEN disturbed ELSE disturbed \cup {t}

-----------------------------------------------------------------------------
(* A task processing loop: processTask.                                    *)

(* SELECT of claimNextQueuedTask.  Its ORDER BY adds one point of priority *)
(* per ten minutes of age, so any queued task is the first at some time.   *)
SelectQueued(w, t) ==
    /\ At(w, "idle")
    /\ tasks[t].status = "queued"
    /\ slot' = [slot EXCEPT ![w] = [pc |-> "selecting", task |-> t]]
    /\ Enter(RunnerOf[w], "claim", {t})
    /\ UNCHANGED <<tasks, approval, effect, faults, disturbed>>

(* Mutant: the number of rows the UPDATE changed is not looked at.         *)
ClaimUnchecked(w) ==
    /\ slot[w].pc = "selecting"
    /\ Goto(w, "executing")
    /\ tasks' = ClaimTask(tasks, slot[w].task)
    /\ Reopen(RunnerOf[w])
    /\ UNCHANGED <<approval, effect, faults, disturbed>>

(* UPDATE of claimNextQueuedTask: no row changed, no task claimed.         *)
ClaimSelected(w) ==
    LET t == slot[w].task IN
    /\ slot[w].pc = "selecting"
    /\ IF tasks[t].status = "queued" THEN Goto(w, "executing") ELSE Leave(w)
    /\ tasks' = ClaimTask(tasks, t)
    /\ Reopen(RunnerOf[w])
    /\ UNCHANGED <<approval, effect, faults, disturbed>>

(* The handler delivers a result and writes it, whatever the row is now.   *)
FinishTask(w) ==
    /\ At(w, "executing")
    /\ tasks' = CompleteTask(tasks, slot[w].task)
    /\ Goto(w, "settled")
    /\ UNCHANGED <<loop, approval, effect, faults, disturbed>>

(* The handler gives up: no provider, a failed tool, a broken contract.    *)
GiveUpTask(w) ==
    /\ At(w, "executing")
    /\ tasks' = FailTask(tasks, slot[w].task)
    /\ Goto(w, "settled")
    /\ UNCHANGED <<loop, approval, effect, faults, disturbed>>

(* processNormalTask, the model answered __NEEDS_INPUT__.  The slot        *)
(* settles whether or not the row was paused.                              *)
NeedInput(w) ==
    /\ At(w, "executing")
    /\ "normal" \in Handlers[slot[w].task]
    /\ tasks' = PauseTask(tasks, slot[w].task)
    /\ Goto(w, "settled")
    /\ UNCHANGED <<loop, approval, effect, faults, disturbed>>

(* ensureToolRunApproval: the approval exists before the task waits for    *)
(* it.                                                                     *)
AskApproval(w) ==
    /\ At(w, "executing")
    /\ "tool" \in Handlers[slot[w].task]
    /\ approval' = [approval EXCEPT ![slot[w].task] = "pending"]
    /\ Goto(w, "asking")
    /\ Enter(RunnerOf[w], "ask", {slot[w].task})
    /\ UNCHANGED <<tasks, effect, faults, disturbed>>

WaitForApproval(w) ==
    /\ slot[w].pc = "asking"
    /\ tasks' = MarkTaskWaitingApproval(tasks, slot[w].task)
    /\ Goto(w, "settled")
    /\ Reopen(RunnerOf[w])
    /\ UNCHANGED <<approval, effect, faults, disturbed>>

(* A collaboration task is split into its children and handed over to      *)
(* them: its row stays running, and no slot runs it.                       *)
Children(t) == {c \in Tasks : Parent[c] = t}

(* Mutant: a parent that is executed again creates its children again.     *)
HandOverAgain(w) ==
    LET born == Children(slot[w].task) IN
    /\ At(w, "executing")
    /\ "collaboration" \in Handlers[slot[w].task]
    /\ born # {}
    /\ tasks' = [t \in Tasks |-> IF t \in born THEN CreateTask(tasks, t)[t] ELSE tasks[t]]
    /\ Goto(w, "settled")
    /\ UNCHANGED <<loop, approval, effect, faults, disturbed>>

HandOver(w) ==
    LET born == {c \in Children(slot[w].task) : tasks[c].status = "absent"} IN
    /\ At(w, "executing")
    /\ "collaboration" \in Handlers[slot[w].task]
    /\ born # {}
    /\ tasks' = [t \in Tasks |-> IF t \in born THEN CreateTask(tasks, t)[t] ELSE tasks[t]]
    /\ Goto(w, "settled")
    /\ UNCHANGED <<loop, approval, effect, faults, disturbed>>

(* handleTaskCompletion: the outcome of an aggregation becomes the outcome *)
(* of the parent, whatever the parent's row is by then.                    *)
ReportToParent(w) ==
    LET p == Parent[slot[w].task] IN
    /\ At(w, "settled") \/ At(w, "closing")
    /\ p # NoTask
    /\ \/ slot[w].pc = "settled" /\ tasks' = CompleteTask(tasks, p)
       \/ tasks' = FailTask(tasks, p)
    /\ Leave(w)
    /\ UNCHANGED <<loop, approval, effect, faults, disturbed>>

(* Notifications, memory and lifecycle events are done: finally clears the *)
(* heartbeat and the loop polls again.                                     *)
Settle(w) ==
    /\ At(w, "settled") \/ At(w, "closing")
    /\ Leave(w)
    /\ UNCHANGED <<tasks, loop, approval, effect, faults, disturbed>>

(* A statement can throw anywhere between the claim and the end of the try *)
(* block: before the outcome is written, or after it.                      *)
Throws(w) ==
    /\ At(w, "executing") \/ At(w, "settled") \/ slot[w].pc = "asking"
    /\ Fault("error")
    /\ IF slot[w].pc = "asking" THEN Reopen(RunnerOf[w]) ELSE UNCHANGED loop

(* The catch block on "database is locked": the task goes back to the      *)
(* queue although its outcome may have been written already.               *)
DeferOnLock(w) ==
    /\ Throws(w)
    /\ Requeue(slot[w].task, {w})
    /\ Leave(w)
    /\ UNCHANGED <<approval, effect>>

(* The catch block on any other error, same remark. *)
FailOnError(w) ==
    /\ Throws(w)
    /\ tasks' = FailTask(tasks, slot[w].task)
    /\ Goto(w, "closing")
    /\ UNCHANGED <<approval, effect, disturbed>>

(* touchRunningTask on the slot's timer. *)
Heartbeat(w) ==
    /\ At(w, "executing") \/ At(w, "settled") \/ At(w, "closing")
    /\ tasks[slot[w].task].aged
    /\ tasks' = TouchRunningTask(tasks, slot[w].task)
    /\ UNCHANGED <<slot, loop, approval, effect, faults, disturbed>>

-----------------------------------------------------------------------------
(* The periodic sweeps of a runner's main loop.  Each lists rows once and  *)
(* then writes them by id, whatever they have become.                      *)

(* Time passes over a row that nobody touches. *)
GrowOld(t) ==
    /\ ~tasks[t].aged
    /\ tasks' = [tasks EXCEPT ![t].aged = TRUE]
    /\ UNCHANGED <<slot, loop, approval, effect, disturbed>>

Age(t) ==
    /\ \/ tasks[t].status = "waiting_approval"
       \/ tasks[t].status = "running" /\ Beating(t) = {}
    /\ GrowOld(t)
    /\ UNCHANGED faults

(* A slot is at work on the task and its heartbeats are late.              *)
MissHeartbeats(t) ==
    /\ tasks[t].status = "running" /\ Beating(t) # {}
    /\ GrowOld(t)
    /\ Fault("lag")

Scan(r, section, found) ==
    /\ loop[r].at = "open"
    /\ found # {}
    /\ Enter(r, section, found)
    /\ UNCHANGED <<tasks, slot, approval, effect, faults, disturbed>>

(* One iteration of the sweep's loop is over; after the last one the event *)
(* loop is free again.                                                     *)
Swept(r, t) ==
    IF loop[r].todo = {t} THEN Reopen(r) ELSE Enter(r, loop[r].at, loop[r].todo \ {t})

(* Mutant: a task that has been split is left to its children.             *)
ScanStaleChildless(r) ==
    Scan(r, "staleSweep",
         {t \in Tasks : tasks[t].status = "running" /\ tasks[t].aged /\ Children(t) = {}})

(* runStaleRunningTaskRecovery. *)
ScanStale(r) == Scan(r, "staleSweep", {t \in Tasks : tasks[t].status = "running" /\ tasks[t].aged})

RequeueStale(r, t) ==
    /\ loop[r].at = "staleSweep"
    /\ t \in loop[r].todo
    /\ Requeue(t, {})
    /\ Swept(r, t)
    /\ UNCHANGED <<slot, approval, effect, faults>>

(* Mutant: only tasks whose approval is still open are cleaned up.         *)
ScanWaitingUndecided(r) ==
    Scan(r, "approvalSweep",
         {t \in Tasks : tasks[t].status = "waiting_approval" /\ tasks[t].aged
                         /\ approval[t] = "pending"})

(* runStaleWaitingApprovalTaskCleanup. *)
ScanWaiting(r) ==
    Scan(r, "approvalSweep", {t \in Tasks : tasks[t].status = "waiting_approval" /\ tasks[t].aged})

ExpireWaiting(r, t) ==
    /\ loop[r].at = "approvalSweep"
    /\ t \in loop[r].todo
    /\ tasks' = FailTask(tasks, t)
    /\ Swept(r, t)
    /\ UNCHANGED <<slot, approval, effect, faults, disturbed>>

(* runOrphanedCollaborationTaskCleanup: the status of the child comes from *)
(* the list, the status of its parent is read at its turn. Its other case, *)
(* a collaboration that is no longer active, is in Collaboration.          *)
ParentIsTerminal(t) == Parent[t] # NoTask /\ IsTerminal(tasks[Parent[t]])

ScanOrphans(r) ==
    Scan(r, "orphanSweep",
         {t \in Tasks : tasks[t].status \in {"queued", "running"} /\ ParentIsTerminal(t)})

CloseOrphan(r, t) ==
    /\ loop[r].at = "orphanSweep"
    /\ t \in loop[r].todo
    /\ tasks' = IF ParentIsTerminal(t) THEN FailTask(tasks, t) ELSE tasks
    /\ Swept(r, t)
    /\ UNCHANGED <<slot, approval, effect, faults, disturbed>>

-----------------------------------------------------------------------------
(* The orchestrator.                                                       *)

SubmitTask(t) ==
    /\ tasks[t].status = "absent"
    /\ Parent[t] = NoTask
    /\ tasks' = CreateTask(tasks, t)
    /\ UNCHANGED <<slot, loop, approval, effect, faults, disturbed>>

(* Mutant: cancelTask does not look at the status. *)
CancelAnything(t) ==
    /\ tasks[t].status # "absent"
    /\ tasks' = [tasks EXCEPT ![t].status = "cancelled", ![t].pending = FALSE,
                              ![t].completed = TRUE, ![t].aged = FALSE]
    /\ UNCHANGED <<slot, loop, approval, effect, faults, disturbed>>

(* POST /api/tasks/:taskId/cancel, and the cascade of cancelGoalRun.       *)
CancelRequest(t) ==
    /\ tasks[t].status \in CancellableStatus
    /\ tasks' = CancelTask(tasks, t)
    /\ UNCHANGED <<slot, loop, approval, effect, faults, disturbed>>

(* The owner answers the question of a paused task: the row becomes        *)
(* running and no slot runs it; only the stale sweep brings it back to     *)
(* one.                                                                    *)
AnswerQuestion(t) ==
    /\ tasks[t].status = "paused_input" /\ tasks[t].pending
    /\ tasks' = ResumeTask(tasks, t)
    /\ UNCHANGED <<slot, loop, approval, effect, faults, disturbed>>

(* A decision on the pending approval step; the handler awaits its         *)
(* lifecycle event before it applies the effects.                          *)
DecideApproval(t, decision) ==
    /\ approval[t] = "pending"
    /\ effect[t] = "none"
    /\ IF \E w \in Slots : slot[w].pc = "asking" /\ slot[w].task = t
       THEN Fault("eager")
       ELSE UNCHANGED faults
    /\ approval' = [approval EXCEPT ![t] = "decided"]
    /\ effect' = [effect EXCEPT ![t] = decision]
    /\ UNCHANGED <<tasks, slot, loop, disturbed>>

(* applyApprovalDecisionEffects: the task is requeued or failed, whatever  *)
(* became of it in the meantime.                                           *)
ApplyDecision(t) ==
    /\ effect[t] # "none"
    /\ IF effect[t] = "approved"
       THEN Requeue(t, {})
       ELSE tasks' = FailTask(tasks, t) /\ UNCHANGED disturbed
    /\ effect' = [effect EXCEPT ![t] = "none"]
    /\ UNCHANGED <<slot, loop, approval, faults>>

(* POST /api/approvals/:approvalId/escalate has no status check: a decided *)
(* approval gets one more pending step.                                    *)
EscalateApproval(t) ==
    /\ approval[t] = "decided"
    /\ Fault("escalation")
    /\ approval' = [approval EXCEPT ![t] = "pending"]
    /\ UNCHANGED <<tasks, slot, loop, effect, disturbed>>

-----------------------------------------------------------------------------
(* Crashes: memory is gone, the table stays.                               *)

CrashRunner(r) ==
    /\ Fault("crash")
    /\ slot' = [w \in Slots |-> IF RunnerOf[w] = r THEN IdleSlot ELSE slot[w]]
    /\ loop' = [loop EXCEPT ![r] = OpenLoop]
    /\ UNCHANGED <<tasks, approval, effect, disturbed>>

(* Decisions recorded and not yet applied are lost. *)
CrashOrchestrator ==
    /\ Fault("crash")
    /\ effect' = [t \in Tasks |-> "none"]
    /\ UNCHANGED <<tasks, slot, loop, approval, disturbed>>

-----------------------------------------------------------------------------

SlotStep(w) ==
    \/ ClaimSelected(w) \/ FinishTask(w) \/ GiveUpTask(w) \/ NeedInput(w)
    \/ AskApproval(w) \/ WaitForApproval(w) \/ HandOver(w) \/ ReportToParent(w) \/ Settle(w)

SweepStep(r) ==
    \E t \in Tasks : RequeueStale(r, t) \/ ExpireWaiting(r, t) \/ CloseOrphan(r, t)

Next ==
    \/ \E w \in Slots : SlotStep(w) \/ Heartbeat(w) \/ DeferOnLock(w) \/ FailOnError(w)
    \/ \E w \in Slots, t \in Tasks : SelectQueued(w, t)
    \/ \E r \in Runners : SweepStep(r) \/ ScanStale(r) \/ ScanWaiting(r) \/ ScanOrphans(r)
    \/ \E t \in Tasks :
        \/ Age(t) \/ MissHeartbeats(t) \/ SubmitTask(t) \/ CancelRequest(t) \/ AnswerQuestion(t)
        \/ \E d \in {"approved", "rejected"} : DecideApproval(t, d)
        \/ ApplyDecision(t) \/ EscalateApproval(t)
    \/ \E r \in Runners : CrashRunner(r)
    \/ CrashOrchestrator

Spec == Init /\ [][Next]_vars

(* The event loop of a live runner serves every timer that is due, hence   *)
(* strong fairness for the scans, which must find it free; queue aging     *)
(* puts every queued task first at some time; time passes.  Nobody has to  *)
(* submit, cancel, answer or decide anything.                              *)
Fairness ==
    /\ \A w \in Slots : WF_vars(SlotStep(w))
    /\ \A t \in Tasks : SF_vars(\E w \in Slots : SelectQueued(w, t))
    /\ \A r \in Runners : /\ WF_vars(SweepStep(r))
                          /\ SF_vars(ScanStale(r))
                          /\ SF_vars(ScanWaiting(r))
    /\ \A t \in Tasks : WF_vars(Age(t))
    /\ \A t \in Tasks : WF_vars(ApplyDecision(t))

FairSpec == Spec /\ Fairness

-----------------------------------------------------------------------------
(* What the queue guarantees.                                              *)

(* A task is executed by one slot at a time, however many slots and        *)
(* processes poll, unless somebody put it back in the queue while a slot   *)
(* was at work on it: the guarded UPDATE of claimNextQueuedTask.           *)
OneExecutor ==
    \A t \in Tasks \ disturbed : \A v, w \in Executors(t) : v = w

(* With one task-runner process (the default of run-task-runners.mjs), and *)
(* until a fault happens, nobody puts a task back in the queue under a     *)
(* slot that is still at work on it.                                       *)
NeverDisturbed == faults = MaxFaults => disturbed = {}

(* completed_at of claimed, failed, cancelled and requeued rows: a settled *)
(* task is stamped, and a task that is queued, running or paused is not,   *)
(* whatever late writers there are.  Only a late markTaskWaitingApproval   *)
(* can leave the stamp of an earlier end on a row that waits.              *)
CompletionStamp ==
    \A t \in Tasks :
        /\ IsTerminal(tasks[t]) => tasks[t].completed
        /\ tasks[t].status \in {"queued", "running", "paused_input"} => ~tasks[t].completed

(* Nobody can still write task t: no slot works on it, no sweep lists it,  *)
(* no decision on it is open, and the same holds of its children.          *)
Unreferenced(t) ==
    /\ Beating(t) = {}
    /\ \A r \in Runners : loop[r].at \in {"open", "claim", "ask"} \/ t \notin loop[r].todo
    /\ effect[t] = "none"
    /\ \/ approval[t] = "none"
       \/ approval[t] = "decided" /\ ("escalation" \notin Hazards \/ faults = 0)

Settled(t) == IsTerminal(tasks[t]) /\ Unreferenced(t)

Final(t) ==
    /\ Settled(t)
    /\ \A c \in Children(t) : tasks[c].status = "absent" \/ Settled(c)

(* A settled task that nobody refers to any more never changes again: it   *)
(* is not claimed, not resumed, not cancelled, not counted twice.  This is *)
(* the guarantee left by an UPDATE without a status guard: the damage a    *)
(* late writer can do ends with the last late writer.                      *)
FinalStaysFinal ==
    [][\A t \in Tasks : Final(t) => Final(t)' /\ tasks'[t] = tasks[t]]_vars

(* A running row that no slot executes (its process died, its question was *)
(* answered, its children work for it) does not stay like that for ever:   *)
(* runStaleRunningTaskRecovery.                                            *)
Stranded(t) == tasks[t].status = "running" /\ Executors(t) = {}

NoTaskStaysStranded == \A t \in Tasks : []<>~Stranded(t)

(* A queued task comes to an answer: an outcome, a question to the owner   *)
(* or a request for approval.                                              *)
EveryTaskIsAnswered ==
    \A t \in Tasks : []<>(tasks[t].status \notin {"queued", "running"})

(* No task waits for an approval for ever, even when the decision is lost  *)
(* with the orchestrator: runStaleWaitingApprovalTaskCleanup.              *)
NoEndlessWait == \A t \in Tasks : []<>(tasks[t].status # "waiting_approval")

(* worker.ts, after pauseTask: "Do not complete the task - leave it in     *)
(* paused_input state".  A handler that stops for input leaves a task that *)
(* was running in that state.                                              *)
PauseTakesEffect ==
    [][\A w \in Slots : NeedInput(w) /\ tasks[slot[w].task].status = "running"
            => tasks'[slot[w].task].status = "paused_input"]_vars

(* The queue implements the lease of TaskLease.                            *)
Lease == INSTANCE TaskLease WITH holders <- [t \in Tasks |-> Executors(t)], revoked <- disturbed

LeaseSpec == Lease!Spec

=============================================================================
