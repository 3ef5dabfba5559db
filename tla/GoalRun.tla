------------------------------ MODULE GoalRun ------------------------------
(***************************************************************************)
(* Goal runs: the staged pipeline discover, plan, execute, verify, deploy, *)
(* accept, which the main loop of each task-runner process advances        *)
(* (processGoalRun in services/task-runner/src/worker.ts), the sweeps of   *)
(* that loop, and the handlers by which users answer, authorize and cancel *)
(* (services/orchestrator/src/routes/goal-runs.ts).                        *)
(*                                                                         *)
(* One pass of the loop reads the goal run into a local row and goes by    *)
(* that row.  Its writes are split in two steps, what it does for the      *)
(* stage and the write that moves the run on, since the orchestrator, the  *)
(* other processes and a crash come in between.  A handler of the          *)
(* orchestrator and one row of a sweep have no await: each is one step.    *)
(***************************************************************************)
EXTENDS Integers, Sequences, FiniteSets, SequencesExt

CONSTANTS
    Goals, Processes,
    TaskIds,        \* bound: execution tasks
    Tokens,         \* bound: run_auth_tokens rows
    DiscoverKeys,   \* inputs that objectives need before they are planned
    WebsiteKeys,    \* those of them that an objective about a website needs
    TargetKeys,     \* inputs the deploy stage may ask for: the target ...
    CredentialKeys, \* ... and the credentials for it
    Contexts,       \* bound: what goal runs may be created with
    MaxRetries,     \* max_retries of the goal runs
    WithTasks,      \* values of GOAL_RUN_EXECUTE_WITH_TASKS; every pass reads it anew
    Wishes,         \* what an objective may ask for
    NoExecution, NoGoal,
    RunHazards,     \* what the environment may do beyond the everyday
    MaxRunFaults    \* bound: how many times it may do it

(* crash: a runner dies, or finds the database locked, in the middle of a  *)
(* pass.  error: another exception in a pass.  tick: the sweep falls       *)
(* between the end of an execution task and the next look at it.  slow: a  *)
(* task runs past GOAL_RUN_COLLAB_TIMEOUT_MS.  early: an input that nobody *)
(* asked for.  stray: a request for a run that does not wait for it.       *)
GoalHazards == {"crash", "error", "tick", "slow", "early", "stray"}

Keys == DiscoverKeys \cup TargetKeys \cup CredentialKeys

(* What the context may hold besides: deploy_authorized_at.                *)
Inputs == Keys \cup {"authorized"}

Wish == [inputs : SUBSET Keys, deploys : BOOLEAN]

ASSUME KeyAssumption == WebsiteKeys \subseteq DiscoverKeys /\ Contexts \subseteq SUBSET Inputs
ASSUME WishAssumption == Wishes \subseteq Wish
ASSUME GoalNullAssumption == NoExecution \notin TaskIds /\ NoGoal \notin Goals
ASSUME GoalBoundAssumption ==
    MaxRetries \in Nat /\ MaxRunFaults \in Nat /\ WithTasks \subseteq BOOLEAN /\ RunHazards \subseteq GoalHazards

VARIABLES
    run,            \* the goal_runs table
    order,          \* the runs by updated_at, the latest last
    wish,           \* wish[g]: what g's objective asks for
    task,           \* the rows of tasks that goal runs created
    token,          \* the run_auth_tokens table
    credentials,    \* the credentials table, which all goal runs share
    runner,         \* the passes of the runners
    runFaults       \* faults the environment may still commit

goalVars == <<run, order, wish, task, token, credentials, runner, runFaults>>

-----------------------------------------------------------------------------

Stages == <<"discover", "plan", "execute", "verify", "deploy", "accept">>

StageNames == {"discover", "plan", "execute", "verify", "deploy", "accept"}

Awaiting == {"awaiting_input", "awaiting_authorization"}

Ended == {"completed", "failed", "cancelled"}

RunStatus == {"queued", "running"} \cup Awaiting \cup Ended

(* last: last_task_status of the context.  ctx: its other keys that        *)
(* matter.                                                                 *)
RunRow == [status : RunStatus \cup {"absent"}, stage : StageNames,
           task : TaskIds \cup {NoExecution}, retries : 0..MaxRetries,
           last : {"none", "completed", "synthesized"},
           ctx : SUBSET Inputs]

NoGoalRun == [status |-> "absent", stage |-> "discover", task |-> NoExecution,
              retries |-> 0, last |-> "none", ctx |-> {}]

LiveTask == {"queued", "running", "waiting_approval", "paused_input"}

(* How a pass ends: nothing, or the write that moves the run on.           *)
Moves == {"none", "queue", "ask", "authorize", "fail", "complete", "adopt"}

Idle == [pc |-> "idle", goal |-> NoGoal, row |-> NoGoalRun, move |-> "none",
         stage |-> "discover", task |-> NoExecution]

(* A pass that has read the row, and one that is about to move the run on. *)
Reading(g, row) == [pc |-> "seen", goal |-> g, row |-> row, move |-> "none",
                    stage |-> "discover", task |-> NoExecution]

Moving(g, move, stage, t) == [pc |-> "moving", goal |-> g, row |-> NoGoalRun, move |-> move,
                              stage |-> stage, task |-> t]

GoalTypeOK ==
    /\ run \in [Goals -> RunRow]
    /\ order \in Seq(Goals) /\ IsInjective(order)
    /\ wish \in [Goals -> Wishes]
    /\ task \in [TaskIds -> [status : LiveTask \cup Ended \cup {"absent"}, goal : Goals \cup {NoGoal}]]
    /\ token \in [Tokens -> [status : {"absent", "active", "used", "revoked", "expired"},
                             goal : Goals \cup {NoGoal}]]
    /\ credentials \subseteq CredentialKeys
    /\ runner \in [Processes -> [pc : {"idle", "seen", "moving"}, goal : Goals \cup {NoGoal},
                               row : RunRow, move : Moves, stage : StageNames,
                               task : TaskIds \cup {NoExecution}]]
    /\ runFaults \in Nat

GoalInit ==
    /\ run = [g \in Goals |-> NoGoalRun]
    /\ order = <<>>
    /\ wish \in [Goals -> Wishes]
    /\ task = [t \in TaskIds |-> [status |-> "absent", goal |-> NoGoal]]
    /\ token = [k \in Tokens |-> [status |-> "absent", goal |-> NoGoal]]
    /\ credentials = {}
    /\ runner = [r \in Processes |-> Idle]
    /\ runFaults = MaxRunFaults

GoalFault(h) == h \in RunHazards /\ runFaults > 0 /\ runFaults' = runFaults - 1

Needs(condition, h) == IF condition THEN GoalFault(h) ELSE UNCHANGED runFaults

(* updateGoalRunFields: every write sets updated_at. *)
Latest(g) == Append(RemoveFirst(order, g), g)

Write(g, row) == run' = [run EXCEPT ![g] = row] /\ order' = Latest(g)

TasksOf(g) == {t \in TaskIds : task[t].goal = g}

TaskEnded(t) == t # NoExecution => task[t].status \in Ended

Then(r, move, stage, t) ==
    runner' = [runner EXCEPT ![r] = Moving(runner[r].goal, move, stage, t)]

ThenQueue(r, stage) == Then(r, "queue", stage, NoExecution)

ThenFail(r) == Then(r, "fail", runner[r].row.stage, NoExecution)

Seen(r, stage) == runner[r].pc = "seen" /\ runner[r].row.stage = stage

-----------------------------------------------------------------------------
(* A pass of the main loop.                                                *)

(* claimNextQueuedGoalRun; which queued run is the oldest is left open.    *)
ClaimGoalRun(r, g) ==
    /\ runner[r].pc = "idle"
    /\ run[g].status = "queued"
    /\ Write(g, [run[g] EXCEPT !.status = "running"])
    /\ runner' = [runner EXCEPT ![r] = Reading(g, run'[g])]
    /\ UNCHANGED <<wish, credentials, task, token, runFaults>>

(* Mutant: the status is looked at after the limit. *)
LatestOfAll(g) == order # <<>> /\ g = Last(order) /\ run[g].status = "running"

(* ... ?? listGoalRuns({ status: "running", limit: 1 })[0], the one        *)
(* updated last, whoever advances it.                                      *)
LatestRunning(g) ==
    /\ run[g].status = "running"
    /\ \E i \in DOMAIN order :
          /\ order[i] = g
          /\ \A j \in DOMAIN order : j > i => run[order[j]].status # "running"

(* Nothing was queued, or the claim was lost to another process.  Merging  *)
(* the inputs of the run, if it has some, is an update as well.            *)
PollRunning(r, g) ==
    /\ runner[r].pc = "idle"
    /\ (\A h \in Goals : run[h].status # "queued") \/ Processes # {r}
    /\ LatestRunning(g)
    /\ order' = order \/ (run[g].ctx # {} /\ order' = Latest(g))
    /\ runner' = [runner EXCEPT ![r] = Reading(g, run[g])]
    /\ UNCHANGED <<run, wish, credentials, task, token, runFaults>>

Missing(r, keys) == (wish[runner[r].goal].inputs \cap keys) \ runner[r].row.ctx

(* requiresDiscoverClarification joins its three lists with ||, and a list *)
(* counts as true even when it is empty: only the first is ever asked for. *)
Discover(r) ==
    /\ Seen(r, "discover")
    /\ IF Missing(r, WebsiteKeys) # {} THEN Then(r, "ask", "discover", NoExecution) ELSE ThenQueue(r, "plan")
    /\ UNCHANGED <<run, order, wish, credentials, task, token, runFaults>>

Plan(r) ==
    /\ Seen(r, "plan")
    /\ Write(runner[r].goal, run[runner[r].goal])
    /\ ThenQueue(r, "execute")
    /\ UNCHANGED <<wish, credentials, task, token, runFaults>>

Synthesize(r) ==
    /\ Seen(r, "execute") /\ FALSE \in WithTasks
    /\ Write(runner[r].goal, [run[runner[r].goal] EXCEPT !.last = "synthesized"])
    /\ ThenQueue(r, "verify")
    /\ UNCHANGED <<wish, credentials, task, token, runFaults>>

CreateExecutionTask(r, t) ==
    /\ Seen(r, "execute") /\ TRUE \in WithTasks
    /\ runner[r].row.task = NoExecution
    /\ task[t].status = "absent"
    /\ task' = [task EXCEPT ![t] = [status |-> "queued", goal |-> runner[r].goal]]
    /\ Then(r, "adopt", "execute", t)
    /\ UNCHANGED <<run, order, wish, credentials, token, runFaults>>

(* A look at the task of the run, as the local row has it.                 *)
Looks(r, statuses) ==
    /\ Seen(r, "execute") /\ TRUE \in WithTasks
    /\ runner[r].row.task # NoExecution
    /\ task[runner[r].row.task].status \in statuses

(* The pass changes nothing.  A failed task of whose team others still     *)
(* work counts as running here.                                            *)
WatchTask(r) ==
    /\ Looks(r, LiveTask)
    /\ runner' = [runner EXCEPT ![r] = Idle]
    /\ UNCHANGED <<run, order, wish, credentials, task, token, runFaults>>

(* Execution tasks are created with collaborationMode, so this is the only *)
(* one of the three timeouts that is reached; the task is left alone.      *)
TimeOutExecution(r) ==
    /\ Looks(r, {"running", "waiting_approval"})
    /\ GoalFault("slow")
    /\ ThenFail(r)
    /\ UNCHANGED <<run, order, wish, credentials, task, token>>

(* Mutant: a task under way is taken for done. *)
CollectEarly(r) ==
    LET g == runner[r].goal IN
    /\ Looks(r, {"running", "completed"})
    /\ Write(g, [run[g] EXCEPT !.last = "completed", !.task = NoExecution])
    /\ ThenQueue(r, "verify")
    /\ UNCHANGED <<wish, credentials, task, token, runFaults>>

CollectTask(r) ==
    LET g == runner[r].goal IN
    /\ Looks(r, {"completed"})
    /\ Write(g, [run[g] EXCEPT !.last = "completed", !.task = NoExecution])
    /\ ThenQueue(r, "verify")
    /\ UNCHANGED <<wish, credentials, task, token, runFaults>>

(* Mutant: the retry is not counted. *)
RetryUncounted(r) ==
    LET g == runner[r].goal IN
    /\ runner[r].row.retries < MaxRetries
    /\ Write(g, [run[g] EXCEPT !.task = NoExecution])
    /\ ThenQueue(r, "execute")
    /\ UNCHANGED <<wish, credentials, task, token, runFaults>>

(* Mutant: one retry too many. *)
RetryOnceMore(r) ==
    LET g == runner[r].goal IN
    /\ runner[r].row.retries <= MaxRetries
    /\ Write(g, [run[g] EXCEPT !.retries = @ + 1, !.task = NoExecution])
    /\ ThenQueue(r, "execute")
    /\ UNCHANGED <<wish, credentials, task, token, runFaults>>

(* incrementGoalRunRetry and setGoalRunCurrentTask; then back to execute.  *)
Retry(r) ==
    LET g == runner[r].goal IN
    /\ runner[r].row.retries < MaxRetries
    /\ Write(g, [run[g] EXCEPT !.retries = @ + 1, !.task = NoExecution])
    /\ ThenQueue(r, "execute")
    /\ UNCHANGED <<wish, credentials, task, token, runFaults>>

(* Mutant: a task that waits for an approval counts as failed.             *)
RetryWaiting(r) == Looks(r, {"failed", "cancelled", "waiting_approval"}) /\ Retry(r)

(* Which failures are worth a retry is left open. *)
RetryTask(r) == Looks(r, {"failed", "cancelled"}) /\ Retry(r)

FailExecution(r) ==
    /\ Looks(r, {"failed", "cancelled"})
    /\ ThenFail(r)
    /\ UNCHANGED <<run, order, wish, credentials, task, token, runFaults>>

(* The artifacts and the roles of the team satisfy the objective or do     *)
(* not.                                                                    *)
VerifyPasses(r) ==
    /\ Seen(r, "verify") /\ runner[r].row.last # "none"
    /\ ThenQueue(r, "deploy")
    /\ UNCHANGED <<run, order, wish, credentials, task, token, runFaults>>

VerifyRetries(r) == Seen(r, "verify") /\ runner[r].row.last = "completed" /\ Retry(r)

VerifyFails(r) ==
    /\ Seen(r, "verify")
    /\ ThenFail(r)
    /\ UNCHANGED <<run, order, wish, credentials, task, token, runFaults>>

SkipDeploy(r) ==
    /\ Seen(r, "deploy") /\ ~wish[runner[r].goal].deploys
    /\ ThenQueue(r, "accept")
    /\ UNCHANGED <<run, order, wish, credentials, task, token, runFaults>>

Deploying(r) == Seen(r, "deploy") /\ wish[runner[r].goal].deploys

AskForTarget(r) ==
    /\ Deploying(r) /\ Missing(r, TargetKeys) # {}
    /\ Then(r, "ask", "deploy", NoExecution)
    /\ UNCHANGED <<run, order, wish, credentials, task, token, runFaults>>

Secrets(g) == wish[g].inputs \cap CredentialKeys

(* upsertCredential: what the context holds goes to the table ...          *)
Stocked(r) == credentials \cup (Secrets(runner[r].goal) \cap runner[r].row.ctx)

(* ... and only the table is asked: resolveCredentialSecret.               *)
Equipped(r) == Secrets(runner[r].goal) \subseteq Stocked(r)

(* The target is known; writing it to the context is an update.            *)
Prepare(r) ==
    /\ Deploying(r) /\ Missing(r, TargetKeys) = {}
    /\ credentials' = Stocked(r)
    /\ order' = Latest(runner[r].goal)
    /\ UNCHANGED <<run, wish, task, runFaults>>

AskForCredentials(r) ==
    /\ Prepare(r) /\ ~Equipped(r)
    /\ Then(r, "ask", "deploy", NoExecution)
    /\ UNCHANGED token

Authorized(r) == "authorized" \in runner[r].row.ctx

(* Mutant: the authorization is not asked for. *)
PassUnauthorized(r) == Prepare(r) /\ Equipped(r) /\ ThenQueue(r, "accept") /\ UNCHANGED token

(* The preflight is all that deploying does. *)
PassDeploy(r) ==
    /\ Prepare(r) /\ Equipped(r) /\ Authorized(r)
    /\ ThenQueue(r, "accept")
    /\ UNCHANGED token

(* createRunAuthToken. *)
NewToken(k, g) ==
    /\ token[k].status = "absent"
    /\ token' = [token EXCEPT ![k] = [status |-> "active", goal |-> g]]

AskAuthorization(r, k) ==
    /\ Prepare(r) /\ Equipped(r) /\ ~Authorized(r)
    /\ NewToken(k, runner[r].goal)
    /\ Then(r, "authorize", "deploy", NoExecution)

Accept(r) ==
    /\ Seen(r, "accept")
    /\ Then(r, "complete", "accept", NoExecution)
    /\ UNCHANGED <<run, order, wish, credentials, task, token, runFaults>>

(* queueGoalRun, markGoalRunAwaitingInput,                                 *)
(* markGoalRunAwaitingAuthorization, failGoalRun, completeGoalRun,         *)
(* setGoalRunCurrentTask: the row is found by its id and written whatever  *)
(* has become of it since the pass read it.                                *)
Moved(row, p) ==
    CASE p.move = "queue" -> [row EXCEPT !.status = "queued", !.stage = p.stage]
      [] p.move = "ask" -> [row EXCEPT !.status = "awaiting_input", !.stage = p.stage]
      [] p.move = "authorize" -> [row EXCEPT !.status = "awaiting_authorization", !.stage = p.stage]
      [] p.move = "fail" -> [row EXCEPT !.status = "failed"]
      [] p.move = "complete" -> [row EXCEPT !.status = "completed", !.stage = "accept"]
      [] p.move = "adopt" -> [row EXCEPT !.task = p.task]

MoveOn(r) ==
    /\ runner[r].pc = "moving"
    /\ Write(runner[r].goal, Moved(run[runner[r].goal], runner[r]))
    /\ runner' = [runner EXCEPT ![r] = Idle]
    /\ UNCHANGED <<wish, credentials, task, token, runFaults>>

(* The process dies, or processGoalRun catches a locked database.          *)
Abandon(r) ==
    /\ runner[r].pc # "idle"
    /\ GoalFault("crash")
    /\ runner' = [runner EXCEPT ![r] = Idle]
    /\ UNCHANGED <<run, order, wish, credentials, task, token>>

Throw(r) ==
    /\ runner[r].pc = "seen"
    /\ GoalFault("error")
    /\ ThenFail(r)
    /\ UNCHANGED <<run, order, wish, credentials, task, token>>

-----------------------------------------------------------------------------
(* The sweeps, which the main loop runs between its passes.                *)

(* Mutant: the run starts all over. *)
ReconcileAnew(r, g) ==
    /\ runner[r].pc = "idle"
    /\ run[g].status = "running"
    /\ TaskEnded(run[g].task)
    /\ Needs(run[g].task # NoExecution, "tick")
    /\ Write(g, [run[g] EXCEPT !.status = "queued", !.stage = "discover", !.task = NoExecution])
    /\ UNCHANGED <<wish, credentials, task, token, runner>>

(* runGoalRunFastReconciliation, and runStaleGoalRunRecovery for running   *)
(* runs: a run that was not written for a while, and whose task is over or *)
(* missing, is queued at its stage without the task.                       *)
Reconcile(r, g) ==
    /\ runner[r].pc = "idle"
    /\ run[g].status = "running"
    /\ TaskEnded(run[g].task)
    /\ Needs(run[g].task # NoExecution, "tick")
    /\ Write(g, [run[g] EXCEPT !.status = "queued", !.task = NoExecution])
    /\ UNCHANGED <<wish, credentials, task, token, runner>>

(* cancelGoalRun: its tasks, its active tokens, and the run, whatever its  *)
(* status.                                                                 *)
Cancelled(g) ==
    /\ task' = [t \in TaskIds |-> IF t \in TasksOf(g) /\ task[t].status \in LiveTask
                                  THEN [task[t] EXCEPT !.status = "cancelled"] ELSE task[t]]
    /\ token' = [k \in Tokens |-> IF token[k] = [status |-> "active", goal |-> g]
                                  THEN [token[k] EXCEPT !.status = "revoked"] ELSE token[k]]
    /\ Write(g, [run[g] EXCEPT !.status = "cancelled", !.task = NoExecution])

(* Mutant: only a question expires. *)
ExpireAwaitingInput(r, g) ==
    /\ runner[r].pc = "idle"
    /\ run[g].status = "awaiting_input"
    /\ Cancelled(g)
    /\ UNCHANGED <<wish, credentials, runner, runFaults>>

(* runStaleGoalRunRecovery: nobody answered for 36 hours.                  *)
ExpireAwaiting(r, g) ==
    /\ runner[r].pc = "idle"
    /\ run[g].status \in Awaiting
    /\ Cancelled(g)
    /\ UNCHANGED <<wish, credentials, runner, runFaults>>

-----------------------------------------------------------------------------
(* The users, through the orchestrator.                                    *)

(* POST /api/goal-runs, with whatever context the caller gives it.         *)
CreateGoalRun(g, ctx) ==
    /\ run[g].status = "absent"
    /\ Write(g, [NoGoalRun EXCEPT !.status = "queued", !.ctx = ctx])
    /\ UNCHANGED <<wish, credentials, task, token, runner, runFaults>>

(* Mutant: the answered run is not queued. *)
TakeInput(g, key) ==
    /\ run[g].status # "absent"
    /\ Needs(run[g].status # "awaiting_input", "early")
    /\ Write(g, [run[g] EXCEPT !.ctx = @ \cup {key}])
    /\ UNCHANGED <<wish, credentials, task, token, runner>>

(* POST .../input: any key is taken, deploy_authorized_at too; a run that  *)
(* waits for input is queued, even if this was not all it waits for, or    *)
(* nothing of it.                                                          *)
GiveInput(g, key) ==
    /\ run[g].status # "absent"
    /\ Needs(run[g].status # "awaiting_input", "early")
    /\ Write(g, [run[g] EXCEPT !.ctx = @ \cup {key},
                               !.status = IF @ = "awaiting_input" THEN "queued" ELSE @])
    /\ UNCHANGED <<wish, credentials, task, token, runner>>

(* POST .../authorize without a token issues one and parks the run.        *)
IssueToken(g, k) ==
    /\ run[g].status # "absent"
    /\ Needs(run[g].status # "awaiting_authorization", "stray")
    /\ NewToken(k, g)
    /\ Write(g, [run[g] EXCEPT !.status = "awaiting_authorization"])
    /\ UNCHANGED <<wish, credentials, task, runner>>

(* Mutant: whether the token is still good is not looked at.               *)
ConsumeAny(g, k) ==
    /\ run[g].status # "absent"
    /\ Needs(run[g].status # "awaiting_authorization", "stray")
    /\ token[k].goal = g
    /\ token' = [token EXCEPT ![k].status = "used"]
    /\ Write(g, [run[g] EXCEPT !.ctx = @ \cup {"authorized"},
                               !.status = IF @ = "awaiting_authorization" THEN "queued" ELSE @])
    /\ UNCHANGED <<wish, credentials, task, runner>>

(* POST .../authorize with a token: consumeRunAuthToken. *)
ConsumeToken(g, k) ==
    /\ run[g].status # "absent"
    /\ Needs(run[g].status # "awaiting_authorization", "stray")
    /\ token[k] = [status |-> "active", goal |-> g]
    /\ token' = [token EXCEPT ![k].status = "used"]
    /\ Write(g, [run[g] EXCEPT !.ctx = @ \cup {"authorized"},
                               !.status = IF @ = "awaiting_authorization" THEN "queued" ELSE @])
    /\ UNCHANGED <<wish, credentials, task, runner>>

(* A token that is presented too late is marked, whatever it was before.   *)
PresentExpired(k) ==
    /\ token[k].status \in {"active", "used", "revoked"}
    /\ token' = [token EXCEPT ![k].status = "expired"]
    /\ UNCHANGED <<run, order, wish, credentials, task, runner, runFaults>>

(* POST and DELETE /api/credentials: no goal run is looked at.             *)
PutCredential(key) ==
    /\ credentials' = credentials \cup {key}
    /\ UNCHANGED <<run, order, wish, task, token, runner, runFaults>>

DropCredential(key) ==
    /\ credentials' = credentials \ {key}
    /\ UNCHANGED <<run, order, wish, task, token, runner, runFaults>>

(* POST .../cancel and .../cancel-stale. *)
CancelGoalRun(g) ==
    /\ run[g].status # "absent"
    /\ Needs(run[g].status \in Ended, "stray")
    /\ Cancelled(g)
    /\ UNCHANGED <<wish, credentials, runner>>

-----------------------------------------------------------------------------
(* The execution tasks, which the task slots process (see TaskQueue).      *)

TaskMove(t, from, to) ==
    /\ task[t].status \in from
    /\ task' = [task EXCEPT ![t].status = to]
    /\ UNCHANGED <<run, order, wish, credentials, token, runner, runFaults>>

StartTask(t) == TaskMove(t, {"queued"}, "running")

SettleTask(t) == \E to \in {"completed", "failed"} : TaskMove(t, {"running"}, to)

DisturbTask(t) ==
    \/ TaskMove(t, {"running"}, "waiting_approval")
    \/ TaskMove(t, {"running"}, "queued")
    \/ TaskMove(t, LiveTask, "cancelled")

AnswerTask(t) == \E to \in {"queued", "failed"} : TaskMove(t, {"waiting_approval"}, to)

-----------------------------------------------------------------------------

Pass(r) ==
    \/ Discover(r) \/ Plan(r) \/ Synthesize(r)
    \/ \E t \in TaskIds : CreateExecutionTask(r, t)
    \/ WatchTask(r) \/ CollectTask(r) \/ RetryTask(r) \/ FailExecution(r)
    \/ VerifyPasses(r) \/ VerifyRetries(r) \/ VerifyFails(r)
    \/ SkipDeploy(r) \/ AskForTarget(r) \/ AskForCredentials(r) \/ PassDeploy(r)
    \/ \E k \in Tokens : AskAuthorization(r, k)
    \/ Accept(r) \/ MoveOn(r)

Fetch(r) == \E g \in Goals : ClaimGoalRun(r, g) \/ PollRunning(r, g)

GoalNext ==
    \/ \E r \in Processes :
        \/ Fetch(r) \/ Pass(r) \/ TimeOutExecution(r) \/ Abandon(r) \/ Throw(r)
        \/ \E g \in Goals : Reconcile(r, g) \/ ExpireAwaiting(r, g)
    \/ \E g \in Goals :
        \/ CancelGoalRun(g)
        \/ \E ctx \in Contexts : CreateGoalRun(g, ctx)
        \/ \E key \in Inputs : GiveInput(g, key)
        \/ \E k \in Tokens : IssueToken(g, k) \/ ConsumeToken(g, k)
    \/ \E k \in Tokens : PresentExpired(k)
    \/ \E key \in CredentialKeys : PutCredential(key) \/ DropCredential(key)
    \/ \E t \in TaskIds : StartTask(t) \/ SettleTask(t) \/ DisturbTask(t) \/ AnswerTask(t)

GoalSpec == GoalInit /\ [][GoalNext]_goalVars

(* The loop comes round, the sweep finds what nobody answers, and tasks    *)
(* are answered in the end (EveryTaskIsAnswered, NoEndlessWait of          *)
(* TaskQueue).                                                             *)
GoalFairness ==
    /\ \A r \in Processes :
          /\ WF_goalVars(Fetch(r)) /\ WF_goalVars(Pass(r))
          /\ \A g \in Goals : SF_goalVars(ExpireAwaiting(r, g))
    /\ \A t \in TaskIds :
          /\ WF_goalVars(StartTask(t)) /\ WF_goalVars(AnswerTask(t))
          /\ SF_goalVars(SettleTask(t))

GoalFairSpec == GoalSpec /\ GoalFairness

-----------------------------------------------------------------------------
(* What goal runs guarantee.                                               *)

Rank(stage) == CHOOSE i \in DOMAIN Stages : Stages[i] = stage

(* docs/02-architecture/goal-run-v1.md: the stages come in this order.     *)
(* The only way back is a retry, from verify to execute.                   *)
StagesInOrder ==
    [][\A g \in Goals :
          \/ Rank(run'[g].stage) >= Rank(run[g].stage)
          \/ run[g].stage = "verify" /\ run'[g].stage = "execute" /\ run[g].retries > 0]_goalVars

(* No run has two execution tasks under way. *)
OneLiveTask ==
    \A g \in Goals : Cardinality({t \in TasksOf(g) : task[t].status \in LiveTask}) <= 1

(* docs/02-architecture/runtime-flow.md: a retry follows a failure, so     *)
(* every execution task after the first has used up a retry.               *)
ExecutionsAreCounted == \A g \in Goals : Cardinality(TasksOf(g)) <= run[g].retries + 1

(* Every execution task of a goal run after the first has used up a retry, *)
(* and no goal run has two of them under way.                              *)
ExecutionsAreSingle == ExecutionsAreCounted /\ OneLiveTask

(* A run that waits for its user has no task at work meanwhile.            *)
AwaitingIsQuiet ==
    \A g \in Goals : run[g].status \in Awaiting => \A t \in TasksOf(g) : task[t].status \in Ended

(* A run waits for input only while it has not been given itself all that  *)
(* it needs, and for an authorization only while it has none.              *)
QuestionIsOpen ==
    \A g \in Goals :
        /\ run[g].status = "awaiting_input" => ~(wish[g].inputs \subseteq run[g].ctx)
        /\ run[g].status = "awaiting_authorization" => "authorized" \notin run[g].ctx

(* A goal run that waits for its user does nothing meanwhile, and waits    *)
(* for what it has not been given: an answer to it is not overlooked.      *)
AwaitingIsJustified == AwaitingIsQuiet /\ QuestionIsOpen

(* Everything that the deploy stage asks g's user for is there.            *)
Provided(g) == wish[g].inputs \cap TargetKeys \subseteq run[g].ctx /\ Secrets(g) \subseteq credentials

(* worker.ts:5407, "Provide via input or /api/credentials": a run that     *)
(* waits at the deploy stage goes on when all it asks for was provided.    *)
ProvidedRunsGoOn ==
    \A g \in Goals :
        run[g].status = "awaiting_input" /\ run[g].stage = "deploy" /\ Provided(g)
            ~> run[g].status = "queued" \/ ~Provided(g)

(* A run that deploys is accepted only with an authorization in its        *)
(* context, whoever has put it there.                                      *)
DeployIsAuthorized ==
    \A g \in Goals : wish[g].deploys /\ run[g].stage = "accept" => "authorized" \in run[g].ctx

(* docs/02-architecture/goal-run-v1.md, "One-time authorization": a token  *)
(* is spent while it is active, on the run it was issued for, which is     *)
(* authorized then and waits for it no more.  A token that was spent,      *)
(* revoked or presented too late never becomes good again, whatever is     *)
(* cancelled, asked for and issued anew meanwhile.                         *)
TokensAreOneTime ==
    [][\A k \in Tokens :
          LET g == token[k].goal IN
          /\ token[k].status # "absent" => token'[k].status # "absent" /\ token'[k].goal = g
          /\ token'[k].status = "active" => token[k].status \in {"absent", "active"}
          /\ token'[k].status = "used" /\ token[k].status # "used" =>
                /\ token[k].status = "active"
                /\ "authorized" \in run'[g].ctx /\ run'[g].status # "awaiting_authorization"]_goalVars

(* Every goal run comes to an end, if only because nobody answers it.      *)
EveryRunEnds == \A g \in Goals : []<>(run[g].status \in Ended \cup {"absent"})

=============================================================================
