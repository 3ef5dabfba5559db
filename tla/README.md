# VinkoClaw: a verification project

VinkoClaw is a team of AI agents behind chat, e-mail and a web console. Its
processes share one SQLite store, and almost everything that can go wrong goes
wrong between two statements on that store, issued by different processes, or
between two `await`s of one of them. This directory holds TLA+ models of the parts
that schedule work, gate it, route it and advance it, TLC runs that check them on
small instances, and TLAPS proofs for every size.

## 1. The system

Processes, all on one machine:

- one or more **task runners** (`services/task-runner`), each with
  `RUNNER_TASK_CONCURRENCY` processing loops ("slots", default 2) and a main loop
  that runs sweeps and advances goal runs; `scripts/run-task-runners.mjs` starts
  `TASK_RUNNER_INSTANCES` of them (default 1) and restarts one that dies;
- the **orchestrator** (`services/orchestrator`), the HTTP server that receives
  messages, decisions, inputs and cancellations, loads the plugins, talks to Feishu
  and runs due cadences;
- the **Feishu gateway** (`apps/feishu-gateway`) and the **e-mail poller**
  (`services/email-inbound`), which turn outside messages into requests;
- the **control center** (`apps/control-center`), a browser client.

They call each other over HTTP, and share state only through the store
(`packages/shared/src/store.ts`): SQLite in WAL mode, every statement
autocommitted, `busy_timeout` set, "database is locked" possible. Node runs the
code of one process without interruption between two `await`s. So the unit of
interleaving between processes is one statement, and within a process it is what
lies between two `await`s.

### Inventory

| Component | State | Operations | What is hard | What makes it correct |
|---|---|---|---|---|
| Task table (`store.ts`) | status, pending question, stamps, age | create, claim, complete, fail, pause, resume, cancel, wait, requeue, touch | most writes find the row by id only, whatever its status is | stamps agree with statuses; a settled task is not changed any more |
| Task slots and sweeps (`worker.ts`) | what each slot executes, heartbeat timers | processTask, catch branches, stale recovery, approval clean-up, orphan clean-up | a sweep and a live slot, two processes, crashes, exceptions after the outcome | one executor per task; no task is stranded; every queued task is answered |
| Tool runs (`worker.ts`, `store.ts`) | tool_runs rows, child processes, three clocks | create, link, start, time out, fall back, end, clean up | crash between two writes, time-out against a late end | runs obey their approval, are what their process earned, and end |
| Approvals (`routes/approvals.ts`, `server.ts`, `store.ts`) | approvals, workflow steps | ask, decide, cancel, escalate, apply effects | two requests across an `await`, a crash between decision and effects, escalation of something decided | effects once; decisions stand; a waiting task can be decided |
| Goal runs (`worker.ts`, `routes/goal-runs.ts`, `store.ts`) | goal_runs, its inputs and context, run_auth_tokens, credentials shared by all runs | six stages, retry, ask, authorize, provide credentials, cancel, reconcile, expire | local copy of the row, sweep before pass, two processes, early and stray requests, inputs nobody asked for | stages in order; retries bounded and counted; no deployment without an authorization; tokens are good once; runs end |
| Collaboration (`collaboration-manager.ts`, `agent-collaboration.ts`) | collaboration record with phase results, child tasks | assign, report, aggregate, deliver partially, ask, resume, fail | last two children at once, a completed child whose report is under way, crash between phase and task | one aggregation, after its team; the boss is answered |
| Light review (`worker.ts`, end of processNormalTask) | review ids and iteration count in task metadata | create reviews, collect, assess, iterate | parallel reviews ending together, a cancelled review | one revision per draft; iterations bounded; results judged |
| Delivery workflow (`worker.ts`, `orchestration-state.ts`) | state in the metadata of the root task | sync, next stage, retry, split | root and successor written apart, a stage executed twice | one task per stage, the state is true of the tasks, an end |
| Inbound messages (`server.ts`, `inbound-*.ts`) | session metadata, paused tasks, goal runs | a fixed order of addressees, then the router | what was read before a model is asked is used after it | a reply resumes what asked; an answer counts once |
| Routing and intake (`inbound-router-v2.ts`, `router-*.ts`, ...) | templates, runtime settings | keywords, two models, validation, template selection | templates change while a model thinks; a model may say anything | a model is held to the rules; templates are current |
| Session workbench (`routes/tasks.ts`) | audit rows, timeline | post an action, repeat it, follow the timeline | a repeated request while the first is at work | a named action runs once; repeats are told how it went |
| Feishu (`server.ts`, `feishu-*.ts`) | expiring tokens, pushed steps, in memory | receive, de-duplicate, push cards, click | redelivery, a card clicked twice, a restart | a message is handled once; a step is decided once and reaches its approvers |
| E-mail (`email-inbound`) | seen ids, failure cool-downs, rate window | poll, dispatch, mark seen | crash between dispatch and mark, look-back window | handled once and in the end |
| Sign-in (`routes/auth.ts`, `auth.js`) | sessions in the store, tokens in localStorage | login, check, refresh, logout in several tabs | two pages that send a tab to each other | pages settle; a session is not lost |
| Control center (`app.js`) | panes, selection, requests under way, event stream | refresh, click, stream | answers that overtake each other | panes show what is selected |
| Agent runtime (`agent-runtime`) | messages of the current call | completion over backends, rounds of tool calls, fallback | a backend that fails half-way | terminates; every tool call is answered; the answer names its author |
| Plugins (`plugins/*`, `routes/plugins.ts`) | registry in memory, plugin_states | load, register, enable, disable, configure, emit | asynchronous register and hooks, failures, restarts | what the owner chose is what runs |
| Operator actions (`operator-actions.ts`, `server.ts`, `store.ts`) | operator_actions, runtime settings, secrets, configuration, agent_instances | ask, apply, approve, send | two decisions, a read-modify-write shared with the runner, crashes | consent first, effect once, keys before providers |
| Skills (`store.ts`, `skills*.ts`, `worker.ts`) | skill_bindings, catalog per process | install, disable, verify | a verification that ends after the next installation | the verdict is that of what is installed |
| Evolution (`evolution.ts`) | one ledger, one configuration | record signal, propose, apply, roll back | read-modify-write from two processes | evidence behind every setting; undo restores |
| CRM (`routes/crm.ts`, `routes/recurring.ts`) | leads, cadences, contacts | run due cadences, record contacts, move | crash between task and cadence; contacts out of order | no burst, no lead falls back, what is due is followed up |
| Memories, knowledge base, protocol, scripts | summaries, files, schemas | derive, retrieve, validate | - | not modelled |

`PROJECT.json` lists the hazards of this code, each at its line, with the
properties that cover it or the reason why none does.

## 2. The modules

| Module | Models |
|---|---|
| `TaskStore` | the `tasks` table; one operator per UPDATE or INSERT, mapping the table to the table after the statement |
| `TaskQueue` | every writer of that table at work at once: slots, sweeps, handlers, crashes (uses `TaskStore`) |
| `TaskLease` | abstract: a task is leased to the slot that executes it, and is leased again only when free or revoked |
| `ToolApproval` | one tool task in detail: its tool runs, their approvals and workflow steps, the requests that decide them |
| `ToolCommand` | one execution of it: the process, its clocks, the fallback to another provider |
| `GoalRun` | goal runs, their execution tasks as the pipeline sees them, authorization tokens, passes and sweeps |
| `Collaboration` | one boss, its roles and aggregation tasks, driven by the slots through `handleTaskCompletion` |
| `TeamRound` | abstract: a team is formed, works, is merged, and is delivered, fails or asks |
| `LightReview` | drafts, their reviews, their assessment and revisions |
| `Delivery` | the founder's workflow of four stages and the state on its root |
| `AgentLoop` | one call of `AgentRuntime.execute` |
| `Inbound` | messages of one user, handled at once: the order in which somebody is found who waits for them |
| `Routing` | one text, from keywords and models to the task, team, goal run or template it becomes |
| `SessionActions` | the actions of the workbench and the timeline |
| `FeishuMessages`, `FeishuCards` | messages delivered again; approval cards |
| `MailIntake` | the poller and its marks |
| `SignIn`, `Console` | the browser: sessions and pages; panes and answers |
| `OperatorActions`, `Skills` | what a text changes: agents, settings, providers, channels, mail; skills and their verification |
| `Evolution` | the ledger of what was learned |
| `FollowUps` | leads, cadences and contacts |
| `Plugins` | the registry, its table and its hooks |
| `MCTaskQueue`, `MCToolApproval`, `MCGoalRun`, `MCCollaboration` | small instances for TLC |
| `MCRunner`, `MCServices` | several instances side by side for one run (section 3) |
| `TaskQueueProofs`, `ToolApprovalProofs`, `GoalRunProofs` | theorems about these modules, for all instances (section 4) |
| `ExecutionProofs` | theorems about `LightReview`, `Delivery`, `ToolCommand`, `Collaboration` |
| `OwnerProofs` | about `OperatorActions`, `Evolution`, `Skills`, `Plugins`, `FollowUps` |
| `ChannelProofs` | about `FeishuMessages`, `FeishuCards`, `SignIn`, `AgentLoop`, `Routing`, `Inbound`, `Console`, `SessionActions`, `MailIntake` |
| `SequenceFacts` | lemmas about sequences that several of them cite |
| `ServicesProofs` | the theorems of the last three and of `ToolApproval`, carried over to `MCServices` |

A component's specification, `Spec` or `XSpec`, is its initial states and steps; `FairSpec`
or `XFairSpec` adds the fairness. The theorems are about the former, and so hold whatever is
scheduled; the runs that check liveness use the latter.

The modules look at one another's parts from outside: in `TaskQueue` an approval is
one value and its effect one step, in `ToolApproval` a whole workflow; in `GoalRun`
an execution task moves by itself, in `TaskQueue` it is executed; in `ToolApproval`
a tool is one choice of how it ends, in `ToolCommand` a process; `Inbound` ends
where `Routing` begins. `Collaboration` and `TaskQueue` share the hand-over: the
latter checks what it does to the table, the former what the team makes of it.

### How state and actions correspond to the code

**TaskQueue.** `tasks` is the table. A row keeps its status, whether
`pending_input_json` and `completed_at` are set, and `aged`, which says that
`updated_at` is older than the threshold of the sweep that looks at its status; a
write clears it. `slot[w]` is where a processing loop stands in `processTask`:
`selecting` is between the SELECT and the UPDATE of `claimNextQueuedTask`,
`executing` is the handler, `asking` is between the two writes of
`ensureToolRunApproval`, `settled` and `closing` are after the outcome was
written. `loop[r]` is the critical section the event loop of process r is in: a
select-then-update or a sweep's list-then-write has no `await`, so the other slots
of the process wait, and the other processes do not. `approval` and `effect` stand
for a decision and its effects, with the `await` in between. `disturbed` is a
history variable: the tasks that were put back in the queue while a slot worked on
them. Each handler of `processTask` is reduced to its writes on the table:
`FinishTask`, `GiveUpTask`, `NeedInput`, `AskApproval` with `WaitForApproval`,
`HandOver`, then `Settle` or `ReportToParent`; the two catch branches are
`DeferOnLock` and `FailOnError`.

**ToolApproval.** `run`, `approval` and `steps` are the tables. A slot goes
through the statements of `processCodeExecutionTask`, `ensureToolRunApproval` and
`executeApprovedToolRun` one by one; `request[q]` is a handler of the orchestrator
that stops at its `await`s. The default approval mode, `cto_auto_owner_fallback`,
is modelled: low and medium risk (one value here) are approved automatically.

**ToolCommand.** `clock` counts the time since the start, the last output and the
last output that says something; `cut` is the set of time-outs that fired (the three
flags of `runToolCommand`), `process` the child. `result` is what the row and the task are given.

**GoalRun.** `run` is the table; of the context only `last_task_status`, the
inputs that the pipeline asks for and the authorization are kept. A goal run is
created with any part of the last two (`Contexts`), and the input handler takes any of
them, since neither route looks at the keys: `deploy_authorized_at` is an input like
another. `credentials` is the table that all goal runs share: a pass copies what its
context holds into it and then asks the table only, and `PutCredential` and
`DropCredential` are the routes over it. `order` is the order of `updated_at`, since
`listGoalRuns` takes the latest. `Discover` asks for the inputs of websites only,
because of the `||` of `requiresDiscoverClarification` (section 3). `wish[g]` says what the objective asks for, where
the code looks for words. A pass is two steps, what it does for the stage and the
write that moves the run on; it goes by the row it read. The write of each move
finds the row by id, as the code does.

**Collaboration.** `task` has the rows with, for each, where the slot that executes
it stands (`at`) and the phase that it read (`saw`); `team` is the collaboration
record; `merge[m].heard` are the results an aggregation task is given. Each stretch
of `handleTaskCompletion` between two `await`s is one action.

**LightReview**, **Delivery**, **Skills**. A task is a row with a place; the
metadata the code decides by (review ids, iteration, stage, verdict) are fields of
the row; what the runner reads before an `await` or before a second write is a field of
the row too, so that the orchestrator's writes may fall in between.

**AgentLoop.** `at` is the statement of `execute`, `primary` the configured backend,
`unanswered` the calls of the last message without a tool message behind it.

**Inbound**, **Routing**. `place[m]` is where a message is in the order of
`handleInboundMessage`; up to the first model call the handler is one step. A text
is the set of things the rules see in it; what a model answers is any value its
parser lets through.

**SessionActions.** `executions` are the requests at work, the log is a sequence of
audit rows of which the latest are seen.

**FeishuMessages**, **FeishuCards**, **MailIntake**. What is in memory is lost at a
restart, what is in the configuration table is not; every message, card and effect
is counted, and every fault that excuses a duplicate is recorded.

**SignIn**, **Console**. A tab has a page; what `auth.js` keeps is shared by all
tabs; requests under way are a sequence that arrives in order unless a glitch
happens.

**OperatorActions.** `work` is the statement of the orchestrator, synchronous for
its own process; `learner` is the task runner with a copy of the configuration in its
hands. `configCrossed` records that two writers of the configuration overlapped.

**Evolution.** `mine[p]` is what process p has read of the ledger and of the
settings and is about to write back. A proposal is known by its kind and the first
48 characters of its summary, which end before any count: it is made once, and not again when the
counts have grown. `disturbed` says that two processes held a copy of the ledger at a
time, or that a crash came between the settings and the ledger.

**FollowUps**, **Plugins**. Days are numbers; a request or a sweep is the list of
statements it still has to do. A plugin's `register` and hooks are choices; the
owner's last successful choice is what the registry and the table are compared with.

### Abstractions shared by the modules

- One store operation is one step. Where a method reads and then writes without an
  `await` but in several statements (`updateGoalRunContext`, the cascade of
  `cancelGoalRun`), another process could come in between; this is one step unless
  the module is about it: `claimNextQueuedTask`, the sweeps, `patchRuntimeConfig`, the
  evolution ledger and the skill bindings are split.
- A handler of the orchestrator that has no `await` is one step, or one step per
  row where a crash between two rows matters (`OperatorActions`, `FollowUps`, `Delivery`).
- Time is a choice: a row grows old at any moment when nobody touches it, and the
  hazards `lag`, `slow`, `tick` and `early` name the coincidences of time. Only
  `ToolCommand` and `FollowUps` count it.
- What a model answers, what a tool or plugin does and what a text means are choices.
- The order of claims is left open (see fairness).
- An input of a goal run has a value that is not blank, and keys that the pipeline keeps in
  the context for itself (`last_task_status`) are not given as inputs. Writing a credential
  and looking it up again, in one pass, is one step. The scope of a token is not modelled.
- Branches that only choose words are left out where they stand: the answer about an active
  task and the words for going on in `inbound-resume.ts`, the reply about a goal run in
  flight, templates without tasks, a patched interval of a cadence, the limit of a
  timeline query (the comments at `AsksProgress`, `FirstFit`, `Execute`, `Valid`,
  `PatchCadence`, `Timeline` say so).

## 3. The runs

`Hazards` (in other modules `RunHazards`, `Upsets`, `Troubles`, `Mishaps`, `Glitches`)
names what the environment does beyond the everyday, `MaxFaults` (`MaxRunFaults`, ...) how often: with a bound of n
every combination of up to n faults occurs, at every moment. Runs set
`CHECK_DEADLOCK FALSE`: tasks, rows and messages are finite, and the system is idle
when all are used and nobody asks for anything.

| Run | Instance | Shows | Distinct states |
|---|---|---|---|
| `TaskQueue_safety` | parent and child, one slot in each of two processes, any one of five hazards | types, one executor, stamps, settled tasks stay, the lease is implemented | 727 000 |
| `TaskQueue_pause` (violation) | one task, one process, one database error | a pause without effect | |
| `ToolApproval_faults` | one slot, two requests, two runs and approvals, up to four faults | effects once, linked runs obey | 314 000 (up to symmetry) |
| `ToolApproval_progress` | one slot, two requests, two-step workflows, one crash or escalation; fair | runs end, approvals take effect, waiting tasks can be decided, decisions stand | 205 000 |
| `ToolApproval_unapproved` (violation) | two slots, one crash | a high-risk run without approval | |
| `GoalRun_faults` | one goal run with any wish, two execution tasks or none, every hazard, two at a time | deployment authorized, stages in order, tokens good once | 2 120 000 (up to symmetry) |
| `GoalRun_tick` (violation) | one goal run, one sweep at the wrong moment | a result dropped and a task executed again | |
| `GoalRun_credentials` (violation) | one goal run that deploys and needs a secret; fair | a run that waits for credentials that are there | |
| `Runner_progress` | the queue of one process that may crash twice; one goal run through all its stages; two goal runs for one runner; fair | nothing stranded, unanswered, disturbed or starved; executions counted and single; waiting justified; runs end | 196 000 |
| `Services_run` | nineteen parts, see below; fair | for each part what it never does and what it does in the end | 398 000 |
| `Collaboration_lost` (violation) | a boss, two roles, two slots, no fault | an aggregation without the result of a completed role | |
| `Inbound_paused` (violation) | one user in two chats | a reply that resumes nothing | |

### Parts side by side

`MCRunner` and `MCServices` put several modules side by side, each with variables of its
own, and `part` says which of them a behaviour is about: `part` never changes, only
that part moves, and the others stay in one initial state. So the run is the disjoint
union of the parts' state graphs, a property of one part is vacuous in the behaviours
of the others, and `Parts` in the .cfg says which are checked. The parts do not
interact here; where components interact, one module has both sides (slots and
sweeps, requests and approvals, children and their boss, the orchestrator and the
runner over a configuration). Temporal properties of a part have the form `[]<>P`
with `P` true outside the part, which lets one pass over the graph check them all.
`MCRunner` extends `TaskQueue` and `GoalRun`, and `MCServices` extends every component but
`ToolApproval` (which is instantiated, as is a second `GoalRun` in `MCRunner`), so that their
runs check the very definitions the theorems of section 4 are about. `PartsAssumption` of
`MCServices` joins the assumptions of the components' constants, and TLC evaluates it.

A property of a union joins what its part promises. Each conjunct has, in its module,
a mutant of the code that violates it (the operator behind the comment
`(* Mutant: ... *)`); `PROJECT.json` lists one for each property.

| Part | Instance | Property |
|---|---|---|
| review | two reviewers, one of them needed, a plan of one round and a limit of two | `ReviewsAreBounded` (rounds of a chain, revisions of a draft); results are judged |
| signin | two tabs, two logins | `SessionIsKept`; no tab is sent back and forth |
| console | three clicks on two items, one overtaking or failed answer | `ConsoleIsRight` (panes, stream); a goal run is shown in the end |
| agent | two backends, two rounds of two calls | `AnswersAreSound` (calls answered, author named, files handed over); an end |
| mail | four messages, the latest in view, one command a minute, two marks kept | `HandledOnce`; mail is handled in the end |
| inbound | three messages in one chat | `MessagesFindTheirWork`: replies resume, count once; a question is kept; one goal run; enabled templates only |
| evolution | a ledger that lacks one signal for each of the four proposals, two more signals, one rollback, one look at the page, two processes | `LearningIsAccountable`: evidence, applied once, rollbacks restore |
| messages | two messages delivered twice | `MessageHandledOnce`; handled in the end |
| cards | two steps, two approvers, two clicks | `StepDecidedOnce`; every step reaches its approvers |
| routing | a template of the repository and one of the owner, two edits | `RoutesAreSound`; every text is answered |
| skills | a skill installed twice, two mishaps | `VerdictsAreTrue`; a verdict arrives |
| actions | two requests, the latest three audit rows | `ActionsAreAnswered`; the timeline is followed |
| delivery | four stages, one trouble, one question | `StagesAreTrue`; the workflow concludes |
| tool | two tools, limits of three, one and two units of time | `CommandsAreSound`; the execution ends |
| crm | a cadence of two days, three days, two requests, one crash | `LeadsAreKept`; what is due is followed up |
| plugins | two plugins, one asynchronous | `PluginsFollowTheOwner`; decisions go on |
| team | a boss, two roles, three aggregation tasks, two slots, any one hazard | `TeamsMergeOnce`, `RoundImplemented` (the team implements `TeamRound`); the boss is answered |
| gate | two slots, two requests, two runs, slow tools | `ToolsObeyTheGate`: no high-risk run without the owner, completed tasks stay |
| operator | two actions of ten kinds, two decisions at a time, one upset | `OperatorsAreObeyed`: consent first, one effect, keys first, changes stand, nobody forgotten; decisions are obeyed |

`OutcomesAreRight` joins the safety of mail, console, actions and crm. What stands behind a
semicolon is liveness, and is a conjunct of `PeopleAreServed` (somebody waits: mail, messages,
cards, routing, signin, console, actions) or of `WorkConcludes` (something was begun: review,
agent, skills, delivery, tool, crm, plugins, team, operator). `ServicesTypeOK` joins the types.

Why the bounds are enough. The races are between two parties over one row, so two
slots, two requests or a pass and a sweep show them; a third party repeats what the
second does, and the theorems of section 4 cover any number of them. A parent with one child shows both directions of the
hand-over; two roles are the last two children at once, and three aggregation tasks
are one more than a question, its answer and the delivery need. One retry shows both
sides of the retry limit, three execution task ids (`Runner_progress`) are one more
than a run may use, so that counting can fail; `GOAL_RUN_EXECUTE_WITH_TASKS` is read
at every pass, and `GoalRun_faults` lets it change between two. Two approval steps
show a step that does not conclude. In `ToolApproval_faults` four faults let the
runner crash, the orchestrator stop and a stale recovery happen in one behaviour. In
the parts, queues and windows (three audit rows, one message in the poll's view, one
command a minute) are smaller than what fills them. In the code the mailbox
window is 80 messages and 4000 marks are kept; that the marks are at least twice the window
(`MailAssumption`) is what the theorem about mail needs of the two numbers.

### Fairness

- Slots, passes and handlers: a live process goes on, hence weak fairness of what it
  does next (`Fairness`, `Proceed`, `RoutingStep`, `MessageStep`, `Handling`, `FollowUpStep`, `Slot`, `Orchestrator`, ...). For slots of
  one process weak fairness is enough: the event loop is freed and found free again
  by the same slot's continuation.
- Strong fairness where a thing is possible again and again, and Node serves it in
  the end: `ScanStale` and `ScanWaiting` need the event loop at the moment a row is
  old; an execution task ends in the end although passes come in between (`SettleTask`).
- `SelectQueued` is strongly fair for each task: the ORDER BY of
  `claimNextQueuedTask` adds a point of priority per ten minutes of age.
- `Age` is weakly fair: time passes over a row that nobody touches.
- Sweeps, polls and the refresh of the console come back with each round of a timer
  (`RunDue`, `Polling`, `PollTimeline`, `Refresh`).
- A crashed process is restarted by `run-task-runners.mjs`, so a crash frees its
  slots and nothing more; the parts assume the same of whoever runs the orchestrator.
- In `GoalRun`, that execution tasks end is assumed, and is what `QueueMovesOn`
  shows of them. In `Routing`, `Inbound` and `AgentLoop`, that a model answers or fails
  is assumed: their HTTP calls have time-outs. A tool that holds its output pipes open
  is a setback that `Settled` excuses.
- No fairness is assumed for people: nobody has to answer, decide, authorize,
  click or cancel.

`MCRunner` states one strong condition for one action of each part: the parts exclude
each other, so the disjunction says the same of each and keeps the run small.

### What the properties excuse

A property that holds only as long as nothing was disturbed names what disturbs it,
and the behaviours it excuses are these.

- `Collaboration`: a boss that was cancelled, or whose team lost a member to an error or
  a crash, is settled by what comes last (`Undisturbed`).
- `LightReview`: a review that fails or is cancelled collects for nobody, and its draft
  stays without a verdict (`Unhindered`); the comment at worker.ts:2764 counts on it.
- `Evolution`: two processes that overlap lose signals or a change, and may undo a rollback;
  a crash between the settings and the ledger lets the next application record the learned
  value as the one before (`disturbed`, in `UndoRestores` only: that every setting has its
  evidence and that no proposal has two changes is claimed with every overlap and crash).
- `Skills`, `OperatorActions`: two processes that overlap in a
  read-modify-write lose one of the two changes (`crossed`, `configCrossed`).
- `OperatorActions`: a refused mail, an effect that throws or a crash between decision
  and effect leaves an approved approval whose action is pending for ever (`lost`); a
  crash behind `sendMail` leaves a mail that was sent and an action that says pending.
- `Inbound`: two messages at a time may open two goal runs or overwrite a question
  (`crowd`).
- `MailIntake`: a crash, a lost answer or a failed write behind the dispatch sends a command
  twice; each of them excuses one message that is sent once too often, and no more (`Excuses`).
- `FeishuMessages`: a message whose token was claimed before its handling failed is not
  handled. `FeishuCards`: a refused card or a restart leaves a step that nobody is
  shown.
- `Delivery`: a crash between root and successor, a cancelled or a split stage
  leave a workflow that is active for ever (`Calm`).
- `FollowUps`: a crash between follow-up and cadence makes the follow-up twice; an owner who
  moves a cadence, or patches its next day, may ask for two in a row (`moved`).
- `SessionActions`: once the log has outgrown the rows that are looked at (`LogWindow`), a
  repeated request is executed again.
- `Console`: an answer that overtook another stays in its pane until the next click.
- `Plugins`: a plugin that failed to register, or a table write that failed
  (`doubtful`).
- `Skills`: a cancelled verification, or one cut off by a crash, leaves a skill unverified.

### Where code and documents disagree

Six runs are expected to be violated; `PROJECT.json` quotes the lines.

- *A pause without effect.* `pauseTask` does nothing when the row still holds a
  question; `requeueTask` does not clear it. After a database lock behind a pause,
  the task is executed again, asks again, and stays running. With the question
  kept, the same loop is reached when an approval is applied to a paused task.
- *A high-risk run without approval.* `createToolRun` inserts an executable run;
  it is linked to its approval two statements later. A crash or an exception in
  between lets the next slot start it.
- *A result dropped.* The reconciliation comes before the pass in the main loop and
  treats a completed task like a missing one.
- *Credentials that nobody notices.* A goal run that lacks credentials asks for them
  "via input or /api/credentials". The second way fills the table and looks at no goal run:
  the run waits on, though nothing is missing, until an input comes or the sweep cancels it.
- *A result left out.* A team is through when the rows of its tasks are. Between the
  statement that completes a task and the report that records its result lie several
  `await`s of its slot; another child that reports meanwhile opens the aggregation without it.
  (`recordPhaseResult` itself has no `await`: two reports do not overwrite each other.)
- *A reply that resumes nothing.* `getPausedTask` takes the latest paused task of the
  requester and looks at the chat only then.

More behaviours follow from the models; they are described here and have no run.

- `requiresDiscoverClarification` (worker.ts:4378) joins the lists of three helpers with
  `||`, and an empty array is true: only the inputs of websites are ever asked for, and an
  objective about data or research is planned without its own.
- A deployment needs an authorization in the context and not a token: whoever creates
  the goal run or gives it an input may put `deploy_authorized_at` there. That is why
  `DeployIsAuthorized` speaks of the context and `TokensAreOneTime` of the tokens.
- An orchestrator that stops between a decision and its effects leaves an approved
  approval whose task is never queued (`ApprovalTakesEffect` with hazard `outage`).
- A goal run cancelled between a pass's read and its `createTask` leaves a queued
  task behind, although cancelling is documented to leave none.
- A stalled execution task fails its goal run; `goal-run-v1.md` promises a fall-back
  to synthesized output, whose branch is not reached because execution tasks are
  always created with `collaborationMode`.
- With two task-runner processes the slower one can move a goal run back to an
  earlier stage (`StagesInOrder` with `Processes = {r1, r2}`); the order of stages
  holds for one process, the default.
- The report of a merge overwrites a boss that was cancelled; an unfinished merge's
  last patch may say "completed".
- A child that is rejected, expired or cancelled reports to nobody; its boss is found
  by the stale sweep and executed alone.
- `RoutesAreSound` is about what the router does, which takes a team from the model's plan
  although the comment at inbound-policy.ts:132 says that collaboration needs an
  explicit word; a template that is switched off while the model thinks ends in
  the answer that no branch was found.
- The tool that timed out is over only when its pipes are closed: a grandchild that
  keeps them open keeps the slot (worker.ts:2101).
- A cadence whose lead was archived is made "completed" by a late contact and "active" by
  the next note.
- A plugin that failed to register and is then configured stays off after a restart.
- A session action that was cut off by a crash is in flight for ever under its identity;
  one that failed is never executed again under it.

## 4. The proofs

The theorems hold for any number of tasks, slots, processes, requests, runs, approvals,
goal runs, tokens, roles, drafts, messages, tabs, cadences, plugins, signals and operator
actions, and for any number of faults. Each component has one or a few inductive invariants,
which TLC checked on small instances before they were proved, and one lemma per kind of step.

Every safety property of a passing run, and every type invariant, is stated by a theorem;
`PROJECT.json` lists the pairs. What stays with TLC is at the end of this section.

Assumptions: the constants have their types and the null values are not elements of the
sets (the named assumptions of the modules; in the modules about several components they are
hypotheses of the theorems, and `MCServices` assumes them of its instances). A theorem that
needs more says so in its ASSUME, and the section below says what happens without it.

**TaskQueueProofs**

- `TypeCorrect`: `TypeOK` is inductive by itself, because it says that a slot that
  is not idle has a task, which is what makes every table write well-typed.
- `OneExecutorAlways`: `OneExecutor` is not inductive, since the claim looks at the
  row and not at the slots. `ExecInv` adds `FreeTasksIdle`: a row that can be
  claimed (queued, or absent) and was not put back under a slot has no executor.
  The lemma `StepShape` first sorts all steps of the system into three shapes
  (acquire, release, put back), and the invariant is proved for the shapes.
- `QueueImplementsLease`: the same three shapes are steps of `TaskLease`, under the
  mapping `holders <- Executors`, `revoked <- disturbed`.
- `CompletionStampAlways`: inductive with `TypeOK`, by one lemma on what each
  statement does to a stamp.
- `FinalStaysFinalAlways`: needs `AbsentInv`, that a task not yet created is
  referred to by nobody, so that a child born late cannot report to a settled parent.
  This is the guarantee that the unguarded UPDATEs leave.
- `NeverDisturbedAlways`, for one process: `CalmInv` says, until the first fault, that a
  running row that is old has no slot, that nothing the stale sweep has listed has one, and
  that a task which waits for a decision or its effects is neither queued nor executed.
  Needed is also that a slot between two statements holds the event loop. With two
  processes TLC violates it without a fault: both list a row, one requeues it, its
  slot claims it, and the other requeues it again.

**ToolApprovalProofs**

- `Types`: not inductive without the fact that what a slot or a request refers to exists
  (`Typed`).
- `Decided`: an action property, from `Typed`. It holds through every hazard: whichever of
  the requests that read a step pending comes first, the UPDATE of the others fails.
- `SingleEffects`: `SingleInv` says that without escalation at most one request holds
  the decision of an approval, and its effects are not applied before it does. With
  escalation the property says nothing: a decided approval is opened again.
- `LinkedRunsNeedTheOwner`, for one slot: `VerdictInv` (a linked run says what its
  approval says) and `PickedInv` (what a slot has picked up was approved when it looked,
  and the approval does not change any more). With two slots it is false: a stale
  recovery gives the task to a second slot, which links the run that the first one has
  picked up.
- `WaitingCanGoOn`: `WaitInv` follows the approval from its creation through the decision
  to its effects. It allows crashes of the runner, errors and escalations, but not an
  orchestrator that stops between a decision and its effects (`outage`), nor a decision
  that comes before the task waits (`eager`); in both cases the task waits for nothing, as
  section 3 says.
- `HighRiskNeedsTheOwner`, when nothing goes wrong: `HighInv` says that a high-risk run
  that a slot picks up is linked. A crash between its creation and its link violates it
  (`ToolApproval_unapproved`).
- `CompletedIsFinal`, when nothing goes wrong: `BallInv` says that the task is in one pair
  of hands, those of the queue, of a slot or of an approval.

**GoalRunProofs**

- `DeployIsAuthorizedAlways`: `DeployInv` relates the passes to the rows: what a
  pass has read is still in the row (inputs and authorization are never removed),
  and a pass moves a run that deploys to accept only if the row holds the
  authorization. It holds for any number of processes on the same goal run.
- `TokensAreOneTimeAlways`, with every hazard: from the types of the tokens and of the rows
  (`DeployInv`), by one lemma on each of the four kinds of steps that touch a token.
- `StagesInOrderAlways`, for one task-runner process and with every hazard: `OrderInv` says
  that while a pass is under way the stage it read is still that of the row, and that the
  stage it is about to write may follow. Requests that come in between change the status and
  the context, not the stage. With two processes TLC violates it without any hazard.
- `OneTaskAtATime` and `WaitingIsForAReason`: `SoloInv` says that a live task is the one
  its row refers to, or is about to be adopted by the pass that created it, and that a
  row a pass may create a task for has an attempt left. Their hypothesis `Peaceful` is
  one process, no hazard but slow tasks and errors, and
  `GOAL_RUN_EXECUTE_WITH_TASKS` always on. Each part of it is needed: a crash, a stray
  request and a second process violate both; a sweep between the end of a task and
  the next pass (`tick`) only the first; an early input, and a switch that is turned off
  under a goal run, only the second.
- `GoalTypes`, for one process and with every hazard: the type invariant contains the limit of
  the retries, which no single step respects by itself, since a pass compares the number it
  read and counts in the row. `RetriesOK` says that the row has no more retries than the
  pass has read. Two processes that hold the same goal run may both count, and the
  limit is exceeded. That `order` names a goal run once needs what is left
  of a sequence when an element is removed and appended again (`SequenceFacts`).

**ExecutionProofs**

- *LightReview*. `ReviewTypes` and `IterationsAlwaysBounded`, with every upset: `RoundsInv`
  adds that drafts are created one after the other, that a draft that is not there has no
  reviews, and that a draft is one round further than its parent, which had not reached its
  limit. `OneRevisionAlways`, as long as nothing has gone wrong: `CalmAll` says that a draft
  goes to review once, that the reviews of a group end one after the other, and that the one
  which sees the whole group done is the last one there, so that nobody else assesses
  it. That `applyQualityAssessment` does not look again whether the draft is revised is
  harmless for this reason only. `ReviewsAlwaysBounded` joins the two.
- *Delivery*. `StagesAreAlwaysTrue`: without a split, `LineInv` says that the n-th task is
  that of the n-th stage, and that a task which is not the last has a child, is being given
  one, or is completed and in nobody's hands. That is what `listTaskChildren` protects: a
  stage that is executed twice finds its child, but for the moment between the creation of
  the child and its relation, in which nothing else is synchronised. `CalmInv` says for each
  step of the synchronisation what the state on the root is.
- *ToolCommand*. `CommandsAreAlwaysSound`: `CommandInv` says that a tool is at work only while
  it is watched, and that what is judged has exited; a tool that was told to end is not over
  before it has.
- *Collaboration*. `TypeCorrect`, with every hazard. `RoundIsImplemented`: every step is a
  step of `TeamRound` or leaves its `Stage` unchanged, until a fault has happened.
  `TeamRoundInv` is one predicate for each stage of the team, which says where the slots stand
  and who bears the merge: first the slot that announces it, then the aggregation task, and
  never two. That is what keeps the stale copies of the record, which every report works on,
  from starting a second merge. `OneMergeAlways`, `WaitsForTeamAlways` (together
  `TeamsAlwaysMergeOnce`): from the same invariant. With faults, `Undisturbed` excuses them.

**OwnerProofs**

- *OperatorActions*. `OperatorInv` carries all theorems; its core, `HandsOK`, says who has an
  action in hand: the statement of `applyOperatorAction` that is next, or one request past
  its decision, never both and never two; whoever has it knows that it is pending, what its
  approval says, and whether it has had its effect.
  `EffectIsAlwaysSingle`, `ConsentAlwaysComesFirst`: action properties, through crashes
  between any two statements. `KeysAlwaysComeFirst`: needs `KeysOK`, that every copy of the
  configuration and every action that was asked for has its key in the table already, since
  keys are never removed and the key is written before the provider is switched on.
  `ChangesAlwaysStand`: needs `CopiesOK`, that the copies in the hands of the orchestrator and
  of the task runner are current until the two overlap. `NobodyIsEverForgotten`: needs that
  a decided action that is pending is in the hands of a request past the decision.
  `OperatorTypes`: that there are never more agents than actions and one needs a tally:
  each agent that was added is charged to the one effect of an action.
- *Evolution*. `EvolutionTypes`, and the evidence in `LearningIsAlwaysAccountable`, with every
  overlap and crash: `EvidenceInv` says that every proposal, setting and copy in the hands of
  a process has enough signals behind it; signals are only added, and those that another
  process overwrites were counted when they were met. That a proposal is applied once (`Single`) is
  said of every copy of the ledger, and so of whichever is written back last. That
  rolling back restores what was there before holds while no two processes have held a copy
  at a time: `AccountInv` relates the changes of the ledger to the settings for every field,
  also for the copy that a process is about to write back.
- *Skills*. `VerdictsAreAlwaysTrue`: until two writers of the row overlap, `SkillsUncrossed`
  says that only the latest installation is being verified and that what its verification has
  read of the row is what the row says.
- *Plugins*. `PluginsAlwaysFollow`: a chain, for every plugin that nothing is doubtful of, from
  what the owner was told to the table, to the memory of the process, to the instance
  (`Follows`); a round of hooks has told all it has passed (`EmissionInv`).
- *FollowUps*. `LeadsAreAlwaysKept`: `FollowInv` says that a sweep and a contact exclude each
  other (neither handler has an `await`), that what a sweep still has to do was due, and that a
  cadence nobody moved is due again an interval after its last follow-up, but for the one
  the sweep has just made.

**ChannelProofs**

- *FeishuMessages*, *FeishuCards*. `FeishuHandlesOnce`: a message under way holds its token.
  `CardsDecideOnce`: a step that is not pending has had one decision; the UPDATE looks at it
  again after the hooks.
- *SignIn*. `SignInKeepsSession`: `SignInInv` says that the token a page has sent to be checked
  is the one that the browser holds, unless there was a trouble; so a refusal is about it.
- *AgentLoop*. `AgentAnswersSoundly`: `unanswered` is the number of calls at hand, rounds stop
  below their limit, files come only from rounds.
- *Routing*. `RoutesAreAlwaysSound`: a decision that names a template names one of the list
  that it was made from, and the last step looks at the template as it is by then.
- *Inbound*. `QuestionsAreKept`, `GoalsAndTemplatesInOrder`, for any number of chats: as long
  as messages come one at a time, the one under way knows of its chat what it knew when it
  came (`OneByOne`), though goal runs end and tasks pause meanwhile. `MessagesAlwaysFindTheirWork`
  adds that a reply resumes what asked, for a user of one chat. With two chats this is false:
  the latest paused task hides the one of the other chat (`Inbound_paused`).
- *Console*. `ConsoleIsAlwaysRight`: without a glitch, the latest request of a pane is for what
  is selected in it. The proof follows the queue of requests through arrivals in the
  middle, which touch one pane and leave the order of the others.
- *SessionActions*. `ActionsAreAlwaysAnswered`: every execution has its row in the log, and one that
  has ended a later row that says so; the window over the log shows the end of it.
- *MailIntake*. `MailIsHandledOnce`: the marks are compacted by order of insertion, so one that
  is dropped might still be in the window. It is not: the marks are almost in the order of the
  mailbox (`MarksInOrder`: none comes before one that is older by a window), so the mark that
  falls out of a set of at least two windows has left every window. What is left is a count:
  the messages that had their effect and could be taken up again (`Loose`), and the effects too
  many, are together no more than the mishaps that excuse one (`Excused`).

**ServicesProofs**

`EveryPartBehaves`: a step of one part leaves the variables of the others unchanged, so every
behaviour of `MCSpec` is a behaviour of each component, and the theorems above hold in
the very module that `Services_run` checks. `ServicesTypes`, `OutcomesAreAlwaysRight`,
`ToolsAlwaysObeyTheGate` and `ServicesAreSound` draw the conclusions. `ToolApproval` comes in
twice, by the instance of `MCServices` and by that of its proofs; the lemma `OneGate` shows,
action by action, that the two are one. `ServicesAreSound` has one hypothesis, a single chat, as
in the run.

**Only model-checked**

- Liveness and everything else under fairness, and ENABLED, for which the prover has no rules:
  `QueueMovesOn`, `GoalRunsEnd`, `RunsEnd`, `ApprovalTakesEffect`, `PeopleAreServed`,
  `WorkConcludes`.
- The six violations, which are single behaviours.
- What TLC shows to be false beyond the hypotheses above, and is therefore no theorem: the order
  of stages and the retry limit for two processes, `LinkedRunsObey` for two slots,
  `WaitingIsDecidable` through an outage, replies of a user with two chats.

Induction over data and recursive operators are out of the prover's reach; no module uses
the latter, and what the proofs need of sequences is stated of positions, not by recursion.

## 5. The plan

Done: the task queue with its lease, the approval gate and its tools, goal runs, operator
actions, teams with `TeamRound`, reviews, and a module for every service that keeps state which
work depends on; a theorem for every safety property the passing runs check. Left, in this
order:

1. What holds of `StagesInOrder` and `GoalTypeOK` for several processes, and of
   `LinkedRunsObey` for several slots: weaker properties than those that fail.
2. The order of claims and the bounded listings of the sweeps, which discharge the
   fairness of `SelectQueued`.
3. An approval that is escalated after its decision in `OperatorActions`: its effects
   are applied again (a mail is sent again), as `ToolApproval` shows for tools.

### Not modelled

- What texts mean: the patterns of `operator-actions.ts`, `intake-analyzer.ts` and
  `inbound-policy.ts`, the detection of task types, prompts, summaries, layouts of
  cards. The models take every outcome the parsers can have.
- `project-memory.ts`, `workspace-memory.ts`, `project-board.ts`, the reports and
  dashboards of `server.ts`: derived for display; nothing decides by them.
- The knowledge base and the protocol schemas: files in, values out.
- Rendering and forms of the control center.
- `auth-service.ts`, `auth/auth.service.ts`, `auth/login-limiter.ts`,
  `feishu-handlers.ts`, `enablePluginAsync`, `triggerAggregationManually`: no route and
  no process calls them.
- The developer scripts other than the supervisor.
- Where a model would only restate one statement: single tools of the agent,
  settings that are read back as they were written.

## 6. Running

```
tlc -workers 2 -config TaskQueue_safety.cfg MCTaskQueue.tla
tlc -workers 2 -config Services_run.cfg MCServices.tla
tlapm TaskQueueProofs.tla
tlapm ToolApprovalProofs.tla
tlapm ServicesProofs.tla
```

and likewise for the other runs and proof modules. The longest run takes about three
minutes on two cores.
