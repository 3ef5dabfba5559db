---------------------------- MODULE GoalRunProofs ----------------------------
(***************************************************************************)
(* What GoalRun promises, for any number of goal runs, runners, tasks and  *)
(* tokens. DeployInv, with every hazard: a run that deploys is accepted    *)
(* only with an authorization in its context; a token is spent once.       *)
(* OrderInv, when one runner advances the runs, with every hazard: the     *)
(* stage that a pass read is that of the row, and the one it moves to may  *)
(* follow it. SoloInv, without crashes, ticks and requests nobody asked    *)
(* for: a live task is the one of its row or about to be adopted, and a row*)
(* that a pass may create a task for has an attempt left. GoalTypesInv,    *)
(* with one runner: the retries of a row are counted once.                 *)
(***************************************************************************)
EXTENDS GoalRun, FiniteSetTheorems, SequenceFacts, TLAPS

-----------------------------------------------------------------------------
(* The types of the rows; retries has no bound here, since two runners     *)
(* that hold the same run may both count one.                              *)
Row == [status : RunStatus \cup {"absent"}, stage : StageNames,
        task : TaskIds \cup {NoExecution}, retries : Nat,
        last : {"none", "completed", "synthesized"},
        ctx : SUBSET Inputs]

PassRecord == [pc : {"idle", "seen", "moving"}, goal : Goals \cup {NoGoal}, row : Row,
               move : Moves, stage : StageNames, task : TaskIds \cup {NoExecution}]

Typed ==
    /\ run \in [Goals -> Row]
    /\ wish \in [Goals -> Wishes]
    /\ runner \in [Processes -> PassRecord]

(* A row that is not there holds no authorization; the rest is the         *)
(* theorem.                                                                *)
GoalOK(g) ==
    /\ run[g].status = "absent" => run[g].ctx = {}
    /\ wish[g].deploys /\ run[g].stage = "accept" => "authorized" \in run[g].ctx

(* What a pass read is still in the row, and a pass moves a run that       *)
(* deploys to accept only if the row holds the authorization.              *)
PassOK(r) ==
    LET p == runner[r] IN
    p.pc # "idle" =>
        /\ p.goal \in Goals
        /\ p.pc = "seen" =>
              /\ p.row.ctx \subseteq run[p.goal].ctx
              /\ wish[p.goal].deploys /\ p.row.stage = "accept" => "authorized" \in p.row.ctx
        /\ p.pc = "moving" =>
              /\ p.move # "none"
              /\ p.move \in {"ask", "authorize"} => p.stage # "accept"
              /\ wish[p.goal].deploys /\ (p.move = "complete" \/ (p.move = "queue" /\ p.stage = "accept"))
                    => "authorized" \in run[p.goal].ctx

TokensTyped ==
    token \in [Tokens -> [status : {"absent", "active", "used", "revoked", "expired"},
                          goal : Goals \cup {NoGoal}]]

DeployInv ==
    /\ Typed
    /\ \A g \in Goals : GoalOK(g)
    /\ \A r \in Processes : PassOK(r)

-----------------------------------------------------------------------------

(* The constant rows have the types above. *)
LEMMA Constants == NoGoalRun \in Row /\ Idle \in PassRecord
  <1>1. NoGoalRun \in Row BY DEF NoGoalRun, Row, RunStatus, StageNames
  <1> QED BY <1>1 DEF Idle, PassRecord, StageNames, Moves

(* The invariant holds initially. *)
LEMMA InitDeploy == GoalInit => DeployInv
  <1> SUFFICES ASSUME GoalInit PROVE DeployInv
    OBVIOUS
  <1>1. Typed BY Constants DEF GoalInit, Typed
  <1>2. \A g \in Goals : GoalOK(g)
    <2>1. \A g \in Goals : run[g] = NoGoalRun BY DEF GoalInit
    <2> QED BY <2>1 DEF GoalOK, NoGoalRun
  <1>3. \A r \in Processes : PassOK(r)
    <2>1. \A r \in Processes : runner[r].pc = "idle" BY DEF GoalInit, Idle
    <2> QED BY <2>1 DEF PassOK
  <1> QED BY <1>1, <1>2, <1>3 DEF DeployInv

(* A step keeps the invariant if no context shrinks, the rows it writes    *)
(* are right, and so are the passes it changes.                            *)
LEMMA Shape ==
  ASSUME DeployInv, Typed', wish' = wish,
         \A g \in Goals : run[g].ctx \subseteq run'[g].ctx /\ GoalOK(g)',
         \A r \in Processes : runner'[r] = runner[r] \/ PassOK(r)'
  PROVE  DeployInv'
  <1>1. ASSUME NEW r \in Processes PROVE PassOK(r)'
    <2>1. CASE runner'[r] = runner[r] BY <2>1 DEF DeployInv, PassOK
    <2> QED BY <2>1
  <1> QED BY <1>1 DEF DeployInv

(* The two shapes of a step: one row is written, one pass goes on.         *)
LEMMA WriteShape ==
  ASSUME DeployInv, wish' = wish, runner' = runner,
         NEW g \in Goals, NEW row \in Row,
         run' = [run EXCEPT ![g] = row],
         run[g].ctx \subseteq row.ctx,
         row.status = "absent" => row.ctx = {},
         wish[g].deploys /\ row.stage = "accept" => "authorized" \in row.ctx
  PROVE  DeployInv'
  <1>1. Typed' BY DEF DeployInv, Typed
  <1>2. \A h \in Goals : run[h].ctx \subseteq run'[h].ctx /\ GoalOK(h)'
    BY DEF DeployInv, Typed, GoalOK
  <1> QED BY <1>1, <1>2, Shape

(* The same for a step that also starts or ends a pass, with a row that    *)
(* the pass may go by.                                                     *)
LEMMA PassShape ==
  ASSUME DeployInv, wish' = wish,
         NEW r \in Processes, NEW p \in PassRecord, NEW g \in Goals, NEW row \in Row,
         run' = [run EXCEPT ![g] = row],
         runner' = [runner EXCEPT ![r] = p],
         run[g].ctx \subseteq row.ctx,
         row.status = "absent" => row.ctx = {},
         wish[g].deploys /\ row.stage = "accept" => "authorized" \in row.ctx,
         p.pc # "idle" =>
            /\ p.goal = g
            /\ p.pc = "seen" =>
                 /\ p.row.ctx \subseteq row.ctx
                 /\ wish[g].deploys /\ p.row.stage = "accept" => "authorized" \in p.row.ctx
            /\ p.pc = "moving" =>
                 /\ p.move # "none"
                 /\ p.move \in {"ask", "authorize"} => p.stage # "accept"
                 /\ wish[g].deploys /\ (p.move = "complete" \/ (p.move = "queue" /\ p.stage = "accept"))
                       => "authorized" \in row.ctx
  PROVE  DeployInv'
  <1>1. Typed' BY DEF DeployInv, Typed
  <1>2. \A h \in Goals : run[h].ctx \subseteq run'[h].ctx /\ GoalOK(h)'
    BY DEF DeployInv, Typed, GoalOK
  <1>3. PassOK(r)'
    <2>1. runner'[r] = p /\ run'[g] = row BY DEF DeployInv, Typed
    <2> QED BY <2>1 DEF PassOK
  <1>4. \A s \in Processes : runner'[s] = runner[s] \/ PassOK(s)'
    BY <1>3 DEF DeployInv, Typed
  <1> QED BY <1>1, <1>2, <1>4, Shape

-----------------------------------------------------------------------------
(* What the two kinds of pass records are.                                 *)

(* A pass about to move on: it is well typed and has the fields given.     *)
LEMMA MovingPass ==
  ASSUME NEW g \in Goals, NEW move \in Moves, NEW stage \in StageNames, NEW t \in TaskIds \cup {NoExecution}
  PROVE  LET p == Moving(g, move, stage, t) IN
         /\ p \in PassRecord
         /\ p.pc = "moving" /\ p.goal = g /\ p.move = move /\ p.stage = stage /\ p.task = t
  BY Constants DEF Moving, PassRecord

(* A pass that has read a row: likewise.                                   *)
LEMMA ReadingPass ==
  ASSUME NEW g \in Goals, NEW row \in Row
  PROVE  LET p == Reading(g, row) IN p \in PassRecord /\ p.pc = "seen" /\ p.goal = g /\ p.row = row
  BY DEF Reading, PassRecord, Moves, StageNames

(* A pass that only decides how to move on keeps the invariant.            *)
LEMMA DecideShape ==
  ASSUME DeployInv, wish' = wish, run' = run,
         NEW r \in Processes, runner[r].pc # "idle",
         NEW move \in Moves \ {"none"}, NEW stage \in StageNames, NEW t \in TaskIds \cup {NoExecution},
         Then(r, move, stage, t),
         move \in {"ask", "authorize"} => stage # "accept",
         wish[runner[r].goal].deploys /\ (move = "complete" \/ (move = "queue" /\ stage = "accept"))
            => "authorized" \in run[runner[r].goal].ctx
  PROVE  DeployInv'
  <1> DEFINE g == runner[r].goal
             p == Moving(g, move, stage, t)
  <1>1. g \in Goals BY DEF DeployInv, PassOK
  <1>2. run[g] \in Row /\ run' = [run EXCEPT ![g] = run[g]] BY <1>1 DEF DeployInv, Typed
  <1>3. p \in PassRecord /\ p.pc = "moving" /\ p.goal = g /\ p.move = move /\ p.stage = stage
    BY <1>1, MovingPass, move \in Moves
  <1>4. runner' = [runner EXCEPT ![r] = p] BY DEF Then
  <1>5. GoalOK(g) BY <1>1 DEF DeployInv
  <1> HIDE DEF g, p
  <1>6. wish[g].deploys /\ (move = "complete" \/ (move = "queue" /\ stage = "accept"))
            => "authorized" \in run[g].ctx BY DEF g
  <1> QED BY <1>1, <1>2, <1>3, <1>4, <1>5, <1>6, PassShape DEF GoalOK

(* So does one that writes a row with the same stage and context first.    *)
LEMMA WriteAndDecideShape ==
  ASSUME DeployInv, wish' = wish,
         NEW r \in Processes, runner[r].pc # "idle",
         NEW row \in Row, run' = [run EXCEPT ![runner[r].goal] = row],
         row.ctx = run[runner[r].goal].ctx, row.stage = run[runner[r].goal].stage,
         row.status = run[runner[r].goal].status,
         NEW stage, stage \in {"execute", "verify"}, ThenQueue(r, stage)
  PROVE  DeployInv'
  <1> DEFINE g == runner[r].goal
             p == Moving(g, "queue", stage, NoExecution)
  <1>1. g \in Goals BY DEF DeployInv, PassOK
  <1>2. p \in PassRecord /\ p.pc = "moving" /\ p.goal = g /\ p.move = "queue" /\ p.stage = stage
    <2>1. "queue" \in Moves /\ stage \in StageNames BY DEF Moves, StageNames
    <2> QED BY <1>1, <2>1, MovingPass
  <1>3. runner' = [runner EXCEPT ![r] = p] BY DEF ThenQueue, Then
  <1>4. GoalOK(g) BY <1>1 DEF DeployInv
  <1>5. run' = [run EXCEPT ![g] = row] /\ row.ctx = run[g].ctx /\ row.stage = run[g].stage
        /\ row.status = run[g].status
    OBVIOUS
  <1>6. p.pc # "idle" /\ p.pc # "seen" /\ p.move = "queue" /\ p.stage # "accept"
    BY <1>2
  <1> HIDE DEF g, p
  <1>7. /\ run[g].ctx \subseteq row.ctx
        /\ row.status = "absent" => row.ctx = {}
        /\ wish[g].deploys /\ row.stage = "accept" => "authorized" \in row.ctx
    BY <1>4, <1>5 DEF GoalOK
  <1> QED BY <1>1, <1>2, <1>3, <1>5, <1>6, <1>7, PassShape

-----------------------------------------------------------------------------
(* The actions, grouped by what they change.                               *)

(* Nothing the invariant is about changes. *)
LEMMA StutterShape ==
  ASSUME DeployInv, run' = run, wish' = wish, runner' = runner
  PROVE  DeployInv'
  BY DEF DeployInv, Typed, GoalOK, PassOK

(* A pass is over, or its process is.                                      *)
LEMMA IdleShape ==
  ASSUME DeployInv, run' = run, wish' = wish,
         NEW r \in Processes, runner' = [runner EXCEPT ![r] = Idle]
  PROVE  DeployInv'
  <1>1. Typed' BY Constants DEF DeployInv, Typed
  <1>2. \A g \in Goals : run[g].ctx \subseteq run'[g].ctx /\ GoalOK(g)'
    BY DEF DeployInv, GoalOK
  <1>3. PassOK(r)'
    <2>1. runner'[r].pc = "idle" BY DEF DeployInv, Typed, Idle
    <2> QED BY <2>1 DEF PassOK
  <1>4. \A s \in Processes : runner'[s] = runner[s] \/ PassOK(s)'
    BY <1>3 DEF DeployInv, Typed
  <1> QED BY <1>1, <1>2, <1>4, Shape

(* What a pass that has read its row may rely on.                          *)
LEMMA SeenFacts ==
  ASSUME DeployInv, NEW r \in Processes, runner[r].pc = "seen"
  PROVE  /\ runner[r].goal \in Goals
         /\ run[runner[r].goal] \in Row
         /\ runner[r].row \in Row
         /\ runner[r].row.ctx \subseteq run[runner[r].goal].ctx
         /\ wish[runner[r].goal].deploys /\ runner[r].row.stage = "accept"
               => "authorized" \in runner[r].row.ctx
  <1>1. PassOK(r) BY DEF DeployInv
  <1>2. runner[r].goal \in Goals BY <1>1 DEF PassOK
  <1>3. runner[r] \in PassRecord BY DEF DeployInv, Typed
  <1> QED BY <1>1, <1>2, <1>3 DEF PassOK, PassRecord, DeployInv, Typed

(* A run is fetched. *)
LEMMA FetchStep ==
  ASSUME DeployInv, NEW r \in Processes, Fetch(r)
  PROVE  DeployInv'
  <1>1. PICK g \in Goals : ClaimGoalRun(r, g) \/ PollRunning(r, g) BY DEF Fetch
  <1>2. run[g] \in Row /\ GoalOK(g) BY DEF DeployInv, Typed
  <1>3. CASE ClaimGoalRun(r, g)
    <2> DEFINE row == [run[g] EXCEPT !.status = "running"]
    <2>1. /\ row \in Row /\ row.status = "running"
          /\ row.ctx = run[g].ctx /\ row.stage = run[g].stage
      BY <1>2 DEF Row, RunStatus
    <2>2. run' = [run EXCEPT ![g] = row] /\ wish' = wish BY <1>3 DEF ClaimGoalRun, Write
    <2>3. run'[g] = row BY <2>2 DEF DeployInv, Typed
    <2>4. runner' = [runner EXCEPT ![r] = Reading(g, row)] BY <1>3, <2>3 DEF ClaimGoalRun
    <2>5. LET p == Reading(g, row) IN p \in PassRecord /\ p.pc = "seen" /\ p.goal = g /\ p.row = row
      BY <2>1, ReadingPass
    <2> HIDE DEF row
    <2>6. wish[g].deploys /\ row.stage = "accept" => "authorized" \in row.ctx
      BY <1>2, <2>1 DEF GoalOK
    <2> QED BY <2>1, <2>2, <2>4, <2>5, <2>6, PassShape
  <1>4. CASE PollRunning(r, g)
    <2>1. /\ run' = [run EXCEPT ![g] = run[g]] /\ wish' = wish
          /\ runner' = [runner EXCEPT ![r] = Reading(g, run[g])]
      BY <1>4 DEF PollRunning, DeployInv, Typed
    <2>2. LET p == Reading(g, run[g]) IN
          p \in PassRecord /\ p.pc = "seen" /\ p.goal = g /\ p.row = run[g]
      BY <1>2, ReadingPass
    <2> QED BY <1>2, <2>1, <2>2, PassShape DEF GoalOK
  <1> QED BY <1>1, <1>3, <1>4

(* The pass decides how to move on, and writes nothing yet.                *)
LEMMA DecideStep ==
  ASSUME DeployInv, NEW r \in Processes,
         \/ Discover(r) \/ \E t \in TaskIds : CreateExecutionTask(r, t)
         \/ FailExecution(r) \/ VerifyPasses(r) \/ VerifyFails(r)
         \/ SkipDeploy(r) \/ AskForTarget(r) \/ AskForCredentials(r) \/ PassDeploy(r)
         \/ \E k \in Tokens : AskAuthorization(r, k)
         \/ Accept(r) \/ TimeOutExecution(r) \/ Throw(r)
  PROVE  DeployInv'
  <1>1. runner[r].pc = "seen" /\ run' = run /\ wish' = wish
    BY DEF Discover, CreateExecutionTask, FailExecution, VerifyPasses, VerifyFails, SkipDeploy,
           AskForTarget, AskForCredentials, PassDeploy, AskAuthorization, Prepare, Deploying, Accept,
           TimeOutExecution, Throw, Seen, Looks
  <1>2. runner[r].pc # "idle" BY <1>1
  <1>3. runner[r].row.stage \in StageNames /\ NoExecution \in TaskIds \cup {NoExecution}
    BY <1>1, SeenFacts DEF Row
  <1>4. \A move \in Moves \ {"none"}, stage \in StageNames, t \in TaskIds \cup {NoExecution} :
          /\ Then(r, move, stage, t)
          /\ move \in {"ask", "authorize"} => stage # "accept"
          /\ wish[runner[r].goal].deploys /\ (move = "complete" \/ (move = "queue" /\ stage = "accept"))
               => "authorized" \in run[runner[r].goal].ctx
          => DeployInv'
    BY <1>1, <1>2, DecideShape
  <1> DEFINE NT == TaskIds \cup {NoExecution}
  <1>5. \A stage \in StageNames \ {"accept"}, t \in NT, move \in {"queue", "ask", "authorize", "adopt"} :
          Then(r, move, stage, t) => DeployInv'
    BY <1>4 DEF Moves
  <1>6. ASSUME ThenFail(r) PROVE DeployInv'
    BY <1>3, <1>4, <1>6 DEF ThenFail, Moves
  <1>7. CASE Discover(r)
    BY <1>3, <1>5, <1>7 DEF Discover, ThenQueue, StageNames
  <1>8. CASE \E t \in TaskIds : CreateExecutionTask(r, t)
    BY <1>5, <1>8 DEF CreateExecutionTask, StageNames
  <1>9. CASE FailExecution(r) \/ VerifyFails(r) \/ TimeOutExecution(r) \/ Throw(r)
    BY <1>6, <1>9 DEF FailExecution, VerifyFails, TimeOutExecution, Throw
  <1>10. CASE VerifyPasses(r)
    BY <1>3, <1>5, <1>10 DEF VerifyPasses, ThenQueue, StageNames
  <1>11. CASE AskForTarget(r) \/ AskForCredentials(r)
    BY <1>3, <1>5, <1>11 DEF AskForTarget, AskForCredentials, StageNames
  <1>12. CASE \E k \in Tokens : AskAuthorization(r, k)
    BY <1>3, <1>5, <1>12 DEF AskAuthorization, StageNames
  <1>13. CASE SkipDeploy(r)
    BY <1>3, <1>4, <1>13 DEF SkipDeploy, ThenQueue, StageNames, Moves
  <1>14. CASE PassDeploy(r)
    <2>1. "authorized" \in run[runner[r].goal].ctx
      BY <1>1, <1>14, SeenFacts DEF PassDeploy, Authorized
    <2> QED BY <1>3, <1>4, <1>14, <2>1 DEF PassDeploy, ThenQueue, StageNames, Moves
  <1>15. CASE Accept(r)
    <2>1. wish[runner[r].goal].deploys => "authorized" \in run[runner[r].goal].ctx
      BY <1>1, <1>15, SeenFacts DEF Accept, Seen
    <2> QED BY <1>3, <1>4, <1>15, <2>1 DEF Accept, StageNames, Moves
  <1> QED BY <1>7, <1>8, <1>9, <1>10, <1>11, <1>12, <1>13, <1>14, <1>15

(* The pass writes what the stage has done before it moves the run on.     *)
LEMMA WriteStep ==
  ASSUME DeployInv, NEW r \in Processes,
         Plan(r) \/ Synthesize(r) \/ CollectTask(r) \/ RetryTask(r) \/ VerifyRetries(r)
  PROVE  DeployInv'
  <1> DEFINE old == run[runner[r].goal]
  <1>1. runner[r].pc = "seen" /\ wish' = wish
    BY DEF Plan, Synthesize, CollectTask, RetryTask, VerifyRetries, Retry, Seen, Looks
  <1>2. runner[r].pc # "idle" BY <1>1
  <1>3. old \in Row BY <1>1, SeenFacts
  <1>4. \A row \in Row, stage \in {"execute", "verify"} :
          /\ run' = [run EXCEPT ![runner[r].goal] = row]
          /\ row.ctx = old.ctx /\ row.stage = old.stage /\ row.status = old.status
          /\ ThenQueue(r, stage)
          => DeployInv'
    BY <1>1, <1>2, WriteAndDecideShape
  <1> HIDE DEF old
  <1>5. CASE Plan(r)
    BY <1>3, <1>4, <1>5 DEF Plan, Write, old
  <1>6. CASE Synthesize(r)
    <2> DEFINE row == [old EXCEPT !.last = "synthesized"]
    <2>1. row \in Row /\ row.ctx = old.ctx /\ row.stage = old.stage /\ row.status = old.status
      BY <1>3 DEF Row
    <2>2. run' = [run EXCEPT ![runner[r].goal] = row] /\ ThenQueue(r, "verify")
      BY <1>6 DEF Synthesize, Write, old
    <2> QED BY <1>4, <2>1, <2>2
  <1>7. CASE CollectTask(r)
    <2> DEFINE row == [old EXCEPT !.last = "completed", !.task = NoExecution]
    <2>1. row \in Row /\ row.ctx = old.ctx /\ row.stage = old.stage /\ row.status = old.status
      BY <1>3 DEF Row
    <2>2. run' = [run EXCEPT ![runner[r].goal] = row] /\ ThenQueue(r, "verify")
      BY <1>7 DEF CollectTask, Write, old
    <2> QED BY <1>4, <2>1, <2>2
  <1>8. CASE RetryTask(r) \/ VerifyRetries(r)
    <2> DEFINE row == [old EXCEPT !.retries = @ + 1, !.task = NoExecution]
    <2>1. row \in Row /\ row.ctx = old.ctx /\ row.stage = old.stage /\ row.status = old.status
      <3>1. ASSUME NEW n \in Nat, NEW x \in Row
            PROVE  LET y == [x EXCEPT !.retries = n, !.task = NoExecution] IN
                   y \in Row /\ y.ctx = x.ctx /\ y.stage = x.stage /\ y.status = x.status
        BY DEF Row
      <3>2. old.retries + 1 \in Nat
        <4>1. old.retries \in Nat BY <1>3 DEF Row
        <4> QED BY <4>1
      <3> QED BY <1>3, <3>1, <3>2
    <2>2. run' = [run EXCEPT ![runner[r].goal] = row] /\ ThenQueue(r, "execute")
      <3>1. Retry(r) BY <1>8 DEF RetryTask, VerifyRetries
      <3>2. Write(runner[r].goal, row) /\ ThenQueue(r, "execute") BY <3>1 DEF Retry, old
      <3> QED BY <3>2 DEF Write
    <2> QED BY <1>4, <2>1, <2>2
  <1> QED BY <1>5, <1>6, <1>7, <1>8

(* What Moved makes of a row. *)
LEMMA MovedRow ==
  ASSUME NEW row \in Row, NEW p \in PassRecord, p.move # "none"
  PROVE  /\ Moved(row, p) \in Row
         /\ Moved(row, p).ctx = row.ctx
         /\ Moved(row, p).status = "absent" => row.status = "absent"
         /\ Moved(row, p).stage = "accept" =>
               row.stage = "accept" \/ p.move = "complete"
               \/ (p.stage = "accept" /\ p.move \in {"queue", "ask", "authorize"})
  <1>1. p.move \in Moves /\ p.stage \in StageNames /\ p.task \in TaskIds \cup {NoExecution}
    BY DEF PassRecord
  <1>2. CASE p.move = "queue"
    <2>1. Moved(row, p) = [row EXCEPT !.status = "queued", !.stage = p.stage] BY <1>2 DEF Moved
    <2> QED BY <1>1, <1>2, <2>1 DEF Row, RunStatus
  <1>3. CASE p.move = "ask"
    <2>1. Moved(row, p) = [row EXCEPT !.status = "awaiting_input", !.stage = p.stage] BY <1>3 DEF Moved
    <2> QED BY <1>1, <1>3, <2>1 DEF Row, RunStatus, Awaiting
  <1>4. CASE p.move = "authorize"
    <2>1. Moved(row, p) = [row EXCEPT !.status = "awaiting_authorization", !.stage = p.stage]
      BY <1>4 DEF Moved
    <2> QED BY <1>1, <1>4, <2>1 DEF Row, RunStatus, Awaiting
  <1>5. CASE p.move = "fail"
    <2>1. Moved(row, p) = [row EXCEPT !.status = "failed"] BY <1>5 DEF Moved
    <2>2. "failed" \in RunStatus BY DEF RunStatus, Ended
    <2> DEFINE new == Moved(row, p)
    <2>3. /\ new.ctx = row.ctx /\ new.stage = row.stage /\ new.status = "failed"
          /\ new \in Row
      BY <2>1, <2>2 DEF Row
    <2> QED BY <2>3
  <1>6. CASE p.move = "complete"
    <2>1. Moved(row, p) = [row EXCEPT !.status = "completed", !.stage = "accept"] BY <1>6 DEF Moved
    <2>2. "completed" \in RunStatus /\ "accept" \in StageNames BY DEF RunStatus, Ended, StageNames
    <2> DEFINE new == Moved(row, p)
    <2>3. new.ctx = row.ctx /\ new.status = "completed" /\ new \in Row
      BY <2>1, <2>2 DEF Row
    <2> QED BY <1>6, <2>3
  <1>7. CASE p.move = "adopt"
    <2>1. Moved(row, p) = [row EXCEPT !.task = p.task] BY <1>7 DEF Moved
    <2> DEFINE new == Moved(row, p)
    <2>2. new.ctx = row.ctx /\ new.stage = row.stage /\ new.status = row.status /\ new \in Row
      BY <1>1, <2>1 DEF Row
    <2> QED BY <2>2
  <1> QED BY <1>1, <1>2, <1>3, <1>4, <1>5, <1>6, <1>7 DEF Moves

(* The write that ends a pass. *)
LEMMA MoveOnStep ==
  ASSUME DeployInv, NEW r \in Processes, MoveOn(r)
  PROVE  DeployInv'
  <1> DEFINE p == runner[r]
             g == p.goal
             row == Moved(run[g], p)
  <1>1. p.pc = "moving" /\ p \in PassRecord /\ PassOK(r) BY DEF MoveOn, DeployInv, Typed
  <1>2. g \in Goals /\ p.move # "none" BY <1>1 DEF PassOK
  <1>3. run[g] \in Row /\ GoalOK(g) BY <1>2 DEF DeployInv, Typed
  <1>4. /\ row \in Row /\ row.ctx = run[g].ctx
        /\ row.status = "absent" => run[g].status = "absent"
        /\ row.stage = "accept" =>
              run[g].stage = "accept" \/ p.move = "complete" \/ (p.stage = "accept" /\ p.move \in {"queue", "ask", "authorize"})
    BY <1>1, <1>2, <1>3, MovedRow
  <1>5. /\ run' = [run EXCEPT ![g] = row] /\ wish' = wish
        /\ runner' = [runner EXCEPT ![r] = Idle]
    BY DEF MoveOn, Write
  <1>6. /\ p.move \in {"ask", "authorize"} => p.stage # "accept"
        /\ wish[g].deploys /\ (p.move = "complete" \/ (p.move = "queue" /\ p.stage = "accept"))
              => "authorized" \in run[g].ctx
    BY <1>1 DEF PassOK
  <1> HIDE DEF row, g, p
  <1>7. wish[g].deploys /\ row.stage = "accept" => "authorized" \in row.ctx
    BY <1>3, <1>4, <1>6 DEF GoalOK
  <1>8. row.status = "absent" => row.ctx = {} BY <1>3, <1>4 DEF GoalOK
  <1>9. Idle \in PassRecord /\ Idle.pc = "idle" BY Constants DEF Idle
  <1> QED BY <1>2, <1>4, <1>5, <1>7, <1>8, <1>9, PassShape

(* A request or a sweep writes a row: its stage stays and its context      *)
(* grows.                                                                  *)
LEMMA RequestShape ==
  ASSUME DeployInv, wish' = wish, runner' = runner,
         NEW g \in Goals, NEW row \in Row, Write(g, row),
         row.stage = run[g].stage, run[g].ctx \subseteq row.ctx, row.status # "absent"
  PROVE  DeployInv'
  <1>1. run' = [run EXCEPT ![g] = row] BY DEF Write
  <1>2. wish[g].deploys /\ row.stage = "accept" => "authorized" \in row.ctx
    BY DEF DeployInv, GoalOK
  <1> QED BY <1>1, <1>2, WriteShape

(* What a request makes of a row. *)
LEMMA RequestRow ==
  ASSUME NEW row \in Row, NEW s \in RunStatus
  PROVE  /\ LET new == [row EXCEPT !.status = s] IN
             new \in Row /\ new.stage = row.stage /\ new.ctx = row.ctx /\ new.status = s
         /\ LET new == [row EXCEPT !.status = s, !.task = NoExecution] IN
             new \in Row /\ new.stage = row.stage /\ new.ctx = row.ctx /\ new.status = s
  BY DEF Row

(* A row that got an answer. *)
Answered(row, c, s) == [row EXCEPT !.ctx = c, !.status = s]

(* It is well typed and keeps its stage.                                   *)
LEMMA AnswerRow ==
  ASSUME NEW row \in Row, NEW s \in RunStatus, NEW c \in SUBSET Inputs
  PROVE  LET new == Answered(row, c, s) IN
         new \in Row /\ new.stage = row.stage /\ new.ctx = c /\ new.status = s
  BY DEF Row, Answered

(* The statuses a request writes. *)
LEMMA Statuses ==
  /\ {"queued", "running", "awaiting_authorization", "cancelled"} \subseteq RunStatus
  /\ "absent" \notin RunStatus
  BY DEF RunStatus, Awaiting, Ended

(* The requests of users and the sweeps keep the invariant.                *)
LEMMA RequestStep ==
  ASSUME DeployInv, NEW g \in Goals,
         \/ \E r \in Processes : Reconcile(r, g) \/ ExpireAwaiting(r, g)
         \/ CancelGoalRun(g) \/ \E ctx \in Contexts : CreateGoalRun(g, ctx)
         \/ \E key \in Inputs : GiveInput(g, key)
         \/ \E k \in Tokens : IssueToken(g, k) \/ ConsumeToken(g, k)
  PROVE  DeployInv'
  <1> DEFINE old == run[g]
  <1>1. old \in Row /\ GoalOK(g) BY DEF DeployInv, Typed
  <1>2. wish' = wish /\ runner' = runner
    BY DEF Reconcile, ExpireAwaiting, CreateGoalRun, CancelGoalRun, GiveInput, IssueToken, ConsumeToken
  <1>3. \A row \in Row :
          Write(g, row) /\ row.stage = old.stage /\ old.ctx \subseteq row.ctx /\ row.status # "absent" => DeployInv'
    BY <1>2, RequestShape
  <1>4. old.ctx \in SUBSET Inputs /\ (old.status \in RunStatus \/ old.status = "absent")
    BY <1>1 DEF Row
  <1> HIDE DEF old
  <1>11. ASSUME NEW s \in RunStatus, NEW c \in SUBSET Inputs, old.ctx \subseteq c,
                Write(g, [old EXCEPT !.ctx = c, !.status = s])
         PROVE  DeployInv'
    <2> DEFINE row == Answered(old, c, s)
    <2>1. row \in Row /\ row.stage = old.stage /\ row.ctx = c /\ row.status = s
      BY <1>1, <1>11, AnswerRow
    <2>2. Write(g, row) BY <1>11 DEF Answered
    <2> HIDE DEF row
    <2> QED BY <1>3, <1>11, <2>1, <2>2, Statuses
  <1>5. ASSUME \E r \in Processes : Reconcile(r, g) PROVE DeployInv'
    <2> DEFINE row == [old EXCEPT !.status = "queued", !.task = NoExecution]
    <2>1. Write(g, row) BY <1>5 DEF Reconcile, old
    <2>2. row \in Row /\ row.stage = old.stage /\ row.ctx = old.ctx /\ row.status = "queued"
      BY <1>1, RequestRow, Statuses
    <2> HIDE DEF row
    <2> QED BY <1>3, <2>1, <2>2
  <1>6. ASSUME (\E r \in Processes : ExpireAwaiting(r, g)) \/ CancelGoalRun(g) PROVE DeployInv'
    <2> DEFINE row == [old EXCEPT !.status = "cancelled", !.task = NoExecution]
    <2>1. Write(g, row) BY <1>6 DEF ExpireAwaiting, CancelGoalRun, Cancelled, old
    <2>2. row \in Row /\ row.stage = old.stage /\ row.ctx = old.ctx /\ row.status = "cancelled"
      BY <1>1, RequestRow, Statuses
    <2> HIDE DEF row
    <2> QED BY <1>3, <2>1, <2>2
  <1>7. ASSUME NEW ctx \in Contexts, CreateGoalRun(g, ctx) PROVE DeployInv'
    <2> DEFINE row == [NoGoalRun EXCEPT !.status = "queued", !.ctx = ctx]
    <2>1. run' = [run EXCEPT ![g] = row] BY <1>7 DEF CreateGoalRun, Write
    <2>2. /\ row \in Row /\ row.stage = "discover" /\ row.ctx = ctx /\ row.status = "queued"
      <3>1. row = Answered(NoGoalRun, ctx, "queued") BY DEF Answered, NoGoalRun
      <3>2. ctx \in SUBSET Inputs BY <1>7, KeyAssumption
      <3>3. NoGoalRun.stage = "discover" BY DEF NoGoalRun
      <3> HIDE DEF row
      <3> QED BY <3>1, <3>2, <3>3, Constants, AnswerRow, Statuses
    <2>3. old.ctx = {} BY <1>1, <1>7 DEF CreateGoalRun, GoalOK, old
    <2> HIDE DEF row
    <2> QED BY <1>2, <2>1, <2>2, <2>3, WriteShape DEF old
  <1>8. ASSUME NEW key \in Inputs, GiveInput(g, key) PROVE DeployInv'
    <2> DEFINE s == IF old.status = "awaiting_input" THEN "queued" ELSE old.status
               c == old.ctx \cup {key}
    <2>1. Write(g, [old EXCEPT !.ctx = c, !.status = s]) /\ old.status # "absent"
      BY <1>8 DEF GiveInput, old
    <2>2. s \in RunStatus BY <1>4, <2>1, Statuses
    <2>3. c \in SUBSET Inputs /\ old.ctx \subseteq c BY <1>4
    <2> HIDE DEF s, c
    <2> QED BY <1>11, <2>1, <2>2, <2>3
  <1>9. ASSUME NEW k \in Tokens, IssueToken(g, k) PROVE DeployInv'
    <2> DEFINE row == [old EXCEPT !.status = "awaiting_authorization"]
    <2>1. Write(g, row) BY <1>9 DEF IssueToken, old
    <2>2. row \in Row /\ row.stage = old.stage /\ row.ctx = old.ctx /\ row.status = "awaiting_authorization"
      BY <1>1, RequestRow, Statuses
    <2> HIDE DEF row
    <2> QED BY <1>3, <2>1, <2>2
  <1>10. ASSUME NEW k \in Tokens, ConsumeToken(g, k) PROVE DeployInv'
    <2> DEFINE s == IF old.status = "awaiting_authorization" THEN "queued" ELSE old.status
               c == old.ctx \cup {"authorized"}
    <2>1. Write(g, [old EXCEPT !.ctx = c, !.status = s]) /\ old.status # "absent"
      BY <1>10 DEF ConsumeToken, old
    <2>2. s \in RunStatus BY <1>4, <2>1, Statuses
    <2>3. c \in SUBSET Inputs /\ old.ctx \subseteq c BY <1>4 DEF Inputs
    <2> HIDE DEF s, c
    <2> QED BY <1>11, <2>1, <2>2, <2>3
  <1> QED BY <1>5, <1>6, <1>7, <1>8, <1>9, <1>10

(* No step of the system breaks the invariant. *)
LEMMA NextDeploy == DeployInv /\ [GoalNext]_goalVars => DeployInv'
  <1> SUFFICES ASSUME DeployInv, [GoalNext]_goalVars PROVE DeployInv'
    OBVIOUS
  <1>1. CASE UNCHANGED goalVars BY <1>1, StutterShape DEF goalVars
  <1>2. ASSUME NEW r \in Processes, Fetch(r) PROVE DeployInv' BY <1>2, FetchStep
  <1>3. ASSUME NEW r \in Processes, Pass(r) \/ TimeOutExecution(r) \/ Throw(r) PROVE DeployInv'
    <2>1. CASE WatchTask(r) BY <2>1, IdleShape DEF WatchTask
    <2>2. CASE MoveOn(r) BY <2>2, MoveOnStep
    <2>3. CASE Plan(r) \/ Synthesize(r) \/ CollectTask(r) \/ RetryTask(r) \/ VerifyRetries(r)
      BY <2>3, WriteStep
    <2>4. CASE \/ Discover(r) \/ \E t \in TaskIds : CreateExecutionTask(r, t)
               \/ FailExecution(r) \/ VerifyPasses(r) \/ VerifyFails(r)
               \/ SkipDeploy(r) \/ AskForTarget(r) \/ AskForCredentials(r) \/ PassDeploy(r)
               \/ \E k \in Tokens : AskAuthorization(r, k)
               \/ Accept(r) \/ TimeOutExecution(r) \/ Throw(r)
      BY <2>4, DecideStep
    <2> QED BY <1>3, <2>1, <2>2, <2>3, <2>4 DEF Pass
  <1>4. ASSUME NEW r \in Processes, Abandon(r) PROVE DeployInv' BY <1>4, IdleShape DEF Abandon
  <1>5. ASSUME NEW g \in Goals,
               \/ \E r \in Processes : Reconcile(r, g) \/ ExpireAwaiting(r, g)
               \/ CancelGoalRun(g) \/ \E ctx \in Contexts : CreateGoalRun(g, ctx)
               \/ \E key \in Inputs : GiveInput(g, key)
               \/ \E k \in Tokens : IssueToken(g, k) \/ ConsumeToken(g, k)
        PROVE DeployInv'
    BY <1>5, RequestStep
  <1>6. CASE \/ \E k \in Tokens : PresentExpired(k)
             \/ \E key \in CredentialKeys : PutCredential(key) \/ DropCredential(key)
    BY <1>6, StutterShape DEF PresentExpired, PutCredential, DropCredential
  <1>7. ASSUME NEW t \in TaskIds, StartTask(t) \/ SettleTask(t) \/ DisturbTask(t) \/ AnswerTask(t)
        PROVE DeployInv'
    BY <1>7, StutterShape DEF StartTask, SettleTask, DisturbTask, AnswerTask, TaskMove
  <1> QED BY <1>1, <1>2, <1>3, <1>4, <1>5, <1>6, <1>7 DEF GoalNext

(* In every reachable state of every configuration, a run that deploys is  *)
(* at accept only with an authorization (DeployIsAuthorized).  The deploy  *)
(* stage looks for the authorization in the row as the pass read it, and   *)
(* the write that moves the run on comes later: what a pass has read and   *)
(* decided is part of the invariant, and no write takes from a context.    *)
THEOREM DeployIsAuthorizedAlways == GoalSpec => []DeployIsAuthorized
  <1>1. DeployInv => DeployIsAuthorized BY DEF DeployInv, GoalOK, DeployIsAuthorized
  <1> QED BY <1>1, InitDeploy, NextDeploy, PTL DEF GoalSpec

-----------------------------------------------------------------------------
(* What becomes of the tokens.                                             *)

(* The tokens keep their type. *)
LEMMA InitTokens == GoalInit => TokensTyped
  BY DEF GoalInit, TokensTyped

(* Every step keeps it: rows change only in their status and goal run.     *)
LEMMA NextTokens == DeployInv /\ TokensTyped /\ [GoalNext]_goalVars => TokensTyped'
  <1> SUFFICES ASSUME DeployInv, TokensTyped, [GoalNext]_goalVars PROVE TokensTyped'
    OBVIOUS
  <1>1. ASSUME token' = token PROVE TokensTyped' BY <1>1 DEF TokensTyped
  <1>2. ASSUME NEW k \in Tokens, NEW g \in Goals, NewToken(k, g) PROVE TokensTyped'
    BY <1>2 DEF NewToken, TokensTyped
  <1>3. ASSUME NEW k \in Tokens, NEW s \in {"used", "expired"}, token' = [token EXCEPT ![k].status = s]
        PROVE  TokensTyped'
    <2>1. [token[k] EXCEPT !.status = s] \in [status : {"absent", "active", "used", "revoked", "expired"},
                                              goal : Goals \cup {NoGoal}]
      BY <1>3 DEF TokensTyped
    <2> QED BY <1>3, <2>1 DEF TokensTyped
  <1>4. ASSUME NEW g \in Goals, Cancelled(g) PROVE TokensTyped'
    <2>1. \A k \in Tokens : token'[k] = token[k] \/ token'[k] = [token[k] EXCEPT !.status = "revoked"]
      BY <1>4 DEF Cancelled
    <2>2. \A k \in Tokens : [token[k] EXCEPT !.status = "revoked"]
             \in [status : {"absent", "active", "used", "revoked", "expired"}, goal : Goals \cup {NoGoal}]
      BY DEF TokensTyped
    <2>3. token' = [k \in Tokens |-> token'[k]] BY <1>4 DEF Cancelled
    <2> QED BY <2>1, <2>2, <2>3 DEF TokensTyped
  <1>5. CASE UNCHANGED goalVars BY <1>1, <1>5 DEF goalVars
  <1>6. ASSUME NEW r \in Processes,
               Fetch(r) \/ Pass(r) \/ TimeOutExecution(r) \/ Abandon(r) \/ Throw(r)
        PROVE  TokensTyped'
    <2>1. CASE \E k \in Tokens : AskAuthorization(r, k)
      <3>1. PICK k \in Tokens : AskAuthorization(r, k) BY <2>1
      <3>2. runner[r].goal \in Goals BY <3>1, SeenFacts DEF AskAuthorization, Prepare, Deploying, Seen
      <3> QED BY <1>2, <3>1, <3>2 DEF AskAuthorization
    <2>2. CASE Fetch(r) BY <1>1, <2>2 DEF Fetch, ClaimGoalRun, PollRunning
    <2>3. CASE TimeOutExecution(r) \/ Abandon(r) \/ Throw(r)
      BY <1>1, <2>3 DEF TimeOutExecution, Abandon, Throw
    <2>4. CASE Pass(r) /\ ~\E k \in Tokens : AskAuthorization(r, k)
      BY <1>1, <2>4 DEF Pass, Discover, Plan, Synthesize, CreateExecutionTask, WatchTask, CollectTask,
           RetryTask, VerifyRetries, Retry, FailExecution, VerifyPasses, VerifyFails, SkipDeploy,
           AskForTarget, AskForCredentials, PassDeploy, Accept, MoveOn
    <2> QED BY <1>6, <2>1, <2>2, <2>3, <2>4
  <1>7. ASSUME NEW r \in Processes, NEW g \in Goals, Reconcile(r, g) \/ ExpireAwaiting(r, g)
        PROVE  TokensTyped'
    BY <1>1, <1>4, <1>7 DEF Reconcile, ExpireAwaiting
  <1>8. ASSUME NEW g \in Goals, \/ CancelGoalRun(g) \/ \E ctx \in Contexts : CreateGoalRun(g, ctx)
               \/ \E key \in Inputs : GiveInput(g, key)
        PROVE  TokensTyped'
    BY <1>1, <1>4, <1>8 DEF CreateGoalRun, CancelGoalRun, GiveInput
  <1>9. ASSUME NEW g \in Goals, NEW k \in Tokens, IssueToken(g, k) \/ ConsumeToken(g, k) PROVE TokensTyped'
    BY <1>2, <1>3, <1>9 DEF IssueToken, ConsumeToken
  <1>10. ASSUME NEW k \in Tokens, PresentExpired(k) PROVE TokensTyped'
    BY <1>3, <1>10 DEF PresentExpired
  <1>12. CASE \E key \in CredentialKeys : PutCredential(key) \/ DropCredential(key)
    BY <1>1, <1>12 DEF PutCredential, DropCredential
  <1>11. ASSUME NEW t \in TaskIds, StartTask(t) \/ SettleTask(t) \/ DisturbTask(t) \/ AnswerTask(t)
         PROVE  TokensTyped'
    BY <1>1, <1>11 DEF StartTask, SettleTask, DisturbTask, AnswerTask, TaskMove
  <1> QED BY <1>5, <1>6, <1>7, <1>8, <1>9, <1>10, <1>11, <1>12 DEF GoalNext

(* What a step may do to a token. *)
OneTime(k) ==
    LET g == token[k].goal IN
    /\ token[k].status # "absent" => token'[k].status # "absent" /\ token'[k].goal = g
    /\ token'[k].status = "active" => token[k].status \in {"absent", "active"}
    /\ token'[k].status = "used" /\ token[k].status # "used" =>
          /\ token[k].status = "active"
          /\ "authorized" \in run'[g].ctx /\ run'[g].status # "awaiting_authorization"

(* A token is issued once: those that are there stay as they are.          *)
LEMMA NewIsOneTime ==
  ASSUME TokensTyped, NEW j \in Tokens, NEW g, NewToken(j, g), NEW k \in Tokens
  PROVE  OneTime(k)
  BY DEF NewToken, OneTime, TokensTyped

(* Cancelling a run takes its tokens back, and gives nothing.              *)
LEMMA CancelIsOneTime ==
  ASSUME TokensTyped, NEW g, Cancelled(g), NEW k \in Tokens
  PROVE  OneTime(k)
  <1>1. token'[k] = token[k] \/ (token'[k] = [token[k] EXCEPT !.status = "revoked"] /\ token[k].status = "active")
    BY DEF Cancelled
  <1>2. token[k] \in [status : {"absent", "active", "used", "revoked", "expired"}, goal : Goals \cup {NoGoal}]
    BY DEF TokensTyped
  <1> QED BY <1>1, <1>2 DEF OneTime

(* A token that is spent was active, and its run has the authorization and *)
(* does not wait for it.                                                   *)
LEMMA ConsumeIsOneTime ==
  ASSUME DeployInv, TokensTyped, NEW g \in Goals, NEW j \in Tokens, ConsumeToken(g, j), NEW k \in Tokens
  PROVE  OneTime(k)
  <1>1. token[j] = [status |-> "active", goal |-> g] /\ token' = [token EXCEPT ![j].status = "used"]
    BY DEF ConsumeToken
  <1>2. "authorized" \in run'[g].ctx /\ run'[g].status # "awaiting_authorization"
    <2> DEFINE s == IF run[g].status = "awaiting_authorization" THEN "queued" ELSE run[g].status
               c == run[g].ctx \cup {"authorized"}
               row == [run[g] EXCEPT !.ctx = c, !.status = s]
    <2>1. run[g] \in Row BY DEF DeployInv, Typed
    <2>2. row.ctx = c /\ row.status = s BY <2>1 DEF Row
    <2>3. Write(g, row) BY DEF ConsumeToken
    <2> HIDE DEF row
    <2>4. run'[g] = row BY <2>3 DEF Write, DeployInv, Typed
    <2> QED BY <2>2, <2>4
  <1>3. CASE k = j BY <1>1, <1>2, <1>3 DEF OneTime, TokensTyped
  <1>4. CASE k # j BY <1>1, <1>4 DEF OneTime, TokensTyped
  <1> QED BY <1>3, <1>4

(* A token that comes too late is marked. *)
LEMMA ExpireIsOneTime ==
  ASSUME TokensTyped, NEW j \in Tokens, PresentExpired(j), NEW k \in Tokens
  PROVE  OneTime(k)
  BY DEF PresentExpired, OneTime, TokensTyped

(* So is every step, since no other looks at the tokens.                   *)
LEMMA NextIsOneTime ==
  ASSUME DeployInv, TokensTyped, [GoalNext]_goalVars, NEW k \in Tokens
  PROVE  OneTime(k)
  <1>1. ASSUME token' = token PROVE OneTime(k) BY <1>1 DEF OneTime
  <1>2. CASE UNCHANGED goalVars BY <1>1, <1>2 DEF goalVars
  <1>3. ASSUME NEW r \in Processes,
               Fetch(r) \/ Pass(r) \/ TimeOutExecution(r) \/ Abandon(r) \/ Throw(r)
        PROVE  OneTime(k)
    <2>1. CASE \E j \in Tokens : AskAuthorization(r, j)
      BY <2>1, NewIsOneTime DEF AskAuthorization
    <2>2. CASE Fetch(r) BY <1>1, <2>2 DEF Fetch, ClaimGoalRun, PollRunning
    <2>3. CASE TimeOutExecution(r) \/ Abandon(r) \/ Throw(r)
      BY <1>1, <2>3 DEF TimeOutExecution, Abandon, Throw
    <2>4. CASE Pass(r) /\ ~\E j \in Tokens : AskAuthorization(r, j)
      BY <1>1, <2>4 DEF Pass, Discover, Plan, Synthesize, CreateExecutionTask, WatchTask, CollectTask,
           RetryTask, VerifyRetries, Retry, FailExecution, VerifyPasses, VerifyFails, SkipDeploy,
           AskForTarget, AskForCredentials, PassDeploy, Accept, MoveOn
    <2> QED BY <1>3, <2>1, <2>2, <2>3, <2>4
  <1>4. ASSUME NEW g \in Goals,
               \/ \E r \in Processes : Reconcile(r, g) \/ ExpireAwaiting(r, g)
               \/ CancelGoalRun(g) \/ \E ctx \in Contexts : CreateGoalRun(g, ctx)
               \/ \E key \in Inputs : GiveInput(g, key)
        PROVE  OneTime(k)
    BY <1>1, <1>4, CancelIsOneTime DEF Reconcile, ExpireAwaiting, CreateGoalRun, CancelGoalRun, GiveInput
  <1>5. ASSUME NEW g \in Goals, NEW j \in Tokens, IssueToken(g, j) \/ ConsumeToken(g, j)
        PROVE  OneTime(k)
    BY <1>5, NewIsOneTime, ConsumeIsOneTime DEF IssueToken
  <1>6. CASE \E j \in Tokens : PresentExpired(j) BY <1>6, ExpireIsOneTime
  <1>7. CASE \/ \E key \in CredentialKeys : PutCredential(key) \/ DropCredential(key)
             \/ \E t \in TaskIds : StartTask(t) \/ SettleTask(t) \/ DisturbTask(t) \/ AnswerTask(t)
    BY <1>1, <1>7 DEF PutCredential, DropCredential, StartTask, SettleTask, DisturbTask, AnswerTask, TaskMove
  <1> QED BY <1>2, <1>3, <1>4, <1>5, <1>6, <1>7 DEF GoalNext

(* In every configuration, with every hazard and any number of runners and *)
(* requests, a token is spent once, while it is active, on the run it was  *)
(* issued for, which is authorized by it and waits no more; once spent,    *)
(* revoked or expired it never becomes good again (TokensAreOneTime).      *)
(* That a run is authorized by a token only is not claimed: the same key   *)
(* can be given as an input, or with the creation.                         *)
THEOREM TokensAreOneTimeAlways == GoalSpec => TokensAreOneTime
  <1>1. DeployInv /\ TokensTyped /\ [GoalNext]_goalVars =>
          [\A k \in Tokens :
             LET g == token[k].goal IN
             /\ token[k].status # "absent" => token'[k].status # "absent" /\ token'[k].goal = g
             /\ token'[k].status = "active" => token[k].status \in {"absent", "active"}
             /\ token'[k].status = "used" /\ token[k].status # "used" =>
                   /\ token[k].status = "active"
                   /\ "authorized" \in run'[g].ctx /\ run'[g].status # "awaiting_authorization"]_goalVars
    BY NextIsOneTime DEF OneTime
  <1>2. GoalSpec => [](DeployInv /\ TokensTyped)
    BY InitDeploy, NextDeploy, InitTokens, NextTokens, PTL DEF GoalSpec
  <1> QED BY <1>1, <1>2, PTL DEF GoalSpec, TokensAreOneTime

-----------------------------------------------------------------------------
(* One task-runner process advances the goal runs.                         *)
OneRunner == \A r, s \in Processes : r = s

(* StagesInOrder lets a row with these retries go from one stage to        *)
(* another.                                                                *)
Follows(from, to, retries) ==
    \/ Rank(to) >= Rank(from)
    \/ from = "verify" /\ to = "execute" /\ retries > 0

(* A row that is not there is as new.                                      *)
OrderedRow(g) == run[g].status = "absent" => run[g].stage = "discover" /\ run[g].task = NoExecution

(* A pass is for a run that is there, and by what it read or decided the   *)
(* run stays in order.                                                     *)
OrderedPass(r) ==
    LET p == runner[r] IN
    p.pc # "idle" =>
        /\ p.goal \in Goals /\ run[p.goal].status # "absent"
        /\ p.pc = "seen" => p.row.stage = run[p.goal].stage
        /\ p.pc = "moving" /\ p.move \in {"queue", "ask", "authorize"} =>
              Follows(run[p.goal].stage, p.stage, run[p.goal].retries)

OrderInv ==
    /\ \A g \in Goals : OrderedRow(g)
    /\ \A r \in Processes : OrderedPass(r)

(* Each condition is needed by one of the two theorems: TLC violates one   *)
(* of them with two runners, with any of the other four hazards, and when  *)
(* GOAL_RUN_EXECUTE_WITH_TASKS is switched off under a run.                *)
Peaceful == OneRunner /\ RunHazards \subseteq {"slow", "error"} /\ FALSE \notin WithTasks /\ IsFiniteSet(TaskIds)

(* The tasks keep to their type.                                           *)
TasksTyped ==
    task \in [TaskIds -> [status : LiveTask \cup Ended \cup {"absent"}, goal : Goals \cup {NoGoal}]]

(* A pass is under way for the run.                                        *)
Attended(g) == \E r \in Processes : runner[r].pc # "idle" /\ runner[r].goal = g

(* How many execution tasks the run ever had.                              *)
Count(g) == Cardinality(TasksOf(g))

(* The task of a row is one of its own; before the stage execute there is  *)
(* none, and after it no longer.                                           *)
TaskOfRow(g) ==
    /\ run[g].task # NoExecution => run[g].stage = "execute" /\ run[g].task \in TasksOf(g)
    /\ run[g].stage \in {"discover", "plan"} => TasksOf(g) = {}

(* A queued run has no task and an attempt left, a running one that nobody *)
(* attends to has a task, and one that waits is where a question is asked. *)
RowSolo(g) ==
    /\ run[g].status = "queued" => run[g].task = NoExecution /\ (run[g].stage = "execute" => Count(g) <= run[g].retries)
    /\ run[g].status = "running" /\ ~Attended(g) => run[g].task # NoExecution
    /\ run[g].status \in Awaiting => run[g].stage \in {"discover", "deploy"}
    /\ run[g].status = "awaiting_input" => ~(wish[g].inputs \subseteq run[g].ctx)
    /\ run[g].status = "awaiting_authorization" => "authorized" \notin run[g].ctx
    /\ Count(g) <= run[g].retries + 1

(* What a pass read is in the row still, but for a task that a             *)
(* cancellation took out of it.                                            *)
SeenSolo(r) ==
    LET p == runner[r]
        g == p.goal
    IN
    p.pc = "seen" =>
        /\ p.row.ctx = run[g].ctx
        /\ run[g].task \in {p.row.task, NoExecution}
        /\ run[g].task # p.row.task => p.row.task \in TasksOf(g) /\ task[p.row.task].status \in Ended
        /\ p.row.stage = "execute" /\ p.row.task = NoExecution => Count(g) <= run[g].retries
        /\ p.row.task # NoExecution => p.row.stage = "execute"

(* Whatever a pass is about to write fits the row.                         *)
MovingSolo(r) ==
    LET p == runner[r]
        g == p.goal
    IN
    p.pc = "moving" =>
        /\ p.move # "none"
        /\ p.move # "fail" => run[g].task = NoExecution
        /\ p.move = "adopt" => p.task \in TasksOf(g) /\ run[g].stage = "execute"
        /\ p.move = "ask" => p.stage \in {"discover", "deploy"} /\ ~(wish[g].inputs \subseteq run[g].ctx)
        /\ p.move = "authorize" => p.stage = "deploy" /\ "authorized" \notin run[g].ctx
        /\ p.move = "queue" =>
              /\ p.stage = "execute" => Count(g) <= run[g].retries
              /\ p.stage \in {"discover", "plan"} => TasksOf(g) = {}

(* Who holds a task that is not over.                                      *)
LiveSolo(t) ==
    /\ task[t].status = "absent" <=> task[t].goal = NoGoal
    /\ task[t].status \in LiveTask =>
          \/ run[task[t].goal].task = t
          \/ \E r \in Processes : /\ runner[r].pc = "moving" /\ runner[r].move = "adopt"
                                /\ runner[r].goal = task[t].goal /\ runner[r].task = t

SoloInv ==
    /\ TasksTyped
    /\ \A g \in Goals : TaskOfRow(g) /\ RowSolo(g)
    /\ \A r \in Processes :
          /\ runner[r].pc # "idle" => run[runner[r].goal].status \in {"running", "cancelled"}
          /\ SeenSolo(r) /\ MovingSolo(r)
    /\ \A t \in TaskIds : LiveSolo(t)

-----------------------------------------------------------------------------
(* What a step does to the rows, the passes and the tasks.                 *)

(* The row has these fields afterwards, and the other rows are as before.  *)
Sets(g, status, stage, t, retries, ctx) ==
    /\ run'[g].status = status /\ run'[g].stage = stage /\ run'[g].task = t
    /\ run'[g].retries = retries /\ run'[g].ctx = ctx
    /\ \A h \in Goals \ {g} : run'[h] = run[h]

(* The same, with the stage and the context as before.                     *)
Keeps(g, status, t, retries) == Sets(g, status, run[g].stage, t, retries, run[g].ctx)

(* The other passes are as before.                                         *)
Others(r) == \A s \in Processes \ {r} : runner'[s] = runner[s]

(* A pass begins with the row as it is.                                    *)
Reads(r, g) ==
    /\ runner'[r].pc = "seen" /\ runner'[r].goal = g /\ runner'[r].row = run'[g]
    /\ Others(r)

(* A pass decides on a move.                                               *)
Turns(r, move, stage, t) ==
    /\ runner'[r].pc = "moving" /\ runner'[r].goal = runner[r].goal
    /\ runner'[r].move = move /\ runner'[r].stage = stage /\ runner'[r].task = t
    /\ runner'[r].row = NoGoalRun /\ Others(r)

(* A pass is over.                                                         *)
Rests(r) == runner'[r].pc = "idle" /\ runner'[r].row = NoGoalRun /\ Others(r)

(* A queued run is claimed, or a running one polled.                       *)
Claims(r, g) ==
    /\ runner[r].pc = "idle" /\ run[g].status = "queued"
    /\ Keeps(g, "running", run[g].task, run[g].retries)
    /\ Reads(r, g) /\ UNCHANGED task

Polls(r, g) ==
    /\ runner[r].pc = "idle" /\ run[g].status = "running"
    /\ Reads(r, g) /\ UNCHANGED <<run, task>>

(* The pass decides on a move that its stage allows.                       *)
Chosen(r, move, stage) ==
    LET from == runner[r].row.stage IN
    \/ move = "fail"
    \/ from = "discover" /\ move = "queue" /\ stage = "plan"
    \/ /\ from \in {"discover", "deploy"} /\ move = "ask" /\ stage = from
       /\ ~(wish[runner[r].goal].inputs \subseteq runner[r].row.ctx)
    \/ from = "verify" /\ move = "queue" /\ stage = "deploy"
    \/ from = "deploy" /\ move = "queue" /\ stage = "accept"
    \/ from = "deploy" /\ move = "authorize" /\ stage = "deploy" /\ "authorized" \notin runner[r].row.ctx
    \/ from = "accept" /\ move = "complete"

Chooses(r) ==
    /\ runner[r].pc = "seen"
    /\ \E move \in Moves, stage \in StageNames : Chosen(r, move, stage) /\ Turns(r, move, stage, NoExecution)
    /\ UNCHANGED <<run, task>>

(* A task is created.                                                      *)
Adopts(r, t) ==
    /\ runner[r].pc = "seen" /\ runner[r].row.stage = "execute" /\ runner[r].row.task = NoExecution
    /\ task[t].status = "absent"
    /\ task' = [task EXCEPT ![t] = [status |-> "queued", goal |-> runner[r].goal]]
    /\ Turns(r, "adopt", "execute", t) /\ UNCHANGED run

(* The plan is made.                                                       *)
Plans(r) ==
    /\ runner[r].pc = "seen" /\ runner[r].row.stage = "plan"
    /\ Turns(r, "queue", "execute", NoExecution) /\ UNCHANGED <<run, task>>

(* The task the pass read in its row has one of these statuses.            *)
Holds(r, statuses) ==
    /\ runner[r].pc = "seen" /\ runner[r].row.stage = "execute"
    /\ runner[r].row.task # NoExecution /\ task[runner[r].row.task].status \in statuses

(* The pass writes the task and the retries of its row.                    *)
Writes(r, t, retries) ==
    LET g == runner[r].goal IN Keeps(g, run[g].status, t, retries) /\ UNCHANGED task

(* The four ways the execution stage goes on.                              *)
Synthesizes(r) ==
    /\ runner[r].pc = "seen" /\ runner[r].row.stage = "execute" /\ FALSE \in WithTasks
    /\ Writes(r, run[runner[r].goal].task, run[runner[r].goal].retries)
    /\ Turns(r, "queue", "verify", NoExecution)

Collects(r) ==
    /\ Holds(r, {"completed"})
    /\ Writes(r, NoExecution, run[runner[r].goal].retries)
    /\ Turns(r, "queue", "verify", NoExecution)

Retries(r) ==
    /\ runner[r].row.retries < MaxRetries
    /\ Holds(r, {"failed", "cancelled"}) \/ (runner[r].pc = "seen" /\ runner[r].row.stage = "verify")
    /\ Writes(r, NoExecution, run[runner[r].goal].retries + 1)
    /\ Turns(r, "queue", "execute", NoExecution)

Watches(r) == Holds(r, LiveTask) /\ Rests(r) /\ UNCHANGED <<run, task>>

(* The write that ends a pass.                                             *)
Finishes(r) ==
    LET p == runner[r]
        row == run[p.goal]
    IN
    /\ p.pc = "moving" /\ Rests(r) /\ UNCHANGED task
    /\ \/ p.move = "queue" /\ Sets(p.goal, "queued", p.stage, row.task, row.retries, row.ctx)
       \/ p.move = "ask" /\ Sets(p.goal, "awaiting_input", p.stage, row.task, row.retries, row.ctx)
       \/ p.move = "authorize" /\ Sets(p.goal, "awaiting_authorization", p.stage, row.task, row.retries, row.ctx)
       \/ p.move = "fail" /\ Keeps(p.goal, "failed", row.task, row.retries)
       \/ p.move = "complete" /\ Sets(p.goal, "completed", "accept", row.task, row.retries, row.ctx)
       \/ p.move = "adopt" /\ Keeps(p.goal, row.status, p.task, row.retries)

(* A pass is given up.                                                     *)
Breaks(r) == "crash" \in RunHazards /\ Rests(r) /\ UNCHANGED <<run, task>>

(* The sweep queues a run.                                                 *)
Requeues(r, g) ==
    /\ runner[r].pc = "idle" /\ run[g].status = "running"
    /\ run[g].task = NoExecution \/ "tick" \in RunHazards
    /\ Keeps(g, "queued", NoExecution, run[g].retries)
    /\ UNCHANGED <<task, runner>>

(* A run is cancelled with its tasks.                                      *)
Cancels(g) ==
    /\ run[g].status # "absent" /\ (run[g].status \notin Ended \/ "stray" \in RunHazards)
    /\ Keeps(g, "cancelled", NoExecution, run[g].retries)
    /\ \A t \in TaskIds :
          /\ task'[t].goal = task[t].goal
          /\ task'[t].status = IF t \in TasksOf(g) /\ task[t].status \in LiveTask
                               THEN "cancelled" ELSE task[t].status
    /\ UNCHANGED runner

(* A run is created.                                                       *)
Births(g) ==
    /\ run[g].status = "absent"
    /\ \E ctx : Sets(g, "queued", "discover", NoExecution, 0, ctx)
    /\ UNCHANGED <<task, runner>>

(* A run is answered, or parked for its authorization.                     *)
Answers(g) ==
    /\ run[g].status # "absent"
    /\ \E status \in RunStatus, ctx \in SUBSET Inputs :
          /\ Sets(g, status, run[g].stage, run[g].task, run[g].retries, ctx)
          /\ \/ run[g].status \in Awaiting /\ status = "queued"
             \/ run[g].status = "awaiting_authorization" /\ status = run[g].status /\ ctx = run[g].ctx
             \/ RunHazards \cap {"early", "stray"} # {}
    /\ UNCHANGED <<task, runner>>

(* A task goes on.                                                         *)
TaskMoves(t) ==
    /\ task[t].status \in LiveTask
    /\ task'[t].status # "absent" /\ task'[t].goal = task[t].goal
    /\ \A u \in TaskIds \ {t} : task'[u] = task[u]
    /\ UNCHANGED <<run, runner>>

(* A step of a runner.                                                     *)
RunnerStep(r) ==
    \/ \E g \in Goals : Claims(r, g) \/ Polls(r, g) \/ Requeues(r, g)
    \/ \E t \in TaskIds : Adopts(r, t)
    \/ Chooses(r) \/ Plans(r) \/ Synthesizes(r) \/ Collects(r) \/ Retries(r)
    \/ Watches(r) \/ Finishes(r) \/ Breaks(r)

(* A step.                                                                 *)
StepOfRows ==
    \/ \E r \in Processes : RunnerStep(r)
    \/ \E g \in Goals : Cancels(g) \/ Births(g) \/ Answers(g)
    \/ \E t \in TaskIds : TaskMoves(t)
    \/ UNCHANGED <<run, runner, task>>

(* A write of a row, by its fields.                                        *)
LEMMA WriteSets ==
    ASSUME Typed, NEW g \in Goals, NEW row, Write(g, row)
    PROVE  Sets(g, row.status, row.stage, row.task, row.retries, row.ctx)
  BY DEF Typed, Write, Sets

(* The rows that passes and requests write.                                *)
LEMMA RowFields ==
    ASSUME NEW row \in Row, NEW status, NEW t, NEW n, NEW c
    PROVE  /\ LET new == [row EXCEPT !.status = status] IN
              /\ new.status = status /\ new.stage = row.stage /\ new.task = row.task
              /\ new.retries = row.retries /\ new.ctx = row.ctx
           /\ LET new == [row EXCEPT !.status = status, !.task = t] IN
              /\ new.status = status /\ new.stage = row.stage /\ new.task = t
              /\ new.retries = row.retries /\ new.ctx = row.ctx
           /\ LET new == [row EXCEPT !.retries = n, !.task = t] IN
              /\ new.status = row.status /\ new.stage = row.stage /\ new.task = t
              /\ new.retries = n /\ new.ctx = row.ctx
           /\ LET new == [row EXCEPT !.ctx = c, !.status = status] IN
              /\ new.status = status /\ new.stage = row.stage /\ new.task = row.task
              /\ new.retries = row.retries /\ new.ctx = c
           /\ LET new == [row EXCEPT !.last = n] IN
              /\ new.status = row.status /\ new.stage = row.stage /\ new.task = row.task
              /\ new.retries = row.retries /\ new.ctx = row.ctx
           /\ LET new == [row EXCEPT !.last = n, !.task = t] IN
              /\ new.status = row.status /\ new.stage = row.stage /\ new.task = t
              /\ new.retries = row.retries /\ new.ctx = row.ctx
           /\ LET new == [row EXCEPT !.status = status, !.stage = n] IN
              /\ new.status = status /\ new.stage = n /\ new.task = row.task
              /\ new.retries = row.retries /\ new.ctx = row.ctx
  BY DEF Row

(* A decision is what Turns says.                                          *)
LEMMA ThenTurns ==
    ASSUME Typed, NEW r \in Processes, NEW move, NEW stage, NEW t, Then(r, move, stage, t)
    PROVE  Turns(r, move, stage, t)
  BY DEF Typed, Then, Moving, Turns, Others


-----------------------------------------------------------------------------
(* Every step is one of these.                                             *)

(* A pass that is under way is for a goal run, and its decision is made.   *)
LEMMA PassFacts ==
    ASSUME DeployInv, NEW r \in Processes, runner[r].pc # "idle"
    PROVE  /\ runner[r].goal \in Goals /\ runner[r] \in PassRecord
           /\ runner[r].pc \in {"seen", "moving"} /\ runner[r].move \in Moves
           /\ runner[r].stage \in StageNames /\ runner[r].row \in Row
           /\ runner[r].pc = "moving" => runner[r].move # "none"
  <1>1. runner[r] \in PassRecord BY DEF DeployInv, Typed
  <1> QED BY <1>1 DEF DeployInv, PassOK, PassRecord

(* Fetching a run.                                                         *)
LEMMA FetchIs ==
    ASSUME DeployInv, NEW r \in Processes, NEW g \in Goals, ClaimGoalRun(r, g) \/ PollRunning(r, g)
    PROVE  Claims(r, g) \/ Polls(r, g)
  <1>1. Typed BY DEF DeployInv
  <1>2. run[g] \in Row BY <1>1 DEF Typed
  <1>3. ASSUME NEW row, runner' = [runner EXCEPT ![r] = Reading(g, row)], row = run'[g]
        PROVE  Reads(r, g)
    BY <1>1, <1>3 DEF Typed, Reading, Reads, Others
  <1>4. CASE ClaimGoalRun(r, g)
    <2> DEFINE row == [run[g] EXCEPT !.status = "running"]
    <2>1. /\ row.status = "running" /\ row.stage = run[g].stage /\ row.task = run[g].task
          /\ row.retries = run[g].retries /\ row.ctx = run[g].ctx
      BY <1>2, RowFields
    <2>2. Write(g, row) BY <1>4 DEF ClaimGoalRun
    <2> HIDE DEF row
    <2>3. Keeps(g, "running", run[g].task, run[g].retries)
      BY <1>1, <2>1, <2>2, WriteSets DEF Keeps
    <2> QED BY <1>3, <1>4, <2>3 DEF ClaimGoalRun, Claims
  <1>5. CASE PollRunning(r, g)
    BY <1>3, <1>5 DEF PollRunning, LatestRunning, Polls
  <1> QED BY <1>4, <1>5

(* A decision without a write.                                             *)
LEMMA DecidedIs ==
    ASSUME DeployInv, NEW r \in Processes, NEW move \in Moves, NEW stage \in StageNames,
           runner[r].pc = "seen", Chosen(r, move, stage), Then(r, move, stage, NoExecution),
           UNCHANGED <<run, task>>
    PROVE  Chooses(r)
  <1>1. Turns(r, move, stage, NoExecution) BY ThenTurns DEF DeployInv
  <1> QED BY <1>1 DEF Chooses

(* All decisions that write nothing are choices.                           *)
LEMMA DecisionsAre ==
    ASSUME DeployInv, NEW r \in Processes,
           \/ Discover(r) \/ FailExecution(r) \/ VerifyPasses(r) \/ VerifyFails(r)
           \/ SkipDeploy(r) \/ AskForTarget(r) \/ AskForCredentials(r) \/ PassDeploy(r)
           \/ \E k \in Tokens : AskAuthorization(r, k)
           \/ Accept(r) \/ TimeOutExecution(r) \/ Throw(r)
    PROVE  Chooses(r)
  <1>1. runner[r].pc = "seen" /\ UNCHANGED <<run, task>>
    BY DEF Discover, FailExecution, VerifyPasses, VerifyFails, SkipDeploy, AskForTarget,
           AskForCredentials, PassDeploy, AskAuthorization, Prepare, Deploying, Accept, TimeOutExecution,
           Throw, Seen, Looks
  <1>2. runner[r].row.stage \in StageNames
    BY <1>1, PassFacts DEF Row
  <1>3. \A move \in Moves, stage \in StageNames :
          Chosen(r, move, stage) /\ Then(r, move, stage, NoExecution) => Chooses(r)
    BY <1>1, DecidedIs
  <1>4. ASSUME ThenFail(r) PROVE Chooses(r)
    BY <1>2, <1>3, <1>4 DEF ThenFail, Chosen, Moves
  <1>5. CASE FailExecution(r) \/ VerifyFails(r) \/ TimeOutExecution(r) \/ Throw(r)
    BY <1>4, <1>5 DEF FailExecution, VerifyFails, TimeOutExecution, Throw
  <1>6. ASSUME NEW keys, Missing(r, keys) # {}
        PROVE  ~(wish[runner[r].goal].inputs \subseteq runner[r].row.ctx)
    BY <1>6 DEF Missing
  <1>7. CASE Discover(r)
    <2>1. CASE Missing(r, WebsiteKeys) # {}
      BY <1>3, <1>6, <1>7, <2>1 DEF Discover, Seen, Chosen, Moves, StageNames
    <2>2. CASE ~(Missing(r, WebsiteKeys) # {})
      BY <1>3, <1>7, <2>2 DEF Discover, Seen, Chosen, Moves, StageNames, ThenQueue
    <2> QED BY <2>1, <2>2
  <1>8. CASE VerifyPasses(r)
    BY <1>3, <1>8 DEF VerifyPasses, Seen, Chosen, Moves, StageNames, ThenQueue
  <1>9. CASE SkipDeploy(r) \/ PassDeploy(r)
    BY <1>3, <1>9 DEF SkipDeploy, PassDeploy, Prepare, Deploying, Seen, Chosen, Moves, StageNames, ThenQueue
  <1>10. CASE AskForTarget(r)
    BY <1>3, <1>6, <1>10 DEF AskForTarget, Deploying, Seen, Chosen, Moves, StageNames
  <1>13. CASE AskForCredentials(r)
    <2>1. ~(wish[runner[r].goal].inputs \subseteq runner[r].row.ctx)
      BY <1>13 DEF AskForCredentials, Equipped, Stocked, Secrets
    <2> QED BY <1>3, <1>13, <2>1 DEF AskForCredentials, Prepare, Deploying, Seen, Chosen, Moves, StageNames
  <1>11. CASE \E k \in Tokens : AskAuthorization(r, k)
    BY <1>3, <1>11 DEF AskAuthorization, Authorized, Prepare, Deploying, Seen, Chosen, Moves, StageNames
  <1>12. CASE Accept(r)
    BY <1>3, <1>12 DEF Accept, Seen, Chosen, Moves, StageNames
  <1> QED BY <1>5, <1>7, <1>8, <1>9, <1>10, <1>11, <1>12, <1>13

(* A decision after a write of the row.                                    *)
LEMMA WritesAre ==
    ASSUME DeployInv, NEW r \in Processes,
           \/ Plan(r) \/ Synthesize(r) \/ CollectTask(r) \/ RetryTask(r) \/ VerifyRetries(r)
    PROVE  Plans(r) \/ Synthesizes(r) \/ Collects(r) \/ Retries(r)
  <1> DEFINE g == runner[r].goal
  <1>1. Typed /\ runner[r].pc = "seen"
    BY DEF DeployInv, Plan, Synthesize, CollectTask, RetryTask, VerifyRetries, Seen, Looks
  <1>2. g \in Goals /\ run[g] \in Row BY <1>1, SeenFacts
  <1>3. \A stage : ThenQueue(r, stage) => Turns(r, "queue", stage, NoExecution)
    BY <1>1, ThenTurns DEF ThenQueue
  <1>4. CASE Plan(r)
    <2>1. run' = run BY <1>1, <1>2, <1>4 DEF Plan, Write, Typed
    <2> QED BY <1>3, <1>4, <2>1 DEF Plan, Plans, Seen
  <1>5. CASE Synthesize(r)
    <2> DEFINE row == [run[g] EXCEPT !.last = "synthesized"]
    <2>1. /\ row.status = run[g].status /\ row.stage = run[g].stage /\ row.task = run[g].task
          /\ row.retries = run[g].retries /\ row.ctx = run[g].ctx
      BY <1>2, RowFields
    <2>2. Write(g, row) BY <1>5 DEF Synthesize
    <2> HIDE DEF row
    <2>3. Keeps(g, run[g].status, run[g].task, run[g].retries)
      BY <1>1, <1>2, <2>1, <2>2, WriteSets DEF Keeps
    <2> QED BY <1>3, <1>5, <2>3 DEF Synthesize, Synthesizes, Seen, Writes
  <1>6. CASE CollectTask(r)
    <2> DEFINE row == [run[g] EXCEPT !.last = "completed", !.task = NoExecution]
    <2>1. /\ row.status = run[g].status /\ row.stage = run[g].stage /\ row.task = NoExecution
          /\ row.retries = run[g].retries /\ row.ctx = run[g].ctx
      BY <1>2, RowFields
    <2>2. Write(g, row) BY <1>6 DEF CollectTask
    <2> HIDE DEF row
    <2>3. Keeps(g, run[g].status, NoExecution, run[g].retries)
      BY <1>1, <1>2, <2>1, <2>2, WriteSets DEF Keeps
    <2> QED BY <1>3, <1>6, <2>3 DEF CollectTask, Collects, Looks, Seen, Holds, Writes
  <1>7. CASE RetryTask(r) \/ VerifyRetries(r)
    <2> DEFINE n == run[g].retries + 1
               row == [run[g] EXCEPT !.retries = n, !.task = NoExecution]
    <2>1. /\ row.status = run[g].status /\ row.stage = run[g].stage /\ row.task = NoExecution
          /\ row.retries = n /\ row.ctx = run[g].ctx
      BY <1>2, RowFields
    <2>2. Write(g, row) BY <1>7 DEF RetryTask, VerifyRetries, Retry
    <2> HIDE DEF row
    <2>3. Keeps(g, run[g].status, NoExecution, run[g].retries + 1)
      BY <1>1, <1>2, <2>1, <2>2, WriteSets DEF Keeps
    <2>4. Holds(r, {"failed", "cancelled"}) \/ (runner[r].pc = "seen" /\ runner[r].row.stage = "verify")
      BY <1>7 DEF RetryTask, VerifyRetries, Looks, Seen, Holds
    <2> QED BY <1>3, <1>7, <2>3, <2>4 DEF RetryTask, VerifyRetries, Retry, Retries, Writes
  <1> QED BY <1>4, <1>5, <1>6, <1>7

(* A new task, a look that changes nothing, and a pass that is given up.   *)
LEMMA CreateIs ==
    ASSUME DeployInv, NEW r \in Processes, NEW t \in TaskIds, CreateExecutionTask(r, t)
    PROVE  Adopts(r, t)
  BY ThenTurns DEF DeployInv, CreateExecutionTask, Seen, Adopts

(* A look that changes nothing, and a pass that is given up.               *)
LEMMA StopIs ==
    ASSUME DeployInv, NEW r \in Processes, WatchTask(r) \/ Abandon(r)
    PROVE  Watches(r) \/ Breaks(r)
  <1>1. Rests(r)
    BY DEF DeployInv, Typed, WatchTask, Abandon, Idle, Rests, Others
  <1> QED BY <1>1 DEF WatchTask, Abandon, Looks, Seen, GoalFault, Watches, Holds, Breaks

(* The write that ends a pass.                                             *)
LEMMA MoveIs ==
    ASSUME DeployInv, NEW r \in Processes, MoveOn(r)
    PROVE  Finishes(r)
  <1> DEFINE p == runner[r]
             g == p.goal
             row == Moved(run[g], p)
  <1>1. p.pc = "moving" /\ Write(g, row) /\ UNCHANGED task BY DEF MoveOn
  <1>2. g \in Goals /\ p.move \in Moves \ {"none"} /\ Typed
    BY <1>1, PassFacts DEF DeployInv
  <1>3. run[g] \in Row BY <1>2 DEF Typed
  <1>4. Rests(r) BY <1>2 DEF MoveOn, Typed, Idle, Rests, Others
  <1>5. Sets(g, row.status, row.stage, row.task, row.retries, row.ctx)
    BY <1>1, <1>2, WriteSets
  <1>6. CASE p.move = "queue"
    <2>1. row = [run[g] EXCEPT !.status = "queued", !.stage = p.stage] BY <1>6 DEF Moved
    <2>2. /\ row.status = "queued" /\ row.stage = p.stage /\ row.task = run[g].task
          /\ row.retries = run[g].retries /\ row.ctx = run[g].ctx
      BY <1>3, <2>1, RowFields
    <2> QED BY <1>1, <1>4, <1>5, <1>6, <2>2 DEF Finishes
  <1>7. CASE p.move = "ask"
    <2>1. row = [run[g] EXCEPT !.status = "awaiting_input", !.stage = p.stage] BY <1>7 DEF Moved
    <2>2. /\ row.status = "awaiting_input" /\ row.stage = p.stage /\ row.task = run[g].task
          /\ row.retries = run[g].retries /\ row.ctx = run[g].ctx
      BY <1>3, <2>1, RowFields
    <2> QED BY <1>1, <1>4, <1>5, <1>7, <2>2 DEF Finishes
  <1>8. CASE p.move = "authorize"
    <2>1. row = [run[g] EXCEPT !.status = "awaiting_authorization", !.stage = p.stage] BY <1>8 DEF Moved
    <2>2. /\ row.status = "awaiting_authorization" /\ row.stage = p.stage /\ row.task = run[g].task
          /\ row.retries = run[g].retries /\ row.ctx = run[g].ctx
      BY <1>3, <2>1, RowFields
    <2> QED BY <1>1, <1>4, <1>5, <1>8, <2>2 DEF Finishes
  <1>9. CASE p.move = "fail"
    <2>1. row = [run[g] EXCEPT !.status = "failed"] BY <1>9 DEF Moved
    <2>2. /\ row.status = "failed" /\ row.stage = run[g].stage /\ row.task = run[g].task
          /\ row.retries = run[g].retries /\ row.ctx = run[g].ctx
      BY <1>3, <2>1, RowFields
    <2> QED BY <1>1, <1>4, <1>5, <1>9, <2>2 DEF Finishes, Keeps
  <1>10. CASE p.move = "complete"
    <2>1. row = [run[g] EXCEPT !.status = "completed", !.stage = "accept"] BY <1>10 DEF Moved
    <2>2. /\ row.status = "completed" /\ row.stage = "accept" /\ row.task = run[g].task
          /\ row.retries = run[g].retries /\ row.ctx = run[g].ctx
      BY <1>3, <2>1, RowFields
    <2> QED BY <1>1, <1>4, <1>5, <1>10, <2>2 DEF Finishes
  <1>11. CASE p.move = "adopt"
    <2>1. row = [run[g] EXCEPT !.task = p.task] BY <1>11 DEF Moved
    <2>2. /\ row.status = run[g].status /\ row.stage = run[g].stage /\ row.task = p.task
          /\ row.retries = run[g].retries /\ row.ctx = run[g].ctx
      BY <1>3, <2>1 DEF Row
    <2> QED BY <1>1, <1>4, <1>5, <1>11, <2>2 DEF Finishes, Keeps
  <1> QED BY <1>2, <1>6, <1>7, <1>8, <1>9, <1>10, <1>11 DEF Moves

(* The sweep.                                                              *)
LEMMA ReconcileIs ==
    ASSUME DeployInv, NEW r \in Processes, NEW g \in Goals, Reconcile(r, g)
    PROVE  Requeues(r, g)
  <1> DEFINE row == [run[g] EXCEPT !.status = "queued", !.task = NoExecution]
  <1>1. Typed /\ run[g] \in Row BY DEF DeployInv, Typed
  <1>2. /\ row.status = "queued" /\ row.stage = run[g].stage /\ row.task = NoExecution
        /\ row.retries = run[g].retries /\ row.ctx = run[g].ctx
    BY <1>1, RowFields
  <1>3. Write(g, row) BY DEF Reconcile
  <1> HIDE DEF row
  <1>4. Keeps(g, "queued", NoExecution, run[g].retries)
    BY <1>1, <1>2, <1>3, WriteSets DEF Keeps
  <1> QED BY <1>4 DEF Reconcile, Needs, GoalFault, Requeues

(* The end of a run by hand or by its age.                                 *)
LEMMA CancelIs ==
    ASSUME DeployInv, TasksTyped, NEW g \in Goals,
           CancelGoalRun(g) \/ \E r \in Processes : ExpireAwaiting(r, g)
    PROVE  Cancels(g)
  <1> DEFINE row == [run[g] EXCEPT !.status = "cancelled", !.task = NoExecution]
  <1>1. Typed /\ run[g] \in Row BY DEF DeployInv, Typed
  <1>2. /\ row.status = "cancelled" /\ row.stage = run[g].stage /\ row.task = NoExecution
        /\ row.retries = run[g].retries /\ row.ctx = run[g].ctx
    BY <1>1, RowFields
  <1>3. Cancelled(g) /\ runner' = runner BY DEF CancelGoalRun, ExpireAwaiting
  <1>4. Write(g, row) BY <1>3 DEF Cancelled
  <1> HIDE DEF row
  <1>5. Keeps(g, "cancelled", NoExecution, run[g].retries)
    BY <1>1, <1>2, <1>4, WriteSets DEF Keeps
  <1>6. \A t \in TaskIds :
          /\ task'[t].goal = task[t].goal
          /\ task'[t].status = IF t \in TasksOf(g) /\ task[t].status \in LiveTask
                               THEN "cancelled" ELSE task[t].status
    BY <1>3 DEF Cancelled, TasksTyped
  <1>7. run[g].status # "absent" /\ (run[g].status \notin Ended \/ "stray" \in RunHazards)
    BY DEF CancelGoalRun, ExpireAwaiting, Needs, GoalFault, Awaiting, Ended
  <1> QED BY <1>3, <1>5, <1>6, <1>7 DEF Cancels

(* The users.                                                              *)
LEMMA CreateRunIs ==
    ASSUME DeployInv, NEW g \in Goals, NEW ctx \in Contexts, CreateGoalRun(g, ctx)
    PROVE  Births(g)
  <1> DEFINE row == [NoGoalRun EXCEPT !.status = "queued", !.ctx = ctx]
  <1>1. Typed BY DEF DeployInv
  <1>2. /\ row.status = "queued" /\ row.stage = "discover" /\ row.task = NoExecution
        /\ row.retries = 0 /\ row.ctx = ctx
    BY DEF NoGoalRun
  <1>3. Write(g, row) BY DEF CreateGoalRun
  <1> HIDE DEF row
  <1>4. Sets(g, "queued", "discover", NoExecution, 0, ctx)
    BY <1>1, <1>2, <1>3, WriteSets
  <1> QED BY <1>4 DEF CreateGoalRun, Births

(* The answers of the users.                                               *)
LEMMA AnswerIs ==
    ASSUME DeployInv, NEW g \in Goals,
           \/ \E key \in Inputs : GiveInput(g, key)
           \/ \E k \in Tokens : IssueToken(g, k) \/ ConsumeToken(g, k)
    PROVE  Answers(g)
  <1>1. Typed /\ run[g] \in Row BY DEF DeployInv, Typed
  <1>2. run[g].status # "absent" /\ UNCHANGED <<task, runner>>
    BY DEF GiveInput, IssueToken, ConsumeToken
  <1>3. run[g].status \in RunStatus /\ run[g].ctx \in SUBSET Inputs
    BY <1>1, <1>2 DEF Row
  <1>4. ASSUME NEW status \in RunStatus, NEW ctx \in SUBSET Inputs,
               Write(g, [run[g] EXCEPT !.ctx = ctx, !.status = status]),
               \/ run[g].status \in Awaiting /\ status = "queued"
               \/ run[g].status = "awaiting_authorization" /\ status = run[g].status /\ ctx = run[g].ctx
               \/ RunHazards \cap {"early", "stray"} # {}
        PROVE  Answers(g)
    <2> DEFINE row == [run[g] EXCEPT !.ctx = ctx, !.status = status]
    <2>1. /\ row.status = status /\ row.stage = run[g].stage /\ row.task = run[g].task
          /\ row.retries = run[g].retries /\ row.ctx = ctx
      BY <1>1, RowFields
    <2>2. Write(g, row) BY <1>4
    <2> HIDE DEF row
    <2>3. Sets(g, status, run[g].stage, run[g].task, run[g].retries, ctx)
      BY <1>1, <2>1, <2>2, WriteSets
    <2> QED BY <1>2, <1>4, <2>3 DEF Answers
  <1>5. ASSUME NEW key \in Inputs, GiveInput(g, key) PROVE Answers(g)
    <2> DEFINE ctx == run[g].ctx \cup {key}
               status == IF run[g].status = "awaiting_input" THEN "queued" ELSE run[g].status
    <2>1. Write(g, [run[g] EXCEPT !.ctx = ctx, !.status = status]) BY <1>5 DEF GiveInput
    <2>2. ctx \in SUBSET Inputs /\ status \in RunStatus
      BY <1>3, <1>5 DEF RunStatus
    <2>3. \/ run[g].status \in Awaiting /\ status = "queued"
          \/ RunHazards \cap {"early", "stray"} # {}
      BY <1>5 DEF GiveInput, Needs, GoalFault, Awaiting
    <2> HIDE DEF ctx, status
    <2> QED BY <1>4, <2>1, <2>2, <2>3
  <1>6. ASSUME NEW k \in Tokens, IssueToken(g, k) PROVE Answers(g)
    <2> DEFINE row == [run[g] EXCEPT !.status = "awaiting_authorization"]
    <2>1. row = [run[g] EXCEPT !.ctx = run[g].ctx, !.status = "awaiting_authorization"]
      BY <1>1 DEF Row
    <2>2. Write(g, row) BY <1>6 DEF IssueToken
    <2>3. \/ run[g].status = "awaiting_authorization"
          \/ RunHazards \cap {"early", "stray"} # {}
      BY <1>6 DEF IssueToken, Needs, GoalFault, Awaiting
    <2>4. "awaiting_authorization" \in RunStatus BY DEF RunStatus, Awaiting
    <2> HIDE DEF row
    <2> QED BY <1>3, <1>4, <2>1, <2>2, <2>3, <2>4
  <1>7. ASSUME NEW k \in Tokens, ConsumeToken(g, k) PROVE Answers(g)
    <2> DEFINE ctx == run[g].ctx \cup {"authorized"}
               status == IF run[g].status = "awaiting_authorization" THEN "queued" ELSE run[g].status
    <2>1. Write(g, [run[g] EXCEPT !.ctx = ctx, !.status = status]) BY <1>7 DEF ConsumeToken
    <2>2. ctx \in SUBSET Inputs /\ status \in RunStatus
      BY <1>3 DEF RunStatus, Inputs
    <2>3. \/ run[g].status \in Awaiting /\ status = "queued"
          \/ RunHazards \cap {"early", "stray"} # {}
      BY <1>7 DEF ConsumeToken, Needs, GoalFault, Awaiting
    <2> HIDE DEF ctx, status
    <2> QED BY <1>4, <2>1, <2>2, <2>3
  <1> QED BY <1>5, <1>6, <1>7

(* The tasks.                                                              *)
LEMMA TaskIs ==
    ASSUME TasksTyped, NEW t \in TaskIds,
           StartTask(t) \/ SettleTask(t) \/ DisturbTask(t) \/ AnswerTask(t)
    PROVE  TaskMoves(t)
  <1>1. \E from \in SUBSET LiveTask, to \in (LiveTask \cup Ended) : TaskMove(t, from, to)
    BY DEF StartTask, SettleTask, DisturbTask, AnswerTask, LiveTask, Ended
  <1>2. PICK from \in SUBSET LiveTask, to \in (LiveTask \cup Ended) : TaskMove(t, from, to)
    BY <1>1
  <1>3. "absent" \notin LiveTask \cup Ended BY DEF LiveTask, Ended
  <1> QED BY <1>2, <1>3 DEF TaskMove, TasksTyped, TaskMoves

(* The tasks keep their type.                                              *)
LEMMA TasksKeepType ==
    ASSUME DeployInv, TasksTyped, [GoalNext]_goalVars
    PROVE  TasksTyped'
  <1> DEFINE T == [status : LiveTask \cup Ended \cup {"absent"}, goal : Goals \cup {NoGoal}]
  <1>1. ASSUME NEW t \in TaskIds, NEW from, NEW to \in (LiveTask \cup Ended), TaskMove(t, from, to)
        PROVE  TasksTyped'
    BY <1>1 DEF TaskMove, TasksTyped
  <1>2. ASSUME NEW t \in TaskIds, StartTask(t) \/ SettleTask(t) \/ DisturbTask(t) \/ AnswerTask(t)
        PROVE  TasksTyped'
    BY <1>1, <1>2 DEF StartTask, SettleTask, DisturbTask, AnswerTask, LiveTask, Ended
  <1>3. ASSUME NEW g \in Goals, Cancelled(g) PROVE TasksTyped'
    <2>1. \A t \in TaskIds : task'[t] = task[t] \/ task'[t] = [task[t] EXCEPT !.status = "cancelled"]
      BY <1>3 DEF Cancelled
    <2>2. \A t \in TaskIds : [task[t] EXCEPT !.status = "cancelled"] \in T
      BY DEF TasksTyped, Ended
    <2>3. task' = [t \in TaskIds |-> task'[t]] BY <1>3 DEF Cancelled
    <2> QED BY <2>1, <2>2, <2>3 DEF TasksTyped
  <1>4. ASSUME NEW r \in Processes, NEW t \in TaskIds, CreateExecutionTask(r, t) PROVE TasksTyped'
    <2>1. runner[r].goal \in Goals BY <1>4, SeenFacts DEF CreateExecutionTask, Seen
    <2> QED BY <1>4, <2>1 DEF CreateExecutionTask, TasksTyped, LiveTask
  <1>5. ASSUME task' = task PROVE TasksTyped' BY <1>5 DEF TasksTyped
  <1>6. CASE UNCHANGED goalVars BY <1>5, <1>6 DEF goalVars
  <1>7. ASSUME NEW r \in Processes,
               Fetch(r) \/ Pass(r) \/ TimeOutExecution(r) \/ Abandon(r) \/ Throw(r)
        PROVE  TasksTyped'
    BY <1>4, <1>5, <1>7 DEF Fetch, ClaimGoalRun, PollRunning, TimeOutExecution, Abandon, Throw,
         Pass, Discover, Plan, Synthesize, WatchTask, CollectTask, RetryTask, VerifyRetries,
         Retry,
         FailExecution, VerifyPasses, VerifyFails, SkipDeploy, AskForTarget, AskForCredentials,
         PassDeploy, AskAuthorization, Prepare, Accept, MoveOn
  <1>8. ASSUME NEW g \in Goals,
               \/ \E r \in Processes : Reconcile(r, g) \/ ExpireAwaiting(r, g)
               \/ CancelGoalRun(g) \/ \E ctx \in Contexts : CreateGoalRun(g, ctx)
               \/ \E key \in Inputs : GiveInput(g, key)
               \/ \E k \in Tokens : IssueToken(g, k) \/ ConsumeToken(g, k)
        PROVE  TasksTyped'
    BY <1>3, <1>5, <1>8 DEF Reconcile, ExpireAwaiting, CreateGoalRun, CancelGoalRun, GiveInput,
         IssueToken, ConsumeToken
  <1>9. CASE \/ \E k \in Tokens : PresentExpired(k)
             \/ \E key \in CredentialKeys : PutCredential(key) \/ DropCredential(key)
    BY <1>5, <1>9 DEF PresentExpired, PutCredential, DropCredential
  <1> QED BY <1>2, <1>6, <1>7, <1>8, <1>9 DEF GoalNext

(* The tasks have their type initially.                                    *)
LEMMA InitTasks == GoalInit => TasksTyped
  BY DEF GoalInit, TasksTyped

(* Every step is one of those above.                                       *)
LEMMA StepIs ==
    ASSUME DeployInv, TasksTyped, [GoalNext]_goalVars
    PROVE  StepOfRows /\ (wish' = wish)
  <1>1. CASE UNCHANGED goalVars BY <1>1 DEF goalVars, StepOfRows
  <1>2. ASSUME NEW r \in Processes,
               Fetch(r) \/ Pass(r) \/ TimeOutExecution(r) \/ Abandon(r) \/ Throw(r)
        PROVE  RunnerStep(r) /\ (wish' = wish)
    <2>1. CASE Fetch(r)
      BY <2>1, FetchIs DEF Fetch, ClaimGoalRun, PollRunning, RunnerStep
    <2>2. CASE \E t \in TaskIds : CreateExecutionTask(r, t)
      BY <2>2, CreateIs DEF CreateExecutionTask, RunnerStep
    <2>3. CASE WatchTask(r) \/ Abandon(r)
      BY <2>3, StopIs DEF WatchTask, Abandon, RunnerStep
    <2>4. CASE MoveOn(r)
      BY <2>4, MoveIs DEF MoveOn, RunnerStep
    <2>5. CASE Plan(r) \/ Synthesize(r) \/ CollectTask(r) \/ RetryTask(r) \/ VerifyRetries(r)
      BY <2>5, WritesAre DEF Plan, Synthesize, CollectTask, RetryTask, VerifyRetries, Retry,
         RunnerStep
    <2>6. CASE \/ Discover(r) \/ FailExecution(r) \/ VerifyPasses(r) \/ VerifyFails(r)
               \/ SkipDeploy(r) \/ AskForTarget(r) \/ AskForCredentials(r) \/ PassDeploy(r)
               \/ \E k \in Tokens : AskAuthorization(r, k)
               \/ Accept(r) \/ TimeOutExecution(r) \/ Throw(r)
      BY <2>6, DecisionsAre DEF Discover, FailExecution, VerifyPasses, VerifyFails, SkipDeploy,
         AskForTarget, AskForCredentials, PassDeploy, AskAuthorization, Prepare, Accept, TimeOutExecution,
         Throw, RunnerStep
    <2> QED BY <1>2, <2>1, <2>2, <2>3, <2>4, <2>5, <2>6 DEF Pass
  <1>3. ASSUME NEW r \in Processes, NEW g \in Goals, Reconcile(r, g)
        PROVE  RunnerStep(r) /\ (wish' = wish)
    BY <1>3, ReconcileIs DEF Reconcile, RunnerStep
  <1>4. ASSUME NEW g \in Goals,
               \/ CancelGoalRun(g) \/ \E ctx \in Contexts : CreateGoalRun(g, ctx)
               \/ \E r \in Processes : ExpireAwaiting(r, g)
               \/ \E key \in Inputs : GiveInput(g, key)
               \/ \E k \in Tokens : IssueToken(g, k) \/ ConsumeToken(g, k)
        PROVE  (Cancels(g) \/ Births(g) \/ Answers(g)) /\ (wish' = wish)
    <2>1. wish' = wish
      BY <1>4 DEF CreateGoalRun, CancelGoalRun, ExpireAwaiting, GiveInput, IssueToken,
         ConsumeToken
    <2> QED BY <1>4, <2>1, CancelIs, CreateRunIs, AnswerIs
  <1>5. CASE \/ \E k \in Tokens : PresentExpired(k)
             \/ \E key \in CredentialKeys : PutCredential(key) \/ DropCredential(key)
    BY <1>5 DEF PresentExpired, PutCredential, DropCredential, StepOfRows
  <1>6. ASSUME NEW t \in TaskIds, StartTask(t) \/ SettleTask(t) \/ DisturbTask(t) \/ AnswerTask(t)
        PROVE  TaskMoves(t) /\ (wish' = wish)
    BY <1>6, TaskIs DEF StartTask, SettleTask, DisturbTask, AnswerTask, TaskMove
  <1> QED BY <1>1, <1>2, <1>3, <1>4, <1>5, <1>6 DEF GoalNext, StepOfRows

-----------------------------------------------------------------------------
(* The order of the stages, with one runner.                               *)

(* The ranks of the stages.                                                *)
LEMMA Ranks ==
    /\ Rank("discover") = 1 /\ Rank("plan") = 2 /\ Rank("execute") = 3
    /\ Rank("verify") = 4 /\ Rank("deploy") = 5 /\ Rank("accept") = 6
  <1>1. DOMAIN Stages = 1..6 BY DEF Stages
  <1>2. /\ Stages[1] = "discover" /\ Stages[2] = "plan" /\ Stages[3] = "execute"
        /\ Stages[4] = "verify" /\ Stages[5] = "deploy" /\ Stages[6] = "accept"
    BY DEF Stages
  <1>3. \A i \in 1..6 : i = 1 \/ i = 2 \/ i = 3 \/ i = 4 \/ i = 5 \/ i = 6
    OBVIOUS
  <1>4. \A stage : (\E i \in 1..6 : Stages[i] = stage) => Rank(stage) \in 1..6 /\ Stages[Rank(stage)] = stage
    BY <1>1 DEF Rank
  <1>5. /\ Rank("discover") \in 1..6 /\ Stages[Rank("discover")] = "discover"
        /\ Rank("plan") \in 1..6 /\ Stages[Rank("plan")] = "plan"
        /\ Rank("execute") \in 1..6 /\ Stages[Rank("execute")] = "execute"
        /\ Rank("verify") \in 1..6 /\ Stages[Rank("verify")] = "verify"
        /\ Rank("deploy") \in 1..6 /\ Stages[Rank("deploy")] = "deploy"
        /\ Rank("accept") \in 1..6 /\ Stages[Rank("accept")] = "accept"
    BY <1>2, <1>4
  <1> QED BY <1>2, <1>3, <1>5

(* StagesInOrder of one run.                                               *)
Advances(g) ==
    \/ Rank(run'[g].stage) >= Rank(run[g].stage)
    \/ run[g].stage = "verify" /\ run'[g].stage = "execute" /\ run[g].retries > 0

(* The row stays at its stage.                                             *)
Still(g) ==
    /\ run'[g].stage = run[g].stage /\ run'[g].retries >= run[g].retries
    /\ run'[g].status = "absent" <=> run[g].status = "absent"
    /\ run'[g].status = "absent" => run'[g].task = NoExecution

(* The rank of a row is a number from 1 to 6.                              *)
LEMMA RanksOfRows ==
    ASSUME Typed, NEW g \in Goals
    PROVE  Rank(run[g].stage) \in 1..6 /\ run[g].stage \in StageNames /\ run[g].retries \in Nat
  <1>1. run[g].stage \in StageNames /\ run[g].retries \in Nat BY DEF Typed, Row
  <1> QED BY <1>1, Ranks DEF StageNames

(* A row that stays at its stage is in order.                              *)
LEMMA StillAdvances ==
    ASSUME Typed, NEW g \in Goals, Still(g) PROVE Advances(g)
  BY RanksOfRows DEF Still, Advances

(* A row that stays is still as new if it is not there.                    *)
LEMMA StillOrdered ==
    ASSUME OrderInv, NEW g \in Goals, Still(g) PROVE OrderedRow(g)'
  BY DEF OrderInv, Still, OrderedRow

(* More retries forbid nothing.                                            *)
LEMMA FollowsMore ==
    ASSUME NEW from, NEW to, NEW m \in Nat, NEW n \in Nat, n >= m, Follows(from, to, m)
    PROVE  Follows(from, to, n)
  BY DEF Follows

(* Rows keep their stage while passes are left alone or rest.              *)
LEMMA OrderCalm ==
    ASSUME Typed, Typed', OrderInv, \A g \in Goals : Still(g),
           \A r \in Processes : runner'[r] = runner[r] \/ runner'[r].pc = "idle"
                              \/ OrderedPass(r)'
    PROVE  OrderInv' /\ \A g \in Goals : Advances(g)
  <1>1. \A g \in Goals : Advances(g) BY StillAdvances
  <1>2. \A g \in Goals : OrderedRow(g)' BY StillOrdered
  <1>3. ASSUME NEW r \in Processes PROVE OrderedPass(r)'
    <2>1. CASE runner'[r].pc = "idle" BY <2>1 DEF OrderedPass
    <2>2. CASE runner'[r] = runner[r] /\ runner[r].pc # "idle"
      <3> DEFINE p == runner[r]
                 g == p.goal
      <3>1. /\ g \in Goals /\ run[g].status # "absent"
            /\ p.pc = "seen" => p.row.stage = run[g].stage
            /\ p.pc = "moving" /\ p.move \in {"queue", "ask", "authorize"} =>
                  Follows(run[g].stage, p.stage, run[g].retries)
        BY <2>2 DEF OrderInv, OrderedPass
      <3>2. Still(g) /\ run[g].retries \in Nat /\ run'[g].retries \in Nat
        BY <3>1, RanksOfRows DEF Typed, Row
      <3>3. \A to : Follows(run[g].stage, to, run[g].retries) => Follows(run'[g].stage, to, run'[g].retries)
        BY <3>2, FollowsMore DEF Still
      <3> QED BY <2>2, <3>1, <3>2, <3>3 DEF Still, OrderedPass, Follows
    <2> QED BY <1>3, <2>1, <2>2
  <1> QED BY <1>1, <1>2, <1>3 DEF OrderInv

(* A write that keeps the stage leaves every row at its stage.             *)
LEMMA KeepsStill ==
    ASSUME Typed, NEW g \in Goals, NEW status, NEW t, NEW n, NEW c,
           Sets(g, status, run[g].stage, t, n, c), n >= run[g].retries, OrderedRow(g),
           run[g].status # "absent", status # "absent"
    PROVE  \A h \in Goals : OrderedRow(h) => Still(h)
  <1>1. Still(g) BY DEF Sets, Still
  <1>2. ASSUME NEW h \in Goals, h # g, OrderedRow(h) PROVE Still(h)
    BY <1>2, RanksOfRows DEF Sets, Still, OrderedRow
  <1> QED BY <1>1, <1>2

(* Every step keeps the order and its invariant.                           *)
LEMMA OrderStep ==
    ASSUME OneRunner, DeployInv, Typed', OrderInv, StepOfRows
    PROVE  OrderInv' /\ \A g \in Goals : Advances(g)
  <1> DEFINE Goal == OrderInv' /\ \A g \in Goals : Advances(g)
  <1>1. Typed /\ (\A g \in Goals : OrderedRow(g)) /\ \A r \in Processes : OrderedPass(r)
    BY DEF DeployInv, OrderInv
  <1>2. ASSUME NEW g \in Goals, run'[g] = run[g] PROVE Still(g)
    BY <1>1, <1>2, RanksOfRows DEF Still, OrderedRow
  <1>20. ASSUME NEW g \in Goals, NEW status, NEW t, NEW c,
                Sets(g, status, run[g].stage, t, run[g].retries, c),
                run[g].status # "absent", status # "absent"
         PROVE  \A h \in Goals : Still(h)
    <2>1. run[g].retries >= run[g].retries BY <1>1, RanksOfRows
    <2> QED BY <1>1, <1>20, <2>1, KeepsStill
  <1>3. ASSUME NEW r \in Processes, runner[r].pc # "idle"
        PROVE  /\ runner[r].goal \in Goals /\ run[runner[r].goal].status # "absent"
               /\ runner[r].row.stage \in StageNames /\ runner[r].stage \in StageNames
               /\ runner[r].pc = "seen" => runner[r].row.stage = run[runner[r].goal].stage
    BY <1>1, <1>3, PassFacts DEF OrderedPass, Row
  <1>4. ASSUME NEW r \in Processes, NEW g \in Goals, Claims(r, g) \/ Polls(r, g) PROVE Goal
    <2>1. \A h \in Goals : Still(h)
      <3>1. CASE Claims(r, g)
        BY <1>20, <3>1 DEF Claims, Keeps
      <3>2. CASE Polls(r, g)
        BY <1>2, <3>2 DEF Polls
      <3> QED BY <1>4, <3>1, <3>2
    <2>2. run'[g].status # "absent" BY <1>4 DEF Claims, Polls, Keeps, Sets
    <2>3. OrderedPass(r)' BY <1>4, <2>2 DEF Claims, Polls, Reads, OrderedPass
    <2> QED BY <1>1, <1>4, <2>1, <2>3, OrderCalm DEF Claims, Polls, Reads, Others
  <1>5. ASSUME NEW r \in Processes, NEW g \in Goals, Requeues(r, g) PROVE Goal
    <2>1. \A h \in Goals : Still(h)
      BY <1>5, <1>20 DEF Requeues, Keeps
    <2> QED BY <1>1, <1>5, <2>1, OrderCalm DEF Requeues
  <1>6. ASSUME NEW r \in Processes, NEW move, NEW stage, NEW t, \A h \in Goals : Still(h),
               runner[r].pc = "seen", Turns(r, move, stage, t),
               move \in {"queue", "ask", "authorize"} =>
                  Follows(run[runner[r].goal].stage, stage, run'[runner[r].goal].retries)
        PROVE  Goal
    <2>1. OrderedPass(r)' BY <1>3, <1>6 DEF Turns, OrderedPass, Still
    <2> QED BY <1>1, <1>6, <2>1, OrderCalm DEF Turns, Others
  <1>7. ASSUME NEW r \in Processes, NEW t \in TaskIds, Adopts(r, t) PROVE Goal
    BY <1>2, <1>6, <1>7 DEF Adopts
  <1>8. ASSUME NEW r \in Processes, Chooses(r) \/ Plans(r) PROVE Goal
    <2>1. runner[r].pc = "seen" /\ \A h \in Goals : Still(h)
      BY <1>2, <1>8 DEF Chooses, Plans
    <2>2. ASSUME NEW move \in Moves, NEW stage \in StageNames, Chosen(r, move, stage),
                 move \in {"queue", "ask", "authorize"}
          PROVE  Follows(run[runner[r].goal].stage, stage, run'[runner[r].goal].retries)
      BY <1>3, <2>1, <2>2, Ranks DEF Chosen, Follows
    <2>3. CASE Chooses(r)
      <3>1. PICK move \in Moves,
            stage \in StageNames : Chosen(r, move, stage) /\ Turns(r, move, stage, NoExecution)
        BY <2>3 DEF Chooses
      <3> QED BY <1>6, <2>1, <2>2, <3>1
    <2>4. CASE Plans(r)
      <3>1. Follows(run[runner[r].goal].stage, "execute", run'[runner[r].goal].retries)
        BY <1>3, <2>1, <2>4, Ranks DEF Plans, Follows
      <3> QED BY <1>6, <2>1, <2>4, <3>1 DEF Plans
    <2> QED BY <1>8, <2>3, <2>4
  <1>9. ASSUME NEW r \in Processes, Synthesizes(r) \/ Collects(r) \/ Retries(r) PROVE Goal
    <2> DEFINE g == runner[r].goal
    <2>1. runner[r].pc = "seen" /\ runner[r].row.stage \in {"execute", "verify"}
      BY <1>9 DEF Synthesizes, Collects, Retries, Holds
    <2>2. \E t, n : /\ Keeps(g, run[g].status, t, n) /\ n \in {run[g].retries, run[g].retries + 1}
                    /\ Retries(r) => n = run[g].retries + 1
      BY <1>9, <1>3, <2>1, RanksOfRows, <1>1 DEF Synthesizes, Collects, Retries, Writes
    <2>3. PICK t, n : /\ Keeps(g, run[g].status, t, n) /\ n \in {run[g].retries, run[g].retries + 1}
                      /\ Retries(r) => n = run[g].retries + 1
      BY <2>2
    <2>4. n >= run[g].retries /\ run[g].retries \in Nat /\ n \in Nat
      BY <1>1, <1>3, <2>1, <2>3, RanksOfRows
    <2>5. \A h \in Goals : Still(h)
      BY <1>1, <1>3, <2>1, <2>3, <2>4, KeepsStill DEF Keeps
    <2>6. run'[g].retries = n BY <2>3 DEF Keeps, Sets
    <2>7. CASE Retries(r)
      <3>1. n > 0 BY <2>3, <2>4, <2>7
      <3>2. Follows(run[g].stage, "execute", n) BY <1>3, <2>1, <3>1, Ranks DEF Follows
      <3> QED BY <1>6, <2>1, <2>5, <2>6, <2>7, <3>2 DEF Retries
    <2>8. CASE Synthesizes(r) \/ Collects(r)
      <3>1. Follows(run[g].stage, "verify", n)
        BY <1>3, <2>1, <2>8, Ranks DEF Follows, Synthesizes, Collects, Holds
      <3> QED BY <1>6, <2>1, <2>5, <2>6, <2>8, <3>1 DEF Synthesizes, Collects
    <2> QED BY <1>9, <2>7, <2>8
  <1>10. ASSUME NEW r \in Processes, Watches(r) \/ Breaks(r) PROVE Goal
    BY <1>1, <1>2, <1>10, OrderCalm DEF Watches, Breaks, Rests, Others
  <1>11. ASSUME NEW r \in Processes, Finishes(r) PROVE Goal
    <2> DEFINE p == runner[r]
               g == p.goal
    <2>1. /\ p.pc = "moving" /\ g \in Goals /\ run[g].status # "absent" /\ p.stage \in StageNames
          /\ p.move \in {"queue", "ask", "authorize"} => Follows(run[g].stage, p.stage, run[g].retries)
      BY <1>1, <1>3, <1>11 DEF Finishes, OrderedPass
    <2>2. \A s \in Processes : runner'[s].pc = "idle"
      BY <1>11 DEF Finishes, Rests, OneRunner
    <2>3. /\ \A h \in Goals \ {g} : run'[h] = run[h]
          /\ run'[g].status # "absent"
          /\ \/ run'[g].stage = run[g].stage
             \/ run'[g].stage = "accept"
             \/ p.move \in {"queue", "ask", "authorize"} /\ run'[g].stage = p.stage
      BY <1>11, <2>1 DEF Finishes, Sets, Keeps
    <2>4. Rank(run[g].stage) \in 1..6 /\ run[g].stage \in StageNames
      BY <1>1, <2>1, RanksOfRows
    <2>5. Advances(g)
      <3>1. CASE run'[g].stage = run[g].stage BY <2>4, <3>1 DEF Advances
      <3>2. CASE run'[g].stage = "accept" BY <2>4, <3>2, Ranks DEF Advances
      <3>3. CASE p.move \in {"queue", "ask", "authorize"} /\ run'[g].stage = p.stage
        BY <2>1, <3>3 DEF Follows, Advances
      <3> QED BY <2>3, <3>1, <3>2, <3>3
    <2>6. \A h \in Goals : Advances(h) /\ OrderedRow(h)'
      BY <1>1, <1>2, <2>3, <2>5, StillAdvances, StillOrdered DEF OrderedRow
    <2> QED BY <2>2, <2>6 DEF OrderInv, OrderedPass
  <1>12. ASSUME NEW g \in Goals, Cancels(g) \/ Answers(g) PROVE Goal
    <2>1. "absent" \notin RunStatus BY DEF RunStatus, Awaiting, Ended
    <2>2. CASE Cancels(g)
      <3>1. \A h \in Goals : Still(h)
        BY <1>20, <2>2 DEF Cancels, Keeps
      <3> QED BY <1>1, <2>2, <3>1, OrderCalm DEF Cancels
    <2>3. CASE Answers(g)
      <3>1. PICK status \in RunStatus, ctx \in SUBSET Inputs :
              Sets(g, status, run[g].stage, run[g].task, run[g].retries, ctx)
        BY <2>3 DEF Answers
      <3>2. \A h \in Goals : Still(h)
        BY <1>20, <2>1, <2>3, <3>1 DEF Answers
      <3> QED BY <1>1, <2>3, <3>2, OrderCalm DEF Answers
    <2> QED BY <1>12, <2>2, <2>3
  <1>13. ASSUME NEW g \in Goals, Births(g) PROVE Goal
    <2>1. run[g].stage = "discover" /\ run[g].status = "absent" BY <1>1, <1>13 DEF Births, OrderedRow
    <2>2. run'[g].stage = "discover" /\ run'[g].status = "queued"
          /\ \A h \in Goals \ {g} : run'[h] = run[h]
      BY <1>13 DEF Births, Sets
    <2>3. \A h \in Goals : Advances(h) /\ OrderedRow(h)'
      BY <1>1, <1>2, <2>1, <2>2, Ranks, StillAdvances, StillOrdered DEF OrderedRow, Advances
    <2>4. ASSUME NEW r \in Processes PROVE OrderedPass(r)'
      <3>1. runner' = runner BY <1>13 DEF Births
      <3>2. runner[r].pc # "idle" => runner[r].goal \in Goals \ {g} BY <1>3, <2>1
      <3> QED BY <1>1, <2>2, <3>1, <3>2 DEF OrderedPass
    <2> QED BY <2>3, <2>4 DEF OrderInv
  <1>14. ASSUME UNCHANGED <<run, runner>> PROVE Goal
    BY <1>1, <1>2, <1>14, OrderCalm
  <1>15. ASSUME NEW t \in TaskIds, TaskMoves(t) PROVE Goal
    BY <1>14, <1>15 DEF TaskMoves
  <1>16. ASSUME NEW r \in Processes, RunnerStep(r) PROVE Goal
    BY <1>4, <1>5, <1>7, <1>8, <1>9, <1>10, <1>11, <1>16 DEF RunnerStep
  <1>17. CASE \E g \in Goals : Cancels(g) \/ Births(g) \/ Answers(g) BY <1>12, <1>13, <1>17
  <1>18. CASE \E t \in TaskIds : TaskMoves(t) BY <1>15, <1>18
  <1>19. CASE UNCHANGED <<run, runner, task>> BY <1>14, <1>19
  <1> QED BY <1>16, <1>17, <1>18, <1>19 DEF StepOfRows

(* The invariant holds initially.                                          *)
LEMMA InitOrder == GoalInit => OrderInv
  <1> SUFFICES ASSUME GoalInit PROVE OrderInv
    OBVIOUS
  <1>1. \A g \in Goals : run[g] = NoGoalRun BY DEF GoalInit
  <1>2. \A r \in Processes : runner[r].pc = "idle" BY DEF GoalInit, Idle
  <1> QED BY <1>1, <1>2 DEF OrderInv, OrderedRow, OrderedPass, NoGoalRun

(* With one runner and every hazard, the stages of a goal run come in      *)
(* their order, and the only way back is a retry from verify to execute    *)
(* (StagesInOrder): a pass that was cancelled, answered or swept under way *)
(* still moves the run on from the stage it read.                          *)
THEOREM StagesInOrderAlways ==
    ASSUME OneRunner PROVE GoalSpec => StagesInOrder
  <1> DEFINE Inv == DeployInv /\ TasksTyped /\ OrderInv
             Kept == \A g \in Goals :
                        \/ Rank(run'[g].stage) >= Rank(run[g].stage)
                        \/ run[g].stage = "verify" /\ run'[g].stage = "execute" /\ run[g].retries > 0
  <1>1. GoalInit => Inv BY InitDeploy, InitTasks, InitOrder
  <1>2. ASSUME Inv, [GoalNext]_goalVars PROVE Inv' /\ \A g \in Goals : Advances(g)
    <2>1. DeployInv' /\ TasksTyped' BY <1>2, NextDeploy, TasksKeepType
    <2>2. Typed' BY <2>1 DEF DeployInv
    <2>3. StepOfRows BY <1>2, StepIs
    <2> QED BY <1>2, <2>1, <2>2, <2>3, OrderStep
  <1>3. Inv /\ [GoalNext]_goalVars => Inv' BY <1>2
  <1>4. Inv /\ [GoalNext]_goalVars => [Kept]_goalVars BY <1>2 DEF Advances
  <1>5. StagesInOrder <=> [][Kept]_goalVars BY DEF StagesInOrder
  <1> HIDE DEF Inv, Kept
  <1> QED BY <1>1, <1>3, <1>4, <1>5, PTL DEF GoalSpec

-----------------------------------------------------------------------------
(* One execution task at a time, without crashes and surprises.            *)

SoloPass(r) ==
    /\ runner[r].pc # "idle" => run[runner[r].goal].status \in {"running", "cancelled"}
    /\ SeenSolo(r) /\ MovingSolo(r)

(* What the proofs below use of the rest of the invariant.                 *)
SoloFacts ==
    /\ DeployInv /\ OrderInv /\ SoloInv

(* A step that gives no task another run leaves the tasks of every run.    *)
LEMMA TasksStay ==
    ASSUME NEW g \in Goals, \A t \in TaskIds : task'[t].goal = task[t].goal
    PROVE  TasksOf(g)' = TasksOf(g) /\ Count(g)' = Count(g)
  BY DEF TasksOf, Count

(* A step that leaves the tasks alone leaves those of every run.           *)
LEMMA TasksSame ==
    ASSUME task' = task
    PROVE  \A g \in Goals : TasksOf(g)' = TasksOf(g) /\ Count(g)' = Count(g)
  BY DEF TasksOf, Count

(* The number of tasks is a number, none if there are none, and one more   *)
(* with one more.                                                          *)
LEMMA CountIs ==
    ASSUME Peaceful, NEW g \in Goals
    PROVE  Count(g) \in Nat /\ (TasksOf(g) = {} => Count(g) = 0)
  <1>1. IsFiniteSet(TasksOf(g)) BY FS_Subset DEF TasksOf, Peaceful
  <1> QED BY <1>1, FS_CardinalityType, FS_EmptySet DEF Count

(* A new task of the run is one more.                                      *)
LEMMA CountAdds ==
    ASSUME Peaceful, TasksTyped, NEW g \in Goals, NEW t \in TaskIds, t \notin TasksOf(g),
           task' = [task EXCEPT ![t] = [status |-> "queued", goal |-> g]]
    PROVE  TasksOf(g)' = TasksOf(g) \cup {t} /\ Count(g)' = Count(g) + 1
  <1>1. IsFiniteSet(TasksOf(g)) BY FS_Subset DEF TasksOf, Peaceful
  <1>2. TasksOf(g)' = TasksOf(g) \cup {t} BY DEF TasksOf, TasksTyped
  <1>3. Cardinality(TasksOf(g) \cup {t}) = Cardinality(TasksOf(g)) + 1
    BY <1>1, FS_AddElement
  <1> QED BY <1>2, <1>3 DEF Count

(* A row that a step leaves alone.                                         *)
LEMMA RowStays ==
    ASSUME SoloInv, NEW g \in Goals, run'[g] = run[g], wish' = wish,
           TasksOf(g)' = TasksOf(g), Count(g)' = Count(g),
           Attended(g)' \/ ~Attended(g)
    PROVE  TaskOfRow(g)' /\ RowSolo(g)'
  <1>1. TaskOfRow(g) /\ RowSolo(g) BY DEF SoloInv
  <1>2. TaskOfRow(g)' BY <1>1 DEF TaskOfRow
  <1>3. RowSolo(g)' BY <1>1 DEF RowSolo
  <1> QED BY <1>2, <1>3

(* With one runner, the pass that attends to a run is its pass.            *)
LEMMA AttendedBy ==
    ASSUME OneRunner, NEW r \in Processes, NEW g
    PROVE  /\ Attended(g) <=> runner[r].pc # "idle" /\ runner[r].goal = g
           /\ Attended(g)' <=> runner'[r].pc # "idle" /\ runner'[r].goal = g
  BY DEF OneRunner, Attended

(* A pass goes on.                                                         *)
LEMMA PassGoesOn ==
    ASSUME Peaceful, SoloFacts, TasksTyped', wish' = wish, NEW r \in Processes, NEW g \in Goals,
           runner[r].goal = g,
           runner[r].pc # "idle", runner'[r].pc # "idle", runner'[r].goal = g,
           \A h \in Goals \ {g} :
              run'[h] = run[h] /\ TasksOf(h)' = TasksOf(h) /\ Count(h)' = Count(h),
           run'[g].status = run[g].status,
           TaskOfRow(g)', Count(g)' <= run'[g].retries + 1,
           SeenSolo(r)', MovingSolo(r)', \A t \in TaskIds : LiveSolo(t)'
    PROVE  SoloInv'
  <1>1. OneRunner /\ SoloPass(r)
    BY PassFacts DEF Peaceful, SoloFacts, SoloInv, SoloPass
  <1>2. run'[g].status \in {"running", "cancelled"} BY <1>1 DEF SoloPass
  <1>3. Attended(g)' BY <1>1, AttendedBy
  <1>4. RowSolo(g)' BY <1>2, <1>3 DEF RowSolo, Awaiting
  <1>5. ASSUME NEW h \in Goals, h # g PROVE TaskOfRow(h)' /\ RowSolo(h)'
    <2>1. ~Attended(h) BY <1>1, <1>5, AttendedBy
    <2> QED BY <1>5, <2>1, RowStays DEF SoloFacts
  <1>6. \A s \in Processes : s = r BY <1>1 DEF OneRunner
  <1>7. \A h \in Goals : TaskOfRow(h)' /\ RowSolo(h)' BY <1>4, <1>5
  <1> QED BY <1>2, <1>6, <1>7 DEF SoloInv

(* A pass ends.                                                            *)
LEMMA PassEnds ==
    ASSUME Peaceful, SoloFacts, TasksTyped', wish' = wish, NEW r \in Processes, NEW g \in Goals,
           runner[r].goal = g,
           runner[r].pc # "idle", runner'[r].pc = "idle", task' = task,
           \A h \in Goals \ {g} : run'[h] = run[h],
           TaskOfRow(g)', RowSolo(g)', \A t \in TaskIds : LiveSolo(t)'
    PROVE  SoloInv'
  <1>1. OneRunner BY DEF Peaceful
  <1>2. ASSUME NEW h \in Goals, h # g PROVE TaskOfRow(h)' /\ RowSolo(h)'
    <2>1. ~Attended(h) BY <1>1, <1>2, AttendedBy
    <2> QED BY <1>2, <2>1, RowStays, TasksSame DEF SoloFacts
  <1>3. \A s \in Processes : s = r BY <1>1 DEF OneRunner
  <1>4. SeenSolo(r)' /\ MovingSolo(r)' BY DEF SeenSolo, MovingSolo
  <1>5. \A h \in Goals : TaskOfRow(h)' /\ RowSolo(h)' BY <1>2
  <1> QED BY <1>3, <1>4, <1>5 DEF SoloInv

(* What a pass that has read its row knows.                                *)
LEMMA SeenKnows ==
    ASSUME Peaceful, SoloFacts, NEW r \in Processes, runner[r].pc = "seen"
    PROVE  LET p == runner[r]
               g == p.goal
           IN
           /\ g \in Goals /\ TaskOfRow(g) /\ RowSolo(g) /\ SeenSolo(r)
           /\ run[g].status \in {"running", "cancelled"}
           /\ p.row.stage = run[g].stage /\ p.row.ctx = run[g].ctx
           /\ p.row.stage # "execute" => run[g].task = NoExecution
           /\ p.row.task # NoExecution /\ task[p.row.task].status \notin LiveTask =>
                 \A t \in TaskIds : run[g].task = t => task[t].status \notin LiveTask
           /\ p.row.task # NoExecution /\ task[p.row.task].status \in LiveTask =>
                 run[g].task = p.row.task
  <1> DEFINE p == runner[r]
             g == p.goal
  <1>1. g \in Goals BY PassFacts DEF SoloFacts
  <1>2. TaskOfRow(g) /\ RowSolo(g) /\ SeenSolo(r) /\ run[g].status \in {"running", "cancelled"}
    BY <1>1 DEF SoloFacts, SoloInv
  <1>3. p.row.stage = run[g].stage BY DEF SoloFacts, OrderInv, OrderedPass
  <1>4. p.row.ctx = run[g].ctx BY <1>2 DEF SeenSolo
  <1>5. p.row.stage # "execute" => run[g].task = NoExecution BY <1>2, <1>3 DEF TaskOfRow
  <1>6. run[g].task \in {p.row.task, NoExecution}
        /\ (run[g].task # p.row.task => task[p.row.task].status \in Ended)
    BY <1>2 DEF SeenSolo
  <1>7. \A s \in Ended : s \notin LiveTask BY DEF Ended, LiveTask
  <1> QED BY <1>1, <1>2, <1>3, <1>4, <1>5, <1>6, <1>7, GoalNullAssumption

(* While a pass reads, a live task is the one of its row.                  *)
LEMMA LiveThen ==
    ASSUME Peaceful, SoloFacts, NEW t \in TaskIds,
           \A r \in Processes : ~(runner[r].pc = "moving" /\ runner[r].move = "adopt")
    PROVE  /\ task[t].status = "absent" <=> task[t].goal = NoGoal
           /\ task[t].status \in LiveTask => run[task[t].goal].task = t
  BY DEF SoloFacts, SoloInv, LiveSolo

(* A task that is there belongs to a run.                                  *)
LEMMA LiveHasGoal ==
    ASSUME SoloFacts, NEW t \in TaskIds, task[t].status # "absent"
    PROVE  task[t].goal \in Goals
  BY DEF SoloFacts, SoloInv, TasksTyped, LiveSolo

-----------------------------------------------------------------------------
(* The steps, one by one.                                                  *)

(* While the runner is idle, a running row has a task, and no task is      *)
(* about to be adopted.                                                    *)
LEMMA IdleKnows ==
    ASSUME Peaceful, SoloFacts, NEW r \in Processes, runner[r].pc = "idle"
    PROVE  /\ \A s \in Processes : s = r
           /\ \A g \in Goals : ~Attended(g) /\ TaskOfRow(g) /\ RowSolo(g)
           /\ \A t \in TaskIds :
                 /\ task[t].status = "absent" <=> task[t].goal = NoGoal
                 /\ task[t].status \in LiveTask => run[task[t].goal].task = t
  <1>1. \A s \in Processes : s = r BY DEF Peaceful, OneRunner
  <1>2. \A g \in Goals : ~Attended(g) BY <1>1 DEF Attended
  <1>3. \A g \in Goals : TaskOfRow(g) /\ RowSolo(g) BY DEF SoloFacts, SoloInv
  <1>4. \A s \in Processes : ~(runner[s].pc = "moving" /\ runner[s].move = "adopt") BY <1>1
  <1> QED BY <1>1, <1>2, <1>3, <1>4, LiveThen

(* A run is fetched.                                                       *)
LEMMA SoloFetch ==
    ASSUME Peaceful, SoloFacts, TasksTyped', wish' = wish, NEW r \in Processes, NEW g \in Goals,
           Claims(r, g) \/ Polls(r, g)
    PROVE  SoloInv'
  <1>1. runner[r].pc = "idle" /\ task' = task BY DEF Claims, Polls
  <1>2. /\ \A s \in Processes : s = r
        /\ \A h \in Goals : ~Attended(h) /\ TaskOfRow(h) /\ RowSolo(h)
        /\ \A t \in TaskIds : /\ task[t].status = "absent" <=> task[t].goal = NoGoal
                              /\ task[t].status \in LiveTask => run[task[t].goal].task = t
    BY <1>1, IdleKnows
  <1>3. \A h \in Goals : TasksOf(h)' = TasksOf(h) /\ Count(h)' = Count(h)
    BY <1>1, TasksSame
  <1>4. /\ runner'[r].pc = "seen" /\ runner'[r].goal = g /\ runner'[r].row = run'[g]
        /\ run'[g].status = "running" /\ run'[g].stage = run[g].stage /\ run'[g].task = run[g].task
        /\ run'[g].retries = run[g].retries /\ run'[g].ctx = run[g].ctx
        /\ \A h \in Goals \ {g} : run'[h] = run[h]
    BY DEF Claims, Polls, Keeps, Sets, Reads
  <1>5. run[g].status = "queued" \/ (run[g].status = "running" /\ run[g].task # NoExecution)
    BY <1>2 DEF Claims, Polls, RowSolo
  <1>6. Attended(g)' BY <1>4 DEF Attended
  <1>7. ASSUME NEW h \in Goals, h # g PROVE TaskOfRow(h)' /\ RowSolo(h)'
    BY <1>2, <1>3, <1>4, <1>7, RowStays DEF SoloFacts
  <1>8. TaskOfRow(g)' BY <1>2, <1>3, <1>4 DEF TaskOfRow
  <1>9. RowSolo(g)' BY <1>2, <1>3, <1>4, <1>6 DEF RowSolo, Awaiting
  <1>10. SeenSolo(r)'
    <2>1. run[g].stage = "execute" /\ run[g].task = NoExecution => Count(g) <= run[g].retries
      BY <1>2, <1>5 DEF RowSolo
    <2>2. run[g].task # NoExecution => run[g].stage = "execute" BY <1>2 DEF TaskOfRow
    <2> QED BY <1>3, <1>4, <2>1, <2>2 DEF SeenSolo
  <1>11. MovingSolo(r)' BY <1>4 DEF MovingSolo
  <1>12. \A t \in TaskIds : LiveSolo(t)'
    <2> SUFFICES ASSUME NEW t \in TaskIds PROVE LiveSolo(t)'
      OBVIOUS
    <2>1. task[t].status \in LiveTask => task[t].goal \in Goals
      BY LiveHasGoal DEF LiveTask
    <2> QED BY <1>1, <1>2, <1>4, <2>1 DEF LiveSolo
  <1>13. \A h \in Goals : TaskOfRow(h)' /\ RowSolo(h)' BY <1>7, <1>8, <1>9
  <1> QED BY <1>2, <1>4, <1>10, <1>11, <1>12, <1>13 DEF SoloInv

(* The live tasks keep their holder when the row of the pass keeps its     *)
(* task and no other row changes.                                          *)
LEMMA LiveStays ==
    ASSUME Peaceful, SoloFacts, NEW r \in Processes, NEW g \in Goals, task' = task,
           ~(runner[r].pc = "moving" /\ runner[r].move = "adopt"),
           \A h \in Goals \ {g} : run'[h] = run[h],
           run'[g].task = run[g].task \/ \A t \in TaskIds : run[g].task = t => task[t].status \notin LiveTask
    PROVE  \A t \in TaskIds : LiveSolo(t)'
  <1> SUFFICES ASSUME NEW t \in TaskIds PROVE LiveSolo(t)'
    OBVIOUS
  <1>1. \A s \in Processes : s = r BY DEF Peaceful, OneRunner
  <1>2. /\ task[t].status = "absent" <=> task[t].goal = NoGoal
        /\ task[t].status \in LiveTask => run[task[t].goal].task = t
    BY <1>1, LiveThen
  <1>3. task[t].status \in LiveTask => task[t].goal \in Goals
    BY LiveHasGoal DEF LiveTask
  <1> QED BY <1>2, <1>3 DEF LiveSolo

(* A task is created: the run had none, and an attempt left.               *)
LEMMA SoloAdopt ==
    ASSUME Peaceful, SoloFacts, TasksTyped', wish' = wish, NEW r \in Processes, NEW t \in TaskIds,
           Adopts(r, t)
    PROVE  SoloInv'
  <1> DEFINE p == runner[r]
  <1>0. PICK g \in Goals : g = p.goal
    BY PassFacts DEF SoloFacts, Adopts
  <1>1. /\ p.pc = "seen" /\ p.row.stage = "execute" /\ p.row.task = NoExecution
        /\ task[t].status = "absent" /\ run' = run
        /\ task' = [task EXCEPT ![t] = [status |-> "queued", goal |-> g]]
        /\ Turns(r, "adopt", "execute", t)
    BY <1>0 DEF Adopts
  <1>2. /\ g \in Goals /\ TaskOfRow(g) /\ RowSolo(g) /\ SeenSolo(r)
        /\ p.row.stage = run[g].stage
    BY <1>0, <1>1, SeenKnows
  <1>3. run[g].task = NoExecution /\ Count(g) <= run[g].retries /\ run[g].stage = "execute"
    BY <1>0, <1>1, <1>2 DEF SeenSolo
  <1>4. TasksTyped /\ task[t].goal = NoGoal
    BY <1>1 DEF SoloFacts, SoloInv, LiveSolo
  <1>5. \A h \in Goals : t \notin TasksOf(h) BY <1>4, GoalNullAssumption DEF TasksOf
  <1>6. TasksOf(g)' = TasksOf(g) \cup {t} /\ Count(g)' = Count(g) + 1
    BY <1>1, <1>2, <1>4, <1>5, CountAdds
  <1>7. \A h \in Goals \ {g} : TasksOf(h)' = TasksOf(h)
    BY <1>1, <1>4, <1>5 DEF TasksOf, TasksTyped
  <1>8. \A h \in Goals \ {g} : Count(h)' = Count(h) BY <1>7 DEF Count
  <1>9. TaskOfRow(g)' BY <1>1, <1>3 DEF TaskOfRow
  <1>10. Count(g)' <= run'[g].retries + 1
    <2>1. run[g].retries \in Nat /\ Count(g) \in Nat
      BY <1>2, CountIs, RanksOfRows DEF SoloFacts, DeployInv
    <2> QED BY <1>1, <1>3, <1>6, <2>1
  <1>11. /\ runner'[r].pc = "moving" /\ runner'[r].goal = g /\ runner'[r].move = "adopt"
         /\ runner'[r].stage = "execute" /\ runner'[r].task = t
    BY <1>0, <1>1 DEF Turns
  <1>12. SeenSolo(r)' /\ MovingSolo(r)'
    BY <1>1, <1>3, <1>6, <1>11 DEF SeenSolo, MovingSolo
  <1>13. ASSUME NEW u \in TaskIds PROVE LiveSolo(u)'
    <2>1. CASE u = t
      <3>1. task'[t].status = "queued" /\ task'[t].goal = g BY <1>1, <1>4 DEF TasksTyped
      <3>2. g # NoGoal BY <1>2, GoalNullAssumption
      <3> QED BY <1>11, <2>1, <3>1, <3>2 DEF LiveSolo
    <2>2. CASE u # t
      <3>1. task'[u] = task[u] BY <1>1, <1>4, <2>2 DEF TasksTyped
      <3>2. \A s \in Processes : s = r BY DEF Peaceful, OneRunner
      <3>3. /\ task[u].status = "absent" <=> task[u].goal = NoGoal
            /\ task[u].status \in LiveTask => run[task[u].goal].task = u
        BY <1>1, <3>2, LiveThen
      <3> QED BY <1>1, <3>1, <3>3 DEF LiveSolo
    <2> QED BY <2>1, <2>2
  <1>14. /\ runner[r].pc # "idle" /\ runner'[r].pc # "idle"
         /\ \A h \in Goals \ {g} : run'[h] = run[h] /\ TasksOf(h)' = TasksOf(h) /\ Count(h)' = Count(h)
         /\ run'[g].status = run[g].status
    BY <1>1, <1>7, <1>8, <1>11
  <1> QED BY <1>2, <1>9, <1>10, <1>11, <1>12, <1>13, <1>14, <1>0, PassGoesOn

(* A pass that turns to a move without adopting.                           *)
LEMMA SoloTurn ==
    ASSUME Peaceful, SoloFacts, TasksTyped', wish' = wish, task' = task,
           NEW r \in Processes, NEW g \in Goals, runner[r].goal = g, runner[r].pc = "seen",
           NEW move \in Moves \ {"none", "adopt"}, NEW stage, Turns(r, move, stage, NoExecution),
           \A h \in Goals \ {g} : run'[h] = run[h],
           run'[g].status = run[g].status, run'[g].stage = run[g].stage, run'[g].ctx = run[g].ctx,
           run'[g].retries \in {run[g].retries, run[g].retries + 1},
           run'[g].task \in {run[g].task, NoExecution},
           run'[g].task = run[g].task \/ \A t \in TaskIds : run[g].task = t => task[t].status \notin LiveTask,
           move # "fail" => run'[g].task = NoExecution,
           move = "ask" => stage \in {"discover", "deploy"} /\ ~(wish[g].inputs \subseteq run[g].ctx),
           move = "authorize" => stage = "deploy" /\ "authorized" \notin run[g].ctx,
           move = "queue" => /\ stage = "execute" => Count(g) <= run'[g].retries
                             /\ stage \in {"discover", "plan"} => TasksOf(g) = {}
    PROVE  SoloInv'
  <1>1. TaskOfRow(g) /\ RowSolo(g) BY SeenKnows DEF SoloFacts
  <1>2. TasksOf(g)' = TasksOf(g) /\ Count(g)' = Count(g)
        /\ \A h \in Goals : TasksOf(h)' = TasksOf(h) /\ Count(h)' = Count(h)
    BY TasksSame
  <1>3. TaskOfRow(g)' BY <1>1, <1>2 DEF TaskOfRow
  <1>4. Count(g)' <= run'[g].retries + 1
    <2>1. run[g].retries \in Nat /\ Count(g) \in Nat
      BY CountIs, RanksOfRows DEF SoloFacts, DeployInv
    <2>2. Count(g) <= run[g].retries + 1 BY <1>1 DEF RowSolo
    <2> QED BY <1>2, <2>1, <2>2
  <1>5. /\ runner'[r].pc = "moving" /\ runner'[r].goal = g /\ runner'[r].move = move
        /\ runner'[r].stage = stage
    BY DEF Turns
  <1>6. SeenSolo(r)' BY <1>5 DEF SeenSolo
  <1>7. MovingSolo(r)' BY <1>2, <1>5 DEF MovingSolo
  <1>8. \A t \in TaskIds : LiveSolo(t)' BY LiveStays
  <1>9. runner[r].pc # "idle" /\ runner'[r].pc # "idle" BY <1>5
  <1> QED BY <1>2, <1>3, <1>4, <1>5, <1>6, <1>7, <1>8, <1>9, PassGoesOn

(* A decision without a write, and the plan.                               *)
LEMMA SoloChoose ==
    ASSUME Peaceful, SoloFacts, TasksTyped', wish' = wish, NEW r \in Processes, Chooses(r) \/ Plans(r)
    PROVE  SoloInv'
  <1> DEFINE p == runner[r]
             g == p.goal
  <1>1. p.pc = "seen" /\ run' = run /\ task' = task BY DEF Chooses, Plans
  <1>2. /\ g \in Goals /\ TaskOfRow(g) /\ RowSolo(g)
        /\ p.row.stage = run[g].stage /\ p.row.ctx = run[g].ctx
        /\ p.row.stage # "execute" => run[g].task = NoExecution
    BY <1>1, SeenKnows
  <1>3. run[g].retries \in Nat /\ Count(g) \in Nat /\ (TasksOf(g) = {} => Count(g) = 0)
    BY <1>2, CountIs, RanksOfRows DEF SoloFacts, DeployInv
  <1>4. CASE Plans(r)
    <2>1. run[g].stage = "plan" /\ Turns(r, "queue", "execute", NoExecution) BY <1>2, <1>4 DEF Plans
    <2>2. TasksOf(g) = {} /\ run[g].task = NoExecution BY <1>2, <2>1 DEF TaskOfRow
    <2>3. Count(g) <= run[g].retries BY <1>3, <2>2
    <2>4. "queue" \in Moves \ {"none", "adopt"} BY DEF Moves
    <2> QED BY <1>1, <1>2, <2>1, <2>2, <2>3, <2>4, SoloTurn
  <1>5. CASE Chooses(r)
    <2>1. PICK move \in Moves,
          stage \in StageNames : Chosen(r, move, stage) /\ Turns(r, move, stage, NoExecution)
      BY <1>5 DEF Chooses
    <2>2. move \in Moves \ {"none", "adopt"} BY <2>1 DEF Chosen
    <2>3. move # "fail" => run[g].task = NoExecution BY <1>2, <2>1 DEF Chosen
    <2>4. move = "ask" => stage \in {"discover", "deploy"} /\ ~(wish[g].inputs \subseteq run[g].ctx)
      BY <1>2, <2>1 DEF Chosen
    <2>5. move = "authorize" => stage = "deploy" /\ "authorized" \notin run[g].ctx BY <1>2, <2>1 DEF Chosen
    <2>6. move = "queue" => /\ stage = "execute" => Count(g) <= run[g].retries
                            /\ stage \in {"discover", "plan"} => TasksOf(g) = {}
      BY <1>2, <2>1 DEF Chosen, TaskOfRow
    <2> QED BY <1>1, <1>2, <2>1, <2>2, <2>3, <2>4, <2>5, <2>6, SoloTurn
  <1> QED BY <1>4, <1>5

(* The task of the run is over: it is taken out of the row, and a retry is *)
(* counted before the next one can be created.                             *)
LEMMA SoloCollect ==
    ASSUME Peaceful, SoloFacts, TasksTyped', wish' = wish, NEW r \in Processes, Collects(r) \/ Retries(r)
    PROVE  SoloInv'
  <1> DEFINE p == runner[r]
             g == p.goal
  <1>1. p.pc = "seen" /\ task' = task BY DEF Collects, Retries, Holds, Writes
  <1>2. /\ g \in Goals /\ TaskOfRow(g) /\ RowSolo(g)
        /\ p.row.stage = run[g].stage
        /\ p.row.stage # "execute" => run[g].task = NoExecution
        /\ p.row.task # NoExecution /\ task[p.row.task].status \notin LiveTask =>
              \A t \in TaskIds : run[g].task = t => task[t].status \notin LiveTask
    BY <1>1, SeenKnows
  <1>3. run[g].retries \in Nat /\ Count(g) \in Nat /\ Count(g) <= run[g].retries + 1
    BY <1>2, CountIs, RanksOfRows DEF SoloFacts, DeployInv, RowSolo
  <1>4. \A t \in TaskIds : run[g].task = t => task[t].status \notin LiveTask
    <2>1. CASE Holds(r, {"completed"}) \/ Holds(r, {"failed", "cancelled"})
      BY <1>2, <2>1 DEF Holds, LiveTask
    <2>2. CASE p.row.stage = "verify" BY <1>2, <2>2, GoalNullAssumption
    <2> QED BY <2>1, <2>2 DEF Collects, Retries
  <1>5. \E n \in {run[g].retries, run[g].retries + 1}, stage \in {"verify", "execute"} :
           /\ Keeps(g, run[g].status, NoExecution, n) /\ Turns(r, "queue", stage, NoExecution)
           /\ stage = "execute" => n = run[g].retries + 1
    BY DEF Collects, Retries, Writes
  <1>6. PICK n \in {run[g].retries, run[g].retries + 1}, stage \in {"verify", "execute"} :
           /\ Keeps(g, run[g].status, NoExecution, n) /\ Turns(r, "queue", stage, NoExecution)
           /\ stage = "execute" => n = run[g].retries + 1
    BY <1>5
  <1>7. /\ run'[g].status = run[g].status /\ run'[g].stage = run[g].stage /\ run'[g].ctx = run[g].ctx
        /\ run'[g].retries = n /\ run'[g].task = NoExecution
        /\ \A h \in Goals \ {g} : run'[h] = run[h]
    BY <1>6 DEF Keeps, Sets
  <1>8. stage = "execute" => Count(g) <= run'[g].retries BY <1>3, <1>6, <1>7
  <1>9. "queue" \in Moves \ {"none", "adopt"} BY DEF Moves
  <1> QED BY <1>1, <1>2, <1>4, <1>6, <1>7, <1>8, <1>9, SoloTurn

(* The task of the run is not over.                                        *)
LEMMA SoloWatch ==
    ASSUME Peaceful, SoloFacts, TasksTyped', wish' = wish, NEW r \in Processes, Watches(r)
    PROVE  SoloInv'
  <1> DEFINE p == runner[r]
  <1>0. PICK g \in Goals : g = p.goal
    BY PassFacts DEF SoloFacts, Watches, Holds
  <1>1. /\ p.pc = "seen" /\ run' = run /\ task' = task /\ runner'[r].pc = "idle"
        /\ p.row.task # NoExecution /\ task[p.row.task].status \in LiveTask
    BY DEF Watches, Holds, Rests
  <1>2. /\ g \in Goals /\ TaskOfRow(g) /\ RowSolo(g)
        /\ run[g].status \in {"running", "cancelled"} /\ run[g].task # NoExecution
    BY <1>0, <1>1, SeenKnows
  <1>3. TasksOf(g)' = TasksOf(g) /\ Count(g)' = Count(g) BY <1>1, <1>2, TasksSame
  <1>4. TaskOfRow(g)' BY <1>1, <1>2, <1>3 DEF TaskOfRow
  <1>5. RowSolo(g)' BY <1>1, <1>2, <1>3 DEF RowSolo, Awaiting
  <1>6. \A t \in TaskIds : LiveSolo(t)' BY <1>1, <1>2, LiveStays
  <1> QED BY <1>1, <1>2, <1>4, <1>5, <1>6, <1>0, PassEnds

(* The pass moves the run on, whatever has become of it.                   *)
LEMMA SoloFinish ==
    ASSUME Peaceful, SoloFacts, TasksTyped', wish' = wish, NEW r \in Processes, Finishes(r)
    PROVE  SoloInv'
  <1> DEFINE p == runner[r]
  <1>0. PICK g \in Goals : g = p.goal
    BY PassFacts DEF SoloFacts, Finishes
  <1>1. p.pc = "moving" /\ runner'[r].pc = "idle" /\ task' = task
    BY DEF Finishes, Rests
  <1>2. /\ TaskOfRow(g) /\ RowSolo(g) /\ run[g].status \in {"running", "cancelled"}
        /\ p.move # "fail" => run[g].task = NoExecution
        /\ p.move = "adopt" => p.task \in TasksOf(g) /\ run[g].stage = "execute"
        /\ p.move = "ask" => p.stage \in {"discover", "deploy"} /\ ~(wish[g].inputs \subseteq run[g].ctx)
        /\ p.move = "authorize" => p.stage = "deploy" /\ "authorized" \notin run[g].ctx
        /\ p.move = "queue" =>
              /\ p.stage = "execute" => Count(g) <= run[g].retries
              /\ p.stage \in {"discover", "plan"} => TasksOf(g) = {}
    BY <1>0, <1>1 DEF SoloFacts, SoloInv, MovingSolo
  <1>3. TasksOf(g)' = TasksOf(g) /\ Count(g)' = Count(g) BY <1>1, TasksSame
  <1>4. \A h \in Goals \ {g} : run'[h] = run[h] BY <1>0 DEF Finishes, Sets, Keeps
  <1>5. Count(g) <= run[g].retries + 1 BY <1>2 DEF RowSolo
  <1>6. \A s \in Processes : s = r BY DEF Peaceful, OneRunner
  <1>7. ASSUME TaskOfRow(g)', RowSolo(g)', \A t \in TaskIds : LiveSolo(t)' PROVE SoloInv'
    BY <1>0, <1>1, <1>4, <1>7, PassEnds
  <1>8. run[g].task \notin TaskIds => \A t \in TaskIds : run[g].task = t => task[t].status \notin LiveTask
    OBVIOUS
  <1>9. CASE p.move = "queue"
    <2>1. /\ run'[g].status = "queued" /\ run'[g].stage = p.stage /\ run'[g].task = run[g].task
          /\ run'[g].retries = run[g].retries /\ run'[g].ctx = run[g].ctx
      BY <1>0, <1>9 DEF Finishes, Sets
    <2>2. TaskOfRow(g)' BY <1>2, <1>3, <1>9, <2>1 DEF TaskOfRow
    <2>3. RowSolo(g)' BY <1>2, <1>3, <1>5, <1>9, <2>1 DEF RowSolo, Awaiting
    <2>4. \A t \in TaskIds : LiveSolo(t)' BY <1>1, <1>4, <1>9, <2>1, LiveStays
    <2> QED BY <1>7, <2>2, <2>3, <2>4
  <1>10. CASE p.move = "ask"
    <2>1. /\ run'[g].status = "awaiting_input" /\ run'[g].stage = p.stage /\ run'[g].task = run[g].task
          /\ run'[g].retries = run[g].retries /\ run'[g].ctx = run[g].ctx
      BY <1>0, <1>10 DEF Finishes, Sets
    <2>2. p.stage = "discover" => run[g].stage = "discover"
      <3>1. Follows(run[g].stage, p.stage, run[g].retries)
        BY <1>0, <1>1, <1>10 DEF SoloFacts, OrderInv, OrderedPass
      <3>2. run[g].stage \in StageNames BY RanksOfRows DEF SoloFacts, DeployInv
      <3> QED BY <3>1, <3>2, Ranks DEF Follows, StageNames
    <2>3. TaskOfRow(g)' BY <1>2, <1>3, <1>10, <2>1, <2>2 DEF TaskOfRow
    <2>4. RowSolo(g)' BY <1>2, <1>3, <1>5, <1>10, <2>1 DEF RowSolo, Awaiting
    <2>5. \A t \in TaskIds : LiveSolo(t)' BY <1>1, <1>4, <1>10, <2>1, LiveStays
    <2> QED BY <1>7, <2>3, <2>4, <2>5
  <1>11. CASE p.move = "authorize" \/ p.move = "complete"
    <2>1. /\ run'[g].status \in {"awaiting_authorization", "completed"}
          /\ run'[g].stage \in {"deploy", "accept"} /\ run'[g].task = run[g].task
          /\ run'[g].status = "awaiting_authorization" =>
                run'[g].stage = "deploy" /\ "authorized" \notin run[g].ctx
          /\ run'[g].retries = run[g].retries /\ run'[g].ctx = run[g].ctx
      BY <1>0, <1>2, <1>11 DEF Finishes, Sets
    <2>2. TaskOfRow(g)' BY <1>2, <1>3, <1>11, <2>1 DEF TaskOfRow
    <2>3. RowSolo(g)' BY <1>2, <1>3, <1>5, <1>11, <2>1 DEF RowSolo, Awaiting
    <2>4. \A t \in TaskIds : LiveSolo(t)' BY <1>1, <1>4, <1>11, <2>1, LiveStays
    <2> QED BY <1>7, <2>2, <2>3, <2>4
  <1>12. CASE p.move = "fail"
    <2>1. /\ run'[g].status = "failed" /\ run'[g].stage = run[g].stage /\ run'[g].task = run[g].task
          /\ run'[g].retries = run[g].retries /\ run'[g].ctx = run[g].ctx
      BY <1>0, <1>12 DEF Finishes, Sets, Keeps
    <2>2. TaskOfRow(g)' BY <1>2, <1>3, <2>1 DEF TaskOfRow
    <2>3. RowSolo(g)' BY <1>3, <1>5, <2>1 DEF RowSolo, Awaiting
    <2>4. \A t \in TaskIds : LiveSolo(t)' BY <1>1, <1>4, <1>12, <2>1, LiveStays
    <2> QED BY <1>7, <2>2, <2>3, <2>4
  <1>13. CASE p.move = "adopt"
    <2>1. /\ run'[g].status = run[g].status /\ run'[g].stage = run[g].stage /\ run'[g].task = p.task
          /\ run'[g].retries = run[g].retries /\ run'[g].ctx = run[g].ctx
      BY <1>0, <1>13 DEF Finishes, Sets, Keeps
    <2>2. TaskOfRow(g)' BY <1>2, <1>3, <1>13, <2>1 DEF TaskOfRow
    <2>3. p.task # NoExecution BY <1>2, <1>13, GoalNullAssumption DEF TasksOf
    <2>4. RowSolo(g)' BY <1>2, <1>3, <1>5, <2>1, <2>3 DEF RowSolo, Awaiting
    <2>5. ASSUME NEW t \in TaskIds PROVE LiveSolo(t)'
      <3>1. /\ task[t].status = "absent" <=> task[t].goal = NoGoal
            /\ task[t].status \in LiveTask =>
                  \/ run[task[t].goal].task = t
                  \/ p.goal = task[t].goal /\ p.task = t
        BY <1>6 DEF SoloFacts, SoloInv, LiveSolo
      <3>2. task[t].status \in LiveTask => task[t].goal \in Goals
        BY LiveHasGoal DEF LiveTask
      <3>3. run[g].task # t BY <1>2, <1>13, GoalNullAssumption
      <3> QED BY <1>0, <1>1, <1>4, <2>1, <3>1, <3>2, <3>3 DEF LiveSolo
    <2> QED BY <1>7, <2>2, <2>4, <2>5
  <1> QED BY <1>9, <1>10, <1>11, <1>12, <1>13 DEF Finishes

(* Steps that leave the passes alone: what they read stays as they know    *)
(* it.                                                                     *)
LEMMA PassesStay ==
    ASSUME SoloFacts, runner' = runner, wish' = wish,
           \A g \in Goals : TasksOf(g)' = TasksOf(g) /\ Count(g)' = Count(g),
           \A t \in TaskIds : task[t].status \in Ended => task'[t].status \in Ended,
           NEW r \in Processes, NEW g \in Goals, runner[r].goal = g,
           run'[g].stage = run[g].stage, run'[g].ctx = run[g].ctx, run'[g].retries = run[g].retries,
           \/ run'[g].task = run[g].task
           \/ run'[g].task = NoExecution /\ (run[g].task # NoExecution => task'[run[g].task].status \in Ended)
    PROVE  SeenSolo(r)' /\ MovingSolo(r)'
  <1> DEFINE p == runner[r]
  <1>1. SeenSolo(r) /\ MovingSolo(r) /\ TaskOfRow(g) BY DEF SoloFacts, SoloInv
  <1>2. MovingSolo(r)' BY <1>1 DEF MovingSolo
  <1>3. ASSUME p.pc = "seen" PROVE SeenSolo(r)'
    <2>1. /\ p.row.ctx = run[g].ctx
          /\ run[g].task \in {p.row.task, NoExecution}
          /\ run[g].task # p.row.task => p.row.task \in TasksOf(g) /\ task[p.row.task].status \in Ended
          /\ p.row.stage = "execute" /\ p.row.task = NoExecution => Count(g) <= run[g].retries
          /\ p.row.task # NoExecution => p.row.stage = "execute"
      BY <1>1, <1>3 DEF SeenSolo
    <2>2. run'[g].task # p.row.task =>
            p.row.task \in TasksOf(g) /\ task'[p.row.task].status \in Ended
      <3>1. CASE run[g].task # p.row.task BY <2>1, <3>1 DEF TasksOf
      <3>2. CASE run[g].task = p.row.task /\ run'[g].task # p.row.task
        BY <1>1, <3>2 DEF TaskOfRow
      <3> QED BY <3>1, <3>2
    <2> QED BY <2>1, <2>2 DEF SeenSolo
  <1> QED BY <1>2, <1>3 DEF SeenSolo

(* A run is cancelled, perhaps under a pass.                               *)
LEMMA SoloCancel ==
    ASSUME Peaceful, SoloFacts, TasksTyped', wish' = wish, NEW g \in Goals, Cancels(g)
    PROVE  SoloInv'
  <1>1. /\ runner' = runner
        /\ run'[g].status = "cancelled" /\ run'[g].stage = run[g].stage /\ run'[g].task = NoExecution
        /\ run'[g].retries = run[g].retries /\ run'[g].ctx = run[g].ctx
        /\ \A h \in Goals \ {g} : run'[h] = run[h]
    BY DEF Cancels, Keeps, Sets
  <1>2. \A t \in TaskIds :
          /\ task'[t].goal = task[t].goal
          /\ task'[t].status = IF t \in TasksOf(g) /\ task[t].status \in LiveTask
                               THEN "cancelled" ELSE task[t].status
    BY DEF Cancels
  <1>3. \A h \in Goals : TasksOf(h)' = TasksOf(h) /\ Count(h)' = Count(h)
    BY <1>2, TasksStay
  <1>4. \A h \in Goals : TaskOfRow(h) /\ RowSolo(h) BY DEF SoloFacts, SoloInv
  <1>5. \A t \in TaskIds : task[t].status \in Ended => task'[t].status \in Ended
    BY <1>2 DEF Ended, LiveTask
  <1>6. \A t \in TasksOf(g) : task'[t].status \in Ended
    <2> SUFFICES ASSUME NEW t \in TasksOf(g) PROVE task'[t].status \in Ended
      OBVIOUS
    <2>1. t \in TaskIds /\ task[t].goal = g BY DEF TasksOf
    <2>2. task[t].status # "absent" BY <2>1, GoalNullAssumption DEF SoloFacts, SoloInv, LiveSolo
    <2>3. task[t].status \in LiveTask \cup Ended BY <2>1, <2>2 DEF SoloFacts, SoloInv, TasksTyped
    <2>4. "cancelled" \in Ended BY DEF Ended
    <2> QED BY <1>2, <2>1, <2>3, <2>4
  <1>7. ASSUME NEW h \in Goals PROVE TaskOfRow(h)' /\ RowSolo(h)'
    <2>1. CASE h = g
      <3>1. TaskOfRow(g)' BY <1>1, <1>3, <1>4 DEF TaskOfRow
      <3>2. RowSolo(g)' BY <1>1, <1>3, <1>4 DEF RowSolo, Awaiting
      <3> QED BY <2>1, <3>1, <3>2
    <2>2. CASE h # g
      <3>1. Attended(h)' <=> Attended(h) BY <1>1 DEF Attended
      <3> QED BY <1>1, <1>3, <2>2, <3>1, RowStays DEF SoloFacts
    <2> QED BY <2>1, <2>2
  <1>8. ASSUME NEW r \in Processes
        PROVE  /\ runner'[r].pc # "idle" => run'[runner'[r].goal].status \in {"running", "cancelled"}
               /\ SeenSolo(r)' /\ MovingSolo(r)'
    <2>1. CASE runner[r].pc = "idle" BY <1>1, <2>1 DEF SeenSolo, MovingSolo
    <2>2. CASE runner[r].pc # "idle"
      <3>1. PICK h \in Goals : runner[r].goal = h BY <2>2, PassFacts DEF SoloFacts
      <3>2. run[h].status \in {"running", "cancelled"} BY <2>2, <3>1 DEF SoloFacts, SoloInv
      <3>3. /\ run'[h].stage = run[h].stage /\ run'[h].ctx = run[h].ctx /\ run'[h].retries = run[h].retries
            /\ \/ run'[h].task = run[h].task
               \/ run'[h].task = NoExecution /\ (run[h].task # NoExecution => task'[run[h].task].status \in Ended)
        BY <1>1, <1>4, <1>6 DEF TaskOfRow
      <3>4. SeenSolo(r)' /\ MovingSolo(r)' BY <1>1, <1>3, <1>5, <3>1, <3>3, PassesStay
      <3> QED BY <1>1, <3>1, <3>2, <3>4
    <2> QED BY <2>1, <2>2
  <1>9. ASSUME NEW t \in TaskIds PROVE LiveSolo(t)'
    <2>1. LiveSolo(t) BY DEF SoloFacts, SoloInv
    <2>2. task'[t].status = "absent" <=> task[t].status = "absent"
      BY <1>2 DEF LiveTask
    <2>3. task'[t].status \in LiveTask =>
            task[t].status \in LiveTask /\ task[t].goal \in Goals \ {g}
      <3>1. "cancelled" \notin LiveTask BY DEF LiveTask
      <3>2. task[t].status \in LiveTask => task[t].goal \in Goals
        BY LiveHasGoal DEF LiveTask
      <3> QED BY <1>2, <3>1, <3>2 DEF TasksOf
    <2> QED BY <1>1, <1>2, <2>1, <2>2, <2>3 DEF LiveSolo
  <1> QED BY <1>7, <1>8, <1>9 DEF SoloInv

(* A step that writes the row of a run nobody attends to.                  *)
LEMMA SoloWrite ==
    ASSUME Peaceful, SoloFacts, TasksTyped', wish' = wish, NEW g \in Goals,
           runner' = runner, task' = task, ~Attended(g),
           \A h \in Goals \ {g} : run'[h] = run[h],
           run[g].task = NoExecution, run'[g].task = NoExecution,
           TaskOfRow(g)', RowSolo(g)'
    PROVE  SoloInv'
  <1>1. \A h \in Goals : TasksOf(h)' = TasksOf(h) /\ Count(h)' = Count(h)
    BY TasksSame
  <1>2. ASSUME NEW h \in Goals, h # g PROVE TaskOfRow(h)' /\ RowSolo(h)'
    <2>1. Attended(h)' <=> Attended(h) BY DEF Attended
    <2> QED BY <1>1, <1>2, <2>1, RowStays DEF SoloFacts
  <1>3. ASSUME NEW r \in Processes
        PROVE  /\ runner'[r].pc # "idle" => run'[runner'[r].goal].status \in {"running", "cancelled"}
               /\ SeenSolo(r)' /\ MovingSolo(r)'
    <2>1. CASE runner[r].pc = "idle" BY <2>1 DEF SeenSolo, MovingSolo
    <2>2. CASE runner[r].pc # "idle"
      <3>1. PICK h \in Goals : runner[r].goal = h BY <2>2, PassFacts DEF SoloFacts
      <3>2. run[h].status \in {"running", "cancelled"} BY <2>2, <3>1 DEF SoloFacts, SoloInv
      <3>3. h # g BY <2>2, <3>1 DEF Attended
      <3>4. run'[h] = run[h] BY <3>3
      <3>5. SeenSolo(r)' /\ MovingSolo(r)' BY <1>1, <3>1, <3>4, PassesStay
      <3> QED BY <3>1, <3>2, <3>4, <3>5
    <2> QED BY <2>1, <2>2
  <1>4. ASSUME NEW t \in TaskIds PROVE LiveSolo(t)'
    <2>1. LiveSolo(t) BY DEF SoloFacts, SoloInv
    <2>2. task[t].status \in LiveTask => task[t].goal \in Goals
      BY LiveHasGoal DEF LiveTask
    <2>3. \A h \in Goals : run'[h].task = run[h].task OBVIOUS
    <2> QED BY <2>1, <2>2, <2>3 DEF LiveSolo
  <1>5. \A h \in Goals : TaskOfRow(h)' /\ RowSolo(h)' BY <1>2
  <1> QED BY <1>3, <1>4, <1>5 DEF SoloInv

(* A run is created.                                                       *)
LEMMA SoloBirth ==
    ASSUME Peaceful, SoloFacts, TasksTyped', wish' = wish, NEW g \in Goals, Births(g)
    PROVE  SoloInv'
  <1>1. /\ runner' = runner /\ task' = task /\ run[g].status = "absent"
        /\ run'[g].status = "queued" /\ run'[g].stage = "discover" /\ run'[g].task = NoExecution
        /\ run'[g].retries = 0 /\ \A h \in Goals \ {g} : run'[h] = run[h]
    BY DEF Births, Sets
  <1>2. run[g].stage = "discover" /\ run[g].task = NoExecution
    BY <1>1 DEF SoloFacts, OrderInv, OrderedRow
  <1>3. TasksOf(g) = {} BY <1>2 DEF SoloFacts, SoloInv, TaskOfRow
  <1>4. Count(g) = 0 BY <1>3, CountIs
  <1>5. TasksOf(g)' = TasksOf(g) /\ Count(g)' = Count(g) BY <1>1, TasksSame
  <1>6. ~Attended(g) BY <1>1 DEF Attended, SoloFacts, OrderInv, OrderedPass
  <1>7. TaskOfRow(g)' BY <1>1, <1>3, <1>5 DEF TaskOfRow
  <1>8. RowSolo(g)' BY <1>1, <1>4, <1>5 DEF RowSolo, Awaiting
  <1> QED BY <1>1, <1>2, <1>6, <1>7, <1>8, SoloWrite

(* A run that waits is answered.                                           *)
LEMMA SoloAnswer ==
    ASSUME Peaceful, SoloFacts, TasksTyped', wish' = wish, NEW g \in Goals, Answers(g)
    PROVE  SoloInv'
  <1>1. RunHazards \cap {"early", "stray"} = {} BY DEF Peaceful
  <1>2. /\ runner' = runner /\ task' = task /\ run[g].status \in Awaiting
        /\ \/ run'[g].status = "queued"
           \/ /\ run[g].status = "awaiting_authorization" /\ run'[g].status = run[g].status
              /\ run'[g].ctx = run[g].ctx
        /\ run'[g].stage = run[g].stage /\ run'[g].task = run[g].task
        /\ run'[g].retries = run[g].retries /\ \A h \in Goals \ {g} : run'[h] = run[h]
    BY <1>1 DEF Answers, Sets, Awaiting
  <1>3. TaskOfRow(g) /\ RowSolo(g) BY DEF SoloFacts, SoloInv
  <1>4. run[g].stage \in {"discover", "deploy"} BY <1>2, <1>3 DEF RowSolo
  <1>5. run[g].task = NoExecution BY <1>3, <1>4 DEF TaskOfRow
  <1>6. TasksOf(g)' = TasksOf(g) /\ Count(g)' = Count(g) BY <1>2, TasksSame
  <1>7. ~Attended(g) BY <1>2 DEF Attended, SoloFacts, SoloInv, Awaiting
  <1>8. TaskOfRow(g)' BY <1>2, <1>3, <1>6 DEF TaskOfRow
  <1>9. RowSolo(g)' BY <1>2, <1>3, <1>4, <1>5, <1>6 DEF RowSolo, Awaiting
  <1> QED BY <1>2, <1>5, <1>7, <1>8, <1>9, SoloWrite

(* A task goes on.                                                         *)
LEMMA SoloTaskMove ==
    ASSUME Peaceful, SoloFacts, TasksTyped', wish' = wish, NEW t \in TaskIds, TaskMoves(t)
    PROVE  SoloInv'
  <1>1. /\ run' = run /\ runner' = runner /\ task[t].status \in LiveTask
        /\ task'[t].status # "absent" /\ \A u \in TaskIds : task'[u].goal = task[u].goal
        /\ \A u \in TaskIds \ {t} : task'[u] = task[u]
    BY DEF TaskMoves
  <1>2. \A h \in Goals : TasksOf(h)' = TasksOf(h) /\ Count(h)' = Count(h)
    BY <1>1, TasksStay
  <1>3. task[t].status \notin Ended /\ task[t].status # "absent"
    BY <1>1 DEF LiveTask, Ended
  <1>4. \A u \in TaskIds : task[u].status \in Ended => task'[u].status \in Ended
    BY <1>1, <1>3
  <1>5. ASSUME NEW h \in Goals PROVE TaskOfRow(h)' /\ RowSolo(h)'
    <2>1. Attended(h)' <=> Attended(h) BY <1>1 DEF Attended
    <2> QED BY <1>1, <1>2, <2>1, RowStays DEF SoloFacts
  <1>6. ASSUME NEW r \in Processes
        PROVE  /\ runner'[r].pc # "idle" => run'[runner'[r].goal].status \in {"running", "cancelled"}
               /\ SeenSolo(r)' /\ MovingSolo(r)'
    <2>1. CASE runner[r].pc = "idle" BY <1>1, <2>1 DEF SeenSolo, MovingSolo
    <2>2. CASE runner[r].pc # "idle"
      <3>1. PICK h \in Goals : runner[r].goal = h BY <2>2, PassFacts DEF SoloFacts
      <3>2. run[h].status \in {"running", "cancelled"} BY <2>2, <3>1 DEF SoloFacts, SoloInv
      <3>3. SeenSolo(r)' /\ MovingSolo(r)' BY <1>1, <1>2, <1>4, <3>1, PassesStay
      <3> QED BY <1>1, <3>1, <3>2, <3>3
    <2> QED BY <2>1, <2>2
  <1>7. ASSUME NEW u \in TaskIds PROVE LiveSolo(u)'
    <2>1. LiveSolo(u) BY DEF SoloFacts, SoloInv
    <2>2. task'[u].status \in LiveTask => task[u].status \in LiveTask BY <1>1
    <2>3. task'[u].status = "absent" <=> task[u].status = "absent" BY <1>1, <1>3
    <2> QED BY <1>1, <2>1, <2>2, <2>3 DEF LiveSolo
  <1> QED BY <1>5, <1>6, <1>7 DEF SoloInv

-----------------------------------------------------------------------------
(* The theorems about one task at a time.                                  *)

(* Every step keeps the invariant.                                         *)
LEMMA SoloStep ==
    ASSUME Peaceful, SoloFacts, TasksTyped', StepOfRows, wish' = wish
    PROVE  SoloInv'
  <1>1. ASSUME NEW r \in Processes, RunnerStep(r) PROVE SoloInv'
    <2>1. ASSUME NEW g \in Goals, Requeues(r, g) PROVE FALSE
      <3>1. runner[r].pc = "idle" /\ run[g].status = "running" /\ run[g].task = NoExecution
        BY <2>1 DEF Requeues, Peaceful
      <3> QED BY <3>1, IdleKnows DEF RowSolo
    <2>2. ~Synthesizes(r) /\ ~Breaks(r) BY DEF Synthesizes, Breaks, Peaceful
    <2> QED BY <1>1, <2>1, <2>2, SoloFetch, SoloAdopt, SoloChoose, SoloCollect, SoloWatch,
               SoloFinish
            DEF RunnerStep
  <1>2. CASE \E g \in Goals : Cancels(g) \/ Births(g) \/ Answers(g)
    BY <1>2, SoloCancel, SoloBirth, SoloAnswer
  <1>3. CASE \E t \in TaskIds : TaskMoves(t) BY <1>3, SoloTaskMove
  <1>4. CASE UNCHANGED <<run, runner, task>>
    <2>1. run' = run /\ runner' = runner /\ task' = task BY <1>4
    <2>2. \A h \in Goals : TasksOf(h)' = TasksOf(h) /\ Count(h)' = Count(h) BY <2>1, TasksSame
    <2>3. \A h \in Goals : TaskOfRow(h)' /\ RowSolo(h)'
      BY <2>1, <2>2 DEF SoloFacts, SoloInv, TaskOfRow, RowSolo, Attended
    <2>4. \A r \in Processes : /\ runner'[r].pc # "idle" => run'[runner'[r].goal].status \in {"running", "cancelled"}
                             /\ SeenSolo(r)' /\ MovingSolo(r)'
      <3> SUFFICES ASSUME NEW r \in Processes
                   PROVE  /\ runner'[r].pc # "idle" => run'[runner'[r].goal].status \in {"running", "cancelled"}
                          /\ SeenSolo(r)' /\ MovingSolo(r)'
        OBVIOUS
      <3>1. CASE runner[r].pc = "idle" BY <2>1, <3>1 DEF SeenSolo, MovingSolo
      <3>2. CASE runner[r].pc # "idle"
        <4>1. PICK h \in Goals : runner[r].goal = h BY <3>2, PassFacts DEF SoloFacts
        <4>2. \A u \in TaskIds : task[u].status \in Ended => task'[u].status \in Ended BY <2>1
        <4>3. SeenSolo(r)' /\ MovingSolo(r)' BY <2>1, <2>2, <4>1, <4>2, PassesStay
        <4> QED BY <2>1, <3>2, <4>3 DEF SoloFacts, SoloInv
      <3> QED BY <3>1, <3>2
    <2>5. \A t \in TaskIds : LiveSolo(t)' BY <2>1 DEF SoloFacts, SoloInv, LiveSolo
    <2> QED BY <2>3, <2>4, <2>5 DEF SoloInv
  <1> QED BY <1>1, <1>2, <1>3, <1>4 DEF StepOfRows

(* It holds initially.                                                     *)
LEMMA InitSolo == Peaceful /\ GoalInit => SoloInv
  <1> SUFFICES ASSUME Peaceful, GoalInit PROVE SoloInv
    OBVIOUS
  <1>1. \A g \in Goals : run[g] = NoGoalRun BY DEF GoalInit
  <1>2. \A r \in Processes : runner[r].pc = "idle" BY DEF GoalInit, Idle
  <1>3. \A t \in TaskIds : task[t].status = "absent" /\ task[t].goal = NoGoal BY DEF GoalInit
  <1>4. \A g \in Goals : TasksOf(g) = {} BY <1>3, GoalNullAssumption DEF TasksOf
  <1>5. \A g \in Goals : Count(g) = 0 BY <1>4, CountIs
  <1>6. \A g \in Goals : TaskOfRow(g) /\ RowSolo(g)
    BY <1>1, <1>4, <1>5 DEF TaskOfRow, RowSolo, NoGoalRun, Awaiting
  <1>7. \A r \in Processes : SeenSolo(r) /\ MovingSolo(r)
    BY <1>2 DEF SeenSolo, MovingSolo
  <1>8. \A t \in TaskIds : LiveSolo(t) BY <1>3 DEF LiveSolo, LiveTask
  <1> QED BY <1>2, <1>6, <1>7, <1>8, InitTasks DEF SoloInv

(* It holds always.                                                        *)
LEMMA SoloAlways ==
    ASSUME Peaceful PROVE GoalSpec => []SoloFacts
  <1>1. GoalInit => SoloFacts
    BY InitDeploy, InitOrder, InitSolo DEF SoloFacts
  <1>2. SoloFacts /\ [GoalNext]_goalVars => SoloFacts'
    <2> SUFFICES ASSUME SoloFacts, [GoalNext]_goalVars PROVE SoloFacts'
      OBVIOUS
    <2>1. DeployInv /\ TasksTyped /\ OrderInv /\ OneRunner BY DEF SoloFacts, SoloInv, Peaceful
    <2>2. DeployInv' /\ TasksTyped' BY <2>1, NextDeploy, TasksKeepType
    <2>3. Typed' BY <2>2 DEF DeployInv
    <2>4. StepOfRows /\ (wish' = wish) BY <2>1, StepIs
    <2>5. OrderInv' BY <2>1, <2>3, <2>4, OrderStep
    <2>6. SoloInv' BY <2>2, <2>4, SoloStep
    <2> QED BY <2>2, <2>5, <2>6 DEF SoloFacts
  <1> QED BY <1>1, <1>2, PTL DEF GoalSpec

(* The holder of a live task is one.                                       *)
LEMMA LiveIsOne ==
    ASSUME Peaceful, SoloFacts, NEW g \in Goals, NEW t \in TasksOf(g), NEW u \in TasksOf(g),
           task[t].status \in LiveTask, task[u].status \in LiveTask
    PROVE  t = u
  <1>1. t \in TaskIds /\ u \in TaskIds /\ task[t].goal = g /\ task[u].goal = g BY DEF TasksOf
  <1>2. LiveSolo(t) /\ LiveSolo(u) BY <1>1 DEF SoloFacts, SoloInv
  <1>3. CASE \E r \in Processes : runner[r].pc = "moving" /\ runner[r].move = "adopt" /\ runner[r].goal = g
    <2>1. PICK r \in Processes : runner[r].pc = "moving" /\ runner[r].move = "adopt" /\ runner[r].goal = g
      BY <1>3
    <2>2. run[g].task = NoExecution BY <2>1 DEF SoloFacts, SoloInv, MovingSolo
    <2>3. \A s \in Processes : s = r BY DEF Peaceful, OneRunner
    <2> QED BY <1>1, <1>2, <2>2, <2>3, GoalNullAssumption DEF LiveSolo
  <1>4. CASE ~\E r \in Processes : runner[r].pc = "moving" /\ runner[r].move = "adopt" /\ runner[r].goal = g
    BY <1>1, <1>2, <1>4 DEF LiveSolo
  <1> QED BY <1>3, <1>4

(* It implies that executions are single.                                  *)
LEMMA SoloIsSingle == Peaceful /\ SoloFacts => ExecutionsAreSingle
  <1> SUFFICES ASSUME Peaceful, SoloFacts PROVE ExecutionsAreSingle
    OBVIOUS
  <1>1. ExecutionsAreCounted
    BY DEF SoloFacts, SoloInv, RowSolo, Count, ExecutionsAreCounted
  <1>2. ASSUME NEW g \in Goals
        PROVE  Cardinality({t \in TasksOf(g) : task[t].status \in LiveTask}) <= 1
    <2> DEFINE L == {t \in TasksOf(g) : task[t].status \in LiveTask}
    <2>1. \A t, u \in L : t = u BY LiveIsOne
    <2> HIDE DEF L
    <2>2. ASSUME L = {} PROVE Cardinality(L) <= 1
      <3>1. Cardinality({}) = 0 BY FS_EmptySet
      <3> QED BY <2>2, <3>1
    <2>3. ASSUME L # {} PROVE Cardinality(L) <= 1
      <3>1. PICK t \in L : L = {t} BY <2>1, <2>3
      <3>2. Cardinality({t}) = 1 BY FS_Singleton
      <3> QED BY <3>1, <3>2
    <2>4. Cardinality(L) <= 1 BY <2>2, <2>3
    <2> QED BY <2>4 DEF L
  <1> QED BY <1>1, <1>2 DEF ExecutionsAreSingle, OneLiveTask

(* It implies that a run that waits does so for a reason.                  *)
LEMMA SoloIsQuiet == Peaceful /\ SoloFacts => AwaitingIsJustified
  <1> SUFFICES ASSUME Peaceful, SoloFacts PROVE AwaitingIsJustified
    OBVIOUS
  <1>1. QuestionIsOpen BY DEF SoloFacts, SoloInv, RowSolo, QuestionIsOpen
  <1>2. ASSUME NEW g \in Goals, run[g].status \in Awaiting, NEW t \in TasksOf(g)
        PROVE  task[t].status \in Ended
    <2>1. t \in TaskIds /\ task[t].goal = g BY DEF TasksOf
    <2>2. TaskOfRow(g) /\ RowSolo(g) /\ LiveSolo(t) BY <2>1 DEF SoloFacts, SoloInv
    <2>3. run[g].task = NoExecution BY <1>2, <2>2 DEF TaskOfRow, RowSolo
    <2>4. \A r \in Processes : runner[r].pc # "idle" => runner[r].goal # g
      BY <1>2 DEF SoloFacts, SoloInv, Awaiting
    <2>5. task[t].status \notin LiveTask BY <2>1, <2>2, <2>3, <2>4, GoalNullAssumption DEF LiveSolo
    <2>6. task[t].status # "absent" BY <2>1, <2>2, GoalNullAssumption DEF LiveSolo
    <2> QED BY <2>1, <2>5, <2>6 DEF SoloFacts, SoloInv, TasksTyped
  <1> QED BY <1>1, <1>2 DEF AwaitingIsJustified, AwaitingIsQuiet

(* With one runner that does not crash, no tick in the wrong moment and no *)
(* requests that nobody asked for, every execution task after the first    *)
(* has used up a retry and no goal run has two of them under way           *)
(* (ExecutionsAreSingle), however runs are cancelled, answered, retried or *)
(* timed out in the middle of a pass.                                      *)
THEOREM OneTaskAtATime ==
    ASSUME Peaceful PROVE GoalSpec => []ExecutionsAreSingle
  BY SoloAlways, SoloIsSingle, PTL

(* Under the same conditions a goal run that waits for its user has no     *)
(* task at work, and waits for an input only while it has not been given   *)
(* them all, and for an authorization only while it has none               *)
(* (AwaitingIsJustified).  That the credentials it waits for may be in the *)
(* table meanwhile is not excluded (ProvidedRunsGoOn).                     *)
THEOREM WaitingIsForAReason ==
    ASSUME Peaceful PROVE GoalSpec => []AwaitingIsJustified
  BY SoloAlways, SoloIsQuiet, PTL

-----------------------------------------------------------------------------
(* The types, with one runner.                                             *)

(* A retry is counted in the row by a pass that read a smaller number.     *)
RetriesOK ==
    /\ \A g \in Goals : run[g].retries <= MaxRetries
    /\ \A r \in Processes :
          /\ runner[r].row.retries <= MaxRetries
          /\ runner[r].pc = "seen" => run[runner[r].goal].retries <= runner[r].row.retries

(* A goal run is in the order once.                                        *)
OrderTyped == order \in Seq(Goals) /\ IsInjective(order)

CredentialsTyped == credentials \subseteq CredentialKeys

GoalTypesInv ==
    DeployInv /\ TokensTyped /\ TasksTyped /\ RetriesOK /\ OrderTyped /\ CredentialsTyped /\ runFaults \in Nat

(* So a write keeps the order.                                             *)
LEMMA LatestFits ==
    ASSUME OrderTyped, NEW g \in Goals, order' = Latest(g) PROVE OrderTyped'
BY RemovedElement DEF OrderTyped, Latest

(* A step leaves the order or moves one goal run to its end.               *)
LEMMA OrderSteps ==
    ASSUME DeployInv, [GoalNext]_goalVars
    PROVE  order' = order \/ \E g \in Goals : order' = Latest(g)
<1>1. CASE UNCHANGED goalVars BY <1>1 DEF goalVars
<1>2. ASSUME NEW r \in Processes, Fetch(r) \/ Pass(r) \/ TimeOutExecution(r) \/ Abandon(r) \/ Throw(r)
      PROVE  order' = order \/ \E g \in Goals : order' = Latest(g)
  <2>1. CASE Fetch(r)
    BY <2>1 DEF Fetch, ClaimGoalRun, PollRunning, Write
  <2>2. CASE Plan(r) \/ Synthesize(r) \/ CollectTask(r) \/ RetryTask(r) \/ VerifyRetries(r) \/ MoveOn(r)
    <3>1. runner[r].pc # "idle"
      BY <2>2 DEF Plan, Synthesize, CollectTask, RetryTask, VerifyRetries, MoveOn, Seen, Looks
    <3>2. runner[r].goal \in Goals BY <3>1, PassFacts
    <3> QED BY <2>2, <3>2 DEF Plan, Synthesize, CollectTask, RetryTask, VerifyRetries, Retry, MoveOn, Write
  <2>3. CASE \/ Discover(r) \/ FailExecution(r) \/ VerifyPasses(r) \/ VerifyFails(r)
             \/ SkipDeploy(r) \/ AskForTarget(r) \/ AskForCredentials(r) \/ PassDeploy(r)
             \/ WatchTask(r)
             \/ (\E k \in Tokens : AskAuthorization(r, k)) \/ (\E t \in TaskIds : CreateExecutionTask(r, t))
             \/ Accept(r) \/ TimeOutExecution(r) \/ Throw(r) \/ Abandon(r)
    <3>1. ASSUME Prepare(r) PROVE \E g \in Goals : order' = Latest(g)
      <4>1. runner[r].goal \in Goals BY <3>1, SeenFacts DEF Prepare, Deploying, Seen
      <4> QED BY <3>1, <4>1 DEF Prepare
    <3> QED BY <2>3, <3>1 DEF Discover, FailExecution, VerifyPasses, VerifyFails, SkipDeploy, AskForTarget,
         AskForCredentials, PassDeploy, WatchTask, AskAuthorization, CreateExecutionTask, Accept,
         TimeOutExecution, Throw, Abandon
  <2> QED BY <1>2, <2>1, <2>2, <2>3 DEF Pass
<1>3. ASSUME NEW g \in Goals,
             \/ \E r \in Processes : Reconcile(r, g) \/ ExpireAwaiting(r, g)
             \/ CancelGoalRun(g) \/ \E ctx \in Contexts : CreateGoalRun(g, ctx)
             \/ \E key \in Inputs : GiveInput(g, key)
             \/ \E k \in Tokens : IssueToken(g, k) \/ ConsumeToken(g, k)
      PROVE  order' = Latest(g)
  BY <1>3 DEF Reconcile, ExpireAwaiting, CreateGoalRun, CancelGoalRun, GiveInput, IssueToken, ConsumeToken,
       Cancelled, Write
<1>4. CASE \/ \E k \in Tokens : PresentExpired(k)
           \/ \E key \in CredentialKeys : PutCredential(key) \/ DropCredential(key)
           \/ \E t \in TaskIds : StartTask(t) \/ SettleTask(t) \/ DisturbTask(t) \/ AnswerTask(t)
  BY <1>4 DEF PresentExpired, PutCredential, DropCredential, StartTask, SettleTask, DisturbTask, AnswerTask, TaskMove
<1> QED BY <1>1, <1>2, <1>3, <1>4 DEF GoalNext

(* A fault is taken from those that are left.                              *)
LEMMA FaultsSteps ==
    ASSUME runFaults \in Nat, [GoalNext]_goalVars PROVE runFaults' \in Nat
<1>1. \A h : GoalFault(h) => runFaults' \in Nat BY DEF GoalFault
<1>2. \A c, h : Needs(c, h) => runFaults' \in Nat BY <1>1 DEF Needs
<1>3. CASE UNCHANGED goalVars BY <1>3 DEF goalVars
<1>4. ASSUME NEW r \in Processes, Fetch(r) \/ Pass(r) \/ TimeOutExecution(r) \/ Abandon(r) \/ Throw(r)
      PROVE  runFaults' \in Nat
  BY <1>1, <1>4 DEF Fetch, ClaimGoalRun, PollRunning, TimeOutExecution, Abandon, Throw, Pass, Discover, Plan,
       Synthesize, CreateExecutionTask, WatchTask, CollectTask, RetryTask, VerifyRetries, Retry,
       FailExecution,
       VerifyPasses, VerifyFails, SkipDeploy, AskForTarget, AskForCredentials, PassDeploy, AskAuthorization,
       Prepare, Accept, MoveOn
<1>5. ASSUME NEW g \in Goals,
             \/ \E r \in Processes : Reconcile(r, g) \/ ExpireAwaiting(r, g)
             \/ CancelGoalRun(g) \/ \E ctx \in Contexts : CreateGoalRun(g, ctx)
             \/ \E key \in Inputs : GiveInput(g, key)
             \/ \E k \in Tokens : IssueToken(g, k) \/ ConsumeToken(g, k)
      PROVE  runFaults' \in Nat
  BY <1>2, <1>5 DEF Reconcile, ExpireAwaiting, CreateGoalRun, CancelGoalRun, GiveInput, IssueToken,
     ConsumeToken
<1>6. CASE \/ \E k \in Tokens : PresentExpired(k)
           \/ \E key \in CredentialKeys : PutCredential(key) \/ DropCredential(key)
           \/ \E t \in TaskIds : StartTask(t) \/ SettleTask(t) \/ DisturbTask(t) \/ AnswerTask(t)
  BY <1>6 DEF PresentExpired, PutCredential, DropCredential, StartTask, SettleTask, DisturbTask, AnswerTask, TaskMove
<1> QED BY <1>3, <1>4, <1>5, <1>6 DEF GoalNext

(* A pass puts credentials of its run into the table.                      *)
LEMMA CredentialsSteps ==
    ASSUME CredentialsTyped, [GoalNext]_goalVars PROVE CredentialsTyped'
<1>1. CASE credentials' = credentials BY <1>1 DEF CredentialsTyped
<1>2. ASSUME NEW r \in Processes, Prepare(r) PROVE CredentialsTyped'
  BY <1>2 DEF Prepare, Stocked, Secrets, CredentialsTyped
<1>3. ASSUME NEW key \in CredentialKeys, PutCredential(key) \/ DropCredential(key) PROVE CredentialsTyped'
  BY <1>3 DEF PutCredential, DropCredential, CredentialsTyped
<1>4. ASSUME NEW r \in Processes, Fetch(r) \/ Pass(r) \/ TimeOutExecution(r) \/ Abandon(r) \/ Throw(r)
      PROVE  credentials' = credentials \/ Prepare(r)
  BY <1>4 DEF Fetch, ClaimGoalRun, PollRunning, TimeOutExecution, Abandon, Throw, Pass, Discover, Plan,
       Synthesize, CreateExecutionTask, WatchTask, CollectTask, RetryTask, VerifyRetries, Retry, FailExecution,
       VerifyPasses, VerifyFails, SkipDeploy, AskForTarget, AskForCredentials, PassDeploy, AskAuthorization,
       Accept, MoveOn
<1>5. ASSUME NEW g \in Goals,
             \/ \E r \in Processes : Reconcile(r, g) \/ ExpireAwaiting(r, g)
             \/ CancelGoalRun(g) \/ \E ctx \in Contexts : CreateGoalRun(g, ctx)
             \/ \E key \in Inputs : GiveInput(g, key)
             \/ \E k \in Tokens : IssueToken(g, k) \/ ConsumeToken(g, k)
      PROVE  credentials' = credentials
  BY <1>5 DEF Reconcile, ExpireAwaiting, CreateGoalRun, CancelGoalRun, GiveInput, IssueToken, ConsumeToken
<1>6. CASE (\E k \in Tokens : PresentExpired(k))
           \/ \E t \in TaskIds : StartTask(t) \/ SettleTask(t) \/ DisturbTask(t) \/ AnswerTask(t)
  BY <1>1, <1>6 DEF PresentExpired, StartTask, SettleTask, DisturbTask, AnswerTask, TaskMove
<1>7. CASE UNCHANGED goalVars BY <1>1, <1>7 DEF goalVars
<1> QED BY <1>1, <1>2, <1>3, <1>4, <1>5, <1>6, <1>7 DEF GoalNext

(* Rows do not gain retries, passes rest or read a row as it is.           *)
LEMMA RetriesCalm ==
    ASSUME DeployInv, DeployInv', RetriesOK,
           \A g \in Goals : run'[g].retries <= run[g].retries \/ run'[g].retries <= 0,
           \A r \in Processes : \/ runner'[r] = runner[r]
                                \/ runner'[r].pc # "seen" /\ runner'[r].row = NoGoalRun
                                \/ runner'[r].goal \in Goals /\ runner'[r].row = run'[runner'[r].goal]
    PROVE  RetriesOK'
<1>1. MaxRetries \in Nat BY GoalBoundAssumption
<1>2. \A g \in Goals : run[g].retries \in Nat /\ run'[g].retries \in Nat
  BY DEF DeployInv, Typed, Row
<1>3. \A r \in Processes : runner[r].row.retries \in Nat
  BY DEF DeployInv, Typed, PassRecord, Row
<1>4. \A g \in Goals : run'[g].retries <= MaxRetries /\ run'[g].retries <= run[g].retries
  BY <1>1, <1>2 DEF RetriesOK
<1>5. ASSUME NEW r \in Processes
      PROVE  /\ runner'[r].row.retries <= MaxRetries
             /\ runner'[r].pc = "seen" => run'[runner'[r].goal].retries <= runner'[r].row.retries
  <2>1. CASE runner'[r] = runner[r]
    <3>1. CASE runner[r].pc = "seen"
      <4>1. runner[r].goal \in Goals BY <3>1, SeenFacts
      <4> QED BY <1>2, <1>3, <1>4, <2>1, <4>1 DEF RetriesOK
    <3> QED BY <2>1, <3>1 DEF RetriesOK
  <2>2. CASE runner'[r].pc # "seen" /\ runner'[r].row = NoGoalRun
    BY <1>1, <2>2 DEF NoGoalRun
  <2>3. CASE runner'[r].goal \in Goals /\ runner'[r].row = run'[runner'[r].goal]
    BY <1>2, <1>4, <2>3
  <2> QED BY <2>1, <2>2, <2>3
<1> QED BY <1>4, <1>5 DEF RetriesOK

(* Every step keeps the limit of the retries.                              *)
LEMMA RetriesStep ==
    ASSUME OneRunner, DeployInv, DeployInv', RetriesOK, StepOfRows PROVE RetriesOK'
<1>1. /\ \A g \in Goals : run[g].retries \in Nat /\ run'[g].retries \in Nat
      /\ \A r \in Processes : runner[r].row.retries \in Nat
  BY DEF DeployInv, Typed, PassRecord, Row
<1>2. ASSUME NEW r \in Processes, RunnerStep(r) PROVE RetriesOK'
  <2>1. \A s \in Processes : s = r BY DEF OneRunner
  <2>2. CASE \E g \in Goals : Claims(r, g) \/ Polls(r, g)
    <3>1. \A g \in Goals : run'[g].retries <= run[g].retries
      BY <1>1, <2>2 DEF Claims, Polls, Keeps, Sets
    <3>2. runner'[r].goal \in Goals /\ runner'[r].row = run'[runner'[r].goal]
      BY <2>2 DEF Claims, Polls, Reads
    <3> QED BY <2>1, <3>1, <3>2, RetriesCalm
  <2>3. CASE \E g \in Goals : Requeues(r, g)
    <3>1. (\A g \in Goals : run'[g].retries <= run[g].retries) /\ runner' = runner
      BY <1>1, <2>3 DEF Requeues, Keeps, Sets
    <3> QED BY <3>1, RetriesCalm
  <2>4. CASE (\E t \in TaskIds : Adopts(r, t)) \/ Chooses(r) \/ Plans(r) \/ Watches(r) \/ Breaks(r)
    <3>1. /\ run' = run /\ runner'[r].pc # "seen" /\ runner'[r].row = NoGoalRun
      BY <2>4 DEF Adopts, Chooses, Plans, Watches, Breaks, Turns, Rests
    <3> QED BY <1>1, <2>1, <3>1, RetriesCalm
  <2>5. CASE Synthesizes(r) \/ Collects(r) \/ Finishes(r)
    <3>1. runner'[r].pc # "seen" /\ runner'[r].row = NoGoalRun
      BY <2>5 DEF Synthesizes, Collects, Finishes, Turns, Rests
    <3>2. \A g \in Goals : run'[g].retries <= run[g].retries
      <4>1. ASSUME NEW g, NEW status, NEW stage, NEW t, NEW c, Sets(g, status, stage, t, run[g].retries, c)
            PROVE  \A h \in Goals : run'[h].retries <= run[h].retries
        BY <1>1, <4>1 DEF Sets
      <4>2. CASE Synthesizes(r) \/ Collects(r)
        BY <4>1, <4>2 DEF Synthesizes, Collects, Writes, Keeps
      <4>3. CASE Finishes(r)
        BY <4>1, <4>3, Zenon DEF Finishes, Keeps
      <4> QED BY <2>5, <4>2, <4>3
    <3> QED BY <2>1, <3>1, <3>2, RetriesCalm
  <2>6. CASE Retries(r)
    <3> DEFINE g == runner[r].goal
    <3>1. runner[r].pc = "seen" BY <2>6 DEF Retries, Holds
    <3>2. g \in Goals /\ run[g].retries <= runner[r].row.retries
      BY <3>1, SeenFacts DEF RetriesOK
    <3>3. MaxRetries \in Nat BY GoalBoundAssumption
    <3>4. run'[g].retries = run[g].retries + 1 /\ \A h \in Goals \ {g} : run'[h] = run[h]
      BY <2>6 DEF Retries, Writes, Keeps, Sets
    <3>5. \A h \in Goals : run'[h].retries <= MaxRetries
      BY <1>1, <2>6, <3>2, <3>3, <3>4 DEF Retries, RetriesOK
    <3>6. runner'[r].pc = "moving" /\ runner'[r].row = NoGoalRun BY <2>6 DEF Retries, Turns
    <3>7. \A s \in Processes : runner'[s].row.retries <= MaxRetries /\ runner'[s].pc # "seen"
      BY <2>1, <3>3, <3>6 DEF NoGoalRun
    <3> QED BY <3>5, <3>7 DEF RetriesOK
  <2> QED BY <1>2, <2>2, <2>3, <2>4, <2>5, <2>6 DEF RunnerStep
<1>3. CASE \E g \in Goals : Cancels(g) \/ Births(g) \/ Answers(g)
  <2>1. runner' = runner /\ \A g \in Goals : run'[g].retries <= run[g].retries \/ run'[g].retries <= 0
    BY <1>1, <1>3 DEF Cancels, Births, Answers, Keeps, Sets
  <2> QED BY <2>1, RetriesCalm
<1>4. CASE (\E t \in TaskIds : TaskMoves(t)) \/ UNCHANGED <<run, runner, task>>
  <2>1. runner' = runner /\ \A g \in Goals : run'[g].retries <= run[g].retries
    BY <1>1, <1>4 DEF TaskMoves
  <2> QED BY <2>1, RetriesCalm
<1> QED BY <1>2, <1>3, <1>4 DEF StepOfRows

(* The strengthened types hold initially and are kept.                     *)
LEMMA InitTypes == GoalInit => GoalTypesInv
<1> SUFFICES ASSUME GoalInit PROVE GoalTypesInv
  OBVIOUS
<1>1. RetriesOK BY GoalBoundAssumption DEF GoalInit, RetriesOK, NoGoalRun, Idle
<1>2. OrderTyped BY DEF GoalInit, OrderTyped, IsInjective
<1>3. runFaults \in Nat /\ CredentialsTyped BY GoalBoundAssumption DEF GoalInit, CredentialsTyped
<1> QED BY <1>1, <1>2, <1>3, InitDeploy, InitTokens, InitTasks DEF GoalTypesInv

LEMMA NextTypes ==
    ASSUME OneRunner, GoalTypesInv, [GoalNext]_goalVars PROVE GoalTypesInv'
<1>1. DeployInv' /\ TokensTyped' /\ TasksTyped'
  BY NextDeploy, NextTokens, TasksKeepType DEF GoalTypesInv
<1>2. RetriesOK' BY <1>1, StepIs, RetriesStep DEF GoalTypesInv
<1>3. OrderTyped'
  <2>1. OrderTyped /\ (order' = order \/ \E g \in Goals : order' = Latest(g)) BY OrderSteps DEF GoalTypesInv
  <2> QED BY <2>1, LatestFits DEF OrderTyped
<1>4. runFaults' \in Nat /\ CredentialsTyped' BY FaultsSteps, CredentialsSteps DEF GoalTypesInv
<1> QED BY <1>1, <1>2, <1>3, <1>4 DEF GoalTypesInv

(* They are the types of the module.                                       *)
LEMMA TypesAre == GoalTypesInv => GoalTypeOK
<1> SUFFICES ASSUME GoalTypesInv PROVE GoalTypeOK
  OBVIOUS
<1>1. MaxRetries \in Nat BY GoalBoundAssumption
<1>2. \A row \in Row : row.retries <= MaxRetries => row \in RunRow
  BY <1>1 DEF Row, RunRow
<1>3. run \in [Goals -> RunRow]
  BY <1>2 DEF GoalTypesInv, DeployInv, Typed, RetriesOK
<1> DEFINE Passes == [pc : {"idle", "seen", "moving"}, goal : Goals \cup {NoGoal}, row : RunRow,
                      move : Moves, stage : StageNames, task : TaskIds \cup {NoExecution}]
<1>4. \A p \in PassRecord : p.row \in Row /\ (p.row \in RunRow => p \in Passes)
  BY DEF PassRecord
<1>5. runner \in [Processes -> Passes]
  BY <1>2, <1>4 DEF GoalTypesInv, DeployInv, Typed, RetriesOK
<1> QED BY <1>3, <1>5 DEF GoalTypesInv, DeployInv, Typed, OrderTyped, TasksTyped, TokensTyped, CredentialsTyped,
     GoalTypeOK

(* The rows, passes, tasks and tokens keep their types with one runner,    *)
(* and with every hazard: no run is retried more often than max_retries,   *)
(* though the count is checked in a row read before, and a run is in the   *)
(* order of updates once.  (Two runners that both hold a run may both      *)
(* count.)                                                                 *)
THEOREM GoalTypes ==
    ASSUME OneRunner PROVE GoalSpec => []GoalTypeOK
<1>1. GoalTypesInv /\ [GoalNext]_goalVars => GoalTypesInv' BY NextTypes
<1> QED BY <1>1, InitTypes, TypesAre, PTL DEF GoalSpec
=============================================================================
