-------------------------- MODULE ToolApprovalProofs --------------------------
(***************************************************************************)
(* What ToolApproval promises of decisions and of the runs they concern,   *)
(* for any number of slots, requests, runs and approvals.  The invariants  *)
(* build on one another:                                                   *)
(*   Typed      rows have their types, and what a slot or a request refers *)
(*              to exists;                                                 *)
(*   RunsInv    a run is linked by the slot that created it, once;         *)
(*   SingleInv  without escalation one request takes the decision;         *)
(*   VerdictInv ... and a linked run says what its approval says;          *)
(*   PickedInv  ... and with one slot it is picked up only when approved;  *)
(*   WaitInv    a task that waits can be brought on;                       *)
(*   BallInv    without faults the task is in one party's hands at a time. *)
(***************************************************************************)
EXTENDS ToolApproval, SequenceTheorems, TLAPS

Decision == {"approved", "rejected"}

HasRun == SlotPc \ {"idle", "start"}
Asking == {"created", "asked", "opened"}
HasApproval == {"asked", "opened", "linked"}

SlotBound(w) ==
    /\ slot[w].pc \in HasRun => slot[w].run \in Runs
    /\ slot[w].pc \in HasApproval =>
          slot[w].approval \in Approvals /\ approval[slot[w].approval] # "none"

RequestBound(q) ==
    request[q].stage # "idle" =>
        /\ request[q].approval \in Approvals /\ approval[request[q].approval] # "none"
        /\ request[q].step \in DOMAIN steps[request[q].approval]
        /\ request[q].stage \in {"read", "applied"} => request[q].verdict \in Decision

Typed ==
    /\ TypeOK
    /\ \A w \in Slots : SlotBound(w)
    /\ \A q \in Requests : RequestBound(q)

LinkOf(r) == run[r].approval

(* A slot on its way to the link has a run of its own without one.         *)
AskingOK(w) ==
    slot[w].pc \in Asking =>
        /\ LinkOf(slot[w].run) = NoApproval /\ run[slot[w].run].status # "absent"
        /\ \A v \in Slots : slot[v].pc \in Asking /\ slot[v].run = slot[w].run => v = w

LinkedOK(w) == slot[w].pc = "linked" => LinkOf(slot[w].run) = slot[w].approval

RowOK(r) ==
    /\ run[r].status = "absent" => LinkOf(r) = NoApproval
    /\ LinkOf(r) # NoApproval =>
          approval[LinkOf(r)] # "none" /\ run[r].verdict \in {"pending", "approved", "rejected"}

RunsInv ==
    /\ \A w \in Slots : AskingOK(w) /\ LinkedOK(w)
    /\ \A r \in Runs : RowOK(r)

(* A decision that is taken, and whose effects are not all applied.        *)
Holds(q, a) == request[q].stage \in {"decided", "applied"} /\ request[q].approval = a

Undecided(a) == steps[a] = <<>> \/ steps[a][1] = "pending"

(* Workflows have one step; who decides it holds the approval alone, until *)
(* the effects are counted, and knows what the approval says.              *)
ApprovalOnce(a) ==
    /\ Len(steps[a]) <= 1 /\ effects[a] <= 1
    /\ Undecided(a) => effects[a] = 0 /\ \A q \in Requests : ~Holds(q, a)
    /\ approval[a] \in {"none", "pending"} => Undecided(a)
    /\ approval[a] \in Decision => Len(steps[a]) = 1 /\ steps[a][1] = approval[a]

HolderOnce(q, a) ==
    Holds(q, a) =>
        /\ effects[a] = 0 /\ request[q].verdict = approval[a]
        /\ \A p \in Requests : Holds(p, a) => p = q

SingleInv == \A a \in Approvals : ApprovalOnce(a) /\ \A q \in Requests : HolderOnce(q, a)

(* The verdict of a linked run is that of its approval.                    *)
VerdictInv ==
    \A r \in Runs : LinkOf(r) # NoApproval /\ run[r].verdict # "pending" =>
        run[r].verdict = approval[LinkOf(r)]

PickedInv ==
    \A w \in Slots : slot[w].pc = "picked" /\ LinkOf(slot[w].run) # NoApproval =>
        run[slot[w].run].verdict = "approved"

(* A conclusion that is on its way to the task.                            *)
Concluding(a) ==
    \E q \in Requests :
        /\ request[q].approval = a
        /\ \/ request[q].stage = "applied"
           \/ request[q].stage = "decided" /\ request[q].verdict # "pending"

Decidable(a) == approval[a] = "pending" /\ PendingSteps(a) # {}

(* Nobody decides an approval before its slot has linked it.               *)
Untouched(w) ==
    /\ slot[w].pc \in HasApproval =>
          /\ approval[slot[w].approval] = "pending"
          /\ \A q \in Requests : request[q].stage # "idle" => request[q].approval # slot[w].approval
    /\ slot[w].pc \in {"opened", "linked"} => steps[slot[w].approval] # <<>>

StepsOK(a) ==
    /\ approval[a] = "none" => steps[a] = <<>>
    /\ approval[a] = "pending" => steps[a] = <<>> \/ PendingSteps(a) # {}

BroughtOn == \E r \in Runs : LinkOf(r) # NoApproval /\ (Decidable(LinkOf(r)) \/ Concluding(LinkOf(r)))

WaitInv ==
    /\ \A a \in Approvals : StepsOK(a)
    /\ \A w \in Slots : Untouched(w)
    /\ task = "waiting_approval" => BroughtOn

Busy(w) == slot[w].pc # "idle"
Open(a) == approval[a] = "pending" \/ \E q \in Requests : Holds(q, a)
Owns(w, a) == slot[w].pc \in HasApproval /\ slot[w].approval = a

(* The task is in the queue, or with one slot, or with one approval.       *)
BallInv ==
    /\ \A v, w \in Slots : Busy(v) /\ Busy(w) => v = w
    /\ \A w \in Slots, a \in Approvals : Busy(w) /\ Open(a) => Owns(w, a)
    /\ \A a, b \in Approvals : Open(a) /\ Open(b) => a = b
    /\ task \in {"queued", "completed"} =>
          (\A w \in Slots : ~Busy(w)) /\ (\A a \in Approvals : ~Open(a))
    /\ task = "running" => \E w \in Slots : Busy(w)

(* A run of a high-risk task: it exists only on its way to the link, or    *)
(* with one.                                                               *)
RunHigh(r) ==
    run[r].status = "absent" \/ LinkOf(r) # NoApproval
        \/ \E w \in Slots : slot[w].pc \in Asking /\ slot[w].run = r

PickedHigh(w) ==
    /\ slot[w].pc \in {"picked", "executing"} => LinkOf(slot[w].run) # NoApproval
    /\ slot[w].pc = "picked" => run[slot[w].run].verdict = "approved"

HighInv == risk = "high" => (\A r \in Runs : RunHigh(r)) /\ (\A w \in Slots : PickedHigh(w))

(* ensureApprovalWorkflow leaves an open workflow alone and opens it with  *)
(* one pending step otherwise.                                             *)
LEMMA OpenedIsOpen ==
    ASSUME TypeOK, NEW a \in Approvals
    PROVE  /\ Opened(a) \in Seq({"pending", "approved", "rejected"})
           /\ Len(Opened(a)) \in 1..MaxSteps /\ Len(steps[a]) <= Len(Opened(a))
           /\ \A i \in DOMAIN steps[a] : Opened(a)[i] = steps[a][i]
  <1>1. steps[a] \in Seq({"pending", "approved", "rejected"}) /\ Len(steps[a]) <= MaxSteps
    BY DEF TypeOK
  <1>2. CASE steps[a] = <<>>
    BY <1>2, BoundAssumption DEF Opened
  <1>3. CASE steps[a] # <<>>
    BY <1>1, <1>3, EmptySeq, BoundAssumption DEF Opened
  <1> QED BY <1>2, <1>3
(* What an approval has been through stays: it is not forgotten, its       *)
(* workflow only grows, and a decided step keeps its decision.             *)
Kept(a) ==
    /\ steps'[a] \in Seq({"pending", "approved", "rejected"})
    /\ Len(steps[a]) <= Len(steps'[a]) /\ Len(steps'[a]) <= MaxSteps
    /\ \A i \in DOMAIN steps[a] \ PendingSteps(a) : steps'[a][i] = steps[a][i]
    /\ approval[a] # "none" => approval'[a] # "none"

AllKept ==
    /\ steps' \in [Approvals -> Seq({"pending", "approved", "rejected"})]
    /\ \A a \in Approvals : Kept(a)

(* Every action keeps what approvals have been through.                    *)
LEMMA StepsKept ==
    ASSUME Typed, Next
    PROVE  AllKept
  <1> USE DEF Typed, TypeOK, AllKept
  <1>1. ASSUME NEW w \in Slots, Claim(w) \/ AutoApprove(w) \/ MarkToolRunApprovalPending(w) \/
           MarkTaskWaitingApproval(w) \/ StartToolRun(w) \/ EndToolRun(w) \/ Deliver(w) \/
           GiveUp(w) \/ Throw(w) \/ CrashRunner(w) PROVE AllKept
    BY <1>1 DEF Claim, Kept, AutoApprove, MarkToolRunApprovalPending, MarkTaskWaitingApproval,
           StartToolRun, EndToolRun, Deliver, GiveUp, Throw, CrashRunner
  <1>2. ASSUME NEW w \in Slots, NEW r \in Runs, PickQueuedRun(w, r) \/ CreateToolRun(w, r)
           PROVE AllKept
    BY <1>2 DEF PickQueuedRun, Kept, CreateToolRun
  <1>3. CASE RecoverStaleTask \/ ExpireWaitingTask \/ CancelTask \/ CrashOrchestrator
    BY <1>3 DEF RecoverStaleTask, Kept, ExpireWaitingTask, CancelTask, CrashOrchestrator
  <1>4. ASSUME NEW r \in Runs, TimeOutRun(r) \/ CleanOrphanRun(r) PROVE AllKept
    BY <1>4 DEF TimeOutRun, Kept, CleanOrphanRun
  <1>5. ASSUME NEW q \in Requests, ApplyToRuns(q) \/ ApplyToTask(q) PROVE AllKept
    <2>1. UNCHANGED <<approval, steps>>
      BY <1>5 DEF ApplyToRuns, ApplyToTask
    <2> QED BY <2>1 DEF Kept
  <1>6. ASSUME NEW w \in Slots, NEW a \in Approvals, CreateApproval(w, a) PROVE AllKept
    BY <1>6 DEF CreateApproval, Kept
  <1>7. ASSUME NEW w \in Slots, OpenWorkflow(w) PROVE AllKept
    <2>1. slot[w].approval \in Approvals
      BY <1>7 DEF OpenWorkflow, SlotBound, HasApproval
    <2> QED BY <1>7, <2>1, OpenedIsOpen DEF OpenWorkflow, Kept, PendingSteps
  <1>8. ASSUME NEW q \in Requests, DecideStep(q) PROVE AllKept
    <2> DEFINE a == request[q].approval
               i == request[q].step
               v == request[q].verdict
    <2>1. a \in Approvals /\ i \in 1..Len(steps[a]) /\ v \in Decision /\ approval[a] # "none"
      BY <1>8 DEF DecideStep, RequestBound
    <2>2. CASE steps[a][i] # "pending"
      BY <1>8, <2>2 DEF DecideStep, Kept
    <2>3. CASE steps[a][i] = "pending"
      <3>1. /\ steps' = [steps EXCEPT ![a] = [steps[a] EXCEPT ![i] = v]] 
            /\ approval' \in {approval, [approval EXCEPT ![a] = v]}
        BY <1>8, <2>3 DEF DecideStep
      <3>2. /\ [steps[a] EXCEPT ![i] = v] \in Seq({"pending", "approved", "rejected"})
            /\ Len([steps[a] EXCEPT ![i] = v]) = Len(steps[a])
            /\ \A j \in 1..Len(steps[a]) : j # i => [steps[a] EXCEPT ![i] = v][j] = steps[a][j]
        BY <2>1, ExceptSeq DEF Decision
      <3>3. Kept(a)
        <4>1. i \in PendingSteps(a) /\ DOMAIN steps[a] = 1..Len(steps[a])
          BY <2>1, <2>3 DEF PendingSteps
        <4>2. steps'[a] = [steps[a] EXCEPT ![i] = v] /\ (approval'[a] = approval[a] \/ approval'[a] = v)
          BY <2>1, <3>1
        <4>3. approval'[a] # "none" /\ Len(steps[a]) \in Nat /\ Len(steps[a]) <= MaxSteps
          BY <2>1, <4>2 DEF Decision
        <4> HIDE DEF a, i, v, Typed, TypeOK
        <4> QED BY <3>2, <4>1, <4>2, <4>3 DEF Kept
      <3>4. ASSUME NEW b \in Approvals, b # a PROVE Kept(b)
        BY <2>1, <3>1, <3>4 DEF Kept
      <3> HIDE DEF a, i, v
      <3> QED BY <2>1, <3>1, <3>2, <3>3, <3>4
    <2> QED BY <2>2, <2>3
  <1>9. ASSUME NEW q \in Requests, NEW a \in Approvals, NEW i \in 1..MaxSteps, NEW v \in
           Decision, ReceiveDecision(q, a, i, v) PROVE AllKept
    BY <1>9, OpenedIsOpen DEF ReceiveDecision, Kept, PendingSteps
  <1>10. ASSUME NEW a \in Approvals, Escalate(a) PROVE AllKept
    <2>1. /\ steps'[a] \in Seq({"pending", "approved", "rejected"})
          /\ Len(steps'[a]) = Len(Opened(a)) + 1
          /\ \A j \in 1..Len(Opened(a)) : steps'[a][j] = Opened(a)[j]
      BY <1>10, OpenedIsOpen, AppendProperties DEF Escalate
    <2>2. Len(Opened(a)) < MaxSteps /\ MaxSteps \in Nat /\ Len(steps[a]) \in Nat /\ approval' = approval
      BY <1>10, BoundAssumption DEF Escalate
    <2>4. /\ Len(Opened(a)) \in Nat /\ Len(steps[a]) <= Len(Opened(a))
          /\ \A i \in DOMAIN steps[a] : Opened(a)[i] = steps[a][i]
      BY OpenedIsOpen
    <2>5. Kept(a)
      <3>1. DOMAIN steps[a] \subseteq 1..Len(Opened(a))
        BY <2>2, <2>4
      <3>2. \A i \in DOMAIN steps[a] : steps'[a][i] = steps[a][i]
        BY <2>1, <2>4, <3>1
      <3> HIDE DEF Typed, TypeOK
      <3> QED BY <2>1, <2>2, <2>4, <3>2 DEF Kept
    <2>3. ASSUME NEW b \in Approvals, b # a PROVE Kept(b)
      BY <1>10, <2>3 DEF Escalate, Kept
    <2> QED BY <1>10, <2>1, <2>3, <2>5 DEF Escalate
  <1> QED
    BY <1>1, <1>2, <1>3, <1>4, <1>5, <1>6, <1>7, <1>8, <1>9, <1>10
       DEF Next, SlotStep, RequestStep, Decision
(* The types of the tables, but for the workflows, which AllKept has.      *)
Tables ==
    /\ task \in TaskStatus /\ risk \in Risks /\ faults \in Nat
    /\ run \in [Runs -> RunRow] /\ effects \in [Approvals -> Nat]
    /\ approval \in [Approvals -> {"none", "pending", "approved", "rejected"}]
    /\ slot \in [Slots -> SlotState]
    /\ request \in [Requests -> RequestState]

(* Every action keeps the types of the tables.                             *)
LEMMA RowsStep ==
    ASSUME Typed, Next, AllKept
    PROVE  Tables'
  <1> USE DEF Tables
  <1>a. Tables
    BY DEF Typed, TypeOK
  <1>b. /\ \A w \in Slots : SlotBound(w)
        /\ \A q \in Requests : RequestBound(q)
    BY DEF Typed
  <1>c. \A a \in Approvals : approval[a] # "none" => approval'[a] # "none"
    BY DEF AllKept, Kept
  <1> USE <1>a
  <1>1. ASSUME NEW w \in Slots, Claim(w) PROVE Tables'
    <2>1. slot' \in [Slots -> SlotState]
      BY <1>1 DEF Claim, IdleSlot, SlotState, SlotPc
    <2>2. task' \in TaskStatus
      BY <1>1 DEF Claim, TaskStatus
    <2> QED BY <1>1, <2>1, <2>2 DEF Claim
  <1>2. ASSUME NEW w \in Slots, NEW r \in Runs, PickQueuedRun(w, r) PROVE Tables'
    <2> DEFINE s == [slot[w] EXCEPT !.pc = "picked", !.run = r, !.resumed = TRUE]
    <2>1. s \in SlotState
      BY DEF SlotState, SlotPc
    <2>2. slot' = [slot EXCEPT ![w] = s]
      BY <1>2 DEF PickQueuedRun
    <2> QED BY <1>2, <2>1, <2>2 DEF PickQueuedRun
  <1>3. ASSUME NEW w \in Slots, NEW r \in Runs, CreateToolRun(w, r) PROVE Tables'
    <2>1. slot' \in [Slots -> SlotState]
      BY <1>3 DEF CreateToolRun, IdleSlot, SlotState,
             SlotPc
    <2>2. run' \in [Runs -> RunRow]
      BY <1>3 DEF CreateToolRun, NoRow, RunRow, RunStatus,
             Verdicts
    <2> QED BY <1>3, <2>1, <2>2 DEF CreateToolRun
  <1>4. ASSUME NEW w \in Slots, AutoApprove(w) PROVE Tables'
    <2>1. slot[w].run \in Runs
      BY <1>4, <1>b DEF AutoApprove, SlotBound, HasRun, SlotPc
    <2>2. slot' \in [Slots -> SlotState]
      BY <1>4 DEF AutoApprove, Goto, SlotState, SlotPc
    <2>3. run' \in [Runs -> RunRow]
      BY <1>4, <2>1 DEF AutoApprove, RunRow, RunStatus,
             Verdicts
    <2> QED BY <1>4, <2>2, <2>3 DEF AutoApprove
  <1>5. ASSUME NEW w \in Slots, NEW a \in Approvals, CreateApproval(w, a) PROVE Tables'
    <2>1. slot' \in [Slots -> SlotState]
      BY <1>5 DEF CreateApproval, SlotState, SlotPc
    <2> QED BY <1>5, <2>1 DEF CreateApproval
  <1>6. ASSUME NEW w \in Slots, OpenWorkflow(w) PROVE Tables'
    <2>1. slot' \in [Slots -> SlotState]
      BY <1>6 DEF OpenWorkflow, Goto, SlotState, SlotPc
    <2> QED BY <1>6, <2>1 DEF OpenWorkflow
  <1>7. ASSUME NEW w \in Slots, MarkToolRunApprovalPending(w) PROVE Tables'
    <2>1. slot[w].run \in Runs /\ slot[w].approval \in Approvals
      BY <1>7, <1>b DEF MarkToolRunApprovalPending, SlotBound, HasRun, HasApproval, SlotPc
    <2>2. slot' \in [Slots -> SlotState]
      BY <1>7 DEF MarkToolRunApprovalPending, Goto,
             SlotState, SlotPc
    <2>3. run' \in [Runs -> RunRow]
      BY <1>7, <2>1 DEF MarkToolRunApprovalPending, RunRow,
             RunStatus, Verdicts
    <2> QED BY <1>7, <2>2, <2>3 DEF MarkToolRunApprovalPending
  <1>8. ASSUME NEW w \in Slots, StartToolRun(w) PROVE Tables'
    <2>1. slot[w].run \in Runs
      BY <1>8, <1>b DEF StartToolRun, SlotBound, HasRun, SlotPc
    <2>2. slot' \in [Slots -> SlotState]
      BY <1>8 DEF StartToolRun, Goto, SlotState, SlotPc
    <2>3. run' \in [Runs -> RunRow]
      BY <1>8, <2>1 DEF StartToolRun, RunRow, RunStatus,
             Verdicts
    <2> QED BY <1>8, <2>2, <2>3 DEF StartToolRun
  <1>9. ASSUME NEW w \in Slots, EndToolRun(w) PROVE Tables'
    <2>1. slot[w].run \in Runs
      BY <1>9, <1>b DEF EndToolRun, SlotBound, HasRun, SlotPc
    <2>2. slot' \in [Slots -> SlotState]
      BY <1>9 DEF EndToolRun, Goto, SlotState, SlotPc
    <2>3. run' \in [Runs -> RunRow]
      BY <1>9, <2>1 DEF EndToolRun, RunRow, RunStatus,
             Verdicts
    <2> QED BY <1>9, <2>2, <2>3 DEF EndToolRun
  <1>10. ASSUME NEW w \in Slots, MarkTaskWaitingApproval(w) \/ Deliver(w) \/ GiveUp(w)
           \/ Throw(w) \/ CrashRunner(w) PROVE Tables'
    <2>1. slot' = [slot EXCEPT ![w] = IdleSlot]
      BY <1>10 DEF MarkTaskWaitingApproval, Deliver, GiveUp, Throw, CrashRunner, Leave
    <2>2. slot' \in [Slots -> SlotState]
      BY <2>1 DEF IdleSlot, SlotState, SlotPc
    <2>3. task' \in TaskStatus
      BY <1>10 DEF MarkTaskWaitingApproval, Deliver, GiveUp, Throw, CrashRunner, TaskStatus
    <2>4. faults' \in Nat
      BY <1>10 DEF MarkTaskWaitingApproval, Deliver, GiveUp, Throw, CrashRunner, Fault
    <2> QED BY <1>10, <2>2, <2>3, <2>4 DEF MarkTaskWaitingApproval, Deliver, GiveUp, Throw,
               CrashRunner
  <1>11. CASE RecoverStaleTask \/ ExpireWaitingTask \/ CancelTask
    <2>1. task' \in TaskStatus
      BY <1>11 DEF RecoverStaleTask, ExpireWaitingTask,
             CancelTask, TaskStatus
    <2>2. faults' \in Nat
      BY <1>11 DEF RecoverStaleTask, ExpireWaitingTask, CancelTask,
             Fault
    <2> QED BY <1>11, <2>1, <2>2 DEF RecoverStaleTask, ExpireWaitingTask, CancelTask
  <1>12. CASE CrashOrchestrator
    <2>1. request' \in [Requests -> RequestState]
      BY <1>12, BoundAssumption DEF
             CrashOrchestrator, IdleRequest, RequestState
    <2>2. faults' \in Nat
      BY <1>12 DEF CrashOrchestrator, Fault
    <2> QED BY <1>12, <2>1, <2>2 DEF CrashOrchestrator
  <1>13. ASSUME NEW r \in Runs, TimeOutRun(r) \/ CleanOrphanRun(r) PROVE Tables'
    <2>1. run' \in [Runs -> RunRow]
      BY <1>13 DEF TimeOutRun, CleanOrphanRun, RunRow,
             RunStatus, Verdicts
    <2>2. task' \in TaskStatus
      BY <1>13 DEF TimeOutRun, CleanOrphanRun, TaskStatus
    <2>3. faults' \in Nat
      BY <1>13 DEF TimeOutRun, CleanOrphanRun, Fault
    <2> QED BY <1>13, <2>1, <2>2, <2>3 DEF TimeOutRun, CleanOrphanRun
  <1>14. ASSUME NEW q \in Requests, DecideStep(q) PROVE Tables'
    <2>1. request[q].approval \in Approvals /\ request[q].verdict \in Decision
      BY <1>14, <1>b DEF DecideStep, RequestBound
    <2>2. approval' \in [Approvals -> {"none", "pending", "approved", "rejected"}]
      BY <1>14, <2>1 DEF DecideStep, Decision
    <2>3. request' \in [Requests -> RequestState]
      <3>1. approval'[request[q].approval] \in {"pending", "approved", "rejected"}
        BY <1>14, <1>b, <1>c, <2>1, <2>2 DEF RequestBound, DecideStep
      <3>2. request'[q] \in RequestState /\ request' = [request EXCEPT ![q] = request'[q]]
        BY <1>14, <3>1, BoundAssumption DEF DecideStep, IdleRequest, RequestState
      <3> QED BY <3>2
    <2> QED BY <1>14, <2>2, <2>3 DEF DecideStep
  <1>15. ASSUME NEW q \in Requests, ApplyToRuns(q) PROVE Tables'
    <2> DEFINE a == request[q].approval
               v == request[q].verdict
    <2>1. v \in {"pending", "approved", "rejected"}
      BY <1>15 DEF RequestState
    <2>2. run' \in [Runs -> RunRow]
      <3>1. CASE v = "pending"
        BY <1>15, <3>1 DEF ApplyToRuns
      <3>2. CASE v # "pending"
        <4>1. run' = [r \in Runs |->
                IF run[r].approval = a
                THEN [run[r] EXCEPT !.status = IF v = "approved" THEN "queued" ELSE "blocked", !.verdict = v]
                ELSE run[r]]
          BY <1>15, <3>2 DEF ApplyToRuns
        <4> HIDE DEF a, v
        <4> QED BY <2>1, <4>1 DEF RunRow, RunStatus, Verdicts
      <3> QED BY <3>1, <3>2
    <2>3. request' \in [Requests -> RequestState]
      <3>1. request' = [request EXCEPT ![q] = IdleRequest] \/ request' = [request EXCEPT ![q].stage = "applied"]
        BY <1>15 DEF ApplyToRuns
      <3> QED BY <3>1, BoundAssumption DEF IdleRequest, RequestState
    <2> QED BY <1>15, <2>2, <2>3 DEF ApplyToRuns
  <1>16. ASSUME NEW q \in Requests, ApplyToTask(q) PROVE Tables'
    <2>1. request[q].approval \in Approvals
      BY <1>16, <1>b DEF ApplyToTask, RequestBound
    <2>2. effects' \in [Approvals -> Nat] /\ task' \in TaskStatus
      BY <1>16, <2>1 DEF ApplyToTask, TaskStatus
    <2>3. request' \in [Requests -> RequestState]
      BY <1>16, BoundAssumption DEF ApplyToTask, IdleRequest, RequestState
    <2> QED BY <1>16, <2>2, <2>3 DEF ApplyToTask
  <1>17. ASSUME NEW q \in Requests, NEW a \in Approvals, NEW i \in 1..MaxSteps, NEW v
           \in Decision, ReceiveDecision(q, a, i, v) PROVE Tables'
    <2>1. request' \in [Requests -> RequestState]
      BY <1>17, BoundAssumption DEF
             ReceiveDecision, Decision, RequestState
    <2>2. faults' \in Nat
      BY <1>17 DEF ReceiveDecision, Fault
    <2> QED BY <1>17, <2>1, <2>2 DEF ReceiveDecision
  <1>18. ASSUME NEW a \in Approvals, Escalate(a) PROVE Tables'
    <2>1. faults' \in Nat
      BY <1>18 DEF Escalate, Fault
    <2> QED BY <1>18, <2>1 DEF Escalate
  <1> QED
    BY <1>1, <1>2, <1>3, <1>4, <1>5, <1>6, <1>7, <1>8, <1>9, <1>10, <1>11, <1>12,
       <1>13, <1>14, <1>15, <1>16, <1>17, <1>18 DEF Next, SlotStep, RequestStep, Decision
(* ... and what the slots refer to exists.                                 *)
LEMMA SlotsStep ==
    ASSUME Typed, Next, AllKept, NEW u \in Slots
    PROVE  SlotBound(u)'
  <1> USE DEF SlotBound, HasRun, HasApproval, SlotPc
  <1>a. slot \in [Slots -> SlotState]
    BY DEF Typed, TypeOK
  <1>b. \A w \in Slots : SlotBound(w)
    BY DEF Typed
  <1>c. \A a \in Approvals : approval[a] # "none" => approval'[a] # "none"
    BY DEF AllKept, Kept
  <1> USE DEF SlotState
  <1>1. ASSUME NEW w \in Slots, Claim(w) PROVE SlotBound(u)'
    BY <1>1, <1>a, <1>b, <1>c DEF Claim, IdleSlot
  <1>2. ASSUME NEW w \in Slots, NEW r \in Runs, PickQueuedRun(w, r) PROVE SlotBound(u)'
    BY <1>2, <1>a, <1>b, <1>c DEF PickQueuedRun, Executable
  <1>3. ASSUME NEW w \in Slots, NEW r \in Runs, CreateToolRun(w, r) PROVE SlotBound(u)'
    BY <1>3, <1>a, <1>b, <1>c DEF CreateToolRun, NoRow, IdleSlot
  <1>4. ASSUME NEW w \in Slots, NEW a \in Approvals, CreateApproval(w, a) PROVE SlotBound(u)'
    <2>1. CASE u = w
      <3>1. slot'[u].pc = "asked" /\ slot'[u].run = slot[u].run /\ slot'[u].approval = a
        BY <1>4, <1>a, <2>1 DEF CreateApproval
      <3>2. approval'[a] # "none"
        BY <1>4 DEF CreateApproval, Typed, TypeOK
      <3> QED BY <1>4, <1>b, <2>1, <3>1, <3>2 DEF CreateApproval
    <2>2. CASE u # w
      BY <1>4, <1>a, <1>b, <1>c, <2>2 DEF CreateApproval
    <2> QED BY <2>1, <2>2
  <1>5. ASSUME NEW w \in Slots, AutoApprove(w) \/ OpenWorkflow(w)
           \/ MarkToolRunApprovalPending(w) \/ StartToolRun(w) \/ EndToolRun(w)
           PROVE SlotBound(u)'
    BY <1>5, <1>a, <1>b, <1>c DEF AutoApprove, Goto, OpenWorkflow, MarkToolRunApprovalPending,
           StartToolRun, EndToolRun
  <1>6. ASSUME NEW w \in Slots, MarkTaskWaitingApproval(w) \/ Deliver(w) \/ GiveUp(w)
           \/ Throw(w) \/ CrashRunner(w) PROVE SlotBound(u)'
    BY <1>6, <1>a, <1>b, <1>c DEF MarkTaskWaitingApproval, Leave, IdleSlot, Deliver, GiveUp,
           Throw, Fault, CrashRunner
  <1>7. CASE RecoverStaleTask \/ ExpireWaitingTask \/ CancelTask \/ CrashOrchestrator
    BY <1>7, <1>a, <1>b, <1>c DEF RecoverStaleTask, ExpireWaitingTask, CancelTask,
           CrashOrchestrator
  <1>8. ASSUME NEW r \in Runs, TimeOutRun(r) \/ CleanOrphanRun(r) PROVE SlotBound(u)'
    BY <1>8, <1>a, <1>b, <1>c DEF TimeOutRun, CleanOrphanRun
  <1>9. ASSUME NEW q \in Requests, DecideStep(q) \/ ApplyToRuns(q) \/ ApplyToTask(q)
           PROVE SlotBound(u)'
    BY <1>9, <1>a, <1>b, <1>c DEF DecideStep, ApplyToRuns, ApplyToTask
  <1>10. ASSUME NEW q \in Requests, NEW a \in Approvals, NEW i \in 1..MaxSteps, NEW v
           \in Decision, ReceiveDecision(q, a, i, v) PROVE SlotBound(u)'
    BY <1>10, <1>a, <1>b, <1>c DEF ReceiveDecision
  <1>11. ASSUME NEW a \in Approvals, Escalate(a) PROVE SlotBound(u)'
    BY <1>11, <1>a, <1>b, <1>c DEF Escalate
  <1> QED
    BY <1>1, <1>2, <1>3, <1>4, <1>5, <1>6, <1>7, <1>8, <1>9, <1>10, <1>11
       DEF Next, SlotStep, RequestStep, Decision

(* ... and what the requests refer to exists.                              *)
LEMMA RequestsStep ==
    ASSUME Typed, Next, AllKept, NEW p \in Requests
    PROVE  RequestBound(p)'
  <1> USE DEF RequestBound, RequestState, Decision
  <1>a. request \in [Requests -> RequestState]
    BY DEF Typed, TypeOK
  <1>b. \A q \in Requests : RequestBound(q)
    BY DEF Typed
  <1>c. \A a \in Approvals : approval[a] # "none" => approval'[a] # "none"
    BY DEF AllKept, Kept
  <1>d. \A a \in Approvals : DOMAIN steps[a] \subseteq DOMAIN steps'[a]
    BY DEF AllKept, Kept, Typed, TypeOK
  <1>1. ASSUME NEW w \in Slots, Claim(w) \/ AutoApprove(w) \/ OpenWorkflow(w)
           \/ MarkToolRunApprovalPending(w) \/ StartToolRun(w) \/ EndToolRun(w)
           \/ MarkTaskWaitingApproval(w) \/ Deliver(w) \/ GiveUp(w) \/ Throw(w)
           \/ CrashRunner(w) PROVE RequestBound(p)'
    BY <1>1, <1>a, <1>b, <1>c, <1>d DEF Claim, AutoApprove, OpenWorkflow,
           MarkToolRunApprovalPending, StartToolRun, EndToolRun, MarkTaskWaitingApproval,
           Deliver, GiveUp, Throw, CrashRunner
  <1>2. ASSUME NEW w \in Slots, NEW r \in Runs, PickQueuedRun(w, r) \/ CreateToolRun(w, r)
           PROVE RequestBound(p)'
    BY <1>2, <1>a, <1>b, <1>c, <1>d DEF PickQueuedRun, CreateToolRun
  <1>3. ASSUME NEW w \in Slots, NEW a \in Approvals, CreateApproval(w, a) PROVE RequestBound(p)'
    BY <1>3, <1>a, <1>b, <1>c, <1>d DEF CreateApproval
  <1>4. CASE RecoverStaleTask \/ ExpireWaitingTask \/ CancelTask
    BY <1>4, <1>a, <1>b, <1>c, <1>d DEF RecoverStaleTask, ExpireWaitingTask, CancelTask
  <1>5. CASE CrashOrchestrator
    BY <1>5, <1>a, <1>b, <1>c, <1>d DEF CrashOrchestrator, Fault, IdleRequest
  <1>6. ASSUME NEW r \in Runs, TimeOutRun(r) \/ CleanOrphanRun(r) PROVE RequestBound(p)'
    BY <1>6, <1>a, <1>b, <1>c, <1>d DEF TimeOutRun, CleanOrphanRun
  <1>7. ASSUME NEW q \in Requests, DecideStep(q) PROVE RequestBound(p)'
    <2>1. CASE p # q
      BY <1>7, <1>a, <1>b, <1>c, <1>d, <2>1 DEF DecideStep
    <2>2. CASE p = q /\ request'[q].stage # "idle"
      <3>1. /\ request'[q].stage = "decided" /\ request'[q].approval = request[q].approval
            /\ request'[q].step = request[q].step
        BY <1>7, <1>a, <2>2 DEF DecideStep, IdleRequest
      <3> QED BY <1>7, <1>b, <1>c, <1>d, <2>2, <3>1 DEF DecideStep
    <2> QED BY <2>1, <2>2
  <1>8. ASSUME NEW q \in Requests, ApplyToRuns(q) PROVE RequestBound(p)'
    <2>1. CASE request[q].verdict = "pending"
      BY <1>8, <1>a, <1>b, <1>c, <1>d, <2>1 DEF ApplyToRuns, IdleRequest
    <2>2. CASE request[q].verdict # "pending"
      <3>1. request' = [request EXCEPT ![q].stage = "applied"] /\ UNCHANGED <<approval, steps>>
        BY <1>8, <2>2 DEF ApplyToRuns
      <3> QED BY <1>8, <1>a, <1>b, <2>2, <3>1 DEF ApplyToRuns
    <2> QED BY <2>1, <2>2
  <1>9. ASSUME NEW q \in Requests, ApplyToTask(q) PROVE RequestBound(p)'
    BY <1>9, <1>a, <1>b, <1>c, <1>d DEF ApplyToTask, IdleRequest
  <1>10. ASSUME NEW q \in Requests, NEW a \in Approvals, NEW i \in 1..MaxSteps, NEW v
           \in Decision, ReceiveDecision(q, a, i, v) PROVE RequestBound(p)'
    <2>1. request'[q] = [stage |-> "read", approval |-> a, step |-> i, verdict |-> v]
          /\ request' = [request EXCEPT ![q] = request'[q]]
      BY <1>10, <1>a DEF ReceiveDecision
    <2>2. CASE p # q
      BY <1>10, <1>a, <1>b, <1>c, <1>d, <2>1, <2>2 DEF ReceiveDecision
    <2>3. CASE p = q
      BY <1>10, <1>c, <2>1, <2>3 DEF ReceiveDecision
    <2> QED BY <2>2, <2>3
  <1>11. ASSUME NEW a \in Approvals, Escalate(a) PROVE RequestBound(p)'
    BY <1>11, <1>a, <1>b, <1>c, <1>d DEF Escalate, Fault
  <1> QED
    BY <1>1, <1>2, <1>3, <1>4, <1>5, <1>6, <1>7, <1>8, <1>9, <1>10, <1>11
       DEF Next, SlotStep, RequestStep, Decision

(* The types and the references hold in every state.                       *)
LEMMA TypedStep ==
    ASSUME Typed, [Next]_vars
    PROVE  Typed'
  <1>1. CASE Next
    <2>1. AllKept
      BY <1>1, StepsKept
    <2>2. Tables'
      BY <1>1, <2>1, RowsStep
    <2>3. \A w \in Slots : SlotBound(w)'
      BY <1>1, <2>1, SlotsStep
    <2>4. \A q \in Requests : RequestBound(q)'
      BY <1>1, <2>1, RequestsStep
    <2> QED BY <2>1, <2>2, <2>3, <2>4 DEF Typed, TypeOK, Tables, AllKept, Kept
  <1>2. CASE UNCHANGED vars
    BY <1>2 DEF vars, Typed, TypeOK, SlotBound, RequestBound
  <1> QED BY <1>1, <1>2

(* They hold at the start.                                                 *)
LEMMA TypedInitially == Init => Typed
  <1> SUFFICES ASSUME Init PROVE Typed
    OBVIOUS
  <1>1. TypeOK
    BY EmptySeq, BoundAssumption DEF Init, TypeOK, TaskStatus, NoRow, RunRow, Verdicts,
       IdleSlot, SlotState,
       SlotPc, IdleRequest, RequestState
  <1>2. \A w \in Slots : SlotBound(w)
    BY DEF Init, IdleSlot, SlotBound, HasRun, HasApproval
  <1>3. \A q \in Requests : RequestBound(q)
    BY DEF Init, IdleRequest, RequestBound
  <1> QED BY <1>1, <1>2, <1>3 DEF Typed

(* In every state the tables have their types, and what a slot or a        *)
(* request refers to is there.                                             *)
THEOREM Types == Spec => []Typed
  BY TypedInitially, TypedStep, PTL DEF Spec

(* An approval that is asked for is never forgotten, and a step that is    *)
(* decided keeps its decision: of the requests that read it pending before *)
(* their await, the later ones change nothing.                             *)
THEOREM Decided == Spec => DecisionsStand
  <1>1. ASSUME Typed, [Next]_vars
        PROVE  [\A a \in Approvals :
                  /\ approval[a] # "none" => approval'[a] # "none"
                  /\ \A i \in DOMAIN steps[a] \ PendingSteps(a) : steps'[a][i] = steps[a][i]]_vars
    BY <1>1, StepsKept DEF AllKept, Kept
  <1> QED BY <1>1, Types, PTL DEF Spec, DecisionsStand
(* What a step is to an approval: it leaves the decision aside, takes it,  *)
(* or applies its effects to the task.                                     *)
Aside(a) ==
    /\ effects'[a] = effects[a]
    /\ \/ approval'[a] = approval[a]
       \/ /\ approval[a] = "none" /\ approval'[a] = "pending"
          /\ \E w \in Slots : CreateApproval(w, a)
    /\ steps'[a] = steps[a] \/ (steps[a] = <<>> /\ steps'[a] = <<"pending">>)
    /\ \A q \in Requests : Holds(q, a)' => Holds(q, a) /\ request'[q].verdict = request[q].verdict

Taken(q, a) ==
    /\ Undecided(a) /\ approval[a] # "none" /\ Len(steps'[a]) = 1 /\ steps'[a][1] = request[q].verdict
    /\ steps'[a] # <<>> /\ request[q].verdict \in Decision
    /\ approval'[a] = request[q].verdict /\ request'[q].verdict = request[q].verdict
    /\ effects'[a] = effects[a] /\ \A p \in Requests \ {q} : request'[p] = request[p]

Applied(q, a) ==
    /\ Holds(q, a) /\ ~Holds(q, a)'
    /\ effects'[a] = effects[a] + 1 /\ UNCHANGED <<approval, steps>>
    /\ \A p \in Requests \ {q} : request'[p] = request[p]

Concerns(a) == Aside(a) \/ \E q \in Requests : Taken(q, a) \/ Applied(q, a)

(* Without escalation a workflow has one step, so who finds it pending     *)
(* decides the approval with it.                                           *)
LEMMA DecisionTakes ==
    ASSUME Typed, SingleInv, NEW q \in Requests, DecideStep(q),
           steps[request[q].approval][request[q].step] = "pending"
    PROVE  /\ Taken(q, request[q].approval)
           /\ request'[q] = [request[q] EXCEPT !.stage = "decided"]
           /\ approval' = [approval EXCEPT ![request[q].approval] = request[q].verdict]
           /\ \A b \in Approvals \ {request[q].approval} : steps'[b] = steps[b]
  <1> DEFINE a == request[q].approval
             i == request[q].step
             v == request[q].verdict
  <1>1. a \in Approvals /\ i \in 1..Len(steps[a]) /\ v \in Decision /\ approval[a] # "none"
    BY DEF Typed, TypeOK, DecideStep, RequestBound
  <1>2. steps[a] \in Seq({"pending", "approved", "rejected"})
    BY <1>1 DEF Typed, TypeOK
  <1>3. Len(steps[a]) \in Nat /\ Len(steps[a]) <= 1
    BY <1>1, <1>2 DEF SingleInv, ApprovalOnce
  <1>4. Len(steps[a]) = 1 /\ i = 1
    <2>1. \A n \in Nat : \A j \in 1..n : n <= 1 => n = 1 /\ j = 1
      OBVIOUS
    <2> HIDE DEF a, i
    <2> QED BY <1>1, <1>3, <2>1
  <1>5. Undecided(a) /\ Concludes(a, i, v)
    BY <1>4 DEF Undecided, Concludes, PendingSteps
  <1>6. /\ steps' = [steps EXCEPT ![a] = [steps[a] EXCEPT ![i] = v]]
        /\ approval' = [approval EXCEPT ![a] = v]
        /\ request' = [request EXCEPT ![q].stage = "decided", ![q].verdict = approval'[a]]
        /\ UNCHANGED effects
    BY <1>5 DEF DecideStep
  <1>7. /\ [steps[a] EXCEPT ![i] = v] \in Seq({"pending", "approved", "rejected"})
        /\ Len([steps[a] EXCEPT ![i] = v]) = 1 /\ [steps[a] EXCEPT ![i] = v][1] = v
    BY <1>1, <1>2, <1>4, ExceptSeq DEF Decision
  <1>8. /\ \A b \in Approvals \ {a} : steps'[b] = steps[b]
        /\ steps'[a] = [steps[a] EXCEPT ![i] = v] /\ approval'[a] = v
    BY <1>1, <1>6 DEF Typed, TypeOK
  <1>9. Len(steps'[a]) = 1 /\ steps'[a][1] = v /\ steps'[a] # <<>>
    BY <1>7, <1>8, EmptySeq
  <1>10. request[q] \in RequestState /\ request \in [Requests -> RequestState]
    BY DEF Typed, TypeOK
  <1>11. /\ \A p \in Requests \ {q} : request'[p] = request[p]
         /\ request'[q] = [request[q] EXCEPT !.stage = "decided", !.verdict = v]
    BY <1>6, <1>8, <1>10
  <1>12. [request[q] EXCEPT !.stage = "decided", !.verdict = v] = [request[q] EXCEPT !.stage = "decided"]
    BY <1>10 DEF RequestState
  <1>13. request'[q].verdict = v
    BY <1>10, <1>11 DEF RequestState
  <1> QED BY <1>1, <1>5, <1>6, <1>8, <1>9, <1>11, <1>12, <1>13 DEF Taken

(* Without escalation there are no other steps.                            *)
LEMMA StepConcerns ==
    ASSUME Typed, SingleInv, Next, "escalation" \notin Hazards, NEW b \in Approvals
    PROVE  Concerns(b)
  <1>a. request \in [Requests -> RequestState]
    BY DEF Typed, TypeOK
  <1>b. /\ effects \in [Approvals -> Nat]
        /\ approval \in [Approvals -> {"none", "pending", "approved", "rejected"}]
        /\ steps \in [Approvals -> Seq({"pending", "approved", "rejected"})]
    BY DEF Typed, TypeOK
  <1>1. ASSUME NEW w \in Slots, Claim(w) \/ AutoApprove(w) \/ MarkToolRunApprovalPending(w)
           \/ MarkTaskWaitingApproval(w) \/ StartToolRun(w) \/ EndToolRun(w) \/ Deliver(w)
           \/ GiveUp(w) \/ Throw(w) \/ CrashRunner(w) PROVE Concerns(b)
    <2>1. UNCHANGED <<approval, steps, request, effects>>
      BY <1>1 DEF Claim, AutoApprove,
             MarkToolRunApprovalPending, MarkTaskWaitingApproval, StartToolRun, EndToolRun,
             Deliver, GiveUp, Throw, CrashRunner
    <2> QED BY <2>1 DEF Aside, Holds, Concerns
  <1>2. ASSUME NEW w \in Slots, NEW r \in Runs, PickQueuedRun(w, r) \/ CreateToolRun(w, r)
           PROVE Concerns(b)
    <2>1. UNCHANGED <<approval, steps, request, effects>>
      BY <1>2 DEF PickQueuedRun,
             CreateToolRun
    <2> QED BY <2>1 DEF Aside, Holds, Concerns
  <1>3. CASE RecoverStaleTask \/ ExpireWaitingTask \/ CancelTask
    <2>1. UNCHANGED <<approval, steps, request, effects>>
      BY <1>3 DEF RecoverStaleTask,
             ExpireWaitingTask, CancelTask
    <2> QED BY <2>1 DEF Aside, Holds, Concerns
  <1>4. ASSUME NEW r \in Runs, TimeOutRun(r) \/ CleanOrphanRun(r) PROVE Concerns(b)
    <2>1. UNCHANGED <<approval, steps, request, effects>>
      BY <1>4 DEF TimeOutRun,
             CleanOrphanRun
    <2> QED BY <2>1 DEF Aside, Holds, Concerns
  <1>5. ASSUME NEW w \in Slots, NEW a \in Approvals, CreateApproval(w, a) PROVE Concerns(b)
    <2>1. UNCHANGED <<request, steps, effects>>
      BY <1>5 DEF CreateApproval
    <2>2. \/ approval'[b] = approval[b]
          \/ approval[b] = "none" /\ approval'[b] = "pending" /\ b = a
      BY <1>5, <1>b DEF CreateApproval
    <2> QED BY <1>5, <2>1, <2>2 DEF Aside, Holds, Concerns
  <1>6. ASSUME NEW w \in Slots, OpenWorkflow(w) PROVE Concerns(b)
    <2>1. UNCHANGED <<request, approval, effects>>
      BY <1>6 DEF OpenWorkflow
    <2>2. steps'[b] = steps[b] \/ (steps[b] = <<>> /\ steps'[b] = <<"pending">>)
      BY <1>6, <1>b DEF OpenWorkflow, Opened
    <2> QED BY <2>1, <2>2 DEF Aside, Holds, Concerns
  <1>7. CASE CrashOrchestrator
    <2>1. UNCHANGED <<approval, steps, effects>> /\ \A q \in Requests : ~Holds(q, b)'
      BY <1>7 DEF CrashOrchestrator, Holds, IdleRequest
    <2> QED BY <2>1 DEF Aside, Concerns
  <1>8. ASSUME NEW q \in Requests, DecideStep(q) PROVE Concerns(b)
    <2>1. CASE steps[request[q].approval][request[q].step] # "pending"
      <3>1. request' = [request EXCEPT ![q] = IdleRequest] /\ UNCHANGED <<approval, steps, effects>>
        BY <1>8, <2>1 DEF DecideStep
      <3> QED BY <1>a, <3>1 DEF Aside, Holds, Concerns, IdleRequest
    <2>2. CASE steps[request[q].approval][request[q].step] = "pending" /\ b = request[q].approval
      BY <1>8, <2>2, DecisionTakes DEF Concerns
    <2>3. CASE steps[request[q].approval][request[q].step] = "pending" /\ b # request[q].approval
      <3>1. ~Holds(q, b)'
        BY <1>8, <1>a, <2>3, DecisionTakes DEF Holds, RequestState
      <3>2. \A p \in Requests \ {q} : request'[p] = request[p]
        BY <1>8, <2>3, DecisionTakes DEF Taken
      <3>3. approval'[b] = approval[b] /\ steps'[b] = steps[b] /\ effects'[b] = effects[b]
        BY <1>8, <1>b, <2>3, DecisionTakes DEF DecideStep
      <3> QED BY <3>1, <3>2, <3>3 DEF Aside, Holds, Concerns
    <2> QED BY <2>1, <2>2, <2>3
  <1>9. ASSUME NEW q \in Requests, ApplyToRuns(q) PROVE Concerns(b)
    <2>1. request' = [request EXCEPT ![q] = IdleRequest] \/ request' = [request EXCEPT ![q].stage = "applied"]
      BY <1>9 DEF ApplyToRuns
    <2>2. \A p \in Requests : Holds(p, b)' => Holds(p, b) /\ request'[p].verdict = request[p].verdict
      <3>1. request[q].stage = "decided"
        BY <1>9 DEF ApplyToRuns
      <3> QED BY <1>a, <2>1, <3>1 DEF Holds, IdleRequest, RequestState
    <2>3. UNCHANGED <<approval, steps, effects>>
      BY <1>9 DEF ApplyToRuns
    <2> QED BY <2>2, <2>3 DEF Aside, Concerns
  <1>10. ASSUME NEW q \in Requests, ApplyToTask(q) PROVE Concerns(b)
    <2>1. request' = [request EXCEPT ![q] = IdleRequest] /\ UNCHANGED <<approval, steps>>
      BY <1>10 DEF ApplyToTask
    <2>2. ~Holds(q, b)' /\ \A p \in Requests \ {q} : request'[p] = request[p]
      BY <1>a, <2>1 DEF Holds, IdleRequest
    <2>3. CASE b = request[q].approval
      <3>1. Holds(q, b) /\ effects'[b] = effects[b] + 1
        BY <1>10, <1>b, <2>3 DEF ApplyToTask, Holds
      <3> QED BY <2>1, <2>2, <3>1 DEF Applied, Concerns
    <2>4. CASE b # request[q].approval
      <3>1. effects'[b] = effects[b]
        BY <1>10, <1>b, <2>4 DEF ApplyToTask
      <3> QED BY <2>1, <2>2, <3>1 DEF Aside, Concerns, Holds
    <2> QED BY <2>3, <2>4
  <1>11. ASSUME NEW q \in Requests, NEW a \in Approvals, NEW i \in 1..MaxSteps, NEW v
           \in Decision, ReceiveDecision(q, a, i, v) PROVE Concerns(b)
    <2>1. UNCHANGED <<approval, effects>>
      BY <1>11 DEF ReceiveDecision
    <2>2. steps'[b] = steps[b] \/ (steps[b] = <<>> /\ steps'[b] = <<"pending">>)
      BY <1>11, <1>b DEF ReceiveDecision, Opened
    <2>3. ~Holds(q, b)' /\ \A p \in Requests \ {q} : request'[p] = request[p]
      BY <1>11, <1>a DEF ReceiveDecision, Holds
    <2> QED BY <2>1, <2>2, <2>3 DEF Aside, Holds, Concerns
  <1>12. ASSUME NEW a \in Approvals, Escalate(a) PROVE Concerns(b)
    BY <1>12 DEF Escalate, Fault
  <1> QED
    BY <1>1, <1>2, <1>3, <1>4, <1>5, <1>6, <1>7, <1>8, <1>9, <1>10, <1>11, <1>12
       DEF Next, SlotStep, RequestStep, Decision

(* So one request takes the decision, and applies it.                      *)
LEMMA SingleStep ==
    ASSUME Typed, SingleInv, [Next]_vars, "escalation" \notin Hazards
    PROVE  SingleInv'
  <1> USE DEF ApprovalOnce, HolderOnce, Undecided, Decision
  <1>1. CASE Next
    <2> SUFFICES ASSUME NEW b \in Approvals
                 PROVE  ApprovalOnce(b)' /\ \A p \in Requests : HolderOnce(p, b)'
      BY DEF SingleInv
    <2>1. /\ ApprovalOnce(b) /\ \A p \in Requests : HolderOnce(p, b)
          /\ Concerns(b)
          /\ effects[b] \in Nat /\ approval[b] \in {"none", "pending", "approved", "rejected"}
          /\ steps[b] \in Seq({"pending", "approved", "rejected"})
      BY <1>1, StepConcerns DEF SingleInv, Typed, TypeOK
    <2>2. CASE Aside(b)
      <3>1. Undecided(b)' <=> Undecided(b)
        BY <2>2 DEF Aside
      <3>2. Len(steps'[b]) <= 1 /\ (Len(steps[b]) = 1 => steps'[b] = steps[b])
        <4>1. Len(<<"pending">>) = 1 /\ Len(<<>>) = 0
          OBVIOUS
        <4>2. CASE steps'[b] = steps[b]
          BY <2>1, <4>2
        <4>3. CASE steps[b] = <<>> /\ steps'[b] = <<"pending">>
          BY <4>1, <4>3
        <4> QED BY <2>2, <4>2, <4>3 DEF Aside
      <3> QED BY <2>1, <2>2, <3>1, <3>2 DEF Aside
    <2>3. ASSUME NEW q \in Requests, Taken(q, b)
          PROVE  ApprovalOnce(b)' /\ \A p \in Requests : HolderOnce(p, b)'
      <3>1. \A p \in Requests \ {q} : ~Holds(p, b)'
        BY <2>1, <2>3 DEF Taken, Holds
      <3> QED BY <2>1, <2>3, <3>1 DEF Taken
    <2>4. ASSUME NEW q \in Requests, Applied(q, b)
          PROVE  ApprovalOnce(b)' /\ \A p \in Requests : HolderOnce(p, b)'
      <3>1. \A p \in Requests : ~Holds(p, b)'
        BY <2>1, <2>4 DEF Applied, Holds
      <3>2. effects[b] = 0 /\ ~Undecided(b)
        BY <2>1, <2>4 DEF Applied
      <3> QED BY <2>1, <2>4, <3>1, <3>2 DEF Applied
    <2> QED BY <2>1, <2>2, <2>3, <2>4 DEF Concerns
  <1>2. CASE UNCHANGED vars
    BY <1>2 DEF vars, SingleInv, Holds
  <1> QED BY <1>1, <1>2

(* ... in every state.                                                     *)
LEMMA SingleAlways == "escalation" \notin Hazards => (Spec => []SingleInv)
  <1> SUFFICES ASSUME "escalation" \notin Hazards PROVE Spec => []SingleInv
    OBVIOUS
  <1>1. Init => SingleInv
    BY DEF Init, SingleInv, ApprovalOnce, HolderOnce, Holds, Undecided, IdleRequest, Decision
  <1>2. Typed /\ SingleInv /\ [Next]_vars => SingleInv'
    BY SingleStep
  <1> QED BY <1>1, <1>2, Types, PTL DEF Spec

(* The effects of an approval are applied once: of the requests that read  *)
(* the same pending step before their await, only one decides it.          *)
THEOREM SingleEffects == Spec => []EffectsOnce
  <1>1. CASE "escalation" \in Hazards
    <2>1. EffectsOnce
      BY <1>1 DEF EffectsOnce
    <2> QED BY <2>1, PTL
  <1>2. CASE "escalation" \notin Hazards
    <2>1. SingleInv => EffectsOnce
      BY DEF SingleInv, ApprovalOnce, EffectsOnce
    <2> QED BY <1>2, <2>1, SingleAlways, PTL
  <1> QED BY <1>1, <1>2
(* Most steps leave the links alone: a run keeps its link, and no slot     *)
(* gets on its way to one, or comes to it.                                 *)
LinksStay(r) ==
    /\ LinkOf(r)' = LinkOf(r) /\ (run'[r].status = "absent" => run[r].status = "absent")
    /\ run'[r].verdict \in {run[r].verdict, "pending", "approved", "rejected"} \/ LinkOf(r) = NoApproval

SlotStays(w) ==
    /\ slot'[w].pc \in Asking => slot[w].pc \in Asking /\ slot'[w].run = slot[w].run
    /\ slot'[w].pc = "linked" =>
          slot[w].pc = "linked" /\ slot'[w].run = slot[w].run /\ slot'[w].approval = slot[w].approval

Unlinking == (\A r \in Runs : LinksStay(r)) /\ (\A w \in Slots : SlotStays(w))

(* Such a step keeps RunsInv.                                              *)
LEMMA UnlinkingKeeps ==
    ASSUME Typed, RunsInv, AllKept, Unlinking
    PROVE  RunsInv'
  <1>1. \A w \in Slots : slot[w].pc \in Asking \cup {"linked"} => slot[w].run \in Runs
    BY DEF Typed, SlotBound, HasRun, Asking, SlotPc
  <1>2. ASSUME NEW w \in Slots PROVE AskingOK(w)' /\ LinkedOK(w)'
    BY <1>1 DEF RunsInv, AskingOK, LinkedOK, Unlinking, LinksStay, SlotStays, LinkOf, Asking
  <1>3. ASSUME NEW r \in Runs PROVE RowOK(r)'
    <2>1. LinkOf(r) \in Approvals \cup {NoApproval}
      BY DEF Typed, TypeOK, RunRow, LinkOf
    <2>2. LinkOf(r) # NoApproval => approval'[LinkOf(r)] # "none"
      BY <2>1 DEF RunsInv, RowOK, AllKept, Kept
    <2> QED BY <2>2 DEF RunsInv, RowOK, Unlinking, LinksStay, LinkOf
  <1> QED BY <1>2, <1>3 DEF RunsInv

LinkingStep ==
    \E w \in Slots : MarkToolRunApprovalPending(w) \/ \E r \in Runs : CreateToolRun(w, r)

(* Only the creation of a run and its link to an approval do not.          *)
LEMMA MostStepsUnlink ==
    ASSUME Typed, RunsInv, Next
    PROVE  Unlinking \/ LinkingStep
  <1>a. run \in [Runs -> RunRow] /\ slot \in [Slots -> SlotState]
    BY DEF Typed, TypeOK
  <1>b. \A w \in Slots : SlotBound(w) /\ AskingOK(w)
    BY DEF Typed, RunsInv
  <1>1. ASSUME NEW w \in Slots, NEW r \in Runs, CreateToolRun(w, r)
           PROVE Unlinking \/ LinkingStep
    BY <1>1 DEF LinkingStep
  <1>2. ASSUME NEW w \in Slots, MarkToolRunApprovalPending(w) PROVE Unlinking \/ LinkingStep
    BY <1>2 DEF LinkingStep
  <1>3. ASSUME NEW w \in Slots, Claim(w) PROVE Unlinking \/ LinkingStep
    <2>1. UNCHANGED run
      BY <1>3 DEF Claim
    <2>2. \A s \in Runs : LinksStay(s)
      BY <2>1 DEF LinksStay, LinkOf
    <2>3. \A u \in Slots : SlotStays(u)
      BY <1>3, <1>a DEF Claim, IdleSlot, SlotStays,
             SlotState, Asking
    <2> QED BY <2>2, <2>3 DEF Unlinking
  <1>4. ASSUME NEW w \in Slots, NEW r \in Runs, PickQueuedRun(w, r)
           PROVE Unlinking \/ LinkingStep
    <2>1. UNCHANGED run
      BY <1>4 DEF PickQueuedRun
    <2>2. \A s \in Runs : LinksStay(s)
      BY <2>1 DEF LinksStay, LinkOf
    <2>3. \A u \in Slots : SlotStays(u)
      BY <1>4, <1>a DEF PickQueuedRun, SlotStays,
             SlotState, Asking
    <2> QED BY <2>2, <2>3 DEF Unlinking
  <1>5. ASSUME NEW w \in Slots, AutoApprove(w) PROVE Unlinking \/ LinkingStep
    <2>1. slot[w].run \in Runs /\ LinkOf(slot[w].run) = NoApproval
      BY <1>5, <1>b DEF AutoApprove, SlotBound, HasRun, SlotPc, AskingOK, Asking
    <2>2. \A s \in Runs : LinksStay(s)
      BY <1>5, <1>a, <2>1 DEF AutoApprove, LinksStay,
             LinkOf, RunRow
    <2>3. \A u \in Slots : SlotStays(u)
      BY <1>5, <1>a DEF AutoApprove, Goto, SlotStays,
             SlotState, Asking
    <2> QED BY <2>2, <2>3 DEF Unlinking
  <1>6. ASSUME NEW w \in Slots, NEW a \in Approvals, CreateApproval(w, a)
           PROVE Unlinking \/ LinkingStep
    <2>1. UNCHANGED run
      BY <1>6 DEF CreateApproval
    <2>2. \A s \in Runs : LinksStay(s)
      BY <2>1 DEF LinksStay, LinkOf
    <2>3. \A u \in Slots : SlotStays(u)
      BY <1>6, <1>a DEF CreateApproval, SlotStays,
             SlotState, Asking
    <2> QED BY <2>2, <2>3 DEF Unlinking
  <1>7. ASSUME NEW w \in Slots, OpenWorkflow(w) PROVE Unlinking \/ LinkingStep
    <2>1. UNCHANGED run
      BY <1>7 DEF OpenWorkflow
    <2>2. \A s \in Runs : LinksStay(s)
      BY <2>1 DEF LinksStay, LinkOf
    <2>3. \A u \in Slots : SlotStays(u)
      BY <1>7, <1>a DEF OpenWorkflow, Goto, SlotStays,
             SlotState, Asking
    <2> QED BY <2>2, <2>3 DEF Unlinking
  <1>8. ASSUME NEW w \in Slots, StartToolRun(w) \/ EndToolRun(w) PROVE Unlinking \/ LinkingStep
    <2>1. slot[w].run \in Runs
      BY <1>8, <1>b DEF StartToolRun, EndToolRun, SlotBound, HasRun, SlotPc
    <2>2. \A s \in Runs : LinksStay(s)
      BY <1>8, <1>a, <2>1 DEF StartToolRun, EndToolRun,
             LinksStay, LinkOf, RunRow
    <2>3. \A u \in Slots : SlotStays(u)
      BY <1>8, <1>a DEF StartToolRun, EndToolRun, Goto,
             SlotStays, SlotState, Asking
    <2> QED BY <2>2, <2>3 DEF Unlinking
  <1>9. ASSUME NEW w \in Slots, MarkTaskWaitingApproval(w) \/ Deliver(w) \/ GiveUp(w)
           \/ Throw(w) \/ CrashRunner(w) PROVE Unlinking \/ LinkingStep
    <2>1. UNCHANGED run
      BY <1>9 DEF MarkTaskWaitingApproval, Deliver, GiveUp, Throw,
             CrashRunner
    <2>2. \A s \in Runs : LinksStay(s)
      BY <2>1 DEF LinksStay, LinkOf
    <2>3. \A u \in Slots : SlotStays(u)
      BY <1>9, <1>a DEF MarkTaskWaitingApproval,
             Deliver, GiveUp, Throw, CrashRunner, Leave, IdleSlot, SlotStays, SlotState, Asking
    <2> QED BY <2>2, <2>3 DEF Unlinking
  <1>10. CASE RecoverStaleTask \/ ExpireWaitingTask \/ CancelTask \/ CrashOrchestrator
    <2>1. UNCHANGED run
      BY <1>10 DEF RecoverStaleTask, ExpireWaitingTask, CancelTask,
             CrashOrchestrator
    <2>2. \A s \in Runs : LinksStay(s)
      BY <2>1 DEF LinksStay, LinkOf
    <2>3. UNCHANGED slot
      BY <1>10 DEF RecoverStaleTask, ExpireWaitingTask, CancelTask,
             CrashOrchestrator
    <2>4. \A u \in Slots : SlotStays(u)
      BY <2>3 DEF SlotStays
    <2> QED BY <2>2, <2>4 DEF Unlinking
  <1>11. ASSUME NEW r \in Runs, TimeOutRun(r) \/ CleanOrphanRun(r)
           PROVE Unlinking \/ LinkingStep
    <2>1. \A s \in Runs : LinksStay(s)
      BY <1>11, <1>a DEF TimeOutRun, CleanOrphanRun,
             LinksStay, LinkOf, RunRow
    <2>2. UNCHANGED slot
      BY <1>11 DEF TimeOutRun, CleanOrphanRun
    <2>3. \A u \in Slots : SlotStays(u)
      BY <2>2 DEF SlotStays
    <2> QED BY <2>1, <2>3 DEF Unlinking
  <1>12. ASSUME NEW q \in Requests, DecideStep(q) \/ ApplyToTask(q)
           PROVE Unlinking \/ LinkingStep
    <2>1. UNCHANGED run
      BY <1>12 DEF DecideStep, ApplyToTask
    <2>2. \A s \in Runs : LinksStay(s)
      BY <2>1 DEF LinksStay, LinkOf
    <2>3. UNCHANGED slot
      BY <1>12 DEF DecideStep, ApplyToTask
    <2>4. \A u \in Slots : SlotStays(u)
      BY <2>3 DEF SlotStays
    <2> QED BY <2>2, <2>4 DEF Unlinking
  <1>13. ASSUME NEW q \in Requests, ApplyToRuns(q) PROVE Unlinking \/ LinkingStep
    <2>1. UNCHANGED slot
      BY <1>13 DEF ApplyToRuns
    <2>2. ASSUME NEW s \in Runs PROVE LinksStay(s)
      <3>1. CASE request[q].verdict = "pending"
        BY <1>13, <3>1 DEF ApplyToRuns, LinksStay, LinkOf
      <3>2. CASE request[q].verdict # "pending"
        <4>1. request[q].verdict \in {"approved", "rejected"}
          BY <3>2 DEF Typed, TypeOK, RequestState
        <4>2. run'[s] = run[s]
              \/ \E ruled \in {"queued", "blocked"} :
                    run'[s] = [run[s] EXCEPT !.status = ruled, !.verdict = request[q].verdict]
          BY <1>13, <3>2 DEF ApplyToRuns
        <4> QED BY <1>a, <4>1, <4>2 DEF LinksStay, LinkOf, RunRow
      <3> QED BY <3>1, <3>2
    <2> QED BY <2>1, <2>2 DEF Unlinking, SlotStays
  <1>14. ASSUME NEW q \in Requests, NEW a \in Approvals, NEW i \in 1..MaxSteps, NEW v
           \in Decision, ReceiveDecision(q, a, i, v) PROVE Unlinking \/ LinkingStep
    <2>1. UNCHANGED run
      BY <1>14 DEF ReceiveDecision
    <2>2. \A s \in Runs : LinksStay(s)
      BY <2>1 DEF LinksStay, LinkOf
    <2>3. UNCHANGED slot
      BY <1>14 DEF ReceiveDecision
    <2>4. \A u \in Slots : SlotStays(u)
      BY <2>3 DEF SlotStays
    <2> QED BY <2>2, <2>4 DEF Unlinking
  <1>15. ASSUME NEW a \in Approvals, Escalate(a) PROVE Unlinking \/ LinkingStep
    <2>1. UNCHANGED run
      BY <1>15 DEF Escalate
    <2>2. \A s \in Runs : LinksStay(s)
      BY <2>1 DEF LinksStay, LinkOf
    <2>3. UNCHANGED slot
      BY <1>15 DEF Escalate
    <2>4. \A u \in Slots : SlotStays(u)
      BY <2>3 DEF SlotStays
    <2> QED BY <2>2, <2>4 DEF Unlinking
  <1> QED
    BY <1>1, <1>2, <1>3, <1>4, <1>5, <1>6, <1>7, <1>8, <1>9, <1>10, <1>11, <1>12,
       <1>13, <1>14, <1>15 DEF Next, SlotStep, RequestStep, Decision

(* A run is linked by the slot that created it, and once.                  *)
LEMMA RunsStep ==
    ASSUME Typed, RunsInv, [Next]_vars
    PROVE  RunsInv'
  <1>a. run \in [Runs -> RunRow] /\ slot \in [Slots -> SlotState]
    BY DEF Typed, TypeOK
  <1>b. /\ \A w \in Slots : SlotBound(w) /\ AskingOK(w) /\ LinkedOK(w)
        /\ \A r \in Runs : RowOK(r)
    BY DEF Typed, RunsInv
  <1>1. CASE Next /\ Unlinking
    BY <1>1, StepsKept, UnlinkingKeeps
  <1>2. ASSUME NEW w \in Slots, NEW r \in Runs, CreateToolRun(w, r) PROVE RunsInv'
    <2>1. run' = [run EXCEPT ![r] = [NoRow EXCEPT !.status = "queued"]] /\ UNCHANGED approval
      BY <1>2 DEF CreateToolRun
    <2>2. /\ LinkOf(r)' = NoApproval /\ run'[r].status = "queued" /\ run[r].status = "absent"
          /\ LinkOf(r) = NoApproval /\ \A s \in Runs \ {r} : run'[s] = run[s]
      BY <1>2, <1>a, <1>b, <2>1 DEF NoRow, LinkOf, CreateToolRun, RowOK
    <2>3. slot' = [slot EXCEPT ![w] = [IdleSlot EXCEPT !.pc = "created", !.run = r]]
      BY <1>2 DEF CreateToolRun
    <2>4. /\ slot'[w].pc = "created" /\ slot'[w].run = r
          /\ \A u \in Slots \ {w} : slot'[u] = slot[u]
      BY <1>a, <2>3 DEF IdleSlot
    <2>5. \A u \in Slots : slot[u].pc \in Asking \cup {"linked"} => slot[u].run \in Runs \ {r}
      BY <1>b, <2>2, NullAssumption DEF SlotBound, HasRun, HasApproval, SlotPc, Asking,
         AskingOK, LinkedOK
    <2>6. ASSUME NEW u \in Slots PROVE AskingOK(u)' /\ LinkedOK(u)'
      BY <1>b, <2>2, <2>4, <2>5 DEF AskingOK, LinkedOK, Asking, LinkOf
    <2>7. ASSUME NEW s \in Runs PROVE RowOK(s)'
      BY <1>b, <2>1, <2>2 DEF RowOK, LinkOf
    <2> QED BY <2>6, <2>7 DEF RunsInv
  <1>3. ASSUME NEW w \in Slots, MarkToolRunApprovalPending(w) PROVE RunsInv'
    <2> DEFINE r == slot[w].run
               a == slot[w].approval
    <2>1. /\ r \in Runs /\ a \in Approvals /\ approval[a] # "none" /\ LinkOf(r) = NoApproval
          /\ slot[w].pc = "opened" /\ slot[w].pc \in Asking
      BY <1>3, <1>b DEF MarkToolRunApprovalPending, SlotBound, AskingOK, HasRun, HasApproval,
         SlotPc, Asking
    <2>2. /\ run' = [run EXCEPT ![r] = [status |-> "approval_pending", verdict |-> "pending", approval |-> a]]
          /\ slot' = [slot EXCEPT ![w].pc = "linked"] /\ UNCHANGED approval
      BY <1>3 DEF MarkToolRunApprovalPending, Goto
    <2>3. /\ run'[r].approval = a /\ run'[r].status = "approval_pending" /\ run'[r].verdict = "pending"
          /\ \A s \in Runs \ {r} : run'[s] = run[s]
      BY <1>a, <2>1, <2>2
    <2>4. /\ slot'[w].pc = "linked" /\ slot'[w].run = r /\ slot'[w].approval = a
          /\ \A u \in Slots \ {w} : slot'[u] = slot[u]
      BY <1>a, <2>2 DEF SlotState
    <2>5. \A u \in Slots \ {w} : slot[u].pc \in Asking \cup {"linked"} => slot[u].run \in Runs \ {r}
      BY <1>b, <2>1, NullAssumption DEF SlotBound, HasRun, HasApproval, SlotPc, Asking,
         AskingOK, LinkedOK
    <2> HIDE DEF r, a
    <2>6. ASSUME NEW u \in Slots PROVE AskingOK(u)' /\ LinkedOK(u)'
      <3>1. CASE u = w
        BY <2>3, <2>4, <3>1 DEF AskingOK, LinkedOK, Asking, LinkOf
      <3>2. CASE u # w
        <4>1. slot'[u] = slot[u]
              /\ (slot[u].pc \in Asking \cup {"linked"} => run'[slot[u].run] = run[slot[u].run])
          BY <2>3, <2>4, <2>5, <3>2
        <4>2. slot'[w].pc \notin Asking
          BY <2>4 DEF Asking
        <4> QED BY <1>b, <2>4, <3>2, <4>1, <4>2 DEF AskingOK, LinkedOK, LinkOf
      <3> QED BY <3>1, <3>2
    <2>7. ASSUME NEW s \in Runs PROVE RowOK(s)'
      BY <1>b, <2>1, <2>2, <2>3 DEF RowOK, LinkOf
    <2> QED BY <2>6, <2>7 DEF RunsInv
  <1>4. CASE UNCHANGED vars
    BY <1>4, <1>b DEF vars, RunsInv, AskingOK, LinkedOK, RowOK, LinkOf
  <1> QED BY <1>1, <1>2, <1>3, <1>4, MostStepsUnlink DEF LinkingStep

(* ... in every state.                                                     *)
LEMMA RunsAlways == Spec => []RunsInv
  <1>1. Init => RunsInv
    BY DEF Init, RunsInv, AskingOK, LinkedOK, RowOK, LinkOf, Asking, IdleSlot, NoRow
  <1>2. Typed /\ RunsInv /\ [Next]_vars => RunsInv'
    BY RunsStep
  <1> QED BY <1>1, <1>2, Types, PTL DEF Spec
(* What a step makes of the verdict of a run.                              *)
VerdictStays(r) == run'[r].approval = run[r].approval /\ run'[r].verdict = run[r].verdict

VerdictOpen(r) ==
    \/ run'[r].approval = NoApproval
    \/ run'[r].verdict = "pending" /\ \E w \in Slots : slot[w].pc = "opened" /\ slot'[w].pc = "linked"

Judged(r, q) ==
    /\ request[q].stage = "decided" /\ request[q].verdict \in Decision
    /\ run[r].approval = request[q].approval /\ run'[r].approval = run[r].approval
    /\ run'[r].verdict = request[q].verdict

VerdictStep(r) == VerdictStays(r) \/ VerdictOpen(r) \/ \E q \in Requests : Judged(r, q)

(* There are no other steps.                                               *)
LEMMA VerdictSteps ==
    ASSUME Typed, RunsInv, Next, NEW s \in Runs
    PROVE  VerdictStep(s)
  <1>a. run \in [Runs -> RunRow]
    BY DEF Typed, TypeOK
  <1>b. \A w \in Slots : SlotBound(w) /\ AskingOK(w)
    BY DEF Typed, RunsInv
  <1>1. ASSUME NEW w \in Slots, Claim(w) \/ OpenWorkflow(w) \/ MarkTaskWaitingApproval(w)
           \/ Deliver(w) \/ GiveUp(w) \/ Throw(w) \/ CrashRunner(w) PROVE VerdictStep(s)
    <2>1. UNCHANGED run
      BY <1>1 DEF Claim, OpenWorkflow, MarkTaskWaitingApproval, Deliver,
             GiveUp, Throw, CrashRunner
    <2> QED BY <2>1 DEF VerdictStep, VerdictStays
  <1>2. ASSUME NEW w \in Slots, NEW r \in Runs, PickQueuedRun(w, r) PROVE VerdictStep(s)
    <2>1. UNCHANGED run
      BY <1>2 DEF PickQueuedRun
    <2> QED BY <2>1 DEF VerdictStep, VerdictStays
  <1>3. ASSUME NEW w \in Slots, NEW r \in Runs, CreateToolRun(w, r) PROVE VerdictStep(s)
    BY <1>3, <1>a DEF CreateToolRun, NoRow, VerdictStep, VerdictStays, VerdictOpen
  <1>4. ASSUME NEW w \in Slots, NEW a \in Approvals, CreateApproval(w, a) PROVE VerdictStep(s)
    <2>1. UNCHANGED run
      BY <1>4 DEF CreateApproval
    <2> QED BY <2>1 DEF VerdictStep, VerdictStays
  <1>5. ASSUME NEW w \in Slots, AutoApprove(w) PROVE VerdictStep(s)
    <2>1. slot[w].run \in Runs /\ run[slot[w].run].approval = NoApproval
      BY <1>5, <1>b DEF AutoApprove, SlotBound, HasRun, SlotPc, AskingOK, Asking, LinkOf
    <2> QED BY <1>5, <1>a, <2>1 DEF AutoApprove, RunRow, VerdictStep, VerdictStays, VerdictOpen
  <1>6. ASSUME NEW w \in Slots, MarkToolRunApprovalPending(w) PROVE VerdictStep(s)
    <2>1. slot[w].pc = "opened" /\ slot'[w].pc = "linked"
      BY <1>6 DEF MarkToolRunApprovalPending, Goto, Typed, TypeOK, SlotState
    <2> QED BY <1>6, <1>a, <2>1 DEF MarkToolRunApprovalPending, VerdictStep, VerdictStays,
               VerdictOpen
  <1>7. ASSUME NEW w \in Slots, StartToolRun(w) \/ EndToolRun(w) PROVE VerdictStep(s)
    BY <1>7, <1>a DEF StartToolRun, EndToolRun, RunRow, VerdictStep, VerdictStays
  <1>8. CASE RecoverStaleTask \/ ExpireWaitingTask \/ CancelTask \/ CrashOrchestrator
    <2>1. UNCHANGED run
      BY <1>8 DEF RecoverStaleTask, ExpireWaitingTask, CancelTask,
             CrashOrchestrator
    <2> QED BY <2>1 DEF VerdictStep, VerdictStays
  <1>9. ASSUME NEW r \in Runs, TimeOutRun(r) \/ CleanOrphanRun(r) PROVE VerdictStep(s)
    BY <1>9, <1>a DEF TimeOutRun, CleanOrphanRun, RunRow, VerdictStep, VerdictStays
  <1>10. ASSUME NEW q \in Requests, DecideStep(q) \/ ApplyToTask(q) PROVE VerdictStep(s)
    <2>1. UNCHANGED run
      BY <1>10 DEF DecideStep, ApplyToTask
    <2> QED BY <2>1 DEF VerdictStep, VerdictStays
  <1>11. ASSUME NEW q \in Requests, ApplyToRuns(q) PROVE VerdictStep(s)
    <2>1. CASE request[q].verdict = "pending"
      BY <1>11, <2>1 DEF ApplyToRuns, VerdictStep, VerdictStays
    <2>2. CASE request[q].verdict # "pending"
      <3>1. request[q].verdict \in Decision /\ request[q].stage = "decided"
        BY <1>11, <2>2 DEF Typed, TypeOK, RequestState, Decision, ApplyToRuns
      <3>2. \/ run'[s] = run[s]
            \/ /\ run[s].approval = request[q].approval
               /\ \E ruled \in {"queued", "blocked"} :
                     run'[s] = [run[s] EXCEPT !.status = ruled, !.verdict = request[q].verdict]
        BY <1>11, <2>2 DEF ApplyToRuns
      <3> QED BY <1>a, <3>1, <3>2 DEF VerdictStep, VerdictStays, Judged, RunRow
    <2> QED BY <2>1, <2>2
  <1>12. ASSUME NEW q \in Requests, NEW a \in Approvals, NEW i \in 1..MaxSteps, NEW v
           \in Decision, ReceiveDecision(q, a, i, v) PROVE VerdictStep(s)
    <2>1. UNCHANGED run
      BY <1>12 DEF ReceiveDecision
    <2> QED BY <2>1 DEF VerdictStep, VerdictStays
  <1>13. ASSUME NEW a \in Approvals, Escalate(a) PROVE VerdictStep(s)
    <2>1. UNCHANGED run
      BY <1>13 DEF Escalate
    <2> QED BY <2>1 DEF VerdictStep, VerdictStays
  <1> QED
    BY <1>1, <1>2, <1>3, <1>4, <1>5, <1>6, <1>7, <1>8, <1>9, <1>10, <1>11, <1>12,
       <1>13 DEF Next, SlotStep, RequestStep, Decision

(* A decided approval stays decided while nothing is escalated.            *)
LEMMA DecidedStays ==
    ASSUME Typed, SingleInv, Next, "escalation" \notin Hazards,
           NEW a \in Approvals, approval[a] \in Decision
    PROVE  approval'[a] = approval[a]
  <1>1. Concerns(a) /\ ~Undecided(a)
    <2>1. Len(steps[a]) = 1 /\ steps[a][1] = approval[a]
      BY DEF SingleInv, ApprovalOnce
    <2>2. steps[a] # <<>>
      BY <2>1
    <2> QED BY <2>1, <2>2, StepConcerns DEF Undecided, Decision
  <1> QED BY <1>1 DEF Concerns, Aside, Taken, Applied, Decision

(* A run gets its verdict from who holds its approval, and keeps it.       *)
LEMMA VerdictKeeps ==
    ASSUME Typed, SingleInv, RunsInv, VerdictInv, [Next]_vars, "escalation" \notin Hazards
    PROVE  VerdictInv'
  <1>1. CASE Next
    <2> SUFFICES ASSUME NEW s \in Runs, run'[s].approval # NoApproval, run'[s].verdict # "pending"
                 PROVE  run'[s].verdict = approval'[run'[s].approval]
      BY DEF VerdictInv, LinkOf
    <2>1. run[s].approval \in Approvals \cup {NoApproval}
      BY DEF Typed, TypeOK, RunRow
    <2>2. CASE VerdictStays(s)
      <3>1. /\ run[s].approval \in Approvals /\ run[s].verdict \in Decision
            /\ approval[run[s].approval] = run[s].verdict
        BY <2>1, <2>2 DEF VerdictStays, VerdictInv, RunsInv, RowOK, LinkOf, Decision
      <3> QED BY <1>1, <2>2, <3>1, DecidedStays DEF VerdictStays
    <2>3. ASSUME NEW q \in Requests, Judged(s, q) PROVE run'[s].verdict = approval'[run'[s].approval]
      <3>1. request[q].approval \in Approvals /\ Holds(q, request[q].approval)
        BY <2>3 DEF Typed, RequestBound, Judged, Holds
      <3>2. request[q].verdict = approval[request[q].approval]
        BY <3>1 DEF SingleInv, HolderOnce
      <3> QED BY <1>1, <2>3, <3>1, <3>2, DecidedStays DEF Judged
    <2> QED BY <1>1, <2>2, <2>3, VerdictSteps DEF VerdictStep, VerdictOpen
  <1>2. CASE UNCHANGED vars
    BY <1>2 DEF vars, VerdictInv, LinkOf
  <1> QED BY <1>1, <1>2

(* With one slot nobody picks up a run that is not linked yet: what is     *)
(* picked up without a verdict never gets a link.                          *)
LEMMA PickedStep ==
    ASSUME Typed, SingleInv, RunsInv, VerdictInv, PickedInv, Next, "escalation" \notin Hazards,
           \A v, w \in Slots : v = w, NEW u \in Slots, slot'[u].pc = "picked"
    PROVE  run'[slot'[u].run].approval = NoApproval \/ run'[slot'[u].run].verdict = "approved"
  <1> DEFINE Fine == run'[slot'[u].run].approval = NoApproval \/ run'[slot'[u].run].verdict = "approved"
  <1>a. run \in [Runs -> RunRow] /\ slot \in [Slots -> SlotState]
    BY DEF Typed, TypeOK
  <1>b. \A w \in Slots : w = u
    OBVIOUS
  <1>c. ASSUME UNCHANGED slot PROVE Fine
    <2> DEFINE s == slot[u].run
    <2>1. /\ s \in Runs /\ slot'[u].run = s /\ run[s].approval \in Approvals \cup {NoApproval}
          /\ run[s].approval # NoApproval => run[s].verdict = "approved"
      BY <1>a, <1>c DEF Typed, SlotBound, HasRun, SlotPc, PickedInv, LinkOf, RunRow
    <2>2. CASE VerdictStays(s)
      BY <2>1, <2>2 DEF VerdictStays
    <2>3. CASE VerdictOpen(s)
      BY <1>c, <2>1, <2>3 DEF VerdictOpen
    <2>4. ASSUME NEW q \in Requests, Judged(s, q) PROVE Fine
      <3>1. request[q].approval \in Approvals /\ Holds(q, request[q].approval)
        BY <2>4 DEF Typed, RequestBound, Judged, Holds
      <3>2. request[q].verdict = approval[request[q].approval]
        BY <3>1 DEF SingleInv, HolderOnce
      <3>3. run[s].approval # NoApproval /\ run[s].verdict = "approved"
        BY <2>1, <2>4, <3>1, NullAssumption DEF Judged
      <3>4. approval[run[s].approval] = "approved"
        BY <2>1, <3>3 DEF VerdictInv, LinkOf
      <3> QED BY <2>1, <2>4, <3>2, <3>4 DEF Judged
    <2> QED BY <2>1, <2>2, <2>3, <2>4, VerdictSteps DEF VerdictStep
  <1>d. /\ \A w \in Slots : SlotBound(w) /\ AskingOK(w)
        /\ \A r \in Runs : RowOK(r)
    BY DEF Typed, RunsInv
  <1>1. ASSUME NEW w \in Slots, Claim(w) \/ OpenWorkflow(w) \/ MarkToolRunApprovalPending(w)
           \/ StartToolRun(w) \/ EndToolRun(w) \/ MarkTaskWaitingApproval(w) \/ Deliver(w)
           \/ GiveUp(w) \/ Throw(w) \/ CrashRunner(w) PROVE Fine
    BY <1>1, <1>a, <1>b DEF Claim, OpenWorkflow, MarkToolRunApprovalPending, StartToolRun,
           EndToolRun, MarkTaskWaitingApproval, Deliver, GiveUp, Throw, CrashRunner, Goto,
           Leave, IdleSlot, SlotState
  <1>2. ASSUME NEW w \in Slots, NEW r \in Runs, PickQueuedRun(w, r) PROVE Fine
    <2>1. w = u /\ UNCHANGED run /\ slot'[u].run = r
      BY <1>2, <1>a, <1>b DEF PickQueuedRun, SlotState
    <2> QED BY <1>2, <1>d, <2>1 DEF PickQueuedRun, Executable, RowOK, LinkOf
  <1>3. ASSUME NEW w \in Slots, NEW r \in Runs, CreateToolRun(w, r) PROVE Fine
    BY <1>3, <1>a, <1>b DEF CreateToolRun, IdleSlot
  <1>4. ASSUME NEW w \in Slots, NEW a \in Approvals, CreateApproval(w, a) PROVE Fine
    BY <1>4, <1>a, <1>b DEF CreateApproval, SlotState
  <1>5. ASSUME NEW w \in Slots, AutoApprove(w) PROVE Fine
    <2>1. /\ w = u /\ slot[w].run \in Runs /\ run[slot[w].run].approval = NoApproval
          /\ slot'[u].run = slot[u].run
      BY <1>5, <1>a, <1>b, <1>d DEF AutoApprove, Goto, SlotState, SlotBound, HasRun, SlotPc,
         AskingOK, Asking, LinkOf
    <2> QED BY <1>5, <1>a, <2>1 DEF AutoApprove, RunRow
  <1>6. CASE RecoverStaleTask \/ ExpireWaitingTask \/ CancelTask \/ CrashOrchestrator
    <2>1. UNCHANGED slot
      BY <1>6 DEF RecoverStaleTask, ExpireWaitingTask, CancelTask,
             CrashOrchestrator
    <2> QED BY <1>c, <2>1
  <1>7. ASSUME NEW r \in Runs, TimeOutRun(r) \/ CleanOrphanRun(r) PROVE Fine
    <2>1. UNCHANGED slot
      BY <1>7 DEF TimeOutRun, CleanOrphanRun
    <2> QED BY <1>c, <2>1
  <1>8. ASSUME NEW q \in Requests, DecideStep(q) \/ ApplyToRuns(q) \/ ApplyToTask(q)
           PROVE Fine
    <2>1. UNCHANGED slot
      BY <1>8 DEF DecideStep, ApplyToRuns, ApplyToTask
    <2> QED BY <1>c, <2>1
  <1>9. ASSUME NEW q \in Requests, NEW a \in Approvals, NEW i \in 1..MaxSteps, NEW v
           \in Decision, ReceiveDecision(q, a, i, v) PROVE Fine
    <2>1. UNCHANGED slot
      BY <1>9 DEF ReceiveDecision
    <2> QED BY <1>c, <2>1
  <1>10. ASSUME NEW a \in Approvals, Escalate(a) PROVE Fine
    <2>1. UNCHANGED slot
      BY <1>10 DEF Escalate
    <2> QED BY <1>c, <2>1
  <1> QED
    BY <1>1, <1>2, <1>3, <1>4, <1>5, <1>6, <1>7, <1>8, <1>9, <1>10
       DEF Next, SlotStep, RequestStep, Decision

(* ... in every state.                                                     *)
LEMMA VerdictsAlways ==
    ASSUME "escalation" \notin Hazards, \A v, w \in Slots : v = w
    PROVE  Spec => [](VerdictInv /\ PickedInv)
  <1>1. Init => VerdictInv /\ PickedInv
    BY DEF Init, VerdictInv, PickedInv, LinkOf, NoRow, IdleSlot
  <1>2. ASSUME Typed, SingleInv, RunsInv, VerdictInv, PickedInv, [Next]_vars
        PROVE  PickedInv'
    <2>1. CASE Next
      BY <1>2, <2>1, PickedStep DEF PickedInv, LinkOf
    <2>2. CASE UNCHANGED vars
      BY <1>2, <2>2 DEF vars, PickedInv, LinkOf
    <2> QED BY <1>2, <2>1, <2>2
  <1>3. Typed /\ SingleInv /\ RunsInv /\ VerdictInv /\ [Next]_vars => VerdictInv'
    BY VerdictKeeps
  <1> QED BY <1>1, <1>2, <1>3, Types, SingleAlways, RunsAlways, PTL DEF Spec

(* What a linked run that says approved has been through.                  *)
LEMMA VerdictIsTheOwners ==
    ASSUME Typed, SingleInv, VerdictInv, NEW r \in Runs, LinkOf(r) # NoApproval,
           run[r].verdict = "approved"
    PROVE  ApprovedByOwner(r)
  <1> DEFINE a == run[r].approval
  <1>1. a \in Approvals
    BY DEF Typed, TypeOK, RunRow, LinkOf
  <1>2. approval[a] = "approved"
    BY <1>1 DEF VerdictInv, LinkOf
  <1>3. Len(steps[a]) = 1 /\ steps[a][1] = "approved" /\ steps[a] \in Seq({"pending", "approved", "rejected"})
    BY <1>1, <1>2 DEF SingleInv, ApprovalOnce, Decision, Typed, TypeOK
  <1>4. \A i \in DOMAIN steps[a] : steps[a][i] = "approved"
    BY <1>3
  <1> QED BY <1>1, <1>2, <1>4 DEF ApprovedByOwner, LinkOf

(* Once a run is linked to its approval, it starts only when the owner has *)
(* approved it and every step of the workflow agreed, whatever crashes,    *)
(* retries and late requests do to its task: for one slot, and while no    *)
(* approval is escalated.  (With two, the other slot may pick the run up   *)
(* between its creation and its link.)                                     *)
THEOREM LinkedRunsNeedTheOwner ==
    ASSUME "escalation" \notin Hazards, \A v, w \in Slots : v = w
    PROVE  Spec => LinkedRunsObey
  <1>1. ASSUME Typed, SingleInv, VerdictInv, PickedInv, NEW w \in Slots, StartToolRun(w),
               run[slot[w].run].approval # NoApproval
        PROVE  ApprovedByOwner(slot[w].run)
    <2>1. slot[w].run \in Runs /\ run[slot[w].run].verdict = "approved"
      BY <1>1 DEF StartToolRun, Typed, SlotBound, HasRun, SlotPc, PickedInv, LinkOf
    <2> QED BY <1>1, <2>1, VerdictIsTheOwners DEF LinkOf
  <1>2. Typed /\ SingleInv /\ VerdictInv /\ PickedInv /\ [Next]_vars =>
          [\A w \in Slots : StartToolRun(w) /\ run[slot[w].run].approval # NoApproval
               => ApprovedByOwner(slot[w].run)]_vars
    BY <1>1
  <1>3. Spec => [](VerdictInv /\ PickedInv)
    BY VerdictsAlways
  <1>4. Spec => []SingleInv
    BY SingleAlways
  <1> QED BY <1>2, <1>3, <1>4, Types, PTL DEF Spec, LinkedRunsObey
(* What it is to decide a pending step, whatever the workflow.             *)
DecidesStep(q, a, i, v) ==
    /\ a \in Approvals /\ i \in DOMAIN steps[a] /\ v \in Decision /\ approval[a] # "none"
    /\ steps'[a] = [steps[a] EXCEPT ![i] = v] /\ \A b \in Approvals \ {a} : steps'[b] = steps[b]
    /\ approval'[a] = (IF Concludes(a, i, v) THEN v ELSE approval[a])
    /\ \A b \in Approvals \ {a} : approval'[b] = approval[b]
    /\ request'[q].stage = "decided" /\ request'[q].approval = a /\ request'[q].verdict = approval'[a]
    /\ \A p \in Requests \ {q} : request'[p] = request[p]

(* DecideStep is that, when it finds the step pending.                     *)
LEMMA StepDecided ==
    ASSUME Typed, NEW q \in Requests, DecideStep(q),
           steps[request[q].approval][request[q].step] = "pending"
    PROVE  DecidesStep(q, request[q].approval, request[q].step, request[q].verdict)
  <1> DEFINE a == request[q].approval
             i == request[q].step
             v == request[q].verdict
  <1>1. a \in Approvals /\ i \in DOMAIN steps[a] /\ v \in Decision /\ approval[a] # "none"
    BY DEF Typed, DecideStep, RequestBound
  <1>2. /\ steps' = [steps EXCEPT ![a] = [steps[a] EXCEPT ![i] = v]]
        /\ approval' = IF Concludes(a, i, v) THEN [approval EXCEPT ![a] = v] ELSE approval
        /\ request' = [request EXCEPT ![q].stage = "decided", ![q].verdict = approval'[a]]
    BY DEF DecideStep
  <1>3. /\ steps \in [Approvals -> Seq({"pending", "approved", "rejected"})]
        /\ approval \in [Approvals -> {"none", "pending", "approved", "rejected"}]
        /\ request \in [Requests -> RequestState]
    BY DEF Typed, TypeOK
  <1>4. steps'[a] = [steps[a] EXCEPT ![i] = v] /\ \A b \in Approvals \ {a} : steps'[b] = steps[b]
    BY <1>1, <1>2, <1>3
  <1>5. /\ approval'[a] = (IF Concludes(a, i, v) THEN v ELSE approval[a])
        /\ \A b \in Approvals \ {a} : approval'[b] = approval[b]
    BY <1>1, <1>2, <1>3
  <1>6. request'[q].stage = "decided" /\ request'[q].approval = a /\ request'[q].verdict = approval'[a]
        /\ \A p \in Requests \ {q} : request'[p] = request[p]
    BY <1>2, <1>3 DEF RequestState
  <1> QED BY <1>1, <1>4, <1>5, <1>6 DEF DecidesStep

(* Steps stay pending unless they are decided, and new ones are pending.   *)
LEMMA PendingKept ==
    ASSUME Typed, NEW q \in Requests, NEW a, NEW i, NEW v, DecidesStep(q, a, i, v), ~Concludes(a, i, v)
    PROVE  \E j \in DOMAIN steps'[a] : steps'[a][j] = "pending"
  <1>1. PICK j \in DOMAIN steps[a] : steps[a][j] = "pending" /\ j > i
    BY DEF DecidesStep, Concludes, PendingSteps
  <1>2. /\ a \in Approvals /\ i \in DOMAIN steps[a]
        /\ steps'[a] = [steps[a] EXCEPT ![i] = v]
    BY DEF DecidesStep
  <1>3. steps[a] \in Seq({"pending", "approved", "rejected"})
    BY <1>2 DEF Typed, TypeOK
  <1>4. j # i
    BY <1>1, <1>2, <1>3
  <1>5. DOMAIN steps'[a] = DOMAIN steps[a] /\ steps'[a][j] = "pending"
    BY <1>1, <1>2, <1>3, <1>4
  <1> QED BY <1>1, <1>5

(* A pending approval with an open workflow has a step to decide.          *)
LEMMA StepsOKStep ==
    ASSUME Typed, WaitInv, Next, NEW b \in Approvals
    PROVE  StepsOK(b)'
  <1>a. StepsOK(b)
    BY DEF WaitInv
  <1>b. /\ approval \in [Approvals -> {"none", "pending", "approved", "rejected"}]
        /\ steps \in [Approvals -> Seq({"pending", "approved", "rejected"})]
    BY DEF Typed, TypeOK
  <1>c. \A w \in Slots : SlotBound(w)
    BY DEF Typed
  <1>1. ASSUME NEW w \in Slots, Claim(w) \/ AutoApprove(w) \/ MarkToolRunApprovalPending(w)
           \/ MarkTaskWaitingApproval(w) \/ StartToolRun(w) \/ EndToolRun(w) \/ Deliver(w)
           \/ GiveUp(w) \/ Throw(w) \/ CrashRunner(w) PROVE StepsOK(b)'
    <2>1. UNCHANGED <<approval, steps>>
      BY <1>1 DEF Claim, AutoApprove,
             MarkToolRunApprovalPending, MarkTaskWaitingApproval, StartToolRun, EndToolRun,
             Deliver, GiveUp, Throw, CrashRunner
    <2> QED BY <1>a, <2>1 DEF StepsOK, PendingSteps
  <1>2. ASSUME NEW w \in Slots, NEW r \in Runs, PickQueuedRun(w, r) \/ CreateToolRun(w, r)
           PROVE StepsOK(b)'
    <2>1. UNCHANGED <<approval, steps>>
      BY <1>2 DEF PickQueuedRun, CreateToolRun
    <2> QED BY <1>a, <2>1 DEF StepsOK, PendingSteps
  <1>3. CASE RecoverStaleTask \/ ExpireWaitingTask \/ CancelTask \/ CrashOrchestrator
    <2>1. UNCHANGED <<approval, steps>>
      BY <1>3 DEF RecoverStaleTask, ExpireWaitingTask,
             CancelTask, CrashOrchestrator
    <2> QED BY <1>a, <2>1 DEF StepsOK, PendingSteps
  <1>4. ASSUME NEW r \in Runs, TimeOutRun(r) \/ CleanOrphanRun(r) PROVE StepsOK(b)'
    <2>1. UNCHANGED <<approval, steps>>
      BY <1>4 DEF TimeOutRun, CleanOrphanRun
    <2> QED BY <1>a, <2>1 DEF StepsOK, PendingSteps
  <1>5. ASSUME NEW q \in Requests, ApplyToRuns(q) \/ ApplyToTask(q) PROVE StepsOK(b)'
    <2>1. UNCHANGED <<approval, steps>>
      BY <1>5 DEF ApplyToRuns, ApplyToTask
    <2> QED BY <1>a, <2>1 DEF StepsOK, PendingSteps
  <1>6. ASSUME NEW w \in Slots, NEW a \in Approvals, CreateApproval(w, a) PROVE StepsOK(b)'
    <2>1. UNCHANGED steps
          /\ (approval'[b] = approval[b] \/ (approval[b] = "none" /\ approval'[b] = "pending"))
      BY <1>6, <1>b DEF CreateApproval
    <2> QED BY <1>a, <2>1 DEF StepsOK, PendingSteps
  <1>7. ASSUME NEW w \in Slots, OpenWorkflow(w) PROVE StepsOK(b)'
    <2>1. UNCHANGED approval /\ (steps'[b] = steps[b] \/ (steps'[b] = <<"pending">> /\ approval[b] # "none"))
      BY <1>7, <1>b, <1>c DEF OpenWorkflow, Opened, SlotBound, HasApproval
    <2>2. CASE steps'[b] = steps[b]
      BY <1>a, <2>1, <2>2 DEF StepsOK, PendingSteps
    <2>3. CASE steps'[b] = <<"pending">> /\ approval[b] # "none"
      <3>1. 1 \in DOMAIN steps'[b] /\ steps'[b][1] = "pending"
        BY <2>3
      <3> QED BY <2>1, <2>3, <3>1 DEF StepsOK, PendingSteps
    <2> QED BY <2>1, <2>2, <2>3
  <1>8. ASSUME NEW q \in Requests, DecideStep(q) PROVE StepsOK(b)'
    <2> DEFINE a == request[q].approval
               i == request[q].step
               v == request[q].verdict
    <2>1. CASE steps[a][i] # "pending"
      <3>1. UNCHANGED <<approval, steps>>
        BY <1>8, <2>1 DEF DecideStep
      <3> QED BY <1>a, <3>1 DEF StepsOK, PendingSteps
    <2>2. CASE steps[a][i] = "pending"
      <3>1. DecidesStep(q, a, i, v)
        BY <1>8, <2>2, StepDecided
      <3> HIDE DEF a, i, v
      <3>2. CASE b # a
        BY <1>a, <3>1, <3>2 DEF DecidesStep, StepsOK, PendingSteps
      <3>3. CASE b = a /\ Concludes(a, i, v)
        BY <3>1, <3>3 DEF DecidesStep, StepsOK, Decision
      <3>4. CASE b = a /\ ~Concludes(a, i, v)
        <4>1. \E j \in DOMAIN steps'[b] : steps'[b][j] = "pending"
          BY <3>1, <3>4, PendingKept
        <4> QED BY <3>1, <3>4, <4>1 DEF DecidesStep, StepsOK, PendingSteps
      <3> QED BY <3>2, <3>3, <3>4
    <2> QED BY <2>1, <2>2
  <1>9. ASSUME NEW q \in Requests, NEW a \in Approvals, NEW i \in 1..MaxSteps, NEW v
           \in Decision, ReceiveDecision(q, a, i, v) PROVE StepsOK(b)'
    <2>1. UNCHANGED approval /\ (steps'[b] = steps[b] \/ (steps'[b] = <<"pending">> /\ approval[b] # "none"))
      BY <1>9, <1>b DEF ReceiveDecision, Opened
    <2>2. CASE steps'[b] = steps[b]
      BY <1>a, <2>1, <2>2 DEF StepsOK, PendingSteps
    <2>3. CASE steps'[b] = <<"pending">> /\ approval[b] # "none"
      <3>1. 1 \in DOMAIN steps'[b] /\ steps'[b][1] = "pending"
        BY <2>3
      <3> QED BY <2>1, <2>3, <3>1 DEF StepsOK, PendingSteps
    <2> QED BY <2>1, <2>2, <2>3
  <1>10. ASSUME NEW a \in Approvals, Escalate(a) PROVE StepsOK(b)'
    <2>1. UNCHANGED approval /\ (b # a => steps'[b] = steps[b])
      BY <1>10, <1>b DEF Escalate
    <2>2. CASE b = a
      <3>1. steps'[a] = Append(Opened(a), "pending") /\ approval[a] # "none"
        BY <1>10, <1>b DEF Escalate
      <3>2. Opened(a) \in Seq({"pending", "approved", "rejected"})
        BY OpenedIsOpen DEF Typed
      <3>3. Len(Opened(a)) + 1 \in DOMAIN steps'[a] /\ steps'[a][Len(Opened(a)) + 1] = "pending"
        BY <3>1, <3>2, AppendProperties
      <3> QED BY <2>1, <2>2, <3>1, <3>3 DEF StepsOK, PendingSteps
    <2>3. CASE b # a
      BY <1>a, <2>1, <2>3 DEF StepsOK, PendingSteps
    <2> QED BY <2>2, <2>3
  <1> QED
    BY <1>1, <1>2, <1>3, <1>4, <1>5, <1>6, <1>7, <1>8, <1>9, <1>10
       DEF Next, SlotStep, RequestStep, Decision

(* Nobody decides an approval before it is linked, unless a request may be *)
(* as eager as that.                                                       *)
LEMMA UntouchedStep ==
    ASSUME Typed, AllKept, WaitInv, Next, Hazards \cap {"eager", "outage"} = {}, NEW u \in Slots
    PROVE  Untouched(u)'
  <1>a. Untouched(u)
    BY DEF WaitInv
  <1>b. /\ approval \in [Approvals -> {"none", "pending", "approved", "rejected"}]
        /\ slot \in [Slots -> SlotState] /\ request \in [Requests -> RequestState]
        /\ steps \in [Approvals -> Seq({"pending", "approved", "rejected"})]
    BY DEF Typed, TypeOK
  <1>d. \A w \in Slots : SlotBound(w)
    BY DEF Typed
  <1>e. \A c \in Approvals : steps[c] # <<>> => steps'[c] # <<>>
    <2> SUFFICES ASSUME NEW c \in Approvals, steps[c] # <<>> PROVE steps'[c] # <<>>
      OBVIOUS
    <2>1. steps[c] \in Seq({"pending", "approved", "rejected"}) /\ Len(steps[c]) <= Len(steps'[c])
      BY <1>b DEF AllKept, Kept
    <2>2. Len(steps[c]) > 0
      BY <2>1, EmptySeq
    <2>3. Len(steps'[c]) > 0
      BY <2>1, <2>2 DEF AllKept
    <2> QED BY <2>3
  <1>1. ASSUME NEW w \in Slots, Claim(w) \/ AutoApprove(w) \/ StartToolRun(w) \/ EndToolRun(w)
           \/ MarkTaskWaitingApproval(w) \/ Deliver(w) \/ GiveUp(w) \/ Throw(w)
           \/ CrashRunner(w) PROVE Untouched(u)'
    <2>1. /\ UNCHANGED <<approval, steps, request>>
          /\ slot'[u] = slot[u] \/ slot'[u].pc \notin HasApproval
      BY <1>1, <1>b DEF
             Claim, AutoApprove, StartToolRun, EndToolRun, MarkTaskWaitingApproval, Deliver,
             GiveUp, Throw, CrashRunner, Goto, Leave, IdleSlot, SlotState, HasApproval
    <2> QED BY <1>a, <2>1 DEF Untouched, HasApproval
  <1>2. ASSUME NEW w \in Slots, NEW r \in Runs, PickQueuedRun(w, r) PROVE Untouched(u)'
    <2>1. UNCHANGED <<approval, steps, request>> /\ \A v \in Slots \ {w} : slot'[v] = slot[v]
      BY <1>2, <1>b DEF PickQueuedRun
    <2>2. slot'[w].pc = "picked"
      BY <1>2, <1>b DEF PickQueuedRun, SlotState
    <2> QED BY <1>a, <2>1, <2>2 DEF Untouched, HasApproval
  <1>3. ASSUME NEW w \in Slots, NEW r \in Runs, CreateToolRun(w, r) PROVE Untouched(u)'
    <2>1. /\ UNCHANGED <<approval, steps, request>>
          /\ slot'[u] = slot[u] \/ slot'[u].pc \notin HasApproval
      BY <1>3, <1>b DEF
             CreateToolRun, IdleSlot, SlotState, HasApproval
    <2> QED BY <1>a, <2>1 DEF Untouched, HasApproval
  <1>4. ASSUME NEW w \in Slots, NEW a \in Approvals, CreateApproval(w, a) PROVE Untouched(u)'
    <2>1. UNCHANGED <<steps, request>> /\ approval[a] = "none"
          /\ approval' = [approval EXCEPT ![a] = "pending"]
      BY <1>4 DEF CreateApproval
    <2>2. CASE u = w
      <3>1. slot'[u].approval = a /\ slot'[u].pc = "asked" /\ approval'[a] = "pending"
        BY <1>4, <1>b, <2>2 DEF CreateApproval, SlotState
      <3>2. \A q \in Requests : request[q].stage # "idle" => request[q].approval # a
        BY <2>1 DEF Typed, RequestBound
      <3> QED BY <2>1, <3>1, <3>2 DEF Untouched
    <2>3. CASE u # w
      <3>1. slot'[u] = slot[u] /\ \A c \in Approvals : approval[c] = "pending" => approval'[c] = "pending"
        BY <1>4, <1>b, <2>1, <2>3 DEF CreateApproval
      <3> QED BY <1>a, <1>d, <2>1, <3>1 DEF Untouched, SlotBound
    <2> QED BY <2>2, <2>3
  <1>5. ASSUME NEW w \in Slots, OpenWorkflow(w) PROVE Untouched(u)'
    <2>1. /\ UNCHANGED <<approval, request>> /\ slot[w].pc = "asked" /\ slot[w].approval \in Approvals
          /\ slot'[w].approval = slot[w].approval /\ slot'[w].pc = "opened"
          /\ \A v \in Slots \ {w} : slot'[v] = slot[v]
          /\ steps'[slot[w].approval] = Opened(slot[w].approval)
      BY <1>5, <1>b, <1>d DEF OpenWorkflow, Goto, SlotState, SlotBound, HasApproval
    <2>2. Opened(slot[w].approval) # <<>>
      BY DEF Opened
    <2> QED BY <1>a, <1>d, <1>e, <2>1, <2>2 DEF Untouched, SlotBound, HasApproval
  <1>6. ASSUME NEW w \in Slots, MarkToolRunApprovalPending(w) PROVE Untouched(u)'
    <2>1. /\ UNCHANGED <<approval, steps, request>> /\ slot[w].pc = "opened"
          /\ slot'[w].approval = slot[w].approval /\ slot'[w].pc = "linked"
          /\ \A v \in Slots \ {w} : slot'[v] = slot[v]
      BY <1>6, <1>b DEF MarkToolRunApprovalPending, Goto, SlotState
    <2> QED BY <1>a, <2>1 DEF Untouched, HasApproval
  <1>7. CASE RecoverStaleTask \/ ExpireWaitingTask \/ CancelTask
    <2>1. UNCHANGED <<approval, steps, slot, request>>
      BY <1>7 DEF RecoverStaleTask,
             ExpireWaitingTask, CancelTask
    <2> QED BY <1>a, <2>1 DEF Untouched
  <1>8. CASE CrashOrchestrator
    <2> QED BY <1>8 DEF CrashOrchestrator, Fault
  <1>9. ASSUME NEW r \in Runs, TimeOutRun(r) \/ CleanOrphanRun(r) PROVE Untouched(u)'
    <2>1. UNCHANGED <<approval, steps, slot, request>>
      BY <1>9 DEF TimeOutRun,
             CleanOrphanRun
    <2> QED BY <1>a, <2>1 DEF Untouched
  <1>10. ASSUME NEW q \in Requests, DecideStep(q) PROVE Untouched(u)'
    <2> DEFINE a == request[q].approval
               i == request[q].step
               v == request[q].verdict
    <2>1. UNCHANGED slot /\ request[q].stage = "read"
      BY <1>10 DEF DecideStep
    <2>2. CASE steps[a][i] # "pending"
      <3>1. request' = [request EXCEPT ![q] = IdleRequest] /\ UNCHANGED <<approval, steps>>
        BY <1>10, <2>2 DEF DecideStep
      <3>2. \A p \in Requests : request'[p] = request[p] \/ request'[p].stage = "idle"
        BY <1>b, <3>1 DEF IdleRequest
      <3> QED BY <1>a, <2>1, <3>1, <3>2 DEF Untouched
    <2>3. CASE steps[a][i] = "pending"
      <3>1. DecidesStep(q, a, i, v)
        BY <1>10, <2>3, StepDecided
      <3>2. slot[u].pc \in HasApproval => slot[u].approval # a
        BY <1>a, <2>1 DEF Untouched
      <3> HIDE DEF a, i, v
      <3> QED BY <1>a, <1>d, <2>1, <3>1, <3>2 DEF Untouched, DecidesStep, SlotBound, HasApproval
    <2> QED BY <2>2, <2>3
  <1>11. ASSUME NEW q \in Requests, ApplyToRuns(q) \/ ApplyToTask(q) PROVE Untouched(u)'
    <2>1. UNCHANGED <<approval, steps, slot>>
      BY <1>11 DEF ApplyToRuns, ApplyToTask
    <2>2. \/ request' = [request EXCEPT ![q] = IdleRequest]
          \/ request[q].stage # "idle" /\ request' = [request EXCEPT ![q].stage = "applied"]
      BY <1>11 DEF ApplyToRuns, ApplyToTask
    <2>3. \A p \in Requests : request'[p].stage # "idle" =>
             request[p].stage # "idle" /\ request'[p].approval = request[p].approval
      <3>1. CASE request' = [request EXCEPT ![q] = IdleRequest]
        BY <1>b, <3>1 DEF IdleRequest
      <3>2. CASE request[q].stage # "idle" /\ request' = [request EXCEPT ![q].stage = "applied"]
        BY <1>b, <3>2 DEF RequestState
      <3> QED BY <2>2, <3>1, <3>2
    <2> QED BY <1>a, <2>1, <2>3 DEF Untouched
  <1>12. ASSUME NEW q \in Requests, NEW a \in Approvals, NEW i \in 1..MaxSteps, NEW v
           \in Decision, ReceiveDecision(q, a, i, v) PROVE Untouched(u)'
    <2>1. /\ UNCHANGED <<approval, slot>>
          /\ request' = [request EXCEPT ![q] = [stage |-> "read", approval |-> a, step |-> i, verdict |-> v]]
          /\ ~\E w \in Slots : slot[w].approval = a /\ slot[w].pc \in HasApproval
      BY <1>12 DEF ReceiveDecision, Fault, HasApproval
    <2>2. \A p \in Requests : request'[p] = request[p] \/ request'[p].approval = a
      BY <1>b, <2>1
    <2> QED BY <1>a, <1>d, <1>e, <2>1, <2>2 DEF Untouched, SlotBound, HasApproval
  <1>13. ASSUME NEW a \in Approvals, Escalate(a) PROVE Untouched(u)'
    <2>1. UNCHANGED <<approval, slot, request>>
      BY <1>13 DEF Escalate
    <2> QED BY <1>a, <1>d, <1>e, <2>1 DEF Untouched, SlotBound, HasApproval
  <1> QED
    BY <1>1, <1>2, <1>3, <1>4, <1>5, <1>6, <1>7, <1>8, <1>9, <1>10, <1>11, <1>12,
       <1>13 DEF Next, SlotStep, RequestStep, Decision
(* A run that is linked keeps its link.                                    *)
LEMMA LinkStays ==
    ASSUME Typed, RunsInv, Next, NEW r \in Runs, LinkOf(r) # NoApproval
    PROVE  LinkOf(r)' = LinkOf(r)
  <1>1. run \in [Runs -> RunRow]
    BY DEF Typed, TypeOK
  <1>2. CASE Unlinking
    BY <1>2 DEF Unlinking, LinksStay
  <1>3. ASSUME NEW w \in Slots, NEW s \in Runs, CreateToolRun(w, s) PROVE LinkOf(r)' = LinkOf(r)
    BY <1>1, <1>3 DEF CreateToolRun, RunsInv, RowOK, LinkOf
  <1>4. ASSUME NEW w \in Slots, MarkToolRunApprovalPending(w) PROVE LinkOf(r)' = LinkOf(r)
    <2>1. LinkOf(slot[w].run) = NoApproval
      BY <1>4 DEF MarkToolRunApprovalPending, RunsInv, AskingOK, Asking
    <2> QED BY <1>1, <1>4, <2>1 DEF MarkToolRunApprovalPending, LinkOf
  <1> QED BY <1>2, <1>3, <1>4, MostStepsUnlink DEF LinkingStep

(* What brings a waiting task on goes on doing so until it has.            *)
OnTheWay(a) == Decidable(a) \/ Concluding(a)

(* Only an outage loses it.                                                *)
LEMMA OnTheWayStep ==
    ASSUME Typed, Next, "outage" \notin Hazards, task' = "waiting_approval",
           NEW b \in Approvals, OnTheWay(b)
    PROVE  OnTheWay(b)'
  <1>a. request \in [Requests -> RequestState]
    BY DEF Typed, TypeOK
  <1>b. /\ approval \in [Approvals -> {"none", "pending", "approved", "rejected"}]
        /\ steps \in [Approvals -> Seq({"pending", "approved", "rejected"})]
    BY DEF Typed, TypeOK
  <1>1. ASSUME NEW w \in Slots, Claim(w) \/ AutoApprove(w) \/ MarkToolRunApprovalPending(w)
           \/ MarkTaskWaitingApproval(w) \/ StartToolRun(w) \/ EndToolRun(w) \/ Deliver(w)
           \/ GiveUp(w) \/ Throw(w) \/ CrashRunner(w) PROVE OnTheWay(b)'
    <2>1. UNCHANGED <<approval, steps, request>>
      BY <1>1 DEF Claim, AutoApprove,
             MarkToolRunApprovalPending, MarkTaskWaitingApproval, StartToolRun, EndToolRun,
             Deliver, GiveUp, Throw, CrashRunner
    <2> QED BY <2>1 DEF OnTheWay, Decidable, Concluding, PendingSteps
  <1>2. ASSUME NEW w \in Slots, NEW r \in Runs, PickQueuedRun(w, r) \/ CreateToolRun(w, r)
           PROVE OnTheWay(b)'
    <2>1. UNCHANGED <<approval, steps, request>>
      BY <1>2 DEF PickQueuedRun, CreateToolRun
    <2> QED BY <2>1 DEF OnTheWay, Decidable, Concluding, PendingSteps
  <1>3. CASE RecoverStaleTask \/ ExpireWaitingTask \/ CancelTask
    <2>1. UNCHANGED <<approval, steps, request>>
      BY <1>3 DEF RecoverStaleTask,
             ExpireWaitingTask, CancelTask
    <2> QED BY <2>1 DEF OnTheWay, Decidable, Concluding, PendingSteps
  <1>4. ASSUME NEW r \in Runs, TimeOutRun(r) \/ CleanOrphanRun(r) PROVE OnTheWay(b)'
    <2>1. UNCHANGED <<approval, steps, request>>
      BY <1>4 DEF TimeOutRun, CleanOrphanRun
    <2> QED BY <2>1 DEF OnTheWay, Decidable, Concluding, PendingSteps
  <1>5. ASSUME NEW w \in Slots, NEW a \in Approvals, CreateApproval(w, a) PROVE OnTheWay(b)'
    <2>1. UNCHANGED <<steps, request>> /\ (approval[b] = "pending" => approval'[b] = "pending")
      BY <1>5, <1>b DEF CreateApproval
    <2> QED BY <2>1 DEF OnTheWay, Decidable, Concluding, PendingSteps
  <1>6. ASSUME NEW w \in Slots, OpenWorkflow(w) PROVE OnTheWay(b)'
    <2>1. UNCHANGED <<approval, request>>
      BY <1>6 DEF OpenWorkflow
    <2>2. PendingSteps(b) # {} => PendingSteps(b)' # {}
      BY <1>6, <1>b DEF OpenWorkflow, Opened, PendingSteps
    <2> QED BY <2>1, <2>2 DEF OnTheWay, Decidable, Concluding
  <1>7. CASE CrashOrchestrator
    BY <1>7 DEF CrashOrchestrator, Fault
  <1>8. ASSUME NEW q \in Requests, DecideStep(q) PROVE OnTheWay(b)'
    <2> DEFINE a == request[q].approval
               i == request[q].step
               v == request[q].verdict
    <2>1. request[q].stage = "read"
      BY <1>8 DEF DecideStep
    <2>2. CASE steps[a][i] # "pending"
      <3>1. request' = [request EXCEPT ![q] = IdleRequest] /\ UNCHANGED <<approval, steps>>
        BY <1>8, <2>2 DEF DecideStep
      <3>2. \A p \in Requests : p # q => request'[p] = request[p]
        BY <1>a, <3>1
      <3> QED BY <2>1, <3>1, <3>2 DEF OnTheWay, Decidable, Concluding, PendingSteps
    <2>3. CASE steps[a][i] = "pending"
      <3>1. DecidesStep(q, a, i, v)
        BY <1>8, <2>3, StepDecided
      <3> HIDE DEF a, i, v
      <3>2. Concluding(b) => Concluding(b)'
        BY <2>1, <3>1 DEF Concluding, DecidesStep
      <3>3. CASE b # a
        BY <3>1, <3>2, <3>3 DEF DecidesStep, OnTheWay, Decidable, PendingSteps
      <3>4. CASE b = a /\ Concludes(a, i, v)
        BY <3>1, <3>4 DEF DecidesStep, OnTheWay, Concluding, Decision
      <3>5. CASE b = a /\ ~Concludes(a, i, v)
        <4>1. \E j \in DOMAIN steps'[b] : steps'[b][j] = "pending"
          BY <3>1, <3>5, PendingKept
        <4> QED BY <3>1, <3>2, <3>5, <4>1 DEF DecidesStep, OnTheWay, Decidable, PendingSteps
      <3> QED BY <3>3, <3>4, <3>5
    <2> QED BY <2>2, <2>3
  <1>9. ASSUME NEW q \in Requests, ApplyToRuns(q) PROVE OnTheWay(b)'
    <2>1. UNCHANGED <<approval, steps>> /\ request[q].stage = "decided"
      BY <1>9 DEF ApplyToRuns
    <2>2. CASE request[q].verdict = "pending"
      <3>1. request' = [request EXCEPT ![q] = IdleRequest]
        BY <1>9, <2>2 DEF ApplyToRuns
      <3>2. \A p \in Requests : p # q => request'[p] = request[p]
        BY <1>a, <3>1
      <3> QED BY <2>1, <2>2, <3>2 DEF OnTheWay, Decidable, Concluding, PendingSteps
    <2>3. CASE request[q].verdict # "pending"
      <3>1. request' = [request EXCEPT ![q].stage = "applied"]
        BY <1>9, <2>3 DEF ApplyToRuns
      <3>2. /\ \A p \in Requests : p # q => request'[p] = request[p]
            /\ request'[q].stage = "applied" /\ request'[q].approval = request[q].approval
        BY <1>a, <3>1 DEF RequestState
      <3> QED BY <2>1, <3>2 DEF OnTheWay, Decidable, Concluding, PendingSteps
    <2> QED BY <2>2, <2>3
  <1>10. ASSUME NEW q \in Requests, ApplyToTask(q) PROVE OnTheWay(b)'
    BY <1>10 DEF ApplyToTask
  <1>11. ASSUME NEW q \in Requests, NEW a \in Approvals, NEW i \in 1..MaxSteps, NEW v
           \in Decision, ReceiveDecision(q, a, i, v) PROVE OnTheWay(b)'
    <2>1. UNCHANGED approval /\ request[q].stage = "idle"
          /\ \A p \in Requests : p # q => request'[p] = request[p]
      BY <1>11, <1>a DEF ReceiveDecision
    <2>2. PendingSteps(b) # {} => PendingSteps(b)' # {}
      BY <1>11, <1>b DEF ReceiveDecision, Opened, PendingSteps
    <2> QED BY <2>1, <2>2 DEF OnTheWay, Decidable, Concluding
  <1>12. ASSUME NEW a \in Approvals, Escalate(a) PROVE OnTheWay(b)'
    <2>1. UNCHANGED <<approval, request>>
      BY <1>12 DEF Escalate
    <2>2. PendingSteps(b) # {} => PendingSteps(b)' # {}
      <3>1. steps'[b] = steps[b] \/ steps'[b] = Append(Opened(b), "pending")
        BY <1>12, <1>b DEF Escalate
      <3>2. Opened(b) \in Seq({"pending", "approved", "rejected"})
        BY OpenedIsOpen DEF Typed
      <3>3. Len(Opened(b)) + 1 \in DOMAIN Append(Opened(b), "pending")
            /\ Append(Opened(b), "pending")[Len(Opened(b)) + 1] = "pending"
        BY <3>2, AppendProperties
      <3> QED BY <3>1, <3>3 DEF PendingSteps
    <2> QED BY <2>1, <2>2 DEF OnTheWay, Decidable, Concluding
  <1> QED
    BY <1>1, <1>2, <1>3, <1>4, <1>5, <1>6, <1>7, <1>8, <1>9, <1>10, <1>11, <1>12
       DEF Next, SlotStep, RequestStep, Decision

(* So a task that waits is brought on.                                     *)
LEMMA WaitStep ==
    ASSUME Typed, RunsInv, WaitInv, [Next]_vars, Hazards \cap {"eager", "outage"} = {}
    PROVE  WaitInv'
  <1>1. CASE Next
    <2>1. \A a \in Approvals : StepsOK(a)'
      BY <1>1, StepsOKStep
    <2>2. \A w \in Slots : Untouched(w)'
      BY <1>1, StepsKept, UntouchedStep
    <2>3. ASSUME task = "waiting_approval", task' = "waiting_approval" PROVE BroughtOn'
      <3>1. PICK r \in Runs : LinkOf(r) # NoApproval /\ OnTheWay(LinkOf(r))
        BY <2>3 DEF WaitInv, BroughtOn, OnTheWay
      <3>2. LinkOf(r) \in Approvals
        BY <3>1 DEF Typed, TypeOK, RunRow, LinkOf
      <3>3. OnTheWay(LinkOf(r))'
        <4> DEFINE b == LinkOf(r)
        <4>1. ASSUME NEW c \in Approvals, c = LinkOf(r)', OnTheWay(c) PROVE OnTheWay(LinkOf(r))'
          BY <1>1, <2>3, <4>1, OnTheWayStep DEF OnTheWay, Decidable, Concluding, PendingSteps
        <4> QED BY <1>1, <3>1, <3>2, <4>1, LinkStays
      <3> QED BY <1>1, <3>1, <3>3, LinkStays DEF BroughtOn, OnTheWay
    <2>4. ASSUME NEW w \in Slots, MarkTaskWaitingApproval(w) PROVE BroughtOn'
      <3> DEFINE r == slot[w].run
                 a == slot[w].approval
      <3>1. /\ slot[w].pc = "linked" /\ r \in Runs /\ a \in Approvals /\ LinkOf(r) = a
            /\ approval[a] = "pending" /\ steps[a] # <<>>
        BY <2>4 DEF MarkTaskWaitingApproval, Typed, SlotBound, HasRun, HasApproval, SlotPc,
           RunsInv,
                    LinkedOK, WaitInv, Untouched
      <3>2. UNCHANGED <<run, approval, steps, request>>
        BY <2>4 DEF MarkTaskWaitingApproval
      <3>3. PendingSteps(a) # {}
        BY <3>1 DEF WaitInv, StepsOK
      <3>4. \E s \in Runs : run[s].approval = a
        BY <3>1 DEF LinkOf
      <3> QED BY <3>1, <3>2, <3>3, <3>4, NullAssumption DEF BroughtOn, Decidable, LinkOf,
                 PendingSteps
    <2>5. task' = "waiting_approval" => task = "waiting_approval" \/ \E w \in Slots : MarkTaskWaitingApproval(w)
      BY <1>1 DEF Next, SlotStep, RequestStep, Claim, PickQueuedRun, CreateToolRun, AutoApprove,
             CreateApproval, OpenWorkflow, MarkToolRunApprovalPending, StartToolRun, EndToolRun,
             Deliver,
             GiveUp, Throw, CrashRunner, RecoverStaleTask, ExpireWaitingTask, CancelTask,
             CrashOrchestrator, TimeOutRun, CleanOrphanRun, DecideStep, ApplyToRuns, ApplyToTask,
             ReceiveDecision, Escalate
    <2> QED BY <2>1, <2>2, <2>3, <2>4, <2>5 DEF WaitInv
  <1>2. CASE UNCHANGED vars
    BY <1>2 DEF vars, WaitInv, StepsOK, PendingSteps, Untouched, BroughtOn, Decidable,
       Concluding, LinkOf
  <1> QED BY <1>1, <1>2

(* A task that waits for its approval can be brought on: the approval has  *)
(* a step to decide, or a decision that is being applied.  Slots may       *)
(* crash, throw and lag, tools may be slow and approvals be escalated; but *)
(* the orchestrator does not die between a decision and its effects, and   *)
(* nobody decides before the slot has linked the run.                      *)
THEOREM WaitingCanGoOn ==
    ASSUME Hazards \cap {"eager", "outage"} = {}
    PROVE  Spec => []WaitingIsDecidable
  <1>1. Init => WaitInv
    BY DEF Init, WaitInv, StepsOK, Untouched, HasApproval, IdleSlot
  <1>2. Typed /\ RunsInv /\ WaitInv /\ [Next]_vars => WaitInv'
    BY WaitStep
  <1>3. WaitInv => WaitingIsDecidable
    BY DEF WaitInv, BroughtOn, LinkOf, Decidable, Concluding, WaitingIsDecidable, BeingApplied
  <1> QED BY <1>1, <1>2, <1>3, Types, RunsAlways, PTL DEF Spec
(* An approval becomes open when a slot asks for it, and only then.        *)
LEMMA OpensByAsking ==
    ASSUME Typed, SingleInv, Next, "escalation" \notin Hazards, NEW a \in Approvals, Open(a)'
    PROVE  Open(a) \/ \E w \in Slots : CreateApproval(w, a)
  <1>1. CASE Aside(a)
    BY <1>1 DEF Aside, Open
  <1>2. ASSUME NEW q \in Requests, Taken(q, a) PROVE Open(a)
    <2>1. ASSUME approval[a] \in Decision PROVE FALSE
      <3>1. Len(steps[a]) = 1 /\ steps[a][1] = approval[a]
        BY <2>1 DEF SingleInv, ApprovalOnce
      <3> QED BY <1>2, <2>1, <3>1 DEF Taken, Undecided, Decision
    <2> QED BY <1>2, <2>1 DEF Taken, Open, Typed, TypeOK, Decision
  <1>3. ASSUME NEW q \in Requests, Applied(q, a) PROVE Open(a)
    BY <1>3 DEF Applied, Open
  <1> QED BY <1>1, <1>2, <1>3, StepConcerns DEF Concerns

(* What the steps of a slot and of the sweeps are to the one who has the   *)
(* task in hand.                                                           *)
Works(w) ==
    /\ slot[w].pc # "idle" /\ slot'[w].pc # "idle" /\ task' = task
    /\ \A v \in Slots \ {w} : slot'[v] = slot[v]
    /\ slot[w].pc \in HasApproval => slot'[w].pc \in HasApproval /\ slot'[w].approval = slot[w].approval

Finishes(w) ==
    /\ slot'[w].pc = "idle" /\ \A v \in Slots \ {w} : slot'[v] = slot[v]
    /\ \/ slot[w].pc = "linked" /\ task' = "waiting_approval"
       \/ slot[w].pc \in {"start", "delivering", "failing"} /\ task' \in {"completed", "failed"}

Watches ==
    /\ UNCHANGED slot
    /\ \/ task' = task
       \/ task # "completed" /\ task' \in {"failed", "cancelled"}
       \/ \E q \in Requests : ApplyToTask(q)

BallStep == (\E w \in Slots : Claim(w) \/ Works(w) \/ Finishes(w)) \/ Watches

(* There are no other steps while nothing fails.                           *)
LEMMA BallSteps ==
    ASSUME Typed, BallInv, Next, Hazards \subseteq {"slow"}
    PROVE  BallStep
  <1>a. /\ slot \in [Slots -> SlotState] /\ run \in [Runs -> RunRow]
        /\ request \in [Requests -> RequestState]
    BY DEF Typed, TypeOK
  <1>1. ASSUME NEW w \in Slots, Claim(w) PROVE BallStep
    BY <1>1 DEF BallStep
  <1>2. ASSUME NEW w \in Slots, NEW r \in Runs, PickQueuedRun(w, r) PROVE BallStep
    <2>1. slot'[w].pc = "picked" /\ \A v \in Slots \ {w} : slot'[v] = slot[v]
      BY <1>2, <1>a DEF PickQueuedRun, SlotState
    <2>2. Works(w)
      BY <1>2, <2>1 DEF PickQueuedRun, Works, HasApproval
    <2> QED BY <2>2 DEF BallStep
  <1>3. ASSUME NEW w \in Slots, NEW r \in Runs, CreateToolRun(w, r) PROVE BallStep
    <2>1. Works(w)
      BY <1>3, <1>a DEF CreateToolRun, IdleSlot, Works, HasApproval
    <2> QED BY <2>1 DEF BallStep
  <1>4. ASSUME NEW w \in Slots, NEW a \in Approvals, CreateApproval(w, a) PROVE BallStep
    <2>1. Works(w)
      BY <1>4, <1>a DEF CreateApproval, Works, SlotState, HasApproval
    <2> QED BY <2>1 DEF BallStep
  <1>5. ASSUME NEW w \in Slots, AutoApprove(w) \/ OpenWorkflow(w)
           \/ MarkToolRunApprovalPending(w) \/ StartToolRun(w) \/ EndToolRun(w) PROVE BallStep
    <2>1. Works(w)
      BY <1>5, <1>a DEF AutoApprove, OpenWorkflow,
             MarkToolRunApprovalPending, StartToolRun, EndToolRun, Goto, Works, SlotState,
             HasApproval
    <2> QED BY <2>1 DEF BallStep
  <1>6. ASSUME NEW w \in Slots, MarkTaskWaitingApproval(w) \/ Deliver(w) \/ GiveUp(w)
           PROVE BallStep
    <2>1. Finishes(w)
      BY <1>6, <1>a DEF MarkTaskWaitingApproval, Deliver, GiveUp, Leave, IdleSlot, Finishes
    <2> QED BY <2>1 DEF BallStep
  <1>7. ASSUME NEW w \in Slots, Throw(w) \/ CrashRunner(w) PROVE BallStep
    BY <1>7 DEF Throw, CrashRunner, Fault
  <1>8. CASE RecoverStaleTask
    <2>1. \E w \in Slots : Busy(w)
      BY <1>8 DEF RecoverStaleTask, BallInv
    <2> QED BY <1>8, <2>1 DEF RecoverStaleTask, Busy, Fault
  <1>9. CASE ExpireWaitingTask \/ CancelTask
    BY <1>9 DEF ExpireWaitingTask, CancelTask, Watches, BallStep
  <1>10. CASE CrashOrchestrator
    BY <1>10 DEF CrashOrchestrator, Fault
  <1>11. ASSUME NEW r \in Runs, TimeOutRun(r) \/ CleanOrphanRun(r) PROVE BallStep
    BY <1>11 DEF TimeOutRun, CleanOrphanRun, Watches, BallStep
  <1>12. ASSUME NEW q \in Requests, DecideStep(q) \/ ApplyToRuns(q) PROVE BallStep
    BY <1>12 DEF DecideStep, ApplyToRuns, Watches, BallStep
  <1>13. ASSUME NEW q \in Requests, ApplyToTask(q) PROVE BallStep
    BY <1>13 DEF ApplyToTask, Watches, BallStep
  <1>14. ASSUME NEW q \in Requests, NEW a \in Approvals, NEW i \in 1..MaxSteps, NEW v
           \in Decision, ReceiveDecision(q, a, i, v) PROVE BallStep
    BY <1>14 DEF ReceiveDecision, Watches, BallStep
  <1>15. ASSUME NEW a \in Approvals, Escalate(a) PROVE BallStep
    BY <1>15 DEF Escalate, Watches, BallStep
  <1> QED
    BY <1>1, <1>2, <1>3, <1>4, <1>5, <1>6, <1>7, <1>8, <1>9, <1>10, <1>11, <1>12,
       <1>13, <1>14, <1>15 DEF Next, SlotStep, RequestStep, Decision

(* So the task changes hands: a slot claims it, asks, and leaves it to the *)
(* request that applies the decision.                                      *)
LEMMA BallKeeps ==
    ASSUME Typed, SingleInv, WaitInv, BallInv, [Next]_vars, Hazards \subseteq {"slow"}
    PROVE  BallInv'
  <1>a. slot \in [Slots -> SlotState]
    BY DEF Typed, TypeOK
  <1>b. /\ \A v, w \in Slots : Busy(v) /\ Busy(w) => v = w
        /\ \A w \in Slots, a \in Approvals : Busy(w) /\ Open(a) => Owns(w, a)
        /\ \A a, b \in Approvals : Open(a) /\ Open(b) => a = b
        /\ task \in {"queued", "completed"} =>
              (\A w \in Slots : ~Busy(w)) /\ (\A a \in Approvals : ~Open(a))
        /\ task = "running" => \E w \in Slots : Busy(w)
    BY DEF BallInv
  <1>1. ASSUME NEW w \in Slots, NEW a \in Approvals, CreateApproval(w, a) PROVE BallInv'
    <2>1. /\ slot[w].pc = "created" /\ slot'[w].pc = "asked" /\ slot'[w].approval = a
          /\ \A v \in Slots \ {w} : slot'[v] = slot[v]
          /\ UNCHANGED <<task, request>> /\ approval[a] = "none"
          /\ \A b \in Approvals \ {a} : approval'[b] = approval[b]
      BY <1>1, <1>a DEF CreateApproval, SlotState, Typed, TypeOK
    <2>2. \A b \in Approvals : ~Open(b)
      BY <1>b, <2>1 DEF Busy, Owns, HasApproval
    <2>3. \A b \in Approvals \ {a} : ~Open(b)'
      BY <2>1, <2>2 DEF Open, Holds
    <2>4. \A v \in Slots : v # w => ~Busy(v)'
      BY <1>b, <2>1 DEF Busy
    <2>5. task \notin {"queued", "completed"} /\ Busy(w)'
      BY <1>b, <2>1 DEF Busy
    <2> QED BY <2>1, <2>3, <2>4, <2>5 DEF BallInv, Busy, Owns, HasApproval
  <1>2. ASSUME Next, \A a \in Approvals : Open(a)' => Open(a) PROVE BallInv'
    <2>1. ASSUME NEW w \in Slots, Claim(w) PROVE BallInv'
      <3>1. slot'[w].pc = "start" /\ task = "queued" /\ task' = "running"
            /\ \A v \in Slots \ {w} : slot'[v] = slot[v]
        BY <1>a, <2>1 DEF Claim, IdleSlot
      <3> QED BY <1>2, <1>b, <3>1 DEF BallInv, Busy, Owns
    <2>2. ASSUME NEW w \in Slots, Works(w) PROVE BallInv'
      <3>1. Busy(w) /\ Busy(w)' /\ \A v \in Slots \ {w} : ~Busy(v) /\ ~Busy(v)'
        BY <1>b, <2>2 DEF Works, Busy
      <3>2. \A a \in Approvals : Owns(w, a) => Owns(w, a)'
        BY <2>2 DEF Works, Owns
      <3> QED BY <1>2, <1>b, <2>2, <3>1, <3>2 DEF BallInv, Works
    <2>3. ASSUME NEW w \in Slots, Finishes(w) PROVE BallInv'
      <3>1. Busy(w) /\ \A v \in Slots : ~Busy(v)'
        BY <1>b, <2>3 DEF Finishes, Busy
      <3>2. task' = "completed" => \A a \in Approvals : ~Open(a)
        BY <1>b, <2>3, <3>1 DEF Finishes, Owns, HasApproval
      <3> QED BY <1>2, <1>b, <2>3, <3>1, <3>2 DEF BallInv, Finishes
    <2>4. ASSUME NEW q \in Requests, ApplyToTask(q) PROVE BallInv'
      <3> DEFINE b == request[q].approval
      <3>1. b \in Approvals /\ Holds(q, b) /\ Open(b)
        BY <2>4 DEF ApplyToTask, Typed, RequestBound, Holds, Open
      <3>2. \A w \in Slots : ~Busy(w)
        BY <1>b, <3>1 DEF WaitInv, Untouched, Owns, Holds
      <3>3. \A c \in Approvals : ~Open(c)'
        <4>1. request' = [request EXCEPT ![q] = IdleRequest] /\ UNCHANGED approval
          BY <2>4 DEF ApplyToTask
        <4>2. \A p \in Requests : (p # q => request'[p] = request[p]) /\ request'[q].stage = "idle"
          BY <4>1 DEF Typed, TypeOK, IdleRequest
        <4>3. approval[b] = request[q].verdict /\ \A p \in Requests : Holds(p, b) => p = q
          BY <3>1 DEF SingleInv, HolderOnce
        <4>4. approval[b] # "pending"
          BY <2>4, <4>3 DEF ApplyToTask, Typed, RequestBound, Decision
        <4>5. \A c \in Approvals, p \in Requests : Holds(p, c)' => Holds(p, c) /\ p # q
          BY <4>2 DEF Holds
        <4>6. ASSUME NEW c \in Approvals, c = b PROVE ~Open(c)'
          BY <4>1, <4>3, <4>4, <4>5, <4>6 DEF Open
        <4>7. \A c \in Approvals : c # b => ~Open(c)'
          BY <1>2, <1>b, <3>1
        <4> QED BY <4>6, <4>7
      <3>4. UNCHANGED slot /\ task' \in {"queued", "failed"}
        BY <2>4 DEF ApplyToTask
      <3> QED BY <3>2, <3>3, <3>4 DEF BallInv, Busy
    <2>5. CASE Watches /\ ~\E q \in Requests : ApplyToTask(q)
      BY <1>2, <1>b, <2>5 DEF BallInv, Watches, Busy, Owns
    <2> QED BY <1>2, <2>1, <2>2, <2>3, <2>4, <2>5, BallSteps DEF BallStep
  <1>3. CASE UNCHANGED vars
    BY <1>3, <1>b DEF vars, BallInv, Busy, Open, Holds, Owns
  <1> QED BY <1>1, <1>2, <1>3, OpensByAsking
(* A run of a high-risk task stays on its way.                             *)
LEMMA RunHighStep ==
    ASSUME Typed, RunsInv, HighInv, risk = "high", Next, Hazards \subseteq {"slow"},
           NEW s \in Runs
    PROVE  RunHigh(s)'
  <1>a. slot \in [Slots -> SlotState] /\ run \in [Runs -> RunRow]
    BY DEF Typed, TypeOK
  <1>b. /\ RunHigh(s)
        /\ \A w \in Slots : SlotBound(w)
        /\ LinkOf(s) # NoApproval => LinkOf(s)' = LinkOf(s)
    BY LinkStays DEF HighInv, Typed
  <1>c. \A w \in Slots : slot[w].pc \in {"picked", "executing"} =>
             slot[w].run \in Runs /\ run[slot[w].run].status # "absent"
    BY DEF HighInv, PickedHigh, RunsInv, RowOK, Typed, SlotBound, HasRun, SlotPc
  <1>1. ASSUME NEW w \in Slots, Claim(w) \/ OpenWorkflow(w) \/ MarkTaskWaitingApproval(w)
           \/ Deliver(w) \/ GiveUp(w) PROVE RunHigh(s)'
    <2>1. UNCHANGED run
      BY <1>1 DEF Claim, OpenWorkflow, MarkTaskWaitingApproval, Deliver,
             GiveUp
    <2>2. \A u \in Slots : slot[u].pc \in Asking => slot'[u].pc \in Asking /\ slot'[u].run = slot[u].run
      BY <1>1, <1>a DEF
             Claim, OpenWorkflow, MarkTaskWaitingApproval, Deliver, GiveUp, Goto, Leave,
             IdleSlot, Asking, SlotState
    <2> QED BY <1>b, <2>1, <2>2 DEF RunHigh, LinkOf
  <1>2. ASSUME NEW w \in Slots, NEW r \in Runs, PickQueuedRun(w, r) PROVE RunHigh(s)'
    <2>1. UNCHANGED run
      BY <1>2 DEF PickQueuedRun
    <2>2. \A u \in Slots : slot[u].pc \in Asking => slot'[u].pc \in Asking /\ slot'[u].run = slot[u].run
      BY <1>2, <1>a DEF
             PickQueuedRun, Asking, SlotState
    <2> QED BY <1>b, <2>1, <2>2 DEF RunHigh, LinkOf
  <1>3. ASSUME NEW w \in Slots, NEW r \in Runs, CreateToolRun(w, r) PROVE RunHigh(s)'
    <2>1. slot'[w].pc = "created" /\ slot'[w].run = r
      BY <1>3, <1>a DEF CreateToolRun, IdleSlot
    <2>2. CASE s = r
      BY <2>1, <2>2 DEF RunHigh, Asking
    <2>3. CASE s # r
      <3>1. run'[s] = run[s] /\ slot[w].pc \notin Asking /\ \A u \in Slots \ {w} : slot'[u] = slot[u]
        BY <1>3, <1>a, <2>3 DEF CreateToolRun, Asking
      <3> QED BY <1>b, <3>1 DEF RunHigh, LinkOf
    <2> QED BY <2>2, <2>3
  <1>4. ASSUME NEW w \in Slots, NEW a \in Approvals, CreateApproval(w, a) PROVE RunHigh(s)'
    <2>1. UNCHANGED run
      BY <1>4 DEF CreateApproval
    <2>2. \A u \in Slots : slot[u].pc \in Asking => slot'[u].pc \in Asking /\ slot'[u].run = slot[u].run
      BY <1>4, <1>a DEF
             CreateApproval, Asking, SlotState
    <2> QED BY <1>b, <2>1, <2>2 DEF RunHigh, LinkOf
  <1>5. ASSUME NEW w \in Slots, AutoApprove(w) PROVE RunHigh(s)'
    BY <1>5 DEF AutoApprove
  <1>6. ASSUME NEW w \in Slots, MarkToolRunApprovalPending(w) PROVE RunHigh(s)'
    <2>1. /\ slot[w].run \in Runs /\ slot[w].approval # NoApproval
          /\ \A u \in Slots \ {w} : slot'[u] = slot[u]
          /\ \A r \in Runs : r # slot[w].run => run'[r] = run[r]
          /\ run'[slot[w].run].approval = slot[w].approval
      BY <1>6, <1>a, <1>b, NullAssumption
         DEF MarkToolRunApprovalPending, Goto, SlotBound, HasRun, HasApproval, SlotPc
    <2>2. CASE s = slot[w].run
      BY <2>1, <2>2 DEF RunHigh, LinkOf
    <2>3. CASE s # slot[w].run
      BY <1>b, <2>1, <2>3 DEF RunHigh, LinkOf
    <2> QED BY <2>2, <2>3
  <1>7. ASSUME NEW w \in Slots, StartToolRun(w) \/ EndToolRun(w) PROVE RunHigh(s)'
    <2>1. \A u \in Slots : slot[u].pc \in Asking => slot'[u] = slot[u]
      BY <1>7, <1>a DEF StartToolRun, EndToolRun, Goto, Asking, SlotState
    <2>2. slot[w].run \in Runs /\ \A r \in Runs : r # slot[w].run => run'[r] = run[r]
      BY <1>7, <1>a, <1>c DEF StartToolRun, EndToolRun
    <2>3. LinkOf(s)' = LinkOf(s) /\ (run'[s].status = "absent" => run[s].status = "absent")
      BY <1>7, <1>a DEF StartToolRun, EndToolRun, RunRow, LinkOf
    <2>4. RunHigh(s)' \/ (run[s].status = "absent" /\ run'[s].status # "absent")
      BY <1>b, <2>1, <2>3 DEF RunHigh, LinkOf
    <2>5. run[slot[w].run].status # "absent"
      BY <1>7, <1>c DEF StartToolRun, EndToolRun
    <2> QED BY <2>2, <2>4, <2>5
  <1>8. ASSUME NEW w \in Slots, Throw(w) \/ CrashRunner(w) PROVE RunHigh(s)'
    BY <1>8 DEF Throw, CrashRunner, Fault
  <1>9. CASE RecoverStaleTask \/ ExpireWaitingTask \/ CancelTask
    <2>1. UNCHANGED <<run, slot>>
      BY <1>9 DEF RecoverStaleTask, ExpireWaitingTask,
             CancelTask
    <2> QED BY <1>b, <2>1 DEF RunHigh, LinkOf
  <1>10. CASE CrashOrchestrator
    <2>1. UNCHANGED <<run, slot>>
      BY <1>10 DEF CrashOrchestrator
    <2> QED BY <1>b, <2>1 DEF RunHigh, LinkOf
  <1>11. ASSUME NEW r \in Runs, TimeOutRun(r) \/ CleanOrphanRun(r) PROVE RunHigh(s)'
    <2>1. UNCHANGED slot /\ LinkOf(s)' = LinkOf(s) /\ (run[s].status = "absent" => run'[s].status = "absent")
      BY <1>11, <1>a DEF TimeOutRun, CleanOrphanRun, Active, RunRow, LinkOf
    <2> QED BY <1>b, <2>1 DEF RunHigh, LinkOf
  <1>12. ASSUME NEW q \in Requests, DecideStep(q) \/ ApplyToTask(q) PROVE RunHigh(s)'
    <2>1. UNCHANGED <<run, slot>>
      BY <1>12 DEF DecideStep, ApplyToTask
    <2> QED BY <1>b, <2>1 DEF RunHigh, LinkOf
  <1>13. ASSUME NEW q \in Requests, ApplyToRuns(q) PROVE RunHigh(s)'
    <2>1. UNCHANGED slot
      BY <1>13 DEF ApplyToRuns
    <2>2. run'[s] = run[s] \/ (LinkOf(s) = request[q].approval /\ request[q].approval \in Approvals)
      BY <1>13 DEF ApplyToRuns, LinkOf, Typed, RequestBound
    <2> QED BY <1>b, <2>1, <2>2, NullAssumption DEF RunHigh, LinkOf
  <1>14. ASSUME NEW q \in Requests, NEW a \in Approvals, NEW i \in 1..MaxSteps, NEW v
           \in Decision, ReceiveDecision(q, a, i, v) PROVE RunHigh(s)'
    <2>1. UNCHANGED <<run, slot>>
      BY <1>14 DEF ReceiveDecision
    <2> QED BY <1>b, <2>1 DEF RunHigh, LinkOf
  <1>15. ASSUME NEW a \in Approvals, Escalate(a) PROVE RunHigh(s)'
    <2>1. UNCHANGED <<run, slot>>
      BY <1>15 DEF Escalate
    <2> QED BY <1>b, <2>1 DEF RunHigh, LinkOf
  <1> QED
    BY <1>1, <1>2, <1>3, <1>4, <1>5, <1>6, <1>7, <1>8, <1>9, <1>10, <1>11, <1>12,
       <1>13, <1>14, <1>15 DEF Next, SlotStep, RequestStep, Decision

(* What a slot picks up of it is linked and approved.                      *)
LEMMA PickedHighStep ==
    ASSUME Typed, RunsInv, SingleInv, VerdictInv, BallInv, HighInv, risk = "high", Next,
           Hazards \subseteq {"slow"}, NEW u \in Slots, slot'[u].pc \in {"picked", "executing"}
    PROVE  /\ run'[slot'[u].run].approval # NoApproval
           /\ slot'[u].pc = "picked" => run'[slot'[u].run].verdict = "approved"
  <1> DEFINE Fine == /\ run'[slot'[u].run].approval # NoApproval
                     /\ slot'[u].pc = "picked" => run'[slot'[u].run].verdict = "approved"
  <1>a. slot \in [Slots -> SlotState]
    BY DEF Typed, TypeOK
  <1>b. \A w \in Slots : Busy(u) /\ Busy(w) => w = u
    BY DEF BallInv
  <1>c. ASSUME slot'[u] = slot[u] PROVE Fine
    <2> DEFINE s == slot[u].run
    <2>1. /\ s \in Runs /\ slot'[u].run = s /\ run[s].approval \in Approvals
          /\ run[s].approval # NoApproval /\ run'[s].approval = run[s].approval
          /\ slot[u].pc = "picked" => run[s].verdict = "approved"
      BY <1>c, LinkStays DEF Typed, TypeOK, RunRow, SlotBound, HasRun, SlotPc, HighInv,
         PickedHigh, LinkOf
    <2>2. CASE VerdictStays(s)
      BY <1>c, <2>1, <2>2 DEF VerdictStays
    <2>3. CASE VerdictOpen(s)
      BY <1>b, <1>c, <2>1, <2>3 DEF VerdictOpen, Busy
    <2>4. ASSUME NEW q \in Requests, Judged(s, q), slot[u].pc = "picked" PROVE Fine
      <3>1. request[q].approval \in Approvals /\ Holds(q, request[q].approval)
        BY <2>4 DEF Typed, RequestBound, Judged, Holds
      <3>2. request[q].verdict = approval[request[q].approval]
        BY <3>1 DEF SingleInv, HolderOnce
      <3>3. approval[run[s].approval] = "approved"
        BY <2>1, <2>4 DEF VerdictInv, LinkOf
      <3> QED BY <2>1, <2>4, <3>2, <3>3 DEF Judged
    <2>5. CASE slot[u].pc # "picked"
      BY <1>c, <2>1, <2>5
    <2> QED BY <2>1, <2>2, <2>3, <2>4, <2>5, VerdictSteps DEF VerdictStep
  <1>1. ASSUME NEW w \in Slots, Claim(w) \/ OpenWorkflow(w) \/ MarkToolRunApprovalPending(w)
           \/ EndToolRun(w) \/ MarkTaskWaitingApproval(w) \/ Deliver(w) \/ GiveUp(w)
           PROVE Fine
    <2>1. slot'[u] = slot[u]
      BY <1>1, <1>a DEF Claim, OpenWorkflow,
             MarkToolRunApprovalPending, EndToolRun, MarkTaskWaitingApproval, Deliver, GiveUp,
             Goto, Leave, IdleSlot, SlotState
    <2> QED BY <1>c, <2>1
  <1>2. ASSUME NEW w \in Slots, NEW r \in Runs, PickQueuedRun(w, r) PROVE Fine
    <2>1. CASE u # w
      <3>1. slot'[u] = slot[u]
        BY <1>2, <1>a, <2>1 DEF PickQueuedRun
      <3> QED BY <1>c, <3>1
    <2>2. CASE u = w
      <3>1. UNCHANGED run /\ slot'[u].run = r /\ Executable(r) /\ slot[u].pc = "start"
        BY <1>2, <1>a, <2>2 DEF PickQueuedRun, SlotState
      <3>2. LinkOf(r) # NoApproval
        BY <3>1 DEF HighInv, RunHigh, Executable, BallInv, Busy, Asking
      <3>3. run[r].verdict = "approved"
        BY <3>1, <3>2 DEF RunsInv, RowOK, Executable
      <3> QED BY <3>1, <3>2, <3>3 DEF LinkOf
    <2> QED BY <2>1, <2>2
  <1>3. ASSUME NEW w \in Slots, NEW r \in Runs, CreateToolRun(w, r) PROVE Fine
    <2>1. slot'[u] = slot[u]
      BY <1>3, <1>a DEF CreateToolRun, IdleSlot
    <2> QED BY <1>c, <2>1
  <1>4. ASSUME NEW w \in Slots, NEW a \in Approvals, CreateApproval(w, a) PROVE Fine
    <2>1. slot'[u] = slot[u]
      BY <1>4, <1>a DEF CreateApproval, SlotState
    <2> QED BY <1>c, <2>1
  <1>5. ASSUME NEW w \in Slots, AutoApprove(w) PROVE Fine
    BY <1>5 DEF AutoApprove
  <1>6. ASSUME NEW w \in Slots, StartToolRun(w) PROVE Fine
    <2>1. CASE u # w
      <3>1. slot'[u] = slot[u]
        BY <1>6, <1>a, <2>1 DEF StartToolRun, Goto
      <3> QED BY <1>c, <3>1
    <2>2. CASE u = w
      <3>1. /\ slot[u].pc = "picked" /\ slot'[u].pc = "executing" /\ slot'[u].run = slot[u].run
        BY <1>6, <1>a, <2>2 DEF StartToolRun, Goto, SlotState
      <3>2. LinkOf(slot[u].run) # NoApproval /\ slot[u].run \in Runs
        BY <3>1 DEF HighInv, PickedHigh, Typed, SlotBound, HasRun, SlotPc
      <3> QED BY <3>1, <3>2, LinkStays DEF LinkOf
    <2> QED BY <2>1, <2>2
  <1>7. ASSUME NEW w \in Slots, Throw(w) \/ CrashRunner(w) PROVE Fine
    BY <1>7 DEF Throw, CrashRunner, Fault
  <1>8. CASE RecoverStaleTask \/ ExpireWaitingTask \/ CancelTask
    <2>1. UNCHANGED slot
      BY <1>8 DEF RecoverStaleTask, ExpireWaitingTask, CancelTask
    <2> QED BY <1>c, <2>1
  <1>9. CASE CrashOrchestrator
    <2>1. UNCHANGED slot
      BY <1>9 DEF CrashOrchestrator
    <2> QED BY <1>c, <2>1
  <1>10. ASSUME NEW r \in Runs, TimeOutRun(r) \/ CleanOrphanRun(r) PROVE Fine
    <2>1. UNCHANGED slot
      BY <1>10 DEF TimeOutRun, CleanOrphanRun
    <2> QED BY <1>c, <2>1
  <1>11. ASSUME NEW q \in Requests, DecideStep(q) \/ ApplyToRuns(q) \/ ApplyToTask(q)
           PROVE Fine
    <2>1. UNCHANGED slot
      BY <1>11 DEF DecideStep, ApplyToRuns, ApplyToTask
    <2> QED BY <1>c, <2>1
  <1>12. ASSUME NEW q \in Requests, NEW a \in Approvals, NEW i \in 1..MaxSteps, NEW v
           \in Decision, ReceiveDecision(q, a, i, v) PROVE Fine
    <2>1. UNCHANGED slot
      BY <1>12 DEF ReceiveDecision
    <2> QED BY <1>c, <2>1
  <1>13. ASSUME NEW a \in Approvals, Escalate(a) PROVE Fine
    <2>1. UNCHANGED slot
      BY <1>13 DEF Escalate
    <2> QED BY <1>c, <2>1
  <1> QED
    BY <1>1, <1>2, <1>3, <1>4, <1>5, <1>6, <1>7, <1>8, <1>9, <1>10, <1>11, <1>12,
       <1>13 DEF Next, SlotStep, RequestStep, Decision

(* So a high-risk run is picked up with its verdict.                       *)
LEMMA HighKeeps ==
    ASSUME Typed, RunsInv, SingleInv, VerdictInv, BallInv, HighInv, [Next]_vars, Hazards \subseteq {"slow"}
    PROVE  HighInv'
  <1>1. risk' = risk
    BY DEF Next, SlotStep, RequestStep, Claim, PickQueuedRun, CreateToolRun, AutoApprove,
       CreateApproval,
           OpenWorkflow, MarkToolRunApprovalPending, MarkTaskWaitingApproval, StartToolRun,
           EndToolRun,
           Deliver, GiveUp, Throw, CrashRunner, RecoverStaleTask, ExpireWaitingTask, CancelTask,
           CrashOrchestrator, TimeOutRun, CleanOrphanRun, DecideStep, ApplyToRuns, ApplyToTask,
           ReceiveDecision, Escalate, vars
  <1>2. CASE Next
    BY <1>1, <1>2, RunHighStep, PickedHighStep DEF HighInv, PickedHigh, LinkOf
  <1>3. CASE UNCHANGED vars
    BY <1>3 DEF vars, HighInv, RunHigh, PickedHigh, LinkOf
  <1> QED BY <1>2, <1>3

(* While nothing fails but that tools are slow, the task is in one party's *)
(* hands at a time.                                                        *)
LEMMA FaultlessAlways ==
    ASSUME Hazards \subseteq {"slow"}
    PROVE  Spec => [](SingleInv /\ RunsInv /\ VerdictInv /\ WaitInv /\ BallInv /\ HighInv)
  <1>1. Init => VerdictInv /\ WaitInv /\ BallInv /\ HighInv
    BY DEF Init, VerdictInv, WaitInv, StepsOK, Untouched, HasApproval, BallInv, Busy, Open,
       Holds, HighInv,
           RunHigh, PickedHigh, LinkOf, NoRow, IdleSlot, IdleRequest
  <1>2. Hazards \cap {"eager", "outage"} = {} /\ "escalation" \notin Hazards
    OBVIOUS
  <1>3. Typed /\ RunsInv /\ SingleInv /\ VerdictInv /\ WaitInv /\ BallInv /\ HighInv /\ [Next]_vars
          => VerdictInv' /\ WaitInv' /\ BallInv' /\ HighInv'
    BY <1>2, VerdictKeeps, WaitStep, BallKeeps, HighKeeps
  <1>4. Spec => []SingleInv
    BY <1>2, SingleAlways
  <1> QED BY <1>1, <1>3, <1>4, Types, RunsAlways, PTL DEF Spec

(* A high-risk run starts only when its approval is decided and every step *)
(* of its workflow agreed, for any number of slots and of requests: as     *)
(* long as no process dies, stalls or throws.  (A crash between the        *)
(* creation of the run and its link is enough for the opposite.)           *)
THEOREM HighRiskNeedsTheOwner ==
    ASSUME Hazards \subseteq {"slow"}
    PROVE  Spec => HighRiskNeedsOwner
  <1>1. ASSUME Typed, SingleInv, VerdictInv, HighInv, NEW w \in Slots, StartToolRun(w), risk = "high"
        PROVE  ApprovedByOwner(slot[w].run)
    <2>1. /\ slot[w].run \in Runs /\ LinkOf(slot[w].run) # NoApproval
          /\ run[slot[w].run].verdict = "approved"
      BY <1>1 DEF StartToolRun, Typed, SlotBound, HasRun, SlotPc, HighInv, PickedHigh
    <2> QED BY <1>1, <2>1, VerdictIsTheOwners
  <1>2. Typed /\ SingleInv /\ VerdictInv /\ HighInv /\ [Next]_vars =>
          [\A w \in Slots : StartToolRun(w) /\ risk = "high" => ApprovedByOwner(slot[w].run)]_vars
    BY <1>1
  <1> QED BY <1>2, FaultlessAlways, Types, PTL DEF Spec, HighRiskNeedsOwner

(* ... and nobody reopens a completed task: a late decision finds no       *)
(* completed task to requeue.                                              *)
THEOREM CompletedIsFinal ==
    ASSUME Hazards \subseteq {"slow"}
    PROVE  Spec => CompletedStays
  <1>1. ASSUME Typed, BallInv, Next, task = "completed" PROVE task' = "completed"
    <2>1. (\A w \in Slots : slot[w].pc = "idle") /\ \A a \in Approvals : ~Open(a)
      BY <1>1 DEF BallInv, Busy
    <2>2. ~\E q \in Requests : ApplyToTask(q)
      BY <1>1, <2>1 DEF ApplyToTask, Typed, RequestBound, Open, Holds
    <2> QED BY <1>1, <2>1, <2>2, BallSteps DEF BallStep, Claim, Works, Finishes, Watches
  <1>2. Typed /\ BallInv /\ [Next]_vars => [task = "completed" => task' = "completed"]_vars
    BY <1>1
  <1> QED BY <1>2, FaultlessAlways, Types, PTL DEF Spec, CompletedStays
=============================================================================
