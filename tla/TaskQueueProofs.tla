--------------------------- MODULE TaskQueueProofs ---------------------------
(***************************************************************************)
(* What TaskQueue guarantees for every number of tasks, slots, processes   *)
(* and faults, and whatever hazards occur.                                 *)
(***************************************************************************)
EXTENDS TaskQueue, TLAPS

-----------------------------------------------------------------------------
(* The statements of the store keep the table a table of rows.             *)

(* Every statement on the tasks table writes a well-formed row.            *)
LEMMA TableType ==
    ASSUME NEW tab \in [Tasks -> TaskRow], NEW t \in Tasks
    PROVE  /\ CreateTask(tab, t) \in [Tasks -> TaskRow]
           /\ ClaimTask(tab, t) \in [Tasks -> TaskRow]
           /\ CompleteTask(tab, t) \in [Tasks -> TaskRow]
           /\ FailTask(tab, t) \in [Tasks -> TaskRow]
           /\ PauseTask(tab, t) \in [Tasks -> TaskRow]
           /\ ResumeTask(tab, t) \in [Tasks -> TaskRow]
           /\ CancelTask(tab, t) \in [Tasks -> TaskRow]
           /\ MarkTaskWaitingApproval(tab, t) \in [Tasks -> TaskRow]
           /\ RequeueTask(tab, t) \in [Tasks -> TaskRow]
           /\ TouchRunningTask(tab, t) \in [Tasks -> TaskRow]
<1> USE DEF TaskRow, TaskStatus
<1>1. CreateTask(tab, t) \in [Tasks -> TaskRow]  BY DEF CreateTask
<1>2. ClaimTask(tab, t) \in [Tasks -> TaskRow]  BY DEF ClaimTask
<1>3. CompleteTask(tab, t) \in [Tasks -> TaskRow]  BY DEF CompleteTask
<1>4. FailTask(tab, t) \in [Tasks -> TaskRow]  BY DEF FailTask
<1>5. PauseTask(tab, t) \in [Tasks -> TaskRow]  BY DEF PauseTask
<1>6. ResumeTask(tab, t) \in [Tasks -> TaskRow]  BY DEF ResumeTask
<1>7. CancelTask(tab, t) \in [Tasks -> TaskRow]
  <2> DEFINE row == [tab[t] EXCEPT !.status = "cancelled", !.pending = FALSE,
                                   !.completed = TRUE, !.aged = FALSE]
  <2>1. row \in TaskRow
    BY tab[t] \in TaskRow
  <2>2. CancelTask(tab, t) = tab \/ CancelTask(tab, t) = [tab EXCEPT ![t] = row]
    BY DEF CancelTask
  <2> HIDE DEF row
  <2> QED  BY <2>1, <2>2
<1>8. MarkTaskWaitingApproval(tab, t) \in [Tasks -> TaskRow]  BY DEF MarkTaskWaitingApproval
<1>9. RequeueTask(tab, t) \in [Tasks -> TaskRow]  BY DEF RequeueTask
<1>10. TouchRunningTask(tab, t) \in [Tasks -> TaskRow]  BY DEF TouchRunningTask
<1> QED  BY <1>1, <1>2, <1>3, <1>4, <1>5, <1>6, <1>7, <1>8, <1>9, <1>10

(* Every statement leaves the other rows alone, and the status and stamp   *)
(* it writes depend only on the row.                                       *)
LEMMA OtherRows ==
    ASSUME NEW tab \in [Tasks -> TaskRow], NEW t \in Tasks, NEW u \in Tasks, u # t
    PROVE  /\ CreateTask(tab, t)[u] = tab[u]
           /\ ClaimTask(tab, t)[u] = tab[u]
           /\ CompleteTask(tab, t)[u] = tab[u]
           /\ FailTask(tab, t)[u] = tab[u]
           /\ PauseTask(tab, t)[u] = tab[u]
           /\ ResumeTask(tab, t)[u] = tab[u]
           /\ CancelTask(tab, t)[u] = tab[u]
           /\ MarkTaskWaitingApproval(tab, t)[u] = tab[u]
           /\ RequeueTask(tab, t)[u] = tab[u]
           /\ TouchRunningTask(tab, t)[u] = tab[u]
BY DEF CreateTask, ClaimTask, CompleteTask, FailTask, PauseTask, ResumeTask, CancelTask,
       MarkTaskWaitingApproval, RequeueTask, TouchRunningTask

-----------------------------------------------------------------------------
(* Type correctness.                                                       *)

(* A slot that is at work has a task. *)
LEMMA BusySlot ==
    ASSUME TypeOK, NEW w \in Slots, slot[w].pc # "idle"
    PROVE  slot[w].task \in Tasks
BY DEF TypeOK

(* Requeueing keeps the types of what it writes. *)
LEMMA RequeueType ==
    ASSUME TypeOK, NEW t \in Tasks, NEW caller, Requeue(t, caller)
    PROVE  tasks' \in [Tasks -> TaskRow] /\ disturbed' \in SUBSET Tasks
BY TableType DEF Requeue, TypeOK

SlotType ==
    /\ slot \in [Slots -> [pc : SlotPc, task : Tasks \cup {NoTask}]]
    /\ \A w \in Slots : slot[w].pc # "idle" => slot[w].task \in Tasks

LoopType == loop \in [Runners -> [at : Sections, todo : SUBSET Tasks]]

(* A slot that moves on keeps its task. *)
LEMMA GotoType ==
    ASSUME TypeOK, NEW w \in Slots, NEW pc \in SlotPc, slot[w].pc # "idle", Goto(w, pc)
    PROVE  SlotType'
BY DEF SlotType, Goto, TypeOK

(* A slot that leaves its task is idle. *)
LEMMA LeaveType ==
    ASSUME TypeOK, NEW w \in Slots, Leave(w)
    PROVE  SlotType'
BY DEF SlotType, Leave, IdleSlot, SlotPc, TypeOK

(* A critical section begins. *)
LEMMA EnterType ==
    ASSUME TypeOK, NEW r \in Runners, NEW at \in Sections, NEW todo \in SUBSET Tasks,
           Enter(r, at, todo)
    PROVE  LoopType'
BY DEF LoopType, Enter, TypeOK

(* A critical section ends. *)
LEMMA ReopenType ==
    ASSUME TypeOK, NEW r \in Runners, Reopen(r)
    PROVE  LoopType'
BY DEF LoopType, Reopen, OpenLoop, Sections, TypeOK

(* An iteration of a sweep keeps the type of the event loop.               *)
LEMMA SweptType ==
    ASSUME TypeOK, NEW r \in Runners, NEW t \in Tasks, Swept(r, t)
    PROVE  LoopType'
<1>1. loop[r].at \in Sections /\ loop[r].todo \ {t} \in SUBSET Tasks
  BY DEF TypeOK
<1> QED  BY <1>1, EnterType, ReopenType DEF Swept

(* A fault uses up one of the remaining ones. *)
LEMMA FaultType ==
    ASSUME TypeOK, NEW h, Fault(h)
    PROVE  faults' \in Nat
BY DEF Fault, TypeOK

(* TypeOK holds initially. *)
LEMMA InitTypeOK == Init => TypeOK
BY HazardAssumption DEF Init, TypeOK, TaskRow, NoRow, IdleSlot, SlotPc, Sections, OpenLoop

(* Every step preserves TypeOK. *)
LEMMA StepTypeOK == TypeOK /\ [Next]_vars => TypeOK'
<1> SUFFICES ASSUME TypeOK, [Next]_vars
             PROVE  TypeOK'
  OBVIOUS
<1> DEFINE Rest ==
      /\ approval' \in [Tasks -> {"none", "pending", "decided"}]
      /\ effect' \in [Tasks -> {"none", "approved", "rejected"}]
      /\ faults' \in Nat
      /\ disturbed' \in SUBSET Tasks
    TableOK == tasks' \in [Tasks -> TaskRow]
<1>0. TypeOK' <=> TableOK /\ SlotType' /\ LoopType' /\ Rest
  BY DEF TypeOK, SlotType, LoopType
<1>same. /\ tasks' = tasks => TableOK
         /\ slot' = slot => SlotType'
         /\ loop' = loop => LoopType'
         /\ UNCHANGED <<approval, effect, faults, disturbed>> => Rest
  BY DEF TypeOK, SlotType, LoopType
<1>pcs. /\ {"idle", "selecting", "executing", "asking", "settled", "closing"} \subseteq SlotPc
        /\ {"open", "claim", "ask", "staleSweep", "approvalSweep", "orphanSweep"} \subseteq Sections
  BY DEF SlotPc, Sections
<1>1. ASSUME NEW w \in Slots, NEW t \in Tasks, SelectQueued(w, t)
      PROVE  TypeOK'
  <2>1. SlotType'
    BY <1>1, <1>pcs DEF SelectQueued, SlotType, TypeOK
  <2>2. RunnerOf[w] \in Runners
    BY RunnerAssumption
  <2>3. LoopType'
    BY <1>1, <1>pcs, <2>2, EnterType DEF SelectQueued
  <2> QED  BY <1>0, <1>1, <1>same, <2>1, <2>3 DEF SelectQueued
<1>2. ASSUME NEW w \in Slots, SlotStep(w)
      PROVE  TypeOK'
  <2>0. RunnerOf[w] \in Runners
    BY RunnerAssumption
  <2>1. CASE ClaimSelected(w)
    <3>1. slot[w].task \in Tasks
      BY <2>1, BusySlot DEF ClaimSelected
    <3>2. TableOK
      BY <2>1, <3>1, TableType DEF ClaimSelected, TypeOK
    <3>3. SlotType'
      BY <2>1, <1>pcs, GotoType, LeaveType DEF ClaimSelected
    <3>4. LoopType'
      BY <2>0, <2>1, ReopenType DEF ClaimSelected
    <3> QED  BY <1>0, <1>same, <2>1, <3>2, <3>3, <3>4 DEF ClaimSelected
  <2>2. CASE FinishTask(w) \/ GiveUpTask(w) \/ NeedInput(w)
    <3>1. slot[w].pc # "idle" /\ Goto(w, "settled")
      BY <2>2 DEF FinishTask, GiveUpTask, NeedInput, At
    <3>2. TableOK
      BY <2>2, <3>1, BusySlot, TableType DEF FinishTask, GiveUpTask, NeedInput, TypeOK
    <3>3. SlotType'
      BY <3>1, <1>pcs, GotoType
    <3> QED  BY <1>0, <1>same, <2>2, <3>2, <3>3 DEF FinishTask, GiveUpTask, NeedInput
  <2>3. CASE AskApproval(w)
    <3>1. slot[w].pc # "idle" /\ slot[w].task \in Tasks
      BY <2>3, BusySlot DEF AskApproval, At
    <3>2. SlotType'
      BY <2>3, <3>1, <1>pcs, GotoType DEF AskApproval
    <3>3. LoopType'
      BY <2>0, <2>3, <3>1, <1>pcs, EnterType DEF AskApproval
    <3>4. Rest
      BY <2>3 DEF AskApproval, TypeOK
    <3> QED  BY <1>0, <1>same, <2>3, <3>2, <3>3, <3>4 DEF AskApproval
  <2>4. CASE WaitForApproval(w)
    <3>1. slot[w].pc # "idle" /\ slot[w].task \in Tasks
      BY <2>4, BusySlot DEF WaitForApproval
    <3>2. TableOK
      BY <2>4, <3>1, TableType DEF WaitForApproval, TypeOK
    <3>3. SlotType' /\ LoopType'
      BY <2>0, <2>4, <3>1, <1>pcs, GotoType, ReopenType DEF WaitForApproval
    <3> QED  BY <1>0, <1>same, <2>4, <3>2, <3>3 DEF WaitForApproval
  <2>5. CASE HandOver(w)
    <3>1. slot[w].pc # "idle"
      BY <2>5 DEF HandOver, At
    <3>2. \A t \in Tasks : CreateTask(tasks, t)[t] \in TaskRow
      BY TableType DEF TypeOK
    <3>3. TableOK
      BY <2>5, <3>2 DEF HandOver, TypeOK
    <3>4. SlotType'
      BY <2>5, <3>1, <1>pcs, GotoType DEF HandOver
    <3> QED  BY <1>0, <1>same, <2>5, <3>3, <3>4 DEF HandOver
  <2>6. CASE ReportToParent(w)
    <3>1. slot[w].task \in Tasks
      BY <2>6, BusySlot DEF ReportToParent, At
    <3>2. Parent[slot[w].task] \in Tasks
      BY <2>6, <3>1, ParentAssumption DEF ReportToParent
    <3>3. TableOK
      BY <2>6, <3>2, TableType DEF ReportToParent, TypeOK
    <3>4. SlotType'
      BY <2>6, LeaveType DEF ReportToParent
    <3> QED  BY <1>0, <1>same, <2>6, <3>3, <3>4 DEF ReportToParent
  <2>7. CASE Settle(w)
    <3>1. SlotType'
      BY <2>7, LeaveType DEF Settle
    <3> QED  BY <1>0, <1>same, <2>7, <3>1 DEF Settle
  <2> QED  BY <1>2, <2>1, <2>2, <2>3, <2>4, <2>5, <2>6, <2>7 DEF SlotStep
<1>3. ASSUME NEW w \in Slots, Heartbeat(w)
      PROVE  TypeOK'
  <2>1. slot[w].task \in Tasks
    BY <1>3, BusySlot DEF Heartbeat, At
  <2>2. TableOK
    BY <1>3, <2>1, TableType DEF Heartbeat, TypeOK
  <2> QED  BY <1>0, <1>3, <1>same, <2>2 DEF Heartbeat
<1>4. ASSUME NEW w \in Slots, DeferOnLock(w) \/ FailOnError(w)
      PROVE  TypeOK'
  <2>1. slot[w].pc # "idle" /\ slot[w].task \in Tasks
    BY <1>4, BusySlot DEF DeferOnLock, FailOnError, Throws, At
  <2>2. LoopType'
    <3>1. RunnerOf[w] \in Runners
      BY RunnerAssumption
    <3> QED  BY <1>4, <1>same, <3>1, ReopenType DEF DeferOnLock, FailOnError, Throws
  <2>3. SlotType'
    BY <1>4, <1>pcs, <2>1, GotoType, LeaveType DEF DeferOnLock, FailOnError
  <2>4. TableOK /\ disturbed' \in SUBSET Tasks
    <3>1. CASE DeferOnLock(w)
      BY <2>1, <3>1, RequeueType DEF DeferOnLock
    <3>2. CASE FailOnError(w)
      BY <2>1, <3>2, TableType DEF FailOnError, TypeOK
    <3> QED  BY <1>4, <3>1, <3>2
  <2>5. faults' \in Nat
    BY <1>4, FaultType DEF DeferOnLock, FailOnError, Throws
  <2>6. Rest
    BY <1>4, <2>4, <2>5 DEF DeferOnLock, FailOnError, TypeOK
  <2> QED  BY <1>0, <2>2, <2>3, <2>4, <2>6
<1>5. ASSUME NEW r \in Runners, SweepStep(r)
      PROVE  TypeOK'
  <2>1. PICK t \in Tasks : RequeueStale(r, t) \/ ExpireWaiting(r, t) \/ CloseOrphan(r, t)
    BY <1>5 DEF SweepStep
  <2>2. LoopType'
    BY <2>1, SweptType DEF RequeueStale, ExpireWaiting, CloseOrphan
  <2>3. TableOK /\ disturbed' \in SUBSET Tasks
    <3>1. CASE RequeueStale(r, t)
      BY <3>1, RequeueType DEF RequeueStale
    <3>2. CASE ExpireWaiting(r, t)
      BY <3>2, TableType DEF ExpireWaiting, TypeOK
    <3>3. CASE CloseOrphan(r, t)
      BY <3>3, TableType DEF CloseOrphan, TypeOK
    <3> QED  BY <2>1, <3>1, <3>2, <3>3
  <2>4. Rest
    BY <2>1, <2>3 DEF RequeueStale, ExpireWaiting, CloseOrphan, TypeOK
  <2> QED  BY <1>0, <1>same, <2>1, <2>2, <2>3, <2>4 DEF RequeueStale, ExpireWaiting, CloseOrphan
<1>6. ASSUME NEW r \in Runners, ScanStale(r) \/ ScanWaiting(r) \/ ScanOrphans(r)
      PROVE  TypeOK'
  <2>1. PICK section \in Sections, found \in SUBSET Tasks : Scan(r, section, found)
    BY <1>6, <1>pcs DEF ScanStale, ScanWaiting, ScanOrphans
  <2>2. LoopType'
    BY <2>1, EnterType DEF Scan
  <2> QED  BY <1>0, <1>same, <2>1, <2>2 DEF Scan
<1>7. ASSUME NEW t \in Tasks,
             Age(t) \/ MissHeartbeats(t) \/ SubmitTask(t) \/ CancelRequest(t) \/ AnswerQuestion(t)
      PROVE  TypeOK'
  <2>1. TableOK
    <3>1. CASE Age(t) \/ MissHeartbeats(t)
      <4>1. tasks \in [Tasks -> TaskRow]
        BY DEF TypeOK
      <4>2. tasks' = [tasks EXCEPT ![t].aged = TRUE]
        BY <3>1 DEF Age, MissHeartbeats, GrowOld
      <4> QED  BY <4>1, <4>2 DEF TaskRow
    <3>2. CASE SubmitTask(t) \/ CancelRequest(t) \/ AnswerQuestion(t)
      BY <3>2, TableType DEF SubmitTask, CancelRequest, AnswerQuestion, TypeOK
    <3> QED  BY <1>7, <3>1, <3>2
  <2>2. faults' \in Nat
    BY <1>7, FaultType
    DEF Age, MissHeartbeats, GrowOld, SubmitTask, CancelRequest, AnswerQuestion, TypeOK
  <2> QED  BY <1>0, <1>7, <1>same, <2>1, <2>2
           DEF Age, MissHeartbeats, GrowOld, SubmitTask, CancelRequest, AnswerQuestion, TypeOK
<1>8. ASSUME NEW t \in Tasks,
             \/ \E d \in {"approved", "rejected"} : DecideApproval(t, d)
             \/ EscalateApproval(t)
      PROVE  TypeOK'
  <2>1. faults' \in Nat
    BY <1>8, FaultType DEF DecideApproval, EscalateApproval, TypeOK
  <2>2. Rest
    BY <1>8, <2>1 DEF DecideApproval, EscalateApproval, TypeOK
  <2> QED  BY <1>0, <1>8, <1>same, <2>2 DEF DecideApproval, EscalateApproval
<1>9. ASSUME NEW t \in Tasks, ApplyDecision(t)
      PROVE  TypeOK'
  <2>1. TableOK /\ disturbed' \in SUBSET Tasks
    BY <1>9, RequeueType, TableType DEF ApplyDecision, TypeOK
  <2>2. Rest
    BY <1>9, <2>1 DEF ApplyDecision, TypeOK
  <2> QED  BY <1>0, <1>9, <1>same, <2>1, <2>2 DEF ApplyDecision
<1>10. ASSUME NEW r \in Runners, CrashRunner(r)
       PROVE  TypeOK'
  <2>1. SlotType'
    BY <1>10, <1>pcs DEF CrashRunner, IdleSlot, SlotType, TypeOK
  <2>2. LoopType'
    BY <1>10, ReopenType DEF CrashRunner, Reopen
  <2>3. Rest
    BY <1>10, FaultType DEF CrashRunner, TypeOK
  <2> QED  BY <1>0, <1>10, <1>same, <2>1, <2>2, <2>3 DEF CrashRunner
<1>11. CASE CrashOrchestrator
  <2>1. Rest
    BY <1>11, FaultType DEF CrashOrchestrator, TypeOK
  <2> QED  BY <1>0, <1>11, <1>same, <2>1 DEF CrashOrchestrator
<1>12. CASE UNCHANGED vars
  BY <1>0, <1>12, <1>same DEF vars
<1> QED
  BY <1>1, <1>2, <1>3, <1>4, <1>5, <1>6, <1>7, <1>8, <1>9, <1>10, <1>11, <1>12 DEF Next

(* In every reachable state the variables have their types.                *)
THEOREM TypeCorrect == Spec => []TypeOK
BY InitTypeOK, StepTypeOK, PTL DEF Spec

-----------------------------------------------------------------------------
(* Steps by what they do to execution.                                     *)

(* No slot has a right to a task in one of these states. *)
Free(t) == tasks[t].status \in {"queued", "absent"}

(* Slot w claims t. *)
Acquires(w, t) ==
    /\ tasks[t].status = "queued" /\ ~Free(t)'
    /\ \A u \in Tasks \ {t} : Free(u)' => Free(u)
    /\ \A u \in Tasks : Executors(u)' = IF u = t THEN Executors(u) \cup {w} ELSE Executors(u)
    /\ disturbed' = disturbed

(* The slots of W stop executing, and no task becomes free.                *)
Releases(W) ==
    /\ \A u \in Tasks : Free(u)' => Free(u)
    /\ \A u \in Tasks : Executors(u)' = Executors(u) \ W
    /\ disturbed' = disturbed

(* Task t is put back in the queue, by the slot in W or by somebody else.  *)
PutsBack(t, W) ==
    /\ W = {} \/ \E w \in Slots : W = {w}
    /\ \A u \in Tasks \ {t} : Free(u)' => Free(u)
    /\ \A u \in Tasks : Executors(u)' = Executors(u) \ W
    /\ \A u \in Tasks \ {t} : Executors(u) \cap W = {}
    /\ disturbed' = IF Executors(t) \ W = {} THEN disturbed ELSE disturbed \cup {t}

(* A statement other than requeueTask and createTask frees no task.        *)
LEMMA StatementFrees ==
    ASSUME NEW tab \in [Tasks -> TaskRow], NEW t \in Tasks, NEW u \in Tasks
    PROVE  LET frees(row) == row.status \in {"queued", "absent"} IN
           /\ frees(ClaimTask(tab, t)[u]) => frees(tab[u])
           /\ frees(CompleteTask(tab, t)[u]) => frees(tab[u])
           /\ frees(FailTask(tab, t)[u]) => frees(tab[u])
           /\ frees(PauseTask(tab, t)[u]) => frees(tab[u])
           /\ frees(ResumeTask(tab, t)[u]) => frees(tab[u])
           /\ frees(CancelTask(tab, t)[u]) => frees(tab[u])
           /\ frees(MarkTaskWaitingApproval(tab, t)[u]) => frees(tab[u])
           /\ frees(TouchRunningTask(tab, t)[u]) => frees(tab[u])
<1>1. CASE u # t
  BY <1>1, OtherRows
<1>2. CASE u = t
  <2> tab[t] \in TaskRow
    OBVIOUS
  <2> QED
    BY <1>2 DEF ClaimTask, CompleteTask, FailTask, PauseTask, ResumeTask, CancelTask,
                MarkTaskWaitingApproval, TouchRunningTask, TaskRow
<1> QED  BY <1>1, <1>2

(* createTask and requeueTask free the row they write and no other.        *)
LEMMA RequeueFrees ==
    ASSUME NEW tab \in [Tasks -> TaskRow], NEW t \in Tasks, NEW u \in Tasks \ {t}
    PROVE  RequeueTask(tab, t)[u] = tab[u] /\ CreateTask(tab, t)[u] = tab[u]
BY OtherRows

(* A slot that moves between two places of the handler executes the same   *)
(* task, one that leaves the handler executes none, and one that enters it *)
(* executes its task.                                                      *)
LEMMA ExecutorsGoto ==
    ASSUME TypeOK, NEW w \in Slots, NEW pc \in SlotPc, Goto(w, pc), NEW u \in Tasks
    PROVE  /\ pc \notin {"executing", "asking"} => Executors(u)' = Executors(u) \ {w}
           /\ pc \in {"executing", "asking"} /\ slot[w].task = u
                => Executors(u)' = Executors(u) \cup {w}
           /\ pc \in {"executing", "asking"} /\ slot[w].task # u => Executors(u)' = Executors(u)
BY DEF TypeOK, Goto, Executors

(* A slot that leaves its task executes none. *)
LEMMA ExecutorsLeave ==
    ASSUME TypeOK, NEW w \in Slots, Leave(w), NEW u \in Tasks
    PROVE  Executors(u)' = Executors(u) \ {w}
BY DEF TypeOK, Leave, IdleSlot, Executors

(* Nobody moves, nothing changes. *)
LEMMA ExecutorsSame ==
    ASSUME slot' = slot, NEW u \in Tasks
    PROVE  Executors(u)' = Executors(u)
BY DEF Executors

(* Requeue puts its task back, whoever calls it. *)
LEMMA RequeuePutsBack ==
    ASSUME TypeOK, NEW t \in Tasks, NEW W, Requeue(t, W), W = {} \/ \E w \in Slots : W = {w},
           \A u \in Tasks : Executors(u)' = Executors(u) \ W,
           \A u \in Tasks \ {t} : Executors(u) \cap W = {}
    PROVE  PutsBack(t, W)
<1>1. \A u \in Tasks \ {t} : tasks'[u] = tasks[u]
  BY RequeueFrees DEF Requeue, TypeOK
<1> QED  BY <1>1 DEF Requeue, PutsBack, Free

(* Every step claims a task, puts one back, or does neither and frees      *)
(* none.                                                                   *)
LEMMA StepShape ==
    ASSUME TypeOK, [Next]_vars
    PROVE  \/ \E w \in Slots, t \in Tasks : Acquires(w, t)
           \/ \E W \in SUBSET Slots : Releases(W)
           \/ \E t \in Tasks, W \in SUBSET Slots : PutsBack(t, W)
<1> DEFINE Shape ==
      \/ \E w \in Slots, t \in Tasks : Acquires(w, t)
      \/ \E W \in SUBSET Slots : Releases(W)
      \/ \E t \in Tasks, W \in SUBSET Slots : PutsBack(t, W)
    KeepsFree == \A u \in Tasks : Free(u)' => Free(u)
<1>tab. tasks \in [Tasks -> TaskRow]
  BY DEF TypeOK
<1>pcs. {"idle", "selecting", "executing", "asking", "settled", "closing"} \subseteq SlotPc
  BY DEF SlotPc
<1>free. tasks' = tasks => KeepsFree
  BY DEF Free
<1>rel. ASSUME NEW W \in SUBSET Slots, Releases(W)
        PROVE  Shape
  BY <1>rel
<1>still. ASSUME KeepsFree, slot' = slot, disturbed' = disturbed
          PROVE  Shape
  <2>1. Releases({})
    BY <1>still, ExecutorsSame DEF Releases
  <2> QED  BY <2>1
<1>goto. ASSUME NEW w \in Slots, NEW pc \in SlotPc \ {"executing", "asking"}, Goto(w, pc),
                KeepsFree, disturbed' = disturbed
         PROVE  Shape
  <2>1. Releases({w})
    BY <1>goto, ExecutorsGoto DEF Releases
  <2> QED  BY <2>1
<1>leave. ASSUME NEW w \in Slots, Leave(w), KeepsFree, disturbed' = disturbed
          PROVE  Shape
  <2>1. Releases({w})
    BY <1>leave, ExecutorsLeave DEF Releases
  <2> QED  BY <2>1
<1>1. ASSUME NEW w \in Slots, NEW t \in Tasks, SelectQueued(w, t)
      PROVE  Shape
  <2>1. \A u \in Tasks : Executors(u)' = Executors(u) \ {}
    BY <1>1 DEF SelectQueued, At, Executors, TypeOK
  <2>2. Releases({})
    BY <1>1, <1>free, <2>1 DEF SelectQueued, Releases
  <2> QED  BY <2>2
<1>2. ASSUME NEW w \in Slots, SlotStep(w)
      PROVE  Shape
  <2> DEFINE t == slot[w].task
  <2>1. CASE ClaimSelected(w)
    <3>1. PICK c \in Tasks : c = t
      BY <2>1, BusySlot DEF ClaimSelected
    <3>2. CASE tasks[c].status = "queued"
      <4>1. Goto(w, "executing") /\ disturbed' = disturbed
        BY <2>1, <3>1, <3>2 DEF ClaimSelected
      <4>2. \A u \in Tasks : Executors(u)' = IF u = c THEN Executors(u) \cup {w} ELSE Executors(u)
        BY <1>pcs, <3>1, <4>1, ExecutorsGoto
      <4>3. tasks'[c].status = "running" /\ \A u \in Tasks \ {c} : tasks'[u] = tasks[u]
        BY <1>tab, <2>1, <3>1, <3>2 DEF ClaimSelected, ClaimTask, TaskRow
      <4>4. Acquires(w, c)
        BY <3>2, <4>1, <4>2, <4>3 DEF Acquires, Free
      <4> QED  BY <3>1, <4>4
    <3>3. CASE tasks[c].status # "queued"
      BY <1>free, <1>leave, <2>1, <3>1, <3>3 DEF ClaimSelected, ClaimTask
    <3> QED  BY <3>2, <3>3
  <2>2. CASE FinishTask(w) \/ GiveUpTask(w) \/ NeedInput(w)
    <3>1. t \in Tasks /\ Goto(w, "settled") /\ disturbed' = disturbed
      BY <2>2, BusySlot DEF FinishTask, GiveUpTask, NeedInput, At
    <3>2. KeepsFree
      BY <1>tab, <2>2, <3>1, StatementFrees DEF FinishTask, GiveUpTask, NeedInput, Free
    <3> QED  BY <1>goto, <1>pcs, <3>1, <3>2
  <2>3. CASE AskApproval(w)
    <3>1. \A u \in Tasks : Executors(u)' = Executors(u) \ {}
      BY <2>3 DEF AskApproval, At, Goto, Executors, TypeOK
    <3>2. Releases({})
      BY <1>free, <2>3, <3>1 DEF AskApproval, Releases
    <3> QED  BY <3>2
  <2>4. CASE WaitForApproval(w)
    <3>1. t \in Tasks /\ Goto(w, "settled") /\ disturbed' = disturbed
      BY <2>4, BusySlot DEF WaitForApproval
    <3>2. KeepsFree
      BY <1>tab, <2>4, <3>1, StatementFrees DEF WaitForApproval, Free
    <3> QED  BY <1>goto, <1>pcs, <3>1, <3>2
  <2>5. CASE HandOver(w)
    <3>1. KeepsFree
      BY <2>5 DEF HandOver, Free
    <3> QED  BY <1>goto, <1>pcs, <2>5, <3>1 DEF HandOver
  <2>6. CASE ReportToParent(w)
    <3>1. t \in Tasks
      BY <2>6, BusySlot DEF ReportToParent, At
    <3>2. Parent[t] \in Tasks
      BY <2>6, <3>1, ParentAssumption DEF ReportToParent
    <3>3. KeepsFree
      BY <1>tab, <2>6, <3>2, StatementFrees DEF ReportToParent, Free
    <3> QED  BY <1>leave, <2>6, <3>3 DEF ReportToParent
  <2>7. CASE Settle(w)
    BY <1>free, <1>leave, <2>7 DEF Settle
  <2> QED  BY <1>2, <2>1, <2>2, <2>3, <2>4, <2>5, <2>6, <2>7 DEF SlotStep
<1>3. ASSUME NEW w \in Slots, Heartbeat(w)
      PROVE  Shape
  <2>1. slot[w].task \in Tasks
    BY <1>3, BusySlot DEF Heartbeat, At
  <2>2. KeepsFree
    BY <1>3, <1>tab, <2>1, StatementFrees DEF Heartbeat, Free
  <2> QED  BY <1>3, <1>still, <2>2 DEF Heartbeat
<1>4. ASSUME NEW w \in Slots, DeferOnLock(w)
      PROVE  Shape
  <2> DEFINE t == slot[w].task
  <2>1. t \in Tasks
    BY <1>4, BusySlot DEF DeferOnLock, Throws, At
  <2>2. /\ \A u \in Tasks : Executors(u)' = Executors(u) \ {w}
        /\ \A u \in Tasks \ {t} : Executors(u) \cap {w} = {}
    BY <1>4, ExecutorsLeave DEF DeferOnLock, Executors
  <2>3. PutsBack(t, {w})
    BY <1>4, <2>1, <2>2, RequeuePutsBack DEF DeferOnLock
  <2> QED  BY <2>1, <2>3
<1>5. ASSUME NEW w \in Slots, FailOnError(w)
      PROVE  Shape
  <2>1. slot[w].task \in Tasks
    BY <1>5, BusySlot DEF FailOnError, Throws, At
  <2>2. KeepsFree
    BY <1>5, <1>tab, <2>1, StatementFrees DEF FailOnError, Free
  <2> QED  BY <1>5, <1>goto, <1>pcs, <2>2 DEF FailOnError
<1>6. ASSUME NEW t \in Tasks, Requeue(t, {}), slot' = slot
      PROVE  Shape
  <2>1. PutsBack(t, {})
    BY <1>6, ExecutorsSame, RequeuePutsBack
  <2> QED  BY <2>1
<1>7. ASSUME NEW r \in Runners, SweepStep(r)
      PROVE  Shape
  <2>1. PICK t \in Tasks : RequeueStale(r, t) \/ ExpireWaiting(r, t) \/ CloseOrphan(r, t)
    BY <1>7 DEF SweepStep
  <2>2. CASE RequeueStale(r, t)
    BY <1>6, <2>2 DEF RequeueStale
  <2>3. CASE ExpireWaiting(r, t) \/ CloseOrphan(r, t)
    <3>1. KeepsFree
      BY <1>free, <1>tab, <2>3, StatementFrees DEF ExpireWaiting, CloseOrphan, Free
    <3> QED  BY <1>still, <2>3, <3>1 DEF ExpireWaiting, CloseOrphan
  <2> QED  BY <2>1, <2>2, <2>3
<1>8. ASSUME NEW r \in Runners, ScanStale(r) \/ ScanWaiting(r) \/ ScanOrphans(r)
      PROVE  Shape
  BY <1>8, <1>free, <1>still DEF ScanStale, ScanWaiting, ScanOrphans, Scan
<1>9. ASSUME NEW t \in Tasks,
             Age(t) \/ MissHeartbeats(t) \/ SubmitTask(t) \/ CancelRequest(t) \/ AnswerQuestion(t)
      PROVE  Shape
  <2>1. CASE Age(t) \/ MissHeartbeats(t)
    <3>1. \A u \in Tasks : tasks'[u].status = tasks[u].status
      BY <1>tab, <2>1 DEF Age, MissHeartbeats, GrowOld, TaskRow
    <3> QED  BY <1>still, <2>1, <3>1 DEF Age, MissHeartbeats, GrowOld, Free
  <2>2. CASE SubmitTask(t)
    <3>1. KeepsFree
      BY <1>tab, <2>2, RequeueFrees DEF SubmitTask, Free
    <3> QED  BY <1>still, <2>2, <3>1 DEF SubmitTask
  <2>3. CASE CancelRequest(t) \/ AnswerQuestion(t)
    <3>1. KeepsFree
      BY <1>tab, <2>3, StatementFrees DEF CancelRequest, AnswerQuestion, Free
    <3> QED  BY <1>still, <2>3, <3>1 DEF CancelRequest, AnswerQuestion
  <2> QED  BY <1>9, <2>1, <2>2, <2>3
<1>10. ASSUME NEW t \in Tasks,
              \/ \E d \in {"approved", "rejected"} : DecideApproval(t, d)
              \/ EscalateApproval(t)
       PROVE  Shape
  BY <1>10, <1>free, <1>still DEF DecideApproval, EscalateApproval
<1>11. ASSUME NEW t \in Tasks, ApplyDecision(t)
       PROVE  Shape
  <2>1. CASE effect[t] = "approved"
    BY <1>6, <1>11, <2>1 DEF ApplyDecision
  <2>2. CASE effect[t] # "approved"
    <3>1. KeepsFree
      BY <1>11, <1>tab, <2>2, StatementFrees DEF ApplyDecision, Free
    <3> QED  BY <1>11, <1>still, <2>2, <3>1 DEF ApplyDecision
  <2> QED  BY <2>1, <2>2
<1>12. ASSUME NEW r \in Runners, CrashRunner(r)
       PROVE  Shape
  <2> DEFINE W == {w \in Slots : RunnerOf[w] = r}
  <2>1. \A u \in Tasks : Executors(u)' = Executors(u) \ W
    BY <1>12 DEF CrashRunner, IdleSlot, Executors
  <2>2. Releases(W)
    BY <1>12, <1>free, <2>1 DEF CrashRunner, Releases
  <2> QED  BY <2>2
<1>13. CASE CrashOrchestrator
  BY <1>13, <1>free, <1>still DEF CrashOrchestrator
<1>14. CASE UNCHANGED vars
  BY <1>14, <1>free, <1>still DEF vars
<1> QED
  BY <1>1, <1>2, <1>3, <1>4, <1>5, <1>7, <1>8, <1>9, <1>10, <1>11, <1>12, <1>13, <1>14 DEF Next

-----------------------------------------------------------------------------
(* One executor per task.                                                  *)

(* OneExecutor is not inductive: a claim must find the task free of slots. *)
(* What makes it so is that a free task which nobody disturbed has none.   *)
FreeTasksIdle == \A t \in Tasks \ disturbed : Free(t) => Executors(t) = {}

ExecInv == TypeOK /\ FreeTasksIdle /\ OneExecutor

(* ExecInv holds initially. *)
LEMMA InitExecInv == Init => ExecInv
<1> SUFFICES ASSUME Init PROVE ExecInv
  OBVIOUS
<1>1. \A t \in Tasks : Executors(t) = {}
  BY DEF Init, IdleSlot, Executors
<1> QED  BY <1>1, InitTypeOK DEF ExecInv, FreeTasksIdle, OneExecutor

(* Every step preserves ExecInv. *)
LEMMA StepExecInv == ExecInv /\ [Next]_vars => ExecInv'
<1> SUFFICES ASSUME ExecInv, [Next]_vars PROVE ExecInv'
  OBVIOUS
<1>0. TypeOK /\ TypeOK'
  BY StepTypeOK DEF ExecInv
<1>1. ASSUME NEW w \in Slots, NEW t \in Tasks, Acquires(w, t)
      PROVE  FreeTasksIdle' /\ OneExecutor'
  <2>1. t \notin disturbed => Executors(t) = {}
    BY <1>1 DEF ExecInv, FreeTasksIdle, Acquires, Free
  <2> QED  BY <1>1, <2>1 DEF ExecInv, FreeTasksIdle, OneExecutor, Acquires
<1>2. ASSUME NEW W \in SUBSET Slots, Releases(W)
      PROVE  FreeTasksIdle' /\ OneExecutor'
  BY <1>2 DEF ExecInv, FreeTasksIdle, OneExecutor, Releases
<1>3. ASSUME NEW t \in Tasks, NEW W \in SUBSET Slots, PutsBack(t, W)
      PROVE  FreeTasksIdle' /\ OneExecutor'
  <2>1. t \notin disturbed' => Executors(t)' = {}
    BY <1>3 DEF PutsBack
  <2>2. disturbed \subseteq disturbed'
    BY <1>3 DEF PutsBack
  <2> QED  BY <1>3, <2>1, <2>2 DEF ExecInv, FreeTasksIdle, OneExecutor, PutsBack
<1> QED  BY <1>0, <1>1, <1>2, <1>3, StepShape DEF ExecInv

(* At most one slot executes a task that nobody put back in the queue      *)
(* under a slot: the guarded UPDATE of claimNextQueuedTask is enough for   *)
(* any number of slots, processes, crashes and late heartbeats.            *)
THEOREM OneExecutorAlways == Spec => []OneExecutor
<1>1. ExecInv => OneExecutor
  BY DEF ExecInv
<1> QED  BY <1>1, InitExecInv, StepExecInv, PTL DEF Spec

-----------------------------------------------------------------------------
(* The queue implements the lease.                                         *)

(* The initial states map to the initial state of the lease.               *)
LEMMA InitLease == Init => Lease!Init
<1> SUFFICES ASSUME Init PROVE Lease!Init
  OBVIOUS
<1>1. \A t \in Tasks : Executors(t) = {}
  BY DEF Init, IdleSlot, Executors
<1> QED  BY <1>1 DEF Init, Lease!Init

(* Every step maps to a step of the lease or to a stutter.                 *)
LEMMA StepLease == ExecInv /\ [Next]_vars => [Lease!Next]_(Lease!leaseVars)
<1> SUFFICES ASSUME ExecInv, [Next]_vars PROVE [Lease!Next]_(Lease!leaseVars)
  OBVIOUS
<1>0. TypeOK
  BY DEF ExecInv
<1> DEFINE h == [t \in Tasks |-> Executors(t)]
<1>1. ASSUME NEW w \in Slots, NEW t \in Tasks, Acquires(w, t)
      PROVE  Lease!Next
  <2>1. h[t] = {} \/ t \in disturbed
    BY <1>1 DEF ExecInv, FreeTasksIdle, Acquires, Free
  <2>2. h' = [h EXCEPT ![t] = @ \cup {w}]
    BY <1>1 DEF Acquires
  <2>3. Lease!Acquire(w, t)
    BY <1>1, <2>1, <2>2 DEF Acquires, Lease!Acquire
  <2> QED  BY <2>3 DEF Lease!Next
<1>2. ASSUME NEW W \in SUBSET Slots, Releases(W)
      PROVE  Lease!Next
  <2>1. h' = [t \in Tasks |-> h[t] \ W]
    BY <1>2 DEF Releases
  <2>2. Lease!Release(W)
    BY <1>2, <2>1 DEF Releases, Lease!Release
  <2> QED  BY <2>2 DEF Lease!Next
<1>3. ASSUME NEW t \in Tasks, NEW W \in SUBSET Slots, PutsBack(t, W)
      PROVE  Lease!Next
  <2>1. h' = [u \in Tasks |-> h[u] \ W]
    BY <1>3 DEF PutsBack
  <2>2. CASE Executors(t) \ W = {}
    <3>1. Lease!Release(W)
      BY <1>3, <2>1, <2>2 DEF PutsBack, Lease!Release
    <3> QED  BY <3>1 DEF Lease!Next
  <2>3. CASE Executors(t) # {} /\ W = {}
    <3>1. h' = h
      BY <2>1, <2>3
    <3>2. Lease!Revoke(t)
      BY <1>3, <2>3, <3>1 DEF PutsBack, Lease!Revoke
    <3> QED  BY <3>2 DEF Lease!Next
  <2>4. ASSUME NEW w \in Slots, W = {w}, Executors(t) \ W # {}
        PROVE  Lease!Next
    <3>1. h' = [h EXCEPT ![t] = @ \ {w}]
      BY <1>3, <2>1, <2>4 DEF PutsBack
    <3>2. Lease!ReleaseAndRevoke(w, t)
      BY <1>3, <2>4, <3>1 DEF PutsBack, Lease!ReleaseAndRevoke
    <3> QED  BY <2>4, <3>2 DEF Lease!Next
  <2> QED  BY <1>3, <2>2, <2>3, <2>4 DEF PutsBack
<1> QED  BY <1>0, <1>1, <1>2, <1>3, StepShape

(* The task queue implements the lease: a slot begins to execute a task    *)
(* only if nobody executes it or its lease was revoked.                    *)
THEOREM QueueImplementsLease == Spec => LeaseSpec
<1>1. ExecInv /\ [Next]_vars => [Lease!Next]_(Lease!leaseVars)
  BY StepLease
<1> QED  BY <1>1, InitLease, InitExecInv, StepExecInv, PTL DEF Spec, LeaseSpec, Lease!Spec

-----------------------------------------------------------------------------
(* The stamp of a settled task.                                            *)

StampOK(row) ==
    /\ IsTerminal(row) => row.completed
    /\ row.status \in {"queued", "running", "paused_input"} => ~row.completed

(* Every statement keeps the stamp of the row it writes in step with its   *)
(* status: requeueTask and createTask clear it, the settling ones set it.  *)
LEMMA StatementStamps ==
    ASSUME NEW tab \in [Tasks -> TaskRow], NEW t \in Tasks, NEW u \in Tasks, StampOK(tab[u])
    PROVE  /\ StampOK(CreateTask(tab, t)[u])
           /\ StampOK(ClaimTask(tab, t)[u])
           /\ StampOK(CompleteTask(tab, t)[u])
           /\ StampOK(FailTask(tab, t)[u])
           /\ StampOK(PauseTask(tab, t)[u])
           /\ StampOK(ResumeTask(tab, t)[u])
           /\ StampOK(CancelTask(tab, t)[u])
           /\ StampOK(MarkTaskWaitingApproval(tab, t)[u])
           /\ StampOK(RequeueTask(tab, t)[u])
           /\ StampOK(TouchRunningTask(tab, t)[u])
<1>1. CASE u # t
  BY <1>1, OtherRows
<1>2. CASE u = t
  <2> USE DEF StampOK, IsTerminal, TerminalStatus, TaskRow
  <2>0. tab[t] \in TaskRow
    OBVIOUS
  <2>1. StampOK(CreateTask(tab, t)[u]) /\ StampOK(ClaimTask(tab, t)[u])
    BY <1>2, <2>0 DEF CreateTask, ClaimTask
  <2>2. StampOK(CompleteTask(tab, t)[u]) /\ StampOK(FailTask(tab, t)[u])
    BY <1>2, <2>0 DEF CompleteTask, FailTask
  <2>3. StampOK(PauseTask(tab, t)[u]) /\ StampOK(ResumeTask(tab, t)[u])
    BY <1>2, <2>0 DEF PauseTask, ResumeTask
  <2>4. StampOK(CancelTask(tab, t)[u])
    BY <1>2, <2>0 DEF CancelTask
  <2>5. StampOK(MarkTaskWaitingApproval(tab, t)[u])
    BY <1>2, <2>0 DEF MarkTaskWaitingApproval
  <2>6. StampOK(RequeueTask(tab, t)[u]) /\ StampOK(TouchRunningTask(tab, t)[u])
    BY <1>2, <2>0 DEF RequeueTask, TouchRunningTask
  <2> QED  BY <2>1, <2>2, <2>3, <2>4, <2>5, <2>6
<1> QED  BY <1>1, <1>2

(* CompletionStamp is inductive. *)
LEMMA StepStamp == TypeOK /\ CompletionStamp /\ [Next]_vars => CompletionStamp'
<1> SUFFICES ASSUME TypeOK, CompletionStamp, [Next]_vars, NEW u \in Tasks
             PROVE  StampOK(tasks[u])'
  BY DEF CompletionStamp, StampOK, IsTerminal
<1>tab. tasks \in [Tasks -> TaskRow] /\ StampOK(tasks[u])
  BY DEF TypeOK, CompletionStamp, StampOK, IsTerminal
<1>same. tasks' = tasks => StampOK(tasks[u])'
  BY <1>tab DEF StampOK, IsTerminal
<1>req. ASSUME NEW t \in Tasks, NEW W, Requeue(t, W)
        PROVE  StampOK(tasks[u])'
  BY <1>req, <1>tab, StatementStamps DEF Requeue
<1>1. ASSUME NEW w \in Slots, SlotStep(w)
      PROVE  StampOK(tasks[u])'
  <2> DEFINE t == slot[w].task
  <2>1. slot[w].pc # "idle" /\ t \in Tasks
    BY <1>1, BusySlot DEF SlotStep, ClaimSelected, FinishTask, GiveUpTask, NeedInput,
       AskApproval, WaitForApproval, HandOver, ReportToParent, Settle, At
  <2>2. CASE ClaimSelected(w) \/ FinishTask(w) \/ GiveUpTask(w) \/ NeedInput(w) \/ WaitForApproval(w)
    BY <1>tab, <2>1, <2>2, StatementStamps
    DEF ClaimSelected, FinishTask, GiveUpTask, NeedInput, WaitForApproval
  <2>3. CASE AskApproval(w) \/ Settle(w)
    BY <1>same, <2>3 DEF AskApproval, Settle
  <2>4. CASE HandOver(w)
    BY <1>tab, <2>4, StatementStamps DEF HandOver
  <2>5. CASE ReportToParent(w)
    <3>1. Parent[t] \in Tasks
      BY <2>1, <2>5, ParentAssumption DEF ReportToParent
    <3> QED  BY <1>tab, <2>5, <3>1, StatementStamps DEF ReportToParent
  <2> QED  BY <1>1, <2>2, <2>3, <2>4, <2>5 DEF SlotStep
<1>2. ASSUME NEW w \in Slots, Heartbeat(w) \/ DeferOnLock(w) \/ FailOnError(w)
      PROVE  StampOK(tasks[u])'
  <2>1. slot[w].task \in Tasks
    BY <1>2, BusySlot DEF Heartbeat, DeferOnLock, FailOnError, Throws, At
  <2>2. CASE DeferOnLock(w)
    BY <1>req, <2>1, <2>2 DEF DeferOnLock
  <2>3. CASE Heartbeat(w) \/ FailOnError(w)
    BY <1>tab, <2>1, <2>3, StatementStamps DEF Heartbeat, FailOnError
  <2> QED  BY <1>2, <2>2, <2>3
<1>3. ASSUME NEW r \in Runners, SweepStep(r)
      PROVE  StampOK(tasks[u])'
  <2>1. PICK t \in Tasks : RequeueStale(r, t) \/ ExpireWaiting(r, t) \/ CloseOrphan(r, t)
    BY <1>3 DEF SweepStep
  <2>2. CASE RequeueStale(r, t)
    BY <1>req, <2>2 DEF RequeueStale
  <2>3. CASE ExpireWaiting(r, t) \/ CloseOrphan(r, t)
    BY <1>same, <1>tab, <2>3, StatementStamps DEF ExpireWaiting, CloseOrphan
  <2> QED  BY <2>1, <2>2, <2>3
<1>4. ASSUME NEW t \in Tasks,
             \/ Age(t) \/ MissHeartbeats(t) \/ SubmitTask(t) \/ CancelRequest(t) \/ AnswerQuestion(t)
             \/ ApplyDecision(t)
      PROVE  StampOK(tasks[u])'
  <2>1. CASE Age(t) \/ MissHeartbeats(t)
    <3>1. /\ tasks'[u].status = tasks[u].status
          /\ tasks'[u].completed = tasks[u].completed
      BY <1>tab, <2>1 DEF Age, MissHeartbeats, GrowOld, TaskRow
    <3> QED  BY <1>tab, <3>1 DEF StampOK, IsTerminal
  <2>2. CASE SubmitTask(t) \/ CancelRequest(t) \/ AnswerQuestion(t)
    BY <1>tab, <2>2, StatementStamps DEF SubmitTask, CancelRequest, AnswerQuestion
  <2>3. CASE ApplyDecision(t)
    BY <1>req, <1>tab, <2>3, StatementStamps DEF ApplyDecision
  <2> QED  BY <1>4, <2>1, <2>2, <2>3
<1>5. CASE tasks' = tasks
  BY <1>5, <1>same
<1> QED
  BY <1>1, <1>2, <1>3, <1>4, <1>5
  DEF Next, vars, SelectQueued, ScanStale, ScanWaiting, ScanOrphans, Scan, DecideApproval,
      EscalateApproval, CrashRunner, CrashOrchestrator

(* A settled task carries completed_at, and a task that is queued, running *)
(* or paused does not, however late the writers of its row are.            *)
THEOREM CompletionStampAlways == Spec => []CompletionStamp
<1>1. Init => CompletionStamp
  BY DEF Init, CompletionStamp, NoRow, IsTerminal, TerminalStatus
<1> QED  BY <1>1, InitTypeOK, StepTypeOK, StepStamp, PTL DEF Spec

-----------------------------------------------------------------------------
(* The end of a task.                                                      *)

(* Nothing refers to a task that has not been created, and its children    *)
(* have not been created either.                                           *)
Unborn(c) ==
    /\ \A w \in Slots : slot[w].task # c
    /\ \A r \in Runners : c \notin loop[r].todo
    /\ approval[c] = "none" /\ effect[c] = "none"
    /\ \A d \in Children(c) : tasks[d].status = "absent"

AbsentInv == \A c \in Tasks : tasks[c].status = "absent" => Unborn(c)

EndInv == TypeOK /\ AbsentInv

(* The statements that find rows do not find an absent one, and none makes *)
(* a row absent.                                                           *)
LEMMA StatementKeeps ==
    ASSUME NEW tab \in [Tasks -> TaskRow], NEW t \in Tasks, NEW u \in Tasks
    PROVE  LET gone(row) == row.status = "absent" IN
           /\ gone(ClaimTask(tab, t)[u]) => gone(tab[u])
           /\ gone(CompleteTask(tab, t)[u]) => gone(tab[u])
           /\ gone(FailTask(tab, t)[u]) => gone(tab[u])
           /\ gone(PauseTask(tab, t)[u]) => gone(tab[u])
           /\ gone(ResumeTask(tab, t)[u]) => gone(tab[u])
           /\ gone(CancelTask(tab, t)[u]) => gone(tab[u])
           /\ gone(MarkTaskWaitingApproval(tab, t)[u]) => gone(tab[u])
           /\ gone(RequeueTask(tab, t)[u]) => gone(tab[u])
           /\ gone(CreateTask(tab, t)[u]) => gone(tab[u])
           /\ gone(TouchRunningTask(tab, t)[u]) => gone(tab[u])
<1>1. CASE u # t
  BY <1>1, OtherRows
<1>2. CASE u = t
  <2> tab[t] \in TaskRow
    OBVIOUS
  <2> QED
    BY <1>2 DEF CreateTask, ClaimTask, CompleteTask, FailTask, PauseTask, ResumeTask, CancelTask,
                RequeueTask, MarkTaskWaitingApproval, TouchRunningTask, TaskRow
<1> QED  BY <1>1, <1>2

(* AbsentInv holds initially. *)
LEMMA InitAbsent == Init => AbsentInv
BY NoTaskAssumption DEF Init, AbsentInv, Unborn, NoRow, IdleSlot, OpenLoop, Children

(* A step of a slot, of a sweep or of the orchestrator concerns a task     *)
(* that exists, SubmitTask apart.                                          *)
LEMMA StepAbsent == EndInv /\ [Next]_vars => AbsentInv'
<1> SUFFICES ASSUME EndInv, [Next]_vars, NEW c \in Tasks, tasks'[c].status = "absent"
             PROVE  Unborn(c)'
  BY DEF AbsentInv
<1>tab. TypeOK /\ AbsentInv /\ tasks \in [Tasks -> TaskRow]
  BY DEF EndInv, TypeOK
<1> DEFINE Slotless == \A w \in Slots : slot'[w].task # c
    Loopless == \A r \in Runners : c \notin loop'[r].todo
    Undecided == approval'[c] = "none" /\ effect'[c] = "none"
    Childless == \A d \in Children(c) : tasks'[d].status = "absent"
<1>goal. Unborn(c)' <=> Slotless /\ Loopless /\ Undecided /\ Childless
  BY DEF Unborn, Children
<1>was. ASSUME tasks[c].status = "absent"
        PROVE  /\ Unborn(c)
               /\ \A d \in Children(c) : d \in Tasks /\ Parent[d] = c /\ Unborn(d)
  BY <1>tab, <1>was DEF AbsentInv, Unborn, Children
<1>same. ASSUME tasks[c].status = "absent"
         PROVE  /\ slot' = slot => Slotless
                /\ loop' = loop => Loopless
                /\ UNCHANGED <<approval, effect>> => Undecided
                /\ tasks' = tasks => Childless
  BY <1>was, <1>same DEF Unborn
<1>fine. ASSUME NEW t \in Tasks, tasks[c].status = "absent",
                tasks[t].status # "absent" \/ ~Unborn(t),
                \A d \in Tasks \ {t} : tasks'[d] = tasks[d]
         PROVE  Childless
  BY <1>fine, <1>tab, <1>was DEF AbsentInv, Unborn
<1>todo. ASSUME NEW r \in Runners, NEW t \in loop[r].todo
         PROVE  ~Unborn(t)
  BY <1>todo DEF Unborn
<1>busy. ASSUME NEW w \in Slots
         PROVE  ~Unborn(slot[w].task)
  BY DEF Unborn
<1>req. ASSUME NEW t \in Tasks, NEW W, Requeue(t, W), ~Unborn(t)
        PROVE  tasks[c].status = "absent" /\ Childless
  BY <1>req, <1>tab, <1>fine, OtherRows, StatementKeeps DEF Requeue
<1>1. ASSUME NEW w \in Slots, NEW t \in Tasks, SelectQueued(w, t)
      PROVE  Unborn(c)'
  <2>1. tasks[c].status = "absent" /\ c # t
    BY <1>1 DEF SelectQueued
  <2>2. RunnerOf[w] \in Runners
    BY RunnerAssumption
  <2>3. Slotless /\ Loopless
    BY <1>1, <1>tab, <1>was, <2>1, <2>2 DEF SelectQueued, Enter, TypeOK, Unborn
  <2> QED  BY <1>1, <1>goal, <1>same, <2>1, <2>3 DEF SelectQueued
<1>2. ASSUME NEW w \in Slots, SlotStep(w)
      PROVE  Unborn(c)'
  <2> DEFINE t == slot[w].task
  <2>0. slot[w].pc # "idle" /\ t \in Tasks /\ RunnerOf[w] \in Runners
    BY <1>2, <1>tab, BusySlot, RunnerAssumption
    DEF SlotStep, ClaimSelected, FinishTask, GiveUpTask, NeedInput, AskApproval,
        WaitForApproval, HandOver, ReportToParent, Settle, At
  <2>1. tasks[c].status = "absent" /\ Childless
    <3>1. CASE ClaimSelected(w) \/ FinishTask(w) \/ GiveUpTask(w) \/ NeedInput(w) \/ WaitForApproval(w)
      <4>1. \A d \in Tasks \ {t} : tasks'[d] = tasks[d]
        BY <1>tab, <2>0, <3>1, OtherRows
        DEF ClaimSelected, FinishTask, GiveUpTask, NeedInput, WaitForApproval
      <4>2. tasks[c].status = "absent"
        BY <1>tab, <2>0, <3>1, StatementKeeps
        DEF ClaimSelected, FinishTask, GiveUpTask, NeedInput, WaitForApproval
      <4> QED  BY <1>busy, <1>fine, <2>0, <4>1, <4>2
    <3>2. CASE AskApproval(w) \/ Settle(w)
      BY <1>same, <3>2 DEF AskApproval, Settle
    <3>3. CASE HandOver(w)
      <4>1. tasks[c].status = "absent"
        BY <1>tab, <3>3, StatementKeeps DEF HandOver
      <4>2. \A d \in Children(c) : d \notin Children(t)
        BY <1>busy, <1>was, <4>1 DEF Children
      <4> QED  BY <1>tab, <1>was, <3>3, <4>1, <4>2 DEF HandOver, Unborn, Children
    <3>4. CASE ReportToParent(w)
      <4>1. Parent[t] \in Tasks /\ t \in Children(Parent[t])
        BY <2>0, <3>4, ParentAssumption DEF ReportToParent, Children
      <4>2. ~Unborn(Parent[t])
        BY <1>busy, <1>tab, <2>0, <4>1 DEF AbsentInv, Unborn
      <4>3. tasks[c].status = "absent" /\ \A d \in Tasks \ {Parent[t]} : tasks'[d] = tasks[d]
        BY <1>tab, <3>4, <4>1, OtherRows, StatementKeeps DEF ReportToParent
      <4> QED  BY <1>fine, <4>1, <4>2, <4>3
    <3> QED  BY <1>2, <3>1, <3>2, <3>3, <3>4 DEF SlotStep
  <2>2. c # t
    BY <1>busy, <1>was, <2>1
  <2>3. Slotless
    <3>1. slot' = slot \/ (\E pc \in SlotPc : Goto(w, pc)) \/ Leave(w)
      BY <1>2
      DEF SlotStep, ClaimSelected, FinishTask, GiveUpTask, NeedInput, AskApproval,
          WaitForApproval, HandOver, ReportToParent, Settle, SlotPc
    <3> QED
      BY <1>tab, <1>was, <2>1, <3>1, NoTaskAssumption DEF Goto, Leave, IdleSlot, TypeOK, Unborn
  <2>4. Loopless
    <3>1. \/ loop' = loop
          \/ Reopen(RunnerOf[w])
          \/ Enter(RunnerOf[w], "ask", {t})
      BY <1>2
      DEF SlotStep, ClaimSelected, FinishTask, GiveUpTask, NeedInput, AskApproval,
          WaitForApproval, HandOver, ReportToParent, Settle
    <3> QED
      BY <1>tab, <1>was, <2>0, <2>1, <2>2, <3>1 DEF Reopen, OpenLoop, Enter, TypeOK, Unborn
  <2>5. Undecided
    BY <1>2, <1>tab, <1>was, <2>0, <2>1, <2>2
    DEF SlotStep, ClaimSelected, FinishTask, GiveUpTask, NeedInput, AskApproval,
        WaitForApproval, HandOver, ReportToParent, Settle, TypeOK, Unborn
  <2> QED  BY <1>goal, <2>1, <2>3, <2>4, <2>5
<1>3. ASSUME NEW w \in Slots, Heartbeat(w) \/ DeferOnLock(w) \/ FailOnError(w)
      PROVE  Unborn(c)'
  <2> DEFINE t == slot[w].task
  <2>0. t \in Tasks /\ RunnerOf[w] \in Runners
    BY <1>3, <1>tab, BusySlot, RunnerAssumption DEF Heartbeat, DeferOnLock, FailOnError, Throws, At
  <2>1. tasks[c].status = "absent" /\ Childless
    <3>1. CASE DeferOnLock(w)
      BY <1>busy, <1>req, <2>0, <3>1 DEF DeferOnLock
    <3>2. CASE Heartbeat(w) \/ FailOnError(w)
      <4>1. tasks[c].status = "absent" /\ \A d \in Tasks \ {t} : tasks'[d] = tasks[d]
        BY <1>tab, <2>0, <3>2, OtherRows, StatementKeeps DEF Heartbeat, FailOnError
      <4> QED  BY <1>busy, <1>fine, <2>0, <4>1
    <3> QED  BY <1>3, <3>1, <3>2
  <2>2. Slotless
    BY <1>3, <1>tab, <1>was, <2>1, NoTaskAssumption
    DEF Heartbeat, DeferOnLock, FailOnError, Goto, Leave, IdleSlot, TypeOK, Unborn
  <2>3. Loopless
    BY <1>3, <1>tab, <1>was, <2>0, <2>1
    DEF Heartbeat, DeferOnLock, FailOnError, Throws, Reopen, OpenLoop, TypeOK, Unborn
  <2>4. Undecided
    BY <1>3, <1>same, <2>1 DEF Heartbeat, DeferOnLock, FailOnError
  <2> QED  BY <1>goal, <2>1, <2>2, <2>3, <2>4
<1>4. ASSUME NEW r \in Runners, SweepStep(r)
      PROVE  Unborn(c)'
  <2>1. PICK t \in Tasks : RequeueStale(r, t) \/ ExpireWaiting(r, t) \/ CloseOrphan(r, t)
    BY <1>4 DEF SweepStep
  <2>2. t \in loop[r].todo /\ ~Unborn(t)
    BY <1>todo, <2>1 DEF RequeueStale, ExpireWaiting, CloseOrphan
  <2>3. tasks[c].status = "absent" /\ Childless
    <3>1. CASE RequeueStale(r, t)
      BY <1>req, <2>2, <3>1 DEF RequeueStale
    <3>2. CASE ExpireWaiting(r, t) \/ CloseOrphan(r, t)
      <4>1. tasks[c].status = "absent" /\ \A d \in Tasks \ {t} : tasks'[d] = tasks[d]
        BY <1>tab, <3>2, OtherRows, StatementKeeps DEF ExpireWaiting, CloseOrphan
      <4> QED  BY <1>fine, <2>2, <4>1
    <3> QED  BY <2>1, <3>1, <3>2
  <2>4. Loopless
    BY <1>tab, <1>was, <2>1, <2>3
    DEF RequeueStale, ExpireWaiting, CloseOrphan, Swept, Reopen, OpenLoop, Enter, TypeOK, Unborn
  <2> QED  BY <1>goal, <1>same, <2>1, <2>3, <2>4 DEF RequeueStale, ExpireWaiting, CloseOrphan
<1>5. ASSUME NEW r \in Runners, ScanStale(r) \/ ScanWaiting(r) \/ ScanOrphans(r)
      PROVE  Unborn(c)'
  <2>1. tasks' = tasks /\ slot' = slot /\ UNCHANGED <<approval, effect>>
    BY <1>5 DEF ScanStale, ScanWaiting, ScanOrphans, Scan
  <2>2. Loopless
    BY <1>5, <1>tab, <1>was, <2>1 DEF ScanStale, ScanWaiting, ScanOrphans, Scan, Enter, TypeOK, Unborn
  <2> QED  BY <1>goal, <1>same, <2>1, <2>2
<1>6. ASSUME NEW t \in Tasks, Age(t) \/ MissHeartbeats(t) \/ CancelRequest(t) \/ AnswerQuestion(t)
      PROVE  Unborn(c)'
  <2>1. tasks[t].status # "absent"
    BY <1>6 DEF Age, MissHeartbeats, CancelRequest, AnswerQuestion, CancellableStatus
  <2>2. \A d \in Tasks \ {t} : tasks'[d] = tasks[d]
    BY <1>6, <1>tab, OtherRows DEF Age, MissHeartbeats, GrowOld, CancelRequest, AnswerQuestion
  <2>3. tasks[c].status = "absent"
    <3>1. CASE Age(t) \/ MissHeartbeats(t)
      BY <1>tab, <3>1 DEF Age, MissHeartbeats, GrowOld, TaskRow
    <3>2. CASE CancelRequest(t) \/ AnswerQuestion(t)
      BY <1>tab, <3>2, StatementKeeps DEF CancelRequest, AnswerQuestion
    <3> QED  BY <1>6, <3>1, <3>2
  <2>4. Childless
    BY <1>fine, <2>1, <2>2, <2>3
  <2> QED  BY <1>6, <1>goal, <1>same, <2>3, <2>4
           DEF Age, MissHeartbeats, GrowOld, CancelRequest, AnswerQuestion
<1>7. ASSUME NEW t \in Tasks, SubmitTask(t)
      PROVE  Unborn(c)'
  <2>1. tasks[c].status = "absent"
    BY <1>7, <1>tab, StatementKeeps DEF SubmitTask
  <2>2. Childless
    BY <1>7, <1>tab, <1>was, <2>1, OtherRows, NoTaskAssumption DEF SubmitTask, Unborn
  <2> QED  BY <1>7, <1>goal, <1>same, <2>1, <2>2 DEF SubmitTask
<1>8. ASSUME NEW t \in Tasks,
             \/ \E d \in {"approved", "rejected"} : DecideApproval(t, d)
             \/ EscalateApproval(t)
      PROVE  Unborn(c)'
  <2>1. tasks' = tasks /\ slot' = slot /\ loop' = loop /\ tasks[c].status = "absent"
    BY <1>8 DEF DecideApproval, EscalateApproval
  <2>2. Undecided
    BY <1>8, <1>tab, <1>was, <2>1 DEF DecideApproval, EscalateApproval, TypeOK, Unborn
  <2> QED  BY <1>goal, <1>same, <2>1, <2>2
<1>9. ASSUME NEW t \in Tasks, ApplyDecision(t)
      PROVE  Unborn(c)'
  <2>1. ~Unborn(t)
    BY <1>9 DEF ApplyDecision, Unborn
  <2>2. tasks[c].status = "absent" /\ Childless
    <3>1. CASE effect[t] = "approved"
      BY <1>9, <1>req, <2>1, <3>1 DEF ApplyDecision
    <3>2. CASE effect[t] # "approved"
      <4>1. tasks[c].status = "absent" /\ \A d \in Tasks \ {t} : tasks'[d] = tasks[d]
        BY <1>9, <1>tab, <3>2, OtherRows, StatementKeeps DEF ApplyDecision
      <4> QED  BY <1>fine, <2>1, <4>1
    <3> QED  BY <3>1, <3>2
  <2>3. Undecided
    BY <1>9, <1>tab, <1>was, <2>2 DEF ApplyDecision, TypeOK, Unborn
  <2> QED  BY <1>9, <1>goal, <1>same, <2>2, <2>3 DEF ApplyDecision
<1>10. CASE (\E r \in Runners : CrashRunner(r)) \/ CrashOrchestrator
  <2>1. tasks' = tasks /\ tasks[c].status = "absent"
    BY <1>10 DEF CrashRunner, CrashOrchestrator
  <2>2. Slotless /\ Loopless /\ Undecided
    BY <1>10, <1>tab, <1>was, <2>1, NoTaskAssumption
    DEF CrashRunner, CrashOrchestrator, IdleSlot, OpenLoop, TypeOK, Unborn
  <2> QED  BY <1>goal, <1>same, <2>1, <2>2
<1>11. CASE UNCHANGED vars
  BY <1>11, <1>goal, <1>same DEF vars
<1> QED
  BY <1>1, <1>2, <1>3, <1>4, <1>5, <1>6, <1>7, <1>8, <1>9, <1>10, <1>11 DEF Next

(* A settled task that nobody refers to stays as it is, but for the report *)
(* of a child that is still at work.                                       *)
LEMMA SettledStep ==
    ASSUME TypeOK, [Next]_vars, NEW t \in Tasks, Settled(t)
    PROVE  /\ Settled(t)'
           /\ \/ tasks'[t] = tasks[t]
              \/ \E w \in Slots : ReportToParent(w) /\ Parent[slot[w].task] = t
<1> DEFINE Alone == tasks'[t] = tasks[t]
    Ended == IsTerminal(tasks[t])'
    Slotless == Beating(t)' = {}
    Loopless == \A r \in Runners : loop'[r].at \in {"open", "claim", "ask"} \/ t \notin loop'[r].todo
    Undecided ==
      /\ effect'[t] = "none"
      /\ \/ approval'[t] = "none"
         \/ approval'[t] = "decided" /\ ("escalation" \notin Hazards \/ faults' = 0)
    Conclusion ==
      /\ Settled(t)'
      /\ Alone \/ \E w \in Slots : ReportToParent(w) /\ Parent[slot[w].task] = t
<1>tab. /\ tasks \in [Tasks -> TaskRow]
        /\ tasks[t].status \in {"completed", "failed", "cancelled"}
  BY DEF TypeOK, Settled, IsTerminal, TerminalStatus
<1>goal. Settled(t)' <=> Ended /\ Slotless /\ Loopless /\ Undecided
  BY DEF Settled, Unreferenced
<1>was. /\ Beating(t) = {}
        /\ \A r \in Runners : loop[r].at \in {"open", "claim", "ask"} \/ t \notin loop[r].todo
        /\ effect[t] = "none"
        /\ \/ approval[t] = "none"
           \/ approval[t] = "decided" /\ ("escalation" \notin Hazards \/ faults = 0)
  BY DEF Settled, Unreferenced
<1>same. /\ Alone => Ended
         /\ tasks' = tasks => Alone
         /\ slot' = slot => Slotless
         /\ loop' = loop => Loopless
         /\ UNCHANGED <<approval, effect, faults>> => Undecided
  BY <1>tab, <1>was DEF Beating, IsTerminal, TerminalStatus
<1>fault. ASSUME NEW h, Fault(h)
          PROVE  faults # 0
  BY <1>fault DEF Fault
<1>others. ASSUME NEW u \in Tasks, u # t
           PROVE  /\ ClaimTask(tasks, u)[t] = tasks[t]
                  /\ CompleteTask(tasks, u)[t] = tasks[t]
                  /\ FailTask(tasks, u)[t] = tasks[t]
                  /\ PauseTask(tasks, u)[t] = tasks[t]
                  /\ ResumeTask(tasks, u)[t] = tasks[t]
                  /\ CancelTask(tasks, u)[t] = tasks[t]
                  /\ MarkTaskWaitingApproval(tasks, u)[t] = tasks[t]
                  /\ RequeueTask(tasks, u)[t] = tasks[t]
                  /\ CreateTask(tasks, u)[t] = tasks[t]
                  /\ TouchRunningTask(tasks, u)[t] = tasks[t]
  BY <1>others, <1>tab, OtherRows
<1>busy. ASSUME NEW w \in Slots, slot[w].pc \in {"executing", "asking", "settled", "closing"}
         PROVE  slot[w].task # t /\ slot[w].task \in Tasks
  BY <1>busy, <1>was, BusySlot DEF Beating
<1>1. ASSUME NEW w \in Slots, NEW u \in Tasks, SelectQueued(w, u)
      PROVE  Conclusion
  <2>1. Slotless
    BY <1>1, <1>was DEF SelectQueued, Beating, TypeOK
  <2>2. Loopless
    BY <1>1, <1>was, RunnerAssumption DEF SelectQueued, Enter, TypeOK
  <2> QED  BY <1>1, <1>goal, <1>same, <2>1, <2>2 DEF SelectQueued
<1>2. ASSUME NEW w \in Slots, SlotStep(w)
      PROVE  Conclusion
  <2> DEFINE u == slot[w].task
  <2>0. u \in Tasks /\ RunnerOf[w] \in Runners
    BY <1>2, BusySlot, RunnerAssumption
    DEF SlotStep, ClaimSelected, FinishTask, GiveUpTask, NeedInput, AskApproval,
        WaitForApproval, HandOver, ReportToParent, Settle, At
  <2>1. CASE ClaimSelected(w)
    <3>1. tasks[u].status = "queued" => u # t
      BY <1>tab
    <3>2. Alone
      BY <1>others, <1>tab, <2>0, <2>1, <3>1 DEF ClaimSelected, ClaimTask
    <3>3. Slotless
      BY <1>was, <2>1, <3>1 DEF ClaimSelected, Goto, Leave, IdleSlot, Beating, TypeOK
    <3>4. Loopless
      BY <1>was, <2>0, <2>1 DEF ClaimSelected, Reopen, OpenLoop, TypeOK
    <3> QED  BY <1>goal, <1>same, <2>1, <3>2, <3>3, <3>4 DEF ClaimSelected
  <2>2. CASE ~ClaimSelected(w)
    <3>1. slot[w].pc \in {"executing", "asking", "settled", "closing"}
      BY <1>2, <2>2
      DEF SlotStep, FinishTask, GiveUpTask, NeedInput, AskApproval,
          WaitForApproval, HandOver, ReportToParent, Settle, At
    <3>2. u # t
      BY <1>busy, <3>1
    <3>3. Slotless
      <4>1. (\E pc \in SlotPc : Goto(w, pc)) \/ Leave(w)
        BY <1>2, <2>2
        DEF SlotStep, FinishTask, GiveUpTask, NeedInput, AskApproval,
            WaitForApproval, HandOver, ReportToParent, Settle, SlotPc
      <4> QED  BY <1>was, <3>2, <4>1 DEF Goto, Leave, IdleSlot, Beating, TypeOK
    <3>4. Loopless
      <4>1. \/ loop' = loop
            \/ Reopen(RunnerOf[w])
            \/ Enter(RunnerOf[w], "ask", {u})
        BY <1>2, <2>2
        DEF SlotStep, FinishTask, GiveUpTask, NeedInput, AskApproval,
            WaitForApproval, HandOver, ReportToParent, Settle
      <4> QED  BY <1>was, <2>0, <4>1 DEF Reopen, OpenLoop, Enter, TypeOK
    <3>5. Undecided
      BY <1>2, <1>was, <2>0, <2>2, <3>2
      DEF SlotStep, FinishTask, GiveUpTask, NeedInput, AskApproval,
          WaitForApproval, HandOver, ReportToParent, Settle, TypeOK
    <3>6. CASE ~ReportToParent(w)
      <4>1. CASE HandOver(w)
        <5>1. tasks[t].status # "absent"
          BY <1>tab
        <5> QED  BY <1>goal, <1>same, <3>3, <3>4, <3>5, <4>1, <5>1 DEF HandOver
      <4>2. CASE ~HandOver(w)
        <5>1. Alone
          BY <1>2, <1>others, <2>0, <2>2, <3>2, <3>6, <4>2
          DEF SlotStep, FinishTask, GiveUpTask, NeedInput, AskApproval, WaitForApproval, Settle
        <5> QED  BY <1>goal, <1>same, <3>3, <3>4, <3>5, <5>1
      <4> QED  BY <4>1, <4>2
    <3>7. CASE ReportToParent(w)
      <4>1. Parent[u] \in Tasks
        BY <2>0, <3>7, ParentAssumption DEF ReportToParent
      <4>2. CASE Parent[u] # t
        <5>1. Alone
          BY <1>others, <3>7, <4>1, <4>2 DEF ReportToParent
        <5> QED  BY <1>goal, <1>same, <3>3, <3>4, <3>5, <5>1
      <4>3. CASE Parent[u] = t
        <5>1. Ended
          BY <1>tab, <3>7, <4>3
          DEF ReportToParent, CompleteTask, FailTask, TaskRow, IsTerminal, TerminalStatus
        <5> QED  BY <1>goal, <3>3, <3>4, <3>5, <3>7, <4>3, <5>1
      <4> QED  BY <4>2, <4>3
    <3> QED  BY <3>6, <3>7
  <2> QED  BY <2>1, <2>2
<1>3. ASSUME NEW w \in Slots, Heartbeat(w) \/ DeferOnLock(w) \/ FailOnError(w)
      PROVE  Conclusion
  <2>1. slot[w].task # t /\ slot[w].task \in Tasks /\ RunnerOf[w] \in Runners
    BY <1>3, <1>busy, RunnerAssumption DEF Heartbeat, DeferOnLock, FailOnError, Throws, At
  <2>2. Alone
    BY <1>3, <1>others, <2>1 DEF Heartbeat, DeferOnLock, FailOnError, Requeue
  <2>3. Slotless
    BY <1>3, <1>was, <2>1
    DEF Heartbeat, DeferOnLock, FailOnError, Goto, Leave, IdleSlot, Beating, TypeOK
  <2>4. Loopless
    BY <1>3, <1>was, <2>1
    DEF Heartbeat, DeferOnLock, FailOnError, Throws, Reopen, OpenLoop, TypeOK
  <2>5. Undecided
    BY <1>3, <1>fault, <1>was DEF Heartbeat, DeferOnLock, FailOnError, Throws
  <2> QED  BY <1>goal, <1>same, <2>2, <2>3, <2>4, <2>5
<1>4. ASSUME NEW r \in Runners, SweepStep(r)
      PROVE  Conclusion
  <2>1. PICK u \in Tasks : RequeueStale(r, u) \/ ExpireWaiting(r, u) \/ CloseOrphan(r, u)
    BY <1>4 DEF SweepStep
  <2>2. u # t
    BY <1>was, <2>1 DEF RequeueStale, ExpireWaiting, CloseOrphan
  <2>3. Alone
    BY <1>others, <2>1, <2>2 DEF RequeueStale, ExpireWaiting, CloseOrphan, Requeue
  <2>4. Loopless
    BY <1>was, <2>1
    DEF RequeueStale, ExpireWaiting, CloseOrphan, Swept, Reopen, OpenLoop, Enter, TypeOK
  <2>5. Slotless /\ Undecided
    BY <1>same, <2>1 DEF RequeueStale, ExpireWaiting, CloseOrphan
  <2> QED  BY <1>goal, <1>same, <2>3, <2>4, <2>5
<1>5. ASSUME NEW r \in Runners, ScanStale(r) \/ ScanWaiting(r) \/ ScanOrphans(r)
      PROVE  Conclusion
  <2>1. tasks' = tasks /\ slot' = slot /\ UNCHANGED <<approval, effect, faults>>
    BY <1>5 DEF ScanStale, ScanWaiting, ScanOrphans, Scan
  <2>2. Loopless
    BY <1>5, <1>tab, <1>was DEF ScanStale, ScanWaiting, ScanOrphans, Scan, Enter, TypeOK
  <2> QED  BY <1>goal, <1>same, <2>1, <2>2
<1>6. ASSUME NEW u \in Tasks,
             Age(u) \/ MissHeartbeats(u) \/ SubmitTask(u) \/ CancelRequest(u) \/ AnswerQuestion(u)
      PROVE  Conclusion
  <2>1. u # t
    BY <1>6, <1>tab
    DEF Age, MissHeartbeats, SubmitTask, CancelRequest, AnswerQuestion, CancellableStatus
  <2>2. Alone
    BY <1>6, <1>others, <1>tab, <2>1
    DEF Age, MissHeartbeats, GrowOld, SubmitTask, CancelRequest, AnswerQuestion
  <2>3. Slotless /\ Loopless
    BY <1>6, <1>same DEF Age, MissHeartbeats, GrowOld, SubmitTask, CancelRequest, AnswerQuestion
  <2>4. Undecided
    BY <1>6, <1>fault, <1>was
    DEF Age, MissHeartbeats, GrowOld, SubmitTask, CancelRequest, AnswerQuestion
  <2> QED  BY <1>goal, <1>same, <2>2, <2>3, <2>4
<1>7. ASSUME NEW u \in Tasks,
             \/ \E d \in {"approved", "rejected"} : DecideApproval(u, d)
             \/ EscalateApproval(u)
      PROVE  Conclusion
  <2>1. tasks' = tasks /\ slot' = slot /\ loop' = loop
    BY <1>7 DEF DecideApproval, EscalateApproval
  <2>2. u # t
    BY <1>7, <1>was DEF DecideApproval, EscalateApproval, Fault
  <2>3. approval'[t] = approval[t] /\ effect'[t] = effect[t]
    BY <1>7, <2>2 DEF DecideApproval, EscalateApproval, TypeOK
  <2>4. faults = 0 => faults' = 0
    BY <1>7, <1>fault DEF DecideApproval, EscalateApproval
  <2>5. Undecided
    BY <1>was, <2>3, <2>4
  <2> QED  BY <1>goal, <1>same, <2>1, <2>5
<1>8. ASSUME NEW u \in Tasks, ApplyDecision(u)
      PROVE  Conclusion
  <2>1. u # t
    BY <1>8, <1>was DEF ApplyDecision
  <2>2. Alone
    BY <1>8, <1>others, <2>1 DEF ApplyDecision, Requeue
  <2>3. Undecided
    BY <1>8, <1>was, <2>1 DEF ApplyDecision, TypeOK
  <2> QED  BY <1>8, <1>goal, <1>same, <2>2, <2>3 DEF ApplyDecision
<1>9. CASE (\E r \in Runners : CrashRunner(r)) \/ CrashOrchestrator
  <2>1. Alone
    BY <1>9 DEF CrashRunner, CrashOrchestrator
  <2>2. Slotless
    BY <1>9, <1>was DEF CrashRunner, CrashOrchestrator, IdleSlot, Beating
  <2>3. Loopless
    BY <1>9, <1>was DEF CrashRunner, CrashOrchestrator, OpenLoop, TypeOK
  <2>4. Undecided
    BY <1>9, <1>fault, <1>was DEF CrashRunner, CrashOrchestrator, TypeOK
  <2> QED  BY <1>goal, <1>same, <2>1, <2>2, <2>3, <2>4
<1>10. CASE UNCHANGED vars
  BY <1>10, <1>goal, <1>same DEF vars
<1> QED
  BY <1>1, <1>2, <1>3, <1>4, <1>5, <1>6, <1>7, <1>8, <1>9, <1>10 DEF Next

(* A task is born by SubmitTask or in the hand-over of its parent.         *)
LEMMA Birth ==
    ASSUME EndInv, [Next]_vars, NEW c \in Tasks, tasks[c].status = "absent"
    PROVE  \/ tasks'[c] = tasks[c]
           \/ SubmitTask(c)
           \/ \E w \in Slots : HandOver(w) /\ Parent[c] = slot[w].task
<1>0. TypeOK /\ AbsentInv /\ tasks \in [Tasks -> TaskRow] /\ Unborn(c)
  BY DEF EndInv, AbsentInv, TypeOK
<1> DEFINE Goal ==
      \/ tasks'[c] = tasks[c]
      \/ SubmitTask(c)
      \/ \E w \in Slots : HandOver(w) /\ Parent[c] = slot[w].task
<1>1. ASSUME NEW w \in Slots, SlotStep(w) \/ Heartbeat(w) \/ DeferOnLock(w) \/ FailOnError(w)
      PROVE  Goal
  <2> DEFINE u == slot[w].task
  <2>1. u \in Tasks /\ u # c
    BY <1>0, <1>1, BusySlot
    DEF SlotStep, ClaimSelected, FinishTask, GiveUpTask, NeedInput, AskApproval,
        WaitForApproval, HandOver, ReportToParent, Settle, Heartbeat, DeferOnLock,
        FailOnError, Throws, At, Unborn
  <2>2. CASE HandOver(w)
    BY <2>2 DEF HandOver, Children
  <2>3. CASE ReportToParent(w)
    <3>1. Parent[u] \in Tasks /\ ~Unborn(u)
      BY <2>1, <2>3, ParentAssumption DEF ReportToParent, Unborn
    <3>2. Parent[u] # c
      BY <1>0, <2>1, <3>1 DEF Unborn, AbsentInv, Children
    <3> QED  BY <1>0, <2>3, <3>1, <3>2, OtherRows DEF ReportToParent
  <2>4. CASE ~HandOver(w) /\ ~ReportToParent(w)
    BY <1>0, <1>1, <2>1, <2>4, OtherRows
    DEF SlotStep, ClaimSelected, FinishTask, GiveUpTask, NeedInput, AskApproval,
        WaitForApproval, Settle, Heartbeat, DeferOnLock, FailOnError, Requeue
  <2> QED  BY <2>2, <2>3, <2>4
<1>2. ASSUME NEW r \in Runners, SweepStep(r)
      PROVE  Goal
  <2>1. PICK u \in Tasks : RequeueStale(r, u) \/ ExpireWaiting(r, u) \/ CloseOrphan(r, u)
    BY <1>2 DEF SweepStep
  <2>2. u # c
    BY <1>0, <2>1 DEF RequeueStale, ExpireWaiting, CloseOrphan, Unborn
  <2> QED  BY <1>0, <2>1, <2>2, OtherRows DEF RequeueStale, ExpireWaiting, CloseOrphan, Requeue
<1>3. ASSUME NEW u \in Tasks,
             \/ Age(u) \/ MissHeartbeats(u) \/ SubmitTask(u) \/ CancelRequest(u) \/ AnswerQuestion(u)
             \/ ApplyDecision(u)
      PROVE  Goal
  <2>1. CASE u = c
    BY <1>0, <1>3, <2>1
    DEF Age, MissHeartbeats, CancelRequest, AnswerQuestion, ApplyDecision, CancellableStatus, Unborn
  <2>2. CASE u # c
    BY <1>0, <1>3, <2>2, OtherRows
    DEF Age, MissHeartbeats, GrowOld, SubmitTask, CancelRequest, AnswerQuestion, ApplyDecision, Requeue
  <2> QED  BY <2>1, <2>2
<1>4. CASE tasks' = tasks
  BY <1>4
<1> QED
  BY <1>1, <1>2, <1>3, <1>4
  DEF Next, vars, SelectQueued, ScanStale, ScanWaiting, ScanOrphans, Scan, DecideApproval,
      EscalateApproval, CrashRunner, CrashOrchestrator

(* A final task is left alone, and so are its children.                    *)
LEMMA StepFinal ==
    ASSUME EndInv, [Next]_vars, NEW t \in Tasks, Final(t)
    PROVE  Final(t)' /\ tasks'[t] = tasks[t]
<1>0. TypeOK /\ AbsentInv
  BY DEF EndInv
<1>1. Settled(t) /\ \A c \in Children(t) : tasks[c].status = "absent" \/ Settled(c)
  BY DEF Final
<1>2. \A w \in Slots : slot[w].pc \in {"settled", "closing"} /\ slot[w].task \in Tasks
            => Parent[slot[w].task] # t
  BY <1>0, <1>1 DEF AbsentInv, Unborn, Settled, Unreferenced, Beating, Children
<1>3. Settled(t)' /\ tasks'[t] = tasks[t]
  BY <1>0, <1>1, <1>2, SettledStep, BusySlot DEF ReportToParent, At
<1>4. ASSUME NEW c \in Children(t), tasks[c].status = "absent"
      PROVE  tasks'[c].status = "absent"
  <2>1. c \in Tasks /\ Parent[c] = t /\ ~SubmitTask(c)
    BY NoTaskAssumption DEF Children, SubmitTask
  <2>2. \A w \in Slots : slot[w].task = t => ~HandOver(w)
    BY <1>1 DEF Settled, Unreferenced, Beating, HandOver, At
  <2> QED  BY <1>4, <2>1, <2>2, Birth
<1> QED  BY <1>0, <1>1, <1>3, <1>4, SettledStep DEF Final, Children

(* A settled task that no slot, sweep, decision or child refers to any     *)
(* more never changes again, although most UPDATEs have no status guard:   *)
(* the damage of a late writer ends with the last late writer.             *)
THEOREM FinalStaysFinalAlways == Spec => FinalStaysFinal
<1>1. Init => EndInv
  BY InitAbsent, InitTypeOK DEF EndInv
<1>2. EndInv /\ [Next]_vars => EndInv'
  BY StepAbsent, StepTypeOK DEF EndInv
<1>3. EndInv /\ [Next]_vars => [\A t \in Tasks : Final(t) => Final(t)' /\ tasks'[t] = tasks[t]]_vars
  BY StepFinal
<1> QED  BY <1>1, <1>2, <1>3, PTL DEF Spec, FinalStaysFinal

-----------------------------------------------------------------------------
(* Nobody disturbs a slot at work before a fault happens.                  *)

(* One task-runner process; it may have any number of slots.               *)
OneProcessOnly == \A r, s \in Runners : r = s

(* A slot has just asked for an approval of the task. *)
Asked(t) == \E w \in Slots : slot[w].pc = "asking" /\ slot[w].task = t

(* The task waits for a decision or for its effects. *)
Shelved(t) ==
    \/ approval[t] = "pending" /\ ~Asked(t)
    \/ effect[t] # "none"

(* A slot between two statements of its own holds the event loop.          *)
SectionsHeld ==
    /\ \A w \in Slots : /\ slot[w].pc = "selecting" => loop[RunnerOf[w]].at = "claim"
                        /\ slot[w].pc = "asking" => loop[RunnerOf[w]].at = "ask"
    /\ \A v, w \in Slots : slot[v].pc \in {"selecting", "asking"} /\ slot[w].pc = slot[v].pc => v = w

(* A row that the stale sweep would list has no slot at work on it, and a  *)
(* shelved task is neither queued nor running.                             *)
CalmTask(t) ==
    /\ tasks[t].status = "running" /\ tasks[t].aged => Executors(t) = {}
    /\ Shelved(t) => /\ Executors(t) = {}
                     /\ tasks[t].status \in TerminalStatus \cup {"waiting_approval"}
    /\ effect[t] # "none" => approval[t] = "decided"

(* What the stale sweep has listed stays without a slot until its turn.    *)
CalmSweep(r) ==
    loop[r].at = "staleSweep" => \A t \in loop[r].todo : Executors(t) = {} /\ ~Shelved(t)

(* Nothing that could disturb a slot is under way. *)
Calm ==
    /\ disturbed = {}
    /\ SectionsHeld
    /\ \A t \in Tasks : CalmTask(t)
    /\ \A r \in Runners : CalmSweep(r)

(* As long as no fault has been used up. *)
CalmInv == faults <= MaxFaults /\ (faults = MaxFaults => Calm)

(* What the small steps of the store leave behind, for every row.          *)
Harmless(u) ==
    \/ tasks'[u] = tasks[u]
    \/ tasks'[u].status \in TerminalStatus
    \/ ~tasks'[u].aged /\ ~Shelved(u)
    \/ tasks'[u].status = tasks[u].status /\ Executors(u) = {}
    \/ tasks'[u].status = tasks[u].status /\ ~tasks'[u].aged

(* The event loops go on without losing a section or listing more.         *)
LoopsGoOn ==
    \A r \in Runners :
        /\ loop[r].at \in {"claim", "ask"} => loop'[r].at = loop[r].at
        /\ loop'[r].at = "staleSweep" => loop[r].at = "staleSweep" /\ loop'[r].todo \subseteq loop[r].todo

(* No slot begins to execute, claim or ask, or is done with asking.        *)
SlotsGoOn ==
    \A w \in Slots :
        \/ slot'[w] = slot[w]
        \/ /\ slot[w].pc \notin {"selecting", "asking"}
           /\ slot'[w].pc \notin {"selecting", "asking", "executing"}

(* The status of a row that is queued, running or absent is no final one.  *)
LEMMA Statuses ==
    /\ "waiting_approval" \notin TerminalStatus /\ "queued" \notin TerminalStatus
    /\ "running" \notin TerminalStatus /\ "paused_input" \notin TerminalStatus
    /\ "absent" \notin TerminalStatus
    /\ "completed" \in TerminalStatus /\ "failed" \in TerminalStatus /\ "cancelled" \in TerminalStatus
BY DEF TerminalStatus

(* A task is shelved as before when nothing is decided and nobody asks.    *)
LEMMA ShelvedStays ==
    ASSUME approval' = approval, effect' = effect, SlotsGoOn, NEW u \in Tasks
    PROVE  Shelved(u)' <=> Shelved(u)
<1>1. \A w \in Slots : /\ slot'[w].pc = "asking" => slot'[w] = slot[w]
                       /\ slot[w].pc = "asking" => slot'[w] = slot[w]
  BY DEF SlotsGoOn
<1>2. Asked(u)' <=> Asked(u)
  BY <1>1 DEF Asked
<1> QED  BY <1>2 DEF Shelved

(* Then no task gets an executor.                                          *)
LEMMA ExecutorsShrink ==
    ASSUME SlotsGoOn, NEW u \in Tasks
    PROVE  Executors(u)' \subseteq Executors(u)
BY DEF SlotsGoOn, Executors

(* A step of this kind keeps the calm.                                     *)
LEMMA CalmShape ==
    ASSUME Calm, approval' = approval, effect' = effect, disturbed' = disturbed,
           SlotsGoOn, LoopsGoOn, RunnerAssumption, \A u \in Tasks : Harmless(u),
           loop \in [Runners -> [at : Sections, todo : SUBSET Tasks]]
    PROVE  Calm'
<1>1. \A u \in Tasks : (Shelved(u)' <=> Shelved(u)) /\ Executors(u)' \subseteq Executors(u)
  BY ShelvedStays, ExecutorsShrink
<1>2. SectionsHeld'
  <2>1. \A w \in Slots : slot'[w].pc \in {"selecting", "asking"} => slot'[w] = slot[w]
    BY DEF SlotsGoOn
  <2>2. \A w \in Slots : RunnerOf[w] \in Runners
    BY DEF RunnerAssumption
  <2> QED  BY <2>1, <2>2 DEF Calm, SectionsHeld, LoopsGoOn
<1>3. ASSUME NEW u \in Tasks PROVE CalmTask(u)'
  <2>1. CalmTask(u) /\ Harmless(u)
    BY DEF Calm
  <2>2. tasks'[u].status = "running" /\ tasks'[u].aged => Executors(u)' = {}
    BY <1>1, <2>1, Statuses DEF CalmTask, Harmless
  <2>3. Shelved(u)' => Executors(u)' = {} /\ tasks'[u].status \in TerminalStatus \cup {"waiting_approval"}
    BY <1>1, <2>1 DEF CalmTask, Harmless
  <2> QED  BY <2>1, <2>2, <2>3 DEF CalmTask
<1>4. ASSUME NEW r \in Runners PROVE CalmSweep(r)'
  <2>1. ASSUME loop'[r].at = "staleSweep", NEW t \in loop'[r].todo
        PROVE  Executors(t)' = {} /\ ~Shelved(t)'
    <3>1. loop[r].at = "staleSweep" /\ t \in loop[r].todo /\ t \in Tasks
      BY <2>1 DEF LoopsGoOn
    <3> QED  BY <1>1, <3>1 DEF Calm, CalmSweep
  <2> QED  BY <2>1 DEF CalmSweep
<1> QED  BY <1>2, <1>3, <1>4 DEF Calm

(* What the statements write.                                              *)
LEMMA StatementRow ==
    ASSUME NEW tab \in [Tasks -> TaskRow], NEW t \in Tasks
    PROVE  /\ CreateTask(tab, t)[t].aged = FALSE
           /\ CompleteTask(tab, t)[t].status = "completed"
           /\ FailTask(tab, t)[t].status = "failed"
           /\ PauseTask(tab, t) = tab \/ ~PauseTask(tab, t)[t].aged
           /\ ResumeTask(tab, t) = tab \/ ~ResumeTask(tab, t)[t].aged
           /\ CancelTask(tab, t) = tab \/ CancelTask(tab, t)[t].status = "cancelled"
           /\ MarkTaskWaitingApproval(tab, t)[t].status = "waiting_approval"
           /\ RequeueTask(tab, t)[t].aged = FALSE
           /\ TouchRunningTask(tab, t) = tab
              \/ (~TouchRunningTask(tab, t)[t].aged /\ TouchRunningTask(tab, t)[t].status = tab[t].status)
           /\ tab[t].status = "queued" => ~ClaimTask(tab, t)[t].aged
           /\ tab[t].status # "queued" => ClaimTask(tab, t) = tab
<1> tab[t] \in TaskRow
  OBVIOUS
<1> QED
  BY DEF CreateTask, CompleteTask, FailTask, PauseTask, ResumeTask, CancelTask, TaskRow,
         MarkTaskWaitingApproval, RequeueTask, TouchRunningTask, ClaimTask

(* A step that is one statement on row t writes that row and no other.     *)
OnlyRow(t) == \A u \in Tasks \ {t} : tasks'[u] = tasks[u]

(* The same of the step that makes it.                                     *)
LEMMA StatementStep ==
    ASSUME tasks \in [Tasks -> TaskRow], NEW t \in Tasks
    PROVE  /\ tasks' = CreateTask(tasks, t) => OnlyRow(t)
              /\ (~tasks'[t].aged)
           /\ tasks' = CompleteTask(tasks, t) => OnlyRow(t)
              /\ (tasks'[t].status = "completed")
           /\ tasks' = FailTask(tasks, t) => OnlyRow(t)
              /\ (tasks'[t].status = "failed")
           /\ tasks' = PauseTask(tasks, t) => OnlyRow(t)
              /\ (tasks'[t] = tasks[t] \/ ~tasks'[t].aged)
           /\ tasks' = ResumeTask(tasks, t) => OnlyRow(t)
              /\ (tasks'[t] = tasks[t] \/ ~tasks'[t].aged)
           /\ tasks' = CancelTask(tasks, t) => OnlyRow(t)
              /\ (tasks'[t] = tasks[t] \/ tasks'[t].status = "cancelled")
           /\ tasks' = MarkTaskWaitingApproval(tasks, t) => OnlyRow(t)
              /\ (tasks'[t].status = "waiting_approval")
           /\ tasks' = RequeueTask(tasks, t) => OnlyRow(t)
              /\ (~tasks'[t].aged)
           /\ tasks' = TouchRunningTask(tasks, t) => OnlyRow(t)
              /\ (tasks'[t] = tasks[t] \/ (~tasks'[t].aged /\ tasks'[t].status = tasks[t].status))
           /\ tasks' = ClaimTask(tasks, t) => OnlyRow(t)
              /\ (IF tasks[t].status = "queued" THEN ~tasks'[t].aged ELSE tasks'[t] = tasks[t])
<1>1. ASSUME tasks' = CreateTask(tasks, t) PROVE OnlyRow(t) /\ (~tasks'[t].aged)
  <2>1. OnlyRow(t)
    <3>1. \A u \in Tasks \ {t} : CreateTask(tasks, t)[u] = tasks[u]
      BY OtherRows
    <3> QED  BY <1>1, <3>1 DEF OnlyRow
  <2>2. ~CreateTask(tasks, t)[t].aged
    BY StatementRow
  <2> QED  BY <1>1, <2>1, <2>2
<1>2. ASSUME tasks' = CompleteTask(tasks, t) PROVE OnlyRow(t) /\ (tasks'[t].status = "completed")
  <2>1. OnlyRow(t)
    <3>1. \A u \in Tasks \ {t} : CompleteTask(tasks, t)[u] = tasks[u]
      BY OtherRows
    <3> QED  BY <1>2, <3>1 DEF OnlyRow
  <2>2. CompleteTask(tasks, t)[t].status = "completed"
    BY StatementRow
  <2> QED  BY <1>2, <2>1, <2>2
<1>3. ASSUME tasks' = FailTask(tasks, t) PROVE OnlyRow(t) /\ (tasks'[t].status = "failed")
  <2>1. OnlyRow(t)
    <3>1. \A u \in Tasks \ {t} : FailTask(tasks, t)[u] = tasks[u]
      BY OtherRows
    <3> QED  BY <1>3, <3>1 DEF OnlyRow
  <2>2. FailTask(tasks, t)[t].status = "failed"
    BY StatementRow
  <2> QED  BY <1>3, <2>1, <2>2
<1>4. ASSUME tasks' = PauseTask(tasks, t) PROVE OnlyRow(t) /\ (tasks'[t] = tasks[t] \/ ~tasks'[t].aged)
  <2>1. OnlyRow(t)
    <3>1. \A u \in Tasks \ {t} : PauseTask(tasks, t)[u] = tasks[u]
      BY OtherRows
    <3> QED  BY <1>4, <3>1 DEF OnlyRow
  <2>2. PauseTask(tasks, t)[t] = tasks[t] \/ ~PauseTask(tasks, t)[t].aged
    BY StatementRow
  <2> QED  BY <1>4, <2>1, <2>2
<1>5. ASSUME tasks' = ResumeTask(tasks, t) PROVE OnlyRow(t) /\ (tasks'[t] = tasks[t] \/ ~tasks'[t].aged)
  <2>1. OnlyRow(t)
    <3>1. \A u \in Tasks \ {t} : ResumeTask(tasks, t)[u] = tasks[u]
      BY OtherRows
    <3> QED  BY <1>5, <3>1 DEF OnlyRow
  <2>2. ResumeTask(tasks, t)[t] = tasks[t] \/ ~ResumeTask(tasks, t)[t].aged
    BY StatementRow
  <2> QED  BY <1>5, <2>1, <2>2
<1>6. ASSUME tasks' = CancelTask(tasks, t)
      PROVE  OnlyRow(t) /\ (tasks'[t] = tasks[t] \/ tasks'[t].status = "cancelled")
  <2>1. OnlyRow(t)
    <3>1. \A u \in Tasks \ {t} : CancelTask(tasks, t)[u] = tasks[u]
      BY OtherRows
    <3> QED  BY <1>6, <3>1 DEF OnlyRow
  <2>2. CancelTask(tasks, t)[t] = tasks[t] \/ CancelTask(tasks, t)[t].status = "cancelled"
    BY StatementRow
  <2> QED  BY <1>6, <2>1, <2>2
<1>7. ASSUME tasks' = MarkTaskWaitingApproval(tasks, t)
      PROVE  OnlyRow(t) /\ (tasks'[t].status = "waiting_approval")
  <2>1. OnlyRow(t)
    <3>1. \A u \in Tasks \ {t} : MarkTaskWaitingApproval(tasks, t)[u] = tasks[u]
      BY OtherRows
    <3> QED  BY <1>7, <3>1 DEF OnlyRow
  <2>2. MarkTaskWaitingApproval(tasks, t)[t].status = "waiting_approval"
    BY StatementRow
  <2> QED  BY <1>7, <2>1, <2>2
<1>8. ASSUME tasks' = RequeueTask(tasks, t) PROVE OnlyRow(t) /\ (~tasks'[t].aged)
  <2>1. OnlyRow(t)
    <3>1. \A u \in Tasks \ {t} : RequeueTask(tasks, t)[u] = tasks[u]
      BY OtherRows
    <3> QED  BY <1>8, <3>1 DEF OnlyRow
  <2>2. ~RequeueTask(tasks, t)[t].aged
    BY StatementRow
  <2> QED  BY <1>8, <2>1, <2>2
<1>9. ASSUME tasks' = TouchRunningTask(tasks, t)
      PROVE  OnlyRow(t) /\ (tasks'[t] = tasks[t] \/ (~tasks'[t].aged /\ tasks'[t].status = tasks[t].status))
  <2>1. OnlyRow(t)
    <3>1. \A u \in Tasks \ {t} : TouchRunningTask(tasks, t)[u] = tasks[u]
      BY OtherRows
    <3> QED  BY <1>9, <3>1 DEF OnlyRow
  <2>2. TouchRunningTask(tasks, t)[t] = tasks[t] \/ (~TouchRunningTask(tasks, t)[t].aged /\ TouchRunningTask(tasks, t)[t].status = tasks[t].status)
    BY StatementRow
  <2> QED  BY <1>9, <2>1, <2>2
<1>10. ASSUME tasks' = ClaimTask(tasks, t)
       PROVE  OnlyRow(t) /\ (IF tasks[t].status = "queued" THEN ~tasks'[t].aged ELSE tasks'[t] = tasks[t])
  <2>1. OnlyRow(t)
    <3>1. \A u \in Tasks \ {t} : ClaimTask(tasks, t)[u] = tasks[u]
      BY OtherRows
    <3> QED  BY <1>10, <3>1 DEF OnlyRow
  <2>2. IF tasks[t].status = "queued" THEN ~ClaimTask(tasks, t)[t].aged ELSE ClaimTask(tasks, t)[t] = tasks[t]
    BY StatementRow
  <2> QED  BY <1>10, <2>1, <2>2
<1> QED  BY <1>1, <1>2, <1>3, <1>4, <1>5, <1>6, <1>7, <1>8, <1>9, <1>10

(* The steps of a slot, of a sweep and of the orchestrator that are of     *)
(* this kind.                                                              *)
LEMMA HarmlessSteps ==
    ASSUME TypeOK, TypeOK', Calm,
           \/ \E w \in Slots : \/ FinishTask(w) \/ GiveUpTask(w) \/ NeedInput(w) \/ HandOver(w)
                               \/ ReportToParent(w) \/ Settle(w) \/ Heartbeat(w)
           \/ \E r \in Runners : \/ ScanWaiting(r) \/ ScanOrphans(r)
                                 \/ \E t \in Tasks : RequeueStale(r, t) \/ ExpireWaiting(r, t) \/ CloseOrphan(r, t)
           \/ \E t \in Tasks : Age(t) \/ SubmitTask(t) \/ CancelRequest(t) \/ AnswerQuestion(t)
           \/ UNCHANGED vars
    PROVE  Calm'
<1>tab. tasks \in [Tasks -> TaskRow] /\ loop \in [Runners -> [at : Sections, todo : SUBSET Tasks]]
  BY DEF TypeOK
<1>row. ASSUME NEW t \in Tasks, Harmless(t), OnlyRow(t),
               approval' = approval, effect' = effect, disturbed' = disturbed, SlotsGoOn, LoopsGoOn
        PROVE  Calm'
  <2>1. \A u \in Tasks : Harmless(u)
    BY <1>row DEF Harmless, OnlyRow
  <2> QED  BY <1>tab, <2>1, <1>row, RunnerAssumption, CalmShape
<1>still. tasks' = tasks => \A u \in Tasks : Harmless(u)
  BY DEF Harmless
<1>loop. loop' = loop => LoopsGoOn
  BY DEF LoopsGoOn
<1>slot. slot' = slot => SlotsGoOn
  BY DEF SlotsGoOn
<1>goto. ASSUME NEW w \in Slots, slot[w].pc \notin {"selecting", "asking"},
                \/ \E pc \in {"settled", "closing"} : Goto(w, pc)
                \/ Leave(w)
         PROVE  SlotsGoOn
  BY <1>goto DEF TypeOK, Goto, Leave, IdleSlot, SlotsGoOn
<1>calm. \A t \in Tasks : CalmTask(t)
  BY DEF Calm
<1>1. ASSUME NEW w \in Slots, FinishTask(w) \/ GiveUpTask(w)
      PROVE  Calm'
  <2>1. PICK t \in Tasks : t = slot[w].task
    BY <1>1, BusySlot DEF FinishTask, GiveUpTask, At
  <2>2. Harmless(t) /\ OnlyRow(t)
    BY <1>1, <1>tab, <2>1, StatementStep, Statuses DEF FinishTask, GiveUpTask, Harmless
  <2> QED  BY <1>1, <1>row, <1>loop, <1>goto, <2>2 DEF FinishTask, GiveUpTask, At
<1>2. ASSUME NEW w \in Slots, NeedInput(w)
      PROVE  Calm'
  <2>1. PICK t \in Tasks : t = slot[w].task
    BY <1>2, BusySlot DEF NeedInput, At
  <2>2. ~Shelved(t)
    <3>1. w \in Executors(t)
      BY <1>2, <2>1 DEF NeedInput, At, Executors
    <3> QED  BY <1>calm, <3>1 DEF CalmTask
  <2>3. Harmless(t) /\ OnlyRow(t)
    BY <1>2, <1>tab, <2>1, <2>2, StatementStep DEF NeedInput, Harmless
  <2> QED  BY <1>2, <1>row, <1>loop, <1>goto, <2>3 DEF NeedInput, At
<1>3. ASSUME NEW w \in Slots, HandOver(w)
      PROVE  Calm'
  <2>1. ASSUME NEW u \in Tasks PROVE Harmless(u)
    <3>1. CASE tasks'[u] = tasks[u] BY <3>1 DEF Harmless
    <3>2. CASE tasks'[u] # tasks[u]
      <4>1. tasks[u].status = "absent" /\ tasks'[u] = CreateTask(tasks, u)[u]
        BY <1>3, <3>2 DEF HandOver
      <4>2. ~Shelved(u)
        BY <1>calm, <4>1, Statuses DEF CalmTask
      <4> QED  BY <1>tab, <4>1, <4>2, StatementRow DEF Harmless
    <3> QED  BY <3>1, <3>2
  <2> QED  BY <1>3, <1>tab, <1>loop, <1>goto, <2>1, RunnerAssumption, CalmShape DEF HandOver, At
<1>4. ASSUME NEW w \in Slots, ReportToParent(w)
      PROVE  Calm'
  <2>1. PICK p \in Tasks : p = Parent[slot[w].task]
    <3>1. slot[w].task \in Tasks
      BY <1>4, BusySlot DEF ReportToParent, At
    <3> QED  BY <1>4, <3>1, ParentAssumption DEF ReportToParent
  <2>2. tasks' = CompleteTask(tasks, p) \/ tasks' = FailTask(tasks, p)
    BY <1>4, <2>1 DEF ReportToParent
  <2>3. Harmless(p) /\ OnlyRow(p)
    BY <1>tab, <2>2, StatementStep, Statuses DEF Harmless
  <2> QED  BY <1>4, <1>row, <1>loop, <1>goto, <2>3 DEF ReportToParent, At
<1>5. ASSUME NEW w \in Slots, Settle(w)
      PROVE  Calm'
  BY <1>5, <1>tab, <1>still, <1>loop, <1>goto, RunnerAssumption, CalmShape DEF Settle, At
<1>6. ASSUME NEW w \in Slots, Heartbeat(w)
      PROVE  Calm'
  <2>1. PICK t \in Tasks : t = slot[w].task
    BY <1>6, BusySlot DEF Heartbeat, At
  <2>2. Harmless(t) /\ OnlyRow(t)
    BY <1>6, <1>tab, <2>1, StatementStep DEF Heartbeat, Harmless
  <2> QED  BY <1>6, <1>row, <1>loop, <1>slot, <2>2 DEF Heartbeat
<1>scan. ASSUME NEW r \in Runners, NEW section \in {"approvalSweep", "orphanSweep"}, NEW found,
                Scan(r, section, found)
         PROVE  Calm'
  <2>1. LoopsGoOn
    BY <1>scan, <1>tab DEF Scan, Enter, LoopsGoOn
  <2> QED  BY <1>scan, <1>tab, <1>still, <1>slot, <2>1, RunnerAssumption, CalmShape DEF Scan
<1>7. ASSUME NEW r \in Runners, ScanWaiting(r) \/ ScanOrphans(r)
      PROVE  Calm'
  BY <1>7, <1>scan DEF ScanWaiting, ScanOrphans
<1>swept. ASSUME NEW r \in Runners, NEW t \in Tasks, Swept(r, t), loop[r].at \notin {"claim", "ask"}
          PROVE  LoopsGoOn
  BY <1>swept, <1>tab DEF Swept, Reopen, Enter, OpenLoop, LoopsGoOn
<1>8. ASSUME NEW r \in Runners, NEW t \in Tasks, RequeueStale(r, t)
      PROVE  Calm'
  <2>1. Executors(t) = {} /\ ~Shelved(t)
    BY <1>8 DEF RequeueStale, Calm, CalmSweep
  <2>2. tasks' = RequeueTask(tasks, t) /\ disturbed' = disturbed
    BY <1>8, <2>1 DEF RequeueStale, Requeue
  <2>3. Harmless(t) /\ OnlyRow(t)
    BY <1>tab, <2>1, <2>2, StatementStep DEF Harmless
  <2> QED  BY <1>8, <1>row, <1>slot, <1>swept, <2>2, <2>3 DEF RequeueStale
<1>9. ASSUME NEW r \in Runners, NEW t \in Tasks, ExpireWaiting(r, t) \/ CloseOrphan(r, t)
      PROVE  Calm'
  <2>1. tasks' = FailTask(tasks, t) \/ tasks' = tasks
    BY <1>9 DEF ExpireWaiting, CloseOrphan
  <2>2. Harmless(t) /\ OnlyRow(t)
    BY <1>tab, <2>1, StatementStep, Statuses DEF Harmless, OnlyRow
  <2> QED  BY <1>9, <1>row, <1>slot, <1>swept, <2>2 DEF ExpireWaiting, CloseOrphan
<1>10. ASSUME NEW t \in Tasks, Age(t)
       PROVE  Calm'
  <2>1. tasks' = [tasks EXCEPT ![t].aged = TRUE]
    BY <1>10 DEF Age, GrowOld
  <2>2. tasks'[t].status = tasks[t].status /\ OnlyRow(t)
    BY <1>tab, <2>1 DEF TaskRow, OnlyRow
  <2>3. CASE tasks[t].status = "running"
    <3>1. Executors(t) = {}
      BY <1>10, <2>3 DEF Age, Beating, Executors
    <3> QED  BY <1>10, <1>row, <1>loop, <1>slot, <2>2, <3>1 DEF Age, GrowOld, Harmless
  <2>4. CASE tasks[t].status # "running"
    <3>1. \A u \in Tasks : CalmTask(u)'
      <4>1. \A u \in Tasks : (Shelved(u)' <=> Shelved(u)) /\ Executors(u)' = Executors(u)
        BY <1>10 DEF Age, GrowOld, Shelved, Asked, Executors
      <4> QED  BY <1>10, <1>calm, <2>2, <2>4, <4>1 DEF Age, GrowOld, CalmTask, OnlyRow
    <3>2. \A r \in Runners : CalmSweep(r)'
      <4>1. \A u : (Shelved(u)' <=> Shelved(u)) /\ Executors(u)' = Executors(u)
        BY <1>10 DEF Age, GrowOld, Shelved, Asked, Executors
      <4> QED  BY <1>10, <4>1 DEF Age, GrowOld, Calm, CalmSweep
    <3> QED  BY <1>10, <3>1, <3>2 DEF Age, GrowOld, Calm, SectionsHeld
  <2> QED  BY <2>3, <2>4
<1>11. ASSUME NEW t \in Tasks, SubmitTask(t) \/ CancelRequest(t) \/ AnswerQuestion(t)
       PROVE  Calm'
  <2>1. SubmitTask(t) \/ AnswerQuestion(t) => ~Shelved(t)
    BY <1>calm, Statuses DEF SubmitTask, AnswerQuestion, CalmTask
  <2>2. Harmless(t) /\ OnlyRow(t)
    BY <1>11, <1>tab, <2>1, StatementStep, Statuses DEF SubmitTask, CancelRequest, AnswerQuestion, Harmless
  <2> QED  BY <1>11, <1>row, <1>loop, <1>slot, <2>2 DEF SubmitTask, CancelRequest, AnswerQuestion
<1>12. CASE UNCHANGED vars
  BY <1>12, <1>tab, <1>still, <1>loop, <1>slot, RunnerAssumption, CalmShape DEF vars
<1> QED  BY <1>1, <1>2, <1>3, <1>4, <1>5, <1>6, <1>7, <1>8, <1>9, <1>10, <1>11, <1>12

(* A slot finds a queued task.                                             *)
LEMMA CalmSelect ==
    ASSUME OneProcessOnly, TypeOK, Calm, NEW w \in Slots, NEW t \in Tasks, SelectQueued(w, t)
    PROVE  Calm'
<1> DEFINE r == RunnerOf[w]
<1>1. r \in Runners /\ (\A s \in Runners : s = r) /\ \A v \in Slots : RunnerOf[v] = r
  BY RunnerAssumption DEF OneProcessOnly
<1>2. /\ loop[r].at = "open" /\ loop'[r].at = "claim" /\ slot[w].pc = "idle" /\ slot'[w].pc = "selecting"
      /\ \A v \in Slots \ {w} : slot'[v] = slot[v]
      /\ UNCHANGED <<tasks, approval, effect, disturbed>>
  BY <1>1 DEF SelectQueued, At, Enter, TypeOK
<1>3. \A v \in Slots : slot[v].pc \notin {"selecting", "asking"}
  BY <1>1, <1>2 DEF Calm, SectionsHeld
<1>4. \A u \in Tasks : (Shelved(u)' <=> Shelved(u)) /\ Executors(u)' = Executors(u)
  BY <1>2 DEF Shelved, Asked, Executors
<1>5. SectionsHeld'
  BY <1>1, <1>2, <1>3 DEF SectionsHeld
<1>6. \A u \in Tasks : CalmTask(u)'
  BY <1>2, <1>4 DEF Calm, CalmTask
<1>7. \A s \in Runners : CalmSweep(s)'
  BY <1>1, <1>2 DEF CalmSweep
<1> QED  BY <1>2, <1>5, <1>6, <1>7 DEF Calm

(* It claims it, or another one was first.                                 *)
LEMMA CalmClaim ==
    ASSUME OneProcessOnly, TypeOK, Calm, NEW w \in Slots, ClaimSelected(w)
    PROVE  Calm'
<1> DEFINE r == RunnerOf[w]
<1>1. r \in Runners /\ (\A s \in Runners : s = r) /\ \A v \in Slots : RunnerOf[v] = r
  BY RunnerAssumption DEF OneProcessOnly
<1>2. PICK t \in Tasks : t = slot[w].task
  BY BusySlot DEF ClaimSelected
<1>3. /\ slot[w].pc = "selecting" /\ slot'[w].pc \in {"executing", "idle"}
      /\ tasks[t].status = "queued" => slot'[w].pc = "executing" /\ slot'[w].task = t
      /\ tasks[t].status # "queued" => slot'[w].pc = "idle"
      /\ \A v \in Slots \ {w} : slot'[v] = slot[v]
      /\ loop'[r].at = "open" /\ tasks' = ClaimTask(tasks, t)
      /\ UNCHANGED <<approval, effect, disturbed>>
  BY <1>1, <1>2 DEF ClaimSelected, Goto, Leave, IdleSlot, Reopen, OpenLoop, TypeOK
<1>4. \A v \in Slots \ {w} : slot[v].pc \notin {"selecting", "asking"}
  <2>1. loop[r].at = "claim"
    BY <1>3 DEF Calm, SectionsHeld
  <2> QED  BY <1>1, <1>3, <2>1 DEF Calm, SectionsHeld
<1>5. \A u \in Tasks : Shelved(u)' <=> Shelved(u)
  BY <1>3 DEF Shelved, Asked
<1>6. \A u \in Tasks : u # t \/ tasks[t].status # "queued" => Executors(u)' = Executors(u)
  BY <1>3 DEF Executors
<1>7. SectionsHeld'
  BY <1>3, <1>4 DEF SectionsHeld
<1>8. ASSUME NEW u \in Tasks PROVE CalmTask(u)'
  <2>tab. tasks \in [Tasks -> TaskRow] BY DEF TypeOK
  <2>0. CalmTask(u) BY DEF Calm
  <2>1. CASE u = t /\ tasks[t].status = "queued"
    <3>1. ~Shelved(u)'
      BY <1>5, <2>0, <2>1, Statuses DEF CalmTask
    <3>2. ~tasks'[u].aged
      BY <1>3, <2>1, <2>tab, StatementStep
    <3> QED  BY <1>3, <2>0, <3>1, <3>2 DEF CalmTask
  <2>2. CASE ~(u = t /\ tasks[t].status = "queued")
    <3>1. tasks'[u] = tasks[u]
      BY <1>3, <2>2, <2>tab, StatementStep DEF OnlyRow
    <3> QED  BY <1>3, <1>5, <1>6, <2>0, <2>2, <3>1 DEF CalmTask
  <2> QED  BY <2>1, <2>2
<1>9. \A s \in Runners : CalmSweep(s)'
  BY <1>1, <1>3 DEF CalmSweep
<1> QED  BY <1>3, <1>7, <1>8, <1>9 DEF Calm

(* It asks for an approval.                                                *)
LEMMA CalmAsk ==
    ASSUME OneProcessOnly, TypeOK, Calm, NEW w \in Slots, AskApproval(w)
    PROVE  Calm'
<1> DEFINE r == RunnerOf[w]
<1>1. r \in Runners /\ (\A s \in Runners : s = r) /\ \A v \in Slots : RunnerOf[v] = r
  BY RunnerAssumption DEF OneProcessOnly
<1>2. PICK t \in Tasks : t = slot[w].task
  BY BusySlot DEF AskApproval, At
<1>3. /\ slot[w].pc = "executing" /\ slot'[w].pc = "asking" /\ slot'[w].task = t
      /\ \A v \in Slots \ {w} : slot'[v] = slot[v]
      /\ loop[r].at = "open" /\ loop'[r].at = "ask"
      /\ approval'[t] = "pending" /\ \A u \in Tasks \ {t} : approval'[u] = approval[u]
      /\ UNCHANGED <<tasks, effect, disturbed>>
  BY <1>1, <1>2 DEF AskApproval, At, Goto, Enter, TypeOK
<1>4. \A v \in Slots : slot[v].pc \notin {"selecting", "asking"}
  BY <1>1, <1>3 DEF Calm, SectionsHeld
<1>5. \A u \in Tasks : Executors(u)' = Executors(u)
  BY <1>2, <1>3 DEF Executors
<1>6. w \in Executors(t)
  BY <1>2, <1>3 DEF Executors
<1>7. ~Shelved(t)
  BY <1>6 DEF Calm, CalmTask
<1>8. effect[t] = "none" /\ Asked(t)'
  BY <1>3, <1>7 DEF Shelved, Asked
<1>9. ~Shelved(t)'
  BY <1>3, <1>8 DEF Shelved
<1>10. \A u \in Tasks \ {t} : Shelved(u)' <=> Shelved(u)
  <2>1. \A u \in Tasks \ {t} : Asked(u)' <=> Asked(u)
    BY <1>2, <1>3 DEF Asked
  <2> QED  BY <1>3, <2>1 DEF Shelved
<1>11. SectionsHeld'
  BY <1>1, <1>3, <1>4 DEF SectionsHeld
<1>12. ASSUME NEW u \in Tasks PROVE CalmTask(u)'
  <2>0. CalmTask(u) BY DEF Calm
  <2> QED  BY <1>3, <1>5, <1>8, <1>9, <1>10, <2>0 DEF CalmTask
<1>13. \A s \in Runners : CalmSweep(s)'
  BY <1>1, <1>3 DEF CalmSweep
<1> QED  BY <1>3, <1>11, <1>12, <1>13 DEF Calm

(* The task waits: the slot that asked was its only one.                   *)
LEMMA CalmWait ==
    ASSUME OneProcessOnly, TypeOK, OneExecutor, Calm, NEW w \in Slots, WaitForApproval(w)
    PROVE  Calm'
<1> DEFINE r == RunnerOf[w]
<1>1. r \in Runners /\ (\A s \in Runners : s = r) /\ \A v \in Slots : RunnerOf[v] = r
  BY RunnerAssumption DEF OneProcessOnly
<1>2. PICK t \in Tasks : t = slot[w].task
  BY BusySlot DEF WaitForApproval
<1>3. /\ slot[w].pc = "asking" /\ slot'[w].pc = "settled"
      /\ \A v \in Slots \ {w} : slot'[v] = slot[v]
      /\ loop'[r].at = "open" /\ tasks' = MarkTaskWaitingApproval(tasks, t)
      /\ UNCHANGED <<approval, effect, disturbed>>
  BY <1>1, <1>2 DEF WaitForApproval, Goto, Reopen, OpenLoop, TypeOK
<1>4. \A v \in Slots \ {w} : slot[v].pc \notin {"selecting", "asking"}
  <2>1. loop[r].at = "ask"
    BY <1>3 DEF Calm, SectionsHeld
  <2> QED  BY <1>1, <1>3, <2>1 DEF Calm, SectionsHeld
<1>5. Executors(t) = {w} /\ Executors(t)' = {}
  <2>1. w \in Executors(t)
    BY <1>2, <1>3 DEF Executors
  <2>2. \A v \in Executors(t) : v = w
    BY <2>1 DEF OneExecutor, Calm
  <2> QED  BY <1>3, <2>1, <2>2 DEF Executors
<1>6. \A u \in Tasks \ {t} : Executors(u)' = Executors(u) /\ (Shelved(u)' <=> Shelved(u))
  <2>1. \A u \in Tasks \ {t} : Executors(u)' = Executors(u) /\ (Asked(u)' <=> Asked(u))
    BY <1>2, <1>3 DEF Executors, Asked
  <2> QED  BY <1>3, <2>1 DEF Shelved
<1>7. tasks'[t].status = "waiting_approval" /\ \A u \in Tasks \ {t} : tasks'[u] = tasks[u]
  BY <1>3, StatementStep DEF TypeOK, OnlyRow
<1>8. SectionsHeld'
  BY <1>3, <1>4 DEF SectionsHeld
<1>9. ASSUME NEW u \in Tasks PROVE CalmTask(u)'
  <2>0. CalmTask(u) BY DEF Calm
  <2>1. CASE u = t BY <1>3, <1>5, <1>7, <2>0, <2>1 DEF CalmTask
  <2>2. CASE u # t BY <1>3, <1>6, <1>7, <2>0, <2>2 DEF CalmTask
  <2> QED  BY <2>1, <2>2
<1>10. \A s \in Runners : CalmSweep(s)'
  BY <1>1, <1>3 DEF CalmSweep
<1> QED  BY <1>3, <1>8, <1>9, <1>10 DEF Calm

(* The stale sweep lists rows that no slot works on.                       *)
LEMMA CalmScan ==
    ASSUME OneProcessOnly, TypeOK, Calm, NEW r \in Runners, ScanStale(r)
    PROVE  Calm'
<1> DEFINE found == {t \in Tasks : tasks[t].status = "running" /\ tasks[t].aged}
<1>1. (\A s \in Runners : s = r) /\ \A v \in Slots : RunnerOf[v] = r
  BY RunnerAssumption DEF OneProcessOnly
<1>2. /\ loop[r].at = "open" /\ loop'[r].at = "staleSweep" /\ loop'[r].todo = found
      /\ UNCHANGED <<tasks, slot, approval, effect, disturbed>>
  BY DEF ScanStale, Scan, Enter, TypeOK
<1>3. \A u \in Tasks : Executors(u)' = Executors(u) /\ (Shelved(u)' <=> Shelved(u))
  BY <1>2 DEF Executors, Shelved, Asked
<1>4. SectionsHeld'
  BY <1>1, <1>2 DEF Calm, SectionsHeld
<1>5. \A u \in Tasks : CalmTask(u)'
  BY <1>2, <1>3 DEF Calm, CalmTask
<1>6. \A u \in found : Executors(u)' = {} /\ ~Shelved(u)'
  BY <1>3, Statuses DEF Calm, CalmTask
<1>7. \A s \in Runners : CalmSweep(s)'
  BY <1>1, <1>2, <1>6 DEF CalmSweep
<1> QED  BY <1>2, <1>4, <1>5, <1>7 DEF Calm

(* An approval is decided, after the task waits for it, and applied.       *)
LEMMA CalmDecide ==
    ASSUME TypeOK, Calm, NEW t \in Tasks, faults' = faults,
           ApplyDecision(t) \/ \E d \in {"approved", "rejected"} : DecideApproval(t, d)
    PROVE  Calm'
<1>1. slot' = slot /\ loop' = loop
  BY DEF ApplyDecision, DecideApproval
<1>2. \A u \in Tasks : Executors(u)' = Executors(u) /\ (Asked(u)' <=> Asked(u))
  BY <1>1 DEF Executors, Asked
<1>3. \A u \in Tasks : CalmTask(u)
  BY DEF Calm
<1>4. CASE \E d \in {"approved", "rejected"} : DecideApproval(t, d)
  <2>1. PICK d \in {"approved", "rejected"} : DecideApproval(t, d)
    BY <1>4
  <2>2. ~Asked(t)
    BY <2>1 DEF DecideApproval, Fault, Asked, TypeOK
  <2>3. /\ approval[t] = "pending" /\ approval'[t] = "decided" /\ effect'[t] = d
        /\ \A u \in Tasks \ {t} : approval'[u] = approval[u] /\ effect'[u] = effect[u]
        /\ UNCHANGED <<tasks, disturbed>>
    BY <2>1 DEF DecideApproval, TypeOK
  <2>4. \A u \in Tasks : Shelved(u)' <=> Shelved(u)
    BY <1>2, <2>2, <2>3 DEF Shelved
  <2>5. \A u \in Tasks : CalmTask(u)'
    BY <1>2, <1>3, <2>3, <2>4 DEF CalmTask
  <2>6. \A r \in Runners : CalmSweep(r)'
    BY <1>1, <1>2, <2>4 DEF Calm, CalmSweep, TypeOK
  <2> QED  BY <1>1, <2>3, <2>5, <2>6 DEF Calm, SectionsHeld
<1>5. CASE ApplyDecision(t)
  <2>1. effect[t] # "none" /\ approval[t] = "decided" /\ Executors(t) = {} /\ Shelved(t)
    BY <1>3, <1>5 DEF ApplyDecision, CalmTask, Shelved
  <2>2. /\ approval' = approval /\ disturbed' = disturbed /\ effect'[t] = "none"
        /\ \A u \in Tasks \ {t} : effect'[u] = effect[u] /\ tasks'[u] = tasks[u]
        /\ tasks'[t].status # "running" \/ ~tasks'[t].aged
    BY <1>5, <2>1, StatementStep DEF ApplyDecision, Requeue, TypeOK, OnlyRow
  <2>3. ~Shelved(t)' /\ \A u \in Tasks \ {t} : Shelved(u)' <=> Shelved(u)
    BY <1>2, <2>1, <2>2 DEF Shelved
  <2>4. ASSUME NEW u \in Tasks PROVE CalmTask(u)'
    <3>1. CASE u = t BY <1>2, <2>1, <2>2, <2>3, <3>1 DEF CalmTask
    <3>2. CASE u # t BY <1>2, <1>3, <2>2, <2>3, <3>2 DEF CalmTask
    <3> QED  BY <3>1, <3>2
  <2>5. \A r \in Runners : CalmSweep(r)'
    BY <1>1, <1>2, <2>3 DEF Calm, CalmSweep, TypeOK
  <2> QED  BY <1>1, <2>2, <2>4, <2>5 DEF Calm, SectionsHeld
<1> QED  BY <1>4, <1>5

(* Every step keeps the calm, or is a fault and uses one up.               *)
LEMMA StepCalm == OneProcessOnly /\ ExecInv /\ CalmInv /\ [Next]_vars => CalmInv'
<1> SUFFICES ASSUME OneProcessOnly, ExecInv, CalmInv, [Next]_vars PROVE CalmInv'
  OBVIOUS
<1>1. TypeOK /\ TypeOK' /\ OneExecutor /\ faults \in Nat /\ faults <= MaxFaults
  BY StepTypeOK DEF ExecInv, CalmInv, TypeOK
<1>2. ASSUME NEW h, Fault(h) PROVE CalmInv'
  BY <1>1, <1>2, HazardAssumption DEF Fault, CalmInv
<1>3. ASSUME faults' = faults, Calm => Calm' PROVE CalmInv'
  BY <1>1, <1>3 DEF CalmInv
<1>4. CASE \/ \E w \in Slots : \/ FinishTask(w) \/ GiveUpTask(w) \/ NeedInput(w) \/ HandOver(w)
                               \/ ReportToParent(w) \/ Settle(w) \/ Heartbeat(w)
           \/ \E r \in Runners : \/ ScanWaiting(r) \/ ScanOrphans(r)
                                 \/ \E t \in Tasks : RequeueStale(r, t) \/ ExpireWaiting(r, t) \/ CloseOrphan(r, t)
           \/ \E t \in Tasks : Age(t) \/ SubmitTask(t) \/ CancelRequest(t) \/ AnswerQuestion(t)
           \/ UNCHANGED vars
  <2>1. faults' = faults
    BY <1>4 DEF FinishTask, GiveUpTask, NeedInput, HandOver, ReportToParent, Settle, Heartbeat,
         ScanWaiting, ScanOrphans, Scan, RequeueStale, ExpireWaiting, CloseOrphan, Age, SubmitTask,
         CancelRequest, AnswerQuestion, vars
  <2> QED  BY <1>1, <1>3, <1>4, <2>1, HarmlessSteps
<1>5. ASSUME NEW w \in Slots, \E t \in Tasks : SelectQueued(w, t) PROVE CalmInv'
  BY <1>1, <1>3, <1>5, CalmSelect DEF SelectQueued
<1>6. ASSUME NEW w \in Slots, ClaimSelected(w) \/ AskApproval(w) \/ WaitForApproval(w) PROVE CalmInv'
  <2>1. faults' = faults
    BY <1>6 DEF ClaimSelected, AskApproval, WaitForApproval
  <2> QED  BY <1>1, <1>3, <1>6, <2>1, CalmClaim, CalmAsk, CalmWait
<1>7. ASSUME NEW r \in Runners, ScanStale(r) PROVE CalmInv'
  BY <1>1, <1>3, <1>7, CalmScan DEF ScanStale, Scan
<1>8. ASSUME NEW t \in Tasks, ApplyDecision(t) \/ \E d \in {"approved", "rejected"} : DecideApproval(t, d)
      PROVE  CalmInv'
  <2>1. Fault("eager") \/ faults' = faults
    BY <1>8 DEF ApplyDecision, DecideApproval
  <2> QED  BY <1>1, <1>2, <1>3, <1>8, <2>1, CalmDecide
<1>9. CASE \/ \E w \in Slots : DeferOnLock(w) \/ FailOnError(w)
           \/ \E t \in Tasks : MissHeartbeats(t) \/ EscalateApproval(t)
           \/ \E r \in Runners : CrashRunner(r)
           \/ CrashOrchestrator
  BY <1>2, <1>9 DEF DeferOnLock, FailOnError, Throws, MissHeartbeats, EscalateApproval, CrashRunner,
     CrashOrchestrator
<1> QED  BY <1>4, <1>5, <1>6, <1>7, <1>8, <1>9 DEF Next, SlotStep, SweepStep

(* The calm holds initially.                                               *)
LEMMA InitCalm == Init => CalmInv
<1> SUFFICES ASSUME Init PROVE CalmInv
  OBVIOUS
<1>1. \A w \in Slots : slot[w].pc = "idle"
  BY DEF Init, IdleSlot
<1>2. \A t \in Tasks : Executors(t) = {} /\ ~Shelved(t) /\ effect[t] = "none"
  BY <1>1 DEF Init, Executors, Shelved
<1>3. \A r \in Runners : loop[r].at = "open"
  BY DEF Init, OpenLoop
<1>4. SectionsHeld
  BY <1>1 DEF SectionsHeld
<1>5. \A t \in Tasks : CalmTask(t)
  BY <1>2 DEF CalmTask
<1>6. \A r \in Runners : CalmSweep(r)
  BY <1>3 DEF CalmSweep
<1> QED  BY <1>4, <1>5, <1>6, HazardAssumption DEF Init, CalmInv, Calm

(* With one task-runner process, and until a fault happens, nobody puts a  *)
(* task back in the queue under a slot that works on it (NeverDisturbed):  *)
(* neither the stale sweep, whose list may be older than the slot, nor a   *)
(* decision that is applied late, however many slots the process has.      *)
THEOREM NeverDisturbedAlways ==
    ASSUME OneProcessOnly PROVE Spec => []NeverDisturbed
<1>1. CalmInv => NeverDisturbed
  BY DEF CalmInv, Calm, NeverDisturbed
<1> QED  BY <1>1, InitExecInv, StepExecInv, InitCalm, StepCalm, PTL DEF Spec

=============================================================================
