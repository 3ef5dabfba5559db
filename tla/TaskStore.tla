------------------------------ MODULE TaskStore ------------------------------
(***************************************************************************)
(* The `tasks` table of the SQLite store that every VinkoClaw process      *)
(* shares (packages/shared/src/store.ts).  A row keeps what the task's     *)
(* lifecycle depends on; texts, roles and results are left out.            *)
(*                                                                         *)
(* Each operator below is ONE autocommitted UPDATE or INSERT: it maps the  *)
(* whole table to the table after the statement.  A statement whose WHERE  *)
(* clause names a status leaves the other rows alone (`changes` is 0);     *)
(* a statement whose WHERE clause is only the id writes whatever it finds. *)
(***************************************************************************)

CONSTANT Tasks              \* task ids

(* TaskStatus, types.ts; "absent": no row yet. *)
TaskStatus == {"queued", "running", "waiting_approval", "paused_input",
               "completed", "failed", "cancelled"}
TerminalStatus == {"completed", "failed", "cancelled"}
CancellableStatus == {"queued", "running", "waiting_approval", "paused_input"}

(* pending: pending_input_json is not null.  completed: completed_at is    *)
(* not null.  aged: updated_at is older than the threshold of the sweep    *)
(* that looks at this status (5 minutes for running, 36 hours for          *)
(* waiting_approval); every write sets updated_at to now and clears it.    *)
TaskRow == [status : TaskStatus \cup {"absent"}, pending : BOOLEAN,
            completed : BOOLEAN, aged : BOOLEAN]

NoRow == [status |-> "absent", pending |-> FALSE, completed |-> FALSE, aged |-> FALSE]

IsTerminal(row) == row.status \in TerminalStatus

-----------------------------------------------------------------------------

CreateTask(tab, t) ==
    [tab EXCEPT ![t] = [status |-> "queued", pending |-> FALSE,
                        completed |-> FALSE, aged |-> FALSE]]

(* The UPDATE of claimNextQueuedTask: guarded by status = 'queued'.        *)
ClaimTask(tab, t) ==
    IF tab[t].status = "queued"
    THEN [tab EXCEPT ![t] = [@ EXCEPT !.status = "running", !.aged = FALSE]]
    ELSE tab

CompleteTask(tab, t) ==
    [tab EXCEPT ![t] = [@ EXCEPT !.status = "completed", !.completed = TRUE, !.aged = FALSE]]

FailTask(tab, t) ==
    [tab EXCEPT ![t] = [@ EXCEPT !.status = "failed", !.completed = TRUE, !.aged = FALSE]]

(* pauseTask writes only a running row that holds no earlier question.     *)
PauseTask(tab, t) ==
    IF tab[t].status = "running" /\ ~tab[t].pending
    THEN [tab EXCEPT ![t] = [@ EXCEPT !.status = "paused_input", !.pending = TRUE,
                                   !.aged = FALSE]]
    ELSE tab

(* Mutant: the answered question stays in the row. *)
ResumeKeepsQuestion(tab, t) ==
    IF tab[t].status = "paused_input"
    THEN [tab EXCEPT ![t] = [@ EXCEPT !.status = "running", !.aged = FALSE]]
    ELSE tab

ResumeTask(tab, t) ==
    IF tab[t].status = "paused_input"
    THEN [tab EXCEPT ![t] = [@ EXCEPT !.status = "running", !.pending = FALSE,
                                   !.aged = FALSE]]
    ELSE tab

CancelTask(tab, t) ==
    IF tab[t].status \in CancellableStatus
    THEN [tab EXCEPT ![t] = [@ EXCEPT !.status = "cancelled", !.pending = FALSE,
                                   !.completed = TRUE, !.aged = FALSE]]
    ELSE tab

MarkTaskWaitingApproval(tab, t) ==
    [tab EXCEPT ![t] = [@ EXCEPT !.status = "waiting_approval", !.aged = FALSE]]

(* Mutant: completed_at is not reset. *)
RequeueKeepsStamp(tab, t) == [tab EXCEPT ![t] = [@ EXCEPT !.status = "queued", !.aged = FALSE]]

RequeueTask(tab, t) ==
    [tab EXCEPT ![t] = [@ EXCEPT !.status = "queued", !.completed = FALSE, !.aged = FALSE]]

(* The heartbeat of a runner slot: guarded by status = 'running'.          *)
TouchRunningTask(tab, t) ==
    IF tab[t].status = "running" THEN [tab EXCEPT ![t] = [@ EXCEPT !.aged = FALSE]] ELSE tab

=============================================================================
