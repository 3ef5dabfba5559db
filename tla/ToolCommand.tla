----------------------------- MODULE ToolCommand -----------------------------
(***************************************************************************)
(* The tools of a coding task as processes (task runner: worker.ts         *)
(* runToolCommand, executeApprovedToolRun, processCodeExecutionTask;       *)
(* shared: tool-exec.ts).  A tool is a child process whose output is       *)
(* watched.  Three clocks run: since its start, since its last output and  *)
(* since its last output that says something.  The first to run out asks   *)
(* it to end, and a little later it is killed; it is over when its output  *)
(* pipes have been closed.  ToolApproval has the approval of these runs    *)
(* and what becomes of their rows; here an execution of one task is taken  *)
(* apart.                                                                  *)
(***************************************************************************)
EXTENDS Naturals, Sequences, FiniteSets

CONSTANTS
    Providers,       \* the providers that are available, in the policy's order
    Limit,       \* of each clock, in ticks
    Grace,       \* from the first signal to the second, in ticks
    Setbacks     \* which of "held", "crash", "spawn" may happen, once each

Clocks == {"age", "quiet", "idle"}

CommandAssumption ==
    /\ Providers \in Seq({"opencode", "codex", "claude"})
    /\ Limit \in [Clocks -> Nat \ {0}] /\ Grace \in Nat \ {0}
    /\ Setbacks \subseteq {"held", "crash", "spawn"}

VARIABLES
    gate,      \* what the policy asks of this task: its risk, and manual_owner
    approved,  \* a run of this task that has been approved and not yet started
    turn,      \* which provider, and which of its attempts
    toolAt,        \* where the execution is: "start", "next", "watch", "judge", "over"
    process,   \* the child: what it does, its verdict, is its pipe held by another
    clock,     \* how far each clock is, and the one to the second signal
    cut,       \* timedOut, noOutputTimedOut, noProgressTimedOut
    result,    \* what became of the task
    orphans,   \* tools that the runner has left behind by dying
    setbacks

commandVars == <<gate, approved, turn, toolAt, process, clock, cut, result, orphans, setbacks>>

NoProcess == [is |-> "none", ends |-> "none", held |-> FALSE]
Ends == {"none", "well", "badly", "outside"}
Stopped == [c \in Clocks \cup {"grace"} |-> 0]

CommandTypeOK ==
    /\ gate \in [risk : {"low", "high"}, manual : BOOLEAN] /\ approved \in BOOLEAN
    /\ turn \in [provider : 0..Len(Providers) + 1, attempt : 1..2]
    /\ toolAt \in {"start", "next", "watch", "judge", "over"}
    /\ process \in [is : {"none", "working", "told", "killed", "exited"}, ends : Ends, held : BOOLEAN]
    /\ clock \in [Clocks \cup {"grace"} -> Nat] /\ cut \subseteq Clocks
    /\ result \in {"none", "completed", "failed", "waiting_approval"}
    /\ orphans \in 0..1 /\ setbacks \subseteq Setbacks

(* Provider 0 is that of the run which was approved.                       *)
CommandInit ==
    /\ gate \in [risk : {"low", "high"}, manual : BOOLEAN] /\ approved \in BOOLEAN
    /\ turn = [provider |-> 0, attempt |-> 1] /\ toolAt = "start"
    /\ process = NoProcess /\ clock = Stopped /\ cut = {} /\ result = "none"
    /\ orphans = 0 /\ setbacks = {}

-----------------------------------------------------------------------------
Conclude(how) == toolAt' = "over" /\ result' = how

Setback(what) == what \in Setbacks \ setbacks /\ setbacks' = setbacks \cup {what}

(* The command of the provider, run in the workspace.                      *)
Spawned == [NoProcess EXCEPT !.is = "working"]

(* getQueuedExecutableToolRunForTask: an approved run comes first.         *)
BeginExecution ==
    /\ toolAt = "start"
    /\ toolAt' = IF approved THEN "watch" ELSE "next"
    /\ turn' = [provider |-> IF approved THEN 0 ELSE 1, attempt |-> 1]
    /\ process' = IF approved THEN Spawned ELSE NoProcess
    /\ approved' = FALSE
    /\ UNCHANGED <<gate, clock, cut, result, orphans, setbacks>>

(* ensureToolRunApproval                                                   *)
NeedsOwner == gate.manual \/ gate.risk = "high"

(* The loop over providers and attempts: the run is made, and either waits *)
(* for its approval, which ends this execution, or is started.             *)
Attempt ==
    /\ toolAt = "next"
    /\ IF turn.provider > Len(Providers) THEN Conclude("failed") /\ process' = process
       ELSE IF NeedsOwner THEN Conclude("waiting_approval") /\ process' = process
       ELSE toolAt' = "watch" /\ result' = result /\ process' = Spawned
    /\ UNCHANGED <<gate, approved, turn, clock, cut, orphans, setbacks>>

-----------------------------------------------------------------------------
Running == toolAt = "watch" /\ process.is \in {"working", "told"}

(* hasMeaningfulToolProgress: only of opencode is it known that an output  *)
(* may say nothing, a heartbeat or a question for a permission.            *)
MaySayNothing == turn.provider \in {0} \cup {i \in DOMAIN Providers : Providers[i] = "opencode"}

Writes(meaningful) ==
    /\ Running /\ (meaningful \/ MaySayNothing)
    /\ clock' = IF meaningful THEN [clock EXCEPT !["quiet"] = 0, !["idle"] = 0]
                ELSE [clock EXCEPT !["quiet"] = 0]
    /\ UNCHANGED <<gate, approved, turn, toolAt, process, cut, result, orphans, setbacks>>

DueClocks == {c \in Clocks : clock[c] >= Limit[c]} \ cut

(* One tick passes; timers that are due fire first.                        *)
Tick ==
    /\ toolAt = "watch" /\ DueClocks = {}
    /\ ~(process.is = "told" /\ clock["grace"] >= Grace)
    /\ clock' = [c \in DOMAIN clock |->
           IF c = "grace" THEN IF process.is = "told" THEN clock[c] + 1 ELSE clock[c]
           ELSE IF clock[c] < Limit[c] THEN clock[c] + 1 ELSE clock[c]]
    /\ UNCHANGED <<gate, approved, turn, toolAt, process, cut, result, orphans, setbacks>>

(* Mutant: the run is over when it has been told to end. *)
TimeOutAndSettle(c) ==
    /\ toolAt = "watch" /\ c \in DueClocks /\ cut' = cut \cup {c}
    /\ toolAt' = "judge"
    /\ UNCHANGED <<gate, approved, turn, process, clock, result, orphans, setbacks>>

(* A timer of runToolCommand: SIGTERM; a process that has gone ignores it. *)
TimeOut(c) ==
    /\ toolAt = "watch" /\ c \in DueClocks /\ cut' = cut \cup {c}
    /\ process' = IF process.is = "working" THEN [process EXCEPT !.is = "told"] ELSE process
    /\ UNCHANGED <<gate, approved, turn, toolAt, clock, result, orphans, setbacks>>

(* Mutant: only what is silent is killed. *)
KillTheSilent ==
    /\ toolAt = "watch" /\ process.is = "told" /\ clock["grace"] >= Grace /\ "quiet" \in cut
    /\ process' = [process EXCEPT !.is = "killed"]
    /\ UNCHANGED <<gate, approved, turn, toolAt, clock, cut, result, orphans, setbacks>>

(* The timer that the first one has set: SIGKILL.                          *)
Kill ==
    /\ toolAt = "watch" /\ process.is = "told" /\ clock["grace"] >= Grace
    /\ process' = [process EXCEPT !.is = "killed"]
    /\ UNCHANGED <<gate, approved, turn, toolAt, clock, cut, result, orphans, setbacks>>

(* The tool ends: of its own accord, well or badly or having asked for     *)
(* what lies outside its workspace, or because it was told to (some tools  *)
(* still report success then), or because it was killed.                   *)
Exit(how) ==
    /\ toolAt = "watch" /\ process.is \in {"working", "told", "killed"}
    /\ process.is = "killed" => how = "badly"
    /\ process' = [process EXCEPT !.is = "exited", !.ends = how]
    /\ UNCHANGED <<gate, approved, turn, toolAt, clock, cut, result, orphans, setbacks>>

(* A process that the tool has started keeps its pipes open.               *)
HoldPipes ==
    /\ Setback("held") /\ Running /\ process' = [process EXCEPT !.held = TRUE]
    /\ UNCHANGED <<gate, approved, turn, toolAt, clock, cut, result, orphans>>

(* "close", and settle, which stops the clocks.                            *)
ClosePipes ==
    /\ toolAt = "watch" /\ process.is = "exited" /\ ~process.held
    /\ toolAt' = "judge" /\ clock' = Stopped
    /\ UNCHANGED <<gate, approved, turn, process, cut, result, orphans, setbacks>>

(* The tool cannot be started: "error", the promise is rejected and the    *)
(* task fails by the handler of processTask.                               *)
SpawnFails ==
    /\ Setback("spawn") /\ toolAt = "watch" /\ process.is = "working" /\ clock = Stopped
    /\ Conclude("failed") /\ process' = NoProcess
    /\ UNCHANGED <<gate, approved, turn, clock, cut, orphans>>

-----------------------------------------------------------------------------
(* Mutant: only the whole time counts. *)
WorkedInTime == process.ends = "well" /\ "age" \notin cut

(* executeApprovedToolRun                                                  *)
Worked == process.ends = "well" /\ cut = {}

(* isWorkspaceBoundaryErrorText, of opencode's first attempt.              *)
TriesAgain ==
    /\ turn.provider \in {i \in DOMAIN Providers : Providers[i] = "opencode"}
    /\ turn.attempt = 1 /\ process.ends = "outside"

(* After a run: the task is done, or it has been the approved run of a     *)
(* high risk, or there is another attempt to make.                         *)
Judge ==
    /\ toolAt = "judge"
    /\ IF Worked THEN Conclude("completed") /\ turn' = turn
       ELSE IF turn.provider = 0 /\ gate.risk = "high" THEN Conclude("failed") /\ turn' = turn
       ELSE /\ toolAt' = "next" /\ result' = result
            /\ turn' = IF TriesAgain THEN [turn EXCEPT !.attempt = 2]
                       ELSE [provider |-> turn.provider + 1, attempt |-> 1]
    /\ process' = (IF toolAt' = "over" THEN process ELSE NoProcess) /\ clock' = Stopped
    /\ cut' = IF toolAt' = "over" THEN cut ELSE {}
    /\ UNCHANGED <<gate, approved, orphans, setbacks>>

(* The runner dies; its tool does not.  The task is executed again in      *)
(* time.                                                                   *)
CrashExecution ==
    /\ Setback("crash") /\ toolAt = "watch"
    /\ orphans' = IF process.is = "exited" THEN 0 ELSE 1
    /\ toolAt' = "start" /\ process' = NoProcess /\ clock' = Stopped /\ cut' = {}
    /\ turn' = [provider |-> 0, attempt |-> 1]
    /\ UNCHANGED <<gate, approved, result>>

OrphanEnds ==
    /\ orphans > 0 /\ orphans' = 0
    /\ UNCHANGED <<gate, approved, turn, toolAt, process, clock, cut, result, setbacks>>

-----------------------------------------------------------------------------
Timers == Tick \/ (\E c \in Clocks : TimeOut(c)) \/ Kill
Slot == BeginExecution \/ Attempt \/ ClosePipes \/ Judge
System == process.is = "killed" /\ Exit("badly")

CommandNext ==
    \/ Timers \/ Slot \/ OrphanEnds
    \/ \E meaningful \in BOOLEAN : Writes(meaningful)
    \/ \E how \in {"well", "badly", "outside"} : Exit(how)
    \/ HoldPipes \/ SpawnFails \/ CrashExecution

CommandSpec == CommandInit /\ [][CommandNext]_commandVars

CommandFairSpec ==
    /\ CommandSpec
    /\ WF_commandVars(Timers)
    /\ WF_commandVars(Slot)
    /\ WF_commandVars(System)

-----------------------------------------------------------------------------
(* A task is completed by a tool that ended well before any of its clocks  *)
(* ran out, and by no other.                                               *)
SuccessIsEarned == result = "completed" => process.ends = "well" /\ cut = {}

(* When the next attempt is made, the tool of the one before is gone: two  *)
(* tools of a task are never at work in its workspace together, unless the *)
(* runner itself has died over the first.                                  *)
OneToolAtATime ==
    [][process.is \in {"working", "told", "killed"} /\ toolAt' \in {"next", "over"} /\ setbacks' = setbacks
         => FALSE]_commandVars

(* Success is what the process earned, and one tool works at a time.       *)
CommandsAreSound == []SuccessIsEarned /\ OneToolAtATime

(* The clocks have the last word: however long a tool talks, the execution *)
(* of its task ends, as long as nobody keeps the pipes of the tool open.   *)
Settled == toolAt = "over" \/ process.held
ExecutionEnds == []<>Settled
=============================================================================
