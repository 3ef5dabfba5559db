------------------------------ MODULE MCRunner ------------------------------
(***************************************************************************)
(* Small instances for TLC of what the task runner must get done: the task *)
(* queue, one goal run through all its stages (both extended, so that the  *)
(* run checks the very definitions the proofs are about), and two goal     *)
(* runs that wait for one runner (Two).  They share no state; a behaviour  *)
(* is about one of them, its part.                                         *)
(* As only one part is active, each strong fairness condition is that of   *)
(* one action of every part.                                               *)
(***************************************************************************)
EXTENDS TaskQueue, GoalRun, TLC

CONSTANT Parts   \* the components of this run

VARIABLE part    \* the component that this behaviour is about

VARIABLES
    twoRun, twoOrder, twoWish, twoTask, twoToken, twoCredentials, twoRunner, twoFaults

queueVars == vars
oneVars == goalVars
twoVars == <<twoRun, twoOrder, twoWish, twoTask, twoToken, twoCredentials, twoRunner, twoFaults>>

(* The constants of TaskQueue: a parent, its child, and one slot whose     *)
(* process may crash twice.                                                *)
Family == [parent |-> "none", child |-> "parent"]
Teamwork == [parent |-> {"normal", "collaboration"}, child |-> {"tool"}]
SlotOfOne == [w1 |-> "r1"]

(* Those of GoalRun: one goal run with three execution tasks that asks for *)
(* nothing, or for something before its plan or before it is deployed, and *)
(* may be created with an authorization.                                   *)
AnyWish == {[inputs |-> {}, deploys |-> FALSE]}
           \cup [inputs : {{"brief"}, {"target", "secret"}}, deploys : {TRUE}]

AnyContext == {{}, {"authorized"}}

\* Two goal runs in synthesis mode for one runner that may die in a pass.
Two == INSTANCE GoalRun WITH
    run <- twoRun, order <- twoOrder, wish <- twoWish, task <- twoTask, token <- twoToken,
    credentials <- twoCredentials, runner <- twoRunner, runFaults <- twoFaults, Goals <- {"g1", "g2"}, Processes <- {"r1"},
    TaskIds <- {"t1", "t2"}, Tokens <- {"k1"}, DiscoverKeys <- {"brief"}, WebsiteKeys <- {"brief"},
    TargetKeys <- {}, CredentialKeys <- {}, Contexts <- {{}}, MaxRetries <- 0, WithTasks <- {FALSE},
    Wishes <- [inputs : SUBSET {"brief"}, deploys : {FALSE}], NoExecution <- "none", NoGoal <- "none",
    RunHazards <- {"crash"}, MaxRunFaults <- 1

mcVars == <<part, queueVars, oneVars, twoVars>>

MCInit ==
    /\ part \in Parts
    /\ Init
    /\ GoalInit /\ (part # "single" => wish["g"] = [inputs |-> {}, deploys |-> FALSE])
    /\ Two!GoalInit /\ (part # "goals" => \A g \in {"g1", "g2"} : twoWish[g].inputs = {})

OnlyQueue == part = "queue" /\ UNCHANGED <<part, oneVars, twoVars>>
OnlyOne == part = "single" /\ UNCHANGED <<part, queueVars, twoVars>>
OnlyTwo == part = "goals" /\ UNCHANGED <<part, queueVars, oneVars>>

MCNext ==
    \/ OnlyQueue /\ Next
    \/ OnlyOne /\ GoalNext
    \/ OnlyTwo /\ Two!GoalNext

MCSpec == MCInit /\ [][MCNext]_mcVars

MCFairSpec ==
    /\ MCSpec
    /\ WF_queueVars(part = "queue" /\ SlotStep("w1"))
    /\ WF_queueVars(part = "queue" /\ SweepStep("r1"))
    /\ \A t \in {"parent", "child"} : WF_queueVars(part = "queue" /\ Age(t))
    /\ \A t \in {"parent", "child"} : WF_queueVars(part = "queue" /\ ApplyDecision(t))
    /\ WF_oneVars(part = "single" /\ Fetch("r1"))
    /\ WF_oneVars(part = "single" /\ Pass("r1"))
    /\ \A t \in {"t1", "t2", "t3"} : WF_oneVars(part = "single" /\ StartTask(t))
    /\ \A t \in {"t1", "t2", "t3"} : WF_oneVars(part = "single" /\ AnswerTask(t))
    /\ WF_twoVars(part = "goals" /\ Two!Fetch("r1"))
    /\ WF_twoVars(part = "goals" /\ Two!Pass("r1"))
    /\ \A t \in {"t1", "t2"} : WF_twoVars(part = "goals" /\ Two!StartTask(t))
    /\ \A t \in {"t1", "t2"} : WF_twoVars(part = "goals" /\ Two!AnswerTask(t))
    /\ SF_mcVars(
          \/ OnlyQueue /\ SelectQueued("w1", "parent")
          \/ OnlyOne /\ ExpireAwaiting("r1", "g")
          \/ OnlyTwo /\ Two!ExpireAwaiting("r1", "g1"))
    /\ SF_mcVars(
          \/ OnlyQueue /\ SelectQueued("w1", "child")
          \/ OnlyOne /\ SettleTask("t1")
          \/ OnlyTwo /\ Two!ExpireAwaiting("r1", "g2"))
    /\ SF_mcVars(
          \/ OnlyQueue /\ ScanStale("r1")
          \/ OnlyOne /\ SettleTask("t2")
          \/ OnlyTwo /\ Two!SettleTask("t1"))
    /\ SF_mcVars(
          \/ OnlyQueue /\ ScanWaiting("r1")
          \/ OnlyOne /\ SettleTask("t3")
          \/ OnlyTwo /\ Two!SettleTask("t2"))

-----------------------------------------------------------------------------
(* Running tasks without a slot are found, queued tasks are answered, and  *)
(* no task waits for an approval for ever.                                 *)
QueueMovesOn ==
    /\ NoTaskStaysStranded
    /\ EveryTaskIsAnswered
    /\ NoEndlessWait

(* Every goal run comes to an end, and neither of two starves the other.   *)
GoalRunsEnd ==
    /\ EveryRunEnds
    /\ Two!EveryRunEnds

=============================================================================
