----------------------------- MODULE MCTaskQueue -----------------------------
(* Small instances of TaskQueue for TLC. *)
EXTENDS TaskQueue, TLC

CONSTANTS t1, t2, w1, w2, r1, r2

(* A slot in each of two processes, or two slots in one process.           *)
TwoProcesses == (w1 :> r1) @@ (w2 :> r2)
OneProcess == (w1 :> r1) @@ (w2 :> r1)

(* A task of its own, or a task and its child. *)
Single == t1 :> NoTask
Family == (t1 :> NoTask) @@ (t2 :> t1)

(* What the tasks are taken for: anything, or a parent that is answered or *)
(* split, and a child that runs a tool.                                    *)
AnyHandler == [t \in Tasks |-> {"normal", "tool", "collaboration"}]
Teamwork == (t1 :> {"normal", "collaboration"}) @@ (t2 :> {"tool"})

=============================================================================
