----------------------------- MODULE MCGoalRun -----------------------------
(* Small instances of GoalRun for TLC. *)
EXTENDS GoalRun, TLC

CONSTANTS g1, r1, t1, t2, t3, k1, k2

(* Everything that may be asked for, and an objective that asks nothing.   *)
EveryWish == {[inputs |-> Keys, deploys |-> TRUE], [inputs |-> {}, deploys |-> FALSE]}

OneWish == {[inputs |-> Keys, deploys |-> TRUE]}

NothingGiven == {{}}

(* Nothing, an input, or an authorization that nobody was asked for.       *)
SomethingGiven == {{}, {"target"}, {"authorized"}}

(* Tasks and tokens are interchangeable. *)
Symmetry == Permutations(TaskIds) \cup Permutations(Tokens)

=============================================================================
