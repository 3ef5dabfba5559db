--------------------------- MODULE MCToolApproval ---------------------------
(* Small instances of ToolApproval for TLC. *)
EXTENDS ToolApproval, TLC

CONSTANTS w1, w2, q1, q2, run1, run2, run3, a1, a2

(* Slots, requests and rows are interchangeable. *)
Symmetry ==
    Permutations(Slots) \cup Permutations(Requests) \cup Permutations(Runs) \cup Permutations(Approvals)

=============================================================================
