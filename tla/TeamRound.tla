----------------------------- MODULE TeamRound ------------------------------
(***************************************************************************)
(* What a collaboration promises, abstractly: a team is formed, works, and *)
(* its results are merged.  A merge ends in a delivery, in a failure or in *)
(* a question to the user, whose answer opens the next merge; nothing      *)
(* comes after a delivery or a failure.                                    *)
(***************************************************************************)

VARIABLE stage

Stages == {"forming", "working", "merging", "asking", "answered", "delivered", "failed"}

Init == stage = "forming"

Form == stage = "forming" /\ stage' = "working"

Merge == stage \in {"working", "answered"} /\ stage' = "merging"

Deliver == stage = "merging" /\ stage' = "delivered"

Ask == stage = "merging" /\ stage' = "asking"

Answer == stage = "asking" /\ stage' = "answered"

Fail == stage = "merging" /\ stage' = "failed"

Next == Form \/ Merge \/ Deliver \/ Ask \/ Answer \/ Fail

Spec == Init /\ [][Next]_stage
=============================================================================
