------------------------------ MODULE TaskLease ------------------------------
(***************************************************************************)
(* What the task queue promises about execution, and nothing else: a task  *)
(* is leased to the slot that executes it, and only a free task is leased. *)
(* A lease may be revoked behind its holder's back (the row is put back in *)
(* the queue while the slot is still at work); from then on, and only      *)
(* then, the task can be leased a second time.                             *)
(***************************************************************************)
EXTENDS FiniteSets

CONSTANTS Tasks, Slots

VARIABLES holders,      \* holders[t]: the slots that execute t
          revoked       \* tasks whose lease was revoked while it was held

leaseVars == <<holders, revoked>>

TypeOK ==
    /\ holders \in [Tasks -> SUBSET Slots]
    /\ revoked \in SUBSET Tasks

Init ==
    /\ holders = [t \in Tasks |-> {}]
    /\ revoked = {}

Acquire(w, t) ==
    /\ holders[t] = {} \/ t \in revoked
    /\ holders' = [holders EXCEPT ![t] = @ \cup {w}]
    /\ UNCHANGED revoked

(* A slot lets go; a crash makes all slots of a process let go at once.    *)
Release(W) ==
    /\ holders' = [t \in Tasks |-> holders[t] \ W]
    /\ UNCHANGED revoked

Revoke(t) ==
    /\ holders[t] # {}
    /\ revoked' = revoked \cup {t}
    /\ UNCHANGED holders

(* A slot gives its own lease back while another slot holds the task too.  *)
ReleaseAndRevoke(w, t) ==
    /\ holders[t] \ {w} # {}
    /\ holders' = [holders EXCEPT ![t] = @ \ {w}]
    /\ revoked' = revoked \cup {t}

Next ==
    \/ \E w \in Slots, t \in Tasks : Acquire(w, t) \/ ReleaseAndRevoke(w, t)
    \/ \E W \in SUBSET Slots : Release(W)
    \/ \E t \in Tasks : Revoke(t)

Spec == Init /\ [][Next]_leaseVars

=============================================================================
