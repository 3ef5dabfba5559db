----------------------------- MODULE Evolution -----------------------------
(***************************************************************************)
(* packages/shared/src/evolution.ts: signals become proposals, proposals   *)
(* of low risk are applied to the settings, and the latest change can be   *)
(* rolled back.  The ledger (signals, proposals, changes) and the settings *)
(* are documents of the store, read and written whole by the orchestrator  *)
(* and the task runner.                                                    *)
(***************************************************************************)
EXTENDS Naturals, Sequences, FiniteSets, SequencesExt

CONSTANTS
    Emitter,      \* Emitter[k]: the process that meets the signals of kind k
    Server,       \* the process of the pages: the orchestrator
    Known,        \* Known[k]: the signals of kind k that are recorded already
    MaxSignals,   \* bound: signals of all kinds
    MaxUndos,     \* bound: rollbacks
    MaxLooks      \* bound: reads of the evolution page

Kinds == {"fallback", "unsure", "clarify"}
Procs == {Emitter[k] : k \in Kinds} \cup {Server}
VARIABLES
    ledger,     \* the evolution state
    settings,   \* the runtime settings, learned or not
    mine,       \* what each process has read and is about to write
    emitted,    \* signals so far
    undos, looks,
    disturbed   \* two processes held a copy of the ledger, or a crash split two writes

evolutionVars == <<ledger, settings, mine, emitted, undos, looks, disturbed>>

Fields == {"router", "preference", "intake"}

(* The proposals, each with the kinds of signals that speak for it.  The   *)
(* slug of its summary is cut before the counts, so that each is known     *)
(* once it was made.                                                       *)
Proposals ==
    {[field |-> "router", from |-> {"fallback"}],
     [field |-> "preference", from |-> {"unsure"}],
     [field |-> "intake", from |-> {"clarify"}],
     [field |-> "intake", from |-> {"fallback", "unsure"}]}

Changes == [proposal : Proposals, before : BOOLEAN]
Ledgers == [signals : [Kinds -> Nat], proposals : Seq(Proposals), applied : SUBSET Proposals,
            changes : Seq(Changes)]
EvolutionSteps == {"idle", "record", "look", "patch", "write", "undo", "unsaved"}

EvolutionTypeOK ==
    /\ ledger \in Ledgers
    /\ settings \in [Fields -> BOOLEAN]
    /\ mine \in [Procs -> [at : EvolutionSteps, ledger : Ledgers, todo : SUBSET Proposals,
                           settings : [Fields -> BOOLEAN]]]
    /\ emitted \in [Kinds -> Nat]
    /\ undos \in 0..MaxUndos /\ looks \in 0..MaxLooks /\ disturbed \in BOOLEAN

Defaults == [f \in Fields |-> FALSE]
NoLedger == [signals |-> [k \in Kinds |-> 0], proposals |-> <<>>, applied |-> {}, changes |-> <<>>]
Idle == [at |-> "idle", ledger |-> NoLedger, todo |-> {}, settings |-> Defaults]

(* A process that holds a copy of the ledger, and one that takes a copy.   *)
HasCopy(p) == mine[p].at \notin {"idle", "look"}
TakesCopy(p) == disturbed' = (disturbed \/ \E q \in Procs \ {p} : HasCopy(q))

Put(p, r) == mine' = [mine EXCEPT ![p] = r]

(* generateEvolutionProposals, without the proposals that are known.       *)
Offer(due, x, known) == IF due /\ x \notin known THEN <<x>> ELSE <<>>

Proposed(signals, known) ==
    Offer(signals["fallback"] >= 3, [field |-> "router", from |-> {"fallback"}], known) \o
    Offer(signals["unsure"] >= 2, [field |-> "preference", from |-> {"unsure"}], known) \o
    Offer(signals["clarify"] >= 2, [field |-> "intake", from |-> {"clarify"}], known) \o
    Offer(signals["fallback"] >= 2 /\ signals["unsure"] >= 2,
          [field |-> "intake", from |-> {"fallback", "unsure"}], known)

(* The signals that are known are not enough for a proposal.               *)
EvolutionAssumption ==
    /\ MaxSignals \in Nat /\ MaxUndos \in Nat /\ MaxLooks \in Nat
    /\ Known \in [Kinds -> Nat] /\ Proposed(Known, {}) = <<>>

EvolutionInit ==
    /\ ledger = [NoLedger EXCEPT !.signals = Known] /\ settings = Defaults
    /\ mine = [p \in Procs |-> Idle]
    /\ emitted = Known
    /\ undos = 0 /\ looks = 0 /\ disturbed = FALSE

WithSignal(l, k) ==
    LET signals == [l.signals EXCEPT ![k] = @ + 1]
    IN  [l EXCEPT !.signals = signals,
                  !.proposals = @ \o Proposed(signals, ToSet(@))]

(* recordEvolutionSignals: the ledger is read, and written back.           *)
Signal(p, k) ==
    /\ p = Emitter[k] /\ mine[p].at = "idle" /\ TakesCopy(p)
    /\ emitted["fallback"] + emitted["unsure"] + emitted["clarify"] < MaxSignals
    /\ emitted' = [emitted EXCEPT ![k] = @ + 1]
    /\ Put(p, [Idle EXCEPT !.at = "record", !.ledger = WithSignal(ledger, k)])
    /\ UNCHANGED <<ledger, settings, undos, looks>>

(* Mutant: a signal that is met again counts again. *)
LookAgain(p) ==
    /\ p = Server /\ mine[p].at = "idle" /\ TakesCopy(p) /\ looks < MaxLooks /\ emitted["fallback"] > 0
    /\ looks' = looks + 1
    /\ Put(p, [Idle EXCEPT !.at = "record", !.ledger = WithSignal(ledger, "fallback")])
    /\ UNCHANGED <<ledger, settings, emitted, undos>>

(* syncEvolutionFromHarnessGrades: signals that are known change nothing,  *)
(* the proposals are applied all the same.                                 *)
Look(p) ==
    /\ p = Server /\ mine[p].at = "idle" /\ looks < MaxLooks
    /\ looks' = looks + 1
    /\ Put(p, [Idle EXCEPT !.at = "look"])
    /\ UNCHANGED <<ledger, settings, emitted, undos, disturbed>>

SaveSignal(p) ==
    /\ mine[p].at = "record"
    /\ ledger' = mine[p].ledger
    /\ Put(p, [Idle EXCEPT !.at = "look"])
    /\ UNCHANGED <<settings, emitted, undos, looks, disturbed>>

(* applyLowRiskEvolutionProposals                                          *)
StartApply(p) ==
    /\ mine[p].at = "look" /\ TakesCopy(p)
    /\ Put(p, [Idle EXCEPT !.at = "patch", !.ledger = ledger,
                            !.todo = ToSet(ledger.proposals) \ ledger.applied])
    /\ UNCHANGED <<ledger, settings, emitted, undos, looks>>

ReadSettings(p) ==
    /\ mine[p].at = "patch" /\ mine[p].todo # {}
    /\ Put(p, [mine[p] EXCEPT !.at = "write", !.settings = settings])
    /\ UNCHANGED <<ledger, settings, emitted, undos, looks, disturbed>>

(* The user's preferences are a document of their own: the rest of the     *)
(* configuration is written back as it was read.                           *)
Patched(read, f, v) ==
    [g \in Fields |-> IF g = f THEN v
                       ELSE IF "preference" \in {f, g} THEN settings[g] ELSE read[g]]

(* The open proposals are applied in the order of the ledger.              *)
First(l, todo) ==
    l.proposals[CHOOSE i \in DOMAIN l.proposals :
                  /\ l.proposals[i] \in todo
                  /\ \A j \in DOMAIN l.proposals : l.proposals[j] \in todo => i <= j]

WriteSettings(p) ==
    /\ mine[p].at = "write"
    /\ LET x == First(mine[p].ledger, mine[p].todo) IN
       /\ settings' = Patched(mine[p].settings, x.field, TRUE)
       /\ Put(p, [mine[p] EXCEPT !.at = "patch", !.settings = Defaults, !.todo = @ \ {x},
                    !.ledger.applied = @ \cup {x},
                    !.ledger.changes = Append(@, [proposal |-> x, before |-> mine[p].settings[x.field]])])
    /\ UNCHANGED <<ledger, emitted, undos, looks, disturbed>>

SaveApply(p) ==
    /\ mine[p].at = "patch" /\ mine[p].todo = {}
    /\ ledger' = mine[p].ledger
    /\ Put(p, Idle)
    /\ UNCHANGED <<settings, emitted, undos, looks, disturbed>>

(* rollbackLatestEvolutionChange: the proposal is open again.              *)
StartUndo(p) ==
    /\ p = Server /\ mine[p].at = "idle" /\ TakesCopy(p) /\ undos < MaxUndos /\ ledger.changes # <<>>
    /\ undos' = undos + 1
    /\ Put(p, [Idle EXCEPT !.at = "undo", !.ledger = ledger, !.settings = settings])
    /\ UNCHANGED <<ledger, settings, emitted, looks>>

WithoutLatest(l) ==
    [l EXCEPT !.changes = Front(@), !.applied = @ \ {Last(l.changes).proposal}]

Undo(p) ==
    /\ mine[p].at = "undo"
    /\ LET c == Last(mine[p].ledger.changes) IN
       settings' = Patched(mine[p].settings, c.proposal.field, c.before)
    /\ Put(p, [mine[p] EXCEPT !.at = "unsaved", !.ledger = WithoutLatest(@)])
    /\ UNCHANGED <<ledger, emitted, undos, looks, disturbed>>

SaveUndo(p) ==
    /\ mine[p].at = "unsaved"
    /\ ledger' = mine[p].ledger
    /\ Put(p, Idle)
    /\ UNCHANGED <<settings, emitted, undos, looks, disturbed>>

(* The settings are changed already, and the ledger does not say so.       *)
Unsaved(p) ==
    \/ mine[p].at = "unsaved"
    \/ mine[p].at \in {"patch", "write"} /\ mine[p].ledger # ledger

(* A crash.  Bound: only where nothing else went wrong before.             *)
Interrupt(p) ==
    /\ ~disturbed /\ mine[p].at # "idle" /\ Put(p, Idle)
    /\ disturbed' = Unsaved(p)
    /\ UNCHANGED <<ledger, settings, emitted, undos, looks>>

EvolutionNext ==
    \E p \in Procs :
       \/ \E k \in Kinds : Signal(p, k)
       \/ Look(p) \/ SaveSignal(p) \/ StartApply(p) \/ ReadSettings(p) \/ WriteSettings(p)
       \/ SaveApply(p) \/ StartUndo(p) \/ Undo(p) \/ SaveUndo(p) \/ Interrupt(p)

EvolutionSpec == EvolutionInit /\ [][EvolutionNext]_evolutionVars

-----------------------------------------------------------------------------
(* Whatever overlaps or crashes, nothing is learned without its evidence.  *)
EvidenceBacksSettings ==
    /\ settings["router"] => emitted["fallback"] >= 3
    /\ settings["preference"] => emitted["unsure"] >= 2
    /\ settings["intake"] =>
          emitted["clarify"] >= 2 \/ (emitted["fallback"] >= 2 /\ emitted["unsure"] >= 2)

(* Whatever overlaps or crashes, a proposal is applied when a change of    *)
(* the ledger says so, and no proposal has two changes.                    *)
AppliedOnce ==
    /\ ledger.applied = {ledger.changes[i].proposal : i \in DOMAIN ledger.changes}
    /\ Cardinality(ledger.applied) = Len(ledger.changes)

(* As long as no two processes held a copy of the ledger at a time, and no *)
(* crash came between the settings and the ledger, the ledger accounts for *)
(* the settings: rolling back every change, the latest first, gives the    *)
(* defaults again.                                                         *)
UndoRestores ==
    ~disturbed /\ (\A p \in Procs : ~HasCopy(p)) => \A f \in Fields :
        LET of == {i \in DOMAIN ledger.changes : ledger.changes[i].proposal.field = f}
        IN  IF of = {} THEN settings[f] = FALSE
            ELSE ~ledger.changes[CHOOSE i \in of : \A j \in of : i <= j].before

(* What was learned has its evidence, a proposal is applied once, and      *)
(* rollbacks restore the defaults.                                         *)
LearningIsAccountable == EvidenceBacksSettings /\ AppliedOnce /\ UndoRestores
=============================================================================
