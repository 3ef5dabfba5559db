------------------------------- MODULE Skills -------------------------------
(***************************************************************************)
(* A skill of a role (packages/shared: store.ts skill bindings and         *)
(* operator actions, skills-marketplace.ts; orchestrator: routes/skills-   *)
(* marketplace, server.ts; worker.ts): installed, disabled, and verified   *)
(* by a task that the runner executes with the skills of its role.  A      *)
(* skill the program does not know is asked for by an integration task.    *)
(* The verification reads the binding and writes all of it back, from the  *)
(* runner's process, while the orchestrator installs and disables.         *)
(***************************************************************************)
EXTENDS Naturals

CONSTANTS
    MaxInstalls,   \* bound: installations
    MaxSkillUpsets      \* bound: disablings, cancellations, crashes and restarts

SkillsAssumption == MaxInstalls \in Nat \ {0} /\ MaxSkillUpsets \in Nat

VARIABLES
    binding,       \* the row: status, verificationStatus, lastVerifiedTaskId
    verifying,     \* verifying[n]: the verification task of installation n
    installs,      \* installations so far
    catalog,       \* catalog[p]: process p was started with the skill's definition
    integration,   \* requestedSkillInstallState of the integration task
    crossed,       \* two writers of the row have overlapped
    skillUpsets

skillVars == <<binding, verifying, installs, catalog, integration, crossed, skillUpsets>>

Installations == 1..MaxInstalls
Processes == {"orchestrator", "runner"}
SkillVerdicts == {"unverified", "verified", "failed"}

NoCopy == "nothing"
NoVerification == [at |-> "none", verdict |-> "unverified", active |-> FALSE, copy |-> NoCopy]
QueuedTask == [NoVerification EXCEPT !.at = "queued"]

SkillsTypeOK ==
    /\ binding \in [status : {"absent", "enabled", "disabled"}, verdict : SkillVerdicts, by : 0..MaxInstalls]
    /\ verifying \in [Installations -> [at : {"none", "queued", "running", "ended", "writing", "done", "cancelled", "lost"},
                              verdict : SkillVerdicts, active : BOOLEAN, copy : {NoCopy, "enabled", "disabled"}]]
    /\ installs \in 0..MaxInstalls /\ catalog \in [Processes -> BOOLEAN]
    /\ integration \in {"none", "queued", "local_installable", "discover_only", "silent"}
    /\ crossed \in BOOLEAN /\ skillUpsets \in 0..MaxSkillUpsets

SkillsInit ==
    /\ binding = [status |-> "absent", verdict |-> "unverified", by |-> 0]
    /\ verifying = [n \in Installations |-> NoVerification] /\ installs = 0
    /\ catalog \in [Processes -> BOOLEAN] /\ integration = "none"
    /\ crossed = FALSE /\ skillUpsets = 0

-----------------------------------------------------------------------------
Halfway(n) == verifying[n].at = "writing"
Unfinished(n) == Halfway(n) \/ verifying[n].at \in {"queued", "running", "ended"}

SkillUpset == skillUpsets < MaxSkillUpsets /\ skillUpsets' = skillUpsets + 1

(* Mutant: what was found out about the skill before is kept.              *)
InstalledAsBefore == [binding EXCEPT !.status = "enabled"]

(* setSkillBinding of an installation.                                     *)
Installed == [status |-> "enabled", verdict |-> "unverified", by |-> 0]

Install(task) ==
    /\ catalog["orchestrator"] /\ installs < MaxInstalls
    /\ installs' = installs + 1 /\ binding' = Installed
    /\ verifying' = [verifying EXCEPT ![installs + 1] = task]
    /\ crossed' = (crossed \/ \E n \in Installations : Unfinished(n))
    /\ UNCHANGED <<catalog, integration, skillUpsets>>

(* POST /api/skills/market/install: the row, then a verification task.     *)
InstallByRoute == Install(QueuedTask)

(* An operator action: applied at once it gets a verification task too,    *)
(* applied after an approval it does not.                                  *)
InstallByAction == Install(QueuedTask) \/ Install(NoVerification)

(* disable_skill                                                           *)
DisableSkill ==
    /\ SkillUpset /\ installs > 0
    /\ binding' = [status |-> "disabled", verdict |-> "unverified", by |-> 0]
    /\ crossed' = (crossed \/ \E n \in Installations : Halfway(n))
    /\ UNCHANGED <<verifying, installs, catalog, integration>>

-----------------------------------------------------------------------------
Move(n, t) ==
    /\ verifying' = [verifying EXCEPT ![n] = t]
    /\ UNCHANGED <<binding, installs, catalog, integration, crossed>>

(* The task runs with the skills resolveSkillsForRole gives.               *)
StartVerification(n) ==
    /\ verifying[n].at = "queued" /\ UNCHANGED skillUpsets
    /\ Move(n, [verifying[n] EXCEPT !.at = "running", !.active = binding.status = "enabled"])

(* completeTask or failTask.                                               *)
EndVerification(n) ==
    /\ verifying[n].at = "running" /\ UNCHANGED skillUpsets
    /\ \E v \in {"verified", "failed"} : Move(n, [verifying[n] EXCEPT !.at = "ended", !.verdict = v])

(* Mutant: only tasks that completed are synchronised. *)
ReadCompleted(n) ==
    /\ verifying[n].at = "ended" /\ UNCHANGED skillUpsets
    /\ Move(n, IF verifying[n].verdict = "failed" THEN [verifying[n] EXCEPT !.at = "done"]
               ELSE [verifying[n] EXCEPT !.at = "writing", !.copy = binding.status])

(* syncInstalledSkillVerification reads the row ...                        *)
Read(n) ==
    /\ verifying[n].at = "ended" /\ UNCHANGED skillUpsets
    /\ Move(n, [verifying[n] EXCEPT !.at = "writing", !.copy = binding.status])

(* Mutant: a skill that was verified is switched on. *)
WrittenEnabled(n) == [status |-> "enabled", verdict |-> verifying[n].verdict, by |-> n]

Written(n) == [status |-> verifying[n].copy, verdict |-> verifying[n].verdict, by |-> n]

(* ... and writes all of it.                                               *)
Write(n) ==
    /\ verifying[n].at = "writing" /\ binding' = Written(n)
    /\ verifying' = [verifying EXCEPT ![n].at = "done", ![n].copy = NoCopy]
    /\ UNCHANGED <<installs, catalog, integration, crossed, skillUpsets>>

(* A cancelled task reaches no synchronisation.                            *)
CancelVerification(n) ==
    /\ SkillUpset /\ verifying[n].at \in {"queued", "running"}
    /\ Move(n, [verifying[n] EXCEPT !.at = "cancelled"])

(* A runner that stops while it executes is requeued by the sweep; one     *)
(* that stops after it ended the task synchronises no more.                *)
CrashVerifier(n) ==
    /\ SkillUpset
    /\ \/ verifying[n].at = "running" /\ Move(n, QueuedTask)
       \/ verifying[n].at \in {"ended", "writing"}
          /\ Move(n, [verifying[n] EXCEPT !.at = "lost", !.copy = NoCopy])

-----------------------------------------------------------------------------
(* createSkillRuntimeIntegrationTask                                       *)
RequestIntegration ==
    /\ integration = "none" /\ integration' = "queued"
    /\ UNCHANGED <<binding, verifying, installs, catalog, crossed, skillUpsets>>

(* POST /api/skills/market/request-integration asks whatever the catalog   *)
(* says.                                                                   *)
RequestByRoute == RequestIntegration

(* The chat installs a skill the catalog has and asks for one it lacks.    *)
InstallByChat == IF catalog["orchestrator"] THEN Install(QueuedTask) ELSE RequestIntegration

(* syncSkillIntegrationOutcome: what the runner's catalog knows by then;   *)
(* nothing is said of a task that did not complete.                        *)
EndIntegration ==
    /\ integration = "queued"
    /\ \/ integration' = IF catalog["runner"] THEN "local_installable" ELSE "discover_only"
       \/ integration' = "silent"
    /\ UNCHANGED <<binding, verifying, installs, catalog, crossed, skillUpsets>>

(* A process is started anew with code that has the definition.            *)
LoadCatalog(p) ==
    /\ SkillUpset /\ ~catalog[p] /\ catalog' = [catalog EXCEPT ![p] = TRUE]
    /\ UNCHANGED <<binding, verifying, installs, integration, crossed>>

-----------------------------------------------------------------------------
Run(n) == StartVerification(n) \/ EndVerification(n) \/ Read(n) \/ Write(n)

SkillsNext ==
    \/ InstallByRoute \/ InstallByAction \/ InstallByChat \/ DisableSkill
    \/ \E n \in Installations : Run(n) \/ CancelVerification(n) \/ CrashVerifier(n)
    \/ RequestByRoute \/ EndIntegration
    \/ \E p \in Processes : LoadCatalog(p)

SkillsSpec == SkillsInit /\ [][SkillsNext]_skillVars

SkillsFairSpec ==
    /\ SkillsSpec
    /\ \A n \in Installations : WF_skillVars(Run(n))
    /\ WF_skillVars(EndIntegration)

-----------------------------------------------------------------------------
(* Unless two writers of the row overlapped, what the row says of the      *)
(* skill was found out by the verification of the latest installation, and *)
(* a reinstalled skill starts unverified.                                  *)
VerdictIsCurrent ==
    ~crossed /\ binding.verdict # "unverified" =>
        /\ binding.by = installs
        /\ verifying[installs].at = "done" /\ verifying[installs].verdict = binding.verdict

(* A disabled skill comes back only when it is installed again.            *)
DisabledStays ==
    [][binding.status = "disabled" /\ binding'.status = "enabled" /\ ~crossed
         => installs' > installs]_skillVars

(* A verification is over only when its own verdict has been entered.      *)
VerdictIsEntered ==
    [][\A n \in Installations : verifying[n].at # "done" /\ verifying'[n].at = "done"
                             => binding'.by = n]_skillVars

(* The row of a skill tells the truth of it: a verdict is that of the      *)
(* latest installation, a disabled skill stays off, and what a             *)
(* verification has found is what is entered.                              *)
VerdictsAreTrue ==
    /\ []VerdictIsCurrent
    /\ DisabledStays
    /\ VerdictIsEntered

(* A verification that is begun comes to its end.                          *)
VerdictArrives == \A n \in Installations : []<>~Unfinished(n)
=============================================================================
