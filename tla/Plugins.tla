------------------------------- MODULE Plugins -------------------------------
(***************************************************************************)
(* The plugins of the orchestrator (shared: plugins/registry.ts, loader.ts *)
(* and the table plugin_states; orchestrator: routes/plugins.ts and        *)
(* initializePlugins).  A process loads the bundled plugins one after the  *)
(* other before it listens; then the owner enables, disables and           *)
(* configures them, first in the registry and then in the table, while     *)
(* decisions on approvals call the hook of each enabled plugin and wait    *)
(* for it.  What a plugin does in register and in its hooks is its own     *)
(* affair: a bundled or a third-party plugin may be asynchronous, fail, or *)
(* take its time.                                                          *)
(***************************************************************************)
EXTENDS Naturals, Sequences, FiniteSets

CONSTANTS
    LoadOrder,         \* the plugins, in the order in which their directories are read
    Async,         \* those whose register returns a promise
    PluginConfigs,       \* the configurations an owner may give
    DefaultConfig,
    MaxOrders,   \* bound: requests that change a plugin
    MaxDecisions,  \* bound: decisions on approvals
    MischiefKinds,        \* of "fail", "unread", "busy", "crash"
    MaxMischief      \* bound

Plugins == {LoadOrder[i] : i \in 1..Len(LoadOrder)}

PluginsAssumption ==
    /\ LoadOrder \in Seq(Plugins) /\ Len(LoadOrder) > 0 /\ Cardinality(Plugins) = Len(LoadOrder) /\ Async \subseteq Plugins
    /\ DefaultConfig \in PluginConfigs /\ MischiefKinds \subseteq {"fail", "unread", "busy", "crash"}
    /\ MaxOrders \in Nat /\ MaxDecisions \in Nat /\ MaxMischief \in Nat

VARIABLES
    storedStates,    \* plugin_states
    instance,  \* the registry: status, skills registered, configuration
    ownStates,     \* the registry's own states, read from the table and set since
    loading,   \* 0 before a start, then one more than the plugins that have been read
    late,      \* plugins whose register goes on after it was given up
    emission,  \* one decision: the plugin it is at, whether its hook runs, who was told
    promised,  \* what the owner was told last of each plugin
    doubtful,  \* plugins that failed to register, or of which a request failed half way
    orders, decided, mischief

pluginVars == <<storedStates, instance, ownStates, loading, late, emission, promised, doubtful,
                orders, decided, mischief>>

Unknown == [choice |-> "none", config |-> DefaultConfig]
Absent == [status |-> "absent", skills |-> 0, config |-> DefaultConfig]
NoEmission == [at |-> 0, running |-> FALSE, told |-> {}, constant |-> {}]
PluginStates == [choice : {"none", "on", "off"}, config : PluginConfigs]

PluginsTypeOK ==
    /\ storedStates \in [Plugins -> PluginStates] /\ ownStates \in [Plugins -> PluginStates]
    /\ promised \in [Plugins -> PluginStates]
    /\ instance \in [Plugins -> [status : {"absent", "enabled", "disabled", "error"}, skills : 0..1,
                                 config : PluginConfigs]]
    /\ loading \in 0..Len(LoadOrder) + 1 /\ late \subseteq Async /\ doubtful \subseteq Plugins
    /\ emission \in [at : 0..Len(LoadOrder) + 1, running : BOOLEAN, told : SUBSET Plugins,
                     constant : SUBSET Plugins]
    /\ orders \in 0..MaxOrders /\ decided \in 0..MaxDecisions /\ mischief \in 0..MaxMischief

PluginsInit ==
    /\ storedStates = [p \in Plugins |-> Unknown] /\ promised = storedStates /\ ownStates = storedStates
    /\ instance = [p \in Plugins |-> Absent] /\ loading = 0 /\ late = {}
    /\ emission = NoEmission /\ doubtful = {} /\ orders = 0 /\ decided = 0 /\ mischief = 0

-----------------------------------------------------------------------------
Mischief(kind) == kind \in MischiefKinds /\ mischief < MaxMischief /\ mischief' = mischief + 1

(* initializePlugins: the states first, then the directories.              *)
StartProcess ==
    /\ loading = 0 /\ loading' = 1 /\ ownStates' = storedStates
    /\ UNCHANGED <<storedStates, instance, late, emission, promised, doubtful, orders, decided, mischief>>

Starting(p) == loading \in 1..Len(LoadOrder) /\ p = LoadOrder[loading] /\ loading' = loading + 1

Wanted(p) == ownStates[p].choice # "off"

Registered(status, skills, p) == [status |-> status, skills |-> skills, config |-> ownStates[p].config]

(* registerPlugin.  A plugin that fails stays in the registry, and so does *)
(* one whose register is asynchronous, which goes on all the same.         *)
Load(p) ==
    /\ Starting(p)
    /\ \/ ~Wanted(p) /\ instance' = [instance EXCEPT ![p] = Registered("disabled", 0, p)]
          /\ UNCHANGED <<late, doubtful, mischief>>
       \/ Wanted(p) /\ p \notin Async /\ instance' = [instance EXCEPT ![p] = Registered("enabled", 1, p)]
          /\ UNCHANGED <<late, doubtful, mischief>>
       \/ Wanted(p) /\ p \notin Async /\ Mischief("fail")
          /\ instance' = [instance EXCEPT ![p] = Registered("error", 0, p)]
          /\ doubtful' = doubtful \cup {p} /\ UNCHANGED late
       \/ Wanted(p) /\ p \in Async /\ instance' = [instance EXCEPT ![p] = Registered("error", 0, p)]
          /\ late' = late \cup {p} /\ doubtful' = doubtful \cup {p} /\ UNCHANGED mischief
    /\ UNCHANGED <<storedStates, ownStates, emission, promised, orders, decided>>

(* Its manifest or its module cannot be read: this process is without it.  *)
Skip(p) ==
    /\ Starting(p) /\ Mischief("unread")
    /\ UNCHANGED <<storedStates, instance, ownStates, late, emission, promised, doubtful, orders, decided>>

RegisteredLate(p) ==
    /\ p \in late /\ late' = late \ {p} /\ instance' = [instance EXCEPT ![p].skills = 1]
    /\ UNCHANGED <<storedStates, ownStates, loading, emission, promised, doubtful, orders, decided, mischief>>

-----------------------------------------------------------------------------
Up == loading = Len(LoadOrder) + 1

(* A request about a plugin that the process has.                          *)
Requested(p) == Up /\ instance[p].status # "absent" /\ orders < MaxOrders /\ orders' = orders + 1

(* setPluginState, and the answer.  When the write fails the registry has  *)
(* changed already and the owner is told that the request failed.          *)
StoreAndAnswer(p, state) ==
    \/ /\ storedStates' = [storedStates EXCEPT ![p] = state] /\ promised' = [promised EXCEPT ![p] = state]
       /\ UNCHANGED mischief
    \/ Mischief("busy") /\ UNCHANGED <<storedStates, promised>>

(* What failed before is settled by the next answer.                       *)
SettledFor(p) == IF mischief' = mischief THEN doubtful \ {p} ELSE doubtful \cup {p}

(* enablePlugin does not register the plugin (enablePluginAsync would, but *)
(* no route calls it).  For one that is enabled already nothing is written *)
(* that the registry does not know.                                        *)
EnablePlugin(p) ==
    /\ Requested(p) /\ instance' = [instance EXCEPT ![p].status = "enabled"]
    /\ LET state == [choice |-> "on", config |-> instance[p].config]
       IN  \/ /\ instance[p].status = "enabled" /\ ownStates[p].choice = "none"
              /\ promised' = [promised EXCEPT ![p] = state]
              /\ UNCHANGED <<ownStates, storedStates, doubtful, mischief>>
           \/ /\ instance[p].status # "enabled" \/ ownStates[p].choice # "none"
              /\ ownStates' = [ownStates EXCEPT ![p] = state] /\ StoreAndAnswer(p, state) /\ doubtful' = SettledFor(p)
    /\ UNCHANGED <<loading, late, emission, decided>>

DisablePlugin(p) ==
    /\ Requested(p) /\ instance' = [instance EXCEPT ![p].status = "disabled"]
    /\ LET state == [choice |-> "off", config |-> instance[p].config]
       IN  ownStates' = [ownStates EXCEPT ![p] = state] /\ StoreAndAnswer(p, state) /\ doubtful' = SettledFor(p)
    /\ emission' = [emission EXCEPT !.constant = @ \ {p}]
    /\ UNCHANGED <<loading, late, decided>>

(* Mutant: a plugin that is configured is meant to be used.                *)
ConfiguredIsOn(p, config) == [choice |-> "on", config |-> config]

(* updateConfig: the choice that is stored is what the plugin is just now. *)
Configured(p, config) ==
    [choice |-> IF instance[p].status = "enabled" THEN "on" ELSE "off", config |-> config]

(* onConfigChange, between the registry and the table, may throw too.      *)
Configure(p, config) ==
    /\ Requested(p) /\ config # instance[p].config
    /\ instance' = [instance EXCEPT ![p].config = config]
    /\ ownStates' = [ownStates EXCEPT ![p] = Configured(p, config)]
    /\ \/ /\ storedStates' = [storedStates EXCEPT ![p] = Configured(p, config)]
          /\ promised' = [promised EXCEPT ![p].config = config] /\ UNCHANGED <<doubtful, mischief>>
       \/ Mischief("busy") /\ doubtful' = doubtful \cup {p} /\ UNCHANGED <<storedStates, promised>>
    /\ UNCHANGED <<loading, late, emission, decided>>

-----------------------------------------------------------------------------
Enabled == {p \in Plugins : instance[p].status = "enabled"}

(* A decision tells the plugins, in the order in which they were           *)
(* registered.                                                             *)
DecideApproval ==
    /\ Up /\ emission.at = 0 /\ decided < MaxDecisions /\ decided' = decided + 1
    /\ emission' = [NoEmission EXCEPT !.at = 1, !.constant = Enabled]
    /\ UNCHANGED <<storedStates, instance, ownStates, loading, late, promised, doubtful, orders, mischief>>

Hook(p) ==
    /\ emission.at \in 1..Len(LoadOrder) /\ p = LoadOrder[emission.at] /\ ~emission.running
    /\ emission' = IF p \in Enabled THEN [emission EXCEPT !.running = TRUE, !.told = @ \cup {p}]
                   ELSE [emission EXCEPT !.at = @ + 1]
    /\ UNCHANGED <<storedStates, instance, ownStates, loading, late, promised, doubtful, orders, decided, mischief>>

(* Mutant: a hook that throws ends the round. *)
RoundEnds == Len(LoadOrder) + 1

(* Mutant: a hook that throws is called again. *)
AskedAgain == emission.at

NextPlugin == emission.at + 1

(* The hook returns, or throws, which is noted and passed over.            *)
HookEnds ==
    /\ emission.running /\ emission' = [emission EXCEPT !.running = FALSE, !.at = NextPlugin]
    /\ UNCHANGED <<storedStates, instance, ownStates, loading, late, promised, doubtful, orders, decided, mischief>>

DecisionGoesOn ==
    /\ emission.at = Len(LoadOrder) + 1 /\ emission' = NoEmission
    /\ UNCHANGED <<storedStates, instance, ownStates, loading, late, promised, doubtful, orders, decided, mischief>>

(* The process ends; a late registration that is rejected ends it as well. *)
CrashProcess ==
    /\ loading # 0 /\ Mischief("crash") /\ loading' = 0 /\ late' = {} /\ emission' = NoEmission
    /\ instance' = [p \in Plugins |-> Absent] /\ ownStates' = [p \in Plugins |-> Unknown]
    /\ UNCHANGED <<storedStates, promised, doubtful, orders, decided>>

Process == StartProcess \/ (\E p \in Plugins : Load(p) \/ RegisteredLate(p))

Emission == (\E p \in Plugins : Hook(p)) \/ HookEnds \/ DecisionGoesOn

PluginsNext ==
    \/ Process \/ DecideApproval \/ Emission \/ CrashProcess
    \/ \E p \in Plugins : Skip(p) \/ EnablePlugin(p) \/ DisablePlugin(p) \/ (\E c \in PluginConfigs : Configure(p, c))

PluginsSpec == PluginsInit /\ [][PluginsNext]_pluginVars

PluginsFairSpec ==
    /\ PluginsSpec
    /\ WF_pluginVars(Process)
    /\ WF_pluginVars(Emission)

-----------------------------------------------------------------------------
(* What the owner was told last holds, in this process and after a         *)
(* restart: the choice and the configuration.  It says nothing of a plugin *)
(* that failed to register, or of which a request failed half way.         *)
ChoiceStands ==
    Up => \A p \in {q \in Plugins \ doubtful : instance[q].status # "absent"} :
              /\ promised[p].choice = "on" => instance[p].status = "enabled"
              /\ promised[p].choice = "off" => instance[p].status = "disabled"
              /\ promised[p].config = instance[p].config

(* A round tells every plugin that is enabled from its start to its end,   *)
(* whatever the hooks before it did.                                       *)
EveryoneIsTold == emission.at = Len(LoadOrder) + 1 => emission.constant \subseteq emission.told

(* What the owner chose is what runs, and every plugin is told of a        *)
(* decision.                                                               *)
PluginsFollowTheOwner == ChoiceStands /\ EveryoneIsTold

(* No decision waits for the plugins for ever, as long as their hooks      *)
(* return.                                                                 *)
DecisionsGoOn == []<>(emission.at = 0)
=============================================================================
