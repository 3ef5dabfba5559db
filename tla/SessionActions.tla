--------------------------- MODULE SessionActions ---------------------------
(***************************************************************************)
(* The actions of the session workbench (orchestrator: routes/tasks.ts     *)
(* POST /api/sessions/:id/actions and the session timeline; the console's  *)
(* renderSessionWorkbenchDetail and runSessionAction).  An action is a     *)
(* message that the server words itself; a client may name it, so that a   *)
(* repeated request is answered and not executed again.  What was done is  *)
(* known from the audit log, of which only the latest rows are looked at.  *)
(* The viewer follows the timeline of the session, of one action or of     *)
(* all.                                                                    *)
(***************************************************************************)
EXTENDS Naturals, Sequences, FiniteSets

CONSTANTS
    Named,      \* action ids that clients choose, and may use again
    Own,        \* action ids that the server makes, each for one request
    NoFilter,   \* no filter
    LogWindow,     \* listAuditEvents(500)
    MaxPosts,   \* bound: requests
    MaxOther    \* bound: audit rows of others, and crashes

ActionsAssumption ==
    /\ NoFilter \notin Named \cup Own /\ Named \cap Own = {}
    /\ LogWindow \in Nat \ {0} /\ MaxPosts \in Nat /\ MaxOther \in Nat

VARIABLES
    executions,  \* what handleInboundMessage was called for, in order
    audit,       \* the audit log: what happened, and to which execution
    told,      \* the answer just given to a request for an id that was known
    filter,      \* the action the viewer follows
    sent,        \* the timeline as last sent to the viewer
    posts, others

actionVars == <<executions, audit, told, filter, sent, posts, others>>

ActionIds == Named \cup Own
ActionKinds == {"continue", "rerun-goalrun"}
ActionTaskStatuses == {"none", "queued", "completed"}
Executions == [id : ActionIds, kind : ActionKinds, at : {"running", "completed", "failed", "lost"},
               task : ActionTaskStatuses]
AuditRows == [what : {"requested", "completed", "failed", "other"}, of : 0..MaxPosts]
NothingTold == [told |-> "nothing", of |-> 0]

ActionsTypeOK ==
    /\ executions \in Seq(Executions) /\ Len(executions) <= MaxPosts
    /\ audit \in Seq(AuditRows)
    /\ told \in [told : {"nothing", "conflict", "completed", "failed", "in_flight"}, of : 0..MaxPosts]
    /\ filter \in ActionIds \cup {NoFilter} /\ posts \in 0..MaxPosts /\ others \in 0..MaxOther

ActionsInit ==
    /\ executions = <<>> /\ audit = <<>> /\ told = NothingTold
    /\ filter = NoFilter /\ sent = {} /\ posts = 0 /\ others = 0

-----------------------------------------------------------------------------
(* The rows that are looked at.                                            *)
Seen == {n \in DOMAIN audit : n > Len(audit) - LogWindow}

(* listSessionActionAuditEvents                                            *)
RowsOf(id) == {n \in Seen : audit[n].of # 0 /\ executions[audit[n].of].id = id}

(* Mutant: an action that is still at work is not found. *)
FoundWhenOver(id) == {n \in RowsOf(id) : audit[n].what # "requested"}

(* findExistingSessionActionAudit: any of the three rows will do ...       *)
Found(id) == RowsOf(id)

(* Mutant: the oldest row decides. *)
FirstOf(ns) == CHOOSE n \in ns : \A m \in ns : n <= m

(* ... completed before failed before requested, the latest of each.       *)
Weight(n) == CASE audit[n].what = "completed" -> 3 [] audit[n].what = "failed" -> 2 [] OTHER -> 1
BestOf(ns) == CHOOSE n \in ns : \A m \in ns : Weight(n) > Weight(m) \/ (Weight(n) = Weight(m) /\ n >= m)

Log(what, n) == audit' = Append(audit, [what |-> what, of |-> n])

(* buildExistingSessionActionResponse                                      *)
Told(row) == IF row.what = "requested" THEN "in_flight" ELSE row.what

Repeat(id, kind) ==
    /\ LET row == audit[BestOf(Found(id))]
       IN told' = IF executions[row.of].kind # kind THEN [told |-> "conflict", of |-> row.of]
                    ELSE [told |-> Told(row), of |-> row.of]
    /\ UNCHANGED <<executions, audit>>

BeginAction(id, kind) ==
    /\ executions' = Append(executions, [id |-> id, kind |-> kind, at |-> "running", task |-> "none"])
    /\ Log("requested", Len(executions) + 1)
    /\ told' = NothingTold

(* POST /api/sessions/:sessionId/actions, up to the await.  Kinds are only *)
(* compared with each other: the first request may be of any, so of the    *)
(* first.                                                                  *)
Post(id, kind) ==
    /\ posts < MaxPosts /\ posts' = posts + 1
    /\ posts = 0 => kind = "continue"
    /\ id \in Own => \A n \in DOMAIN executions : executions[n].id # id
    /\ IF Found(id) # {} THEN Repeat(id, kind) ELSE BeginAction(id, kind)
    /\ UNCHANGED <<filter, sent, others>>

(* handleInboundMessage makes a task, or not ...                           *)
MakeActionTask(n) ==
    /\ executions[n].at = "running" /\ executions[n].task = "none"
    /\ executions' = [executions EXCEPT ![n].task = "queued"]
    /\ told' = NothingTold /\ UNCHANGED <<audit, filter, sent, posts, others>>

(* ... and returns or throws.                                              *)
Over(n, how) ==
    /\ executions[n].at = "running"
    /\ executions' = [executions EXCEPT ![n].at = how] /\ Log(how, n)
    /\ told' = NothingTold /\ UNCHANGED <<filter, sent, posts, others>>

(* The runner ends the task.                                               *)
EndTask(n) ==
    /\ executions[n].task = "queued" /\ executions' = [executions EXCEPT ![n].task = "completed"]
    /\ told' = NothingTold /\ UNCHANGED <<audit, filter, sent, posts, others>>

(* Other parts of the program write to the log too.                        *)
OtherRow ==
    /\ others < MaxOther /\ others' = others + 1 /\ Log("other", 0)
    /\ told' = NothingTold /\ UNCHANGED <<executions, filter, sent, posts>>

CrashHandlers ==
    /\ others < MaxOther /\ others' = others + 1
    /\ \E n \in DOMAIN executions : executions[n].at = "running"
    /\ executions' = [n \in DOMAIN executions |->
           IF executions[n].at = "running" THEN [executions[n] EXCEPT !.at = "lost"] ELSE executions[n]]
    /\ told' = NothingTold /\ UNCHANGED <<audit, filter, sent, posts>>

-----------------------------------------------------------------------------
(* Mutant: only what carries the action's id is its evidence.              *)
MadeByNone(id) == {}

(* filterTimelineEventsByActionId: the tasks that the rows of the action   *)
(* name; the row that names one is written when handling is over.          *)
MadeBy(id) == {n \in DOMAIN executions :
    executions[n].task # "none" /\ \E k \in RowsOf(id) : audit[k].what = "completed" /\ audit[k].of = n}

(* buildSessionTimelineSnapshot; the messages, goal runs and approvals,    *)
(* which are found like the tasks, are left out, and so are rows of others *)
(* that name such a task. The snapshot is not cut to its limit, 30 events  *)
(* unless the viewer asks for more.                                        *)
Timeline(id) ==
    LET made == IF id = NoFilter THEN {n \in DOMAIN executions : executions[n].task # "none"} ELSE MadeBy(id)
        rows == IF id = NoFilter THEN {n \in Seen : audit[n].of # 0} ELSE RowsOf(id)
    IN {<<"task", n, executions[n].task>> : n \in made} \cup {<<"audit", n, audit[n].what>> : n \in rows}

(* Mutant: an event is told apart by what it is about only.                *)
SignatureOfEntities(events) == {<<e[1], e[2]>> : e \in events}

(* The ids of the events, which hold the status where there is one.        *)
Signature(events) == events

(* The interval of the stream.                                             *)
PollTimeline ==
    /\ Signature(Timeline(filter)) # Signature(sent) /\ sent' = Timeline(filter)
    /\ told' = NothingTold /\ UNCHANGED <<executions, audit, filter, posts, others>>

(* A filter is chosen, cleared, or set by runSessionAction; the timeline   *)
(* is fetched and a new stream opened.  Bound: as many as there are        *)
(* requests.                                                               *)
Follow ==
    /\ \E id \in ActionIds \cup {NoFilter} :
          /\ id # filter /\ (id # NoFilter => \E n \in DOMAIN executions : executions[n].id = id)
          /\ filter' = id /\ sent' = Timeline(id)
    /\ others < MaxOther /\ others' = others + 1
    /\ told' = NothingTold /\ UNCHANGED <<executions, audit, posts>>

-----------------------------------------------------------------------------
Handling == \E n \in DOMAIN executions :
    MakeActionTask(n) \/ (\E how \in {"completed", "failed"} : Over(n, how)) \/ EndTask(n)

ActionsNext ==
    \/ \E id \in ActionIds, kind \in ActionKinds : Post(id, kind)
    \/ Handling \/ OtherRow \/ CrashHandlers \/ PollTimeline \/ Follow

ActionsSpec == ActionsInit /\ [][ActionsNext]_actionVars

ActionsFairSpec ==
    /\ ActionsSpec
    /\ WF_actionVars(Handling)
    /\ WF_actionVars(PollTimeline)

-----------------------------------------------------------------------------
(* As long as the log has not outgrown the rows that are looked at, a      *)
(* request that is repeated, while the first is at work or after it, is    *)
(* not executed again.                                                     *)
ActionsRunOnce ==
    Len(audit) <= LogWindow =>
        \A m, n \in DOMAIN executions : executions[m].id = executions[n].id => m = n

(* A repeated request is told what became of the first: it is never told   *)
(* that it is under way when it has ended.                                 *)
RepeatsAreTold ==
    [][posts' > posts /\ told' # NothingTold /\ told'.told # "conflict" =>
         executions[told'.of].at \in
            (IF told'.told = "in_flight" THEN {"running", "lost"} ELSE {told'.told})]_actionVars

(* The viewer sees the state the session has come to, however often a      *)
(* task's status changed.                                                  *)
TimelineIsFollowed == []<>(sent = Timeline(filter))

(* The task an action has made is evidence of it, while its row is looked  *)
(* at.                                                                     *)
EvidenceIsKept ==
    \A n \in DOMAIN executions :
        executions[n].at = "completed" /\ executions[n].task # "none"
        /\ (\E k \in Seen : audit[k] = [what |-> "completed", of |-> n])
        => <<"task", n, executions[n].task>> \in Timeline(executions[n].id)

(* An action that is named runs once, a repeated request is told how it    *)
(* went, and what it made is evidence of it.                               *)
ActionsAreAnswered ==
    /\ []ActionsRunOnce
    /\ []EvidenceIsKept
    /\ RepeatsAreTold
=============================================================================
