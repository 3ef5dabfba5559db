------------------------------ MODULE FollowUps ------------------------------
(***************************************************************************)
(* The follow-ups of the customer records (orchestrator: routes/crm.ts and *)
(* routes/recurring.ts; shared: the crm tables of store.ts).  A cadence of *)
(* a lead is due at a day; the scheduler, and the owner's run-due request, *)
(* make one follow-up task for each active cadence that is due and put its *)
(* next day one interval after today.  A contact that is recorded moves    *)
(* the stage of the lead and the day of the cadence, counting from the day *)
(* on which it happened, which may be any day.  Everything is synchronous  *)
(* but written row by row: only the end of the process comes in between.   *)
(***************************************************************************)
EXTENDS Naturals, Sequences, FiniteSets

CONSTANTS
    Cadences,     \* of one lead
    Interval,     \* intervalDays of each
    Outcomes,     \* of the contacts that are recorded
    MaxDay,       \* bound: the days that are looked at
    MaxOwnerRequests,  \* bound: requests of the owner
    MaxCrashes    \* bound

FollowUpsAssumption ==
    /\ Interval \in [Cadences -> Nat \ {0}]
    /\ Outcomes \subseteq {"note", "sent", "replied", "meeting_booked", "won", "lost"}
    /\ MaxDay \in Nat /\ MaxOwnerRequests \in Nat /\ MaxCrashes \in Nat

VARIABLES
    today,
    lead,      \* its stage and whether it is archived
    cadence,   \* status, nextRunAt and lastRunAt of each
    followUps, \* the tasks made for each cadence: on which day, and by whom
    sweep,     \* the cadences that are still to be run, and the step of the first
    moved,     \* cadences whose day the owner, or a crash, has touched
    contact,   \* the contact that is being stored
    requests, crashes

followUpVars == <<today, lead, cadence, followUps, sweep, moved, contact, requests, crashes>>

LeadStages == <<"new", "contacted", "qualified", "proposal", "won", "lost">>
CadenceStatuses == {"active", "paused", "completed", "archived"}
NoContact == [of |-> "none", outcome |-> "note", day |-> 0, step |-> "none"]
NoSweep == [todo |-> {}, made |-> {}]

FollowUpsTypeOK ==
    /\ today \in 0..MaxDay
    /\ lead \in [stage : {LeadStages[i] : i \in 1..6}, archived : BOOLEAN]
    /\ cadence \in [Cadences -> [status : CadenceStatuses, next : Nat, last : 0..MaxDay]]
    /\ followUps \in [Cadences -> Seq([day : 0..MaxDay, auto : BOOLEAN])]
    /\ sweep \in [todo : SUBSET Cadences, made : SUBSET Cadences] /\ sweep.made \subseteq sweep.todo
    /\ moved \subseteq Cadences
    /\ contact \in [of : Cadences \cup {"none"}, outcome : Outcomes \cup {"note"}, day : 0..MaxDay,
                    step : {"none", "stored", "led"}]
    /\ requests \in 0..MaxOwnerRequests /\ crashes \in 0..MaxCrashes

(* createCrmLead, createCrmCadence                                         *)
NewLead == [stage |-> "new", archived |-> FALSE]
NewCadence == [status |-> "active", next |-> 1, last |-> 0]

FollowUpsInit ==
    /\ today = 0 /\ lead = NewLead /\ cadence = [c \in Cadences |-> NewCadence]
    /\ followUps = [c \in Cadences |-> <<>>]
    /\ sweep = NoSweep /\ moved = {} /\ contact = NoContact /\ requests = 0 /\ crashes = 0

-----------------------------------------------------------------------------
Free == sweep = NoSweep /\ contact = NoContact

OwnerRequest == Free /\ requests < MaxOwnerRequests /\ requests' = requests + 1

(* listCrmCadences: active, and due by now.  Neither the lead nor a        *)
(* follow-up that is still being worked at is looked at.                   *)
DueCadences == {c \in Cadences : cadence[c].status = "active" /\ cadence[c].next <= today}

(* runDueCadences, by the timer or on request.                             *)
RunDue ==
    /\ Free /\ DueCadences # {} /\ sweep' = [NoSweep EXCEPT !.todo = DueCadences]
    /\ UNCHANGED <<today, lead, cadence, followUps, moved, contact, requests, crashes>>

(* triggerCadenceFollowUp makes the task ...                               *)
MakeFollowUp(c) ==
    /\ c \in sweep.todo /\ sweep.made = {}
    /\ followUps' = [followUps EXCEPT ![c] = Append(@, [day |-> today, auto |-> TRUE])]
    /\ sweep' = [sweep EXCEPT !.made = {c}]
    /\ UNCHANGED <<today, lead, cadence, moved, contact, requests, crashes>>

(* Mutant: the next day is counted from the day that was due.              *)
NextDayFromDue(c) == cadence[c].next + Interval[c]

NextDay(c) == today + Interval[c]

(* ... and then moves the cadence on.                                      *)
MoveOn(c) ==
    [cadence EXCEPT ![c].last = today, ![c].next = NextDay(c),
        ![c].status = IF @ \in {"paused", "archived"} THEN @ ELSE "active"]

AdvanceCadence(c) ==
    /\ c \in sweep.made /\ cadence' = MoveOn(c)
    /\ sweep' = [todo |-> sweep.todo \ {c}, made |-> {}]
    /\ UNCHANGED <<today, lead, followUps, moved, contact, requests, crashes>>

(* POST .../trigger-followup: a cadence of any status.                     *)
TriggerByHand(c) ==
    /\ OwnerRequest
    /\ followUps' = [followUps EXCEPT ![c] = Append(@, [day |-> today, auto |-> FALSE])]
    /\ cadence' = MoveOn(c) /\ moved' = moved \cup {c}
    /\ UNCHANGED <<today, lead, sweep, contact, crashes>>

-----------------------------------------------------------------------------
(* POST .../contacts: the row is stored first.                             *)
Record(c, outcome, day) ==
    /\ OwnerRequest /\ day <= today
    /\ contact' = [of |-> c, outcome |-> outcome, day |-> day, step |-> "stored"]
    /\ UNCHANGED <<today, lead, cadence, followUps, sweep, moved, crashes>>

Rank(stage) == CHOOSE i \in 1..6 : LeadStages[i] = stage

Desired(outcome) == CASE outcome = "meeting_booked" -> "proposal"
                      [] outcome = "replied" -> "qualified"
                      [] outcome = "sent" -> "contacted"
                      [] OTHER -> "new"

(* Mutant: the latest contact says where the lead stands.                  *)
StageAsSaid(stage, outcome) ==
    IF outcome \in {"won", "lost"} THEN outcome
    ELSE IF outcome = "note" THEN stage ELSE Desired(outcome)

(* resolveLeadStageFromContactOutcome                                      *)
StageAfter(stage, outcome) ==
    IF outcome \in {"won", "lost"} THEN outcome
    ELSE IF Rank(Desired(outcome)) > Rank(stage) THEN Desired(outcome) ELSE stage

UpdateLead ==
    /\ contact.step = "stored" /\ contact' = [contact EXCEPT !.step = "led"]
    /\ lead' = [lead EXCEPT !.stage = StageAfter(@, contact.outcome)]
    /\ UNCHANGED <<today, cadence, followUps, sweep, moved, requests, crashes>>

(* A contact that ends the matter completes the cadence, any other puts it *)
(* at work again, unless it is archived.                                   *)
AfterContact(k) ==
    IF contact.outcome \in {"meeting_booked", "won", "lost"}
    THEN [k EXCEPT !.last = contact.day, !.status = "completed"]
    ELSE [k EXCEPT !.last = contact.day, !.next = contact.day + Interval[contact.of],
                   !.status = IF @ = "archived" THEN @ ELSE "active"]

UpdateCadence ==
    /\ contact.step = "led" /\ contact' = NoContact
    /\ cadence' = [cadence EXCEPT ![contact.of] = AfterContact(@)]
    /\ moved' = moved \cup {contact.of}
    /\ UNCHANGED <<today, lead, followUps, sweep, requests, crashes>>

(* The date of a contact is not one: the row and the lead have been        *)
(* written when the cadence's next day cannot be computed, and the request *)
(* fails.                                                                  *)
BadDate ==
    /\ contact.step = "led" /\ contact' = NoContact
    /\ UNCHANGED <<today, lead, cadence, followUps, sweep, moved, requests, crashes>>

(* PATCH and archive of a cadence. That its interval may be patched as     *)
(* well is left out: it is read when the cadence is moved on the next      *)
(* time.                                                                   *)
PatchCadence(c, status, day) ==
    /\ OwnerRequest /\ <<status, day>> # <<cadence[c].status, cadence[c].next>>
    /\ cadence' = [cadence EXCEPT ![c] = [@ EXCEPT !.status = status, !.next = day]] /\ moved' = moved \cup {c}
    /\ UNCHANGED <<today, lead, followUps, sweep, contact, crashes>>

(* PATCH and archive of the lead: its cadences stay as they are.           *)
EditLead ==
    /\ OwnerRequest
    /\ \/ ~lead.archived /\ lead' = [lead EXCEPT !.archived = TRUE]
       \/ \E i \in 1..6 : LeadStages[i] # lead.stage /\ lead' = [lead EXCEPT !.stage = LeadStages[i]]
    /\ UNCHANGED <<today, cadence, followUps, sweep, moved, contact, crashes>>

-----------------------------------------------------------------------------
CrashSweep ==
    /\ ~Free /\ crashes < MaxCrashes /\ crashes' = crashes + 1
    /\ moved' = moved \cup sweep.made
    /\ sweep' = NoSweep /\ contact' = NoContact
    /\ UNCHANGED <<today, lead, cadence, followUps, requests>>

(* A day passes; the orchestrator may have been down for it.               *)
NextMorning ==
    /\ Free /\ today < MaxDay /\ today' = today + 1
    /\ UNCHANGED <<lead, cadence, followUps, sweep, moved, contact, requests, crashes>>

FollowUpStep == (\E c \in Cadences : MakeFollowUp(c) \/ AdvanceCadence(c)) \/ UpdateLead \/ UpdateCadence

FollowUpsNext ==
    \/ RunDue \/ FollowUpStep \/ BadDate \/ EditLead \/ CrashSweep \/ NextMorning
    \/ \E c \in Cadences :
          \/ TriggerByHand(c)
          \/ \E status \in CadenceStatuses, day \in 0..MaxDay : PatchCadence(c, status, day)
          \/ \E outcome \in Outcomes, day \in 0..MaxDay : Record(c, outcome, day)

FollowUpsSpec == FollowUpsInit /\ [][FollowUpsNext]_followUpVars

FollowUpsFairSpec ==
    /\ FollowUpsSpec
    /\ WF_followUpVars(RunDue)
    /\ WF_followUpVars(FollowUpStep)

-----------------------------------------------------------------------------
(* Two follow-ups that the scheduler makes of a cadence are an interval    *)
(* apart, however often it runs and however long it was down, as long as   *)
(* the owner has not moved the cadence and the process has not died        *)
(* between the task and the cadence.                                       *)
NoBurst ==
    \A c \in Cadences \ moved : \A i \in 1..Len(followUps[c]) - 1 :
        followUps[c][i + 1].day >= followUps[c][i].day + Interval[c]

(* Contacts do not make a lead fall back: recorded late, or in another     *)
(* order than they happened, they leave it where it had come to.           *)
NoFallBack ==
    [][contact.step # "none" /\ lead'.stage \notin {"won", "lost"}
         => Rank(lead'.stage) >= Rank(lead.stage)]_followUpVars

(* Every cadence that is due is followed up, or the owner takes it off.    *)
DueIsFollowedUp == \A c \in Cadences : []<>(c \notin DueCadences)

(* No burst of follow-ups, and no lead that falls back.                    *)
LeadsAreKept == []NoBurst /\ NoFallBack
=============================================================================
