------------------------------- MODULE Console -------------------------------
(***************************************************************************)
(* The control center in a browser (apps/control-center/public/app.js): a  *)
(* list refreshed every five seconds, a pane for the details of a task, of *)
(* a goal run and of a session, and the event stream of the session's      *)
(* timeline.  Answers of the orchestrator arrive while the user clicks on. *)
(***************************************************************************)
EXTENDS Naturals, Sequences, FiniteSets, SequencesExt

CONSTANTS
    Items,      \* what can be opened in a pane
    NoItem,
    MaxAsked,   \* bound: requests under way
    MaxClicks,  \* bound: clicks of the user
    Glitches,   \* overtake: an answer overtakes an earlier one; failure: a request fails
    MaxGlitches

Panes == {"task", "goal", "session"}

ConsoleAssumption ==
    /\ NoItem \notin Items /\ MaxAsked \in Nat /\ MaxClicks \in Nat
    /\ Glitches \subseteq {"overtake", "failure"} /\ MaxGlitches \in Nat

VARIABLES
    selected,   \* selected[p]: selectedTaskId, selectedGoalRunId, selectedSessionWorkbenchId
    panes,      \* panes[p]: what the rendered detail is about
    asked,      \* requests under way, oldest first
    stream,     \* the session that sessionTimelineStream follows
    reconnect,  \* the session that sessionTimelineReconnectTimer is set for
    clicks, glitches

consoleVars == <<selected, panes, asked, stream, reconnect, clicks, glitches>>

Requests ==
    [pane : Panes, item : Items, background : BOOLEAN]
        \cup [pane : {"list"}, item : {NoItem}, background : {FALSE}]

ConsoleTypeOK ==
    /\ selected \in [Panes -> Items \cup {NoItem}]
    /\ panes \in [Panes -> Items \cup {NoItem}]
    /\ asked \in Seq(Requests) /\ Len(asked) <= MaxAsked + 1
    /\ stream \in Items \cup {NoItem} /\ reconnect \in Items \cup {NoItem}
    /\ clicks \in 0..MaxClicks /\ glitches \in 0..MaxGlitches

ConsoleInit ==
    /\ selected = [p \in Panes |-> NoItem]
    /\ panes = [p \in Panes |-> NoItem]
    /\ asked = <<>>
    /\ stream = NoItem /\ reconnect = NoItem
    /\ clicks = MaxClicks /\ glitches = MaxGlitches

Glitch(h) == h \in Glitches /\ glitches > 0 /\ glitches' = glitches - 1
Click == clicks > 0 /\ clicks' = clicks - 1

RequestFor(p, i, background) == [pane |-> p, item |-> i, background |-> background]
AskList == [pane |-> "list", item |-> NoItem, background |-> FALSE]

-----------------------------------------------------------------------------
(* openTaskDetail, openGoalRunDetail and openSessionWorkbenchDetail up to  *)
(* their request; another session's stream is closed first.                *)
Open(p, i) ==
    /\ Click /\ Len(asked) < MaxAsked
    /\ selected' = [selected EXCEPT ![p] = i]
    /\ asked' = Append(asked, RequestFor(p, i, FALSE))
    /\ IF p = "session" /\ selected[p] \notin {i, NoItem}
       THEN stream' = NoItem /\ reconnect' = NoItem
       ELSE UNCHANGED <<stream, reconnect>>
    /\ UNCHANGED <<panes, glitches>>

Close(p) ==
    /\ Click /\ selected[p] # NoItem
    /\ selected' = [selected EXCEPT ![p] = NoItem]
    /\ panes' = [panes EXCEPT ![p] = NoItem]
    /\ IF p = "session"
       THEN stream' = NoItem /\ reconnect' = NoItem
       ELSE UNCHANGED <<stream, reconnect>>
    /\ UNCHANGED <<asked, glitches>>

Arrived(k) ==
    /\ k \in DOMAIN asked
    /\ asked' = RemoveAt(asked, k)
    /\ IF \E j \in 1..(k - 1) : asked[j].pane = asked[k].pane
       THEN Glitch("overtake") ELSE UNCHANGED glitches
    /\ UNCHANGED clicks

(* Mutant: what arrives is shown. *)
RenderAnyhow(p, i) == panes' = [panes EXCEPT ![p] = i]

(* renderTaskDetail and renderSessionWorkbenchDetail hide the pane when    *)
(* nothing is selected, and show what has arrived otherwise.               *)
Render(p, i) == panes' = [panes EXCEPT ![p] = IF selected[p] = NoItem THEN NoItem ELSE i]

TaskArrives(k) ==
    /\ Arrived(k) /\ asked[k].pane = "task"
    /\ Render("task", asked[k].item)
    /\ UNCHANGED <<selected, stream, reconnect>>

GoalArrives(k) ==
    /\ Arrived(k) /\ asked[k].pane = "goal"
    /\ IF ~asked[k].background \/ selected["goal"] = asked[k].item
       THEN Render("goal", asked[k].item)
       ELSE UNCHANGED panes
    /\ UNCHANGED <<selected, stream, reconnect>>

(* startSessionTimelineStream is called with the session asked for.        *)
StartStream(i) == stream' = i /\ reconnect' = IF stream = i THEN reconnect ELSE NoItem

SessionArrives(k) ==
    /\ Arrived(k) /\ asked[k].pane = "session"
    /\ Render("session", asked[k].item)
    /\ StartStream(asked[k].item)
    /\ UNCHANGED <<selected>>

-----------------------------------------------------------------------------
(* refresh: thirteen requests, rendered together; then the selected goal   *)
(* run once more, in the background.  The timer does not wait for it.      *)

Refresh ==
    /\ Len(asked) < MaxAsked
    /\ \A j \in DOMAIN asked : asked[j] # AskList
    /\ asked' = Append(asked, AskList)
    /\ UNCHANGED <<selected, panes, stream, reconnect, clicks, glitches>>

(* Mutant: a selected goal run is left as it was shown. *)
ListArrivesAlone(k) ==
    /\ k \in DOMAIN asked /\ asked[k].pane = "list"
    /\ IF \E j \in 1..(k - 1) : asked[j].pane = "list"
       THEN Glitch("overtake") ELSE UNCHANGED glitches
    /\ asked' = RemoveAt(asked, k)
    /\ UNCHANGED <<selected, panes, stream, reconnect, clicks>>

ListArrives(k) ==
    /\ k \in DOMAIN asked /\ asked[k].pane = "list"
    /\ IF \E j \in 1..(k - 1) : asked[j].pane = "list"
       THEN Glitch("overtake") ELSE UNCHANGED glitches
    /\ asked' = IF selected["goal"] = NoItem THEN RemoveAt(asked, k)
                ELSE Append(RemoveAt(asked, k), RequestFor("goal", selected["goal"], TRUE))
    /\ UNCHANGED <<selected, panes, stream, reconnect, clicks>>

(* A rejected promise: what was shown stays.                               *)
RequestFails(k) ==
    /\ k \in DOMAIN asked
    /\ Glitch("failure")
    /\ asked' = RemoveAt(asked, k)
    /\ UNCHANGED <<selected, panes, stream, reconnect, clicks>>

-----------------------------------------------------------------------------
(* The stream of the timeline.                                             *)

(* A snapshot is merged into the detail, unless another session is         *)
(* selected.                                                               *)
Snapshot ==
    /\ stream # NoItem /\ selected["session"] = stream
    /\ panes' = [panes EXCEPT !["session"] = stream]
    /\ UNCHANGED <<selected, asked, stream, reconnect, clicks, glitches>>

(* Mutant: the stream is closed for good. *)
StreamBreaksForGood ==
    /\ stream # NoItem 
    /\ stream' = NoItem /\ reconnect' = NoItem
    /\ UNCHANGED <<selected, panes, asked, clicks, glitches>>

StreamBreaks ==
    /\ stream # NoItem 
    /\ stream' = NoItem
    /\ reconnect' = IF selected["session"] = stream THEN stream ELSE NoItem
    /\ UNCHANGED <<selected, panes, asked, clicks, glitches>>

Reconnect ==
    /\ reconnect # NoItem
    /\ stream' = reconnect /\ reconnect' = NoItem
    /\ UNCHANGED <<selected, panes, asked, clicks, glitches>>

(* The answer at the head of the queue; the timers.                        *)
Arrives(k) == TaskArrives(k) \/ GoalArrives(k) \/ SessionArrives(k) \/ ListArrives(k)

ConsoleNext ==
    \/ \E p \in Panes : Close(p) \/ \E i \in Items : Open(p, i)
    \/ \E k \in DOMAIN asked : Arrives(k) \/ RequestFails(k)
    \/ Refresh \/ Snapshot \/ StreamBreaks \/ Reconnect

ConsoleSpec == ConsoleInit /\ [][ConsoleNext]_consoleVars

-----------------------------------------------------------------------------
(* The panes that nothing refreshes show what is selected once every       *)
(* answer is there, as long as none overtook another or failed.            *)
PanesAreRight ==
    asked = <<>> /\ glitches = MaxGlitches
        => \A p \in {"task", "session"} : panes[p] = selected[p]

(* A goal run that stays selected is shown in the end, whatever overtook   *)
(* what: the refresh repairs the pane.                                     *)
GoalIsShown ==
    []<>(selected["goal"] \in Items => panes["goal"] = selected["goal"])

(* The selected session is followed live, or the timer is set that will do *)
(* so, once every answer is there; breaks of the stream do no harm.        *)
SessionIsFollowed ==
    asked = <<>> /\ glitches = MaxGlitches /\ selected["session"] # NoItem
        => selected["session"] \in {stream, reconnect}

(* The panes show what is selected, and the session that is looked at is   *)
(* followed.                                                               *)
ConsoleIsRight == PanesAreRight /\ SessionIsFollowed
=============================================================================
