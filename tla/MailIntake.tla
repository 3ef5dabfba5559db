----------------------------- MODULE MailIntake -----------------------------
(***************************************************************************)
(* The e-mail worker (services/email-inbound/src/worker.ts): polls the     *)
(* newest messages of a mailbox and makes each one a command, a task for   *)
(* operations, a reply or a note, once.  What was dealt with is remembered *)
(* in memory and in the configuration table; failures cool down.           *)
(***************************************************************************)
EXTENDS Naturals, Sequences, FiniteSets, SequencesExt

CONSTANTS
    KindOf,     \* KindOf[uid]: what becomes of the message
    Lookback,   \* FETCH_LOOKBACK_COUNT
    MaxSeen,    \* MAX_SEEN_MESSAGE_IDS
    RateLimit,  \* EMAIL_INBOUND_RATE_LIMIT_PER_MINUTE
    Mishaps,    \* subset of AllMishaps
    MaxMishaps  \* bound: each happens once, so many in all

AllMishaps == {"refused", "lost", "busy", "crash", "restart", "break", "off"}
Uids == DOMAIN KindOf

(* command: prefixed or natural command of a trusted sender; blocked: the  *)
(* same of another one; triage, log: by the value of the message; receipt: *)
(* asks whether mail arrives; broken: cannot be parsed or has no sender.   *)
MailKinds == {"command", "empty", "blocked", "receipt", "triage", "log", "broken"}
Sent == {"command", "blocked", "receipt", "triage"}

(* Messages of the window that are marked again at every poll, and newer   *)
(* ones, may together push a message out of the seen set.                  *)
MailAssumption ==
    /\ KindOf \in Seq(MailKinds)
    /\ Lookback \in Nat \ {0} /\ MaxSeen \in Nat /\ MaxSeen >= 2 * Lookback
    /\ RateLimit \in Nat \ {0} /\ Mishaps \subseteq AllMishaps /\ MaxMishaps \in Nat

VARIABLES
    arrived,    \* messages 1..arrived are in the mailbox
    enabled,    \* EMAIL_INBOUND_ENABLED
    todo,       \* messages of the running poll that are still to be looked at
    current,    \* the message that was sent and is not yet finished, or 0
    seen,       \* seenMessageIds, the latest mark last
    saved,      \* the same in the configuration table
    cooling,    \* recentlyFailedMessages
    minute,     \* commands in the last minute (senderTimestamps of one sender)
    sentTo,     \* sentTo[uid]: times that the message had its effect
    limited,    \* messages dropped by the rate limit
    mishaps     \* those that have happened

mailVars == <<arrived, enabled, todo, current, seen, saved, cooling, minute, sentTo, limited, mishaps>>

MailTypeOK ==
    /\ arrived \in 0..Len(KindOf) /\ enabled \in BOOLEAN
    /\ todo \in Seq(Uids) /\ Len(todo) <= Lookback
    /\ current \in Uids \cup {0}
    /\ seen \in Seq(Uids) /\ saved \in Seq(Uids) /\ Len(saved) <= MaxSeen
    /\ IsInjective(seen)
    /\ cooling \subseteq Uids
    /\ minute \in 0..RateLimit
    /\ sentTo \in [Uids -> Nat] /\ limited \subseteq Uids
    /\ mishaps \subseteq Mishaps /\ Cardinality(mishaps) <= MaxMishaps

MailInit ==
    /\ arrived = 0 /\ enabled = TRUE /\ todo = <<>> /\ current = 0
    /\ seen = <<>> /\ saved = <<>> /\ cooling = {} /\ minute = 0
    /\ sentTo = [u \in Uids |-> 0] /\ limited = {} /\ mishaps = {}

Mishap(h) ==
    /\ h \in Mishaps \ mishaps /\ Cardinality(mishaps) < MaxMishaps
    /\ mishaps' = mishaps \cup {h}

(* The newest messages of the mailbox, the oldest of them first.           *)
Newest == IF arrived < Lookback THEN arrived ELSE Lookback
Window == [i \in 1..Newest |-> arrived - Newest + i]

(* Mutant: the latest marks are removed. *)
CompactNewest(s) == SubSeq(s, 1, IF Len(s) < MaxSeen THEN Len(s) ELSE MaxSeen)

(* compactSeenMessageIds: the oldest marks go.                             *)
Compact(s) == IF Len(s) <= MaxSeen THEN s ELSE SubSeq(s, Len(s) - MaxSeen + 1, Len(s))

(* markMessageSeen                                                         *)
MarkSeen(u) ==
    /\ seen' = Compact(Append(RemoveFirst(seen, u), u))
    /\ saved' = seen'
    /\ cooling' = cooling \ {u}

-----------------------------------------------------------------------------
(* The mailbox and the clock.                                              *)
Arrive ==
    /\ arrived < Len(KindOf) /\ arrived' = arrived + 1
    /\ UNCHANGED <<enabled, todo, current, seen, saved, cooling, minute, sentTo, limited, mishaps>>

MinutePasses ==
    /\ minute > 0 /\ minute' = 0
    /\ UNCHANGED <<arrived, enabled, todo, current, seen, saved, cooling, sentTo, limited, mishaps>>

(* Two minutes after its failure a message may be tried again.             *)
CoolDown ==
    /\ \E u \in cooling : cooling' = cooling \ {u}
    /\ UNCHANGED <<arrived, enabled, todo, current, seen, saved, minute, sentTo, limited, mishaps>>

-----------------------------------------------------------------------------
(* processMailbox                                                          *)

Poll ==
    /\ enabled /\ todo = <<>> /\ current = 0 /\ arrived > 0
    /\ todo' = Window
    /\ UNCHANGED <<arrived, enabled, current, seen, saved, cooling, minute, sentTo, limited, mishaps>>

Looking(u) == current = 0 /\ todo # <<>> /\ u = Head(todo) /\ todo' = Tail(todo)

(* What cannot be parsed is marked, seen or not, by its place in the       *)
(* mailbox; what was seen or has just failed is passed over.               *)
PassOver(u) ==
    /\ Looking(u)
    /\ \/ KindOf[u] = "broken" /\ MarkSeen(u)
       \/ /\ KindOf[u] # "broken" /\ (u \in ToSet(seen) \/ u \in cooling)
          /\ UNCHANGED <<seen, saved, cooling>>
    /\ UNCHANGED <<arrived, enabled, current, minute, sentTo, limited, mishaps>>

Due(u) == Looking(u) /\ KindOf[u] # "broken" /\ u \notin ToSet(seen) /\ u \notin cooling

(* Nothing is sent for the message: it is empty, logged only, or one       *)
(* command too many within a minute.                                       *)
Note(u) ==
    /\ Due(u)
    /\ \/ KindOf[u] \notin Sent /\ UNCHANGED limited
       \/ KindOf[u] = "command" /\ minute >= RateLimit /\ limited' = limited \cup {u}
    /\ current' = u
    /\ UNCHANGED <<arrived, enabled, seen, saved, cooling, minute, sentTo, mishaps>>

(* Mutant: a failed message is remembered as seen. *)
FailedSeen(u) ==
    /\ seen' = Compact(Append(RemoveFirst(seen, u), u))
    /\ saved' = seen' /\ cooling' = cooling

(* finalizeFailure                                                         *)
Failed(u) == cooling' = cooling \cup {u} /\ UNCHANGED <<seen, saved>>

(* The command, the task or the reply is sent: it arrives, it is refused,  *)
(* or it has its effect and the answer is lost on the way back.            *)
Send(u) ==
    /\ Due(u) /\ KindOf[u] \in Sent
    /\ KindOf[u] = "command" => minute < RateLimit
    /\ minute' = IF KindOf[u] = "command" THEN minute + 1 ELSE minute
    /\ \/ /\ sentTo' = [sentTo EXCEPT ![u] = @ + 1] /\ current' = u
          /\ UNCHANGED <<seen, saved, cooling, mishaps>>
       \/ /\ Mishap("refused") /\ Failed(u) /\ UNCHANGED <<current, sentTo>>
       \/ /\ Mishap("lost") /\ Failed(u) /\ UNCHANGED current
          /\ sentTo' = [sentTo EXCEPT ![u] = @ + 1]
    /\ UNCHANGED <<arrived, enabled, limited>>

(* finalizeSuccess: the ledger, the flag in the mailbox and the mark.  A   *)
(* write of the ledger that fails turns success into failure where         *)
(* something was sent, and ends the session elsewhere.                     *)
FinishMail ==
    /\ current # 0
    /\ current' = 0
    /\ \/ MarkSeen(current) /\ UNCHANGED <<todo, mishaps>>
       \/ /\ Mishap("busy")
          /\ IF KindOf[current] \in Sent /\ current \notin limited
             THEN Failed(current) /\ UNCHANGED todo
             ELSE todo' = <<>> /\ UNCHANGED <<seen, saved, cooling>>
    /\ UNCHANGED <<arrived, enabled, minute, sentTo, limited>>

-----------------------------------------------------------------------------
(* The connection, the switch and the process.                             *)

(* The session fails between two messages; run opens another.              *)
SessionBreaks ==
    /\ todo # <<>> /\ current = 0 /\ Mishap("break")
    /\ todo' = <<>>
    /\ UNCHANGED <<arrived, enabled, current, seen, saved, cooling, minute, sentTo, limited>>

Switch ==
    /\ todo = <<>> /\ current = 0
    /\ \/ enabled /\ Mishap("off")
       \/ ~enabled /\ UNCHANGED mishaps
    /\ enabled' = ~enabled
    /\ UNCHANGED <<arrived, todo, current, seen, saved, cooling, minute, sentTo, limited>>

(* Mutant: the saved marks are not read. *)
HydrateNothing == <<>>

(* hydrateSeenMessageIds                                                   *)
Hydrate == Compact(saved)

(* The process stops, between two polls or at any time, and is started.    *)
Restart ==
    /\ \/ Mishap("restart") /\ todo = <<>> /\ current = 0
       \/ Mishap("crash")
    /\ seen' = Hydrate
    /\ todo' = <<>> /\ current' = 0 /\ cooling' = {} /\ minute' = 0
    /\ UNCHANGED <<arrived, enabled, saved, sentTo, limited>>

Polling == Poll \/ FinishMail \/ \E u \in Uids : PassOver(u) \/ Note(u) \/ Send(u)

MailNext ==
    \/ Arrive \/ MinutePasses \/ CoolDown \/ Polling
    \/ SessionBreaks \/ Switch \/ Restart

MailSpec == MailInit /\ [][MailNext]_mailVars

MailFairSpec ==
    /\ MailSpec
    /\ WF_mailVars(Polling)
    /\ WF_mailVars(CoolDown)
    /\ WF_mailVars(~enabled /\ Switch)

-----------------------------------------------------------------------------
(* A message has its effect once, through polls, cool-downs, broken        *)
(* sessions, restarts and the compaction of the marks: each effect too     *)
(* many takes a crash, a lost answer or a failed write after it was sent.  *)
Repeats == UNION {{u} \X (2..sentTo[u]) : u \in Uids}
Excuses == mishaps \cap {"crash", "lost", "busy"}

HandledOnce == Cardinality(Repeats) <= Cardinality(Excuses)

(* A message is dealt with in the end, as long as it is among the newest   *)
(* ones: it has its effect, is dropped by the limit, or needs none.        *)
MailIsHandled ==
    []<>(\A u \in Uids : u \in arrived - Lookback + 1 .. arrived /\ KindOf[u] \in Sent
                           => sentTo[u] > 0 \/ u \in limited)
=============================================================================
