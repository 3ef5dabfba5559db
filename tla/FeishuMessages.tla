--------------------------- MODULE FeishuMessages ---------------------------
(***************************************************************************)
(* Messages from Feishu (services/orchestrator/src/server.ts): an event    *)
(* that is not answered in time is delivered again; the orchestrator       *)
(* remembers for ten minutes, in memory, which messages it has taken.      *)
(***************************************************************************)
EXTENDS Naturals, FiniteSets

CONSTANTS
    Messages,   \* the messages of a chat
    Chat,
    MaxCopies,  \* bound: deliveries of a message
    MaxMessageFaults   \* bound: restarts, exceptions, failed sends, slow handling

FeishuAssumption == MaxCopies \in Nat /\ MaxMessageFaults \in Nat

VARIABLES
    copies,     \* copies[m]: deliveries of m that are on their way
    delivered,  \* deliveries so far
    known,      \* feishuInboundMessageDeduper
    handling,   \* handling[m]: what m is at
    answered,   \* messages whose delivery Feishu takes for done
    handled,    \* handled[m]: how often m was handled
    replied,    \* messages the user has seen an answer to
    failed,     \* messages whose handling threw
    forgotten,  \* messages whose token is gone: restart or ten minutes
    cutOff,        \* messages that a restart found being handled
    messageFaults

feishuVars == <<copies, delivered, known, handling, answered, handled, replied, failed,
                forgotten, cutOff, messageFaults>>

FeishuTypeOK ==
    /\ copies \in [Messages -> 0..MaxCopies] /\ delivered \in [Messages -> 0..MaxCopies]
    /\ known \subseteq Messages \cup {Chat}
    /\ handling \in [Messages -> {"no", "named", "reaction", "text"}]
    /\ handled \in [Messages -> Nat]
    /\ answered \subseteq Messages /\ replied \subseteq Messages /\ failed \subseteq Messages
    /\ forgotten \subseteq Messages /\ cutOff \subseteq Messages
    /\ messageFaults \in 0..MaxMessageFaults

FeishuInit ==
    /\ copies = [m \in Messages |-> 0] /\ delivered = copies
    /\ known = {} /\ handling = [m \in Messages |-> "no"]
    /\ handled = [m \in Messages |-> 0]
    /\ answered = {} /\ replied = {} /\ failed = {} /\ forgotten = {} /\ cutOff = {}
    /\ messageFaults = 0

MessageFault == messageFaults < MaxMessageFaults /\ messageFaults' = messageFaults + 1

(* The token of a message is its chat and its identity.                    *)
(* Mutant: the chat alone.                                                 *)
TokenOfChat(m) == Chat

Token(m) == m

(* Feishu delivers a message until a delivery is answered.                 *)
Deliver(m) ==
    /\ m \notin answered /\ delivered[m] < MaxCopies
    /\ delivered[m] > 0 => copies[m] = 0
    /\ copies' = [copies EXCEPT ![m] = @ + 1]
    /\ delivered' = [delivered EXCEPT ![m] = @ + 1]
    /\ UNCHANGED <<known, handling, answered, handled, replied, failed, forgotten, cutOff, messageFaults>>

(* Mutant: no token is claimed. *)
TakeUnclaimed(m) ==
    /\ copies[m] > 0 /\ copies' = [copies EXCEPT ![m] = @ - 1]
    /\ IF Token(m) \in known
       THEN answered' = answered \cup {m} /\ UNCHANGED <<known, handling>>
       ELSE handling' = [handling EXCEPT ![m] = "named"] /\ UNCHANGED <<answered, known>>
    /\ UNCHANGED <<delivered, handled, replied, failed, forgotten, cutOff, messageFaults>>

(* A message that is known is answered and ignored, though it may still be *)
(* under way; another one is claimed.                                      *)
Take(m) ==
    /\ copies[m] > 0 /\ copies' = [copies EXCEPT ![m] = @ - 1]
    /\ IF Token(m) \in known
       THEN answered' = answered \cup {m} /\ UNCHANGED <<known, handling>>
       ELSE /\ known' = known \cup {Token(m)}
            /\ handling' = [handling EXCEPT ![m] = "named"] /\ UNCHANGED answered
    /\ UNCHANGED <<delivered, handled, replied, failed, forgotten, cutOff, messageFaults>>

(* handleInboundMessage returns, or throws: then Feishu has no answer.     *)
Handle(m) ==
    /\ handling[m] = "named"
    /\ \/ /\ handling' = [handling EXCEPT ![m] = "reaction"]
          /\ handled' = [handled EXCEPT ![m] = @ + 1] /\ UNCHANGED <<failed, messageFaults>>
       \/ /\ MessageFault /\ failed' = failed \cup {m}
          /\ handling' = [handling EXCEPT ![m] = "no"] /\ UNCHANGED handled
    /\ UNCHANGED <<copies, delivered, known, answered, replied, forgotten, cutOff>>

(* sendFeishuInboundAck in the mode reaction_only: a text follows when the *)
(* reaction has failed, or an answer has to be read.                       *)
React(m) ==
    /\ handling[m] = "reaction"
    /\ \/ /\ handling' = [handling EXCEPT ![m] = "no"]
          /\ answered' = answered \cup {m} /\ replied' = replied \cup {m} /\ UNCHANGED messageFaults
       \/ /\ handling' = [handling EXCEPT ![m] = "text"] /\ UNCHANGED <<answered, replied>>
          /\ MessageFault \/ UNCHANGED messageFaults
    /\ UNCHANGED <<copies, delivered, known, handled, failed, forgotten, cutOff>>

SendText(m) ==
    /\ handling[m] = "text"
    /\ \/ replied' = replied \cup {m} /\ UNCHANGED messageFaults
       \/ MessageFault /\ UNCHANGED replied
    /\ handling' = [handling EXCEPT ![m] = "no"] /\ answered' = answered \cup {m}
    /\ UNCHANGED <<copies, delivered, known, handled, failed, forgotten, cutOff>>

(* Bound: no message takes ten minutes to handle.                          *)
ExpireToken(m) ==
    /\ Token(m) \in known /\ handling[m] = "no" /\ MessageFault
    /\ known' = known \ {Token(m)} /\ forgotten' = forgotten \cup {m}
    /\ UNCHANGED <<copies, delivered, handling, answered, handled, replied, failed, cutOff>>

ForgetMessages ==
    /\ MessageFault
    /\ known' = {}
    /\ forgotten' = forgotten \cup {m \in Messages : Token(m) \in known}
    /\ cutOff' = cutOff \cup {m \in Messages : handling[m] # "no"}
    /\ handling' = [m \in Messages |-> "no"]
    /\ UNCHANGED <<copies, delivered, answered, handled, replied, failed>>

MessageStep(m) == Take(m) \/ Handle(m) \/ React(m) \/ SendText(m)

FeishuNext == (\E m \in Messages : Deliver(m) \/ MessageStep(m) \/ ExpireToken(m)) \/ ForgetMessages

FeishuSpec == FeishuInit /\ [][FeishuNext]_feishuVars

FeishuFairSpec ==
    /\ FeishuSpec
    /\ \A m \in Messages : WF_feishuVars(MessageStep(m)) /\ WF_feishuVars(Deliver(m))

-----------------------------------------------------------------------------
(* However often a message is delivered, it is handled once, unless its    *)
(* token has been forgotten.                                               *)
MessageHandledOnce == \A m \in Messages : handled[m] <= 1 \/ m \in forgotten

(* Every message is handled in the end, but for those whose handling threw *)
(* or was cut off by a restart: these may be lost, as a second delivery    *)
(* has been answered meanwhile.                                            *)
MessagesAreHandled ==
    \A m \in Messages :
        []<>(delivered[m] > 0 => handled[m] > 0 \/ m \in failed \cup cutOff)
=============================================================================
