----------------------------- MODULE AgentLoop -----------------------------
(***************************************************************************)
(* AgentRuntime.execute (packages/agent-runtime/src/index.ts): one task is *)
(* put to a language model, in rounds of tool calls when there are tools,  *)
(* with a deterministic answer to fall back on.  Model servers are tried   *)
(* one after the other for each completion; any of them may be down.       *)
(***************************************************************************)
EXTENDS Naturals, Sequences, FiniteSets, SequencesExt

CONSTANTS
    Primaries,      \* possible values of primaryBackend
    Keys,           \* the providers that an API key is configured for
    MaxRounds,      \* MAX_TOOL_ROUNDS
    MaxCalls        \* bound: tool calls in one message of the model

Keyed == {"zhipu", "openai", "dashscope"}
Backends == Keyed \cup {"sglang", "ollama"}

AgentAssumption ==
    /\ Primaries \subseteq Backends /\ Keys \subseteq Keyed
    /\ MaxRounds \in Nat \ {0} /\ MaxCalls \in Nat

VARIABLES
    at,         \* the statement of execute that comes next
    primary,
    left,       \* the servers not yet tried for this completion
    round,
    calls,      \* tool calls of this round to be handled, by the verdict of the rules
    unanswered, \* tool calls in the conversation without a tool message
    author,     \* who wrote the text at hand
    files,      \* the tools have left files in the work directory
    trace,      \* the telemetry trace of the task
    answer      \* what execute returned

agentVars == <<at, primary, left, round, calls, unanswered, author, files, trace, answer>>

RuleVerdicts == {"allow", "deny"}
Nobody == "nobody"
Authors == Backends \cup {"fallback", Nobody}
NoAnswer == [by |-> Nobody, backend |-> Nobody, files |-> FALSE]

Asking == {"plan", "round", "json", "plain", "repair"}

AgentTypeOK ==
    /\ at \in Asking \cup {"start", "tools", "reasoning", "returned", "thrown"}
    /\ primary \in Primaries
    /\ left \in Seq(Backends) /\ Len(left) <= 5
    /\ round \in 0..MaxRounds
    /\ calls \in Seq(RuleVerdicts) /\ Len(calls) <= MaxCalls
    /\ unanswered \in 0..MaxCalls
    /\ author \in Authors
    /\ files \in BOOLEAN
    /\ trace \in {"none", "started", "completed"}
    /\ answer \in [by : Authors, backend : Authors, files : BOOLEAN]

(* The order of the servers: completeWithTools never asks ollama.          *)
ToolOrder(p) ==
    CASE p = "openai"    -> <<"openai", "dashscope", "zhipu", "sglang">>
      [] p = "zhipu"     -> <<"zhipu", "dashscope", "openai", "sglang">>
      [] p = "dashscope" -> <<"dashscope", "openai", "zhipu", "sglang">>
      [] OTHER           -> <<"sglang", "dashscope", "openai", "zhipu">>

PlainOrder(p) ==
    CASE p = "sglang" -> <<"sglang", "dashscope", "openai", "ollama", "zhipu">>
      [] p = "ollama" -> <<"ollama", "dashscope", "openai", "sglang", "zhipu">>
      [] OTHER        -> Append(ToolOrder(p), "ollama")

(* A provider without a key is passed over, except in rounds of tools.     *)
CanAnswer(b) == at \in {"round", "json"} \/ b \in Keys \cup (Backends \ Keyed)

AgentInit ==
    /\ at \in {"plan", "start"}
    /\ primary \in Primaries
    /\ left = IF at = "plan" THEN PlainOrder(primary) ELSE <<>>
    /\ round = 0 /\ calls = <<>> /\ unanswered = 0
    /\ author = Nobody /\ files = FALSE
    /\ trace = "none" /\ answer = NoAnswer

AskServers(place, order) == at' = place /\ left' = order

(* completeTrace and return.                                               *)
Answer(by, backend, withFiles) ==
    /\ answer' = [by |-> by, backend |-> backend, files |-> withFiles]
    /\ at' = "returned" /\ left' = <<>>
    /\ trace' = IF trace = "started" THEN "completed" ELSE trace

(* Mutant: buildFallbackOutput is returned as it is, without files.        *)
FallBackBare(f) == Answer("fallback", "fallback", FALSE)

(* buildFallbackOutput; after rounds of tools, the files are added.        *)
FallBack(f) == Answer("fallback", "fallback", f)

-----------------------------------------------------------------------------
(* The trace is started, and the first completion asked for.               *)
StartTrace ==
    /\ at = "start"
    /\ trace' = "started"
    /\ \/ AskServers("round", ToolOrder(primary))
       \/ AskServers("plain", PlainOrder(primary))
    /\ UNCHANGED <<primary, round, calls, unanswered, author, files, answer>>

(* The next server is down, has no key or says nothing: the one after it   *)
(* is tried.                                                               *)
ServerFails ==
    /\ at \in Asking /\ Len(left) > 1
    /\ left' = Tail(left)
    /\ UNCHANGED <<at, primary, round, calls, unanswered, author, files, trace, answer>>

Replies(b) == at \in Asking /\ left # <<>> /\ b = Head(left) /\ CanAnswer(b)

(* The last one fails as well: what each caller of a completion does then. *)
AllFail ==
    /\ at \in Asking /\ Len(left) = 1
    /\ CASE at = "plan"   -> at' = "start" /\ left' = <<>> /\ UNCHANGED <<trace, answer>>
         [] at = "round"  -> FallBack(files)
         [] at = "plain"  -> FallBack(FALSE)
         [] at = "json"   -> Answer(author, author, files)
         [] at = "repair" -> Answer(author, author, FALSE)
    /\ UNCHANGED <<primary, round, calls, unanswered, author, files>>

(* runPreExecutePlan: go ahead, or ask the user, who gets the              *)
(* deterministic answer with the question in it.                           *)
Plan(b) ==
    /\ Replies(b) /\ at = "plan"
    /\ \/ AskServers("start", <<>>) /\ UNCHANGED <<trace, answer>>
       \/ FallBack(FALSE)
    /\ UNCHANGED <<primary, round, calls, unanswered, author, files>>

-----------------------------------------------------------------------------
(* A round of tools.                                                       *)

ModelCalls(b) ==
    /\ Replies(b) /\ at = "round"
    /\ \E n \in 1..MaxCalls : calls' \in [1..n -> RuleVerdicts] /\ unanswered' = n
    /\ at' = "tools" /\ left' = <<>>
    /\ UNCHANGED <<primary, round, author, files, trace, answer>>

(* Mutant: a denied call is skipped without a word. *)
DenySilently ==
    /\ at = "tools" /\ calls # <<>> /\ Head(calls) = "deny"
    /\ calls' = Tail(calls)
    /\ UNCHANGED <<at, primary, left, round, unanswered, author, files, trace, answer>>

(* The pre-execution rules deny the call: the model is told so.            *)
Deny ==
    /\ at = "tools" /\ calls # <<>> /\ Head(calls) = "deny"
    /\ calls' = Tail(calls)
    /\ unanswered' = unanswered - 1
    /\ UNCHANGED <<at, primary, left, round, author, files, trace, answer>>

(* executeTool turns every exception into the text of a tool message.      *)
ExecuteCall ==
    /\ at = "tools" /\ calls # <<>> /\ Head(calls) = "allow"
    /\ calls' = Tail(calls)
    /\ unanswered' = unanswered - 1
    /\ files' \in {files, TRUE}
    /\ UNCHANGED <<at, primary, left, round, author, trace, answer>>

(* Mutant: the rounds are not counted. *)
NextRoundUncounted ==
    /\ at = "tools" /\ calls = <<>>
    /\ AskServers("round", ToolOrder(primary))
    /\ UNCHANGED <<primary, round, calls, unanswered, author, files, trace, answer>>

NextRound ==
    /\ at = "tools" /\ calls = <<>>
    /\ round' = round + 1
    /\ IF round + 1 < MaxRounds
       THEN AskServers("round", ToolOrder(primary)) /\ UNCHANGED <<trace, answer>>
       ELSE FallBack(files)
    /\ UNCHANGED <<primary, calls, unanswered, author, files>>

(* A message without calls: a result in JSON, prose that is sent back once *)
(* for JSON, nothing, or only the model's reasoning.                       *)
ModelAnswers(b) ==
    /\ Replies(b) /\ at = "round"
    /\ \/ Answer(b, b, files) /\ UNCHANGED author
       \/ FallBack(files) /\ UNCHANGED author
       \/ /\ AskServers("json", ToolOrder(primary)) /\ author' = b
          /\ UNCHANGED <<trace, answer>>
       \/ /\ AskServers("reasoning", <<>>) /\ author' = b
          /\ UNCHANGED <<trace, answer>>
    /\ UNCHANGED <<primary, round, calls, unanswered, files>>

(* finalizeReasoning puts the reasoning into an answer, with one more      *)
(* request to the same server.  Nothing catches its exception.             *)
Finalize ==
    /\ at = "reasoning"
    /\ \/ Answer(author, author, files)
       \/ AskServers("json", ToolOrder(primary)) /\ UNCHANGED <<trace, answer>>
       \/ at' = "thrown" /\ UNCHANGED <<left, trace, answer>>
    /\ UNCHANGED <<primary, round, calls, unanswered, author, files>>

(* Mutant: the server of the first attempt is named. *)
SecondAttemptMisnamed(b) ==
    /\ Replies(b) /\ at \in {"json", "repair"}
    /\ \/ Answer(b, author, files) 
       \/ Answer(author, author, files)
    /\ UNCHANGED <<primary, round, calls, unanswered, author, files>>

(* The second attempt is in JSON and is the answer, whoever wrote it, or   *)
(* the prose of the first one is.                                          *)
SecondAttempt(b) ==
    /\ Replies(b) /\ at \in {"json", "repair"}
    /\ \/ Answer(b, b, files)
       \/ Answer(author, author, files)
    /\ UNCHANGED <<primary, round, calls, unanswered, author, files>>

(* Without tools: one completion, and one attempt to repair its JSON.      *)
PlainAnswers(b) ==
    /\ Replies(b) /\ at = "plain"
    /\ \/ Answer(b, b, FALSE) /\ UNCHANGED author
       \/ /\ AskServers("repair", PlainOrder(primary)) /\ author' = b
          /\ UNCHANGED <<trace, answer>>
    /\ UNCHANGED <<primary, round, calls, unanswered, files>>

AgentStep ==
    \/ StartTrace \/ ServerFails \/ AllFail \/ Deny \/ ExecuteCall \/ NextRound \/ Finalize
    \/ \E b \in Backends :
          Plan(b) \/ ModelCalls(b) \/ ModelAnswers(b) \/ SecondAttempt(b) \/ PlainAnswers(b)

AgentSpec == AgentInit /\ [][AgentStep]_agentVars

AgentFairSpec ==
    /\ AgentSpec
    /\ WF_agentVars(AgentStep)

-----------------------------------------------------------------------------
(* The servers reject a conversation with a tool call that nothing         *)
(* answers: nothing is asked for while one is left, whatever rules and     *)
(* tools make of the calls.                                                *)
CallsAreAnswered == at \in {"round", "json"} => unanswered = 0

(* The answer names the server that wrote its text, through all attempts   *)
(* and fall-backs: the fallback is never passed off as a model's work.     *)
AnswerIsHonest == at = "returned" => answer.by = answer.backend

(* Files that the tools have written are handed over with the answer, also *)
(* when the servers fail after that.                                       *)
FilesAreHandedOver == at = "returned" => answer.files = files

(* What execute returns can be relied on: the conversation it comes from,  *)
(* the name under it and the files with it.                                *)
AnswersAreSound == CallsAreAnswered /\ AnswerIsHonest /\ FilesAreHandedOver

(* Whatever the servers do, execute comes to an end, and the trace that it *)
(* began is completed unless an exception ended it.                        *)
Ended == at = "thrown" \/ (at = "returned" /\ trace # "started")
ExecuteEnds == []<>Ended
=============================================================================
