------------------------------- MODULE Request -------------------------------
(***************************************************************************)
(* What a provider is asked on behalf of a CLI that believes to talk to    *)
(* Claude.  The CLI sends the whole conversation every time; the proxy     *)
(* asks for a model the provider has, drops the oldest turns that do not   *)
(* fit its window, leaves out the reasoning of other providers, gives the  *)
(* tools names that are short enough, and tells a failure so that the CLI  *)
(* asks again only when that can help.  A session changes its provider in  *)
(* the middle, and then carries what the others said.  The CLI and the     *)
(* providers are external.                                                 *)
(***************************************************************************)
EXTENDS Naturals, Sequences, FiniteSets

CONSTANTS
    ModelWindow,  \* of each family of models: how much it takes
    Overhead,     \* the system prompt and the tools, which are sent whole
    Weight,       \* what a message may add
    Tool,         \* the tools' names in the CLI
    Brief,        \* of each tool: its name cut to what the providers allow
    Suffixed,     \* of each tool: that name with _1, _2, ... instead of its end
    Offers,       \* the lists of tools the CLI may send
    MaxOffer,     \* how long such a list is
    Strangers,    \* makers of signatures that none of the checks knows
    Shape,        \* of each signature: what the checks look at
    Candid,       \* TRUE: what lasts is refused by its status, and no login that holds
    MaxTalk, MaxTries, MaxMoves, MaxCalls

Proxies == {"codex", "grok"}
Families == Proxies \cup {"claude"}

\* What another account may sign with, "codex#" being a Codex signature under the
\* prefix of a cache.  A signature is named for who made it.
Foreign == {"none", "claude", "gemini", "codex#"} \cup Strangers
Signature == Foreign \cup Proxies

\* How a signature begins, whether what it encodes is a Fernet token, Claude's tree
\* of fields or one of Gemini's envelopes, and whether it is unpadded base64, long
\* and random enough for a ciphertext of Grok's.
ShapeType ==
    [starts : {"gAAAA", "E", "R", "other"}, fernet : BOOLEAN, tree : BOOLEAN,
     envelope : {"none", "field1", "field2"}, cipher : BOOLEAN]

ASSUME RequestAssumption ==
    /\ ModelWindow \in [Families -> Nat] /\ Overhead \in Nat /\ Weight \subseteq Nat
    /\ {MaxTalk, MaxTries, MaxMoves, MaxCalls, MaxOffer} \subseteq Nat /\ Candid \in BOOLEAN
    /\ Strangers \cap {"none", "claude", "gemini", "codex", "codex#", "grok"} = {}
    /\ Shape \in [Signature -> ShapeType]
    /\ Shape["none"].starts = "other" /\ ~Shape["none"].cipher /\ ~Shape["codex#"].cipher
    /\ Shape["codex"].starts = "gAAAA" /\ Shape["codex"].fernet
    /\ Shape["claude"].starts \in {"E", "R"} /\ Shape["claude"].tree
    /\ Shape["gemini"].starts # "gAAAA" /\ Shape["gemini"].envelope # "none"
    /\ Shape["grok"].starts # "gAAAA" /\ ~Shape["grok"].tree
    /\ Shape["grok"].envelope = "none" /\ Shape["grok"].cipher
    /\ \A offer \in Offers :
         /\ offer \in Seq(Tool) /\ Len(offer) <= MaxOffer
         /\ \A i, j \in 1..Len(offer) : offer[i] = offer[j] => i = j
    /\ \A t \in Tool : \A i, j \in 1..MaxOffer : Suffixed[t][i] = Suffixed[t][j] => i = j

VARIABLES
    talk,    \* the conversation as the CLI holds it
    runsOn,  \* the session's account: one of the proxies, or another
    asksFor, \* the family of the model id the CLI sends
    turn,    \* "rest", "ask", "sent" to the provider, or "told" of a failure
    sent,    \* what the provider was sent
    told,    \* the last failure: how it was told, and why it was
    tries,   \* how often the CLI has asked again
    meant,   \* what the provider said last, as it meant it
    moves    \* changes of the account so far

rqVars == <<talk, runsOn, asksFor, turn, sent, told, tries, meant, moves>>

NoRequest == [to |-> "none"]
NoReply == [role |-> "none"]
Untold == [how |-> "none", why |-> "none"]

Total == IF talk = <<>> THEN 0 ELSE talk[Len(talk)].upto

\* A message: whose reasoning it carries, the calls it makes and those it answers,
\* and how long the conversation is with it.
Message(role, by, calls, answers, w) ==
    [role |-> role, by |-> by, calls |-> calls, answers |-> answers, upto |-> Total + w]

Awaited == IF talk = <<>> THEN {} ELSE talk[Len(talk)].calls

RqInit ==
    /\ talk = <<>> /\ tries = 0 /\ moves = 0
    /\ runsOn \in Proxies \cup {"other"} /\ asksFor \in Families
    /\ turn = "rest" /\ sent = NoRequest /\ told = Untold /\ meant = NoReply

-----------------------------------------------------------------------------
(* The window *)

\* Mutant: a turn starts wherever the user's role does.
AnyUserStart(m) == m.role = "user"

\* isCleanTurnStart: the results of calls lead their message.
CleanStart(m) == m.role = "user" /\ m.answers = {}

\* EstimateTokens of the request with the messages from k on.
Size(k) == Overhead + Total - (IF k = 1 THEN 0 ELSE talk[k - 1].upto)

\* Where the conversation may be cut so that the rest fits.
Fitting(w) == {k \in 2..Len(talk) : CleanStart(talk[k]) /\ Size(k) <= w}

\* Mutant: the shortest that may be sent.
KeptLast(w) ==
    IF Size(1) <= w THEN 1
    ELSE IF Fitting(w) = {} THEN 0
    ELSE CHOOSE k \in Fitting(w) : \A j \in Fitting(w) : k >= j

\* FitContextToWindow: the first message that is kept, 0 if nothing fits.
KeptFrom(w) ==
    IF Size(1) <= w THEN 1
    ELSE IF Fitting(w) = {} THEN 0
    ELSE CHOOSE k \in Fitting(w) : \A j \in Fitting(w) : k <= j

\* Mutant: the model goes out as the CLI named it.
AsNamed(p) == asksFor

\* codexModelOrFallback, grokModelOrFallback
ModelOrFallback(p) == IF asksFor = p THEN asksFor ELSE p

-----------------------------------------------------------------------------
(* Reasoning *)

\* SignaturePayloadWithoutProviderPrefix
Payload(sig) == IF sig = "codex#" THEN "codex" ELSE sig

\* The makers' checks look at the shape only; what Grok sends has none, so whatever
\* could be a ciphertext and is none of the others' is taken for Grok's.
IsValidGPTReasoningSignature(payload) == Shape[payload].starts = "gAAAA" /\ Shape[payload].fernet
IsValidClaudeThinkingSignature(payload) == Shape[payload].starts \in {"E", "R"} /\ Shape[payload].tree

\* Mutant: of the envelopes only the older is known.
OlderEnvelope(payload) == Shape[payload].envelope = "field1"

IsValidGeminiThoughtSignature(payload) == Shape[payload].envelope # "none"

IsValidGrokEncryptedContent(sig) ==
    /\ Shape[sig].cipher /\ Shape[sig].starts # "gAAAA"
    /\ ~IsValidClaudeThinkingSignature(sig) /\ ~IsValidGeminiThoughtSignature(sig)

\* DetectSignatureProvider: under a prefix it looks for that maker's only, and it
\* does not look for Grok's.
Detected(sig) ==
    IF IsValidGPTReasoningSignature(Payload(sig)) THEN "codex"
    ELSE IF sig = "codex#" THEN "unknown"
    ELSE IF IsValidClaudeThinkingSignature(sig) THEN "claude"
    ELSE IF IsValidGeminiThoughtSignature(sig) THEN "gemini"
    ELSE "unknown"

\* Mutant: what comes from somewhere is kept.
AnyKnown(sig) == IF Detected(sig) # "unknown" THEN Payload(sig) ELSE "none"

\* CompatibleSignatureForProvider(GPT)
GptSignature(sig) == IF Detected(sig) = "codex" THEN Payload(sig) ELSE "none"

\* Mutant: what is not Codex's is taken for Grok's.
NotGpt(sig) == IF sig = "codex" THEN "none" ELSE sig

GrokSignature(sig) == IF IsValidGrokEncryptedContent(sig) THEN sig ELSE "none"

\* Mutant: keyed off one provider.
ReplayedAsGpt(m, model) == IF m.role # "assistant" THEN "none" ELSE GptSignature(m.by)

\* appendReasoningContent, keyed off the model that is asked.
Replayed(m, model) ==
    IF m.role # "assistant" THEN "none"
    ELSE IF model = "grok" THEN GrokSignature(m.by) ELSE GptSignature(m.by)

-----------------------------------------------------------------------------
(* Tools *)

\* Mutant: a name that is taken gets its number, taken or not.
FirstNumber(t, used) == IF Brief[t] \notin used THEN Brief[t] ELSE Suffixed[t][1]

\* makeUnique
Unused(t, used) ==
    IF Brief[t] \notin used THEN Brief[t]
    ELSE Suffixed[t][CHOOSE n \in 1..MaxOffer :
             Suffixed[t][n] \notin used /\ \A m \in 1..(n - 1) : Suffixed[t][m] \in used]

\* The names that are used after the first k tools.
Used(offer) ==
    LET used[k \in Nat] == IF k = 0 THEN {} ELSE used[k - 1] \cup {Unused(offer[k], used[k - 1])}
    IN  used

\* Mutant: each name is cut by itself.
CutNames(offer) == [k \in 1..Len(offer) |-> Brief[offer[k]]]

\* buildShortNameMap
ShortNames(offer) == [k \in 1..Len(offer) |-> Unused(offer[k], Used(offer)[k - 1])]

\* Mutant: as it is by itself.
NameAlone(offer, t) == Brief[t]

\* The name of a tool that was called before: as it is offered now, if it is.
NameIn(offer, t) ==
    IF \E k \in 1..Len(offer) : offer[k] = t
    THEN ShortNames(offer)[CHOOSE k \in 1..Len(offer) : offer[k] = t]
    ELSE Brief[t]

\* buildReverseMapFromClaudeOriginalShortToOriginal
ToolOf(names, offer, name) == offer[CHOOSE k \in DOMAIN names : names[k] = name]

\* Mutant: a choice is sent with no tools to choose from.
ChoiceAnyway(offer) == TRUE

\* convertClaudeToolChoiceToCodex, dropOrphanToolChoice
HasChoice(offer) == offer # <<>>

\* Mutant: the shared builder offers it.
DrawsAlways(p) == TRUE

\* injectImageTool is in the Codex proxy's builder only.
Draws(p) == p = "codex"

-----------------------------------------------------------------------------
(* The proxy *)

Translated(m, model, offer) ==
    [reasoning |-> Replayed(m, model), outputs |-> m.answers,
     calls |-> {[id |-> c, name |-> NameIn(offer, c.tool)] : c \in m.calls}]

\* ConvertClaudeRequestToCodex, buildCodexRequest, buildGrokRequest
Built(p, first, offer, stream) ==
    [to |-> p, model |-> ModelOrFallback(p), first |-> first, stream |-> stream,
     input |-> [k \in first..Len(talk) |-> Translated(talk[k], ModelOrFallback(p), offer)],
     offer |-> offer, names |-> ShortNames(offer), choice |-> HasChoice(offer), draws |-> Draws(p)]

Kept == KeptFrom(ModelWindow[ModelOrFallback(runsOn)])

TellsCLI(how, why) ==
    /\ turn' = "told" /\ told' = [how |-> how, why |-> why] /\ sent' = NoRequest
    /\ UNCHANGED <<talk, runsOn, asksFor, tries, meant, moves>>

\* handleMessages: even the latest turn does not fit.
TooLong == turn = "ask" /\ runsOn \in Proxies /\ Kept = 0 /\ TellsCLI("final", "window")

\* Mutant: the CLI is told 401, which it tries again.
LoginAsItIs == "retry"

\* "Non-retryable 400: a dead login will not fix on a retry".
DeadLogin == "final"

LoginDead == turn = "ask" /\ runsOn \in Proxies /\ Kept # 0 /\ TellsCLI(DeadLogin, "login")

Forward(offer, stream) ==
    /\ turn = "ask" /\ runsOn \in Proxies /\ Kept # 0
    /\ turn' = "sent"
    /\ sent' = Built(runsOn, Kept, offer, stream)
    /\ UNCHANGED <<talk, runsOn, asksFor, told, tries, meant, moves>>

\* Mutant: every status is passed on.
Passed(why) == "retry"

\* ClassifyUpstreamError
Classified(why) == IF why \in {"overflow", "exhausted", "nomodel"} THEN "final" ELSE "retry"

\* finishBrokenStream tells only an overflow apart, bufferBack nothing.
Inline(why) == IF why = "overflow" /\ sent.stream THEN "final" ELSE "retry"

\* The provider answers with a status that is no success.
Refuses(why) ==
    /\ turn = "sent"
    /\ why \in {"overflow", "exhausted", "nomodel", "busy"} \cup (IF Candid THEN {} ELSE {"unauthorized"})
    /\ TellsCLI(Classified(why), why)

\* It cannot be reached, or its stream ends with no end.
Drops == turn = "sent" /\ TellsCLI("retry", "dropped")

\* It fails in its stream.
FailsInline(why) ==
    /\ turn = "sent"
    /\ why \in IF Candid THEN {"busy"} \cup (IF sent.stream THEN {"overflow"} ELSE {})
               ELSE {"busy", "overflow", "exhausted"}
    /\ TellsCLI(Inline(why), why)

Nothing == [by |-> "none", names |-> {}]

\* Mutant: the last event is all there is.
LastEventOnly(output, items) == output

\* CompletedEventForNonStream: what the last event does not carry was streamed before.
CompletedEvent(output, items) == IF output # Nothing THEN output ELSE items

\* It answers with reasoning and calls of some of the tools; unless it is streamed
\* on, of the last event, which may carry nothing.
Replies(called, thinks, bare, w) ==
    LET said == [by |-> IF thinks THEN runsOn ELSE "none", names |-> {sent.names[k] : k \in called}]
        got == IF sent.stream THEN said ELSE CompletedEvent(IF bare THEN Nothing ELSE said, said)
        Call(t) == [at |-> Len(talk) + 1, tool |-> t]
        calls == {Call(ToolOf(sent.names, sent.offer, name)) : name \in got.names}
    IN  /\ turn = "sent" /\ Len(talk) < MaxTalk
        /\ called \subseteq DOMAIN sent.names /\ Cardinality(called) <= MaxCalls
        /\ talk' = Append(talk, Message("assistant", got.by, calls, {}, w))
        /\ meant' = Message("assistant", said.by, {Call(sent.offer[k]) : k \in called}, {}, w)
        /\ turn' = "rest" /\ sent' = NoRequest /\ told' = Untold /\ tries' = 0
        /\ UNCHANGED <<runsOn, asksFor, moves>>

-----------------------------------------------------------------------------
(* The CLI and the session *)

Adds(m) ==
    /\ Len(talk) < MaxTalk
    /\ talk' = Append(talk, m)
    /\ meant' = NoReply

\* A prompt, when no call waits for its result.
Says(w) ==
    /\ turn = "rest" /\ Awaited = {}
    /\ Adds(Message("user", "none", {}, {}, w))
    /\ turn' = "ask" /\ told' = Untold /\ tries' = 0
    /\ UNCHANGED <<runsOn, asksFor, sent, moves>>

\* The results of the calls, in one message.
Reports(w) ==
    /\ turn = "rest" /\ Awaited # {}
    /\ Adds(Message("user", "none", {}, Awaited, w))
    /\ turn' = "ask" /\ told' = Untold /\ tries' = 0
    /\ UNCHANGED <<runsOn, asksFor, sent, moves>>

\* A reminder in a message of its own.
Reminds(w) ==
    /\ turn = "ask" /\ tries = 0 /\ talk[Len(talk)].role = "user"
    /\ Adds(Message("system", "none", {}, {}, w))
    /\ UNCHANGED <<runsOn, asksFor, turn, sent, told, tries, moves>>

\* Another account answers, which signs its reasoning in its own way.
OtherReplies(sig, calls, w) ==
    /\ turn = "ask" /\ runsOn = "other" /\ Cardinality(calls) <= MaxCalls
    /\ Adds(Message("assistant", sig, {[at |-> Len(talk) + 1, tool |-> t] : t \in calls}, {}, w))
    /\ turn' = "rest"
    /\ UNCHANGED <<runsOn, asksFor, sent, told, tries, moves>>

\* What was told as worth it is asked again.
Retries ==
    /\ turn = "told" /\ told.how = "retry" /\ tries < MaxTries
    /\ turn' = "ask" /\ tries' = tries + 1
    /\ UNCHANGED <<talk, runsOn, asksFor, sent, told, meant, moves>>

GivesUp ==
    /\ turn = "told"
    /\ turn' = "rest" /\ tries' = 0
    /\ UNCHANGED <<talk, runsOn, asksFor, sent, told, meant, moves>>

\* The conversation becomes a summary.
Compacts(w) ==
    /\ turn = "rest" /\ Len(talk) > 1 /\ Awaited = {}
    /\ talk' = <<[Message("user", "none", {}, {}, w) EXCEPT !.upto = w]>>
    /\ meant' = NoReply
    /\ UNCHANGED <<runsOn, asksFor, turn, sent, told, tries, moves>>

\* The session goes to another account, which ends what was asked, and may carry
\* the model id of the one it leaves.
Moves(p, model) ==
    /\ moves < MaxMoves /\ p # runsOn /\ model \in {asksFor} \cup ({p} \cap Families)
    /\ runsOn' = p /\ asksFor' = model /\ moves' = moves + 1
    /\ turn' = "rest" /\ sent' = NoRequest /\ told' = Untold /\ tries' = 0
    /\ UNCHANGED <<talk, meant>>

RqNext ==
    \/ TooLong \/ LoginDead \/ Drops \/ Retries \/ GivesUp
    \/ \E offer \in Offers, stream \in BOOLEAN : Forward(offer, stream)
    \/ \E why \in {"overflow", "exhausted", "nomodel", "busy", "unauthorized"} : Refuses(why) \/ FailsInline(why)
    \/ \E w \in Weight :
         \/ Says(w) \/ Reports(w) \/ Reminds(w) \/ Compacts(w)
         \/ \E called \in SUBSET (1..MaxOffer), thinks, bare \in BOOLEAN : Replies(called, thinks, bare, w)
         \/ \E sig \in Foreign, calls \in SUBSET Tool : OtherReplies(sig, calls, w)
    \/ \E p \in Proxies \cup {"other"}, model \in Families : Moves(p, model)

RqSpec == RqInit /\ [][RqNext]_rqVars

-----------------------------------------------------------------------------
(* Properties *)

Call == [at : Nat, tool : Tool]
MessageType == [role : {"user", "assistant", "system"}, by : Signature, calls : SUBSET Call,
                answers : SUBSET Call, upto : Nat]

RqTypeOK ==
    /\ talk \in Seq(MessageType) /\ runsOn \in Proxies \cup {"other"} /\ asksFor \in Families
    /\ turn \in {"rest", "ask", "sent", "told"}
    /\ told.how \in {"none", "retry", "final"} /\ tries \in Nat /\ moves \in Nat
    /\ meant = NoReply \/ meant \in MessageType
    /\ turn = "sent" => sent.to = runsOn /\ sent.first \in 1..Len(talk) /\ sent.offer \in Offers

\* "A tool_result is never orphaned from its tool_use", wherever the conversation
\* was cut: each result that is sent has its call before it.
CallsArePaired ==
    turn = "sent" =>
        \A k \in DOMAIN sent.input : \A c \in sent.input[k].outputs :
            \E j \in DOMAIN sent.input : j < k /\ \E call \in sent.input[j].calls : call.id = c

\* "A reasoning block must only be replayed to the provider that produced it",
\* however often the session changed it; and it is there, if that may be.
ReasoningGoesHome ==
    turn = "sent" =>
        \A k \in DOMAIN sent.input :
            /\ sent.input[k].reasoning \in {"none", runsOn}
            /\ talk[k].role = "assistant" /\ talk[k].by = runsOn => sent.input[k].reasoning = runsOn

\* Each tool is offered under a name of its own, and what was called before goes by
\* that name; no choice without tools; no tool or model the provider does not have.
AsksForWhatIsThere ==
    turn = "sent" =>
        /\ sent.model = runsOn
        /\ sent.draws => runsOn = "codex"
        /\ sent.choice => sent.names # <<>>
        /\ \A i, j \in DOMAIN sent.names : sent.names[i] = sent.names[j] => i = j
        /\ \A k \in DOMAIN sent.input : \A c \in sent.input[k].calls : \A i \in DOMAIN sent.names :
               sent.offer[i] = c.id.tool => c.name = sent.names[i]

\* What may be sent of the conversation: whole turns, to the latest.
MayBegin(k) == k = 1 \/ CleanStart(talk[k])

\* As much is sent as fits the window of the model that is asked, and nothing is
\* refused as too long of which the latest turn fits.
LeastIsDropped ==
    /\ turn = "sent" =>
        /\ MayBegin(sent.first) /\ Size(sent.first) <= ModelWindow[runsOn]
        /\ \A k \in 1..(sent.first - 1) : MayBegin(k) => Size(k) > ModelWindow[runsOn]
    /\ turn = "told" /\ told.why = "window" =>
        \A k \in 1..Len(talk) : MayBegin(k) => Size(k) > ModelWindow[runsOn]

\* The CLI asks again what may succeed then, and nothing else.
AskedAgainIfItHelps ==
    /\ told.how = "retry" => told.why \in {"busy", "dropped"}
    /\ told.how = "final" => told.why \in {"window", "login", "overflow", "exhausted", "nomodel"}
    /\ tries > 0 /\ turn # "told" => told.why \in {"busy", "dropped"}

\* An answer reaches the conversation whole, with the calls of the tools that were
\* called, streamed or not.
HeardWhole == meant # NoReply => talk # <<>> /\ talk[Len(talk)] = meant

RequestIsSound ==
    /\ CallsArePaired /\ ReasoningGoesHome /\ AsksForWhatIsThere
    /\ LeastIsDropped /\ AskedAgainIfItHelps /\ HeardWhole
=============================================================================
