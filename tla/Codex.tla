-------------------------------- MODULE Codex --------------------------------
(***************************************************************************)
(* The proxy that lets the `claude` CLI talk to a Codex or Grok model: it  *)
(* reads the upstream's /responses stream event by event, keeps a little   *)
(* state between events, and writes an Anthropic message stream.           *)
(* Upstream items are numbered in the order they begin; what an item says  *)
(* (a text, a call's arguments, a summary part) is one piece of data,      *)
(* which may reach the translator in deltas, or whole in a later event.    *)
(* The item a block tells of is kept beside it, for the properties only.   *)
(***************************************************************************)
EXTENDS Naturals, Sequences, FiniteSets, SequencesExt

CONSTANTS
    MaxItems,    \* bound: output items of a response
    MaxBroken,   \* bound: output items of a response that fails, is cut short or is cancelled
    Overlap,     \* the upstream streams an item while another is being streamed
    Mixed        \* one response has texts in deltas and a text that comes only whole

VARIABLES
    items,    \* what the upstream has begun: each with its kind and how far it is
    socket,   \* the upstream's stream: "new", "live", "told" (its terminal event is out), "closed"
    tr,       \* ConvertCodexResponseToClaudeParams, and the events written and not yet read
    relay,    \* StreamTranslate: running, what it noted of the stream, the request's context
    msg       \* what the CLI has put together

cxVars == <<items, socket, tr, relay, msg>>

None == 0
Kinds == {"thinking", "text", "tool_use", "server_tool_use", "web_search_tool_result"}

-----------------------------------------------------------------------------
(* The events of an Anthropic stream. *)

BlockStart(index, kind, of) == [type |-> "start", index |-> index, kind |-> kind, of |-> of]
BlockDelta(index, kind, of, data) ==
    [type |-> "delta", index |-> index, kind |-> kind, of |-> of, data |-> data]
BlockStop(index) == [type |-> "stop", index |-> index]
MessageStart == [type |-> "message_start"]
MessageDelta(reason) == [type |-> "message_delta", reason |-> reason]
MessageStop == [type |-> "message_stop"]
ErrorEvent == [type |-> "error"]

Emit(s, event) == [s EXCEPT !.wire = Append(@, event)]

-----------------------------------------------------------------------------
(* The helpers that open and close blocks. *)

StartText(s, i) ==
    IF s.text THEN s ELSE [Emit(s, BlockStart(s.idx, "text", i)) EXCEPT !.text = TRUE]

StopText(s) ==
    IF ~s.text THEN s ELSE [Emit(s, BlockStop(s.idx)) EXCEPT !.text = FALSE, !.idx = @ + 1]

StartThinking(s, i) ==
    IF s.thinking THEN s
    ELSE [Emit(s, BlockStart(s.idx, "thinking", i)) EXCEPT !.thinking = TRUE, !.stopPending = FALSE]

\* Mutant: a block that closes leaves its stop pending.
FinalizeThinkingOnly(s) ==
    IF ~s.thinking THEN s
    ELSE [Emit(s, BlockStop(s.idx)) EXCEPT !.idx = @ + 1, !.thinking = FALSE]

\* The signature is a delta of its own that adds nothing to the text.
FinalizeThinking(s) ==
    IF ~s.thinking THEN s
    ELSE LET signed == IF s.sig = None THEN s
                       ELSE Emit(s, BlockDelta(s.idx, "signature", s.sig, 0))
         IN  [Emit(signed, BlockStop(s.idx)) EXCEPT
                 !.idx = @ + 1, !.thinking = FALSE, !.stopPending = FALSE]

FinalizePending(s) == IF s.stopPending THEN FinalizeThinking(s) ELSE s

SignatureOnly(s, i) == IF s.sig = None THEN s ELSE FinalizeThinking(StartThinking(s, i))

WholeText(s, i) ==
    LET started == StartText(s, i)
    IN  StopText(Emit(started, BlockDelta(started.idx, "text", i, 1)))

\* A call whose block opens and closes at once: one that waited for its name.
WholeCall(s, i, args) ==
    LET started == Emit(s, BlockStart(s.idx, "tool_use", i))
        told == Emit(started, BlockDelta(s.idx, "tool_use", i, args))
    IN  [Emit(told, BlockStop(s.idx)) EXCEPT
            !.idx = @ + 1, !.tool = TRUE, !.pending = [c \in DOMAIN @ \ {i} |-> @[c]]]

StopOpenCall(s) ==
    IF s.call = None THEN s
    ELSE [Emit(s, BlockStop(s.callIdx)) EXCEPT
             !.idx = IF @ <= s.callIdx THEN s.callIdx + 1 ELSE @,
             !.call = None, !.callIdx = 0]

\* Mutant: arguments that came in deltas are said again when they come whole.
HydrateAgain(s, i, index) == [Emit(s, BlockDelta(index, "tool_use", i, 1)) EXCEPT !.gotArgs = TRUE]

\* The arguments of the open call, from an event that has them whole.
Hydrate(s, i, index) ==
    IF s.gotArgs THEN s
    ELSE [Emit(s, BlockDelta(index, "tool_use", i, 1)) EXCEPT !.gotArgs = TRUE]

-----------------------------------------------------------------------------
(* The upstream: external.  A response is a sequence of items, streamed one *)
(* at a time, but for two habits the tests record: a call that is announced *)
(* without its name is finished later, whatever came in between, and the    *)
(* closing events of a message may come after the call that follows it.     *)

Item(kind, named, early) ==
    [kind |-> kind, stage |-> "added", named |-> named, signed |-> early,
     sent |-> FALSE, part |-> FALSE, parts |-> 0]

Going(i) == i \in DOMAIN items /\ items[i].stage # "done"
Shown(i) == Going(i) /\ (items[i].kind = "call" => items[i].named)
Quiet == Overlap \/ \A i \in DOMAIN items : ~Shown(i)
SaidAll(i) == items[i].kind = "message" /\ items[i].sent
CallMayFollow == Overlap \/ \A i \in DOMAIN items : Shown(i) => SaidAll(i)

Is(i, kind) == Going(i) /\ items[i].kind = kind

MayBreak == Len(items) <= MaxBroken

\* The next event may be read: the relay has passed on what the last one made.
ReadsOn == socket = "live" /\ relay.running /\ tr.wire = <<>>

Begins(item) == Len(items) < MaxItems /\ items' = Append(items, item)

Told(s) == tr' = s /\ UNCHANGED <<socket, relay, msg>>

-----------------------------------------------------------------------------
(* One action per upstream event. *)

Created ==
    /\ socket = "new" /\ relay.running
    /\ socket' = "live" /\ tr' = Emit(tr, MessageStart)
    /\ UNCHANGED <<items, relay, msg>>

AddReasoning(early) ==
    /\ ReadsOn /\ Quiet
    /\ Begins(Item("reasoning", FALSE, early))
    /\ Told([tr EXCEPT !.seen = FALSE, !.sig = IF early THEN Len(items) + 1 ELSE None])

SummaryPartAdded(i) ==
    /\ ReadsOn /\ Is(i, "reasoning") /\ ~items[i].part /\ items[i].parts < 2
    /\ items' = [items EXCEPT ![i].part = TRUE, ![i].parts = @ + 1, ![i].sent = FALSE]
    /\ Told([StartThinking(FinalizePending(tr), i) EXCEPT !.seen = TRUE])

SummaryDelta(i) ==
    /\ ReadsOn /\ Is(i, "reasoning") /\ items[i].part /\ ~items[i].sent
    /\ items' = [items EXCEPT ![i].sent = TRUE]
    /\ Told(Emit(tr, BlockDelta(tr.idx, "thinking", i, 1)))

SummaryPartDone(i) ==
    /\ ReadsOn /\ Is(i, "reasoning") /\ items[i].part
    /\ items' = [items EXCEPT ![i].part = FALSE]
    /\ Told([tr EXCEPT !.stopPending = TRUE])

\* Mutant: a reasoning that showed no summary leaves nothing.
ReasonedInParts(s, i, late) ==
    LET signed == IF late THEN [s EXCEPT !.sig = i] ELSE s
    IN  [FinalizeThinking(signed) EXCEPT !.sig = None, !.seen = FALSE]

\* The done event may carry the signature, and may be the first to.
ReasonedOut(s, i, late) ==
    LET signed == IF late THEN [s EXCEPT !.sig = i] ELSE s
        closed == IF s.seen THEN FinalizeThinking(signed) ELSE SignatureOnly(signed, i)
    IN  [closed EXCEPT !.sig = None, !.seen = FALSE]

ReasoningDone(i, late) ==
    /\ ReadsOn /\ Is(i, "reasoning")
    /\ items' = [items EXCEPT ![i].stage = "done", ![i].signed = @ \/ late,
                              ![i].part = FALSE, ![i].parts = 0, ![i].sent = FALSE]
    /\ Told(ReasonedOut(tr, i, late))

AddMessage ==
    /\ ReadsOn /\ Quiet
    /\ Begins(Item("message", FALSE, FALSE))
    /\ Told(tr)

ContentPartAdded(i) ==
    /\ ReadsOn /\ Is(i, "message") /\ items[i].stage = "added" /\ ~items[i].part /\ ~items[i].sent
    /\ items' = [items EXCEPT ![i].part = TRUE]
    /\ Told(StartText(FinalizePending(tr), i))

\* Texts come in deltas, or whole: a response that does both is Mixed.
Streamed == \E i \in DOMAIN items : items[i].kind = "image" \/ (items[i].kind = "message" /\ items[i].sent)
CameWhole == \E i \in DOMAIN items : items[i].kind = "message" /\ items[i].stage = "done" /\ ~items[i].sent

TextDelta(i) ==
    /\ ReadsOn /\ Is(i, "message") /\ items[i].stage = "added" /\ ~items[i].sent
    /\ Mixed \/ ~CameWhole
    /\ items' = [items EXCEPT ![i].sent = TRUE, ![i].part = TRUE]
    /\ LET started == StartText(FinalizeThinking(tr), i)
       IN  Told([Emit(started, BlockDelta(started.idx, "text", i, 1)) EXCEPT !.hasText = TRUE])

ContentPartDone(i) ==
    /\ ReadsOn /\ Is(i, "message") /\ items[i].part
    /\ items' = [items EXCEPT ![i].part = FALSE, ![i].stage = "parted"]
    /\ Told(StopText(tr))

\* Mutant: the done event of a message says its text whatever was said before.
RepeatsAll(s, i) == [WholeText(FinalizeThinking(s), i) EXCEPT !.hasText = TRUE]

\* The text of a message that came in no delta is said now; of one that did, not again.
Repeats(s, i) == IF s.hasText THEN s ELSE [WholeText(FinalizeThinking(s), i) EXCEPT !.hasText = TRUE]

MessageDone(i) ==
    /\ ReadsOn /\ Is(i, "message") /\ ~items[i].part
    /\ items[i].sent \/ Mixed \/ (~Streamed /\ ~CameWhole)
    /\ items' = [items EXCEPT ![i].stage = "done"]
    /\ Told(Repeats(tr, i))

\* Mutants: a call starts its block under a text that is still open; and a call
\* counts as made before it has a name.
CallOverText(s, i, named) ==
    LET ready == [FinalizeThinking(s) EXCEPT !.gotArgs = FALSE]
        started == Emit(ready, BlockStart(ready.idx, "tool_use", i))
    IN  IF named
        THEN [started EXCEPT !.tool = TRUE, !.call = i, !.callIdx = ready.idx]
        ELSE [ready EXCEPT !.pending = [c \in DOMAIN @ \cup {i} |->
                                           IF c = i THEN [args |-> 0, got |-> FALSE] ELSE @[c]]]
CallCounted(s, i, named) ==
    LET ready == [StopText(FinalizeThinking(s)) EXCEPT !.gotArgs = FALSE, !.tool = TRUE]
        started == Emit(Emit(ready, BlockStart(ready.idx, "tool_use", i)), BlockDelta(ready.idx, "tool_use", i, 0))
    IN  IF named
        THEN [started EXCEPT !.call = i, !.callIdx = ready.idx]
        ELSE [ready EXCEPT !.pending = [c \in DOMAIN @ \cup {i} |->
                                           IF c = i THEN [args |-> 0, got |-> FALSE] ELSE @[c]]]

\* A call without a name yet is kept apart, and has no block.
CallAnnounced(s, i, named) ==
    LET ready == [StopText(FinalizeThinking(s)) EXCEPT !.gotArgs = FALSE]
        started == Emit(Emit(ready, BlockStart(ready.idx, "tool_use", i)), BlockDelta(ready.idx, "tool_use", i, 0))
    IN  IF named
        THEN [started EXCEPT !.tool = TRUE, !.call = i, !.callIdx = ready.idx]
        ELSE [ready EXCEPT !.pending = [c \in DOMAIN @ \cup {i} |->
                                           IF c = i THEN [args |-> 0, got |-> FALSE] ELSE @[c]]]

AddCall(named) ==
    /\ ReadsOn /\ CallMayFollow
    /\ Begins(Item("call", named, FALSE))
    /\ Told(CallAnnounced(tr, Len(items) + 1, named))

\* An event of a call reaches the translator when no other item is being streamed.
CallSpeaks(i) ==
    /\ Is(i, "call")
    /\ Overlap \/ \A j \in DOMAIN items : Shown(j) => j = i \/ (j < i /\ SaidAll(j))

ArgumentsGrow(s, i) ==
    IF i \in DOMAIN s.pending
    THEN [s EXCEPT !.pending[i].args = @ + 1, !.pending[i].got = TRUE]
    ELSE [Emit(s, BlockDelta(s.idx, "tool_use", i, 1)) EXCEPT !.gotArgs = TRUE]

ArgumentsDelta(i) ==
    /\ ReadsOn /\ CallSpeaks(i) /\ items[i].stage = "added" /\ ~items[i].sent
    /\ items' = [items EXCEPT ![i].sent = TRUE]
    /\ Told(ArgumentsGrow(tr, i))

ArgumentsEnd(s, i) ==
    IF i \notin DOMAIN s.pending THEN Hydrate(s, i, s.idx)
    ELSE IF s.pending[i].got THEN s
    ELSE [s EXCEPT !.pending[i].args = 1]

ArgumentsDone(i) ==
    /\ ReadsOn /\ CallSpeaks(i) /\ items[i].stage = "added"
    /\ items' = [items EXCEPT ![i].stage = "parted"]
    /\ Told(ArgumentsEnd(tr, i))

\* The pending call is looked up by its output index or its call id; every
\* event of a call has the one or the other.
CallEnds(s, i) ==
    IF i \in DOMAIN s.pending
    THEN WholeCall(s, i, IF s.pending[i].args = 0 THEN 1 ELSE s.pending[i].args)
    ELSE IF s.call = None THEN s
    ELSE StopOpenCall(Hydrate(s, i, s.callIdx))

CallDone(i) ==
    /\ ReadsOn /\ CallSpeaks(i)
    /\ items' = [items EXCEPT ![i].stage = "done", ![i].sent = FALSE]
    /\ Told(CallEnds(tr, i))

\* The blocks of a search come with its done event, the result only if there
\* is something of the search to tell.
Searched(s, i, told) ==
    LET ready == FinalizeThinking(s)
        opened == Emit(ready, BlockStart(ready.idx, "server_tool_use", i))
        asked == IF told THEN Emit(opened, BlockDelta(ready.idx, "server_tool_use", i, 1)) ELSE opened
        used == [Emit(asked, BlockStop(ready.idx)) EXCEPT !.idx = @ + 1]
        found == Emit(used, BlockStart(used.idx, "web_search_tool_result", i))
    IN  IF told THEN [Emit(found, BlockStop(used.idx)) EXCEPT !.idx = @ + 1] ELSE used

SearchDone(told) ==
    /\ ReadsOn /\ Quiet
    /\ Begins([Item("search", FALSE, FALSE) EXCEPT !.stage = "done"])
    /\ Told(Searched(tr, Len(items) + 1, told))

\* A picture, saved or not, is announced in a text block of its own.
ImageDone ==
    /\ ReadsOn /\ Quiet
    /\ Mixed \/ ~CameWhole
    /\ Begins([Item("image", FALSE, FALSE) EXCEPT !.stage = "done"])
    /\ Told([WholeText(StopText(FinalizeThinking(tr)), Len(items) + 1) EXCEPT !.hasText = TRUE])

\* The terminal event may list the response's items, whole.
CallsListed(s, listed) ==
    IF ~listed THEN s
    ELSE FoldLeft(LAMBDA t, i : IF i \in DOMAIN t.pending THEN WholeCall(t, i, 1) ELSE t,
                  s, [i \in DOMAIN items |-> i])

FinalizeOpen(s) == StopOpenCall(StopText(FinalizeThinking(s)))

Ended(s, listed) ==
    LET ready == FinalizePending(s)
        hydrated == IF listed /\ ready.call # None THEN Hydrate(ready, ready.call, ready.callIdx) ELSE ready
        whole == [CallsListed(FinalizeOpen(hydrated), listed) EXCEPT !.pending = <<>>]
        reason == IF whole.tool THEN "tool_use" ELSE "end_turn"
    IN  Emit(Emit(whole, MessageDelta(reason)), MessageStop)

\* A response that completes has said all: what it left open is a call, which
\* it then lists, or a summary it has ended.  One that is cut short has not.
Completed(listed) ==
    /\ ReadsOn
    /\ \A i \in DOMAIN items : Going(i) =>
          \/ items[i].kind = "call" /\ listed
          \/ items[i].kind = "reasoning" /\ items[i].parts > 0 /\ ~items[i].part /\ ~items[i].signed
    /\ socket' = "told" /\ tr' = Ended(tr, listed)
    /\ relay' = [relay EXCEPT !.stop = TRUE]
    /\ UNCHANGED <<items, msg>>

Incomplete(listed) ==
    /\ ReadsOn /\ MayBreak
    /\ \E i \in DOMAIN items : Going(i)
    /\ socket' = "told" /\ tr' = Ended(tr, listed)
    /\ relay' = [relay EXCEPT !.stop = TRUE, !.cut = TRUE]
    /\ UNCHANGED <<items, msg>>

\* "response.failed" has no case in the translator; "error" is passed on at once.
UpstreamFails(error) ==
    /\ ReadsOn /\ MayBreak
    /\ socket' = "told" /\ tr' = IF error THEN Emit(tr, ErrorEvent) ELSE tr
    /\ relay' = [relay EXCEPT !.inlineErr = TRUE]
    /\ UNCHANGED <<items, msg>>

-----------------------------------------------------------------------------
(* The upstream's socket, the request, and the end of the relay. *)

\* The end of the stream, or a socket that drops, after any event.
SocketEnds ==
    /\ socket # "closed" /\ tr.wire = <<>>
    /\ socket = "told" \/ MayBreak
    /\ socket' = "closed"
    /\ UNCHANGED <<items, tr, relay, msg>>

Cancels ==
    /\ relay.running /\ ~relay.gone /\ tr.wire = <<>> /\ MayBreak
    /\ relay' = [relay EXCEPT !.gone = TRUE] /\ socket' = "closed"
    /\ UNCHANGED <<items, tr, msg>>

\* Mutant: a failure the upstream told of is taken for an end the CLI has seen.
ReturnsOnceTold ==
    /\ socket = "closed" /\ relay.running /\ tr.wire = <<>>
    /\ relay' = [relay EXCEPT !.running = FALSE]
    /\ tr' = IF relay.stop \/ relay.inlineErr \/ relay.gone THEN tr ELSE Emit(tr, ErrorEvent)
    /\ UNCHANGED <<items, socket, msg>>

\* Without a clean finish, and with somebody there to tell, an error ends the stream.
Returns ==
    /\ socket = "closed" /\ relay.running /\ tr.wire = <<>>
    /\ relay' = [relay EXCEPT !.running = FALSE]
    /\ tr' = IF (relay.stop /\ ~relay.inlineErr) \/ relay.gone THEN tr ELSE Emit(tr, ErrorEvent)
    /\ UNCHANGED <<items, socket, msg>>

-----------------------------------------------------------------------------
(* The CLI, external: it reads the events in the order they are written.   *)
(* An event it has no place for leaves it lost.                            *)

Into(m, event) ==
    {n \in DOMAIN m.content : m.content[n].open /\ m.content[n].index = event.index}

Fits(block, event) ==
    \/ event.type = "stop"
    \/ event.kind = block.kind
    \/ event.kind = "signature" /\ block.kind = "thinking"

Changed(block, event) ==
    CASE event.type = "stop" -> [block EXCEPT !.open = FALSE]
      [] event.type = "delta" /\ event.kind = "signature" -> [block EXCEPT !.sig = event.of]
      [] OTHER -> [block EXCEPT !.data = @ + event.data]

Hear(m, event) ==
    CASE event.type = "message_start" /\ m.state = "none" -> [m EXCEPT !.state = "open"]
      [] event.type = "start" ->
            [m EXCEPT !.content = Append(@,
                [index |-> event.index, kind |-> event.kind, of |-> event.of, sig |-> None,
                 data |-> 0, open |-> TRUE])]
      [] event.type \in {"delta", "stop"} /\ (\E n \in Into(m, event) : Fits(m.content[n], event)) ->
            LET n == CHOOSE k \in Into(m, event) : Fits(m.content[k], event)
            IN  [m EXCEPT !.content[n] = Changed(@, event)]
      [] event.type = "message_delta" -> [m EXCEPT !.reason = event.reason]
      [] event.type = "message_stop" /\ m.state = "open" -> [m EXCEPT !.state = "stopped"]
      [] event.type = "error" /\ m.state # "stopped" -> [m EXCEPT !.state = "failed"]
      [] OTHER -> [m EXCEPT !.state = "lost"]

Delivers ==
    /\ tr.wire # <<>>
    /\ tr' = [tr EXCEPT !.wire = Tail(@)]
    /\ msg' = Hear(msg, Head(tr.wire))
    /\ UNCHANGED <<items, socket, relay>>

-----------------------------------------------------------------------------
CxInit ==
    /\ items = <<>> /\ socket = "new"
    /\ tr = [idx |-> 0, text |-> FALSE, thinking |-> FALSE, stopPending |-> FALSE, sig |-> None,
             seen |-> FALSE, hasText |-> FALSE, tool |-> FALSE, gotArgs |-> FALSE,
             call |-> None, callIdx |-> 0, pending |-> <<>>, wire |-> <<>>]
    /\ relay = [running |-> TRUE, stop |-> FALSE, inlineErr |-> FALSE, cut |-> FALSE, gone |-> FALSE]
    /\ msg = [state |-> "none", content |-> <<>>, reason |-> "none"]

OfItem(i) ==
    \/ SummaryPartAdded(i) \/ SummaryDelta(i) \/ SummaryPartDone(i)
    \/ \E late \in BOOLEAN : ReasoningDone(i, late)
    \/ ContentPartAdded(i) \/ TextDelta(i) \/ ContentPartDone(i) \/ MessageDone(i)
    \/ ArgumentsDelta(i) \/ ArgumentsDone(i) \/ CallDone(i)

CxNext ==
    \/ Created \/ AddMessage \/ ImageDone
    \/ \E b \in BOOLEAN : AddReasoning(b) \/ AddCall(b) \/ SearchDone(b)
    \/ \E b \in BOOLEAN : Completed(b) \/ Incomplete(b) \/ UpstreamFails(b)
    \/ \E i \in 1..MaxItems : OfItem(i)
    \/ SocketEnds \/ Cancels \/ Returns \/ Delivers

CxSpec == CxInit /\ [][CxNext]_cxVars

-----------------------------------------------------------------------------
(* What the proxy owes the CLI. *)

CxTypeOK ==
    /\ Len(items) <= MaxItems
    /\ socket \in {"new", "live", "told", "closed"}
    /\ tr.idx \in Nat /\ tr.call \in {None} \cup DOMAIN items
    /\ DOMAIN tr.pending \subseteq {i \in DOMAIN items : ~items[i].named}
    /\ tr.stopPending => tr.thinking
    /\ msg.state \in {"none", "open", "stopped", "failed", "lost"}

Blocks(i, kind) == {n \in DOMAIN msg.content : msg.content[n].of = i /\ msg.content[n].kind = kind}
Data(i, kind) == FoldLeft(LAMBDA sum, n : sum + n, 0,
    [n \in DOMAIN msg.content |-> IF n \in Blocks(i, kind) THEN msg.content[n].data ELSE 0])

\* The CLI put together all the upstream had to say.
Uncut == msg.state = "stopped" /\ ~relay.cut

\* Every call the upstream made is one block of the message, with its arguments
\* once: whether its name came first or last, and its arguments in deltas, in
\* their own event, in the call's done event or in the terminal one.
CallsArriveOnce ==
    Uncut => \A i \in DOMAIN items : items[i].kind = "call" =>
                 Cardinality(Blocks(i, "tool_use")) = 1 /\ Data(i, "tool_use") = 1

\* Every text the upstream said is in the message once, streamed or not, with
\* pictures and calls around it.
TextArrivesOnce ==
    Uncut => \A i \in DOMAIN items : items[i].kind = "message" => Data(i, "text") = 1

\* A reasoning the upstream signed reaches the CLI with its signature, and no
\* block carries the signature of another.
SignedAsReasoned ==
    /\ Uncut => \A i \in DOMAIN items : items[i].kind = "reasoning" /\ items[i].signed =>
           \E n \in Blocks(i, "thinking") : msg.content[n].sig = i
    /\ \A n \in DOMAIN msg.content : msg.content[n].sig \in {None, msg.content[n].of}

\* The CLI is told to run tools exactly when the message has a call to run.
ToolsAreAsked ==
    msg.state = "stopped" =>
        (msg.reason = "tool_use" <=> \E n \in DOMAIN msg.content : msg.content[n].kind = "tool_use")

\* The translator and the relay implement the stream the CLI accepts: starts,
\* deltas and stops in order, one block at a time, and nothing after the end.
CLI == INSTANCE MessageStream WITH
    BlockKinds <- Kinds,
    state <- msg.state,
    content <- [n \in DOMAIN msg.content |->
                   [index |-> msg.content[n].index, kind |-> msg.content[n].kind,
                    data |-> msg.content[n].data, open |-> msg.content[n].open]]
Orderly == CLI!Spec

\* However the upstream's stream ends, the CLI's has an end of its own, unless it left.
StreamEnds ==
    (~relay.running /\ tr.wire = <<>> /\ ~relay.gone) => msg.state \in {"stopped", "failed"}

\* The message says each thing the upstream said, once and as it was said, and it has an end.
SaidOnce == CallsArriveOnce /\ TextArrivesOnce /\ SignedAsReasoned /\ ToolsAreAsked /\ StreamEnds
=============================================================================
