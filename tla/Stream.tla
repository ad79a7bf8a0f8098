------------------------------- MODULE Stream -------------------------------
(***************************************************************************)
(* A reply written live into one Telegram chat (internal/telegram/         *)
(* stream.go, typing.go, dispatchEvent in bot.go): the text is shown as a  *)
(* draft while it grows, posted as a message when it is finished, or       *)
(* posted and edited where drafts are refused.  A heartbeat keeps the      *)
(* draft alive beside it, and Telegram may refuse, throttle or lose any    *)
(* request.  The stream's lock is never held over a request.               *)
(*                                                                         *)
(* Left out: replies too long for one message, the wording, and the clock: *)
(* a push may be due at any time.                                          *)
(***************************************************************************)
EXTENDS Naturals, FiniteSets

CONSTANTS
    CalmChat,        \* TRUE: a heartbeat is over before the turn is
    MaxText,     \* bound: pieces of a reply
    MaxReplies   \* bound: turns of the session

ASSUME StreamAssumption == MaxText \in Nat \ {0} /\ MaxReplies \in Nat \ {0} /\ CalmChat \in BOOLEAN

VARIABLES
    reply,       \* the stream: buf, sent, shown, draftID, messageID, drafted
    able,        \* s.rich and s.drafting: what is still tried
    can,         \* what the chat really takes
    cool,        \* s.coolUntil lies ahead
    push,        \* the pump of events, in a push or waiting for an event
    beat,        \* the heartbeat's request
    turn,        \* the turn of the session: running, and what has been said in it
    chat,        \* Telegram: of each turn, how much of its reply is a message
    drafts       \* Telegram: drafts that occupy the chat

stVars == <<reply, able, can, cool, push, beat, turn, chat, drafts>>

Text == 0..MaxText
IdleCall == [at |-> "wait", text |-> 0, final |-> FALSE]
NoBeat == [on |-> FALSE, text |-> 0, id |-> 0]
NewReply(id) == [buf |-> 0, sent |-> 0, shown |-> FALSE, id |-> id, msg |-> FALSE, drafted |-> FALSE]

-----------------------------------------------------------------------------
(* Requests *)

Takes(kind) ==
    CASE kind = "richDraft" -> can.rich /\ can.draft
      [] kind = "draft" -> can.draft
      [] kind = "rich" -> can.rich
      [] OTHER -> TRUE

\* How a request may end: lost is done without an answer, failed is neither done
\* nor a refusal of the method (the network, or the content of this message).
Answer(kind) == IF Takes(kind) THEN {"ok", "lost", "failed", "throttled"} ELSE {"refused", "failed", "throttled"}
Arrives(res) == res \in {"ok", "lost"}

\* Mutant: what is refused for now counts as refused.
AnyRefusal(res) == res \in {"refused", "throttled"}

\* unsupported: only a flat refusal costs a capability.
Unsupported(res) == res = "refused"

\* backOff
StCooled(res) == cool' = (cool \/ res = "throttled")

\* draft: rich first, then plain.
DraftKind == IF able.rich THEN "richDraft" ELSE "draft"
DraftDegrades(kind, res) ==
    able' = IF ~Unsupported(res) THEN able
            ELSE IF kind = "richDraft" THEN [able EXCEPT !.rich = FALSE]
            ELSE [able EXCEPT !.draft = FALSE]

-----------------------------------------------------------------------------
(* The pump: Append, Flush, push *)

\* Mutant: what has been shown as a draft needs no message.
SkipsDrafted(text, final) == text = reply.sent

\* Nothing to say, or nothing new; a draft is not a message.
Unchanged(text, final) == text = reply.sent /\ ~(final /\ able.draft /\ ~reply.msg)

\* Mutant: the request is left to be refused.
NeverEmpty(text) == FALSE

\* "Telegram rejects an empty message outright"
NoText(text) == text = 0

\* push, up to its request.
Pushes(text, final) ==
    IF NoText(text) \/ Unchanged(text, final) THEN [IdleCall EXCEPT !.at = IF final THEN "reset" ELSE "wait"]
    ELSE [at |-> IF able.draft /\ ~final THEN "draft"
                 ELSE IF reply.msg THEN "edit"
                 ELSE IF able.rich THEN "rich" ELSE "plain",
          text |-> text, final |-> final]

\* EvDelta: a piece of the reply; it is pushed when that is due.
Delta ==
    /\ push.at = "wait" /\ turn.running /\ ~turn.whole /\ turn.said < MaxText
    /\ reply.buf < MaxText
    /\ reply' = [reply EXCEPT !.buf = @ + 1]
    /\ turn' = [turn EXCEPT !.said = @ + 1]
    /\ \/ UNCHANGED push
       \/ ~cool /\ push' = Pushes(reply.buf + 1, FALSE)
    /\ UNCHANGED <<able, can, cool, beat, chat, drafts>>

\* The complete assistant message: posted unless something of it was shown.
Whole ==
    LET said == IF turn.said = 0 THEN 1 ELSE turn.said
    IN  /\ push.at = "wait" /\ turn.running /\ ~turn.whole
        /\ turn' = [turn EXCEPT !.said = said, !.whole = TRUE]
        /\ IF reply.shown THEN UNCHANGED <<reply, push>>
           ELSE /\ reply' = [reply EXCEPT !.buf = IF @ + said > MaxText THEN MaxText ELSE @ + said]
                /\ push' = [IdleCall EXCEPT !.at = "flush"]
        /\ UNCHANGED <<able, can, cool, beat, chat, drafts>>

\* EvResult: the heartbeat is stopped, and the reply flushed.
Result ==
    /\ push.at = "wait" /\ turn.running /\ (CalmChat => ~beat.on)
    /\ turn' = [turn EXCEPT !.running = FALSE]
    /\ push' = [IdleCall EXCEPT !.at = "flush"]
    /\ UNCHANGED <<reply, able, can, cool, beat, chat, drafts>>

Flush ==
    /\ push.at = "flush"
    /\ push' = Pushes(reply.buf, TRUE)
    /\ UNCHANGED <<reply, able, can, cool, beat, turn, chat, drafts>>

PushDrafts ==
    /\ push.at = "draft"
    /\ \E res \in Answer(DraftKind) :
          /\ DraftDegrades(DraftKind, res) /\ StCooled(res)
          /\ drafts' = IF Arrives(res) THEN drafts \cup {reply.id} ELSE drafts
          /\ reply' = IF res = "ok" THEN [reply EXCEPT !.sent = push.text, !.shown = TRUE, !.drafted = TRUE] ELSE reply
    /\ push' = IdleCall
    /\ UNCHANGED <<can, beat, turn, chat>>

Lands(res, text) == chat' = IF Arrives(res) THEN [chat EXCEPT ![turn.n] = text] ELSE chat
Failed == [IdleCall EXCEPT !.at = IF push.final THEN "reset" ELSE "wait"]

\* postOne: a rich message, and a plain one if that cannot be had.
PostsRich ==
    /\ push.at = "rich"
    /\ \E res \in Answer("rich") :
          /\ able' = IF Unsupported(res) THEN [able EXCEPT !.rich = FALSE] ELSE able
          /\ StCooled(res) /\ Lands(res, push.text)
          /\ push' = [push EXCEPT !.at = IF res = "ok" THEN "clear" ELSE "plain"]
    /\ UNCHANGED <<reply, can, beat, turn, drafts>>

\* Mutant: a throttled answer is given up.
GivesUp(res) == res # "ok"

\* A throttle is waited out, when the wait is bearable.
DropsReply(res) == res \in {"lost", "failed"}

PostsPlain ==
    /\ push.at = "plain"
    /\ \E res \in Answer("plain") :
          /\ StCooled(res) /\ Lands(res, push.text)
          /\ push' = IF res = "ok" THEN [push EXCEPT !.at = "clear"]
                     ELSE IF DropsReply(res) THEN Failed
                     ELSE [push EXCEPT !.at = "hold"]
    /\ UNCHANGED <<reply, able, can, beat, turn, drafts>>

\* ... and sent once more.  The second try may only be lost for good.
PostsAgain ==
    /\ push.at = "hold" /\ ~cool
    /\ \E res \in Answer("plain") \ {"throttled"} :
          /\ Lands(res, push.text)
          /\ push' = IF res = "ok" THEN [push EXCEPT !.at = "clear"] ELSE Failed
    /\ UNCHANGED <<reply, able, can, cool, beat, turn, drafts>>

\* clearDraft ends the draft that a push has shown.
ClearsDraft == IF reply.drafted THEN drafts \ {reply.id} ELSE drafts

PushSettles ==
    /\ push.at = "clear"
    /\ drafts' \in {ClearsDraft, drafts}
    /\ reply' = [reply EXCEPT !.msg = TRUE, !.sent = push.text, !.shown = TRUE, !.drafted = FALSE]
    /\ push' = Failed
    /\ UNCHANGED <<able, can, cool, beat, turn, chat>>

PushEdits ==
    /\ push.at = "edit"
    /\ \E res \in Answer("edit") :
          /\ StCooled(res) /\ Lands(res, push.text)
          /\ reply' = IF res = "ok" THEN [reply EXCEPT !.sent = push.text] ELSE reply
    /\ push' = Failed
    /\ UNCHANGED <<able, can, beat, turn, drafts>>

\* Reset: the next reply, with an id of its own.
Reset ==
    /\ push.at = "reset"
    /\ reply' = NewReply(reply.id + 1)
    /\ push' = IdleCall
    /\ UNCHANGED <<able, can, cool, beat, turn, chat, drafts>>

-----------------------------------------------------------------------------
(* The heartbeat: typist, Refresh *)

BeatReads ==
    /\ turn.running /\ ~beat.on
    /\ CalmChat => ~turn.whole /\ push.at \notin {"reset", "flush"}
    /\ able.draft /\ ~reply.msg /\ ~cool
    /\ beat' = [on |-> TRUE, text |-> reply.buf, id |-> reply.id]
    /\ UNCHANGED <<reply, able, can, cool, push, turn, chat, drafts>>

\* The draft is up again; whatever the stream has become is told it was shown.
BeatEnds ==
    /\ beat.on
    /\ \E res \in Answer(DraftKind) :
          /\ DraftDegrades(DraftKind, res) /\ StCooled(res)
          /\ drafts' = IF Arrives(res) THEN drafts \cup {beat.id} ELSE drafts
          /\ reply' = IF res = "ok" /\ beat.text # 0
                      THEN [reply EXCEPT !.sent = beat.text, !.shown = TRUE] ELSE reply
    /\ beat' = NoBeat
    /\ UNCHANGED <<can, push, turn, chat>>

-----------------------------------------------------------------------------
\* The wait Telegram asked for is over.
Passes ==
    /\ cool /\ cool' = FALSE
    /\ UNCHANGED <<reply, able, can, push, beat, turn, chat, drafts>>

\* The session's next turn.
TurnBegins ==
    /\ ~turn.running /\ push.at = "wait" /\ turn.n < MaxReplies
    /\ turn' = [n |-> turn.n + 1, running |-> TRUE, said |-> 0, whole |-> FALSE]
    /\ UNCHANGED <<reply, able, can, cool, push, beat, chat, drafts>>

StInit ==
    /\ reply = NewReply(1) /\ able = [rich |-> TRUE, draft |-> TRUE]
    /\ can \in [rich : BOOLEAN, draft : BOOLEAN]
    /\ cool = FALSE /\ push = IdleCall /\ beat = NoBeat
    /\ turn = [n |-> 1, running |-> TRUE, said |-> 0, whole |-> FALSE]
    /\ chat = [n \in 1..MaxReplies |-> 0] /\ drafts = {}

Posts == PostsRich \/ PostsPlain \/ PostsAgain \/ PushSettles \/ PushEdits \/ PushDrafts \/ Flush \/ Reset

StNext == Delta \/ Whole \/ Result \/ Posts \/ BeatReads \/ BeatEnds \/ Passes \/ TurnBegins
StSpec == StInit /\ [][StNext]_stVars

-----------------------------------------------------------------------------
(* Properties *)

\* Every variable has its type, and no request is made with an empty text.
StTypeOK ==
    /\ reply \in [buf : Text, sent : Text, shown : BOOLEAN, id : 1..2 * MaxReplies + 1, msg : BOOLEAN, drafted : BOOLEAN]
    /\ able \in [rich : BOOLEAN, draft : BOOLEAN] /\ cool \in BOOLEAN
    /\ push.at \in {"wait", "flush", "draft", "rich", "plain", "hold", "clear", "edit", "reset"}
    /\ push.at \in {"draft", "rich", "plain", "hold", "clear", "edit"} => push.text \in 1..MaxText
    /\ drafts \subseteq 1..2 * MaxReplies /\ chat \in [1..MaxReplies -> Text]

\* The flush "is what actually has to land": a reply that is done with, and whose
\* last request did not fail, is in the chat to its end.
ReplyLands ==
    [][(push.at \in {"flush", "clear"} /\ push'.at = "reset" /\ reply.buf # 0) => chat[turn.n] >= turn.said]_stVars

\* "A downgrade is permanent for the chat": it only ever follows from what the
\* chat cannot do.
Degrades == (able.rich \/ ~(can.rich /\ can.draft)) /\ (able.draft \/ ~can.draft)

\* "A throttle here is waited out rather than surrendered to".
ThrottleWaitedOut ==
    [][(push.at = "plain" /\ push' # push /\ cool' /\ ~cool) => push'.at = "hold"]_stVars

\* A reply gets through what the Bot API may answer, and costs the chat nothing.
ReplySurvives == ReplyLands /\ ThrottleWaitedOut /\ [][Degrades']_stVars

\* "retry_after has to be obeyed": no request goes out while Telegram asks for a wait.
RetryAfterObeyed ==
    [][(push'.at # push.at /\ push'.at \in {"draft", "rich", "plain", "edit"}) => ~cool']_stVars
=============================================================================
