--------------------------------- MODULE View ---------------------------------
(***************************************************************************)
(* What a tab shows of a session (ChatConnection of                        *)
(* web/src/lib/chat.svelte.ts): a fold over the events the session sends   *)
(* (session.go), begun over by the hello of a new process, and guessed     *)
(* ahead of by what is tapped.  Other tabs are on the session too.         *)
(*                                                                         *)
(* Of an event is kept what the fold looks at: the turn it belongs to, the *)
(* size it reports.  Which frames arrive is Replay's question; here the    *)
(* one socket of the tab breaks, and the ring may have lost what it needs. *)
(* A behaviour is about what waits for the person, about the words of the  *)
(* turns or about the account's window: three parts of the tab that do not *)
(* look at each other.                                                     *)
(* An answer is taken and told in one step.  Left out: subagents' frames,  *)
(* projects, loops, tool results, modes, the words of an error, a session  *)
(* that is gone.                                                           *)
(***************************************************************************)
EXTENDS Integers, Sequences, FiniteSets, SequencesExt

CONSTANTS
    Question,      \* permission asks
    Waiting,   \* ids of queued prompts
    ViewCap,  \* events kept for replay
    Seeds,    \* the events a respawned process is seeded with
    MaxLag,   \* bound: frames on the socket before more happens
    MaxViewSeq, MaxViewTurns, MaxCalls, MaxTokens, MaxFaults  \* bounds

ASSUME ViewAssumption ==
    /\ ViewCap \in Nat \ {0} /\ {MaxLag, MaxViewSeq, MaxViewTurns, MaxCalls, MaxTokens, MaxFaults} \subseteq Nat
    /\ Len(Seeds) <= ViewCap

VARIABLES
    about,   \* "waits", "words" or "window"
    s,       \* the session: see Fresh
    n,       \* epochs, turns, messages and tokens so far, tabs' breaks
    used,    \* asks and queue ids handed out
    quiet,   \* turns that were started without a message
    wire,    \* what is on its way to the tab, and the process it is attached to, 0 for none
    sentSeq,    \* what the tab tapped and is on its way
    tab,     \* the tab: see NewTab
    takenBack,   \* what was tapped since the last hello
    missed   \* whether the ring did not hold all the tab asked for

viVars == <<about, s, n, used, quiet, wire, sentSeq, tab, takenBack, missed>>

FreshSession(e) ==
    [epoch |-> e, seq |-> 0, ring |-> <<>>, state |-> "starting",
     asks |-> {}, queue |-> <<>>, wall |-> "none", reset |-> FALSE, ctx |-> 0,
     due |-> <<>>,    \* the turns the CLI has yet to finish
     ending |-> ""]   \* how the one that has just gone idle ended

NewTab ==
    [epoch |-> 0, last |-> 0, high |-> 0, ready |-> FALSE, items |-> <<>>, streaming |-> <<>>,
     pending |-> {}, queued |-> <<>>, state |-> "idle", ctx |-> 0, limit |-> "none"]

-----------------------------------------------------------------------------
(* The session *)

\* sequenceLocked and emitLocked, for what st has become
Tells(st, evs) ==
    LET new == [i \in DOMAIN evs |-> [seq |-> st.seq + i] @@ evs[i]]
        all == st.ring \o new
    IN  /\ Len(wire.frames) < MaxLag
        /\ s' = [st EXCEPT !.seq = @ + Len(evs),
                           !.ring = SubSeq(all, IF Len(all) > ViewCap THEN Len(all) - ViewCap + 1 ELSE 1, Len(all))]
        /\ s'.seq <= MaxViewSeq
        /\ wire' = IF wire.to = st.epoch THEN [wire EXCEPT !.frames = @ \o new] ELSE wire

\* setState: nothing is said when it is that already.
Becomes(st, to) == [st EXCEPT !.state = to]
StateEvent(st, to) == IF st.state = to THEN <<>> ELSE <<[t |-> "state", state |-> to]>>

TabWaits == UNCHANGED <<about, tab, takenBack, missed>>

Boots ==
    /\ s.state = "starting"
    /\ Tells(Becomes(s, "idle"), StateEvent(s, "idle"))
    /\ UNCHANGED <<n, used, quiet, sentSeq>> /\ TabWaits

\* startTurnLocked
Started(st, silent) == [st EXCEPT !.state = "running", !.due = Append(@, n.turn + 1)]
TurnEvents(silent) ==
    (IF silent THEN <<>> ELSE <<[t |-> "user", turn |-> n.turn + 1]>>) \o <<[t |-> "state", state |-> "running"]>>

\* prompt: yours, another tab's, or a brief that is not shown
Prompts(silent) ==
    /\ n.turn < MaxViewTurns /\ (silent => about = "words")
    /\ IF s.state \in {"running", "awaiting"}
       THEN \E q \in {q \in Waiting \ used : about = "waits"} :
               /\ used' = used \cup {q}
               /\ Tells([s EXCEPT !.queue = Append(@, [id |-> q, silent |-> silent])], <<[t |-> "queued", id |-> q]>>)
               /\ UNCHANGED <<n, quiet>>
       ELSE /\ Tells(Started(s, silent), TurnEvents(silent))
            /\ n' = [n EXCEPT !.turn = @ + 1]
            /\ quiet' = IF silent THEN quiet \cup {n.turn + 1} ELSE quiet
            /\ UNCHANGED used
    /\ UNCHANGED sentSeq /\ TabWaits

\* A token is told and not kept.
Streams ==
    /\ about = "words" /\ s.due # <<>> /\ s.ending = "" /\ n.token < MaxTokens
    /\ n' = [n EXCEPT !.token = @ + 1]
    /\ wire' = IF wire.to = s.epoch THEN [wire EXCEPT !.frames = Append(@, [seq |-> 0, t |-> "delta", of |-> n.msg])] ELSE wire
    /\ UNCHANGED <<s, used, quiet, sentSeq>> /\ TabWaits

\* A model call is over: its words, and how full the window was.
AgentSays ==
    /\ about = "words" /\ s.due # <<>> /\ s.ending = ""
    /\ n.call < MaxCalls /\ n' = [n EXCEPT !.msg = @ + 1, !.call = @ + 1]
    /\ Tells([s EXCEPT !.ctx = s.seq + 1], <<[t |-> "assistant", turn |-> Head(s.due), ctx |-> s.seq + 1]>>)
    /\ UNCHANGED <<used, quiet, sentSeq>> /\ TabWaits

Compacts ==
    /\ about = "words" /\ s.due # <<>> /\ s.ending = ""
    /\ n.call < MaxCalls /\ n' = [n EXCEPT !.call = @ + 1]
    /\ Tells([s EXCEPT !.ctx = s.seq + 1], <<[t |-> "compact", ctx |-> s.seq + 1]>>)
    /\ UNCHANGED <<used, quiet, sentSeq>> /\ TabWaits

\* onPermission
AsksFor(a) ==
    /\ about = "waits" /\ s.due # <<>> /\ s.ending = "" /\ a \notin used
    /\ used' = used \cup {a}
    /\ Tells([Becomes(s, "awaiting") EXCEPT !.asks = @ \cup {a}],
             StateEvent(s, "awaiting") \o <<[t |-> "permission", id |-> a]>>)
    /\ UNCHANGED <<n, quiet, sentSeq>> /\ TabWaits

\* ResolvePermission, for this tab or another
Answered(a) ==
    /\ a \in Question /\ a \in s.asks \cup sentSeq
    /\ LET left == s.asks \ {a}
           st == [s EXCEPT !.asks = left]
       IN  IF left = {}
           THEN Tells(Becomes(st, "running"), <<[t |-> "permission_resolved", id |-> a]>> \o StateEvent(s, "running"))
           ELSE Tells(st, <<[t |-> "permission_resolved", id |-> a]>>)
    /\ sentSeq' = sentSeq \ {a}
    /\ UNCHANGED <<n, used, quiet>> /\ TabWaits

Ids(q) == {q[i].id : i \in DOMAIN q}

\* CancelQueued, for this tab or another
Cancelled(q) ==
    /\ q \in Waiting /\ q \in Ids(s.queue) \cup sentSeq
    /\ sentSeq' = sentSeq \ {q}
    /\ IF q \in Ids(s.queue)
       THEN Tells([s EXCEPT !.queue = SelectSeq(@, LAMBDA e : e.id # q)], <<[t |-> "unqueued", id |-> q]>>)
       ELSE UNCHANGED <<s, wire>>
    /\ UNCHANGED <<n, used, quiet>> /\ TabWaits

Dropped(q) == [i \in DOMAIN q |-> [t |-> "unqueued", id |-> q[i].id]]

\* interrupt: what was asked stays asked, and the CLI ends the turn later.
Interrupts ==
    /\ about = "waits"
    /\ Tells(Becomes([s EXCEPT !.queue = <<>>], "idle"), Dropped(s.queue) \o StateEvent(s, "idle"))
    /\ s' # s
    /\ UNCHANGED <<n, used, quiet, sentSeq>> /\ TabWaits

\* The CLI's own word on the window: wallFromText is taken back.
Limits(spent) ==
    /\ about = "window" /\ s.due # <<>> /\ s.ending = ""
    /\ Tells([s EXCEPT !.wall = IF spent THEN "frame" ELSE "none", !.reset = @ \/ spent],
             <<[t |-> "rate_limit", limited |-> spent, resets |-> TRUE]>>)
    /\ UNCHANGED <<n, used, quiet, sentSeq>> /\ TabWaits

\* The result frame: idle first, ...
GoesIdle(how) ==
    /\ how = "clean" \/ about = "window"
    /\ s.due # <<>> /\ s.ending = ""
    /\ Tells([Becomes(s, "idle") EXCEPT !.ending = how], StateEvent(s, "idle"))
    /\ UNCHANGED <<n, used, quiet, sentSeq>> /\ TabWaits

\* recordWall and clearWall: of a wall read in the turn's text
Walled(st, how) ==
    CASE how = "wall" /\ st.wall = "none" -> [st EXCEPT !.wall = "text"]
      [] how = "clean" /\ st.wall = "text" -> [st EXCEPT !.wall = "none"]
      [] how = "wall" /\ st.wall = "frame" -> [st EXCEPT !.wall = "text"]
      [] OTHER -> st

WallEvents(st, how) ==
    CASE how = "wall" /\ st.wall = "none" -> <<[t |-> "rate_limit", limited |-> TRUE, resets |-> st.reset]>>
      [] how = "clean" /\ st.wall = "text" -> <<[t |-> "rate_limit", limited |-> FALSE, resets |-> FALSE]>>
      [] OTHER -> <<>>

\* ... then what it was, what it says of the window, and the next of the queue,
\* unless a prompt came in between.
TellsResult ==
    /\ s.ending # ""
    /\ LET how == s.ending
           st == [Walled(s, how) EXCEPT !.ending = "", !.due = Tail(@)]
           told == <<[t |-> "result", turn |-> Head(s.due), clean |-> (how = "clean")]>> \o WallEvents(s, how)
           goes == s.queue # <<>> /\ s.state = "idle"
       IN  /\ IF goes
              THEN Tells(Started([st EXCEPT !.queue = Tail(@)], Head(s.queue).silent),
                         told \o <<[t |-> "unqueued", id |-> Head(s.queue).id]>> \o TurnEvents(Head(s.queue).silent))
              ELSE Tells(st, told)
           /\ n' = [n EXCEPT !.msg = @ + 1, !.turn = IF goes THEN @ + 1 ELSE @]
           /\ quiet' = IF goes /\ Head(s.queue).silent THEN quiet \cup {n.turn + 1} ELSE quiet
    /\ UNCHANGED <<used, sentSeq>> /\ TabWaits

\* Another process takes the id: what was said is read back from the transcript,
\* the meter is handed on.
ProcessReplaced ==
    /\ n.epoch + n.break <= MaxFaults
    /\ n' = [n EXCEPT !.epoch = @ + 1, !.msg = @ + 1]
    /\ s' = [FreshSession(n.epoch + 1) EXCEPT !.ctx = s.ctx, !.seq = Len(Seeds),
                !.ring = [i \in DOMAIN Seeds |-> [seq |-> i] @@ Seeds[i]]]
    /\ UNCHANGED <<used, quiet, wire, sentSeq>> /\ TabWaits

-----------------------------------------------------------------------------
(* The tab *)

\* addPending, addQueued: once each
AddQueued(q, more) == q \o SelectSeq(more, LAMBDA id : id \notin ToSet(q))

\* Mutant: of the old process everything but the conversation is kept.
ItemsOnly(v) == [v EXCEPT !.last = 0, !.items = <<>>, !.streaming = <<>>, !.ready = FALSE]

\* resetForNewProcess
ResetForNewProcess(v) ==
    [v EXCEPT !.last = 0, !.items = <<>>, !.streaming = <<>>, !.pending = {}, !.queued = <<>>, !.ready = FALSE]

\* Mutant: the hello is the state only, what waits comes with the backlog.
HelloAlone(v, ev) == [v EXCEPT !.state = ev.state, !.ctx = ev.ctx, !.epoch = ev.epoch,
                               !.high = ev.high, !.ready = @ \/ ev.high = 0]

\* apply "hello": the session's word on how things stand
HelloComes(v, ev) ==
    LET w == IF v.epoch \notin {0, ev.epoch} THEN ResetForNewProcess(v) ELSE v
    IN  [w EXCEPT !.epoch = ev.epoch, !.state = ev.state, !.ctx = ev.ctx,
                  !.pending = @ \cup ev.pending, !.queued = AddQueued(@, ev.queued),
                  !.high = ev.high, !.ready = @ \/ ev.high = 0]

\* Mutant: a size is believed whenever it is read.
AlwaysLive(v) == TRUE

\* "Only while live, never during replay."
MeterLives(v) == v.ready

\* Mutant: the last message of all is stamped.
StampsLast(items, turn) ==
    LET said == {i \in DOMAIN items : items[i].role = "assistant"}
    IN  IF said = {} THEN items ELSE [items EXCEPT ![CHOOSE i \in said : \A j \in said : j <= i].stamp = turn]

\* apply "result": "stop at the user message that opened the turn"
Stamps(items, turn) ==
    LET said == {i \in DOMAIN items : items[i].role = "assistant" /\
                    \A j \in (i + 1)..Len(items) : items[j].role \notin {"user", "assistant"}}
    IN  [i \in DOMAIN items |-> IF i \in said THEN [items[i] EXCEPT !.stamp = turn] ELSE items[i]]

Item(role, turn) == [role |-> role, turn |-> turn, stamp |-> 0]

\* The banner: a frame with a time sets it, one without can only lower it.
Banner(v, ev) ==
    CASE ev.resets -> IF ev.limited THEN "limited" ELSE "known"
      [] ~ev.resets /\ ~ev.limited /\ v.limit # "none" -> "known"
      [] OTHER -> v.limit

\* Mutant: what was streaming stays when the message is there.
KeepsStream(v) == v.streaming
Committed(v) == <<>>

SaidLast(v, ev) == [v EXCEPT !.streaming = Committed(v), !.items = Append(@, Item("assistant", ev.turn)),
                         !.ctx = IF MeterLives(v) /\ ev.ctx > 0 THEN ev.ctx ELSE @]

Folded(v, ev) ==
    CASE ev.t = "hello" -> HelloComes(v, ev)
      [] ev.t = "user" -> [v EXCEPT !.items = Append(@, Item("user", ev.turn))]
      [] ev.t = "delta" -> [v EXCEPT !.streaming = Append(@, ev.of)]
      [] ev.t = "assistant" -> SaidLast(v, ev)
      [] ev.t = "compact" -> [v EXCEPT !.items = Append(@, Item("compact", 0)), !.ctx = IF MeterLives(v) THEN ev.ctx ELSE @]
      [] ev.t = "permission" -> [v EXCEPT !.pending = @ \cup {ev.id}]
      [] ev.t = "permission_resolved" -> [v EXCEPT !.pending = @ \ {ev.id}]
      [] ev.t = "queued" -> [v EXCEPT !.queued = AddQueued(@, <<ev.id>>)]
      [] ev.t = "unqueued" -> [v EXCEPT !.queued = SelectSeq(@, LAMBDA q : q # ev.id)]
      [] ev.t = "state" -> [v EXCEPT !.state = ev.state]
      [] ev.t = "rate_limit" -> [v EXCEPT !.limit = Banner(v, ev)]
      [] ev.t = "result" -> [v EXCEPT !.streaming = <<>>, !.items = Stamps(@, ev.turn),
                                      !.limit = IF ev.clean /\ @ = "limited" THEN "known" ELSE @]

\* apply: an event that was seen before is passed over, and the backlog is in when
\* the last one there was is.
Applied(v, ev) ==
    IF ev.seq # 0 /\ ev.seq <= v.last THEN v
    ELSE LET w == Folded([v EXCEPT !.last = IF ev.seq # 0 THEN ev.seq ELSE @], ev)
         IN  [w EXCEPT !.ready = @ \/ (w.high > 0 /\ w.last >= w.high)]

TabHears ==
    /\ wire.frames # <<>>
    /\ tab' = Applied(tab, Head(wire.frames)) /\ wire' = [wire EXCEPT !.frames = Tail(@)]
    /\ takenBack' = IF Head(wire.frames).t = "hello" THEN {} ELSE takenBack
    /\ UNCHANGED <<about, s, n, used, quiet, sentSeq, missed>>

\* connect, and Attach
Connects ==
    /\ wire.to = 0
    /\ LET since == IF tab.last > s.seq THEN 0 ELSE tab.last
           hello == [seq |-> 0, t |-> "hello", epoch |-> s.epoch, state |-> s.state, ctx |-> s.ctx,
                     pending |-> s.asks, queued |-> [i \in DOMAIN s.queue |-> s.queue[i].id], high |-> s.seq]
           backlog == SelectSeq(s.ring, LAMBDA ev : ev.seq > since)
       IN  /\ wire' = [to |-> s.epoch, frames |-> <<hello>> \o backlog]
           /\ missed' = (missed \/ Len(backlog) < s.seq - since \/ (tab.epoch \notin {0, s.epoch} /\ since > 0))
    /\ UNCHANGED <<about, s, n, used, quiet, sentSeq, tab, takenBack>>

\* The socket breaks, or is closed for the process that ended.
Breaks ==
    /\ wire.to # 0
    /\ \/ n.epoch + n.break <= MaxFaults /\ n' = [n EXCEPT !.break = @ + 1]
       \/ wire.to # s.epoch /\ UNCHANGED n
    /\ wire' = [to |-> 0, frames |-> <<>>] /\ sentSeq' = {}
    /\ UNCHANGED <<about, s, used, quiet, tab, takenBack, missed>>

\* resolve, cancelQueued: gone from the screen at once, and sent if the socket is
\* there.
Taps(id) ==
    /\ id \in tab.pending \cup ToSet(tab.queued)
    /\ tab' = [tab EXCEPT !.pending = @ \ {id}, !.queued = SelectSeq(@, LAMBDA q : q # id)]
    /\ takenBack' = takenBack \cup {id}
    /\ sentSeq' = IF wire.to # 0 THEN sentSeq \cup {id} ELSE sentSeq
    /\ UNCHANGED <<about, s, n, used, quiet, wire, missed>>

-----------------------------------------------------------------------------

ViInit ==
    /\ about \in {"waits", "words", "window"}
    /\ s = FreshSession(1) /\ n = [epoch |-> 1, turn |-> 0, msg |-> 0, call |-> 0, token |-> 0, break |-> 0]
    /\ used = {} /\ quiet = {} /\ wire = [to |-> 0, frames |-> <<>>] /\ sentSeq = {}
    /\ tab = NewTab /\ takenBack = {} /\ missed = FALSE

ViNext ==
    \/ Boots \/ Streams \/ AgentSays \/ Compacts \/ Interrupts \/ TellsResult \/ ProcessReplaced
    \/ TabHears \/ Connects \/ Breaks
    \/ \E silent \in BOOLEAN : Prompts(silent)
    \/ \E spent \in BOOLEAN : Limits(spent)
    \/ \E a \in Question : AsksFor(a) \/ Answered(a) \/ Taps(a)
    \/ \E q \in Waiting : Cancelled(q) \/ Taps(q)
    \/ \E how \in {"clean", "failed", "wall"} : GoesIdle(how)

ViSpec == ViInit /\ [][ViNext]_viVars

-----------------------------------------------------------------------------
(* Properties *)

ViTypeOK ==
    /\ s.asks \subseteq Question /\ Ids(s.queue) \subseteq Waiting /\ s.seq \in 0..MaxViewSeq
    /\ s.state \in {"starting", "idle", "running", "awaiting"} /\ s.wall \in {"none", "frame", "text"}
    /\ tab.pending \subseteq Question /\ ToSet(tab.queued) \subseteq Waiting /\ tab.limit \in {"none", "known", "limited"}
    /\ sentSeq \cup takenBack \cup used \subseteq Question \cup Waiting /\ wire.to \in 0..n.epoch

\* The tab is attached to the process there is and has heard all it was sent.
CaughtUp == wire.to = s.epoch /\ wire.frames = <<>>

\* "A client that missed the events, or attached late, still sees what is waiting":
\* a tab that has caught up shows every ask and every queued prompt once, and
\* the state, less what was tapped in it since it attached; and nothing that is
\* over, unless the ring had lost the event that ended it.
ShowsWhatWaits ==
    CaughtUp =>
        /\ tab.state = s.state
        /\ s.asks \ takenBack \subseteq tab.pending /\ Ids(s.queue) \ takenBack \subseteq ToSet(tab.queued)
        /\ ~missed => tab.pending \subseteq s.asks /\ ToSet(tab.queued) \subseteq Ids(s.queue)
        /\ IsInjective(tab.queued)

\* "Fully superseded by the committed assistant event": no token on screen is of a
\* message that is over.
StreamsTheLatest == CaughtUp /\ ~missed => ToSet(tab.streaming) \subseteq {n.msg}

\* "The meter tracks the newest one", through reconnects and a replayed compaction
\* that the seeded turns behind it do not correct, and the log is mounted.  Not so
\* a tab whose mark the new process has reached, which is sent nothing to rebuild
\* from.
MeterIsNewest == CaughtUp /\ ~missed => tab.ready /\ tab.ctx = s.ctx

\* "A turn with no assistant reply has nothing to stamp": a footer is on a message
\* of its own turn.  Not so a turn that was started without a message.
StampIsOwn ==
    ~missed => \A i \in DOMAIN tab.items : tab.items[i].stamp \in {0, tab.items[i].turn} \cup quiet

\* The banner is up only while the session takes its window for spent.  A tab that
\* saw the wall of the process before keeps it up: it is not among what is dropped.
BannerComesDown == CaughtUp /\ s.epoch = 1 /\ ~missed /\ tab.limit = "limited" => s.wall # "none"

\* A tab shows the session there is.
ViewIsTrue == ShowsWhatWaits /\ StreamsTheLatest /\ MeterIsNewest /\ StampIsOwn /\ BannerComesDown

\* "The banner comes down": of any process.
BannerOfThisProcess == CaughtUp /\ ~missed /\ tab.limit = "limited" => s.wall # "none"
\* "Stop at the user message that opened the turn", whoever opened it.
StampsOwnTurn == \A i \in DOMAIN tab.items : tab.items[i].stamp \in {0, tab.items[i].turn}
\* "What is on screen": nothing that is over, whatever the ring lost.
NothingOver == CaughtUp => tab.pending \subseteq s.asks
=============================================================================
