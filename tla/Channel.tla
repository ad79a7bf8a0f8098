------------------------------ MODULE Channel ------------------------------
(***************************************************************************)
(* The Telegram channel (internal/telegram/bot.go, store.go, with          *)
(* server/channels.go and channelsessions.go): the goroutine that polls    *)
(* for updates, handles them and drives a session from a chat, the         *)
(* goroutines that carry the session's events into that chat, and the      *)
(* owner who changes the token and decides who may use the bot.  All of it *)
(* is kept in one file, which every change writes out again after its lock *)
(* is released.  The program may end at any point and starts from the file.*)
(*                                                                         *)
(* Left out: the redaction policy, files, model and mode buttons, writes   *)
(* that fail; one chat drives one session id, which any number of          *)
(* processes stand behind in turn.  Bot 0 is "no token".                   *)
(***************************************************************************)
EXTENDS Naturals, FiniteSets, FiniteSetsExt

CONSTANTS
    Bot,          \* the tokens, 1..n
    Person,       \* people who write to the bot
    MaxSent,      \* bound: updates per bot
    Changes,      \* bound: what the owner changes; a crash takes one of them
    Processes,        \* bound: processes behind the session id
    Crashes,      \* bound: times kunai ends
    Seeded,       \* the people named on the command line
    SerialSaves,  \* TRUE: no two saves overlap
    Careful       \* TRUE: a token is replaced between polls only, and by a new one

ASSUME ChannelAssumption ==
    /\ Bot \subseteq Nat \ {0} /\ Seeded \subseteq Person /\ {MaxSent, Changes, Processes, Crashes} \subseteq Nat
    /\ {SerialSaves, Careful} \subseteq BOOLEAN

VARIABLES
    mem,      \* Store: token, cursor, people, waiting, chat bound to the session
    file,     \* telegram.json and telegram.json.tmp
    saver,    \* save() as called by the poll goroutine and by a request
    poll,     \* Run
    fate,     \* Telegram: what has become of each update
    kept,     \* Telegram: the first update it has not been told to forget
    sess,     \* the session: its current process, and whether that is live
    pumps,    \* the goroutines of watch
    offer,    \* whether the chat has the offer to bring its session back
    revoked,  \* history: people who were revoked and not approved since
    left      \* what the exploration still allows

chVars == <<mem, file, saver, poll, fate, kept, sess, pumps, offer, revoked, left>>
telegram == <<fate, kept>>
driving == <<sess, pumps, offer>>

Update == 1..MaxSent
NoState == [bot |-> 0, offset |-> 0, people |-> {}, waiting |-> {}, bound |-> FALSE]
State == [bot : Bot \cup {0}, offset : 0..MaxSent + 1, people : SUBSET Person,
          waiting : SUBSET Person, bound : BOOLEAN]
\* A file is whole, being written, or not there.
File(how, what) == [how |-> how, what |-> what]
NoFile == File("none", NoState)
Half == File("half", NoState)

ChDown == "down"
IdlePoll == [at |-> "idle", bot |-> 0, offset |-> 0, batch |-> {}]
\* Mutant: the file itself is written.
InPlace == "json"

\* "via a temp file and a rename"
Beside == "tmp"

NoSave == [at |-> "none", to |-> Beside, what |-> NoState]
Due == [NoSave EXCEPT !.at = "due"]
Spend(what) == left[what] > 0 /\ left' = [left EXCEPT ![what] = @ - 1]
ChUp == poll.at # ChDown

-----------------------------------------------------------------------------
(* save: what memory holds, by way of the file beside *)

Saving(s) == saver[s].at \in {"snap", "open", "written"}

SaveReads(s) ==
    /\ saver[s].at = "due"
    /\ SerialSaves => \A o \in DOMAIN saver : ~Saving(o)
    /\ saver' = [saver EXCEPT ![s] = [@ EXCEPT !.at = "snap", !.what = mem]]
    /\ UNCHANGED file

\* WriteFile truncates what is there.
SaveOpens(s) ==
    /\ saver[s].at = "snap"
    /\ saver' = [saver EXCEPT ![s].at = "open"]
    /\ file' = [file EXCEPT ![Beside] = Half]

SaveWrites(s) ==
    /\ saver[s].at = "open"
    /\ file' = [file EXCEPT ![saver[s].to] = File("whole", saver[s].what)]
    /\ saver' = [saver EXCEPT ![s].at = "written"]

\* The other save's file, if it is open, is under its final name now.
Renamed(o) == IF o.at = "open" /\ o.to = "tmp" THEN [o EXCEPT !.to = "json"] ELSE o

SaveRenames(s) ==
    /\ saver[s].at = "written"
    /\ IF file.tmp = NoFile
       THEN /\ saver' = [saver EXCEPT ![s] = NoSave]
            /\ UNCHANGED file
       ELSE /\ file' = [json |-> file.tmp, tmp |-> NoFile]
            /\ saver' = [o \in DOMAIN saver |-> IF o = s THEN NoSave ELSE Renamed(saver[o])]

Saves ==
    /\ \E s \in DOMAIN saver : SaveReads(s) \/ SaveOpens(s) \/ SaveWrites(s) \/ SaveRenames(s)
    /\ UNCHANGED <<mem, poll, telegram, driving, revoked, left>>

-----------------------------------------------------------------------------
(* The owner's requests *)

ChAsks == ChUp /\ saver.app.at = "none" /\ Spend("change")
Answered == saver' = [saver EXCEPT !.app = Due] /\ UNCHANGED <<file, poll, telegram, driving>>

\* Mutant: the cursor survives the bot it belongs to.
KeepsCursor == mem.offset

\* "A new bot is a new identity, so the old update cursor means nothing."
NewCursor == 0

\* handleChannelUpdate, SetToken
SetToken(b) ==
    /\ b # mem.bot
    /\ Careful => poll.at = "idle" /\ b > mem.bot
    /\ ChAsks /\ mem' = [mem EXCEPT !.bot = b, !.offset = NewCursor]
    /\ Answered /\ UNCHANGED revoked

\* handleChannelApprove: by the code of a request that still waits
ApprovePerson(p) ==
    /\ p \in mem.waiting
    /\ ChAsks /\ mem' = [mem EXCEPT !.waiting = @ \ {p}, !.people = @ \cup {p}]
    /\ Answered /\ revoked' = revoked \ {p}

DenyPerson(p) ==
    /\ p \in mem.waiting
    /\ ChAsks /\ mem' = [mem EXCEPT !.waiting = @ \ {p}]
    /\ Answered /\ UNCHANGED revoked

\* Mutant: nobody writes it down.
RevokePersonUnsaved(p) ==
    /\ p \in mem.people
    /\ ChAsks /\ mem' = [mem EXCEPT !.people = @ \ {p}]
    /\ UNCHANGED <<saver, file, poll, telegram, driving>> /\ revoked' = revoked \cup {p}

\* handleChannelRevoke
RevokePerson(p) ==
    /\ p \in mem.people
    /\ ChAsks /\ mem' = [mem EXCEPT !.people = @ \ {p}]
    /\ Answered /\ revoked' = revoked \cup {p}

\* A code is good for an hour.
Expires(p) ==
    /\ p \in mem.waiting
    /\ mem' = [mem EXCEPT !.waiting = @ \ {p}]
    /\ UNCHANGED <<file, saver, poll, telegram, driving, revoked, left>>

OwnerChanges == \/ \E b \in Bot \cup {0} : SetToken(b)
         \/ \E p \in Person : ApprovePerson(p) \/ DenyPerson(p) \/ RevokePerson(p) \/ Expires(p)

-----------------------------------------------------------------------------
(* The poll goroutine: Run *)

PollReads ==
    /\ poll.at = "idle" /\ mem.bot # 0 /\ saver.poll.at = "none"
    /\ poll' = [IdlePoll EXCEPT !.at = "asked", !.bot = mem.bot]
    /\ UNCHANGED <<mem, file, saver, telegram, driving, revoked, left>>

\* The cursor is read for itself.  It tells Telegram what to forget.
PollAsks ==
    /\ poll.at = "asked"
    /\ poll' = [poll EXCEPT !.at = "out", !.offset = mem.offset]
    /\ kept' = [kept EXCEPT ![poll.bot] = IF mem.offset > @ THEN mem.offset ELSE @]
    /\ UNCHANGED <<mem, file, saver, fate, driving, revoked, left>>

PollFails ==
    /\ poll.at = "out" /\ poll' = IdlePoll
    /\ UNCHANGED <<mem, file, saver, telegram, driving, revoked, left>>

PollAnswered ==
    LET new == {i \in Update : i >= kept[poll.bot] /\ fate[poll.bot][i] # "none"}
    IN  /\ poll.at = "out" /\ new # {}
        /\ poll' = [poll EXCEPT !.at = "batch", !.batch = new]
        /\ UNCHANGED <<mem, file, saver, telegram, driving, revoked, left>>

BatchDone ==
    /\ poll.at = "batch" /\ poll.batch = {} /\ saver.poll.at = "none"
    /\ poll' = IdlePoll
    /\ UNCHANGED <<mem, file, saver, telegram, driving, revoked, left>>

\* Mutant: handled first, and saved once that is over.
TakesUnsaved == TRUE

\* The cursor is saved before the update is handled.
CursorSaved == saver.poll.at = "none"

\* "Advance past this update before handling it."
Take ==
    LET i == Min(poll.batch)
    IN  /\ poll.at = "batch" /\ poll.batch # {} /\ saver.poll.at = "none"
        /\ mem' = [mem EXCEPT !.offset = i + 1]
        /\ saver' = IF mem.offset = i + 1 THEN saver ELSE [saver EXCEPT !.poll = Due]
        /\ fate' = [fate EXCEPT ![poll.bot][i] = IF @ = "sent" THEN "taken" ELSE @]
        /\ poll' = [poll EXCEPT !.at = "handle"]
        /\ UNCHANGED <<file, kept, driving, revoked, left>>

Handled ==
    LET i == Min(poll.batch)
    IN  /\ poll.at = "handle" /\ CursorSaved
        /\ fate' = [fate EXCEPT ![poll.bot][i] = IF @ = "taken" THEN "handled" ELSE "twice"]
        /\ poll' = [poll EXCEPT !.at = "batch", !.batch = @ \ {i}]
        /\ UNCHANGED <<file, kept, revoked>>

-----------------------------------------------------------------------------
(* handle *)

\* authorized, of a stranger: Ask
HandleStranger(p) ==
    /\ p \notin mem.people /\ Handled
    /\ mem' = [mem EXCEPT !.waiting = @ \cup {p}]
    /\ saver' = IF p \in mem.waiting THEN saver ELSE [saver EXCEPT !.poll = Due]
    /\ UNCHANGED <<driving, left>>

\* stopWatching: the goroutine is cancelled, and may still have an event in hand.
Cancelled == {[q EXCEPT !.on = FALSE] : q \in pumps}

\* Mutant: the goroutine that was there is left running.
WatchAlso(n) == pumps \cup {[n |-> n, on |-> TRUE]}

\* watch
Watch(n) == Cancelled \cup {[n |-> n, on |-> TRUE]}

\* /new, /use, /resume: Start or Resume, bind
HandleBind(p) ==
    /\ p \in mem.people /\ Handled
    /\ IF sess.live THEN UNCHANGED <<sess, left>>
       ELSE Spend("open") /\ sess' = [n |-> sess.n + 1, live |-> TRUE]
    /\ mem' = [mem EXCEPT !.bound = TRUE]
    /\ saver' = [saver EXCEPT !.poll = Due]
    /\ pumps' = Watch(sess'.n) /\ offer' = FALSE

\* Mutant: bound to what is still to be started.
BoundAnyway == [mem EXCEPT !.bound = TRUE]

\* A session that cannot be started is not driven.
Unbound == mem

HandleBindFails(p) ==
    /\ p \in mem.people /\ ~sess.live /\ Handled
    /\ mem' = Unbound
    /\ UNCHANGED <<saver, driving, left>>

\* prompt, /stop, /status, a button: withSession
HandlePrompt(p) ==
    /\ p \in mem.people /\ Handled
    /\ offer' = (offer \/ (mem.bound /\ ~sess.live))
    /\ UNCHANGED <<mem, saver, sess, pumps, left>>

\* /end
HandleEnd(p) ==
    /\ p \in mem.people /\ mem.bound /\ Handled
    /\ pumps' = Cancelled /\ sess' = [sess EXCEPT !.live = FALSE] /\ offer' = TRUE
    /\ UNCHANGED <<mem, saver, left>>

Handles == \E p \in Person : HandleStranger(p) \/ HandleBind(p) \/ HandleBindFails(p) \/ HandlePrompt(p) \/ HandleEnd(p)

-----------------------------------------------------------------------------
(* The session, outside the chat, and its watchers *)

\* Closed in the app, or its process is gone.
ChSessionEnds ==
    /\ sess.live /\ sess' = [sess EXCEPT !.live = FALSE]
    /\ UNCHANGED <<mem, file, saver, poll, telegram, pumps, offer, revoked, left>>

\* Reopened in the app, or the second half of a respawn.
ChSessionOpens ==
    /\ ~sess.live /\ Spend("open") /\ sess' = [n |-> sess.n + 1, live |-> TRUE]
    /\ UNCHANGED <<mem, file, saver, poll, telegram, pumps, offer, revoked>>

\* Mutant: the goroutine just returns.
QuitsSilently == offer

\* The way back, if the chat still drives this session.
Offered == offer \/ mem.bound

\* The subscription is closed.
PumpEnds(q) ==
    /\ q \in pumps /\ q.on /\ ~(sess.live /\ sess.n = q.n)
    /\ pumps' = pumps \ {q}
    /\ offer' = Offered
    /\ UNCHANGED <<mem, file, saver, poll, telegram, sess, revoked, left>>

PumpStops(q) ==
    /\ q \in pumps /\ ~q.on /\ pumps' = pumps \ {q}
    /\ UNCHANGED <<mem, file, saver, poll, telegram, sess, offer, revoked, left>>

ChSession == ChSessionEnds \/ ChSessionOpens \/ \E q \in pumps : PumpEnds(q) \/ PumpStops(q)

-----------------------------------------------------------------------------
Sends(b) ==
    \E i \in Update :
        /\ fate[b][i] = "none" /\ \A j \in 1..i - 1 : fate[b][j] # "none"
        /\ fate' = [fate EXCEPT ![b][i] = "sent"]
        /\ UNCHANGED <<mem, file, saver, poll, kept, driving, revoked, left>>

ChCrash ==
    /\ ChUp /\ left.crash > 0
    /\ left' = [left EXCEPT !.crash = @ - 1, !.change = IF @ > 0 THEN @ - 1 ELSE 0]
    /\ poll' = [IdlePoll EXCEPT !.at = ChDown] /\ saver' = [poll |-> NoSave, app |-> NoSave]
    /\ sess' = [sess EXCEPT !.live = FALSE] /\ pumps' = {} /\ mem' = NoState
    \* A request that was not answered yet promises nothing.
    /\ revoked' = IF saver.app = NoSave THEN revoked ELSE {}
    /\ UNCHANGED <<file, telegram, offer>>

\* LoadStore; resumeWatchers, for a session that is live again by then
ChBoot ==
    /\ poll.at = ChDown
    /\ mem' = [file.json.what EXCEPT !.people = @ \cup Seeded]
    /\ saver' = IF mem' = file.json.what THEN saver ELSE [saver EXCEPT !.poll = Due]
    /\ poll' = IdlePoll
    /\ pumps' = IF mem'.bound /\ sess.live THEN {[n |-> sess.n, on |-> TRUE]} ELSE {}
    /\ UNCHANGED <<file, telegram, sess, offer, revoked, left>>

ChInit ==
    /\ mem = [NoState EXCEPT !.people = Seeded] /\ file = [json |-> NoFile, tmp |-> NoFile]
    /\ saver = [poll |-> IF Seeded = {} THEN NoSave ELSE Due, app |-> NoSave] /\ poll = IdlePoll
    /\ fate = [b \in Bot |-> [i \in Update |-> "none"]] /\ kept = [b \in Bot |-> 1]
    /\ sess = [n |-> 0, live |-> FALSE] /\ pumps = {} /\ offer = FALSE
    /\ revoked = {}
    /\ left = [change |-> Changes, open |-> Processes, crash |-> Crashes]

Polls == PollReads \/ PollAsks \/ PollFails \/ PollAnswered \/ BatchDone \/ Take
ChNext == Saves \/ OwnerChanges \/ Polls \/ Handles \/ ChSession \/ ChCrash \/ ChBoot \/ \E b \in Bot : Sends(b)
ChSpec == ChInit /\ [][ChNext]_chVars

-----------------------------------------------------------------------------
(* Properties *)

\* Every variable has its type, and a chat drives a session that has been live.
ChTypeOK ==
    /\ mem.bound => sess.n > 0
    /\ mem \in State /\ revoked \subseteq Person
    /\ \A f \in DOMAIN file : file[f] = NoFile \/ file[f] = Half \/ (file[f].how = "whole" /\ file[f].what \in State)
    /\ poll.at \in {"idle", "asked", "out", "batch", "handle", ChDown} /\ poll.batch \subseteq Update

\* "A crash mid-write cannot leave a half-file that loses the token."
WholeFile == file.json # Half

\* "A handler that panics or a restart mid-handle must not replay the same command."
HandledOnce == \A b \in Bot, i \in Update : fate[b][i] # "twice"

\* "A new bot is a new identity": the cursor is past nothing that its bot has
\* not been seen to send.
CursorIsOwn ==
    mem.bot # 0 => \A i \in 1..mem.offset - 1 : i \in Update => fate[mem.bot][i] \notin {"none", "sent"}

\* Whoever was revoked stays so, over restarts, until approved again.
RevokedStays == saver.app = NoSave => revoked \cap mem.people = {}

\* A chat is fed by one goroutine.
OneVoice == Cardinality({q \in pumps : q.on}) <= 1

\* "The session ended ... Say so with the way back, or the chat is left holding a
\* conversation it cannot reach."
EndIsTold ==
    (ChUp /\ mem.bound /\ ~sess.live /\ left.crash = Crashes)
        => offer \/ \E q \in pumps : q.on

\* What the file says after any crash: whole, past every update that was
\* handled and none of another bot's, and without the people who were revoked.
FileRemembers == WholeFile /\ HandledOnce /\ CursorIsOwn /\ RevokedStays

\* A chat hears of its session from one goroutine, to its end and of its end.
ChatIsTold == OneVoice /\ EndIsTold
=============================================================================
