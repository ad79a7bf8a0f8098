-------------------------------- MODULE Turn --------------------------------
(***************************************************************************)
(* One session's turn machine: internal/session/session.go over the driver *)
(* of internal/claude/driver.go.  Commands arrive on a goroutine per       *)
(* socket, the CLI's events on the pump goroutine; s.mu is held for the    *)
(* steps below and released between them, so a command is several actions  *)
(* wherever the code unlocks.                                              *)
(*                                                                         *)
(* Outside src: the claude CLI.  It runs the user messages it has read one *)
(* after the other, may ask for permission while it runs one, ends each    *)
(* with a result, and drops the one it is running when interrupted.        *)
(* Loops are in module Loop; event numbering and fan-out in module Replay. *)
(***************************************************************************)
EXTENDS Naturals, Sequences, FiniteSets

CONSTANTS
    Prompt,        \* the messages people send
    Ask,           \* the permission asks the CLI may raise
    Stop,          \* the Stop commands people press
    NoPrompt,
    StaleAnswers,  \* TRUE: an ask may be answered that no longer stands
    SlowCLI        \* TRUE: no turn ends while an answer to it is being handled

ASSUME TurnAssumption ==
    /\ NoPrompt \notin Prompt
    /\ {StaleAnswers, SlowCLI} \subseteq BOOLEAN

VARIABLES
    state,      \* s.state
    queue,      \* s.queue
    pending,    \* s.pending: asks waiting for a person
    ended,      \* the driver was shut down
    msg,        \* where each message is
    pump,       \* the pump goroutine: "recv", "init", "drain", "deliver", "done"
    draining,   \* the queued message the pump is delivering
    shown,      \* asks put to a person
    answer,     \* ResolvePermission of each ask: "no", "send", "more", "run"
    morePending,\* what ResolvePermission saw under the lock
    stop,       \* interrupt(): "no", "send", "settle", "done"
    stopped,    \* the messages in hand when each Stop took the lock
    out,        \* driver: frames to the CLI
    events,     \* driver: frames from the CLI
    inbox,      \* CLI: messages read, not begun
    busy,       \* CLI: the message being worked on
    waiting,    \* CLI: asks the turn is blocked on
    booted,     \* CLI: init was sent: "no", "now", or "before" the exploration began
    raised,     \* CLI: asks raised so far
    halted      \* messages in the CLI's hands when an interrupt was sent

session == <<state, queue, pending>>
driver == <<ended, out, events>>
cli == <<inbox, busy, waiting, booted, raised>>
people == <<msg, shown, answer, morePending, stop, stopped>>
vars == <<session, driver, cli, people, pump, draining, halted>>

Busy == {"running", "awaiting"}
Frame == [k : {"user"}, m : Prompt] \cup [k : {"answer"}, a : Ask] \cup [k : {"stop"}]
Report == [k : {"init"}] \cup [k : {"ask"}, a : Ask] \cup [k : {"result"}, m : Prompt]

-----------------------------------------------------------------------------
(* The driver *)

\* send: a frame for the CLI.  Once the driver is shut down select may still
\* take the buffered branch: the frame is accepted and goes nowhere.
Accept(f) == out' = IF ended THEN out ELSE Append(out, f)

\* Close, or the process gone: both channels are closed.  Events already
\* buffered are still read.
Shutdown ==
    /\ ~ended
    /\ ended' = TRUE
    /\ out' = <<>>
    /\ inbox' = <<>> /\ busy' = NoPrompt /\ waiting' = {}
    /\ UNCHANGED <<session, events, booted, raised, people, pump, draining, halted>>

-----------------------------------------------------------------------------
(* Prompts *)

\* Mutant: the pump forgets to clear what it was delivering.
PumpReturnsHalf(m) ==
    /\ pump' = IF draining = m THEN "recv" ELSE pump
    /\ UNCHANGED draining

\* A prompt the pump was delivering lets it return to its events.
PumpReturns(m) ==
    /\ pump' = IF draining = m THEN "recv" ELSE pump
    /\ draining' = IF draining = m THEN NoPrompt ELSE draining

\* Mutant: only "running" counts as a turn.
SubmitRunningOnly(m) ==
    /\ msg[m] = "new"
    /\ \/ /\ state = "running"
          /\ queue' = Append(queue, m)
          /\ msg' = [msg EXCEPT ![m] = "queued"]
          /\ UNCHANGED state
       \/ /\ state # "running"
          /\ state' = "running"
          /\ msg' = [msg EXCEPT ![m] = "claimed"]
          /\ UNCHANGED queue
    /\ UNCHANGED <<pending, driver, cli, shown, answer, morePending, stop, stopped, pump, draining, halted>>

\* prompt(): queue behind a turn, or claim the session for this one, under the
\* lock that tested for it (startTurnLocked).
Submit(m) ==
    /\ msg[m] = "new"
    /\ \/ /\ state \in Busy
          /\ queue' = Append(queue, m)
          /\ msg' = [msg EXCEPT ![m] = "queued"]
          /\ UNCHANGED state
       \/ /\ state \notin Busy
          /\ state' = "running"
          /\ msg' = [msg EXCEPT ![m] = "claimed"]
          /\ UNCHANGED queue
    /\ UNCHANGED <<pending, driver, cli, shown, answer, morePending, stop, stopped, pump, draining, halted>>

\* After the checkpoint hook, off the lock: hand the claimed turn to the CLI.
Deliver(m) ==
    /\ msg[m] = "claimed"
    /\ msg' = [msg EXCEPT ![m] = "sent"]
    /\ Accept([k |-> "user", m |-> m])
    /\ PumpReturns(m)
    /\ UNCHANGED <<session, ended, events, cli, shown, answer, morePending, stop, stopped, halted>>

\* The driver refused it: abandonTurn stops the clock and says so...
DeliverFails(m) ==
    /\ msg[m] = "claimed" /\ ended
    /\ msg' = [msg EXCEPT ![m] = "failing"]
    /\ UNCHANGED <<session, driver, cli, shown, answer, morePending, stop, stopped, pump, draining, halted>>

\* ...and sets the session idle.
AbandonTurn(m) ==
    /\ msg[m] = "failing"
    /\ msg' = [msg EXCEPT ![m] = "failed"]
    /\ state' = "idle"
    /\ PumpReturns(m)
    /\ UNCHANGED <<queue, pending, driver, cli, shown, answer, morePending, stop, stopped, halted>>

\* CancelQueued
CancelQueued(m) ==
    /\ msg[m] = "queued"
    /\ \E i \in DOMAIN queue :
         /\ queue[i] = m
         /\ queue' = SubSeq(queue, 1, i - 1) \o SubSeq(queue, i + 1, Len(queue))
    /\ msg' = [msg EXCEPT ![m] = "dropped"]
    /\ UNCHANGED <<state, pending, driver, cli, shown, answer, morePending, stop, stopped, pump, draining, halted>>

-----------------------------------------------------------------------------
(* Permission answers *)

\* ResolvePermission, under the lock: the ask leaves pending, whether or not it
\* was still there.
Answer(a) ==
    /\ answer[a] = "no" /\ a \in shown
    /\ StaleAnswers \/ a \in pending \cap waiting
    /\ pending' = pending \ {a}
    /\ morePending' = [morePending EXCEPT ![a] = pending' # {}]
    /\ answer' = [answer EXCEPT ![a] = "send"]
    /\ UNCHANGED <<state, queue, driver, cli, msg, shown, stop, stopped, pump, draining, halted>>

\* Off the lock: tell the CLI, or give up if the driver refuses.
SendAnswer(a) ==
    /\ answer[a] = "send"
    /\ \/ /\ Accept([k |-> "answer", a |-> a])
          /\ answer' = [answer EXCEPT ![a] = "run"]
       \/ /\ ended
          /\ answer' = [answer EXCEPT ![a] = "no"]
          /\ UNCHANGED out
    /\ UNCHANGED <<session, ended, events, cli, msg, shown, morePending, stop, stopped, pump, draining, halted>>

\* And, if no other ask was pending back then, the turn is running again.
ResumeTurn(a) ==
    /\ answer[a] = "run"
    /\ answer' = [answer EXCEPT ![a] = "no"]
    /\ state' = IF morePending[a] THEN state ELSE "running"
    /\ UNCHANGED <<queue, pending, driver, cli, msg, shown, morePending, stop, stopped, pump, draining, halted>>

-----------------------------------------------------------------------------
(* Stop *)

\* A message that has been taken up and not finished.
InHand(m) == msg[m] \in {"claimed", "sent"}

\* interrupt(): drop the queue under the lock.
PressStop(s) ==
    /\ stop[s] = "no"
    /\ stop' = [stop EXCEPT ![s] = "send"]
    /\ queue' = <<>>
    /\ msg' = [m \in Prompt |-> IF msg[m] = "queued" THEN "dropped" ELSE msg[m]]
    /\ stopped' = [stopped EXCEPT ![s] = {m \in Prompt : InHand(m)}]
    /\ UNCHANGED <<state, pending, driver, cli, shown, answer, morePending, pump, draining, halted>>

\* drv.Interrupt, whose error does not change what follows.
SendStop(s) ==
    /\ stop[s] = "send"
    /\ stop' = [stop EXCEPT ![s] = "settle"]
    /\ Accept([k |-> "stop"])
    /\ halted' = halted \cup {m \in Prompt : msg[m] = "sent"}
    /\ UNCHANGED <<session, ended, events, cli, msg, shown, answer, morePending, stopped, pump, draining>>

\* setState(idle)
SettleStop(s) ==
    /\ stop[s] = "settle"
    /\ stop' = [stop EXCEPT ![s] = "done"]
    /\ state' = "idle"
    /\ UNCHANGED <<queue, pending, driver, cli, msg, shown, answer, morePending, stopped, pump, draining, halted>>

-----------------------------------------------------------------------------
(* The pump *)

Receive(k) == pump = "recv" /\ events # <<>> /\ Head(events).k = k /\ events' = Tail(events)

\* EventInit: look whether the session is starting...
RecvInit ==
    /\ Receive("init")
    /\ pump' = IF state = "starting" THEN "init" ELSE "recv"
    /\ UNCHANGED <<session, ended, out, cli, people, draining, halted>>

\* ...and, after unlocking, set it idle.
SettleInit ==
    /\ pump = "init"
    /\ pump' = "recv"
    /\ state' = "idle"
    /\ UNCHANGED <<queue, pending, driver, cli, people, draining, halted>>

\* onPermission when nobody has to be asked: the guard, an unattended session,
\* Yolo or a share's standing yes answers in place.
RecvAskInline ==
    /\ Receive("ask")
    /\ Accept([k |-> "answer", a |-> Head(events).a])
    /\ UNCHANGED <<session, ended, cli, people, pump, draining, halted>>

\* onPermission when a person has to answer.
RecvAsk ==
    /\ Receive("ask")
    /\ state' = "awaiting"
    /\ pending' = pending \cup {Head(events).a}
    /\ shown' = shown \cup {Head(events).a}
    /\ UNCHANGED <<queue, ended, out, cli, msg, answer, morePending, stop, stopped, pump, draining, halted>>

\* Mutant: no idle between a turn and the next queued one.
RecvResultStayBusy ==
    /\ Receive("result")
    /\ state' = IF queue = <<>> THEN "idle" ELSE state
    /\ pump' = "drain"
    /\ UNCHANGED <<queue, pending, ended, out, cli, people, draining, halted>>

\* EventResult: whichever turn it ends, the session goes idle...
RecvResult ==
    /\ Receive("result")
    /\ state' = "idle"
    /\ pump' = "drain"
    /\ UNCHANGED <<queue, pending, ended, out, cli, people, draining, halted>>

\* Mutant: the message that starts stays in the queue.
DrainQueueKeepHead ==
    /\ pump = "drain"
    /\ IF state = "idle" /\ queue # <<>>
       THEN /\ queue' = queue
            /\ state' = "running"
            /\ msg' = [msg EXCEPT ![Head(queue)] = "claimed"]
            /\ draining' = Head(queue)
            /\ pump' = "deliver"
       ELSE /\ pump' = "recv"
            /\ UNCHANGED <<queue, state, msg, draining>>
    /\ UNCHANGED <<pending, driver, cli, shown, answer, morePending, stop, stopped, halted>>

\* ...and, a few steps later, drainQueue starts the next queued message.
DrainQueue ==
    /\ pump = "drain"
    /\ IF state = "idle" /\ queue # <<>>
       THEN /\ queue' = Tail(queue)
            /\ state' = "running"
            /\ msg' = [msg EXCEPT ![Head(queue)] = "claimed"]
            /\ draining' = Head(queue)
            /\ pump' = "deliver"
       ELSE /\ pump' = "recv"
            /\ UNCHANGED <<queue, state, msg, draining>>
    /\ UNCHANGED <<pending, driver, cli, shown, answer, morePending, stop, stopped, halted>>

\* The event channel is closed and drained.
PumpEnds ==
    /\ pump = "recv" /\ ended /\ events = <<>>
    /\ pump' = "done"
    /\ UNCHANGED <<session, driver, cli, people, draining, halted>>

-----------------------------------------------------------------------------
(* The CLI *)

CliBoot ==
    /\ ~ended /\ booted = "no"
    /\ booted' = "now"
    /\ events' = Append(events, [k |-> "init"])
    /\ UNCHANGED <<session, ended, out, inbox, busy, waiting, raised, people, pump, draining, halted>>

\* A turn ends once no answer to it is being handled, if the CLI is slow.
MayEnd == busy # NoPrompt /\ (SlowCLI => \A a \in Ask : answer[a] = "no")

End ==
    /\ busy' = NoPrompt /\ waiting' = {}
    /\ msg' = [msg EXCEPT ![busy] = "done"]
    /\ events' = Append(events, [k |-> "result", m |-> busy])

\* A user message waits its turn; an interrupt ends the turn being run, after
\* what was read before it was begun.
CliReads ==
    /\ out # <<>> /\ booted # "no"
    /\ LET f == Head(out) IN
         \/ /\ f.k = "user"
            /\ inbox' = Append(inbox, f.m)
            /\ UNCHANGED <<busy, waiting, msg, events>>
         \/ /\ f.k = "answer"
            /\ waiting' = waiting \ {f.a}
            /\ UNCHANGED <<inbox, busy, msg, events>>
         \/ /\ f.k = "stop" /\ MayEnd
            /\ End
            /\ UNCHANGED inbox
         \/ /\ f.k = "stop" /\ busy = NoPrompt /\ inbox = <<>>
            /\ UNCHANGED <<inbox, busy, waiting, msg, events>>
    /\ out' = Tail(out)
    /\ UNCHANGED <<session, ended, booted, raised, shown, answer, morePending, stop, stopped, pump, draining, halted>>

CliBegins ==
    /\ busy = NoPrompt /\ inbox # <<>>
    /\ busy' = Head(inbox) /\ inbox' = Tail(inbox)
    /\ UNCHANGED <<session, driver, waiting, booted, raised, people, pump, draining, halted>>

CliAsks(a) ==
    /\ busy # NoPrompt /\ a \notin raised
    /\ raised' = raised \cup {a} /\ waiting' = waiting \cup {a}
    /\ events' = Append(events, [k |-> "ask", a |-> a])
    /\ UNCHANGED <<session, ended, out, inbox, busy, booted, people, pump, draining, halted>>

CliFinishes ==
    /\ MayEnd /\ waiting = {}
    /\ End
    /\ UNCHANGED <<session, ended, out, inbox, booted, raised, shown, answer, morePending, stop, stopped, pump, draining, halted>>

-----------------------------------------------------------------------------
\* A session starts with its process, or the exploration begins later.
Init ==
    /\ booted \in {"no", "before"}
    /\ state = IF booted = "no" THEN "starting" ELSE "idle"
    /\ queue = <<>> /\ pending = {} /\ ended = FALSE
    /\ msg = [m \in Prompt |-> "new"]
    /\ shown = {} /\ answer = [a \in Ask |-> "no"] /\ morePending = [a \in Ask |-> FALSE]
    /\ stop = [s \in Stop |-> "no"] /\ stopped = [s \in Stop |-> {}]
    /\ pump = "recv" /\ draining = NoPrompt
    /\ out = <<>> /\ events = <<>>
    /\ inbox = <<>> /\ busy = NoPrompt /\ waiting = {} /\ raised = {} /\ halted = {}

Pump == \/ RecvInit \/ SettleInit \/ RecvAskInline \/ RecvAsk
        \/ RecvResult \/ DrainQueue \/ PumpEnds
CLI == CliBoot \/ CliReads \/ CliBegins \/ CliFinishes
Goroutine ==
    \/ \E m \in Prompt : Deliver(m) \/ DeliverFails(m) \/ AbandonTurn(m)
    \/ \E a \in Ask : SendAnswer(a) \/ ResumeTurn(a)
    \/ \E s \in Stop : SendStop(s) \/ SettleStop(s)

Next ==
    \/ \E m \in Prompt : Submit(m) \/ CancelQueued(m)
    \/ \E a \in Ask : Answer(a) \/ CliAsks(a)
    \/ \E s \in Stop : PressStop(s)
    \/ Goroutine \/ Pump \/ CLI \/ Shutdown

Spec == Init /\ [][Next]_vars

\* Every goroutine that can run does, the CLI gets through its turns, and
\* people answer what they are asked.
Fairness ==
    /\ WF_vars(Pump) /\ WF_vars(CLI)
    /\ \A m \in Prompt : WF_vars(Deliver(m) \/ DeliverFails(m) \/ AbandonTurn(m))
    /\ \A a \in Ask : WF_vars(SendAnswer(a) \/ ResumeTurn(a)) /\ WF_vars(Answer(a))
    /\ \A s \in Stop : WF_vars(SendStop(s) \/ SettleStop(s))
FairSpec == Spec /\ Fairness

-----------------------------------------------------------------------------
(* Properties *)

\* Every variable has its type.
TypeOK ==
    /\ state \in {"starting", "idle"} \cup Busy
    /\ queue \in Seq(Prompt) /\ pending \subseteq shown /\ shown \subseteq raised /\ raised \subseteq Ask
    /\ msg \in [Prompt -> {"new", "queued", "claimed", "sent", "done", "failing", "failed", "dropped"}]
    /\ pump \in {"recv", "init", "drain", "deliver", "done"}
    /\ draining \in Prompt \cup {NoPrompt} /\ (pump = "deliver" <=> draining # NoPrompt)
    /\ answer \in [Ask -> {"no", "send", "run"}] /\ morePending \in [Ask -> BOOLEAN]
    /\ stop \in [Stop -> {"no", "send", "settle", "done"}] /\ stopped \in [Stop -> SUBSET Prompt]
    /\ out \in Seq(Frame) /\ events \in Seq(Report)
    /\ inbox \in Seq(Prompt) /\ busy \in Prompt \cup {NoPrompt}
    /\ waiting \subseteq raised /\ halted \subseteq Prompt
    /\ ended \in BOOLEAN /\ booted \in {"no", "now", "before"}

\* The CLI holds a message: it works on it, has read it, or will read it.
Unread == {i \in DOMAIN out : out[i].k = "user"}
Held(m) ==
    \/ busy = m
    \/ \E i \in DOMAIN inbox : inbox[i] = m
    \/ \E i \in Unread : out[i].m = m

\* What waits in the queue is what is marked queued, once each.
QueuedOnce ==
    /\ \A m \in Prompt : msg[m] = "queued" <=> \E i \in DOMAIN queue : queue[i] = m
    /\ \A i, j \in DOMAIN queue : queue[i] = queue[j] => i = j

\* What the CLI holds is what was sent and not finished, once each.
HeldOnce ==
    /\ \A m \in Prompt : msg[m] = "sent" <=> Held(m)
    /\ \A i, j \in DOMAIN inbox : inbox[i] = inbox[j] => i = j
    /\ \A i, j \in Unread : out[i].m = out[j].m => i = j
    /\ \A i \in DOMAIN inbox : inbox[i] # busy
    /\ \A i \in Unread : out[i].m # busy /\ \A j \in DOMAIN inbox : inbox[j] # out[i].m

\* A message is run once: between prompt, drainQueue, CancelQueued, Stop and a
\* refusing driver none is lost, sent twice, or sent after it was dropped.
SentOnce == QueuedOnce /\ (~ended => HeldOnce)

\* A session that says it is working is: a turn is claimed, running, or has
\* ended without the pump having heard of it yet.
NoPhantomTurn ==
    (~ended /\ state \in Busy) =>
        \/ \E m \in Prompt : msg[m] \in {"claimed", "sent", "failing"}
        \/ \E i \in DOMAIN events : events[i].k = "result"

\* No message is sent into the CLI while it is on another one, as long as the
\* CLI was up at the start and nobody presses Stop.
OneTurn ==
    (booted = "before" /\ \A s \in Stop : stop[s] = "no") => Cardinality({m \in Prompt : msg[m] = "sent" /\ m \notin halted /\ ~ended}) <= 1

\* A Stop that has returned has stopped what it was pressed on: the CLI is not
\* working on it, unless it has yet to read the interrupt (interrupt()).
StopHolds ==
    \A s \in Stop : (stop[s] = "done" /\ busy \in stopped[s]) =>
        \E i \in DOMAIN out : out[i].k = "stop"

\* A message that was taken is sent, cancelled, dropped by a Stop or refused:
\* none stays in the queue of a session that has gone quiet.
PromptsMoveOn ==
    \A m \in Prompt : (msg[m] \in {"queued", "claimed"}) ~> (msg[m] \notin {"queued", "claimed"} \/ ended)
=============================================================================
