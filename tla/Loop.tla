-------------------------------- MODULE Loop --------------------------------
(***************************************************************************)
(* A self-prompting loop on one session: internal/session/loop.go with the *)
(* turn machine's hooks into it (session.go), the durable record of        *)
(* internal/server/looppersist.go, and the respawn that carries a loop to  *)
(* a new process (internal/session/manager.go).                            *)
(*                                                                         *)
(* A turn is "user" or "loop"; running and awaiting are both busy, and a   *)
(* person's message is delivered in the step that claims it: module Turn   *)
(* has those steps apart.  A session is never in bypass mode here.         *)
(* Outside src: the CLI, which ends the turns it was sent one by one.      *)
(***************************************************************************)
EXTENDS Integers, Sequences

CONSTANTS
    MaxIters, MaxUSD,  \* the loop's two limits
    MaxResumes,        \* maxLoopResumes
    Modes,             \* permission modes a person may pick
    Starts, Prompts, Stops, Choices, Closes, Respawns, Crashes,
                       \* how often each happens: bounds of the exploration
    SlowTurns          \* TRUE: no turn ends before a cooldown or a start under way

ASSUME LoopAssumption ==
    /\ MaxIters \in Nat \ {0} /\ MaxUSD \in Nat \ {0} /\ MaxResumes \in Nat
    /\ {"default", "acceptEdits"} \subseteq Modes /\ SlowTurns \in BOOLEAN
    /\ {Starts, Prompts, Stops, Choices, Closes, Respawns, Crashes} \subseteq Nat

VARIABLES
    up,       \* "live", "closing": the driver is closed, "gone": s.closed, "down": kunai died
    busy,     \* s.state is running or awaiting
    queue,    \* messages in s.queue
    cli,      \* turns the CLI holds
    pump,     \* "recv", "drain", "after"
    ended,    \* how the turn the pump is settling ended, and whose it was
    said,     \* s.lastText holds the promise
    loop,     \* s.loop
    cost,     \* s.lastCostUSD
    mode,     \* s.mode
    back,     \* hand-back goroutines on their way, by the mode they set
    starter,  \* StartLoop or ResumeLoop: "no", "borrow", "advance"
    sending,  \* iterations claimed and not yet delivered
    timers,   \* cooldowns that have not fired
    stopping, \* an interrupt that has not settled the session yet
    armed,    \* the session has its persister
    disk,     \* loops/<id>.json
    resp,     \* a respawn: "no", "handed", "closed", "created", "arm"; a boot: "boot"
    carry,    \* the loop it carries, with the mode to build the process in
    own,      \* the mode the person last had the session in
    crashes,  \* kunai restarts this run
    left      \* what the exploration still allows

turns == <<busy, queue, cli, pump, ended, said>>
run == <<loop, cost, mode, back, starter, sending, timers>>
world == <<stopping, armed, disk, resp, carry, own, crashes>>
vars == <<up, turns, run, world, left>>

NoLoop == [st |-> "none", iter |-> 0, start |-> 0, prev |-> "default", resumes |-> 0]
NoRecord == [iter |-> 0, spent |-> 0, resumes |-> -1]
NoCarry == [loop |-> NoRecord, mode |-> "default"]

Spend(what) == left[what] > 0 /\ left' = [left EXCEPT ![what] = @ - 1]

Running == loop.st = "running"
Spent == cost - loop.start

-----------------------------------------------------------------------------
(* Stopping and saving *)

\* persistLoopLocked and the server's persister: the record of a running loop
\* is written, any other state deletes it; nothing is saved unarmed.
Persist(l, c) ==
    disk' = IF ~armed THEN disk
            ELSE IF l.st = "running" THEN [iter |-> l.iter, spent |-> c - l.start, resumes |-> l.resumes]
            ELSE NoRecord

\* Mutant: the ending is not saved.
StopLoopUnsaved(st, m) ==
    IF Running
    THEN /\ loop' = [loop EXCEPT !.st = st]
         /\ back' = IF loop.prev # "acceptEdits" /\ m = "acceptEdits" THEN back \cup {loop.prev} ELSE back
         /\ UNCHANGED disk
    ELSE UNCHANGED <<loop, disk, back>>

\* stopLoopLocked: settle a running loop, save that, and hand the borrowed mode
\* back on a goroutine of its own.  m is s.mode by then.
StopLoop(st, m) ==
    IF Running
    THEN /\ loop' = [loop EXCEPT !.st = st]
         /\ Persist(loop', cost)
         /\ back' = IF loop.prev # "acceptEdits" /\ m = "acceptEdits" THEN back \cup {loop.prev} ELSE back
    ELSE UNCHANGED <<loop, disk, back>>

\* That goroutine: SetPermissionMode(prev).
HandBack(m) ==
    /\ m \in back
    /\ back' = back \ {m}
    /\ mode' = m
    /\ UNCHANGED <<up, turns, loop, cost, starter, sending, timers, world, left>>

-----------------------------------------------------------------------------
(* Starting *)

\* StartLoop, under the lock.
StartLoop ==
    /\ starter = "no" /\ up \in {"live", "closing"} /\ ~Running
    /\ Spend("start")
    /\ loop' = [st |-> "running", iter |-> 0, start |-> cost, prev |-> mode, resumes |-> 0]
    /\ Persist(loop', cost)
    /\ starter' = "borrow"
    /\ UNCHANGED <<up, turns, cost, mode, back, sending, timers, stopping, armed, resp, carry, own, crashes>>

\* SetPermissionMode(acceptEdits), whose refusal fails the loop.
Borrow ==
    /\ starter = "borrow"
    /\ mode' = "acceptEdits"
    /\ \/ /\ starter' = "advance"
          /\ UNCHANGED <<loop, disk, back>>
       \/ /\ up # "live" /\ starter' = "no"
          /\ StopLoop("failed", "acceptEdits")
    /\ UNCHANGED <<up, turns, cost, sending, timers, stopping, armed, resp, carry, own, crashes, left>>

\* Entitled to an iteration: not closed, running, and nobody's turn first.
Entitled == up \in {"live", "closing"} /\ Running /\ ~busy /\ queue = 0

\* advanceLoop, under the lock: claim the next iteration.
Advance ==
    IF Entitled
    THEN /\ loop' = [loop EXCEPT !.iter = @ + 1]
         /\ Persist(loop', cost)
         /\ busy' = TRUE /\ said' = FALSE /\ sending' = sending + 1
    ELSE UNCHANGED <<loop, disk, busy, said, sending>>

AdvanceNow ==
    /\ starter = "advance" /\ starter' = "no"
    /\ Advance
    /\ UNCHANGED <<up, queue, cli, pump, ended, cost, mode, back, timers,
                   stopping, armed, resp, carry, own, crashes, left>>

Cooldown ==
    /\ timers > 0 /\ timers' = timers - 1
    /\ Advance
    /\ UNCHANGED <<up, queue, cli, pump, ended, cost, mode, back, starter,
                   stopping, armed, resp, carry, own, crashes, left>>

\* Off the lock: deliver it, or fail the loop and set the session idle.
SendIteration ==
    /\ sending > 0 /\ sending' = sending - 1
    /\ \/ /\ cli' = IF up = "live" THEN Append(cli, "loop") ELSE cli
          /\ UNCHANGED <<busy, loop, disk, back>>
       \/ /\ up # "live"
          /\ StopLoop("failed", mode)
          /\ busy' = FALSE
          /\ UNCHANGED cli
    /\ UNCHANGED <<up, queue, pump, ended, said, cost, mode, starter, timers,
                   stopping, armed, resp, carry, own, crashes, left>>

-----------------------------------------------------------------------------
(* People *)

\* startTurnLocked and deliver for a message; a closed driver refuses it, which
\* undoes the claim, or takes it and never reads it.
StartTurn ==
    /\ said' = FALSE
    /\ IF up = "live" THEN busy' = TRUE /\ cli' = Append(cli, "user")
       ELSE busy' \in BOOLEAN /\ UNCHANGED cli

\* prompt
UserPrompt ==
    /\ up \in {"live", "closing"} /\ Spend("prompt")
    /\ IF busy THEN queue' = queue + 1 /\ UNCHANGED <<busy, cli, said>>
       ELSE StartTurn /\ UNCHANGED queue
    /\ UNCHANGED <<up, pump, ended, run, world>>

\* interrupt, under the lock: drop the queue and stop the loop...
PressStop ==
    /\ up = "live" /\ Spend("stop")
    /\ queue' = 0 /\ StopLoop("stopped", mode) /\ stopping' = TRUE
    /\ UNCHANGED <<up, busy, cli, pump, ended, said, cost, mode, starter, sending, timers,
                   armed, resp, carry, own, crashes>>

\* ...and, after the CLI was told, go idle.
SettleStop ==
    /\ stopping /\ stopping' = FALSE
    /\ busy' = FALSE
    /\ UNCHANGED <<up, queue, cli, pump, ended, said, run, armed, disk, resp, carry, own, crashes, left>>

\* The loop's own stop button.
PressStopLoop ==
    /\ up = "live" /\ Spend("stop")
    /\ StopLoop("stopped", mode)
    /\ UNCHANGED <<up, turns, cost, mode, starter, sending, timers,
                   stopping, armed, resp, carry, own, crashes>>

\* SetPermissionMode from the composer.
SetPermissionMode(m) ==
    /\ up = "live" /\ Spend("choice")
    /\ mode' = m /\ own' = m
    /\ UNCHANGED <<up, turns, loop, cost, back, starter, sending, timers,
                   stopping, armed, disk, resp, carry, crashes>>

-----------------------------------------------------------------------------
(* The pump *)

\* EventResult: a turn of the CLI ends; the session is idle and billed.
RecvResult ==
    /\ pump = "recv" /\ up \in {"live", "closing"} /\ cli # <<>>
    /\ SlowTurns => timers = 0 /\ sending = 0 /\ starter = "no" /\ resp \notin {"boot", "created"}
    /\ \E how \in {"plain", "promise", "error"}, c \in {0, 1} :
         /\ ended' = [how |-> how, whose |-> Head(cli)]
         /\ said' = (how = "promise")
         /\ cost' = cost + c
    /\ cli' = Tail(cli)
    /\ busy' = FALSE /\ pump' = "drain"
    /\ UNCHANGED <<up, queue, loop, mode, back, starter, sending, timers, world, left>>

\* Mutant: the length of the queue is not looked at.
DrainQueueUnguarded ==
    /\ pump = "drain" /\ pump' = "after"
    /\ IF ~busy THEN queue' = queue - 1 /\ StartTurn
       ELSE UNCHANGED <<queue, busy, said, cli>>
    /\ UNCHANGED <<up, ended, run, world, left>>

\* drainQueue
DrainQueue ==
    /\ pump = "drain" /\ pump' = "after"
    /\ IF ~busy /\ queue > 0 THEN queue' = queue - 1 /\ StartTurn
       ELSE UNCHANGED <<queue, busy, said, cli>>
    /\ UNCHANGED <<up, ended, run, world, left>>

\* Mutant: the iteration limit is one too many.
OverByOne ==
    IF said THEN "done"
    ELSE IF ended.how = "error" THEN "failed"
    ELSE IF Spent >= MaxUSD \/ loop.iter > MaxIters THEN "exhausted"
    ELSE "no"

\* Why a loop gets no other turn; an error that is a wall stops it just as an
\* error fails it.
Over ==
    IF said THEN "done"
    ELSE IF ended.how = "error" THEN "failed"
    ELSE IF Spent >= MaxUSD \/ loop.iter >= MaxIters THEN "exhausted"
    ELSE "no"

\* Mutant: only the loop's own turns are followed by another iteration.
AfterTurnOwnOnly ==
    /\ pump = "after" /\ pump' = "recv"
    /\ IF ~Running THEN UNCHANGED <<loop, disk, back, timers>>
       ELSE IF Over # "no" THEN StopLoop(Over, mode) /\ UNCHANGED timers
       ELSE /\ timers' = IF ended.whose = "loop" THEN timers + 1 ELSE timers
            /\ UNCHANGED <<loop, disk, back>>
    /\ UNCHANGED <<up, busy, queue, cli, ended, said, cost, mode, starter, sending,
                   stopping, armed, resp, carry, own, crashes, left>>

\* afterTurn: settle the loop, or give it a cooldown.
AfterTurn ==
    /\ pump = "after" /\ pump' = "recv"
    /\ IF ~Running THEN UNCHANGED <<loop, disk, back, timers>>
       ELSE IF Over # "no" THEN StopLoop(Over, mode) /\ UNCHANGED timers
       ELSE timers' = timers + 1 /\ UNCHANGED <<loop, disk, back>>
    /\ UNCHANGED <<up, busy, queue, cli, ended, said, cost, mode, starter, sending,
                   stopping, armed, resp, carry, own, crashes, left>>

-----------------------------------------------------------------------------
(* Endings, restarts and respawns *)

\* The session is deleted (handleCloseSession), or its CLI dies.
Close ==
    /\ up = "live" /\ Spend("close")
    /\ up' = "closing"
    /\ UNCHANGED <<turns, run, world>>

\* The driver has ended: s.closed and s.done.
PumpEnds ==
    /\ up = "closing" /\ pump = "recv"
    /\ up' = "gone" /\ cli' = <<>>
    /\ UNCHANGED <<busy, queue, pump, ended, said, run, world, left>>

\* kunai dies: what it had in memory is read by nobody again.
Crash ==
    /\ Spend("crash")
    /\ up' = "down" /\ crashes' = crashes + 1
    /\ resp' = "no" /\ carry' = NoCarry
    /\ UNCHANGED <<turns, run, stopping, armed, disk, own>>

\* A session as newSession makes it, built in mode m.
NewSession(m) ==
    /\ up' = "live" /\ busy' = FALSE /\ queue' = 0 /\ cli' = <<>> /\ pump' = "recv" /\ said' = FALSE
    /\ loop' = NoLoop /\ cost' = 0 /\ mode' = m
    /\ back' = {} /\ starter' = "no" /\ sending' = 0 /\ timers' = 0 /\ stopping' = FALSE
    /\ UNCHANGED ended

\* Mutant: it is given up on one resume too soon.
BootEarly ==
    /\ up = "down" /\ disk # NoRecord
    /\ IF disk.resumes + 1 >= MaxResumes
       THEN disk' = NoRecord /\ UNCHANGED <<up, turns, run, stopping, armed, resp, carry, own>>
       ELSE /\ NewSession("default") /\ own' = "default" /\ armed' = TRUE
            /\ resp' = "boot" /\ carry' = [loop |-> disk, mode |-> "default"]
            /\ UNCHANGED disk
    /\ UNCHANGED <<crashes, left>>

\* resumeLoops and resumeOneLoop: a record that was resumed too often is given
\* up on; any other gets a session, which is armed before its loop is resumed.
Boot ==
    /\ up = "down" /\ disk # NoRecord
    /\ IF disk.resumes >= MaxResumes
       THEN disk' = NoRecord /\ UNCHANGED <<up, turns, run, stopping, armed, resp, carry, own>>
       ELSE /\ NewSession("default") /\ own' = "default" /\ armed' = TRUE
            /\ resp' = "boot" /\ carry' = [loop |-> disk, mode |-> "default"]
            /\ UNCHANGED disk
    /\ UNCHANGED <<crashes, left>>

\* Mutant: the process is built in the mode the loop borrowed.
HandoffLiveMode ==
    /\ up = "live" /\ resp = "no" /\ Spend("respawn")
    /\ resp' = "handed"
    /\ carry' = IF Running
                THEN [loop |-> [iter |-> loop.iter, spent |-> Spent, resumes |-> loop.resumes], mode |-> mode]
                ELSE [loop |-> NoRecord, mode |-> mode]
    /\ UNCHANGED <<up, turns, run, stopping, armed, disk, own, crashes>>

\* restart: specOf and LoopHandoff...
Handoff ==
    /\ up = "live" /\ resp = "no" /\ Spend("respawn")
    /\ resp' = "handed"
    /\ carry' = IF Running
                THEN [loop |-> [iter |-> loop.iter, spent |-> Spent, resumes |-> loop.resumes], mode |-> loop.prev]
                ELSE [loop |-> NoRecord, mode |-> mode]
    /\ UNCHANGED <<up, turns, run, stopping, armed, disk, own, crashes>>

\* ...then old.Close()...
CloseOld ==
    /\ resp = "handed" /\ resp' = "closed"
    /\ up' = IF up = "live" THEN "closing" ELSE up
    /\ UNCHANGED <<turns, run, stopping, armed, disk, carry, own, crashes, left>>

\* ...and, when the old one is done, Create, which may fail.  By then the old
\* session's goroutines have run into the closed driver, and its cooldowns
\* find it closed.
Recreate ==
    /\ resp = "closed" /\ up = "gone"
    /\ sending = 0 /\ starter = "no" /\ back = {} /\ ~stopping
    /\ \/ NewSession(carry.mode) /\ armed' = FALSE /\ resp' = "created" /\ UNCHANGED carry
       \/ resp' = "no" /\ carry' = NoCarry /\ UNCHANGED <<up, turns, run, stopping, armed>>
    /\ UNCHANGED <<disk, own, crashes, left>>

\* ResumeLoop, under the lock: the saved iteration, and what was spent as a
\* negative start, since the new process bills from zero.
Resume ==
    /\ resp \in {"created", "boot"} /\ starter = "no"
    /\ resp' = IF resp = "boot" THEN "no" ELSE "arm"
    /\ carry' = NoCarry
    /\ IF up # "gone" /\ ~Running /\ carry.loop # NoRecord
       THEN /\ loop' = [st |-> "running", iter |-> carry.loop.iter, start |-> -carry.loop.spent,
                        prev |-> mode, resumes |-> carry.loop.resumes + 1]
            /\ Persist(loop', cost)
            /\ starter' = "borrow"
       ELSE UNCHANGED <<loop, disk, starter>>
    /\ UNCHANGED <<up, turns, cost, mode, back, sending, timers, stopping, armed, own, crashes, left>>

\* The handler that asked for the respawn arms the session when it has it.
Arm ==
    /\ resp = "arm" /\ starter = "no"
    /\ resp' = "no" /\ armed' = TRUE
    /\ UNCHANGED <<up, turns, run, stopping, disk, carry, own, crashes, left>>

Init ==
    /\ up = "live" /\ busy = FALSE /\ queue = 0 /\ cli = <<>> /\ pump = "recv"
    /\ ended = [how |-> "plain", whose |-> "user"] /\ said = FALSE
    /\ own \in Modes
    /\ loop = NoLoop /\ cost = 0 /\ mode = own /\ back = {} /\ starter = "no" /\ sending = 0 /\ timers = 0
    /\ stopping = FALSE /\ armed = TRUE /\ disk = NoRecord /\ resp = "no" /\ carry = NoCarry
    /\ crashes = 0
    /\ left = [start |-> Starts, prompt |-> Prompts, stop |-> Stops, choice |-> Choices,
               close |-> Closes, respawn |-> Respawns, crash |-> Crashes]

Next ==
    \/ /\ up # "down"
       /\ \/ StartLoop \/ Borrow \/ AdvanceNow \/ Cooldown \/ SendIteration
          \/ UserPrompt \/ PressStop \/ SettleStop \/ PressStopLoop
          \/ \E m \in Modes : HandBack(m) \/ SetPermissionMode(m)
          \/ RecvResult \/ DrainQueue \/ AfterTurn
          \/ Close \/ PumpEnds \/ Crash
          \/ Handoff \/ CloseOld \/ Recreate \/ Resume \/ Arm
    \/ Boot

Spec == Init /\ [][Next]_vars

\* What waits for nothing runs on, and the CLI ends its turns.
FairSpec ==
    /\ Spec
    /\ \A m \in Modes : WF_vars(HandBack(m))
    /\ WF_vars(Borrow \/ AdvanceNow) /\ WF_vars(Cooldown) /\ WF_vars(SendIteration)
    /\ WF_vars(SettleStop) /\ WF_vars(RecvResult \/ DrainQueue \/ AfterTurn)
    /\ WF_vars(Resume \/ Arm)

-----------------------------------------------------------------------------
(* What it promises *)

Records == [iter : Nat, spent : Int, resumes : Nat] \cup {NoRecord}

\* Every variable has its type: no queue is shorter than empty, no record is
\* half a record.
TypeOK ==
    /\ up \in {"live", "closing", "gone", "down"} /\ pump \in {"recv", "drain", "after"}
    /\ {busy, said, stopping, armed} \subseteq BOOLEAN
    /\ queue \in Nat /\ cli \in Seq({"user", "loop"})
    /\ ended \in [how : {"plain", "promise", "error"}, whose : {"user", "loop"}]
    /\ loop \in [st : {"none", "running", "done", "stopped", "failed", "exhausted"},
                 iter : Nat, start : Int, prev : Modes, resumes : Nat]
    /\ cost \in Nat /\ {mode, own} \subseteq Modes /\ back \subseteq Modes
    /\ starter \in {"no", "borrow", "advance"} /\ sending \in Nat /\ timers \in Nat
    /\ disk \in Records /\ carry \in [loop : Records, mode : Modes]
    /\ resp \in {"no", "handed", "closed", "created", "arm", "boot"}
    /\ crashes \in Nat

\* "The iteration cap carries over exactly", but for one: whatever is prompted,
\* stopped or started meanwhile, a loop runs the iterations it was given and at
\* most one more for each process it was resumed in, which starts on the next
\* iteration without a look at the cap.
CapHolds == loop.iter <= MaxIters + loop.resumes

\* "a file exists ONLY while the loop is running": the record on disk is the
\* running loop's, at the iteration it is in, and there is none otherwise.  It
\* is all the next boot will know.
RecordCurrent ==
    up # "down" /\ resp = "no" =>
        IF Running /\ up # "gone"
        THEN disk.iter = loop.iter /\ disk.resumes = loop.resumes
        ELSE disk = NoRecord

\* "a loop that keeps dying without ever ending cleanly is given up on": a boot
\* drops a loop only when kunai has died more often than it may be resumed.
GivesUpOnlyCrashLoops ==
    [][up = "down" /\ disk # NoRecord /\ disk' = NoRecord => crashes > MaxResumes]_vars

\* A running loop knows the mode the session was in before any loop borrowed
\* it, through every process that carried the loop.
PrevIsOwn == Running /\ up # "down" => loop.prev = own

\* A loop that is running goes on to its next iteration or ends, whatever is
\* typed, stopped or started around it, while its session lives.
LoopMovesOn ==
    \A i \in 0..MaxIters :
        (up = "live" /\ Running /\ loop.iter = i) ~> (up # "live" \/ ~Running \/ loop.iter # i)
=============================================================================
