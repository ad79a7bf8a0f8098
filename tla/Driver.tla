------------------------------- MODULE Driver -------------------------------
(***************************************************************************)
(* One claude process and the goroutines around it: internal/claude's      *)
(* driver.go, with the boot and the end of its session (manager.go Create, *)
(* session.go pump and FailStart).  Start runs on a goroutine of its own,  *)
(* so a Close may come at any of its steps; a frame is written by one      *)
(* goroutine, read by another, and a third waits for the process to end.   *)
(*                                                                         *)
(* A frame is its number in the order it was sent or said, the initialize  *)
(* request and its answer have none before them.                           *)
(***************************************************************************)
EXTENDS Integers, Sequences, SequencesExt

CONSTANTS Closer,     \* requests to close the session; Starter's own is FailStart's
          Starter,
          OutCap, EventCap,           \* the two channels
          MaxSends, MaxSays           \* bounds: turns sent, frames said

ASSUME DriverAssumption ==
  /\ OutCap \in Nat \ {0} /\ EventCap \in Nat \ {0} /\ MaxSends \in Nat /\ MaxSays \in Nat
  /\ Starter \notin Closer

VARIABLES boot,       \* how far Start is
          ctx,        \* the process's context: "none", "on", "cancelled"
          cmd,        \* s.cmd is there to be killed
          process,        \* the process: "none", "up", "ended"
          mourned,    \* it ended with something to say why
          stdin, heard,           \* what is in its stdin, what it has read
          stdout, piped,          \* what is in its stdout, and whether our end is open
          said,                   \* how many frames it said
          outgoing, sentTurns,              \* frames to be written, and how many were taken
          writer, reader, waiter, \* the three goroutines
          reading,                   \* the event the reader is passing on
          eventChan, closed, ready,    \* the events, and the two channels that are closed
          pumped,                  \* what the pump took
          closing,                \* how far each Close is
          garbled,                \* a line came that is no frame
          crashed                 \* a goroutine panicked

drVars == <<boot, ctx, cmd, process, mourned, stdin, heard, stdout, piped, said, outgoing, sentTurns,
            writer, reader, waiter, reading, eventChan, closed, ready, pumped, closing, garbled, crashed>>
pipes == <<stdin, heard, stdout, piped, said>>
ends == <<eventChan, closed, crashed>>

Initialize == 0      \* the first frame each way
Garbage == -1        \* a line that is no frame, and the error it makes
Why == -2            \* the event that tells why the process left
NotClosing == [step |-> "idle", cancel |-> FALSE, kill |-> FALSE]

DrInit ==
  /\ boot = "made" /\ ctx = "none" /\ cmd = FALSE /\ process = "none" /\ mourned = FALSE
  /\ stdin = <<>> /\ heard = <<>> /\ stdout = <<>> /\ piped = TRUE /\ said = 0
  /\ outgoing = <<>> /\ sentTurns = 0
  /\ writer = "off" /\ reader = "off" /\ reading = 0 /\ waiter = "off"
  /\ eventChan = <<>> /\ closed = FALSE /\ ready = FALSE /\ pumped = <<>>
  /\ closing = [c \in Closer \cup {Starter} |-> NotClosing]
  /\ garbled = FALSE /\ crashed = FALSE

\* shutdown, of which only the first closes anything
DriverShutdown == closed' = TRUE /\ UNCHANGED <<eventChan, crashed>>

\* mutant: a send to the channel that is being closed is not caught
EmitUncaught(event) ==
  \/ ~closed /\ Len(eventChan) < EventCap /\ eventChan' = Append(eventChan, event) /\ UNCHANGED <<closed, crashed>>
  \/ closed /\ crashed' = TRUE /\ UNCHANGED <<eventChan, closed>>

\* mutant: nobody waits for room in the channel
EmitEager(event) ==
  \/ ~closed /\ eventChan' = Append(eventChan, event) /\ UNCHANGED <<closed, crashed>>
  \/ closed /\ UNCHANGED ends

\* room in the channel, or a session that is over: then the event is dropped
EmitEvent(event) ==
  \/ ~closed /\ Len(eventChan) < EventCap /\ eventChan' = Append(eventChan, event) /\ UNCHANGED <<closed, crashed>>
  \/ closed /\ UNCHANGED ends

(***************************************************************************)
(* Start.                                                                  *)
(***************************************************************************)
MakesContext ==
  /\ boot = "made" /\ boot' = "ctx" /\ ctx' = "on"
  /\ UNCHANGED <<cmd, process, mourned, pipes, outgoing, sentTurns, writer, reader, waiter, ends, ready, reading,
                 pumped, closing, garbled>>

\* a cancelled context starts nothing
Spawns ==
  /\ boot = "ctx"
  /\ IF ctx = "cancelled" THEN boot' = "failing" /\ process' = process
     ELSE boot' = "spawned" /\ process' = "up"
  /\ UNCHANGED <<ctx, cmd, mourned, pipes, outgoing, sentTurns, writer, reader, waiter, ends, ready, reading,
                 pumped, closing, garbled>>

Publishes ==
  /\ boot = "spawned" /\ boot' = "published" /\ cmd' = TRUE
  /\ UNCHANGED <<ctx, process, mourned, pipes, outgoing, sentTurns, writer, reader, waiter, ends, ready, reading,
                 pumped, closing, garbled>>

\* mutant: initialize takes its turn in the queue
InitializeQueued ==
  /\ boot = "published" /\ boot' = "told" /\ Len(outgoing) < OutCap /\ outgoing' = Append(outgoing, Initialize)
  /\ UNCHANGED <<ctx, cmd, process, mourned, pipes, sentTurns, writer, reader, waiter, ends, ready, reading,
                 pumped, closing, garbled>>

\* initialize is written before there is a goroutine that writes
Initializes ==
  /\ boot = "published"
  /\ IF process = "up" THEN stdin' = Append(stdin, Initialize) /\ boot' = "told"
     ELSE stdin' = stdin /\ boot' = "failing"
  /\ UNCHANGED <<ctx, cmd, process, mourned, heard, stdout, piped, said, outgoing, sentTurns, writer, reader,
                 waiter, ends, ready, reading, pumped, closing, garbled>>

\* the goroutines start, and Start waits
Waits ==
  /\ boot = "told" /\ boot' = "waiting"
  /\ writer' = "on" /\ reader' = "on" /\ waiter' = "on"
  /\ UNCHANGED <<ctx, cmd, process, mourned, pipes, outgoing, sentTurns, ends, ready, reading, pumped, closing, garbled>>

\* ready, or over, or too late: any failure has FailStart close the session
StartReturns ==
  /\ boot = "waiting"
  /\ \/ ready /\ boot' = "ok"
     \/ boot' = "failing"
  /\ UNCHANGED <<ctx, cmd, process, mourned, pipes, outgoing, sentTurns, writer, reader, waiter, ends, ready, reading,
                 pumped, closing, garbled>>

(***************************************************************************)
(* Close: what there is to kill is read, it is killed, all is shut down.   *)
(***************************************************************************)
MayClose(c) == c \in Closer \/ boot = "failing"

CloseTakes(c) ==
  /\ closing[c].step = "idle" /\ MayClose(c)
  /\ closing' = [closing EXCEPT ![c] = [step |-> "took", cancel |-> ctx # "none", kill |-> cmd]]
  /\ UNCHANGED <<boot, ctx, cmd, process, mourned, pipes, outgoing, sentTurns, writer, reader, waiter, ends,
                 ready, reading, pumped, garbled>>

\* mutant: a process still starting is left for Start to deal with
KillsCommandOnly(c) ==
  /\ closing[c].step = "took" /\ closing' = [closing EXCEPT ![c].step = "killed"]
  /\ ctx' = ctx /\ process' = IF closing[c].kill /\ process = "up" THEN "ended" ELSE process
  /\ UNCHANGED <<boot, cmd, mourned, pipes, outgoing, sentTurns, writer, reader, waiter, ends,
                 ready, reading, pumped, garbled>>

Kills(c) ==
  /\ closing[c].step = "took" /\ closing' = [closing EXCEPT ![c].step = "killed"]
  /\ ctx' = IF closing[c].cancel THEN "cancelled" ELSE ctx
  /\ process' = IF closing[c].kill /\ process = "up" THEN "ended" ELSE process
  /\ UNCHANGED <<boot, cmd, mourned, pipes, outgoing, sentTurns, writer, reader, waiter, ends,
                 ready, reading, pumped, garbled>>

ShutsDown(c) ==
  /\ closing[c].step = "killed" /\ closing' = [closing EXCEPT ![c].step = "done"] /\ DriverShutdown
  /\ boot' = IF c = Starter THEN "failed" ELSE boot
  /\ UNCHANGED <<ctx, cmd, process, mourned, pipes, outgoing, sentTurns, writer, reader, waiter, ready, reading, pumped, garbled>>

\* a cancelled context kills its process, from another goroutine
ContextKills ==
  /\ ctx = "cancelled" /\ process = "up" /\ process' = "ended"
  /\ UNCHANGED <<boot, ctx, cmd, mourned, pipes, outgoing, sentTurns, writer, reader, waiter, ends, ready, reading,
                 pumped, closing, garbled>>

(***************************************************************************)
(* Sending and receiving.                                                  *)
(***************************************************************************)
\* a turn is taken as soon as there is room, be the process there or not
Sends ==
  /\ sentTurns < MaxSends /\ Len(outgoing) < OutCap
  /\ sentTurns' = sentTurns + 1 /\ outgoing' = Append(outgoing, sentTurns + 1)
  /\ UNCHANGED <<boot, ctx, cmd, process, mourned, pipes, writer, reader, waiter, ends, ready, reading, pumped,
                 closing, garbled>>

WritesFrame ==
  /\ writer = "on"
  /\ \/ closed /\ writer' = "gone" /\ UNCHANGED <<outgoing, stdin>>
     \/ /\ outgoing # <<>> /\ outgoing' = Tail(outgoing)
        /\ IF process = "up" THEN stdin' = Append(stdin, Head(outgoing)) /\ writer' = writer
           ELSE stdin' = stdin /\ writer' = "gone"
  /\ UNCHANGED <<boot, ctx, cmd, process, mourned, heard, stdout, piped, said, sentTurns, reader, waiter,
                 ends, ready, reading, pumped, closing, garbled>>

\* mutant: an end of the stream is not the end of the session
ReadOn(r) == reader' = "gone" /\ UNCHANGED ends

\* the stream is over: the reader shuts the session down
ReadOver(r) == reader' = r /\ DriverShutdown

\* the next frame; the end of the stream; or an end of the pipe that Wait closed
ReadsFrame ==
  /\ reader = "on"
  /\ \/ /\ piped /\ stdout # <<>> /\ stdout' = Tail(stdout)
        /\ IF Head(stdout) = Initialize THEN ready' = TRUE /\ reader' = "on"
           ELSE ready' = ready /\ reader' = "passing"
        /\ reading' = Head(stdout)
        /\ UNCHANGED ends
     \/ piped /\ stdout = <<>> /\ process = "ended" /\ ReadOver("gone") /\ UNCHANGED <<stdout, ready, reading>>
     \/ ~piped /\ reader' = "passing" /\ reading' = Garbage /\ UNCHANGED <<ends, stdout, ready>>
  /\ UNCHANGED <<boot, ctx, cmd, process, mourned, stdin, heard, piped, said, outgoing, sentTurns, writer,
                 waiter, pumped, closing, garbled>>

\* what was read is passed on; a line that is no frame ends the session after that
Passes ==
  /\ reader = "passing"
  /\ EmitEvent(reading) /\ reader' = IF reading = Garbage THEN "failed" ELSE "on"
  /\ UNCHANGED <<boot, ctx, cmd, process, mourned, pipes, outgoing, sentTurns, writer, waiter, ready, reading, pumped,
                 closing, garbled>>

Fails ==
  /\ reader = "failed" /\ ReadOver("gone")
  /\ UNCHANGED <<boot, ctx, cmd, process, mourned, pipes, outgoing, sentTurns, writer, waiter, ready, reading, pumped,
                 closing, garbled>>

\* cmd.Wait: the process has ended, and with it our end of its stdout
Reaps ==
  /\ waiter = "on" /\ process = "ended" /\ piped' = FALSE
  /\ waiter' = IF mourned THEN "telling" ELSE "told"
  /\ UNCHANGED <<boot, ctx, cmd, process, mourned, stdin, heard, stdout, said, outgoing, sentTurns, writer,
                 reader, ends, ready, reading, pumped, closing, garbled>>

TellsWhy ==
  /\ waiter = "telling" /\ EmitEvent(Why) /\ waiter' = "told"
  /\ UNCHANGED <<boot, ctx, cmd, process, mourned, pipes, outgoing, sentTurns, writer, reader, ready, reading, pumped,
                 closing, garbled>>

Follows ==
  /\ waiter = "told" /\ waiter' = "gone" /\ DriverShutdown
  /\ UNCHANGED <<boot, ctx, cmd, process, mourned, pipes, outgoing, sentTurns, writer, reader, ready, reading, pumped,
                 closing, garbled>>

\* the session's pump takes what the channel holds, closed or not
Pumps ==
  /\ eventChan # <<>> /\ eventChan' = Tail(eventChan) /\ pumped' = Append(pumped, Head(eventChan))
  /\ UNCHANGED <<boot, ctx, cmd, process, mourned, pipes, outgoing, sentTurns, writer, reader, waiter, closed,
                 crashed, ready, reading, closing, garbled>>

(***************************************************************************)
(* The CLI.                                                                *)
(***************************************************************************)
CliHears ==
  /\ process = "up" /\ stdin # <<>> /\ stdin' = Tail(stdin) /\ heard' = Append(heard, Head(stdin))
  /\ stdout' = IF Head(stdin) = Initialize THEN Append(stdout, Initialize) ELSE stdout
  /\ UNCHANGED <<boot, ctx, cmd, process, mourned, piped, said, outgoing, sentTurns, writer, reader, waiter, ends,
                 ready, reading, pumped, closing, garbled>>

Speaks ==
  /\ process = "up" /\ heard # <<>> /\ said < MaxSays
  /\ \/ said' = said + 1 /\ stdout' = Append(stdout, said + 1) /\ garbled' = garbled
     \/ ~garbled /\ said' = said /\ garbled' = TRUE /\ stdout' = Append(stdout, Garbage)
  /\ UNCHANGED <<boot, ctx, cmd, process, mourned, stdin, heard, piped, outgoing, sentTurns, writer, reader,
                 waiter, ends, ready, reading, pumped, closing>>

Quits ==
  /\ process = "up" /\ process' = "ended" /\ mourned' = TRUE
  /\ UNCHANGED <<boot, ctx, cmd, pipes, outgoing, sentTurns, writer, reader, waiter, ends, ready, reading, pumped,
                 closing, garbled>>

DrNext ==
  \/ MakesContext \/ Spawns \/ Publishes \/ Initializes \/ Waits \/ StartReturns
  \/ \E c \in Closer \cup {Starter} : CloseTakes(c) \/ Kills(c) \/ ShutsDown(c)
  \/ ContextKills
  \/ Sends \/ WritesFrame \/ ReadsFrame \/ Passes \/ Fails \/ Reaps \/ TellsWhy \/ Follows \/ Pumps
  \/ CliHears \/ Speaks \/ Quits

DrSpec == DrInit /\ [][DrNext]_drVars

-----------------------------------------------------------------------------
\* Types of all state.
DrTypeOK ==
  /\ boot \in {"made", "ctx", "spawned", "published", "told", "waiting", "ok", "failing", "failed"}
  /\ ctx \in {"none", "on", "cancelled"} /\ process \in {"none", "up", "ended"}
  /\ cmd \in BOOLEAN /\ mourned \in BOOLEAN /\ piped \in BOOLEAN /\ closed \in BOOLEAN
  /\ ready \in BOOLEAN /\ garbled \in BOOLEAN
  /\ sentTurns \in 0..MaxSends /\ said \in 0..MaxSays
  /\ Len(outgoing) <= OutCap /\ Len(eventChan) <= EventCap
  /\ writer \in {"off", "on", "gone"} /\ waiter \in {"off", "on", "telling", "told", "gone"}
  /\ \A c \in Closer \cup {Starter} : closing[c].step \in {"idle", "took", "killed", "done"}

Numbers(n) == [k \in 1..n |-> k]
IsFrame(e) == e \notin {Garbage, Why}

\* The process hears initialize first and then the turns in the order they
\* were sent, none left out, whenever they were sent.
HeardInOrder ==
  LET through == heard \o stdin
  IN  Len(through) <= sentTurns + 1 /\ \A k \in DOMAIN through : through[k] = Initialize + k - 1

\* What the session gets of what the process said is its beginning: a frame
\* is lost only with all that follow it.
SaidInOrder ==
  LET passed == pumped \o eventChan
  IN  \A k \in DOMAIN passed : IsFrame(passed[k]) =>
        /\ passed[k] \in 1..said
        /\ passed[k] = 1 \/ \E j \in 1..(k - 1) : passed[j] = passed[k] - 1
        /\ \A j \in 1..(k - 1) : IsFrame(passed[j]) => passed[j] < passed[k]

\* No process is left behind: when the session is over, Start is done and no
\* Close is under way, the process has ended or is being killed.  (A line
\* that is no frame ends the session and not the process; and a Close that
\* found nothing to kill relies on Start to fail.)
NoProcessLeft ==
  (/\ closed /\ boot \in {"ok", "failed"}
   /\ \A c \in Closer \cup {Starter} :
        \/ closing[c].step = "idle"
        \/ closing[c].step = "done" /\ (boot = "ok" => closing[c].cancel))
  => process # "up" \/ ctx = "cancelled" \/ garbled

\* A session that started was answered, and an end that is noticed is the
\* session's end: no session lives on whose reader is gone.
ReadyIsReal ==
  /\ boot = "ok" => Initialize \in ToSet(heard)
  /\ "gone" \in {reader, waiter} => closed

\* The driver: initialize first, nothing out of order, no panic at the end,
\* and no process left behind (internal/claude/driver.go).
DriverIsSound ==
  /\ HeardInOrder
  /\ SaidInOrder
  /\ NoProcessLeft
  /\ ReadyIsReal
  /\ ~crashed

\* driver.go:296-303: the reason a process left is told before all is closed.
LastWordsAreTold ==
  closed /\ mourned /\ waiter = "gone" /\ eventChan = <<>>
    /\ (\A c \in Closer \cup {Starter} : closing[c].step = "idle")
  => \E k \in DOMAIN pumped : pumped[k] = Why

\* What the process said before it quit is heard.
NothingIsCutOff ==
  reader = "gone" /\ ~garbled /\ eventChan = <<>>
    /\ (\A c \in Closer \cup {Starter} : closing[c].step = "idle")
  => SelectSeq(pumped, IsFrame) = Numbers(said)
=============================================================================
