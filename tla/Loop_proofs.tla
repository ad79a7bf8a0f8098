----------------------------- MODULE Loop_proofs -----------------------------
(***************************************************************************)
(* What module Loop keeps for every value of its constants.                *)
(***************************************************************************)
EXTENDS Loop, TLAPS

Allowed == {"start", "prompt", "stop", "choice", "close", "respawn", "crash"}

\* The sessions of a kunai that is restarted and does nothing else to them:
\* alive, armed, and never handed to another process.
Steady ==
    /\ left \in [Allowed -> Int] /\ left["close"] = 0 /\ left["respawn"] = 0
    /\ up \in {"live", "down"} /\ armed = TRUE
    /\ resp \in {"no", "boot"}

\* The record of a loop that runs is up to date; one of a loop that does not
\* is there only while a boot is about to resume it.
Recorded ==
    up = "live" =>
        /\ Running => disk.iter = loop.iter /\ disk.resumes = loop.resumes
        /\ ~Running /\ resp = "no" => disk = NoRecord
        /\ resp = "boot" => carry.loop # NoRecord

IInv == Steady /\ Recorded

LEMMA Started ==
    ASSUME Closes = 0, Respawns = 0, Init
    PROVE  IInv
  <1>1. left \in [Allowed -> Int] /\ left["close"] = 0 /\ left["respawn"] = 0
    BY LoopAssumption DEF Init, Allowed
  <1> QED
    BY <1>1 DEF Init, IInv, Steady, Recorded, Running, NoLoop, NoRecord

\* Spending an allowance gives no session back to Close or to a respawn.
LEMMA Spending ==
    ASSUME Steady, NEW what \in Allowed, Spend(what)
    PROVE  /\ what \notin {"close", "respawn"}
           /\ left' \in [Allowed -> Int] /\ left'["close"] = 0 /\ left'["respawn"] = 0
  <1>1. left["close"] = 0 /\ left["respawn"] = 0 /\ left[what] > 0
    BY DEF Steady, Spend
  <1>2. what \notin {"close", "respawn"}
    BY <1>1
  <1>3. left' \in [Allowed -> Int]
    BY DEF Steady, Spend
  <1>4. left'["close"] = left["close"] /\ left'["respawn"] = left["respawn"]
    BY <1>2 DEF Steady, Spend, Allowed
  <1> QED
    BY <1>1, <1>2, <1>3, <1>4

\* Stopping a loop leaves no record, and nothing else of it behind.
LEMMA Stopped ==
    ASSUME IInv, up = "live", NEW st, NEW m, st # "running", StopLoop(st, m),
           up' = up, resp' = resp, armed' = armed, carry' = carry
    PROVE  Recorded'
  <1>1. CASE Running
    <2>1. loop' = [loop EXCEPT !.st = st] /\ Persist(loop', cost)
      BY <1>1 DEF StopLoop
    <2>2. loop'.st # "running"
      BY <2>1
    <2>3. disk' = NoRecord
      BY <2>1, <2>2 DEF Persist, IInv, Steady
    <2> QED
      BY <2>2, <2>3 DEF IInv, Recorded, Running
  <1>2. CASE ~Running
    BY <1>2 DEF StopLoop, IInv, Recorded, Running
  <1> QED
    BY <1>1, <1>2

LEMMA Advanced ==
    ASSUME IInv, up = "live", Advance,
           up' = up, resp' = resp, armed' = armed, carry' = carry
    PROVE  Recorded'
  <1>1. CASE Entitled
    <2>1. Running /\ loop' = [loop EXCEPT !.iter = @ + 1] /\ Persist(loop', cost)
      BY <1>1 DEF Advance, Entitled
    <2>2. disk' = IF loop'.st = "running"
                  THEN [iter |-> loop'.iter, spent |-> cost - loop'.start, resumes |-> loop'.resumes]
                  ELSE NoRecord
      BY <2>1 DEF Persist, IInv, Steady
    <2> QED
      BY <2>2 DEF IInv, Recorded, Running
  <1>2. CASE ~Entitled
    BY <1>2 DEF Advance, IInv, Recorded, Running
  <1> QED
    BY <1>1, <1>2

LEMMA Stepped ==
    ASSUME IInv, Next
    PROVE  IInv'
  <1> USE DEF IInv
  <1>1. CASE Boot
    <2>1. CASE disk.resumes >= MaxResumes
      BY <1>1, <2>1 DEF Boot, Steady, Recorded
    <2>2. CASE ~(disk.resumes >= MaxResumes)
      <3>1. loop' = NoLoop /\ armed' = TRUE /\ resp' = "boot" /\ up' = "live"
        BY <1>1, <2>2 DEF Boot, NewSession
      <3>2. carry' = [loop |-> disk, mode |-> "default"] /\ disk # NoRecord /\ left' = left
        BY <1>1, <2>2 DEF Boot
      <3>3. loop'.st = "none"
        BY <3>1 DEF NoLoop
      <3>4. carry'.loop # NoRecord
        BY <3>2
      <3> QED
        BY <3>1, <3>2, <3>3, <3>4 DEF Steady, Recorded, Running
    <2> QED
      BY <2>1, <2>2
  <1>2. ASSUME up # "down" PROVE up = "live"
    BY <1>2 DEF Steady
  <1>3. CASE up # "down" /\ StartLoop
    <2>1. Steady'
      BY <1>3, Spending DEF StartLoop, Steady, Allowed
    <2>2. loop'.st = "running" /\ Persist(loop', cost)
      BY <1>3 DEF StartLoop
    <2>3. disk'.iter = loop'.iter /\ disk'.resumes = loop'.resumes
      BY <2>2 DEF Persist, Steady
    <2> QED
      BY <1>3, <2>1, <2>2, <2>3 DEF StartLoop, Recorded, Running
  <1>4. CASE up # "down" /\ Borrow
    <2>1. Steady'
      BY <1>4 DEF Borrow, Steady
    <2> QED
      BY <1>2, <1>4, <2>1, Stopped DEF Borrow, Recorded, Running
  <1>5. CASE up # "down" /\ (AdvanceNow \/ Cooldown)
    <2>1. Steady'
      BY <1>5 DEF AdvanceNow, Cooldown, Steady
    <2> QED
      BY <1>2, <1>5, <2>1, Advanced DEF AdvanceNow, Cooldown
  <1>6. CASE up # "down" /\ SendIteration
    BY <1>2, <1>6 DEF SendIteration, Steady, Recorded, Running
  <1>7. CASE up # "down" /\ UserPrompt
    BY <1>2, <1>7, Spending DEF UserPrompt, StartTurn, Steady, Recorded, Running, run, world, Allowed
  <1>8. CASE up # "down" /\ (PressStop \/ PressStopLoop)
    <2>1. Steady'
      BY <1>8, Spending DEF PressStop, PressStopLoop, Steady, turns, Allowed
    <2>2. StopLoop("stopped", mode) /\ up' = up /\ resp' = resp /\ armed' = armed /\ carry' = carry
      BY <1>8 DEF PressStop, PressStopLoop, turns
    <2> QED
      BY <1>2, <1>8, <2>1, <2>2, Stopped
  <1>9. CASE up # "down" /\ SettleStop
    BY <1>9 DEF SettleStop, Steady, Recorded, Running, run
  <1>10. ASSUME NEW m \in Modes, up # "down", HandBack(m) \/ SetPermissionMode(m) PROVE IInv'
    BY <1>10, Spending DEF HandBack, SetPermissionMode, Steady, Recorded, Running, turns, world, Allowed
  <1>11. CASE up # "down" /\ RecvResult
    BY <1>11 DEF RecvResult, Steady, Recorded, Running, world
  <1>12. CASE up # "down" /\ DrainQueue
    BY <1>12 DEF DrainQueue, StartTurn, Steady, Recorded, Running, run, world
  <1>13. CASE up # "down" /\ AfterTurn
    <2>1. Steady'
      BY <1>13 DEF AfterTurn, Steady
    <2>2. Over # "running"
      BY DEF Over
    <2> QED
      BY <1>2, <1>13, <2>1, <2>2, Stopped DEF AfterTurn, Recorded, Running
  <1>14. CASE up # "down" /\ (Close \/ Handoff)
    BY <1>14, Spending DEF Close, Handoff, Allowed
  <1>15. CASE up # "down" /\ Crash
    BY <1>15, Spending DEF Crash, Steady, Recorded, Running, run, Allowed
  <1>16. CASE up # "down" /\ (PumpEnds \/ CloseOld \/ Recreate \/ Arm)
    BY <1>16 DEF PumpEnds, CloseOld, Recreate, Arm, Steady
  <1>17. CASE up # "down" /\ Resume
    <2>1. resp = "boot" /\ up = "live" /\ Steady'
      BY <1>2, <1>17 DEF Resume, Steady
    <2>2. CASE Running
      BY <1>17, <2>1, <2>2 DEF Resume, Recorded, Running
    <2>3. CASE ~Running
      <3>1. loop'.st = "running" /\ Persist(loop', cost)
        BY <1>17, <2>1, <2>3 DEF Resume, Recorded
      <3>2. disk'.iter = loop'.iter /\ disk'.resumes = loop'.resumes
        BY <3>1 DEF Persist, Steady
      <3> QED
        BY <1>17, <2>1, <3>1, <3>2 DEF Resume, Recorded, Running
    <2> QED
      BY <2>2, <2>3
  <1> QED
    BY <1>1, <1>3, <1>4, <1>5, <1>6, <1>7, <1>8, <1>9, <1>10, <1>11, <1>12, <1>13,
       <1>14, <1>15, <1>16, <1>17 DEF Next

\* "a file exists ONLY while the loop is running": whatever prompts, stops,
\* starts and mode changes meet, and however often kunai dies, the record on
\* disk is the running loop's and there is none when no loop runs, as long as
\* sessions are not deleted and not respawned (run loop_close shows what a
\* deletion does).
THEOREM RecordIsTheLoop ==
    ASSUME Closes = 0, Respawns = 0
    PROVE  Spec => []RecordCurrent
  <1>1. IInv /\ [Next]_vars => IInv'
    <2>1. CASE UNCHANGED vars
      BY <2>1 DEF vars, turns, run, world, IInv, Steady, Recorded, Running
    <2> QED
      BY <2>1, Stepped
  <1>2. IInv => RecordCurrent
    BY DEF IInv, Steady, Recorded, RecordCurrent
  <1>3. Init => IInv
    BY Started
  <1> QED
    BY <1>1, <1>2, <1>3, PTL DEF Spec

-----------------------------------------------------------------------------
(* Types *)

LoopType == [st : {"none", "running", "done", "stopped", "failed", "exhausted"},
             iter : Nat, start : Int, prev : Modes, resumes : Nat]

\* Every record of a loop is one: a running loop's, or none.
LEMMA PersistTyped ==
    ASSUME TypeOK, NEW l \in LoopType, NEW c \in Nat, Persist(l, c)
    PROVE  disk' \in Records
  BY DEF Persist, TypeOK, Records, LoopType

LEMMA StopTyped ==
    ASSUME TypeOK, NEW st \in {"done", "stopped", "failed", "exhausted"}, NEW m, StopLoop(st, m)
    PROVE  loop' \in LoopType /\ disk' \in Records /\ back' \subseteq Modes
  <1>1. loop \in LoopType /\ cost \in Nat /\ disk \in Records /\ back \subseteq Modes
    BY DEF TypeOK, LoopType
  <1>2. CASE Running
    <2>1. loop' = [loop EXCEPT !.st = st] /\ Persist(loop', cost)
      BY <1>2 DEF StopLoop
    <2>2. loop' \in LoopType
      BY <1>1, <2>1 DEF LoopType
    <2>3. back' \subseteq back \cup {loop.prev}
      BY <1>2 DEF StopLoop
    <2> QED
      BY <1>1, <2>1, <2>2, <2>3, PersistTyped DEF LoopType
  <1>3. CASE ~Running
    BY <1>1, <1>3 DEF StopLoop
  <1> QED
    BY <1>2, <1>3

LEMMA AdvanceTyped ==
    ASSUME TypeOK, Advance
    PROVE  loop' \in LoopType /\ disk' \in Records /\ {busy', said'} \subseteq BOOLEAN /\ sending' \in Nat
  <1>1. loop \in LoopType /\ cost \in Nat /\ disk \in Records /\ sending \in Nat /\ {busy, said} \subseteq BOOLEAN
    BY DEF TypeOK, LoopType
  <1>2. CASE Entitled
    <2>1. /\ loop' = [loop EXCEPT !.iter = @ + 1] /\ Persist(loop', cost)
          /\ busy' = TRUE /\ said' = FALSE /\ sending' = sending + 1
      BY <1>2 DEF Advance
    <2>2. loop' \in LoopType
      BY <1>1, <2>1 DEF LoopType
    <2>3. {busy', said'} \subseteq BOOLEAN
      BY <2>1
    <2>4. disk' \in Records /\ sending' \in Nat
      BY <1>1, <2>1, <2>2, PersistTyped
    <2> QED
      BY <2>2, <2>3, <2>4
  <1>3. CASE ~Entitled
    BY <1>1, <1>3 DEF Advance
  <1> QED
    BY <1>2, <1>3

LEMMA TurnTyped ==
    ASSUME TypeOK, StartTurn \/ UNCHANGED <<busy, cli, said>>
    PROVE  cli' \in Seq({"user", "loop"}) /\ {busy', said'} \subseteq BOOLEAN
  <1>1. cli \in Seq({"user", "loop"}) /\ Append(cli, "user") \in Seq({"user", "loop"}) /\ {busy, said} \subseteq BOOLEAN
    BY DEF TypeOK
  <1>2. cli' \in Seq({"user", "loop"})
    BY <1>1 DEF StartTurn
  <1>3. busy' \in BOOLEAN /\ said' \in BOOLEAN
    BY <1>1 DEF StartTurn
  <1> QED
    BY <1>2, <1>3

LEMMA TypeInit == Init => TypeOK
  <1> SUFFICES ASSUME Init PROVE TypeOK
    OBVIOUS
  <1>1. {"default", "acceptEdits"} \subseteq Modes /\ NoRecord \in Records
    BY LoopAssumption DEF Records
  <1>2. loop \in LoopType /\ carry \in [loop : Records, mode : Modes]
    BY <1>1 DEF Init, NoLoop, NoCarry, LoopType
  <1>3. {busy, said, stopping, armed} \subseteq BOOLEAN
    BY DEF Init
  <1>4. cli \in Seq({"user", "loop"}) /\ disk \in Records /\ {mode, own} \subseteq Modes /\ back \subseteq Modes
    BY <1>1 DEF Init
  <1>5. ended \in [how : {"plain", "promise", "error"}, whose : {"user", "loop"}]
    BY DEF Init
  <1> QED
    BY <1>2, <1>3, <1>4, <1>5 DEF Init, TypeOK, LoopType

LEMMA TypeStep ==
    ASSUME TypeOK, Next
    PROVE  TypeOK'
  <1>1. {"default", "acceptEdits"} \subseteq Modes /\ NoRecord \in Records /\ loop \in LoopType
    BY LoopAssumption DEF Records, TypeOK, LoopType
  <1>2. NoLoop \in LoopType /\ NoCarry \in [loop : Records, mode : Modes]
    BY <1>1 DEF NoLoop, NoCarry, LoopType
  <1>3. CASE StartLoop
    <2>1. /\ loop' = [st |-> "running", iter |-> 0, start |-> cost, prev |-> mode, resumes |-> 0]
          /\ Persist(loop', cost) /\ cost \in Nat /\ mode \in Modes
      BY <1>3 DEF StartLoop, TypeOK
    <2>2. loop' \in LoopType
      BY <2>1 DEF LoopType
    <2>3. disk' \in Records
      BY <2>1, <2>2, PersistTyped
    <2> QED
      BY <1>3, <2>2, <2>3 DEF StartLoop, TypeOK, LoopType, turns
  <1>4. CASE Borrow
    <2>1. loop' \in LoopType /\ disk' \in Records /\ back' \subseteq Modes
      BY <1>1, <1>4, StopTyped DEF Borrow, TypeOK
    <2>2. mode' \in Modes /\ starter' \in {"no", "borrow", "advance"}
      BY <1>1, <1>4 DEF Borrow
    <2> QED
      BY <1>4, <2>1, <2>2 DEF Borrow, TypeOK, LoopType, turns
  <1>5. CASE AdvanceNow
    BY <1>5, AdvanceTyped DEF AdvanceNow, TypeOK, LoopType
  <1>6. CASE Cooldown
    <2>1. timers' \in Nat
      BY <1>6 DEF Cooldown, TypeOK
    <2> QED
      BY <1>6, <2>1, AdvanceTyped DEF Cooldown, TypeOK, LoopType
  <1>7. CASE SendIteration
    <2>1. loop' \in LoopType /\ disk' \in Records /\ back' \subseteq Modes
      BY <1>1, <1>7, StopTyped DEF SendIteration, TypeOK
    <2>2. sending' \in Nat
      BY <1>7 DEF SendIteration, TypeOK
    <2>3. cli' \in Seq({"user", "loop"})
      <3>1. cli \in Seq({"user", "loop"}) /\ Append(cli, "loop") \in Seq({"user", "loop"})
        BY DEF TypeOK
      <3> QED
        BY <1>7, <3>1 DEF SendIteration
    <2>4. {busy', said', stopping', armed'} \subseteq BOOLEAN
      BY <1>7 DEF SendIteration, TypeOK
    <2> QED
      BY <1>7, <2>1, <2>2, <2>3, <2>4 DEF SendIteration, TypeOK, LoopType
  <1>8. CASE UserPrompt
    <2>1. queue' \in Nat /\ cli' \in Seq({"user", "loop"}) /\ {busy', said'} \subseteq BOOLEAN
      <3>1. queue' \in Nat
        BY <1>8 DEF UserPrompt, TypeOK
      <3> QED
        BY <1>8, <3>1, TurnTyped DEF UserPrompt
    <2> QED
      BY <1>8, <2>1 DEF UserPrompt, TypeOK, run, world
  <1>9. CASE PressStop \/ PressStopLoop
    <2>1. loop' \in LoopType /\ disk' \in Records /\ back' \subseteq Modes
      BY <1>9, StopTyped DEF PressStop, PressStopLoop
    <2>2. {busy', said', stopping', armed'} \subseteq BOOLEAN
      BY <1>9 DEF PressStop, PressStopLoop, TypeOK, turns
    <2>3. queue' \in Nat
      BY <1>9 DEF PressStop, PressStopLoop, TypeOK, turns
    <2> QED
      BY <1>9, <2>1, <2>2, <2>3 DEF PressStop, PressStopLoop, TypeOK, LoopType, turns
  <1>10. CASE SettleStop
    <2>1. {busy', said', stopping', armed'} \subseteq BOOLEAN
      BY <1>10 DEF SettleStop, TypeOK
    <2> QED
      BY <1>10, <2>1 DEF SettleStop, TypeOK, run
  <1>11. ASSUME NEW m \in Modes, HandBack(m) \/ SetPermissionMode(m) PROVE TypeOK'
    BY <1>11 DEF HandBack, SetPermissionMode, TypeOK, turns, world
  <1>12. CASE RecvResult
    <2>1. /\ Head(cli) \in {"user", "loop"} /\ Tail(cli) \in Seq({"user", "loop"})
      BY <1>12 DEF RecvResult, TypeOK
    <2>2. cost' \in Nat /\ said' \in BOOLEAN
      BY <1>12 DEF RecvResult, TypeOK
    <2>3. ended' \in [how : {"plain", "promise", "error"}, whose : {"user", "loop"}]
      BY <1>12, <2>1 DEF RecvResult
    <2> QED
      BY <1>12, <2>1, <2>2, <2>3 DEF RecvResult, TypeOK, world
  <1>13. CASE DrainQueue
    <2>1. queue' \in Nat /\ cli' \in Seq({"user", "loop"}) /\ {busy', said'} \subseteq BOOLEAN
      <3>1. queue' \in Nat
        BY <1>13 DEF DrainQueue, TypeOK
      <3> QED
        BY <1>13, <3>1, TurnTyped DEF DrainQueue
    <2> QED
      BY <1>13, <2>1 DEF DrainQueue, TypeOK, run, world
  <1>14. CASE AfterTurn
    <2>1. Over \in {"no", "done", "failed", "exhausted"}
      BY DEF Over
    <2>2. /\ loop' \in LoopType /\ disk' \in Records /\ back' \subseteq Modes /\ timers' \in Nat
      BY <1>1, <1>14, <2>1, StopTyped DEF AfterTurn, TypeOK
    <2> QED
      BY <1>14, <2>2 DEF AfterTurn, TypeOK, LoopType
  <1>15. CASE Close
    BY <1>15 DEF Close, TypeOK, turns, run, world
  <1>16. CASE PumpEnds
    <2>1. cli' \in Seq({"user", "loop"})
      BY <1>16 DEF PumpEnds
    <2> QED
      BY <1>16, <2>1 DEF PumpEnds, TypeOK, run, world
  <1>17. CASE Crash
    BY <1>2, <1>17 DEF Crash, TypeOK, turns, run
  <1>18. CASE Handoff
    <2>1. carry' \in [loop : Records, mode : Modes]
      BY <1>1, <1>18 DEF Handoff, TypeOK, Records, LoopType, Spent
    <2> QED
      BY <1>18, <2>1 DEF Handoff, TypeOK, turns, run
  <1>19. CASE CloseOld
    BY <1>19 DEF CloseOld, TypeOK, turns, run
  <1>20. ASSUME NEW m \in Modes, NewSession(m), own' \in Modes, armed' \in BOOLEAN,
                disk' \in Records, carry' \in [loop : Records, mode : Modes],
                resp' \in {"no", "handed", "closed", "created", "arm", "boot"}, crashes' = crashes
         PROVE  TypeOK'
    <2>1. cli' \in Seq({"user", "loop"})
      BY <1>20 DEF NewSession
    <2> QED
      BY <1>2, <1>20, <2>1 DEF NewSession, TypeOK, LoopType
  <1>21. CASE Recreate
    <2>1. CASE NewSession(carry.mode) /\ armed' = FALSE /\ resp' = "created" /\ UNCHANGED carry
      BY <1>20, <1>21, <2>1 DEF Recreate, TypeOK
    <2>2. CASE resp' = "no" /\ carry' = NoCarry /\ UNCHANGED <<up, turns, run, stopping, armed>>
      BY <1>2, <1>21, <2>2 DEF Recreate, TypeOK, turns, run
    <2> QED
      BY <1>21, <2>1, <2>2 DEF Recreate
  <1>22. CASE Boot
    <2>1. CASE disk.resumes >= MaxResumes
      BY <1>1, <1>22, <2>1 DEF Boot, TypeOK, turns, run
    <2>2. CASE ~(disk.resumes >= MaxResumes)
      <3>1. carry' \in [loop : Records, mode : Modes]
        BY <1>1, <1>22, <2>2 DEF Boot, TypeOK
      <3> QED
        BY <1>1, <1>20, <1>22, <2>2, <3>1 DEF Boot, TypeOK
    <2> QED
      BY <2>1, <2>2
  <1>23. CASE Resume
    <2>1. CASE up # "gone" /\ ~Running /\ carry.loop # NoRecord
      <3>1. /\ loop' = [st |-> "running", iter |-> carry.loop.iter, start |-> -carry.loop.spent,
                        prev |-> mode, resumes |-> carry.loop.resumes + 1]
            /\ Persist(loop', cost) /\ starter' = "borrow"
        BY <1>23, <2>1 DEF Resume
      <3>2. /\ carry.loop \in [iter : Nat, spent : Int, resumes : Nat] /\ mode \in Modes /\ cost \in Nat
        BY <2>1 DEF TypeOK, Records
      <3>3. loop' \in LoopType
        BY <3>1, <3>2 DEF LoopType
      <3>4. disk' \in Records
        BY <3>1, <3>2, <3>3, PersistTyped
      <3> QED
        BY <1>2, <1>23, <3>1, <3>3, <3>4 DEF Resume, TypeOK, LoopType, turns
    <2>2. CASE ~(up # "gone" /\ ~Running /\ carry.loop # NoRecord)
      BY <1>2, <1>23, <2>2 DEF Resume, TypeOK, turns
    <2> QED
      BY <2>1, <2>2
  <1>24. CASE Arm
    BY <1>24 DEF Arm, TypeOK, turns, run
  <1> QED
    BY <1>3, <1>4, <1>5, <1>6, <1>7, <1>8, <1>9, <1>10, <1>11, <1>12, <1>13, <1>14, <1>15, <1>16,
       <1>17, <1>18, <1>19, <1>21, <1>22, <1>23, <1>24 DEF Next

LEMMA TypeNext == TypeOK /\ [Next]_vars => TypeOK'
  <1>1. CASE UNCHANGED vars
    BY <1>1 DEF vars, turns, run, world, TypeOK
  <1> QED
    BY <1>1, TypeStep

\* No queue is shorter than empty and no record is half a record, for any
\* limits and any number of stops, deletions, respawns and crashes.
THEOREM LoopIsTyped == Spec => []TypeOK
  BY TypeInit, TypeNext, PTL DEF Spec

-----------------------------------------------------------------------------
(* Giving up *)

\* How often a process was taken from under a loop: the resumes there were
\* reasons for.
Deaths == crashes + (Respawns - left["respawn"])

\* A loop has been resumed at most once for each, and what is still to be
\* resumed, after a crash or by a respawn, has one to spare.
Counted ==
    /\ left \in [Allowed -> Int] /\ left["respawn"] \in 0..Respawns
    /\ loop.resumes <= Deaths /\ disk.resumes <= Deaths /\ carry.loop.resumes < Deaths
    /\ up = "down" => disk.resumes < Deaths

DInv == TypeOK /\ Counted

\* What TypeOK says of the numbers.
LEMMA Numbers ==
    ASSUME DInv
    PROVE  /\ loop.resumes \in Nat /\ disk.resumes \in Int /\ carry.loop.resumes \in Int
           /\ crashes \in Nat /\ Deaths \in Nat
           /\ NoRecord.resumes = -1 /\ NoCarry.loop.resumes = -1 /\ NoLoop.resumes = 0
  <1>1. \A r \in Records : r.resumes \in Int
    BY DEF Records, NoRecord
  <1>2. disk \in Records /\ carry.loop \in Records /\ loop.resumes \in Nat /\ crashes \in Nat
    BY DEF DInv, TypeOK
  <1>3. Respawns \in Nat /\ left["respawn"] \in 0..Respawns
    BY LoopAssumption DEF DInv, Counted
  <1> QED
    BY <1>1, <1>2, <1>3 DEF Deaths, NoRecord, NoCarry, NoLoop

\* Spending another allowance than a respawn's is no death.
LEMMA Spent1 ==
    ASSUME DInv, NEW what \in Allowed, Spend(what)
    PROVE  /\ left' \in [Allowed -> Int] /\ left'["respawn"] \in 0..Respawns
           /\ what # "respawn" => left'["respawn"] = left["respawn"]
           /\ what = "respawn" => left'["respawn"] = left["respawn"] - 1
  <1>1. /\ left \in [Allowed -> Int] /\ left[what] > 0 /\ left' = [left EXCEPT ![what] = @ - 1]
        /\ left["respawn"] \in 0..Respawns /\ Respawns \in Nat /\ "respawn" \in Allowed
    BY LoopAssumption DEF Spend, DInv, Counted, Allowed
  <1>2. CASE what = "respawn"
    BY <1>1, <1>2
  <1>3. CASE what # "respawn"
    BY <1>1, <1>3
  <1> QED
    BY <1>2, <1>3

\* A step that leaves the resumes of a loop alone, and kills nobody.
LEMMA SameCount ==
    ASSUME DInv, loop'.resumes = loop.resumes, carry' = carry, crashes' = crashes,
           left' \in [Allowed -> Int], left'["respawn"] = left["respawn"],
           disk' = disk \/ disk' = NoRecord \/ disk'.resumes = loop.resumes,
           up' # "down"
    PROVE  Counted'
  <1>1. Deaths' = Deaths
    BY DEF Deaths
  <1> QED
    BY <1>1, Numbers DEF DInv, Counted

\* What a save writes has the loop's resumes, or none.
LEMMA PersistCount ==
    ASSUME NEW l, NEW c, Persist(l, c)
    PROVE  disk' = disk \/ disk' = NoRecord \/ disk'.resumes = l.resumes
  BY DEF Persist

LEMMA StopCount ==
    ASSUME TypeOK, NEW st, NEW m, StopLoop(st, m)
    PROVE  /\ loop'.resumes = loop.resumes
           /\ disk' = disk \/ disk' = NoRecord \/ disk'.resumes = loop.resumes
  <1>1. CASE Running
    <2>1. loop' = [loop EXCEPT !.st = st] /\ Persist(loop', cost)
      BY <1>1 DEF StopLoop
    <2>2. loop'.resumes = loop.resumes
      BY <2>1 DEF TypeOK
    <2> QED
      BY <2>1, <2>2, PersistCount
  <1>2. CASE ~Running
    BY <1>2 DEF StopLoop
  <1> QED
    BY <1>1, <1>2

LEMMA AdvanceCount ==
    ASSUME TypeOK, Advance
    PROVE  /\ loop'.resumes = loop.resumes
           /\ disk' = disk \/ disk' = NoRecord \/ disk'.resumes = loop.resumes
  <1>1. CASE Entitled
    <2>1. loop' = [loop EXCEPT !.iter = @ + 1] /\ Persist(loop', cost)
      BY <1>1 DEF Advance
    <2>2. loop'.resumes = loop.resumes
      BY <2>1 DEF TypeOK
    <2> QED
      BY <2>1, <2>2, PersistCount
  <1>2. CASE ~Entitled
    BY <1>2 DEF Advance
  <1> QED
    BY <1>1, <1>2

LEMMA CountStep ==
    ASSUME DInv, Next
    PROVE  Counted'
  <1> USE DEF DInv
  <1>1. left \in [Allowed -> Int] /\ Deaths \in Nat
    BY Numbers DEF Counted
  <1>2. CASE Boot
    <2>1. CASE disk.resumes >= MaxResumes
      <3>1. disk' = NoRecord /\ UNCHANGED <<loop, carry, crashes, left>>
        BY <1>2, <2>1 DEF Boot, run
      <3>2. Deaths' = Deaths
        BY <3>1 DEF Deaths
      <3> QED
        BY <1>1, <3>1, <3>2, Numbers DEF Counted
    <2>2. CASE ~(disk.resumes >= MaxResumes)
      <3>1. /\ loop' = NoLoop /\ disk' = disk /\ carry' = [loop |-> disk, mode |-> "default"]
            /\ up = "down" /\ up' = "live" /\ UNCHANGED <<crashes, left>>
        BY <1>2, <2>2 DEF Boot, NewSession
      <3>2. Deaths' = Deaths /\ carry'.loop.resumes = disk.resumes
        BY <3>1 DEF Deaths
      <3> QED
        BY <1>1, <3>1, <3>2, Numbers DEF Counted
    <2> QED
      BY <2>1, <2>2
  <1> DEFINE alive == up # "down" /\ up' # "down"
  <1>3. CASE StartLoop /\ alive
    <2>1. /\ loop'.resumes = 0 /\ Persist(loop', cost) /\ carry' = carry /\ crashes' = crashes /\ Spend("start")
      BY <1>3 DEF StartLoop
    <2>2. left' \in [Allowed -> Int] /\ left'["respawn"] = left["respawn"] /\ left'["respawn"] \in 0..Respawns
      BY <2>1, Spent1 DEF Allowed
    <2>3. Deaths' = Deaths /\ (disk' = disk \/ disk' = NoRecord \/ disk'.resumes = 0)
      BY <2>1, <2>2, PersistCount DEF Deaths
    <2> QED
      BY <1>1, <1>3, <2>1, <2>2, <2>3, Numbers DEF Counted
  <1>4. CASE Borrow /\ alive
    <2>1. loop'.resumes = loop.resumes /\ (disk' = disk \/ disk' = NoRecord \/ disk'.resumes = loop.resumes)
      BY <1>4, StopCount DEF Borrow
    <2> QED
      BY <1>1, <1>4, <2>1, SameCount DEF Borrow
  <1>5. CASE (AdvanceNow \/ Cooldown) /\ alive
    <2>1. Advance /\ UNCHANGED <<carry, crashes, left>>
      BY <1>5 DEF AdvanceNow, Cooldown
    <2> QED
      BY <1>1, <1>5, <2>1, AdvanceCount, SameCount
  <1>6. CASE SendIteration /\ alive
    <2>1. loop'.resumes = loop.resumes /\ (disk' = disk \/ disk' = NoRecord \/ disk'.resumes = loop.resumes)
      BY <1>6, StopCount DEF SendIteration
    <2> QED
      BY <1>1, <1>6, <2>1, SameCount DEF SendIteration
  <1>7. CASE UserPrompt /\ alive
    <2>1. UNCHANGED <<loop, disk, carry, crashes>> /\ Spend("prompt")
      BY <1>7 DEF UserPrompt, run, world
    <2> QED
      BY <1>7, <2>1, Spent1, SameCount DEF Allowed
  <1>8. CASE (PressStop \/ PressStopLoop) /\ alive
    <2>1. StopLoop("stopped", mode) /\ UNCHANGED <<carry, crashes>> /\ Spend("stop")
      BY <1>8 DEF PressStop, PressStopLoop
    <2> QED
      BY <1>8, <2>1, Spent1, StopCount, SameCount DEF Allowed
  <1>9. CASE (SettleStop \/ RecvResult \/ DrainQueue \/ PumpEnds \/ CloseOld \/ Arm) /\ alive
    <2>1. UNCHANGED <<loop, disk, carry, crashes, left>>
      BY <1>9 DEF SettleStop, RecvResult, DrainQueue, PumpEnds, CloseOld, Arm, run, world
    <2> QED
      BY <1>1, <1>9, <2>1, SameCount
  <1>10. ASSUME NEW m \in Modes, HandBack(m) \/ SetPermissionMode(m), alive PROVE Counted'
    <2>1. UNCHANGED <<loop, disk, carry, crashes>>
      BY <1>10 DEF HandBack, SetPermissionMode, world
    <2>2. left' \in [Allowed -> Int] /\ left'["respawn"] = left["respawn"]
      BY <1>1, <1>10, Spent1 DEF HandBack, SetPermissionMode, Allowed
    <2> QED
      BY <1>10, <2>1, <2>2, SameCount
  <1>11. CASE AfterTurn /\ alive
    <2>1. loop'.resumes = loop.resumes /\ (disk' = disk \/ disk' = NoRecord \/ disk'.resumes = loop.resumes)
      BY <1>11, StopCount DEF AfterTurn
    <2> QED
      BY <1>1, <1>11, <2>1, SameCount DEF AfterTurn
  <1>12. CASE Close /\ alive
    <2>1. UNCHANGED <<loop, disk, carry, crashes>> /\ Spend("close")
      BY <1>12 DEF Close, run, world
    <2> QED
      BY <1>12, <2>1, Spent1, SameCount DEF Allowed
  <1>13. CASE Crash
    <2>1. UNCHANGED <<loop, disk>> /\ carry' = NoCarry /\ crashes' = crashes + 1 /\ Spend("crash")
      BY <1>13 DEF Crash, run
    <2>2. left' \in [Allowed -> Int] /\ left'["respawn"] = left["respawn"] /\ left'["respawn"] \in 0..Respawns
      BY <2>1, Spent1 DEF Allowed
    <2>3. Deaths' = Deaths + 1
      <3>1. crashes \in Nat /\ Respawns \in Nat /\ left["respawn"] \in Int
        BY Numbers, LoopAssumption DEF Counted
      <3> QED
        BY <2>1, <2>2, <3>1 DEF Deaths
    <2> QED
      BY <1>1, <2>1, <2>2, <2>3, Numbers DEF Counted
  <1>14. CASE Handoff /\ alive
    <2>1. UNCHANGED <<loop, disk, crashes>> /\ Spend("respawn")
      BY <1>14 DEF Handoff, run
    <2>2. left' \in [Allowed -> Int] /\ left'["respawn"] = left["respawn"] - 1 /\ left'["respawn"] \in 0..Respawns
      BY <2>1, Spent1 DEF Allowed
    <2>3. Deaths' = Deaths + 1
      <3>1. crashes \in Nat /\ Respawns \in Nat /\ left["respawn"] \in Int
        BY Numbers, LoopAssumption DEF Counted
      <3> QED
        BY <2>1, <2>2, <3>1 DEF Deaths
    <2>4. carry'.loop.resumes \in {loop.resumes, -1}
      BY <1>14 DEF Handoff, NoRecord
    <2> QED
      BY <1>1, <1>14, <2>1, <2>2, <2>3, <2>4, Numbers DEF Counted
  <1>15. CASE Recreate /\ alive
    <2>1. (loop' = loop \/ loop' = NoLoop) /\ (carry' = carry \/ carry' = NoCarry) /\ UNCHANGED <<disk, crashes, left>>
      BY <1>15 DEF Recreate, NewSession, run
    <2>2. Deaths' = Deaths
      BY <2>1 DEF Deaths
    <2> QED
      BY <1>1, <1>15, <2>1, <2>2, Numbers DEF Counted
  <1>16. CASE Resume /\ alive
    <2>1. /\ carry' = NoCarry /\ UNCHANGED <<crashes, left>>
          /\ \/ UNCHANGED <<loop, disk>>
             \/ loop'.resumes = carry.loop.resumes + 1 /\ Persist(loop', cost)
      BY <1>16 DEF Resume
    <2>2. Deaths' = Deaths
      BY <2>1 DEF Deaths
    <2>3. disk' = disk \/ disk' = NoRecord \/ disk'.resumes = loop'.resumes
      BY <2>1, PersistCount
    <2> QED
      BY <1>1, <1>16, <2>1, <2>2, <2>3, Numbers DEF Counted
  <1>17. Boot \/ Crash \/ alive
    BY DEF Next, StartLoop, Borrow, AdvanceNow, Cooldown, SendIteration, UserPrompt, PressStop, SettleStop,
           PressStopLoop, HandBack, SetPermissionMode, RecvResult, DrainQueue, AfterTurn, Close, PumpEnds,
           Handoff, CloseOld, Recreate, NewSession, Resume, Arm
  <1> HIDE DEF alive
  <1> QED
    BY <1>2, <1>3, <1>4, <1>5, <1>6, <1>7, <1>8, <1>9, <1>10, <1>11, <1>12, <1>13,
       <1>14, <1>15, <1>16, <1>17 DEF Next

LEMMA CountNext == DInv /\ [Next]_vars => DInv'
  <1>1. ASSUME DInv, UNCHANGED vars PROVE Counted'
    BY <1>1 DEF vars, run, world, DInv, Counted, Deaths
  <1> QED
    BY <1>1, CountStep, TypeNext DEF DInv

LEMMA CountInit == Init => DInv
  <1> SUFFICES ASSUME Init PROVE Counted
    BY TypeInit DEF DInv
  <1>1. left \in [Allowed -> Int] /\ left["respawn"] = Respawns /\ Respawns \in Nat
    BY LoopAssumption DEF Init, Allowed
  <1>2. Deaths = 0 /\ loop.resumes = 0 /\ disk.resumes = -1 /\ carry.loop.resumes = -1 /\ up = "live"
    BY <1>1 DEF Init, Deaths, NoLoop, NoRecord, NoCarry
  <1> QED
    BY <1>1, <1>2 DEF Counted

\* Only a boot takes a record from a dead kunai, and gives the loop up then.
LEMMA GivingUp ==
    ASSUME DInv, [Next]_vars, up = "down", disk # NoRecord, disk' = NoRecord
    PROVE  Deaths > MaxResumes
  <1>1. Boot
    BY DEF Next, vars, world
  <1>2. disk.resumes >= MaxResumes
    BY <1>1 DEF Boot
  <1>3. disk.resumes < Deaths /\ disk.resumes \in Int /\ Deaths \in Nat /\ MaxResumes \in Nat
    BY Numbers, LoopAssumption DEF DInv, Counted
  <1> QED
    BY <1>2, <1>3

\* A loop is given up on only after more deaths of its process, by a crash or a
\* respawn, than it may be resumed after.
THEOREM GivesUpAfterDeaths ==
    Spec => [][up = "down" /\ disk # NoRecord /\ disk' = NoRecord => Deaths > MaxResumes]_vars
  <1>1. DInv /\ [Next]_vars => [up = "down" /\ disk # NoRecord /\ disk' = NoRecord => Deaths > MaxResumes]_vars
    BY GivingUp
  <1> QED
    BY <1>1, CountInit, CountNext, PTL DEF Spec

\* "a loop that keeps dying without ever ending cleanly is given up on", and no
\* other: with nobody respawning it, kunai has died more often than the loop may
\* be resumed.  A respawn counts as a death, which is why they are left out.
THEOREM OnlyCrashLoopsGivenUp ==
    ASSUME Respawns = 0
    PROVE  Spec => GivesUpOnlyCrashLoops
  <1>1. DInv /\ [Next]_vars => [up = "down" /\ disk # NoRecord /\ disk' = NoRecord => crashes > MaxResumes]_vars
    <2> SUFFICES ASSUME DInv, [Next]_vars, up = "down", disk # NoRecord, disk' = NoRecord
                 PROVE  crashes > MaxResumes
      OBVIOUS
    <2>1. Deaths = crashes
      BY Numbers DEF DInv, Counted, Deaths
    <2> QED
      BY <2>1, GivingUp
  <1> QED
    BY <1>1, CountInit, CountNext, PTL DEF Spec, GivesUpOnlyCrashLoops
=============================================================================
