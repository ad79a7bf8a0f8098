--------------------------- MODULE Scheduler_proofs ---------------------------
(***************************************************************************)
(* What module Scheduler keeps for every set of jobs and windows, every    *)
(* length of a day, and any number of edits, resets and crashes.           *)
(***************************************************************************)
EXTENDS Scheduler, WellFoundedInduction, TLAPS

\* The times job i was taken up for.
Taken(i) == {t \in Nat : <<i, t>> \in due \cup fired}

\* What a record remembers of those times, T: a job that is on, or may be
\* switched on, has a time ahead that is after all of them.
Remembers(T, j) ==
    /\ j.st = "new" => T = {} /\ j.armed = 0
    /\ j.st = "on" => j.kind = "reset" \/ j.rearm \/ ~j.ran
    /\ j.st \in {"on", "off"} /\ j.kind = "at" /\ (j.rearm \/ ~j.ran) => \A t \in T : t < j.at
    /\ j.st \in {"on", "off"} /\ j.kind = "reset" =>
         /\ \A t \in T : t <= j.lastFired + j.offset
         /\ j.armed # 0 => j.lastFired < j.armed

Remembered == file = jobs /\ \A i \in Job : Remembers(Taken(i), jobs[i])

\* The types the argument rests on: what the loop sleeps until is not one.
Types ==
    /\ now \in Nat /\ jobs \in [Job -> JobType] /\ resets \in [Window -> Nat]
    /\ due \subseteq Job \X Nat /\ fired \subseteq Job \X Nat
    /\ pc # "fire" => due = {}

IInv == Types /\ OnceOnly /\ Remembered

-----------------------------------------------------------------------------
(* Records *)

LEMMA EmptyRecords == NoJob \in JobType /\ Gone \in JobType
  <1>1. (CHOOSE w \in Window : TRUE) \in Window
    BY SchedulerAssumption
  <1> QED
    BY <1>1 DEF NoJob, Gone, JobType

\* A recurring job's next day is after now.
LEMMA NextDayLater ==
    ASSUME now \in Nat, NEW t \in Nat, t <= now
    PROVE  NextDay(t) \in Nat /\ now < NextDay(t)
  <1> DEFINE q == (now - t) \div Day
  <1>1. Day \in Nat /\ Day > 0 /\ now - t \in Nat
    BY SchedulerAssumption
  <1>2. q \in Nat /\ now - t < Day * q + Day
    BY <1>1
  <1>3. Day * (q + 1) = Day * q + Day /\ Day * q \in Nat
    BY <1>1, <1>2
  <1>4. NextDay(t) = t + (Day * q + Day)
    BY <1>3 DEF NextDay
  <1> HIDE DEF q
  <1> QED
    BY <1>1, <1>2, <1>3, <1>4

\* Pinning a job to a reset it was not run for forgets nothing.
LEMMA ArmedKeeps ==
    ASSUME NEW js \in [Job -> JobType], NEW seen \in [Window -> Nat], NEW i \in Job,
           NEW T, Remembers(T, js[i])
    PROVE  Armed(js, seen)[i] \in JobType /\ Remembers(T, Armed(js, seen)[i])
  <1> DEFINE j == js[i]
  <1>1. j \in JobType
    OBVIOUS
  <1>2. CASE Armable(j, seen)
    <2>1. Armed(js, seen)[i] = [j EXCEPT !.armed = seen[j.window]]
      BY <1>2 DEF Armed
    <2>2. seen[j.window] \in Nat /\ j.lastFired < seen[j.window] /\ j.st = "on" /\ j.kind = "reset"
      BY <1>1, <1>2 DEF Armable, JobType
    <2> QED
      BY <1>1, <2>1, <2>2 DEF Remembers, JobType
  <1>3. CASE ~Armable(j, seen)
    BY <1>1, <1>3 DEF Armed
  <1> QED
    BY <1>2, <1>3

LEMMA ArmedType ==
    ASSUME NEW js \in [Job -> JobType], NEW seen \in [Window -> Nat]
    PROVE  Armed(js, seen) \in [Job -> JobType]
  <1>1. ASSUME NEW i \in Job, Armable(js[i], seen)
        PROVE  [js[i] EXCEPT !.armed = seen[js[i].window]] \in JobType
    BY <1>1 DEF JobType
  <1> QED
    BY <1>1 DEF Armed

\* The time a due job has come to is none it was taken up for before...
LEMMA DueIsNew ==
    ASSUME NEW j \in JobType, NEW T \in SUBSET Nat, Remembers(T, j), Due(j)
    PROVE  NextFire(j) \in Nat /\ NextFire(j) \notin T
  <1>1. CASE j.kind = "at"
    BY <1>1 DEF Remembers, Due, NextFire, JobType
  <1>2. CASE j.kind = "reset"
    <2>1. j.armed # 0 /\ NextFire(j) = j.armed + j.offset
      BY <1>2 DEF Due, NextFire, Never
    <2>2. j.lastFired < j.armed /\ \A t \in T : t <= j.lastFired + j.offset
      BY <1>2, <2>1 DEF Remembers, Due
    <2> QED
      BY <2>1, <2>2 DEF JobType
  <1> QED
    BY <1>1, <1>2 DEF JobType

\* ...and reserving the job is to remember it.
LEMMA ReserveKeeps ==
    ASSUME now \in Nat, NEW j \in JobType, NEW T \in SUBSET Nat, Remembers(T, j), Due(j)
    PROVE  Reserve(j) \in JobType /\ Remembers(T \cup {NextFire(j)}, Reserve(j))
  <1> DEFINE r == Reserve(j)
  <1>1. CASE j.kind = "at"
    <2>1. j.at \in Nat /\ j.at <= now /\ NextFire(j) = j.at /\ j.st = "on"
      BY <1>1 DEF Due, NextFire, JobType
    <2>2. NextDay(j.at) \in Nat /\ now < NextDay(j.at)
      BY <2>1, NextDayLater
    <2>3. CASE j.rearm
      <3>1. r = [j EXCEPT !.ran = TRUE, !.armed = 0, !.at = NextDay(j.at)]
        BY <1>1, <2>3 DEF Reserve, JobType
      <3>2. \A t \in T : t < j.at
        BY <1>1, <2>1, <2>3 DEF Remembers
      <3>3. r.st = "on" /\ r.kind = "at" /\ r.at = NextDay(j.at) /\ r.rearm /\ r.armed = 0
        BY <1>1, <2>1, <2>3, <3>1 DEF JobType
      <3>4. \A t \in T \cup {NextFire(j)} : t < r.at
        BY <2>1, <2>2, <3>2, <3>3
      <3>5. r \in JobType
        BY <1>1, <2>2 DEF Reserve, JobType
      <3>6. Remembers(T \cup {NextFire(j)}, r)
        BY <3>3, <3>4 DEF Remembers
      <3> QED
        BY <3>5, <3>6
    <2>4. CASE ~j.rearm
      <3>1. r = [j EXCEPT !.ran = TRUE, !.armed = 0, !.st = "off"]
        BY <1>1, <2>4 DEF Reserve, JobType
      <3>2. r.st = "off" /\ r.kind = "at" /\ ~r.rearm /\ r.ran
        BY <1>1, <2>4, <3>1 DEF JobType
      <3>3. r \in JobType
        BY <1>1, <2>2 DEF Reserve, JobType
      <3>4. Remembers(T \cup {NextFire(j)}, r)
        BY <3>2 DEF Remembers
      <3> QED
        BY <3>3, <3>4
    <2> QED
      BY <2>3, <2>4
  <1>2. CASE j.kind = "reset"
    <2>1. j.armed # 0 /\ NextFire(j) = j.armed + j.offset /\ j.st = "on"
      BY <1>2 DEF Due, NextFire, Never
    <2>2. j.lastFired < j.armed /\ \A t \in T : t <= j.lastFired + j.offset
      BY <1>2, <2>1 DEF Remembers
    <2>3. /\ r \in JobType /\ r.kind = "reset" /\ r.st \in {"on", "off"}
          /\ r.lastFired = j.armed /\ r.armed = 0 /\ r.offset = j.offset
      BY <1>2, <2>1 DEF Reserve, JobType
    <2>4. \A t \in T \cup {NextFire(j)} : t <= r.lastFired + r.offset
      BY <2>1, <2>2, <2>3 DEF JobType
    <2> QED
      BY <2>3, <2>4 DEF Remembers
  <1> QED
    BY <1>1, <1>2 DEF JobType

-----------------------------------------------------------------------------
(* Steps *)

\* One record saved, with nothing taken up, is remembered if it is a good one.
LEMMA SaveKeeps ==
    ASSUME IInv, NEW i \in Job, NEW j \in JobType, Save(i, j), Remembers(Taken(i), j),
           due' = due, fired' = fired
    PROVE  jobs' \in [Job -> JobType] /\ Remembered'
  <1>1. jobs' = [jobs EXCEPT ![i] = j] /\ file' = jobs' /\ jobs \in [Job -> JobType]
    BY DEF Save, IInv, Types
  <1>2. \A k \in Job : Taken(k)' = Taken(k)
    BY DEF Taken
  <1>3. \A k \in Job : jobs'[k] = IF k = i THEN j ELSE jobs[k]
    BY <1>1
  <1>4. ASSUME NEW k \in Job PROVE Remembers(Taken(k), jobs'[k])
    BY <1>3 DEF IInv, Remembered
  <1> QED
    BY <1>1, <1>2, <1>4 DEF Remembered

LEMMA TickKeeps ==
    ASSUME IInv, Tick
    PROVE  IInv'
  <1> DEFINE js == Armed(jobs, resets)
             fresh == {<<i, NextFire(js[i])>> : i \in {k \in Job : Due(js[k]) /\ ~Overdue(js[k])}}
  <1>1. /\ jobs' = [i \in Job |-> IF Due(js[i]) THEN Reserve(js[i]) ELSE js[i]]
        /\ due' = fresh /\ file' = jobs' /\ pc' = "fire" /\ fired' = fired /\ due = {}
    BY DEF Tick, IInv, Types
  <1>2. ASSUME NEW i \in Job
        PROVE  /\ js[i] \in JobType /\ Remembers(Taken(i), js[i])
               /\ Due(js[i]) => /\ NextFire(js[i]) \in Nat \ Taken(i)
                                /\ Reserve(js[i]) \in JobType
                                /\ Remembers(Taken(i) \cup {NextFire(js[i])}, Reserve(js[i]))
    <2>1. Remembers(Taken(i), jobs[i]) /\ jobs \in [Job -> JobType] /\ resets \in [Window -> Nat] /\ now \in Nat
      BY DEF IInv, Remembered, Types
    <2>2. js[i] \in JobType /\ Remembers(Taken(i), js[i])
      BY <2>1, ArmedKeeps
    <2>3. Taken(i) \in SUBSET Nat
      BY DEF Taken
    <2> HIDE DEF js
    <2> QED
      BY <2>1, <2>2, <2>3, DueIsNew, ReserveKeeps
  <1> HIDE DEF js
  <1>3. jobs' \in [Job -> JobType]
    BY <1>1, <1>2
  <1>4. fresh \subseteq Job \X Nat
    <2>1. ASSUME NEW o \in fresh PROVE o \in Job \X Nat
      <3>1. PICK i \in Job : o = <<i, NextFire(js[i])>> /\ Due(js[i])
        OBVIOUS
      <3>2. NextFire(js[i]) \in Nat
        BY <1>2, <3>1
      <3> QED
        BY <3>1, <3>2
    <2> QED
      BY <2>1
  <1>5. ASSUME NEW o \in fresh PROVE o \notin fired
    <2>1. PICK i \in Job : o = <<i, NextFire(js[i])>> /\ Due(js[i])
      OBVIOUS
    <2> QED
      BY <1>2, <2>1 DEF Taken
  <1>6. ASSUME NEW i \in Job PROVE Remembers(Taken(i)', jobs'[i])
    <2>1. CASE Due(js[i])
      <3>1. jobs'[i] = Reserve(js[i]) /\ Remembers(Taken(i) \cup {NextFire(js[i])}, Reserve(js[i]))
        BY <1>1, <1>2, <2>1
      <3>2. Taken(i)' \subseteq Taken(i) \cup {NextFire(js[i])}
        BY <1>1 DEF Taken
      <3>3. jobs'[i].st # "new"
        <4>1. js[i].st = "on" /\ js[i] \in JobType
          BY <1>2, <2>1 DEF Due
        <4>2. Reserve(js[i]).st = IF js[i].rearm THEN js[i].st ELSE "off"
          BY <4>1 DEF Reserve, JobType
        <4> QED
          BY <3>1, <4>1, <4>2
      <3> QED
        BY <3>1, <3>2, <3>3 DEF Remembers
    <2>2. CASE ~Due(js[i])
      <3>1. Taken(i)' = Taken(i)
        BY <1>1, <2>2 DEF Taken
      <3> QED
        BY <1>1, <1>2, <2>2, <3>1
    <2> QED
      BY <2>1, <2>2
  <1>7. Types'
    BY <1>1, <1>3, <1>4 DEF Tick, IInv, Types, clock
  <1> QED
    BY <1>1, <1>5, <1>6, <1>7 DEF IInv, OnceOnly, Remembered

LEMMA Stepped ==
    ASSUME IInv, Next
    PROVE  IInv'
  <1> USE DEF IInv
  <1> SUFFICES Types' /\ OnceOnly' /\ Remembered'
    OBVIOUS
  <1>1. CASE Wake \/ Hourly \/ Rest
    <2>1. Types' /\ due' = due /\ fired' = fired /\ jobs' = jobs /\ file' = jobs
      BY <1>1 DEF Wake, Hourly, Rest, Types, Remembered, clock
    <2> QED
      BY <2>1 DEF OnceOnly, Remembered, Taken
  <1>2. CASE Tick
    BY <1>2, TickKeeps
  <1>3. CASE RunOne
    <2>1. PICK o \in due : due' = due \ {o} /\ fired' \in {fired, fired \cup {o}}
      BY <1>3 DEF RunOne
    <2>2. Types' /\ OnceOnly' /\ jobs' = jobs /\ file' = file
      BY <1>3, <2>1 DEF RunOne, Types, OnceOnly, clock
    <2>3. ASSUME NEW i \in Job PROVE Taken(i)' \subseteq Taken(i)
      BY <2>1 DEF Taken
    <2>4. ASSUME NEW i \in Job PROVE Remembers(Taken(i)', jobs[i])
      BY <2>3 DEF Remembers, Remembered
    <2> QED
      BY <2>2, <2>4 DEF Remembered
  <1>4. ASSUME NEW i \in Job, Create(i) PROVE Types' /\ OnceOnly' /\ Remembered'
    <2>1. Taken(i) = {} /\ due' = due /\ fired' = fired
      BY <1>4 DEF Create, Remembered, Remembers
    <2>2. PICK j \in JobType : Save(i, j) /\ Remembers({}, j)
      <3>1. PICK r \in BOOLEAN :
              \/ \E t \in Times : Save(i, [NoJob EXCEPT !.st = "on", !.rearm = r, !.at = t])
              \/ \E w \in Window, o \in Offset :
                   Save(i, [NoJob EXCEPT !.st = "on", !.rearm = r, !.kind = "reset", !.window = w, !.offset = o])
        BY <1>4 DEF Create
      <3>2. CASE \E t \in Times : Save(i, [NoJob EXCEPT !.st = "on", !.rearm = r, !.at = t])
        <4>1. PICK t \in Times : Save(i, [NoJob EXCEPT !.st = "on", !.rearm = r, !.at = t])
          BY <3>2
        <4> DEFINE j == [NoJob EXCEPT !.st = "on", !.rearm = r, !.at = t]
        <4>2. t \in Nat
          BY SchedulerAssumption DEF Times
        <4>3. j \in JobType
          BY <4>2, EmptyRecords DEF JobType
        <4>4. Remembers({}, j)
          BY EmptyRecords DEF Remembers, NoJob
        <4> QED
          BY <4>1, <4>3, <4>4
      <3>3. CASE \E w \in Window, o \in Offset :
                   Save(i, [NoJob EXCEPT !.st = "on", !.rearm = r, !.kind = "reset", !.window = w, !.offset = o])
        <4>1. PICK w \in Window, o \in Offset :
                   Save(i, [NoJob EXCEPT !.st = "on", !.rearm = r, !.kind = "reset", !.window = w, !.offset = o])
          BY <3>3
        <4> DEFINE j == [NoJob EXCEPT !.st = "on", !.rearm = r, !.kind = "reset", !.window = w, !.offset = o]
        <4>2. o \in Nat
          BY SchedulerAssumption
        <4>3. j \in JobType
          BY <4>2, EmptyRecords DEF JobType
        <4>4. Remembers({}, j)
          BY EmptyRecords DEF Remembers, NoJob
        <4> QED
          BY <4>1, <4>3, <4>4
      <3> QED
        BY <3>1, <3>2, <3>3
    <2>3. jobs' \in [Job -> JobType] /\ Remembered'
      BY <2>1, <2>2, SaveKeeps
    <2> QED
      BY <1>4, <2>1, <2>3 DEF Create, Types, OnceOnly, clock
  <1>5. ASSUME NEW i \in Job, Toggle(i) PROVE Types' /\ OnceOnly' /\ Remembered'
    <2> DEFINE j == [jobs[i] EXCEPT !.st = IF jobs[i].st = "on" THEN "off" ELSE "on"]
    <2>1. /\ jobs[i] \in JobType /\ jobs[i].st \in {"on", "off"} /\ Remembers(Taken(i), jobs[i])
          /\ ~(jobs[i].kind = "at" /\ jobs[i].ran /\ ~jobs[i].rearm)
          /\ due' = due /\ fired' = fired
      BY <1>5 DEF Toggle, Types, Remembered, loop
    <2>2. Save(i, j)
      BY <1>5 DEF Toggle
    <2>3. j \in JobType /\ j.st \in {"on", "off"}
      BY <2>1 DEF JobType
    <2>4. Remembers(Taken(i), j)
      <3>1. /\ j.kind = jobs[i].kind /\ j.rearm = jobs[i].rearm /\ j.ran = jobs[i].ran /\ j.at = jobs[i].at
            /\ j.lastFired = jobs[i].lastFired /\ j.offset = jobs[i].offset /\ j.armed = jobs[i].armed
        BY <2>1 DEF JobType
      <3> QED
        BY <2>1, <2>3, <3>1 DEF Remembers, JobType
    <2>5. jobs' \in [Job -> JobType] /\ Remembered'
      BY <2>1, <2>2, <2>3, <2>4, SaveKeeps
    <2> QED
      BY <1>5, <2>1, <2>5 DEF Toggle, Edit, Types, OnceOnly
  <1>6. ASSUME NEW i \in Job, Delete(i) PROVE Types' /\ OnceOnly' /\ Remembered'
    <2>1. Gone.st = "gone" /\ due' = due /\ fired' = fired /\ Save(i, Gone)
      BY <1>6 DEF Gone, NoJob, Delete, loop
    <2>2. Remembers(Taken(i), Gone)
      BY <2>1 DEF Remembers
    <2>3. jobs' \in [Job -> JobType] /\ Remembered'
      BY <2>1, <2>2, EmptyRecords, SaveKeeps
    <2> QED
      BY <1>6, <2>3 DEF Delete, Edit, Types, OnceOnly, loop
  <1>7. ASSUME NEW w \in Window, NEW r \in Times, NoteReset(w, r) PROVE Types' /\ OnceOnly' /\ Remembered'
    <2>1. r \in Nat /\ resets' = [resets EXCEPT ![w] = r] /\ jobs' = Armed(jobs, resets') /\ file' = jobs'
      BY <1>7, SchedulerAssumption DEF NoteReset, Times
    <2>2. resets' \in [Window -> Nat] /\ jobs \in [Job -> JobType]
      BY <2>1 DEF Types
    <2>3. jobs' \in [Job -> JobType]
      BY <2>1, <2>2, ArmedType
    <2>4. ASSUME NEW i \in Job PROVE Remembers(Taken(i), jobs'[i])
      BY <2>1, <2>2, ArmedKeeps DEF Remembered
    <2>5. due' = due /\ fired' = fired
      BY <1>7 DEF NoteReset
    <2> QED
      BY <1>7, <2>1, <2>2, <2>3, <2>4, <2>5 DEF NoteReset, Types, OnceOnly, Remembered, Taken, clock
  <1>8. CASE Tock \/ Boot
    <2>1. Types' /\ due' = due /\ fired' = fired /\ jobs' = jobs /\ file' = file
      BY <1>8 DEF Tock, Boot, Types, loop, clock
    <2> QED
      BY <2>1 DEF OnceOnly, Remembered, Taken
  <1>9. CASE Crash
    <2>1. file' \in {file, Torn} /\ jobs' = file' /\ due' = {} /\ fired' = fired
      BY <1>9 DEF Crash
    <2>2. Torn \in [Job -> JobType]
      BY EmptyRecords DEF Torn
    <2>3. Types'
      BY <1>9, <2>1, <2>2 DEF Crash, Types, Remembered
    <2>4. ASSUME NEW i \in Job PROVE Remembers(Taken(i), Torn[i])
      <3>1. jobs[i].st = "new" => Taken(i) = {}
        BY DEF Remembered, Remembers
      <3>2. Torn[i] = IF jobs[i].st = "new" THEN NoJob ELSE Gone
        BY DEF Torn, Remembered
      <3> QED
        BY <3>1, <3>2 DEF Remembers, NoJob, Gone
    <2>5. ASSUME NEW i \in Job PROVE Remembers(Taken(i)', jobs'[i])
      <3>1. Taken(i)' \subseteq Taken(i)
        BY <2>1 DEF Taken
      <3>2. Remembers(Taken(i), jobs'[i])
        BY <2>1, <2>4 DEF Remembered
      <3> QED
        BY <3>1, <3>2 DEF Remembers
    <2> QED
      BY <2>1, <2>3, <2>5 DEF OnceOnly, Remembered
  <1> QED
    BY <1>1, <1>2, <1>3, <1>4, <1>5, <1>6, <1>7, <1>8, <1>9 DEF Next

LEMMA Started == Init => IInv
  <1> SUFFICES ASSUME Init PROVE IInv
    OBVIOUS
  <1>1. Types /\ OnceOnly
    BY EmptyRecords DEF Init, Types, OnceOnly
  <1>2. Remembered
    BY DEF Init, Remembered, Remembers, Taken, NoJob
  <1> QED
    BY <1>1, <1>2 DEF IInv

\* "a crash or restart mid-fire can never run the same occurrence twice": for
\* any jobs, resets, switches, deletions and crashes, an occurrence the loop is
\* about to run has not been run.
THEOREM AtMostOnce == Spec => []OnceOnly
  <1>1. IInv /\ [Next]_vars => IInv'
    <2>1. CASE UNCHANGED vars
      BY <2>1 DEF vars, loop, clock, IInv, Types, OnceOnly, Remembered, Taken
    <2> QED
      BY <2>1, Stepped
  <1> QED
    BY <1>1, Started, PTL DEF Spec, IInv

-----------------------------------------------------------------------------
(* Types, and the timer *)

\* The rest of the types: the file, the timer, the flag and the counters.
Rested == /\ {alarm, edits, crashes} \subseteq Nat /\ file \in [Job -> JobType]
          /\ pc \in {"tick", "fire", "wait", "down"} /\ wake \in BOOLEAN

TInv == IInv /\ Rested

\* A set of times has a first one.
LEMMA FirstTime ==
    ASSUME NEW T \in SUBSET Nat, T # {}
    PROVE  LET t == CHOOSE t \in T : \A u \in T : t <= u
           IN  t \in T /\ \A u \in T : t <= u
  <1> DEFINE Less == {p \in Nat \X Nat : p[1] < p[2]}
  <1>1. IsWellFoundedOn(Less, Nat)
    BY NatLessThanWellFounded DEF OpToRel
  <1> HIDE DEF Less
  <1>2. PICK x \in T : \A y \in T : ~(<<y, x>> \in Less)
    BY <1>1, WFMin
  <1>3. ASSUME NEW y \in T PROVE x <= y
    <2>1. ~(y < x)
      BY <1>2 DEF Less
    <2> QED
      BY <2>1
  <1> QED
    BY <1>3

\* The times of the jobs that are on are times.
LEMMA SoonestTimes == IInv => Soonest \in SUBSET Nat
  <1>1. \A j \in JobType : NextFire(j) \in Nat
    BY DEF JobType, NextFire, Never
  <1> QED
    BY <1>1 DEF IInv, Types, Soonest

\* Having run what was due, the loop sleeps no longer than to the next time.
LEMMA RestSleeps ==
    ASSUME IInv, Rest
    PROVE  alarm' \in Nat /\ SleepsNoLonger'
  <1>1. /\ alarm' = IF Soonest = {} THEN Never ELSE CHOOSE t \in Soonest : \A u \in Soonest : t <= u
        /\ jobs' = jobs
    BY DEF Rest
  <1>2. Soonest # {} => alarm' \in Soonest /\ \A u \in Soonest : alarm' <= u
    BY <1>1, SoonestTimes, FirstTime
  <1>3. alarm' \in Nat
    BY <1>1, <1>2, SoonestTimes DEF Never
  <1>4. ASSUME NEW i \in Job, jobs[i].st = "on", NextFire(jobs[i]) # Never
        PROVE  alarm' # Never /\ alarm' <= NextFire(jobs[i])
    <2>1. NextFire(jobs[i]) \in Soonest
      BY <1>4 DEF Soonest
    <2>2. Never \notin Soonest
      BY DEF Soonest
    <2> QED
      BY <1>2, <2>1, <2>2
  <1> QED
    BY <1>1, <1>3, <1>4 DEF SleepsNoLonger

\* Anything else that changes a job, or the timer, wakes the loop.
LEMMA TimerKeeps ==
    ASSUME TInv, SleepsNoLonger, Next
    PROVE  Rested' /\ SleepsNoLonger'
  <1>1. Types' /\ Remembered'
    BY Stepped DEF TInv, IInv
  <1>2. file' \in [Job -> JobType]
    BY <1>1 DEF Types, Remembered
  <1>3. CASE Wake \/ Tick \/ RunOne \/ Boot \/ Crash
    <2>1. {alarm', edits', crashes'} \subseteq Nat
      BY <1>3 DEF Wake, Tick, RunOne, Boot, Crash, TInv, Rested, Never, clock
    <2>3. pc' \in {"tick", "fire", "wait", "down"} /\ wake' \in BOOLEAN
      BY <1>3 DEF Wake, Tick, RunOne, Boot, Crash, TInv, Rested
    <2>4. Rested'
      BY <1>2, <2>1, <2>3 DEF Rested
    <2>2. pc' # "wait"
      BY <1>3 DEF Wake, Tick, RunOne, Boot, Crash
    <2> QED
      BY <2>2, <2>4 DEF SleepsNoLonger
  <1>4. CASE Hourly
    BY <1>2, <1>4 DEF Hourly, TInv, Rested, SleepsNoLonger, clock
  <1>5. CASE Rest
    BY <1>2, <1>5, RestSleeps DEF Rest, TInv, Rested, clock
  <1>6. ASSUME NEW i \in Job, Create(i) \/ Toggle(i) PROVE Rested' /\ SleepsNoLonger'
    <2>1. CASE Create(i)
      BY <1>2, <2>1 DEF Create, TInv, Rested, SleepsNoLonger, clock
    <2>2. CASE Toggle(i)
      BY <1>2, <2>2 DEF Toggle, Edit, TInv, Rested, SleepsNoLonger
    <2> QED
      BY <1>6, <2>1, <2>2
  <1>7. ASSUME NEW i \in Job, Delete(i) PROVE Rested' /\ SleepsNoLonger'
    <2>1. jobs' = [jobs EXCEPT ![i] = Gone] /\ UNCHANGED loop /\ {edits', crashes'} \subseteq Nat
      BY <1>7 DEF Delete, Edit, Save, TInv, Rested
    <2>2. Gone.st # "on"
      BY DEF Gone, NoJob
    <2>3. \A k \in Job : jobs'[k].st = "on" => jobs'[k] = jobs[k]
      BY <2>1, <2>2 DEF TInv, IInv, Types
    <2> QED
      BY <1>2, <2>1, <2>3 DEF TInv, Rested, SleepsNoLonger, loop
  <1>8. ASSUME NEW w \in Window, NEW r \in Times, NoteReset(w, r) PROVE Rested' /\ SleepsNoLonger'
    BY <1>2, <1>8 DEF NoteReset, TInv, Rested, SleepsNoLonger, clock
  <1>9. CASE Tock
    BY <1>2, <1>9 DEF Tock, TInv, Rested, SleepsNoLonger, loop
  <1> QED
    BY <1>3, <1>4, <1>5, <1>6, <1>7, <1>8, <1>9 DEF Next

LEMMA TimerStep == TInv /\ SleepsNoLonger /\ [Next]_vars => TInv' /\ SleepsNoLonger'
  <1>1. CASE UNCHANGED vars
    BY <1>1 DEF vars, loop, clock, TInv, IInv, Types, OnceOnly, Remembered, Taken, Rested, SleepsNoLonger
  <1>2. ASSUME TInv, SleepsNoLonger, Next PROVE TInv' /\ SleepsNoLonger'
    BY <1>2, Stepped, TimerKeeps DEF TInv
  <1> QED
    BY <1>1, <1>2

LEMMA TimerInit == Init => TInv /\ SleepsNoLonger
  <1> SUFFICES ASSUME Init PROVE TInv /\ SleepsNoLonger
    OBVIOUS
  <1>1. alarm = 0 /\ edits = 0 /\ crashes = 0 /\ pc = "tick" /\ wake = FALSE /\ file = [i \in Job |-> NoJob]
    BY DEF Init, Never
  <1>2. Rested
    <2>1. {alarm, edits, crashes} \subseteq Nat
      BY <1>1
    <2>2. file \in [Job -> JobType]
      BY <1>1, EmptyRecords
    <2>3. pc \in {"tick", "fire", "wait", "down"} /\ wake \in BOOLEAN
      BY <1>1
    <2> QED
      BY <2>1, <2>2, <2>3 DEF Rested
  <1> QED
    BY <1>1, <1>2, Started DEF TInv, SleepsNoLonger

\* Every record in memory and on disk is a job's, and outside of a firing
\* nothing is reserved.
THEOREM ScheduleIsTyped == Spec => []TypeOK
  <1>1. TInv => TypeOK
    BY DEF TInv, Rested, IInv, Types, TypeOK
  <1> QED
    BY <1>1, TimerInit, TimerStep, PTL DEF Spec

\* Whatever is created, switched on, deleted or pinned while the loop fires or
\* falls asleep, it never sleeps past the next job's time.
THEOREM NeverOversleeps == Spec => []SleepsNoLonger
  BY TimerInit, TimerStep, PTL DEF Spec
=============================================================================
