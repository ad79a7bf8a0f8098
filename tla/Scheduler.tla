------------------------------ MODULE Scheduler ------------------------------
(***************************************************************************)
(* Prompts that run at a time or after a usage window resets:              *)
(* internal/schedule/schedule.go, with the handlers of                     *)
(* internal/server/schedule.go and the app's pause switch.                 *)
(*                                                                         *)
(* Time is a number of ticks of an abstract clock, 0 the zero time.  What  *)
(* a job runs, and the text its row shows, are left out.  Somebody who     *)
(* switches a one-shot that has run on again asks for another run; the     *)
(* switch is modelled on every other job, from a row that is up to date.   *)
(***************************************************************************)
EXTENDS Naturals, FiniteSets

CONSTANTS
    Job,        \* job ids
    Window,     \* usage windows
    Offset,     \* seconds after a reset
    Day,        \* the step of a recurring job, and how late an "at" job may be
    WindowLen,  \* how late a reset job may be
    Horizon,    \* bound: the clock, and the times people and windows name
    Edits,      \* bound: switches and deletions
    Crashes     \* bound: restarts of kunai

ASSUME SchedulerAssumption ==
    /\ Window # {} /\ Offset \subseteq Nat /\ {Day, Horizon} \subseteq Nat \ {0}
    /\ {WindowLen, Edits, Crashes} \subseteq Nat

VARIABLES
    now,      \* the clock
    jobs,     \* s.jobs
    file,     \* schedule.json
    resets,   \* s.resets
    pc,       \* Run: "tick", "fire" (off the lock), "wait", or "down"
    due,      \* occurrences reserved and not run yet
    wake,     \* s.wake holds a value
    alarm,    \* when the timer of Run goes off
    fired,    \* occurrences that were run
    edits, crashes

clock == <<now, edits, crashes>>
loop == <<pc, due, wake, alarm>>
vars == <<jobs, file, resets, loop, fired, clock>>

Never == 0
Times == 1..Horizon

\* A job that was not created: its id is still free.
NoJob == [st |-> "new", kind |-> "at", at |-> 0, window |-> CHOOSE w \in Window : TRUE,
          offset |-> 0, rearm |-> FALSE, ran |-> FALSE, lastFired |-> 0, armed |-> 0]

Gone == [NoJob EXCEPT !.st = "gone"]

-----------------------------------------------------------------------------
(* When a job runs *)

\* nextFireLocked
NextFire(j) ==
    IF j.kind = "at" THEN j.at
    ELSE IF j.armed = 0 THEN Never ELSE j.armed + j.offset

\* armLocked: a reset job that waits for a reset, and the one it would be
\* pinned to has been observed and not been run for.
Armable(j, seen) ==
    /\ j.st = "on" /\ j.kind = "reset" /\ j.armed = 0
    /\ seen[j.window] > j.lastFired

Armed(js, seen) ==
    [i \in Job |-> IF Armable(js[i], seen) THEN [js[i] EXCEPT !.armed = seen[js[i].window]] ELSE js[i]]

Due(j) == j.st = "on" /\ NextFire(j) # Never /\ NextFire(j) <= now

\* catchupLimit: a machine that was off for longer skips it.
Overdue(j) == now - NextFire(j) > (IF j.kind = "at" THEN Day ELSE WindowLen)

\* The first of the job's days after now.
NextDay(t) == t + Day * (((now - t) \div Day) + 1)

\* Mutant: the reset it was run for is forgotten.
ReserveForgets(j) ==
    [j EXCEPT !.ran = TRUE, !.armed = 0,
              !.at = IF j.kind = "at" /\ j.rearm THEN NextDay(@) ELSE @,
              !.st = IF j.rearm THEN @ ELSE "off"]

\* reserveLocked: the occurrence is spent before it is run.
Reserve(j) ==
    [j EXCEPT !.ran = TRUE,
              !.lastFired = IF j.kind = "reset" THEN j.armed ELSE @,
              !.armed = 0,
              !.at = IF j.kind = "at" /\ j.rearm THEN NextDay(@) ELSE @,
              !.st = IF j.rearm THEN @ ELSE "off"]

-----------------------------------------------------------------------------
(* The loop *)

\* The select of Run: a kick or the timer.
Wake ==
    /\ pc = "wait" /\ pc' = "tick" /\ alarm' = Never
    /\ \/ wake /\ wake' = FALSE
       \/ alarm # Never /\ alarm <= now /\ UNCHANGED wake
    /\ UNCHANGED <<jobs, file, resets, due, fired, clock>>

\* Nothing scheduled: an hour has passed.
Hourly ==
    /\ pc = "wait" /\ alarm = Never /\ pc' = "tick"
    /\ UNCHANGED <<jobs, file, resets, due, wake, alarm, fired, clock>>

\* Mutant: the reservation is saved with the outcome only.
TickUnsaved ==
    /\ pc = "tick" /\ pc' = "fire"
    /\ LET js == Armed(jobs, resets) IN
         /\ jobs' = [i \in Job |-> IF Due(js[i]) THEN Reserve(js[i]) ELSE js[i]]
         /\ due' = {<<i, NextFire(js[i])>> : i \in {k \in Job : Due(js[k]) /\ ~Overdue(js[k])}}
    /\ UNCHANGED <<file, resets, wake, alarm, fired, clock>>

\* tick, under the lock: pin, then reserve what is due and save that.
Tick ==
    /\ pc = "tick" /\ pc' = "fire"
    /\ LET js == Armed(jobs, resets) IN
         /\ jobs' = [i \in Job |-> IF Due(js[i]) THEN Reserve(js[i]) ELSE js[i]]
         /\ due' = {<<i, NextFire(js[i])>> : i \in {k \in Job : Due(js[k]) /\ ~Overdue(js[k])}}
    /\ file' = jobs'
    /\ UNCHANGED <<resets, wake, alarm, fired, clock>>

\* runOne, off the lock: start the session, which may fail.
RunOne ==
    /\ pc = "fire"
    /\ \E o \in due :
         /\ due' = due \ {o}
         /\ fired' \in {fired, fired \cup {o}}
    /\ UNCHANGED <<jobs, file, resets, pc, wake, alarm, clock>>

\* The rest of tick: save, and sleep until the soonest job.
Soonest == {NextFire(jobs[i]) : i \in {k \in Job : jobs[k].st = "on"}} \ {Never}

\* Mutant: the runs are started and not waited for.
RestEarly ==
    /\ pc = "fire" /\ pc' = "wait"
    /\ alarm' = IF Soonest = {} THEN Never ELSE CHOOSE t \in Soonest : \A u \in Soonest : t <= u
    /\ file' = jobs
    /\ UNCHANGED <<jobs, resets, due, wake, fired, clock>>

Rest ==
    /\ pc = "fire" /\ due = {} /\ pc' = "wait"
    /\ alarm' = IF Soonest = {} THEN Never ELSE CHOOSE t \in Soonest : \A u \in Soonest : t <= u
    /\ file' = jobs
    /\ UNCHANGED <<jobs, resets, due, wake, fired, clock>>

-----------------------------------------------------------------------------
(* People, windows, time *)

Save(i, j) ==
    /\ jobs' = [jobs EXCEPT ![i] = j]
    /\ file' = jobs'

\* Mutant: the loop is not told.
CreateQuiet(i) ==
    /\ pc # "down" /\ jobs[i].st = "new"
    /\ \E r \in BOOLEAN :
         \/ \E t \in Times : Save(i, [NoJob EXCEPT !.st = "on", !.rearm = r, !.at = t])
         \/ \E w \in Window, o \in Offset :
              Save(i, [NoJob EXCEPT !.st = "on", !.rearm = r, !.kind = "reset", !.window = w, !.offset = o])
    /\ UNCHANGED <<resets, pc, due, wake, alarm, fired, clock>>

\* Create
Create(i) ==
    /\ pc # "down" /\ jobs[i].st = "new"
    /\ \E r \in BOOLEAN :
         \/ \E t \in Times : Save(i, [NoJob EXCEPT !.st = "on", !.rearm = r, !.at = t])
         \/ \E w \in Window, o \in Offset :
              Save(i, [NoJob EXCEPT !.st = "on", !.rearm = r, !.kind = "reset", !.window = w, !.offset = o])
    /\ wake' = TRUE
    /\ UNCHANGED <<resets, pc, due, alarm, fired, clock>>

Edit == pc # "down" /\ edits < Edits /\ edits' = edits + 1

\* Replace from the app's switch.
Toggle(i) ==
    /\ Edit /\ jobs[i].st \in {"on", "off"}
    /\ ~(jobs[i].kind = "at" /\ jobs[i].ran /\ ~jobs[i].rearm)
    /\ Save(i, [jobs[i] EXCEPT !.st = IF @ = "on" THEN "off" ELSE "on"])
    /\ wake' = TRUE
    /\ UNCHANGED <<resets, pc, due, alarm, fired, now, crashes>>

\* Delete
Delete(i) ==
    /\ Edit /\ jobs[i].st \in {"on", "off"}
    /\ Save(i, Gone)
    /\ UNCHANGED <<resets, loop, fired, now, crashes>>

\* Mutant: a reset that pins a job does not wake the loop.
NoteResetQuiet(w, r) ==
    /\ pc # "down" /\ resets[w] # r
    /\ resets' = [resets EXCEPT ![w] = r]
    /\ jobs' = Armed(jobs, resets')
    /\ file' = jobs'
    /\ UNCHANGED <<loop, fired, clock>>

\* NoteReset of a time not seen last: pin what waits for a reset.
NoteReset(w, r) ==
    /\ pc # "down" /\ resets[w] # r
    /\ resets' = [resets EXCEPT ![w] = r]
    /\ jobs' = Armed(jobs, resets')
    /\ file' = jobs'
    /\ wake' = TRUE
    /\ UNCHANGED <<pc, due, alarm, fired, clock>>

Tock ==
    /\ now < Horizon /\ now' = now + 1
    /\ UNCHANGED <<jobs, file, resets, loop, fired, edits, crashes>>

\* A file cut short in the middle of a save is one load makes nothing of.
Torn == [i \in Job |-> IF file[i].st = "new" THEN NoJob ELSE Gone]

\* kunai dies and, with it, what is not in the file...
Crash ==
    /\ pc # "down" /\ crashes < Crashes
    /\ pc' = "down" /\ crashes' = crashes + 1
    /\ file' \in {file, Torn} /\ jobs' = file'
    /\ resets' = [w \in Window |-> 0] /\ due' = {} /\ wake' = FALSE /\ alarm' = Never
    /\ UNCHANGED <<fired, now, edits>>

\* ...which New loads; Run starts with a tick.
Boot ==
    /\ pc = "down" /\ pc' = "tick"
    /\ UNCHANGED <<jobs, file, resets, due, wake, alarm, fired, clock>>

Init ==
    /\ now = 1 /\ jobs = [i \in Job |-> NoJob] /\ file = jobs
    /\ resets = [w \in Window |-> 0]
    /\ pc = "tick" /\ due = {} /\ wake = FALSE /\ alarm = Never
    /\ fired = {} /\ edits = 0 /\ crashes = 0

Next ==
    \/ Wake \/ Hourly \/ Tick \/ RunOne \/ Rest
    \/ \E i \in Job : Create(i) \/ Toggle(i) \/ Delete(i)
    \/ \E w \in Window, r \in Times : NoteReset(w, r)
    \/ Tock \/ Crash \/ Boot

Spec == Init /\ [][Next]_vars

\* The loop's goroutine runs, time passes, and kunai is started again.  The
\* hourly look is not counted on.
FairSpec == Spec /\ WF_vars(Wake \/ Tick \/ RunOne \/ Rest) /\ WF_vars(Tock) /\ WF_vars(Boot)

-----------------------------------------------------------------------------
(* What it promises *)

JobType == [st : {"new", "on", "off", "gone"}, kind : {"at", "reset"}, at : Nat, window : Window,
            offset : Nat, rearm : BOOLEAN, ran : BOOLEAN, lastFired : Nat, armed : Nat]

\* Every variable has its type, and what is not being run is not reserved.
TypeOK ==
    /\ {now, alarm, edits, crashes} \subseteq Nat
    /\ jobs \in [Job -> JobType] /\ file \in [Job -> JobType]
    /\ resets \in [Window -> Nat]
    /\ pc \in {"tick", "fire", "wait", "down"} /\ wake \in BOOLEAN
    /\ due \subseteq Job \X Nat /\ fired \subseteq Job \X Nat
    /\ pc # "fire" => due = {}

\* "a crash or restart mid-fire can never run the same occurrence twice": what
\* the loop is about to run has not been run before, by this process or by one
\* that died.
OnceOnly == due \cap fired = {}

\* The loop never sleeps past a job: unless it has been woken, its timer goes
\* off no later than the next job's time, whatever was created, switched on or
\* pinned while it was firing or falling asleep.
SleepsNoLonger ==
    pc = "wait" /\ ~wake =>
        \A i \in Job : jobs[i].st = "on" /\ NextFire(jobs[i]) # Never =>
            alarm # Never /\ alarm <= NextFire(jobs[i])

\* A job whose time has come is taken up, or switched off or deleted, however
\* often it is created, pinned or switched on behind the loop's back, and
\* through crashes and restarts.
DueIsTaken == \A i \in Job : Due(jobs[i]) ~> ~Due(jobs[i])

\* "reset jobs re-arm implicitly": a recurring job is pinned to the next reset
\* as soon as that is known, and not left to wait for a later one.
RearmsToNext ==
    pc = "wait" /\ ~wake /\ alarm # Never => \A i \in Job : ~Armable(jobs[i], resets)
=============================================================================
