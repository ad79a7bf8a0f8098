------------------------------ MODULE Guardian ------------------------------
(***************************************************************************)
(* The thermal guard and the holds that keep the machine awake             *)
(* (internal/server/guardian.go, thermal.go, awake.go, lidhold.go): a poll *)
(* of the host every 15 seconds, the trip it may lead to, carried out      *)
(* after the lock is released, and the owner changing the policy and       *)
(* taking holds in between.  The program may end at any point and is       *)
(* started again with what it saved.                                       *)
(*                                                                         *)
(* Left out: the degrees themselves (a reading is one of five), the        *)
(* notification, and the seeding of the policy from flags.                 *)
(***************************************************************************)
EXTENDS Naturals

CONSTANTS
    TripN,       \* guardTripN: readings in a row that make a trip
    MaxAge,      \* MaxHours, in polls; ages are counted up to it
    Policies     \* the policies the owner chooses from

Policy == [on : BOOLEAN, soft : BOOLEAN, cap : BOOLEAN, powerOff : BOOLEAN]

ASSUME GuardianAssumption ==
    TripN \in Nat \ {0} /\ MaxAge \in Nat \ {0} /\ Policies \subseteq Policy

VARIABLES
    policy,      \* g.cfg, and thermal.json
    over,        \* g.over
    overHard,    \* g.overHard
    latched,     \* g.trip
    from,        \* the age of g.awakeFrom, NoAge when it is zero
    guard,       \* where the guard's goroutine is
    held,        \* the holds in force
    saved,       \* the holds in awake.json and lid.json
    request,     \* the owner's request for the lid hold that is under way
    heat,        \* what the host would read
    log          \* history: what the readings and trips have been

guardVars == <<policy, over, overHard, latched, from>>
holdVars == <<held, saved, request>>
guVars == <<guardVars, guard, holdVars, heat, log>>

Hold == {"awake", "lid"}
NoAge == MaxAge + 1
Reading == {"cool", "warm", "hot", "danger", "critical"}
\* Mac readings are pressures: "critical", and "cool" for the rest.
Danger == {"danger", "critical"}
GuQuiet == "watch"

\* Mutant: degrees are not looked at.
PressureTooHot(r) == r = "critical"

\* clampGuardConfig lifts the hard ceiling over the soft line: what is a danger
\* is too hot as well.  Critical pressure is too hot whatever the soft line.
TooHot(r) == r = "critical" \/ (policy.soft /\ r \in {"hot", "danger"})

\* Mutant: without a soft line nothing is ever cool.
CooledByDegrees(r) == policy.soft /\ r = "cool"

\* guardRecoverC: a warm host is under the line, and not far enough.
Cooled(r) == r # "critical" /\ (~policy.soft \/ r = "cool")

-----------------------------------------------------------------------------
(* check *)

GuRun(n, more) == IF ~more THEN 0 ELSE IF n = TripN THEN n ELSE n + 1

\* How many readings in a row were too hot, and how many past the ceiling with
\* the power-off armed; whether a trip has stopped everything since the guard was
\* last off.
GuNote(armed) ==
    log' = [hot |-> GuRun(log.hot, heat \in {"hot", "danger", "critical"}),
            hard |-> GuRun(log.hard, armed /\ heat \in Danger),
            stopped |-> log.stopped]
NoLog == [hot |-> 0, hard |-> 0, stopped |-> FALSE]

\* The age of the hold at this reading: it is taken from the first reading that
\* finds it, and forgotten at a reading that does not.
Age == IF "awake" \notin held THEN NoAge
       ELSE IF from = NoAge THEN 0
       ELSE IF from = MaxAge THEN MaxAge ELSE from + 1

\* Mutant: a lower reading leaves the count as it was.
CountHardOnly == IF policy.powerOff /\ heat \in Danger THEN overHard + 1 ELSE overHard

CountHard == IF policy.powerOff /\ heat \in Danger THEN overHard + 1 ELSE 0

CountSoft == IF TooHot(heat) THEN over + 1 ELSE 0

CheckOff ==
    /\ guard = GuQuiet /\ ~policy.on
    /\ over' = 0 /\ overHard' = 0
    /\ GuNote(FALSE)
    /\ UNCHANGED <<policy, latched, from, guard, holdVars, heat>>

\* Mutant: the count that led to the trip stays.
CheckHardKeeps ==
    /\ guard = GuQuiet /\ policy.on
    /\ CountHard >= TripN
    /\ overHard' = CountHard /\ from' = Age
    /\ guard' = "hardLatch"
    /\ GuNote(policy.powerOff)
    /\ UNCHANGED <<policy, over, latched, holdVars, heat>>

\* The hard ceiling is looked at first, latched or not.
CheckHard ==
    /\ guard = GuQuiet /\ policy.on
    /\ CountHard >= TripN
    /\ overHard' = 0 /\ from' = Age
    /\ guard' = "hardLatch"
    /\ GuNote(policy.powerOff)
    /\ UNCHANGED <<policy, over, latched, holdVars, heat>>

\* Tripped already: wait for the host to cool.
CheckLatched ==
    /\ guard = GuQuiet /\ policy.on /\ latched
    /\ CountHard < TripN
    /\ overHard' = CountHard /\ from' = Age
    /\ IF Cooled(heat) THEN latched' = FALSE /\ over' = 0 ELSE UNCHANGED <<latched, over>>
    /\ GuNote(policy.powerOff)
    /\ UNCHANGED <<policy, guard, holdVars, heat>>

\* Too hot for long enough, or held awake for too long.
CheckTrips ==
    /\ guard = GuQuiet /\ policy.on /\ ~latched
    /\ CountHard < TripN
    /\ CountSoft >= TripN \/ (policy.cap /\ Age = MaxAge)
    /\ overHard' = CountHard /\ from' = Age
    /\ latched' = TRUE /\ over' = 0
    /\ guard' = "stop"
    /\ GuNote(policy.powerOff)
    /\ UNCHANGED <<policy, holdVars, heat>>

CheckCounts ==
    /\ guard = GuQuiet /\ policy.on /\ ~latched
    /\ CountHard < TripN /\ CountSoft < TripN /\ ~(policy.cap /\ Age = MaxAge)
    /\ overHard' = CountHard /\ from' = Age
    /\ over' = CountSoft
    /\ GuNote(policy.powerOff)
    /\ UNCHANGED <<policy, latched, guard, holdVars, heat>>

-----------------------------------------------------------------------------
(* A trip, with the lock released *)

\* hardTrip latches whatever the policy has become.
HardLatches ==
    /\ guard = "hardLatch"
    /\ latched' = TRUE /\ guard' = "hardStop"
    /\ UNCHANGED <<policy, over, overHard, from, holdVars, heat, log>>

\* StopForThermal: every turn and loop is interrupted; the processes stay.
TripStops ==
    /\ guard \in {"stop", "hardStop"}
    /\ log' = [log EXCEPT !.stopped = TRUE]
    /\ guard' = IF guard = "stop" THEN "drop" ELSE "hardDrop"
    /\ UNCHANGED <<guardVars, holdVars, heat>>

\* releaseHolds.  The files keep saying what the owner asked for.
TripReleases ==
    /\ guard \in {"drop", "hardDrop"}
    /\ held' = {}
    /\ guard' = IF guard = "drop" THEN GuQuiet ELSE "off"
    /\ UNCHANGED <<guardVars, log, saved, request, heat>>

\* hostPowerOff, where the privilege is missing.
PowerOffDenied ==
    /\ guard = "off"
    /\ guard' = GuQuiet
    /\ UNCHANGED <<guardVars, holdVars, heat, log>>

-----------------------------------------------------------------------------
(* Ends and starts *)

\* The process ends, or the machine is off: what is not saved is gone.  The
\* awake hold ends with its process, the lid setting of a Mac does not.
Gone ==
    /\ guard' = "gone"
    /\ held' = held \cap {"lid"}
    /\ request' = "none"
    /\ over' = 0 /\ overHard' = 0 /\ latched' = FALSE /\ from' = NoAge
    /\ log' = NoLog
    /\ UNCHANGED <<policy, saved, heat>>

PowersOff == guard = "off" /\ Gone
GuCrash == guard # "gone" /\ guard # "off" /\ Gone

\* Mutant: newLidKeeper takes the setting as it finds it.
Unstuck == held

\* newLidKeeper clears what a crash left behind.
Unstick == {}

\* New: the saved holds are taken again, which may be refused, and the policy read.
GuBoot ==
    /\ guard = "gone"
    /\ \E taken \in SUBSET saved : held' = Unstick \cup taken
    /\ guard' = GuQuiet
    /\ UNCHANGED <<policy, over, overHard, latched, from, saved, request, heat, log>>

-----------------------------------------------------------------------------
(* The owner and the host *)

\* Mutant: the count survives the guard being off.
SetConfigKeeps(p) ==
    /\ guard # "gone"
    /\ policy' = p
    /\ latched' = (latched /\ p.on)
    /\ log' = IF p.on THEN log ELSE [log EXCEPT !.hot = 0, !.stopped = FALSE]
    /\ UNCHANGED <<over, overHard, from, guard, holdVars, heat>>

\* handleThermal, setConfig: off clears the latch and one of the counts.
SetConfig(p) ==
    /\ guard # "gone"
    /\ policy' = p
    /\ IF p.on THEN UNCHANGED <<latched, over>> ELSE latched' = FALSE /\ over' = 0
    /\ log' = IF p.on THEN log ELSE [log EXCEPT !.hot = 0, !.stopped = FALSE]
    /\ UNCHANGED <<overHard, from, guard, holdVars, heat>>

\* handleAwake: take or let go of the hold, and save it.
AskAwake(on) ==
    /\ guard # "gone"
    /\ held' = IF on THEN held \cup {"awake"} ELSE held \ {"awake"}
    /\ saved' = IF on THEN saved \cup {"awake"} ELSE saved \ {"awake"}
    /\ UNCHANGED <<guardVars, guard, request, heat, log>>

\* handleLid: the setting goes through a command of the system ...
AskLid(on) ==
    /\ guard # "gone" /\ request = "none"
    /\ held' = IF on THEN held \cup {"lid"} ELSE held \ {"lid"}
    /\ request' = IF on THEN "on" ELSE "off"
    /\ UNCHANGED <<guardVars, guard, saved, heat, log>>

\* ... and is saved once that has worked.
SaveLid ==
    /\ request # "none"
    /\ saved' = IF request = "on" THEN saved \cup {"lid"} ELSE saved \ {"lid"}
    /\ request' = "none"
    /\ UNCHANGED <<guardVars, guard, held, heat, log>>

Weather ==
    /\ heat' \in Reading \ {heat}
    /\ UNCHANGED <<guardVars, guard, holdVars, log>>

-----------------------------------------------------------------------------
GuInit ==
    /\ policy \in Policies
    /\ over = 0 /\ overHard = 0 /\ latched = FALSE /\ from = NoAge
    /\ guard = GuQuiet /\ held = {} /\ request = "none"
    /\ saved = {}
    /\ heat = "cool"
    /\ log = NoLog

Guards ==
    \/ CheckOff \/ CheckHard \/ CheckLatched \/ CheckTrips \/ CheckCounts
    \/ HardLatches \/ TripStops \/ TripReleases \/ PowerOffDenied \/ PowersOff

GuNext ==
    \/ Guards \/ GuCrash \/ GuBoot \/ SaveLid \/ Weather
    \/ \E p \in Policies \ {policy} : SetConfig(p)
    \/ \E on \in BOOLEAN : AskAwake(on) \/ AskLid(on)

GuSpec == GuInit /\ [][GuNext]_guVars
\* The guard's timer goes on ticking, and a service that ended is started again.
GuFairness == WF_guVars(Guards) /\ WF_guVars(GuBoot)
GuFairSpec == GuSpec /\ GuFairness

-----------------------------------------------------------------------------
(* Properties *)

\* Every variable has its type.
GuTypeOK ==
    /\ policy \in Policies /\ saved \subseteq Hold /\ request \in {"none", "on", "off"}
    /\ over \in 0..TripN - 1 /\ overHard \in 0..TripN - 1 /\ latched \in BOOLEAN
    /\ from \in 0..NoAge /\ held \subseteq Hold /\ heat \in Reading
    /\ guard \in {GuQuiet, "hardLatch", "hardStop", "stop", "drop", "hardDrop", "off", "gone"}

\* "A one-off spike never nukes your session": what heat alone stops has been
\* too hot for TripN readings in a row, all of them since the guard was last off.
SpikeSpared == [][(CheckTrips /\ ~policy.cap) => log'.hot = TripN]_guVars

\* "Nothing privileged happens unless the owner armed it": before the machine is
\* powered off, each of the last readings was past the ceiling and armed.
PowerOffArmed == [][(guard = GuQuiet /\ guard' = "hardLatch") => log'.hard = TripN]_guVars

\* "Power-off is the last resort ... after everything of kunai's has already
\* been stopped".
PowerOffIsLast == [][(guard = GuQuiet /\ guard' = "hardLatch") => log.stopped]_guVars

\* "A machine only holds the lid if the owner asked for it, never because a
\* crash left the setting on."
LidIsAsked == (guard # "gone" /\ request = "none" /\ "lid" \in held) => "lid" \in saved

Hot == policy.on /\ policy.soft /\ heat = "hot" /\ guard # "gone"

\* A host that stays too hot under a guard that stays on trips it.
HeatStops == <>[]Hot => <>latched

\* A trip that found the host cooled down does not last.
Rearms == <>[](policy.on /\ heat = "cool" /\ guard # "gone") => []<>~latched

\* What the guard promises: no spike stops the sessions, the machine is switched
\* off only when armed, and the lid is held only if asked for.
GuardIsSound == []GuTypeOK /\ SpikeSpared /\ PowerOffArmed /\ [][LidIsAsked']_guVars

\* What must come in the end: heat that lasts stops the sessions, and a trip
\* that is over is over.
GuardActs == HeatStops /\ Rearms
=============================================================================
