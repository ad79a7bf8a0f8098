------------------------------- MODULE Review -------------------------------
(***************************************************************************)
(* One pull-request review (internal/review/phase.go, prreviewrun.go,      *)
(* prreviewstop.go, prreviewresume.go, prreviewpost.go in internal/server):*)
(* phases that are asked of a session one turn at a time, a session of its *)
(* own for the last of them, the answers coming back on goroutines, and a  *)
(* record on disk that an interrupted review is put together from.         *)
(*                                                                         *)
(* Left out: prompts and their parsing (an answer can be read or not), the *)
(* placing of findings in the diff, prices, and the checkout.              *)
(***************************************************************************)
EXTENDS Naturals, FiniteSets, Sequences, SequencesExt

CONSTANTS
    Client,      \* people pressing Stop, Resume and Post, one request each at a time
    Patient,     \* TRUE: a review is resumed once the turns of the stopped run are
                 \* over, and nobody talks to its session while it is
    MaxRuns,     \* bound: runs of the review, the first one and the resumed
    MaxQueue     \* bound: turns a session runs or holds, and answers on their way

ASSUME ReviewAssumption == MaxRuns \in Nat \ {0} /\ MaxQueue \in Nat \ {0} /\ Patient \in BOOLEAN

VARIABLES
    record,      \* prreviews.json: phase, candidates, draft, error
    run,         \* of each run, its holder: the phase machine and the flag
    runs,        \* runs made so far
    runner,      \* s.reviewRuns: the run the review's own session drives, 0 for none
    borrowed,    \* the runs whose own verify session is registered (holder.verify)
    live,        \* sessions with a process
    hooked,      \* sessions whose answers are handed on (SetAnswerHook)
    asked,       \* of each session, the turn it runs and those waiting
    answers,     \* goroutines of the answer hook
    press,       \* what each client's request is doing
    posts        \* reviews that reached GitHub

sessionVars == <<live, hooked, asked>>
runVars == <<run, runs, runner, borrowed>>
rvVars == <<record, runVars, sessionVars, answers, press, posts>>

Run == 1..MaxRuns
Own == 0                       \* the review's own session; run h borrows session h
Session == 0..MaxRuns
NoPress == [st |-> "none", on |-> 0, phase |-> "none"]
Fresh(phase, found) == [phase |-> phase, found |-> found, draft |-> "none", repairs |-> 0, cancelled |-> FALSE, looked |-> FALSE]

Blank == Fresh("done", FALSE)

MaxRepairs == 1

-----------------------------------------------------------------------------
(* The phase machine *)

Turn(kind, h) == [kind |-> kind, by |-> h]

\* What an answer to a turn of this kind can be read as, in this phase.
Readable(kind, phase) == kind = phase

\* Mutant: what cannot be read is taken as no objection.
UnreadVerdict == "checked"

\* Verdicts that cannot be read leave the claims as they were.
UnverifiedDraft == "raw"

\* Mutant: asking again is not counted.
RepairedFreely(r) == r

Repaired(r) == [r EXCEPT !.repairs = @ + 1]

\* Mutant: one repair too many.
MayRepairAgain(r) == r.repairs <= MaxRepairs

\* repair: an answer that cannot be read is asked for once more.
MayRepair(r) == r.repairs < MaxRepairs

Settled(r, phase) == [r EXCEPT !.phase = phase, !.repairs = 0]

\* Run.Accept, as the runs there may be after it: a survey that cannot be read
\* is done without; the find phase and the verification are asked for once more.
Accept(r, kind, ok) ==
    LET read == ok /\ Readable(kind, r.phase)
        again == ~read /\ MayRepair(r)
        spent == ~read /\ ~MayRepair(r)
    IN  CASE r.phase = "survey" -> {Settled(r, "find")}
          [] r.phase = "find" /\ read ->
                {[Settled(r, "verify") EXCEPT !.found = TRUE, !.looked = TRUE],
                 [Settled(r, "done") EXCEPT !.found = FALSE, !.looked = TRUE]}
          [] r.phase = "find" /\ again -> {Repaired(r)}
          [] r.phase = "find" /\ spent -> {[r EXCEPT !.draft = "error"]}
          [] r.phase = "verify" /\ read -> {[Settled(r, "done") EXCEPT !.draft = "checked"]}
          [] r.phase = "verify" /\ again -> {Repaired(r)}
          [] r.phase = "verify" /\ spent -> {[Settled(r, "done") EXCEPT !.draft = UnverifiedDraft]}
          [] r.phase = "done" -> {r}

\* Mutant: a review always begins again.
ResumedFromFind(rec) == IF rec.phase = "verify" THEN "find" ELSE rec.phase

\* Resumed: a verification without claims falls back to the find phase.
ResumedPhase(rec) == IF rec.phase = "verify" /\ ~rec.found THEN "find" ELSE rec.phase

-----------------------------------------------------------------------------
(* Sessions *)

Room(s) == Len(asked[s]) < MaxQueue

\* A turn ends with something said; the hook hands it on.  Whether it can be
\* read matters to two of the phases.
TurnOver(s, ok) ==
    /\ s \in live /\ asked[s] # <<>> /\ Cardinality(answers) < MaxQueue
    /\ ok => Head(asked[s]).kind \in {"find", "verify"}
    /\ asked' = [asked EXCEPT ![s] = Tail(@)]
    /\ answers' = IF s \in hooked
                  THEN answers \cup {[from |-> s, turn |-> Head(asked[s]), ok |-> ok, on |-> 0]}
                  ELSE answers
    /\ UNCHANGED <<record, runVars, live, hooked, press, posts>>

\* A person types something into the review's conversation.
Chat ==
    /\ Own \in live /\ Len(asked[Own]) < MaxQueue - 1 /\ record.phase # "done"
    /\ \A a \in answers : a.turn.kind # "chat"
    /\ Patient => \A c \in Client : press[c].st \notin {"reading", "asking"}
    /\ asked' = [asked EXCEPT ![Own] = Append(@, Turn("chat", 0))]
    /\ UNCHANGED <<record, runVars, live, hooked, answers, press, posts>>

\* Closed by hand, or the process ended.
SessionEnds(s) ==
    /\ s \in live
    /\ live' = live \ {s} /\ hooked' = hooked \ {s}
    /\ asked' = [asked EXCEPT ![s] = <<>>]
    /\ UNCHANGED <<record, runVars, answers, press, posts>>

\* kunai is restarted: what is left is the record.
Restart ==
    /\ live # {} \/ runner # 0
    /\ runner' = 0 /\ borrowed' = {}
    /\ live' = {} /\ hooked' = {}
    /\ asked' = [s \in Session |-> <<>>]
    /\ answers' = {} /\ press' = [c \in Client |-> NoPress]
    /\ run' = [h \in Run |-> Blank]
    /\ UNCHANGED <<record, runs, posts>>

-----------------------------------------------------------------------------
(* advanceReview *)

\* The runner is looked up, and the holder's lock is waited for.
Route(a) ==
    LET h == IF a.from = Own THEN runner ELSE IF a.from \in borrowed THEN a.from ELSE 0
    IN  /\ a \in answers /\ a.on = 0
        /\ answers' = (answers \ {a}) \cup IF h = 0 THEN {} ELSE {[a EXCEPT !.on = h]}
        /\ UNCHANGED <<record, runVars, sessionVars, press, posts>>

\* endRun: the borrowed session is closed and the runners are forgotten.
EndRun(h) ==
    /\ runner' = 0
    /\ borrowed' = borrowed \ {h}
    /\ live' = live \ (borrowed \cap {h}) /\ hooked' = hooked \ (borrowed \cap {h})
    /\ asked' = [s \in Session |-> IF s = h /\ h \in borrowed THEN <<>> ELSE asked[s]]

\* finishReview: what there is becomes the draft.
Finish(h, r) ==
    /\ record' = [record EXCEPT !.phase = "done", !.found = @ \/ r.found,
                               !.draft = IF r.draft = "checked" THEN "checked" ELSE "raw",
                               !.failed = FALSE, !.looked = @ \/ r.looked]
    /\ EndRun(h)

\* The find phase cannot be read for the second time.
GiveUp(h) ==
    /\ record' = [record EXCEPT !.phase = "done", !.failed = TRUE]
    /\ EndRun(h)

Note(r) == record' = [record EXCEPT !.phase = r.phase, !.found = @ \/ r.found, !.looked = @ \/ r.looked]

\* The next question goes to the session of the verification, to one created
\* for it now, or to the review's own.
Ask(h, phase) ==
    \/ /\ phase = "verify" /\ h \notin borrowed
       /\ borrowed' = borrowed \cup {h}
       /\ live' = live \cup {h} /\ hooked' = hooked \cup {h}
       /\ asked' = [asked EXCEPT ![h] = <<Turn("verify", h)>>]
    \/ LET s == IF h \in borrowed THEN h ELSE Own
       IN  /\ s \in live /\ Room(s)
           /\ asked' = [asked EXCEPT ![s] = Append(@, Turn(phase, h))]
           /\ UNCHANGED <<borrowed, live, hooked>>

\* Mutant: the flag is not looked at.
Listens(h) == TRUE

\* cancelled is looked at under the lock, at the one place that asks on.
Continues(h) == ~run[h].cancelled

\* An answer to a review that was stopped asks for nothing.
DropCancelled(a) ==
    /\ a \in answers /\ a.on # 0 /\ ~Continues(a.on)
    /\ answers' = answers \ {a}
    /\ UNCHANGED <<record, runVars, sessionVars, press, posts>>

Advance(a) ==
    LET h == a.on
    IN  /\ a \in answers /\ h # 0 /\ Continues(h)
        /\ answers' = answers \ {a}
        /\ \E r \in Accept(run[h], a.turn.kind, a.ok) :
              /\ run' = [run EXCEPT ![h] = [r EXCEPT !.draft = "none", !.looked = FALSE]]
              /\ \/ r.draft = "error" /\ GiveUp(h)
                 \/ r.draft # "error" /\ r.phase = "done" /\ Finish(h, r)
                 \/ r.draft # "error" /\ r.phase # "done" /\ Note(r) /\ Ask(h, r.phase) /\ UNCHANGED runner
                 \/ \* the session went away during the phase, or refuses the prompt
                    /\ r.draft # "error" /\ r.phase # "done"
                    /\ (IF h \in borrowed THEN h ELSE Own) \notin live
                    /\ Finish(h, r)
        /\ UNCHANGED <<runs, press, posts>>

-----------------------------------------------------------------------------
(* Requests *)

Free(c) == press[c].st = "none"
Now(c, st, h) == press' = [press EXCEPT ![c] = [NoPress EXCEPT !.st = st, !.on = h]]
Done(c) == press' = [press EXCEPT ![c] = NoPress]

\* handleStopReview: the flag, under the holder's lock ...
Stop(c) ==
    /\ Free(c) /\ runner # 0
    /\ run' = [run EXCEPT ![runner].cancelled = TRUE]
    /\ Now(c, "stopping", runner)
    /\ UNCHANGED <<record, runs, runner, borrowed, sessionVars, answers, posts>>

\* ... then the runners are forgotten, and the turn is interrupted.
StopEnds(c) ==
    LET h == press[c].on
    IN  /\ press[c].st = "stopping"
        /\ runner' = 0 /\ borrowed' = borrowed \ {h}
        /\ live' = live \ (borrowed \cap {h}) /\ hooked' = hooked \ (borrowed \cap {h})
        /\ asked' = [s \in Session |->
                       IF s = Own /\ asked[s] # <<>> THEN <<Head(asked[s])>>
                       ELSE IF s = h /\ h \in borrowed THEN <<>> ELSE asked[s]]
        /\ Done(c)
        /\ UNCHANGED <<record, run, runs, answers, posts>>

\* handleResumeReview: nothing posted or drafted, something left to ask, and
\* nothing running; then the files are read again, which takes a while.
Resume(c) ==
    /\ Free(c) /\ runner = 0 /\ runs < MaxRuns
    /\ Patient => answers = {} /\ asked[Own] = <<>>
    /\ record.draft = "none" /\ ~record.posted /\ record.phase # "done"
    /\ press' = [press EXCEPT ![c] = [st |-> "reading", on |-> 0, phase |-> ResumedPhase(record)]]
    /\ UNCHANGED <<record, runVars, sessionVars, answers, posts>>

\* Mutant: the candidates of the record are not put back.
ResumeFound == FALSE

\* What the record knows of the candidates.
RecordFound == record.found

\* The session is brought back if it is gone, without its answer hook, and the
\* run is put together from the record.
ResumePuts(c) ==
    /\ press[c].st = "reading" /\ runs < MaxRuns
    /\ live' = live \cup {Own}
    /\ runs' = runs + 1
    /\ run' = [run EXCEPT ![runs + 1] = Fresh(press[c].phase, RecordFound)]
    /\ runner' = runs + 1
    /\ record' = [record EXCEPT !.phase = press[c].phase]
    /\ press' = [press EXCEPT ![c].st = "asking", ![c].on = runs + 1]
    /\ UNCHANGED <<borrowed, hooked, asked, answers, posts>>

\* The phase is asked, without the holder's lock.
ResumeAsks(c) ==
    LET h == press[c].on
    IN  /\ press[c].st = "asking"
        /\ \/ Ask(h, press[c].phase) /\ UNCHANGED runner
           \/ /\ press[c].phase # "verify" /\ Own \notin live
              /\ runner' = 0
              /\ UNCHANGED <<borrowed, sessionVars>>
        /\ Done(c)
        /\ UNCHANGED <<record, run, runs, answers, posts>>

\* Mutant: only the record is asked whether it has been posted.
NoneAtCommit == TRUE

\* ReviewedAt: GitHub knows of no review of this commit.
UnreviewedAt == posts = 0

\* postReview: not posted yet, and a draft to post ...
Post(c) ==
    /\ Free(c) /\ ~record.posted /\ record.draft # "none" /\ UnreviewedAt
    /\ Now(c, "posting", 0)
    /\ UNCHANGED <<record, runVars, sessionVars, answers, posts>>

\* ... GitHub is told, or refuses ...
PostSubmits(c) ==
    /\ press[c].st = "posting"
    /\ \/ posts' = posts + 1 /\ Now(c, "posted", 0)
       \/ Done(c) /\ UNCHANGED posts
    /\ UNCHANGED <<record, runVars, sessionVars, answers>>

\* ... and the record says so.
PostRecords(c) ==
    /\ press[c].st = "posted"
    /\ record' = [record EXCEPT !.posted = TRUE]
    /\ Done(c)
    /\ UNCHANGED <<runVars, sessionVars, answers, posts>>

-----------------------------------------------------------------------------
(* What a row of the dashboard and the review's own screen say. *)

\* reviewInFlight: no answer yet, good or bad.
InFlight == record.draft = "none" /\ ~record.failed /\ record.phase # "done"

\* It is told by its findings, be there any or none, and may be posted.
Drafted == ~InFlight /\ ~record.failed

\* startReview: NewRun surveys a large change first.
RvInit ==
    \E phase \in {"survey", "find"} :
        /\ record = [phase |-> phase, found |-> FALSE, draft |-> "none", failed |-> FALSE, looked |-> FALSE, posted |-> FALSE]
        /\ run = [h \in Run |-> IF h = 1 THEN Fresh(phase, FALSE) ELSE Blank]
        /\ asked = [s \in Session |-> IF s = Own THEN <<Turn(phase, 1)>> ELSE <<>>]
        /\ runs = 1 /\ runner = 1 /\ borrowed = {} /\ posts = 0
        /\ live = {Own} /\ hooked = {Own} /\ answers = {}
        /\ press = [c \in Client |-> NoPress]

Serves(c) ==
    StopEnds(c) \/ ResumePuts(c) \/ ResumeAsks(c) \/ PostSubmits(c) \/ PostRecords(c)

Answering == \E a \in answers : Route(a) \/ DropCancelled(a) \/ Advance(a)

RvNext ==
    \/ \E s \in Session : SessionEnds(s) \/ \E ok \in BOOLEAN : TurnOver(s, ok)
    \/ Answering
    \/ \E c \in Client : Stop(c) \/ Resume(c) \/ Post(c) \/ Serves(c)
    \/ Chat \/ Restart

RvSpec == RvInit /\ [][RvNext]_rvVars
\* Goroutines and requests run to their end, and turns end.
RvFairness ==
    /\ \A kind \in {"survey", "find", "verify", "chat"} :
          WF_rvVars(\E a \in answers : a.turn.kind = kind /\ (Route(a) \/ DropCancelled(a) \/ Advance(a)))
    /\ \A c \in Client : WF_rvVars(Serves(c))
    /\ \A s \in Session : WF_rvVars(\E ok \in BOOLEAN : TurnOver(s, ok))
RvFairSpec == RvSpec /\ RvFairness

-----------------------------------------------------------------------------
(* Properties *)

\* Every variable has its type.
RvTypeOK ==
    /\ record \in [phase : {"survey", "find", "verify", "done"}, found : BOOLEAN, draft : {"none", "raw", "checked"},
                   failed : BOOLEAN, looked : BOOLEAN, posted : BOOLEAN]
    /\ runs \in Run /\ runner \in 0..runs /\ borrowed \subseteq 1..runs
    /\ \A h \in Run : run[h].repairs \in 0..MaxRepairs
    /\ live \subseteq Session /\ hooked \subseteq live
    /\ \A s \in Session : Len(asked[s]) <= MaxQueue /\ (s \notin live => asked[s] = <<>>)

Asks(s, kind, h) ==
    /\ Len(asked'[s]) > 0
    /\ Last(asked'[s]) = Turn(kind, h)
    /\ Len(asked'[s]) = Len(asked[s]) + 1 \/ s \notin live

\* "Asking for the next phase now is precisely what Stop was pressed to
\* prevent": nothing is asked for a run that was stopped.
NothingAfterStop ==
    [][\A h \in Run, s \in Session, kind \in {"survey", "find", "verify"} : Asks(s, kind, h) => ~run[h].cancelled]_rvVars

\* "The survey and find work is kept rather than repeated": what has been found
\* is on the record, and is not looked for again.
FoundIsKept == [][\A h \in Run, s \in Session : Asks(s, "find", h) => ~record.found]_rvVars

\* "Verify with no candidates has nothing to check".
VerifyHasClaims == [][\A h \in Run, s \in Session : Asks(s, "verify", h) => run'[h].found]_rvVars

\* "A Verify that cannot be read must not silently promote unverified claims".
VerdictsOnly ==
    [][(record'.draft = "checked" /\ record.draft # "checked") =>
          \E a \in answers : a.turn.kind = "verify" /\ a.ok]_rvVars

\* PostedURL "is also what stops it being posted twice from the same draft".
PostedOnce == posts <= 1

\* The claims of a review: found once, checked before they are told as checked,
\* posted once, and nothing done about them that Stop was to prevent.
ClaimsAreKept == NothingAfterStop /\ FoundIsKept /\ VerifyHasClaims /\ VerdictsOnly /\ [][PostedOnce']_rvVars

\* The session a run waits for hands its answers on.
AnswersReachRun == \A h \in Run : (runner = h /\ h \notin borrowed /\ Own \in live) => Own \in hooked

\* "A clean bill of health is the one answer a reviewer must never give by
\* accident": a review that is told by its findings has looked for some.
CleanIsEarned == Drafted => record.looked

\* A review whose sessions stay comes to its end.
ReviewEnds == <>[]((runner # 0 => Own \in hooked) /\ borrowed \subseteq hooked) => []<>(runner = 0)
=============================================================================
