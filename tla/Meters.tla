-------------------------------- MODULE Meters --------------------------------
(***************************************************************************)
(* How full an account's quota is (server/usage.go, codexusage.go,         *)
(* grokusage.go, usagefail.go): three meters, each behind a lock that is   *)
(* held while the provider is asked, each remembering an answer and a      *)
(* failure for a while.  "cli" is the claude command, run in a shell;      *)
(* "codex" and "grok" are requests made in the name of the page that asks, *)
(* which may be closed before they are answered.                           *)
(*                                                                         *)
(* The meters share nothing, and a behaviour is about one of them.         *)
(* Time is in ticks.  A provider is fine, refuses (a login that expired)   *)
(* or, grok only, has a free tier, with no numbers to give.  Left out: the *)
(* refreshing of a token (Tokens), one entry of the cli's per account, the *)
(* transcript that a run of the cli leaves and kunai removes.              *)
(***************************************************************************)
EXTENDS Integers, Sequences, FiniteSets

CONSTANTS
    Reader,  \* pages and loops that ask, one call each at a time
    Feeder,  \* those of them that never go away: usagePollLoop
    TTL, FailTTL,  \* usageTTL, which is also providerUsageFailTTL, and usageFailTTL
    Year,    \* days in a year, for ResetAt
    MaxNow, MaxShifts  \* bounds: ticks; times a provider changes

ASSUME MetersAssumption ==
    /\ Feeder \subseteq Reader
    /\ {TTL, FailTTL, Year, MaxNow, MaxShifts} \subseteq Nat /\ FailTTL < TTL

VARIABLES
    meter,    \* the one this behaviour is about
    now,      \* the clock
    quota,    \* what its provider would answer
    lastSo,   \* of each answer, when it last was the one, Never if never
    shifts,
    holds,     \* the reader that holds the lock, None if none does
    cache,    \* until when the answer and the failure stand, and the words
    call,     \* of each reader: where it is, and since when
    here,     \* whether anybody waits for what it reads
    painted,     \* what was last answered to it, and for how long that had not been so
    poll,     \* when the provider was last asked and what came of it
    early     \* what it had answered when it was asked again within the period

mtVars == <<meter, now, quota, lastSo, shifts, holds, cache, call, here, painted, poll, early>>
mtWorld == <<meter, now, quota, lastSo, shifts>>

MeterRow == {"cli", "codex", "grok"}
Quota == {"fine", "refused", "free"}
None == "none"
Never == -1
NoCall == [at |-> "idle", from |-> 0, crossed |-> FALSE]
Nothing == [says |-> "", age |-> 0, crossed |-> FALSE]

-----------------------------------------------------------------------------
(* What is read off an answer *)

\* Mutant: whichever comes first is the session's.
RowsByOrder(w) == [session |-> w[1], weekly |-> w[2]]

\* fetchCodexUsage: "the two windows aren't fixed", a short one is the session's,
\* any other the week's, and the first of its kind counts.
UsageRows(w) ==
    LET Pick(kind) == LET of == {i \in 1..2 : w[i] # None /\ (w[i] = "short") = kind}
                      IN  IF of = {} THEN None ELSE w[CHOOSE i \in of : \A j \in of : i <= j]
    IN  [session |-> Pick(TRUE), weekly |-> Pick(FALSE)]

\* Mutant: the year is this one.
ThisYear(day, today) == (today \div Year) * Year + day

\* parseResetAt: "the CLI prints no year"; one that lies more than a day back is
\* the next.
ResetAt(day, today) ==
    LET t == (today \div Year) * Year + day IN IF t < today - 1 THEN t + Year ELSE t

-----------------------------------------------------------------------------
(* A call *)

\* handleUsage, feedSchedulerResets
Asks(r) ==
    /\ call[r] = NoCall /\ (r \in Feeder => meter = "cli")
    /\ call' = [call EXCEPT ![r].at = "waits"]
    /\ here' = [here EXCEPT ![r] = TRUE] /\ painted' = [painted EXCEPT ![r] = Nothing]
    /\ UNCHANGED <<mtWorld, holds, cache, poll, early>>

\* "A client that navigates away, unmounts, or supersedes its own poll."
Leaves(r) ==
    /\ r \notin Feeder /\ call[r] # NoCall /\ here[r]
    /\ here' = [here EXCEPT ![r] = FALSE]
    /\ UNCHANGED <<mtWorld, holds, cache, call, painted, poll, early>>

\* How long before t the provider last was so, and more than ever if it was not.
Age(says, t) ==
    IF says \notin Quota \/ quota = says THEN 0
    ELSE IF lastSo[says] = Never THEN MaxNow + TTL ELSE t - lastSo[says]

FeedHears(r, says, t) ==
    painted' = IF here[r] THEN [painted EXCEPT ![r] = [says |-> says, age |-> Age(says, t), crossed |-> call[r].crossed]]
            ELSE painted

\* Mutant: only an answer is remembered.
AnswersOnly == FALSE

\* holding: "a failure has to be remembered, so the next caller waits"
Holding == now < cache.until
StillFresh == now < cache.exp

\* get: what is remembered is answered at once, ...
Answers(r) ==
    /\ call[r].at = "waits" /\ holds = None /\ (StillFresh \/ Holding)
    /\ IF ~StillFresh /\ meter # "cli"
       THEN call' = [call EXCEPT ![r].at = "asks why", ![r].from = now] /\ UNCHANGED painted
       ELSE call' = [call EXCEPT ![r] = NoCall] /\ FeedHears(r, IF StillFresh THEN "fine" ELSE cache.why, now)
    /\ UNCHANGED <<mtWorld, holds, cache, here, poll, early>>

FailureStands == IF meter = "cli" THEN FailTTL ELSE TTL

\* ... and otherwise the provider is asked, under the lock.
Polls(r) ==
    /\ call[r].at = "waits" /\ holds = None /\ ~StillFresh /\ ~Holding
    /\ holds' = r
    /\ call' = [call EXCEPT ![r].at = "polls", ![r].from = now]
    /\ early' = IF poll.was = "" \/ now >= poll.at + (IF poll.was = "refused" THEN FailureStands ELSE TTL) THEN early
                ELSE early \cup {poll.was}
    /\ UNCHANGED <<mtWorld, cache, here, painted, poll>>

\* Mutant: what came to nothing is remembered, whoever gave it up.
AllRemembered(r) == FALSE

\* abandoned: "the caller went away; not a fault, and not worth remembering", of
\* codex and grok.
Abandoned(r) == ~here[r] /\ meter # "cli"

\* Mutant: a failure is remembered after an answer.
WhyStays == [cache EXCEPT !.until = 0]

\* clear
Cleared == [cache EXCEPT !.until = 0, !.why = ""]

\* Codex and grok count their period from when they asked, the cli from when it
\* answered.
Counts(r) == IF meter = "cli" THEN now ELSE call[r].from

Remembered(r, came) ==
    CASE came = "fine" -> [Cleared EXCEPT !.exp = Counts(r) + TTL, !.free = FALSE]
      [] came = "free" -> [Cleared EXCEPT !.free = TRUE]
      [] OTHER -> [cache EXCEPT !.until = Counts(r) + FailureStands, !.why = came]

\* A poll for a page that is closed is broken off, unless its answer is there.
Returns(r, came) ==
    LET lost == came = "hung up" /\ Abandoned(r)
        over == came = "fine" \/ meter = "cli"
    IN  /\ call[r].at = "polls" /\ (came = quota \/ (came = "hung up" /\ ~here[r]))
        /\ holds' = None
        /\ cache' = IF lost THEN cache ELSE Remembered(r, came)
        /\ poll' = IF lost THEN poll ELSE [at |-> Counts(r), was |-> IF came = "hung up" THEN "refused" ELSE came]
        /\ call' = [q \in Reader |->
                       CASE q = r -> IF over THEN NoCall ELSE [call[q] EXCEPT !.at = "asks why", !.from = now]
                         [] q # r -> [call[q] EXCEPT !.crossed = @ \/ (call[q].at = "asks why" /\ ~lost)]]
        /\ IF over THEN FeedHears(r, came, now) ELSE UNCHANGED painted
    /\ UNCHANGED <<mtWorld, here, early>>

\* reason, under the lock once more, with words of handleUsage for none
Reason == IF cache.why # "" THEN cache.why ELSE IF cache.free THEN "free" ELSE "not available"

SaysWhy(r) ==
    /\ call[r].at = "asks why" /\ holds = None
    /\ call' = [call EXCEPT ![r] = NoCall] /\ FeedHears(r, Reason, call[r].from)
    /\ UNCHANGED <<mtWorld, holds, cache, here, poll, early>>

-----------------------------------------------------------------------------
(* The world *)

Elapses ==
    /\ now < MaxNow /\ now' = now + 1
    /\ UNCHANGED <<meter, quota, lastSo, shifts, holds, cache, call, here, painted, poll, early>>

Shifts(to) ==
    /\ shifts < MaxShifts /\ shifts' = shifts + 1
    /\ to # quota /\ (to = "free" => meter = "grok")
    /\ quota' = to /\ lastSo' = [lastSo EXCEPT ![quota] = now]
    /\ UNCHANGED <<meter, now, holds, cache, call, here, painted, poll, early>>

MtInit ==
    /\ meter \in MeterRow
    /\ now = 0 /\ quota = "fine" /\ lastSo = [q \in Quota |-> Never] /\ shifts = 0
    /\ holds = None /\ cache = [exp |-> 0, until |-> 0, why |-> "", free |-> FALSE]
    /\ call = [r \in Reader |-> NoCall] /\ here = [r \in Reader |-> TRUE]
    /\ painted = [r \in Reader |-> Nothing]
    /\ poll = [at |-> 0, was |-> ""] /\ early = {}

MtNext ==
    \/ Elapses
    \/ \E r \in Reader :
        \/ Asks(r) \/ Leaves(r) \/ Answers(r) \/ Polls(r) \/ SaysWhy(r)
        \/ \E came \in Quota \cup {"hung up"} : Returns(r, came)
    \/ \E to \in Quota : Shifts(to)

MtSpec == MtInit /\ [][MtNext]_mtVars

-----------------------------------------------------------------------------
(* Properties *)

MtTypeOK ==
    /\ now \in 0..MaxNow /\ quota \in Quota /\ shifts \in 0..MaxShifts
    /\ holds \in Reader \cup {None} /\ here \in [Reader -> BOOLEAN] /\ early \subseteq Quota
    /\ \A r \in Reader : call[r].at \in {"idle", "waits", "polls", "asks why"}
    /\ {cache.exp, cache.until} \subseteq 0..(MaxNow + TTL)

\* "A poll costs at most one request per period whether it works or not": however
\* many pages ask, and whatever becomes of them, no provider is asked again within
\* the period of an answer or a failure.  Not so grok's free tier, which is not
\* remembered.
AskedOncePerPeriod == early \subseteq {"free"}

\* "That is indistinguishable from 'this provider has no quota'": a page that is
\* still there is told what its provider would have answered within the last
\* period: numbers, that the login expired, that there are none to give.  What
\* another page broke off is not held against the account, but for the cli's, and
\* there are no words only if another answer came in between.
ToldWhatIsSo ==
    \A r \in Reader :
        /\ painted[r].age <= TTL
        /\ painted[r].says = "hung up" => meter = "cli"
        /\ painted[r].says = "not available" => painted[r].crossed

\* Each window is shown in the row of its length, and a window that is given is
\* shown.
RowsAreHonest ==
    \A w \in [1..2 -> {None, "short", "long"}] :
        /\ UsageRows(w).session \in {None, "short"} /\ UsageRows(w).weekly \in {None, "long"}
        /\ \A i \in 1..2 : w[i] # None => w[i] \in {UsageRows(w).session, UsageRows(w).weekly}

\* "The year that puts it there is the right one": a reset up to a week ahead is
\* put where it is, over New Year too.
ResetIsAhead == \A today \in 0..(2 * Year), ahead \in 0..7 : ResetAt((today + ahead) % Year, today) = today + ahead

\* The meters say what is so, and ask for it sparingly.
MetersAreTrue == AskedOncePerPeriod /\ ToldWhatIsSo /\ RowsAreHonest /\ ResetIsAhead
=============================================================================
