-------------------------------- MODULE Login --------------------------------
(***************************************************************************)
(* Signing in to a Claude account from the app                             *)
(* (internal/server/accountlogin.go, clis.go): `claude auth login` runs    *)
(* under a PTY, its link goes to a browser elsewhere, the code that comes  *)
(* back is typed in or forwarded to it, and a watcher records how it       *)
(* ended.  The process, its watcher, the requests of a person, the sweep   *)
(* and other edits of the account list go on at once.                      *)
(*                                                                         *)
(* Left out: the text around the link, the redaction of what the CLI       *)
(* printed, the cache of the status checks, and the default account, which *)
(* cannot be removed.                                                      *)
(***************************************************************************)
EXTENDS Naturals, FiniteSets

CONSTANTS
    Login,        \* the logins somebody starts, by the id of their flow
    Acct,         \* accounts, by name
    Reachable,    \* the CLI's callback server answers for as long as the CLI runs
    Roomy,        \* the CLI prints less than the tail of its output that is kept
    SerialEdits   \* TRUE: the list is not edited between a reading and its saving

ASSUME LoginAssumption == {Reachable, Roomy, SerialEdits} \subseteq BOOLEAN

VARIABLES
    flows,    \* loginManager.flows: the ids in the map
    lg,       \* of each login: its flow, its process, its watcher, its request
    clis,     \* the account list
    signed,   \* accounts `auth status` finds signed in
    edit,     \* a removal between its reading of the list and its saving, or Unedited
    gone      \* history: accounts removed, and not added by a login of theirs since

lgVars == <<flows, lg, clis, signed, edit, gone>>

Unedited == [acct |-> "none", list |-> {}]
\* A list that was read, and is written again later.
ListRead == IF SerialEdits THEN {} ELSE clis
Latest(list) == IF SerialEdits THEN clis ELSE list

NotBegun == [
    acct |-> "none", reauth |-> FALSE, loopback |-> FALSE,
    cli |-> "none",       \* the process: "up"; "ok" or "bad", as it ended
    given |-> FALSE,      \* it has a code it has not turned down
    refused |-> FALSE,    \* it has turned one down
    full |-> FALSE,       \* what it printed fills the tail
    deaf |-> FALSE,       \* the refusal is not in what finish looks at
    watch |-> "none",     \* "running", "checking", "saving", "saved", "over"
    list |-> {},          \* the list the watcher adds the account to
    outcome |-> "none",   \* "ok" or "failed", once finalized
    request |-> "none"]   \* the start or the finish under way, or how the finish answered

Quiescent == {"none", "answered", "undelivered", "refused", "late"}

StageOf(l, request) == lg[l].request = request
LoginGoes(l, flow) == lg' = [lg EXCEPT ![l] = flow]
Killed(flow) == [flow EXCEPT !.cli = IF @ = "up" THEN "bad" ELSE @]
AccountsRest == UNCHANGED <<clis, signed, edit, gone>>

-----------------------------------------------------------------------------
(* start *)

\* A new account takes a name that is free, signing in again one that is listed.
LoginStarts(l, a, reauth) ==
    /\ lg[l].cli = "none" /\ (a \in clis) = reauth
    /\ LoginGoes(l, [NotBegun EXCEPT !.acct = a, !.reauth = reauth, !.cli = "up", !.request = "start"])
    /\ UNCHANGED flows /\ AccountsRest

\* readOAuthURL gives up, or finds the process gone.
Linkless(l) ==
    /\ StageOf(l, "start")
    /\ LoginGoes(l, [Killed(lg[l]) EXCEPT !.request = "none"])
    /\ UNCHANGED flows /\ AccountsRest

LinkShown(l) ==
    /\ StageOf(l, "start") /\ lg[l].cli = "up"
    /\ \E loopback \in BOOLEAN, full \in (IF Roomy THEN {FALSE} ELSE BOOLEAN) :
         LoginGoes(l, [lg[l] EXCEPT !.loopback = loopback, !.full = full, !.request = "none", !.watch = "running"])
    /\ flows' = flows \cup {l} /\ AccountsRest

-----------------------------------------------------------------------------
(* The CLI: a browser on this machine may reach its callback by itself. *)

CliSignsIn(l) ==
    /\ lg[l].cli = "up" /\ lg[l].watch = "running" /\ (lg[l].loopback \/ lg[l].given)
    /\ LoginGoes(l, [lg[l] EXCEPT !.cli = "ok"])
    /\ signed' = signed \cup {lg[l].acct} /\ UNCHANGED <<flows, clis, edit, gone>>

CliEnds(l) ==
    /\ lg[l].cli = "up"
    /\ LoginGoes(l, [lg[l] EXCEPT !.cli = "bad"]) /\ UNCHANGED flows /\ AccountsRest

\* It prints why, and prompts again.
CliRefuses(l) ==
    /\ lg[l].cli = "up" /\ lg[l].given
    /\ LoginGoes(l, [lg[l] EXCEPT !.given = FALSE, !.refused = TRUE]) /\ UNCHANGED flows /\ AccountsRest

-----------------------------------------------------------------------------
(* watch, and finalize *)

\* Mutant: what the process ended with is not looked at.
WatchOnlyChecks(l) ==
    /\ lg[l].watch = "running" /\ lg[l].cli \in {"ok", "bad"}
    /\ LoginGoes(l, [lg[l] EXCEPT !.watch = "checking"])
    /\ UNCHANGED flows /\ AccountsRest

\* Old credentials may still be there: that the process failed decides.
WatchSees(l) ==
    /\ lg[l].watch = "running" /\ lg[l].cli \in {"ok", "bad"}
    /\ LoginGoes(l, IF lg[l].cli = "ok" THEN [lg[l] EXCEPT !.watch = "checking"]
                                   ELSE [lg[l] EXCEPT !.watch = "over", !.outcome = "failed"])
    /\ UNCHANGED flows /\ AccountsRest

\* Mutant: every account is registered.
AlwaysRegisters(flow) == [flow EXCEPT !.watch = "saving", !.list = ListRead]

\* Signing in again drops a cache only; a new account is added to a list just read.
Registration(flow) == IF flow.reauth THEN [flow EXCEPT !.watch = "saved"]
                                     ELSE [flow EXCEPT !.watch = "saving", !.list = ListRead]

\* The status check may also find the account signed out, or take too long.
WatchChecks(l) ==
    /\ lg[l].watch = "checking"
    /\ \/ lg[l].acct \in signed /\ LoginGoes(l, Registration(lg[l]))
       \/ LoginGoes(l, [lg[l] EXCEPT !.watch = "over", !.outcome = "failed"])
    /\ UNCHANGED flows /\ AccountsRest

WatchSaves(l) ==
    /\ lg[l].watch = "saving"
    /\ clis' = Latest(lg[l].list) \cup {lg[l].acct}
    /\ gone' = (IF lg[l].reauth THEN gone ELSE gone \ {lg[l].acct})
    /\ LoginGoes(l, [lg[l] EXCEPT !.watch = "saved", !.list = {}])
    /\ UNCHANGED <<flows, signed, edit>>

\* Mutant: it is published before registration.
PublishesEarly(l) ==
    /\ lg[l].watch \in {"saving", "saved"} /\ lg[l].outcome = "none"
    /\ LoginGoes(l, [lg[l] EXCEPT !.watch = IF @ = "saved" THEN "over" ELSE @, !.outcome = "ok"])
    /\ UNCHANGED flows /\ AccountsRest

\* Completion is published after registration only.
WatchPublishes(l) ==
    /\ lg[l].watch = "saved"
    /\ LoginGoes(l, [lg[l] EXCEPT !.watch = "over", !.outcome = "ok"])
    /\ UNCHANGED flows /\ AccountsRest

Watches(l) == WatchSees(l) \/ WatchChecks(l) \/ WatchSaves(l) \/ WatchPublishes(l)

-----------------------------------------------------------------------------
(* finish *)

\* Mutant: the flow stays in the map meanwhile.
FinishPeeks(l) ==
    /\ l \in flows
    /\ LoginGoes(l, [lg[l] EXCEPT !.request = "send"]) /\ UNCHANGED flows /\ AccountsRest

FinishTakes(l) ==
    /\ l \in flows
    /\ LoginGoes(l, [lg[l] EXCEPT !.request = "send"]) /\ flows' = flows \ {l} /\ AccountsRest

\* A pasted code without its second half, which the link did not have either,
\* is not submitted: the flow goes back into the map.
Stateless(l) ==
    /\ StageOf(l, "send") /\ ~lg[l].loopback
    /\ LoginGoes(l, [lg[l] EXCEPT !.request = "none"]) /\ flows' = flows \cup {l} /\ AccountsRest

\* forwardLoopback, or the write to the PTY, fails.
Undelivered(l) ==
    /\ StageOf(l, "send")
    /\ lg[l].cli # "up" \/ (lg[l].loopback /\ ~Reachable)
    /\ LoginGoes(l, [lg[l] EXCEPT !.request = "undelivered"]) /\ UNCHANGED flows /\ AccountsRest

Delivered(l) ==
    /\ StageOf(l, "send")
    /\ lg[l].cli = "up" \/ (~lg[l].loopback /\ lg[l].watch # "over")
    /\ LoginGoes(l, [lg[l] EXCEPT !.request = "sent", !.given = TRUE]) /\ UNCHANGED flows /\ AccountsRest

\* From here on the output is looked at, from the length the tail has now.
FinishMarks(l) ==
    /\ StageOf(l, "sent")
    /\ LoginGoes(l, [lg[l] EXCEPT !.request = "wait", !.deaf = lg[l].full \/ lg[l].refused])
    /\ UNCHANGED flows /\ AccountsRest

FinishSees(l) ==
    /\ StageOf(l, "wait") /\ lg[l].watch = "over"
    /\ LoginGoes(l, [lg[l] EXCEPT !.request = "answered"]) /\ UNCHANGED flows /\ AccountsRest

FinishRefused(l) ==
    /\ StageOf(l, "wait") /\ lg[l].refused /\ ~lg[l].deaf
    /\ LoginGoes(l, [Killed(lg[l]) EXCEPT !.request = "refused"]) /\ UNCHANGED flows /\ AccountsRest

\* Mutant: the process is left to itself.
FinishLeaves(l) ==
    /\ StageOf(l, "wait") /\ (lg[l].refused => lg[l].deaf)
    /\ LoginGoes(l, [lg[l] EXCEPT !.request = "late"]) /\ UNCHANGED flows /\ AccountsRest

\* Ninety seconds, over which a refusal in view is seen.
FinishLate(l) ==
    /\ StageOf(l, "wait") /\ (lg[l].refused => lg[l].deaf)
    /\ LoginGoes(l, [Killed(lg[l]) EXCEPT !.request = "late"]) /\ UNCHANGED flows /\ AccountsRest

Finishes(l) ==
    \/ FinishTakes(l) \/ Stateless(l) \/ Undelivered(l) \/ Delivered(l)
    \/ FinishMarks(l) \/ FinishSees(l) \/ FinishRefused(l) \/ FinishLate(l)

-----------------------------------------------------------------------------
(* The other requests, and the sweep *)

Poll(l) ==
    /\ l \in flows /\ lg[l].outcome # "none"
    /\ flows' = flows \ {l} /\ UNCHANGED lg /\ AccountsRest

\* cancel; or sweep, when the flow is older than loginFlowTTL
Cancel(l) ==
    /\ l \in flows
    /\ LoginGoes(l, Killed(lg[l])) /\ flows' = flows \ {l} /\ AccountsRest

RemoveReads(a) ==
    /\ edit = Unedited /\ a \in clis
    /\ edit' = [acct |-> a, list |-> ListRead]
    /\ UNCHANGED <<flows, lg, clis, signed, gone>>

RemoveSaves ==
    /\ edit # Unedited
    /\ clis' = Latest(edit.list) \ {edit.acct}
    /\ gone' = gone \cup {edit.acct} /\ edit' = Unedited
    /\ UNCHANGED <<flows, lg, signed>>

LgInit ==
    /\ flows = {} /\ lg = [l \in Login |-> NotBegun] /\ edit = Unedited /\ gone = {}
    /\ clis \in SUBSET Acct /\ signed = clis

LgNext ==
    \/ \E l \in Login, a \in Acct, reauth \in BOOLEAN : LoginStarts(l, a, reauth)
    \/ \E l \in Login :
         \/ Linkless(l) \/ LinkShown(l) \/ CliSignsIn(l) \/ CliEnds(l) \/ CliRefuses(l)
         \/ Watches(l) \/ Finishes(l) \/ Poll(l) \/ Cancel(l)
    \/ \E a \in Acct : RemoveReads(a)
    \/ RemoveSaves

LgSpec == LgInit /\ [][LgNext]_lgVars

-----------------------------------------------------------------------------
(* Properties *)

\* Every variable has its type, a flow in the map is in nobody's hands and has
\* a watcher, and a watcher that is done has left an outcome.
LgTypeOK ==
    /\ flows \subseteq Login /\ clis \subseteq Acct /\ signed \subseteq Acct /\ gone \subseteq Acct
    /\ edit = Unedited \/ (edit.acct \in Acct /\ edit.list \subseteq Acct)
    /\ \A l \in Login :
         /\ lg[l].cli \in {"none", "up", "ok", "bad"} /\ lg[l].outcome \in {"none", "ok", "failed"}
         /\ lg[l].request \in Quiescent \cup {"start", "send", "sent", "wait"}
         /\ l \in flows => StageOf(l, "none") /\ lg[l].watch # "none"
         /\ lg[l].watch = "over" => lg[l].outcome # "none"

\* "A cancelled/failed re-login may leave the old credentials in place. Their
\* presence must not turn the unsuccessful login into success."
SuccessIsEarned == \A l \in Login : lg[l].outcome = "ok" => lg[l].cli = "ok"

\* "so a walked-away login never leaves a stuck subprocess": a process that runs
\* is in the map, where a cancel or the sweep finds it, or a request ends it.
NoStuckLogin == \A l \in Login : lg[l].cli = "up" => l \in flows \/ lg[l].request \notin Quiescent

\* "so it lands whether the user pasted a code or the browser completed it
\* directly", and nobody hears of it before it has.
HeardIsListed ==
    \A l \in Login : lg[l].outcome = "ok" /\ ~lg[l].reauth => lg[l].acct \in clis \cup gone

\* "an existing profile must never be registered as a new one": an account that
\* was removed while it was signing in again stays removed.
RemovedStaysRemoved == clis \cap gone = {}

\* What becomes of a sign-in: a success that was earned and is in the list, or
\* no trace, in the list or among the processes.
SignInIsTrue == SuccessIsEarned /\ HeardIsListed /\ NoStuckLogin /\ RemovedStaysRemoved

\* "A code the CLI refuses must be reported as the refusal, not as a timeout."
RefusalIsTold == \A l \in Login : StageOf(l, "late") => ~lg[l].refused
=============================================================================
