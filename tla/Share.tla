-------------------------------- MODULE Share --------------------------------
(***************************************************************************)
(* A shared session (internal/share, with server/shareapi.go, sharetier.go *)
(* and the guest's side in sharews.go and sharegate.go): a link to one     *)
(* session, the one device its owner lets drive it, the turns that device  *)
(* may spend, and the tools the session does without in the meantime.      *)
(*                                                                         *)
(* The tools are spawn-time flags: withholding them, and giving them back, *)
(* replaces the process.  The app's request and the check of every minute  *)
(* may both be at it.  The store writes its file under its lock, so a      *)
(* restart finds what the memory held.                                     *)
(*                                                                         *)
(* Left out: the folders a guest's call may touch, redaction, uploads,     *)
(* tickets, the limits on connections; the listener and its public port    *)
(* are module Funnel.  A session reopened after a restart runs as it was   *)
(* before it was shared.                                                   *)
(***************************************************************************)
EXTENDS Naturals

CONSTANTS
    Device,      \* the guests' browsers
    Tab,         \* connections a guest has open
    MaxTurns,    \* the cap the link is given
    MaxLinks,    \* bound: links made
    MaxCodes,    \* bound: pairing codes given out
    Opens,       \* bound: times the session is reopened
    Tiers        \* the tiers links are made for

ASSUME ShareAssumption ==
    /\ {MaxTurns, MaxLinks, MaxCodes, Opens} \subseteq Nat /\ MaxTurns # 0
    /\ Device \cap Nat = {} /\ Tiers \subseteq {"view", "ask", "work"}

VARIABLES
    link,      \* Store: the session's share
    agent,     \* the session's process: [live, tools, owner]
    native,    \* what the session runs with when it is not shared
    job,       \* the app's request and the check, as far as each has got
    screen,    \* the code each device shows
    told,      \* the code the owner has been told, and the device it was read off
    tab,       \* what each connection is about to send, and on which link
    sent,      \* history: prompts that have been let through on this link
    made       \* links, codes and reopenings so far

shVars == <<link, agent, native, job, screen, told, tab, sent, made>>
guests == <<screen, told, tab, sent>>

Nobody == 0
NoPending == [code |-> 0, device |-> Nobody]
NoLink == [id |-> 0, tier |-> "none", guest |-> Nobody, pending |-> NoPending, turns |-> 0]
NewLink(n, t) == [NoLink EXCEPT !.id = n, !.tier = t]
CanPrompt(t) == t \in {"ask", "work"}

\* What a session does without: DisallowedTools of a tier, or a review's.
Plain == [tools |-> "all", owner |-> "none"]
Reviewed == [tools |-> "review", owner |-> "review"]
Shared(t) == [tools |-> t, owner |-> "share"]
Held == {Plain, Reviewed} \cup {Shared(t) : t \in Tiers}
Runs == [tools |-> agent.tools, owner |-> agent.owner]

NoJob == [at |-> "none", with |-> Plain]
ToRestrict(how) == [at |-> "restrict", with |-> how]

-----------------------------------------------------------------------------
(* restrictSession and the respawn under it *)

JobDone(j) == job' = [job EXCEPT ![j] = NoJob]

\* "Nothing about the process would change": then there is no respawn.
Restricts(j) ==
    /\ job[j].at = "restrict"
    /\ IF ~agent.live \/ agent.tools = job[j].with.tools THEN JobDone(j) ELSE job' = [job EXCEPT ![j].at = "down"]
    /\ UNCHANGED <<link, agent, native, guests, made>>

RestartDown(j) ==
    /\ job[j].at = "down"
    /\ agent' = [agent EXCEPT !.live = FALSE]
    /\ IF agent.live THEN job' = [job EXCEPT ![j].at = "up"] ELSE JobDone(j)
    /\ UNCHANGED <<link, native, guests, made>>

\* Mutant: who withholds them stays as it was.
WithToolsOnly(how) == [live |-> TRUE, tools |-> how.tools, owner |-> agent.owner]

\* "toolsOwner rides with tools rather than standing alone."
WithTools(how) == [live |-> TRUE, tools |-> how.tools, owner |-> how.owner]

\* Create may fail, and finds the id taken if somebody else was quicker.
RestartUp(j) ==
    /\ job[j].at = "up"
    /\ JobDone(j)
    /\ \/ agent' = IF agent.live THEN agent ELSE WithTools(job[j].with)
       \/ UNCHANGED agent
    /\ UNCHANGED <<link, native, guests, made>>

JobGoes(j) == Restricts(j) \/ RestartDown(j) \/ RestartUp(j)

-----------------------------------------------------------------------------
(* The owner *)

Asked == job.app = NoJob
Approving == told # NoPending

\* handleCreateShare: one link for a session.
Create(t) ==
    /\ Asked /\ agent.live /\ link = NoLink /\ made.links < MaxLinks
    /\ made' = [made EXCEPT !.links = @ + 1]
    /\ link' = NewLink(made.links + 1, t)
    /\ sent' = 0
    /\ job' = [job EXCEPT !.app = IF CanPrompt(t) THEN ToRestrict(Shared(t)) ELSE NoJob]
    /\ UNCHANGED <<agent, native, screen, told, tab>>

\* handleRevokeShare
Revoke ==
    /\ Asked /\ link # NoLink
    /\ link' = NoLink
    /\ job' = [job EXCEPT !.app = IF CanPrompt(link.tier) THEN ToRestrict(Plain) ELSE NoJob]
    /\ UNCHANGED <<agent, native, guests, made>>

\* handleCloseSession, which then revokes what the session had
Close ==
    /\ Asked /\ agent.live
    /\ agent' = [agent EXCEPT !.live = FALSE]
    /\ job' = [job EXCEPT !.app = [NoJob EXCEPT !.at = "hangup"]]
    /\ UNCHANGED <<link, native, guests, made>>

RevokeSession ==
    /\ job.app.at = "hangup"
    /\ link' = NoLink
    /\ JobDone("app")
    /\ UNCHANGED <<agent, native, guests, made>>

\* The owner is read the code on a guest's screen.
Reads(d) ==
    /\ screen[d] # 0
    /\ told' = [code |-> screen[d], device |-> d]
    /\ UNCHANGED <<link, agent, native, job, screen, tab, sent, made>>

\* Mutant: a button that lets in whoever is waiting.
ApproveWaiting ==
    /\ Approving /\ link.pending # NoPending
    /\ link' = [link EXCEPT !.guest = link.pending.device, !.pending = NoPending]
    /\ UNCHANGED <<agent, native, job, guests, made>>

\* Approve: by the code
Approve ==
    /\ Approving /\ link.pending.code = told.code
    /\ link' = [link EXCEPT !.guest = link.pending.device, !.pending = NoPending]
    /\ UNCHANGED <<agent, native, job, guests, made>>

\* handleDenyShare
Deny ==
    /\ link.pending # NoPending
    /\ link' = [link EXCEPT !.pending = NoPending]
    /\ UNCHANGED <<agent, native, job, guests, made>>

Unpair ==
    /\ link.guest # Nobody
    /\ link' = [link EXCEPT !.guest = Nobody, !.pending = NoPending]
    /\ UNCHANGED <<agent, native, job, guests, made>>

OwnerActs == Revoke \/ Close \/ RevokeSession \/ Approve \/ Deny \/ Unpair
             \/ (\E t \in Tiers : Create(t)) \/ \E d \in Device : Reads(d)

-----------------------------------------------------------------------------
(* A guest *)

\* Mutant: the newest to ask is the one who waits.
Vacant(d) == link.guest = Nobody

\* "First come first served."
MayWait(d) == link.guest = Nobody /\ link.pending.device \in {Nobody, d}

\* Ask: the same code for the same device
AskToDrive(d) ==
    /\ CanPrompt(link.tier) /\ MayWait(d)
    /\ IF link.pending.device = d THEN UNCHANGED <<link, made>>
       ELSE /\ made.codes < MaxCodes
            /\ made' = [made EXCEPT !.codes = @ + 1]
            /\ link' = [link EXCEPT !.pending = [code |-> made.codes + 1, device |-> d]]
    /\ screen' = [screen EXCEPT ![d] = link'.pending.code]
    /\ UNCHANGED <<agent, native, job, told, tab, sent>>

MayPrompt(l, d) == CanPrompt(l.tier) /\ l.guest = d /\ l.turns < MaxTurns

\* runGuestCommand: what is read of the share is a copy.
Looks(k, d) ==
    /\ tab[k] = NoLink /\ MayPrompt(link, d)
    /\ tab' = [tab EXCEPT ![k] = link]
    /\ UNCHANGED <<link, agent, native, job, screen, told, sent, made>>

\* Mutant: the copy is what decides.
SpendOnCopy(k) == link # NoLink /\ MayPrompt(tab[k], tab[k].guest)

\* SpendTurn: "the check and the increment happen under one lock".
MaySpend(k) == link.id = tab[k].id /\ MayPrompt(link, tab[k].guest)

Prompts(k) ==
    /\ tab[k] # NoLink
    /\ tab' = [tab EXCEPT ![k] = NoLink]
    /\ IF MaySpend(k)
       THEN link' = [link EXCEPT !.turns = @ + 1] /\ sent' = sent + 1
       ELSE UNCHANGED <<link, sent>>
    /\ UNCHANGED <<agent, native, job, screen, told, made>>

Guests == \E d \in Device : AskToDrive(d) \/ \E k \in Tab : Looks(k, d) \/ Prompts(k)

-----------------------------------------------------------------------------
(* The check of every minute, the clock, and the session itself *)

\* Mutant: "withheld tools were a share's signature".
RestoresAnything(held, live) == held.tools # "all" /\ ~live

\* Mutant: revoking gives the tools back, and nothing else does.
RestoresNothing(held, live) == FALSE

\* shareShouldRestore
ShouldRestore(held, live) == held.tools # "all" /\ held.owner = "share" /\ ~live

\* restoreOrphanedSessions
CheckLooks ==
    /\ job.check = NoJob /\ agent.live /\ ShouldRestore(Runs, link # NoLink)
    /\ job' = [job EXCEPT !.check = ToRestrict(Plain)]
    /\ UNCHANGED <<link, agent, native, guests, made>>

\* The sweep: of the link, or of a request nobody answered for an hour.
Lapses ==
    /\ link # NoLink
    /\ link' \in {NoLink, [link EXCEPT !.pending = NoPending]}
    /\ UNCHANGED <<agent, native, job, guests, made>>

ShSessionEnds ==
    /\ agent.live
    /\ agent' = [agent EXCEPT !.live = FALSE]
    /\ made' = [made EXCEPT !.ends = TRUE]
    /\ UNCHANGED <<link, native, job, guests>>

ShSessionOpens ==
    /\ ~agent.live /\ made.opens < Opens
    /\ agent' = WithTools(native)
    /\ made' = [made EXCEPT !.opens = @ + 1]
    /\ UNCHANGED <<link, native, job, guests>>

\* kunai ends, and starts again on the file.
ShRestart ==
    /\ agent.live
    /\ agent' = [agent EXCEPT !.live = FALSE]
    /\ job' = [app |-> NoJob, check |-> NoJob]
    /\ tab' = [k \in Tab |-> NoLink]
    /\ made' = [made EXCEPT !.ends = TRUE]
    /\ UNCHANGED <<link, native, screen, told, sent>>

ShInit ==
    /\ link = NoLink /\ native \in {Plain, Reviewed}
    /\ agent = [live |-> TRUE, tools |-> native.tools, owner |-> native.owner]
    /\ job = [app |-> NoJob, check |-> NoJob]
    /\ screen = [d \in Device |-> 0] /\ told = NoPending
    /\ tab = [k \in Tab |-> NoLink] /\ sent = 0
    /\ made = [links |-> 0, codes |-> 0, opens |-> 0, ends |-> FALSE]

ShNext ==
    \/ OwnerActs \/ Guests \/ CheckLooks \/ Lapses \/ ShSessionEnds \/ ShSessionOpens \/ ShRestart
    \/ \E j \in {"app", "check"} : JobGoes(j)

ShSpec == ShInit /\ [][ShNext]_shVars

\* The check comes round every minute and sees its respawn through.
ShFairSpec == ShSpec /\ WF_shVars(CheckLooks) /\ WF_shVars(JobGoes("check"))

-----------------------------------------------------------------------------
(* Properties *)

\* Every variable has its type, and withheld tools have the owner that goes with them.
ShTypeOK ==
    /\ link.tier \in Tiers \cup {NoLink.tier} /\ link.guest \in Device \cup {Nobody}
    /\ Runs \in Held /\ \A j \in DOMAIN job : job[j].with \in Held

\* "Two prompts arriving together cannot both take the last remaining turn."
CapKept == sent <= MaxTurns

\* Whoever is let in is the device whose code the owner was read.
GuestIsRead == [][link'.guest \notin {Nobody, link.guest} => link'.guest = told.device]_shVars

\* The code a guest has read out stays good until it is answered or has lapsed:
\* nobody else's request takes its place.
WaitingIsKept ==
    [][link.pending # NoPending => link'.pending \in {link.pending, NoPending}]_shVars

\* "It respawned a review a minute after it began and killed the turn that was
\* running": a session that was never shared goes on until it ends or is closed.
UnsharedRunsOn ==
    [][agent.live /\ ~agent'.live /\ made.links = 0 => made'.ends \/ job'.app.at = "hangup"]_shVars

\* "A link that simply runs out of time": its session has its tools back in the end.
ToolsComeBack ==
    (agent.live /\ agent.owner = "share" /\ link = NoLink)
        ~> (~agent.live \/ agent.owner # "share" \/ link # NoLink)

\* Tools are withheld while a link is out and given back when it is not, and a
\* session that was never shared is left to run.
ToolsFollowLink == UnsharedRunsOn /\ ToolsComeBack

\* Guests in turn: the one who asked first waits, the one whose code was read is
\* let in, and all of them together have the turns of the link.
GuestsInTurn == GuestIsRead /\ WaitingIsKept /\ [][CapKept']_shVars
=============================================================================
