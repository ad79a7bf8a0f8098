------------------------------ MODULE Failover ------------------------------
(***************************************************************************)
(* Account failover (internal/server/failover.go) over the processes of    *)
(* one session id: a turn that ends against the usage wall starts a hook,  *)
(* which chooses another account, a slow reading of every quota, and moves *)
(* the session there by a respawn of module Registry, while people send    *)
(* messages, switch accounts, change the effort and close the session.     *)
(*                                                                         *)
(* Left out: the reset time that breaks ties between two readings, loops   *)
(* (their turns are not eligible), and the writing of failover.json.       *)
(***************************************************************************)
EXTENDS Registry

CONSTANTS
    Message,     \* what people send to the session
    NoMessage,
    Hook,        \* turn-end hooks that may run, each in a goroutine: some of Flow
    Provider,    \* the accounts that are no Claude accounts
    Unread,      \* accounts whose quota cannot be read
    Rooms        \* the quotas there may be left, in percent

ASSUME FailoverAssumption ==
    /\ Hook \subseteq Flow /\ Provider \subseteq Account /\ Unread \subseteq Account
    /\ Rooms \subseteq 0..100 /\ NoMessage \notin Message

VARIABLES
    enabled,     \* fc.enabled
    tried,       \* fc.tried[id]
    hook,        \* of each hook: where it is, the process it was called for, what it read
    turn,        \* of each process: the message it works on
    waitline,    \* s.queue of each process
    newest,      \* s.lastPromptText
    walled,      \* s.rateLimited
    announced,   \* s.failingOver
    room,        \* what is left of each account's windows
    refused      \* accounts that met the wall since the last clean turn

turns == <<turn, waitline, newest, walled>>
choice == <<enabled, tried, hook, announced>>
quota == <<room, refused>>
foVars == <<regVars, turns, choice, quota>>

Free == [st |-> "free", on |-> 0, wall |-> FALSE, to |-> Keep, live |-> 0, msg |-> NoMessage]

-----------------------------------------------------------------------------
(* Choosing *)

FailoverFloor == 2
UnknownHeadroom == 50
SameBrainFloor == 20

\* availabilityFromUsage: a quota that cannot be read counts as neutral.
Remaining(a) == IF a \in Unread THEN UnknownHeadroom ELSE room[a]

SameBrain(a) == a \notin Provider /\ Remaining(a) >= SameBrainFloor

\* Mutant: ranked by headroom alone.
ByHeadroom(a, b) == Remaining(a) > Remaining(b)

\* betterCandidate.
BetterCandidate(a, b) ==
    IF SameBrain(a) # SameBrain(b) THEN SameBrain(a)
    ELSE IF Remaining(a) # Remaining(b) THEN Remaining(a) > Remaining(b)
    ELSE a \notin Provider /\ b \in Provider

\* pickFailover: the best of what has headroom, and Keep for nothing.
PickFailover(current, seen) ==
    LET usable == {a \in Account \ (seen \cup {current}) : Remaining(a) >= FailoverFloor}
    IN  IF usable = {} THEN Keep
        ELSE CHOOSE a \in usable : \A b \in usable : ~BetterCandidate(b, a)

-----------------------------------------------------------------------------
(* The hook *)

\* A turn ended: the hook runs on a goroutine of its own, with the latch as it was.
Call(i, wall) ==
    \E h \in Hook :
        /\ hook[h].st = "free"
        /\ hook' = [hook EXCEPT ![h] = [Free EXCEPT !.st = "called", !.on = i, !.wall = wall]]

At(h, label) == hook' = [hook EXCEPT ![h].st = label]

\* BeginFailover, EndFailover: what attached clients are told.
Announce(i) == announced' = [announced EXCEPT ![i] = TRUE]
Retract(S) == announced' = [i \in DOMAIN announced |-> announced[i] /\ i \notin S]

\* Mutant: the account that met the wall is not folded into the tried set.
SeenOnly(i) == tried

\* triedSnapshot.
Seen(i) == tried \cup {account[i]}

\* onTurnEnd up to the slow part: a clean turn ends the chain, a wall announces
\* that a decision is under way.
HookBegins(h) ==
    LET i == hook[h].on
    IN  /\ hook[h].st = "called"
        /\ \/ /\ ~hook[h].wall
              /\ tried' = {}
              /\ At(h, "over") /\ UNCHANGED announced
           \/ /\ hook[h].wall /\ ~enabled
              /\ At(h, "over") /\ UNCHANGED <<tried, announced>>
           \/ /\ hook[h].wall /\ enabled
              /\ Announce(i)
              /\ tried' = Seen(i)
              /\ At(h, "decide")
        /\ UNCHANGED <<enabled, regVars, turns, quota>>

\* decide, once every quota has been read.
HookDecides(h) ==
    LET i == hook[h].on
        a == PickFailover(account[i], tried)
    IN  /\ hook[h].st = "decide"
        /\ IF a = Keep
           THEN /\ Retract({i})
                /\ At(h, "over")
           ELSE /\ hook' = [hook EXCEPT ![h].st = "check", ![h].to = a]
                /\ UNCHANGED announced
        /\ UNCHANGED <<enabled, tried, regVars, turns, quota>>

\* movedByHand, or nothing there to move.
MovedAway(h) == IF listed = 0 THEN TRUE ELSE account[listed] # account[hook[h].on]

\* Mutant: a session that went away while the quotas were read is waited for.
HookStandsDownMoved(h) ==
    /\ hook[h].st = "check"
    /\ listed # 0 /\ MovedAway(h)
    /\ Retract({hook[h].on, listed})
    /\ At(h, "over")
    /\ UNCHANGED <<enabled, tried, regVars, turns, quota>>

\* The session went away, or was moved by hand, while the quotas were read.
HookStandsDown(h) ==
    /\ hook[h].st = "check"
    /\ MovedAway(h)
    /\ Retract({hook[h].on, listed})
    /\ At(h, "over")
    /\ UNCHANGED <<enabled, tried, regVars, turns, quota>>

\* It is still there, on the account that met the wall.  switchSessionToAccount
\* copies the transcript, which may fail, and goes through the registry, which
\* looks the id up once more.
HookSwitches(h) ==
    /\ hook[h].st = "check"
    /\ ~MovedAway(h)
    /\ hook' = [hook EXCEPT ![h].st = "switch", ![h].live = listed, ![h].msg = newest[listed]]
    /\ \E label \in {"read", "failed"} :
         op' = [op EXCEPT ![h] = [Idle EXCEPT !.pc = label, !.acct = hook[h].to]]
    /\ UNCHANGED <<enabled, tried, announced, listed, processes, turns, quota>>

\* Mutant: a switch that failed is only logged.
HookFailsSilently(h) ==
    /\ hook[h].st = "switch" /\ op[h].pc = "failed"
    /\ At(h, "over")
    /\ UNCHANGED <<announced, enabled, tried, regVars, turns, quota>>

\* The switch failed: said on the session it was meant for.
HookFails(h) ==
    /\ hook[h].st = "switch" /\ op[h].pc = "failed"
    /\ Retract({hook[h].live})
    /\ At(h, "over")
    /\ UNCHANGED <<enabled, tried, regVars, turns, quota>>

\* The switch worked: the target is not to be picked again, and the last
\* message is to be sent again.
HookMoved(h) ==
    /\ hook[h].st = "switch" /\ op[h].pc = "ok"
    /\ tried' = tried \cup {hook[h].to}
    /\ At(h, IF hook[h].msg = NoMessage THEN "over" ELSE "resend")
    /\ UNCHANGED <<enabled, announced, regVars, turns, quota>>

-----------------------------------------------------------------------------
(* Turns *)

\* prompt: behind the turn that runs, or as the turn.
Take(i, m) ==
    IF turn[i] # NoMessage
    THEN waitline' = [waitline EXCEPT ![i] = Append(@, m)] /\ UNCHANGED <<turn, newest>>
    ELSE /\ turn' = [turn EXCEPT ![i] = m] /\ newest' = [newest EXCEPT ![i] = m]
         /\ UNCHANGED waitline

\* A person sends a message, once.
Send(m) ==
    /\ listed # 0 /\ life[listed] = "up"
    /\ \A i \in 1..born : turn[i] # m /\ newest[i] # m /\ \A k \in DOMAIN waitline[i] : waitline[i][k] # m
    /\ Take(listed, m)
    /\ UNCHANGED <<regVars, walled, choice, quota>>

\* The message sent again, on the process the switch created: the CLI takes it
\* or, being gone already, does not.
Resend(h) ==
    LET i == op[h].made
    IN  /\ hook[h].st = "resend"
        /\ IF life[i] = "up" THEN Take(i, hook[h].msg) ELSE UNCHANGED <<turn, waitline, newest>>
        /\ At(h, "over")
        /\ UNCHANGED <<regVars, walled, enabled, tried, announced, quota>>

\* recordWall and clearWall, the latch the hook is called with.
Latch(i, wall) == walled' = [walled EXCEPT ![i] = wall]

\* drainQueue.
Drain(i) ==
    IF waitline[i] = <<>>
    THEN turn' = [turn EXCEPT ![i] = NoMessage] /\ UNCHANGED <<waitline, newest>>
    ELSE /\ turn' = [turn EXCEPT ![i] = Head(waitline[i])]
         /\ newest' = [newest EXCEPT ![i] = Head(waitline[i])]
         /\ waitline' = [waitline EXCEPT ![i] = Tail(@)]

\* A result frame: the latch is set or cleared, the queue moves on, the hook is
\* called.
TurnEnds(i, wall) ==
    /\ life[i] = "up" /\ turn[i] # NoMessage
    /\ wall => room[account[i]] = 0
    /\ Latch(i, wall)
    /\ refused' = IF wall THEN refused \cup {account[i]} ELSE {}
    /\ Drain(i)
    /\ Call(i, wall)
    /\ UNCHANGED <<regVars, enabled, tried, announced, room>>

\* The work of a turn uses an account up.
Spend(a) ==
    /\ room[a] # 0 /\ \E i \in 1..born : account[i] = a /\ turn[i] # NoMessage
    /\ room' = [room EXCEPT ![a] = 0]
    /\ UNCHANGED <<regVars, turns, choice, refused>>

\* A pump that ends in the middle of a turn calls the hook as well.
EndPump(i) ==
    /\ PumpExits(i)
    /\ IF turn[i] = NoMessage THEN UNCHANGED hook ELSE Call(i, walled[i])
    /\ UNCHANGED <<turns, enabled, tried, announced, quota>>

SetEnabled ==
    /\ enabled' = ~enabled
    /\ UNCHANGED <<regVars, turns, tried, hook, announced, quota>>

\* CreateInserts, and the session a new process starts with.
Insert(f) ==
    /\ CreateInserts(f)
    /\ turn' = Append(turn, NoMessage) /\ waitline' = Append(waitline, <<>>)
    /\ newest' = Append(newest, NoMessage) /\ walled' = Append(walled, FALSE)
    /\ announced' = Append(announced, FALSE)
    /\ UNCHANGED <<enabled, tried, hook, quota>>

-----------------------------------------------------------------------------
FoInit ==
    /\ RegInit
    /\ enabled \in BOOLEAN /\ tried = {}
    /\ hook = [h \in Hook |-> Free]
    /\ turn = <<NoMessage>> /\ waitline = << <<>> >> /\ newest = <<NoMessage>>
    /\ walled = <<FALSE>> /\ announced = <<FALSE>>
    /\ room \in [Account -> Rooms] /\ refused = {}

HookGoes(h) ==
    \/ HookBegins(h) \/ HookDecides(h) \/ HookStandsDown(h) \/ HookSwitches(h)
    \/ HookFails(h) \/ HookMoved(h) \/ Resend(h)

FlowGoes(f) ==
    \/ Insert(f)
    \/ /\ RestartReads(f) \/ RestartCloses(f) \/ RestartRemoves(f) \/ CreateChecks(f) \/ CloseCloses(f)
       /\ UNCHANGED <<turns, choice, quota>>

\* People open and close the session, switch its account or change its effort.
PersonAsks(f) ==
    /\ CloseFinds(f) \/ \E a \in Account : Open(f, a) \/ Respawn(f, a, Keep) \/ Respawn(f, Keep, Keep)
    /\ UNCHANGED <<turns, choice, quota>>

FoNext ==
    \/ \E i \in 1..born :
         \/ /\ ProcessExits(i) \/ Reap(i)
            /\ UNCHANGED <<turns, choice, quota>>
         \/ EndPump(i)
         \/ \E wall \in BOOLEAN : TurnEnds(i, wall)
    \/ \E f \in Flow : FlowGoes(f)
    \/ \E f \in Flow \ Hook : PersonAsks(f)
    \/ \E h \in Hook : HookGoes(h)
    \/ \E m \in Message : Send(m)
    \/ \E a \in Account : Spend(a)
    \/ SetEnabled

FoSpec == FoInit /\ [][FoNext]_foVars
\* Goroutines run.  Nothing is assumed of the CLI, of its turns, or of people.
FoFairness ==
    /\ \A f \in Flow : WF_foVars(FlowGoes(f))
    /\ \A h \in Hook : WF_foVars(HookGoes(h))
FoFairSpec == FoSpec /\ FoFairness

-----------------------------------------------------------------------------
(* Properties *)

\* A hook of this state moves the session in this step.
MovesBy(h) == hook[h].st = "switch" /\ op[h].pc = "insert" /\ op'[h].pc = "ok"

\* A session never says that a failover is under way when none is: whichever
\* way the decision, a switch by hand or a close cut it short, it was retracted.
AnnouncedIsUnderway ==
    \A i \in 1..born : (announced[i] /\ life[i] = "up") =>
        \E h \in Hook : hook[h].st \in {"decide", "check", "switch"} /\ i \in {hook[h].on, hook[h].live}

\* "The tried set stops us returning to it": no failover moves the session to
\* an account that has met the wall since the last turn that ran.  Of one chain
\* of walls, that is: of a wall whose hook has yet to begin, or found failover
\* off, the tried set knows nothing.
NeverBackToTheWall == [][\A h \in Hook : MovesBy(h) => hook[h].to \notin refused]_foVars

\* A failover changes the bill, not the model: while the wall it left stands, it
\* moves to a provider only if no Claude account that has not met the wall has
\* runway.
SameAgent ==
    [][\A h \in Hook : (MovesBy(h) /\ hook[h].to \in Provider /\ account[hook[h].on] \in refused) =>
          \A a \in Account \ (Provider \cup refused) : SameBrain(a) => a \in tried]_foVars

\* "Their pick outranks ours": what a failover replaces still runs on the
\* account that met the wall.
HandPickStands ==
    [][\A h \in Hook : MovesBy(h) => account[op[h].old] = account[hook[h].on]]_foVars

\* A hook always comes to its end, whatever becomes of the session meanwhile.
HookEnds == \A h \in Hook : hook[h].st = "called" ~> (hook[h].st = "over" \/ born = MaxInst)

\* Whoever asked for a respawn hears of it and every hook ends; a failover that was
\* announced is under way until it does, and goes on, to a Claude account while
\* there is one.
AllMoveOn ==
    /\ RestartAnswers /\ HookEnds
    /\ [][AnnouncedIsUnderway']_foVars
    /\ NeverBackToTheWall /\ SameAgent
=============================================================================
