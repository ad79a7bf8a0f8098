------------------------------- MODULE Funnel -------------------------------
(***************************************************************************)
(* The public side of sharing (internal/server/funnel.go, funnelours.go,   *)
(* the listener of sharegate.go, the two port checks of sharetier.go and   *)
(* the calls of shareapi.go that start the listener).  While something is  *)
(* shared a gate listens on a local port; the owner points a public port   *)
(* at it; a check every minute closes the public port once nothing is      *)
(* shared, and points it again at a gate that has moved.                   *)
(*                                                                         *)
(* Outside src: tailscaled, which keeps the mapping of the public ports    *)
(* over every restart of kunai, and which the owner can use by hand, for   *)
(* an app of their own.                                                    *)
(* Left out: the ports other programs listen on directly, and kunai's own. *)
(***************************************************************************)
EXTENDS Naturals, FiniteSets, FiniteSetsExt

CONSTANTS
    Public,      \* the ports Funnel serves on
    Apps,        \* those the owner may point at their own app
    Local,       \* the ports a gate may get
    MaxDown,     \* bound: times kunai ends
    Calm,        \* TRUE: no request runs beside the check of the minute
    Tidy,        \* TRUE: the owner opens one port at a time, and puts their app on another
    OpenEnds     \* TRUE: a public port may be left with no gate behind it when nothing is shared

\* A port has sixteen bits.
MaxPort == 65535

ASSUME FunnelAssumption ==
    /\ Public \subseteq 1..MaxPort /\ Local \subseteq 1..MaxPort /\ Local # {} /\ Apps \subseteq Public
    /\ MaxDown \in Nat /\ {Calm, Tidy, OpenEnds} \subseteq BOOLEAN

VARIABLES
    shared,      \* the store has a live link
    gate,        \* the gate's port, 0 while it is not up
    ours,        \* funnel-ours.json
    cache,       \* funnelPort while funnelAt is fresh, Unknown otherwise
    target,      \* tailscaled: where each public port leads
    app,         \* the owner's app is up
    ownerAsk,    \* the owner's request: [at, port]
    check,       \* the goroutine of reconcileShares: [at, port, to]
    downs        \* times kunai has ended

fuVars == <<shared, gate, ours, cache, target, app, ownerAsk, check, downs>>
world == <<shared, app>>

Nowhere == 0
Mine == Max(Local) + 1        \* where the owner's app listens
Unknown == Max(Public) + 1
NoRequest == [at |-> "none", port |-> 0]
IdleCheck == [at |-> "tick", port |-> 0, to |-> 0]
Down == "down"
Up == check.at # Down

-----------------------------------------------------------------------------
(* funnelStatus, of a gate at g *)

\* staleLoopback: nothing listens there.
Dead(t) == t # Nowhere /\ (IF t = Mine THEN ~app ELSE gate = 0 \/ t # gate)

Serving(g) == {p \in Public : g # 0 /\ target[p] = g}
Stale(g) == {p \in Public \ Serving(g) : Dead(target[p])}
FreePort(g) == {p \in Public : target[p] = Nowhere} \cup Stale(g)
Strays(g) == {p \in Public : target[p] \in Local \ {g}}
PortOf(ports) == IF ports = {} THEN 0 ELSE Max(ports)

-----------------------------------------------------------------------------
(* The gate *)

\* start: the port in gate-port, or any other if that cannot be had right now.
Starts == IF gate # 0 THEN UNCHANGED gate ELSE gate' \in Local

-----------------------------------------------------------------------------
(* The owner's requests *)

FuQuiet == Up /\ (Calm => check = IdleCheck)
FuAsks == FuQuiet /\ ownerAsk = NoRequest

\* handleCreateShare, which starts the gate once the link is in the store
FuCreate ==
    /\ FuAsks /\ ~shared
    /\ shared' = TRUE
    /\ ownerAsk' = [at |-> "create", port |-> 0]
    /\ UNCHANGED <<gate, ours, cache, target, app, check, downs>>

FuCreateStarts ==
    /\ ownerAsk.at = "create"
    /\ Starts
    /\ ownerAsk' = NoRequest
    /\ UNCHANGED <<world, ours, cache, target, check, downs>>

\* handleFunnelOn
On(p) ==
    /\ FuAsks /\ (Tidy => ours \subseteq {p})
    /\ Starts
    /\ ownerAsk' = [at |-> "on", port |-> p]
    /\ UNCHANGED <<world, ours, cache, target, check, downs>>

OnLooks ==
    /\ ownerAsk.at = "on"
    /\ ownerAsk' = IF ownerAsk.port \in FreePort(gate) \ Serving(gate) THEN [ownerAsk EXCEPT !.at = "run"] ELSE NoRequest
    /\ UNCHANGED <<world, gate, ours, cache, target, check, downs>>

OnRuns ==
    /\ ownerAsk.at = "run"
    /\ target' = [target EXCEPT ![ownerAsk.port] = gate]
    /\ ours' = ours \cup {ownerAsk.port}
    /\ cache' = Unknown
    /\ ownerAsk' = NoRequest
    /\ UNCHANGED <<world, gate, check, downs>>

\* handleFunnelOff
Off(p) ==
    /\ FuAsks
    /\ target' = [target EXCEPT ![p] = Nowhere]
    /\ ours' = ours \ {p}
    /\ cache' = Unknown
    /\ UNCHANGED <<world, gate, ownerAsk, check, downs>>

\* shareView: funnelPortFor fills the cache.
View ==
    /\ FuAsks /\ gate # 0 /\ cache = Unknown
    /\ cache' = PortOf(Serving(gate))
    /\ UNCHANGED <<world, gate, ours, target, ownerAsk, check, downs>>

Owner == FuCreate \/ FuCreateStarts \/ OnLooks \/ OnRuns \/ View \/ \E p \in Public : On(p) \/ Off(p)

-----------------------------------------------------------------------------
(* closePublicPortIfIdle *)

Checks == Calm => ownerAsk = NoRequest

\* Mutant: the local port where the public one is meant.
LocalPort == gate

\* funnelPortFor
PublicPort == IF gate = 0 THEN 0 ELSE IF cache # Unknown THEN cache ELSE PortOf(Serving(gate))

CloseLooks ==
    /\ check = IdleCheck /\ Checks
    /\ check' = IF shared THEN [IdleCheck EXCEPT !.at = "reopen"]
                ELSE IF PublicPort = 0 THEN [IdleCheck EXCEPT !.at = "stop"]
                ELSE [IdleCheck EXCEPT !.at = "close", !.port = PublicPort]
    /\ cache' = IF shared \/ gate = 0 THEN cache ELSE PublicPort
    /\ UNCHANGED <<world, gate, ours, target, ownerAsk, downs>>

\* Mutant: a port that could not be closed is left as it is.
StopsAnyway == "stop"

\* "retried on the next tick: the gate stays up"
KeepsGate == "reopen"

CloseFails ==
    /\ check.at = "close"
    /\ check' = [IdleCheck EXCEPT !.at = KeepsGate]
    /\ UNCHANGED <<world, gate, ours, cache, target, ownerAsk, downs>>

CloseRuns ==
    /\ check.at = "close"
    /\ target' = [target EXCEPT ![check.port] = Nowhere]
    /\ ours' = ours \ {check.port}
    /\ cache' = Unknown
    /\ check' = [IdleCheck EXCEPT !.at = "stop"]
    /\ UNCHANGED <<world, gate, ownerAsk, downs>>

GateStops ==
    /\ check.at = "stop"
    /\ gate' = 0
    /\ check' = [IdleCheck EXCEPT !.at = "reopen"]
    /\ UNCHANGED <<world, ours, cache, target, ownerAsk, downs>>

-----------------------------------------------------------------------------
(* reopenPublicPortIfStale *)

\* Mutant: the guess that the record has replaced.
AnyStale(p) == TRUE

\* "left behind by US"
Has(p) == p \in ours

\* Mutant: the highest one is looked at.
ReaimsHighest == LET stale == Stale(gate) IN IF stale = {} THEN {} ELSE {p \in {Max(stale)} : Has(p)}

\* The one stale port that is looked at is the lowest.
Reaimed == LET stale == Stale(gate) IN IF stale = {} THEN {} ELSE {p \in {Min(stale)} : Has(p)}

ReopenLooks ==
    /\ check.at = "reopen"
    /\ check' = IF shared /\ gate # 0 /\ Serving(gate) = {} /\ Reaimed # {}
                THEN [at |-> "aim", port |-> Min(Reaimed), to |-> gate] ELSE IdleCheck
    /\ UNCHANGED <<world, gate, ours, cache, target, ownerAsk, downs>>

ReopenRuns ==
    /\ check.at = "aim"
    /\ target' = [target EXCEPT ![check.port] = check.to]
    /\ cache' = Unknown
    /\ check' = IdleCheck
    /\ UNCHANGED <<world, gate, ours, ownerAsk, downs>>

ReopenFails ==
    /\ check.at = "aim" /\ check' = IdleCheck
    /\ UNCHANGED <<world, gate, ours, cache, target, ownerAsk, downs>>

Reconcile == CloseLooks \/ CloseFails \/ CloseRuns \/ GateStops \/ ReopenLooks \/ ReopenRuns \/ ReopenFails

-----------------------------------------------------------------------------
(* The world around *)

\* The last link runs out, or is revoked.
Lapse ==
    /\ shared /\ (OpenEnds \/ Strays(gate) = {})
    /\ Calm => ~Up \/ (check = IdleCheck /\ ownerAsk = NoRequest)
    /\ shared' = FALSE
    /\ UNCHANGED <<gate, ours, cache, target, app, ownerAsk, check, downs>>

CacheAges ==
    /\ cache # Unknown /\ cache' = Unknown
    /\ UNCHANGED <<world, gate, ours, target, ownerAsk, check, downs>>

\* The owner funnels an app of their own, by hand.
OwnFunnel(p) ==
    /\ target[p] # Mine /\ app /\ (Tidy => p \notin ours)
    /\ Calm => check = IdleCheck /\ ownerAsk = NoRequest
    /\ target' = [target EXCEPT ![p] = Mine]
    /\ UNCHANGED <<world, gate, ours, cache, ownerAsk, check, downs>>

AppTurns ==
    /\ app' = ~app
    /\ UNCHANGED <<shared, gate, ours, cache, target, ownerAsk, check, downs>>

Ends ==
    /\ Up /\ downs < MaxDown
    /\ OpenEnds \/ shared \/ Strays(0) = {}
    /\ downs' = downs + 1
    /\ gate' = 0 /\ cache' = Unknown /\ ownerAsk' = NoRequest
    /\ check' = [IdleCheck EXCEPT !.at = Down]
    /\ UNCHANGED <<world, ours, target>>

\* Mutant: links survive a restart, the gate does not.
StaysDown == UNCHANGED gate

\* "Bring the share listener back up when links survived the restart."
Reopens == IF shared THEN Starts ELSE UNCHANGED gate

\* Run
FuBoot ==
    /\ ~Up
    /\ Reopens
    /\ check' = IdleCheck
    /\ UNCHANGED <<world, ours, cache, target, ownerAsk, downs>>

World == Lapse \/ CacheAges \/ AppTurns \/ Ends \/ \E p \in Apps : OwnFunnel(p)

FuInit ==
    /\ shared = FALSE /\ gate = 0
    /\ ours = {} /\ cache = Unknown /\ target = [p \in Public |-> Nowhere] /\ app = TRUE
    /\ ownerAsk = NoRequest /\ check = IdleCheck /\ downs = 0

FuNext == Owner \/ Reconcile \/ World \/ FuBoot
FuSpec == FuInit /\ [][FuNext]_fuVars

\* The check comes round between requests, a request goes on, kunai is started again, and a command
\* that is repeated works in the end.
FuFairness ==
    /\ SF_fuVars(Reconcile) /\ WF_fuVars(FuBoot) /\ WF_fuVars(FuCreateStarts \/ OnLooks \/ OnRuns)
    /\ SF_fuVars(CloseRuns) /\ SF_fuVars(ReopenRuns) /\ WF_fuVars(CacheAges)
FuFairSpec == FuSpec /\ FuFairness

-----------------------------------------------------------------------------
(* Properties *)

\* Every variable has its type.
FuTypeOK ==
    /\ {shared, app} \subseteq BOOLEAN /\ gate \in Local \cup {0}
    /\ ours \subseteq Public /\ cache \in Public \cup {0, Unknown}
    /\ DOMAIN target = Public /\ ownerAsk.port \in Public \cup {0} /\ check.port \in Public \cup {0}

\* "A mapping pointing anywhere else, including one the owner made for their own
\* app, is left exactly as it is."
OthersUntouched ==
    [][Reconcile => \A p \in Public : target[p] = Mine => target'[p] = Mine]_fuVars

\* A link that was handed out has a gate behind it.
LinkAnswers == (shared /\ ownerAsk.at # "create" /\ check = IdleCheck) => gate # 0

\* A public port kunai opened leads to a gate that has moved.
Stranded ==
    /\ shared /\ gate # 0 /\ Serving(gate) = {}
    /\ \E p \in ours : target[p] \in Local

\* "Re-aims a Funnel mapping at the share gate after the gate has moved."
ReaimsStale == []<>(~Stranded)

\* "Takes the machine off the public internet once the last share is gone."
ClosedOnceIdle ==
    <>[](~shared /\ ownerAsk = NoRequest) => <>[](Strays(0) = {})

\* The public port follows the gate: to where it has moved, and shut when it is
\* gone, without a step upon what is somebody else's.
PortFollowsGate == OthersUntouched /\ ReaimsStale /\ ClosedOnceIdle /\ [][LinkAnswers']_fuVars
=============================================================================
