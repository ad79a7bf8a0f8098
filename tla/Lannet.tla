-------------------------------- MODULE Lannet --------------------------------
(***************************************************************************)
(* The listeners on this machine's network addresses (server/lanserver.go, *)
(* lanauthadmin.go): setting a PIN starts them and clearing it stops them, *)
(* by a Sync that each request runs after it changed the PIN, and that     *)
(* looks and acts without a lock over both.                                *)
(*                                                                         *)
(* Left out: the certificate, the firewall advice, the guards in front of  *)
(* the routes.                                                             *)
(***************************************************************************)
EXTENDS Naturals, FiniteSets

CONSTANTS
    Admin,    \* requests that set or clear the PIN
    NetAddr,  \* the network addresses of the machine
    NoStart   \* the cancel function when there is none

ASSUME LannetAssumption == NoStart \notin Admin /\ IsFiniteSet(NetAddr) /\ NetAddr # {}

VARIABLES
    armed,     \* a PIN is set
    syncing,   \* of each request: how far its Sync is, and the addresses it bound
    net,       \* lanServer: [running, cancel, addrs]
    listening,     \* of each address: whose listener holds it
    ending,    \* starts whose context is cancelled and that still listen
    overlap    \* two Syncs ran at a time, or one met a listener still ending

lnVars == <<armed, syncing, net, listening, ending, overlap>>

Off == [running |-> FALSE, cancel |-> NoStart, addrs |-> {}]
Idling == [pc |-> "idle", left |-> {}, live |-> {}]
Busy == {a \in Admin : syncing[a].pc # "idle"}

Progresses(a, pc) == syncing' = [syncing EXCEPT ![a].pc = pc]

-----------------------------------------------------------------------------

\* SetPIN and ClearPIN, and the Sync that follows.
Change(a, to) ==
    /\ syncing[a].pc = "idle" /\ ending \cup {net.cancel} \cup {listening[x] : x \in NetAddr} \subseteq (Admin \ {a}) \cup {NoStart}
    /\ armed' = to
    /\ Progresses(a, "want")
    /\ overlap' = (overlap \/ Busy # {} \/ (to /\ ending # {}))
    /\ UNCHANGED <<net, listening, ending>>

\* Sync: what is wanted, then whether it is so already.
Wants(a) ==
    /\ syncing[a].pc = "want"
    /\ Progresses(a, IF armed THEN "start" ELSE "stop")
    /\ UNCHANGED <<armed, net, listening, ending, overlap>>

SyncStarts(a) ==
    /\ syncing[a].pc = "start"
    /\ IF ~net.running
       THEN syncing' = [syncing EXCEPT ![a] = [pc |-> "listen", left |-> NetAddr, live |-> {}]]
       ELSE Progresses(a, "idle")
    /\ UNCHANGED <<armed, net, listening, ending, overlap>>

\* start: each address in turn, past those that cannot be served.
Binds(a) ==
    \E x \in syncing[a].left :
        /\ syncing[a].pc = "listen"
        /\ IF listening[x] = NoStart
           THEN /\ listening' = [listening EXCEPT ![x] = a]
                /\ syncing' = [syncing EXCEPT ![a] = [pc |-> "listen", left |-> @.left \ {x}, live |-> @.live \cup {x}]]
           ELSE /\ syncing' = [syncing EXCEPT ![a].left = @ \ {x}]
                /\ UNCHANGED listening
        /\ UNCHANGED <<armed, net, ending, overlap>>

\* Mutant: it says it runs though nothing was bound.
PublishedAnyway(a) == [running |-> TRUE, cancel |-> a, addrs |-> syncing[a].live]

Published(a) == IF syncing[a].live = {} THEN net ELSE [running |-> TRUE, cancel |-> a, addrs |-> syncing[a].live]

Publishes(a) ==
    /\ syncing[a].pc = "listen" /\ syncing[a].left = {}
    /\ net' = Published(a)
    /\ syncing' = [syncing EXCEPT ![a] = Idling]
    /\ UNCHANGED <<armed, listening, ending, overlap>>

\* No certificate, or no address: nothing is served.
StartFails(a) ==
    /\ syncing[a].pc = "listen" /\ syncing[a].live = {} /\ syncing[a].left = NetAddr
    /\ syncing' = [syncing EXCEPT ![a] = Idling]
    /\ overlap' = TRUE
    /\ UNCHANGED <<armed, net, listening, ending>>

\* Mutant: the listeners are left to run.
StopsNothing == ending

StopServing == ending \cup ({net.cancel} \ {NoStart})

\* Sync's other half: stop, if it runs.
SyncStops(a) ==
    /\ syncing[a].pc = "stop"
    /\ Progresses(a, "idle")
    /\ IF net.running THEN net' = Off /\ ending' = StopServing ELSE UNCHANGED <<net, ending>>
    /\ UNCHANGED <<armed, listening, overlap>>

\* Shutdown, in a goroutine of each listener.
ListenerEnds(x) ==
    /\ listening[x] \in ending
    /\ listening' = [listening EXCEPT ![x] = NoStart]
    /\ ending' = {a \in ending : \E y \in NetAddr : listening'[y] = a}
    /\ UNCHANGED <<armed, syncing, net, overlap>>

-----------------------------------------------------------------------------

LnInit ==
    /\ armed = FALSE /\ net = Off /\ ending = {} /\ overlap = FALSE
    /\ syncing = [a \in Admin |-> Idling]
    /\ listening = [x \in NetAddr |-> NoStart]

LnNext ==
    \/ \E a \in Admin :
        \/ \E to \in BOOLEAN : Change(a, to)
        \/ Wants(a) \/ SyncStarts(a) \/ Binds(a) \/ Publishes(a) \/ StartFails(a) \/ SyncStops(a)
    \/ \E x \in NetAddr : ListenerEnds(x)

LnSpec == LnInit /\ [][LnNext]_lnVars

-----------------------------------------------------------------------------
(* Properties *)

LnTypeOK ==
    /\ {armed, overlap, net.running} \subseteq BOOLEAN
    /\ net.cancel \in Admin \cup {NoStart} /\ net.addrs \subseteq NetAddr
    /\ syncing \in [Admin -> [pc : {"idle", "want", "start", "listen", "stop"}, left : SUBSET NetAddr, live : SUBSET NetAddr]]
    /\ listening \in [NetAddr -> Admin \cup {NoStart}] /\ ending \subseteq Admin

\* "Reported from the listeners themselves, so the panel can never claim the
\* network is served when nothing is bound": however many requests start and
\* stop it at once, each address it shows is listened on.
ShownIsBound == net.running => (net.addrs # {} /\ \A x \in net.addrs : listening[x] = net.cancel)

\* "Bring the listeners into line with whether a PIN exists": once requests that
\* did not overlap are answered, the network is served if a PIN is set and is
\* being taken down if none is.
InLine ==
    (Busy = {} /\ ~overlap) => /\ net.running = armed
                               /\ \A x \in NetAddr : listening[x] # NoStart => listening[x] \in ending \cup {net.cancel}

\* What the panel shows, and whether the network is served at all.
NetworkInLine == ShownIsBound /\ InLine
=============================================================================
