------------------------------ MODULE NativeLogin ------------------------------
(***************************************************************************)
(* The login of a Codex account inside kunai (cliproxy/codex/login.go and  *)
(* the login manager of server/nativecodex.go): flows of which only the    *)
(* newest should be left, each with the callback port if it could bind it, *)
(* a code that arrives by the callback or is pasted, and one exchange of   *)
(* it that whoever comes second waits for.                                 *)
(*                                                                         *)
(* Left out: PKCE and state, the shapes a pasted code may have.            *)
(***************************************************************************)
EXTENDS Naturals, FiniteSets

CONSTANTS
    Attempt,   \* logins started
    Paste,     \* codes pasted into them
    NoAttempt     \* the callback port's holder when it is free

ASSUME NativeLoginAssumption == NoAttempt \notin Attempt

VARIABLES
    starts,    \* of each attempt: how far start is, and the flows it is to cancel
    attempts,     \* lm.flows
    flow,      \* of each: [done, err, once, saved]
    callback,  \* the flow that listens on the callback port
    pastes,    \* of each paste: the flow it is for, and how it went
    shown      \* of each attempt: what status said last

nlVars == <<starts, attempts, flow, callback, pastes, shown>>

NoFlow == [done |-> FALSE, err |-> "none", once |-> "free", saved |-> FALSE]
NoPaste == [on |-> NoAttempt, st |-> "none"]

\* settle: the first result stays.
Settled(f, err) == IF flow[f].done THEN flow[f] ELSE [flow[f] EXCEPT !.done = TRUE, !.err = err]

\* shutdown
Freed(S) == IF callback \in S THEN NoAttempt ELSE callback

-----------------------------------------------------------------------------

\* start: the flows there are, to be cancelled.
StartTakes(a) ==
    /\ starts[a].st = "none"
    /\ starts' = [starts EXCEPT ![a] = [st |-> "cancel", prior |-> attempts]]
    /\ attempts' = {}
    /\ UNCHANGED <<flow, callback, pastes, shown>>

\* Mutant: an abandoned flow keeps the port.
KeepsPort(S) == callback

FreedByCancel(S) == Freed(S)

StartCancels(a) ==
    \E f \in starts[a].prior :
        /\ starts[a].st = "cancel"
        /\ starts' = [starts EXCEPT ![a].prior = @ \ {f}]
        /\ callback' = FreedByCancel({f})
        /\ flow' = [flow EXCEPT ![f] = Settled(f, "cancelled")]
        /\ UNCHANGED <<attempts, pastes, shown>>

\* StartLogin: the port if it is free; without it a code can be pasted.
StartBinds(a) ==
    /\ starts[a].st = "cancel" /\ starts[a].prior = {}
    /\ starts' = [starts EXCEPT ![a].st = "list"]
    /\ callback' = IF callback = NoAttempt THEN a ELSE callback
    /\ UNCHANGED <<attempts, flow, pastes, shown>>

StartLists(a) ==
    /\ starts[a].st = "list"
    /\ starts' = [starts EXCEPT ![a].st = "over"]
    /\ attempts' = attempts \cup {a}
    /\ UNCHANGED <<flow, callback, pastes, shown>>

-----------------------------------------------------------------------------
(* The code *)

Exchanges(f) == flow' = [flow EXCEPT ![f].once = "runs"]

\* handleCallback: the code comes to this machine.
CalledBack(f) ==
    /\ callback = f /\ flow[f].once = "free"
    /\ Exchanges(f)
    /\ UNCHANGED <<starts, attempts, callback, pastes, shown>>

\* finish, with a code: its own exchange, or the one that runs or ran.
PasteArrives(p, f) ==
    /\ pastes[p] = NoPaste /\ f \in attempts
    /\ IF flow[f].once = "free"
       THEN Exchanges(f) /\ pastes' = [pastes EXCEPT ![p] = [on |-> f, st |-> "exchanges"]]
       ELSE pastes' = [pastes EXCEPT ![p] = [on |-> f, st |-> "waits"]] /\ UNCHANGED flow
    /\ UNCHANGED <<starts, attempts, callback, shown>>

\* doExchange saves the file or fails; then the flow is settled.
ExchangeEnds(f) ==
    /\ flow[f].once = "runs"
    /\ \E err \in {"none", "failed"} :
        /\ flow' = [flow EXCEPT ![f] = [done |-> TRUE, err |-> Settled(f, err).err, once |-> "ran", saved |-> err = "none"]]
        /\ pastes' = [p \in Paste |-> IF pastes[p] = [on |-> f, st |-> "exchanges"]
                                      THEN [pastes[p] EXCEPT !.st = IF err = "none" THEN "ok" ELSE "failed"] ELSE pastes[p]]
        /\ attempts' = IF err = "none" /\ \E p \in Paste : pastes[p] = [on |-> f, st |-> "exchanges"] THEN attempts \ {f} ELSE attempts
    /\ callback' = Freed({f})
    /\ UNCHANGED <<starts, shown>>

\* Mutant: whoever comes second does not wait for the exchange.
SeenAtOnce(f) == TRUE

\* once.Do returns to the second caller when the first is through.
ExchangeIsOver(f) == flow[f].once = "ran"

PasteSecond(p) ==
    LET f == pastes[p].on
        ok == flow[f].err = "none"
    IN  /\ pastes[p].st = "waits" /\ ExchangeIsOver(f)
        /\ pastes' = [pastes EXCEPT ![p].st = IF ok THEN "ok" ELSE "failed"]
        /\ attempts' = IF ok THEN attempts \ {f} ELSE attempts
        /\ UNCHANGED <<starts, flow, callback, shown>>

\* status: of a flow that is known, what it says; of any other, done.
StatusAsked(f) ==
    /\ starts[f].st = "over"
    /\ shown' = [shown EXCEPT ![f] = IF f \notin attempts THEN "gone" ELSE IF ~flow[f].done THEN "waiting" ELSE flow[f].err]
    /\ attempts' = IF flow[f].done THEN attempts \ {f} ELSE attempts
    /\ UNCHANGED <<starts, flow, callback, pastes>>

FlowCancelled(f) ==
    /\ f \in attempts
    /\ attempts' = attempts \ {f}
    /\ callback' = FreedByCancel({f})
    /\ flow' = [flow EXCEPT ![f] = Settled(f, "cancelled")]
    /\ UNCHANGED <<starts, pastes, shown>>

-----------------------------------------------------------------------------

NlInit ==
    /\ starts = [a \in Attempt |-> [st |-> "none", prior |-> {}]]
    /\ attempts = {} /\ flow = [a \in Attempt |-> NoFlow] /\ callback = NoAttempt
    /\ pastes = [p \in Paste |-> NoPaste] /\ shown = [a \in Attempt |-> "nothing"]

NlNext ==
    \/ \E a \in Attempt :
        \/ StartTakes(a) \/ StartCancels(a) \/ StartBinds(a) \/ StartLists(a)
        \/ CalledBack(a) \/ ExchangeEnds(a) \/ StatusAsked(a) \/ FlowCancelled(a)
    \/ \E p \in Paste : PasteSecond(p) \/ \E f \in Attempt : PasteArrives(p, f)

NlSpec == NlInit /\ [][NlNext]_nlVars

-----------------------------------------------------------------------------
(* Properties *)

NlTypeOK ==
    /\ starts \in [Attempt -> [st : {"none", "cancel", "list", "over"}, prior : SUBSET Attempt]] /\ attempts \subseteq Attempt
    /\ flow \in [Attempt -> [done : BOOLEAN, err : {"none", "failed", "cancelled"}, once : {"free", "runs", "ran"}, saved : BOOLEAN]]
    /\ callback \in Attempt \cup {NoAttempt} /\ pastes \in [Paste -> [on : Attempt \cup {NoAttempt}, st : {"none", "exchanges", "waits", "ok", "failed"}]]
    /\ shown \in [Attempt -> {"nothing", "gone", "waiting", "none", "failed", "cancelled"}]

\* "Idempotent with the hands-free path: whichever arrives first wins": a paste
\* is told that the account was added only if its flow saved it, and a status
\* with no error, of a flow it knows, means the same.
AddedIsSaved ==
    /\ \A p \in Paste : pastes[p].st = "ok" => flow[pastes[p].on].saved
    /\ \A f \in Attempt : shown[f] = "none" => flow[f].saved

\* "An abandoned flow holds the callback, so reclaim it": whoever holds the port
\* is a flow that can be cancelled still, or an exchange that will give it back.
PortComesBack ==
    callback # NoAttempt => \/ callback \in attempts \/ starts[callback].st = "list" \/ flow[callback].once = "runs"
                         \/ \E a \in Attempt : starts[a].st = "cancel" /\ callback \in starts[a].prior

\* A login says what came of it, and leaves the port to the next.
LoginsAreOneEach == AddedIsSaved /\ PortComesBack
=============================================================================
