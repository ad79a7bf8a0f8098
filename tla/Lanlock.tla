-------------------------------- MODULE Lanlock --------------------------------
(***************************************************************************)
(* The lock on the network listener (internal/lanauth): the PIN, the       *)
(* devices it has signed in and the throttle's memory of wrong attempts,   *)
(* one state behind one mutex, saved whole at every change and read again  *)
(* when kunai starts.                                                      *)
(*                                                                         *)
(* A PIN is the number of its setting, a token the number of its sign-in,  *)
(* and time is counted in ticks that the limits are scaled to.  Left out:  *)
(* the hash of a PIN and of a token, the label of a device.                *)
(***************************************************************************)
EXTENDS Integers, Sequences, FiniteSets

CONSTANTS
    Source,      \* addresses that attempts come from
    MaxSources,  \* entries the table of sources holds
    PerSource, Global,  \* Policy: [free, base, max, decay]
    TTL,         \* ticks a device stays signed in without being used
    Refresh,     \* ticks before a use is written down
    MaxTicks, MaxPins, MaxTokens, MaxGuesses, \* bounds
    Restarts,    \* bound: restarts of kunai
    SavesPin        \* every save reaches the disk

ASSUME LanlockAssumption ==
    /\ {MaxSources, TTL, Refresh, MaxTicks, MaxPins, MaxTokens, MaxGuesses, Restarts} \subseteq Nat
    /\ {PerSource, Global} \subseteq [free : Nat, base : Nat \ {0}, max : Nat \ {0}, decay : Nat]
    /\ IsFiniteSet(Source) /\ SavesPin \in BOOLEAN

VARIABLES
    ticks,     \* s.now()
    lock,      \* Store.st: [pin, devices, sources, global]
    disk,      \* the file it is saved in
    pins,      \* PINs set so far
    spentTokens,      \* of each token handed out: its PIN, when it was last found valid,
               \* and whether it was signed out
    guesses,   \* when a PIN was refused since the last one that was right
    restarted  \* restarts so far

lkVars == <<ticks, lock, disk, pins, spentTokens, guesses, restarted>>

Never == -1
Zero == [fails |-> 0, last |-> Never, until |-> Never]
NoCounter == [fails |-> -1, last |-> Never, until |-> Never]
Unlocked == [pin |-> 0, devices |-> {}, sources |-> [s \in Source |-> NoCounter], global |-> Zero]

\* saveLocked
Save(new) ==
    /\ lock' = new
    /\ disk' \in IF SavesPin THEN {new} ELSE {new, disk}

-----------------------------------------------------------------------------
(* The throttle *)

Smaller(a, b) == IF a < b THEN a ELSE b

\* The first, doubled so many times.
Doubled(first, times) ==
    LET d[n \in Nat] == IF n = 0 THEN first ELSE 2 * d[n - 1]
    IN  d[times]

\* Mutant: the lock is the same after every failure.
FlatLock(p, over) == p.base

\* The first lock, doubled for every failure after it, up to the longest.
LockOf(p, over) == Smaller(Doubled(p.base, over - 1), p.max)

\* note
Note(c, p) ==
    LET fails == (IF c.last # Never /\ ticks - c.last > p.decay THEN 0 ELSE c.fails) + 1
    IN  [fails |-> fails, last |-> ticks,
         until |-> IF fails > p.free THEN ticks + LockOf(p, fails - p.free) ELSE c.until]

\* prune: what has decayed, then the least recent until the table fits.
Forgotten(sources) ==
    LET fresh == {s \in Source : sources[s] # NoCounter
                                  /\ ~(ticks - sources[s].last > PerSource.decay /\ ticks > sources[s].until)}
        fits == {keep \in SUBSET fresh :
                    /\ Cardinality(keep) = Smaller(Cardinality(fresh), MaxSources)
                    /\ \A s \in keep, d \in fresh \ keep : sources[s].last >= sources[d].last}
    IN  {[s \in Source |-> IF s \in keep THEN sources[s] ELSE NoCounter] : keep \in fits}

\* Fail: a table that drops one of several equally old entries drops any of them.
GuessFailed(st, s) ==
    LET c == IF st.sources[s] = NoCounter THEN Zero ELSE st.sources[s]
    IN  {[pin |-> st.pin, devices |-> st.devices, global |-> Note(st.global, Global), sources |-> left] :
            left \in Forgotten([st.sources EXCEPT ![s] = Note(c, PerSource)])}

\* Mutant: a PIN that is right forgets every failure.
ClearedGlobal(g) == Zero

\* "Decremented rather than cleared."
EasedGlobal(g) == [fails |-> IF g.fails > 0 THEN g.fails - 1 ELSE 0, last |-> g.last, until |-> Never]

\* RetryAfter is not zero: both limits are consulted.
MustWait(s) == ticks < lock.global.until \/ ticks < lock.sources[s].until

-----------------------------------------------------------------------------
(* The store *)

Expired(d) == ticks - d.seen > TTL

\* Mutant: the devices of the old PIN stay signed in.
NewPinOnly == [Unlocked EXCEPT !.pin = pins + 1, !.devices = lock.devices]

NewPin == [Unlocked EXCEPT !.pin = pins + 1]

SetPIN ==
    /\ pins < MaxPins
    /\ Save(NewPin)
    /\ pins' = pins + 1
    /\ guesses' = <<>>
    /\ UNCHANGED <<ticks, spentTokens, restarted>>

ClearPIN ==
    /\ lock # Unlocked
    /\ Save(Unlocked)
    /\ guesses' = <<>>
    /\ UNCHANGED <<ticks, pins, spentTokens, restarted>>

\* Login with the PIN that is set.
LoginRight(s) ==
    /\ ~MustWait(s) /\ lock.pin # 0 /\ Len(spentTokens) < MaxTokens
    /\ Save([pin |-> lock.pin, sources |-> [lock.sources EXCEPT ![s] = NoCounter], global |-> EasedGlobal(lock.global),
             devices |-> {d \in lock.devices : ~Expired(d)} \cup {[token |-> Len(spentTokens) + 1, seen |-> ticks]}])
    /\ spentTokens' = Append(spentTokens, [at |-> ticks, pin |-> lock.pin, out |-> FALSE])
    /\ guesses' = <<>>
    /\ UNCHANGED <<ticks, pins, restarted>>

\* Mutant: an attempt that failed is not saved.
FailsUnsaved(s) == lock' \in GuessFailed(lock, s) /\ UNCHANGED disk

FailsSaved(s) == \E new \in GuessFailed(lock, s) : Save(new)

\* Login with another PIN, or while none is set.
LoginWrong(s) ==
    /\ ~MustWait(s) /\ Len(guesses) < MaxGuesses
    /\ FailsSaved(s)
    /\ guesses' = Append(guesses, ticks)
    /\ UNCHANGED <<ticks, pins, spentTokens, restarted>>

\* Mutant: a device that is in use is never written down as seen.
NotRefreshed(d) == d

\* "Refreshing its last-seen time so a device in regular use never expires."
Refreshed(d) == IF ticks - d.seen > Refresh THEN [d EXCEPT !.seen = ticks] ELSE d

\* Valid
Use(t) ==
    \E d \in lock.devices :
        /\ d.token = t
        /\ IF Expired(d)
           THEN Save([lock EXCEPT !.devices = @ \ {d}]) /\ UNCHANGED spentTokens
           ELSE /\ spentTokens' = [spentTokens EXCEPT ![t].at = ticks]
                /\ IF Refreshed(d) = d THEN UNCHANGED <<lock, disk>>
                   ELSE Save([lock EXCEPT !.devices = (@ \ {d}) \cup {Refreshed(d)}])
        /\ UNCHANGED <<ticks, pins, guesses, restarted>>

\* Forget and ForgetAll
SignOut(out) ==
    /\ out # {} /\ out \subseteq lock.devices
    /\ Cardinality(out) = 1 \/ out = lock.devices
    /\ Save([lock EXCEPT !.devices = @ \ out])
    /\ spentTokens' = [t \in DOMAIN spentTokens |-> [spentTokens[t] EXCEPT !.out = @ \/ t \in {d.token : d \in out}]]
    /\ UNCHANGED <<ticks, pins, guesses, restarted>>

\* Open, in another process.
Restart ==
    /\ restarted < Restarts
    /\ restarted' = restarted + 1
    /\ lock' = disk
    /\ UNCHANGED <<ticks, disk, pins, spentTokens, guesses>>

Tick ==
    /\ ticks < MaxTicks
    /\ ticks' = ticks + 1
    /\ UNCHANGED <<lock, disk, pins, spentTokens, guesses, restarted>>

-----------------------------------------------------------------------------

LkInit ==
    /\ ticks = 0 /\ lock = Unlocked /\ disk = Unlocked /\ pins = 0
    /\ spentTokens = <<>> /\ guesses = <<>> /\ restarted = 0

LkNext ==
    \/ SetPIN \/ ClearPIN \/ Restart \/ Tick
    \/ \E s \in Source : LoginRight(s) \/ LoginWrong(s)
    \/ \E t \in 1..Len(spentTokens) : Use(t)
    \/ \E out \in SUBSET lock.devices : SignOut(out)

LkSpec == LkInit /\ [][LkNext]_lkVars

-----------------------------------------------------------------------------
(* Properties *)

Counter == [fails : Nat \cup {-1}, last : -1..MaxTicks, until : Int]

LkTypeOK ==
    /\ ticks \in 0..MaxTicks /\ pins \in 0..MaxPins /\ restarted \in 0..Restarts
    /\ \A st \in {lock, disk} :
        /\ st.pin \in 0..MaxPins /\ st.global \in Counter
        /\ st.devices \subseteq [token : 1..MaxTokens, seen : 0..MaxTicks]
        /\ \A s \in Source : st.sources[s] \in Counter

SignedIn == {d.token : d \in lock.devices}

\* "A restart must not hand [out] a fresh guessing budget, and must not sign out
\* every device": it changes nothing that a person can tell.
RestartForgetsNothing == [][restarted' # restarted => lock' = lock]_lkVars

\* "Changing the PIN signs everything out", also for a device whose sign-in, use
\* or sign-out came in between, and after a restart.
SignedInByThisPin == \A t \in SignedIn : spentTokens[t].pin = lock.pin /\ lock.pin # 0

\* "A device in regular use never expires": a device that is turned away, or
\* dropped when another signs in, was not used for about the time allowed.
UsedStaysIn ==
    [][\A t \in SignedIn : t \notin {d.token : d \in lock'.devices} =>
          spentTokens'[t].out \/ lock'.pin # spentTokens[t].pin \/ ticks - spentTokens[t].at >= TTL - Refresh]_lkVars

\* The failures of the global counter with no quiet spell between them, up to
\* the last.
RunLength ==
    LET from == {i \in DOMAIN guesses : \A k \in i..(Len(guesses) - 1) : guesses[k + 1] - guesses[k] <= Global.decay}
    IN  Cardinality(from)

\* "The number of guesses is tiny": from the one that is not forgiven on, the
\* next is not looked at before a wait that doubles, whatever address it comes
\* from and whether or not kunai was restarted.
GuessesAreFew ==
    [][(Len(guesses') > Len(guesses) /\ RunLength > Global.free) =>
          ticks - guesses[Len(guesses)] >= Smaller(Doubled(Global.base, RunLength - Global.free - 1), Global.max)]_lkVars

\* The table of sources never outgrows its size.
TableIsBounded == Cardinality({s \in Source : lock.sources[s] # NoCounter}) <= MaxSources

\* The lock remembers, across restarts, whom it let in and how often it refused.
LockRemembers ==
    RestartForgetsNothing /\ UsedStaysIn /\ GuessesAreFew /\ [][SignedInByThisPin' /\ TableIsBounded']_lkVars
=============================================================================
