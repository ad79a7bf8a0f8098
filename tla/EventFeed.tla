----------------------------- MODULE EventFeed -----------------------------
(***************************************************************************)
(* What reconnect replay promises a client of one process: a feed of       *)
(* numbered events that each reader goes through in order, once each,      *)
(* skipping only what the feed no longer holds.  Replay implements it.     *)
(***************************************************************************)
EXTENDS Naturals

CONSTANT Reader

VARIABLES
    high,    \* the newest event published
    floor,   \* the newest event no longer held
    pos      \* the newest event each reader has read

vars == <<high, floor, pos>>

Init ==
    /\ high = 0
    /\ floor = 0
    /\ pos = [r \in Reader |-> 0]

\* Publishing may cost the feed its oldest events, never its newest.
Publish ==
    /\ high' = high + 1
    /\ floor' \in floor..high
    /\ UNCHANGED pos

\* A reader takes the next event, or the first one past a stretch that is gone.
Read(r) ==
    /\ \E n \in pos[r] + 1..high :
         /\ n - 1 \in {pos[r]} \cup 1..floor
         /\ pos' = [pos EXCEPT ![r] = n]
    /\ UNCHANGED <<high, floor>>

Next == Publish \/ \E r \in Reader : Read(r)

Spec == Init /\ [][Next]_vars
=============================================================================
