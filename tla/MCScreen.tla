------------------------------- MODULE MCScreen -------------------------------
(***************************************************************************)
(* What comes to a screen, in one instance for TLC: the frames between the *)
(* CLI and its driver, the view a tab builds of the events, the            *)
(* conversation read back from the transcript, the list of past            *)
(* conversations, what they have cost, and the usage meters.               *)
(* They share no variables, so a behaviour is one of a single part while   *)
(* the others rest in an initial state.                                    *)
(***************************************************************************)
EXTENDS Driver, View, Transcript, Recent, Spend, Meters

VARIABLE part

scrVars == <<part, drVars, viVars, trVars, rcVars, spVars, mtVars>>

\* Of each kind of line, its size.
MCSize == [tools |-> 2, reply |-> 1, compact |-> 1, note |-> 2]

\* A respawned process begins with a reply and the mark of a compaction.
MCSeeds == <<[t |-> "assistant", turn |-> 0, ctx |-> 0], [t |-> "compact", ctx |-> 99]>>

\* Of a part that rests, one initial state will do.  "heading" is the part in
\* which none moves: what is settled by a function is looked at there, once.
ScrInit ==
    /\ part \in {"heading", "driver", "view", "transcript", "recent", "spend", "meters"}
    /\ DrInit /\ ViInit /\ TrInit /\ RcInit /\ SpInit /\ MtInit
    /\ part # "view" => about = "waits"
    /\ part # "transcript" => runsOn = 1
    /\ part # "spend" => livesIn = [c \in Chat |-> 1]
    /\ part # "meters" => meter = "cli"

ScrNext ==
    /\ UNCHANGED part
    /\ \/ part = "driver" /\ DrNext /\ UNCHANGED <<viVars, trVars, rcVars, spVars, mtVars>>
       \/ part = "view" /\ ViNext /\ UNCHANGED <<drVars, trVars, rcVars, spVars, mtVars>>
       \/ part = "transcript" /\ TrNext /\ UNCHANGED <<drVars, viVars, rcVars, spVars, mtVars>>
       \/ part = "recent" /\ RcNext /\ UNCHANGED <<drVars, viVars, trVars, spVars, mtVars>>
       \/ part = "spend" /\ SpNext /\ UNCHANGED <<drVars, viVars, trVars, rcVars, mtVars>>
       \/ part = "meters" /\ MtNext /\ UNCHANGED <<drVars, viVars, trVars, rcVars, spVars>>

ScrSpec == ScrInit /\ [][ScrNext]_scrVars

\* Every variable of the part that moves has its type.
ScrTypeOK ==
    /\ part = "driver" => DrTypeOK
    /\ part = "view" => ViTypeOK
    /\ part = "transcript" => TrTypeOK
    /\ part = "recent" => RcTypeOK
    /\ part = "spend" => SpTypeOK
    /\ part = "meters" => MtTypeOK

\* What is shown is what is so: a session in its tab, and the usage meters; and of
\* what is read back from disk, a conversation whole and in its order, the list of
\* past ones complete and under settled headings, and each record's cost once.
ShownIsTrue ==
    /\ part = "view" => ViewIsTrue
    /\ part = "meters" => MetersAreTrue
    /\ part = "transcript" => HistoryIsKept
    /\ part = "recent" => RecentIsTrue
    /\ part = "heading" => HeadingIsSettled
    /\ part = "spend" => SpendIsExact
=============================================================================
