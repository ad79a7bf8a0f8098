------------------------------ MODULE MCOutside ------------------------------
(***************************************************************************)
(* What kunai keeps for people and of their work, in one instance for TLC: *)
(* the Telegram bot behind its chat, a reply streamed into that chat, the  *)
(* guests of a shared session, the worktrees of a repository, and the      *)
(* checkpoints a turn can be undone to.  They meet in the session at most  *)
(* and share no variables, so a behaviour is one of a single part while    *)
(* the others rest in an initial state.                                    *)
(***************************************************************************)
EXTENDS Channel, Stream, Share, Worktree, Checkpoint

VARIABLE part

outVars == <<part, chVars, stVars, shVars, wtVars, cpVars>>

\* Of a part that rests, one initial state will do.
OutInit ==
    /\ part \in {"channel", "stream", "share", "worktree", "checkpoint"}
    /\ ChInit /\ StInit /\ ShInit /\ WtInit /\ CpInit
    /\ part # "stream" => can = able
    /\ part # "share" => native = Plain

OutNext ==
    /\ UNCHANGED part
    /\ \/ part = "channel" /\ ChNext /\ UNCHANGED <<stVars, shVars, wtVars, cpVars>>
       \/ part = "stream" /\ StNext /\ UNCHANGED <<chVars, shVars, wtVars, cpVars>>
       \/ part = "share" /\ ShNext /\ UNCHANGED <<chVars, stVars, wtVars, cpVars>>
       \/ part = "worktree" /\ WtNext /\ UNCHANGED <<chVars, stVars, shVars, cpVars>>
       \/ part = "checkpoint" /\ CpNext /\ UNCHANGED <<chVars, stVars, shVars, wtVars>>

OutSpec == OutInit /\ [][OutNext]_outVars

\* Every variable of the part that moves has its type.
OutTypeOK ==
    /\ part = "channel" => ChTypeOK
    /\ part = "stream" => StTypeOK
    /\ part = "share" => ShTypeOK
    /\ part = "worktree" => WtTypeOK
    /\ part = "checkpoint" => CpTypeOK

\* A chat keeps its people and hears of its session to the end, a streamed reply
\* survives what Telegram does to it, and a guest's question waits its turn.
PeopleAreServed == [][FileRemembers' /\ ChatIsTold']_chVars /\ ReplySurvives /\ GuestsInTurn

\* No work is lost in a worktree or by a revert.
WorkIsSafe == TreesAreSound /\ RevertsAreSafe
=============================================================================
