------------------------------- MODULE MCServer -------------------------------
(***************************************************************************)
(* Parts of the server that run beside the sessions, in one instance for   *)
(* TLC: the driver of pull-request reviews, the check of what is shared    *)
(* (module Share without its guests), and the public port of the links.    *)
(* They share no variables, so a behaviour is one of a single part, with   *)
(* the fairness its module gives it, while the others rest in an initial   *)
(* state.                                                                  *)
(***************************************************************************)
EXTENDS Review, Share, Funnel

VARIABLE part

svVars == <<part, rvVars, shVars, fuVars>>

\* Of a part that rests, one initial state will do.
SvInit ==
    /\ part \in {"review", "share", "funnel"}
    /\ RvInit /\ ShInit /\ FuInit
    /\ part # "review" => record.phase = "find"
    /\ part # "share" => native = Plain

SvNext ==
    /\ UNCHANGED part
    /\ \/ part = "review" /\ RvNext /\ UNCHANGED <<shVars, fuVars>>
       \/ part = "share" /\ ShNext /\ UNCHANGED <<rvVars, fuVars>>
       \/ part = "funnel" /\ FuNext /\ UNCHANGED <<rvVars, shVars>>

Of(p, A) == part = p /\ A

SvFairness ==
    /\ \A kind \in {"survey", "find", "verify", "chat"} :
          WF_rvVars(Of("review", \E a \in answers :
              a.turn.kind = kind /\ (Route(a) \/ DropCancelled(a) \/ Advance(a))))
    /\ \A c \in Client : WF_rvVars(Of("review", Serves(c)))
    /\ \A s \in Session : WF_rvVars(Of("review", \E ok \in BOOLEAN : TurnOver(s, ok)))
    /\ WF_shVars(Of("share", CheckLooks)) /\ WF_shVars(Of("share", JobGoes("check")))
    /\ SF_fuVars(Of("funnel", Reconcile)) /\ WF_fuVars(Of("funnel", FuBoot))
    /\ WF_fuVars(Of("funnel", FuCreateStarts \/ OnLooks \/ OnRuns))
    /\ SF_fuVars(Of("funnel", CloseRuns)) /\ SF_fuVars(Of("funnel", ReopenRuns))
    /\ WF_fuVars(Of("funnel", CacheAges))

SvSpec == SvInit /\ [][SvNext]_svVars /\ SvFairness

\* ReviewEnds, of the behaviours in which the review is the part that moves: a
\* review whose sessions stay comes to its end.
ReviewComesToAnEnd == part = "review" => ReviewEnds

\* What a link opens is what its maker may see, and the public port is open for
\* as long as there is a link and on the gate that answers.
LinksHold == ToolsFollowLink /\ PortFollowsGate

\* Every variable has its type.
SvTypeOK == RvTypeOK /\ FuTypeOK
=============================================================================
