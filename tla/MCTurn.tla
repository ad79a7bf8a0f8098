-------------------------------- MODULE MCTurn --------------------------------
(***************************************************************************)
(* One session's turns and the guard that stops every session of a machine *)
(* that overheats, in one instance for TLC.  They share no variables, so a *)
(* behaviour is one of a single part, with the fairness its module gives   *)
(* it, while the other rests in an initial state.                          *)
(***************************************************************************)
EXTENDS Turn, Guardian

VARIABLE part

tnVars == <<part, vars, guVars>>

\* A guard that is off, one with a soft line and the power-off armed, and one
\* with only a cap on how long an unattended hold lasts.
Guard(on, soft, cap, off) == [on |-> on, soft |-> soft, cap |-> cap, powerOff |-> off]
MCPolicies ==
    {Guard(FALSE, FALSE, FALSE, FALSE), Guard(TRUE, TRUE, FALSE, TRUE), Guard(TRUE, FALSE, TRUE, FALSE)}

\* Of a part that rests, one initial state will do: of the guard, the one that is off.
TnInit ==
    /\ part \in {"turn", "guardian"}
    /\ Init /\ GuInit
    /\ part # "turn" => booted = "no"
    /\ part # "guardian" => ~policy.on

TnNext ==
    /\ UNCHANGED part
    /\ \/ part = "turn" /\ Next /\ UNCHANGED guVars
       \/ part = "guardian" /\ GuNext /\ UNCHANGED vars

Of(p, A) == part = p /\ A

TnFairness ==
    /\ WF_vars(Of("turn", Pump)) /\ WF_vars(Of("turn", CLI))
    /\ \A m \in Prompt : WF_vars(Of("turn", Deliver(m) \/ DeliverFails(m) \/ AbandonTurn(m)))
    /\ \A a \in Ask : WF_vars(Of("turn", SendAnswer(a) \/ ResumeTurn(a))) /\ WF_vars(Of("turn", Answer(a)))
    /\ \A s \in Stop : WF_vars(Of("turn", SendStop(s) \/ SettleStop(s)))
    /\ WF_guVars(Of("guardian", Guards)) /\ WF_guVars(Of("guardian", GuBoot))

TnSpec == TnInit /\ [][TnNext]_tnVars /\ TnFairness

\* What a person or a hot host is owed in the end: an answer to every message,
\* and a stop.
MovesOn == PromptsMoveOn /\ GuardActs
=============================================================================
