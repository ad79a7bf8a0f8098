------------------------------ MODULE MCNetwork ------------------------------
(***************************************************************************)
(* What kunai serves and whom it signs in with, in one instance for TLC:   *)
(* the PIN on the LAN and the listeners there, the previews that are       *)
(* forwarded, the browser an account is signed in with, kunai's own        *)
(* sign-in to a provider and the sidecar's, the tokens that are kept, and  *)
(* the proxy: what it asks another provider on behalf of a CLI, and how it *)
(* answers in that provider's words.  They share no variables, so a        *)
(* behaviour is one of a single part while the others rest in an initial   *)
(* state.                                                                  *)
(***************************************************************************)
EXTENDS Lanlock, Lannet, Preview, Login, Codex, Sidecar, Tokens, NativeLogin, Request, TLC

VARIABLE part

serving == <<lkVars, lnVars, pvVars>>
signing == <<lgVars, scVars, tkVars, nlVars>>
proxying == <<cxVars, rqVars>>
netVars == <<part, serving, signing, proxying>>

\* One guess is free; then one tick, two, and no more.
MCWait == [free |-> 1, base |-> 1, max |-> 2, decay |-> 3]

\* One session sits in the home directory, the other below it.
MCHome == <<"h">>
MCSeats == {1 :> <<"h", "a">> @@ 2 :> <<"h">>}

\* A shell, a server below a session's directory, one beside it that listens on
\* the LAN, and kunai's own listener.
Prog(what, dir, on, at) == [name |-> what, cwd |-> dir, port |-> on, addrs |-> at]
MCPrograms ==
    {Prog("sh", <<"h", "a">>, 0, {}), Prog("node", <<"h", "a", "x">>, 1, {"lo"}),
     Prog("node", <<"h", "b">>, 1, {"lan"}), Prog("kunai", <<"h", "a">>, 1, {"tail"})}

\* The windows differ, so that a change of the model is one of the window.
MCWindow == [codex |-> 5, grok |-> 4, claude |-> 3]

\* A signature of Gemini's begins as one of Claude's does.
MCShape == [sig \in Signature |->
    [starts |-> IF sig = "codex" THEN "gAAAA" ELSE IF sig \in {"claude", "gemini"} THEN "E" ELSE "other",
     fernet |-> sig = "codex", tree |-> sig = "claude", cipher |-> sig \in {"grok", "claude", "gemini"},
     envelope |-> IF sig = "gemini" THEN "field2" ELSE "none"]]

\* Two tools whose names are the same when they are cut, and one whose name is what
\* the second of them would get.
MCBrief == [t \in Tool |-> IF t = "c" THEN "x_1" ELSE "x"]
MCSuffixed == [t \in Tool |-> IF t = "c" THEN <<"x_1_1", "x_1_2", "x_1_3">> ELSE <<"x_1", "x_2", "x_3">>]
MCOffers == {<<>>, <<"a", "c", "b">>}

\* Of a part that rests, one initial state will do.
NetInit ==
    /\ part \in {"lanlock", "lannet", "preview", "login", "sidecar", "tokens", "nativelogin", "codex", "request"}
    /\ LkInit /\ LnInit /\ PvInit /\ LgInit /\ ScInit /\ TkInit /\ NlInit /\ CxInit /\ RqInit
    /\ part # "login" => clis = {}
    /\ part # "sidecar" => binary = "none"
    /\ part # "request" => runsOn = "codex" /\ asksFor = "codex"

ServingNext ==
    \/ part = "lanlock" /\ LkNext /\ UNCHANGED <<lnVars, pvVars>>
    \/ part = "lannet" /\ LnNext /\ UNCHANGED <<lkVars, pvVars>>
    \/ part = "preview" /\ PvNext /\ UNCHANGED <<lkVars, lnVars>>

SigningNext ==
    \/ part = "login" /\ LgNext /\ UNCHANGED <<scVars, tkVars, nlVars>>
    \/ part = "sidecar" /\ ScNext /\ UNCHANGED <<lgVars, tkVars, nlVars>>
    \/ part = "tokens" /\ TkNext /\ UNCHANGED <<lgVars, scVars, nlVars>>
    \/ part = "nativelogin" /\ NlNext /\ UNCHANGED <<lgVars, scVars, tkVars>>

ProxyingNext ==
    \/ part = "codex" /\ CxNext /\ UNCHANGED rqVars
    \/ part = "request" /\ RqNext /\ UNCHANGED cxVars

NetNext ==
    /\ UNCHANGED part
    /\ \/ ServingNext /\ UNCHANGED <<signing, proxying>>
       \/ SigningNext /\ UNCHANGED <<serving, proxying>>
       \/ ProxyingNext /\ UNCHANGED <<serving, signing>>

NetSpec == NetInit /\ [][NetNext]_netVars

\* Every variable of the part that moves has its type.
NetTypeOK ==
    /\ part = "lanlock" => LkTypeOK
    /\ part = "lannet" => LnTypeOK
    /\ part = "preview" => PvTypeOK
    /\ part = "login" => LgTypeOK
    /\ part = "codex" => CxTypeOK
    /\ part = "sidecar" => ScTypeOK
    /\ part = "tokens" => TkTypeOK
    /\ part = "nativelogin" => NlTypeOK
    /\ part = "request" => RqTypeOK

\* What people and phones are told is so: the LAN is served as it was last told to
\* be, and a forward ends with what it forwards to; a sign-in that is told to have
\* worked did, for the account it was for, and a login that was kept is not lost;
\* the sidecar is where sessions look for it.
WhatIsToldIsSo ==
    /\ part = "lannet" => NetworkInLine
    /\ part = "preview" => PreviewsAreHeld
    /\ part = "login" => SignInIsTrue
    /\ part = "sidecar" => SidecarServes
    /\ part = "tokens" => LoginIsKept
    /\ part = "nativelogin" => LoginsAreOneEach

\* A provider is asked for what it can give and told what is its own, however the
\* session came to it, and the CLI gets the answer whole, or an error it can use.
RequestsAreSound == part = "request" => RequestIsSound

\* A provider's words and calls reach the CLI once and whole, in blocks that begin
\* and end as the protocol has it.
ProviderIsHeard == [](part = "codex" => SaidOnce) /\ Orderly
=============================================================================
