---------------------------- MODULE Signing_proofs ----------------------------
(***************************************************************************)
(* Whom kunai signs in with, for any accounts, browsers, attempts, sidecar *)
(* processes and rotations: the tokens that are kept, the sidecar where    *)
(* sessions look for it, kunai's own sign-in to a provider, and the sign-in*)
(* of an account through the browser.                                      *)
(***************************************************************************)
EXTENDS Tokens, Sidecar, NativeLogin, Login, TLAPS


-----------------------------------------------------------------------------
(* The tokens of a provider: whoever holds one that is not written has it   *)
(* alone. *)

\* The types one by one.
TkEach ==
    /\ latest \in 1..Rotations /\ keptToken \in 1..latest /\ heldToken \in 0..latest /\ other \in 0..Rotations
    /\ fresh \in BOOLEAN /\ refresh \in {"no", "got"} /\ answer \in {"none", "key", "signin"}
    /\ lives \in 0..Boots /\ mishap \subseteq {"lost", "elsewhere"}

\* Whoever has a token that is not written yet has the newest, and nobody else
\* has it; what this manager holds is behind only after a mishap.
TkInv ==
    /\ TkEach
    /\ FileWorks /\ SignInIsNeeded
    /\ refresh = "got" => heldToken = latest /\ keptToken # latest /\ other = 0
    /\ other # 0 => other = latest /\ heldToken # latest /\ keptToken # latest /\ "elsewhere" \in mishap
    /\ heldToken \notin {0, latest} => mishap # {}

LEMMA TkTyped == TkEach => TkTypeOK
  BY TokensAssumption DEF TkEach, TkTypeOK

LEMMA TkInitOK == TkInit => TkInv
  <1> SUFFICES ASSUME TkInit PROVE TkInv
    OBVIOUS
  <1>1. fresh \in BOOLEAN
    BY DEF TkInit
  <1> QED
    BY <1>1, TokensAssumption DEF TkInit, TkInv, TkEach, FileWorks, SignInIsNeeded

\* What the manager does: it reads the file, refreshes, and writes it.
LEMMA TkManagerOK ==
    ASSUME TkInv, TokenLoads \/ TokenServes \/ TokenRefreshes \/ AnswerLost \/ TokenPersists \/ KeyExpires
    PROVE  TkInv'
  <1> USE TokensAssumption DEF TkInv, TkEach, FileWorks, SignInIsNeeded
  <1>1. CASE TokenLoads
    BY <1>1 DEF TokenLoads
  <1>2. CASE TokenServes
    BY <1>2 DEF TokenServes
  <1>3. CASE TokenRefreshes
    <2>1. fresh' \in BOOLEAN
      BY <1>3 DEF TokenRefreshes
    <2> QED
      BY <1>3, <2>1 DEF TokenRefreshes
  <1>4. CASE AnswerLost
    BY <1>4 DEF AnswerLost
  <1>5. CASE TokenPersists
    BY <1>5 DEF TokenPersists, Written
  <1>6. CASE KeyExpires
    BY <1>6 DEF KeyExpires
  <1> QED
    BY <1>1, <1>2, <1>3, <1>4, <1>5, <1>6

\* What happens to the file and the process besides.
LEMMA TkElsewhereOK ==
    ASSUME TkInv, CliRefreshes \/ CliWrites \/ SignsIn \/ NewManager
    PROVE  TkInv'
  <1> USE TokensAssumption DEF TkInv, TkEach, FileWorks, SignInIsNeeded
  <1>1. CASE CliRefreshes
    BY <1>1 DEF CliRefreshes
  <1>2. CASE CliWrites
    BY <1>2 DEF CliWrites
  <1>3. CASE SignsIn
    BY <1>3 DEF SignsIn
  <1>4. CASE NewManager
    <2>1. mishap' \subseteq mishap \cup {"lost"}
      BY <1>4 DEF NewManager
    <2>2. "lost" \notin mishap' => refresh = "no" /\ "lost" \notin mishap
      BY <1>4 DEF NewManager
    <2>3. fresh' \in BOOLEAN
      BY <1>4 DEF NewManager
    <2>4. other # 0 => "elsewhere" \in mishap'
      BY <1>4 DEF NewManager
    <2> QED
      BY <1>4, <2>1, <2>2, <2>3, <2>4 DEF NewManager
  <1> QED
    BY <1>1, <1>2, <1>3, <1>4

LEMMA TkStepOK == TkInv /\ [TkNext]_tkVars => TkInv'
  <1> SUFFICES ASSUME TkInv, [TkNext]_tkVars PROVE TkInv'
    OBVIOUS
  <1>1. CASE UNCHANGED tkVars
    BY <1>1 DEF tkVars, TkInv, TkEach, FileWorks, SignInIsNeeded
  <1> QED
    BY <1>1, TkManagerOK, TkElsewhereOK DEF TkNext

LEMMA TkInvMeans == TkInv => TkTypeOK /\ LoginIsKept
  BY TkTyped DEF TkInv, LoginIsKept

\* The token in the file works whenever no refresh is under way and none was lost,
\* and only a mishap makes kunai ask for a new sign-in.
THEOREM TokensKept == TkSpec => [](TkTypeOK /\ LoginIsKept)
  BY TkInvMeans, TkInitOK, TkStepOK, PTL DEF TkSpec

-----------------------------------------------------------------------------
(* The sidecar: what a session is told, what is running and what is noted   *)
(* of it. *)

\* The types one by one.
FetchSt == {"idle", "look", "get", "write", "have", "failed"}
CallRec == [pc : {"idle", "fetch", "publish", "done"}, port : 0..Ports]
LoginRec == [st : {"none", "fetch", "url", "open", "deliver", "over"}, listed : BOOLEAN,
             proc : {"none", "runs", "signed", "failed", "killed"}, told : {"nothing", "ok", "failed", "cancelled", "late"}]

ScFileTypes ==
    /\ binary \in {"none", "part", "whole"} /\ fetch \in [Fetcher -> FetchSt] /\ spoilt \in BOOLEAN

ScProxyTypes ==
    /\ calls \in [Starter -> CallRec] /\ started \in BOOLEAN
    /\ port \in 0..Ports /\ config \in 0..Ports /\ taken \in 0..Ports /\ child \in 0..Ports
    /\ super \in {"off", "launch", "up", "rest", "gone"} /\ baked \in [Asker -> 0..Ports] /\ boots \in 0..KunaiRestarts

\* One start at a time gets past the flag, and none once a port is published.
OneStart ==
    /\ \A c \in Starter : calls[c].pc \in {"fetch", "publish"} => started /\ port = 0
    /\ \A c, d \in Starter : calls[c].pc \in {"fetch", "publish"} /\ calls[d].pc \in {"fetch", "publish"} => c = d
    /\ \A c \in Starter : calls[c].pc = "publish" => calls[c].port = config /\ config # 0
    /\ \A c \in Starter : calls[c].pc # "fetch" => fetch[c] = "idle"
    /\ port # 0 => started /\ port = config

\* The proxy runs where the port says, and a profile has that port.
AtPort ==
    /\ super # "off" => port # 0
    /\ child # 0 => super = "up" /\ child = config
    /\ \A k \in Asker : baked[k] # 0 => baked[k] = port

\* Unless it was spoilt, the binary is whole for whoever has it, and is being
\* written by one caller at most.
Sound ==
    ~spoilt =>
        /\ \A f, g \in Fetcher : fetch[f] \in {"get", "write"} /\ fetch[g] \in {"get", "write"} => f = g
        /\ \A f \in Fetcher : fetch[f] = "get" => binary = "none"
        /\ \A f \in Fetcher : fetch[f] = "write" => binary = "part"
        /\ \A f \in Fetcher : fetch[f] = "have" => binary = "whole"
        /\ binary = "part" => \E f \in Fetcher : fetch[f] = "write"
        /\ \A c \in Starter : calls[c].pc = "publish" => binary = "whole"
        /\ super # "off" => binary = "whole" /\ super # "gone"

\* Of each login: a process only after it was launched, one that can be ended,
\* and no success without a credential.
LoginFits(l) ==
    /\ l \in LoginRec
    /\ l.st \in {"none", "fetch"} => l.proc = "none"
    /\ l.proc = "runs" => l.listed \/ l.st \in {"url", "deliver"} \/ l.told = "late"
    /\ l.told = "ok" => l.proc = "signed"

LoginsFit == login \in [Signer -> LoginRec] /\ \A s \in Signer : LoginFits(login[s])

ScInv == ScFileTypes /\ ScProxyTypes /\ OneStart /\ AtPort /\ Sound /\ StartedIsSupervised /\ LoginsFit

LEMMA ScTyped == ScFileTypes /\ ScProxyTypes /\ LoginsFit => ScTypeOK
  BY DEF ScFileTypes, ScProxyTypes, LoginsFit, ScTypeOK, FetchSt, CallRec, LoginRec

LEMMA ScInitOK == ScInit => ScInv
  <1> SUFFICES ASSUME ScInit PROVE ScInv
    OBVIOUS
  <1> USE SidecarAssumption DEF ScInit
  <1>1. ScFileTypes
    BY DEF ScFileTypes, FetchSt
  <1>2. ScProxyTypes
    <2>1. started \in BOOLEAN
      OBVIOUS
    <2>2. NoCall \in CallRec
      BY DEF NoCall, CallRec
    <2> QED
      BY <2>1, <2>2 DEF ScProxyTypes
  <1>3. OneStart /\ AtPort /\ StartedIsSupervised
    BY DEF OneStart, AtPort, StartedIsSupervised, NoCall, Fetcher
  <1>4. Sound
    BY DEF Sound, NoCall
  <1>5. LoginsFit
    BY DEF LoginsFit, LoginFits, LoginRec, NoLogin
  <1> QED
    BY <1>1, <1>2, <1>3, <1>4, <1>5 DEF ScInv

\* A caller of ensureBinary goes on, and the others stay.
LEMMA FetchGoes ==
    ASSUME fetch \in [Fetcher -> FetchSt], NEW f \in Fetcher, NEW to \in FetchSt, Fetches(f, to)
    PROVE  /\ fetch' \in [Fetcher -> FetchSt] /\ fetch'[f] = to
           /\ \A g \in Fetcher \ {f} : fetch'[g] = fetch[g]
  BY DEF Fetches

\* A step on the way to a binary leaves the proxy as it is.
LEMMA FetchRest ==
    ASSUME ScInv, NEW f \in Fetcher, fetch[f] # "idle", UNCHANGED <<scProxy, baked, login, boots>>,
           \A g \in Fetcher \ {f} : fetch'[g] = fetch[g], spoilt => spoilt'
    PROVE  ScProxyTypes' /\ OneStart' /\ AtPort' /\ StartedIsSupervised' /\ LoginsFit'
  <1> USE DEF ScInv, scProxy
  <1>1. ScProxyTypes' /\ AtPort' /\ StartedIsSupervised'
    BY DEF ScProxyTypes, AtPort, StartedIsSupervised
  <1>2. LoginsFit'
    BY DEF LoginsFit
  <1>3. \A c \in Starter : calls[c].pc # "fetch" => fetch'[c] = "idle"
    BY DEF OneStart, Fetcher
  <1>4. OneStart'
    BY <1>3 DEF OneStart
  <1> QED
    BY <1>1, <1>2, <1>4

LEMMA FetchLooksOK == ASSUME ScInv, NEW f \in Fetcher, FetchLooks(f) PROVE ScInv'
  <1> USE DEF ScInv
  <1>1. /\ fetch[f] = "look" /\ UNCHANGED <<binary, scProxy, baked, login, boots>>
        /\ Fetches(f, IF binary = "none" THEN "get" ELSE "have")
        /\ spoilt' = (spoilt \/ \E g \in Fetcher \ {f} : fetch[g] \in {"get", "write"})
    BY DEF FetchLooks
  <1>2. /\ fetch' \in [Fetcher -> FetchSt] /\ fetch'[f] = (IF binary = "none" THEN "get" ELSE "have")
        /\ \A g \in Fetcher \ {f} : fetch'[g] = fetch[g]
    BY <1>1, FetchGoes DEF ScFileTypes, FetchSt
  <1>3. spoilt' \in BOOLEAN /\ (spoilt => spoilt')
    BY <1>1
  <1>4. ScFileTypes'
    BY <1>1, <1>2, <1>3 DEF ScFileTypes
  <1>5. Sound'
    <2> SUFFICES ASSUME ~spoilt' PROVE Sound'
      BY DEF Sound
    <2>1. ~spoilt /\ \A g \in Fetcher : fetch[g] \notin {"get", "write"}
      BY <1>1
    <2>2. binary # "part"
      BY <2>1 DEF Sound
    <2> QED
      BY <1>1, <1>2, <2>1, <2>2 DEF Sound, ScFileTypes, scProxy
  <1> QED
    BY <1>1, <1>2, <1>3, <1>4, <1>5, FetchRest

LEMMA FetchGetsOK == ASSUME ScInv, NEW f \in Fetcher, FetchGets(f) PROVE ScInv'
  <1> USE DEF ScInv
  <1>1. fetch[f] = "get" /\ UNCHANGED <<scProxy, baked, login, boots, spoilt>>
    BY DEF FetchGets
  <1>2. CASE binary' = "part" /\ Fetches(f, "write")
    <2>1. /\ fetch' \in [Fetcher -> FetchSt] /\ fetch'[f] = "write"
          /\ \A g \in Fetcher \ {f} : fetch'[g] = fetch[g]
      BY <1>2, FetchGoes DEF ScFileTypes, FetchSt
    <2>2. ScFileTypes'
      BY <1>1, <1>2, <2>1 DEF ScFileTypes
    <2>3. Sound'
      BY <1>1, <1>2, <2>1 DEF Sound, scProxy
    <2> QED
      BY <1>1, <2>1, <2>2, <2>3, FetchRest
  <1>3. CASE Fetches(f, "failed") /\ UNCHANGED binary
    <2>1. /\ fetch' \in [Fetcher -> FetchSt] /\ fetch'[f] = "failed"
          /\ \A g \in Fetcher \ {f} : fetch'[g] = fetch[g]
      BY <1>3, FetchGoes DEF ScFileTypes, FetchSt
    <2>2. ScFileTypes'
      BY <1>1, <1>3, <2>1 DEF ScFileTypes
    <2>3. Sound'
      BY <1>1, <1>3, <2>1 DEF Sound, scProxy
    <2> QED
      BY <1>1, <2>1, <2>2, <2>3, FetchRest
  <1> QED
    BY <1>2, <1>3 DEF FetchGets

LEMMA FetchWritesOK == ASSUME ScInv, NEW f \in Fetcher, FetchWrites(f) PROVE ScInv'
  <1> USE DEF ScInv
  <1>1. fetch[f] = "write" /\ UNCHANGED <<scProxy, baked, login, boots>>
    BY DEF FetchWrites
  <1>2. CASE binary' = (IF Writers = {f} THEN "whole" ELSE binary) /\ Fetches(f, "have") /\ UNCHANGED spoilt
    <2>1. /\ fetch' \in [Fetcher -> FetchSt] /\ fetch'[f] = "have"
          /\ \A g \in Fetcher \ {f} : fetch'[g] = fetch[g]
      BY <1>2, FetchGoes DEF ScFileTypes, FetchSt
    <2>2. ScFileTypes'
      BY <1>2, <2>1 DEF ScFileTypes
    <2>3. Sound'
      <3> SUFFICES ASSUME ~spoilt PROVE Sound'
        BY <1>2 DEF Sound
      <3>1. Writers = {f} /\ \A g \in Fetcher \ {f} : fetch[g] \notin {"get", "write"}
        BY <1>1 DEF Sound, Writers
      <3>2. binary' = "whole"
        BY <1>2, <3>1
      <3> QED
        BY <1>1, <1>2, <2>1, <3>1, <3>2 DEF Sound, scProxy
    <2> QED
      BY <1>1, <1>2, <2>1, <2>2, <2>3, FetchRest
  <1>3. CASE Fetches(f, "failed") /\ spoilt' = TRUE /\ UNCHANGED binary
    <2>1. /\ fetch' \in [Fetcher -> FetchSt] /\ fetch'[f] = "failed"
          /\ \A g \in Fetcher \ {f} : fetch'[g] = fetch[g]
      BY <1>3, FetchGoes DEF ScFileTypes, FetchSt
    <2>2. spoilt' \in BOOLEAN /\ spoilt'
      BY <1>3
    <2>3. ScFileTypes' /\ Sound'
      BY <1>1, <1>3, <2>1, <2>2 DEF ScFileTypes, Sound
    <2> QED
      BY <1>1, <2>1, <2>2, <2>3, FetchRest
  <1> QED
    BY <1>2, <1>3 DEF FetchWrites

\* A start goes on, and the others stay.
LEMMA CallGoes ==
    ASSUME calls \in [Starter -> CallRec], NEW c \in Starter, NEW to \in {"idle", "fetch", "publish", "done"}, Calls(c, to)
    PROVE  /\ calls' \in [Starter -> CallRec] /\ calls'[c].pc = to /\ calls'[c].port = calls[c].port
           /\ \A d \in Starter \ {c} : calls'[d] = calls[d]
  BY DEF Calls, CallRec

LEMMA StartCalledOK == ASSUME ScInv, NEW c \in Starter, StartCalled(c) PROVE ScInv'
  <1> USE DEF ScInv
  <1>1. /\ calls[c].pc = "idle"
        /\ UNCHANGED <<binary, port, config, taken, super, child, baked, login, boots, spoilt>>
    BY DEF StartCalled
  <1>2. CASE started
    <2>1. /\ calls' \in [Starter -> CallRec] /\ calls'[c].pc = "done"
          /\ \A d \in Starter \ {c} : calls'[d] = calls[d]
          /\ UNCHANGED <<started, fetch>>
      BY <1>2, CallGoes DEF StartCalled, ScProxyTypes
    <2>2. ScFileTypes' /\ ScProxyTypes' /\ LoginsFit'
      BY <1>1, <2>1 DEF ScFileTypes, ScProxyTypes, LoginsFit
    <2>3. OneStart'
      BY <1>1, <2>1 DEF OneStart
    <2>4. AtPort' /\ Sound'
      BY <1>1, <2>1 DEF AtPort, Sound
    <2>5. StartedIsSupervised'
      BY <1>1, <2>1 DEF StartedIsSupervised
    <2> QED
      BY <2>2, <2>3, <2>4, <2>5
  <1>3. CASE ~started
    <2>1. Calls(c, "fetch") /\ Fetches(c, "look") /\ started' = TRUE
      BY <1>3 DEF StartCalled, Marked
    <2>2. /\ calls' \in [Starter -> CallRec] /\ calls'[c].pc = "fetch"
          /\ \A d \in Starter \ {c} : calls'[d] = calls[d]
      BY <2>1, CallGoes DEF ScProxyTypes
    <2>3. /\ fetch' \in [Fetcher -> FetchSt] /\ fetch'[c] = "look"
          /\ \A g \in Fetcher \ {c} : fetch'[g] = fetch[g]
      BY <2>1, FetchGoes DEF ScFileTypes, FetchSt, Fetcher
    <2>4. started' \in BOOLEAN /\ started'
      BY <2>1
    <2>5. \A d \in Starter : calls[d].pc \notin {"fetch", "publish"}
      BY <1>3 DEF OneStart
    <2>6. port = 0 /\ fetch[c] = "idle" /\ c \in Fetcher
      BY <1>1, <1>3 DEF OneStart, Fetcher
    <2>7. ScFileTypes' /\ ScProxyTypes' /\ LoginsFit'
      BY <1>1, <2>2, <2>3, <2>4 DEF ScFileTypes, ScProxyTypes, LoginsFit
    <2>8. OneStart'
      BY <1>1, <2>2, <2>3, <2>4, <2>5, <2>6 DEF OneStart, Fetcher
    <2>9. AtPort'
      BY <1>1 DEF AtPort
    <2>10. Sound'
      BY <1>1, <2>2, <2>3, <2>6 DEF Sound
    <2>11. StartedIsSupervised'
      BY <2>2 DEF StartedIsSupervised
    <2> QED
      BY <2>7, <2>8, <2>9, <2>10, <2>11
  <1> QED
    BY <1>2, <1>3

LEMMA StartNoBinaryOK == ASSUME ScInv, NEW c \in Starter, StartNoBinary(c) PROVE ScInv'
  <1> USE DEF ScInv
  <1>1. /\ calls[c].pc = "fetch" /\ fetch[c] = "failed" /\ started' = FALSE /\ Calls(c, "idle") /\ Fetches(c, "idle")
        /\ UNCHANGED <<binary, port, config, taken, super, child, baked, login, boots, spoilt>>
    BY DEF StartNoBinary, NotStarted
  <1>2. /\ calls' \in [Starter -> CallRec] /\ calls'[c].pc = "idle"
        /\ \A d \in Starter \ {c} : calls'[d] = calls[d]
    BY <1>1, CallGoes DEF ScProxyTypes
  <1>3. /\ fetch' \in [Fetcher -> FetchSt] /\ fetch'[c] = "idle"
        /\ \A g \in Fetcher \ {c} : fetch'[g] = fetch[g]
    BY <1>1, FetchGoes DEF ScFileTypes, FetchSt, Fetcher
  <1>4. started' \in BOOLEAN /\ ~started'
    BY <1>1
  <1>5. port = 0 /\ c \in Fetcher /\ \A d \in Starter \ {c} : calls[d].pc \notin {"fetch", "publish"}
    BY <1>1 DEF OneStart, Fetcher
  <1>6. ScFileTypes' /\ ScProxyTypes' /\ LoginsFit'
    BY <1>1, <1>2, <1>3, <1>4 DEF ScFileTypes, ScProxyTypes, LoginsFit
  <1>7. OneStart'
    BY <1>1, <1>2, <1>3, <1>5 DEF OneStart, Fetcher
  <1>8. AtPort'
    BY <1>1 DEF AtPort
  <1>9. Sound'
    BY <1>1, <1>2, <1>3, <1>5 DEF Sound
  <1>10. StartedIsSupervised'
    BY <1>4 DEF StartedIsSupervised
  <1> QED
    BY <1>6, <1>7, <1>8, <1>9, <1>10

LEMMA StartConfiguresOK == ASSUME ScInv, NEW c \in Starter, StartConfigures(c) PROVE ScInv'
  <1> USE DEF ScInv
  <1>1. /\ calls[c].pc = "fetch" /\ fetch[c] = "have" /\ Fetches(c, "idle")
        /\ UNCHANGED <<binary, started, port, super, child, baked, login, boots>>
    BY DEF StartConfigures
  <1>2. /\ fetch' \in [Fetcher -> FetchSt] /\ fetch'[c] = "idle"
        /\ \A g \in Fetcher \ {c} : fetch'[g] = fetch[g]
    BY <1>1, FetchGoes DEF ScFileTypes, FetchSt, Fetcher
  <1>3. /\ started /\ port = 0 /\ super = "off" /\ child = 0 /\ c \in Fetcher
        /\ \A d \in Starter \ {c} : calls[d].pc \notin {"fetch", "publish"}
    BY <1>1 DEF OneStart, AtPort, Fetcher
  <1>4. CASE /\ taken < Ports /\ taken' = taken + 1 /\ config' = taken + 1
             /\ calls' = [calls EXCEPT ![c] = [pc |-> "publish", port |-> taken + 1]] /\ UNCHANGED spoilt
    <2>1. taken + 1 \in 0..Ports /\ taken + 1 # 0
      BY <1>4, SidecarAssumption DEF ScProxyTypes
    <2>2. /\ calls' \in [Starter -> CallRec] /\ calls'[c].pc = "publish" /\ calls'[c].port = taken + 1
          /\ \A d \in Starter \ {c} : calls'[d] = calls[d]
      BY <1>4, <2>1 DEF ScProxyTypes, CallRec
    <2>3. ScFileTypes' /\ ScProxyTypes' /\ LoginsFit'
      BY <1>1, <1>2, <1>4, <2>1, <2>2 DEF ScFileTypes, ScProxyTypes, LoginsFit
    <2>4. OneStart'
      BY <1>1, <1>2, <1>3, <1>4, <2>1, <2>2 DEF OneStart, Fetcher
    <2>5. AtPort'
      BY <1>1, <1>3 DEF AtPort
    <2>6. Sound'
      BY <1>1, <1>2, <1>3, <1>4, <2>2 DEF Sound
    <2>7. StartedIsSupervised'
      BY <2>2 DEF StartedIsSupervised
    <2> QED
      BY <2>3, <2>4, <2>5, <2>6, <2>7
  <1>5. CASE Calls(c, "done") /\ spoilt' = TRUE /\ UNCHANGED <<taken, config>>
    <2>1. /\ calls' \in [Starter -> CallRec] /\ calls'[c].pc = "done"
          /\ \A d \in Starter \ {c} : calls'[d] = calls[d]
      BY <1>5, CallGoes DEF ScProxyTypes
    <2>2. spoilt' \in BOOLEAN /\ spoilt'
      BY <1>5
    <2>3. ScFileTypes' /\ ScProxyTypes' /\ LoginsFit'
      BY <1>1, <1>2, <1>5, <2>1, <2>2 DEF ScFileTypes, ScProxyTypes, LoginsFit
    <2>4. OneStart'
      BY <1>1, <1>2, <1>3, <1>5, <2>1 DEF OneStart, Fetcher
    <2>5. AtPort' /\ Sound' /\ StartedIsSupervised'
      BY <1>1, <1>3, <1>5, <2>2 DEF AtPort, Sound, StartedIsSupervised
    <2> QED
      BY <2>3, <2>4, <2>5
  <1> QED
    BY <1>4, <1>5 DEF StartConfigures

LEMMA StartPublishesOK == ASSUME ScInv, NEW c \in Starter, StartPublishes(c) PROVE ScInv'
  <1> USE DEF ScInv
  <1>1. /\ calls[c].pc = "publish" /\ port' = calls[c].port /\ Calls(c, "done")
        /\ super' = (IF super = "off" THEN "launch" ELSE super)
        /\ UNCHANGED <<scFiles, started, config, taken, child, baked, login, boots, spoilt>>
    BY DEF StartPublishes
  <1>2. /\ calls' \in [Starter -> CallRec] /\ calls'[c].pc = "done"
        /\ \A d \in Starter \ {c} : calls'[d] = calls[d]
    BY <1>1, CallGoes DEF ScProxyTypes
  <1>3. /\ started /\ port = 0 /\ super = "off" /\ super' = "launch" /\ port' = config /\ config # 0
        /\ \A d \in Starter \ {c} : calls[d].pc \notin {"fetch", "publish"}
    BY <1>1 DEF OneStart, AtPort
  <1>4. ScFileTypes' /\ ScProxyTypes' /\ LoginsFit'
    BY <1>1, <1>2, <1>3 DEF ScFileTypes, ScProxyTypes, LoginsFit, scFiles
  <1>5. OneStart'
    BY <1>1, <1>2, <1>3 DEF OneStart, scFiles
  <1>6. AtPort'
    BY <1>1, <1>3 DEF AtPort
  <1>7. Sound'
    BY <1>1, <1>2, <1>3 DEF Sound, scFiles
  <1>8. StartedIsSupervised'
    BY <1>3 DEF StartedIsSupervised
  <1> QED
    BY <1>4, <1>5, <1>6, <1>7, <1>8

\* The supervisor: it runs what the port and the binary are.
LEMMA SuperviseOK == ASSUME ScInv, Launches \/ ProxyDies \/ BacksOff PROVE ScInv'
  <1> USE DEF ScInv
  <1>1. /\ UNCHANGED <<scFiles, calls, started, port, config, taken, baked, login, boots, spoilt>>
        /\ super # "off" /\ super' \in {"launch", "up", "rest", "gone"}
        /\ child' \in {0, config, child} /\ (child' # 0 => super' = "up" /\ child' = config)
    BY DEF Launches, ProxyDies, BacksOff, AtPort
  <1>2. ~spoilt => super' # "gone"
    <2>1. ~spoilt => binary = "whole" /\ Writers = {}
      BY <1>1 DEF Sound, Writers
    <2> QED
      BY <2>1 DEF Launches, ProxyDies, BacksOff
  <1>3. ScFileTypes' /\ ScProxyTypes' /\ LoginsFit'
    <2>1. child' \in 0..Ports
      BY <1>1, SidecarAssumption DEF ScProxyTypes
    <2>2. ScProxyTypes'
      BY <1>1, <2>1 DEF ScProxyTypes
    <2> QED
      BY <1>1, <2>2 DEF ScFileTypes, LoginsFit, scFiles
  <1>4. OneStart' /\ AtPort'
    BY <1>1 DEF OneStart, AtPort, scFiles
  <1>5. Sound'
    BY <1>1, <1>2 DEF Sound, scFiles
  <1>6. StartedIsSupervised'
    BY <1>1, <1>2 DEF StartedIsSupervised
  <1> QED
    BY <1>3, <1>4, <1>5, <1>6

LEMMA BakesOK == ASSUME ScInv, NEW k \in Asker, Bakes(k) PROVE ScInv'
  <1> USE DEF ScInv
  <1>1. port # 0 /\ baked' = [baked EXCEPT ![k] = port] /\ UNCHANGED <<scFiles, scProxy, login, boots, spoilt>>
    BY DEF Bakes
  <1>2. baked' \in [Asker -> 0..Ports] /\ \A j \in Asker : baked'[j] # 0 => baked'[j] = port
    BY <1>1 DEF ScProxyTypes, AtPort
  <1>3. ScFileTypes' /\ ScProxyTypes' /\ LoginsFit' /\ AtPort'
    BY <1>1, <1>2 DEF ScFileTypes, ScProxyTypes, LoginsFit, AtPort, scFiles, scProxy
  <1>4. OneStart' /\ Sound' /\ StartedIsSupervised'
    BY <1>1 DEF OneStart, Sound, StartedIsSupervised, scFiles, scProxy
  <1> QED
    BY <1>3, <1>4

LEMMA RebootsOK == ASSUME ScInv, Reboots PROVE ScInv'
  <1> USE DEF ScInv
  <1>1. /\ fetch' = [f \in Fetcher |-> "idle"] /\ calls' = [c \in Starter |-> NoCall]
        /\ started' = FALSE /\ port' = 0 /\ super' = "off" /\ child' = 0
        /\ baked' = [k \in Asker |-> 0] /\ login' = [s \in Signer |-> NoLogin]
        /\ boots < KunaiRestarts /\ boots' = boots + 1 /\ spoilt' = (binary = "part")
        /\ UNCHANGED <<binary, config, taken>>
    BY DEF Reboots
  <1>2. started' \in BOOLEAN /\ ~started' /\ spoilt' \in BOOLEAN /\ (~spoilt' => binary # "part")
    BY <1>1
  <1>3. NoCall \in CallRec /\ NoCall.pc = "idle"
    BY SidecarAssumption DEF NoCall, CallRec
  <1>4. boots' \in 0..KunaiRestarts /\ 0 \in 0..Ports
    BY <1>1, SidecarAssumption DEF ScProxyTypes
  <1>5. ScFileTypes'
    BY <1>1, <1>2 DEF ScFileTypes, FetchSt
  <1>6. ScProxyTypes'
    BY <1>1, <1>2, <1>3, <1>4 DEF ScProxyTypes
  <1>7. OneStart'
    BY <1>1, <1>3 DEF OneStart, Fetcher
  <1>8. AtPort' /\ StartedIsSupervised'
    BY <1>1, <1>2 DEF AtPort, StartedIsSupervised
  <1>9. Sound'
    BY <1>1, <1>2, <1>3 DEF Sound
  <1>10. LoginsFit'
    BY <1>1 DEF LoginsFit, LoginFits, LoginRec, NoLogin
  <1> QED
    BY <1>5, <1>6, <1>7, <1>8, <1>9, <1>10

-----------------------------------------------------------------------------
(* Logins *)

\* A login that goes on as it should disturbs nothing else, and the proxy's
\* download only through the fetch of its own.
LEMMA LoginOK ==
    ASSUME ScInv, NEW s \in Signer, NEW l, Signs(s, l), LoginFits(l), UNCHANGED <<binary, scProxy, baked, boots, spoilt>>,
           \/ UNCHANGED fetch
           \/ fetch[s] \in {"idle", "have", "failed"} /\ \E to \in {"idle", "look"} : Fetches(s, to)
    PROVE  ScInv'
  <1> USE DEF ScInv
  <1>1. LoginsFit'
    <2>1. login' \in [Signer -> LoginRec] /\ login'[s] = l /\ \A r \in Signer \ {s} : login'[r] = login[r]
      BY DEF Signs, LoginsFit, LoginFits
    <2> QED
      BY <2>1 DEF LoginsFit
  <1>2. ScProxyTypes' /\ AtPort' /\ StartedIsSupervised'
    BY DEF ScProxyTypes, AtPort, StartedIsSupervised, scProxy
  <1>3. CASE UNCHANGED fetch
    BY <1>1, <1>2, <1>3 DEF ScFileTypes, OneStart, Sound, scProxy
  <1>4. ASSUME NEW to \in {"idle", "look"}, Fetches(s, to), fetch[s] \in {"idle", "have", "failed"} PROVE ScInv'
    <2>1. /\ fetch' \in [Fetcher -> FetchSt] /\ fetch'[s] = to /\ s \in Fetcher /\ s \notin Starter
          /\ \A g \in Fetcher \ {s} : fetch'[g] = fetch[g]
      BY <1>4, FetchGoes, SidecarAssumption DEF ScFileTypes, FetchSt, Fetcher
    <2>2. ScFileTypes'
      BY <2>1 DEF ScFileTypes
    <2>3. OneStart'
      BY <2>1 DEF OneStart, scProxy, Fetcher
    <2>4. Sound'
      BY <1>4, <2>1 DEF Sound, scProxy
    <2> QED
      BY <1>1, <1>2, <2>2, <2>3, <2>4
  <1> QED
    BY <1>3, <1>4

LEMMA LoginBeginsOK == ASSUME ScInv, NEW s \in Signer, LoginCalled(s) \/ LoginLaunches(s) PROVE ScInv'
  <1>0. LoginFits(login[s])
    BY DEF ScInv, LoginsFit
  <1>1. CASE LoginCalled(s)
    <2>1. LoginFits([NoLogin EXCEPT !.st = "fetch"])
      BY DEF LoginFits, LoginRec, NoLogin
    <2> QED
      BY <1>1, <2>1, LoginOK DEF LoginCalled
  <1>2. CASE LoginLaunches(s)
    <2> DEFINE up == [login[s] EXCEPT !.st = "url", !.proc = "runs"]
               no == [login[s] EXCEPT !.st = "over", !.told = "failed"]
    <2>1. LoginFits(up) /\ LoginFits(no)
      BY <1>0, <1>2 DEF LoginFits, LoginRec, LoginLaunches
    <2>2. \E l \in {up, no} : Signs(s, l)
      BY <1>2 DEF LoginLaunches
    <2> HIDE DEF up, no
    <2>3. UNCHANGED <<binary, scProxy, baked, boots, spoilt>> /\ fetch[s] \in {"have", "failed"} /\ Fetches(s, "idle")
      BY <1>2 DEF LoginLaunches
    <2> QED
      BY <2>1, <2>2, <2>3, LoginOK
  <1> QED
    BY <1>1, <1>2

LEMMA LoginGoesOK ==
    ASSUME ScInv, NEW s \in Signer,
           \/ LoginShows(s) \/ LoginGivesUp(s) \/ LoginExits(s)
           \/ LoginFinish(s) \/ LoginUndelivered(s) \/ LoginAwaited(s) \/ LoginCancel(s)
    PROVE  ScInv'
  <1>0. LoginFits(login[s])
    BY DEF ScInv, LoginsFit
  <1> SUFFICES \E l : Signs(s, l) /\ LoginFits(l) /\ UNCHANGED <<binary, fetch, scProxy, baked, boots, spoilt>>
    BY LoginOK
  <1>1. CASE LoginShows(s)
    BY <1>0, <1>1 DEF LoginShows, LoginFits, LoginRec, scFiles
  <1>2. CASE LoginGivesUp(s)
    BY <1>0, <1>2 DEF LoginGivesUp, SidecarKilled, LoginFits, LoginRec, scFiles
  <1>3. CASE LoginExits(s)
    BY <1>0, <1>3 DEF LoginExits, LoginFits, LoginRec, scFiles
  <1>4. CASE LoginFinish(s)
    BY <1>0, <1>4 DEF LoginFinish, LoginFits, LoginRec, scFiles
  <1>5. CASE LoginUndelivered(s)
    BY <1>0, <1>5 DEF LoginUndelivered, LoginFits, LoginRec, scFiles
  <1>6. CASE LoginAwaited(s)
    BY <1>0, <1>6 DEF LoginAwaited, Tells, LoginFits, LoginRec, scFiles
  <1>7. CASE LoginCancel(s)
    BY <1>0, <1>7 DEF LoginCancel, SidecarKilled, LoginFits, LoginRec, scFiles
  <1> QED
    BY <1>1, <1>2, <1>3, <1>4, <1>5, <1>6, <1>7

LEMMA ScStepOK == ScInv /\ [ScNext]_scVars => ScInv'
  <1> SUFFICES ASSUME ScInv, [ScNext]_scVars PROVE ScInv'
    OBVIOUS
  <1>1. CASE UNCHANGED scVars
    BY <1>1 DEF scVars, scFiles, scProxy, ScInv, ScFileTypes, ScProxyTypes, OneStart, AtPort, Sound, StartedIsSupervised, LoginsFit
  <1> QED
    BY <1>1, FetchLooksOK, FetchGetsOK, FetchWritesOK, StartCalledOK, StartNoBinaryOK, StartConfiguresOK, StartPublishesOK,
       SuperviseOK, BakesOK, RebootsOK, LoginBeginsOK, LoginGoesOK DEF ScNext

LEMMA ScInvMeans == ScInv => ScTypeOK /\ SidecarServes
  <1> SUFFICES ASSUME ScInv PROVE SidecarServes
    BY ScTyped DEF ScInv
  <1>1. BakedIsServed
    BY DEF ScInv, BakedIsServed, AtPort, OneStart
  <1>2. LoginsCanBeEnded /\ FinishIsTrue
    BY DEF ScInv, LoginsFit, LoginFits, LoginsCanBeEnded, FinishIsTrue
  <1> QED
    BY <1>1, <1>2 DEF ScInv, SidecarServes

\* A profile that names the sidecar names where it is, a start that failed can be
\* tried again, and a sign-in with it can be ended and is told as it went.
THEOREM SidecarAlwaysServes == ScSpec => [](ScTypeOK /\ SidecarServes)
  BY ScInvMeans, ScInitOK, ScStepOK, PTL DEF ScSpec

-----------------------------------------------------------------------------
(* kunai's own sign-in: one attempt, one login. *)

\* The types one by one.
Starts == [st : {"none", "cancel", "list", "over"}, prior : SUBSET Attempt]
Flows == [done : BOOLEAN, err : {"none", "failed", "cancelled"}, once : {"free", "runs", "ran"}, saved : BOOLEAN]
Pastes == [on : Attempt \cup {NoAttempt}, st : {"none", "exchanges", "waits", "ok", "failed"}]

NlEach ==
    /\ starts \in [Attempt -> Starts] /\ attempts \subseteq Attempt /\ flow \in [Attempt -> Flows]
    /\ callback \in Attempt \cup {NoAttempt} /\ pastes \in [Paste -> Pastes]
    /\ shown \in [Attempt -> {"nothing", "gone", "waiting", "none", "failed", "cancelled"}]

\* An exchange that ran has settled its flow, and a flow that is settled with
\* no error was saved; it never holds the port again.
Outcomes ==
    \A f \in Attempt :
        /\ flow[f].saved => flow[f].once = "ran"
        /\ flow[f].once = "ran" => flow[f].done
        /\ flow[f].done /\ flow[f].err = "none" => flow[f].saved
        /\ flow[f].done => callback # f

\* Who can be found, settled, or called back has been started.
Known ==
    /\ \A f \in Attempt : flow[f].done \/ flow[f].once # "free" \/ callback = f => starts[f].st \in {"list", "over"}
    /\ \A f \in attempts : starts[f].st = "over"
    /\ \A a \in Attempt : \A f \in starts[a].prior : starts[f].st = "over"
    /\ \A p \in Paste : pastes[p].st # "none" => pastes[p].on \in Attempt

NlInv == NlEach /\ Outcomes /\ Known /\ AddedIsSaved /\ PortComesBack

LEMMA NlTyped == NlEach => NlTypeOK
  BY DEF NlEach, NlTypeOK, Starts, Flows, Pastes

LEMMA NlInitOK == NlInit => NlInv
  <1> SUFFICES ASSUME NlInit PROVE NlInv
    OBVIOUS
  <1>1. NlEach
    BY DEF NlInit, NlEach, Starts, Flows, Pastes, NoFlow, NoPaste
  <1>2. Outcomes /\ Known /\ AddedIsSaved /\ PortComesBack
    BY NativeLoginAssumption DEF NlInit, Outcomes, Known, AddedIsSaved, PortComesBack, NoFlow, NoPaste
  <1> QED
    BY <1>1, <1>2 DEF NlInv

\* The first result stays, and nothing else of the flow changes.
LEMMA Settles ==
    ASSUME flow \in [Attempt -> Flows], NEW f \in Attempt, NEW err \in {"none", "failed", "cancelled"}
    PROVE  /\ Settled(f, err) \in Flows
           /\ Settled(f, err).done = TRUE
           /\ Settled(f, err).err = IF flow[f].done THEN flow[f].err ELSE err
           /\ Settled(f, err).once = flow[f].once
           /\ Settled(f, err).saved = flow[f].saved
  BY DEF Settled, Flows

\* A flow that is given up is settled and lets go of the port.
LEMMA NlCancelOK ==
    ASSUME NlEach, Outcomes, NEW f \in Attempt, starts[f].st \in {"list", "over"},
           callback' = FreedByCancel({f}), flow' = [flow EXCEPT ![f] = Settled(f, "cancelled")]
    PROVE  /\ flow' \in [Attempt -> Flows] /\ callback' \in Attempt \cup {NoAttempt}
           /\ callback' # f /\ (callback' = callback \/ callback' = NoAttempt)
           /\ \A g \in Attempt : flow'[g].once = flow[g].once /\ flow'[g].saved = flow[g].saved
           /\ \A g \in Attempt \ {f} : flow'[g] = flow[g]
           /\ Outcomes'
  <1>1. /\ flow' \in [Attempt -> Flows] /\ flow'[f] = Settled(f, "cancelled")
        /\ \A g \in Attempt \ {f} : flow'[g] = flow[g]
    BY Settles DEF NlEach
  <1>2. /\ callback' \in Attempt \cup {NoAttempt} /\ callback' # f
        /\ callback' = callback \/ callback' = NoAttempt
    BY NativeLoginAssumption DEF FreedByCancel, Freed, NlEach
  <1>3. /\ flow'[f].once = flow[f].once /\ flow'[f].saved = flow[f].saved
        /\ flow'[f].err = IF flow[f].done THEN flow[f].err ELSE "cancelled"
        /\ flow'[f].done
    BY <1>1, Settles DEF NlEach
  <1>4. Outcomes'
    BY <1>1, <1>2, <1>3, NativeLoginAssumption DEF Outcomes
  <1> QED
    BY <1>1, <1>2, <1>3, <1>4

LEMMA StartTakesOK == ASSUME NlInv, NEW a \in Attempt, StartTakes(a) PROVE NlInv'
  <1> USE DEF NlInv
  <1>1. /\ starts[a].st = "none" /\ attempts' = {} /\ UNCHANGED <<flow, callback, pastes, shown>>
        /\ starts' = [starts EXCEPT ![a] = [st |-> "cancel", prior |-> attempts]]
    BY DEF StartTakes
  <1>2. /\ starts' \in [Attempt -> Starts] /\ starts'[a].st = "cancel" /\ starts'[a].prior = attempts
        /\ \A b \in Attempt \ {a} : starts'[b] = starts[b]
    BY <1>1 DEF NlEach, Starts
  <1>3. NlEach'
    BY <1>1, <1>2 DEF NlEach
  <1>4. Outcomes' /\ AddedIsSaved'
    BY <1>1 DEF Outcomes, AddedIsSaved
  <1>5. Known'
    BY <1>1, <1>2 DEF Known, NlEach
  <1>6. PortComesBack'
    BY <1>1, <1>2 DEF PortComesBack, NlEach
  <1> QED
    BY <1>3, <1>4, <1>5, <1>6

LEMMA StartCancelsOK == ASSUME NlInv, NEW a \in Attempt, StartCancels(a) PROVE NlInv'
  <1> USE DEF NlInv
  <1>1. PICK f \in starts[a].prior :
            /\ starts[a].st = "cancel" /\ starts' = [starts EXCEPT ![a].prior = @ \ {f}]
            /\ callback' = FreedByCancel({f}) /\ flow' = [flow EXCEPT ![f] = Settled(f, "cancelled")]
            /\ UNCHANGED <<attempts, pastes, shown>>
    BY DEF StartCancels
  <1>2. f \in Attempt /\ starts[f].st = "over"
    BY DEF NlEach, Starts, Known
  <1>3. /\ starts' \in [Attempt -> Starts] /\ starts'[a].prior = starts[a].prior \ {f}
        /\ \A b \in Attempt : starts'[b].st = starts[b].st
        /\ \A b \in Attempt \ {a} : starts'[b] = starts[b]
    BY <1>1 DEF NlEach, Starts
  <1>4. /\ flow' \in [Attempt -> Flows] /\ callback' \in Attempt \cup {NoAttempt}
        /\ callback' # f /\ (callback' = callback \/ callback' = NoAttempt)
        /\ \A g \in Attempt : flow'[g].once = flow[g].once /\ flow'[g].saved = flow[g].saved
        /\ \A g \in Attempt \ {f} : flow'[g] = flow[g]
        /\ Outcomes'
    BY <1>1, <1>2, NlCancelOK
  <1>5. NlEach'
    BY <1>1, <1>3, <1>4 DEF NlEach
  <1>6. Known'
    <2>1. \A g \in Attempt : flow'[g].done \/ flow'[g].once # "free" \/ callback' = g => starts'[g].st \in {"list", "over"}
      BY <1>2, <1>3, <1>4, NativeLoginAssumption DEF Known
    <2>2. \A b \in Attempt : \A g \in starts'[b].prior : starts'[g].st = "over"
      <3> SUFFICES ASSUME NEW b \in Attempt, NEW g \in starts'[b].prior PROVE starts'[g].st = "over"
        OBVIOUS
      <3>1. g \in starts[b].prior /\ g \in Attempt
        BY <1>3 DEF NlEach, Starts
      <3> QED
        BY <1>3, <3>1 DEF Known
    <2> QED
      BY <1>1, <1>3, <2>1, <2>2 DEF Known, NlEach
  <1>7. AddedIsSaved'
    BY <1>1, <1>4 DEF AddedIsSaved, NlEach, Known, Pastes
  <1>8. PortComesBack'
    <2> SUFFICES ASSUME callback' # NoAttempt PROVE PortComesBack'
      BY DEF PortComesBack
    <2>1. callback' = callback /\ callback # f /\ callback \in Attempt
      BY <1>4 DEF NlEach
    <2>2. \A b \in Attempt : callback \in starts[b].prior => callback \in starts'[b].prior
      BY <1>3, <2>1
    <2>3. callback \in attempts \/ starts[callback].st = "list" \/ flow[callback].once = "runs"
          \/ \E b \in Attempt : starts[b].st = "cancel" /\ callback \in starts[b].prior
      BY <2>1, NativeLoginAssumption DEF PortComesBack
    <2>4. callback \in attempts \/ starts'[callback].st = "list" \/ flow'[callback].once = "runs"
          \/ \E b \in Attempt : starts'[b].st = "cancel" /\ callback \in starts'[b].prior
      BY <1>3, <1>4, <2>1, <2>2, <2>3
    <2> QED
      BY <1>1, <2>1, <2>4 DEF PortComesBack
  <1> QED
    BY <1>4, <1>5, <1>6, <1>7, <1>8

LEMMA StartBindsOK == ASSUME NlInv, NEW a \in Attempt, StartBinds(a) PROVE NlInv'
  <1> USE DEF NlInv
  <1>1. /\ starts[a].st = "cancel" /\ starts[a].prior = {} /\ starts' = [starts EXCEPT ![a].st = "list"]
        /\ callback' = (IF callback = NoAttempt THEN a ELSE callback)
        /\ UNCHANGED <<attempts, flow, pastes, shown>>
    BY DEF StartBinds
  <1>2. /\ starts' \in [Attempt -> Starts] /\ starts'[a].st = "list"
        /\ \A b \in Attempt : starts'[b].prior = starts[b].prior
        /\ \A b \in Attempt \ {a} : starts'[b] = starts[b]
    BY <1>1 DEF NlEach, Starts
  <1>3. NlEach'
    BY <1>1, <1>2 DEF NlEach
  <1>4. Outcomes' /\ AddedIsSaved'
    BY <1>1 DEF Outcomes, AddedIsSaved, Known
  <1>5. Known'
    <2>1. \A b \in Attempt : \A g \in starts'[b].prior : g \in Attempt /\ g # a /\ g \in starts[b].prior
      BY <1>1, <1>2 DEF Known, NlEach, Starts
    <2>2. \A b \in Attempt : \A g \in starts'[b].prior : starts'[g].st = "over"
      BY <1>2, <2>1 DEF Known
    <2> QED
      BY <1>1, <1>2, <2>2 DEF Known, NlEach
  <1>6. PortComesBack'
    BY <1>1, <1>2 DEF PortComesBack, NlEach
  <1> QED
    BY <1>3, <1>4, <1>5, <1>6

LEMMA StartListsOK == ASSUME NlInv, NEW a \in Attempt, StartLists(a) PROVE NlInv'
  <1> USE DEF NlInv
  <1>1. /\ starts[a].st = "list" /\ starts' = [starts EXCEPT ![a].st = "over"]
        /\ attempts' = attempts \cup {a} /\ UNCHANGED <<flow, callback, pastes, shown>>
    BY DEF StartLists
  <1>2. /\ starts' \in [Attempt -> Starts] /\ starts'[a].st = "over"
        /\ \A b \in Attempt : starts'[b].prior = starts[b].prior
        /\ \A b \in Attempt \ {a} : starts'[b] = starts[b]
    BY <1>1 DEF NlEach, Starts
  <1>3. NlEach'
    BY <1>1, <1>2 DEF NlEach
  <1>4. Outcomes' /\ AddedIsSaved'
    BY <1>1 DEF Outcomes, AddedIsSaved
  <1>5. Known'
    <2>1. \A b \in Attempt : \A g \in starts'[b].prior : g \in Attempt /\ g # a /\ g \in starts[b].prior
      BY <1>1, <1>2 DEF Known, NlEach, Starts
    <2>2. \A b \in Attempt : \A g \in starts'[b].prior : starts'[g].st = "over"
      BY <1>2, <2>1 DEF Known
    <2> QED
      BY <1>1, <1>2, <2>2 DEF Known, NlEach
  <1>6. PortComesBack'
    <2>1. \A b \in Attempt : starts[b].st = "cancel" => starts'[b].st = "cancel"
      BY <1>1, <1>2
    <2> QED
      BY <1>1, <1>2, <2>1 DEF PortComesBack, NlEach
  <1> QED
    BY <1>3, <1>4, <1>5, <1>6

\* An exchange begins on a flow that was started.
LEMMA ExchangesOK ==
    ASSUME NlInv, NEW f \in Attempt, Exchanges(f), flow[f].once = "free", callback = f \/ f \in attempts
    PROVE  /\ flow' \in [Attempt -> Flows] /\ flow'[f].once = "runs"
           /\ \A g \in Attempt : /\ flow'[g].saved = flow[g].saved /\ flow'[g].done = flow[g].done
                                  /\ flow'[g].err = flow[g].err
           /\ \A g \in Attempt \ {f} : flow'[g] = flow[g]
           /\ starts[f].st \in {"list", "over"} /\ ~flow[f].saved
  BY DEF NlInv, NlEach, Exchanges, Flows, Known, Outcomes

LEMMA CalledBackOK == ASSUME NlInv, NEW f \in Attempt, CalledBack(f) PROVE NlInv'
  <1> USE DEF NlInv
  <1>1. callback = f /\ flow[f].once = "free" /\ Exchanges(f) /\ UNCHANGED <<starts, attempts, callback, pastes, shown>>
    BY DEF CalledBack
  <1>2. /\ flow' \in [Attempt -> Flows] /\ flow'[f].once = "runs"
        /\ \A g \in Attempt : /\ flow'[g].saved = flow[g].saved /\ flow'[g].done = flow[g].done
                               /\ flow'[g].err = flow[g].err
        /\ \A g \in Attempt \ {f} : flow'[g] = flow[g]
        /\ starts[f].st \in {"list", "over"} /\ ~flow[f].saved
    BY <1>1, ExchangesOK
  <1>3. NlEach'
    BY <1>1, <1>2 DEF NlEach
  <1>4. Outcomes' /\ Known'
    BY <1>1, <1>2 DEF Outcomes, Known
  <1>5. AddedIsSaved'
    BY <1>1, <1>2 DEF AddedIsSaved, Known
  <1>6. PortComesBack'
    BY <1>1, <1>2 DEF PortComesBack
  <1> QED
    BY <1>3, <1>4, <1>5, <1>6

LEMMA PasteArrivesOK == ASSUME NlInv, NEW p \in Paste, NEW f \in Attempt, PasteArrives(p, f) PROVE NlInv'
  <1> USE DEF NlInv
  <1>1. f \in attempts /\ pastes[p].st = "none" /\ UNCHANGED <<starts, attempts, callback, shown>>
    BY DEF PasteArrives, NoPaste
  <1>2. /\ pastes' \in [Paste -> Pastes] /\ pastes'[p].on = f /\ pastes'[p].st \in {"exchanges", "waits"}
        /\ \A q \in Paste \ {p} : pastes'[q] = pastes[q]
    <2>1. PICK r \in {[on |-> f, st |-> "exchanges"], [on |-> f, st |-> "waits"]} : pastes' = [pastes EXCEPT ![p] = r]
      BY DEF PasteArrives
    <2>2. r \in Pastes /\ r.on = f /\ r.st \in {"exchanges", "waits"}
      BY DEF Pastes
    <2> QED
      BY <2>1, <2>2 DEF NlEach
  <1>3. /\ flow' \in [Attempt -> Flows]
        /\ \A g \in Attempt : /\ flow'[g].saved = flow[g].saved /\ flow'[g].done = flow[g].done
                               /\ flow'[g].err = flow[g].err
        /\ \A g \in Attempt \ {f} : flow'[g] = flow[g]
        /\ flow'[f].once = flow[f].once \/ (flow[f].once = "free" /\ flow'[f].once = "runs")
        /\ starts[f].st \in {"list", "over"}
    <2>1. CASE flow[f].once = "free"
      BY <1>1, <2>1, ExchangesOK DEF PasteArrives
    <2>2. CASE flow[f].once # "free"
      BY <1>1, <2>2 DEF PasteArrives, NlEach, Known
    <2> QED
      BY <2>1, <2>2
  <1>4. NlEach'
    BY <1>1, <1>2, <1>3 DEF NlEach
  <1>5. Outcomes' /\ Known'
    BY <1>1, <1>2, <1>3 DEF Outcomes, Known
  <1>6. AddedIsSaved'
    BY <1>1, <1>2, <1>3 DEF AddedIsSaved, Known
  <1>7. PortComesBack'
    BY <1>1, <1>3 DEF PortComesBack, NlEach
  <1> QED
    BY <1>4, <1>5, <1>6, <1>7

LEMMA ExchangeEndsOK == ASSUME NlInv, NEW f \in Attempt, ExchangeEnds(f) PROVE NlInv'
  <1> USE DEF NlInv
  <1>1. PICK err \in {"none", "failed"} :
          /\ flow' = [flow EXCEPT ![f] = [done |-> TRUE, err |-> Settled(f, err).err, once |-> "ran", saved |-> err = "none"]]
          /\ pastes' = [p \in Paste |-> IF pastes[p] = [on |-> f, st |-> "exchanges"]
                                        THEN [pastes[p] EXCEPT !.st = IF err = "none" THEN "ok" ELSE "failed"] ELSE pastes[p]]
          /\ attempts' = IF err = "none" /\ \E p \in Paste : pastes[p] = [on |-> f, st |-> "exchanges"] THEN attempts \ {f} ELSE attempts
    BY DEF ExchangeEnds
  <1>2. flow[f].once = "runs" /\ callback' = Freed({f}) /\ UNCHANGED <<starts, shown>>
    BY DEF ExchangeEnds
  <1>3. /\ callback' \in Attempt \cup {NoAttempt} /\ callback' # f
        /\ callback' = callback \/ callback' = NoAttempt
    BY <1>2, NativeLoginAssumption DEF Freed, NlEach
  <1>4. /\ flow' \in [Attempt -> Flows]
        /\ flow'[f].once = "ran" /\ flow'[f].saved = (err = "none") /\ flow'[f].done
        /\ flow'[f].err = IF flow[f].done THEN flow[f].err ELSE err
        /\ \A g \in Attempt \ {f} : flow'[g] = flow[g]
    <2>1. /\ Settled(f, err) \in Flows /\ Settled(f, err).done = TRUE
          /\ Settled(f, err).err = IF flow[f].done THEN flow[f].err ELSE err
      BY Settles DEF NlEach
    <2>2. PICK t \in Flows : /\ t.once = "ran" /\ t.saved = (err = "none") /\ t.done = TRUE /\ t.err = Settled(f, err).err
                             /\ flow' = [flow EXCEPT ![f] = t]
      <3>1. (err = "none") \in BOOLEAN
        OBVIOUS
      <3> QED
        BY <1>1, <2>1, <3>1 DEF Flows
    <2>3. flow' \in [Attempt -> Flows] /\ flow'[f] = t /\ \A g \in Attempt \ {f} : flow'[g] = flow[g]
      BY <2>2 DEF NlEach
    <2> QED
      BY <2>1, <2>2, <2>3
  <1>5. /\ attempts' \subseteq attempts /\ \A g \in attempts : g = f \/ g \in attempts'
    BY <1>1
  <1>6. /\ pastes' \in [Paste -> Pastes]
        /\ \A p \in Paste : /\ pastes'[p].on = pastes[p].on
                             /\ \/ pastes'[p] = pastes[p]
                                \/ pastes[p].on = f /\ pastes'[p].st = IF err = "none" THEN "ok" ELSE "failed"
    BY <1>1 DEF NlEach, Pastes
  <1>7. NlEach'
    BY <1>2, <1>3, <1>4, <1>5, <1>6 DEF NlEach
  <1>8. Outcomes'
    <2>1. flow[f].done /\ flow[f].err = "none" => FALSE
      BY <1>2 DEF Outcomes
    <2> QED
      BY <1>3, <1>4, <2>1, NativeLoginAssumption DEF Outcomes
  <1>9. Known'
    <2>1. \A g \in Attempt : flow'[g].done \/ flow'[g].once # "free" \/ callback' = g => starts'[g].st \in {"list", "over"}
      BY <1>2, <1>3, <1>4, NativeLoginAssumption DEF Known
    <2>2. \A p \in Paste : pastes'[p].st # "none" => pastes'[p].on \in Attempt
      BY <1>6 DEF Known
    <2> QED
      BY <1>2, <1>5, <2>1, <2>2 DEF Known
  <1>10. AddedIsSaved'
    <2>1. \A g \in Attempt : flow[g].saved => flow'[g].saved
      BY <1>2, <1>4 DEF Outcomes
    <2>2. \A p \in Paste : pastes'[p].st = "ok" => flow'[pastes'[p].on].saved
      <3> SUFFICES ASSUME NEW p \in Paste, pastes'[p].st = "ok" PROVE flow'[pastes'[p].on].saved
        OBVIOUS
      <3>1. CASE pastes'[p] = pastes[p]
        <4>1. pastes[p].on \in Attempt /\ flow[pastes[p].on].saved
          BY <3>1 DEF AddedIsSaved, Known
        <4> QED
          BY <2>1, <3>1, <4>1
      <3>2. CASE pastes[p].on = f /\ pastes'[p].st = IF err = "none" THEN "ok" ELSE "failed"
        <4>1. pastes'[p].on = f /\ err = "none"
          BY <1>6, <3>2
        <4> QED
          BY <1>4, <4>1
      <3> QED
        BY <1>6, <3>1, <3>2
    <2> QED
      BY <1>2, <2>1, <2>2 DEF AddedIsSaved
  <1>11. PortComesBack'
    BY <1>2, <1>3, <1>4, <1>5 DEF PortComesBack, NlEach
  <1> QED
    BY <1>7, <1>8, <1>9, <1>10, <1>11

LEMMA PasteSecondOK == ASSUME NlInv, NEW p \in Paste, PasteSecond(p) PROVE NlInv'
  <1> USE DEF NlInv
  <1> DEFINE f == pastes[p].on
  <1>1. /\ pastes[p].st = "waits" /\ flow[f].once = "ran"
        /\ pastes' = [pastes EXCEPT ![p].st = IF flow[f].err = "none" THEN "ok" ELSE "failed"]
        /\ attempts' = IF flow[f].err = "none" THEN attempts \ {f} ELSE attempts
        /\ UNCHANGED <<starts, flow, callback, shown>>
    BY DEF PasteSecond, ExchangeIsOver
  <1>2. f \in Attempt /\ flow[f].done /\ callback # f /\ (flow[f].err = "none" => flow[f].saved)
    BY <1>1 DEF Known, Outcomes
  <1>3. /\ pastes' \in [Paste -> Pastes] /\ pastes'[p].on = f
        /\ pastes'[p].st = (IF flow[f].err = "none" THEN "ok" ELSE "failed")
        /\ \A q \in Paste \ {p} : pastes'[q] = pastes[q]
    BY <1>1 DEF NlEach, Pastes
  <1>4. attempts' \subseteq attempts /\ \A g \in attempts : g = f \/ g \in attempts'
    BY <1>1
  <1> HIDE DEF f
  <1>5. NlEach'
    BY <1>1, <1>3, <1>4 DEF NlEach
  <1>6. Outcomes' /\ Known'
    BY <1>1, <1>2, <1>3, <1>4 DEF Outcomes, Known
  <1>7. AddedIsSaved'
    BY <1>1, <1>2, <1>3 DEF AddedIsSaved
  <1>8. PortComesBack'
    BY <1>1, <1>2, <1>4 DEF PortComesBack
  <1> QED
    BY <1>5, <1>6, <1>7, <1>8

LEMMA StatusAskedOK == ASSUME NlInv, NEW f \in Attempt, StatusAsked(f) PROVE NlInv'
  <1> USE DEF NlInv
  <1> DEFINE said == IF f \notin attempts THEN "gone" ELSE IF ~flow[f].done THEN "waiting" ELSE flow[f].err
  <1>1. /\ shown' = [shown EXCEPT ![f] = said]
        /\ attempts' = IF flow[f].done THEN attempts \ {f} ELSE attempts
        /\ UNCHANGED <<starts, flow, callback, pastes>>
    BY DEF StatusAsked
  <1>2. attempts' \subseteq attempts /\ \A g \in attempts : (g = f /\ flow[f].done) \/ g \in attempts'
    BY <1>1
  <1>3. said \in {"nothing", "gone", "waiting", "none", "failed", "cancelled"} /\ (said = "none" => flow[f].saved)
    BY DEF NlEach, Flows, Outcomes
  <1> HIDE DEF said
  <1>4. NlEach'
    BY <1>1, <1>2, <1>3 DEF NlEach
  <1>5. Outcomes' /\ Known'
    BY <1>1, <1>2 DEF Outcomes, Known
  <1>6. AddedIsSaved'
    BY <1>1, <1>3 DEF AddedIsSaved, NlEach
  <1>7. PortComesBack'
    BY <1>1, <1>2 DEF PortComesBack, Outcomes, NlEach
  <1> QED
    BY <1>4, <1>5, <1>6, <1>7

LEMMA FlowCancelledOK == ASSUME NlInv, NEW f \in Attempt, FlowCancelled(f) PROVE NlInv'
  <1> USE DEF NlInv
  <1>1. /\ f \in attempts /\ attempts' = attempts \ {f} /\ callback' = FreedByCancel({f})
        /\ flow' = [flow EXCEPT ![f] = Settled(f, "cancelled")] /\ UNCHANGED <<starts, pastes, shown>>
    BY DEF FlowCancelled
  <1>2. starts[f].st = "over"
    BY <1>1 DEF Known
  <1>3. /\ flow' \in [Attempt -> Flows] /\ callback' \in Attempt \cup {NoAttempt}
        /\ callback' # f /\ (callback' = callback \/ callback' = NoAttempt)
        /\ \A g \in Attempt : flow'[g].once = flow[g].once /\ flow'[g].saved = flow[g].saved
        /\ \A g \in Attempt \ {f} : flow'[g] = flow[g]
        /\ Outcomes'
    BY <1>1, <1>2, NlCancelOK
  <1>4. NlEach'
    BY <1>1, <1>3 DEF NlEach
  <1>5. Known'
    BY <1>1, <1>2, <1>3, NativeLoginAssumption DEF Known
  <1>6. AddedIsSaved'
    BY <1>1, <1>3 DEF AddedIsSaved, Known
  <1>7. PortComesBack'
    BY <1>1, <1>3 DEF PortComesBack, NlEach
  <1> QED
    BY <1>3, <1>4, <1>5, <1>6, <1>7

LEMMA NlStepOK == NlInv /\ [NlNext]_nlVars => NlInv'
  <1> SUFFICES ASSUME NlInv, [NlNext]_nlVars PROVE NlInv'
    OBVIOUS
  <1>1. CASE UNCHANGED nlVars
    BY <1>1 DEF nlVars, NlInv, NlEach, Outcomes, Known, AddedIsSaved, PortComesBack
  <1> QED
    BY <1>1, StartTakesOK, StartCancelsOK, StartBindsOK, StartListsOK, CalledBackOK, ExchangeEndsOK, StatusAskedOK,
       FlowCancelledOK, PasteSecondOK, PasteArrivesOK DEF NlNext

LEMMA NlInvMeans == NlInv => NlTypeOK /\ LoginsAreOneEach
  BY NlTyped DEF NlInv, LoginsAreOneEach

\* Whatever is called back, pasted and cancelled, what is told to be added is saved,
\* and whoever holds the callback port can be made to give it back.
THEOREM LoginsStayOneEach == NlSpec => [](NlTypeOK /\ LoginsAreOneEach)
  BY NlInvMeans, NlInitOK, NlStepOK, PTL DEF NlSpec

-----------------------------------------------------------------------------
(* The sign-in of an account: who has the login, and what is left running. *)

\* Of each login: what its process, its watcher and its outcome say of each other.
Answers == {"none", "answered", "undelivered", "refused", "late", "start", "send", "sent", "wait"}

LgRec == [
    acct : Acct \cup {"none"}, reauth : BOOLEAN, loopback : BOOLEAN, cli : {"none", "up", "ok", "bad"},
    given : BOOLEAN, refused : BOOLEAN, full : BOOLEAN, deaf : BOOLEAN,
    watch : {"none", "running", "checking", "saving", "saved", "over"}, list : SUBSET Acct,
    outcome : {"none", "ok", "failed"}, request : Answers]

FlowFits(f) ==
    /\ f \in LgRec
    /\ f.cli # "none" => f.acct \in Acct
    /\ f.watch # "none" => f.cli # "none"
    /\ f.request \in {"send", "sent", "wait"} => f.watch # "none"
    /\ f.watch \in {"checking", "saving", "saved"} => f.cli = "ok"
    /\ f.watch = "saving" => ~f.reauth
    /\ f.watch = "over" => f.outcome # "none"
    /\ f.outcome # "none" => f.cli \in {"ok", "bad"}
    /\ f.outcome = "ok" => f.cli = "ok"

\* A flow in the map is in nobody's hands; a process that runs is in the map or
\* in somebody's; and what was registered is listed, or was removed since.
InMap(f) == f.request = "none" /\ f.watch # "none"
Held(f) == f.cli = "up" => f.request \notin Quiescent
Registered(f) == (f.watch = "saved" \/ f.outcome = "ok") /\ ~f.reauth

Accounts ==
    /\ clis \subseteq Acct /\ signed \subseteq Acct /\ gone \subseteq Acct
    /\ edit = Unedited \/ (edit.acct \in Acct /\ edit.list \subseteq Acct)
    /\ SerialEdits => RemovedStaysRemoved

LgInv ==
    /\ Accounts /\ flows \subseteq Login /\ DOMAIN lg = Login
    /\ \A l \in Login : FlowFits(lg[l])
    /\ \A l \in flows : InMap(lg[l])
    /\ Reachable => \A l \in Login \ flows : Held(lg[l])
    /\ SerialEdits => \A l \in Login : Registered(lg[l]) => lg[l].acct \in clis \cup gone

LEMMA LgInitOK == LgInit => LgInv
  <1> SUFFICES ASSUME LgInit PROVE LgInv
    OBVIOUS
  <1>1. NotBegun \in LgRec
    BY DEF NotBegun, LgRec, Answers
  <1>2. FlowFits(NotBegun) /\ Held(NotBegun) /\ ~Registered(NotBegun)
    BY <1>1 DEF FlowFits, Held, Registered, NotBegun
  <1>3. Accounts
    BY DEF LgInit, Accounts, RemovedStaysRemoved
  <1> QED
    BY <1>2, <1>3 DEF LgInit, LgInv

\* A step of one login.
LEMMA OneLogin ==
    ASSUME LgInv, NEW l \in Login, NEW f, LoginGoes(l, f), FlowFits(f), Accounts',
           SerialEdits => clis \cup gone \subseteq clis' \cup gone',
           flows' = flows \/ flows' = flows \cup {l} \/ flows' = flows \ {l},
           l \in flows' => InMap(f),
           Reachable /\ l \notin flows' => Held(f),
           SerialEdits /\ Registered(f) => f.acct \in clis' \cup gone'
    PROVE  LgInv'
  <1> USE DEF LgInv
  <1>1. DOMAIN lg' = Login /\ lg'[l] = f /\ \A k \in Login \ {l} : lg'[k] = lg[k]
    BY DEF LoginGoes
  <1>2. flows' \subseteq Login /\ \A k \in Login \ {l} : k \in flows' <=> k \in flows
    OBVIOUS
  <1>3. \A k \in Login : FlowFits(lg'[k])
    BY <1>1
  <1>4. \A k \in flows' : InMap(lg'[k])
    BY <1>1, <1>2
  <1>5. Reachable => \A k \in Login \ flows' : Held(lg'[k])
    BY <1>1, <1>2
  <1>6. SerialEdits => \A k \in Login : Registered(lg'[k]) => lg'[k].acct \in clis' \cup gone'
    BY <1>1
  <1> QED
    BY <1>1, <1>2, <1>3, <1>4, <1>5, <1>6

\* One that leaves the accounts alone and registers nothing new.
LEMMA OneQuietLogin ==
    ASSUME LgInv, NEW l \in Login, NEW f, LoginGoes(l, f), FlowFits(f), AccountsRest,
           flows' = flows \/ flows' = flows \cup {l} \/ flows' = flows \ {l},
           l \in flows' => InMap(f),
           Reachable /\ l \notin flows' => Held(f),
           Registered(f) => Registered(lg[l]) /\ f.acct = lg[l].acct
    PROVE  LgInv'
  <1>1. Accounts'
    BY DEF LgInv, Accounts, AccountsRest, RemovedStaysRemoved
  <1>2. SerialEdits /\ Registered(f) => f.acct \in clis' \cup gone'
    BY DEF LgInv, AccountsRest
  <1> QED
    BY <1>1, <1>2, OneLogin DEF AccountsRest

LEMMA LoginStartsOK ==
    ASSUME LgInv, NEW l \in Login, NEW a \in Acct, NEW reauth \in BOOLEAN, LoginStarts(l, a, reauth)
    PROVE  LgInv'
  <1> DEFINE f == [NotBegun EXCEPT !.acct = a, !.reauth = reauth, !.cli = "up", !.request = "start"]
  <1>1. f \in LgRec
    BY DEF NotBegun, LgRec, Answers
  <1>2. f.cli = "up" /\ f.request = "start" /\ f.acct = a /\ f.watch = "none" /\ f.outcome = "none"
    BY DEF NotBegun
  <1>3. LoginGoes(l, f) /\ lg[l].cli = "none" /\ UNCHANGED flows /\ AccountsRest
    BY DEF LoginStarts
  <1> HIDE DEF f
  <1>4. FlowFits(f) /\ Held(f) /\ ~Registered(f)
    BY <1>1, <1>2 DEF FlowFits, Held, Registered, Quiescent
  <1>5. l \in flows => FALSE
    BY <1>3 DEF LgInv, InMap, FlowFits
  <1> QED
    BY <1>3, <1>4, <1>5, OneQuietLogin

\* A process that is killed, and what is said then.
LEMMA Kills ==
    ASSUME NEW f \in LgRec
    PROVE  /\ Killed(f) \in LgRec
           /\ Killed(f).cli = (IF f.cli = "up" THEN "bad" ELSE f.cli)
           /\ Killed(f).acct = f.acct /\ Killed(f).reauth = f.reauth /\ Killed(f).watch = f.watch
           /\ Killed(f).outcome = f.outcome /\ Killed(f).request = f.request
  BY DEF Killed, LgRec

LEMMA KillsAndSays ==
    ASSUME NEW f \in LgRec, NEW r \in Answers
    PROVE  /\ [Killed(f) EXCEPT !.request = r] \in LgRec
           /\ [Killed(f) EXCEPT !.request = r].cli = (IF f.cli = "up" THEN "bad" ELSE f.cli)
           /\ [Killed(f) EXCEPT !.request = r].acct = f.acct /\ [Killed(f) EXCEPT !.request = r].reauth = f.reauth
           /\ [Killed(f) EXCEPT !.request = r].watch = f.watch /\ [Killed(f) EXCEPT !.request = r].outcome = f.outcome
           /\ [Killed(f) EXCEPT !.request = r].request = r
  <1>1. Killed(f) \in LgRec
    BY Kills
  <1> QED
    BY <1>1, Kills DEF LgRec

-----------------------------------------------------------------------------
(* The steps of a login *)

LEMMA LinklessOK == ASSUME LgInv, NEW l \in Login, Linkless(l) PROVE LgInv'
  <1>1. FlowFits(lg[l]) /\ lg[l] \in LgRec
    BY DEF LgInv, FlowFits
  <1> DEFINE f == [Killed(lg[l]) EXCEPT !.request = "none"]
  <1>2. lg[l].request = "start" /\ LoginGoes(l, f) /\ UNCHANGED flows /\ AccountsRest
    BY DEF Linkless, StageOf
  <1>3. f \in LgRec /\ f.acct = lg[l].acct /\ f.reauth = lg[l].reauth /\ f.cli = (IF lg[l].cli = "up" THEN "bad" ELSE lg[l].cli) /\ f.watch = lg[l].watch /\ f.outcome = lg[l].outcome /\ f.request = "none"
    <2>1. "none" \in Answers
      BY DEF Answers
    <2> QED
      BY <1>1, <2>1, KillsAndSays
  <1> HIDE DEF f
  <1>4. FlowFits(f)
    BY <1>1, <1>2, <1>3 DEF FlowFits
  <1>5. (l \in flows' => InMap(f)) /\ (Reachable /\ l \notin flows' => Held(f))
    BY <1>1, <1>2, <1>3 DEF LgInv, InMap, Held, Quiescent, FlowFits
  <1>6. Registered(f) => Registered(lg[l]) /\ f.acct = lg[l].acct
    BY <1>3 DEF Registered
  <1> QED
    BY <1>2, <1>4, <1>5, <1>6, OneQuietLogin

LEMMA LinkShownOK == ASSUME LgInv, NEW l \in Login, LinkShown(l) PROVE LgInv'
  <1>1. FlowFits(lg[l]) /\ lg[l] \in LgRec
    BY DEF LgInv, FlowFits
  <1>2. PICK loopback \in BOOLEAN, full \in BOOLEAN :
            LoginGoes(l, [lg[l] EXCEPT !.loopback = loopback, !.full = full, !.request = "none", !.watch = "running"])
    BY DEF LinkShown
  <1> DEFINE f == [lg[l] EXCEPT !.loopback = loopback, !.full = full, !.request = "none", !.watch = "running"]
  <1>3. lg[l].cli = "up" /\ LoginGoes(l, f) /\ flows' = flows \cup {l} /\ AccountsRest
    BY <1>2 DEF LinkShown
  <1>4. f \in LgRec /\ f.acct = lg[l].acct /\ f.reauth = lg[l].reauth /\ f.cli = lg[l].cli /\ f.watch = "running" /\ f.outcome = lg[l].outcome /\ f.request = "none"
    <2> DEFINE g == [lg[l] EXCEPT !.loopback = loopback, !.full = full]
    <2>1. g \in LgRec /\ g.acct = lg[l].acct /\ g.reauth = lg[l].reauth /\ g.cli = lg[l].cli /\ g.outcome = lg[l].outcome
      BY <1>1 DEF LgRec
    <2>2. f = [g EXCEPT !.request = "none", !.watch = "running"]
      BY <1>1 DEF LgRec
    <2> HIDE DEF f, g
    <2> QED
      BY <2>1, <2>2 DEF LgRec, Answers
  <1> HIDE DEF f
  <1>5. FlowFits(f) /\ InMap(f) /\ (Registered(f) => Registered(lg[l]) /\ f.acct = lg[l].acct)
    BY <1>1, <1>3, <1>4 DEF FlowFits, InMap, Registered
  <1> QED
    BY <1>3, <1>5, OneQuietLogin

LEMMA CliSignsInOK == ASSUME LgInv, NEW l \in Login, CliSignsIn(l) PROVE LgInv'
  <1>1. FlowFits(lg[l]) /\ lg[l] \in LgRec
    BY DEF LgInv, FlowFits
  <1> DEFINE f == [lg[l] EXCEPT !.cli = "ok"]
  <1>2. /\ lg[l].cli = "up" /\ lg[l].watch = "running" /\ LoginGoes(l, f)
        /\ signed' = signed \cup {lg[l].acct} /\ UNCHANGED <<flows, clis, edit, gone>>
    BY DEF CliSignsIn
  <1>3. f \in LgRec /\ f.acct = lg[l].acct /\ f.reauth = lg[l].reauth /\ f.cli = "ok" /\ f.watch = "running" /\ f.outcome = lg[l].outcome /\ f.request = lg[l].request
    BY <1>1, <1>2 DEF LgRec
  <1> HIDE DEF f
  <1>4. lg[l].acct \in Acct /\ FlowFits(f) /\ Held(f)
    BY <1>1, <1>2, <1>3 DEF FlowFits, Held
  <1>5. Accounts'
    BY <1>2, <1>4 DEF LgInv, Accounts, RemovedStaysRemoved
  <1>6. l \in flows' => InMap(f)
    BY <1>2, <1>3 DEF LgInv, InMap
  <1>7. SerialEdits /\ Registered(f) => f.acct \in clis' \cup gone'
    BY <1>1, <1>2, <1>3 DEF Registered, FlowFits
  <1> QED
    BY <1>2, <1>4, <1>5, <1>6, <1>7, OneLogin

LEMMA CliEndsOK == ASSUME LgInv, NEW l \in Login, CliEnds(l) PROVE LgInv'
  <1>1. FlowFits(lg[l]) /\ lg[l] \in LgRec
    BY DEF LgInv, FlowFits
  <1> DEFINE f == [lg[l] EXCEPT !.cli = "bad"]
  <1>2. lg[l].cli = "up" /\ LoginGoes(l, f) /\ UNCHANGED flows /\ AccountsRest
    BY DEF CliEnds, StageOf
  <1>3. f \in LgRec /\ f.acct = lg[l].acct /\ f.reauth = lg[l].reauth /\ f.cli = "bad" /\ f.watch = lg[l].watch /\ f.outcome = lg[l].outcome /\ f.request = lg[l].request
    BY <1>1, <1>2 DEF LgRec, Answers
  <1> HIDE DEF f
  <1>4. FlowFits(f)
    BY <1>1, <1>2, <1>3 DEF FlowFits
  <1>5. (l \in flows' => InMap(f)) /\ (Reachable /\ l \notin flows' => Held(f))
    BY <1>1, <1>2, <1>3 DEF LgInv, InMap, Held, Quiescent, FlowFits
  <1>6. Registered(f) => Registered(lg[l]) /\ f.acct = lg[l].acct
    BY <1>3 DEF Registered
  <1> QED
    BY <1>2, <1>4, <1>5, <1>6, OneQuietLogin

LEMMA CliRefusesOK == ASSUME LgInv, NEW l \in Login, CliRefuses(l) PROVE LgInv'
  <1>1. FlowFits(lg[l]) /\ lg[l] \in LgRec
    BY DEF LgInv, FlowFits
  <1> DEFINE f == [lg[l] EXCEPT !.given = FALSE, !.refused = TRUE]
  <1>2. lg[l].cli = "up" /\ LoginGoes(l, f) /\ UNCHANGED flows /\ AccountsRest
    BY DEF CliRefuses, StageOf
  <1>3. f \in LgRec /\ f.acct = lg[l].acct /\ f.reauth = lg[l].reauth /\ f.cli = lg[l].cli /\ f.watch = lg[l].watch /\ f.outcome = lg[l].outcome /\ f.request = lg[l].request
    BY <1>1, <1>2 DEF LgRec, Answers
  <1> HIDE DEF f
  <1>4. FlowFits(f)
    BY <1>1, <1>2, <1>3 DEF FlowFits
  <1>5. (l \in flows' => InMap(f)) /\ (Reachable /\ l \notin flows' => Held(f))
    BY <1>1, <1>2, <1>3 DEF LgInv, InMap, Held, Quiescent, FlowFits
  <1>6. Registered(f) => Registered(lg[l]) /\ f.acct = lg[l].acct
    BY <1>3 DEF Registered
  <1> QED
    BY <1>2, <1>4, <1>5, <1>6, OneQuietLogin

LEMMA WatchSeesOK == ASSUME LgInv, NEW l \in Login, WatchSees(l) PROVE LgInv'
  <1>1. FlowFits(lg[l]) /\ lg[l] \in LgRec
    BY DEF LgInv, FlowFits
  <1> DEFINE f == IF lg[l].cli = "ok" THEN [lg[l] EXCEPT !.watch = "checking"]
                                      ELSE [lg[l] EXCEPT !.watch = "over", !.outcome = "failed"]
  <1>2. lg[l].watch = "running" /\ lg[l].cli \in {"ok", "bad"} /\ LoginGoes(l, f) /\ UNCHANGED flows /\ AccountsRest
    BY DEF WatchSees
  <1>3. /\ f \in LgRec /\ f.acct = lg[l].acct /\ f.reauth = lg[l].reauth /\ f.cli = lg[l].cli /\ f.request = lg[l].request
        /\ \/ lg[l].cli = "ok" /\ f.watch = "checking" /\ f.outcome = lg[l].outcome
           \/ f.watch = "over" /\ f.outcome = "failed"
    BY <1>1, <1>2 DEF LgRec
  <1> HIDE DEF f
  <1>4. FlowFits(f)
    BY <1>1, <1>2, <1>3 DEF FlowFits
  <1>5. (l \in flows' => InMap(f)) /\ Held(f)
    BY <1>2, <1>3 DEF LgInv, InMap, Held
  <1>6. Registered(f) => Registered(lg[l]) /\ f.acct = lg[l].acct
    BY <1>3 DEF Registered
  <1> QED
    BY <1>2, <1>4, <1>5, <1>6, OneQuietLogin

LEMMA WatchChecksOK == ASSUME LgInv, NEW l \in Login, WatchChecks(l) PROVE LgInv'
  <1>1. FlowFits(lg[l]) /\ lg[l] \in LgRec
    BY DEF LgInv, FlowFits
  <1>2. lg[l].watch = "checking" /\ UNCHANGED flows /\ AccountsRest
    BY DEF WatchChecks
  <1>3. ASSUME NEW f \in LgRec, LoginGoes(l, f),
               f.acct = lg[l].acct, f.reauth = lg[l].reauth, f.cli = lg[l].cli, f.request = lg[l].request,
               \/ f.watch = "saved" /\ f.reauth /\ f.outcome = lg[l].outcome
               \/ f.watch = "saving" /\ ~f.reauth /\ f.outcome = lg[l].outcome
               \/ f.watch = "over" /\ f.outcome = "failed"
        PROVE  LgInv'
    <2>1. FlowFits(f)
      BY <1>1, <1>2, <1>3 DEF FlowFits
    <2>2. (l \in flows' => InMap(f)) /\ Held(f)
      BY <1>1, <1>2, <1>3 DEF LgInv, InMap, Held, FlowFits
    <2>3. Registered(f) => Registered(lg[l]) /\ f.acct = lg[l].acct
      BY <1>3 DEF Registered
    <2> QED
      BY <1>2, <1>3, <2>1, <2>2, <2>3, OneQuietLogin
  <1>4. CASE LoginGoes(l, Registration(lg[l]))
    <2>1. ListRead \subseteq Acct
      BY DEF ListRead, LgInv, Accounts
    <2> DEFINE f == Registration(lg[l])
    <2>2. /\ f \in LgRec /\ f.acct = lg[l].acct /\ f.reauth = lg[l].reauth /\ f.cli = lg[l].cli /\ f.request = lg[l].request
          /\ f.outcome = lg[l].outcome
          /\ f.watch = IF lg[l].reauth THEN "saved" ELSE "saving"
      BY <1>1, <2>1 DEF Registration, LgRec
    <2> HIDE DEF f
    <2> QED
      BY <1>3, <1>4, <2>2 DEF f
  <1>5. CASE LoginGoes(l, [lg[l] EXCEPT !.watch = "over", !.outcome = "failed"])
    <2> DEFINE f == [lg[l] EXCEPT !.watch = "over", !.outcome = "failed"]
    <2>1. /\ f \in LgRec /\ f.acct = lg[l].acct /\ f.reauth = lg[l].reauth /\ f.cli = lg[l].cli /\ f.request = lg[l].request
          /\ f.watch = "over" /\ f.outcome = "failed"
      BY <1>1 DEF LgRec
    <2> HIDE DEF f
    <2> QED
      BY <1>3, <1>5, <2>1 DEF f
  <1> QED
    BY <1>4, <1>5 DEF WatchChecks

LEMMA WatchSavesOK == ASSUME LgInv, NEW l \in Login, WatchSaves(l) PROVE LgInv'
  <1>1. FlowFits(lg[l]) /\ lg[l] \in LgRec
    BY DEF LgInv, FlowFits
  <1> DEFINE f == [lg[l] EXCEPT !.watch = "saved", !.list = {}]
  <1>2. /\ lg[l].watch = "saving" /\ ~lg[l].reauth /\ lg[l].acct \in Acct /\ LoginGoes(l, f)
        /\ clis' = Latest(lg[l].list) \cup {lg[l].acct} /\ gone' = gone \ {lg[l].acct} /\ UNCHANGED <<flows, signed, edit>>
    BY <1>1 DEF WatchSaves, FlowFits
  <1>3. f \in LgRec /\ f.acct = lg[l].acct /\ f.reauth = lg[l].reauth /\ f.cli = lg[l].cli /\ f.watch = "saved" /\ f.outcome = lg[l].outcome /\ f.request = lg[l].request
    BY <1>1 DEF LgRec
  <1> HIDE DEF f
  <1>4. Latest(lg[l].list) \subseteq Acct /\ (SerialEdits => Latest(lg[l].list) = clis)
    BY <1>1 DEF Latest, LgInv, Accounts, LgRec
  <1>5. Accounts' /\ (SerialEdits => clis \cup gone \subseteq clis' \cup gone')
    BY <1>2, <1>4 DEF LgInv, Accounts, RemovedStaysRemoved
  <1>6. FlowFits(f) /\ (l \in flows' => InMap(f)) /\ Held(f)
    BY <1>1, <1>2, <1>3 DEF LgInv, FlowFits, InMap, Held
  <1>7. f.acct \in clis'
    BY <1>2, <1>3
  <1> QED
    BY <1>2, <1>5, <1>6, <1>7, OneLogin

LEMMA WatchPublishesOK == ASSUME LgInv, NEW l \in Login, WatchPublishes(l) PROVE LgInv'
  <1>1. FlowFits(lg[l]) /\ lg[l] \in LgRec
    BY DEF LgInv, FlowFits
  <1> DEFINE f == [lg[l] EXCEPT !.watch = "over", !.outcome = "ok"]
  <1>2. lg[l].watch = "saved" /\ LoginGoes(l, f) /\ UNCHANGED flows /\ AccountsRest
    BY DEF WatchPublishes
  <1>3. f \in LgRec /\ f.acct = lg[l].acct /\ f.reauth = lg[l].reauth /\ f.cli = lg[l].cli /\ f.watch = "over" /\ f.outcome = "ok" /\ f.request = lg[l].request
    BY <1>1 DEF LgRec
  <1> HIDE DEF f
  <1>4. FlowFits(f) /\ (l \in flows' => InMap(f)) /\ Held(f)
    BY <1>1, <1>2, <1>3 DEF LgInv, FlowFits, InMap, Held
  <1>5. Registered(f) => Registered(lg[l]) /\ f.acct = lg[l].acct
    BY <1>2, <1>3 DEF Registered
  <1> QED
    BY <1>2, <1>4, <1>5, OneQuietLogin

LEMMA FinishTakesOK == ASSUME LgInv, NEW l \in Login, FinishTakes(l) PROVE LgInv'
  <1>1. FlowFits(lg[l]) /\ lg[l] \in LgRec
    BY DEF LgInv, FlowFits
  <1> DEFINE f == [lg[l] EXCEPT !.request = "send"]
  <1>2. l \in flows /\ LoginGoes(l, f) /\ flows' = flows \ {l} /\ AccountsRest
    BY DEF FinishTakes, StageOf
  <1>3. f \in LgRec /\ f.acct = lg[l].acct /\ f.reauth = lg[l].reauth /\ f.cli = lg[l].cli /\ f.watch = lg[l].watch /\ f.outcome = lg[l].outcome /\ f.request = "send"
    BY <1>1, <1>2 DEF LgRec, Answers
  <1> HIDE DEF f
  <1>4. FlowFits(f)
    BY <1>1, <1>2, <1>3 DEF FlowFits, LgInv, InMap
  <1>5. (l \in flows' => InMap(f)) /\ (Reachable /\ l \notin flows' => Held(f))
    BY <1>1, <1>2, <1>3 DEF LgInv, InMap, Held, Quiescent, FlowFits
  <1>6. Registered(f) => Registered(lg[l]) /\ f.acct = lg[l].acct
    BY <1>3 DEF Registered
  <1> QED
    BY <1>2, <1>4, <1>5, <1>6, OneQuietLogin

LEMMA StatelessOK == ASSUME LgInv, NEW l \in Login, Stateless(l) PROVE LgInv'
  <1>1. FlowFits(lg[l]) /\ lg[l] \in LgRec
    BY DEF LgInv, FlowFits
  <1> DEFINE f == [lg[l] EXCEPT !.request = "none"]
  <1>2. lg[l].request = "send" /\ LoginGoes(l, f) /\ flows' = flows \cup {l} /\ AccountsRest
    BY DEF Stateless, StageOf
  <1>3. f \in LgRec /\ f.acct = lg[l].acct /\ f.reauth = lg[l].reauth /\ f.cli = lg[l].cli /\ f.watch = lg[l].watch /\ f.outcome = lg[l].outcome /\ f.request = "none"
    BY <1>1, <1>2 DEF LgRec, Answers
  <1> HIDE DEF f
  <1>4. FlowFits(f)
    BY <1>1, <1>2, <1>3 DEF FlowFits
  <1>5. (l \in flows' => InMap(f)) /\ (Reachable /\ l \notin flows' => Held(f))
    BY <1>1, <1>2, <1>3 DEF LgInv, InMap, Held, Quiescent, FlowFits
  <1>6. Registered(f) => Registered(lg[l]) /\ f.acct = lg[l].acct
    BY <1>3 DEF Registered
  <1> QED
    BY <1>2, <1>4, <1>5, <1>6, OneQuietLogin

LEMMA UndeliveredOK == ASSUME LgInv, NEW l \in Login, Undelivered(l) PROVE LgInv'
  <1>1. FlowFits(lg[l]) /\ lg[l] \in LgRec
    BY DEF LgInv, FlowFits
  <1> DEFINE f == [lg[l] EXCEPT !.request = "undelivered"]
  <1>2. lg[l].request = "send" /\ (lg[l].cli = "up" => ~Reachable) /\ LoginGoes(l, f) /\ UNCHANGED flows /\ AccountsRest
    BY DEF Undelivered, StageOf
  <1>3. f \in LgRec /\ f.acct = lg[l].acct /\ f.reauth = lg[l].reauth /\ f.cli = lg[l].cli /\ f.watch = lg[l].watch /\ f.outcome = lg[l].outcome /\ f.request = "undelivered"
    BY <1>1, <1>2 DEF LgRec, Answers
  <1> HIDE DEF f
  <1>4. FlowFits(f)
    BY <1>1, <1>2, <1>3 DEF FlowFits
  <1>5. (l \in flows' => InMap(f)) /\ (Reachable /\ l \notin flows' => Held(f))
    <2>1. l \notin flows
      BY <1>2 DEF LgInv, InMap
    <2>2. CASE Reachable
      BY <1>2, <1>3, <2>1, <2>2 DEF Held
    <2>3. CASE ~Reachable
      BY <1>2, <2>1, <2>3
    <2> QED
      BY <2>2, <2>3
  <1>6. Registered(f) => Registered(lg[l]) /\ f.acct = lg[l].acct
    BY <1>3 DEF Registered
  <1> QED
    BY <1>2, <1>4, <1>5, <1>6, OneQuietLogin

LEMMA DeliveredOK == ASSUME LgInv, NEW l \in Login, Delivered(l) PROVE LgInv'
  <1>1. FlowFits(lg[l]) /\ lg[l] \in LgRec
    BY DEF LgInv, FlowFits
  <1> DEFINE f == [lg[l] EXCEPT !.request = "sent", !.given = TRUE]
  <1>2. lg[l].request = "send" /\ LoginGoes(l, f) /\ UNCHANGED flows /\ AccountsRest
    BY DEF Delivered, StageOf
  <1>3. f \in LgRec /\ f.acct = lg[l].acct /\ f.reauth = lg[l].reauth /\ f.cli = lg[l].cli /\ f.watch = lg[l].watch /\ f.outcome = lg[l].outcome /\ f.request = "sent"
    BY <1>1, <1>2 DEF LgRec, Answers
  <1> HIDE DEF f
  <1>4. FlowFits(f)
    BY <1>1, <1>2, <1>3 DEF FlowFits
  <1>5. (l \in flows' => InMap(f)) /\ (Reachable /\ l \notin flows' => Held(f))
    <2>1. l \notin flows
      BY <1>2 DEF LgInv, InMap
    <2>2. Held(f)
      BY <1>3 DEF Held, Quiescent
    <2> QED
      BY <1>2, <2>1, <2>2
  <1>6. Registered(f) => Registered(lg[l]) /\ f.acct = lg[l].acct
    BY <1>3 DEF Registered
  <1> QED
    BY <1>2, <1>4, <1>5, <1>6, OneQuietLogin

LEMMA FinishMarksOK == ASSUME LgInv, NEW l \in Login, FinishMarks(l) PROVE LgInv'
  <1>1. FlowFits(lg[l]) /\ lg[l] \in LgRec
    BY DEF LgInv, FlowFits
  <1> DEFINE f == [lg[l] EXCEPT !.request = "wait", !.deaf = lg[l].full \/ lg[l].refused]
  <1>2. lg[l].request = "sent" /\ LoginGoes(l, f) /\ UNCHANGED flows /\ AccountsRest
    BY DEF FinishMarks, StageOf
  <1>3. f \in LgRec /\ f.acct = lg[l].acct /\ f.reauth = lg[l].reauth /\ f.cli = lg[l].cli /\ f.watch = lg[l].watch /\ f.outcome = lg[l].outcome /\ f.request = "wait"
    BY <1>1, <1>2 DEF LgRec, Answers
  <1> HIDE DEF f
  <1>4. FlowFits(f)
    BY <1>1, <1>2, <1>3 DEF FlowFits
  <1>5. (l \in flows' => InMap(f)) /\ (Reachable /\ l \notin flows' => Held(f))
    <2>1. l \notin flows
      BY <1>2 DEF LgInv, InMap
    <2>2. Held(f)
      BY <1>3 DEF Held, Quiescent
    <2> QED
      BY <1>2, <2>1, <2>2
  <1>6. Registered(f) => Registered(lg[l]) /\ f.acct = lg[l].acct
    BY <1>3 DEF Registered
  <1> QED
    BY <1>2, <1>4, <1>5, <1>6, OneQuietLogin

LEMMA FinishSeesOK == ASSUME LgInv, NEW l \in Login, FinishSees(l) PROVE LgInv'
  <1>1. FlowFits(lg[l]) /\ lg[l] \in LgRec
    BY DEF LgInv, FlowFits
  <1> DEFINE f == [lg[l] EXCEPT !.request = "answered"]
  <1>2. lg[l].request = "wait" /\ lg[l].watch = "over" /\ LoginGoes(l, f) /\ UNCHANGED flows /\ AccountsRest
    BY DEF FinishSees, StageOf
  <1>3. f \in LgRec /\ f.acct = lg[l].acct /\ f.reauth = lg[l].reauth /\ f.cli = lg[l].cli /\ f.watch = lg[l].watch /\ f.outcome = lg[l].outcome /\ f.request = "answered"
    BY <1>1, <1>2 DEF LgRec, Answers
  <1> HIDE DEF f
  <1>4. FlowFits(f)
    BY <1>1, <1>2, <1>3 DEF FlowFits
  <1>5. (l \in flows' => InMap(f)) /\ (Reachable /\ l \notin flows' => Held(f))
    BY <1>1, <1>2, <1>3 DEF LgInv, InMap, Held, Quiescent, FlowFits
  <1>6. Registered(f) => Registered(lg[l]) /\ f.acct = lg[l].acct
    BY <1>3 DEF Registered
  <1> QED
    BY <1>2, <1>4, <1>5, <1>6, OneQuietLogin

LEMMA FinishRefusedOK == ASSUME LgInv, NEW l \in Login, FinishRefused(l) PROVE LgInv'
  <1>1. FlowFits(lg[l]) /\ lg[l] \in LgRec
    BY DEF LgInv, FlowFits
  <1> DEFINE f == [Killed(lg[l]) EXCEPT !.request = "refused"]
  <1>2. lg[l].request = "wait" /\ LoginGoes(l, f) /\ UNCHANGED flows /\ AccountsRest
    BY DEF FinishRefused, StageOf
  <1>3. f \in LgRec /\ f.acct = lg[l].acct /\ f.reauth = lg[l].reauth /\ f.cli = (IF lg[l].cli = "up" THEN "bad" ELSE lg[l].cli) /\ f.watch = lg[l].watch /\ f.outcome = lg[l].outcome /\ f.request = "refused"
    <2>1. "refused" \in Answers
      BY DEF Answers
    <2> QED
      BY <1>1, <2>1, KillsAndSays
  <1> HIDE DEF f
  <1>4. FlowFits(f)
    BY <1>1, <1>2, <1>3 DEF FlowFits
  <1>5. (l \in flows' => InMap(f)) /\ (Reachable /\ l \notin flows' => Held(f))
    BY <1>1, <1>2, <1>3 DEF LgInv, InMap, Held, Quiescent, FlowFits
  <1>6. Registered(f) => Registered(lg[l]) /\ f.acct = lg[l].acct
    BY <1>3 DEF Registered
  <1> QED
    BY <1>2, <1>4, <1>5, <1>6, OneQuietLogin

LEMMA FinishLateOK == ASSUME LgInv, NEW l \in Login, FinishLate(l) PROVE LgInv'
  <1>1. FlowFits(lg[l]) /\ lg[l] \in LgRec
    BY DEF LgInv, FlowFits
  <1> DEFINE f == [Killed(lg[l]) EXCEPT !.request = "late"]
  <1>2. lg[l].request = "wait" /\ LoginGoes(l, f) /\ UNCHANGED flows /\ AccountsRest
    BY DEF FinishLate, StageOf
  <1>3. f \in LgRec /\ f.acct = lg[l].acct /\ f.reauth = lg[l].reauth /\ f.cli = (IF lg[l].cli = "up" THEN "bad" ELSE lg[l].cli) /\ f.watch = lg[l].watch /\ f.outcome = lg[l].outcome /\ f.request = "late"
    <2>1. "late" \in Answers
      BY DEF Answers
    <2> QED
      BY <1>1, <2>1, KillsAndSays
  <1> HIDE DEF f
  <1>4. FlowFits(f)
    BY <1>1, <1>2, <1>3 DEF FlowFits
  <1>5. (l \in flows' => InMap(f)) /\ (Reachable /\ l \notin flows' => Held(f))
    BY <1>1, <1>2, <1>3 DEF LgInv, InMap, Held, Quiescent, FlowFits
  <1>6. Registered(f) => Registered(lg[l]) /\ f.acct = lg[l].acct
    BY <1>3 DEF Registered
  <1> QED
    BY <1>2, <1>4, <1>5, <1>6, OneQuietLogin

LEMMA CancelOK == ASSUME LgInv, NEW l \in Login, Cancel(l) PROVE LgInv'
  <1>1. FlowFits(lg[l]) /\ lg[l] \in LgRec
    BY DEF LgInv, FlowFits
  <1> DEFINE f == Killed(lg[l])
  <1>2. l \in flows /\ LoginGoes(l, f) /\ flows' = flows \ {l} /\ AccountsRest
    BY DEF Cancel, StageOf
  <1>3. f \in LgRec /\ f.acct = lg[l].acct /\ f.reauth = lg[l].reauth /\ f.cli = (IF lg[l].cli = "up" THEN "bad" ELSE lg[l].cli) /\ f.watch = lg[l].watch /\ f.outcome = lg[l].outcome /\ f.request = lg[l].request
    BY <1>1, Kills
  <1> HIDE DEF f
  <1>4. FlowFits(f)
    BY <1>1, <1>2, <1>3 DEF FlowFits
  <1>5. (l \in flows' => InMap(f)) /\ (Reachable /\ l \notin flows' => Held(f))
    BY <1>1, <1>2, <1>3 DEF LgInv, InMap, Held, Quiescent, FlowFits
  <1>6. Registered(f) => Registered(lg[l]) /\ f.acct = lg[l].acct
    BY <1>3 DEF Registered
  <1> QED
    BY <1>2, <1>4, <1>5, <1>6, OneQuietLogin

LEMMA PollOK == ASSUME LgInv, NEW l \in Login, Poll(l) PROVE LgInv'
  <1>1. lg[l].outcome # "none" /\ flows' = flows \ {l} /\ UNCHANGED lg /\ AccountsRest
    BY DEF Poll
  <1>2. Accounts'
    BY <1>1 DEF LgInv, Accounts, AccountsRest, RemovedStaysRemoved
  <1>3. Held(lg[l])
    BY <1>1 DEF LgInv, FlowFits, Held
  <1> QED
    BY <1>1, <1>2, <1>3 DEF LgInv, AccountsRest

LEMMA RemovesOK == ASSUME LgInv, RemoveSaves \/ \E a \in Acct : RemoveReads(a) PROVE LgInv'
  <1>1. UNCHANGED <<flows, lg, signed>>
    BY DEF RemoveSaves, RemoveReads
  <1>2. CASE RemoveSaves
    <2>1. /\ edit.acct \in Acct /\ clis' = Latest(edit.list) \ {edit.acct}
          /\ gone' = gone \cup {edit.acct} /\ edit' = Unedited
      BY <1>2 DEF RemoveSaves, LgInv, Accounts
    <2>2. Latest(edit.list) \subseteq Acct /\ (SerialEdits => Latest(edit.list) = clis)
      BY <1>2 DEF RemoveSaves, Latest, LgInv, Accounts
    <2>3. Accounts' /\ (SerialEdits => clis \cup gone \subseteq clis' \cup gone')
      BY <1>1, <2>1, <2>2 DEF LgInv, Accounts, RemovedStaysRemoved
    <2> QED
      BY <1>1, <2>3 DEF LgInv
  <1>3. ASSUME NEW a \in Acct, RemoveReads(a) PROVE LgInv'
    <2>1. ListRead \subseteq Acct
      BY DEF ListRead, LgInv, Accounts
    <2>2. edit'.acct \in Acct /\ edit'.list \subseteq Acct /\ UNCHANGED <<clis, gone>>
      BY <1>3, <2>1 DEF RemoveReads
    <2>3. Accounts'
      BY <1>1, <2>2 DEF LgInv, Accounts, RemovedStaysRemoved
    <2> QED
      BY <1>1, <2>2, <2>3 DEF LgInv
  <1> QED
    BY <1>2, <1>3

LEMMA LgStepOK == LgInv /\ [LgNext]_lgVars => LgInv'
  <1> SUFFICES ASSUME LgInv, [LgNext]_lgVars PROVE LgInv'
    OBVIOUS
  <1>1. CASE UNCHANGED lgVars
    BY <1>1 DEF lgVars, LgInv, Accounts, RemovedStaysRemoved
  <1>2. ASSUME NEW l \in Login, Watches(l) \/ Finishes(l) PROVE LgInv'
    BY <1>2, WatchSeesOK, WatchChecksOK, WatchSavesOK, WatchPublishesOK, FinishTakesOK, StatelessOK, UndeliveredOK,
       DeliveredOK, FinishMarksOK, FinishSeesOK, FinishRefusedOK, FinishLateOK DEF Watches, Finishes
  <1> QED
    BY <1>1, <1>2, LoginStartsOK, LinklessOK, LinkShownOK, CliSignsInOK, CliEndsOK, CliRefusesOK, PollOK, CancelOK, RemovesOK DEF LgNext

LEMMA LgInvMeans ==
    LgInv => /\ LgTypeOK /\ SuccessIsEarned
             /\ Reachable => NoStuckLogin
             /\ SerialEdits => HeardIsListed /\ RemovedStaysRemoved
  <1> SUFFICES ASSUME LgInv PROVE /\ LgTypeOK /\ SuccessIsEarned
                                  /\ Reachable => NoStuckLogin
                                  /\ SerialEdits => HeardIsListed /\ RemovedStaysRemoved
    OBVIOUS
  <1>1. LgTypeOK
    BY DEF LgInv, Accounts, FlowFits, LgRec, InMap, LgTypeOK, StageOf, Answers, Quiescent
  <1>2. SuccessIsEarned /\ (Reachable => NoStuckLogin)
    BY DEF LgInv, FlowFits, Held, SuccessIsEarned, NoStuckLogin
  <1>3. SerialEdits => HeardIsListed /\ RemovedStaysRemoved
    BY DEF LgInv, Accounts, Registered, HeardIsListed
  <1> QED
    BY <1>1, <1>2, <1>3

\* While the account's directory can be reached and edits of the accounts do not
\* overlap, a sign-in that is told to have worked did and is listed, one that did
\* not leaves no process, and an account that was removed stays removed.
THEOREM SignInStaysTrue == Reachable /\ SerialEdits => (LgSpec => [](LgTypeOK /\ SignInIsTrue))
  <1>1. Reachable /\ SerialEdits /\ LgInv => LgTypeOK /\ SignInIsTrue
    BY LgInvMeans DEF SignInIsTrue
  <1> SUFFICES ASSUME Reachable, SerialEdits PROVE LgSpec => [](LgTypeOK /\ SignInIsTrue)
    OBVIOUS
  <1>2. LgInv => LgTypeOK /\ SignInIsTrue
    BY <1>1
  <1> QED
    BY <1>2, LgInitOK, LgStepOK, PTL DEF LgSpec
=============================================================================
