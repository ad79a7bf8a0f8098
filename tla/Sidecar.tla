-------------------------------- MODULE Sidecar --------------------------------
(***************************************************************************)
(* The managed proxy of the providers (server/cliproxy.go): its binary,    *)
(* downloaded once and extracted in place, its port and config, the        *)
(* process that is supervised, and those who wait for its address; and the *)
(* logins that run the same binary (server/cliproxy_login.go), from the    *)
(* URL they print to the credential they leave.                            *)
(*                                                                         *)
(* Left out: the archive's checksum, the health probe, the native proxies  *)
(* that make all of this unnecessary for a provider.                       *)
(***************************************************************************)
EXTENDS Naturals, FiniteSets

CONSTANTS
    Starter,   \* calls of start
    Signer,    \* logins
    Asker,     \* requests that compile a provider's profile
    Ports,     \* bound: ports
    KunaiRestarts   \* bound: restarts of kunai

ASSUME SidecarAssumption ==
    /\ Ports \in Nat \ {0} /\ KunaiRestarts \in Nat /\ Starter \cap Signer = {}

VARIABLES
    binary,    \* the file: "none", "part" or "whole"
    fetch,     \* of each caller of ensureBinary: how far it is
    calls,     \* of each start: how far it is, and its port
    started,   \* m.started
    port,      \* m.port
    config,    \* the port in the config file
    taken,     \* ports handed out by freePort
    super,     \* the supervisor: "off", "launch", "up", "rest" or "gone"
    child,     \* the port the running proxy listens on
    baked,     \* what each profile was given as its address
    login,     \* each login
    boots,     \* restarts so far
    spoilt     \* an extraction was cut short or met another one, or a start
               \* failed after the download

scFiles == <<binary, fetch>>
scProxy == <<calls, started, port, config, taken, super, child>>
scVars == <<scFiles, scProxy, baked, login, boots, spoilt>>

Fetcher == Starter \cup Signer
NoCall == [pc |-> "idle", port |-> 0]
NoLogin == [st |-> "none", proc |-> "none", listed |-> FALSE, told |-> "nothing"]

-----------------------------------------------------------------------------
(* ensureBinary *)

Fetches(f, to) == fetch' = [fetch EXCEPT ![f] = to]
Writers == {f \in Fetcher : fetch[f] = "write"}

\* A file that is there is trusted.
FetchLooks(f) ==
    /\ fetch[f] = "look"
    /\ Fetches(f, IF binary = "none" THEN "get" ELSE "have")
    /\ spoilt' = (spoilt \/ \E g \in Fetcher \ {f} : fetch[g] \in {"get", "write"})
    /\ UNCHANGED <<binary, scProxy, baked, login, boots>>

\* Create truncates what is there; a file that is being run cannot be opened.
FetchGets(f) ==
    /\ fetch[f] = "get"
    /\ \/ super # "up" /\ binary' = "part" /\ Fetches(f, "write")
       \/ Fetches(f, "failed") /\ UNCHANGED binary
    /\ UNCHANGED <<scProxy, baked, login, boots, spoilt>>

FetchWrites(f) ==
    /\ fetch[f] = "write"
    /\ \/ binary' = (IF Writers = {f} THEN "whole" ELSE binary) /\ Fetches(f, "have") /\ UNCHANGED spoilt
       \/ Fetches(f, "failed") /\ spoilt' = TRUE /\ UNCHANGED binary
    /\ UNCHANGED <<scProxy, baked, login, boots>>

-----------------------------------------------------------------------------
(* start and supervise *)

Calls(c, to) == calls' = [calls EXCEPT ![c].pc = to]

\* Mutant: the flag is only looked at.
NotMarked == started

Marked == TRUE

StartCalled(c) ==
    /\ calls[c].pc = "idle"
    /\ IF started
       THEN Calls(c, "done") /\ UNCHANGED <<started, fetch>>
       ELSE started' = Marked /\ Calls(c, "fetch") /\ Fetches(c, "look")
    /\ UNCHANGED <<binary, port, config, taken, super, child, baked, login, boots, spoilt>>

\* Mutant: the flag stays when the download fails.
StaysStarted == started

\* "Let a later add retry the download."
NotStarted == FALSE

StartNoBinary(c) ==
    /\ calls[c].pc = "fetch" /\ fetch[c] = "failed"
    /\ started' = NotStarted
    /\ Calls(c, "idle") /\ Fetches(c, "idle")
    /\ UNCHANGED <<binary, port, config, taken, super, child, baked, login, boots, spoilt>>

\* freePort and writeConfig; a failure of either leaves the flag set.
StartConfigures(c) ==
    /\ calls[c].pc = "fetch" /\ fetch[c] = "have"
    /\ Fetches(c, "idle")
    /\ \/ /\ taken < Ports
          /\ taken' = taken + 1 /\ config' = taken + 1
          /\ calls' = [calls EXCEPT ![c] = [pc |-> "publish", port |-> taken + 1]]
          /\ UNCHANGED spoilt
       \/ Calls(c, "done") /\ spoilt' = TRUE /\ UNCHANGED <<taken, config>>
    /\ UNCHANGED <<binary, started, port, super, child, baked, login, boots>>

\* The address is there for others to take; the supervisor runs.
StartPublishes(c) ==
    /\ calls[c].pc = "publish"
    /\ port' = calls[c].port
    /\ super' = IF super = "off" THEN "launch" ELSE super
    /\ Calls(c, "done")
    /\ UNCHANGED <<scFiles, started, config, taken, child, baked, login, boots, spoilt>>

\* A binary that does not start ends the supervisor for good.
Launches ==
    /\ super = "launch"
    /\ IF binary = "whole" /\ Writers = {} THEN super' = "up" /\ child' = config ELSE super' = "gone" /\ UNCHANGED child
    /\ UNCHANGED <<scFiles, calls, started, port, config, taken, baked, login, boots, spoilt>>

ProxyDies ==
    /\ super = "up"
    /\ super' = "rest" /\ child' = 0
    /\ UNCHANGED <<scFiles, calls, started, port, config, taken, baked, login, boots, spoilt>>

BacksOff ==
    /\ super = "rest"
    /\ super' = "launch"
    /\ UNCHANGED <<scFiles, calls, started, port, config, taken, child, baked, login, boots, spoilt>>

\* providerProfile, after ensureCLIProxyReady: the address, or none after the wait.
Bakes(k) ==
    /\ baked[k] = 0
    /\ port # 0 /\ baked' = [baked EXCEPT ![k] = port]
    /\ UNCHANGED <<scFiles, scProxy, login, boots, spoilt>>

\* The files stay, and the logins' processes with them.
Reboots ==
    /\ boots < KunaiRestarts
    /\ boots' = boots + 1 /\ spoilt' = (binary = "part")
    /\ fetch' = [f \in Fetcher |-> "idle"] /\ calls' = [c \in Starter |-> NoCall]
    /\ started' = FALSE /\ port' = 0 /\ super' = "off" /\ child' = 0
    /\ baked' = [k \in Asker |-> 0] /\ login' = [s \in Signer |-> NoLogin]
    /\ UNCHANGED <<binary, config, taken>>

-----------------------------------------------------------------------------
(* Logins *)

Signs(s, change) == login' = [login EXCEPT ![s] = change]

LoginCalled(s) ==
    /\ login[s] = NoLogin /\ fetch[s] = "idle"
    /\ Fetches(s, "look")
    /\ Signs(s, [NoLogin EXCEPT !.st = "fetch"])
    /\ UNCHANGED <<binary, scProxy, baked, boots, spoilt>>

\* cmd.Start
LoginLaunches(s) ==
    /\ login[s].st = "fetch" /\ fetch[s] \in {"have", "failed"}
    /\ Fetches(s, "idle")
    /\ Signs(s, IF fetch[s] = "have" /\ binary = "whole" /\ Writers = {}
                THEN [login[s] EXCEPT !.st = "url", !.proc = "runs"]
                ELSE [login[s] EXCEPT !.st = "over", !.told = "failed"])
    /\ UNCHANGED <<binary, scProxy, baked, boots, spoilt>>

\* The URL is printed, and the flow can be found by its id.
LoginShows(s) ==
    /\ login[s].st = "url" /\ login[s].proc = "runs"
    /\ Signs(s, [login[s] EXCEPT !.st = "open", !.listed = TRUE])
    /\ UNCHANGED <<scFiles, scProxy, baked, boots, spoilt>>

\* Mutant: a login without a URL is left to run.
LeftRunning(l) == [l EXCEPT !.st = "over", !.told = "failed"]

SidecarKilled(l) == [l EXCEPT !.st = "over", !.told = "failed", !.proc = IF @ = "runs" THEN "killed" ELSE @]

\* No URL in time, or none before the process exits.
LoginGivesUp(s) ==
    /\ login[s].st = "url"
    /\ Signs(s, SidecarKilled(login[s]))
    /\ UNCHANGED <<scFiles, scProxy, baked, boots, spoilt>>

\* The process ends on its own: with a credential, or without one.
LoginExits(s) ==
    /\ login[s].proc = "runs"
    /\ \E end \in {"signed", "failed"} :
        /\ end = "signed" => login[s].st \in {"open", "deliver"}
        /\ Signs(s, [login[s] EXCEPT !.proc = end])
    /\ UNCHANGED <<scFiles, scProxy, baked, boots, spoilt>>

\* finish: the flow is taken off the list before its code is delivered.
LoginFinish(s) ==
    /\ login[s].st = "open" /\ login[s].listed
    /\ Signs(s, [login[s] EXCEPT !.st = "deliver", !.listed = FALSE])
    /\ UNCHANGED <<scFiles, scProxy, baked, boots, spoilt>>

\* The code cannot be delivered, or the process outlives the wait: the login is
\* given up and its process is not.
LoginUndelivered(s) ==
    /\ login[s].st = "deliver"
    /\ Signs(s, [login[s] EXCEPT !.st = "over", !.told = "late"])
    /\ UNCHANGED <<scFiles, scProxy, baked, boots, spoilt>>

\* Mutant: that the process ended is success.
TellsOk(l) == "ok"

\* await: the process's own result.
Tells(l) == IF l.proc = "signed" THEN "ok" ELSE "failed"

LoginAwaited(s) ==
    /\ login[s].st = "deliver" /\ login[s].proc # "runs"
    /\ Signs(s, [login[s] EXCEPT !.st = "over", !.told = Tells(login[s])])
    /\ UNCHANGED <<scFiles, scProxy, baked, boots, spoilt>>

LoginCancel(s) ==
    /\ login[s].st = "open" /\ login[s].listed
    /\ Signs(s, [SidecarKilled(login[s]) EXCEPT !.listed = FALSE, !.told = "cancelled"])
    /\ UNCHANGED <<scFiles, scProxy, baked, boots, spoilt>>

-----------------------------------------------------------------------------

ScInit ==
    /\ binary \in {"none", "whole"} /\ fetch = [f \in Fetcher |-> "idle"]
    /\ calls = [c \in Starter |-> NoCall] /\ started = FALSE /\ port = 0 /\ config = 0
    /\ taken = 0 /\ super = "off" /\ child = 0
    /\ baked = [k \in Asker |-> 0] /\ login = [s \in Signer |-> NoLogin] /\ boots = 0 /\ spoilt = FALSE

ScNext ==
    \/ \E f \in Fetcher : FetchLooks(f) \/ FetchGets(f) \/ FetchWrites(f)
    \/ \E c \in Starter : StartCalled(c) \/ StartNoBinary(c) \/ StartConfigures(c) \/ StartPublishes(c)
    \/ \E s \in Signer :
        \/ LoginCalled(s) \/ LoginLaunches(s) \/ LoginShows(s) \/ LoginGivesUp(s) \/ LoginExits(s)
        \/ LoginFinish(s) \/ LoginUndelivered(s) \/ LoginAwaited(s) \/ LoginCancel(s)
    \/ \E k \in Asker : Bakes(k)
    \/ Launches \/ ProxyDies \/ BacksOff \/ Reboots

ScSpec == ScInit /\ [][ScNext]_scVars

-----------------------------------------------------------------------------
(* Properties *)

ScTypeOK ==
    /\ binary \in {"none", "part", "whole"} /\ fetch \in [Fetcher -> {"idle", "look", "get", "write", "have", "failed"}]
    /\ calls \in [Starter -> [pc : {"idle", "fetch", "publish", "done"}, port : 0..Ports]]
    /\ started \in BOOLEAN /\ {port, config, taken, child} \subseteq 0..Ports
    /\ super \in {"off", "launch", "up", "rest", "gone"} /\ baked \in [Asker -> 0..Ports] /\ boots \in 0..KunaiRestarts /\ spoilt \in BOOLEAN
    /\ login \in [Signer -> [st : {"none", "fetch", "url", "open", "deliver", "over"}, listed : BOOLEAN,
                             proc : {"none", "runs", "signed", "failed", "killed"}, told : {"nothing", "ok", "failed", "cancelled", "late"}]]

\* "A provider session compiled right after gets a real base_url": the address a
\* profile was given is the one the proxy listens on whenever it runs.
BakedIsServed == \A k \in Asker : baked[k] # 0 => baked[k] = config /\ child \in {0, baked[k]}

\* "Start is idempotent", and a start that failed can be tried again: what is
\* marked as started is supervised or about to be, unless the binary was spoilt.
StartedIsSupervised ==
    started => \/ spoilt \/ super \in {"launch", "up", "rest"}
               \/ \E c \in Starter : calls[c].pc \in {"fetch", "publish"}

\* A login's process can be ended as long as it runs: by the call that started
\* it, by its id, or by the finish that waits for it; but not once that finish
\* has given up.
LoginsCanBeEnded ==
    \A s \in Signer : login[s].proc = "runs" => login[s].listed \/ login[s].st \in {"url", "deliver"} \/ login[s].told = "late"

\* A login is reported as finished only if it left a credential.
FinishIsTrue == \A s \in Signer : login[s].told = "ok" => login[s].proc = "signed"

\* The proxy is where it is said to be, and so are the logins.
SidecarServes == BakedIsServed /\ StartedIsSupervised /\ LoginsCanBeEnded /\ FinishIsTrue
=============================================================================
