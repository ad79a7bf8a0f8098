------------------------------ MODULE Registry ------------------------------
(***************************************************************************)
(* The processes behind one session id: internal/session/manager.go and    *)
(* respawn.go.  A respawn (effort, account, withheld tools) closes the     *)
(* process, waits for its pump, takes it off the list and creates another  *)
(* under the same id; the manager's lock is held for single steps only, so *)
(* requests overlap, each of them once per Flow.                           *)
(*                                                                         *)
(* Left out: the other ids, model, effort, mode and prompt of the spawn    *)
(* options (they travel as the account does), seeding the transcript, and  *)
(* the loop a respawn carries (module Loop).                               *)
(***************************************************************************)
EXTENDS Naturals, Sequences, FiniteSets

CONSTANTS
    Account,     \* accounts and providers of this machine
    Home,        \* the accounts the session may have been opened on
    Flow,        \* the goroutines that run a request or a hook
    Keep,        \* an override that leaves the field alone
    MaxInst,     \* bound: processes behind the id
    SlowBuild    \* TRUE: a create may overtake another between check and insert

ASSUME RegistryAssumption ==
    /\ MaxInst \in Nat \ {0} /\ SlowBuild \in BOOLEAN
    /\ Keep \notin Account \cup BOOLEAN /\ Home \subseteq Account

VARIABLES
    listed,     \* m.sessions[id]: the process on the list, 0 for none
    born,       \* processes created so far
    life,       \* of each process: "up", "closing" (killed or gone, its pump still at work), "done"
    account,    \* s.cliName of each process
    withheld,   \* s.disallowedTools of each process: something is withheld
    op          \* what each flow is doing, and with what it read

regVars == <<listed, born, life, account, withheld, op>>

Inst == 1..MaxInst
Idle == [pc |-> "idle", old |-> 0, made |-> 0, acct |-> Keep, tools |-> Keep]
Over(f) == op[f].pc \in {"ok", "failed"}
To(f, label) == op' = [op EXCEPT ![f].pc = label]
processes == <<born, life, account, withheld>>

-----------------------------------------------------------------------------
(* The process *)

\* It exits by itself, or never booted (FailStart closes the driver).
ProcessExits(i) ==
    /\ life[i] = "up"
    /\ life' = [life EXCEPT ![i] = "closing"]
    /\ UNCHANGED <<listed, born, account, withheld, op>>

\* The pump has read the last event: s.done is closed.
PumpExits(i) ==
    /\ life[i] = "closing"
    /\ life' = [life EXCEPT ![i] = "done"]
    /\ UNCHANGED <<listed, born, account, withheld, op>>

\* Mutant: the reaper takes the id off, whoever holds it now.
RemoveAny(i) == listed' = 0

\* removeIf: off the list, if it is this very process that is on it.
RemoveIf(i) == listed' = IF listed = i THEN 0 ELSE listed

\* The goroutine Create leaves behind.
Reap(i) ==
    /\ life[i] = "done" /\ listed = i
    /\ RemoveIf(i)
    /\ UNCHANGED <<processes, op>>

-----------------------------------------------------------------------------
(* Requests *)

\* A session is opened from the history, by a schedule or by a channel.
Open(f, a) ==
    /\ op[f].pc = "idle"
    /\ op' = [op EXCEPT ![f] = [Idle EXCEPT !.pc = "check", !.acct = a, !.tools = FALSE]]
    /\ UNCHANGED <<listed, processes>>

\* A respawn that changes the account (a # Keep), the withheld tools (t # Keep)
\* or only the effort.  switchSessionToAccount starts here too.
Respawn(f, a, t) ==
    /\ op[f].pc = "idle" /\ listed # 0
    /\ op' = [op EXCEPT ![f] = [Idle EXCEPT !.pc = "read", !.acct = a, !.tools = t]]
    /\ UNCHANGED <<listed, processes>>

\* Mutant: what is not asked for is not read off the old process.
WithOverridesNone(i, r) == r

\* specOf, withOverrides: what is not asked for carries over.
WithOverrides(i, r) ==
    [r EXCEPT !.acct = IF @ = Keep THEN account[i] ELSE @,
              !.tools = IF @ = Keep THEN withheld[i] ELSE @]

\* restart looks the session up and reads what carries over.
RestartReads(f) ==
    /\ op[f].pc = "read"
    /\ \/ /\ listed = 0
          /\ To(f, "failed")
       \/ /\ listed # 0
          /\ op' = [op EXCEPT ![f] = [WithOverrides(listed, @) EXCEPT !.pc = "close", !.old = listed]]
    /\ UNCHANGED <<listed, processes>>

\* s.Close: the driver kills the process, whoever asked for it.
RestartCloses(f) ==
    /\ op[f].pc = "close"
    /\ life' = [life EXCEPT ![op[f].old] = IF @ = "up" THEN "closing" ELSE @]
    /\ To(f, "wait")
    /\ UNCHANGED <<listed, born, account, withheld>>

\* Mutant: no grace, the respawn waits for the pump however long it takes.
RestartWaitsOn(f) ==
    /\ op[f].pc = "wait" /\ life[op[f].old] = "done"
    /\ RemoveIf(op[f].old)
    /\ To(f, "check")
    /\ UNCHANGED processes

\* Done, or closeGrace ran out first: either way the old process leaves the list.
RestartRemoves(f) ==
    /\ op[f].pc = "wait"
    /\ RemoveIf(op[f].old)
    /\ To(f, "check")
    /\ UNCHANGED processes

\* Create, before it builds: a live id is refused, and so is a folder that has
\* gone.  Without SlowBuild no other create is between its check and its insert.
CreateChecks(f) ==
    /\ op[f].pc = "check"
    /\ SlowBuild \/ \A g \in Flow : op[g].pc # "insert"
    /\ \/ listed = 0 /\ To(f, "insert")
       \/ To(f, "failed")
    /\ UNCHANGED <<listed, processes>>

\* Create, once built: the process starts and is on the list.
CreateInserts(f) ==
    /\ op[f].pc = "insert" /\ born < MaxInst
    /\ born' = born + 1
    /\ listed' = born + 1
    /\ life' = Append(life, "up")
    /\ account' = Append(account, op[f].acct)
    /\ withheld' = Append(withheld, op[f].tools)
    /\ op' = [op EXCEPT ![f].pc = "ok", ![f].made = born + 1]

\* handleCloseSession: Get, then Close of what was found.
CloseFinds(f) ==
    /\ op[f].pc = "idle" /\ listed # 0
    /\ op' = [op EXCEPT ![f] = [Idle EXCEPT !.pc = "kill", !.old = listed]]
    /\ UNCHANGED <<listed, processes>>

CloseCloses(f) ==
    /\ op[f].pc = "kill"
    /\ life' = [life EXCEPT ![op[f].old] = IF @ = "up" THEN "closing" ELSE @]
    /\ To(f, "ok")
    /\ UNCHANGED <<listed, born, account, withheld>>

-----------------------------------------------------------------------------
RegInit ==
    /\ listed = 1 /\ born = 1
    /\ life = <<"up">> /\ withheld = <<FALSE>>
    /\ account \in {<<a>> : a \in Home}
    /\ op = [f \in Flow |-> Idle]

Goes(f) ==
    \/ RestartReads(f) \/ RestartCloses(f) \/ RestartRemoves(f)
    \/ CreateChecks(f) \/ CreateInserts(f) \/ CloseCloses(f)

Asks(f) ==
    \/ CloseFinds(f)
    \/ \E a \in Account : Open(f, a) \/ Respawn(f, a, Keep)
    \/ \E t \in BOOLEAN \cup {Keep} : Respawn(f, Keep, t)

RegNext ==
    \/ \E i \in 1..born : ProcessExits(i) \/ PumpExits(i) \/ Reap(i)
    \/ \E f \in Flow : Asks(f) \/ Goes(f)

\* A request goes on once it has begun.  Nothing is assumed of the old pump.
RegFairness == \A f \in Flow : WF_regVars(Goes(f))

RegSpec == RegInit /\ [][RegNext]_regVars
RegFairSpec == RegSpec /\ RegFairness

-----------------------------------------------------------------------------
(* Properties *)

\* Every variable has its type.
RegTypeOK ==
    /\ born \in Inst /\ listed \in 0..born
    /\ life \in [1..born -> {"up", "closing", "done"}]
    /\ account \in [1..born -> Account] /\ withheld \in [1..born -> BOOLEAN]
    /\ op \in [Flow -> [pc : {"idle", "read", "close", "wait", "check", "insert", "kill", "ok", "failed"},
                        old : 0..MaxInst, made : 0..MaxInst, acct : Account \cup {Keep}, tools : BOOLEAN \cup {Keep}]]

\* "Manager owns all live sessions": a process that runs is the one on the
\* list, so there is one for a transcript and every request reaches it.
OnlyListedRuns == \A i \in 1..born : life[i] = "up" => listed = i

\* A respawn always answers, whatever becomes of the old pump (closeGrace).
RestartAnswers == \A f \in Flow : (op[f].pc \in {"read", "close", "wait", "check"}) ~> (Over(f) \/ born = MaxInst)
=============================================================================
