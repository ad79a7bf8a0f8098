--------------------------- MODULE Failover_proofs ---------------------------
(***************************************************************************)
(* Proofs about the processes behind one session id (module Registry) and  *)
(* the account failover over them (module Failover), for any accounts,     *)
(* requests, hooks and messages.                                           *)
(***************************************************************************)
EXTENDS Failover, SequenceTheorems, NaturalsInduction, WellFoundedInduction, TLAPS

-----------------------------------------------------------------------------
(* The registry *)

\* Only the newest process is ever on the list.
Newest == listed \in {0, born}

\* What a request has read is good for what it does next: the process it closes
\* exists, the one it takes off the list has been closed, and what it creates a
\* process with is an account and a decision on the tools.
Reads(f) ==
    /\ op[f].pc \in {"close", "wait", "kill"} => op[f].old \in 1..born
    /\ op[f].pc \in {"close", "wait", "check", "insert"} => op[f].acct \in Account /\ op[f].tools \in BOOLEAN
    /\ op[f].pc = "wait" => life[op[f].old] # "up"

RInv == RegTypeOK /\ Newest /\ \A f \in Flow : Reads(f)

\* At most one request is about to put a process on the list, and the list is
\* empty while it is.
Single ==
    /\ \A f, g \in Flow : op[f].pc = "insert" /\ op[g].pc = "insert" => f = g
    /\ \A f \in Flow : op[f].pc = "insert" => listed = 0

Alone == Single /\ OnlyListedRuns

Label == {"idle", "read", "close", "wait", "check", "insert", "kill", "ok", "failed"}
Request == [pc : Label, old : 0..MaxInst, made : 0..MaxInst, acct : Account \cup {Keep}, tools : BOOLEAN \cup {Keep}]

\* A request that takes one step keeps what it has read.
LEMMA OpTo ==
    ASSUME op \in [Flow -> Request], NEW f \in Flow, NEW l \in Label, To(f, l)
    PROVE  /\ op' \in [Flow -> Request]
           /\ \A g \in Flow \ {f} : op'[g] = op[g]
           /\ op'[f].pc = l /\ op'[f].old = op[f].old /\ op'[f].made = op[f].made
           /\ op'[f].acct = op[f].acct /\ op'[f].tools = op[f].tools
BY DEF To, Request

\* A request that becomes another record.
LEMMA OpBecomes ==
    ASSUME op \in [Flow -> Request], NEW f \in Flow, NEW r \in Request, op' = [op EXCEPT ![f] = r]
    PROVE  /\ op' \in [Flow -> Request] /\ op'[f] = r
           /\ \A g \in Flow \ {f} : op'[g] = op[g]
OBVIOUS

\* What a record becomes.
LEMMA Idles == Idle \in Request
BY RegistryAssumption DEF Idle, Request, Label

\* A sequence that has grown by one element, as a function.
LEMMA Grown ==
    ASSUME NEW S, NEW n \in Nat, NEW s \in [1..n -> S], NEW x \in S
    PROVE  /\ Append(s, x) \in [1..(n + 1) -> S]
           /\ Append(s, x)[n + 1] = x
           /\ \A i \in 1..n : Append(s, x)[i] = s[i]
<1>1. s \in Seq(S)
  BY SeqDef
<1>2. Len(s) = n
  BY <1>1, LenProperties
<1>3. Append(s, x) \in Seq(S) /\ Len(Append(s, x)) = n + 1
  BY <1>1, <1>2, AppendProperties
<1>4. Append(s, x) \in [1..(n + 1) -> S]
  BY <1>3, LenProperties
<1>5. QED
  BY <1>1, <1>2, <1>4, AppendProperties

LEMMA RegInitOK == RegInit => RInv /\ Alone
<1> SUFFICES ASSUME RegInit PROVE RInv /\ Alone
  OBVIOUS
<1> USE RegistryAssumption
<1>1. op \in [Flow -> Request] /\ \A f \in Flow : op[f].pc = "idle"
  BY DEF RegInit, Idle, Request, Label
<1>2. listed = 1 /\ born = 1 /\ life = <<"up">> /\ withheld = <<FALSE>>
  BY DEF RegInit
<1>3. account \in [1..1 -> Account]
  <2>1. PICK a \in Home : account = <<a>>
    BY DEF RegInit
  <2>2. QED
    BY <2>1
<1>4. RegTypeOK
  <2>1. born \in Inst /\ listed \in 0..born
    BY <1>2 DEF Inst
  <2>2. life \in [1..born -> {"up", "closing", "done"}] /\ withheld \in [1..born -> BOOLEAN]
    <3>1. life \in [1..born -> {"up", "closing", "done"}]
      <4>1. DOMAIN life = 1..born /\ life[1] = "up" /\ life = [i \in 1..1 |-> life[i]]
        BY <1>2
      <4>2. QED
        BY <1>2, <4>1
    <3>2. withheld \in [1..born -> BOOLEAN]
      <4>1. withheld[1] = FALSE /\ withheld = [i \in 1..1 |-> withheld[i]]
        BY <1>2
      <4>2. \A i \in 1..1 : i = 1
        OBVIOUS
      <4>3. \A i \in 1..1 : withheld[i] \in BOOLEAN
        BY <4>1, <4>2, Zenon
      <4>4. QED
        BY <1>2, <4>1, <4>3
    <3>3. QED
      BY <3>1, <3>2
  <2>3. QED
    BY <1>1, <1>2, <1>3, <2>1, <2>2 DEF RegTypeOK, Request, Label
<1>5. QED
  BY <1>1, <1>2, <1>4 DEF RInv, Alone, Single, Newest, Reads, OnlyListedRuns

\* A process that ends only leaves "up".
LEMMA ExitsOK ==
    ASSUME RInv, NEW i \in 1..born, ProcessExits(i) \/ PumpExits(i) \/ Reap(i)
    PROVE  RInv'
<1> USE RegistryAssumption DEF RInv, Newest, RegTypeOK, Reads, Inst
<1>1. CASE ProcessExits(i)
  BY <1>1 DEF ProcessExits
<1>2. CASE PumpExits(i)
  BY <1>2 DEF PumpExits
<1>3. CASE Reap(i)
  BY <1>3 DEF Reap, RemoveIf, processes
<1>4. QED
  BY <1>1, <1>2, <1>3

\* A request that only moves to a step whose needs are met, on the same
\* processes.
LEMMA OnlyOp ==
    ASSUME RInv, UNCHANGED <<born, life, account, withheld>>, listed' \in {0, listed},
           op' \in [Flow -> Request], NEW f \in Flow,
           \A g \in Flow \ {f} : op'[g] = op[g],
           op'[f].pc \in {"close", "wait", "kill"} => op'[f].old \in 1..born,
           op'[f].pc \in {"close", "wait", "check", "insert"} => op'[f].acct \in Account /\ op'[f].tools \in BOOLEAN,
           op'[f].pc = "wait" => life[op'[f].old] # "up"
    PROVE  RInv'
<1>1. Newest'
  BY DEF RInv, Newest
<1>2. RegTypeOK'
  BY DEF RInv, RegTypeOK, Inst, Request, Label
<1>3. \A g \in Flow : Reads(g)'
  <2> TAKE g \in Flow
  <2>1. CASE g = f
    BY <2>1 DEF Reads
  <2>2. CASE g # f
    BY <2>2 DEF Reads, RInv
  <2>3. QED
    BY <2>1, <2>2
<1>4. QED
  BY <1>1, <1>2, <1>3 DEF RInv

LEMMA OpType == RInv => op \in [Flow -> Request]
BY DEF RInv, RegTypeOK, Request, Label

LEMMA Births ==
    RInv => /\ born \in 1..MaxInst /\ listed \in 0..born /\ listed \in {0, born} /\ MaxInst \in Nat
            /\ life \in [1..born -> {"up", "closing", "done"}]
            /\ account \in [1..born -> Account] /\ withheld \in [1..born -> BOOLEAN]
BY RegistryAssumption DEF RInv, RegTypeOK, Newest, Inst

\* A request begins.
LEMMA AsksOK ==
    ASSUME RInv, NEW f \in Flow, Asks(f)
    PROVE  RInv'
<1>0. op \in [Flow -> Request] /\ listed \in 0..MaxInst /\ (listed # 0 => listed \in 1..born)
  BY OpType, Births
<1>1. CASE CloseFinds(f)
  <2> DEFINE r == [Idle EXCEPT !.pc = "kill", !.old = listed]
  <2>0. op' = [op EXCEPT ![f] = r] /\ listed # 0 /\ UNCHANGED <<listed, born, life, account, withheld>>
    BY <1>1 DEF CloseFinds, processes
  <2>1. r \in Request /\ r.pc = "kill" /\ r.old = listed
    BY <1>0, Idles DEF Request, Label
  <2> HIDE DEF r
  <2>2. op' \in [Flow -> Request] /\ op'[f] = r /\ \A g \in Flow \ {f} : op'[g] = op[g]
    BY <1>0, <2>0, <2>1, OpBecomes
  <2>3. QED
    BY <1>0, <2>0, <2>1, <2>2, OnlyOp
<1>2. ASSUME NEW a \in Account, Open(f, a)
      PROVE  RInv'
  <2> DEFINE r == [Idle EXCEPT !.pc = "check", !.acct = a, !.tools = FALSE]
  <2>0. op' = [op EXCEPT ![f] = r] /\ UNCHANGED <<listed, born, life, account, withheld>>
    BY <1>2 DEF Open, processes
  <2>1. r \in Request /\ r.pc = "check" /\ r.acct = a /\ r.tools = FALSE
    BY <1>0, Idles DEF Request, Label
  <2> HIDE DEF r
  <2>2. op' \in [Flow -> Request] /\ op'[f] = r /\ \A g \in Flow \ {f} : op'[g] = op[g]
    BY <1>0, <2>0, <2>1, OpBecomes
  <2>3. QED
    BY <2>0, <2>1, <2>2, OnlyOp
<1>3. ASSUME NEW a \in Account \cup {Keep}, NEW t \in BOOLEAN \cup {Keep}, Respawn(f, a, t)
      PROVE  RInv'
  <2> DEFINE r == [Idle EXCEPT !.pc = "read", !.acct = a, !.tools = t]
  <2>0. op' = [op EXCEPT ![f] = r] /\ UNCHANGED <<listed, born, life, account, withheld>>
    BY <1>3 DEF Respawn, processes
  <2>1. r \in Request /\ r.pc = "read"
    BY <1>0, Idles DEF Request, Label
  <2> HIDE DEF r
  <2>2. op' \in [Flow -> Request] /\ op'[f] = r /\ \A g \in Flow \ {f} : op'[g] = op[g]
    BY <1>0, <2>0, <2>1, OpBecomes
  <2>3. QED
    BY <2>0, <2>1, <2>2, OnlyOp
<1>4. QED
  BY <1>1, <1>2, <1>3 DEF Asks

\* What a respawn reads off the process it finds: everything it needs.
LEMMA Overridden ==
    ASSUME RInv, NEW f \in Flow, listed # 0
    PROVE  LET r == WithOverrides(listed, op[f]) IN
           /\ r \in Request /\ r.acct \in Account /\ r.tools \in BOOLEAN
           /\ r.acct = (IF op[f].acct = Keep THEN account[listed] ELSE op[f].acct)
           /\ r.made = op[f].made
<1>1. account[listed] \in Account /\ withheld[listed] \in BOOLEAN /\ op[f] \in Request
  BY Births, OpType
<1>2. QED
  BY <1>1, RegistryAssumption DEF WithOverrides, Request

\* The step of restart that looks the session up.
LEMMA ReadsOff ==
    ASSUME RInv, NEW f \in Flow, RestartReads(f)
    PROVE  /\ UNCHANGED <<listed, born, life, account, withheld>>
           /\ op' \in [Flow -> Request] /\ \A g \in Flow \ {f} : op'[g] = op[g]
           /\ op[f].pc = "read" /\ op'[f].made = op[f].made
           /\ \/ op'[f].pc = "failed" /\ op'[f].acct = op[f].acct
              \/ /\ op'[f].pc = "close" /\ op'[f].old = listed /\ listed # 0
                 /\ op'[f].acct \in Account /\ op'[f].tools \in BOOLEAN
                 /\ op[f].acct # Keep => op'[f].acct = op[f].acct
<1>0. op \in [Flow -> Request] /\ listed \in 0..MaxInst
  BY OpType, Births
<1>1. op[f].pc = "read" /\ UNCHANGED <<listed, born, life, account, withheld>>
  BY DEF RestartReads, processes
<1>2. CASE listed = 0
  <2>1. To(f, "failed")
    BY <1>2 DEF RestartReads
  <2>2. QED
    BY <1>0, <1>1, <2>1, OpTo DEF Label
<1>3. CASE listed # 0
  <2> DEFINE r == WithOverrides(listed, op[f])
             q == [r EXCEPT !.pc = "close", !.old = listed]
  <2>1. op' = [op EXCEPT ![f] = q]
    BY <1>3 DEF RestartReads
  <2>2. /\ r \in Request /\ r.acct \in Account /\ r.tools \in BOOLEAN /\ r.made = op[f].made
        /\ op[f].acct # Keep => r.acct = op[f].acct
    BY <1>3, Overridden
  <2> HIDE DEF r
  <2>3. /\ q \in Request /\ q.pc = "close" /\ q.old = listed /\ q.acct = r.acct /\ q.tools = r.tools
        /\ q.made = r.made
    BY <1>0, <2>2 DEF Request, Label
  <2> HIDE DEF q
  <2>4. op' \in [Flow -> Request] /\ op'[f] = q /\ \A g \in Flow \ {f} : op'[g] = op[g]
    BY <1>0, <2>1, <2>3, OpBecomes
  <2>5. QED
    BY <1>1, <1>3, <2>2, <2>3, <2>4
<1>4. QED
  BY <1>2, <1>3

\* A new process on the list.
LEMMA Inserted ==
    ASSUME RInv, NEW f \in Flow, CreateInserts(f)
    PROVE  /\ op[f].pc = "insert" /\ born + 1 \in 1..MaxInst
           /\ born' = born + 1 /\ listed' = born + 1
           /\ life' \in [1..(born + 1) -> {"up", "closing", "done"}]
           /\ account' \in [1..(born + 1) -> Account] /\ withheld' \in [1..(born + 1) -> BOOLEAN]
           /\ \A i \in 1..born : life'[i] = life[i] /\ account'[i] = account[i]
           /\ account'[born + 1] = op[f].acct
           /\ op' \in [Flow -> Request] /\ \A g \in Flow \ {f} : op'[g] = op[g]
           /\ op'[f].pc = "ok" /\ op'[f].made = born + 1 /\ op'[f].acct = op[f].acct
<1>0. op \in [Flow -> Request] /\ born \in 1..MaxInst /\ MaxInst \in Nat /\ born \in Nat
  BY OpType, Births
<1>1. op[f].pc = "insert" /\ born < MaxInst /\ born' = born + 1 /\ listed' = born + 1
  BY DEF CreateInserts
<1>2. op[f].acct \in Account /\ op[f].tools \in BOOLEAN
  BY <1>1 DEF RInv, Reads
<1>3. life' \in [1..(born + 1) -> {"up", "closing", "done"}] /\ \A i \in 1..born : life'[i] = life[i]
  <2> DEFINE S == {"up", "closing", "done"}
  <2>1. life' = Append(life, "up") /\ life \in [1..born -> S] /\ "up" \in S
    BY Births DEF CreateInserts
  <2> HIDE DEF S
  <2>2. Append(life, "up") \in [1..(born + 1) -> S] /\ \A i \in 1..born : Append(life, "up")[i] = life[i]
    <3>1. Append(life, "up") \in [1..(born + 1) -> S]
      BY <1>0, <2>1, Grown
    <3>2. ASSUME NEW i \in 1..born PROVE Append(life, "up")[i] = life[i]
      BY <1>0, <2>1, Grown
    <3>3. QED
      BY <3>1, <3>2
  <2>3. QED
    BY <2>1, <2>2 DEF S
<1>4. /\ account' \in [1..(born + 1) -> Account] /\ \A i \in 1..born : account'[i] = account[i]
      /\ account'[born + 1] = op[f].acct
  <2>1. account' = Append(account, op[f].acct) /\ account \in [1..born -> Account]
    BY Births DEF CreateInserts
  <2>2. /\ Append(account, op[f].acct) \in [1..(born + 1) -> Account]
        /\ Append(account, op[f].acct)[born + 1] = op[f].acct
        /\ \A i \in 1..born : Append(account, op[f].acct)[i] = account[i]
    <3> DEFINE a == op[f].acct
    <3>0. a \in Account
      BY <1>2
    <3> HIDE DEF a
    <3>1. Append(account, a) \in [1..(born + 1) -> Account]
      BY <1>0, <2>1, <3>0, Grown
    <3>a. Append(account, a)[born + 1] = a
      BY <1>0, <2>1, <3>0, Grown
    <3>2. ASSUME NEW i \in 1..born PROVE Append(account, a)[i] = account[i]
      BY <1>0, <2>1, <3>0, Grown
    <3>3. QED
      BY <3>1, <3>2, <3>a DEF a
  <2>3. QED
    BY <2>1, <2>2
<1>5. withheld' \in [1..(born + 1) -> BOOLEAN]
  <2>1. withheld' = Append(withheld, op[f].tools) /\ withheld \in [1..born -> BOOLEAN]
    BY Births DEF CreateInserts
  <2>2. Append(withheld, op[f].tools) \in [1..(born + 1) -> BOOLEAN]
    BY <1>0, <1>2, <2>1, Grown
  <2>3. QED
    BY <2>1, <2>2
<1>6. /\ op' \in [Flow -> Request] /\ \A g \in Flow \ {f} : op'[g] = op[g]
      /\ op'[f].pc = "ok" /\ op'[f].made = born + 1 /\ op'[f].acct = op[f].acct
  <2> DEFINE p == op[f]
             q == [p EXCEPT !.pc = "ok", !.made = born + 1]
  <2>1. op' = [op EXCEPT ![f] = q]
    BY DEF CreateInserts
  <2>2. p \in Request /\ p.acct = op[f].acct
    BY <1>0
  <2> HIDE DEF p
  <2>3. born + 1 \in 0..MaxInst
    BY <1>0, <1>1
  <2>4. q \in Request /\ q.pc = "ok" /\ q.made = born + 1 /\ q.acct = op[f].acct
    BY <2>2, <2>3 DEF Request, Label
  <2> HIDE DEF q
  <2>5. QED
    BY <1>0, <2>1, <2>4, OpBecomes
<1>7. QED
  BY <1>0, <1>1, <1>3, <1>4, <1>5, <1>6

\* The steps of a request that move it on without creating a process.
LEMMA Moved ==
    ASSUME RInv, NEW f \in Flow,
           RestartCloses(f) \/ RestartRemoves(f) \/ CreateChecks(f) \/ CloseCloses(f)
    PROVE  /\ UNCHANGED <<born, account, withheld>> /\ listed' \in {0, listed}
           /\ life' \in [1..born -> {"up", "closing", "done"}]
           /\ \A i \in 1..born : life'[i] = "up" => life[i] = "up"
           /\ op' \in [Flow -> Request] /\ \A g \in Flow \ {f} : op'[g] = op[g]
           /\ op'[f].old = op[f].old /\ op'[f].made = op[f].made
           /\ op'[f].acct = op[f].acct /\ op'[f].tools = op[f].tools
           /\ \/ op[f].pc = "close" /\ op'[f].pc = "wait" /\ life'[op[f].old] # "up" /\ listed' = listed
              \/ op[f].pc = "wait" /\ op'[f].pc = "check" /\ (listed' = IF listed = op[f].old THEN 0 ELSE listed) /\ life' = life
              \/ /\ op[f].pc = "check" /\ op'[f].pc = "insert" /\ listed = 0 /\ listed' = listed /\ life' = life
                 /\ SlowBuild \/ \A g \in Flow : op[g].pc # "insert"
              \/ op[f].pc = "check" /\ op'[f].pc = "failed" /\ listed' = listed /\ life' = life
              \/ op[f].pc = "kill" /\ op'[f].pc = "ok" /\ listed' = listed
<1>0. op \in [Flow -> Request]
  BY OpType
<1>a. life \in [1..born -> {"up", "closing", "done"}]
  BY Births
<1> USE DEF Label
<1>1. CASE RestartCloses(f)
  <2>1. op[f].pc = "close" /\ To(f, "wait") /\ UNCHANGED <<listed, born, account, withheld>>
        /\ life' = [life EXCEPT ![op[f].old] = IF @ = "up" THEN "closing" ELSE @]
    BY <1>1 DEF RestartCloses
  <2>2. op[f].old \in 1..born
    BY <2>1 DEF RInv, Reads
  <2>3. life' \in [1..born -> {"up", "closing", "done"}] /\ life'[op[f].old] # "up"
        /\ \A i \in 1..born : life'[i] = "up" => life[i] = "up"
    BY <1>a, <2>1, <2>2
  <2>4. QED
    BY <1>0, <2>1, <2>3, OpTo
<1>2. CASE RestartRemoves(f)
  <2>1. op[f].pc = "wait" /\ To(f, "check") /\ UNCHANGED <<life, born, account, withheld>>
        /\ listed' = IF listed = op[f].old THEN 0 ELSE listed
    BY <1>2 DEF RestartRemoves, RemoveIf, processes
  <2>2. QED
    BY <1>0, <1>a, <2>1, OpTo
<1>3. CASE CreateChecks(f)
  <2>1. /\ op[f].pc = "check" /\ UNCHANGED <<listed, life, born, account, withheld>>
        /\ SlowBuild \/ \A g \in Flow : op[g].pc # "insert"
    BY <1>3 DEF CreateChecks, processes
  <2>2. CASE listed = 0 /\ To(f, "insert")
    <3>1. /\ op' \in [Flow -> Request] /\ \A g \in Flow \ {f} : op'[g] = op[g]
          /\ op'[f].pc = "insert" /\ op'[f].old = op[f].old /\ op'[f].made = op[f].made
          /\ op'[f].acct = op[f].acct /\ op'[f].tools = op[f].tools
      BY <1>0, <2>2, OpTo
    <3>2. QED
      BY <1>a, <2>1, <2>2, <3>1
  <2>3. CASE To(f, "failed")
    <3>1. /\ op' \in [Flow -> Request] /\ \A g \in Flow \ {f} : op'[g] = op[g]
          /\ op'[f].pc = "failed" /\ op'[f].old = op[f].old /\ op'[f].made = op[f].made
          /\ op'[f].acct = op[f].acct /\ op'[f].tools = op[f].tools
      BY <1>0, <2>3, OpTo
    <3>2. QED
      BY <1>a, <2>1, <3>1
  <2>4. QED
    BY <1>3, <2>2, <2>3 DEF CreateChecks
<1>4. CASE CloseCloses(f)
  <2>1. op[f].pc = "kill" /\ To(f, "ok") /\ UNCHANGED <<listed, born, account, withheld>>
        /\ life' = [life EXCEPT ![op[f].old] = IF @ = "up" THEN "closing" ELSE @]
    BY <1>4 DEF CloseCloses
  <2>2. op[f].old \in 1..born
    BY <2>1 DEF RInv, Reads
  <2>3. life' \in [1..born -> {"up", "closing", "done"}]
        /\ \A i \in 1..born : life'[i] = "up" => life[i] = "up"
    BY <1>a, <2>1, <2>2
  <2>4. QED
    BY <1>0, <2>1, <2>3, OpTo
<1>5. QED
  BY <1>1, <1>2, <1>3, <1>4

\* A request goes on.
LEMMA GoesOK ==
    ASSUME RInv, NEW f \in Flow, Goes(f)
    PROVE  RInv'
<1>1. CASE RestartReads(f)
  <2>1. listed # 0 => listed \in 1..born
    BY Births
  <2>2. QED
    BY <1>1, <2>1, ReadsOff, OnlyOp
<1>2. CASE RestartCloses(f) \/ RestartRemoves(f) \/ CreateChecks(f) \/ CloseCloses(f)
  <2>1. RegTypeOK' /\ Newest'
    BY <1>2, Moved, Births DEF RInv, RegTypeOK, Newest, Inst, Request, Label
  <2>2. \A g \in Flow : Reads(g)'
    BY <1>2, Moved, Births DEF RInv, Reads
  <2>3. QED
    BY <2>1, <2>2 DEF RInv
<1>3. CASE CreateInserts(f)
  <2>1. born \in 1..MaxInst /\ MaxInst \in Nat
    BY Births
  <2>2. RegTypeOK' /\ Newest'
    BY <1>3, <2>1, Inserted DEF RegTypeOK, Newest, Inst, Request, Label
  <2>3. \A g \in Flow : Reads(g)'
    BY <1>3, <2>1, Inserted DEF RInv, Reads
  <2>4. QED
    BY <2>2, <2>3 DEF RInv
<1>4. QED
  BY <1>1, <1>2, <1>3 DEF Goes

\* Without SlowBuild, nothing a request or a process does puts a second
\* process beside the one on the list.
LEMMA AloneExits ==
    ASSUME RInv, Alone, NEW i \in 1..born, ProcessExits(i) \/ PumpExits(i) \/ Reap(i)
    PROVE  Alone'
<1>0. life \in [1..born -> {"up", "closing", "done"}]
  BY Births
<1>1. UNCHANGED <<op, born>> /\ (\A j \in 1..born : life'[j] = "up" => life[j] = "up")
  BY <1>0 DEF ProcessExits, PumpExits, Reap, processes
<1>2. listed' = listed \/ (listed' = 0 /\ life[listed] = "done" /\ life' = life)
  BY DEF ProcessExits, PumpExits, Reap, RemoveIf, processes
<1>3. QED
  BY <1>1, <1>2 DEF Alone, Single, OnlyListedRuns

LEMMA AloneAsks ==
    ASSUME RInv, Alone, NEW f \in Flow, Asks(f)
    PROVE  Alone'
<1>1. UNCHANGED <<listed, born, life>>
  BY DEF Asks, CloseFinds, Open, Respawn, processes
<1>2. \A g \in Flow : op'[g].pc = "insert" => op[g].pc = "insert"
  BY OpType DEF Asks, CloseFinds, Open, Respawn, Idle
<1>3. QED
  BY <1>1, <1>2 DEF Alone, Single, OnlyListedRuns

LEMMA AloneGoes ==
    ASSUME RInv, Alone, ~SlowBuild, NEW f \in Flow, Goes(f)
    PROVE  Alone'
<1>1. CASE RestartReads(f)
  BY <1>1, ReadsOff DEF Alone, Single, OnlyListedRuns
<1>2. CASE RestartCloses(f) \/ RestartRemoves(f) \/ CreateChecks(f) \/ CloseCloses(f)
  <2>1. op[f].pc = "wait" => life[op[f].old] # "up"
    BY DEF RInv, Reads
  <2>2. Single'
    BY <1>2, Moved DEF Alone, Single
  <2>3. OnlyListedRuns'
    BY <1>2, <2>1, Moved DEF Alone, OnlyListedRuns
  <2>4. QED
    BY <2>2, <2>3 DEF Alone
<1>3. CASE CreateInserts(f)
  <2>1. born \in 1..MaxInst /\ MaxInst \in Nat
    BY Births
  <2>2. op[f].pc = "insert" /\ listed = 0 /\ \A g \in Flow : op'[g].pc # "insert"
    BY <1>3, Inserted DEF Alone, Single
  <2>3. QED
    BY <1>3, <2>1, <2>2, Inserted DEF Alone, Single, OnlyListedRuns
<1>4. QED
  BY <1>1, <1>2, <1>3 DEF Goes

\* The registry by itself keeps both, whoever drives it.
LEMMA RegKept == RInv /\ [RegNext]_regVars => RInv'
<1> SUFFICES ASSUME RInv, [RegNext]_regVars PROVE RInv'
  OBVIOUS
<1>1. CASE RegNext
  BY <1>1, ExitsOK, AsksOK, GoesOK DEF RegNext
<1>2. CASE UNCHANGED regVars
  BY <1>2 DEF regVars, RInv, RegTypeOK, Newest, Reads
<1>3. QED
  BY <1>1, <1>2

LEMMA AloneKept == ASSUME ~SlowBuild PROVE RInv /\ Alone /\ [RegNext]_regVars => Alone'
<1> SUFFICES ASSUME RInv, Alone, [RegNext]_regVars PROVE Alone'
  OBVIOUS
<1>1. CASE RegNext
  BY <1>1, AloneExits, AloneAsks, AloneGoes DEF RegNext
<1>2. CASE UNCHANGED regVars
  BY <1>2 DEF regVars, Alone, Single, OnlyListedRuns
<1>3. QED
  BY <1>1, <1>2

-----------------------------------------------------------------------------
(* Choosing an account *)

Quotas == room \in [Account -> 0..100]

\* What betterCandidate ranks by, as one number: a Claude account with runway
\* before any other, then headroom, then a Claude account before a provider.
Rank(a) ==
    (IF SameBrain(a) THEN 1000 ELSE 0) + 2 * Remaining(a) + (IF a \in Provider THEN 0 ELSE 1)

LEMMA Ranked ==
    ASSUME Quotas, NEW a \in Account, NEW b \in Account
    PROVE  /\ Rank(a) \in 0..1201
           /\ BetterCandidate(a, b) => Rank(a) > Rank(b)
<1>1. Remaining(a) \in 0..100 /\ Remaining(b) \in 0..100
  BY DEF Quotas, Remaining, UnknownHeadroom
<1>2. Rank(a) \in 0..1201
  BY <1>1 DEF Rank
<1>3. ASSUME BetterCandidate(a, b) PROVE Rank(a) > Rank(b)
  <2>1. CASE SameBrain(a) # SameBrain(b)
    <3>1. SameBrain(a) /\ ~SameBrain(b)
      BY <1>3, <2>1 DEF BetterCandidate, SameBrain
    <3>2. Rank(a) >= 1000 /\ Rank(b) <= 201
      BY <1>1, <3>1 DEF Rank
    <3>3. Rank(a) \in Nat /\ Rank(b) \in Nat
      BY <1>1 DEF Rank
    <3>4. QED
      BY <3>2, <3>3
  <2>2. CASE SameBrain(a) = SameBrain(b) /\ Remaining(a) # Remaining(b)
    BY SMTT(30), <1>1, <1>3, <2>2 DEF Rank, BetterCandidate
  <2>3. CASE SameBrain(a) = SameBrain(b) /\ Remaining(a) = Remaining(b)
    BY <1>1, <1>3, <2>3 DEF Rank, BetterCandidate
  <2>4. QED
    BY <2>1, <2>2, <2>3
<1>4. QED
  BY <1>2, <1>3

\* A set of numbers has a least one.
LEMMA LeastOf ==
    ASSUME NEW T \in SUBSET Nat, T # {}
    PROVE  \E t \in T : \A u \in T : t <= u
<1> DEFINE Less == {p \in Nat \X Nat : p[1] < p[2]}
<1>1. IsWellFoundedOn(Less, Nat)
  BY NatLessThanWellFounded DEF OpToRel
<1> HIDE DEF Less
<1>2. PICK x \in T : \A y \in T : ~(<<y, x>> \in Less)
  BY <1>1, WFMin
<1>3. ASSUME NEW y \in T PROVE x <= y
  <2>1. ~(y < x)
    BY <1>2 DEF Less
  <2>2. QED
    BY <2>1
<1>4. QED
  BY <1>3

\* Some account is beaten by none, however many accounts there are.
LEMMA SomeBest ==
    ASSUME Quotas, NEW U \in SUBSET Account, U # {}
    PROVE  \E a \in U : \A b \in U : ~BetterCandidate(b, a)
<1> DEFINE T == {1201 - Rank(a) : a \in U}
<1>1. T \in SUBSET Nat /\ T # {}
  BY SMTT(30), Ranked
<1>2. PICK t \in T : \A u \in T : t <= u
  BY <1>1, LeastOf
<1>3. PICK a \in U : t = 1201 - Rank(a)
  BY <1>2
<1>4. ASSUME NEW b \in U PROVE ~BetterCandidate(b, a)
  <2>1. 1201 - Rank(a) <= 1201 - Rank(b)
    BY <1>2, <1>3
  <2>2. Rank(a) \in 0..1201 /\ Rank(b) \in 0..1201
    BY Ranked
  <2>3. BetterCandidate(b, a) => Rank(b) > Rank(a)
    BY Ranked
  <2>4. ~(Rank(b) > Rank(a))
    <3> DEFINE m == Rank(a)
               n == Rank(b)
    <3>1. m \in 0..1201 /\ n \in 0..1201 /\ 1201 - m <= 1201 - n
      BY <2>1, <2>2
    <3> HIDE DEF m, n
    <3>2. ~(n > m)
      BY <3>1
    <3>3. QED
      BY <3>2 DEF m, n
  <2>5. QED
    BY <2>3, <2>4
<1>5. QED
  BY <1>4

\* pickFailover (failover.go): whatever the quotas are, nothing is picked only
\* if every other account has been tried or has no headroom; what is picked is
\* neither the current account nor a tried one, has headroom, and is a provider
\* (another model) only if no Claude account left to try has runway.
THEOREM PicksTheBest ==
    ASSUME room \in [Account -> 0..100], NEW current, NEW seen
    PROVE  LET a == PickFailover(current, seen)
               usable == {b \in Account \ (seen \cup {current}) : Remaining(b) >= FailoverFloor}
           IN  /\ a = Keep <=> usable = {}
               /\ a # Keep => /\ a \in Account \ (seen \cup {current})
                              /\ Remaining(a) >= FailoverFloor
                              /\ a \in Provider => \A b \in Account \ (seen \cup {current}) : ~SameBrain(b)
<1> DEFINE usable == {b \in Account \ (seen \cup {current}) : Remaining(b) >= FailoverFloor}
           a == PickFailover(current, seen)
<1>0. Quotas /\ Keep \notin Account /\ usable \in SUBSET Account
  BY RegistryAssumption DEF Quotas
<1>1. CASE usable = {}
  BY <1>1 DEF PickFailover
<1>2. CASE usable # {}
  <2>1. a = CHOOSE b \in usable : \A c \in usable : ~BetterCandidate(c, b)
    BY <1>2 DEF PickFailover
  <2>2. a \in usable /\ \A c \in usable : ~BetterCandidate(c, a)
    BY <1>0, <1>2, <2>1, SomeBest
  <2>3. ASSUME a \in Provider, NEW b \in Account \ (seen \cup {current}), SameBrain(b)
        PROVE  FALSE
    <3>1. Remaining(b) \in 0..100
      BY <1>0 DEF Quotas, Remaining, UnknownHeadroom
    <3>2. b \in usable
      BY <2>3, <3>1 DEF SameBrain, SameBrainFloor, FailoverFloor
    <3>3. ~SameBrain(a)
      BY <2>3 DEF SameBrain
    <3>4. BetterCandidate(b, a)
      BY <2>3, <3>3 DEF BetterCandidate
    <3>5. QED
      BY <2>2, <3>2, <3>4
  <2>4. QED
    BY <1>0, <1>2, <2>2, <2>3
<1>3. QED
  BY <1>1, <1>2

-----------------------------------------------------------------------------
(* The hooks *)

Stage == {"free", "called", "decide", "check", "switch", "resend", "over"}
HookRec == [st : Stage, on : 0..MaxInst, wall : BOOLEAN, to : Account \cup {Keep},
            live : 0..MaxInst, msg : Message \cup {NoMessage}]

FoTypes ==
    /\ hook \in [Hook -> HookRec] /\ Quotas
    /\ turn \in [1..born -> Message \cup {NoMessage}] /\ newest \in [1..born -> Message \cup {NoMessage}]
    /\ waitline \in [1..born -> Seq(Message)]
    /\ walled \in [1..born -> BOOLEAN] /\ announced \in [1..born -> BOOLEAN]

\* What a hook has read still holds where it is used: the process it was called
\* for exists, what it moves to is another account than that process is on, the
\* process it found in the check is at least as new, and the request it drives
\* makes a newer one, on the account it chose.
HookOK(h) ==
    /\ hook[h].st \in {"called", "decide", "check", "switch"} => hook[h].on \in 1..born
    /\ hook[h].st \in {"called", "decide", "check"} => hook[h].live = 0
    /\ hook[h].st \in {"check", "switch"} => hook[h].to \in Account /\ hook[h].to # account[hook[h].on]
    /\ hook[h].st = "switch" =>
          /\ hook[h].live \in 1..born /\ hook[h].on <= hook[h].live
          /\ op[h].pc \in {"read", "close", "wait", "check", "insert", "ok", "failed"}
          /\ op[h].acct = hook[h].to
          /\ op[h].pc = "ok" => op[h].made \in 1..born /\ hook[h].live < op[h].made /\ account[op[h].made] = hook[h].to
    /\ hook[h].st = "resend" => op[h].pc = "ok" /\ op[h].made \in 1..born /\ hook[h].msg # NoMessage

FInv == RInv /\ FoTypes /\ \A h \in Hook : HookOK(h)

LEMMA One == ASSUME NEW S, NEW x \in S PROVE <<x>> \in [1..1 -> S]
<1>1. <<x>> \in Seq(S) /\ Len(<<x>>) = 1
  OBVIOUS
<1>2. QED
  BY <1>1, LenProperties

LEMMA Frees == Free \in HookRec
BY RegistryAssumption DEF Free, HookRec, Stage

LEMMA FoInitOK == FoInit => FInv
<1> SUFFICES ASSUME FoInit PROVE FInv
  OBVIOUS
<1>1. RInv
  BY RegInitOK DEF FoInit
<1>2. born = 1
  BY DEF FoInit, RegInit
<1>3. hook \in [Hook -> HookRec] /\ \A h \in Hook : hook[h].st = "free"
  BY Frees DEF FoInit, Free
<1>4. Quotas
  BY FailoverAssumption DEF FoInit, Quotas
<1>5. turn \in [1..born -> Message \cup {NoMessage}] /\ newest \in [1..born -> Message \cup {NoMessage}]
  <2>1. NoMessage \in Message \cup {NoMessage}
    OBVIOUS
  <2>2. QED
    BY <1>2, <2>1, One DEF FoInit
<1>6. waitline \in [1..born -> Seq(Message)]
  <2>1. << >> \in Seq(Message)
    OBVIOUS
  <2>2. QED
    BY <1>2, <2>1, One DEF FoInit
<1>7. walled \in [1..born -> BOOLEAN] /\ announced \in [1..born -> BOOLEAN]
  <2>1. FALSE \in BOOLEAN
    OBVIOUS
  <2>2. <<FALSE>> \in [1..1 -> BOOLEAN]
    BY <2>1, One
  <2>3. QED
    BY <1>2, <2>2 DEF FoInit
<1>8. QED
  BY <1>1, <1>3, <1>4, <1>5, <1>6, <1>7 DEF FInv, FoTypes, HookOK

\* A hook that is not part of a step, on processes that only become more.
LEMMA HookKept ==
    ASSUME FInv, NEW h \in Hook, hook'[h] = hook[h], op'[h] = op[h],
           born' \in {born, born + 1}, \A i \in 1..born : account'[i] = account[i]
    PROVE  HookOK(h)'
<1>1. born \in Nat
  BY Births DEF FInv
<1>2. 1..born \subseteq 1..born'
  BY <1>1
<1>3. QED
  BY <1>2 DEF FInv, HookOK

\* A hook that only moves to another stage.
LEMMA AtOK ==
    ASSUME hook \in [Hook -> HookRec], NEW h \in Hook, NEW l \in Stage, At(h, l)
    PROVE  /\ hook' \in [Hook -> HookRec] /\ \A g \in Hook \ {h} : hook'[g] = hook[g]
           /\ hook'[h].st = l /\ hook'[h].on = hook[h].on /\ hook'[h].to = hook[h].to
           /\ hook'[h].live = hook[h].live /\ hook'[h].msg = hook[h].msg
BY DEF At, HookRec

\* A hook that becomes another record.
LEMMA HookBecomes ==
    ASSUME hook \in [Hook -> HookRec], NEW h \in Hook, NEW r \in HookRec, hook' = [hook EXCEPT ![h] = r]
    PROVE  /\ hook' \in [Hook -> HookRec] /\ hook'[h] = r
           /\ \A g \in Hook \ {h} : hook'[g] = hook[g]
OBVIOUS

\* The hook a turn end starts.
LEMMA Called ==
    ASSUME FInv, NEW i \in 1..born, NEW wall \in BOOLEAN, Call(i, wall)
    PROVE  \E h \in Hook :
             /\ hook[h].st = "free" /\ hook' \in [Hook -> HookRec]
             /\ hook'[h].st = "called" /\ hook'[h].on = i /\ hook'[h].live = 0
             /\ \A g \in Hook \ {h} : hook'[g] = hook[g]
<1>0. i \in 0..MaxInst /\ hook \in [Hook -> HookRec]
  BY Births DEF FInv, FoTypes
<1>1. PICK h \in Hook : hook[h].st = "free" /\ hook' = [hook EXCEPT ![h] = [Free EXCEPT !.st = "called", !.on = i, !.wall = wall]]
  BY DEF Call
<1> DEFINE r == [Free EXCEPT !.st = "called", !.on = i, !.wall = wall]
<1>2. r \in HookRec /\ r.st = "called" /\ r.on = i /\ r.live = 0
  <2>1. Free \in HookRec /\ Free.live = 0
    BY Frees DEF Free
  <2>2. QED
    BY <1>0, <2>1 DEF HookRec, Stage
<1> HIDE DEF r
<1>3. hook' \in [Hook -> HookRec] /\ hook'[h] = r /\ \A g \in Hook \ {h} : hook'[g] = hook[g]
  BY <1>0, <1>1, <1>2, HookBecomes DEF r
<1>4. QED
  BY <1>1, <1>2, <1>3

LEMMA CalledOK ==
    ASSUME FInv, NEW i \in 1..born, NEW wall \in BOOLEAN, Call(i, wall), UNCHANGED <<born, account, op>>
    PROVE  hook' \in [Hook -> HookRec] /\ \A h \in Hook : HookOK(h)'
<1>1. PICK h \in Hook :
        /\ hook[h].st = "free" /\ hook' \in [Hook -> HookRec]
        /\ hook'[h].st = "called" /\ hook'[h].on = i /\ hook'[h].live = 0
        /\ \A g \in Hook \ {h} : hook'[g] = hook[g]
  BY Called
<1>2. HookOK(h)'
  BY <1>1 DEF HookOK
<1>3. ASSUME NEW g \in Hook \ {h} PROVE HookOK(g)'
  BY <1>1, HookKept
<1>4. QED
  BY <1>1, <1>2, <1>3

\* A stage that needs no more than the one before.
LEMMA AtLess ==
    ASSUME FInv, NEW h \in Hook, NEW l \in Stage, At(h, l), UNCHANGED <<born, account, op>>,
           \/ l = "over"
           \/ l = "decide" /\ hook[h].st = "called"
           \/ l = "resend" /\ hook[h].st = "switch" /\ op[h].pc = "ok" /\ hook[h].msg # NoMessage
    PROVE  hook' \in [Hook -> HookRec] /\ \A g \in Hook : HookOK(g)'
<1>0. hook \in [Hook -> HookRec]
  BY DEF FInv, FoTypes
<1>1. /\ hook' \in [Hook -> HookRec] /\ \A g \in Hook \ {h} : hook'[g] = hook[g]
      /\ hook'[h].st = l /\ hook'[h].on = hook[h].on /\ hook'[h].to = hook[h].to
      /\ hook'[h].live = hook[h].live /\ hook'[h].msg = hook[h].msg
  BY <1>0, AtOK
<1>2. HookOK(h)
  BY DEF FInv
<1>3. HookOK(h)'
  BY <1>1, <1>2 DEF HookOK
<1>4. ASSUME NEW g \in Hook \ {h} PROVE HookOK(g)'
  BY <1>1, HookKept
<1>5. QED
  BY <1>1, <1>3, <1>4

-----------------------------------------------------------------------------
(* One lemma per action *)

\* A message is taken.
LEMMA TakeOK ==
    ASSUME FInv, NEW i \in 1..born, NEW m \in Message, Take(i, m)
    PROVE  /\ turn' \in [1..born -> Message \cup {NoMessage}] /\ newest' \in [1..born -> Message \cup {NoMessage}]
           /\ waitline' \in [1..born -> Seq(Message)]
<1>1. /\ turn \in [1..born -> Message \cup {NoMessage}] /\ newest \in [1..born -> Message \cup {NoMessage}]
      /\ waitline \in [1..born -> Seq(Message)]
  BY DEF FInv, FoTypes
<1>2. CASE turn[i] # NoMessage
  <2>1. waitline' = [waitline EXCEPT ![i] = Append(@, m)] /\ UNCHANGED <<turn, newest>>
    BY <1>2 DEF Take
  <2>2. Append(waitline[i], m) \in Seq(Message)
    BY <1>1
  <2>3. QED
    BY <1>1, <2>1, <2>2
<1>3. CASE turn[i] = NoMessage
  BY <1>1, <1>3 DEF Take
<1>4. QED
  BY <1>2, <1>3

\* The queue moves on.
LEMMA DrainOK ==
    ASSUME FInv, NEW i \in 1..born, Drain(i)
    PROVE  /\ turn' \in [1..born -> Message \cup {NoMessage}] /\ newest' \in [1..born -> Message \cup {NoMessage}]
           /\ waitline' \in [1..born -> Seq(Message)]
<1>1. /\ turn \in [1..born -> Message \cup {NoMessage}] /\ newest \in [1..born -> Message \cup {NoMessage}]
      /\ waitline \in [1..born -> Seq(Message)]
  BY DEF FInv, FoTypes
<1>2. CASE waitline[i] = << >>
  BY <1>1, <1>2 DEF Drain
<1>3. CASE waitline[i] # << >>
  <2>1. Head(waitline[i]) \in Message /\ Tail(waitline[i]) \in Seq(Message)
    BY <1>1, <1>3
  <2>2. /\ turn' = [turn EXCEPT ![i] = Head(waitline[i])]
        /\ newest' = [newest EXCEPT ![i] = Head(waitline[i])]
        /\ waitline' = [waitline EXCEPT ![i] = Tail(@)]
    BY <1>3 DEF Drain
  <2>3. QED
    BY <1>1, <2>1, <2>2
<1>4. QED
  BY <1>2, <1>3

LEMMA SendOK ==
    ASSUME FInv, NEW m \in Message, Send(m)
    PROVE  FInv'
<1>1. listed \in 1..born /\ Take(listed, m) /\ UNCHANGED <<regVars, walled, choice, quota>>
  BY Births DEF FInv, Send
<1>2. FoTypes'
  BY <1>1, TakeOK DEF FInv, FoTypes, regVars, choice, quota, Quotas
<1>3. \A h \in Hook : HookOK(h)'
  BY <1>1, HookKept DEF regVars, choice
<1>4. RInv'
  BY <1>1, RegKept DEF FInv
<1>5. QED
  BY <1>2, <1>3, <1>4 DEF FInv

LEMMA ResendOK ==
    ASSUME FInv, NEW h \in Hook, Resend(h)
    PROVE  FInv'
<1> DEFINE i == op[h].made
<1>1. /\ hook[h].st = "resend" /\ At(h, "over") /\ UNCHANGED <<regVars, walled, enabled, tried, announced, quota>>
      /\ IF life[i] = "up" THEN Take(i, hook[h].msg) ELSE UNCHANGED <<turn, waitline, newest>>
  BY DEF Resend
<1>2. i \in 1..born /\ hook[h].msg \in Message
  <2>1. hook[h] \in HookRec /\ HookOK(h)
    BY DEF FInv, FoTypes
  <2>2. QED
    BY <1>1, <2>1 DEF HookOK, HookRec
<1>3. /\ turn' \in [1..born -> Message \cup {NoMessage}] /\ newest' \in [1..born -> Message \cup {NoMessage}]
      /\ waitline' \in [1..born -> Seq(Message)]
  <2>1. CASE life[i] = "up"
    BY <1>1, <1>2, <2>1, TakeOK
  <2>2. CASE life[i] # "up"
    BY <1>1, <2>2 DEF FInv, FoTypes
  <2>3. QED
    BY <2>1, <2>2
<1>4. hook' \in [Hook -> HookRec] /\ \A g \in Hook : HookOK(g)'
  BY <1>1, AtLess DEF regVars, Stage
<1>5. FoTypes'
  BY <1>1, <1>3, <1>4 DEF FInv, FoTypes, regVars, quota, Quotas
<1>6. RInv'
  BY <1>1, RegKept DEF FInv
<1>7. QED
  BY <1>4, <1>5, <1>6 DEF FInv

LEMMA TurnEndsOK ==
    ASSUME FInv, NEW i \in 1..born, NEW wall \in BOOLEAN, TurnEnds(i, wall)
    PROVE  FInv'
<1>1. Drain(i) /\ Call(i, wall) /\ Latch(i, wall) /\ UNCHANGED <<regVars, announced, room>>
  BY DEF TurnEnds
<1>2. walled' \in [1..born -> BOOLEAN]
  BY <1>1 DEF Latch, FInv, FoTypes
<1>3. hook' \in [Hook -> HookRec] /\ \A h \in Hook : HookOK(h)'
  BY <1>1, CalledOK DEF regVars
<1>4. FoTypes'
  BY <1>1, <1>2, <1>3, DrainOK DEF FInv, FoTypes, regVars, Quotas
<1>5. RInv'
  BY <1>1, RegKept DEF FInv
<1>6. QED
  BY <1>3, <1>4, <1>5 DEF FInv

\* Nothing but the registry and perhaps an announcement or a hook changes.
LEMMA TypesKept ==
    ASSUME FInv, UNCHANGED <<born, turn, newest, waitline, walled>>, Quotas',
           hook' \in [Hook -> HookRec], announced' \in [1..born -> BOOLEAN]
    PROVE  FoTypes'
BY DEF FInv, FoTypes

LEMMA ExitOK ==
    ASSUME FInv, NEW i \in 1..born, ProcessExits(i) \/ Reap(i), UNCHANGED <<turns, choice, quota>>
    PROVE  FInv'
<1>1. RInv' /\ UNCHANGED <<born, account, op, hook>>
  BY ExitsOK DEF FInv, ProcessExits, Reap, processes, choice
<1>2. \A h \in Hook : HookOK(h)'
  BY <1>1, HookKept
<1>3. FoTypes'
  BY <1>1 DEF FInv, FoTypes, turns, choice, quota, Quotas
<1>4. QED
  BY <1>1, <1>2, <1>3 DEF FInv

LEMMA EndPumpOK ==
    ASSUME FInv, NEW i \in 1..born, EndPump(i)
    PROVE  FInv'
<1>1. RInv' /\ UNCHANGED <<born, account, op, turns, announced, quota>>
  BY ExitsOK DEF FInv, EndPump, PumpExits
<1>2. hook' \in [Hook -> HookRec] /\ \A h \in Hook : HookOK(h)'
  <2>1. CASE turn[i] = NoMessage
    <3>1. UNCHANGED hook
      BY <2>1 DEF EndPump
    <3>2. QED
      BY <1>1, <3>1, HookKept DEF FInv, FoTypes
  <2>2. CASE turn[i] # NoMessage
    <3>1. Call(i, walled[i]) /\ walled[i] \in BOOLEAN
      BY <2>2 DEF EndPump, FInv, FoTypes
    <3>2. QED
      BY <1>1, <3>1, CalledOK
  <2>3. QED
    BY <2>1, <2>2
<1>3. FoTypes'
  BY <1>1, <1>2 DEF FInv, FoTypes, turns, quota, Quotas
<1>4. QED
  BY <1>1, <1>2, <1>3 DEF FInv

LEMMA PersonOK ==
    ASSUME FInv, NEW f \in Flow \ Hook, PersonAsks(f)
    PROVE  FInv'
<1>1. Asks(f) /\ UNCHANGED <<turns, choice, quota>>
  BY DEF PersonAsks, Asks
<1>2. RInv'
  BY <1>1, AsksOK DEF FInv
<1>3. UNCHANGED <<born, account, hook>> /\ \A h \in Hook : op'[h] = op[h]
  BY <1>1, FailoverAssumption, OpType DEF FInv, Asks, CloseFinds, Open, Respawn, processes, choice
<1>4. \A h \in Hook : HookOK(h)'
  BY <1>3, HookKept
<1>5. FoTypes'
  BY <1>1, <1>3 DEF FInv, FoTypes, turns, choice, quota, Quotas
<1>6. QED
  BY <1>2, <1>4, <1>5 DEF FInv

\* What a step of a request leaves of the hook that drives it.
LEMMA DrivenOK ==
    ASSUME FInv, NEW f \in Flow, Goes(f), hook' = hook
    PROVE  \A h \in Hook : HookOK(h)'
<1>0. born \in Nat /\ (listed # 0 => listed = born) /\ RInv
  BY Births DEF FInv
<1>a. op \in [Flow -> Request] /\ Hook \subseteq Flow /\ Keep \notin Account
  BY OpType, FailoverAssumption, RegistryAssumption DEF FInv
<1> SUFFICES ASSUME NEW h \in Hook PROVE HookOK(h)'
  OBVIOUS
<1>b. HookOK(h)
  BY DEF FInv
<1>1. CASE RestartReads(f)
  <2>1. UNCHANGED <<born, account>>
    BY <1>0, <1>1, ReadsOff
  <2>2. CASE h # f
    BY <1>0, <1>1, <1>a, <2>1, <2>2, ReadsOff, HookKept
  <2>3. CASE h = f
    BY <1>0, <1>1, <1>a, <1>b, <2>1, <2>3, ReadsOff DEF HookOK
  <2>4. QED
    BY <2>2, <2>3
<1>2. CASE RestartCloses(f) \/ RestartRemoves(f) \/ CreateChecks(f) \/ CloseCloses(f)
  <2>1. UNCHANGED <<born, account>>
    BY <1>0, <1>2, Moved
  <2>2. CASE h # f
    BY <1>0, <1>2, <1>a, <2>1, <2>2, Moved, HookKept
  <2>3. CASE h = f
    BY <1>0, <1>2, <1>a, <1>b, <2>1, <2>3, Moved DEF HookOK
  <2>4. QED
    BY <2>2, <2>3
<1>3. CASE CreateInserts(f)
  <2>1. born' = born + 1 /\ \A i \in 1..born : account'[i] = account[i]
    BY <1>0, <1>3, Inserted
  <2>2. CASE h # f
    BY <1>0, <1>3, <1>a, <2>1, <2>2, Inserted, HookKept
  <2>3. CASE h = f
    <3>1. /\ op[h].pc = "insert" /\ op'[h].pc = "ok" /\ op'[h].made = born + 1
          /\ op'[h].acct = op[h].acct /\ account'[born + 1] = op[h].acct
      BY <1>0, <1>3, <2>3, Inserted
    <3>2. 1..born \subseteq 1..(born + 1) /\ \A l \in 1..born : l < born + 1
      BY <1>0
    <3>3. born + 1 \in 1..(born + 1)
      BY <1>0
    <3>4. QED
      BY <1>b, <2>1, <3>1, <3>2, <3>3 DEF HookOK
  <2>4. QED
    BY <2>2, <2>3
<1>4. QED
  BY <1>1, <1>2, <1>3 DEF Goes

LEMMA FlowOK ==
    ASSUME FInv, NEW f \in Flow, FlowGoes(f)
    PROVE  FInv'
<1>1. Goes(f) /\ hook' = hook
  BY DEF FlowGoes, Goes, Insert, choice
<1>2. RInv' /\ \A h \in Hook : HookOK(h)'
  BY <1>1, GoesOK, DrivenOK DEF FInv
<1>3. FoTypes'
  <2>1. CASE Insert(f)
    <3>0. born \in Nat /\ born' = born + 1 /\ UNCHANGED <<hook, quota>>
      BY <2>1, Births, Inserted DEF FInv, Insert
    <3>1. turn' \in [1..(born + 1) -> Message \cup {NoMessage}]
      <4>1. turn' = Append(turn, NoMessage) /\ turn \in [1..born -> Message \cup {NoMessage}]
        BY <2>1 DEF Insert, FInv, FoTypes
      <4>2. Append(turn, NoMessage) \in [1..(born + 1) -> Message \cup {NoMessage}]
        BY <3>0, <4>1, Grown
      <4>3. QED
        BY <4>1, <4>2
    <3>2. newest' \in [1..(born + 1) -> Message \cup {NoMessage}]
      <4>1. newest' = Append(newest, NoMessage) /\ newest \in [1..born -> Message \cup {NoMessage}]
        BY <2>1 DEF Insert, FInv, FoTypes
      <4>2. Append(newest, NoMessage) \in [1..(born + 1) -> Message \cup {NoMessage}]
        BY <3>0, <4>1, Grown
      <4>3. QED
        BY <4>1, <4>2
    <3>3. waitline' \in [1..(born + 1) -> Seq(Message)]
      <4>1. waitline' = Append(waitline, << >>) /\ waitline \in [1..born -> Seq(Message)] /\ << >> \in Seq(Message)
        BY <2>1 DEF Insert, FInv, FoTypes
      <4>2. Append(waitline, << >>) \in [1..(born + 1) -> Seq(Message)]
        BY <3>0, <4>1, Grown
      <4>3. QED
        BY <4>1, <4>2
    <3>4. walled' \in [1..(born + 1) -> BOOLEAN] /\ announced' \in [1..(born + 1) -> BOOLEAN]
      <4>1. walled' = Append(walled, FALSE) /\ walled \in [1..born -> BOOLEAN]
            /\ announced' = Append(announced, FALSE) /\ announced \in [1..born -> BOOLEAN]
        BY <2>1 DEF Insert, FInv, FoTypes
      <4>2. FALSE \in BOOLEAN
        OBVIOUS
      <4>3. Append(walled, FALSE) \in [1..(born + 1) -> BOOLEAN]
        BY <3>0, <4>1, <4>2, Grown
      <4>4. Append(announced, FALSE) \in [1..(born + 1) -> BOOLEAN]
        BY <3>0, <4>1, <4>2, Grown
      <4>5. QED
        BY <4>1, <4>3, <4>4
    <3>5. QED
      BY <3>0, <3>1, <3>2, <3>3, <3>4 DEF FInv, FoTypes, quota, Quotas
  <2>2. CASE UNCHANGED <<turns, choice, quota>> /\ ~Insert(f)
    <3>1. RestartReads(f) \/ RestartCloses(f) \/ RestartRemoves(f) \/ CreateChecks(f) \/ CloseCloses(f)
      BY <2>2 DEF FlowGoes
    <3>2. UNCHANGED born
      BY <3>1 DEF RestartReads, RestartCloses, RestartRemoves, CreateChecks, CloseCloses, processes
    <3>3. QED
      BY <2>2, <3>2 DEF FInv, FoTypes, turns, choice, quota, Quotas
  <2>3. QED
    BY <2>1, <2>2 DEF FlowGoes
<1>4. QED
  BY <1>2, <1>3 DEF FInv

\* What is announced stays a Boolean for every process.
LEMMA Announces ==
    ASSUME FInv, NEW i, Announce(i)
    PROVE  announced' \in [1..born -> BOOLEAN]
BY DEF FInv, FoTypes, Announce

LEMMA Retracts ==
    ASSUME FInv, NEW S, Retract(S)
    PROVE  /\ announced' \in [1..born -> BOOLEAN]
           /\ \A i \in 1..born : announced'[i] <=> (announced[i] /\ i \notin S)
<1>1. announced \in [1..born -> BOOLEAN]
  BY DEF FInv, FoTypes
<1>2. \A i \in 1..born : (announced[i] /\ i \notin S) \in BOOLEAN
  OBVIOUS
<1>3. announced' = [i \in 1..born |-> announced[i] /\ i \notin S]
  BY <1>1 DEF Retract
<1>4. QED
  BY <1>1, <1>2, <1>3

\* The hook chooses.
LEMMA DecidesOK ==
    ASSUME FInv, NEW h \in Hook, HookDecides(h)
    PROVE  FInv'
<1> DEFINE i == hook[h].on
           a == PickFailover(account[i], tried)
<1>1. hook[h].st = "decide" /\ UNCHANGED <<enabled, tried, regVars, turns, quota>>
  BY DEF HookDecides
<1>2. RInv'
  BY <1>1, RegKept DEF FInv
<1>a. UNCHANGED <<born, account, op, turn, newest, waitline, walled, room>>
  BY <1>1 DEF regVars, turns, quota
<1>3. CASE a = Keep
  <2>1. Retract({i}) /\ At(h, "over")
    BY <1>3 DEF HookDecides
  <2>2. hook' \in [Hook -> HookRec] /\ \A g \in Hook : HookOK(g)'
    BY <1>a, <2>1, AtLess DEF Stage
  <2>3. FoTypes'
    BY <1>a, <2>1, <2>2, Retracts, TypesKept DEF FInv, FoTypes, Quotas
  <2>4. QED
    BY <1>2, <2>2, <2>3 DEF FInv
<1>4. CASE a # Keep
  <2>0. hook[h] \in HookRec /\ HookOK(h) /\ hook \in [Hook -> HookRec]
    BY DEF FInv, FoTypes
  <2>1. a \in Account /\ a # account[i]
    <3>1. a \in Account \ (tried \cup {account[i]})
      BY <1>4, PicksTheBest DEF FInv, FoTypes, Quotas
    <3>2. QED
      BY <3>1
  <2> DEFINE p == hook[h]
             r == [p EXCEPT !.st = "check", !.to = a]
  <2>2. hook' = [hook EXCEPT ![h] = r] /\ UNCHANGED announced
    BY <1>4 DEF HookDecides
  <2> HIDE DEF a
  <2>3. p \in HookRec /\ p.st = "decide" /\ p.on \in 1..born /\ p.live = 0 /\ p.on = i
    BY <1>1, <2>0 DEF HookOK
  <2> HIDE DEF p
  <2>4. r \in HookRec /\ r.st = "check" /\ r.to = a /\ r.on = p.on /\ r.live = p.live
    BY <2>1, <2>3 DEF HookRec, Stage
  <2> HIDE DEF r
  <2>5. hook' \in [Hook -> HookRec] /\ hook'[h] = r /\ \A g \in Hook \ {h} : hook'[g] = hook[g]
    BY <2>0, <2>2, <2>4, HookBecomes
  <2>6. HookOK(h)'
    BY <1>a, <2>1, <2>3, <2>4, <2>5 DEF HookOK
  <2>7. \A g \in Hook \ {h} : HookOK(g)'
    BY <1>a, <2>5, HookKept
  <2>8. FoTypes'
    BY <1>a, <2>2, <2>5, TypesKept DEF FInv, FoTypes, Quotas
  <2>9. QED
    BY <1>2, <2>6, <2>7, <2>8 DEF FInv
<1>5. QED
  BY <1>3, <1>4

\* The hook asks the registry for a respawn on the account it chose.
LEMMA SwitchesOK ==
    ASSUME FInv, NEW h \in Hook, HookSwitches(h)
    PROVE  /\ FInv'
           /\ hook[h].st = "check" /\ hook'[h].st = "switch" /\ hook'[h].on = hook[h].on
           /\ \A g \in Hook \ {h} : hook'[g] = hook[g]
           /\ \A f \in Flow : op'[f].pc = "insert" => op[f].pc = "insert" /\ f # h
           /\ UNCHANGED <<listed, born, life, announced>>
<1>1. /\ hook[h].st = "check" /\ listed # 0
      /\ hook' = [hook EXCEPT ![h].st = "switch", ![h].live = listed, ![h].msg = newest[listed]]
      /\ UNCHANGED <<enabled, tried, announced, listed, born, life, account, withheld, turns, quota>>
  BY DEF HookSwitches, MovedAway, processes
<1>2. PICK l \in {"read", "failed"} : op' = [op EXCEPT ![h] = [Idle EXCEPT !.pc = l, !.acct = hook[h].to]]
  BY DEF HookSwitches
<1>3. hook \in [Hook -> HookRec] /\ HookOK(h) /\ hook[h].to \in Account /\ hook[h].on \in 1..born
  BY <1>1 DEF FInv, FoTypes, HookOK
<1>4. /\ op \in [Flow -> Request] /\ h \in Flow
      /\ born \in 1..MaxInst /\ MaxInst \in Nat /\ listed = born
  BY <1>1, OpType, Births, FailoverAssumption DEF FInv
<1> DEFINE b == hook[h].to
           q == [Idle EXCEPT !.pc = l, !.acct = b]
<1>5. op' = [op EXCEPT ![h] = q]
  BY <1>2
<1>6. b \in Account
  BY <1>3
<1> HIDE DEF b
<1>7. q \in Request /\ q.pc = l /\ q.acct = b
  BY <1>6, Idles DEF Request, Label
<1> HIDE DEF q
<1>8. op' \in [Flow -> Request] /\ op'[h] = q /\ \A g \in Flow \ {h} : op'[g] = op[g]
  BY <1>4, <1>5, <1>7, OpBecomes
<1>9. RInv'
  BY <1>1, <1>4, <1>7, <1>8, OnlyOp DEF FInv
<1> DEFINE p == hook[h]
           m == newest[listed]
           r == [p EXCEPT !.st = "switch", !.live = listed, !.msg = m]
<1>10. hook' = [hook EXCEPT ![h] = r]
  BY <1>1
<1>11. p \in HookRec /\ p.on \in 1..born /\ p.to = b /\ m \in Message \cup {NoMessage} /\ p.on = hook[h].on
  BY <1>3, <1>4 DEF b, FInv, FoTypes
<1> HIDE DEF p, m
<1>12. r \in HookRec /\ r.st = "switch" /\ r.live = listed /\ r.on = p.on /\ r.to = b
  <2>1. listed \in 0..MaxInst
    BY <1>4
  <2>2. QED
    BY <2>1, <1>11 DEF HookRec, Stage
<1> HIDE DEF r
<1>13. hook' \in [Hook -> HookRec] /\ hook'[h] = r /\ \A g \in Hook \ {h} : hook'[g] = hook[g]
  BY <1>3, <1>10, <1>12, HookBecomes
<1>14. HookOK(h)'
  <2>1. hook'[h].st = "switch" /\ hook'[h].on \in 1..born /\ hook'[h].live = born /\ hook'[h].to = b
    BY <1>4, <1>11, <1>12, <1>13
  <2>2. born \in 1..born /\ hook'[h].on <= born
    BY <1>4, <2>1
  <2>3. op'[h].pc \in {"read", "failed"} /\ op'[h].acct = b /\ born' = born
    BY <1>1, <1>7, <1>8
  <2>4. b \in Account /\ b # account[hook[h].on] /\ account' = account /\ hook'[h].on = hook[h].on
    BY <1>1, <1>3, <1>6, <1>11, <1>12, <1>13 DEF HookOK, b
  <2>5. QED
    BY <2>1, <2>2, <2>3, <2>4 DEF HookOK
<1>15. \A g \in Hook \ {h} : HookOK(g)'
  BY <1>1, <1>8, <1>13, HookKept, FailoverAssumption
<1>16. FoTypes'
  BY <1>1, <1>13, TypesKept DEF FInv, FoTypes, Quotas, turns, quota
<1>17. FInv'
  BY <1>9, <1>14, <1>15, <1>16 DEF FInv
<1>18. QED
  BY <1>1, <1>7, <1>8, <1>11, <1>12, <1>13, <1>17

\* The other steps of a hook.
LEMMA HookGoesOK ==
    ASSUME FInv, NEW h \in Hook, HookGoes(h)
    PROVE  FInv'
<1> USE DEF Stage
<1>1. CASE HookBegins(h)
  <2>1. /\ hook[h].st = "called" /\ UNCHANGED <<enabled, regVars, turns, quota>>
        /\ At(h, "over") \/ At(h, "decide")
        /\ announced' \in [1..born -> BOOLEAN]
    BY <1>1, Announces DEF HookBegins, FInv, FoTypes
  <2>2. UNCHANGED <<born, account, op, turn, newest, waitline, walled, room>>
    BY <2>1 DEF regVars, turns, quota
  <2>3. hook' \in [Hook -> HookRec] /\ \A g \in Hook : HookOK(g)'
    BY <2>1, <2>2, AtLess
  <2>4. FoTypes' /\ RInv'
    BY <2>1, <2>2, <2>3, TypesKept, RegKept DEF FInv, FoTypes, Quotas
  <2>5. QED
    BY <2>3, <2>4 DEF FInv
<1>2. CASE HookDecides(h)
  BY <1>2, DecidesOK
<1>3. CASE HookStandsDown(h) \/ HookFails(h) \/ HookMoved(h)
  <2>1. UNCHANGED <<regVars, turns, quota>>
    BY <1>3 DEF HookStandsDown, HookFails, HookMoved
  <2>2. UNCHANGED <<born, account, op, turn, newest, waitline, walled, room>>
    BY <2>1 DEF regVars, turns, quota
  <2>3. announced' \in [1..born -> BOOLEAN]
    BY <1>3, Retracts DEF HookStandsDown, HookFails, HookMoved, FInv, FoTypes
  <2>4. hook' \in [Hook -> HookRec] /\ \A g \in Hook : HookOK(g)'
    <3>1. CASE HookStandsDown(h) \/ HookFails(h)
      BY <2>2, <3>1, AtLess DEF HookStandsDown, HookFails
    <3>2. CASE HookMoved(h)
      <4>1. \/ At(h, "over")
            \/ At(h, "resend") /\ hook[h].st = "switch" /\ op[h].pc = "ok" /\ hook[h].msg # NoMessage
        BY <3>2 DEF HookMoved
      <4>2. QED
        BY <2>2, <4>1, AtLess
    <3>3. QED
      BY <1>3, <3>1, <3>2
  <2>5. FoTypes' /\ RInv'
    BY <2>1, <2>2, <2>3, <2>4, TypesKept, RegKept DEF FInv, FoTypes, Quotas
  <2>6. QED
    BY <2>4, <2>5 DEF FInv
<1>4. CASE HookSwitches(h)
  BY <1>4, SwitchesOK
<1>5. CASE Resend(h)
  BY <1>5, ResendOK
<1>6. QED
  BY <1>1, <1>2, <1>3, <1>4, <1>5 DEF HookGoes

LEMMA SpendOK ==
    ASSUME FInv, NEW a \in Account, Spend(a)
    PROVE  FInv'
<1>1. room' = [room EXCEPT ![a] = 0] /\ UNCHANGED <<regVars, turns, choice>>
  BY DEF Spend
<1>2. UNCHANGED <<born, account, op, hook, turn, newest, waitline, walled, announced>>
  BY <1>1 DEF regVars, turns, choice
<1>3. Quotas'
  BY <1>1 DEF FInv, FoTypes, Quotas
<1>4. \A h \in Hook : HookOK(h)'
  BY <1>2, HookKept
<1>5. FoTypes' /\ RInv'
  BY <1>1, <1>2, <1>3, TypesKept, RegKept DEF FInv, FoTypes
<1>6. QED
  BY <1>4, <1>5 DEF FInv

LEMMA RestOK ==
    ASSUME FInv, SetEnabled \/ UNCHANGED foVars
    PROVE  FInv'
<1>1. UNCHANGED <<regVars, turns, hook, announced, quota>>
  BY DEF SetEnabled, foVars, choice
<1>2. UNCHANGED <<born, account, op, hook, turn, newest, waitline, walled, announced, room>>
  BY <1>1 DEF regVars, turns, quota
<1>3. \A h \in Hook : HookOK(h)'
  BY <1>2, HookKept
<1>4. FoTypes' /\ RInv'
  BY <1>1, <1>2, TypesKept, RegKept DEF FInv, FoTypes, Quotas
<1>5. QED
  BY <1>3, <1>4 DEF FInv

LEMMA FoNextOK == FInv /\ [FoNext]_foVars => FInv'
<1> SUFFICES ASSUME FInv, [FoNext]_foVars PROVE FInv'
  OBVIOUS
<1>1. ASSUME NEW i \in 1..born, ProcessExits(i) \/ Reap(i), UNCHANGED <<turns, choice, quota>>
      PROVE  FInv'
  BY <1>1, ExitOK
<1>2. ASSUME NEW i \in 1..born, EndPump(i) PROVE FInv'
  BY <1>2, EndPumpOK
<1>3. ASSUME NEW i \in 1..born, NEW wall \in BOOLEAN, TurnEnds(i, wall) PROVE FInv'
  BY <1>3, TurnEndsOK
<1>4. ASSUME NEW f \in Flow, FlowGoes(f) PROVE FInv'
  BY <1>4, FlowOK
<1>5. ASSUME NEW f \in Flow \ Hook, PersonAsks(f) PROVE FInv'
  BY <1>5, PersonOK
<1>6. ASSUME NEW h \in Hook, HookGoes(h) PROVE FInv'
  BY <1>6, HookGoesOK
<1>7. ASSUME NEW m \in Message, Send(m) PROVE FInv'
  BY <1>7, SendOK
<1>8. ASSUME NEW a \in Account, Spend(a) PROVE FInv'
  BY <1>8, SpendOK
<1>9. CASE SetEnabled \/ UNCHANGED foVars
  BY <1>9, RestOK
<1>10. QED
  BY <1>1, <1>2, <1>3, <1>4, <1>5, <1>6, <1>7, <1>8, <1>9 DEF FoNext

\* Every variable of the registry has its type under a failover.
THEOREM RegistryIsTyped == FoSpec => []RegTypeOK
<1>1. FoInit => FInv
  BY FoInitOK
<1>2. FInv /\ [FoNext]_foVars => FInv'
  BY FoNextOK
<1>3. FInv => RegTypeOK
  BY DEF FInv, RInv
<1>4. QED
  BY <1>1, <1>2, <1>3, PTL DEF FoSpec

\* The same of the registry alone, whoever asks it (respawns that withhold
\* tools included).
THEOREM RegistryAloneIsTyped == RegSpec => []RegTypeOK
<1>1. RegInit => RInv
  BY RegInitOK
<1>2. RInv => RegTypeOK
  BY DEF RInv
<1>3. QED
  BY <1>1, <1>2, RegKept, PTL DEF RegSpec

-----------------------------------------------------------------------------
(* One process at a time *)

\* Every step but the one that hands a hook over to the registry is, to the
\* registry, one of its own or none.
LEMMA RegPart ==
    ASSUME [FoNext]_foVars, \A h \in Hook : ~HookSwitches(h)
    PROVE  [RegNext]_regVars
<1>1. ASSUME NEW i \in 1..born, ProcessExits(i) \/ Reap(i)
      PROVE  RegNext
  BY <1>1 DEF RegNext
<1>2. ASSUME NEW i \in 1..born, EndPump(i)
      PROVE  RegNext
  BY <1>2 DEF RegNext, EndPump
<1>3. ASSUME NEW i \in 1..born, NEW wall \in BOOLEAN, TurnEnds(i, wall)
      PROVE  UNCHANGED regVars
  BY <1>3 DEF TurnEnds
<1>4. ASSUME NEW f \in Flow, FlowGoes(f)
      PROVE  RegNext
  <2>1. Goes(f)
    BY <1>4 DEF FlowGoes, Goes, Insert
  <2>2. QED
    BY <2>1 DEF RegNext
<1>5. ASSUME NEW f \in Flow \ Hook, PersonAsks(f)
      PROVE  RegNext
  <2>1. Asks(f)
    BY <1>5 DEF PersonAsks, Asks
  <2>2. QED
    BY <2>1 DEF RegNext
<1>6. ASSUME NEW h \in Hook, HookGoes(h)
      PROVE  UNCHANGED regVars
  BY <1>6 DEF HookGoes, HookBegins, HookDecides, HookStandsDown, HookFails, HookMoved, Resend
<1>7. ASSUME NEW m \in Message, Send(m)
      PROVE  UNCHANGED regVars
  BY <1>7 DEF Send
<1>8. ASSUME NEW a \in Account, Spend(a)
      PROVE  UNCHANGED regVars
  BY <1>8 DEF Spend
<1>9. CASE SetEnabled \/ UNCHANGED foVars
  BY <1>9 DEF SetEnabled, foVars
<1>10. QED
  BY <1>1, <1>2, <1>3, <1>4, <1>5, <1>6, <1>7, <1>8, <1>9 DEF FoNext

LEMMA AloneNext ==
    ASSUME ~SlowBuild
    PROVE  FInv /\ Alone /\ [FoNext]_foVars => Alone'
<1> SUFFICES ASSUME FInv, Alone, [FoNext]_foVars PROVE Alone'
  OBVIOUS
<1>1. CASE \E h \in Hook : HookSwitches(h)
  <2>1. PICK h \in Hook : HookSwitches(h)
    BY <1>1
  <2>2. /\ \A f \in Flow : op'[f].pc = "insert" => op[f].pc = "insert"
        /\ UNCHANGED <<listed, born, life>>
    BY <2>1, SwitchesOK
  <2>3. QED
    BY <2>2 DEF Alone, Single, OnlyListedRuns
<1>2. CASE \A h \in Hook : ~HookSwitches(h)
  <2>1. [RegNext]_regVars
    BY <1>2, RegPart
  <2>2. QED
    BY <2>1, AloneKept DEF FInv
<1>3. QED
  BY <1>1, <1>2

\* "Manager owns all live sessions" (manager.go): however respawns, switches,
\* failovers and closes of one session overlap, and however long an old pump
\* takes, a process that runs is the one on the list, as long as no create
\* overtakes another between its check and its insert.
THEOREM OneProcessRuns ==
    ASSUME ~SlowBuild
    PROVE  FoSpec => []OnlyListedRuns
<1>1. FoInit => FInv /\ Alone
  BY FoInitOK, RegInitOK DEF FoInit
<1>2. FInv /\ Alone /\ [FoNext]_foVars => FInv' /\ Alone'
  BY FoNextOK, AloneNext
<1>3. Alone => OnlyListedRuns
  BY DEF Alone
<1>4. QED
  BY <1>1, <1>2, <1>3, PTL DEF FoSpec

-----------------------------------------------------------------------------
(* What a hook moves the session to *)

\* A failover moves the session to the account it chose, and that is never the
\* account whose wall it was called for (doFailover, switchSessionToAccount):
\* what carries over on a respawn does not undo the choice.
MovesOffTheWall ==
    [][\A h \in Hook : MovesBy(h) =>
          account'[op'[h].made] = hook[h].to /\ hook[h].to # account[hook[h].on]]_foVars

\* Only the request a hook drives brings it from "insert" to "ok".
LEMMA MovesOff ==
    ASSUME FInv, [FoNext]_foVars, NEW h \in Hook, MovesBy(h)
    PROVE  account'[op'[h].made] = hook[h].to /\ hook[h].to # account[hook[h].on]
<1>0. hook[h].st = "switch" /\ op[h].pc = "insert" /\ op'[h].pc = "ok" /\ op'[h] # op[h]
  BY DEF MovesBy
<1>1. hook'[h] = hook[h]
  <2>1. CASE \E g \in Hook : HookSwitches(g)
    BY <1>0, <2>1, SwitchesOK
  <2>2. CASE \A g \in Hook : ~HookSwitches(g)
    <3>1. ASSUME NEW f \in Flow, FlowGoes(f) PROVE hook' = hook
      BY <3>1 DEF FlowGoes, Insert, choice
    <3>2. ASSUME NEW f \in Flow \ Hook, PersonAsks(f) PROVE hook' = hook
      BY <3>2 DEF PersonAsks, choice
    <3>3. ASSUME NEW i \in 1..born, ProcessExits(i) \/ Reap(i) \/ EndPump(i) PROVE op' = op
      BY <3>3 DEF ProcessExits, Reap, EndPump, PumpExits
    <3>4. ASSUME NEW i \in 1..born, NEW wall \in BOOLEAN, TurnEnds(i, wall) PROVE op' = op
      BY <3>4 DEF TurnEnds, regVars
    <3>5. ASSUME NEW g \in Hook, HookGoes(g) PROVE op' = op
      BY <2>2, <3>5 DEF HookGoes, HookBegins, HookDecides, HookStandsDown, HookFails, HookMoved, Resend, regVars
    <3>6. ASSUME NEW m \in Message, Send(m) PROVE op' = op
      BY <3>6 DEF Send, regVars
    <3>7. ASSUME NEW a \in Account, Spend(a) PROVE op' = op
      BY <3>7 DEF Spend, regVars
    <3>8. CASE SetEnabled \/ UNCHANGED foVars
      BY <3>8 DEF SetEnabled, foVars, regVars, choice
    <3>9. QED
      BY <1>0, <3>1, <3>2, <3>3, <3>4, <3>5, <3>6, <3>7, <3>8 DEF FoNext
  <2>3. QED
    BY <2>1, <2>2
<1>2. FInv'
  BY FoNextOK
<1>3. HookOK(h) /\ HookOK(h)'
  BY <1>2 DEF FInv
<1>4. QED
  BY <1>0, <1>1, <1>3 DEF HookOK

\* For any accounts, any quotas and any order of walls, hooks, switches by hand
\* and closes (onTurnEnd, decide, switchSessionToAccount).
THEOREM NeverOntoTheWall == FoSpec => MovesOffTheWall
<1>1. FoInit => FInv
  BY FoInitOK
<1>2. FInv /\ [FoNext]_foVars => FInv'
  BY FoNextOK
<1>3. FInv /\ [FoNext]_foVars =>
        [\A h \in Hook : MovesBy(h) => account'[op'[h].made] = hook[h].to /\ hook[h].to # account[hook[h].on]]_foVars
  BY MovesOff
<1>4. QED
  BY <1>1, <1>2, <1>3, PTL DEF FoSpec, MovesOffTheWall

-----------------------------------------------------------------------------
(* What clients are told *)

Underway == {"decide", "check", "switch"}

\* What is announced stays under way if every hook that stops deciding was
\* about processes that are told so or have ended.
LEMMA Retracted ==
    ASSUME AnnouncedIsUnderway, born' = born,
           \A i \in 1..born : announced'[i] /\ life'[i] = "up" => announced[i] /\ life[i] = "up",
           \A g \in Hook : hook[g].st \in Underway =>
              \/ /\ hook'[g].st \in Underway /\ hook'[g].on = hook[g].on
                 /\ hook'[g].live = hook[g].live \/ hook[g].live \notin 1..born
              \/ \A i \in 1..born : i \in {hook[g].on, hook[g].live} => ~(announced'[i] /\ life'[i] = "up")
    PROVE  AnnouncedIsUnderway'
<1> SUFFICES ASSUME NEW i \in 1..born, announced'[i], life'[i] = "up"
             PROVE  \E h \in Hook : hook'[h].st \in Underway /\ i \in {hook'[h].on, hook'[h].live}
  BY DEF AnnouncedIsUnderway, Underway
<1>1. announced[i] /\ life[i] = "up"
  OBVIOUS
<1>2. PICK g \in Hook : hook[g].st \in Underway /\ i \in {hook[g].on, hook[g].live}
  BY <1>1 DEF AnnouncedIsUnderway, Underway
<1>3. /\ hook'[g].st \in Underway /\ hook'[g].on = hook[g].on
      /\ hook'[g].live = hook[g].live \/ hook[g].live \notin 1..born
  BY <1>1, <1>2
<1>4. QED
  BY <1>2, <1>3

\* A turn end disturbs no hook that is at work.
LEMMA CallKeeps ==
    ASSUME FInv, NEW i \in 1..born, NEW wall \in BOOLEAN, Call(i, wall)
    PROVE  \A g \in Hook : hook[g].st \in Underway => hook'[g] = hook[g]
BY Called DEF Underway

LEMMA UnderwayHook ==
    ASSUME FInv, Alone, FInv', AnnouncedIsUnderway, NEW h \in Hook, HookGoes(h)
    PROVE  AnnouncedIsUnderway'
<1>0. /\ hook \in [Hook -> HookRec] /\ HookOK(h) /\ announced \in [1..born -> BOOLEAN]
      /\ born \in Nat /\ listed \in {0, born}
  BY Births DEF FInv, FoTypes
<1>a. \A i \in 1..born : life[i] = "up" => i = born
  BY <1>0 DEF Alone, OnlyListedRuns
<1> USE DEF Stage, Underway
<1>1. CASE HookBegins(h)
  <2> DEFINE i == hook[h].on
  <2>1. UNCHANGED <<born, life>> /\ hook[h].st = "called"
    BY <1>1 DEF HookBegins, regVars
  <2>2. CASE At(h, "over") /\ UNCHANGED announced
    BY <1>0, <2>1, <2>2, AtOK, Retracted
  <2>3. CASE At(h, "decide") /\ Announce(i)
    <3>1. hook'[h].st = "decide" /\ hook'[h].on = i /\ \A g \in Hook \ {h} : hook'[g] = hook[g]
      BY <1>0, <2>3, AtOK
    <3>2. \A j \in 1..born : j # i => announced'[j] = announced[j]
      BY <1>0, <2>3 DEF Announce
    <3>3. ASSUME NEW j \in 1..born, announced'[j], life'[j] = "up"
          PROVE  \E g \in Hook : hook'[g].st \in {"decide", "check", "switch"} /\ j \in {hook'[g].on, hook'[g].live}
      <4>1. CASE j = i
        BY <3>1, <4>1
      <4>2. CASE j # i
        <5>1. PICK g \in Hook : hook[g].st \in {"decide", "check", "switch"} /\ j \in {hook[g].on, hook[g].live}
          BY <2>1, <3>2, <3>3, <4>2 DEF AnnouncedIsUnderway
        <5>2. QED
          BY <2>1, <3>1, <5>1
      <4>3. QED
        BY <4>1, <4>2
    <3>4. QED
      BY <2>1, <3>3 DEF AnnouncedIsUnderway
  <2>4. QED
    BY <1>1, <2>2, <2>3 DEF HookBegins
<1>2. CASE HookDecides(h)
  <2>1. UNCHANGED <<born, life>> /\ hook[h].st = "decide"
    BY <1>2 DEF HookDecides, regVars
  <2>2. hook[h].live = 0
    BY <1>0, <2>1 DEF HookOK
  <2>3. CASE Retract({hook[h].on}) /\ At(h, "over")
    BY <1>0, <2>1, <2>2, <2>3, AtOK, Retracts, Retracted
  <2>4. CASE ~(Retract({hook[h].on}) /\ At(h, "over"))
    <3>1. UNCHANGED announced /\ hook' = [hook EXCEPT ![h].st = "check", ![h].to = PickFailover(account[hook[h].on], tried)]
      BY <1>2, <2>4 DEF HookDecides
    <3>2. /\ \A g \in Hook \ {h} : hook'[g] = hook[g]
          /\ hook'[h].st = "check" /\ hook'[h].on = hook[h].on /\ hook'[h].live = hook[h].live
      BY <1>0, <3>1 DEF HookRec
    <3>3. QED
      BY <2>1, <3>1, <3>2, Retracted
  <2>5. QED
    BY <2>3, <2>4
<1>3. CASE HookStandsDown(h)
  <2>1. /\ UNCHANGED <<born, life>> /\ hook[h].st = "check"
        /\ Retract({hook[h].on, listed}) /\ At(h, "over")
    BY <1>3 DEF HookStandsDown, regVars
  <2>2. hook[h].live = 0
    BY <1>0, <2>1 DEF HookOK
  <2>3. QED
    BY <1>0, <2>1, <2>2, AtOK, Retracts, Retracted
<1>4. CASE HookSwitches(h)
  <2>1. /\ hook[h].st = "check" /\ hook'[h].st = "switch" /\ hook'[h].on = hook[h].on
        /\ \A g \in Hook \ {h} : hook'[g] = hook[g]
        /\ UNCHANGED <<born, life, announced>>
    BY <1>4, SwitchesOK
  <2>2. hook[h].live \notin 1..born
    BY <1>0, <2>1 DEF HookOK
  <2>3. QED
    BY <2>1, <2>2, Retracted
<1>5. CASE HookFails(h)
  <2>1. /\ UNCHANGED <<born, life>> /\ hook[h].st = "switch"
        /\ Retract({hook[h].live}) /\ At(h, "over")
    BY <1>5 DEF HookFails, regVars
  <2>2. hook[h].live \in 1..born /\ hook[h].on \in 1..born /\ hook[h].on <= hook[h].live
    BY <1>0, <2>1 DEF HookOK
  <2>3. life[hook[h].on] = "up" => hook[h].on = hook[h].live
    BY <1>0, <1>a, <2>2
  <2>4. QED
    BY <1>0, <2>1, <2>2, <2>3, AtOK, Retracts, Retracted
<1>6. CASE HookMoved(h)
  <2>1. /\ UNCHANGED <<born, life, announced>> /\ hook[h].st = "switch" /\ op[h].pc = "ok"
        /\ At(h, "over") \/ At(h, "resend")
    BY <1>6 DEF HookMoved, regVars
  <2>2. /\ hook[h].live \in 1..born /\ hook[h].on \in 1..born /\ hook[h].on <= hook[h].live
        /\ op[h].made \in 1..born /\ hook[h].live < op[h].made
    BY <1>0, <2>1 DEF HookOK
  <2>3. life[hook[h].on] # "up" /\ life[hook[h].live] # "up"
    BY <1>0, <1>a, <2>2
  <2>4. \A g \in Hook \ {h} : hook'[g] = hook[g]
    BY <1>0, <2>1, AtOK
  <2>5. QED
    BY <2>1, <2>3, <2>4, Retracted
<1>7. CASE Resend(h)
  <2>1. /\ UNCHANGED <<born, life, announced>> /\ hook[h].st = "resend" /\ At(h, "over")
    BY <1>7 DEF Resend, regVars
  <2>2. \A g \in Hook \ {h} : hook'[g] = hook[g]
    BY <1>0, <2>1, AtOK
  <2>3. QED
    BY <2>1, <2>2, Retracted
<1>8. QED
  BY <1>1, <1>2, <1>3, <1>4, <1>5, <1>6, <1>7 DEF HookGoes

LEMMA UnderwayNext ==
    FInv /\ Alone /\ AnnouncedIsUnderway /\ [FoNext]_foVars => AnnouncedIsUnderway'
<1> SUFFICES ASSUME FInv, Alone, AnnouncedIsUnderway, [FoNext]_foVars PROVE AnnouncedIsUnderway'
  OBVIOUS
<1>0. FInv' /\ RInv /\ life \in [1..born -> {"up", "closing", "done"}] /\ born \in Nat
  BY FoNextOK, Births DEF FInv
<1>1. ASSUME NEW i \in 1..born, ProcessExits(i) \/ Reap(i), UNCHANGED <<turns, choice, quota>>
      PROVE  AnnouncedIsUnderway'
  <2>1. UNCHANGED <<born, hook, announced>> /\ \A j \in 1..born : life'[j] = "up" => life[j] = "up"
    BY <1>0, <1>1 DEF ProcessExits, Reap, processes, choice
  <2>2. QED
    BY <2>1, Retracted
<1>2. ASSUME NEW i \in 1..born, EndPump(i) PROVE AnnouncedIsUnderway'
  <2>1. UNCHANGED <<born, announced>> /\ \A j \in 1..born : life'[j] = "up" => life[j] = "up"
    BY <1>0, <1>2 DEF EndPump, PumpExits
  <2>2. walled[i] \in BOOLEAN
    BY DEF FInv, FoTypes
  <2>3. \A g \in Hook : hook[g].st \in Underway => hook'[g] = hook[g]
    BY <1>2, <2>2, CallKeeps DEF EndPump
  <2>4. QED
    BY <2>1, <2>3, Retracted
<1>3. ASSUME NEW i \in 1..born, NEW wall \in BOOLEAN, TurnEnds(i, wall) PROVE AnnouncedIsUnderway'
  <2>1. UNCHANGED <<born, life, announced>> /\ Call(i, wall)
    BY <1>3 DEF TurnEnds, regVars
  <2>2. QED
    BY <2>1, CallKeeps, Retracted
<1>4. ASSUME NEW f \in Flow, FlowGoes(f) PROVE AnnouncedIsUnderway'
  <2>1. CASE Insert(f)
    <3>1. /\ hook' = hook /\ born' = born + 1
          /\ \A i \in 1..born : life'[i] = life[i]
      BY <1>0, <2>1, Inserted DEF Insert
    <3>2. announced' = Append(announced, FALSE) /\ announced \in [1..born -> BOOLEAN] /\ FALSE \in BOOLEAN
      BY <2>1 DEF Insert, FInv, FoTypes
    <3> DEFINE x == FALSE
               S == BOOLEAN
    <3>a. announced' = Append(announced, x) /\ announced \in [1..born -> S] /\ x \in S
      BY <3>2
    <3> HIDE DEF x, S
    <3>b. Append(announced, x)[born + 1] = x
      BY <1>0, <3>a, Grown
    <3>4. ASSUME NEW i \in 1..born PROVE announced'[i] = announced[i]
      <4>1. Append(announced, x)[i] = announced[i]
        BY <1>0, <3>a, Grown
      <4>2. QED
        BY <3>a, <4>1
    <3>3. announced'[born + 1] = FALSE
      BY <3>a, <3>b DEF x
    <3>5. \A i \in 1..(born + 1) : i \in 1..born \/ i = born + 1
      BY <1>0
    <3>6. QED
      BY <3>1, <3>3, <3>4, <3>5 DEF AnnouncedIsUnderway
  <2>2. CASE ~Insert(f)
    <3>1. /\ RestartReads(f) \/ RestartCloses(f) \/ RestartRemoves(f) \/ CreateChecks(f) \/ CloseCloses(f)
          /\ UNCHANGED <<turns, choice, quota>>
      BY <1>4, <2>2 DEF FlowGoes
    <3>2. born' = born /\ \A i \in 1..born : life'[i] = "up" => life[i] = "up"
      BY <1>0, <3>1, ReadsOff, Moved
    <3>3. QED
      BY <3>1, <3>2, Retracted DEF choice
  <2>3. QED
    BY <2>1, <2>2
<1>5. ASSUME NEW f \in Flow \ Hook, PersonAsks(f) PROVE AnnouncedIsUnderway'
  <2>1. UNCHANGED <<born, life, hook, announced>>
    BY <1>5 DEF PersonAsks, CloseFinds, Open, Respawn, processes, choice
  <2>2. QED
    BY <2>1 DEF AnnouncedIsUnderway
<1>6. ASSUME NEW h \in Hook, HookGoes(h) PROVE AnnouncedIsUnderway'
  BY <1>0, <1>6, UnderwayHook
<1>7. ASSUME NEW m \in Message, Send(m) PROVE AnnouncedIsUnderway'
  <2>1. UNCHANGED <<born, life, hook, announced>>
    BY <1>7 DEF Send, regVars, choice
  <2>2. QED
    BY <2>1 DEF AnnouncedIsUnderway
<1>8. ASSUME NEW a \in Account, Spend(a) PROVE AnnouncedIsUnderway'
  <2>1. UNCHANGED <<born, life, hook, announced>>
    BY <1>8 DEF Spend, regVars, choice
  <2>2. QED
    BY <2>1 DEF AnnouncedIsUnderway
<1>9. CASE SetEnabled \/ UNCHANGED foVars
  <2>1. UNCHANGED <<born, life, hook, announced>>
    BY <1>9 DEF SetEnabled, foVars, regVars, choice
  <2>2. QED
    BY <2>1 DEF AnnouncedIsUnderway
<1>10. QED
  BY <1>1, <1>2, <1>3, <1>4, <1>5, <1>6, <1>7, <1>8, <1>9 DEF FoNext

\* Clients are never left with "failing over" on a session that runs: whichever
\* way a hook ends (nothing to pick, moved by hand, the session gone, a switch
\* that failed or worked), what it announced has been retracted or the process
\* has ended (BeginFailover, EndFailover).
THEOREM FailoverIsUnderway ==
    ASSUME ~SlowBuild
    PROVE  FoSpec => []AnnouncedIsUnderway
<1>1. FoInit => FInv /\ Alone
  BY FoInitOK, RegInitOK DEF FoInit
<1>2. FoInit => AnnouncedIsUnderway
  <2> SUFFICES ASSUME FoInit PROVE AnnouncedIsUnderway
    OBVIOUS
  <2>1. born = 1 /\ announced = <<FALSE>>
    BY DEF FoInit, RegInit
  <2>2. announced[1] = FALSE
    BY <2>1
  <2>3. \A i \in 1..born : i = 1
    BY <2>1
  <2>4. QED
    BY <2>2, <2>3 DEF AnnouncedIsUnderway
<1>3. FInv /\ Alone /\ AnnouncedIsUnderway /\ [FoNext]_foVars => FInv' /\ Alone' /\ AnnouncedIsUnderway'
  BY FoNextOK, AloneNext, UnderwayNext
<1>4. QED
  BY <1>1, <1>2, <1>3, PTL DEF FoSpec
=============================================================================
