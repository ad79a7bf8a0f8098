---------------------------- MODULE Turn_proofs ----------------------------
(***************************************************************************)
(* A session never says it is working when nothing is, for any messages,    *)
(* asks and Stops, if an ask is answered only while it stands and no turn   *)
(* ends while an answer to it is handled.                                   *)
(*                                                                         *)
(* NoPhantomTurn needs to know where an ask or an answer comes from: an ask  *)
(* in front of the pump was raised by a turn whose result is behind it or    *)
(* still to come, and an answer being handled belongs to the turn the CLI is *)
(* blocked on.                                                              *)
(*                                                                         *)
(* Then the safety of the guard that stops every session of a hot machine,  *)
(* for any number of readings that make a trip, any policies, and an owner  *)
(* who changes them at any time.                                            *)
(*                                                                         *)
(* Last, what the driver of the CLI does with the pipes: nothing is lost,    *)
(* doubled or told out of order between the session and the process, and     *)
(* nobody closes a session whose process is still up.                        *)
(***************************************************************************)
EXTENDS Turn, Guardian, Driver, SequenceTheorems, FiniteSetTheorems, TLAPS

Place == {"new", "queued", "claimed", "sent", "done", "failing", "failed", "dropped"}

Types ==
    /\ state \in {"starting", "idle"} \cup Busy
    /\ queue \in Seq(Prompt)
    /\ pending \subseteq shown /\ shown \subseteq Ask /\ raised \subseteq Ask
    /\ msg \in [Prompt -> Place]
    /\ draining \in Prompt \cup {NoPrompt}
    /\ answer \in [Ask -> {"no", "send", "run"}]
    /\ out \in Seq(Frame) /\ events \in Seq(Report)
    /\ inbox \in Seq(Prompt) /\ busy \in Prompt \cup {NoPrompt}
    /\ waiting \subseteq raised

\* A result is at or behind place i of the event channel.
ResultFrom(i) == \E j \in DOMAIN events : j >= i /\ events[j].k = "result"

\* What the pump has still to hear of belongs to a turn.
Heard ==
    /\ waiting # {} => busy # NoPrompt
    /\ \A a \in Ask : answer[a] # "no" => busy # NoPrompt
    /\ \A i \in DOMAIN events : events[i].k = "ask" => busy # NoPrompt \/ ResultFrom(i)

\* Asks are answered while they stand, and no turn ends under an answer.
Orderly == ~StaleAnswers /\ SlowCLI

IInv == Types /\ SentOnce /\ (Orderly => NoPhantomTurn /\ (~ended => Heard))

-----------------------------------------------------------------------------
(* Lemmas *)

\* A sequence with the element at place i taken out.
LEMMA Removed ==
    ASSUME NEW S, NEW q \in Seq(S), NEW i \in 1..Len(q), NEW r,
           r = SubSeq(q, 1, i - 1) \o SubSeq(q, i + 1, Len(q))
    PROVE  /\ r \in Seq(S) /\ Len(r) = Len(q) - 1
           /\ \A j \in 1..(Len(q) - 1) : r[j] = IF j < i THEN q[j] ELSE q[j + 1]
<1> DEFINE f == SubSeq(q, 1, i - 1)  b == SubSeq(q, i + 1, Len(q))
<1>1. Len(q) \in Nat /\ i \in Nat /\ i >= 1 /\ i <= Len(q)
  OBVIOUS
<1>2. f \in Seq(S) /\ Len(f) = i - 1 /\ \A j \in 1..(i - 1) : f[j] = q[j]
  BY <1>1
<1>3. b \in Seq(S) /\ Len(b) = Len(q) - i /\ \A j \in 1..(Len(q) - i) : b[j] = q[i + j]
  BY <1>1
<1> HIDE DEF f, b
<1>4. /\ f \o b \in Seq(S) /\ Len(f \o b) = Len(f) + Len(b)
      /\ \A j \in 1..Len(f) + Len(b) :
           (f \o b)[j] = IF j <= Len(f) THEN f[j] ELSE b[j - Len(f)]
  BY <1>2, <1>3, ConcatProperties
<1>5. \A j \in 1..(Len(q) - 1) : (f \o b)[j] = IF j < i THEN q[j] ELSE q[j + 1]
  <2> SUFFICES ASSUME NEW j \in 1..(Len(q) - 1) PROVE (f \o b)[j] = IF j < i THEN q[j] ELSE q[j + 1]
    OBVIOUS
  <2>1. CASE j < i
    <3>1. j \in 1..(i-1) /\ j <= Len(f)
      BY <2>1, <1>1, <1>2
    <3>2. (f \o b)[j] = f[j]
      BY <3>1, <1>1, <1>2, <1>3, <1>4
    <3> QED BY <2>1, <3>1, <3>2, <1>2
  <2>2. CASE ~(j < i)
    <3>1. j - Len(f) \in 1..(Len(q) - i) /\ i + (j - Len(f)) = j + 1 /\ j > Len(f)
      BY <2>2, <1>1, <1>2
    <3>2. (f \o b)[j] = b[j - Len(f)]
      BY <3>1, <1>1, <1>2, <1>3, <1>4
    <3>3. b[j - Len(f)] = q[i + (j - Len(f))]
      BY <3>1, <1>3
    <3> QED BY <2>2, <3>1, <3>2, <3>3
  <2> QED BY <2>1, <2>2
<1>6. r = f \o b
  BY DEF f, b
<1>7. Len(f \o b) = Len(q) - 1
  BY <1>1, <1>2, <1>3, <1>4
<1> HIDE DEF f, b
<1> QED BY <1>4, <1>5, <1>6, <1>7

LEMMA FrameKinds ==
    ASSUME NEW m \in Prompt, NEW a \in Ask
    PROVE  /\ [k |-> "user", m |-> m] \in Frame
           /\ [k |-> "answer", a |-> a] \in Frame
           /\ [k |-> "stop"] \in Frame
           /\ [k |-> "init"] \in Report
           /\ [k |-> "ask", a |-> a] \in Report
           /\ [k |-> "result", m |-> m] \in Report
BY DEF Frame, Report

\* Another frame for the CLI, not a message, changes nothing it holds.
LEMMA AcceptOther ==
    ASSUME Types, NEW f \in Frame, f.k # "user", Accept(f), ended' = ended,
           UNCHANGED <<msg, inbox, busy>>
    PROVE  /\ out' \in Seq(Frame)
           /\ (~ended => HeldOnce) => (~ended' => HeldOnce')
<1>1. CASE ended
  BY <1>1 DEF Accept, Types
<1>2. CASE ~ended
  <2>1. out' = Append(out, f) /\ out \in Seq(Frame)
    BY <1>2 DEF Accept, Types
  <2>2. out' \in Seq(Frame) /\ Len(out') = Len(out) + 1 /\ out'[Len(out) + 1] = f
        /\ \A i \in 1..Len(out) : out'[i] = out[i]
    BY <2>1
  <2>3. Unread' = Unread /\ \A i \in Unread : out'[i] = out[i]
    BY <2>1, <2>2 DEF Unread
  <2>4. \A m \in Prompt : Held(m)' = Held(m)
    BY <2>3 DEF Held
  <2> QED
    BY <2>2, <2>3, <2>4, <1>2 DEF HeldOnce
<1> QED BY <1>1, <1>2

\* A step that leaves the CLI and its messages alone.
LEMMA HeldUnchanged ==
    ASSUME UNCHANGED <<ended, msg, out, inbox, busy>>, ~ended => HeldOnce
    PROVE  ~ended' => HeldOnce'
BY DEF HeldOnce, Held, Unread

\* What CLI and pump have in front of them after the pump takes an event.
LEMMA Received ==
    ASSUME Types, NEW k, Receive(k)
    PROVE  /\ events' \in Seq(Report) /\ Head(events) \in Report /\ Head(events).k = k
           /\ Head(events) = events[1] /\ 1 \in DOMAIN events
           /\ Len(events') = Len(events) - 1
           /\ \A i \in DOMAIN events' : events'[i] = events[i + 1] /\ i + 1 \in DOMAIN events
           /\ \A i \in DOMAIN events : i > 1 => i - 1 \in DOMAIN events' /\ events'[i - 1] = events[i]
<1>1. events \in Seq(Report) /\ events # <<>> /\ events' = Tail(events) /\ Head(events).k = k
  BY DEF Types, Receive
<1> QED BY <1>1

\* An event the pump takes leaves the rest of what it has to hear as it was.
LEMMA HeardRest ==
    ASSUME Types, NEW k, Receive(k), UNCHANGED <<busy, waiting, answer>>, Heard
    PROVE  Heard'
<1>1. /\ \A i \in DOMAIN events' : events'[i] = events[i + 1] /\ i + 1 \in DOMAIN events
      /\ \A i \in DOMAIN events : i > 1 => i - 1 \in DOMAIN events' /\ events'[i - 1] = events[i]
      /\ DOMAIN events \subseteq Nat /\ DOMAIN events' \subseteq Nat /\ DOMAIN events' = 1..Len(events')
      /\ DOMAIN events = 1..Len(events)
  BY Received DEF Types
<1>2. ASSUME NEW i \in DOMAIN events', events'[i].k = "ask", busy = NoPrompt
      PROVE  ResultFrom(i)'
  <2>1. i + 1 \in DOMAIN events /\ events[i + 1].k = "ask" /\ i \in Nat
    BY <1>1, <1>2
  <2>2. PICK j \in DOMAIN events : j >= i + 1 /\ events[j].k = "result"
    BY <2>1, <1>2 DEF Heard, ResultFrom
  <2>3. j - 1 \in DOMAIN events' /\ events'[j - 1].k = "result" /\ j - 1 >= i
    BY <2>2, <2>1, <1>1
  <2> QED BY <2>3 DEF ResultFrom
<1> QED BY <1>2 DEF Heard

\* Another event behind the others.
LEMMA HeardAppend ==
    ASSUME Types, NEW e \in Report, events' = Append(events, e),
           waiting' # {} => busy' # NoPrompt,
           \A a \in Ask : answer'[a] # "no" => busy' # NoPrompt,
           busy' = NoPrompt => e.k = "result",
           Heard
    PROVE  Heard'
<1>1. /\ events \in Seq(Report) /\ Len(events') = Len(events) + 1
      /\ events'[Len(events) + 1] = e /\ DOMAIN events' = 1..(Len(events) + 1) /\ Len(events) \in Nat
  BY DEF Types
<1>2. ASSUME NEW i \in DOMAIN events', busy' = NoPrompt PROVE ResultFrom(i)'
  BY <1>1, <1>2 DEF ResultFrom
<1> QED BY <1>2 DEF Heard

-----------------------------------------------------------------------------
(* Each action preserves IInv *)

LEMMA InitOK == Init => IInv
<1> SUFFICES ASSUME Init PROVE IInv
  OBVIOUS
<1>1. Types
  BY DEF Init, Types, Place, Frame, Report
<1>2. SentOnce
  BY TurnAssumption DEF Init, SentOnce, QueuedOnce, HeldOnce, Held, Unread
<1>3. NoPhantomTurn /\ Heard
  BY DEF Init, NoPhantomTurn, Busy, Heard
<1> QED BY <1>1, <1>2, <1>3 DEF IInv

LEMMA SubmitOK == ASSUME IInv, NEW m \in Prompt, Submit(m) PROVE IInv'
<1> USE DEF IInv
<1>1. Types'
  <2>0. queue \in Seq(Prompt) /\ Append(queue, m) \in Seq(Prompt)
    BY DEF Types
  <2>1. queue' \in Seq(Prompt) /\ state' \in {"starting", "idle"} \cup Busy
    BY <2>0 DEF Submit, Types, Busy
  <2>2. msg' \in [Prompt -> Place]
    BY DEF Submit, Types, Place
  <2> QED BY <2>1, <2>2 DEF Submit, Types, driver, cli
<1>2. CASE state \in Busy
  <2>1. queue' = Append(queue, m) /\ msg' = [msg EXCEPT ![m] = "queued"] /\ state' = state /\ msg[m] = "new"
    BY <1>2 DEF Submit
  <2>2. queue \in Seq(Prompt) /\ msg \in [Prompt -> Place]
    BY DEF Types
  <2>3. QueuedOnce'
    BY <2>1, <2>2 DEF SentOnce, QueuedOnce
  <2>4. ~ended' => HeldOnce'
    BY <2>1, <2>2 DEF SentOnce, HeldOnce, Held, Unread, Submit, driver, cli
  <2>5. Orderly => NoPhantomTurn'
    BY <2>1, <2>2 DEF NoPhantomTurn, Submit, driver
  <2>6. Orderly /\ ~ended' => Heard'
    BY DEF Heard, ResultFrom, Submit, driver, cli
  <2> QED BY <1>1, <2>3, <2>4, <2>5, <2>6 DEF SentOnce
<1>3. CASE state \notin Busy
  <2>1. queue' = queue /\ msg' = [msg EXCEPT ![m] = "claimed"] /\ msg[m] = "new"
    BY <1>3 DEF Submit
  <2>2. queue \in Seq(Prompt) /\ msg \in [Prompt -> Place]
    BY DEF Types
  <2>3. QueuedOnce'
    BY <2>1, <2>2 DEF SentOnce, QueuedOnce
  <2>4. ~ended' => HeldOnce'
    BY <2>1, <2>2 DEF SentOnce, HeldOnce, Held, Unread, Submit, driver, cli
  <2>5. Orderly => NoPhantomTurn'
    BY <2>1, <2>2 DEF NoPhantomTurn, Submit, driver
  <2>6. Orderly /\ ~ended' => Heard'
    BY DEF Heard, ResultFrom, Submit, driver, cli
  <2> QED BY <1>1, <2>3, <2>4, <2>5, <2>6 DEF SentOnce
<1> QED BY <1>2, <1>3

LEMMA DeliverOK == ASSUME IInv, NEW m \in Prompt, Deliver(m) PROVE IInv'
<1> USE DEF IInv
<1> DEFINE f == [k |-> "user", m |-> m]
<1>1. /\ msg[m] = "claimed" /\ msg' = [msg EXCEPT ![m] = "sent"]
      /\ msg \in [Prompt -> Place] /\ out \in Seq(Frame) /\ f \in Frame
      /\ Accept(f) /\ UNCHANGED <<state, queue, pending, ended, events, inbox, busy, waiting, raised, shown, answer>>
  BY DEF Deliver, Types, session, cli, Frame
<1>2. out' \in Seq(Frame)
  BY <1>1 DEF Accept
<1>3. Types'
  BY <1>1, <1>2 DEF Types, Place, PumpReturns, Deliver
<1>4. QueuedOnce'
  BY <1>1 DEF SentOnce, QueuedOnce
<1>5. ASSUME ~ended' PROVE HeldOnce'
  <2>1. HeldOnce /\ out' = Append(out, f)
    BY <1>1, <1>5 DEF SentOnce, Accept
  <2>2. /\ Len(out') = Len(out) + 1 /\ out'[Len(out) + 1] = f /\ Len(out) \in Nat
        /\ \A i \in 1..Len(out) : out'[i] = out[i]
        /\ DOMAIN out = 1..Len(out) /\ DOMAIN out' = 1..(Len(out) + 1)
    BY <1>1, <2>1
  <2>3. Unread' = Unread \cup {Len(out) + 1} /\ \A i \in Unread : out'[i] = out[i] /\ i # Len(out) + 1
    BY <2>2 DEF Unread
  <2>4. ~Held(m)
    BY <1>1, <2>1 DEF HeldOnce
  <2>5. \A n \in Prompt : Held(n)' <=> Held(n) \/ n = m
    BY <2>2, <2>3, <1>1 DEF Held
  <2>6. \A n \in Prompt : msg'[n] = "sent" <=> Held(n)'
    BY <2>5, <2>1, <1>1 DEF HeldOnce
  <2>9. /\ \A i \in Unread : out[i].m # m
        /\ \A i \in DOMAIN inbox : inbox[i] # m
        /\ busy # m /\ f.m = m
    BY <2>4 DEF Held
  <2>7. ASSUME NEW i \in Unread', NEW j \in Unread', out'[i].m = out'[j].m PROVE i = j
    <3>1. CASE i = Len(out) + 1 \/ j = Len(out) + 1
      BY <3>1, <2>2, <2>3, <2>7, <2>9
    <3>2. CASE i \in Unread /\ j \in Unread
      BY ZenonT(30), <3>2, <2>1, <2>3, <2>7 DEF HeldOnce
    <3> QED BY <3>1, <3>2, <2>3
  <2>8. ASSUME NEW i \in Unread'
        PROVE  out'[i].m # busy' /\ \A j \in DOMAIN inbox' : inbox'[j] # out'[i].m
    <3>1. CASE i = Len(out) + 1
      BY <3>1, <2>2, <2>9, <1>1
    <3>2. CASE i \in Unread
      <4>1. out'[i] = out[i] /\ out[i].m # busy /\ \A j \in DOMAIN inbox : inbox[j] # out[i].m
        BY <3>2, <2>1, <2>3 DEF HeldOnce
      <4> QED BY <4>1, <1>1
    <3> QED BY <3>1, <3>2, <2>3
  <2> QED BY <2>1, <2>6, <2>7, <2>8, <1>1 DEF HeldOnce
<1>6. Orderly => NoPhantomTurn'
  BY <1>1 DEF NoPhantomTurn
<1>7. Orderly /\ ~ended' => Heard'
  BY <1>1 DEF Heard, ResultFrom
<1> QED BY <1>3, <1>4, <1>5, <1>6, <1>7 DEF SentOnce

LEMMA RefusedOK ==
    ASSUME IInv, NEW m \in Prompt, DeliverFails(m) \/ AbandonTurn(m)
    PROVE  IInv'
<1> USE DEF IInv
<1>1. /\ msg[m] \in {"claimed", "failing"} /\ msg'  \in [Prompt -> Place]
      /\ msg'[m] \in {"failing", "failed"} /\ \A n \in Prompt : n # m => msg'[n] = msg[n]
      /\ msg \in [Prompt -> Place] /\ queue \in Seq(Prompt)
      /\ UNCHANGED <<queue, pending, ended, out, events, inbox, busy, waiting, raised, shown, answer>>
  BY DEF DeliverFails, AbandonTurn, Types, Place, session, driver, cli
<1>2. Types'
  BY <1>1 DEF Types, Place, PumpReturns, DeliverFails, AbandonTurn, session
<1>3. QueuedOnce'
  BY <1>1 DEF SentOnce, QueuedOnce
<1>4. ~ended' => HeldOnce'
  BY <1>1 DEF SentOnce, HeldOnce, Held, Unread
<1>5. Orderly => NoPhantomTurn'
  BY <1>1 DEF NoPhantomTurn, DeliverFails, AbandonTurn, session, driver, Busy
<1>6. Orderly /\ ~ended' => Heard'
  BY <1>1 DEF Heard, ResultFrom
<1> QED BY <1>2, <1>3, <1>4, <1>5, <1>6 DEF SentOnce

LEMMA CancelOK == ASSUME IInv, NEW m \in Prompt, CancelQueued(m) PROVE IInv'
<1> USE DEF IInv
<1>1. /\ msg[m] = "queued" /\ msg' = [msg EXCEPT ![m] = "dropped"]
      /\ msg \in [Prompt -> Place] /\ queue \in Seq(Prompt)
      /\ UNCHANGED <<state, pending, ended, out, events, inbox, busy, waiting, raised, shown, answer, draining>>
  BY DEF CancelQueued, Types, driver, cli
<1>2. PICK i \in DOMAIN queue : /\ queue[i] = m
                                /\ queue' = SubSeq(queue, 1, i - 1) \o SubSeq(queue, i + 1, Len(queue))
  BY DEF CancelQueued
<1>3. /\ queue' \in Seq(Prompt) /\ Len(queue') = Len(queue) - 1 /\ DOMAIN queue' = 1..(Len(queue) - 1)
      /\ i \in 1..Len(queue) /\ DOMAIN queue = 1..Len(queue) /\ Len(queue) \in Nat
      /\ \A j \in 1..(Len(queue) - 1) : queue'[j] = IF j < i THEN queue[j] ELSE queue[j + 1]
  <2>1. queue \in Seq(Prompt) /\ i \in 1..Len(queue) /\ DOMAIN queue = 1..Len(queue) /\ Len(queue) \in Nat
    BY <1>1
  <2> DEFINE q == queue'
  <2>2. q = SubSeq(queue, 1, i - 1) \o SubSeq(queue, i + 1, Len(queue))
    BY <1>2
  <2> HIDE DEF q
  <2>3. /\ q \in Seq(Prompt) /\ Len(q) = Len(queue) - 1
        /\ \A j \in 1..(Len(queue) - 1) : q[j] = IF j < i THEN queue[j] ELSE queue[j + 1]
    BY ZenonT(30), <2>1, <2>2, Removed
  <2>4. DOMAIN q = 1..(Len(queue) - 1)
    BY <2>1, <2>3
  <2> QED BY <2>1, <2>3, <2>4 DEF q
<1>4. Types'
  BY <1>1, <1>3 DEF Types, Place
<1>5. QueuedOnce'
  <2>0. \A j, l \in 1..Len(queue) : queue[j] = queue[l] => j = l
    BY <1>3 DEF SentOnce, QueuedOnce
  <2>1. ASSUME NEW j \in DOMAIN queue' PROVE queue'[j] # m
    <3>1. j \in 1..(Len(queue) - 1) /\ {j, j + 1, i} \subseteq 1..Len(queue) /\ j \in Nat /\ i \in Nat
      BY <1>3
    <3>2. CASE j < i
      BY SMTT(30), <1>2, <1>3, <2>0, <3>1, <3>2
    <3>3. CASE ~(j < i)
      <4>1. queue'[j] = queue[j + 1] /\ j + 1 # i
        BY <3>1, <3>3, <1>3
      <4> QED BY <1>2, <2>0, <3>1, <4>1
    <3> QED BY <3>2, <3>3
  <2>2. ASSUME NEW n \in Prompt, n # m, NEW j \in DOMAIN queue, queue[j] = n
        PROVE  \E l \in DOMAIN queue' : queue'[l] = n
    <3>1. CASE j < i
      BY <2>2, <3>1, <1>3
    <3>2. CASE j > i
      <4>0. j \in Int /\ j - 1 \in 1..(Len(queue) - 1)
        BY <3>2, <1>3
      <4>1. j - 1 \in DOMAIN queue' /\ ~(j - 1 < i) /\ (j - 1) + 1 = j
        BY <3>2, <1>3, <4>0
      <4>2. queue'[j - 1] = queue[(j - 1) + 1]
        BY <1>3, <4>0, <4>1
      <4> QED BY <4>1, <4>2, <2>2
    <3>3. j # i /\ j \in Int /\ i \in Int
      BY <2>2, <1>2, <1>3
    <3> QED BY <3>1, <3>2, <3>3
  <2>3. \A j \in DOMAIN queue' : \E l \in DOMAIN queue : queue'[j] = queue[l]
    BY <1>3
  <2>4. ASSUME NEW j \in DOMAIN queue', NEW l \in DOMAIN queue', queue'[j] = queue'[l]
        PROVE  j = l
    <3>1. /\ j \in 1..(Len(queue) - 1) /\ l \in 1..(Len(queue) - 1)
          /\ {j, j + 1, l, l + 1} \subseteq 1..Len(queue)
      BY <1>3
    <3>2. CASE j < i /\ l < i
      BY <3>1, <3>2, <2>0, <2>4, <1>3
    <3>3. CASE j < i /\ ~(l < i)
      BY <3>1, <3>3, <2>0, <2>4, <1>3
    <3>4. CASE ~(j < i) /\ l < i
      BY <3>1, <3>4, <2>0, <2>4, <1>3
    <3>5. CASE ~(j < i) /\ ~(l < i)
      BY <3>1, <3>5, <2>0, <2>4, <1>3
    <3> QED BY <3>2, <3>3, <3>4, <3>5
  <2>5. \A n \in Prompt : msg'[n] = "queued" <=> \E j \in DOMAIN queue' : queue'[j] = n
    BY <1>1, <2>1, <2>2, <2>3 DEF SentOnce, QueuedOnce
  <2> QED BY <2>4, <2>5 DEF QueuedOnce
<1>6. ~ended' => HeldOnce'
  BY <1>1 DEF SentOnce, HeldOnce, Held, Unread
<1>7. Orderly => NoPhantomTurn'
  BY <1>1 DEF NoPhantomTurn
<1>8. Orderly /\ ~ended' => Heard'
  BY <1>1 DEF Heard, ResultFrom
<1> QED BY <1>4, <1>5, <1>6, <1>7, <1>8 DEF SentOnce

\* An event that is no result leaves the results behind it.
LEMMA ResultRest ==
    ASSUME Types, NEW k, Receive(k), k # "result", \E i \in DOMAIN events : events[i].k = "result"
    PROVE  \E i \in DOMAIN events' : events'[i].k = "result"
<1>1. /\ Head(events).k = k /\ Head(events) = events[1] /\ DOMAIN events = 1..Len(events)
      /\ \A i \in DOMAIN events : i > 1 => i - 1 \in DOMAIN events' /\ events'[i - 1] = events[i]
  BY Received DEF Types
<1>2. PICK i \in DOMAIN events : events[i].k = "result"
  OBVIOUS
<1>3. i > 1
  BY <1>1, <1>2
<1> QED BY <1>1, <1>2, <1>3

LEMMA AnswerOK ==
    ASSUME IInv, NEW a \in Ask, Answer(a)
    PROVE  IInv'
<1> USE DEF IInv
<1>1. /\ (Orderly => a \in waiting) /\ pending' = pending \ {a} /\ answer' = [answer EXCEPT ![a] = "send"]
      /\ UNCHANGED <<state, queue, ended, out, events, inbox, busy, waiting, raised, shown, msg, draining>>
  BY DEF Answer, driver, cli, Orderly
<1>2. Types'
  BY <1>1 DEF Types, Place
<1>3. QueuedOnce' /\ (~ended' => HeldOnce')
  BY <1>1, HeldUnchanged DEF SentOnce, QueuedOnce
<1>4. Orderly => NoPhantomTurn'
  BY <1>1 DEF NoPhantomTurn
<1>5. Orderly /\ ~ended' => Heard'
  BY <1>1 DEF Heard, ResultFrom, Types
<1> QED BY <1>2, <1>3, <1>4, <1>5 DEF SentOnce

LEMMA SendAnswerOK == ASSUME IInv, NEW a \in Ask, SendAnswer(a) PROVE IInv'
<1> USE DEF IInv
<1>1. /\ answer \in [Ask -> {"no", "send", "run"}] /\ answer[a] = "send"
      /\ answer' \in [Ask -> {"no", "send", "run"}] /\ \A b \in Ask : answer'[b] # "no" => answer[b] # "no"
      /\ UNCHANGED <<state, queue, pending, ended, events, inbox, busy, waiting, raised, shown, msg, draining>>
  BY DEF SendAnswer, session, cli, Types
<1>2. out' \in Seq(Frame) /\ (~ended' => HeldOnce')
  <2>1. CASE out' = out
    BY <2>1, <1>1, HeldUnchanged DEF SentOnce, Types
  <2>2. CASE Accept([k |-> "answer", a |-> a])
    <3>1. [k |-> "answer", a |-> a] \in Frame /\ [k |-> "answer", a |-> a].k # "user"
      BY DEF Frame
    <3> QED BY <3>1, <2>2, <1>1, AcceptOther DEF SentOnce
  <2> QED BY <2>1, <2>2 DEF SendAnswer
<1>3. Types'
  BY <1>1, <1>2 DEF Types, Place
<1>4. QueuedOnce'
  BY <1>1 DEF SentOnce, QueuedOnce
<1>5. Orderly => NoPhantomTurn'
  BY <1>1 DEF NoPhantomTurn
<1>6. Orderly /\ ~ended' => Heard'
  BY <1>1 DEF Heard, ResultFrom
<1> QED BY <1>2, <1>3, <1>4, <1>5, <1>6 DEF SentOnce

LEMMA ResumeOK == ASSUME IInv, NEW a \in Ask, ResumeTurn(a) PROVE IInv'
<1> USE DEF IInv
<1>1. /\ answer[a] = "run" /\ answer' = [answer EXCEPT ![a] = "no"]
      /\ state' \in {state, "running"} /\ answer \in [Ask -> {"no", "send", "run"}]
      /\ UNCHANGED <<queue, pending, ended, out, events, inbox, busy, waiting, raised, shown, msg, draining>>
  BY DEF ResumeTurn, driver, cli, Types
<1>2. Types'
  BY <1>1 DEF Types, Place, Busy
<1>3. QueuedOnce' /\ (~ended' => HeldOnce')
  BY <1>1, HeldUnchanged DEF SentOnce, QueuedOnce
<1>4. Orderly => NoPhantomTurn'
  <2>1. ASSUME ~ended, Orderly PROVE \E m \in Prompt : msg[m] = "sent"
    <3>1. busy # NoPrompt /\ busy \in Prompt
      BY <1>1, <2>1 DEF Heard, Types
    <3> QED BY <3>1, <2>1 DEF SentOnce, HeldOnce, Held
  <2> QED BY <1>1, <2>1 DEF NoPhantomTurn
<1>5. Orderly /\ ~ended' => Heard'
  BY <1>1 DEF Heard, ResultFrom
<1> QED BY <1>2, <1>3, <1>4, <1>5 DEF SentOnce

LEMMA PressStopOK == ASSUME IInv, NEW s \in Stop, PressStop(s) PROVE IInv'
<1> USE DEF IInv
<1>1. /\ queue' = <<>> /\ msg' = [m \in Prompt |-> IF msg[m] = "queued" THEN "dropped" ELSE msg[m]]
      /\ UNCHANGED <<state, pending, ended, out, events, inbox, busy, waiting, raised, shown, answer, draining>>
      /\ msg \in [Prompt -> Place]
  BY DEF PressStop, driver, cli, Types
<1>2. Types'
  BY <1>1 DEF Types, Place
<1>3. QueuedOnce'
  BY <1>1 DEF QueuedOnce
<1>4. ~ended' => HeldOnce'
  BY <1>1 DEF SentOnce, HeldOnce, Held, Unread
<1>5. Orderly => NoPhantomTurn'
  BY <1>1 DEF NoPhantomTurn
<1>6. Orderly /\ ~ended' => Heard'
  BY <1>1 DEF Heard, ResultFrom
<1> QED BY <1>2, <1>3, <1>4, <1>5, <1>6 DEF SentOnce

LEMMA StopOK ==
    ASSUME IInv, NEW s \in Stop, SendStop(s) \/ SettleStop(s)
    PROVE  IInv'
<1> USE DEF IInv
<1>1. /\ state' \in {state, "idle"}
      /\ UNCHANGED <<queue, pending, ended, events, inbox, busy, waiting, raised, shown, msg, answer, draining>>
  BY DEF SendStop, SettleStop, session, driver, cli
<1>2. out' \in Seq(Frame) /\ (~ended' => HeldOnce')
  <2>1. CASE SettleStop(s)
    BY <2>1, <1>1, HeldUnchanged DEF SettleStop, driver, SentOnce, Types
  <2>2. CASE SendStop(s)
    <3>1. [k |-> "stop"] \in Frame /\ [k |-> "stop"].k # "user"
      BY DEF Frame
    <3> QED BY <3>1, <2>2, <1>1, AcceptOther DEF SendStop, SentOnce
  <2> QED BY <2>1, <2>2
<1>3. Types'
  BY <1>1, <1>2 DEF Types, Place
<1>4. QueuedOnce'
  BY <1>1 DEF SentOnce, QueuedOnce
<1>5. Orderly => NoPhantomTurn'
  BY <1>1 DEF NoPhantomTurn, Busy
<1>6. Orderly /\ ~ended' => Heard'
  BY <1>1 DEF Heard, ResultFrom
<1> QED BY <1>2, <1>3, <1>4, <1>5, <1>6 DEF SentOnce

LEMMA PumpInitOK == ASSUME IInv, RecvInit \/ SettleInit PROVE IInv'
<1> USE DEF IInv
<1>1. /\ state' \in {state, "idle"}
      /\ UNCHANGED <<queue, pending, ended, out, inbox, busy, waiting, raised, shown, msg, answer, draining>>
  BY DEF RecvInit, SettleInit, session, driver, cli, people
<1>2. events' = events \/ Receive("init")
  BY DEF RecvInit, SettleInit, driver
<1>3. Types'
  BY <1>1, <1>2, Received DEF Types, Place
<1>4. QueuedOnce' /\ (~ended' => HeldOnce')
  BY <1>1, HeldUnchanged DEF SentOnce, QueuedOnce
<1>5. Orderly => NoPhantomTurn'
  BY <1>1, <1>2, ResultRest DEF NoPhantomTurn, Busy
<1>6. Orderly /\ ~ended' => Heard'
  <2>1. CASE events' = events
    BY <1>1, <2>1 DEF Heard, ResultFrom
  <2>2. CASE Receive("init")
    BY <1>1, <2>2, HeardRest
  <2> QED BY <1>2, <2>1, <2>2
<1> QED BY <1>3, <1>4, <1>5, <1>6 DEF SentOnce

LEMMA AskInlineOK == ASSUME IInv, RecvAskInline PROVE IInv'
<1> USE DEF IInv
<1>1. /\ UNCHANGED <<state, queue, pending, ended, inbox, busy, waiting, raised, shown, msg, answer, draining>>
      /\ Receive("ask") /\ Accept([k |-> "answer", a |-> Head(events).a])
  BY DEF RecvAskInline, session, cli, people
<1>2. Head(events) \in Report /\ Head(events).k = "ask"
  BY <1>1, Received
<1>3. [k |-> "answer", a |-> Head(events).a] \in Frame
      /\ [k |-> "answer", a |-> Head(events).a].k # "user"
  BY <1>2 DEF Report, Frame
<1>4. out' \in Seq(Frame) /\ (~ended' => HeldOnce')
  BY <1>1, <1>3, AcceptOther DEF SentOnce
<1>5. Types'
  BY <1>1, <1>4, Received DEF Types, Place
<1>6. QueuedOnce'
  BY <1>1 DEF SentOnce, QueuedOnce
<1>7. Orderly => NoPhantomTurn'
  BY <1>1, ResultRest DEF NoPhantomTurn
<1>8. Orderly /\ ~ended' => Heard'
  BY <1>1, HeardRest
<1> QED BY <1>4, <1>5, <1>6, <1>7, <1>8 DEF SentOnce

LEMMA AskOK == ASSUME IInv, RecvAsk PROVE IInv'
<1> USE DEF IInv
<1>1. /\ UNCHANGED <<queue, ended, out, inbox, busy, waiting, raised, msg, answer, draining>>
      /\ Receive("ask") /\ state' = "awaiting"
      /\ pending' = pending \cup {Head(events).a} /\ shown' = shown \cup {Head(events).a}
  BY DEF RecvAsk, cli
<1>2. Head(events) \in Report /\ Head(events).k = "ask" /\ Head(events) = events[1] /\ 1 \in DOMAIN events
  BY <1>1, Received
<1>3. Head(events).a \in Ask
  BY <1>2 DEF Report
<1>4. Types'
  BY <1>1, <1>3, Received DEF Types, Place, Busy
<1>5. QueuedOnce' /\ (~ended' => HeldOnce')
  BY <1>1, HeldUnchanged DEF SentOnce, QueuedOnce
<1>6. Orderly => NoPhantomTurn'
  <2> SUFFICES ASSUME Orderly PROVE NoPhantomTurn'
    OBVIOUS
  <2>1. CASE ~ended /\ busy # NoPrompt
    <3>1. busy \in Prompt /\ msg[busy] = "sent"
      BY <2>1 DEF Types, SentOnce, HeldOnce, Held
    <3> QED BY <3>1, <1>1 DEF NoPhantomTurn
  <2>2. CASE ~ended /\ busy = NoPrompt
    <3>1. \E i \in DOMAIN events : events[i].k = "result"
      BY <2>2, <1>2 DEF Heard, ResultFrom
    <3>2. \E i \in DOMAIN events' : events'[i].k = "result"
      BY <3>1, <1>1, ResultRest
    <3> QED BY <3>2 DEF NoPhantomTurn
  <2> QED BY <2>1, <2>2, <1>1 DEF NoPhantomTurn
<1>7. Orderly /\ ~ended' => Heard'
  BY <1>1, HeardRest
<1> QED BY <1>4, <1>5, <1>6, <1>7 DEF SentOnce

LEMMA ResultOK == ASSUME IInv, RecvResult PROVE IInv'
<1> USE DEF IInv
<1>1. /\ UNCHANGED <<queue, pending, ended, out, inbox, busy, waiting, raised, shown, msg, answer, draining>>
      /\ Receive("result") /\ state' = "idle"
  BY DEF RecvResult, cli, people
<1>2. Types'
  BY <1>1, Received DEF Types, Place, Busy
<1>3. QueuedOnce' /\ (~ended' => HeldOnce')
  BY <1>1, HeldUnchanged DEF SentOnce, QueuedOnce
<1>4. Orderly => NoPhantomTurn'
  BY <1>1 DEF NoPhantomTurn, Busy
<1>5. Orderly /\ ~ended' => Heard'
  BY <1>1, HeardRest
<1> QED BY <1>2, <1>3, <1>4, <1>5 DEF SentOnce

LEMMA DrainOK == ASSUME IInv, DrainQueue PROVE IInv'
<1> USE DEF IInv
<1>1. UNCHANGED <<pending, ended, out, events, inbox, busy, waiting, raised, shown, answer>>
  BY DEF DrainQueue, driver, cli
<1>2. CASE state = "idle" /\ queue # <<>>
  <2> DEFINE m == Head(queue)
  <2>1. /\ queue' = Tail(queue) /\ state' = "running"
        /\ msg' = [msg EXCEPT ![m] = "claimed"] /\ draining' = m
    BY <1>2 DEF DrainQueue
  <2>2. /\ queue \in Seq(Prompt) /\ m \in Prompt /\ m = queue[1] /\ msg \in [Prompt -> Place]
        /\ DOMAIN queue = 1..Len(queue) /\ Len(queue) \in Nat /\ Len(queue) >= 1
    BY <1>2 DEF Types
  <2>3. /\ queue' \in Seq(Prompt) /\ DOMAIN queue' = 1..(Len(queue) - 1)
        /\ \A i \in 1..(Len(queue) - 1) : queue'[i] = queue[i + 1]
    BY <2>1, <2>2
  <2> HIDE DEF m
  <2>4. Types'
    BY <1>1, <2>1, <2>2, <2>3 DEF Types, Place, Busy
  <2>5. \A i, j \in 1..Len(queue) : queue[i] = queue[j] => i = j
    BY <2>2 DEF SentOnce, QueuedOnce
  <2>6. \A i \in 1..(Len(queue) - 1) : i + 1 \in 1..Len(queue) /\ queue'[i] # m
    BY <2>2, <2>3, <2>5
  <2>7. \A n \in Prompt : msg'[n] = "queued" <=> \E i \in DOMAIN queue' : queue'[i] = n
    <3>1. ASSUME NEW n \in Prompt, n # m, NEW i \in DOMAIN queue, queue[i] = n
          PROVE  \E j \in DOMAIN queue' : queue'[j] = n
      <4>1. i \in 1..Len(queue) /\ i # 1
        BY <3>1, <2>2
      <4>2. i - 1 \in 1..(Len(queue) - 1) /\ (i - 1) + 1 = i
        BY <4>1, <2>2
      <4>3. queue'[i - 1] = queue[(i - 1) + 1]
        BY <4>2, <2>3
      <4> QED BY <4>2, <4>3, <2>3, <3>1
    <3>2. ASSUME NEW n \in Prompt, NEW i \in DOMAIN queue', queue'[i] = n
          PROVE  msg[n] = "queued" /\ n # m
      <4>1. i \in 1..(Len(queue) - 1) /\ i + 1 \in DOMAIN queue /\ queue[i + 1] = n
        BY <3>2, <2>2, <2>3, <2>6
      <4> QED BY <4>1, <3>2, <2>6 DEF SentOnce, QueuedOnce
    <3>3. \A n \in Prompt : msg[n] = "queued" <=> \E i \in DOMAIN queue : queue[i] = n
      BY DEF SentOnce, QueuedOnce
    <3> QED BY <3>1, <3>2, <3>3, <2>1, <2>2
  <2>8. \A i, j \in DOMAIN queue' : queue'[i] = queue'[j] => i = j
    <3> SUFFICES ASSUME NEW i \in DOMAIN queue', NEW j \in DOMAIN queue', queue'[i] = queue'[j]
                 PROVE  i = j
      OBVIOUS
    <3>1. queue[i + 1] = queue[j + 1] /\ {i + 1, j + 1} \subseteq 1..Len(queue) /\ i \in Int /\ j \in Int
      BY <2>3, <2>6
    <3> QED BY <3>1, <2>5
  <2>9. msg[m] = "queued"
    BY <2>2 DEF SentOnce, QueuedOnce
  <2>10. ~ended' => HeldOnce'
    BY <1>1, <2>1, <2>2, <2>9 DEF SentOnce, HeldOnce, Held, Unread
  <2>11. Orderly => NoPhantomTurn'
    BY <2>1, <2>2 DEF NoPhantomTurn
  <2>12. Orderly /\ ~ended' => Heard'
    BY <1>1 DEF Heard, ResultFrom
  <2> QED BY <2>4, <2>7, <2>8, <2>10, <2>11, <2>12 DEF SentOnce, QueuedOnce
<1>3. CASE ~(state = "idle" /\ queue # <<>>)
  <2>1. UNCHANGED <<queue, state, msg, draining>>
    BY <1>3 DEF DrainQueue
  <2>2. Types'
    BY <1>1, <2>1 DEF Types, Place, Busy
  <2>3. QueuedOnce' /\ (~ended' => HeldOnce')
    BY <1>1, <2>1, HeldUnchanged DEF SentOnce, QueuedOnce
  <2>4. Orderly => NoPhantomTurn'
    BY <1>1, <2>1 DEF NoPhantomTurn
  <2>5. Orderly /\ ~ended' => Heard'
    BY <1>1 DEF Heard, ResultFrom
  <2> QED BY <2>2, <2>3, <2>4, <2>5 DEF SentOnce
<1> QED BY <1>2, <1>3

LEMMA EndsOK == ASSUME IInv, PumpEnds \/ Shutdown PROVE IInv'
<1> USE DEF IInv
<1>1. CASE PumpEnds
  <2>1. UNCHANGED <<state, queue, pending, ended, out, events, inbox, busy, waiting, raised, shown, msg, answer, draining>>
        /\ ended
    BY <1>1 DEF PumpEnds, session, driver, cli, people
  <2> QED BY <2>1 DEF Types, Place, SentOnce, QueuedOnce, NoPhantomTurn
<1>2. CASE Shutdown
  <2>1. UNCHANGED <<state, queue, pending, events, raised, shown, msg, answer, draining>>
        /\ ended' = TRUE /\ out' = <<>> /\ inbox' = <<>> /\ busy' = NoPrompt /\ waiting' = {}
    BY <1>2 DEF Shutdown, session, people
  <2> QED BY <2>1 DEF Types, Place, SentOnce, QueuedOnce, NoPhantomTurn
<1> QED BY <1>1, <1>2

-----------------------------------------------------------------------------
(* The CLI's steps *)

\* A frame taken by the CLI leaves the others for it to read.
LEMMA ReadOne ==
    ASSUME Types, out # <<>>, out' = Tail(out)
    PROVE  /\ out' \in Seq(Frame) /\ Head(out) = out[1] /\ Head(out) \in Frame /\ 1 \in DOMAIN out
           /\ \A i \in Unread' : i + 1 \in Unread /\ out'[i] = out[i + 1] /\ i \in Nat /\ i > 0
           /\ \A i \in Unread : i # 1 => i - 1 \in Unread' /\ out'[i - 1] = out[i]
<1>1. out \in Seq(Frame) /\ DOMAIN out = 1..Len(out) /\ Len(out) \in Nat /\ Len(out) >= 1
  BY DEF Types
<1>2. /\ out' \in Seq(Frame) /\ DOMAIN out' = 1..(Len(out) - 1)
      /\ \A i \in 1..(Len(out) - 1) : out'[i] = out[i + 1]
  BY <1>1
<1>3. \A i \in Unread' : i + 1 \in Unread /\ out'[i] = out[i + 1] /\ i \in Nat /\ i > 0
  BY <1>1, <1>2 DEF Unread
<1>4. ASSUME NEW i \in Unread, i # 1 PROVE i - 1 \in Unread' /\ out'[i - 1] = out[i]
  <2>1. i - 1 \in 1..(Len(out) - 1) /\ (i - 1) + 1 = i /\ out[i].k = "user"
    BY <1>1, <1>4 DEF Unread
  <2>2. out'[i - 1] = out[(i - 1) + 1]
    BY <1>2, <2>1
  <2> QED BY <2>1, <2>2, <1>2 DEF Unread
<1>5. Head(out) = out[1] /\ Head(out) \in Frame /\ 1 \in DOMAIN out
  BY <1>1
<1> QED BY <1>2, <1>3, <1>4, <1>5

\* A frame that is no message, once read, leaves what the CLI holds as it was.
LEMMA ReadOther ==
    ASSUME Types, out # <<>>, out' = Tail(out), Head(out).k # "user",
           UNCHANGED <<msg, inbox, busy>>, HeldOnce
    PROVE  HeldOnce'
<1>1. /\ \A i \in Unread' : i + 1 \in Unread /\ out'[i] = out[i + 1] /\ i \in Nat
      /\ \A i \in Unread : i # 1 => i - 1 \in Unread' /\ out'[i - 1] = out[i]
      /\ 1 \notin Unread
  BY ReadOne DEF Unread
<1>2. \A m \in Prompt : (\E i \in Unread' : out'[i].m = m) <=> \E i \in Unread : out[i].m = m
  BY ZenonT(30), <1>1
<1>3. \A m \in Prompt : Held(m)' <=> Held(m)
  BY <1>2 DEF Held
<1>4. ASSUME NEW i \in Unread', NEW j \in Unread', out'[i].m = out'[j].m PROVE i = j
  <2>1. i + 1 \in Unread /\ j + 1 \in Unread /\ out[i + 1].m = out[j + 1].m /\ i \in Nat /\ j \in Nat
    BY <1>1, <1>4
  <2> QED BY <2>1 DEF HeldOnce
<1>5. ASSUME NEW i \in Unread'
      PROVE  out'[i].m # busy' /\ \A j \in DOMAIN inbox' : inbox'[j] # out'[i].m
  <2>1. i + 1 \in Unread /\ out'[i] = out[i + 1]
    BY <1>1, <1>5
  <2> QED BY ZenonT(30), <2>1 DEF HeldOnce
<1>6. /\ \A m \in Prompt : msg'[m] = "sent" <=> Held(m)'
      /\ \A i, j \in DOMAIN inbox' : inbox'[i] = inbox'[j] => i = j
      /\ \A i \in DOMAIN inbox' : inbox'[i] # busy'
  BY <1>3 DEF HeldOnce
<1> QED BY <1>4, <1>5, <1>6 DEF HeldOnce

\* A turn that ends leaves the other messages where they were, d frames on.
LEMMA EndHeld ==
    ASSUME Types, HeldOnce, busy # NoPrompt, End, inbox' = inbox, NEW d \in {0, 1},
           \A i \in Unread' : i + d \in Unread /\ out'[i] = out[i + d] /\ i \in Nat,
           \A i \in Unread : i - d \in Unread' /\ out'[i - d] = out[i]
    PROVE  HeldOnce'
<1>1. /\ busy \in Prompt /\ busy' = NoPrompt /\ msg' = [msg EXCEPT ![busy] = "done"]
      /\ msg \in [Prompt -> Place] /\ NoPrompt \notin Prompt
      /\ inbox \in Seq(Prompt) /\ \A i \in DOMAIN inbox : inbox[i] \in Prompt
  BY TurnAssumption DEF Types, End
<1>2. \A i \in Unread' : out'[i].m \in Prompt
  <2>1. \A i \in Unread : out[i] \in Frame /\ out[i].k = "user"
    BY DEF Types, Unread
  <2>2. \A i \in Unread : out[i].m \in Prompt
    BY <2>1 DEF Frame
  <2> QED BY <2>2
<1>3. \A m \in Prompt : (\E i \in Unread' : out'[i].m = m) <=> \E i \in Unread : out[i].m = m
  OBVIOUS
<1>4. \A m \in Prompt : Held(m)' <=> Held(m) /\ m # busy
  <2>1. ~(\E i \in DOMAIN inbox : inbox[i] = busy) /\ ~(\E i \in Unread : out[i].m = busy)
    BY DEF HeldOnce
  <2> QED BY <2>1, <1>1, <1>3 DEF Held
<1>5. \A m \in Prompt : msg'[m] = "sent" <=> Held(m)'
  BY <1>1, <1>4 DEF HeldOnce
<1>6. ASSUME NEW i \in Unread', NEW j \in Unread', out'[i].m = out'[j].m PROVE i = j
  <2>1. i + d \in Unread /\ j + d \in Unread /\ out[i + d].m = out[j + d].m /\ i \in Nat /\ j \in Nat
    BY <1>6
  <2> QED BY <2>1 DEF HeldOnce
<1>7. ASSUME NEW i \in Unread'
      PROVE  out'[i].m # busy' /\ \A j \in DOMAIN inbox' : inbox'[j] # out'[i].m
  <2>1. i + d \in Unread /\ out'[i] = out[i + d]
    OBVIOUS
  <2> QED BY <2>1, <1>1, <1>2 DEF HeldOnce
<1>8. /\ \A i, j \in DOMAIN inbox' : inbox'[i] = inbox'[j] => i = j
      /\ \A i \in DOMAIN inbox' : inbox'[i] # busy'
  BY <1>1 DEF HeldOnce
<1> QED BY <1>5, <1>6, <1>7, <1>8 DEF HeldOnce

\* What else a turn's end leaves true.
LEMMA EndRest ==
    ASSUME IInv, MayEnd, End, ~ended, ended' = ended,
           UNCHANGED <<state, queue, pending, raised, shown, answer, draining>>
    PROVE  /\ msg' \in [Prompt -> Place] /\ events' \in Seq(Report)
           /\ busy' = NoPrompt /\ waiting' = {}
           /\ QueuedOnce' /\ (Orderly => NoPhantomTurn') /\ (Orderly => Heard')
<1> USE DEF IInv
<1> DEFINE e == [k |-> "result", m |-> busy]
<1>1. /\ busy \in Prompt /\ msg \in [Prompt -> Place] /\ msg' = [msg EXCEPT ![busy] = "done"]
      /\ busy' = NoPrompt /\ waiting' = {} /\ events' = Append(events, e) /\ events \in Seq(Report)
  BY DEF Types, End, MayEnd
<1>2. e \in Report /\ e.k = "result"
  BY <1>1 DEF Report
<1>3. events' \in Seq(Report) /\ msg' \in [Prompt -> Place]
  BY <1>1, <1>2 DEF Place
<1>4. msg[busy] = "sent"
  BY <1>1 DEF SentOnce, HeldOnce, Held
<1>5. QueuedOnce'
  BY <1>1, <1>4 DEF SentOnce, QueuedOnce
<1>6. Orderly => NoPhantomTurn'
  <2>1. Len(events) + 1 \in DOMAIN events' /\ events'[Len(events) + 1] = e
    BY <1>1, <1>2
  <2> QED BY <2>1, <1>2 DEF NoPhantomTurn
<1>7. Orderly => \A a \in Ask : answer[a] = "no"
  BY DEF MayEnd, Orderly
<1>8. Orderly => Heard'
  <2> HIDE DEF e
  <2> QED BY <1>1, <1>2, <1>7, HeardAppend
<1> QED BY <1>1, <1>3, <1>5, <1>6, <1>8

\* A driver that was shut down holds nothing of the CLI's any more.
Quiet == ended => out = <<>> /\ inbox = <<>> /\ busy = NoPrompt

LEMMA QuietOK == Quiet /\ [Next]_vars => Quiet'
<1> SUFFICES ASSUME Quiet, [Next]_vars PROVE Quiet'
  OBVIOUS
<1> USE DEF Quiet
<1>1. ASSUME NEW m \in Prompt, Submit(m) \/ CancelQueued(m) PROVE Quiet'
  BY <1>1 DEF Submit, CancelQueued, driver, cli
<1>2. ASSUME NEW a \in Ask, Answer(a) \/ CliAsks(a) PROVE Quiet'
  BY <1>2 DEF Answer, CliAsks, driver, cli
<1>3. ASSUME NEW s \in Stop, PressStop(s) PROVE Quiet'
  BY <1>3 DEF PressStop, driver, cli
<1>4. CASE Goroutine
  BY <1>4 DEF Goroutine, Deliver, DeliverFails, AbandonTurn, SendAnswer, ResumeTurn, SendStop, SettleStop,
              Accept, driver, cli
<1>5. CASE Pump
  BY <1>5 DEF Pump, RecvInit, SettleInit, RecvAskInline, RecvAsk, RecvResult, DrainQueue, PumpEnds,
              Accept, driver, cli
<1>6. CASE CLI
  <2>1. CASE ended
    BY <1>6, <2>1 DEF CLI, CliBoot, CliReads, CliBegins, CliFinishes, MayEnd
  <2>2. ended' = ended
    BY <1>6 DEF CLI, CliBoot, CliReads, CliBegins, CliFinishes, driver
  <2> QED BY <2>1, <2>2
<1>7. CASE Shutdown
  BY <1>7 DEF Shutdown
<1>8. CASE UNCHANGED vars
  BY <1>8 DEF vars, driver, cli
<1> QED BY <1>1, <1>2, <1>3, <1>4, <1>5, <1>6, <1>7, <1>8 DEF Next

LEMMA CliFinishesOK == ASSUME IInv, Quiet, CliFinishes PROVE IInv'
<1> USE DEF IInv
<1>1. /\ UNCHANGED <<state, queue, pending, ended, out, inbox, raised, shown, answer, draining>>
      /\ MayEnd /\ End /\ busy # NoPrompt /\ ~ended
  BY DEF CliFinishes, MayEnd, session, Quiet
<1>2. HeldOnce'
  <2>1. /\ \A i \in Unread' : i + 0 \in Unread /\ out'[i] = out[i + 0] /\ i \in Nat
        /\ \A i \in Unread : i - 0 \in Unread' /\ out'[i - 0] = out[i]
    BY <1>1 DEF Unread, Types
  <2>2. 0 \in {0, 1} /\ inbox' = inbox
    BY <1>1
  <2> QED BY <1>1, <2>1, <2>2, EndHeld DEF SentOnce
<1>3. /\ msg' \in [Prompt -> Place] /\ events' \in Seq(Report) /\ busy' = NoPrompt /\ waiting' = {}
      /\ QueuedOnce' /\ (Orderly => NoPhantomTurn') /\ (Orderly => Heard')
  BY <1>1, EndRest
<1>4. Types'
  BY <1>1, <1>3 DEF Types
<1> QED BY <1>2, <1>3, <1>4 DEF SentOnce

\* A message the CLI reads goes from the unread frames to the inbox.
LEMMA ReadMessage ==
    ASSUME Types, HeldOnce, out # <<>>, out' = Tail(out), Head(out).k = "user",
           inbox' = Append(inbox, Head(out).m), UNCHANGED <<msg, busy>>
    PROVE  Head(out).m \in Prompt /\ inbox' \in Seq(Prompt) /\ HeldOnce'
<1> DEFINE n == Head(out).m
<1>1. /\ Head(out) = out[1] /\ Head(out) \in Frame /\ 1 \in DOMAIN out
      /\ \A i \in Unread' : i + 1 \in Unread /\ out'[i] = out[i + 1] /\ i \in Nat /\ i > 0
      /\ \A i \in Unread : i # 1 => i - 1 \in Unread' /\ out'[i - 1] = out[i]
  BY ReadOne
<1>2. n \in Prompt /\ 1 \in Unread /\ out[1].m = n
  BY <1>1 DEF Frame, Unread
<1>3. /\ inbox' \in Seq(Prompt) /\ DOMAIN inbox' = 1..(Len(inbox) + 1) /\ DOMAIN inbox = 1..Len(inbox)
      /\ inbox'[Len(inbox) + 1] = n /\ Len(inbox) \in Nat
      /\ \A i \in 1..Len(inbox) : inbox'[i] = inbox[i]
  BY <1>2 DEF Types
<1>4. n # busy /\ \A i \in DOMAIN inbox : inbox[i] # n
  BY <1>2 DEF HeldOnce
<1>5. \A i \in Unread' : out'[i].m # n
  <2>1. ASSUME NEW i \in Unread' PROVE out'[i].m # n
    <3>1. i + 1 \in Unread /\ out'[i] = out[i + 1] /\ i \in Nat /\ i > 0
      BY <1>1
    <3>2. i + 1 # 1
      BY <3>1
    <3>3. out[i + 1].m # out[1].m
      BY <3>1, <3>2, <1>2 DEF HeldOnce
    <3> QED BY <3>1, <3>3, <1>2
  <2> QED BY <2>1
<1> HIDE DEF n
<1>6. \A m \in Prompt : (\E i \in Unread : out[i].m = m) <=> m = n \/ \E i \in Unread' : out'[i].m = m
  <2>1. ASSUME NEW m \in Prompt, NEW i \in Unread, out[i].m = m, m # n PROVE \E j \in Unread' : out'[j].m = m
    <3>1. i # 1
      BY <2>1, <1>2
    <3>2. i - 1 \in Unread' /\ out'[i - 1] = out[i]
      BY <3>1, <1>1
    <3> QED BY <3>2, <2>1
  <2>2. ASSUME NEW m \in Prompt, NEW i \in Unread', out'[i].m = m PROVE \E j \in Unread : out[j].m = m
    BY <2>2, <1>1
  <2> QED BY <2>1, <2>2, <1>2
<1>7. \A m \in Prompt : (\E i \in DOMAIN inbox' : inbox'[i] = m) <=> m = n \/ \E i \in DOMAIN inbox : inbox[i] = m
  BY <1>3
<1>8. \A m \in Prompt : Held(m)' <=> Held(m)
  BY <1>6, <1>7 DEF Held
<1>9. \A i, j \in DOMAIN inbox' : inbox'[i] = inbox'[j] => i = j
  BY <1>3, <1>4 DEF HeldOnce
<1>10. \A i \in DOMAIN inbox' : inbox'[i] # busy'
  BY <1>3, <1>4 DEF HeldOnce
<1>11. ASSUME NEW i \in Unread', NEW j \in Unread', out'[i].m = out'[j].m PROVE i = j
  <2>1. i + 1 \in Unread /\ j + 1 \in Unread /\ out[i + 1].m = out[j + 1].m /\ i \in Nat /\ j \in Nat
    BY <1>1, <1>11
  <2> QED BY <2>1 DEF HeldOnce
<1>12. ASSUME NEW i \in Unread'
       PROVE  out'[i].m # busy' /\ \A j \in DOMAIN inbox' : inbox'[j] # out'[i].m
  <2>1. i + 1 \in Unread /\ out'[i] = out[i + 1] /\ out'[i].m # n
    BY <1>1, <1>5, <1>12
  <2>2. out'[i].m # busy /\ \A j \in DOMAIN inbox : inbox[j] # out'[i].m
    BY <2>1 DEF HeldOnce
  <2>3. ASSUME NEW j \in DOMAIN inbox' PROVE inbox'[j] # out'[i].m
    <3>1. j = Len(inbox) + 1 \/ j \in DOMAIN inbox
      BY <1>3
    <3> QED BY <3>1, <2>1, <2>2, <1>3
  <2> QED BY <2>2, <2>3
<1>13. \A m \in Prompt : msg'[m] = "sent" <=> Held(m)'
  BY <1>8 DEF HeldOnce
<1> QED BY <1>2, <1>3, <1>9, <1>10, <1>11, <1>12, <1>13 DEF HeldOnce, n

LEMMA CliReadsOK == ASSUME IInv, Quiet, CliReads PROVE IInv'
<1> USE DEF IInv
<1>1. /\ UNCHANGED <<state, queue, pending, ended, raised, shown, answer, draining>>
      /\ out # <<>> /\ out' = Tail(out) /\ ~ended
  BY DEF CliReads, session, Quiet
<1>2. /\ out' \in Seq(Frame) /\ Head(out) = out[1] /\ 1 \in DOMAIN out
      /\ \A i \in Unread' : i + 1 \in Unread /\ out'[i] = out[i + 1] /\ i \in Nat
      /\ \A i \in Unread : i # 1 => i - 1 \in Unread' /\ out'[i - 1] = out[i]
  BY <1>1, ReadOne
<1>3. CASE /\ Head(out).k = "user" /\ inbox' = Append(inbox, Head(out).m)
           /\ UNCHANGED <<busy, waiting, msg, events>>
  <2>1. inbox' \in Seq(Prompt) /\ HeldOnce'
    BY <1>1, <1>3, ReadMessage DEF SentOnce
  <2>2. Types'
    BY <1>1, <1>2, <1>3, <2>1 DEF Types
  <2>3. QueuedOnce' /\ (Orderly => NoPhantomTurn') /\ (Orderly => Heard')
    BY <1>1, <1>3 DEF SentOnce, QueuedOnce, NoPhantomTurn, Heard, ResultFrom
  <2> QED BY <2>1, <2>2, <2>3 DEF SentOnce
<1>4. CASE /\ Head(out).k # "user" /\ waiting' \subseteq waiting
           /\ UNCHANGED <<inbox, busy, msg, events>>
  <2>1. HeldOnce'
    BY <1>1, <1>4, ReadOther DEF SentOnce
  <2>2. Types'
    BY <1>1, <1>2, <1>4 DEF Types
  <2>3. QueuedOnce' /\ (Orderly => NoPhantomTurn') /\ (Orderly => Heard')
    BY <1>1, <1>4 DEF SentOnce, QueuedOnce, NoPhantomTurn, Heard, ResultFrom
  <2> QED BY <2>1, <2>2, <2>3 DEF SentOnce
<1>5. CASE Head(out).k = "stop" /\ MayEnd /\ End /\ UNCHANGED inbox
  <2>1. 1 \notin Unread
    BY <1>2, <1>5 DEF Unread
  <2>2. HeldOnce'
    <3>1. /\ \A i \in Unread' : i + 1 \in Unread /\ out'[i] = out[i + 1] /\ i \in Nat
          /\ \A i \in Unread : i - 1 \in Unread' /\ out'[i - 1] = out[i]
      BY <1>2, <2>1
    <3>2. busy # NoPrompt /\ 1 \in {0, 1} /\ inbox' = inbox
      BY <1>5 DEF MayEnd
    <3> QED BY <1>1, <1>5, <3>1, <3>2, EndHeld DEF SentOnce
  <2>3. /\ msg' \in [Prompt -> Place] /\ events' \in Seq(Report) /\ busy' = NoPrompt /\ waiting' = {}
        /\ QueuedOnce' /\ (Orderly => NoPhantomTurn') /\ (Orderly => Heard')
    BY <1>1, <1>5, EndRest
  <2>4. Types'
    BY <1>1, <1>2, <1>5, <2>3 DEF Types
  <2> QED BY <2>2, <2>3, <2>4 DEF SentOnce
<1> QED BY <1>3, <1>4, <1>5 DEF CliReads

LEMMA CliBeginsOK == ASSUME IInv, Quiet, CliBegins PROVE IInv'
<1> USE DEF IInv
<1> DEFINE n == Head(inbox)
<1>1. /\ busy = NoPrompt /\ inbox # <<>> /\ busy' = n /\ inbox' = Tail(inbox) /\ ~ended
      /\ UNCHANGED <<state, queue, pending, ended, out, events, waiting, raised, shown, msg, answer, draining>>
  BY DEF CliBegins, session, driver, people, Quiet
<1>2. /\ inbox \in Seq(Prompt) /\ n = inbox[1] /\ n \in Prompt /\ inbox' \in Seq(Prompt)
      /\ DOMAIN inbox = 1..Len(inbox) /\ Len(inbox) \in Nat /\ Len(inbox) >= 1
      /\ DOMAIN inbox' = 1..(Len(inbox) - 1)
      /\ \A i \in 1..(Len(inbox) - 1) : inbox'[i] = inbox[i + 1]
  BY <1>1 DEF Types
<1> HIDE DEF n
<1>3. Types'
  BY <1>1, <1>2 DEF Types
<1>4. /\ \A i, j \in 1..Len(inbox) : inbox[i] = inbox[j] => i = j
      /\ \A i \in Unread : out[i].m # n /\ \A j \in DOMAIN inbox : inbox[j] # out[i].m
      /\ NoPrompt \notin Prompt
  BY <1>1, <1>2, TurnAssumption DEF SentOnce, HeldOnce
<1>5. \A i \in 1..(Len(inbox) - 1) : i + 1 \in 1..Len(inbox) /\ inbox'[i] = inbox[i + 1] /\ inbox'[i] # n
  BY <1>2, <1>4
<1>6. ASSUME NEW m \in Prompt, m # n, NEW i \in DOMAIN inbox, inbox[i] = m
      PROVE  \E j \in DOMAIN inbox' : inbox'[j] = m
  <2>1. i - 1 \in 1..(Len(inbox) - 1) /\ (i - 1) + 1 = i
    BY <1>2, <1>6
  <2>2. inbox'[i - 1] = inbox[(i - 1) + 1]
    BY <1>2, <2>1
  <2> QED BY <2>1, <2>2, <1>2, <1>6
<1>7. \A m \in Prompt : Held(m)' <=> Held(m)
  <2>1. Unread' = Unread
    BY <1>1 DEF Unread
  <2> QED BY <2>1, <1>1, <1>2, <1>4, <1>5, <1>6 DEF Held
<1>8. HeldOnce'
  <2>1. Unread' = Unread
    BY <1>1 DEF Unread
  <2>2. \A m \in Prompt : msg'[m] = "sent" <=> Held(m)'
    BY <1>1, <1>7 DEF SentOnce, HeldOnce
  <2>3. \A i, j \in DOMAIN inbox' : inbox'[i] = inbox'[j] => i = j
    <3> SUFFICES ASSUME NEW i \in DOMAIN inbox', NEW j \in DOMAIN inbox', inbox'[i] = inbox'[j]
                 PROVE  i = j
      OBVIOUS
    <3>1. inbox[i + 1] = inbox[j + 1] /\ {i + 1, j + 1} \subseteq 1..Len(inbox) /\ i \in Int /\ j \in Int
      BY <1>2, <1>5
    <3> QED BY <3>1, <1>4
  <2>4. \A i \in DOMAIN inbox' : inbox'[i] # busy'
    BY <1>1, <1>2, <1>5
  <2>5. ASSUME NEW i \in Unread
        PROVE  out[i].m # n /\ \A j \in DOMAIN inbox' : inbox'[j] # out[i].m
    BY <1>2, <1>4, <1>5
  <2>6. \A i, j \in Unread : out[i].m = out[j].m => i = j
    BY <1>1 DEF SentOnce, HeldOnce
  <2> QED BY <2>1, <2>2, <2>3, <2>4, <2>5, <2>6, <1>1 DEF HeldOnce
<1>9. QueuedOnce' /\ (Orderly => NoPhantomTurn')
  BY <1>1 DEF SentOnce, QueuedOnce, NoPhantomTurn
<1>10. Orderly => Heard'
  BY <1>1, <1>2, <1>4 DEF Heard
<1> QED BY <1>3, <1>8, <1>9, <1>10 DEF SentOnce

LEMMA CliSaysOK ==
    ASSUME IInv, CliBoot \/ \E a \in Ask : CliAsks(a)
    PROVE  IInv'
<1> USE DEF IInv
<1>1. UNCHANGED <<state, queue, pending, ended, out, inbox, busy, shown, msg, answer, draining>>
  BY DEF CliBoot, CliAsks, session, people
<1>2. PICK e \in Report : events' = Append(events, e) /\ (e.k = "ask" => busy # NoPrompt)
  <2>1. CASE CliBoot
    <3>1. [k |-> "init"] \in Report /\ [k |-> "init"].k # "ask"
      BY DEF Report
    <3> QED BY <2>1, <3>1 DEF CliBoot
  <2>2. ASSUME NEW a \in Ask, CliAsks(a)
        PROVE  \E e \in Report : events' = Append(events, e) /\ (e.k = "ask" => busy # NoPrompt)
    <3>1. [k |-> "ask", a |-> a] \in Report
      BY DEF Report
    <3> QED BY <2>2, <3>1 DEF CliAsks
  <2> QED BY <2>1, <2>2
<1>3. /\ events \in Seq(Report) /\ events' \in Seq(Report) /\ Len(events) \in Nat
      /\ DOMAIN events = 1..Len(events) /\ DOMAIN events' = 1..(Len(events) + 1)
      /\ events'[Len(events) + 1] = e /\ \A i \in 1..Len(events) : events'[i] = events[i]
  BY <1>2 DEF Types
<1>4. raised' \subseteq Ask /\ raised \subseteq raised' /\ waiting' \subseteq raised'
      /\ (waiting' # {} => waiting # {} \/ busy # NoPrompt)
  BY DEF CliBoot, CliAsks, Types
<1>5. Types'
  BY <1>1, <1>3, <1>4 DEF Types
<1>6. QueuedOnce' /\ (~ended' => HeldOnce')
  BY <1>1, HeldUnchanged DEF SentOnce, QueuedOnce
<1>7. Orderly => NoPhantomTurn'
  BY <1>1, <1>3 DEF NoPhantomTurn
<1>8. ASSUME ~ended, Orderly PROVE Heard'
  <2>1. ASSUME NEW i \in DOMAIN events', events'[i].k = "ask", busy = NoPrompt PROVE ResultFrom(i)'
    <3>1. i \in DOMAIN events /\ events[i].k = "ask"
      BY <2>1, <1>2, <1>3
    <3> QED BY <3>1, <2>1, <1>3, <1>8 DEF Heard, ResultFrom
  <2> QED BY <2>1, <1>1, <1>4, <1>8 DEF Heard
<1> QED BY <1>1, <1>5, <1>6, <1>7, <1>8 DEF SentOnce

-----------------------------------------------------------------------------
LEMMA NextOK == IInv /\ Quiet /\ [Next]_vars => IInv'
<1> SUFFICES ASSUME IInv, Quiet, [Next]_vars PROVE IInv'
  OBVIOUS
<1>1. ASSUME NEW m \in Prompt, Submit(m) \/ CancelQueued(m) PROVE IInv'
  BY <1>1, SubmitOK, CancelOK
<1>2. ASSUME NEW a \in Ask, Answer(a) PROVE IInv'
  BY <1>2, AnswerOK
<1>3. ASSUME NEW a \in Ask, CliAsks(a) PROVE IInv'
  BY <1>3, CliSaysOK
<1>4. ASSUME NEW s \in Stop, PressStop(s) PROVE IInv'
  BY <1>4, PressStopOK
<1>5. CASE Goroutine
  BY <1>5, DeliverOK, RefusedOK, SendAnswerOK, ResumeOK, StopOK DEF Goroutine
<1>6. CASE Pump
  BY <1>6, PumpInitOK, AskInlineOK, AskOK, ResultOK, DrainOK, EndsOK DEF Pump
<1>7. CASE CLI
  BY <1>7, CliSaysOK, CliReadsOK, CliBeginsOK, CliFinishesOK DEF CLI
<1>8. CASE Shutdown
  BY <1>8, EndsOK
<1>9. CASE UNCHANGED vars
  BY <1>9, HeldUnchanged DEF vars, session, driver, cli, people, IInv, Types, SentOnce, QueuedOnce,
                             NoPhantomTurn, Heard, ResultFrom
<1> QED BY <1>1, <1>2, <1>3, <1>4, <1>5, <1>6, <1>7, <1>8, <1>9 DEF Next

LEMMA Safe == Spec => [](IInv /\ Quiet)
<1>1. Init => IInv /\ Quiet
  BY InitOK DEF Init, Quiet
<1>2. IInv /\ Quiet /\ [Next]_vars => (IInv /\ Quiet)'
  BY NextOK, QuietOK
<1> QED BY <1>1, <1>2, PTL DEF Spec

-----------------------------------------------------------------------------
(* What TypeOK says beyond Types *)

Rest ==
    /\ pump \in {"recv", "init", "drain", "deliver", "done"}
    /\ pump = "deliver" <=> draining # NoPrompt
    /\ morePending \in [Ask -> BOOLEAN]
    /\ stop \in [Stop -> {"no", "send", "settle", "done"}] /\ stopped \in [Stop -> SUBSET Prompt]
    /\ halted \subseteq Prompt /\ ended \in BOOLEAN /\ booted \in {"no", "now", "before"}
    /\ shown \subseteq raised
    /\ \A i \in DOMAIN events : events[i].k = "ask" => events[i].a \in raised

\* Taking an event, or adding one that asks nothing new, asks nothing new.
LEMMA AsksKept ==
    ASSUME Types, Rest, raised \subseteq raised',
           \/ events' = events
           \/ \E k : Receive(k)
           \/ \E e \in Report : events' = Append(events, e) /\ (e.k = "ask" => e.a \in raised')
    PROVE  \A i \in DOMAIN events' : events'[i].k = "ask" => events'[i].a \in raised'
<1>1. CASE events' = events
  BY <1>1 DEF Rest
<1>2. ASSUME NEW k, Receive(k)
      PROVE  \A i \in DOMAIN events' : events'[i].k = "ask" => events'[i].a \in raised'
  <2>1. \A i \in DOMAIN events' : events'[i] = events[i + 1] /\ i + 1 \in DOMAIN events
    BY <1>2, Received
  <2> QED BY <2>1 DEF Rest
<1>3. ASSUME NEW e \in Report, events' = Append(events, e), e.k = "ask" => e.a \in raised'
      PROVE  \A i \in DOMAIN events' : events'[i].k = "ask" => events'[i].a \in raised'
  <2>1. /\ DOMAIN events = 1..Len(events) /\ DOMAIN events' = 1..(Len(events) + 1) /\ Len(events) \in Nat
        /\ events'[Len(events) + 1] = e /\ \A i \in 1..Len(events) : events'[i] = events[i]
    BY <1>3 DEF Types
  <2>2. ASSUME NEW i \in DOMAIN events', events'[i].k = "ask" PROVE events'[i].a \in raised'
    <3>1. CASE i = Len(events) + 1
      BY <3>1, <2>1, <2>2, <1>3
    <3>2. CASE i \in DOMAIN events
      BY <3>2, <2>1, <2>2 DEF Rest
    <3> QED BY <3>1, <3>2, <2>1
  <2> QED BY <2>2
<1> QED BY <1>1, <1>2, <1>3

LEMMA RestOK == Types /\ Rest /\ [Next]_vars => Rest'
<1> SUFFICES ASSUME Types, Rest, [Next]_vars PROVE Rest'
  OBVIOUS
<1>1. ASSUME NEW m \in Prompt, Submit(m) \/ CancelQueued(m) PROVE Rest'
  BY <1>1 DEF Submit, CancelQueued, driver, cli, Rest
<1>2. ASSUME NEW a \in Ask, Answer(a) PROVE Rest'
  BY <1>2 DEF Answer, driver, cli, Rest
<1>3. ASSUME NEW a \in Ask, CliAsks(a) PROVE Rest'
  <2>1. [k |-> "ask", a |-> a] \in Report /\ [k |-> "ask", a |-> a].a = a
    BY DEF Report
  <2>2. \A i \in DOMAIN events' : events'[i].k = "ask" => events'[i].a \in raised'
    BY <1>3, <2>1, AsksKept DEF CliAsks
  <2> QED BY <1>3, <2>2 DEF CliAsks, session, people, Rest
<1>4. ASSUME NEW s \in Stop, PressStop(s) PROVE Rest'
  BY <1>4 DEF PressStop, driver, cli, Rest
<1>5. ASSUME NEW m \in Prompt, Deliver(m) \/ DeliverFails(m) \/ AbandonTurn(m) PROVE Rest'
  BY <1>5 DEF Deliver, DeliverFails, AbandonTurn, PumpReturns, session, driver, cli, Rest
<1>6. ASSUME NEW a \in Ask, SendAnswer(a) \/ ResumeTurn(a) PROVE Rest'
  BY <1>6 DEF SendAnswer, ResumeTurn, session, driver, cli, Rest
<1>7. ASSUME NEW s \in Stop, SendStop(s) \/ SettleStop(s) PROVE Rest'
  BY <1>7 DEF SendStop, SettleStop, session, driver, cli, Rest
<1>8. CASE Pump
  <2>1. \A i \in DOMAIN events' : events'[i].k = "ask" => events'[i].a \in raised'
    <3>1. raised' = raised /\ (events' = events \/ \E k : Receive(k))
      BY <1>8 DEF Pump, RecvInit, SettleInit, RecvAskInline, RecvAsk, RecvResult, DrainQueue, PumpEnds,
                  driver, cli
    <3> QED BY <3>1, AsksKept
  <2>2. CASE RecvAsk
    <3>1. Receive("ask")
      BY <2>2 DEF RecvAsk
    <3>2. Head(events) = events[1] /\ 1 \in DOMAIN events /\ Head(events).k = "ask"
      BY <3>1, Received
    <3>3. Head(events).a \in raised
      BY <3>2 DEF Rest
    <3> QED BY <2>1, <2>2, <3>3 DEF RecvAsk, Receive, cli, Rest
  <2>3. CASE DrainQueue
    <3>1. state = "idle" /\ queue # <<>> => Head(queue) # NoPrompt
      BY TurnAssumption DEF Types
    <3> QED BY <2>1, <2>3, <3>1 DEF DrainQueue, driver, cli, Rest
  <2>4. CASE RecvInit \/ SettleInit \/ RecvAskInline \/ RecvResult \/ PumpEnds
    BY <2>1, <2>4 DEF RecvInit, SettleInit, RecvAskInline, RecvResult, PumpEnds, Receive,
                      session, driver, cli, people, Rest
  <2> QED BY <1>8, <2>2, <2>3, <2>4 DEF Pump
<1>9. CASE CLI
  <2>1. \A i \in DOMAIN events' : events'[i].k = "ask" => events'[i].a \in raised'
    <3>1. [k |-> "init"] \in Report /\ (busy # NoPrompt => [k |-> "result", m |-> busy] \in Report)
      BY DEF Types, Report
    <3>2. \/ events' = events
          \/ \E e \in Report : events' = Append(events, e) /\ (e.k = "ask" => e.a \in raised')
      BY <1>9, <3>1 DEF CLI, CliBoot, CliReads, CliBegins, CliFinishes, MayEnd, End, driver
    <3>3. raised' = raised
      BY <1>9 DEF CLI, CliBoot, CliReads, CliBegins, CliFinishes
    <3> QED BY <3>2, <3>3, AsksKept
  <2> QED BY <1>9, <2>1 DEF CLI, CliBoot, CliReads, CliBegins, CliFinishes, session, driver, people, Rest
<1>10. CASE Shutdown
  BY <1>10 DEF Shutdown, session, people, Rest
<1>11. CASE UNCHANGED vars
  BY <1>11 DEF vars, session, driver, cli, people, Rest
<1> QED BY <1>1, <1>2, <1>3, <1>4, <1>5, <1>6, <1>7, <1>8, <1>9, <1>10, <1>11 DEF Next, Goroutine

-----------------------------------------------------------------------------
\* Every variable of the turn machine keeps its type.
THEOREM TypesHold == Spec => []TypeOK
<1>1. Init => Rest
  <2>2. Init => ended \in BOOLEAN /\ booted \in {"no", "now", "before"}
    BY Zenon DEF Init
  <2>3. Init => [a \in Ask |-> FALSE] \in [Ask -> BOOLEAN] /\ [s \in Stop |-> {}] \in [Stop -> SUBSET Prompt]
    OBVIOUS
  <2> QED BY <2>2, <2>3 DEF Init, Rest
<1>2. IInv /\ Rest => TypeOK
  <2> QED BY Zenon DEF IInv, Types, Rest, TypeOK, Place
<1>3. IInv => Types
  BY DEF IInv
<1> QED BY <1>1, <1>2, <1>3, RestOK, Safe, PTL DEF Spec

\* A message is run once, whatever people and the CLI do and however many
\* messages, asks and Stops there are.
THEOREM MessagesSentOnce == Spec => []SentOnce
<1>1. IInv => SentOnce
  BY DEF IInv
<1> QED BY <1>1, Safe, PTL

\* A session that says it is working is, as long as asks are answered while
\* they stand and no turn ends under an answer.
THEOREM WorkingIsWork == ASSUME ~StaleAnswers, SlowCLI PROVE Spec => []NoPhantomTurn
<1>1. IInv => NoPhantomTurn
  BY DEF IInv, Orderly
<1> QED BY <1>1, Safe, PTL

-----------------------------------------------------------------------------
(* One turn at a time *)

\* Claimed for the CLI, or in its hands.
Taken(m) == msg[m] \in {"claimed", "sent"}
Result(i) == events[i].k = "result"

\* The CLI was up at the start, the driver is, and nobody has pressed Stop.
Unstopped == booted = "before" /\ ~ended /\ \A s \in Stop : stop[s] = "no"

\* Of the turns that are claimed, sent, or ended without the pump having heard
\* there is one, and while there is the session says it is busy: that is what
\* prompt() and drainQueue test before they claim another.
Sole ==
    /\ pump # "init" /\ (\A i \in DOMAIN events : events[i].k # "init") /\ \A m \in Prompt : msg[m] # "failing"
    /\ \A m, n \in Prompt : Taken(m) /\ Taken(n) => m = n
    /\ \A i, j \in DOMAIN events : Result(i) /\ Result(j) => i = j
    /\ \A m \in Prompt : \A i \in DOMAIN events : ~(Taken(m) /\ Result(i))
    /\ (\E m \in Prompt : Taken(m)) \/ (\E i \in DOMAIN events : Result(i)) => state \in Busy

\* A step that claims no turn and hears of none.
LEMMA SoleKept ==
    ASSUME Types, Sole, pump' # "init",
           \A m \in Prompt : msg'[m] # "failing" /\ (Taken(m)' => Taken(m)),
           \/ events' = events
           \/ \E k : k # "result" /\ Receive(k)
           \/ \E e \in Report : e.k = "ask" /\ events' = Append(events, e),
           state' = state \/ state' \in Busy
    PROVE  Sole'
<1>1. CASE events' = events
  BY <1>1 DEF Sole, Taken, Result
<1>2. ASSUME NEW k, k # "result", Receive(k)
      PROVE  Sole'
  <2>1. \A i \in DOMAIN events' : events'[i] = events[i + 1] /\ i + 1 \in DOMAIN events /\ i \in Nat
    BY <1>2, Received DEF Types
  <2>2. \A i, j \in Nat : i + 1 = j + 1 => i = j
    OBVIOUS
  <2>3. \A i \in DOMAIN events' : Result(i)' => Result(i + 1)
    BY <2>1 DEF Result
  <2>4. \A i, j \in DOMAIN events' : Result(i)' /\ Result(j)' => i = j
    BY <2>1, <2>2, <2>3 DEF Sole
  <2>5. \A m \in Prompt : \A i \in DOMAIN events' : ~(Taken(m)' /\ Result(i)')
    BY <2>1, <2>3 DEF Sole
  <2>6. (\E m \in Prompt : Taken(m)') \/ (\E i \in DOMAIN events' : Result(i)') => state' \in Busy
    BY <2>1, <2>3 DEF Sole
  <2>7. \A i \in DOMAIN events' : events'[i].k # "init"
    BY <2>1 DEF Sole
  <2> QED BY <2>4, <2>5, <2>6, <2>7 DEF Sole
<1>3. ASSUME NEW e \in Report, e.k = "ask", events' = Append(events, e)
      PROVE  Sole'
  <2>1. /\ DOMAIN events = 1..Len(events) /\ DOMAIN events' = 1..(Len(events) + 1) /\ Len(events) \in Nat
        /\ events'[Len(events) + 1] = e /\ \A i \in 1..Len(events) : events'[i] = events[i]
    BY <1>3 DEF Types
  <2>2. \A i \in DOMAIN events' : i \in DOMAIN events \/ i = Len(events) + 1
    BY <2>1
  <2>3. \A i \in DOMAIN events' : Result(i)' => i \in DOMAIN events /\ Result(i)
    BY <1>3, <2>1, <2>2 DEF Result
  <2>4. \A i \in DOMAIN events' : events'[i].k # "init"
    BY <1>3, <2>1, <2>2 DEF Sole
  <2> QED BY <2>3, <2>4 DEF Sole
<1> QED BY <1>1, <1>2, <1>3

\* A turn ends: what was in the CLI's hands is now a result on its way.
LEMMA SoleEnds ==
    ASSUME IInv, Sole, ~ended, busy # NoPrompt, End, UNCHANGED <<state, pump>>
    PROVE  Sole'
<1>1. busy \in Prompt /\ msg \in [Prompt -> Place] /\ events \in Seq(Report)
  BY DEF IInv, Types
<1>2. msg[busy] = "sent"
  BY <1>1 DEF IInv, SentOnce, HeldOnce, Held
<1>3. Taken(busy) /\ \A i \in DOMAIN events : ~Result(i)
  BY <1>1, <1>2 DEF Sole, Taken
<1>4. msg' = [msg EXCEPT ![busy] = "done"] /\ events' = Append(events, [k |-> "result", m |-> busy])
  BY DEF End
<1>5. \A m \in Prompt : ~Taken(m)' /\ msg'[m] # "failing"
  BY <1>1, <1>3, <1>4 DEF Sole, Taken
<1>6. /\ DOMAIN events = 1..Len(events) /\ DOMAIN events' = 1..(Len(events) + 1) /\ Len(events) \in Nat
      /\ events'[Len(events) + 1].k = "result" /\ \A i \in 1..Len(events) : events'[i] = events[i]
  BY <1>1, <1>4
<1>7. \A i \in DOMAIN events' : Result(i)' => i = Len(events) + 1
  BY <1>3, <1>6 DEF Result
<1>8. \A i \in DOMAIN events' : events'[i].k # "init"
  <2>1. \A i \in DOMAIN events' : i \in DOMAIN events \/ i = Len(events) + 1
    BY <1>6
  <2> QED BY <1>6, <2>1 DEF Sole
<1>9. state \in Busy
  BY <1>1, <1>3 DEF Sole
<1> QED BY <1>5, <1>7, <1>8, <1>9 DEF Sole

\* A turn is claimed by whoever found the session not busy.
LEMMA SoleClaims ==
    ASSUME Types, Sole, NEW m \in Prompt, state \notin Busy, msg' = [msg EXCEPT ![m] = "claimed"],
           state' = "running", pump' # "init", events' = events
    PROVE  Sole'
<1>1. (\A n \in Prompt : ~Taken(n)) /\ \A i \in DOMAIN events : ~Result(i)
  BY DEF Sole
<1>2. \A n \in Prompt : (Taken(n)' => n = m) /\ msg'[n] # "failing"
  BY <1>1 DEF Types, Sole, Taken
<1> QED BY <1>1, <1>2 DEF Sole, Result, Busy

LEMMA SoleStep ==
    ASSUME IInv, Rest, Unstopped => Sole, [Next]_vars, Unstopped'
    PROVE  Sole'
<1>0. stop \in [Stop -> {"no", "send", "settle", "done"}] /\ msg \in [Prompt -> Place] /\ Types /\ ended \in BOOLEAN
  BY DEF Rest, IInv, Types
<1>1. Unstopped
  <2>1. \A s \in Stop : stop'[s] = "no" => stop[s] = "no"
    BY <1>0 DEF Next, Submit, CancelQueued, Answer, CliAsks, PressStop, Goroutine, Deliver, DeliverFails, AbandonTurn,
       SendAnswer, ResumeTurn, SendStop, SettleStop, Pump, RecvInit, SettleInit, RecvAskInline, RecvAsk, RecvResult,
       DrainQueue, PumpEnds, CLI, CliBoot, CliReads, CliBegins, CliFinishes, Shutdown, people, vars
  <2>2. booted' = "before" => booted = "before"
    BY DEF Next, Submit, CancelQueued, Answer, CliAsks, PressStop, Goroutine, Deliver, DeliverFails, AbandonTurn,
       SendAnswer, ResumeTurn, SendStop, SettleStop, Pump, RecvInit, SettleInit, RecvAskInline, RecvAsk, RecvResult,
       DrainQueue, PumpEnds, CLI, CliBoot, CliReads, CliBegins, CliFinishes, Shutdown, cli, vars
  <2>3. ended => ended'
    BY DEF Next, Submit, CancelQueued, Answer, CliAsks, PressStop, Goroutine, Deliver, DeliverFails, AbandonTurn,
       SendAnswer, ResumeTurn, SendStop, SettleStop, Pump, RecvInit, SettleInit, RecvAskInline, RecvAsk, RecvResult,
       DrainQueue, PumpEnds, CLI, CliBoot, CliReads, CliBegins, CliFinishes, Shutdown, driver, vars
  <2> QED BY <2>1, <2>2, <2>3 DEF Unstopped
<1>2. Sole /\ ~ended /\ booted = "before" /\ \A s \in Stop : stop[s] = "no"
  BY <1>1 DEF Unstopped
<1>3. pump # "init" /\ \A m \in Prompt : msg[m] # "failing"
  BY <1>2 DEF Sole
<1>4. ASSUME NEW m \in Prompt, Submit(m) PROVE Sole'
  <2>1. CASE state \in Busy
    <3>1. msg' = [msg EXCEPT ![m] = "queued"] /\ UNCHANGED <<state, pump, events>>
      BY <1>4, <2>1 DEF Submit, driver
    <3> QED BY <1>0, <1>2, <1>3, <3>1, SoleKept DEF Taken
  <2>2. CASE state \notin Busy
    <3>1. msg' = [msg EXCEPT ![m] = "claimed"] /\ state' = "running" /\ UNCHANGED <<pump, events>>
      BY <1>4, <2>2 DEF Submit, driver
    <3> QED BY <1>0, <1>2, <1>3, <2>2, <3>1, SoleClaims
  <2> QED BY <2>1, <2>2
<1>5. ASSUME NEW m \in Prompt, CancelQueued(m) PROVE Sole'
  <2>1. msg' = [msg EXCEPT ![m] = "dropped"] /\ UNCHANGED <<state, pump, events>>
    BY <1>5 DEF CancelQueued, driver
  <2> QED BY <1>0, <1>2, <1>3, <2>1, SoleKept DEF Taken
<1>6. ASSUME NEW a \in Ask, Answer(a) \/ SendAnswer(a) \/ ResumeTurn(a) PROVE Sole'
  <2>1. UNCHANGED <<msg, pump, events>> /\ state' \in {state, "running"}
    BY <1>6 DEF Answer, SendAnswer, ResumeTurn, session, driver
  <2> QED BY <1>0, <1>2, <1>3, <2>1, SoleKept DEF Taken, Busy
<1>7. ASSUME NEW a \in Ask, CliAsks(a) PROVE Sole'
  <2>1. [k |-> "ask", a |-> a] \in Report /\ [k |-> "ask", a |-> a].k = "ask"
    BY DEF Report
  <2>2. UNCHANGED <<msg, pump, state>> /\ events' = Append(events, [k |-> "ask", a |-> a])
    BY <1>7 DEF CliAsks, session, people
  <2> QED BY <1>0, <1>2, <1>3, <2>1, <2>2, SoleKept DEF Taken
<1>8. ASSUME NEW s \in Stop, PressStop(s) \/ SendStop(s) \/ SettleStop(s) PROVE FALSE
  BY <1>0, <1>2, <1>8 DEF PressStop, SendStop, SettleStop, Unstopped
<1>9. ASSUME NEW m \in Prompt, Deliver(m) PROVE Sole'
  <2>1. msg[m] = "claimed" /\ msg' = [msg EXCEPT ![m] = "sent"] /\ UNCHANGED <<state, events>> /\ pump' \in {pump, "recv"}
    BY <1>9 DEF Deliver, PumpReturns, session
  <2> QED BY <1>0, <1>2, <1>3, <2>1, SoleKept DEF Taken
<1>10. ASSUME NEW m \in Prompt, DeliverFails(m) \/ AbandonTurn(m) PROVE FALSE
  BY <1>2, <1>3, <1>10 DEF DeliverFails, AbandonTurn
<1>11. CASE RecvInit \/ SettleInit \/ PumpEnds
  <2>1. ~RecvInit
    BY <1>0, <1>2, Received DEF RecvInit, Sole
  <2> QED BY <1>2, <1>3, <1>11, <2>1 DEF SettleInit, PumpEnds
<1>12. CASE RecvAskInline \/ RecvAsk
  <2>1. UNCHANGED <<msg, pump>> /\ state' \in {state, "awaiting"} /\ Receive("ask")
    BY <1>12 DEF RecvAskInline, RecvAsk, session, people
  <2> QED BY <1>0, <1>2, <1>3, <2>1, SoleKept DEF Taken, Busy
<1>13. CASE RecvResult
  <2>1. Receive("result") /\ UNCHANGED msg /\ pump' = "drain"
    BY <1>13 DEF RecvResult, people
  <2>2. /\ 1 \in DOMAIN events /\ Result(1)
        /\ \A i \in DOMAIN events' : events'[i] = events[i + 1] /\ i + 1 \in DOMAIN events /\ i \in Nat /\ i >= 1
    BY <1>0, <2>1, Received DEF Types, Result
  <2>3. \A i \in DOMAIN events' : ~Result(i)' /\ events'[i].k # "init"
    <3> SUFFICES ASSUME NEW i \in DOMAIN events' PROVE ~Result(i)' /\ events'[i].k # "init"
      OBVIOUS
    <3>1. i + 1 # 1 /\ i + 1 \in DOMAIN events /\ events'[i] = events[i + 1]
      BY <2>2
    <3>2. ~Result(i + 1)
      BY <1>2, <2>2, <3>1 DEF Sole
    <3> QED BY <1>2, <3>1, <3>2 DEF Sole, Result
  <2>4. \A m \in Prompt : ~Taken(m)' /\ msg'[m] # "failing"
    BY <1>2, <2>1, <2>2 DEF Sole, Taken
  <2> QED BY <2>1, <2>3, <2>4 DEF Sole
<1>14. CASE DrainQueue
  <2>1. CASE state = "idle" /\ queue # <<>>
    <3>1. Head(queue) \in Prompt /\ state \notin Busy
      BY <1>0, <2>1 DEF Types, Busy
    <3>2. msg' = [msg EXCEPT ![Head(queue)] = "claimed"] /\ state' = "running" /\ pump' = "deliver" /\ UNCHANGED events
      BY <1>14, <2>1 DEF DrainQueue, driver
    <3> QED BY <1>0, <1>2, <3>1, <3>2, SoleClaims
  <2>2. CASE ~(state = "idle" /\ queue # <<>>)
    <3>1. UNCHANGED <<state, msg, events>> /\ pump' = "recv"
      BY <1>14, <2>2 DEF DrainQueue, driver
    <3> QED BY <1>0, <1>2, <1>3, <3>1, SoleKept DEF Taken
  <2> QED BY <2>1, <2>2
<1>15. CASE CliBoot
  BY <1>2, <1>15 DEF CliBoot
<1>16. CASE CliBegins
  <2>1. UNCHANGED <<state, msg, events, pump>>
    BY <1>16 DEF CliBegins, session, driver, people
  <2> QED BY <1>0, <1>2, <1>3, <2>1, SoleKept DEF Taken
<1>17. CASE CliReads
  <2>1. UNCHANGED <<state, pump>> /\ (UNCHANGED <<msg, events>> \/ (End /\ MayEnd))
    BY <1>17 DEF CliReads, session
  <2> QED BY <1>0, <1>2, <1>3, <2>1, SoleKept, SoleEnds DEF Taken, MayEnd
<1>18. CASE CliFinishes
  BY <1>2, <1>18, SoleEnds DEF CliFinishes, MayEnd, session
<1>19. CASE Shutdown
  BY <1>19 DEF Shutdown, Unstopped
<1>20. CASE UNCHANGED vars
  BY <1>2, <1>20 DEF vars, session, driver, people, Sole, Taken, Result
<1> QED BY <1>4, <1>5, <1>6, <1>7, <1>8, <1>9, <1>10, <1>11, <1>12, <1>13, <1>14, <1>15, <1>16, <1>17, <1>18, <1>19, <1>20
        DEF Next, Goroutine, Pump, CLI

\* Two messages are never in the CLI's hands at once, for any messages and asks
\* and whatever order people, the pump and the CLI take: prompt() and
\* drainQueue claim a turn under the lock that tested for one (startTurnLocked).
THEOREM OneTurnAtATime == Spec => []OneTurn
<1>1. Init => (Unstopped => Sole)
  BY DEF Init, Unstopped, Sole, Taken, Result
<1>2. IInv /\ Rest /\ (Unstopped => Sole) /\ [Next]_vars => (Unstopped => Sole)'
  BY SoleStep
<1>3. (Unstopped => Sole) => OneTurn
  <2> SUFFICES ASSUME Unstopped => Sole, booted = "before", \A s \in Stop : stop[s] = "no"
               PROVE  Cardinality({m \in Prompt : msg[m] = "sent" /\ m \notin halted /\ ~ended}) <= 1
    BY DEF OneTurn
  <2> DEFINE M == {m \in Prompt : msg[m] = "sent" /\ m \notin halted /\ ~ended}
  <2>1. CASE M = {}
    BY <2>1, FS_EmptySet
  <2>2. CASE M # {}
    <3>1. PICK m \in M : TRUE
      BY <2>2
    <3>2. \A n \in M : n = m
      BY <3>1 DEF Unstopped, Sole, Taken
    <3>3. M = {m}
      BY <3>1, <3>2
    <3> QED BY <3>3, FS_Singleton
  <2> QED BY <2>1, <2>2
<1>4. Init => Rest
  <2>1. Init => ended \in BOOLEAN /\ booted \in {"no", "now", "before"}
    BY Zenon DEF Init
  <2>2. Init => [a \in Ask |-> FALSE] \in [Ask -> BOOLEAN] /\ [s \in Stop |-> {}] \in [Stop -> SUBSET Prompt]
    OBVIOUS
  <2> QED BY <2>1, <2>2 DEF Init, Rest
<1>5. IInv => Types
  BY DEF IInv
<1> QED BY <1>1, <1>2, <1>3, <1>4, <1>5, RestOK, Safe, PTL DEF Spec

\* The guard counts no more than there was.  The soft count is not cleared by a
\* trip of the hard ceiling (hardTrip), which latches: it may then be ahead of
\* the readings, until a cool one unlatches and clears it.
Honest ==
    /\ overHard <= log.hard
    /\ ~latched => over <= log.hot

\* The counts of readings stop at what makes a trip, and a process that has
\* ended has no request under way.
Logged ==
    /\ log \in [hot : 0..TripN, hard : 0..TripN, stopped : BOOLEAN]
    /\ guard = "gone" => request = "none"

\* A request to let go of the lid has let go of it.
LidFits ==
    /\ LidIsAsked
    /\ request = "off" => "lid" \notin held

GuInv == GuTypeOK /\ Logged /\ Honest /\ LidFits

-----------------------------------------------------------------------------

\* One reading more: both counts go up together or the guard's goes back.
LEMMA OneReading ==
    ASSUME GuInv, NEW armed \in BOOLEAN, GuNote(armed)
    PROVE  /\ log' \in [hot : 0..TripN, hard : 0..TripN, stopped : BOOLEAN]
           /\ heat \in {"hot", "danger", "critical"} => log'.hot = IF log.hot = TripN THEN TripN ELSE log.hot + 1
           /\ armed /\ heat \in Danger => log'.hard = IF log.hard = TripN THEN TripN ELSE log.hard + 1
  BY GuardianAssumption DEF GuInv, Logged, GuNote, GuRun

\* TooHot and Danger are such readings.
LEMMA Counts ==
    ASSUME GuInv, GuNote(policy.powerOff)
    PROVE  /\ CountHard \in 0..TripN /\ CountHard <= log'.hard
           /\ CountSoft \in 0..TripN /\ (over <= log.hot => CountSoft <= log'.hot)
  <1>1. policy.powerOff \in BOOLEAN
    BY GuardianAssumption DEF GuInv, GuTypeOK, Policy
  <1>2. over \in 0..TripN - 1 /\ overHard \in 0..TripN - 1 /\ TripN \in Nat \ {0} /\ overHard <= log.hard
    BY GuardianAssumption DEF GuInv, GuTypeOK, Honest
  <1>3. log.hot \in 0..TripN /\ log.hard \in 0..TripN /\ log'.hot \in 0..TripN /\ log'.hard \in 0..TripN
    BY <1>1, OneReading DEF GuInv, Logged
  <1>4. CountHard \in 0..TripN /\ CountHard <= log'.hard
    <2>1. CASE policy.powerOff /\ heat \in Danger
      <3>1. log'.hard = IF log.hard = TripN THEN TripN ELSE log.hard + 1
        BY <1>1, <2>1, OneReading
      <3>2. CountHard = overHard + 1
        BY <2>1 DEF CountHard
      <3> QED
        BY <1>2, <1>3, <3>1, <3>2
    <2>2. CASE ~(policy.powerOff /\ heat \in Danger)
      BY <1>2, <1>3, <2>2 DEF CountHard
    <2> QED
      BY <2>1, <2>2
  <1>5. CountSoft \in 0..TripN /\ (over <= log.hot => CountSoft <= log'.hot)
    <2>1. CASE TooHot(heat)
      <3>1. heat \in {"hot", "danger", "critical"}
        BY <2>1 DEF TooHot
      <3> QED
        BY <1>1, <1>2, <1>3, <2>1, <3>1, OneReading DEF CountSoft
    <2>2. CASE ~TooHot(heat)
      BY <1>2, <1>3, <2>2 DEF CountSoft
    <2> QED
      BY <2>1, <2>2
  <1> QED
    BY <1>4, <1>5

LEMMA Ages == ASSUME GuInv PROVE Age \in 0..NoAge
  <1>1. from \in 0..NoAge /\ MaxAge \in Nat \ {0} /\ NoAge = MaxAge + 1
    BY GuardianAssumption DEF GuInv, GuTypeOK, NoAge
  <1> QED
    BY <1>1 DEF Age

LEMMA GuardInitOK == GuInit => GuInv
  <1> SUFFICES ASSUME GuInit PROVE GuInv
    OBVIOUS
  <1>1. TripN \in Nat \ {0} /\ MaxAge \in Nat
    BY GuardianAssumption
  <1>2. over \in 0..TripN - 1 /\ overHard \in 0..TripN - 1 /\ from \in 0..NoAge
    BY <1>1 DEF GuInit, NoAge
  <1>3. GuTypeOK
    BY <1>2 DEF GuInit, GuTypeOK, GuQuiet, Hold, Reading
  <1>4. Logged /\ Honest /\ LidFits
    BY <1>1 DEF GuInit, NoLog, Logged, Honest, LidFits, LidIsAsked, GuQuiet
  <1> QED
    BY <1>3, <1>4 DEF GuInv

\* A reading, with whatever it leads to.
LEMMA CheckOK ==
    ASSUME GuInv, CheckOff \/ CheckHard \/ CheckLatched \/ CheckTrips \/ CheckCounts
    PROVE  GuInv'
  <1> USE DEF GuInv
  <1>0. TripN \in Nat \ {0} /\ policy.powerOff \in BOOLEAN
    BY GuardianAssumption DEF GuTypeOK, Policy
  <1>1. UNCHANGED <<policy, holdVars, heat>> /\ guard = GuQuiet
    BY DEF CheckOff, CheckHard, CheckLatched, CheckTrips, CheckCounts
  <1>2. guard' \in {GuQuiet, "hardLatch", "stop"}
    BY <1>1 DEF CheckOff, CheckHard, CheckLatched, CheckTrips, CheckCounts
  <1>3. LidFits'
    BY <1>1, <1>2 DEF LidFits, LidIsAsked, holdVars, GuQuiet
  <1>4. Logged'
    <2>1. log' \in [hot : 0..TripN, hard : 0..TripN, stopped : BOOLEAN]
      BY <1>0, OneReading DEF CheckOff, CheckHard, CheckLatched, CheckTrips, CheckCounts
    <2> QED
      BY <1>2, <2>1 DEF Logged, GuQuiet
  <1>5. CASE CheckOff
    <2>1. over' = 0 /\ overHard' = 0 /\ UNCHANGED <<policy, latched, from, guard, holdVars, heat>>
      BY <1>5 DEF CheckOff
    <2>2. GuTypeOK'
      BY <1>0, <2>1 DEF GuTypeOK, holdVars
    <2>3. Honest'
      BY <1>4, <2>1 DEF Honest, Logged
    <2> QED
      BY <1>3, <1>4, <2>2, <2>3
  <1>6. CASE CheckHard \/ CheckLatched \/ CheckTrips \/ CheckCounts
    <2>1. GuNote(policy.powerOff) /\ from' = Age
      BY <1>6 DEF CheckHard, CheckLatched, CheckTrips, CheckCounts
    <2>2. /\ CountHard \in 0..TripN /\ CountHard <= log'.hard
          /\ CountSoft \in 0..TripN /\ (over <= log.hot => CountSoft <= log'.hot)
      BY <2>1, Counts
    <2>3. /\ over' \in 0..TripN - 1 /\ overHard' \in 0..TripN - 1 /\ latched' \in BOOLEAN
          /\ overHard' <= log'.hard
      <3>1. over \in 0..TripN - 1 /\ latched \in BOOLEAN /\ log'.hard \in 0..TripN
        BY <1>4 DEF GuTypeOK, Logged
      <3>2. latched' \in BOOLEAN
        BY <1>6, <3>1 DEF CheckHard, CheckLatched, CheckTrips, CheckCounts
      <3>3. over' \in {0, over} \/ (over' = CountSoft /\ CountSoft < TripN)
        BY <1>6 DEF CheckHard, CheckLatched, CheckTrips, CheckCounts
      <3>4. overHard' = 0 \/ (overHard' = CountHard /\ CountHard < TripN)
        BY <1>6 DEF CheckHard, CheckLatched, CheckTrips, CheckCounts
      <3> QED
        BY <1>0, <2>2, <3>1, <3>2, <3>3, <3>4
    <2>4. GuTypeOK'
      BY <1>1, <1>2, <2>1, <2>3, Ages DEF GuTypeOK, holdVars, GuQuiet, NoAge
    <2>5. ~latched' => over' <= log'.hot
      <3>1. CASE CheckHard
        <4>1. heat \in Danger
          BY <1>0, <3>1 DEF CheckHard, CountHard
        <4> QED
          BY <1>0, <1>4, <2>1, <3>1, <4>1, OneReading DEF CheckHard, Honest, Logged, Danger, GuTypeOK
      <3>2. CASE CheckLatched
        <4>1. ~latched' => over' = 0
          BY <3>2 DEF CheckLatched
        <4> QED
          BY <1>0, <1>4, <4>1 DEF Logged
      <3>3. CASE CheckTrips
        BY <3>3 DEF CheckTrips
      <3>4. CASE CheckCounts
        BY <1>1, <2>2, <3>4 DEF CheckCounts, Honest
      <3> QED
        BY <1>6, <3>1, <3>2, <3>3, <3>4
    <2> QED
      BY <1>3, <1>4, <2>3, <2>4, <2>5 DEF Honest
  <1> QED
    BY <1>5, <1>6

\* A trip being carried out.
LEMMA TripOK ==
    ASSUME GuInv, HardLatches \/ TripStops \/ TripReleases \/ PowerOffDenied
    PROVE  GuInv'
  <1> USE DEF GuInv
  <1>1. GuTypeOK'
    BY DEF HardLatches, TripStops, TripReleases, PowerOffDenied, GuTypeOK, guardVars, holdVars, GuQuiet, NoAge
  <1>2. Logged'
    BY DEF HardLatches, TripStops, TripReleases, PowerOffDenied, Logged, guardVars, holdVars, GuQuiet
  <1>3. Honest'
    BY <1>2 DEF HardLatches, TripStops, TripReleases, PowerOffDenied, Honest, Logged, guardVars
  <1>4. LidFits'
    BY DEF HardLatches, TripStops, TripReleases, PowerOffDenied, LidFits, LidIsAsked, guardVars, holdVars, GuQuiet
  <1> QED
    BY <1>1, <1>2, <1>3, <1>4

\* The process ends and starts.
LEMMA EndOK ==
    ASSUME GuInv, PowersOff \/ GuCrash \/ GuBoot
    PROVE  GuInv'
  <1> USE DEF GuInv, NoLog
  <1>0. TripN \in Nat \ {0} /\ MaxAge \in Nat
    BY GuardianAssumption
  <1>1. CASE Gone
    <2>0. over' \in 0..TripN - 1 /\ overHard' \in 0..TripN - 1 /\ from' \in 0..NoAge
      BY <1>0, <1>1 DEF Gone, NoAge
    <2>1. GuTypeOK'
      BY <1>1, <2>0 DEF Gone, GuTypeOK, NoAge
    <2>2. Logged' /\ Honest' /\ LidFits'
      BY <1>0, <1>1 DEF Gone, Logged, Honest, LidFits, LidIsAsked
    <2> QED
      BY <2>1, <2>2
  <1>2. CASE GuBoot
    <2>1. PICK taken \in SUBSET saved : held' = taken
      BY <1>2 DEF GuBoot, Unstick
    <2>2. request' = "none"
      BY <1>2 DEF GuBoot, Logged
    <2>3. GuTypeOK'
      BY <1>2, <2>1 DEF GuBoot, GuTypeOK, GuQuiet
    <2>4. Logged' /\ Honest' /\ LidFits'
      BY <1>2, <2>1, <2>2 DEF GuBoot, Logged, Honest, LidFits, LidIsAsked, GuQuiet
    <2> QED
      BY <2>3, <2>4
  <1> QED
    BY <1>1, <1>2 DEF PowersOff, GuCrash

\* The owner and the weather.
LEMMA OwnerOK ==
    ASSUME GuInv,
           \/ \E p \in Policies : SetConfig(p)
           \/ \E on \in BOOLEAN : AskAwake(on) \/ AskLid(on)
           \/ SaveLid \/ Weather
    PROVE  GuInv'
  <1> USE DEF GuInv
  <1>0. TripN \in Nat \ {0}
    BY GuardianAssumption
  <1>1. ASSUME NEW p \in Policies, SetConfig(p) PROVE GuInv'
    <2>0. over' \in 0..TripN - 1 /\ latched' \in BOOLEAN
      <3>1. (over' = 0 /\ latched' = FALSE) \/ UNCHANGED <<over, latched>>
        BY <1>1 DEF SetConfig
      <3>2. over \in 0..TripN - 1 /\ latched \in BOOLEAN
        BY DEF GuTypeOK
      <3>3. 0 \in 0..TripN - 1 /\ FALSE \in BOOLEAN
        BY <1>0
      <3> QED
        BY <3>1, <3>2, <3>3
    <2>1. GuTypeOK'
      BY <1>1, <2>0 DEF SetConfig, GuTypeOK, holdVars
    <2>2. Logged'
      <3>1. log' = log \/ log' = [log EXCEPT !.hot = 0, !.stopped = FALSE]
        BY <1>1 DEF SetConfig
      <3>2. log' \in [hot : 0..TripN, hard : 0..TripN, stopped : BOOLEAN]
        <4>1. log \in [hot : 0..TripN, hard : 0..TripN, stopped : BOOLEAN] /\ 0 \in 0..TripN
          BY <1>0 DEF Logged
        <4> QED
          BY <3>1, <4>1
      <3> QED
        BY <1>1, <3>2 DEF SetConfig, Logged, holdVars
    <2>3. Honest'
      BY <1>0, <1>1, <2>2 DEF SetConfig, Logged, Honest
    <2>4. LidFits'
      BY <1>1 DEF SetConfig, LidFits, LidIsAsked, holdVars
    <2> QED
      BY <2>1, <2>2, <2>3, <2>4
  <1>2. ASSUME NEW on \in BOOLEAN, AskAwake(on) PROVE GuInv'
    <2>1. GuTypeOK' /\ Logged' /\ Honest'
      BY <1>2 DEF AskAwake, GuTypeOK, Hold, Logged, Honest, guardVars
    <2>2. LidFits'
      BY <1>2 DEF AskAwake, LidFits, LidIsAsked
    <2> QED
      BY <2>1, <2>2
  <1>3. ASSUME NEW on \in BOOLEAN, AskLid(on) PROVE GuInv'
    <2>1. GuTypeOK' /\ Logged' /\ Honest'
      BY <1>3 DEF AskLid, GuTypeOK, Hold, Logged, Honest, guardVars
    <2>2. LidFits'
      BY <1>3 DEF AskLid, LidFits, LidIsAsked
    <2> QED
      BY <2>1, <2>2
  <1>4. CASE SaveLid
    <2>1. GuTypeOK' /\ Logged' /\ Honest'
      BY <1>4 DEF SaveLid, GuTypeOK, Hold, Logged, Honest, guardVars
    <2>2. LidFits'
      BY <1>4 DEF SaveLid, LidFits, LidIsAsked, GuTypeOK
    <2> QED
      BY <2>1, <2>2
  <1>5. CASE Weather
    <2>1. GuTypeOK' /\ Logged' /\ Honest'
      BY <1>5 DEF Weather, GuTypeOK, Logged, Honest, guardVars, holdVars
    <2>2. LidFits'
      BY <1>5 DEF Weather, LidFits, LidIsAsked, holdVars
    <2> QED
      BY <2>1, <2>2
  <1> QED
    BY <1>1, <1>2, <1>3, <1>4, <1>5

LEMMA GuardNextOK == GuInv /\ [GuNext]_guVars => GuInv'
  <1> SUFFICES ASSUME GuInv, [GuNext]_guVars PROVE GuInv'
    OBVIOUS
  <1>1. CASE Guards
    BY <1>1, CheckOK, TripOK, EndOK DEF Guards
  <1>2. CASE GuCrash \/ GuBoot
    BY <1>2, EndOK
  <1>3. CASE SaveLid \/ Weather
    BY <1>3, OwnerOK
  <1>4. CASE \E p \in Policies \ {policy} : SetConfig(p)
    BY <1>4, OwnerOK
  <1>5. CASE \E on \in BOOLEAN : AskAwake(on) \/ AskLid(on)
    BY <1>5, OwnerOK
  <1>6. CASE UNCHANGED guVars
    BY <1>6 DEF guVars, guardVars, holdVars, GuInv, GuTypeOK, Logged, Honest, LidFits, LidIsAsked
  <1> QED
    BY <1>1, <1>2, <1>3, <1>4, <1>5, <1>6 DEF GuNext

\* What trips the guard by heat alone has been too hot for long enough.
LEMMA Spikes == ASSUME GuInv, CheckTrips, ~policy.cap PROVE log'.hot = TripN
  <1>1. GuNote(policy.powerOff) /\ CountSoft >= TripN /\ over <= log.hot
    BY DEF CheckTrips, GuInv, Honest
  <1>2. policy.powerOff \in BOOLEAN /\ TripN \in Nat \ {0}
    BY GuardianAssumption DEF GuInv, GuTypeOK, Policy
  <1>3. log'.hot \in 0..TripN /\ CountSoft \in 0..TripN /\ CountSoft <= log'.hot
    BY <1>1, <1>2, Counts, OneReading
  <1> QED
    BY <1>1, <1>2, <1>3

\* What arms the power-off has been past the ceiling for long enough.
LEMMA Armed ==
    ASSUME GuInv, [GuNext]_guVars, guard = GuQuiet, guard' = "hardLatch"
    PROVE  log'.hard = TripN
  <1>1. CheckHard
    BY DEF GuNext, guVars, GuQuiet, Guards, CheckOff, CheckHard, CheckLatched, CheckTrips, CheckCounts, HardLatches,
       TripStops, TripReleases, PowerOffDenied, PowersOff, GuCrash, Gone, GuBoot, SaveLid, Weather, SetConfig,
       AskAwake, AskLid
  <1>2. GuNote(policy.powerOff) /\ CountHard >= TripN
    BY <1>1 DEF CheckHard
  <1>3. policy.powerOff \in BOOLEAN /\ TripN \in Nat \ {0}
    BY GuardianAssumption DEF GuInv, GuTypeOK, Policy
  <1>4. log'.hard \in 0..TripN /\ CountHard \in 0..TripN /\ CountHard <= log'.hard
    BY <1>2, <1>3, Counts, OneReading
  <1> QED
    BY <1>2, <1>3, <1>4

\* "A one-off spike never nukes your session", "nothing privileged happens unless
\* the owner armed it", and the lid is held "only if the owner asked for it":
\* for any length of a spike, whatever policies are set between two readings or
\* in the middle of a trip, and through crashes at any point (guardian.go).
THEOREM GuardHolds == GuSpec => GuardIsSound
  <1>1. GuInit => GuInv
    BY GuardInitOK
  <1>2. GuInv /\ [GuNext]_guVars => GuInv'
    BY GuardNextOK
  <1>3. GuInv => GuTypeOK
    BY DEF GuInv
  <1>4. GuInv /\ [GuNext]_guVars => [(CheckTrips /\ ~policy.cap) => log'.hot = TripN]_guVars
    BY Spikes
  <1>5. GuInv /\ [GuNext]_guVars => [(guard = GuQuiet /\ guard' = "hardLatch") => log'.hard = TripN]_guVars
    BY Armed
  <1>6. GuInv' => [LidIsAsked']_guVars
    BY DEF GuInv, LidFits
  <1> QED
    BY <1>1, <1>2, <1>3, <1>4, <1>5, <1>6, PTL DEF GuSpec, GuardIsSound, SpikeSpared, PowerOffArmed

-----------------------------------------------------------------------------
\* How far Start is before it has started the three goroutines.
Starting == {"made", "ctx", "spawned", "published", "told"}

Steps == {"idle", "took", "killed", "done"}
Hands == [Closer \cup {Starter} -> [step : Steps, cancel : BOOLEAN, kill : BOOLEAN]]

Flags ==
  /\ cmd \in BOOLEAN /\ mourned \in BOOLEAN /\ piped \in BOOLEAN /\ closed \in BOOLEAN
  /\ ready \in BOOLEAN /\ garbled \in BOOLEAN

Stages ==
  /\ boot \in {"made", "ctx", "spawned", "published", "told", "waiting", "ok", "failing", "failed"}
  /\ ctx \in {"none", "on", "cancelled"} /\ process \in {"none", "up", "ended"}
  /\ writer \in {"off", "on", "gone"} /\ waiter \in {"off", "on", "telling", "told", "gone"}
  /\ reader \in {"off", "on", "passing", "failed", "gone"}

Pipes ==
  /\ sentTurns \in 0..MaxSends /\ said \in 0..MaxSays
  /\ Len(outgoing) <= OutCap /\ Len(eventChan) <= EventCap
  /\ stdin \in Seq(Nat) /\ heard \in Seq(Nat) /\ outgoing \in Seq(Nat)
  /\ stdout \in Seq(Int) /\ eventChan \in Seq(Int) /\ pumped \in Seq(Int) /\ reading \in Int

DrTypes == Flags /\ Stages /\ Pipes /\ closing \in Hands

\* Start goes one way, and what it has not begun is not there.
Booting ==
  /\ boot = "made" => ctx = "none"
  /\ boot # "made" => ctx # "none"
  /\ boot \in {"made", "ctx"} => process = "none"
  /\ boot \in {"made", "ctx", "spawned", "published"} => heard = <<>> /\ stdin = <<>>
  /\ boot \in Starting => writer = "off" /\ reader = "off" /\ waiter = "off"
  /\ boot = "told" => heard # <<>> \/ stdin # <<>>
  /\ boot = "ok" => ready
  /\ \A c \in Closer \cup {Starter} : closing[c].cancel => ctx # "none"

\* What was written, in its order, and what is to be written after it.
Written ==
  LET h == Len(heard)  w == h + Len(stdin)
  IN  /\ \A k \in 1..h : heard[k] = k - 1
      /\ \A k \in 1..Len(stdin) : stdin[k] = h + k - 1
      /\ \A k \in 1..Len(outgoing) : outgoing[k] = sentTurns - Len(outgoing) + k
      /\ w <= sentTurns - Len(outgoing) + 1
      /\ writer = "on" => w > 0
      /\ writer # "gone" /\ w = 0 => sentTurns = Len(outgoing)
      /\ writer # "gone" /\ w > 0 => w = sentTurns - Len(outgoing) + 1

Passed == pumped \o eventChan

InOrder(p, n) ==
    \A k \in DOMAIN p : IsFrame(p[k]) =>
        /\ p[k] \in 1..n
        /\ p[k] = 1 \/ \E j \in 1..(k - 1) : p[j] = p[k] - 1
        /\ \A j \in 1..(k - 1) : IsFrame(p[j]) => p[j] < p[k]

\* What was passed on, and what was read.
Out == {Passed[k] : k \in 1..Len(Passed)}
Read(n) == n = 0 \/ n \in Out \/ (reader = "passing" /\ reading = n)

\* Nothing is left out between what is passed on, what is being passed on and what
\* is to be read, as long as anything is passed on.
Gapless ==
  /\ reader = "passing" /\ reading > 0 => (reading = 1 \/ reading - 1 \in Out) /\ \A n \in Out : n < reading
  /\ \A k \in 1..Len(stdout) : stdout[k] > 0 =>
       /\ Read(stdout[k] - 1) \/ \E j \in 1..(k - 1) : stdout[j] = stdout[k] - 1
       /\ \A j \in 1..(k - 1) : stdout[j] < stdout[k]
       /\ \A n \in Out : n < stdout[k]
       /\ reader = "passing" => reading < stdout[k]
  /\ Read(said) \/ \E k \in 1..Len(stdout) : stdout[k] = said

Bounded ==
  /\ \A k \in 1..Len(stdout) : stdout[k] \in (-1)..said
  /\ reader = "passing" => reading \in (-1)..said /\ reading # 0

Spoken == Bounded /\ (~closed => Gapless)

\* Whoever ends the session ended the process, or heard of its end.
Ended ==
  /\ closed => process = "ended" \/ garbled \/ \E c \in Closer \cup {Starter} : closing[c].step = "done"
  /\ reader = "failed" \/ (reader = "passing" /\ reading = Garbage) => process = "ended" \/ garbled
  /\ ~piped => process = "ended"
  /\ (\E k \in 1..Len(stdout) : stdout[k] = Garbage) => garbled
  /\ waiter \in {"telling", "told"} => process = "ended"
  /\ \A c \in Closer \cup {Starter} :
       closing[c].step \in {"killed", "done"} /\ closing[c].cancel => ctx = "cancelled"
  /\ closing[Starter].step # "idle" => boot \in {"failing", "failed"} /\ closing[Starter].cancel
  /\ boot = "failed" => closing[Starter].step = "done"

\* An answer to initialize is an answer.
Answered ==
  /\ ready => heard # <<>>
  /\ (\E k \in 1..Len(stdout) : stdout[k] = Initialize) => heard # <<>>
  /\ "gone" \in {reader, waiter} => closed

DrInv == DrTypes /\ Booting /\ Written /\ Spoken /\ Ended /\ Answered /\ InOrder(Passed, said) /\ ~crashed

-----------------------------------------------------------------------------
LEMMA DrConcat ==
    ASSUME NEW p \in Seq(Int), NEW q \in Seq(Int)
    PROVE  /\ p \o q \in Seq(Int) /\ Len(p \o q) = Len(p) + Len(q)
           /\ \A i \in 1..(Len(p) + Len(q)) : (p \o q)[i] = IF i <= Len(p) THEN p[i] ELSE q[i - Len(p)]
           /\ \A i \in Int : i \in DOMAIN (p \o q) <=> i \in 1..(Len(p) + Len(q))
BY ConcatProperties

\* Start has not run.
LEMMA DrTypesInit == DrInit => DrTypes
<1> SUFFICES ASSUME DrInit PROVE DrTypes
  OBVIOUS
<1>1. NotClosing \in [step : Steps, cancel : BOOLEAN, kill : BOOLEAN]
  BY DEF NotClosing, Steps
<1>2. closing \in Hands
  BY <1>1, Zenon DEF DrInit, Hands
<1>3. Flags
  BY Zenon DEF DrInit, Flags
<1>4. Pipes
  BY DriverAssumption DEF DrInit, Pipes
<1>5. Stages
  BY DEF DrInit, Stages
<1>q. QED
  BY <1>2, <1>3, <1>4, <1>5, Zenon DEF DrTypes

\* What each step does to what is in the pipes and channels, without the flags.
LEMMA PipeMoves ==
    /\ WritesFrame =>
         \/ writer' = "gone" /\ outgoing' = outgoing /\ stdin' = stdin
         \/ /\ outgoing # <<>> /\ outgoing' = Tail(outgoing)
            /\ (stdin' = Append(stdin, Head(outgoing)) /\ writer' = writer) \/ (stdin' = stdin /\ writer' = "gone")
    /\ ReadsFrame =>
         \/ /\ stdout # <<>> /\ stdout' = Tail(stdout) /\ reading' = Head(stdout)
            /\ (Head(stdout) = Initialize /\ reader' = "on") \/ (Head(stdout) # Initialize /\ reader' = "passing")
         \/ reader' = "gone" /\ stdout' = stdout /\ reading' = reading
         \/ reader' = "passing" /\ reading' = Garbage /\ stdout' = stdout
    /\ \A e : EmitEvent(e) =>
         \/ Len(eventChan) < EventCap /\ eventChan' = Append(eventChan, e)
         \/ eventChan' = eventChan
    /\ Speaks =>
         \/ said < MaxSays /\ said' = said + 1 /\ stdout' = Append(stdout, said + 1) /\ garbled' = garbled
         \/ said' = said /\ garbled' = TRUE /\ stdout' = Append(stdout, Garbage)
<1>1. ASSUME WritesFrame
      PROVE  \/ writer' = "gone" /\ outgoing' = outgoing /\ stdin' = stdin
             \/ /\ outgoing # <<>> /\ outgoing' = Tail(outgoing)
                /\ (stdin' = Append(stdin, Head(outgoing)) /\ writer' = writer) \/ (stdin' = stdin /\ writer' = "gone")
  BY <1>1 DEF WritesFrame, ends
<1>2. ASSUME ReadsFrame
      PROVE  \/ /\ stdout # <<>> /\ stdout' = Tail(stdout) /\ reading' = Head(stdout)
                /\ (Head(stdout) = Initialize /\ reader' = "on") \/ (Head(stdout) # Initialize /\ reader' = "passing")
             \/ reader' = "gone" /\ stdout' = stdout /\ reading' = reading
             \/ reader' = "passing" /\ reading' = Garbage /\ stdout' = stdout
  BY <1>2 DEF ReadsFrame, ReadOver, ends
<1>3. ASSUME NEW e, EmitEvent(e)
      PROVE  (Len(eventChan) < EventCap /\ eventChan' = Append(eventChan, e)) \/ eventChan' = eventChan
  BY <1>3, Zenon DEF EmitEvent, ends
<1>4. ASSUME Speaks
      PROVE  \/ said < MaxSays /\ said' = said + 1 /\ stdout' = Append(stdout, said + 1) /\ garbled' = garbled
             \/ said' = said /\ garbled' = TRUE /\ stdout' = Append(stdout, Garbage)
  BY <1>4, Zenon DEF Speaks
<1>q. QED
  BY <1>1, <1>2, <1>3, <1>4, Zenon

\* Each flag stays one, whatever the step.
LEMMA FlagsOK ==
    ASSUME DrTypes, DrNext
    PROVE  Flags'
<1> USE DEF DrTypes, Flags, pipes, ends
<1>1. CASE MakesContext
  BY <1>1, Zenon DEF MakesContext
<1>2. CASE Spawns
  BY <1>2, Zenon DEF Spawns
<1>3. CASE Publishes
  BY <1>3, Zenon DEF Publishes
<1>4. CASE Initializes
  BY <1>4, Zenon DEF Initializes
<1>5. CASE Waits
  BY <1>5, Zenon DEF Waits
<1>6. CASE StartReturns
  BY <1>6, Zenon DEF StartReturns
<1>7. ASSUME NEW c \in Closer \cup {Starter}, CloseTakes(c)
      PROVE  Flags'
  BY <1>7, Zenon DEF CloseTakes
<1>8. ASSUME NEW c \in Closer \cup {Starter}, Kills(c)
      PROVE  Flags'
  BY <1>8, Zenon DEF Kills
<1>9. ASSUME NEW c \in Closer \cup {Starter}, ShutsDown(c)
      PROVE  Flags'
  BY <1>9, Zenon DEF ShutsDown, DriverShutdown
<1>10. CASE ContextKills
  BY <1>10, Zenon DEF ContextKills
<1>11. CASE Sends
  BY <1>11, Zenon DEF Sends
<1>12. CASE WritesFrame
  BY <1>12, Zenon DEF WritesFrame
<1>13. CASE ReadsFrame
  BY <1>13, Zenon DEF ReadsFrame, ReadOver, DriverShutdown
<1>14. CASE Passes
  BY <1>14, Zenon DEF Passes, EmitEvent
<1>15. CASE Fails
  BY <1>15, Zenon DEF Fails, ReadOver, DriverShutdown
<1>16. CASE Reaps
  BY <1>16, Zenon DEF Reaps
<1>17. CASE TellsWhy
  BY <1>17, Zenon DEF TellsWhy, EmitEvent
<1>18. CASE Follows
  BY <1>18, Zenon DEF Follows, DriverShutdown
<1>19. CASE Pumps
  BY <1>19, Zenon DEF Pumps
<1>20. CASE CliHears
  BY <1>20, Zenon DEF CliHears
<1>21. CASE Speaks
  BY <1>21, Zenon DEF Speaks
<1>22. CASE Quits
  BY <1>22, Zenon DEF Quits
<1>q. QED
  BY <1>1, <1>2, <1>3, <1>4, <1>5, <1>6, <1>7, <1>8, <1>9, <1>10, <1>11, <1>12, <1>13, <1>14, <1>15, <1>16, <1>17, <1>18, <1>19, <1>20, <1>21, <1>22 DEF DrNext

\* Each goroutine, and Start, is at one of its stages.
LEMMA KindsOK ==
    ASSUME DrTypes, DrNext
    PROVE  Stages'
<1> USE DEF DrTypes, Stages, pipes, ends
<1>1. CASE MakesContext
  BY <1>1 DEF MakesContext
<1>2. CASE Spawns
  BY <1>2 DEF Spawns
<1>3. CASE Publishes
  BY <1>3 DEF Publishes
<1>4. CASE Initializes
  BY <1>4 DEF Initializes
<1>5. CASE Waits
  BY <1>5 DEF Waits
<1>6. CASE StartReturns
  BY <1>6 DEF StartReturns
<1>7. ASSUME NEW c \in Closer \cup {Starter}, CloseTakes(c)
      PROVE  Stages'
  BY <1>7 DEF CloseTakes
<1>8. ASSUME NEW c \in Closer \cup {Starter}, Kills(c)
      PROVE  Stages'
  BY <1>8 DEF Kills
<1>9. ASSUME NEW c \in Closer \cup {Starter}, ShutsDown(c)
      PROVE  Stages'
  BY <1>9 DEF ShutsDown, DriverShutdown
<1>10. CASE ContextKills
  BY <1>10 DEF ContextKills
<1>11. CASE Sends
  BY <1>11 DEF Sends
<1>12. CASE WritesFrame
  BY <1>12, PipeMoves DEF WritesFrame
<1>13. CASE ReadsFrame
  BY <1>13, PipeMoves DEF ReadsFrame, ReadOver, DriverShutdown
<1>14. CASE Passes
  BY <1>14 DEF Passes, EmitEvent
<1>15. CASE Fails
  BY <1>15 DEF Fails, ReadOver, DriverShutdown
<1>16. CASE Reaps
  BY <1>16 DEF Reaps
<1>17. CASE TellsWhy
  BY <1>17 DEF TellsWhy, EmitEvent
<1>18. CASE Follows
  BY <1>18 DEF Follows, DriverShutdown
<1>19. CASE Pumps
  BY <1>19 DEF Pumps
<1>20. CASE CliHears
  BY <1>20 DEF CliHears
<1>21. CASE Speaks
  BY <1>21 DEF Speaks
<1>22. CASE Quits
  BY <1>22 DEF Quits
<1>q. QED
  BY <1>1, <1>2, <1>3, <1>4, <1>5, <1>6, <1>7, <1>8, <1>9, <1>10, <1>11, <1>12, <1>13, <1>14, <1>15, <1>16, <1>17, <1>18, <1>19, <1>20, <1>21, <1>22 DEF DrNext

\* A sequence with one more at its end, and one less at its front.
LEMMA Longer ==
    ASSUME NEW S, NEW s \in Seq(S), NEW e \in S
    PROVE  /\ Append(s, e) \in Seq(S) /\ Len(Append(s, e)) = Len(s) + 1 /\ Len(s) \in Nat
           /\ \A k \in 1..(Len(s) + 1) : Append(s, e)[k] = IF k = Len(s) + 1 THEN e ELSE s[k]
           /\ Append(s, e) # <<>>
OBVIOUS

LEMMA Shorter ==
    ASSUME NEW S, NEW s \in Seq(S), s # <<>>
    PROVE  /\ Tail(s) \in Seq(S) /\ Len(Tail(s)) = Len(s) - 1 /\ Len(s) \in Nat \ {0}
           /\ Head(s) \in S /\ Head(s) = s[1]
           /\ \A k \in 1..(Len(s) - 1) : Tail(s)[k] = s[k + 1]
OBVIOUS

\* Frames stay frames, and no channel holds more than it can.
LEMMA PipesOK ==
    ASSUME DrTypes, DrNext
    PROVE  Pipes'
<1> USE DriverAssumption DEF DrTypes, Pipes, pipes, ends, Initialize, Garbage, Why
<1>1. CASE MakesContext
  BY <1>1 DEF MakesContext
<1>2. CASE Spawns
  BY <1>2 DEF Spawns
<1>3. CASE Publishes
  BY <1>3 DEF Publishes
<1>4. CASE Initializes
  <2>1. Append(stdin, 0) \in Seq(Nat)
    BY Longer
  <2>2. stdin' \in Seq(Nat)
    BY <1>4, <2>1 DEF Initializes
  <2>q. QED
    BY <1>4, <2>2 DEF Initializes
<1>5. CASE Waits
  BY <1>5 DEF Waits
<1>6. CASE StartReturns
  BY <1>6 DEF StartReturns
<1>7. ASSUME NEW c \in Closer \cup {Starter}, CloseTakes(c)
      PROVE  Pipes'
  BY <1>7 DEF CloseTakes
<1>8. ASSUME NEW c \in Closer \cup {Starter}, Kills(c)
      PROVE  Pipes'
  BY <1>8 DEF Kills
<1>9. ASSUME NEW c \in Closer \cup {Starter}, ShutsDown(c)
      PROVE  Pipes'
  BY <1>9 DEF ShutsDown, DriverShutdown
<1>10. CASE ContextKills
  BY <1>10 DEF ContextKills
<1>11. CASE Sends
  BY <1>11 DEF Sends
<1>12. CASE WritesFrame
  <2>1. outgoing # <<>> => Append(stdin, Head(outgoing)) \in Seq(Nat) /\ Tail(outgoing) \in Seq(Nat) /\ Len(Tail(outgoing)) <= OutCap
    BY Longer, Shorter
  <2>2. stdin' \in Seq(Nat) /\ outgoing' \in Seq(Nat) /\ Len(outgoing') <= OutCap
    BY <1>12, <2>1, PipeMoves
  <2>q. QED
    BY <1>12, <2>2 DEF WritesFrame
<1>13. CASE ReadsFrame
  <2>1. stdout # <<>> => Head(stdout) \in Int /\ Tail(stdout) \in Seq(Int)
    BY Shorter
  <2>2. \/ stdout # <<>> /\ stdout' = Tail(stdout) /\ reading' = Head(stdout)
        \/ stdout' = stdout /\ reading' \in {reading, -1}
    BY <1>13, PipeMoves, Zenon
  <2>4. stdout' \in Seq(Int) /\ reading' \in Int
    <3>1. stdout' \in Seq(Int)
      BY <2>1, <2>2
    <3>2. reading' \in Int
      BY <2>1, <2>2
    <3>q. QED
      BY <3>1, <3>2
  <2>3. eventChan' = eventChan
    BY <1>13 DEF ReadsFrame, ReadOver, DriverShutdown
  <2>q. QED
    BY <1>13, <2>4, <2>3 DEF ReadsFrame
<1>14. CASE Passes
  <2>1. Append(eventChan, reading) \in Seq(Int) /\ (Len(eventChan) < EventCap => Len(Append(eventChan, reading)) <= EventCap)
    BY Longer
  <2>2. EmitEvent(reading)
    BY <1>14 DEF Passes
  <2>3. eventChan' \in Seq(Int) /\ Len(eventChan') <= EventCap
    BY <2>1, <2>2, PipeMoves
  <2>q. QED
    BY <1>14, <2>3 DEF Passes
<1>15. CASE Fails
  BY <1>15 DEF Fails, ReadOver, DriverShutdown
<1>16. CASE Reaps
  BY <1>16 DEF Reaps
<1>17. CASE TellsWhy
  <2>1. Append(eventChan, Why) \in Seq(Int) /\ (Len(eventChan) < EventCap => Len(Append(eventChan, Why)) <= EventCap)
    BY Longer
  <2>2. EmitEvent(Why)
    BY <1>17 DEF TellsWhy
  <2>3. eventChan' \in Seq(Int) /\ Len(eventChan') <= EventCap
    BY <2>1, <2>2, PipeMoves
  <2>q. QED
    BY <1>17, <2>3 DEF TellsWhy
<1>18. CASE Follows
  BY <1>18 DEF Follows, DriverShutdown
<1>19. CASE Pumps
  BY <1>19 DEF Pumps
<1>20. CASE CliHears
  BY <1>20 DEF CliHears
<1>21. CASE Speaks
  <2>1. Append(stdout, said + 1) \in Seq(Int) /\ Append(stdout, Garbage) \in Seq(Int) /\ (said < MaxSays => said + 1 \in 0..MaxSays)
    BY Longer
  <2>2. stdout' \in Seq(Int) /\ said' \in 0..MaxSays
    BY <1>21, <2>1, PipeMoves
  <2>q. QED
    BY <1>21, <2>2 DEF Speaks
<1>22. CASE Quits
  BY <1>22 DEF Quits
<1>q. QED
  BY <1>1, <1>2, <1>3, <1>4, <1>5, <1>6, <1>7, <1>8, <1>9, <1>10, <1>11, <1>12, <1>13, <1>14, <1>15, <1>16, <1>17, <1>18, <1>19, <1>20, <1>21, <1>22 DEF DrNext

\* Each request to close the session is at one of its steps.
LEMMA HandsOK ==
    ASSUME DrTypes, DrNext
    PROVE  closing' \in Hands
<1> USE DEF DrTypes, Hands, Steps, pipes, ends
<1>1. CASE MakesContext
  BY <1>1 DEF MakesContext
<1>2. CASE Spawns
  BY <1>2 DEF Spawns
<1>3. CASE Publishes
  BY <1>3 DEF Publishes
<1>4. CASE Initializes
  BY <1>4 DEF Initializes
<1>5. CASE Waits
  BY <1>5 DEF Waits
<1>6. CASE StartReturns
  BY <1>6 DEF StartReturns
<1>7. ASSUME NEW c \in Closer \cup {Starter}, CloseTakes(c)
      PROVE  closing' \in Hands
  <2>1. [step |-> "took", cancel |-> ctx # "none", kill |-> cmd] \in [step : Steps, cancel : BOOLEAN, kill : BOOLEAN]
    BY Zenon DEF Flags, Steps
  <2>q. QED
    BY <1>7, <2>1, Zenon DEF CloseTakes
<1>8. ASSUME NEW c \in Closer \cup {Starter}, Kills(c)
      PROVE  closing' \in Hands
  BY <1>8 DEF Kills
<1>9. ASSUME NEW c \in Closer \cup {Starter}, ShutsDown(c)
      PROVE  closing' \in Hands
  BY <1>9 DEF ShutsDown
<1>10. CASE ContextKills
  BY <1>10 DEF ContextKills
<1>11. CASE Sends
  BY <1>11 DEF Sends
<1>12. CASE WritesFrame
  BY <1>12 DEF WritesFrame
<1>13. CASE ReadsFrame
  BY <1>13 DEF ReadsFrame
<1>14. CASE Passes
  BY <1>14 DEF Passes
<1>15. CASE Fails
  BY <1>15 DEF Fails
<1>16. CASE Reaps
  BY <1>16 DEF Reaps
<1>17. CASE TellsWhy
  BY <1>17 DEF TellsWhy
<1>18. CASE Follows
  BY <1>18 DEF Follows
<1>19. CASE Pumps
  BY <1>19 DEF Pumps
<1>20. CASE CliHears
  BY <1>20 DEF CliHears
<1>21. CASE Speaks
  BY <1>21 DEF Speaks
<1>22. CASE Quits
  BY <1>22 DEF Quits
<1>q. QED
  BY <1>1, <1>2, <1>3, <1>4, <1>5, <1>6, <1>7, <1>8, <1>9, <1>10, <1>11, <1>12, <1>13, <1>14, <1>15, <1>16, <1>17, <1>18, <1>19, <1>20, <1>21, <1>22 DEF DrNext

\* Start does things in its order, and what it has not begun is not there.
LEMMA BootingOK ==
    ASSUME DrTypes, Booting, Ended, DrNext
    PROVE  Booting'
<1> USE DEF DrTypes, Stages, Hands, Steps, Booting, Starting, pipes, ends
<1>1. CASE MakesContext
  BY <1>1 DEF MakesContext
<1>2. CASE Spawns
  BY <1>2 DEF Spawns
<1>3. CASE Publishes
  BY <1>3 DEF Publishes
<1>4. CASE Initializes
  BY <1>4 DEF Initializes
<1>5. CASE Waits
  BY <1>5 DEF Waits
<1>6. CASE StartReturns
  BY <1>6 DEF StartReturns
<1>7. ASSUME NEW c \in Closer \cup {Starter}, CloseTakes(c)
      PROVE  Booting'
  BY <1>7 DEF CloseTakes, MayClose
<1>8. ASSUME NEW c \in Closer \cup {Starter}, Kills(c)
      PROVE  Booting'
  <2>1. /\ (closing[c].cancel /\ ctx' = "cancelled") \/ (~closing[c].cancel /\ ctx' = ctx)
        /\ process' = process \/ (process = "up" /\ process' = "ended")
    BY <1>8 DEF Kills
  <2>2. boot = "made" => ctx' = "none"
    BY <2>1
  <2>3. \A d \in Closer \cup {Starter} : closing'[d].cancel => closing[d].cancel
    BY <1>8 DEF Kills
  <2>q. QED
    BY <1>8, <2>1, <2>2, <2>3 DEF Kills
<1>9. ASSUME NEW c \in Closer \cup {Starter}, ShutsDown(c)
      PROVE  Booting'
  <2>1. boot' = boot \/ (boot \in {"failing", "failed"} /\ boot' = "failed")
    BY <1>9 DEF ShutsDown, Ended
  <2>2. \A d \in Closer \cup {Starter} : closing'[d].cancel => closing[d].cancel
    BY <1>9 DEF ShutsDown
  <2>q. QED
    BY <1>9, <2>1, <2>2 DEF ShutsDown
<1>10. CASE ContextKills
  BY <1>10 DEF ContextKills
<1>11. CASE Sends
  BY <1>11 DEF Sends
<1>12. CASE WritesFrame
  BY <1>12 DEF WritesFrame
<1>13. CASE ReadsFrame
  BY <1>13 DEF ReadsFrame, ReadOver, DriverShutdown
<1>14. CASE Passes
  BY <1>14 DEF Passes, EmitEvent
<1>15. CASE Fails
  BY <1>15 DEF Fails, ReadOver, DriverShutdown
<1>16. CASE Reaps
  BY <1>16 DEF Reaps
<1>17. CASE TellsWhy
  BY <1>17 DEF TellsWhy, EmitEvent
<1>18. CASE Follows
  BY <1>18 DEF Follows, DriverShutdown
<1>19. CASE Pumps
  BY <1>19 DEF Pumps
<1>20. CASE CliHears
  BY <1>20 DEF CliHears
<1>21. CASE Speaks
  BY <1>21 DEF Speaks
<1>22. CASE Quits
  BY <1>22 DEF Quits
<1>q. QED
  BY <1>1, <1>2, <1>3, <1>4, <1>5, <1>6, <1>7, <1>8, <1>9, <1>10, <1>11, <1>12, <1>13, <1>14, <1>15, <1>16, <1>17, <1>18, <1>19, <1>20, <1>21, <1>22 DEF DrNext

\* Nobody closes the session without having ended the process or heard of its end.
LEMMA EndedOK ==
    ASSUME DrTypes, Booting, Ended, DrNext
    PROVE  Ended'
<1> USE DEF DrTypes, Stages, Hands, Steps, Booting, Ended, pipes, ends, Garbage
<1>1. CASE MakesContext
  BY <1>1, DriverAssumption DEF MakesContext
<1>2. CASE Spawns
  BY <1>2, DriverAssumption DEF Spawns
<1>3. CASE Publishes
  BY <1>3, DriverAssumption DEF Publishes
<1>4. CASE Initializes
  BY <1>4, DriverAssumption DEF Initializes
<1>5. CASE Waits
  BY <1>5, DriverAssumption DEF Waits
<1>6. CASE StartReturns
  BY <1>6, DriverAssumption DEF StartReturns
<1>7. ASSUME NEW c \in Closer \cup {Starter}, CloseTakes(c)
      PROVE  Ended'
  BY <1>7, DriverAssumption DEF CloseTakes, MayClose
<1>8. ASSUME NEW c \in Closer \cup {Starter}, Kills(c)
      PROVE  Ended'
  BY <1>8, DriverAssumption DEF Kills
<1>9. ASSUME NEW c \in Closer \cup {Starter}, ShutsDown(c)
      PROVE  Ended'
  BY <1>9, DriverAssumption DEF ShutsDown, DriverShutdown
<1>10. CASE ContextKills
  BY <1>10, DriverAssumption DEF ContextKills
<1>11. CASE Sends
  BY <1>11, DriverAssumption DEF Sends
<1>12. CASE WritesFrame
  BY <1>12, DriverAssumption DEF WritesFrame
<1>13. CASE ReadsFrame
  BY <1>13, DriverAssumption DEF ReadsFrame, ReadOver, DriverShutdown
<1>14. CASE Passes
  BY <1>14, DriverAssumption DEF Passes, EmitEvent
<1>15. CASE Fails
  BY <1>15, DriverAssumption DEF Fails, ReadOver, DriverShutdown
<1>16. CASE Reaps
  BY <1>16, DriverAssumption DEF Reaps
<1>17. CASE TellsWhy
  BY <1>17, DriverAssumption DEF TellsWhy, EmitEvent
<1>18. CASE Follows
  BY <1>18, DriverAssumption DEF Follows, DriverShutdown
<1>19. CASE Pumps
  BY <1>19, DriverAssumption DEF Pumps
<1>20. CASE CliHears
  <2>1. (\E k \in 1..Len(stdout') : stdout'[k] = -1) => \E k \in 1..Len(stdout) : stdout[k] = -1
    <3>1. stdout' = stdout \/ stdout' = Append(stdout, 0)
      BY <1>20 DEF CliHears, Initialize
    <3>q. QED
      <4>1. /\ Len(Append(stdout, 0)) = Len(stdout) + 1 /\ Len(stdout) \in Nat
            /\ \A k \in 1..(Len(stdout) + 1) : Append(stdout, 0)[k] = IF k = Len(stdout) + 1 THEN 0 ELSE stdout[k]
        <5>1. stdout \in Seq(Int) /\ 0 \in Int
          BY DEF Pipes
        <5>q. QED
          BY <5>1, Longer
      <4>q. QED
        BY <3>1, <4>1
  <2>q. QED
    BY <1>20, <2>1, DriverAssumption DEF CliHears
<1>21. CASE Speaks
  <2>1. (\E k \in 1..Len(stdout') : stdout'[k] = -1) => garbled' = TRUE \/ \E k \in 1..Len(stdout) : stdout[k] = -1
    <3>1. /\ Len(Append(stdout, said + 1)) = Len(stdout) + 1 /\ Len(stdout) \in Nat /\ said \in Nat
          /\ \A k \in 1..(Len(stdout) + 1) : Append(stdout, said + 1)[k] = IF k = Len(stdout) + 1 THEN said + 1 ELSE stdout[k]
      <4>1. stdout \in Seq(Int) /\ said \in Nat /\ said + 1 \in Int
        BY DriverAssumption DEF Pipes
      <4>q. QED
        BY <4>1, Longer
    <3>2. garbled' = TRUE \/ stdout' = Append(stdout, said + 1)
      BY <1>21, PipeMoves
    <3>q. QED
      BY <3>1, <3>2
  <2>2. garbled => garbled'
    BY <1>21 DEF Speaks
  <2>q. QED
    BY <1>21, <2>1, <2>2, DriverAssumption DEF Speaks
<1>22. CASE Quits
  BY <1>22, DriverAssumption DEF Quits
<1>q. QED
  BY <1>1, <1>2, <1>3, <1>4, <1>5, <1>6, <1>7, <1>8, <1>9, <1>10, <1>11, <1>12, <1>13, <1>14, <1>15, <1>16, <1>17, <1>18, <1>19, <1>20, <1>21, <1>22 DEF DrNext

\* What the CLI has heard, it has heard.
LEMMA HeardMore ==
    ASSUME heard \in Seq(Nat), stdin \in Seq(Nat), stdin # <<>>
    PROVE  Append(heard, Head(stdin)) # <<>>
<1>1. Head(stdin) \in Nat
  OBVIOUS
<1>2. Len(Append(heard, Head(stdin))) = Len(heard) + 1 /\ Len(heard) \in Nat
  BY <1>1
<1>3. \A x : Len(x) > 0 => x # <<>>
  OBVIOUS
<1>q. QED
  BY <1>2, <1>3

\* Ready is only said of a CLI that was asked.
LEMMA AnsweredOK ==
    ASSUME DrTypes, Booting, Answered, DrNext
    PROVE  Answered'
<1> USE DEF DrTypes, Stages, Pipes, Booting, Answered, pipes, ends, Initialize, Garbage
<1>1. CASE MakesContext
  BY <1>1 DEF MakesContext
<1>2. CASE Spawns
  BY <1>2 DEF Spawns
<1>3. CASE Publishes
  BY <1>3 DEF Publishes
<1>4. CASE Initializes
  BY <1>4 DEF Initializes
<1>5. CASE Waits
  BY <1>5 DEF Waits
<1>6. CASE StartReturns
  BY <1>6 DEF StartReturns
<1>7. ASSUME NEW c \in Closer \cup {Starter}, CloseTakes(c)
      PROVE  Answered'
  BY <1>7 DEF CloseTakes, MayClose
<1>8. ASSUME NEW c \in Closer \cup {Starter}, Kills(c)
      PROVE  Answered'
  BY <1>8 DEF Kills
<1>9. ASSUME NEW c \in Closer \cup {Starter}, ShutsDown(c)
      PROVE  Answered'
  BY <1>9 DEF ShutsDown, DriverShutdown
<1>10. CASE ContextKills
  BY <1>10 DEF ContextKills
<1>11. CASE Sends
  BY <1>11 DEF Sends
<1>12. CASE WritesFrame
  BY <1>12 DEF WritesFrame
<1>13. CASE ReadsFrame
  <2>1. stdout' = stdout \/ (stdout # <<>> /\ stdout' = Tail(stdout))
    BY <1>13, PipeMoves
  <2>2. (\E k \in 1..Len(stdout') : stdout'[k] = 0) => \E k \in 1..Len(stdout) : stdout[k] = 0
    <3>1. stdout # <<>> => Len(Tail(stdout)) = Len(stdout) - 1 /\ Len(stdout) \in Nat \ {0} /\ \A k \in 1..(Len(stdout) - 1) : Tail(stdout)[k] = stdout[k + 1]
      BY Shorter
    <3>2. CASE stdout' = stdout
      BY <3>2
    <3>3. CASE stdout # <<>> /\ stdout' = Tail(stdout)
      <4>1. ASSUME NEW k \in 1..Len(stdout'), stdout'[k] = 0
            PROVE  k + 1 \in 1..Len(stdout) /\ stdout[k + 1] = 0
        BY <3>1, <3>3, <4>1
      <4>q. QED
        BY <4>1
    <3>q. QED
      BY <2>1, <3>2, <3>3
  <2>3. ready' => ready \/ \E k \in 1..Len(stdout) : stdout[k] = 0
    <3>1. ready' = ready \/ (stdout # <<>> /\ Head(stdout) = 0)
      BY <1>13 DEF ReadsFrame, ReadOver
    <3>2. stdout # <<>> => 1 \in 1..Len(stdout) /\ Head(stdout) = stdout[1]
      BY Shorter
    <3>q. QED
      BY <3>1, <3>2
  <2>4. heard' = heard /\ waiter' = waiter
    BY <1>13 DEF ReadsFrame
  <2>5. /\ reader' = "gone" => closed'
        /\ closed => closed'
    BY <1>13 DEF ReadsFrame, ReadOver, DriverShutdown
  <2>q. QED
    BY <2>2, <2>3, <2>4, <2>5
<1>14. CASE Passes
  BY <1>14 DEF Passes, EmitEvent
<1>15. CASE Fails
  BY <1>15 DEF Fails, ReadOver, DriverShutdown
<1>16. CASE Reaps
  BY <1>16 DEF Reaps
<1>17. CASE TellsWhy
  BY <1>17 DEF TellsWhy, EmitEvent
<1>18. CASE Follows
  BY <1>18 DEF Follows, DriverShutdown
<1>19. CASE Pumps
  BY <1>19 DEF Pumps
<1>20. CASE CliHears
  <2>1. Append(heard, Head(stdin)) # <<>>
    <3>1. stdin # <<>>
      BY <1>20 DEF CliHears
    <3>q. QED
      BY <3>1, HeardMore
  <2>q. QED
    BY <1>20, <2>1 DEF CliHears
<1>21. CASE Speaks
  BY <1>21 DEF Speaks
<1>22. CASE Quits
  BY <1>22 DEF Quits
<1>q. QED
  BY <1>1, <1>2, <1>3, <1>4, <1>5, <1>6, <1>7, <1>8, <1>9, <1>10, <1>11, <1>12, <1>13, <1>14, <1>15, <1>16, <1>17, <1>18, <1>19, <1>20, <1>21, <1>22 DEF DrNext

\* The frames heard, in stdin and to be written are numbered one after another.
LEMMA WrittenOK ==
    ASSUME DrTypes, Booting, Written, DrNext
    PROVE  Written'
<1> DEFINE h == Len(heard)  m == Len(stdin)  o == Len(outgoing)
<1>0. /\ stdin \in Seq(Nat) /\ heard \in Seq(Nat) /\ outgoing \in Seq(Nat) /\ sentTurns \in Nat
      /\ h \in Nat /\ m \in Nat /\ o \in Nat
  BY DriverAssumption DEF DrTypes, Pipes
<1>1. \/ Initializes \/ Sends \/ WritesFrame \/ CliHears
      \/ UNCHANGED <<heard, stdin, outgoing, sentTurns>> /\ (writer' = writer \/ boot = "told")
  BY DEF DrNext, MakesContext, Spawns, Publishes, Waits, StartReturns, CloseTakes, Kills, ShutsDown, ContextKills,
     ReadsFrame, Passes, Fails, Reaps, TellsWhy, Follows, Pumps, Speaks, Quits, pipes
<1>2. /\ \A k \in 1..h : heard[k] = k - 1
      /\ \A k \in 1..m : stdin[k] = h + k - 1
      /\ \A k \in 1..o : outgoing[k] = sentTurns - o + k
      /\ h + m <= sentTurns - o + 1
      /\ writer = "on" => h + m > 0
      /\ writer # "gone" /\ h + m = 0 => sentTurns = o
      /\ writer # "gone" /\ h + m > 0 => h + m = sentTurns - o + 1
  BY DEF Written
<1>3. ASSUME NEW h2 \in Nat, NEW m2 \in Nat, NEW o2 \in Nat, NEW n2 \in Nat,
             h2 = Len(heard'), m2 = Len(stdin'), o2 = Len(outgoing'), n2 = sentTurns',
             \A k \in 1..h2 : heard'[k] = k - 1,
             \A k \in 1..m2 : stdin'[k] = h2 + k - 1,
             \A k \in 1..o2 : outgoing'[k] = n2 - o2 + k,
             h2 + m2 <= n2 - o2 + 1,
             writer' = "on" => h2 + m2 > 0,
             writer' # "gone" /\ h2 + m2 = 0 => n2 = o2,
             writer' # "gone" /\ h2 + m2 > 0 => h2 + m2 = n2 - o2 + 1
      PROVE  Written'
  BY <1>3 DEF Written
<1> HIDE DEF h, m, o
<1>4. CASE UNCHANGED <<heard, stdin, outgoing, sentTurns>> /\ (writer' = writer \/ boot = "told")
  <2>1. boot = "told" => h + m > 0 /\ writer = "off"
    BY <1>0 DEF Booting, Starting, h, m
  <2>2. Len(heard') = h /\ Len(stdin') = m /\ Len(outgoing') = o
    BY <1>4 DEF h, m, o
  <2>3. /\ writer' = "on" => h + m > 0
        /\ writer' # "gone" /\ h + m = 0 => sentTurns = o
        /\ writer' # "gone" /\ h + m > 0 => h + m = sentTurns - o + 1
    BY <1>4, <2>1, <1>2
  <2>q. QED
    BY <1>0, <1>2, <1>3, <1>4, <2>2, <2>3
<1>5. CASE Initializes
  <2>1. heard = <<>> /\ stdin = <<>> /\ writer = "off" /\ writer' = "off" /\ h = 0 /\ m = 0
    BY <1>5 DEF Initializes, Booting, Starting, h, m
  <2>2. UNCHANGED <<heard, outgoing, sentTurns>> /\ stdin' \in {stdin, Append(stdin, 0)}
    BY <1>5 DEF Initializes, Initialize
  <2>3. Len(Append(stdin, 0)) = 1 /\ Append(stdin, 0)[1] = 0
    BY <2>1
  <2>4. Len(heard') = h /\ Len(outgoing') = o
    BY <2>2 DEF h, o
  <2>5. CASE stdin' = stdin
    <3>1. Len(stdin') = m
      BY <2>5 DEF m
    <3>q. QED
      BY <1>0, <1>2, <1>3, <2>1, <2>2, <2>4, <2>5, <3>1
  <2>6. CASE stdin' = Append(stdin, 0)
    <3>1. Len(stdin') = 1 /\ stdin'[1] = 0
      BY <2>3, <2>6
    <3>2. \A k \in 1..1 : stdin'[k] = h + k - 1
      BY <3>1, <2>1
    <3>q. QED
      BY <1>0, <1>2, <1>3, <2>1, <2>2, <2>4, <3>1, <3>2
  <2>q. QED
    BY <2>2, <2>5, <2>6
<1>6. CASE Sends
  <2>1. UNCHANGED <<heard, stdin, writer>> /\ sentTurns' = sentTurns + 1 /\ outgoing' = Append(outgoing, sentTurns + 1)
    BY <1>6 DEF Sends, pipes
  <2>2. Len(outgoing') = o + 1 /\ \A k \in 1..(o + 1) : outgoing'[k] = IF k = o + 1 THEN sentTurns + 1 ELSE outgoing[k]
    BY <2>1, <1>0, Longer DEF o
  <2>3. \A k \in 1..(o + 1) : outgoing'[k] = (sentTurns + 1) - (o + 1) + k
    <3>1. ASSUME NEW k \in 1..(o + 1)
          PROVE  outgoing'[k] = (sentTurns + 1) - (o + 1) + k
      <4>1. CASE k = o + 1
        BY <4>1, <2>2, <1>0
      <4>2. CASE k # o + 1
        <5>1. k \in 1..o
          BY <4>2, <1>0
        <5>2. outgoing[k] = sentTurns - o + k
          BY <5>1, <1>2
        <5>q. QED
          BY <4>2, <5>1, <5>2, <2>2, <1>0
      <4>q. QED
        BY <4>1, <4>2
    <3>q. QED
      BY <3>1
  <2>4. Len(heard') = h /\ Len(stdin') = m
    BY <2>1 DEF h, m
  <2>5. /\ \A k \in 1..h : heard'[k] = k - 1
        /\ \A k \in 1..m : stdin'[k] = h + k - 1
    BY <1>2, <2>1
  <2>6. /\ o + 1 \in Nat /\ sentTurns + 1 \in Nat /\ h + m <= (sentTurns + 1) - (o + 1) + 1
        /\ writer' = "on" => h + m > 0
        /\ writer' # "gone" /\ h + m = 0 => sentTurns + 1 = o + 1
        /\ writer' # "gone" /\ h + m > 0 => h + m = (sentTurns + 1) - (o + 1) + 1
    BY <1>0, <1>2, <2>1
  <2>31. \A k \in 1..Len(heard') : heard'[k] = k - 1
    BY <2>1, <2>2, <2>3, <2>4, <2>5
  <2>32. \A k \in 1..Len(stdin') : stdin'[k] = Len(heard') + k - 1
    BY <2>1, <2>2, <2>3, <2>4, <2>5
  <2>33. \A k \in 1..Len(outgoing') : outgoing'[k] = sentTurns' - Len(outgoing') + k
    BY <2>1, <2>2, <2>3, <2>4, <2>5
  <2>34. /\ Len(heard') + Len(stdin') <= sentTurns' - Len(outgoing') + 1
         /\ writer' = "on" => Len(heard') + Len(stdin') > 0
         /\ writer' # "gone" /\ Len(heard') + Len(stdin') = 0 => sentTurns' = Len(outgoing')
         /\ writer' # "gone" /\ Len(heard') + Len(stdin') > 0 => Len(heard') + Len(stdin') = sentTurns' - Len(outgoing') + 1
    BY <1>0, <2>1, <2>2, <2>4, <2>6
  <2>q. QED
    BY <2>31, <2>32, <2>33, <2>34, Zenon DEF Written
<1>7. CASE WritesFrame
  <2>1. UNCHANGED <<heard, sentTurns>> /\ writer = "on"
    BY <1>7 DEF WritesFrame
  <2>2. CASE writer' = "gone" /\ outgoing' = outgoing /\ stdin' = stdin
    <3>1. Len(heard') = h /\ Len(stdin') = m /\ Len(outgoing') = o
      BY <2>1, <2>2 DEF h, m, o
    <3>q. QED
      BY <1>0, <1>2, <1>3, <2>1, <2>2, <3>1
  <2>3. ASSUME outgoing # <<>>, outgoing' = Tail(outgoing)
        PROVE  /\ Len(outgoing') = o - 1 /\ o > 0 /\ Head(outgoing) = outgoing[1] /\ Head(outgoing) \in Nat
               /\ \A k \in 1..(o - 1) : outgoing'[k] = outgoing[k + 1]
               /\ \A k \in 1..(o - 1) : outgoing'[k] = sentTurns - (o - 1) + k
               /\ Head(outgoing) = sentTurns - o + 1 /\ o - 1 \in Nat
    <3>1. /\ Len(outgoing') = o - 1 /\ o \in Nat \ {0} /\ Head(outgoing) = outgoing[1] /\ Head(outgoing) \in Nat
          /\ \A k \in 1..(o - 1) : outgoing'[k] = outgoing[k + 1]
      BY <2>3, <1>0, Shorter DEF o
    <3>2. \A k \in 1..(o - 1) : outgoing'[k] = sentTurns - (o - 1) + k
      <4>1. ASSUME NEW k \in 1..(o - 1)
            PROVE  outgoing'[k] = sentTurns - (o - 1) + k
        <5>1. k + 1 \in 1..o
          BY <3>1
        <5>2. outgoing[k + 1] = sentTurns - o + (k + 1)
          BY <5>1, <1>2
        <5>q. QED
          BY <3>1, <5>2, <1>0
      <4>q. QED
        BY <4>1
    <3>3. 1 \in 1..o
      BY <3>1
    <3>q. QED
      BY <3>1, <3>2, <3>3, <1>2
  <2>4. CASE outgoing # <<>> /\ outgoing' = Tail(outgoing) /\ stdin' = stdin /\ writer' = "gone"
    <3>1. Len(heard') = h /\ Len(stdin') = m
      BY <2>1, <2>4 DEF h, m
    <3>2. h + m <= sentTurns - (o - 1) + 1
      BY <1>0, <1>2
    <3>q. QED
      BY <1>0, <1>2, <1>3, <2>1, <2>3, <2>4, <3>1, <3>2
  <2>5. CASE outgoing # <<>> /\ outgoing' = Tail(outgoing) /\ stdin' = Append(stdin, Head(outgoing)) /\ writer' = writer
    <3>1. Len(stdin') = m + 1 /\ \A k \in 1..(m + 1) : stdin'[k] = IF k = m + 1 THEN Head(outgoing) ELSE stdin[k]
      <4>1. ASSUME NEW e \in Nat
            PROVE  Len(Append(stdin, e)) = m + 1 /\ \A k \in 1..(m + 1) : Append(stdin, e)[k] = IF k = m + 1 THEN e ELSE stdin[k]
        BY <1>0, Longer DEF m
      <4>q. QED
        BY <2>3, <2>5, <4>1
    <3>2. h + m = sentTurns - o + 1 /\ Head(outgoing) = h + m
      BY <2>1, <2>3, <2>5, <1>2
    <3>3. \A k \in 1..(m + 1) : stdin'[k] = h + k - 1
      <4>1. ASSUME NEW k \in 1..(m + 1)
            PROVE  stdin'[k] = h + k - 1
        <5>1. CASE k = m + 1
          BY <5>1, <3>1, <3>2, <1>0
        <5>2. CASE k # m + 1
          <6>1. k \in 1..m
            BY <5>2, <1>0
          <6>2. stdin[k] = h + k - 1
            BY <6>1, <1>2
          <6>q. QED
            BY <5>2, <6>2, <3>1
        <5>q. QED
          BY <5>1, <5>2
      <4>q. QED
        BY <4>1
    <3>4. Len(heard') = h
      BY <2>1 DEF h
    <3>5. h + (m + 1) = sentTurns - (o - 1) + 1 /\ m + 1 \in Nat /\ h + (m + 1) > 0
      BY <3>2, <1>0
    <3>31. \A k \in 1..Len(heard') : heard'[k] = k - 1
      BY <1>0, <1>2, <2>1, <2>3, <2>5, <3>1, <3>3, <3>4
    <3>32. \A k \in 1..Len(stdin') : stdin'[k] = Len(heard') + k - 1
      BY <1>0, <1>2, <2>1, <2>3, <2>5, <3>1, <3>3, <3>4
    <3>33. \A k \in 1..Len(outgoing') : outgoing'[k] = sentTurns' - Len(outgoing') + k
      BY <1>0, <1>2, <2>1, <2>3, <2>5, <3>1, <3>3, <3>4
    <3>34. /\ Len(heard') + Len(stdin') <= sentTurns' - Len(outgoing') + 1
           /\ writer' = "on" => Len(heard') + Len(stdin') > 0
           /\ writer' # "gone" /\ Len(heard') + Len(stdin') = 0 => sentTurns' = Len(outgoing')
           /\ writer' # "gone" /\ Len(heard') + Len(stdin') > 0 => Len(heard') + Len(stdin') = sentTurns' - Len(outgoing') + 1
      <4>1. Len(heard') = h /\ Len(stdin') = m + 1 /\ Len(outgoing') = o - 1 /\ sentTurns' = sentTurns /\ writer' = "on"
        BY <2>1, <2>3, <2>5, <3>1, <3>4
      <4>q. QED
        BY <1>0, <4>1, <3>5
    <3>q. QED
      BY <3>31, <3>32, <3>33, <3>34, Zenon DEF Written
  <2>q. QED
    BY <1>7, <2>2, <2>4, <2>5, PipeMoves
<1>8. CASE CliHears
  <2>1. UNCHANGED <<outgoing, sentTurns, writer>> /\ stdin # <<>> /\ stdin' = Tail(stdin) /\ heard' = Append(heard, Head(stdin))
    BY <1>8 DEF CliHears
  <2>2. /\ Len(stdin') = m - 1 /\ m \in Nat \ {0} /\ Head(stdin) = stdin[1] /\ Head(stdin) \in Nat
        /\ \A k \in 1..(m - 1) : stdin'[k] = stdin[k + 1]
    BY <2>1, <1>0, Shorter DEF m
  <2>3. Len(heard') = h + 1 /\ \A k \in 1..(h + 1) : heard'[k] = IF k = h + 1 THEN stdin[1] ELSE heard[k]
    <3>1. ASSUME NEW e \in Nat
          PROVE  Len(Append(heard, e)) = h + 1 /\ \A k \in 1..(h + 1) : Append(heard, e)[k] = IF k = h + 1 THEN e ELSE heard[k]
      BY <1>0, Longer DEF h
    <3>q. QED
      BY <2>1, <2>2, <3>1
  <2>4. 1 \in 1..m /\ stdin[1] = h
    BY <2>2, <1>0, <1>2
  <2>5. \A k \in 1..(h + 1) : heard'[k] = k - 1
    <3>1. ASSUME NEW k \in 1..(h + 1)
          PROVE  heard'[k] = k - 1
      <4>1. CASE k = h + 1
        BY <4>1, <2>3, <2>4, <1>0
      <4>2. CASE k # h + 1
        <5>1. k \in 1..h
          BY <4>2, <1>0
        <5>2. heard[k] = k - 1
          BY <5>1, <1>2
        <5>q. QED
          BY <4>2, <5>2, <2>3
      <4>q. QED
        BY <4>1, <4>2
    <3>q. QED
      BY <3>1
  <2>6. ASSUME NEW k \in 1..(m - 1)
        PROVE  stdin'[k] = (h + 1) + k - 1
    <3>1. k + 1 \in 1..m
      BY <2>2
    <3>2. stdin[k + 1] = h + (k + 1) - 1
      BY <3>1, <1>2
    <3>q. QED
      BY <2>2, <3>2, <1>0
  <2>7. Len(outgoing') = o
    BY <2>1 DEF o
  <2>8. h + 1 \in Nat /\ m - 1 \in Nat /\ (h + 1) + (m - 1) = h + m
    BY <2>2, <1>0
  <2>31. \A k \in 1..Len(heard') : heard'[k] = k - 1
    BY <1>2, <2>1, <2>2, <2>3, <2>5, <2>6, <2>7
  <2>32. \A k \in 1..Len(stdin') : stdin'[k] = Len(heard') + k - 1
    BY <1>2, <2>1, <2>2, <2>3, <2>5, <2>6, <2>7
  <2>33. \A k \in 1..Len(outgoing') : outgoing'[k] = sentTurns' - Len(outgoing') + k
    BY <1>2, <2>1, <2>2, <2>3, <2>5, <2>6, <2>7
  <2>34. /\ Len(heard') + Len(stdin') <= sentTurns' - Len(outgoing') + 1
         /\ writer' = "on" => Len(heard') + Len(stdin') > 0
         /\ writer' # "gone" /\ Len(heard') + Len(stdin') = 0 => sentTurns' = Len(outgoing')
         /\ writer' # "gone" /\ Len(heard') + Len(stdin') > 0 => Len(heard') + Len(stdin') = sentTurns' - Len(outgoing') + 1
    BY <1>0, <1>2, <2>1, <2>2, <2>3, <2>7, <2>8
  <2>q. QED
    BY <2>31, <2>32, <2>33, <2>34, Zenon DEF Written
<1>q. QED
  BY <1>1, <1>4, <1>5, <1>6, <1>7, <1>8

\* What was passed on in order stays so as the CLI says more, and as the next is passed on.
LEMMA InOrderKept ==
    ASSUME NEW p, NEW n \in Nat, NEW m \in Nat, n <= m, InOrder(p, n)
    PROVE  InOrder(p, m)
BY DEF InOrder

LEMMA InOrderMore ==
    ASSUME NEW p \in Seq(Int), NEW n \in Nat, InOrder(p, n), NEW e \in Int,
           IsFrame(e) => /\ e \in 1..n /\ (e = 1 \/ \E j \in 1..Len(p) : p[j] = e - 1)
                         /\ \A j \in 1..Len(p) : p[j] < e
    PROVE  InOrder(Append(p, e), n)
<1> DEFINE q == Append(p, e)
<1>1. /\ Len(p) \in Nat /\ DOMAIN q = 1..(Len(p) + 1) /\ DOMAIN p = 1..Len(p)
      /\ \A k \in 1..(Len(p) + 1) : q[k] = IF k = Len(p) + 1 THEN e ELSE p[k]
  BY Longer
<1> HIDE DEF q
<1>2. ASSUME NEW k \in 1..Len(p), IsFrame(q[k])
      PROVE  /\ q[k] \in 1..n /\ (q[k] = 1 \/ \E j \in 1..(k - 1) : q[j] = q[k] - 1)
             /\ \A j \in 1..(k - 1) : IsFrame(q[j]) => q[j] < q[k]
  <2>1. \A j \in 1..k : q[j] = p[j]
    BY <1>1
  <2>q. QED
    <3>1. k \in DOMAIN p /\ IsFrame(p[k]) /\ q[k] = p[k] /\ \A j \in 1..(k - 1) : q[j] = p[j]
      BY <1>1, <1>2, <2>1
    <3>2. /\ p[k] \in 1..n /\ (p[k] = 1 \/ \E j \in 1..(k - 1) : p[j] = p[k] - 1)
          /\ \A j \in 1..(k - 1) : IsFrame(p[j]) => p[j] < p[k]
      BY <3>1 DEF InOrder
    <3>q. QED
      BY <3>1, <3>2
<1>3. ASSUME NEW k, k = Len(p) + 1, IsFrame(q[k])
      PROVE  /\ q[k] \in 1..n /\ (q[k] = 1 \/ \E j \in 1..(k - 1) : q[j] = q[k] - 1)
             /\ \A j \in 1..(k - 1) : IsFrame(q[j]) => q[j] < q[k]
  BY <1>1, <1>3
<1>4. InOrder(q, n)
  BY <1>1, <1>2, <1>3 DEF InOrder
<1>q. QED
  BY <1>4 DEF q

\* What was passed on changes only where the driver emits.
LEMMA PassedAs ==
    ASSUME DrTypes
    PROVE  /\ Passed \in Seq(Int) /\ Len(Passed) \in Nat /\ DOMAIN Passed = 1..Len(Passed) /\ Out \subseteq Int
           /\ \A e \in Int : pumped \o Append(eventChan, e) = Append(Passed, e)
           /\ eventChan # <<>> => Append(pumped, Head(eventChan)) \o Tail(eventChan) = Passed
<1>1. pumped \in Seq(Int) /\ eventChan \in Seq(Int)
  BY DEF DrTypes, Pipes
<1>2. Passed \in Seq(Int) /\ Len(Passed) \in Nat /\ DOMAIN Passed = 1..Len(Passed)
  BY <1>1, ConcatProperties, LenProperties DEF Passed
<1>3. Out \subseteq Int
  BY <1>2 DEF Out
<1>4. ASSUME NEW p \in Seq(Int), NEW q \in Seq(Int), NEW e \in Int
      PROVE  p \o Append(q, e) = Append(p \o q, e)
  <2>1. Append(q, e) \in Seq(Int) /\ Len(Append(q, e)) = Len(q) + 1 /\ Len(q) \in Nat
        /\ \A k \in 1..(Len(q) + 1) : Append(q, e)[k] = IF k = Len(q) + 1 THEN e ELSE q[k]
    BY Longer
  <2> DEFINE r == Append(q, e)  s == p \o q
  <2>2. s \in Seq(Int) /\ Len(s) = Len(p) + Len(q) /\ Len(p) \in Nat
        /\ \A i \in 1..(Len(p) + Len(q)) : s[i] = IF i <= Len(p) THEN p[i] ELSE q[i - Len(p)]
    BY DrConcat
  <2>3. Append(s, e) \in Seq(Int) /\ Len(Append(s, e)) = Len(s) + 1
        /\ \A k \in 1..(Len(s) + 1) : Append(s, e)[k] = IF k = Len(s) + 1 THEN e ELSE s[k]
    BY <2>2, Longer
  <2> HIDE DEF r
  <2>4. p \o r \in Seq(Int) /\ Len(p \o r) = Len(p) + Len(r)
        /\ \A i \in 1..(Len(p) + Len(r)) : (p \o r)[i] = IF i <= Len(p) THEN p[i] ELSE r[i - Len(p)]
    BY <2>1, DrConcat DEF r
  <2>5. Len(r) = Len(q) + 1 /\ \A k \in 1..(Len(q) + 1) : r[k] = IF k = Len(q) + 1 THEN e ELSE q[k]
    BY <2>1 DEF r
  <2> DEFINE a == Append(s, e)  b == p \o r
  <2>6. a \in Seq(Int) /\ b \in Seq(Int) /\ Len(a) = Len(b)
    BY <2>2, <2>3, <2>4, <2>5
  <2>9. Len(a) = Len(s) + 1 /\ \A k \in 1..(Len(s) + 1) : a[k] = IF k = Len(s) + 1 THEN e ELSE s[k]
    BY <2>3
  <2>10. \A i \in 1..(Len(p) + Len(r)) : b[i] = IF i <= Len(p) THEN p[i] ELSE r[i - Len(p)]
    BY <2>4
  <2>11. Len(p) \in Nat /\ Len(q) \in Nat /\ Len(s) = Len(p) + Len(q)
    BY <2>1, <2>2
  <2>12. \A i \in 1..(Len(p) + Len(q)) : s[i] = IF i <= Len(p) THEN p[i] ELSE q[i - Len(p)]
    BY <2>2
  <2> HIDE DEF a, b, s
  <2>7. ASSUME NEW i \in 1..Len(a)
        PROVE  a[i] = b[i]
    <3>1. CASE i <= Len(p)
      <4>1. i \in 1..(Len(p) + Len(r)) /\ i \in 1..(Len(p) + Len(q)) /\ i \in 1..(Len(s) + 1) /\ i # Len(s) + 1
        BY <2>5, <2>9, <2>11, <3>1
      <4>2. a[i] = s[i] /\ b[i] = p[i]
        BY <2>9, <2>10, <3>1, <4>1
      <4>3. s[i] = p[i]
        BY <2>12, <3>1, <4>1
      <4>q. QED
        BY <4>2, <4>3
    <3>2. CASE i > Len(p) /\ i <= Len(s)
      <4>1. i - Len(p) \in 1..Len(q) /\ i # Len(s) + 1 /\ i \in 1..(Len(p) + Len(r))
        BY <2>5, <2>9, <2>11, <3>2
      <4>2. b[i] = r[i - Len(p)] /\ r[i - Len(p)] = q[i - Len(p)]
        <5>1. ~(i <= Len(p)) /\ i - Len(p) \in 1..(Len(q) + 1) /\ i - Len(p) # Len(q) + 1
          BY <2>11, <3>2, <4>1
        <5>2. b[i] = r[i - Len(p)]
          BY <2>10, <4>1, <5>1
        <5>3. r[i - Len(p)] = q[i - Len(p)]
          BY <2>5, <5>1
        <5>q. QED
          BY <5>2, <5>3
      <4>q. QED
        BY <2>9, <2>11, <2>12, <3>2, <4>1, <4>2
    <3>3. CASE i = Len(s) + 1
      <4>1. i - Len(p) = Len(q) + 1 /\ i \in 1..(Len(p) + Len(r)) /\ ~(i <= Len(p))
        BY <2>5, <2>9, <2>11, <3>3
      <4>q. QED
        BY <2>5, <2>9, <2>10, <2>11, <3>3, <4>1
    <3>q. QED
      BY <2>9, <2>11, <3>1, <3>2, <3>3
  <2>8. a = b
    BY <2>6, <2>7, SeqEqual
  <2>q. QED
    BY <2>8 DEF a, b, s, r
<1>5. ASSUME NEW p \in Seq(Int), NEW q \in Seq(Int), q # <<>>
      PROVE  Append(p, Head(q)) \o Tail(q) = p \o q
  <2> DEFINE u == Append(p, Head(q))  v == Tail(q)
  <2>1. v \in Seq(Int) /\ Len(v) = Len(q) - 1 /\ Len(q) \in Nat \ {0} /\ Head(q) \in Int /\ Head(q) = q[1]
        /\ \A k \in 1..(Len(q) - 1) : v[k] = q[k + 1]
    BY <1>5, Shorter
  <2>2. u \in Seq(Int) /\ Len(u) = Len(p) + 1 /\ Len(p) \in Nat
        /\ \A k \in 1..(Len(p) + 1) : u[k] = IF k = Len(p) + 1 THEN q[1] ELSE p[k]
    <3>1. ASSUME NEW e \in Int
          PROVE  /\ Append(p, e) \in Seq(Int) /\ Len(Append(p, e)) = Len(p) + 1 /\ Len(p) \in Nat
                 /\ \A k \in 1..(Len(p) + 1) : Append(p, e)[k] = IF k = Len(p) + 1 THEN e ELSE p[k]
      BY Longer
    <3>2. Head(q) \in Int /\ Head(q) = q[1]
      BY <2>1
    <3>q. QED
      BY <3>1, <3>2, Zenon
  <2> HIDE DEF u, v
  <2> DEFINE a == u \o v  b == p \o q
  <2>3. a \in Seq(Int) /\ Len(a) = Len(u) + Len(v)
        /\ \A i \in 1..(Len(u) + Len(v)) : a[i] = IF i <= Len(u) THEN u[i] ELSE v[i - Len(u)]
    BY <2>1, <2>2, DrConcat
  <2>4. b \in Seq(Int) /\ Len(b) = Len(p) + Len(q)
        /\ \A i \in 1..(Len(p) + Len(q)) : b[i] = IF i <= Len(p) THEN p[i] ELSE q[i - Len(p)]
    BY DrConcat
  <2> HIDE DEF a, b
  <2>5. Len(a) = Len(b)
    BY <2>1, <2>2, <2>3, <2>4
  <2>6. ASSUME NEW i \in 1..Len(a)
        PROVE  a[i] = b[i]
    <3>1. Len(p) \in Nat /\ Len(q) \in Nat /\ Len(u) = Len(p) + 1 /\ Len(v) = Len(q) - 1 /\ Len(q) > 0 /\ i \in 1..(Len(p) + Len(q))
      BY <2>1, <2>2, <2>3, <2>6
    <3>2. CASE i <= Len(p)
      <4>1. i \in 1..(Len(u) + Len(v)) /\ i <= Len(u) /\ i \in 1..(Len(p) + 1) /\ i # Len(p) + 1
        BY <3>1, <3>2
      <4>2. a[i] = u[i] /\ b[i] = p[i]
        BY <2>3, <2>4, <3>1, <3>2, <4>1
      <4>3. u[i] = p[i]
        BY <2>2, <4>1
      <4>q. QED
        BY <4>2, <4>3
    <3>3. CASE i = Len(p) + 1
      <4>1. i - Len(p) = 1 /\ i \in 1..(Len(u) + Len(v)) /\ ~(i <= Len(p))
        BY <3>1, <3>3
      <4>q. QED
        <5>1. i <= Len(u) /\ i \in 1..(Len(p) + 1)
          BY <3>1, <3>3
        <5>2. a[i] = u[i]
          BY <2>3, <4>1, <5>1
        <5>3. u[i] = q[1]
          BY <2>2, <3>3, <5>1
        <5>4. b[i] = q[i - Len(p)]
          BY <2>4, <3>1, <4>1
        <5>q. QED
          BY <4>1, <5>2, <5>3, <5>4
    <3>4. CASE i > Len(p) + 1
      <4>1. i - Len(u) \in 1..(Len(q) - 1) /\ (i - Len(u)) + 1 = i - Len(p) /\ i \in 1..(Len(u) + Len(v)) /\ ~(i <= Len(p)) /\ ~(i <= Len(u))
        BY <3>1, <3>4
      <4>2. a[i] = v[i - Len(u)] /\ v[i - Len(u)] = q[(i - Len(u)) + 1]
        BY <2>1, <2>3, <4>1
      <4>q. QED
        BY <2>4, <3>1, <4>1, <4>2
    <3>q. QED
      BY <3>1, <3>2, <3>3, <3>4
  <2>7. a = b
    BY <2>3, <2>4, <2>5, <2>6, SeqEqual
  <2>q. QED
    BY <2>7 DEF a, b, u, v
<1>q. QED
  BY <1>1, <1>2, <1>3, <1>4, <1>5 DEF Passed

\* What was passed on was said.
LEMMA OutFacts ==
    ASSUME DrTypes, InOrder(Passed, said)
    PROVE  /\ \A n \in Out : n <= said
           /\ \A e \in Int : (Passed' = Append(Passed, e)) => Out' = Out \cup {e}
           /\ Passed' = Passed => Out' = Out
           /\ \A k \in 1..Len(Passed) : Passed[k] \in Out
           /\ \A n \in Out : \E k \in 1..Len(Passed) : Passed[k] = n
<1>1. Passed \in Seq(Int) /\ Len(Passed) \in Nat /\ DOMAIN Passed = 1..Len(Passed) /\ said \in Nat
  <2>1. said \in Nat
    BY DriverAssumption DEF DrTypes, Pipes
  <2>q. QED
    BY <2>1, PassedAs, Zenon
<1>2. ASSUME NEW k \in 1..Len(Passed)
      PROVE  Passed[k] <= said
  <2>1. CASE IsFrame(Passed[k])
    BY <1>1, <2>1 DEF InOrder
  <2>2. CASE ~IsFrame(Passed[k])
    BY <1>1, <2>2 DEF IsFrame, Garbage, Why
  <2>q. QED
    BY <2>1, <2>2
<1>3. ASSUME NEW e \in Int, Passed' = Append(Passed, e)
      PROVE  Out' = Out \cup {e}
  <2>1. Len(Passed') = Len(Passed) + 1 /\ \A k \in 1..(Len(Passed) + 1) : Passed'[k] = IF k = Len(Passed) + 1 THEN e ELSE Passed[k]
    BY <1>1, <1>3, Longer
  <2>2. ASSUME NEW n \in Out'
        PROVE  n \in Out \cup {e}
    <3>1. PICK k \in 1..(Len(Passed) + 1) : n = Passed'[k]
      BY <2>1 DEF Out
    <3>2. CASE k = Len(Passed) + 1
      BY <2>1, <3>1, <3>2
    <3>3. CASE k # Len(Passed) + 1
      <4>1. k \in 1..Len(Passed) /\ n = Passed[k]
        BY <1>1, <2>1, <3>1, <3>3
      <4>q. QED
        BY <4>1 DEF Out
    <3>q. QED
      BY <3>2, <3>3
  <2>3. ASSUME NEW n \in Out
        PROVE  n \in Out'
    <3>1. PICK k \in 1..Len(Passed) : n = Passed[k]
      BY DEF Out
    <3>2. k \in 1..(Len(Passed) + 1) /\ k # Len(Passed) + 1
      BY <1>1
    <3>3. k \in 1..Len(Passed') /\ n = Passed'[k]
      BY <2>1, <3>1, <3>2
    <3>q. QED
      BY <3>3 DEF Out
  <2>4. e \in Out'
    <3>1. Len(Passed) + 1 \in 1..Len(Passed') /\ Passed'[Len(Passed) + 1] = e
      BY <1>1, <2>1
    <3>q. QED
      BY <3>1 DEF Out
  <2>q. QED
    BY <2>2, <2>3, <2>4
<1>4. Passed' = Passed => Out' = Out
  BY DEF Out
<1>q. QED
  BY <1>2, <1>3, <1>4 DEF Out

\* A step that does not touch what the process said, or only closes the session.
LEMMA SpokenAsBefore ==
    ASSUME DrTypes, Spoken, UNCHANGED <<stdout, said, reading>>, Out' = Out,
           reader' = reader \/ (reader # "passing" /\ reader' # "passing"),
           closed => closed'
    PROVE  Spoken'
<1>1. \A n : Read(n)' <=> Read(n)
  BY DEF Read
<1>2. Bounded'
  BY DEF Spoken, Bounded
<1>3. ASSUME Gapless
      PROVE  Gapless'
  BY <1>1, <1>3 DEF Gapless
<1>q. QED
  BY <1>2, <1>3 DEF Spoken

\* Nothing is left out by a step that takes nothing from stdout.
LEMMA GaplessKept ==
    ASSUME DrTypes, Gapless, stdout' = stdout, said' = said, \A n \in Nat : Read(n) => Read(n)',
           reader' = "passing" /\ reading' > 0 => (reading' = 1 \/ reading' - 1 \in Out') /\ \A n \in Out' : n < reading',
           \A k \in 1..Len(stdout) : stdout[k] > 0 =>
              (\A n \in Out' : n < stdout[k]) /\ (reader' = "passing" => reading' < stdout[k])
    PROVE  Gapless'
<1>1. stdout \in Seq(Int) /\ said \in Nat /\ Len(stdout) \in Nat
  BY DriverAssumption DEF DrTypes, Pipes
<1>2. ASSUME NEW k \in 1..Len(stdout), stdout[k] > 0
      PROVE  /\ Read(stdout[k] - 1)' \/ \E j \in 1..(k - 1) : stdout[j] = stdout[k] - 1
             /\ \A j \in 1..(k - 1) : stdout[j] < stdout[k]
  <2>1. stdout[k] \in Int
    BY <1>1
  <2>2. stdout[k] - 1 \in Nat
    BY <1>2, <2>1
  <2>3. /\ Read(stdout[k] - 1) \/ \E j \in 1..(k - 1) : stdout[j] = stdout[k] - 1
        /\ \A j \in 1..(k - 1) : stdout[j] < stdout[k]
    BY <1>2 DEF Gapless
  <2>4. ASSUME NEW n \in Nat, n = stdout[k] - 1, Read(stdout[k] - 1)
        PROVE  Read(stdout[k] - 1)'
    <3>1. Read(n)
      BY <2>4
    <3>2. Read(n)'
      BY <3>1
    <3>q. QED
      BY <3>2, <2>4 DEF Read
  <2>q. QED
    BY <2>2, <2>3, <2>4
<1>3. Read(said)' \/ \E k \in 1..Len(stdout) : stdout[k] = said
  <2>1. ASSUME NEW n \in Nat, n = said, Read(said)
        PROVE  Read(said)'
    <3>1. Read(n)
      BY <2>1
    <3>2. Read(n)'
      BY <3>1
    <3>q. QED
      BY <3>2, <2>1 DEF Read
  <2>q. QED
    BY <2>1, <1>1 DEF Gapless
<1>q. QED
  BY <1>2, <1>3 DEF Gapless

\* What is said next is the next, or nothing that counts.
LEMMA SpokenMore ==
    ASSUME DrTypes, Bounded, \A n \in Out : n <= said, UNCHANGED <<reader, reading>>, Out' = Out,
           NEW e \in Int, stdout' = Append(stdout, e),
           (e \in {0, -1} /\ said' = said) \/ (e = said + 1 /\ said' = said + 1)
    PROVE  Bounded' /\ (Gapless => Gapless')
<1> DEFINE l == Len(stdout)  New(n) == n = 0 \/ n \in Out' \/ (reader' = "passing" /\ reading' = n)
<1>1. stdout \in Seq(Int) /\ said \in Nat /\ l \in Nat
  BY DriverAssumption DEF DrTypes, Pipes
<1>2. Len(stdout') = l + 1 /\ \A k \in 1..(l + 1) : stdout'[k] = IF k = l + 1 THEN e ELSE stdout[k]
  BY <1>1, Longer
<1>3. said' \in Nat /\ said <= said' /\ e <= said' /\ -1 <= e
  BY <1>1
<1>4. \A k \in 1..l : stdout[k] \in (-1)..said /\ k \in 1..(l + 1) /\ stdout'[k] = stdout[k]
  BY <1>1, <1>2 DEF Bounded
<1>5. l + 1 \in 1..(l + 1) /\ stdout'[l + 1] = e /\ \A k \in 1..(l + 1) : k \in 1..l \/ k = l + 1
  BY <1>1, <1>2
<1>6. Bounded'
  <2>1. ASSUME NEW k \in 1..(l + 1)
        PROVE  stdout'[k] \in (-1)..said'
    BY <1>1, <1>3, <1>4, <1>5
  <2>2. reader' = "passing" => reading' \in (-1)..said' /\ reading' # 0
    BY <1>1, <1>3 DEF Bounded
  <2>q. QED
    BY <1>2, <2>1, <2>2 DEF Bounded
<1> HIDE DEF l
<1>7. ASSUME Gapless
      PROVE  Gapless'
  <2>0. Len(stdout) = l
    BY DEF l
  <2>1. reader' = "passing" /\ reading' > 0 => (reading' = 1 \/ reading' - 1 \in Out') /\ \A n \in Out' : n < reading'
    BY <1>7 DEF Gapless
  <2>2. ASSUME NEW k \in 1..l, stdout'[k] > 0
        PROVE  /\ New(stdout'[k] - 1) \/ \E j \in 1..(k - 1) : stdout'[j] = stdout'[k] - 1
               /\ \A j \in 1..(k - 1) : stdout'[j] < stdout'[k]
               /\ \A n \in Out' : n < stdout'[k]
               /\ reader' = "passing" => reading' < stdout'[k]
    <3>1. stdout'[k] = stdout[k] /\ \A j \in 1..(k - 1) : stdout'[j] = stdout[j]
      <4>1. ASSUME NEW j \in 1..(k - 1)
            PROVE  j \in 1..l
        BY <1>1
      <4>q. QED
        BY <4>1, <1>4, <2>0
    <3>2. /\ Read(stdout[k] - 1) \/ \E j \in 1..(k - 1) : stdout[j] = stdout[k] - 1
          /\ \A j \in 1..(k - 1) : stdout[j] < stdout[k]
          /\ \A n \in Out : n < stdout[k]
          /\ reader = "passing" => reading < stdout[k]
      BY <1>7, <2>0, <2>2, <3>1 DEF Gapless
    <3>q. QED
      BY <3>1, <3>2 DEF Read
  <2>3. ASSUME e > 0
        PROVE  /\ New(e - 1) \/ \E j \in 1..l : stdout'[j] = e - 1
               /\ \A j \in 1..l : stdout'[j] < e
               /\ \A n \in Out' : n < e
               /\ reader' = "passing" => reading' < e
    <3>1. e = said + 1 /\ e - 1 = said
      BY <2>3, <1>1
    <3>2. Read(said) \/ \E k \in 1..l : stdout[k] = said
      BY <1>7, <2>0 DEF Gapless
    <3>3. \A j \in 1..l : stdout'[j] < e
      BY <1>1, <1>4, <3>1
    <3>4. \A n \in Out' : n < e
      <4>1. Out \subseteq Int
        BY PassedAs, Zenon
      <4>q. QED
        BY <4>1, <1>1, <3>1
    <3>5. reader' = "passing" => reading' < e
      BY <1>1, <3>1 DEF Bounded
    <3>6. New(e - 1) \/ \E j \in 1..l : stdout'[j] = e - 1
      BY <1>4, <3>1, <3>2 DEF Read
    <3>q. QED
      BY <3>3, <3>4, <3>5, <3>6
  <2>4. New(said') \/ \E k \in 1..(l + 1) : stdout'[k] = said'
    <3>1. CASE said' = said
      <4>1. Read(said) \/ \E k \in 1..l : stdout[k] = said
        BY <1>7, <2>0 DEF Gapless
      <4>q. QED
        BY <3>1, <4>1, <1>4 DEF Read
    <3>2. CASE e = said + 1 /\ said' = said + 1
      BY <3>2, <1>5
    <3>q. QED
      BY <3>1, <3>2
  <2>5. ASSUME NEW k \in 1..(l + 1), stdout'[k] > 0
        PROVE  /\ New(stdout'[k] - 1) \/ \E j \in 1..(k - 1) : stdout'[j] = stdout'[k] - 1
               /\ \A j \in 1..(k - 1) : stdout'[j] < stdout'[k]
               /\ \A n \in Out' : n < stdout'[k]
               /\ reader' = "passing" => reading' < stdout'[k]
    <3>1. CASE k \in 1..l
      BY <2>2, <2>5, <3>1
    <3>2. CASE k = l + 1
      <4>1. k - 1 = l /\ stdout'[k] = e /\ e > 0
        BY <1>1, <1>5, <2>5, <3>2, <2>0
      <4>q. QED
        BY <2>3, <4>1
    <3>q. QED
      BY <1>5, <3>1, <3>2
  <2>q. QED
    BY <1>2, <2>0, <2>1, <2>4, <2>5 DEF Gapless, Read
<1>q. QED
  BY <1>6, <1>7

\* Nothing is left out, whatever the step.
LEMMA SpokenOK ==
    ASSUME DrTypes, Booting, Spoken, InOrder(Passed, said), DrNext
    PROVE  Spoken' /\ InOrder(Passed, said)'
<1>0. /\ stdout \in Seq(Int) /\ Len(stdout) \in Nat /\ said \in Nat /\ reading \in Int
      /\ Passed \in Seq(Int) /\ Out \subseteq Int
      /\ \A k \in 1..Len(stdout) : stdout[k] \in Int
  <2>1. stdout \in Seq(Int) /\ said \in Nat /\ reading \in Int
    BY DriverAssumption DEF DrTypes, Pipes
  <2>2. Passed \in Seq(Int) /\ Out \subseteq Int
    BY PassedAs, Zenon
  <2>q. QED
    BY <2>1, <2>2
<1>1. \/ ReadsFrame \/ Passes \/ TellsWhy \/ Pumps \/ CliHears \/ Speaks
      \/ /\ UNCHANGED <<stdout, said, reading, eventChan, pumped>>
         /\ reader' = reader \/ (reader # "passing" /\ reader' # "passing")
         /\ closed => closed'
  BY DEF DrNext, MakesContext, Spawns, Publishes, Initializes, Waits, StartReturns, CloseTakes, Kills, ShutsDown, ContextKills,
     Sends, WritesFrame, Fails, ReadOver, Reaps, Follows, Quits, pipes, ends, DriverShutdown, Booting, Starting
<1>2. CASE /\ UNCHANGED <<stdout, said, reading, eventChan, pumped>>
           /\ reader' = reader \/ (reader # "passing" /\ reader' # "passing")
           /\ closed => closed'
  <2>1. Passed' = Passed
    BY <1>2 DEF Passed
  <2>q. QED
    BY <1>2, <2>1, OutFacts, SpokenAsBefore
<1>3. CASE Pumps
  <2>1. UNCHANGED <<stdout, said, reading, reader, closed>> /\ Passed' = Passed
    BY <1>3, PassedAs DEF Pumps, pipes, Passed
  <2>q. QED
    BY <2>1, OutFacts, SpokenAsBefore
<1>4. CASE TellsWhy
  <2>1. UNCHANGED <<stdout, said, reading, reader>> /\ (closed => closed') /\ (closed' => closed)
    BY <1>4 DEF TellsWhy, EmitEvent, pipes, ends
  <2>2. Passed' = Passed \/ Passed' = Append(Passed, -2)
    <3>1. pumped' = pumped /\ (eventChan' = eventChan \/ eventChan' = Append(eventChan, -2))
      BY <1>4, PipeMoves DEF TellsWhy, Why
    <3>2. -2 \in Int
      OBVIOUS
    <3>3. pumped \o Append(eventChan, -2) = Append(Passed, -2)
      BY <3>2, PassedAs, Zenon
    <3>q. QED
      BY <3>1, <3>3 DEF Passed
  <2>3. CASE Passed' = Passed
    BY <2>1, <2>3, OutFacts, SpokenAsBefore
  <2>4. CASE Passed' = Append(Passed, -2)
    <3>1. Out' = Out \cup {-2}
      BY <2>4, OutFacts
    <3>2. InOrder(Passed', said)
      BY <2>4, <1>0, InOrderMore DEF IsFrame, Garbage, Why
    <3>3. \A n \in Nat : Read(n)' <=> Read(n)
      BY <2>1, <3>1 DEF Read
    <3>4. ASSUME Gapless
          PROVE  Gapless'
      <4>1. reader' = "passing" /\ reading' > 0 => (reading' = 1 \/ reading' - 1 \in Out') /\ \A n \in Out' : n < reading'
        BY <2>1, <3>1, <3>4, <1>0 DEF Gapless
      <4>2. ASSUME NEW k \in 1..Len(stdout), stdout[k] > 0
            PROVE  (\A n \in Out' : n < stdout[k]) /\ (reader' = "passing" => reading' < stdout[k])
        BY <4>2, <2>1, <3>1, <3>4, <1>0 DEF Gapless
      <4>q. QED
        BY <2>1, <3>3, <3>4, <4>1, <4>2, GaplessKept
    <3>5. Bounded'
      BY <2>1 DEF Spoken, Bounded
    <3>q. QED
      BY <2>1, <3>2, <3>4, <3>5 DEF Spoken
  <2>q. QED
    BY <2>2, <2>3, <2>4
<1>5. CASE Passes
  <2>1. UNCHANGED <<stdout, said, reading>> /\ reader = "passing" /\ reader' # "passing"
    BY <1>5 DEF Passes, pipes
  <2>2. \/ closed /\ closed' /\ Passed' = Passed
        \/ ~closed /\ ~closed' /\ Passed' = Append(Passed, reading)
    <3>1. pumped' = pumped /\ EmitEvent(reading)
      BY <1>5 DEF Passes
    <3>2. \/ closed /\ closed' /\ eventChan' = eventChan
          \/ ~closed /\ ~closed' /\ eventChan' = Append(eventChan, reading)
      BY <3>1 DEF EmitEvent, ends
    <3>3. pumped \o Append(eventChan, reading) = Append(Passed, reading)
      BY <1>0, PassedAs, Zenon
    <3>q. QED
      BY <3>1, <3>2, <3>3 DEF Passed
  <2>3. Bounded'
    BY <2>1 DEF Spoken, Bounded
  <2>4. CASE closed /\ closed' /\ Passed' = Passed
    BY <2>1, <2>3, <2>4 DEF Spoken
  <2>5. CASE ~closed /\ ~closed' /\ Passed' = Append(Passed, reading)
    <3>1. Gapless /\ reading \in (-1)..said /\ reading # 0
      BY <2>1, <2>5 DEF Spoken, Bounded
    <3>2. Out' = Out \cup {reading}
      BY <2>5, <1>0, OutFacts
    <3>3. \A n \in Nat : Read(n) => Read(n)'
      BY <2>1, <3>2 DEF Read
    <3>4. ASSUME NEW k \in 1..Len(stdout), stdout[k] > 0
          PROVE  \A n \in Out' : n < stdout[k]
      BY <2>1, <3>1, <3>2, <3>4 DEF Gapless
    <3>5. Gapless'
      BY <2>1, <3>1, <3>3, <3>4, GaplessKept
    <3>6. IsFrame(reading) => /\ reading \in 1..said /\ (reading = 1 \/ \E j \in 1..Len(Passed) : Passed[j] = reading - 1)
                              /\ \A j \in 1..Len(Passed) : Passed[j] < reading
      <4>1. SUFFICES ASSUME IsFrame(reading)
                     PROVE  /\ reading \in 1..said /\ (reading = 1 \/ \E j \in 1..Len(Passed) : Passed[j] = reading - 1)
                            /\ \A j \in 1..Len(Passed) : Passed[j] < reading
        OBVIOUS
      <4>2. reading \in 1..said /\ reading > 0
        BY <3>1, <4>1, <1>0 DEF IsFrame, Garbage
      <4>3. (reading = 1 \/ reading - 1 \in Out) /\ \A n \in Out : n < reading
        BY <2>1, <3>1, <4>2 DEF Gapless
      <4>q. QED
        BY <4>2, <4>3, OutFacts
    <3>7. InOrder(Passed', said)
      BY <2>5, <3>6, <1>0, InOrderMore
    <3>q. QED
      BY <2>1, <2>3, <3>5, <3>7 DEF Spoken
  <2>q. QED
    BY <2>2, <2>4, <2>5
<1>6. CASE ReadsFrame
  <2>1. UNCHANGED <<said, eventChan, pumped>> /\ reader = "on" /\ (closed => closed')
    <3>1. UNCHANGED <<said, pumped>> /\ reader = "on"
      BY <1>6 DEF ReadsFrame
    <3>2. UNCHANGED ends \/ DriverShutdown
      BY <1>6, Zenon DEF ReadsFrame, ReadOver
    <3>q. QED
      BY <3>1, <3>2 DEF ends, DriverShutdown
  <2>2. Passed' = Passed /\ Out' = Out
    BY <2>1, OutFacts DEF Passed
  <2>3. InOrder(Passed, said)'
    BY <2>1, <2>2
  <2>4. CASE reader' = "gone" /\ stdout' = stdout /\ reading' = reading
    BY <2>1, <2>2, <2>3, <2>4, SpokenAsBefore
  <2>5. CASE reader' = "passing" /\ reading' = Garbage /\ stdout' = stdout
    <3>1. Bounded'
      BY <2>1, <2>5, <1>0 DEF Spoken, Bounded, Garbage
    <3>2. \A n \in Nat : Read(n) => Read(n)'
      BY <2>1, <2>2, <2>5 DEF Read
    <3>3. ASSUME Gapless
          PROVE  Gapless'
      <4>1. \A k \in 1..Len(stdout) : stdout[k] > 0 => (\A n \in Out' : n < stdout[k]) /\ -1 < stdout[k]
        BY <2>2, <3>3, <1>0 DEF Gapless
      <4>q. QED
        BY <2>1, <2>5, <3>2, <3>3, <4>1, GaplessKept DEF Garbage
    <3>q. QED
      BY <2>1, <2>3, <3>1, <3>3 DEF Spoken
  <2>6. CASE /\ stdout # <<>> /\ stdout' = Tail(stdout) /\ reading' = Head(stdout)
             /\ (Head(stdout) = Initialize /\ reader' = "on") \/ (Head(stdout) # Initialize /\ reader' = "passing")
    <3> DEFINE l == Len(stdout)  f == stdout[1]
               New(n) == n = 0 \/ n \in Out' \/ (reader' = "passing" /\ reading' = n)
    <3>1. /\ Len(stdout') = l - 1 /\ l \in Nat \ {0} /\ Head(stdout) = f /\ f \in Int
          /\ \A k \in 1..(l - 1) : stdout'[k] = stdout[k + 1]
      BY <2>6, <1>0, Shorter
    <3>2. reading' = f /\ ((f = 0 /\ reader' = "on") \/ (f # 0 /\ reader' = "passing"))
      BY <2>6, <3>1 DEF Initialize
    <3>3. Bounded'
      <4>1. f \in (-1)..said
        BY <3>1 DEF Spoken, Bounded
      <4>2. ASSUME NEW k \in 1..(l - 1)
            PROVE  stdout'[k] \in (-1)..said
        <5>1. k + 1 \in 1..l
          BY <3>1
        <5>q. QED
          BY <3>1, <5>1 DEF Spoken, Bounded
      <4>q. QED
        BY <2>1, <3>1, <3>2, <4>1, <4>2 DEF Bounded
    <3>4. ASSUME Gapless
          PROVE  Gapless'
      <4>1. \A n \in Nat : Read(n) => New(n)
        BY <2>1, <2>2 DEF Read
      <4>2. f \in Nat => New(f)
        BY <3>2 DEF Read
      <4>3. 1 \in 1..l
        BY <3>1
      <4>4. f > 0 => /\ f = 1 \/ f - 1 \in Out
                     /\ \A n \in Out : n < f
        <5>1. SUFFICES ASSUME f > 0
                       PROVE  (f = 1 \/ f - 1 \in Out) /\ \A n \in Out : n < f
          OBVIOUS
        <5>2. /\ Read(f - 1) \/ \E j \in 1..(1 - 1) : stdout[j] = f - 1
              /\ \A n \in Out : n < f
          BY <3>4, <4>3, <5>1 DEF Gapless
        <5>3. Read(f - 1)
          BY <5>2
        <5>q. QED
          BY <5>2, <5>3, <2>1, <3>1 DEF Read
      <4>5. ASSUME NEW k \in 1..(l - 1), stdout'[k] > 0
            PROVE  /\ New(stdout'[k] - 1) \/ \E j \in 1..(k - 1) : stdout'[j] = stdout'[k] - 1
                   /\ \A j \in 1..(k - 1) : stdout'[j] < stdout'[k]
                   /\ \A n \in Out : n < stdout'[k]
                   /\ f < stdout'[k]
        <5> DEFINE e == stdout[k + 1]
        <5>1. k + 1 \in 1..l /\ k \in Nat /\ stdout'[k] = e /\ (k + 1) - 1 = k /\ e > 0 /\ e \in Int /\ e - 1 \in Nat
          BY <3>1, <4>5, <1>0
        <5>2. /\ Read(e - 1) \/ \E j \in 1..k : stdout[j] = e - 1
              /\ \A j \in 1..k : stdout[j] < e
              /\ \A n \in Out : n < e
          BY <3>4, <5>1 DEF Gapless
        <5>3. f < e
          BY <5>1, <5>2
        <5>4. ASSUME NEW j \in 1..(k - 1)
              PROVE  stdout'[j] < e
          <6>1. j + 1 \in 1..k /\ stdout'[j] = stdout[j + 1]
            BY <3>1, <5>1
          <6>q. QED
            BY <5>2, <6>1
        <5>5. ASSUME NEW j \in 1..k, stdout[j] = e - 1
              PROVE  f = e - 1 \/ \E i \in 1..(k - 1) : stdout'[i] = e - 1
          <6>1. CASE j = 1
            BY <5>5, <6>1
          <6>2. CASE j # 1
            <7>1. j - 1 \in 1..(k - 1) /\ (j - 1) \in 1..(l - 1) /\ (j - 1) + 1 = j
              BY <5>1, <6>2
            <7>2. stdout'[j - 1] = stdout[j]
              BY <3>1, <7>1
            <7>q. QED
              BY <5>5, <7>1, <7>2
          <6>q. QED
            BY <6>1, <6>2
        <5>6. ASSUME NEW n \in Nat, n = e - 1
              PROVE  New(n) \/ \E j \in 1..(k - 1) : stdout'[j] = n
          <6>1. Read(n) \/ f = n \/ \E j \in 1..(k - 1) : stdout'[j] = n
            BY <5>2, <5>5, <5>6
          <6>2. f = n => New(n)
            BY <3>2 DEF Read
          <6>q. QED
            BY <6>1, <6>2, <4>1
        <5>7. New(stdout'[k] - 1) \/ \E j \in 1..(k - 1) : stdout'[j] = stdout'[k] - 1
          BY <5>1, <5>6 DEF Read
        <5>q. QED
          BY <5>1, <5>2, <5>3, <5>4, <5>7
      <4>6. New(said) \/ \E k \in 1..(l - 1) : stdout'[k] = said
        <5>1. Read(said) \/ \E k \in 1..l : stdout[k] = said
          BY <3>4 DEF Gapless
        <5>2. CASE Read(said)
          BY <5>2, <2>1, <2>2 DEF Read
        <5>3. ASSUME NEW k \in 1..l, stdout[k] = said
              PROVE  New(said) \/ \E j \in 1..(l - 1) : stdout'[j] = said
          <6>1. CASE k = 1
            BY <6>1, <5>3, <3>2, <2>1 DEF Read
          <6>2. CASE k # 1
            <7>1. k - 1 \in 1..(l - 1) /\ (k - 1) + 1 = k
              BY <3>1, <6>2
            <7>q. QED
              BY <3>1, <5>3, <7>1
          <6>q. QED
            BY <6>1, <6>2
        <5>q. QED
          BY <5>1, <5>2, <5>3
      <4>q. QED
        <5>1. reader' = "passing" /\ reading' > 0 => (reading' = 1 \/ reading' - 1 \in Out') /\ \A n \in Out' : n < reading'
          BY <2>2, <3>2, <4>4
        <5>2. ASSUME NEW k \in 1..Len(stdout'), stdout'[k] > 0
              PROVE  /\ New(stdout'[k] - 1) \/ \E j \in 1..(k - 1) : stdout'[j] = stdout'[k] - 1
                     /\ \A j \in 1..(k - 1) : stdout'[j] < stdout'[k]
                     /\ \A n \in Out' : n < stdout'[k]
                     /\ reader' = "passing" => reading' < stdout'[k]
          BY <2>2, <3>1, <3>2, <4>5, <5>2
        <5>3. New(said') \/ \E k \in 1..Len(stdout') : stdout'[k] = said'
          BY <2>1, <3>1, <4>6
        <5>q. QED
          BY <5>1, <5>2, <5>3 DEF Gapless, Read
    <3>q. QED
      BY <2>1, <2>3, <3>3, <3>4 DEF Spoken
  <2>q. QED
    BY <1>6, <2>4, <2>5, <2>6, PipeMoves
<1>7. CASE CliHears
  <2>1. UNCHANGED <<said, eventChan, pumped, reader, reading, closed>> /\ (stdout' = stdout \/ stdout' = Append(stdout, 0))
    BY <1>7 DEF CliHears, ends, Initialize
  <2>2. Passed' = Passed /\ Out' = Out
    BY <2>1, OutFacts DEF Passed
  <2>3. CASE stdout' = stdout
    BY <2>1, <2>2, <2>3, SpokenAsBefore
  <2>4. CASE stdout' = Append(stdout, 0)
    <3>1. Bounded /\ (~closed => Gapless) /\ \A n \in Out : n <= said
      BY OutFacts DEF Spoken
    <3>2. Bounded' /\ (Gapless => Gapless')
      BY <2>1, <2>2, <2>4, <3>1, SpokenMore
    <3>q. QED
      BY <2>1, <2>2, <3>1, <3>2 DEF Spoken
  <2>q. QED
    BY <2>1, <2>3, <2>4
<1>8. CASE Speaks
  <2>1. UNCHANGED <<eventChan, pumped, reader, reading, closed>>
    BY <1>8 DEF Speaks, ends
  <2>2. \/ said' = said + 1 /\ stdout' = Append(stdout, said + 1)
        \/ said' = said /\ stdout' = Append(stdout, -1)
    BY <1>8, PipeMoves DEF Garbage
  <2>3. Passed' = Passed /\ Out' = Out
    BY <2>1, OutFacts DEF Passed
  <2>4. InOrder(Passed, said)'
    BY <2>2, <2>3, <1>0, InOrderKept
  <2>5. Bounded /\ (~closed => Gapless) /\ \A n \in Out : n <= said
    BY OutFacts DEF Spoken
  <2>6. CASE said' = said + 1 /\ stdout' = Append(stdout, said + 1)
    <3>1. said + 1 \in Int
      BY <1>0
    <3>2. Bounded' /\ (Gapless => Gapless')
      BY <2>1, <2>3, <2>5, <2>6, <3>1, SpokenMore
    <3>q. QED
      BY <2>1, <2>4, <2>5, <3>2 DEF Spoken
  <2>7. CASE said' = said /\ stdout' = Append(stdout, -1)
    <3>1. Bounded' /\ (Gapless => Gapless')
      BY <2>1, <2>3, <2>5, <2>7, SpokenMore
    <3>q. QED
      BY <2>1, <2>4, <2>5, <3>1 DEF Spoken
  <2>q. QED
    BY <2>2, <2>6, <2>7
<1>q. QED
  BY <1>1, <1>2, <1>3, <1>4, <1>5, <1>6, <1>7, <1>8

\* The invariant of the driver, at the start, at every step, and what follows from it.
LEMMA DrInvInit == DrInit => DrInv
<1> SUFFICES ASSUME DrInit PROVE DrInv
  OBVIOUS
<1>1. DrTypes
  BY DrTypesInit
<1>2. /\ heard = <<>> /\ stdin = <<>> /\ outgoing = <<>> /\ stdout = <<>> /\ Len(heard) = 0 /\ Len(stdin) = 0
      /\ Len(outgoing) = 0 /\ Len(stdout) = 0 /\ sentTurns = 0 /\ said = 0
      /\ writer = "off" /\ reader = "off" /\ waiter = "off" /\ boot = "made" /\ ctx = "none" /\ process = "none"
  BY DEF DrInit
<1>3. \A c \in Closer \cup {Starter} : closing[c].step = "idle" /\ closing[c].cancel = FALSE
  BY Zenon DEF DrInit, NotClosing
<1>4. ready = FALSE /\ closed = FALSE /\ piped = TRUE /\ crashed = FALSE
  BY Zenon DEF DrInit
<1>5. Booting
  BY <1>2, <1>3 DEF Booting, Starting
<1>6. Written
  BY <1>2 DEF Written
<1>7. Spoken
  BY <1>2 DEF Spoken, Bounded, Gapless, Read
<1>8. Ended
  BY <1>2, <1>3, <1>4 DEF Ended
<1>9. Answered
  BY <1>2, <1>4 DEF Answered
<1>10. Passed = <<>>
  BY DEF DrInit, Passed
<1>11. InOrder(Passed, said)
  BY <1>10 DEF InOrder
<1>q. QED
  BY <1>1, <1>4, <1>5, <1>6, <1>7, <1>8, <1>9, <1>11 DEF DrInv

LEMMA DrInvNext ==
    ASSUME DrInv, [DrNext]_drVars
    PROVE  DrInv'
<1>1. CASE DrNext
  <2>1. DrTypes'
    BY <1>1, FlagsOK, KindsOK, PipesOK, HandsOK DEF DrInv, DrTypes
  <2>2. Booting' /\ Written' /\ Ended' /\ Answered' /\ Spoken' /\ InOrder(Passed, said)'
    BY <1>1, BootingOK, WrittenOK, EndedOK, AnsweredOK, SpokenOK DEF DrInv
  <2>3. ~crashed'
    <3>1. crashed' = crashed
      BY <1>1 DEF DrNext, MakesContext, Spawns, Publishes, Initializes, Waits, StartReturns, CloseTakes, Kills, ShutsDown, ContextKills,
         Sends, WritesFrame, ReadsFrame, Passes, EmitEvent, TellsWhy, Pumps, CliHears, Speaks, Fails, ReadOver, Reaps, Follows, Quits, pipes, ends, DriverShutdown
    <3>q. QED
      BY <3>1 DEF DrInv
  <2>q. QED
    BY <2>1, <2>2, <2>3 DEF DrInv
<1>2. CASE UNCHANGED drVars
  <2>1. /\ UNCHANGED <<boot, ctx, cmd, process, mourned, stdin, heard, stdout, piped, said, outgoing, sentTurns>>
        /\ UNCHANGED <<writer, reader, waiter, reading, eventChan, closed, ready, pumped, closing, garbled, crashed>>
    BY <1>2 DEF drVars
  <2>2. DrTypes'
    BY <2>1 DEF DrInv, DrTypes, Flags, Stages, Pipes
  <2>3. Booting'
    BY <2>1 DEF DrInv, Booting
  <2>4. Written'
    BY <2>1 DEF DrInv, Written
  <2>5. Ended'
    BY <2>1 DEF DrInv, Ended
  <2>6. Answered'
    BY <2>1 DEF DrInv, Answered
  <2>7. Passed' = Passed /\ said' = said
    BY <2>1 DEF Passed
  <2>8. InOrder(Passed, said)'
    BY <2>7 DEF DrInv, InOrder
  <2>9. Spoken'
    <3>1. Out' = Out
      BY <2>7 DEF Out
    <3>q. QED
      BY <2>1, <3>1, SpokenAsBefore DEF DrInv
  <2>q. QED
    BY <2>1, <2>2, <2>3, <2>4, <2>5, <2>6, <2>8, <2>9 DEF DrInv
<1>q. QED
  BY <1>1, <1>2

LEMMA DrInvImplies ==
    ASSUME DrInv
    PROVE  DrTypeOK /\ DriverIsSound
<1>1. DrTypeOK
  <2>1. \A c \in Closer \cup {Starter} : closing[c].step \in {"idle", "took", "killed", "done"}
    BY DEF DrInv, DrTypes, Hands, Steps
  <2>q. QED
    BY <2>1, Zenon DEF DrInv, DrTypes, Flags, Stages, Pipes, DrTypeOK
<1>2. HeardInOrder
  <2> DEFINE h == Len(heard)  m == Len(stdin)  th == heard \o stdin
  <2>1. heard \in Seq(Int) /\ stdin \in Seq(Int) /\ h \in Nat /\ m \in Nat /\ sentTurns \in Nat /\ Len(outgoing) \in Nat
    BY DriverAssumption DEF DrInv, DrTypes, Pipes
  <2>2. /\ \A k \in 1..h : heard[k] = k - 1
        /\ \A k \in 1..m : stdin[k] = h + k - 1
        /\ h + m <= sentTurns - Len(outgoing) + 1
    BY DEF DrInv, Written
  <2>3. /\ Len(th) = h + m /\ \A i \in 1..(h + m) : th[i] = IF i <= h THEN heard[i] ELSE stdin[i - h]
        /\ DOMAIN th = 1..(h + m)
    BY <2>1, ConcatProperties, LenProperties
  <2> HIDE DEF h, m, th
  <2>4. Len(th) <= sentTurns + 1
    BY <2>1, <2>2, <2>3
  <2>5. ASSUME NEW k \in 1..(h + m)
        PROVE  th[k] = 0 + k - 1
    <3>1. CASE k <= h
      BY <2>1, <2>2, <2>3, <3>1
    <3>2. CASE ~(k <= h)
      <4>1. k - h \in 1..m /\ h + (k - h) - 1 = k - 1
        BY <2>1, <3>2
      <4>2. stdin[k - h] = h + (k - h) - 1
        BY <2>2, <4>1
      <4>q. QED
        BY <2>1, <2>3, <3>2, <4>1, <4>2
    <3>q. QED
      BY <3>1, <3>2
  <2>q. QED
    BY <2>3, <2>4, <2>5 DEF HeardInOrder, Initialize, th
<1>3. SaidInOrder
  BY DEF DrInv, InOrder, Passed, SaidInOrder
<1>4. NoProcessLeft
  <2>1. SUFFICES ASSUME closed, boot \in {"ok", "failed"},
                        \A c \in Closer \cup {Starter} :
                          \/ closing[c].step = "idle"
                          \/ closing[c].step = "done" /\ (boot = "ok" => closing[c].cancel)
                 PROVE  process # "up" \/ ctx = "cancelled" \/ garbled
    BY DEF NoProcessLeft
  <2>2. \A c \in Closer \cup {Starter} :
          closing[c].step \in {"killed", "done"} /\ closing[c].cancel => ctx = "cancelled"
    BY DEF DrInv, Ended
  <2>3. CASE boot = "failed"
    <3>1. closing[Starter].step = "done" /\ closing[Starter].cancel
      BY <2>3 DEF DrInv, Ended
    <3>q. QED
      BY <2>2, <3>1
  <2>4. CASE boot = "ok"
    <3>1. process = "ended" \/ garbled \/ \E c \in Closer \cup {Starter} : closing[c].step = "done"
      BY <2>1 DEF DrInv, Ended
    <3>2. ASSUME NEW c \in Closer \cup {Starter}, closing[c].step = "done"
          PROVE  ctx = "cancelled"
      BY <2>1, <2>2, <2>4, <3>2
    <3>q. QED
      BY <3>1, <3>2
  <2>q. QED
    BY <2>1, <2>3, <2>4
<1>5. ReadyIsReal
  <2>1. boot = "ok" => heard # <<>>
    BY DEF DrInv, Booting, Answered
  <2>2. ASSUME heard # <<>>
        PROVE  Initialize \in ToSet(heard)
    <3>1. heard \in Seq(Nat)
      BY DEF DrInv, DrTypes, Pipes
    <3>2. 1 \in 1..Len(heard) /\ 1 \in DOMAIN heard
      BY <2>2, <3>1
    <3>3. heard[1] = 0
      BY <3>2 DEF DrInv, Written
    <3>q. QED
      BY <3>2, <3>3 DEF ToSet, Initialize
  <2>3. "gone" \in {reader, waiter} => closed
    BY DEF DrInv, Answered
  <2>q. QED
    BY <2>1, <2>2, <2>3 DEF ReadyIsReal
<1>6. ~crashed
  BY DEF DrInv
<1>q. QED
  BY <1>1, <1>2, <1>3, <1>4, <1>5, <1>6 DEF DriverIsSound

\* For any channels, any turns sent and frames said, and any number of requests to
\* close the session: what the CLI hears is what was sent, in order and with nothing
\* left out, what the pump is told is what the CLI said, in order and with nothing
\* left out; once the session is over, with nobody starting or closing it, its process
\* has ended or is being killed, unless a line that is no frame ended it; a session
\* that started was heard by the CLI; and no goroutine panics (internal/claude/driver.go).
THEOREM DriverStaysSound == DrSpec => [](DrTypeOK /\ DriverIsSound)
<1>1. DrInit => DrInv
  BY DrInvInit
<1>2. DrInv /\ [DrNext]_drVars => DrInv'
  BY DrInvNext
<1>3. DrInv => DrTypeOK /\ DriverIsSound
  BY DrInvImplies
<1>q. QED
  BY <1>1, <1>2, <1>3, PTL DEF DrSpec

=============================================================================
