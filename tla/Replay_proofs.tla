--------------------------- MODULE Replay_proofs ---------------------------
(***************************************************************************)
(* What a client of Replay is given, for any clients, ring, channel and    *)
(* bounds.                                                                 *)
(*                                                                         *)
(* First ScreenInOrder.  It is not inductive: that the next event belongs   *)
(* to the process on the screen depends on what is still on its way.  Every *)
(* connection carries the frames of one process, its source, which is       *)
(* announced by the hello in front and is the current process while the     *)
(* client is subscribed.                                                    *)
(*                                                                         *)
(* Then the types, that no event is thrown away as if it had been seen,     *)
(* that nothing is left out which the ring still holds while one process is *)
(* behind the id, and that every step is one of EventFeed.  For these the   *)
(* numbers of the events are followed: they ascend from the client's mark,  *)
(* and of one process they skip only what the ring has lost.                *)
(*                                                                         *)
(* Last, another reader of a session's events, the Telegram channel: what it *)
(* writes down, it finds again after a crash, and the chat is told.         *)
(***************************************************************************)
EXTENDS Replay, Channel, FiniteSetTheorems, SequenceTheorems, WellFoundedInduction, TLAPS

Epoch == Nat \ {0}
EventFrame == [t : {"event"}, epoch : Epoch, seq : Nat]
HelloFrame == [t : {"hello"}, epoch : Epoch]

\* The hello of a connection has not been read yet.
Greeting(c) == out[c] # <<>> /\ Head(out[c]).t = "hello"

\* The process a connection was made to.
Source(c) == IF Greeting(c) THEN Head(out[c]).epoch ELSE known[c]

Types ==
    /\ epoch \in Epoch /\ seq \in Nat /\ buf \in Seq(Nat)
    /\ subs \subseteq online /\ online \subseteq Client
    /\ live # "up" => subs = {}
    /\ known \in [Client -> Nat]
    /\ lastSeq \in [Client -> Nat]
    /\ items \in [Client -> Seq(EventFrame)]
    /\ chan \in [Client -> Seq(EventFrame)]
    /\ out \in [Client -> Seq(EventFrame \cup HelloFrame)]

\* A screen holds events of the known process, in order, up to the mark.
ScreenOK(c) ==
    /\ known[c] = 0 => items[c] = <<>>
    /\ \A i \in DOMAIN items[c] :
         items[c][i].epoch = known[c] /\ items[c][i].seq <= lastSeq[c]
    /\ \A i, j \in DOMAIN items[c] : i < j => items[c][i].seq < items[c][j].seq

\* A connection carries one process's frames behind at most one hello.
WireOK(c) ==
    /\ \A i \in DOMAIN out[c] : i > 1 => out[c][i].t = "event"
    /\ \A i \in DOMAIN out[c] : out[c][i].epoch = Source(c)
    /\ \A i \in DOMAIN chan[c] : chan[c][i].epoch = Source(c)
    /\ c \in subs => Source(c) = epoch

IInv == Types /\ \A c \in Client : ScreenOK(c) /\ WireOK(c)

\* What a Hello and an Event are.
LEMMA Frames == ASSUME NEW e \in Epoch, NEW n \in Nat
                PROVE  /\ Hello(e) \in HelloFrame /\ Hello(e).t = "hello" /\ Hello(e).epoch = e
                       /\ Event(e, n) \in EventFrame /\ Event(e, n).t = "event"
                       /\ Event(e, n).epoch = e /\ Event(e, n).seq = n
BY DEF Hello, Event, HelloFrame, EventFrame

\* A connection nobody touches keeps its source.
LEMMA SameSource == ASSUME NEW d \in Client, out'[d] = out[d], known'[d] = known[d]
                    PROVE  Source(d)' = Source(d)
BY DEF Source, Greeting

LEMMA InitOK == Init => IInv
BY DEF Init, IInv, Types, ScreenOK, WireOK, Source, Greeting, Epoch, EventFrame, HelloFrame

\* A fan-out adds an event of the current process to some subscribed channels.
LEMMA EmitOK ==
    ASSUME IInv, NEW n \in Nat, Emit(Event(epoch, n)), live = "up", live' = live,
           UNCHANGED <<epoch, out, online, client>>, seq' \in Nat, buf' \in Seq(Nat)
    PROVE  IInv'
<1> DEFINE ev == Event(epoch, n)
<1>1. ev \in EventFrame /\ ev.epoch = epoch
  BY Frames DEF IInv, Types
<1> HIDE DEF ev
<1>2. \A c \in Client : \/ chan'[c] = chan[c]
                        \/ c \in subs /\ chan'[c] = Append(chan[c], ev)
  BY DEF Emit, ev
<1>3. subs' \subseteq subs /\ chan' \in [Client -> Seq(EventFrame)]
  BY <1>1 DEF Emit, ev, IInv, Types
<1>4. Types'
  BY <1>3 DEF IInv, Types, client
<1>5. ASSUME NEW c \in Client PROVE ScreenOK(c)'
  BY DEF IInv, ScreenOK, client
<1>6. ASSUME NEW c \in Client PROVE WireOK(c)'
  <2>1. Source(c)' = Source(c)
    BY DEF Source, Greeting, client
  <2>2. \A i \in DOMAIN chan'[c] : chan'[c][i].epoch = Source(c)
    <3>1. chan[c] \in Seq(EventFrame) /\ \A i \in DOMAIN chan[c] : chan[c][i].epoch = Source(c)
      BY DEF IInv, Types, WireOK
    <3>2. CASE chan'[c] = chan[c]
      BY <3>1, <3>2
    <3>3. CASE c \in subs /\ chan'[c] = Append(chan[c], ev)
      <4>1. ev.epoch = Source(c)
        BY <1>1, <3>3 DEF IInv, WireOK
      <4>2. \A i \in DOMAIN Append(chan[c], ev) :
               \/ i \in DOMAIN chan[c] /\ Append(chan[c], ev)[i] = chan[c][i]
               \/ Append(chan[c], ev)[i] = ev
        BY <1>1, <3>1
      <4> QED
        BY <3>1, <3>3, <4>1, <4>2
    <3> QED
      BY <1>2, <3>2, <3>3
  <2> QED
    BY <2>1, <2>2, <1>3 DEF IInv, WireOK
<1> QED
  BY <1>4, <1>5, <1>6 DEF IInv

\* Reading a hello: the source becomes the process on the screen.
LEMMA HelloOK ==
    ASSUME IInv, NEW c \in Client, c \in online, Greeting(c),
           OnHello(c, Head(out[c]).epoch),
           out' = [out EXCEPT ![c] = Tail(@)],
           UNCHANGED <<server, subs, chan, online>>
    PROVE  IInv'
<1> DEFINE h == Head(out[c])
<1>1. /\ out[c] \in Seq(EventFrame \cup HelloFrame) /\ out[c] # <<>>
      /\ h = out[c][1] /\ h.t = "hello" /\ h.epoch = Source(c)
  BY DEF IInv, Types, Greeting, Source
<1>2. h.epoch \in Epoch
  BY <1>1 DEF EventFrame, HelloFrame
<1>3. \A i \in DOMAIN Tail(out[c]) : i + 1 \in DOMAIN out[c] /\ Tail(out[c])[i] = out[c][i + 1]
  BY <1>1
<1>4. Types'
  BY SMTT(30), <1>1, <1>2 DEF IInv, Types, OnHello, server, Epoch
<1>5. ASSUME NEW d \in Client PROVE ScreenOK(d)'
  BY <1>2 DEF IInv, Types, ScreenOK, OnHello, Epoch
<1>6. ASSUME NEW d \in Client PROVE WireOK(d)'
  <2>1. CASE d # c
    <3>1. out'[d] = out[d] /\ known'[d] = known[d]
      BY <2>1 DEF IInv, Types, OnHello
    <3>2. Source(d)' = Source(d)
      BY <3>1, SameSource
    <3> QED
      BY <3>1, <3>2 DEF IInv, WireOK, server
  <2>2. CASE d = c
    <3>1. out'[c] = Tail(out[c]) /\ known'[c] = h.epoch
      BY DEF IInv, Types, OnHello
    <3>2. \A i \in DOMAIN out'[c] : out'[c][i].t = "event" /\ out'[c][i].epoch = Source(c)
      <4>1. \A i \in DOMAIN out[c] : (i > 1 => out[c][i].t = "event") /\ out[c][i].epoch = Source(c)
        BY DEF IInv, WireOK
      <4>2. \A i \in DOMAIN Tail(out[c]) : i \in Nat /\ i + 1 > 1
        BY <1>1
      <4> SUFFICES ASSUME NEW i \in DOMAIN Tail(out[c])
                   PROVE  Tail(out[c])[i].t = "event" /\ Tail(out[c])[i].epoch = Source(c)
        BY <3>1
      <4>3. i + 1 \in DOMAIN out[c] /\ i + 1 > 1 /\ Tail(out[c])[i] = out[c][i + 1]
        BY <1>3, <4>2
      <4> QED
        BY <4>1, <4>3
    <3>3. ~Greeting(c)'
      <4>1. out'[c] \in Seq(EventFrame \cup HelloFrame)
        BY <1>1, <3>1
      <4>2. out'[c] # <<>> => 1 \in DOMAIN out'[c] /\ Head(out'[c]) = out'[c][1]
        BY <4>1
      <4> QED
        BY <3>2, <4>2 DEF Greeting
    <3>4. Source(c)' = Source(c)
      BY <3>1, <3>3, <1>1 DEF Source
    <3> QED
      BY <2>2, <3>2, <3>4 DEF IInv, WireOK, server
  <2> QED
    BY <2>1, <2>2
<1> QED
  BY <1>4, <1>5, <1>6 DEF IInv

\* Applying an event of the process on the screen.
LEMMA EventOK ==
    ASSUME IInv, NEW c \in Client, ~Greeting(c), NEW f \in EventFrame,
           f.epoch = known[c], OnEvent(c, f)
    PROVE  /\ known' = known
           /\ lastSeq' \in [Client -> Nat] /\ items' \in [Client -> Seq(EventFrame)]
           /\ \A d \in Client : ScreenOK(d)'
<1>1. f.seq \in Nat /\ f.epoch \in Epoch
  BY DEF EventFrame
<1>2. CASE f.seq > lastSeq[c]
  <2>1. /\ known' = known /\ lastSeq' = [lastSeq EXCEPT ![c] = f.seq]
        /\ items' = [items EXCEPT ![c] = Append(@, f)]
    BY <1>2 DEF OnEvent
  <2>2. /\ items[c] \in Seq(EventFrame) /\ lastSeq[c] \in Nat
        /\ \A i \in DOMAIN items[c] : items[c][i].seq \in Nat
    <3>1. items[c] \in Seq(EventFrame) /\ lastSeq[c] \in Nat
      BY DEF IInv, Types
    <3>2. \A i \in DOMAIN items[c] : items[c][i] \in EventFrame
      BY <3>1
    <3>3. \A g \in EventFrame : g.seq \in Nat
      BY DEF EventFrame
    <3> QED
      BY <3>1, <3>2, <3>3
  <2>3. ASSUME NEW d \in Client PROVE ScreenOK(d)'
    <3>1. CASE d # c
      BY <2>1, <3>1 DEF IInv, Types, ScreenOK
    <3>2. CASE d = c
      <4>1. items'[c] = Append(items[c], f) /\ lastSeq'[c] = f.seq
        BY <2>1 DEF IInv, Types
      <4>2. \A i \in DOMAIN items'[c] :
               \/ i \in DOMAIN items[c] /\ items'[c][i] = items[c][i]
               \/ i = Len(items[c]) + 1 /\ items'[c][i] = f
        BY <4>1, <2>2
      <4>3. /\ \A i \in DOMAIN items[c] :
                  items[c][i].epoch = known[c] /\ items[c][i].seq <= lastSeq[c]
            /\ \A i, j \in DOMAIN items[c] : i < j => items[c][i].seq < items[c][j].seq
            /\ DOMAIN items[c] = 1..Len(items[c]) /\ Len(items[c]) \in Nat
        BY <2>2 DEF IInv, ScreenOK
      <4>4. \A i \in DOMAIN items'[c] : items'[c][i].epoch = known[c] /\ items'[c][i].seq <= f.seq
        BY <4>2, <4>3, <2>2, <1>1, <1>2
      <4>5. \A i, j \in DOMAIN items'[c] : i < j => items'[c][i].seq < items'[c][j].seq
        BY <4>2, <4>3, <2>2, <1>1, <1>2
      <4>6. known[c] # 0
        BY <1>1 DEF Epoch
      <4> QED
        BY <3>2, <4>1, <4>4, <4>5, <4>6, <2>1 DEF ScreenOK
    <3> QED
      BY <3>1, <3>2
  <2> QED
    BY <2>1, <2>3, <1>1 DEF IInv, Types
<1>3. CASE ~(f.seq > lastSeq[c])
  BY <1>3 DEF OnEvent, IInv, Types, ScreenOK
<1> QED
  BY <1>2, <1>3

\* The writer hands a client the next frame of its connection.
LEMMA DeliverOK == ASSUME IInv, NEW c \in Client, Deliver(c) PROVE IInv'
<1>1. c \in online /\ UNCHANGED <<server, subs, online>>
  BY DEF Deliver
<1>2. CASE out[c] # <<>> /\ Apply(c, Head(out[c])) /\ out' = [out EXCEPT ![c] = Tail(@)] /\ UNCHANGED chan
  <2>1. out[c] \in Seq(EventFrame \cup HelloFrame) /\ Head(out[c]) = out[c][1] /\ 1 \in DOMAIN out[c]
    BY <1>2 DEF IInv, Types
  <2>2. CASE Head(out[c]).t = "hello"
    BY <1>1, <1>2, <2>2, HelloOK DEF Apply, Greeting
  <2>3. CASE Head(out[c]).t # "hello"
    <3>1. ~Greeting(c) /\ OnEvent(c, Head(out[c]))
      BY <1>2, <2>3 DEF Greeting, Apply
    <3>2. Head(out[c]) \in EventFrame /\ Head(out[c]).epoch = known[c]
      BY <2>1, <2>3, <3>1 DEF HelloFrame, IInv, WireOK, Source
    <3>3. /\ known' = known
          /\ lastSeq' \in [Client -> Nat] /\ items' \in [Client -> Seq(EventFrame)]
          /\ \A d \in Client : ScreenOK(d)'
      BY <3>1, <3>2, EventOK
    <3>4. ASSUME NEW d \in Client PROVE WireOK(d)'
      <4>1. CASE d # c
        <5>1. out'[d] = out[d] /\ known'[d] = known[d]
          BY <4>1, <1>2, <3>3 DEF IInv, Types
        <5> QED
          BY <5>1, <1>1, <1>2 DEF IInv, WireOK, Source, Greeting, server
      <4>2. CASE d = c
        <5>1. out'[c] = Tail(out[c]) /\ out'[c] \in Seq(EventFrame \cup HelloFrame)
          BY <1>2, <2>1 DEF IInv, Types
        <5>2. \A i \in DOMAIN out'[c] :
                 i \in Nat /\ i + 1 > 1 /\ i + 1 \in DOMAIN out[c] /\ out'[c][i] = out[c][i + 1]
          BY <5>1, <2>1
        <5>3. \A i \in DOMAIN out'[c] : out'[c][i].t = "event" /\ out'[c][i].epoch = Source(c)
          <6>1. \A i \in DOMAIN out[c] :
                   (i > 1 => out[c][i].t = "event") /\ out[c][i].epoch = Source(c)
            BY DEF IInv, WireOK
          <6> QED
            BY <5>2, <6>1
        <5>4. ~Greeting(c)'
          <6>1. out'[c] # <<>> => 1 \in DOMAIN out'[c] /\ Head(out'[c]) = out'[c][1]
            BY <5>1
          <6> QED
            BY <5>3, <6>1 DEF Greeting
        <5>5. Source(c)' = Source(c)
          BY <5>4, <3>1, <3>3 DEF Source
        <5> QED
          BY <4>2, <5>3, <5>5, <1>1, <1>2 DEF IInv, WireOK, server
      <4> QED
        BY <4>1, <4>2
    <3>5. out' \in [Client -> Seq(EventFrame \cup HelloFrame)]
      BY <1>2, <2>1 DEF IInv, Types
    <3>6. Types'
      BY <1>1, <1>2, <3>3, <3>5 DEF IInv, Types, server
    <3> QED
      BY <3>3, <3>4, <3>6 DEF IInv
  <2> QED
    BY <2>2, <2>3
<1>3. CASE out[c] = <<>> /\ chan[c] # <<>> /\ Apply(c, Head(chan[c])) /\ chan' = [chan EXCEPT ![c] = Tail(@)] /\ UNCHANGED out
  <2>1. chan[c] \in Seq(EventFrame) /\ Head(chan[c]) = chan[c][1] /\ 1 \in DOMAIN chan[c]
    BY <1>3 DEF IInv, Types
  <2>2. Head(chan[c]) \in EventFrame /\ ~Greeting(c) /\ Head(chan[c]).epoch = known[c]
    BY <2>1, <1>3 DEF Greeting, IInv, WireOK, Source
  <2>3. OnEvent(c, Head(chan[c]))
    BY <1>3, <2>2 DEF Apply, EventFrame
  <2>4. /\ known' = known
        /\ lastSeq' \in [Client -> Nat] /\ items' \in [Client -> Seq(EventFrame)]
        /\ \A d \in Client : ScreenOK(d)'
    BY <2>2, <2>3, EventOK
  <2>5. \A d \in Client : Source(d)' = Source(d)
    BY <1>3, <2>4 DEF Source, Greeting
  <2>6. ASSUME NEW d \in Client PROVE \A i \in DOMAIN chan'[d] : chan'[d][i].epoch = Source(d)
    <3>1. CASE d # c
      BY <3>1, <1>3 DEF IInv, Types, WireOK
    <3>2. CASE d = c
      <4>1. chan'[c] = Tail(chan[c])
        BY <1>3 DEF IInv, Types
      <4>2. \A i \in DOMAIN chan'[c] : i + 1 \in DOMAIN chan[c] /\ chan'[c][i] = chan[c][i + 1]
        BY <4>1, <2>1
      <4> QED
        BY <3>2, <4>2 DEF IInv, WireOK
    <3> QED
      BY <3>1, <3>2
  <2>7. chan' \in [Client -> Seq(EventFrame)]
    BY <1>3, <2>1 DEF IInv, Types
  <2>8. Types'
    BY <1>1, <1>3, <2>4, <2>7 DEF IInv, Types, server
  <2>9. ASSUME NEW d \in Client PROVE WireOK(d)'
    BY <1>1, <1>3, <2>5, <2>6 DEF IInv, WireOK, server
  <2> QED
    BY <2>4, <2>8, <2>9 DEF IInv
<1> QED
  BY <1>2, <1>3 DEF Deliver

\* A connection is lost or closed.
LEMMA HangupOK == ASSUME IInv, NEW c \in Client, Hangup(c) PROVE IInv'
<1>1. /\ out' = [out EXCEPT ![c] = <<>>] /\ chan' = [chan EXCEPT ![c] = <<>>]
      /\ subs' = subs \ {c} /\ online' = online \ {c} /\ UNCHANGED <<server, client>>
  BY DEF Hangup
<1>2. Types'
  BY <1>1 DEF IInv, Types, server, client
<1>3. ASSUME NEW d \in Client PROVE ScreenOK(d)'
  BY <1>1 DEF IInv, ScreenOK, client
<1>4. ASSUME NEW d \in Client PROVE WireOK(d)'
  <2>1. CASE d # c
    <3>1. out'[d] = out[d] /\ chan'[d] = chan[d]
      BY <2>1, <1>1 DEF IInv, Types
    <3> QED
      BY <2>1, <3>1, <1>1 DEF IInv, WireOK, Source, Greeting, server, client
  <2>2. CASE d = c
    <3>1. out'[c] = <<>> /\ chan'[c] = <<>> /\ c \notin subs'
      BY <1>1 DEF IInv, Types
    <3> QED
      BY <2>2, <3>1 DEF WireOK
  <2> QED
    BY <2>1, <2>2
<1> QED
  BY <1>2, <1>3, <1>4 DEF IInv

\* An attach: the hello and the backlog of the current process.
LEMMA ConnectOK == ASSUME IInv, NEW c \in Client, Connect(c) PROVE IInv'
<1> DEFINE back == Since(buf, Clamp(lastSeq[c]))
           wire == <<Hello(epoch)>> \o [i \in DOMAIN back |-> Event(epoch, back[i])]
<1>1. /\ out' = [out EXCEPT ![c] = wire] /\ chan' = [chan EXCEPT ![c] = <<>>]
      /\ online' = online \cup {c} /\ subs' \subseteq subs \cup {c}
      /\ live # "up" => subs' = subs
      /\ UNCHANGED <<server, client>>
  BY DEF Connect
<1>2. back \in Seq(Nat)
  <2> DEFINE S == {i \in DOMAIN buf : buf[i] <= Clamp(lastSeq[c])}
  <2>1. buf \in Seq(Nat) /\ DOMAIN buf = 1..Len(buf) /\ Len(buf) \in Nat
    BY DEF IInv, Types
  <2>2. IsFiniteSet(1..Len(buf)) /\ S \subseteq 1..Len(buf)
    BY <2>1, FS_Interval
  <2>3. Cardinality(S) \in Nat
    BY <2>2, FS_Subset, FS_CardinalityType
  <2> HIDE DEF S
  <2>4. SubSeq(buf, Cardinality(S) + 1, Len(buf)) \in Seq(Nat)
    BY <2>1, <2>3
  <2> QED
    BY <2>4 DEF Since, S
<1> HIDE DEF back
<1>3. /\ wire \in Seq(EventFrame \cup HelloFrame) /\ wire # <<>>
      /\ wire[1] = Hello(epoch) /\ Head(wire) = Hello(epoch)
      /\ \A i \in DOMAIN wire : wire[i].epoch = epoch
      /\ \A i \in DOMAIN wire : i > 1 => wire[i].t = "event"
  <2>1. epoch \in Epoch /\ epoch \in Nat
    BY DEF IInv, Types, Epoch
  <2> DEFINE evs == [i \in DOMAIN back |-> Event(epoch, back[i])]
  <2>2. \A i \in DOMAIN back : back[i] \in Nat
    BY <1>2
  <2>3. /\ evs \in Seq(EventFrame) /\ DOMAIN evs = 1..Len(back) /\ Len(evs) = Len(back)
        /\ \A i \in DOMAIN evs : evs[i].t = "event" /\ evs[i].epoch = epoch
    <3>1. \A i \in DOMAIN back : /\ Event(epoch, back[i]) \in EventFrame
                                /\ Event(epoch, back[i]).t = "event"
                                /\ Event(epoch, back[i]).epoch = epoch
      BY <2>1, <2>2, Frames
    <3>2. DOMAIN back = 1..Len(back) /\ Len(back) \in Nat
      BY <1>2
    <3> QED
      BY <3>1, <3>2
  <2>4. <<Hello(epoch)>> \in Seq(HelloFrame) /\ Hello(epoch).epoch = epoch
    BY <2>1, Frames
  <2> HIDE DEF evs
  <2>5. wire = <<Hello(epoch)>> \o evs
    BY DEF evs
  <2> HIDE DEF wire
  <2>6. /\ Len(wire) = 1 + Len(evs) /\ wire[1] = Hello(epoch)
        /\ wire \in Seq(EventFrame \cup HelloFrame)
        /\ \A i \in DOMAIN wire : i > 1 => i - 1 \in DOMAIN evs /\ wire[i] = evs[i - 1]
    BY <2>3, <2>4, <2>5
  <2> QED
    BY <2>3, <2>4, <2>6
<1> HIDE DEF wire
<1>4. Types'
  BY SMTT(30), <1>1, <1>3 DEF IInv, Types, server, client
<1>5. ASSUME NEW d \in Client PROVE ScreenOK(d)'
  BY <1>1 DEF IInv, ScreenOK, client
<1>6. ASSUME NEW d \in Client PROVE WireOK(d)'
  <2>1. CASE d # c
    <3>1. out'[d] = out[d] /\ chan'[d] = chan[d] /\ (d \in subs' => d \in subs)
      BY <2>1, <1>1 DEF IInv, Types
    <3>2. Source(d)' = Source(d)
      BY <3>1, <1>1 DEF Source, Greeting, client
    <3> QED
      BY <3>1, <3>2, <1>1 DEF IInv, WireOK, server
  <2>2. CASE d = c
    <3>1. out'[c] = wire /\ chan'[c] = <<>>
      BY <1>1 DEF IInv, Types
    <3>2. Source(c)' = epoch
      <4>1. Hello(epoch).t = "hello" /\ Hello(epoch).epoch = epoch
        BY Frames DEF IInv, Types, Epoch
      <4> QED
        BY <3>1, <1>3, <4>1 DEF Source, Greeting
    <3> QED
      BY <2>2, <3>1, <3>2, <1>1, <1>3 DEF WireOK, server
  <2> QED
    BY <2>1, <2>2
<1> QED
  BY <1>4, <1>5, <1>6 DEF IInv

\* Every step of the stream preserves the invariant.
LEMMA NextOK == IInv /\ [Next]_vars => IInv'
<1> SUFFICES ASSUME IInv, [Next]_vars PROVE IInv'
  OBVIOUS
<1>1. CASE Broadcast
  <2>1. seq' = seq + 1 /\ buf' = Add(buf, seq + 1)
    BY <1>1 DEF Broadcast
  <2>2. seq' \in Nat /\ buf' \in Seq(Nat)
    <3>1. RingCap \in Nat \ {0}
      BY ReplayAssumption
    <3>2. Len(buf) = RingCap => Tail(buf) \in Seq(Nat)
      BY <3>1 DEF IInv, Types
    <3> QED
      BY <2>1, <3>2 DEF IInv, Types, Add
  <2> QED
    BY <1>1, <2>1, <2>2, EmitOK DEF Broadcast, IInv, Types
<1>2. CASE BroadcastDelta
  <2>1. seq' \in Nat /\ buf' \in Seq(Nat)
    BY <1>2 DEF BroadcastDelta, server, IInv, Types
  <2> QED
    BY <1>2, <2>1, EmitOK DEF BroadcastDelta, server
<1>3. CASE DriverEnd
  BY <1>3 DEF DriverEnd, IInv, Types, ScreenOK, WireOK, Source, Greeting, client
<1>4. CASE Reap
  BY <1>4 DEF Reap, IInv, Types, ScreenOK, WireOK, Source, Greeting, client
<1>5. CASE Respawn
  <2>1. PICK n \in 0..MaxSeq : seq' = n /\ buf' = LastSeqs(n)
    BY <1>5 DEF Respawn
  <2>2. MaxSeq \in Nat /\ RingCap \in Nat
    BY ReplayAssumption
  <2>3. seq' \in Nat /\ buf' \in Seq(Nat)
    BY <2>1, <2>2 DEF LastSeqs
  <2>4. subs = {} /\ epoch' \in Epoch /\ live' = "up"
    BY <1>5 DEF Respawn, IInv, Types, Epoch
  <2> QED
    BY <1>5, <2>3, <2>4 DEF Respawn, IInv, Types, ScreenOK, WireOK, Source, Greeting, client
<1>6. ASSUME NEW c \in Client, Connect(c) PROVE IInv'
  BY <1>6, ConnectOK
<1>7. ASSUME NEW c \in Client, Deliver(c) PROVE IInv'
  BY <1>7, DeliverOK
<1>8. ASSUME NEW c \in Client, ServerHangup(c) \/ Drop(c) PROVE IInv'
  BY <1>8, HangupOK DEF ServerHangup, Drop
<1>9. CASE UNCHANGED vars
  BY <1>9 DEF vars, server, client, IInv, Types, ScreenOK, WireOK, Source, Greeting
<1> QED
  BY <1>1, <1>2, <1>3, <1>4, <1>5, <1>6, <1>7, <1>8, <1>9 DEF Next

\* Through lag drops, lost sockets and respawns a screen shows the events of
\* one process, each once and in order, whatever the bounds.
THEOREM ScreenAlwaysInOrder == Spec => []ScreenInOrder
<1>1. IInv => ScreenInOrder
  BY DEF IInv, ScreenOK, ScreenInOrder
<1> QED
  BY InitOK, NextOK, <1>1, PTL DEF Spec

-----------------------------------------------------------------------------
(* The ring *)

Kept(n) == IF n < RingCap THEN n ELSE RingCap

\* The ring holds the last numbers, as many as it has room for.
LEMMA RingHolds ==
    ASSUME NEW n \in Nat, NEW top \in Nat, n <= top
    PROVE  /\ Kept(n) \in 0..n /\ (n > 0 => Kept(n) > 0)
           /\ LastSeqs(n) \in Seq(1..top) /\ LastSeqs(n) \in Seq(Nat)
           /\ Len(LastSeqs(n)) = Kept(n) /\ DOMAIN LastSeqs(n) = 1..Kept(n)
           /\ \A i \in 1..Kept(n) : LastSeqs(n)[i] = n - Kept(n) + i
  <1>1. RingCap \in Nat \ {0}
    BY ReplayAssumption
  <1>2. Kept(n) \in 0..n /\ (n > 0 => Kept(n) > 0)
    BY <1>1 DEF Kept
  <1>3. LastSeqs(n) = [i \in 1..Kept(n) |-> n - Kept(n) + i]
    BY DEF LastSeqs, Kept
  <1>4. \A i \in 1..Kept(n) : n - Kept(n) + i \in 1..top
    BY <1>2
  <1> QED
    BY <1>2, <1>3, <1>4

\* One more event, and the oldest is gone once the ring is full.
LEMMA AddHolds ==
    ASSUME NEW n \in Nat
    PROVE  /\ Add(LastSeqs(n), n + 1) = LastSeqs(n + 1)
           /\ n - Kept(n) <= n + 1 - Kept(n + 1) /\ n + 1 - Kept(n + 1) <= n
  <1> DEFINE b == LastSeqs(n)
             d == LastSeqs(n + 1)
             a == Add(b, n + 1)
  <1>1. RingCap \in Nat \ {0}
    BY ReplayAssumption
  <1>2. /\ b \in Seq(Nat) /\ Len(b) = Kept(n) /\ \A i \in 1..Kept(n) : b[i] = n - Kept(n) + i
        /\ Kept(n) \in 0..n
    BY RingHolds
  <1>3. /\ d \in Seq(Nat) /\ Len(d) = Kept(n + 1)
        /\ \A i \in 1..Kept(n + 1) : d[i] = n + 1 - Kept(n + 1) + i
    <2>1. n + 1 \in Nat
      OBVIOUS
    <2> QED
      BY SMTT(30), <2>1, RingHolds
  <1> HIDE DEF b, d, a
  <1>4. CASE n < RingCap
    <2>1. Kept(n) = n /\ Kept(n + 1) = n + 1
      BY <1>1, <1>4 DEF Kept
    <2>2. a = Append(b, n + 1)
      BY <1>2, <1>4, <2>1 DEF Add, a
    <2>3. a \in Seq(Nat) /\ Len(a) = n + 1 /\ \A i \in 1..n + 1 : a[i] = d[i]
      BY <1>2, <1>3, <2>1, <2>2
    <2> QED
      BY SMTT(30), <1>2, <1>3, <2>1, <2>3 DEF b, d, a
  <1>5. CASE ~(n < RingCap)
    <2>1. Kept(n) = RingCap /\ Kept(n + 1) = RingCap
      BY <1>1, <1>5 DEF Kept
    <2>2. a = Append(Tail(b), n + 1) /\ b # <<>>
      BY <1>1, <1>2, <2>1 DEF Add, a
    <2>3. /\ Tail(b) \in Seq(Nat) /\ Len(Tail(b)) = RingCap - 1
          /\ \A i \in 1..RingCap - 1 : Tail(b)[i] = n + 1 - RingCap + i
      BY <1>1, <1>2, <2>1, <2>2
    <2>4. a \in Seq(Nat) /\ Len(a) = RingCap /\ \A i \in 1..RingCap : a[i] = d[i]
      <3>1. /\ a \in Seq(Nat) /\ Len(a) = RingCap /\ a[RingCap] = n + 1
            /\ \A i \in 1..RingCap - 1 : a[i] = Tail(b)[i]
        BY <1>1, <2>2, <2>3
      <3>2. \A i \in 1..RingCap : d[i] = n + 1 - RingCap + i
        BY <1>1, <1>3, <2>1
      <3>3. \A i \in 1..RingCap : i \in 1..RingCap - 1 \/ i = RingCap
        BY <1>1
      <3> QED
        BY SMTT(30), <1>1, <2>3, <3>1, <3>2, <3>3
    <2> QED
      BY <1>1, <1>2, <1>3, <1>5, <2>1, <2>4 DEF b, d, a
  <1> QED
    BY <1>4, <1>5

\* Where a replay begins: after the mark, or after what the ring has lost.
Low(n, mark) == IF mark < n - Kept(n) THEN n - Kept(n) ELSE mark

\* What is replayed is every number above that, in order.
LEMMA SinceHolds ==
    ASSUME NEW n \in Nat, NEW mark \in 0..n
    PROVE  LET s == Since(LastSeqs(n), mark)
           IN  /\ Low(n, mark) \in 0..n
               /\ s \in Seq(Nat) /\ Len(s) = n - Low(n, mark) /\ DOMAIN s = 1..n - Low(n, mark)
               /\ \A i \in 1..n - Low(n, mark) : s[i] = Low(n, mark) + i
  <1> DEFINE b == LastSeqs(n)
             m == Low(n, mark) - (n - Kept(n))
             S == {i \in DOMAIN b : b[i] <= mark}
  <1>1. /\ b \in Seq(Nat) /\ Len(b) = Kept(n) /\ DOMAIN b = 1..Kept(n) /\ Kept(n) \in 0..n
        /\ \A i \in 1..Kept(n) : b[i] = n - Kept(n) + i
    BY RingHolds
  <1> HIDE DEF b
  <1>2. Low(n, mark) \in 0..n /\ m \in 0..Kept(n)
    BY <1>1 DEF Low
  <1>3. S = 1..m
    BY <1>1, <1>2 DEF Low
  <1> HIDE DEF m, S
  <1>4. Cardinality(S) = m
    BY <1>2, <1>3, FS_Interval
  <1>5. Since(b, mark) = SubSeq(b, m + 1, Kept(n))
    BY <1>1, <1>4 DEF Since, S
  <1>6. /\ SubSeq(b, m + 1, Kept(n)) \in Seq(Nat)
        /\ Len(SubSeq(b, m + 1, Kept(n))) = Kept(n) - m
        /\ \A i \in 1..Kept(n) - m : SubSeq(b, m + 1, Kept(n))[i] = b[m + i]
    BY <1>1, <1>2
  <1>7. Kept(n) - m = n - Low(n, mark)
    BY <1>1, <1>2 DEF m
  <1>8. \A i \in 1..Kept(n) - m : b[m + i] = Low(n, mark) + i
    <2> SUFFICES ASSUME NEW i \in 1..Kept(n) - m PROVE b[m + i] = Low(n, mark) + i
      OBVIOUS
    <2>1. m + i \in 1..Kept(n)
      BY <1>1, <1>2
    <2> QED
      BY <1>1, <1>2, <2>1 DEF m
  <1> QED
    BY <1>2, <1>5, <1>6, <1>7, <1>8 DEF b

-----------------------------------------------------------------------------
(* Types *)

\* What a frame of the bounded instance is.
LEMMA FrameTypes ==
    /\ \A e \in 1..MaxEpoch : Hello(e) \in Frame
    /\ \A e \in 1..MaxEpoch, n \in 0..MaxSeq : Event(e, n) \in Frame
    /\ \A f \in Frame : /\ f.epoch \in 1..MaxEpoch
                        /\ f.t # "hello" => f.seq \in 0..MaxSeq
  <1>1. MaxSeq \in Nat /\ MaxEpoch \in Nat
    BY ReplayAssumption
  <1>2. \A e \in 1..MaxEpoch : Hello(e) \in Frame
    BY DEF Frame
  <1>3. \A e \in 1..MaxEpoch, n \in 0..MaxSeq : Event(e, n) \in Frame
    BY DEF Frame
  <1>4. ASSUME NEW f \in Frame PROVE f.epoch \in 1..MaxEpoch /\ (f.t # "hello" => f.seq \in 0..MaxSeq)
    <2>1. CASE \E e \in 1..MaxEpoch : f = Hello(e)
      BY <2>1 DEF Hello
    <2>2. CASE \E e \in 1..MaxEpoch, n \in 0..MaxSeq : f = Event(e, n)
      BY <2>2 DEF Event
    <2> QED
      BY <2>1, <2>2 DEF Frame
  <1> QED
    BY <1>2, <1>3, <1>4

LEMMA EmitTyped ==
    ASSUME TypeOK, NEW ev \in Frame, Emit(ev)
    PROVE  /\ subs' \subseteq subs
           /\ chan' \in [Client -> Seq(Frame)] /\ \A c \in Client : Len(chan'[c]) <= SubBuf
  <1> DEFINE fits == {c \in subs : Len(chan[c]) < SubBuf}
  <1>1. subs' = fits /\ chan' = [c \in Client |-> IF c \in fits THEN Append(chan[c], ev) ELSE chan[c]]
    BY DEF Emit
  <1>2. ASSUME NEW c \in Client
        PROVE  /\ chan[c] \in Seq(Frame) /\ Append(chan[c], ev) \in Seq(Frame)
               /\ Len(Append(chan[c], ev)) = Len(chan[c]) + 1 /\ Len(chan[c]) \in Nat
    BY DEF TypeOK
  <1>3. SubBuf \in Nat
    BY ReplayAssumption
  <1> QED
    BY <1>1, <1>2, <1>3 DEF TypeOK

LEMMA ApplyTyped ==
    ASSUME TypeOK, NEW c \in Client, NEW f \in Frame, Apply(c, f)
    PROVE  /\ known' \in [Client -> 0..MaxEpoch] /\ lastSeq' \in [Client -> 0..MaxSeq]
           /\ items' \in [Client -> Seq(Frame)]
  <1>1. MaxSeq \in Nat /\ MaxEpoch \in Nat
    BY ReplayAssumption
  <1>2. CASE f.t = "hello"
    <2>1. f.epoch \in 0..MaxEpoch /\ 0 \in 0..MaxSeq /\ <<>> \in Seq(Frame)
      BY <1>1, FrameTypes
    <2> QED
      BY <1>2, <2>1 DEF Apply, OnHello, TypeOK
  <1>3. CASE f.t # "hello"
    <2>1. f.seq \in 0..MaxSeq /\ Append(items[c], f) \in Seq(Frame)
      BY <1>3, FrameTypes DEF TypeOK
    <2> QED
      BY <1>3, <2>1 DEF Apply, OnEvent, TypeOK
  <1> QED
    BY <1>2, <1>3

LEMMA ConnectTyped ==
    ASSUME TypeOK, NEW c \in Client, Connect(c)
    PROVE  TypeOK'
  <1> DEFINE back == Since(buf, Clamp(lastSeq[c]))
             evs == [i \in DOMAIN back |-> Event(epoch, back[i])]
  <1>1. MaxSeq \in Nat /\ MaxEpoch \in Nat /\ SubBuf \in Nat
    BY ReplayAssumption
  <1>2. seq \in 0..MaxSeq /\ seq \in Nat /\ Clamp(lastSeq[c]) \in 0..seq /\ buf = LastSeqs(seq)
    BY <1>1 DEF TypeOK, Clamp
  <1>3. /\ back \in Seq(Nat) /\ DOMAIN back = 1..Len(back) /\ Len(back) \in Nat
        /\ \A i \in DOMAIN back : back[i] \in 0..MaxSeq
    <2> DEFINE low == Low(seq, Clamp(lastSeq[c]))
    <2>1. /\ low \in 0..seq /\ back \in Seq(Nat) /\ Len(back) = seq - low /\ DOMAIN back = 1..seq - low
          /\ \A i \in 1..seq - low : back[i] = low + i
      BY <1>2, SinceHolds
    <2> HIDE DEF low, back
    <2> QED
      BY <1>1, <1>2, <2>1
  <1> HIDE DEF back
  <1>4. evs \in Seq(Frame)
    <2>1. \A i \in DOMAIN back : Event(epoch, back[i]) \in Frame
      BY <1>3, FrameTypes DEF TypeOK
    <2> QED
      BY <1>3, <2>1
  <1>5. <<Hello(epoch)>> \o evs \in Seq(Frame)
    BY <1>4, FrameTypes DEF TypeOK
  <1>6. /\ out' = [out EXCEPT ![c] = <<Hello(epoch)>> \o evs] /\ chan' = [chan EXCEPT ![c] = <<>>]
        /\ online' = online \cup {c} /\ subs' \subseteq subs \cup {c}
        /\ UNCHANGED <<server, client, drops, deltas>>
    BY DEF Connect, back
  <1> HIDE DEF evs
  <1>7. out' \in [Client -> Seq(Frame)]
    BY <1>5, <1>6 DEF TypeOK
  <1>8. chan' \in [Client -> Seq(Frame)] /\ \A d \in Client : Len(chan'[d]) <= SubBuf
    <2>1. <<>> \in Seq(Frame) /\ Len(<<>>) = 0
      OBVIOUS
    <2> QED
      BY <1>1, <1>6, <2>1 DEF TypeOK
  <1> QED
    BY <1>6, <1>7, <1>8 DEF TypeOK, server, client

LEMMA DeliverTyped ==
    ASSUME TypeOK, NEW c \in Client, Deliver(c)
    PROVE  TypeOK'
  <1>1. CASE out[c] # <<>> /\ Apply(c, Head(out[c])) /\ out' = [out EXCEPT ![c] = Tail(@)] /\ UNCHANGED chan
    <2>1. Head(out[c]) \in Frame /\ Tail(out[c]) \in Seq(Frame)
      BY <1>1 DEF TypeOK
    <2> QED
      BY <1>1, <2>1, ApplyTyped DEF Deliver, TypeOK, server
  <1>2. CASE chan[c] # <<>> /\ Apply(c, Head(chan[c])) /\ chan' = [chan EXCEPT ![c] = Tail(@)] /\ UNCHANGED out
    <2>1. /\ Head(chan[c]) \in Frame /\ Tail(chan[c]) \in Seq(Frame)
          /\ Len(Tail(chan[c])) = Len(chan[c]) - 1 /\ Len(chan[c]) \in Nat /\ SubBuf \in Nat
      BY SMTT(30), <1>2, ReplayAssumption DEF TypeOK
    <2>2. chan' \in [Client -> Seq(Frame)] /\ \A d \in Client : Len(chan'[d]) <= SubBuf
      BY SMTT(30), <1>2, <2>1 DEF TypeOK
    <2> QED
      BY <1>2, <2>1, <2>2, ApplyTyped DEF Deliver, TypeOK, server
  <1> QED
    BY <1>1, <1>2 DEF Deliver

LEMMA HangupTyped ==
    ASSUME TypeOK, NEW c \in Client, Hangup(c), drops' \in 0..MaxDrop
    PROVE  TypeOK'
  <1>1. /\ out' = [out EXCEPT ![c] = <<>>] /\ chan' = [chan EXCEPT ![c] = <<>>]
        /\ subs' = subs \ {c} /\ online' = online \ {c} /\ UNCHANGED <<server, client, deltas>>
    BY DEF Hangup
  <1>2. <<>> \in Seq(Frame) /\ Len(<<>>) = 0 /\ SubBuf \in Nat
    BY ReplayAssumption
  <1>3. chan' \in [Client -> Seq(Frame)] /\ \A d \in Client : Len(chan'[d]) <= SubBuf
    BY <1>1, <1>2 DEF TypeOK
  <1> QED
    BY <1>1, <1>2, <1>3 DEF TypeOK, server, client

LEMMA TypeInit == Init => TypeOK
  <1> SUFFICES ASSUME Init PROVE TypeOK
    OBVIOUS
  <1>1. /\ {RingCap, SubBuf, MaxSeq, MaxEpoch} \subseteq Nat \ {0} /\ {MaxDrop, MaxDelta} \subseteq Nat
    BY ReplayAssumption
  <1>2. LastSeqs(0) = <<>>
    BY RingHolds
  <1> QED
    BY <1>1, <1>2 DEF Init, TypeOK

LEMMA TypeNext == TypeOK /\ [Next]_vars => TypeOK'
  <1> SUFFICES ASSUME TypeOK, [Next]_vars PROVE TypeOK'
    OBVIOUS
  <1>1. /\ MaxSeq \in Nat /\ MaxEpoch \in Nat /\ MaxDrop \in Nat /\ MaxDelta \in Nat
    BY ReplayAssumption
  <1>2. CASE Broadcast
    <2>1. seq \in Nat /\ seq + 1 \in 0..MaxSeq /\ buf' = LastSeqs(seq + 1)
      BY <1>1, <1>2, AddHolds DEF Broadcast, TypeOK
    <2>2. buf' \in Seq(1..MaxSeq)
      <3>1. LastSeqs(seq + 1) \in Seq(1..MaxSeq)
        BY <1>1, <2>1, RingHolds
      <3> QED
        BY <2>1, <3>1
    <2>3. Event(epoch, seq + 1) \in Frame
      BY <2>1, FrameTypes DEF TypeOK
    <2> QED
      BY <1>2, <2>1, <2>2, <2>3, EmitTyped DEF Broadcast, TypeOK, client
  <1>3. CASE BroadcastDelta
    <2>1. Event(epoch, 0) \in Frame
      BY <1>1, FrameTypes DEF TypeOK
    <2> QED
      BY <1>1, <1>3, <2>1, EmitTyped DEF BroadcastDelta, TypeOK, server, client
  <1>4. CASE DriverEnd \/ Reap
    BY <1>4 DEF DriverEnd, Reap, TypeOK, client
  <1>5. CASE Respawn
    <2>1. PICK n \in 0..MaxSeq : seq' = n /\ buf' = LastSeqs(n)
      BY <1>5 DEF Respawn
    <2>2. LastSeqs(n) \in Seq(1..MaxSeq)
      BY <1>1, RingHolds
    <2> QED
      BY <1>1, <1>5, <2>1, <2>2 DEF Respawn, TypeOK, client
  <1>6. ASSUME NEW c \in Client, Connect(c) PROVE TypeOK'
    BY <1>6, ConnectTyped
  <1>7. ASSUME NEW c \in Client, Deliver(c) PROVE TypeOK'
    BY <1>7, DeliverTyped
  <1>8. ASSUME NEW c \in Client, ServerHangup(c) \/ Drop(c) PROVE TypeOK'
    <2>1. Hangup(c)
      BY <1>8 DEF ServerHangup, Drop
    <2>2. drops' \in 0..MaxDrop
      BY <1>1, <1>8 DEF ServerHangup, Drop, TypeOK
    <2> QED
      BY <2>1, <2>2, HangupTyped
  <1>9. CASE UNCHANGED vars
    BY <1>9 DEF vars, server, client, TypeOK
  <1> QED
    BY <1>2, <1>3, <1>4, <1>5, <1>6, <1>7, <1>8, <1>9 DEF Next

\* The ring holds the last numbers issued, as many as fit, and no channel is
\* longer than subChanBuf, whatever the bounds.
THEOREM StreamIsTyped == Spec => []TypeOK
  BY TypeInit, TypeNext, PTL DEF Spec

-----------------------------------------------------------------------------
(* Numbers on their way *)

\* The mark the client will have when it reads the next event: a hello of
\* another process than the one it knows clears it.
Mark(c) == IF Greeting(c) /\ known[c] \notin {0, Source(c)} THEN 0 ELSE lastSeq[c]

\* The indices of the events in the backlog.
Backlog(c) == {i \in DOMAIN out[c] : out[c][i].t = "event"}

\* Processes come one after the other, and a mark is one of a known process.
Epochal(c) ==
    /\ known[c] <= Source(c) /\ Source(c) <= epoch
    /\ known[c] = 0 => lastSeq[c] = 0

\* What the client will read is above its mark and ascends, tokens apart.
Ascending(c) ==
    /\ \A i \in Backlog(c) : Mark(c) < out[c][i].seq
    /\ \A i, j \in Backlog(c) : i < j => out[c][i].seq < out[c][j].seq
    /\ \A i \in DOMAIN chan[c] : chan[c][i].seq > 0 =>
         Mark(c) < chan[c][i].seq /\ \A j \in Backlog(c) : out[c][j].seq < chan[c][i].seq
    /\ \A i, j \in DOMAIN chan[c] : i < j /\ chan[c][j].seq > 0 => chan[c][i].seq < chan[c][j].seq

\* Of the current process nothing is under way that it has not numbered yet.
Issued(c) ==
    Source(c) = epoch =>
        /\ Mark(c) <= seq
        /\ \A i \in Backlog(c) : out[c][i].seq <= seq
        /\ \A i \in DOMAIN chan[c] : chan[c][i].seq <= seq

Ahead(c) == Epochal(c) /\ Ascending(c) /\ Issued(c)

AInv == IInv /\ TypeOK /\ \A c \in Client : Ahead(c)

\* Two queues, one after the other.
LEMMA Joined ==
    ASSUME NEW S, NEW p \in Seq(S), NEW q \in Seq(S)
    PROVE  /\ p \o q \in Seq(S) /\ Len(p \o q) = Len(p) + Len(q)
           /\ \A i \in DOMAIN p : i \in DOMAIN (p \o q) /\ (p \o q)[i] = p[i]
           /\ \A i \in DOMAIN q : Len(p) + i \in DOMAIN (p \o q) /\ (p \o q)[Len(p) + i] = q[i]
           /\ p # <<>> => 1 \in DOMAIN p /\ Head(p) = p[1] /\ Head(p \o q) = p[1]
  <1>1. /\ p \o q \in Seq(S) /\ Len(p \o q) = Len(p) + Len(q)
        /\ \A i \in 1..Len(p) + Len(q) : (p \o q)[i] = IF i <= Len(p) THEN p[i] ELSE q[i - Len(p)]
    BY ConcatProperties
  <1>2. /\ Len(p) \in Nat /\ Len(q) \in Nat /\ DOMAIN p = 1..Len(p) /\ DOMAIN q = 1..Len(q)
        /\ p # <<>> => Len(p) > 0
    OBVIOUS
  <1> DEFINE r == p \o q
  <1>3. r \in Seq(S) /\ Len(r) = Len(p) + Len(q)
    BY <1>1
  <1>4. \A i \in 1..Len(p) + Len(q) : r[i] = IF i <= Len(p) THEN p[i] ELSE q[i - Len(p)]
    BY <1>1
  <1> HIDE DEF r
  <1>5. DOMAIN r = 1..Len(p) + Len(q) /\ (p # <<>> => Head(r) = r[1])
    BY <1>2, <1>3
  <1>6. \A i \in DOMAIN p : i \in DOMAIN r /\ r[i] = p[i]
    BY <1>2, <1>4, <1>5
  <1>7. \A i \in DOMAIN q : Len(p) + i \in DOMAIN r /\ r[Len(p) + i] = q[i]
    <2> SUFFICES ASSUME NEW i \in DOMAIN q PROVE Len(p) + i \in DOMAIN r /\ r[Len(p) + i] = q[i]
      OBVIOUS
    <2>1. Len(p) + i \in 1..Len(p) + Len(q) /\ ~(Len(p) + i <= Len(p)) /\ Len(p) + i - Len(p) = i
      BY <1>2
    <2> QED
      BY <1>4, <1>5, <2>1
  <1>8. p # <<>> => 1 \in DOMAIN p /\ Head(p) = p[1] /\ Head(r) = p[1]
    BY <1>2, <1>5, <1>6
  <1> QED
    BY <1>3, <1>6, <1>7, <1>8 DEF r

\* A queue without its head.
LEMMA TailIs ==
    ASSUME NEW S, NEW q \in Seq(S), q # <<>>
    PROVE  /\ Tail(q) \in Seq(S) /\ Head(q) = q[1] /\ 1 \in DOMAIN q
           /\ \A i \in DOMAIN Tail(q) : i \in Nat \ {0} /\ i + 1 \in DOMAIN q /\ Tail(q)[i] = q[i + 1]
           /\ \A i \in DOMAIN q : i \in Nat \ {0} /\ (i # 1 => i - 1 \in DOMAIN Tail(q))
  <1>1. Len(q) \in Nat \ {0} /\ DOMAIN q = 1..Len(q)
    OBVIOUS
  <1>2. Tail(q) \in Seq(S) /\ Len(Tail(q)) = Len(q) - 1 /\ DOMAIN Tail(q) = 1..Len(q) - 1
    BY <1>1
  <1>3. \A i \in 1..Len(q) - 1 : Tail(q)[i] = q[i + 1]
    BY <1>1
  <1> QED
    BY <1>1, <1>2, <1>3

\* What IInv says of the frames of one client.
LEMMA FrameKinds ==
    ASSUME IInv, NEW c \in Client
    PROVE  /\ chan[c] \in Seq(EventFrame) /\ \A i \in DOMAIN chan[c] : chan[c][i].seq \in Nat
           /\ out[c] \in Seq(EventFrame \cup HelloFrame)
           /\ \A i \in Backlog(c) : i \in DOMAIN out[c] /\ out[c][i] \in EventFrame /\ out[c][i].seq \in Nat
           /\ Source(c) \in Nat /\ Mark(c) \in Nat /\ epoch \in Nat /\ seq \in Nat
           /\ known[c] \in Nat /\ lastSeq[c] \in Nat
  <1>1. chan[c] \in Seq(EventFrame) /\ out[c] \in Seq(EventFrame \cup HelloFrame)
    BY DEF IInv, Types
  <1>2. \A f \in EventFrame : f.seq \in Nat /\ f.epoch \in Nat
    BY DEF EventFrame, Epoch
  <1>3. \A f \in HelloFrame : f.t = "hello" /\ f.epoch \in Nat
    BY DEF HelloFrame, Epoch
  <1>4. \A i \in DOMAIN chan[c] : chan[c][i] \in EventFrame
    BY <1>1
  <1>5. \A i \in DOMAIN out[c] : out[c][i] \in EventFrame \cup HelloFrame
    BY <1>1
  <1>6. Source(c) \in Nat
    <2>1. out[c] # <<>> => Head(out[c]) \in EventFrame \cup HelloFrame
      BY <1>1
    <2> QED
      BY <2>1, <1>2, <1>3 DEF Source, Greeting, IInv, Types
  <1> QED
    BY <1>1, <1>2, <1>3, <1>4, <1>5, <1>6 DEF Backlog, Mark, IInv, Types, Epoch

\* A client nothing happens to stays where it is, while the session goes on.
LEMMA SameAhead ==
    ASSUME IInv, NEW c \in Client, Ahead(c), UNCHANGED <<out[c], chan[c], known[c], lastSeq[c], epoch>>,
           seq' \in Nat, seq <= seq'
    PROVE  Ahead(c)'
  <1>1. Source(c)' = Source(c) /\ Mark(c)' = Mark(c) /\ Backlog(c)' = Backlog(c)
    BY DEF Source, Greeting, Mark, Backlog
  <1>2. /\ \A i \in DOMAIN chan[c] : chan[c][i].seq \in Nat
        /\ \A i \in Backlog(c) : out[c][i].seq \in Nat
        /\ Mark(c) \in Nat /\ seq \in Nat
    BY FrameKinds
  <1> QED
    BY <1>1, <1>2 DEF Ahead, Epochal, Ascending, Issued

\* An event that is fanned out is numbered after all that is under way, and a
\* token not at all.
LEMMA EmitAhead ==
    ASSUME AInv, live = "up", NEW n \in Nat, n \in {0, seq + 1}, Emit(Event(epoch, n)),
           UNCHANGED <<epoch, out, online, client>>, seq' \in Nat, seq <= seq', n <= seq',
           NEW c \in Client
    PROVE  Ahead(c)'
  <1> DEFINE ev == Event(epoch, n)
  <1>1. CASE chan'[c] = chan[c]
    BY <1>1, SameAhead DEF AInv, client
  <1>2. CASE c \in subs /\ chan'[c] = Append(chan[c], ev)
    <2>1. ev.seq = n
      BY DEF Event
    <2> HIDE DEF ev
    <2>2. Source(c)' = Source(c) /\ Mark(c)' = Mark(c) /\ Backlog(c)' = Backlog(c) /\ Source(c) = epoch
      BY <1>2 DEF Source, Greeting, Mark, Backlog, client, AInv, IInv, WireOK
    <2>3. /\ chan[c] \in Seq(EventFrame) /\ \A i \in DOMAIN chan[c] : chan[c][i].seq \in Nat
          /\ \A i \in Backlog(c) : out[c][i].seq \in Nat
          /\ Mark(c) \in Nat /\ seq \in Nat
      BY FrameKinds DEF AInv
    <2>4. \A i \in DOMAIN chan'[c] :
             \/ i \in DOMAIN chan[c] /\ chan'[c][i].seq = chan[c][i].seq
             \/ i = Len(chan[c]) + 1 /\ chan'[c][i].seq = n
      BY <1>2, <2>1, <2>3
    <2>5. \A i \in DOMAIN chan[c] : i \in 1..Len(chan[c]) /\ Len(chan[c]) \in Nat
      BY <2>3
    <2>6. Epochal(c)' /\ out'[c] = out[c]
      BY <2>2 DEF AInv, Ahead, Epochal, client
    <2>7. Issued(c) /\ Ascending(c)
      BY DEF AInv, Ahead
    <2>8. Issued(c)'
      BY SMTT(30), <2>2, <2>3, <2>4, <2>6, <2>7 DEF Issued
    <2>9. \A i \in DOMAIN chan'[c] : chan'[c][i].seq > 0 =>
             Mark(c) < chan'[c][i].seq /\ \A j \in Backlog(c) : out[c][j].seq < chan'[c][i].seq
      BY SMTT(30), <2>2, <2>3, <2>4, <2>7 DEF Issued, Ascending
    <2>10. \A i, j \in DOMAIN chan'[c] : i < j /\ chan'[c][j].seq > 0 => chan'[c][i].seq < chan'[c][j].seq
      BY SMTT(30), <2>2, <2>3, <2>4, <2>5, <2>7 DEF Issued, Ascending
    <2> QED
      BY <2>2, <2>6, <2>7, <2>8, <2>9, <2>10 DEF Ahead, Ascending
  <1> QED
    BY <1>1, <1>2 DEF Emit, AInv, IInv, Types

\* A hello is read: the mark is the one that was to be expected.
LEMMA HelloAhead ==
    ASSUME AInv, NEW c \in Client, Greeting(c), OnHello(c, Head(out[c]).epoch),
           out' = [out EXCEPT ![c] = Tail(@)], UNCHANGED <<server, chan>>, IInv'
    PROVE  Ahead(c)'
  <1>1. /\ out[c] \in Seq(EventFrame \cup HelloFrame) /\ out[c] # <<>> /\ out'[c] = Tail(out[c])
        /\ Head(out[c]).epoch = Source(c) /\ out[c][1].t = "hello"
    BY FrameKinds DEF AInv, IInv, Types, Greeting, Source
  <1>2. known'[c] = Source(c) /\ lastSeq'[c] = Mark(c)
    BY <1>1 DEF OnHello, Mark, AInv, IInv, Types
  <1>3. \A i \in DOMAIN out'[c] : i \in Nat \ {0} /\ i + 1 \in DOMAIN out[c] /\ out'[c][i] = out[c][i + 1]
    BY ZenonT(30), <1>1, TailIs
  <1>4. ~Greeting(c)'
    <2>1. \A i \in DOMAIN out[c] : i > 1 => out[c][i].t = "event"
      BY DEF AInv, IInv, WireOK
    <2>2. out'[c] # <<>> => 1 \in DOMAIN out'[c] /\ Head(out'[c]) = out'[c][1]
      BY <1>1
    <2>3. \A i \in DOMAIN out'[c] : i + 1 > 1
      BY <1>3
    <2> QED
      BY <1>3, <2>1, <2>2, <2>3 DEF Greeting
  <1>5. Source(c)' = Source(c) /\ Mark(c)' = Mark(c)
    BY <1>2, <1>4 DEF Source, Mark
  <1>6. /\ \A i \in Backlog(c)' : i + 1 \in Backlog(c) /\ out'[c][i] = out[c][i + 1]
        /\ \A i, j \in Backlog(c)' : i < j => i + 1 < j + 1
    BY <1>3 DEF Backlog
  <1>7. Epochal(c) /\ Ascending(c) /\ Issued(c) /\ Source(c) \in Nat
    BY FrameKinds DEF AInv, Ahead
  <1>8. Epochal(c)'
    <2>1. Source(c) = 0 => lastSeq'[c] = 0
      BY <1>2, <1>7, FrameKinds DEF Mark, Epochal, AInv
    <2> QED
      BY <1>2, <1>5, <1>7, <2>1 DEF Epochal, server
  <1>9. Ascending(c)'
    <2>1. chan' = chan
      OBVIOUS
    <2>2. \A i \in Backlog(c)' : Mark(c) < out'[c][i].seq
      BY <1>6, <1>7 DEF Ascending
    <2>3. \A i, j \in Backlog(c)' : i < j => out'[c][i].seq < out'[c][j].seq
      BY <1>6, <1>7 DEF Ascending
    <2>4. \A i \in DOMAIN chan[c] : chan[c][i].seq > 0 =>
             Mark(c) < chan[c][i].seq /\ \A j \in Backlog(c)' : out'[c][j].seq < chan[c][i].seq
      BY <1>6, <1>7 DEF Ascending
    <2> QED
      BY <1>5, <1>7, <2>1, <2>2, <2>3, <2>4 DEF Ascending
  <1>10. Issued(c)'
    BY <1>5, <1>6, <1>7 DEF Issued, server
  <1> QED
    BY <1>8, <1>9, <1>10 DEF Ahead

\* An event is applied: the mark moves up to it, if it is numbered.
LEMMA EventMark ==
    ASSUME IInv, NEW c \in Client, NEW f, f.seq \in Nat, OnEvent(c, f)
    PROVE  /\ known' = known
           /\ lastSeq'[c] = IF f.seq > lastSeq[c] THEN f.seq ELSE lastSeq[c]
           /\ \A d \in Client : d # c => lastSeq'[d] = lastSeq[d]
  BY DEF OnEvent, IInv, Types

\* The backlog is read in order.
LEMMA BacklogAhead ==
    ASSUME AInv, NEW c \in Client, ~Greeting(c), out[c] # <<>>, OnEvent(c, Head(out[c])),
           out' = [out EXCEPT ![c] = Tail(@)], UNCHANGED <<server, chan>>, IInv'
    PROVE  Ahead(c)'
  <1>1. /\ out[c] \in Seq(EventFrame \cup HelloFrame) /\ out'[c] = Tail(out[c])
        /\ Head(out[c]) = out[c][1] /\ 1 \in DOMAIN out[c]
    BY FrameKinds DEF AInv, IInv, Types
  <1>2. 1 \in Backlog(c)
    BY <1>1 DEF Greeting, Backlog, EventFrame, HelloFrame
  <1>3. out[c][1].seq \in Nat /\ lastSeq[c] \in Nat /\ Mark(c) = lastSeq[c] /\ Source(c) = known[c]
    BY <1>2, FrameKinds DEF Mark, Source, AInv
  <1>4. Epochal(c) /\ Ascending(c) /\ Issued(c)
    BY DEF AInv, Ahead
  <1>5. known'[c] = known[c] /\ lastSeq'[c] = out[c][1].seq
    BY <1>1, <1>2, <1>3, <1>4, EventMark DEF Ascending, AInv
  <1>6. \A i \in DOMAIN out'[c] : i \in Nat \ {0} /\ i + 1 \in DOMAIN out[c] /\ out'[c][i] = out[c][i + 1]
    BY <1>1, TailIs
  <1>7. /\ \A i \in Backlog(c)' : i + 1 > 1 /\ i + 1 \in Backlog(c) /\ out'[c][i] = out[c][i + 1]
        /\ \A i, j \in Backlog(c)' : i < j => i + 1 < j + 1
    BY <1>6 DEF Backlog
  <1>8. ~Greeting(c)'
    <2>1. \A i \in DOMAIN out[c] : i > 1 => out[c][i].t = "event"
      BY DEF AInv, IInv, WireOK
    <2>2. out'[c] # <<>> => 1 \in DOMAIN out'[c] /\ Head(out'[c]) = out'[c][1]
      BY <1>1
    <2>3. \A i \in DOMAIN out'[c] : i + 1 > 1
      BY <1>6
    <2> QED
      BY <1>6, <2>1, <2>2, <2>3 DEF Greeting
  <1>9. Source(c)' = Source(c) /\ Mark(c)' = out[c][1].seq
    BY <1>3, <1>5, <1>8 DEF Source, Mark
  <1>10. known[c] # 0
    BY <1>2, <1>3, FrameKinds DEF AInv, IInv, WireOK, Backlog, EventFrame, Epoch
  <1>11. Epochal(c)'
    BY <1>4, <1>5, <1>9, <1>10 DEF Epochal, server
  <1>12. Ascending(c)'
    <2>1. \A i \in Backlog(c) : i > 1 => out[c][1].seq < out[c][i].seq
      BY <1>2, <1>4 DEF Ascending
    <2>2. \A i \in DOMAIN chan[c] : chan[c][i].seq > 0 => out[c][1].seq < chan[c][i].seq
      BY <1>2, <1>4 DEF Ascending
    <2>3. chan' = chan
      OBVIOUS
    <2>4. \A i \in Backlog(c)' : out[c][1].seq < out'[c][i].seq
      <3> SUFFICES ASSUME NEW i \in Backlog(c)' PROVE out[c][1].seq < out'[c][i].seq
        OBVIOUS
      <3>1. i + 1 \in Backlog(c) /\ i + 1 > 1 /\ out'[c][i] = out[c][i + 1]
        BY <1>7
      <3> QED
        BY <2>1, <3>1
    <2>5. \A i, j \in Backlog(c)' : i < j => out'[c][i].seq < out'[c][j].seq
      BY <1>4, <1>7 DEF Ascending
    <2>6. \A i \in DOMAIN chan[c] : chan[c][i].seq > 0 =>
             out[c][1].seq < chan[c][i].seq /\ \A j \in Backlog(c)' : out'[c][j].seq < chan[c][i].seq
      BY <1>4, <1>7, <2>2 DEF Ascending
    <2> QED
      BY <1>4, <1>9, <2>3, <2>4, <2>5, <2>6 DEF Ascending
  <1>13. Issued(c)'
    BY <1>2, <1>4, <1>7, <1>9 DEF Issued, server
  <1> QED
    BY <1>11, <1>12, <1>13 DEF Ahead

\* Then what was fanned out is, tokens and all.
LEMMA LiveAhead ==
    ASSUME AInv, NEW c \in Client, out[c] = <<>>, chan[c] # <<>>, OnEvent(c, Head(chan[c])),
           chan' = [chan EXCEPT ![c] = Tail(@)], UNCHANGED <<server, out>>
    PROVE  Ahead(c)'
  <1>1. /\ chan[c] \in Seq(EventFrame) /\ chan'[c] = Tail(chan[c])
        /\ Head(chan[c]) = chan[c][1] /\ 1 \in DOMAIN chan[c] /\ chan[c][1] \in EventFrame
    BY FrameKinds DEF AInv, IInv, Types
  <1>2. chan[c][1].seq \in Nat /\ chan[c][1].epoch \in Epoch /\ lastSeq[c] \in Nat
    BY <1>1, FrameKinds DEF EventFrame, AInv
  <1>3. Backlog(c) = {} /\ Backlog(c)' = {} /\ ~Greeting(c) /\ ~Greeting(c)'
    BY DEF Backlog, Greeting
  <1>4. Mark(c) = lastSeq[c] /\ Source(c) = known[c]
    BY <1>3 DEF Mark, Source
  <1>5. Epochal(c) /\ Ascending(c) /\ Issued(c)
    BY DEF AInv, Ahead
  <1>6. /\ known'[c] = known[c]
        /\ lastSeq'[c] = IF chan[c][1].seq > 0 THEN chan[c][1].seq ELSE lastSeq[c]
    BY <1>1, <1>2, <1>4, <1>5, EventMark DEF Ascending, AInv
  <1>7. Mark(c)' = lastSeq'[c] /\ Source(c)' = Source(c)
    BY <1>3, <1>4, <1>6 DEF Mark, Source
  <1>8. \A i \in DOMAIN chan'[c] : i \in Nat \ {0} /\ i + 1 \in DOMAIN chan[c] /\ chan'[c][i] = chan[c][i + 1]
    BY <1>1, TailIs
  <1>9. known[c] # 0
    BY <1>1, <1>2, <1>4 DEF AInv, IInv, WireOK, Epoch
  <1>10. Epochal(c)'
    BY <1>4, <1>5, <1>6, <1>7, <1>9 DEF Epochal, server
  <1>11. Ascending(c)'
    <2>1. \A i \in DOMAIN chan[c] : chan[c][i].seq \in Nat
      BY FrameKinds DEF AInv
    <2>2. \A i \in DOMAIN chan'[c] : chan'[c][i].seq > 0 => Mark(c)' < chan'[c][i].seq
      <3> SUFFICES ASSUME NEW i \in DOMAIN chan'[c], chan'[c][i].seq > 0 PROVE lastSeq'[c] < chan'[c][i].seq
        BY <1>7
      <3>1. i + 1 \in DOMAIN chan[c] /\ 1 < i + 1 /\ chan'[c][i] = chan[c][i + 1]
        BY <1>8
      <3>2. chan[c][1].seq < chan[c][i + 1].seq /\ lastSeq[c] < chan[c][i + 1].seq
        BY <1>1, <1>4, <1>5, <3>1 DEF Ascending
      <3> QED
        BY <1>6, <3>1, <3>2
    <2>3. \A i, j \in DOMAIN chan'[c] : i < j /\ chan'[c][j].seq > 0 => chan'[c][i].seq < chan'[c][j].seq
      BY <1>5, <1>8 DEF Ascending
    <2> QED
      BY <1>3, <2>2, <2>3 DEF Ascending
  <1>12. Issued(c)'
    BY <1>1, <1>3, <1>4, <1>5, <1>6, <1>7, <1>8 DEF Issued, server
  <1> QED
    BY <1>10, <1>11, <1>12 DEF Ahead

LEMMA DeliverAhead ==
    ASSUME AInv, NEW c \in Client, Deliver(c), IInv', NEW d \in Client
    PROVE  Ahead(d)'
  <1>1. CASE d # c
    <2>1. out'[d] = out[d] /\ chan'[d] = chan[d] /\ UNCHANGED server
      BY <1>1 DEF Deliver, AInv, IInv, Types
    <2>2. known'[d] = known[d] /\ lastSeq'[d] = lastSeq[d]
      <3>1. \A f : OnHello(c, f.epoch) => known'[d] = known[d] /\ lastSeq'[d] = lastSeq[d]
        BY <1>1 DEF OnHello, AInv, IInv, Types
      <3>2. \A f : OnEvent(c, f) => known'[d] = known[d] /\ lastSeq'[d] = lastSeq[d]
        BY <1>1 DEF OnEvent, AInv, IInv, Types
      <3> QED
        BY <3>1, <3>2 DEF Deliver, Apply
    <2>3. UNCHANGED <<out[d], chan[d], known[d], lastSeq[d], epoch, seq>>
      BY <2>1, <2>2 DEF server
    <2>4. seq \in Nat
      BY FrameKinds DEF AInv
    <2> QED
      BY <2>3, <2>4, SameAhead DEF AInv
  <1>2. CASE d = c /\ out[c] # <<>>
    <2>1. Apply(c, Head(out[c])) /\ out' = [out EXCEPT ![c] = Tail(@)] /\ UNCHANGED <<server, chan>>
      BY <1>2 DEF Deliver
    <2>2. CASE Head(out[c]).t = "hello"
      BY <1>2, <2>1, <2>2, HelloAhead DEF Apply, Greeting
    <2>3. CASE Head(out[c]).t # "hello"
      BY <1>2, <2>1, <2>3, BacklogAhead DEF Apply, Greeting
    <2> QED
      BY <2>2, <2>3
  <1>3. CASE d = c /\ out[c] = <<>>
    <2>1. /\ Apply(c, Head(chan[c])) /\ chan' = [chan EXCEPT ![c] = Tail(@)] /\ chan[c] # <<>>
          /\ UNCHANGED <<server, out>>
      BY <1>3 DEF Deliver
    <2>2. Head(chan[c]) \in EventFrame
      BY <2>1, FrameKinds DEF AInv
    <2>3. OnEvent(c, Head(chan[c]))
      BY <2>1, <2>2 DEF Apply, EventFrame
    <2> QED
      BY <1>3, <2>1, <2>3, LiveAhead
  <1> QED
    BY <1>1, <1>2, <1>3

\* A client that knows the current process has a mark that process gave.
LEMMA KnownMark ==
    ASSUME AInv, NEW c \in Client, known[c] = epoch
    PROVE  lastSeq[c] <= seq
  <1>1. known[c] <= Source(c) /\ Source(c) <= epoch /\ known[c] \in Nat /\ Source(c) \in Nat /\ epoch \in Nat
    BY FrameKinds DEF AInv, Ahead, Epochal
  <1>2. Source(c) = epoch /\ Mark(c) = lastSeq[c]
    BY <1>1 DEF Mark
  <1> QED
    BY <1>2 DEF AInv, Ahead, Issued

\* What an attach puts on the wire: the hello of the current process, and the
\* numbers from the mark or the ring's oldest up to the newest.
LEMMA ConnectWire ==
    ASSUME IInv, TypeOK, NEW c \in Client, Connect(c)
    PROVE  LET low == Low(seq, Clamp(lastSeq[c]))
           IN  /\ low \in 0..seq /\ Clamp(lastSeq[c]) <= low
               /\ Greeting(c)' /\ Source(c)' = epoch /\ chan'[c] = <<>>
               /\ Backlog(c)' = 2..(seq - low + 1)
               /\ \A i \in Backlog(c)' : out'[c][i].seq = low + i - 1
  <1> DEFINE back == Since(buf, Clamp(lastSeq[c]))
             evs == [i \in DOMAIN back |-> Event(epoch, back[i])]
             low == Low(seq, Clamp(lastSeq[c]))
  <1>1. seq \in Nat /\ lastSeq[c] \in Nat /\ epoch \in Epoch /\ buf = LastSeqs(seq)
    BY DEF IInv, Types, TypeOK
  <1>2. Clamp(lastSeq[c]) \in 0..seq
    BY <1>1 DEF Clamp
  <1>3. /\ low \in 0..seq /\ back \in Seq(Nat) /\ DOMAIN back = 1..seq - low
        /\ \A i \in 1..seq - low : back[i] = low + i
    BY <1>1, <1>2, SinceHolds
  <1>4. Clamp(lastSeq[c]) <= low
    BY <1>1, <1>2, RingHolds DEF Low
  <1>5. out' = [out EXCEPT ![c] = <<Hello(epoch)>> \o evs] /\ chan' = [chan EXCEPT ![c] = <<>>]
    BY DEF Connect
  <1> HIDE DEF back, low
  <1>6. /\ evs \in Seq(EventFrame) /\ Len(evs) = seq - low /\ DOMAIN evs = 1..seq - low
        /\ \A i \in 1..seq - low : evs[i].t = "event" /\ evs[i].seq = low + i
    <2>1. \A i \in 1..seq - low : /\ Event(epoch, back[i]) \in EventFrame
                                  /\ Event(epoch, back[i]).t = "event"
                                  /\ Event(epoch, back[i]).seq = low + i
      <3> SUFFICES ASSUME NEW i \in 1..seq - low
                   PROVE  /\ Event(epoch, back[i]) \in EventFrame
                          /\ Event(epoch, back[i]).t = "event"
                          /\ Event(epoch, back[i]).seq = low + i
        OBVIOUS
      <3>1. back[i] \in Nat /\ back[i] = low + i
        BY <1>1, <1>3
      <3> HIDE DEF back
      <3> QED
        BY <1>1, <3>1, Frames
    <2>2. evs \in Seq(EventFrame) /\ Len(evs) = seq - low
      BY <1>1, <1>3, <2>1
    <2> QED
      BY <1>3, <2>1, <2>2
  <1>7. Hello(epoch) \in HelloFrame /\ Hello(epoch).t = "hello" /\ Hello(epoch).epoch = epoch
    BY <1>1, Frames
  <1>8. out'[c] = <<Hello(epoch)>> \o evs /\ chan'[c] = <<>>
    BY <1>5 DEF IInv, Types
  <1> HIDE DEF evs
  <1>9. /\ out'[c] \in Seq(EventFrame \cup HelloFrame) /\ out'[c] # <<>> /\ Head(out'[c]) = Hello(epoch)
        /\ out'[c][1] = Hello(epoch) /\ DOMAIN out'[c] = 1..(seq - low + 1)
        /\ \A i \in 2..(seq - low + 1) : i - 1 \in 1..seq - low /\ out'[c][i] = evs[i - 1]
    <2> DEFINE hello == <<Hello(epoch)>>
    <2>1. hello \in Seq(HelloFrame) /\ Len(hello) = 1 /\ hello[1] = Hello(epoch)
      BY <1>7
    <2> HIDE DEF hello
    <2>2. hello \in Seq(EventFrame \cup HelloFrame) /\ evs \in Seq(EventFrame \cup HelloFrame)
      BY <1>6, <2>1
    <2>3. out'[c] = hello \o evs
      BY <1>8 DEF hello
    <2>4. /\ out'[c] \in Seq(EventFrame \cup HelloFrame) /\ Len(out'[c]) = 1 + Len(evs)
          /\ Head(out'[c]) = hello[1] /\ out'[c][1] = hello[1] /\ out'[c] # <<>>
          /\ \A i \in DOMAIN evs : out'[c][1 + i] = evs[i]
      <3> DEFINE F == EventFrame \cup HelloFrame
      <3>1. hello \in Seq(F) /\ evs \in Seq(F) /\ hello # <<>> /\ 1 \in DOMAIN hello
        BY <2>1, <2>2
      <3>2. /\ out'[c] \in Seq(F) /\ Len(out'[c]) = 1 + Len(evs)
            /\ Head(out'[c]) = hello[1] /\ out'[c][1] = hello[1] /\ 1 \in DOMAIN out'[c]
            /\ \A i \in DOMAIN evs : out'[c][1 + i] = evs[i]
        <4> HIDE DEF F
        <4> DEFINE w == hello \o evs
        <4>1. /\ w \in Seq(F) /\ Len(w) = Len(hello) + Len(evs) /\ Head(w) = hello[1]
              /\ 1 \in DOMAIN w /\ w[1] = hello[1]
              /\ \A i \in DOMAIN evs : w[Len(hello) + i] = evs[i]
          BY <3>1, Joined
        <4> HIDE DEF w
        <4>2. out'[c] = w
          BY <2>3 DEF w
        <4> QED
          BY <2>1, <4>1, <4>2
      <3> QED
        BY <3>2
    <2>5. DOMAIN out'[c] = 1..(seq - low + 1)
      BY <1>1, <1>3, <1>6, <2>4
    <2>6. \A i \in 2..(seq - low + 1) : i - 1 \in 1..seq - low /\ 1 + (i - 1) = i
      BY <1>1, <1>3
    <2> QED
      BY <1>6, <2>1, <2>4, <2>5, <2>6
  <1>10. Backlog(c)' = 2..(seq - low + 1)
    <2>1. \A i \in 1..(seq - low + 1) : i = 1 \/ i \in 2..(seq - low + 1)
      BY <1>1, <1>3
    <2>2. \A i \in 2..(seq - low + 1) : i \in 1..(seq - low + 1)
      BY <1>1, <1>3
    <2> QED
      BY <1>6, <1>7, <1>9, <2>1, <2>2 DEF Backlog
  <1>11. \A i \in 2..(seq - low + 1) : out'[c][i].seq = low + i - 1
    BY <1>1, <1>3, <1>6, <1>9
  <1>12. Greeting(c)' /\ Source(c)' = epoch
    BY <1>7, <1>9 DEF Greeting, Source
  <1> QED
    BY <1>3, <1>4, <1>8, <1>10, <1>11, <1>12 DEF low

\* An attach replays from a mark the client will still have.
LEMMA ConnectAhead ==
    ASSUME AInv, NEW c \in Client, Connect(c), NEW d \in Client
    PROVE  Ahead(d)'
  <1>1. UNCHANGED <<server, client>>
    BY DEF Connect
  <1>2. CASE d # c
    <2>1. out'[d] = out[d] /\ chan'[d] = chan[d]
      BY <1>2 DEF Connect, AInv, IInv, Types
    <2>2. UNCHANGED <<out[d], chan[d], known[d], lastSeq[d], epoch, seq>> /\ seq \in Nat
      BY <1>1, <2>1 DEF server, client, AInv, IInv, Types
    <2> QED
      BY <2>2, SameAhead DEF AInv
  <1>3. CASE d = c
    <2> DEFINE low == Low(seq, Clamp(lastSeq[c]))
    <2>1. /\ low \in 0..seq /\ Clamp(lastSeq[c]) <= low
          /\ Greeting(c)' /\ Source(c)' = epoch /\ chan'[c] = <<>>
          /\ Backlog(c)' = 2..(seq - low + 1)
          /\ \A i \in Backlog(c)' : out'[c][i].seq = low + i - 1
      BY ConnectWire DEF AInv
    <2> HIDE DEF low
    <2>2. /\ seq \in Nat /\ lastSeq[c] \in Nat /\ known[c] \in Nat /\ epoch \in Nat /\ Source(c) \in Nat
          /\ Epochal(c)
      BY FrameKinds DEF AInv, Ahead
    <2>3. Mark(c)' = IF known[c] \notin {0, epoch} THEN 0 ELSE lastSeq[c]
      BY <1>1, <2>1 DEF Mark, client
    <2>4. Mark(c)' \in Nat /\ Mark(c)' <= low
      <3>1. known[c] = epoch => lastSeq[c] <= seq
        BY KnownMark
      <3>2. known[c] \in {0, epoch} => Clamp(lastSeq[c]) = lastSeq[c]
        BY <2>2, <3>1 DEF Clamp, Epochal
      <3> QED
        BY <2>1, <2>2, <2>3, <3>2
    <2>5. Epochal(c)'
      BY <1>1, <2>1, <2>2 DEF Epochal, server, client
    <2>6. Ascending(c)'
      <3>1. \A i \in Backlog(c)' : Mark(c)' < out'[c][i].seq
        BY <2>1, <2>2, <2>4
      <3>2. \A i, j \in Backlog(c)' : i < j => out'[c][i].seq < out'[c][j].seq
        BY <2>1, <2>2
      <3> QED
        BY <2>1, <3>1, <3>2 DEF Ascending
    <2>7. Issued(c)'
      <3>1. \A i \in Backlog(c)' : out'[c][i].seq <= seq
        BY <2>1, <2>2
      <3> QED
        BY <1>1, <2>1, <2>2, <2>4, <3>1 DEF Issued, server
    <2> QED
      BY <1>3, <2>5, <2>6, <2>7 DEF Ahead
  <1> QED
    BY <1>2, <1>3

\* A lost connection leaves the mark, and nothing behind it.
LEMMA HangupAhead ==
    ASSUME AInv, NEW c \in Client, Hangup(c), NEW d \in Client
    PROVE  Ahead(d)'
  <1>1. UNCHANGED <<server, client>>
    BY DEF Hangup
  <1>2. CASE d # c
    <2>1. out'[d] = out[d] /\ chan'[d] = chan[d]
      BY <1>2 DEF Hangup, AInv, IInv, Types
    <2>2. UNCHANGED <<out[d], chan[d], known[d], lastSeq[d], epoch, seq>> /\ seq \in Nat
      BY <1>1, <2>1 DEF server, client, AInv, IInv, Types
    <2> QED
      BY <2>2, SameAhead DEF AInv
  <1>3. CASE d = c
    <2>1. out'[c] = <<>> /\ chan'[c] = <<>>
      BY DEF Hangup, AInv, IInv, Types
    <2>2. Source(c)' = known[c] /\ Mark(c)' = lastSeq[c] /\ Backlog(c)' = {}
      BY <1>1, <2>1 DEF Source, Mark, Greeting, Backlog, client
    <2>3. Epochal(c) /\ known[c] \in Nat /\ Source(c) \in Nat /\ epoch \in Nat
      BY FrameKinds DEF AInv, Ahead
    <2> QED
      BY <1>1, <1>3, <2>1, <2>2, <2>3, KnownMark DEF Ahead, Epochal, Ascending, Issued, server, client
  <1> QED
    BY <1>2, <1>3

LEMMA AInit == Init => AInv
  <1>1. Init => \A c \in Client : Ahead(c)
    BY DEF Init, Ahead, Epochal, Ascending, Issued, Source, Mark, Greeting, Backlog
  <1> QED
    BY <1>1, InitOK, TypeInit DEF AInv

LEMMA ANext == AInv /\ [Next]_vars => AInv'
  <1> SUFFICES ASSUME AInv, [Next]_vars, NEW c \in Client PROVE Ahead(c)'
    BY NextOK, TypeNext DEF AInv
  <1>1. IInv' /\ seq \in Nat /\ epoch \in Nat
    BY NextOK DEF AInv, IInv, Types, Epoch
  <1>2. CASE Broadcast
    BY <1>1, <1>2, EmitAhead DEF Broadcast
  <1>3. CASE BroadcastDelta
    BY <1>1, <1>3, EmitAhead DEF BroadcastDelta, server
  <1>4. CASE DriverEnd \/ Reap
    BY <1>1, <1>4, SameAhead DEF DriverEnd, Reap, client, AInv
  <1>5. CASE Respawn
    <2>1. /\ epoch' = epoch + 1 /\ out'[c] = out[c] /\ chan'[c] = chan[c]
          /\ known'[c] = known[c] /\ lastSeq'[c] = lastSeq[c]
      BY <1>5 DEF Respawn, client
    <2>2. Source(c)' = Source(c) /\ Mark(c)' = Mark(c) /\ Backlog(c)' = Backlog(c)
      BY <2>1 DEF Source, Greeting, Mark, Backlog
    <2>3. Epochal(c) /\ Ascending(c) /\ Source(c) \in Nat
      BY FrameKinds DEF AInv, Ahead
    <2>4. Epochal(c)' /\ Issued(c)'
      BY <1>1, <2>1, <2>2, <2>3 DEF Epochal, Issued
    <2>5. Ascending(c)'
      BY <2>1, <2>2, <2>3 DEF Ascending
    <2> QED
      BY <2>4, <2>5 DEF Ahead
  <1>6. ASSUME NEW d \in Client, Connect(d) PROVE Ahead(c)'
    BY <1>6, ConnectAhead
  <1>7. ASSUME NEW d \in Client, Deliver(d) PROVE Ahead(c)'
    BY <1>1, <1>7, DeliverAhead
  <1>8. ASSUME NEW d \in Client, ServerHangup(d) \/ Drop(d) PROVE Ahead(c)'
    BY <1>8, HangupAhead DEF ServerHangup, Drop
  <1>9. CASE UNCHANGED vars
    BY <1>1, <1>9, SameAhead DEF vars, server, client, AInv
  <1> QED
    BY <1>2, <1>3, <1>4, <1>5, <1>6, <1>7, <1>8, <1>9 DEF Next

LEMMA AheadIsNeverDeaf == AInv => NeverDeaf
  <1> SUFFICES ASSUME AInv, NEW c \in online, Incoming(c) # <<>>, Head(Incoming(c)).t = "event",
                      Head(Incoming(c)).seq > 0
               PROVE  Head(Incoming(c)).epoch = known[c] /\ Head(Incoming(c)).seq > lastSeq[c]
    BY DEF NeverDeaf
  <1>1. c \in Client
    BY DEF AInv, IInv, Types
  <1>2. /\ chan[c] \in Seq(EventFrame) /\ out[c] \in Seq(EventFrame \cup HelloFrame)
        /\ lastSeq[c] \in Nat
        /\ \A i \in DOMAIN chan[c] : chan[c][i].seq \in Nat
        /\ \A i \in Backlog(c) : out[c][i].seq \in Nat
    BY <1>1, FrameKinds DEF AInv
  <1>3. WireOK(c) /\ Ascending(c)
    BY <1>1 DEF AInv, IInv, Ahead
  <1>4. CASE out[c] # <<>>
    <2>1. Head(Incoming(c)) = out[c][1] /\ Head(out[c]) = out[c][1] /\ 1 \in DOMAIN out[c]
      <3> DEFINE F == EventFrame \cup HelloFrame
      <3>1. out[c] \in Seq(F) /\ chan[c] \in Seq(F)
        BY <1>2
      <3>2. Head(out[c] \o chan[c]) = out[c][1] /\ Head(out[c]) = out[c][1] /\ 1 \in DOMAIN out[c]
        <4> HIDE DEF F
        <4> QED
          BY ZenonT(30), <1>4, <3>1, Joined
      <3> QED
        BY <3>2 DEF Incoming
    <2>2. ~Greeting(c) /\ 1 \in Backlog(c)
      BY <2>1 DEF Greeting, Backlog
    <2>3. Source(c) = known[c] /\ Mark(c) = lastSeq[c]
      BY <2>2 DEF Source, Mark
    <2> QED
      BY <1>2, <1>3, <2>1, <2>2, <2>3 DEF WireOK, Ascending
  <1>5. CASE out[c] = <<>>
    <2>1. Incoming(c) = chan[c]
      BY <1>2, <1>5 DEF Incoming
    <2>2. Head(Incoming(c)) = chan[c][1] /\ 1 \in DOMAIN chan[c]
      BY <1>2, <2>1
    <2>3. Source(c) = known[c] /\ Mark(c) = lastSeq[c]
      BY <1>5 DEF Source, Mark, Greeting
    <2> QED
      BY <1>2, <1>3, <2>2, <2>3 DEF WireOK, Ascending
  <1> QED
    BY <1>4, <1>5

\* No client ever throws away an event it has not seen, whatever process its
\* mark came from, for any ring, channel and number of respawns.
THEOREM NoClientDeaf == Spec => []NeverDeaf
  BY AInit, ANext, AheadIsNeverDeaf, PTL DEF Spec

-----------------------------------------------------------------------------
(* The first process: nothing is left out *)

\* The newest number the ring has lost.
Floor == seq - Kept(seq)

\* Number n is on its way to the client.
OnWire(c, n) ==
    \/ \E i \in Backlog(c) : out[c][i].seq = n
    \/ \E i \in DOMAIN chan[c] : chan[c][i].seq = n

\* What is on its way skips only what the ring has lost, what a subscriber has
\* not read and the ring holds is on its way, and what it has read is shown.
Whole(c) ==
    /\ \A n \in Nat \ {0} : OnWire(c, n) => n - 1 = lastSeq[c] \/ n - 1 <= Floor \/ OnWire(c, n - 1)
    /\ c \in subs => \A n \in 1..seq : n <= lastSeq[c] \/ n <= Floor \/ OnWire(c, n)
    /\ \A n \in 1..lastSeq[c] : n <= Floor \/ \E j \in DOMAIN items[c] : items[c][j].seq = n

WInv == AInv /\ (epoch = 1 => \A c \in Client : Whole(c))

\* The ring and its floor.
LEMMA FloorIs ==
    ASSUME AInv
    PROVE  /\ seq \in Nat /\ Floor \in 0..seq /\ Len(buf) = Kept(seq) /\ Len(buf) \in Nat
           /\ DOMAIN buf = 1..Kept(seq) /\ \A i \in DOMAIN buf : buf[i] \in Floor + 1..seq
  <1>1. seq \in Nat /\ buf = LastSeqs(seq)
    BY DEF AInv, IInv, Types, TypeOK
  <1>2. /\ Kept(seq) \in 0..seq /\ Len(buf) = Kept(seq) /\ DOMAIN buf = 1..Kept(seq)
        /\ \A i \in 1..Kept(seq) : buf[i] = seq - Kept(seq) + i
    <2>1. \A n \in Nat : /\ Kept(n) \in 0..n /\ Len(LastSeqs(n)) = Kept(n) /\ DOMAIN LastSeqs(n) = 1..Kept(n)
                        /\ \A i \in 1..Kept(n) : LastSeqs(n)[i] = n - Kept(n) + i
      <3> SUFFICES ASSUME NEW n \in Nat
                   PROVE  /\ Kept(n) \in 0..n /\ Len(LastSeqs(n)) = Kept(n) /\ DOMAIN LastSeqs(n) = 1..Kept(n)
                          /\ \A i \in 1..Kept(n) : LastSeqs(n)[i] = n - Kept(n) + i
        OBVIOUS
      <3> QED
        BY RingHolds
    <2> QED
      BY <1>1, <2>1
  <1> QED
    BY <1>1, <1>2 DEF Floor

\* With one process every number on its way is new to the client.
LEMMA FirstProcess ==
    ASSUME AInv, epoch = 1, NEW c \in Client
    PROVE  /\ lastSeq[c] \in 0..seq /\ known[c] \in {0, 1} /\ (Greeting(c) => Source(c) \in {0, 1})
           /\ \A n \in Nat \ {0} : OnWire(c, n) => lastSeq[c] < n /\ n <= seq
  <1>1. /\ known[c] \in Nat /\ Source(c) \in Nat /\ lastSeq[c] \in Nat /\ seq \in Nat
        /\ \A i \in Backlog(c) : out[c][i] \in EventFrame /\ i \in DOMAIN out[c]
        /\ chan[c] \in Seq(EventFrame)
    BY FrameKinds DEF AInv
  <1>2. Ahead(c) /\ WireOK(c)
    BY DEF AInv, IInv
  <1>3. known[c] \in {0, 1} /\ Source(c) \in {0, 1} /\ known[c] <= Source(c)
    BY <1>1, <1>2 DEF Ahead, Epochal
  <1>4. Mark(c) = lastSeq[c]
    BY <1>3 DEF Mark
  <1>5. lastSeq[c] <= seq
    BY <1>1, <1>2, <1>3, KnownMark DEF Ahead, Epochal
  <1>6. ASSUME NEW n \in Nat \ {0}, OnWire(c, n) PROVE lastSeq[c] < n /\ n <= seq
    <2>1. CASE \E i \in Backlog(c) : out[c][i].seq = n
      <3>1. PICK i \in Backlog(c) : out[c][i].seq = n
        BY <2>1
      <3>2. out[c][i].epoch \in Epoch /\ out[c][i].epoch = Source(c)
        BY <1>1, <1>2 DEF WireOK, EventFrame
      <3>3. Source(c) = epoch
        BY <1>3, <3>2 DEF Epoch
      <3> QED
        BY <1>2, <1>4, <3>1, <3>3 DEF Ahead, Ascending, Issued
    <2>2. CASE \E i \in DOMAIN chan[c] : chan[c][i].seq = n
      <3>1. PICK i \in DOMAIN chan[c] : chan[c][i].seq = n
        BY <2>2
      <3>2. chan[c][i] \in EventFrame
        BY <1>1
      <3>3. chan[c][i].epoch \in Epoch /\ chan[c][i].epoch = Source(c)
        BY <1>2, <3>2 DEF WireOK, EventFrame
      <3>4. Source(c) = epoch
        BY <1>3, <3>3 DEF Epoch
      <3> QED
        BY <1>2, <1>4, <3>1, <3>4 DEF Ahead, Ascending, Issued
    <2> QED
      BY <1>6, <2>1, <2>2 DEF OnWire
  <1> QED
    BY <1>1, <1>3, <1>5, <1>6

Fresh == \A c \in Client, n \in Nat \ {0} : OnWire(c, n) => lastSeq[c] < n

LEMMA FirstFresh == AInv /\ epoch = 1 => Fresh
  BY FirstProcess DEF Fresh

\* A client nothing happens to, while the ring stays or a subscription ends.
LEMMA SameWhole ==
    ASSUME NEW c \in Client, Whole(c), UNCHANGED <<out[c], chan[c], lastSeq[c], items[c], seq>>,
           c \in subs' => c \in subs
    PROVE  Whole(c)'
  <1>1. Floor' = Floor /\ \A n : OnWire(c, n)' <=> OnWire(c, n)
    BY DEF Floor, OnWire, Backlog, Kept
  <1> QED
    BY <1>1 DEF Whole

\* A fan-out puts the newest number behind the one before it.
LEMMA EmitWhole ==
    ASSUME WInv, epoch = 1, NEW n \in Nat, Emit(Event(epoch, n)), UNCHANGED <<epoch, out, client>>,
           \/ n = 0 /\ seq' = seq
           \/ n = seq + 1 /\ seq' = seq + 1,
           NEW c \in Client
    PROVE  Whole(c)'
  <1> DEFINE ev == Event(epoch, n)
  <1>1. /\ seq \in Nat /\ Floor \in 0..seq /\ lastSeq[c] \in 0..seq /\ chan[c] \in Seq(EventFrame)
        /\ Whole(c)
    BY FloorIs, FirstProcess, FrameKinds DEF WInv, AInv
  <1>2. Floor' \in Nat /\ Floor <= Floor'
    <2>1. CASE seq' = seq
      BY <1>1, <2>1 DEF Floor, Kept
    <2>2. CASE seq' = seq + 1
      <3>1. RingCap \in Nat \ {0}
        BY ReplayAssumption
      <3> QED
        BY <1>1, <2>2, <3>1 DEF Floor, Kept
    <2> QED
      BY <2>1, <2>2
  <1>3. out'[c] = out[c] /\ lastSeq'[c] = lastSeq[c] /\ items'[c] = items[c] /\ Backlog(c)' = Backlog(c)
    BY DEF client, Backlog
  <1>4. CASE chan'[c] = chan[c] /\ c \notin subs'
    <2>1. \A m : OnWire(c, m)' <=> OnWire(c, m)
      BY <1>3, <1>4 DEF OnWire
    <2>2. \A m \in Nat \ {0} : m - 1 <= Floor => m - 1 <= Floor'
      BY <1>1, <1>2
    <2>3. \A m \in 1..lastSeq[c] : m <= Floor => m <= Floor'
      BY <1>1, <1>2
    <2> QED
      BY <1>1, <1>3, <1>4, <2>1, <2>2, <2>3 DEF Whole
  <1>5. CASE c \in subs /\ chan'[c] = Append(chan[c], ev)
    <2>1. ev.seq = n
      BY DEF Event
    <2> HIDE DEF ev
    <2>2. \A m : OnWire(c, m)' <=> OnWire(c, m) \/ m = n
      <3>1. /\ DOMAIN chan'[c] = DOMAIN chan[c] \cup {Len(chan[c]) + 1}
            /\ \A i \in DOMAIN chan[c] : chan'[c][i] = chan[c][i]
            /\ chan'[c][Len(chan[c]) + 1] = ev
        BY <1>1, <1>5
      <3> QED
        BY <1>3, <2>1, <3>1 DEF OnWire
    <2>3. ASSUME NEW m \in Nat \ {0}, OnWire(c, m)'
          PROVE  m - 1 = lastSeq[c] \/ m - 1 <= Floor' \/ OnWire(c, m - 1)'
      <3>1. CASE OnWire(c, m)
        BY <1>1, <1>2, <2>2, <3>1 DEF Whole
      <3>2. CASE m = n
        <4>1. m - 1 = seq
          BY <1>1, <3>2
        <4>2. seq = 0 \/ seq \in 1..seq
          BY <1>1
        <4>3. seq <= lastSeq[c] \/ seq <= Floor \/ OnWire(c, seq)
          BY <1>1, <1>5, <4>2 DEF Whole
        <4> QED
          BY <1>1, <1>2, <2>2, <4>1, <4>3
      <3> QED
        BY <2>2, <2>3, <3>1, <3>2
    <2>4. ASSUME NEW m \in 1..seq' PROVE m <= lastSeq[c] \/ m <= Floor' \/ OnWire(c, m)'
      <3>1. m \in 1..seq \/ m = n
        BY <1>1
      <3>2. CASE m \in 1..seq
        BY <1>1, <1>2, <1>5, <2>2, <3>2 DEF Whole
      <3> QED
        BY <2>2, <3>1, <3>2
    <2>5. \A m \in 1..lastSeq[c] : m <= Floor' \/ \E j \in DOMAIN items[c] : items[c][j].seq = m
      BY <1>1, <1>2 DEF Whole
    <2> QED
      BY <1>3, <2>3, <2>4, <2>5 DEF Whole
  <1> QED
    BY <1>4, <1>5 DEF Emit, WInv, AInv, IInv, Types

\* A client reads an event: its mark moves up to the next number, or past what
\* the ring has lost, and the event is on the screen.
LEMMA ReadWhole ==
    ASSUME WInv, AInv', epoch = 1, NEW c \in Client, NEW f \in EventFrame, OnEvent(c, f), UNCHANGED server,
           OnWire(c, f.seq), c \in subs' => c \in subs,
           \A m : OnWire(c, m)' => OnWire(c, m),
           \A m : OnWire(c, m) => OnWire(c, m)' \/ m = f.seq
    PROVE  /\ Whole(c)'
           /\ f.seq > 0 => /\ f.seq \in lastSeq[c] + 1..seq
                           /\ f.seq - 1 = lastSeq[c] \/ f.seq - 1 <= Floor
                           /\ lastSeq' = [lastSeq EXCEPT ![c] = f.seq]
  <1>1. /\ seq \in Nat /\ Floor \in 0..seq /\ lastSeq[c] \in 0..seq /\ f.seq \in Nat /\ Whole(c)
        /\ items[c] \in Seq(EventFrame) /\ seq' = seq /\ epoch' = 1
    BY FloorIs, FirstProcess DEF WInv, AInv, IInv, Types, EventFrame, server
  <1>2. Floor' = Floor
    BY <1>1 DEF Floor, Kept
  <1>3. \A n \in Nat \ {0} : OnWire(c, n) => lastSeq[c] < n /\ n <= seq
    BY FirstProcess DEF WInv
  <1>4. \A n \in Nat \ {0} : OnWire(c, n)' => lastSeq'[c] < n
    <2>1. AInv' /\ (epoch = 1)' => Fresh'
      BY FirstFresh, PTL
    <2> QED
      BY <1>1, <2>1 DEF Fresh
  <1>5. CASE f.seq = 0
    <2>1. lastSeq' = lastSeq /\ items' = items
      BY <1>1, <1>5 DEF OnEvent
    <2>2. \A n \in Nat \ {0} : OnWire(c, n)' <=> OnWire(c, n)
      BY <1>5
    <2>3. ASSUME NEW n \in Nat \ {0}, OnWire(c, n)'
          PROVE  n - 1 = lastSeq[c] \/ n - 1 <= Floor \/ OnWire(c, n - 1)'
      <3>1. n - 1 = lastSeq[c] \/ n - 1 <= Floor \/ OnWire(c, n - 1)
        BY <1>1, <2>2, <2>3 DEF Whole
      <3>2. n - 1 = 0 \/ n - 1 \in Nat \ {0}
        OBVIOUS
      <3> QED
        BY <1>1, <2>2, <3>1, <3>2
    <2> QED
      BY SMTT(30), <1>1, <1>2, <1>5, <2>1, <2>2, <2>3 DEF Whole
  <1>6. CASE f.seq > 0
    <2>1. lastSeq[c] < f.seq /\ f.seq <= seq
      BY <1>1, <1>3, <1>6
    <2>2. lastSeq' = [lastSeq EXCEPT ![c] = f.seq] /\ items' = [items EXCEPT ![c] = Append(@, f)]
      BY <1>1, <2>1 DEF OnEvent
    <2>3. lastSeq'[c] = f.seq /\ items'[c] = Append(items[c], f)
      BY <2>2 DEF WInv, AInv, IInv, Types
    <2>4. f.seq - 1 = lastSeq[c] \/ f.seq - 1 <= Floor
      <3>1. f.seq - 1 = lastSeq[c] \/ f.seq - 1 <= Floor \/ OnWire(c, f.seq - 1)
        BY <1>1, <1>6 DEF Whole
      <3>2. f.seq - 1 # f.seq /\ f.seq - 1 \in Nat /\ ~(f.seq < f.seq - 1)
        BY <1>1, <1>6
      <3>3. OnWire(c, f.seq - 1) => OnWire(c, f.seq - 1)'
        BY <3>2
      <3> QED
        BY <1>1, <1>4, <2>3, <3>1, <3>2, <3>3
    <2>5. ASSUME NEW n \in Nat \ {0}, OnWire(c, n)'
          PROVE  n - 1 = f.seq \/ n - 1 <= Floor \/ OnWire(c, n - 1)'
      <3>1. n - 1 = lastSeq[c] \/ n - 1 <= Floor \/ OnWire(c, n - 1)
        BY <1>1, <2>5 DEF Whole
      <3>2. f.seq < n
        BY <1>4, <2>3, <2>5
      <3>3. n - 1 # lastSeq[c]
        BY <1>1, <2>1, <3>2
      <3> QED
        BY <3>1, <3>3
    <2>6. ASSUME NEW n \in 1..seq, c \in subs' PROVE n <= f.seq \/ n <= Floor \/ OnWire(c, n)'
      <3>1. n <= lastSeq[c] \/ n <= Floor \/ OnWire(c, n)
        BY <1>1, <2>6 DEF Whole
      <3> QED
        BY <1>1, <2>1, <3>1
    <2>7. ASSUME NEW n \in 1..f.seq PROVE n <= Floor \/ \E j \in DOMAIN items'[c] : items'[c][j].seq = n
      <3>1. /\ \A j \in DOMAIN items[c] : j \in DOMAIN items'[c] /\ items'[c][j] = items[c][j]
            /\ Len(items[c]) + 1 \in DOMAIN items'[c] /\ items'[c][Len(items[c]) + 1] = f
        BY <1>1, <2>3
      <3>2. n \in 1..lastSeq[c] \/ n = f.seq \/ n <= Floor
        BY <1>1, <2>1, <2>4
      <3> QED
        BY <1>1, <3>1, <3>2 DEF Whole
    <2> QED
      BY SMTT(30), <1>1, <1>2, <2>1, <2>2, <2>3, <2>4, <2>5, <2>6, <2>7 DEF Whole
  <1> QED
    BY <1>1, <1>5, <1>6

\* What is on its way once the first frame of the backlog is read.
LEMMA BacklogRead ==
    ASSUME IInv, NEW c \in Client, out[c] # <<>>, out' = [out EXCEPT ![c] = Tail(@)], chan' = chan
    PROVE  /\ out[c] \in Seq(EventFrame \cup HelloFrame) /\ Head(out[c]) = out[c][1] /\ 1 \in DOMAIN out[c]
           /\ \A m : OnWire(c, m)' => OnWire(c, m)
           /\ \A m : OnWire(c, m) => OnWire(c, m)' \/ (1 \in Backlog(c) /\ m = out[c][1].seq)
  <1>1. out[c] \in Seq(EventFrame \cup HelloFrame) /\ out'[c] = Tail(out[c])
    BY DEF IInv, Types
  <1>2. /\ Head(out[c]) = out[c][1] /\ 1 \in DOMAIN out[c]
        /\ \A i \in DOMAIN out'[c] : i \in Nat \ {0} /\ i + 1 \in DOMAIN out[c] /\ out'[c][i] = out[c][i + 1]
        /\ \A i \in DOMAIN out[c] : i \in Nat \ {0} /\ (i # 1 => i - 1 \in DOMAIN out'[c])
    BY <1>1, TailIs
  <1>3. \A i \in Backlog(c)' : i + 1 \in Backlog(c) /\ out'[c][i].seq = out[c][i + 1].seq
    BY <1>2 DEF Backlog
  <1>4. \A i \in Backlog(c) : i # 1 => i - 1 \in Backlog(c)' /\ out'[c][i - 1].seq = out[c][i].seq
    <2> SUFFICES ASSUME NEW i \in Backlog(c), i # 1
                 PROVE  i - 1 \in Backlog(c)' /\ out'[c][i - 1].seq = out[c][i].seq
      OBVIOUS
    <2>1. i \in DOMAIN out[c] /\ out[c][i].t = "event" /\ i - 1 \in DOMAIN out'[c] /\ i - 1 + 1 = i
      BY <1>2 DEF Backlog
    <2>2. out'[c][i - 1] = out[c][i]
      BY <1>2, <2>1
    <2> QED
      BY <2>1, <2>2 DEF Backlog
  <1>5. chan'[c] = chan[c]
    OBVIOUS
  <1>6. ASSUME NEW m, OnWire(c, m)' PROVE OnWire(c, m)
    BY <1>3, <1>5, <1>6 DEF OnWire
  <1>7. ASSUME NEW m, OnWire(c, m) PROVE OnWire(c, m)' \/ (1 \in Backlog(c) /\ m = out[c][1].seq)
    <2>1. CASE \E i \in DOMAIN chan[c] : chan[c][i].seq = m
      BY <1>5, <2>1 DEF OnWire
    <2>2. CASE \E i \in Backlog(c) : out[c][i].seq = m
      <3>1. PICK i \in Backlog(c) : out[c][i].seq = m
        BY <2>2
      <3> QED
        BY <1>4, <3>1 DEF OnWire
    <2> QED
      BY <1>7, <2>1, <2>2 DEF OnWire
  <1> QED
    BY <1>1, <1>2, <1>6, <1>7

\* And once the first of what was fanned out is.
LEMMA ChanRead ==
    ASSUME IInv, NEW c \in Client, chan[c] # <<>>, chan' = [chan EXCEPT ![c] = Tail(@)], out' = out
    PROVE  /\ Head(chan[c]) = chan[c][1] /\ chan[c][1] \in EventFrame /\ OnWire(c, chan[c][1].seq)
           /\ \A m : OnWire(c, m)' => OnWire(c, m)
           /\ \A m : OnWire(c, m) => OnWire(c, m)' \/ m = chan[c][1].seq
  <1>1. chan[c] \in Seq(EventFrame) /\ chan'[c] = Tail(chan[c]) /\ Backlog(c)' = Backlog(c)
    BY DEF IInv, Types, Backlog
  <1>2. /\ Head(chan[c]) = chan[c][1] /\ 1 \in DOMAIN chan[c]
        /\ \A i \in DOMAIN chan'[c] : i \in Nat \ {0} /\ i + 1 \in DOMAIN chan[c] /\ chan'[c][i] = chan[c][i + 1]
        /\ \A i \in DOMAIN chan[c] : i \in Nat \ {0} /\ (i # 1 => i - 1 \in DOMAIN chan'[c])
    BY ZenonT(30), <1>1, TailIs
  <1>3. \A i \in DOMAIN chan[c] : i # 1 => i - 1 \in DOMAIN chan'[c] /\ chan'[c][i - 1] = chan[c][i]
    <2> SUFFICES ASSUME NEW i \in DOMAIN chan[c], i # 1
                 PROVE  i - 1 \in DOMAIN chan'[c] /\ chan'[c][i - 1] = chan[c][i]
      OBVIOUS
    <2>1. i - 1 \in DOMAIN chan'[c] /\ i - 1 + 1 = i
      BY <1>2
    <2> QED
      BY <1>2, <2>1
  <1>4. out'[c] = out[c] /\ chan[c][1] \in EventFrame
    BY <1>1, <1>2
  <1>5. ASSUME NEW m, OnWire(c, m)' PROVE OnWire(c, m)
    BY <1>1, <1>2, <1>4, <1>5 DEF OnWire
  <1>6. ASSUME NEW m, OnWire(c, m) PROVE OnWire(c, m)' \/ m = chan[c][1].seq
    <2>1. CASE \E i \in Backlog(c) : out[c][i].seq = m
      BY <1>1, <1>4, <2>1 DEF OnWire
    <2>2. CASE \E i \in DOMAIN chan[c] : chan[c][i].seq = m
      <3>1. PICK i \in DOMAIN chan[c] : chan[c][i].seq = m
        BY <2>2
      <3> QED
        BY <1>3, <3>1 DEF OnWire
    <2> QED
      BY <1>6, <2>1, <2>2 DEF OnWire
  <1> QED
    BY <1>2, <1>4, <1>5, <1>6 DEF OnWire

\* One client reads, and what a reader of EventFeed may do is what it does.
LEMMA DeliverWhole ==
    ASSUME WInv, AInv', epoch = 1, NEW c \in Client, Deliver(c)
    PROVE  /\ \A d \in Client : Whole(d)'
           /\ \/ lastSeq' = lastSeq
              \/ \E n \in lastSeq[c] + 1..seq : /\ n - 1 = lastSeq[c] \/ n - 1 <= Floor
                                               /\ lastSeq' = [lastSeq EXCEPT ![c] = n]
  <1>1. UNCHANGED <<server, subs>> /\ Whole(c)
    BY DEF Deliver, WInv
  <1>2. ASSUME NEW d \in Client, d # c PROVE Whole(d)'
    <2>1. out'[d] = out[d] /\ chan'[d] = chan[d] /\ seq' = seq
      BY <1>1, <1>2 DEF Deliver, server, WInv, AInv, IInv, Types
    <2>2. lastSeq'[d] = lastSeq[d] /\ items'[d] = items[d]
      <3>1. \A f : OnHello(c, f.epoch) => lastSeq'[d] = lastSeq[d] /\ items'[d] = items[d]
        BY <1>2 DEF OnHello, WInv, AInv, IInv, Types
      <3>2. \A f : OnEvent(c, f) => lastSeq'[d] = lastSeq[d] /\ items'[d] = items[d]
        BY <1>2 DEF OnEvent, WInv, AInv, IInv, Types
      <3> QED
        BY <3>1, <3>2 DEF Deliver, Apply
    <2> QED
      BY <1>1, <2>1, <2>2, SameWhole DEF WInv
  <1>3. CASE out[c] # <<>>
    <2>1. Apply(c, Head(out[c])) /\ out' = [out EXCEPT ![c] = Tail(@)] /\ chan' = chan
      BY <1>3 DEF Deliver
    <2>2. /\ out[c] \in Seq(EventFrame \cup HelloFrame) /\ Head(out[c]) = out[c][1] /\ 1 \in DOMAIN out[c]
          /\ \A m : OnWire(c, m)' => OnWire(c, m)
          /\ \A m : OnWire(c, m) => OnWire(c, m)' \/ (1 \in Backlog(c) /\ m = out[c][1].seq)
      BY <1>3, <2>1, BacklogRead DEF WInv, AInv
    <2>3. CASE Greeting(c)
      <3>1. OnHello(c, Source(c)) /\ 1 \notin Backlog(c)
        BY <2>1, <2>2, <2>3 DEF Apply, Greeting, Source, Backlog
      <3>2. known[c] \in {0, 1} /\ Source(c) \in {0, 1} /\ known[c] <= Source(c)
        BY <2>3, FirstProcess DEF WInv, AInv, Ahead, Epochal
      <3>3. lastSeq' = lastSeq /\ items' = items
        BY <3>1, <3>2 DEF OnHello, WInv, AInv, IInv, Types
      <3>4. \A m : OnWire(c, m)' <=> OnWire(c, m)
        BY <2>2, <3>1
      <3>5. Floor' = Floor /\ seq' = seq
        BY <1>1 DEF Floor, Kept, server
      <3>6. Whole(c)'
        BY <1>1, <3>3, <3>4, <3>5 DEF Whole
      <3> QED
        BY <1>2, <3>3, <3>6
    <2>4. CASE ~Greeting(c)
      <3>1. out[c][1] \in EventFrame /\ 1 \in Backlog(c) /\ OnEvent(c, out[c][1])
        BY <1>3, <2>1, <2>2, <2>4 DEF Apply, Greeting, Backlog, EventFrame, HelloFrame
      <3>2. OnWire(c, out[c][1].seq) /\ \A m : OnWire(c, m) => OnWire(c, m)' \/ m = out[c][1].seq
        BY <2>2, <3>1 DEF OnWire
      <3>3. /\ Whole(c)'
            /\ out[c][1].seq > 0 => /\ out[c][1].seq \in lastSeq[c] + 1..seq
                                    /\ out[c][1].seq - 1 = lastSeq[c] \/ out[c][1].seq - 1 <= Floor
                                    /\ lastSeq' = [lastSeq EXCEPT ![c] = out[c][1].seq]
        BY <1>1, <2>2, <3>1, <3>2, ReadWhole
      <3>4. ~(out[c][1].seq > 0) => lastSeq' = lastSeq
        BY SMTT(30), <3>1 DEF OnEvent, EventFrame, WInv, AInv, IInv, Types
      <3>5. \A d \in Client : Whole(d)'
        BY <1>2, <3>3
      <3>6. CASE out[c][1].seq > 0
        <4> DEFINE n == out[c][1].seq
        <4>1. /\ n \in lastSeq[c] + 1..seq /\ (n - 1 = lastSeq[c] \/ n - 1 <= Floor)
              /\ lastSeq' = [lastSeq EXCEPT ![c] = n]
          BY <3>3, <3>6
        <4> HIDE DEF n
        <4> QED
          BY <3>5, <4>1
      <3> QED
        BY <3>4, <3>5, <3>6
    <2> QED
      BY <2>3, <2>4
  <1>4. CASE out[c] = <<>>
    <2>1. /\ Apply(c, Head(chan[c])) /\ chan[c] # <<>> /\ chan' = [chan EXCEPT ![c] = Tail(@)]
          /\ out' = out
      BY <1>4 DEF Deliver
    <2>2. /\ Head(chan[c]) = chan[c][1] /\ chan[c][1] \in EventFrame /\ OnWire(c, chan[c][1].seq)
          /\ \A m : OnWire(c, m)' => OnWire(c, m)
          /\ \A m : OnWire(c, m) => OnWire(c, m)' \/ m = chan[c][1].seq
      BY <2>1, ChanRead DEF WInv, AInv
    <2>3. OnEvent(c, chan[c][1])
      BY <2>1, <2>2 DEF Apply, EventFrame
    <2>4. /\ Whole(c)'
          /\ chan[c][1].seq > 0 => /\ chan[c][1].seq \in lastSeq[c] + 1..seq
                                   /\ chan[c][1].seq - 1 = lastSeq[c] \/ chan[c][1].seq - 1 <= Floor
                                   /\ lastSeq' = [lastSeq EXCEPT ![c] = chan[c][1].seq]
      BY <1>1, <2>2, <2>3, ReadWhole
    <2>5. ~(chan[c][1].seq > 0) => lastSeq' = lastSeq
      BY SMTT(30), <2>2, <2>3 DEF OnEvent, EventFrame, WInv, AInv, IInv, Types
    <2>6. \A d \in Client : Whole(d)'
      BY <1>2, <2>4
    <2>7. CASE chan[c][1].seq > 0
      <3> DEFINE n == chan[c][1].seq
      <3>1. /\ n \in lastSeq[c] + 1..seq /\ (n - 1 = lastSeq[c] \/ n - 1 <= Floor)
            /\ lastSeq' = [lastSeq EXCEPT ![c] = n]
        BY <2>4, <2>7
      <3> HIDE DEF n
      <3> QED
        BY <2>6, <3>1
    <2> QED
      BY <2>5, <2>6, <2>7
  <1> QED
    BY <1>3, <1>4

\* An attach puts everything on its way that is above the mark and still held.
LEMMA ConnectWhole ==
    ASSUME WInv, epoch = 1, NEW c \in Client, Connect(c), NEW d \in Client
    PROVE  Whole(d)'
  <1>1. UNCHANGED <<server, client>> /\ Whole(d)
    BY DEF Connect, WInv
  <1>2. CASE d # c
    <2>1. out'[d] = out[d] /\ chan'[d] = chan[d] /\ (d \in subs' => d \in subs)
      BY <1>2 DEF Connect, WInv, AInv, IInv, Types
    <2>2. lastSeq'[d] = lastSeq[d] /\ items'[d] = items[d] /\ seq' = seq
      BY <1>1 DEF server, client
    <2> QED
      BY <1>1, <2>1, <2>2, SameWhole
  <1>3. CASE d = c
    <2> DEFINE low == Low(seq, Clamp(lastSeq[c]))
    <2>1. /\ low \in 0..seq /\ chan'[c] = <<>> /\ Backlog(c)' = 2..(seq - low + 1)
          /\ \A i \in Backlog(c)' : out'[c][i].seq = low + i - 1
      BY ConnectWire DEF WInv, AInv
    <2>2. /\ seq \in Nat /\ Floor \in 0..seq /\ lastSeq[c] \in 0..seq
          /\ Floor' = Floor /\ seq' = seq /\ lastSeq'[c] = lastSeq[c] /\ items'[c] = items[c]
      BY <1>1, FloorIs, FirstProcess DEF WInv, Floor, Kept, server, client
    <2>3. low = lastSeq[c] \/ low = Floor
      BY <2>2 DEF Low, Clamp, Floor
    <2> HIDE DEF low
    <2>4. \A n \in Nat : OnWire(c, n)' <=> n \in low + 1..seq
      <3>1. ASSUME NEW n \in Nat, OnWire(c, n)' PROVE n \in low + 1..seq
        <4>1. PICK i \in Backlog(c)' : out'[c][i].seq = n
          BY <2>1, <3>1 DEF OnWire
        <4> QED
          BY <2>1, <2>2, <4>1
      <3>2. ASSUME NEW n \in low + 1..seq PROVE OnWire(c, n)'
        <4>1. n - low + 1 \in Backlog(c)' /\ low + (n - low + 1) - 1 = n
          BY <2>1, <2>2
        <4>2. out'[c][n - low + 1].seq = n
          BY <2>1, <4>1
        <4> QED
          BY <4>1, <4>2 DEF OnWire
      <3> QED
        BY <3>1, <3>2
    <2>5. \A n \in Nat \ {0} : OnWire(c, n)' => n - 1 = lastSeq[c] \/ n - 1 <= Floor \/ OnWire(c, n - 1)'
      <3> SUFFICES ASSUME NEW n \in Nat \ {0}, n \in low + 1..seq
                   PROVE  n - 1 = lastSeq[c] \/ n - 1 <= Floor \/ OnWire(c, n - 1)'
        BY <2>4
      <3>1. n - 1 = low \/ n - 1 \in low + 1..seq
        BY <2>1, <2>2
      <3> QED
        BY <2>2, <2>3, <2>4, <3>1
    <2>6. \A n \in 1..seq : n <= lastSeq[c] \/ n <= Floor \/ OnWire(c, n)'
      <3> SUFFICES ASSUME NEW n \in 1..seq, ~(n <= lastSeq[c]), ~(n <= Floor)
                   PROVE  OnWire(c, n)'
        OBVIOUS
      <3>1. n \in low + 1..seq
        BY <2>1, <2>2, <2>3
      <3> QED
        BY <2>4, <3>1
    <2> QED
      BY <1>1, <1>3, <2>2, <2>5, <2>6 DEF Whole
  <1> QED
    BY <1>2, <1>3

\* A lost connection takes what was on its way, and the subscription.
LEMMA HangupWhole ==
    ASSUME WInv, epoch = 1, NEW c \in Client, Hangup(c), NEW d \in Client
    PROVE  Whole(d)'
  <1>1. UNCHANGED <<server, client>> /\ Whole(d) /\ subs' = subs \ {c}
    BY DEF Hangup, WInv
  <1>2. lastSeq'[d] = lastSeq[d] /\ items'[d] = items[d] /\ seq' = seq
    BY <1>1 DEF server, client
  <1>3. CASE d # c
    <2>1. out'[d] = out[d] /\ chan'[d] = chan[d]
      BY <1>3 DEF Hangup, WInv, AInv, IInv, Types
    <2> QED
      BY <1>1, <1>2, <2>1, SameWhole
  <1>4. CASE d = c
    <2>1. out'[c] = <<>> /\ chan'[c] = <<>>
      BY DEF Hangup, WInv, AInv, IInv, Types
    <2>2. (\A n : ~OnWire(c, n)') /\ Floor' = Floor
      BY <1>2, <2>1 DEF OnWire, Backlog, Floor, Kept
    <2> QED
      BY <1>1, <1>2, <1>4, <2>2 DEF Whole
  <1> QED
    BY <1>3, <1>4

LEMMA WInit == Init => WInv
  <1>1. Init => \A c \in Client : Whole(c)
    BY DEF Init, Whole, OnWire, Backlog
  <1> QED
    BY <1>1, AInit DEF WInv

LEMMA WNext == WInv /\ [Next]_vars => WInv'
  <1> SUFFICES ASSUME WInv, [Next]_vars, epoch' = 1, NEW c \in Client PROVE Whole(c)'
    BY ANext DEF WInv
  <1>1. AInv' /\ epoch \in Nat \ {0} /\ seq \in Nat
    BY ANext DEF WInv, AInv, IInv, Types, Epoch
  <1>2. CASE Broadcast
    BY <1>1, <1>2, EmitWhole DEF Broadcast
  <1>3. CASE BroadcastDelta
    BY <1>1, <1>3, EmitWhole DEF BroadcastDelta, server
  <1>4. CASE DriverEnd \/ Reap
    <2>1. epoch = 1 /\ UNCHANGED <<seq, chan, out, client>> /\ subs' \subseteq subs
      BY <1>4 DEF DriverEnd, Reap
    <2> QED
      BY <2>1, SameWhole DEF client, WInv
  <1>5. CASE Respawn
    BY <1>1, <1>5 DEF Respawn
  <1>6. ASSUME NEW d \in Client, Connect(d) PROVE Whole(c)'
    BY <1>6, ConnectWhole DEF Connect, server
  <1>7. ASSUME NEW d \in Client, Deliver(d) PROVE Whole(c)'
    BY <1>1, <1>7, DeliverWhole DEF Deliver, server
  <1>8. ASSUME NEW d \in Client, ServerHangup(d) \/ Drop(d) PROVE Whole(c)'
    BY <1>8, HangupWhole DEF ServerHangup, Drop, Hangup, server
  <1>9. CASE UNCHANGED vars
    BY <1>9, SameWhole DEF vars, server, client, WInv
  <1> QED
    BY <1>2, <1>3, <1>4, <1>5, <1>6, <1>7, <1>8, <1>9 DEF Next

LEMMA WholeIsComplete == WInv => BacklogComplete
  <1> SUFFICES ASSUME WInv, NEW c \in online, out[c] = <<>>, epoch = 1, c \in subs,
                      NEW i \in DOMAIN buf
               PROVE  \/ \E j \in DOMAIN Incoming(c) : Incoming(c)[j].seq = buf[i]
                      \/ \E j \in DOMAIN items[c] : items[c][j].seq = buf[i]
    BY DEF BacklogComplete
  <1>1. c \in Client /\ chan[c] \in Seq(EventFrame)
    BY DEF WInv, AInv, IInv, Types
  <1>2. Incoming(c) = chan[c] /\ Backlog(c) = {}
    BY <1>1 DEF Incoming, Backlog
  <1>3. Whole(c) /\ buf[i] \in Floor + 1..seq /\ Floor \in 0..seq /\ seq \in Nat /\ lastSeq[c] \in 0..seq
    BY <1>1, FloorIs, FirstProcess DEF WInv
  <1>4. buf[i] \in 1..seq /\ ~(buf[i] <= Floor)
    BY <1>3
  <1>5. CASE buf[i] <= lastSeq[c]
    <2>1. buf[i] \in 1..lastSeq[c]
      BY <1>3, <1>4, <1>5
    <2> QED
      BY <1>3, <1>4, <2>1 DEF Whole
  <1>6. CASE OnWire(c, buf[i])
    BY <1>2, <1>6 DEF OnWire
  <1> QED
    BY <1>3, <1>4, <1>5, <1>6 DEF Whole

\* Until a respawn, whatever of the session's events the ring still holds is on
\* a subscriber's screen or on its way to it, once its backlog has been read.
THEOREM NothingLeftOut == Spec => []BacklogComplete
  BY WInit, WNext, WholeIsComplete, PTL DEF Spec

-----------------------------------------------------------------------------
(* The refinement *)

\* A step of the stream is a step of the feed, or none.
LEMMA FeedStep == WInv /\ WInv' /\ [Next]_vars => [epoch' = 1 => [Feed!Next]_(Feed!vars)]_vars
  <1> SUFFICES ASSUME WInv, WInv', Next, epoch' = 1 PROVE [Feed!Next]_(Feed!vars)
    OBVIOUS
  <1>1. /\ epoch \in Nat \ {0} /\ seq \in Nat /\ Floor \in 0..seq /\ Len(buf) = Kept(seq)
        /\ Floor = seq - Len(buf)
    BY FloorIs DEF WInv, AInv, IInv, Types, Epoch, Floor
  <1>2. CASE Broadcast
    <2>1. seq' = seq + 1 /\ buf' = LastSeqs(seq + 1) /\ lastSeq' = lastSeq
      BY <1>1, <1>2, AddHolds DEF Broadcast, client, WInv, AInv, TypeOK
    <2>2. Len(buf') = Kept(seq + 1)
      <3>1. seq + 1 \in Nat /\ \A n \in Nat : Len(LastSeqs(n)) = Kept(n)
        <4>1. ASSUME NEW n \in Nat PROVE Len(LastSeqs(n)) = Kept(n)
          BY RingHolds
        <4> QED
          BY <1>1, <4>1
      <3> QED
        BY <2>1, <3>1
    <2>3. seq' - Len(buf') \in (seq - Len(buf))..seq
      <3>1. RingCap \in Nat \ {0}
        BY ReplayAssumption
      <3> QED
        BY <1>1, <2>1, <2>2, <3>1 DEF Kept
    <2>4. Feed!Publish
      BY <2>1, <2>3 DEF Feed!Publish
    <2> QED
      BY <2>4 DEF Feed!Next
  <1>3. CASE BroadcastDelta \/ DriverEnd \/ Reap
    BY <1>3 DEF BroadcastDelta, DriverEnd, Reap, server, client, Feed!vars
  <1>4. CASE Respawn
    BY <1>1, <1>4 DEF Respawn
  <1>5. ASSUME NEW c \in Client, Connect(c) \/ ServerHangup(c) \/ Drop(c) PROVE [Feed!Next]_(Feed!vars)
    BY <1>5 DEF Connect, ServerHangup, Drop, Hangup, server, client, Feed!vars
  <1>6. ASSUME NEW c \in Client, Deliver(c) PROVE [Feed!Next]_(Feed!vars)
    <2>1. UNCHANGED server /\ epoch = 1
      BY <1>6 DEF Deliver, server
    <2>2. CASE lastSeq' = lastSeq
      BY <2>1, <2>2 DEF server, Feed!vars
    <2>3. CASE lastSeq' # lastSeq
      <3>1. PICK n \in lastSeq[c] + 1..seq : /\ n - 1 = lastSeq[c] \/ n - 1 <= Floor
                                            /\ lastSeq' = [lastSeq EXCEPT ![c] = n]
        BY <1>6, <2>1, <2>3, DeliverWhole DEF WInv
      <3>2. lastSeq[c] \in Nat
        BY DEF WInv, AInv, IInv, Types
      <3>3. n - 1 \in {lastSeq[c]} \cup 1..(seq - Len(buf))
        BY <1>1, <3>1, <3>2
      <3>4. Feed!Read(c)
        BY <2>1, <3>1, <3>3 DEF server, Feed!Read
      <3> QED
        BY <3>4 DEF Feed!Next
    <2> QED
      BY <2>2, <2>3
  <1> QED
    BY <1>2, <1>3, <1>4, <1>5, <1>6 DEF Next

\* Until a respawn the stream implements EventFeed: a client's mark only ever
\* moves to the next event, or past events the ring has lost.
THEOREM StreamIsAFeed == Spec => ImplementsFeed
  <1>1. Init => Feed!Init
    <2> SUFFICES ASSUME Init PROVE Feed!Init
      OBVIOUS
    <2>1. seq = 0 /\ lastSeq = [c \in Client |-> 0]
      BY DEF Init
    <2>2. Floor \in 0..seq /\ Floor = seq - Len(buf)
      BY FloorIs, AInit DEF Floor
    <2> QED
      BY <2>1, <2>2 DEF Feed!Init
  <1> QED
    BY <1>1, WInit, WNext, FeedStep, PTL DEF Spec, ImplementsFeed

-----------------------------------------------------------------------------
\* Past every update that was handled, and past none that was not taken.
Past(st, f) == \A b \in Bot, i \in Update :
    f[b][i] = "handled" => b < st.bot \/ (b = st.bot /\ i < st.offset)
Own(st, f) == st.bot # 0 => \A i \in Update : i < st.offset => f[st.bot][i] \notin {"none", "sent"}

Sound(st, f, n) == st \in State /\ Past(st, f) /\ Own(st, f) /\ (st.bound => n > 0)

\* Nobody who was revoked.
Without(st) == revoked \cap st.people = {}

Fates == {"none", "sent", "taken", "handled"}
Savers == {"poll", "app"}
Stored == [how : {"none", "half", "whole"}, what : State]
Under == [at : {"none", "due", "snap", "open", "written"}, to : {"tmp", "json"}, what : State]
Polling == [at : {"idle", "asked", "out", "batch", "handle", ChDown}, bot : Bot \cup {0}, offset : 0..MaxSent + 1, batch : SUBSET Update]

DiskKinds == mem \in State /\ file \in [{"json", "tmp"} -> Stored] /\ saver \in [Savers -> Under]
WireKinds == poll \in Polling /\ fate \in [Bot -> [Update -> Fates]] /\ kept \in [Bot -> 0..MaxSent + 1]
ChatKinds ==
    /\ sess \in [n : Nat, live : BOOLEAN] /\ pumps \subseteq [n : Nat, on : BOOLEAN] /\ offer \in BOOLEAN
    /\ revoked \subseteq Person /\ left \in [{"change", "open", "crash"} -> Nat]
ChKinds == DiskKinds /\ WireKinds /\ ChatKinds

\* One save at a time; it is written to the file beside, and takes its name once whole.
OneSave ==
    /\ \A s \in Savers : saver[s].to = Beside /\ (saver[s].at = "none" => saver[s] = NoSave)
    /\ \A s, o \in Savers : Saving(s) /\ Saving(o) => s = o
    /\ \A s \in Savers : saver[s].at = "written" => file.tmp = File("whole", saver[s].what)
    /\ file.json # Half /\ \A f \in {"json", "tmp"} : file[f] \in {NoFile, Half} \/ file[f].how = "whole"
    /\ poll.at = ChDown => saver = [s \in Savers |-> NoSave] /\ mem = NoState

\* What holds of memory, of the file that a crash leaves, and of what is to be it.
Remembers ==
    /\ ChUp => Sound(mem, fate, sess.n)
    /\ Sound(file.json.what, fate, sess.n)
    /\ \A s \in Savers : Saving(s) => Sound(saver[s].what, fate, sess.n)

\* No revoked person in either, unless the request is still under way.
Revokes ==
    /\ Without(mem)
    /\ saver.app.at = "none" => Without(file.json.what) /\ (Saving("poll") => Without(saver.poll.what))
    /\ Saving("app") => Without(saver.app.what)

\* Telegram keeps what nobody has taken.
Keeps ==
    /\ \A b \in Bot, i \in Update : i < kept[b] => fate[b][i] \notin {"none", "sent"}
    /\ \A b \in Bot, i, j \in Update : j < i /\ fate[b][i] # "none" => fate[b][j] # "none"

\* A batch is of the bot whose token it is, begins where the cursor is and leaves nothing out.
Batched ==
    /\ poll.at \in {"asked", "out", "batch", "handle"} => poll.bot # 0 /\ poll.bot = mem.bot
    /\ poll.at = "out" => mem.offset <= kept[poll.bot]
    /\ poll.at = "batch" => \A i \in poll.batch : mem.offset <= i /\ fate[poll.bot][i] # "none"
    /\ poll.at \in {"batch", "handle"} => \A i \in poll.batch : fate[poll.bot][i] # "none"
    /\ poll.at \in {"batch", "handle"} => \A i \in poll.batch, j \in Update :
           j < i => j \in poll.batch \/ fate[poll.bot][j] \notin {"none", "sent"}

Covers(st, b, i) == b < st.bot \/ (b = st.bot /\ i < st.offset)

\* What is being handled is past the cursor, in memory, and where it was saved, in every place.
Handling ==
    poll.at = "handle" =>
      /\ poll.batch # {} /\ mem.offset = Min(poll.batch) + 1
      /\ fate[poll.bot][Min(poll.batch)] = "taken"
      /\ Saving("poll") => Covers(saver.poll.what, poll.bot, Min(poll.batch))
      /\ saver.poll.at = "none" =>
           /\ Covers(file.json.what, poll.bot, Min(poll.batch))
           /\ Saving("app") => Covers(saver.app.what, poll.bot, Min(poll.batch))

Voices ==
    /\ \A q, r \in pumps : q.on /\ r.on => q = r
    /\ ChUp /\ mem.bound /\ left.crash = Crashes => offer \/ \E q \in pumps : q.on
    /\ sess.live => sess.n > 0
    /\ left.crash <= Crashes /\ (poll.at = ChDown => left.crash < Crashes)

ChInv == ChKinds /\ OneSave /\ Remembers /\ (Seeded = {} => Revokes) /\ Keeps /\ Batched /\ Handling /\ Voices

-----------------------------------------------------------------------------
\* A batch has a first update.
LEMMA FirstUpdate ==
    ASSUME NEW T \in SUBSET Nat, T # {}
    PROVE  Min(T) \in T /\ \A u \in T : Min(T) <= u
<1> DEFINE Less == {p \in Nat \X Nat : p[1] < p[2]}
<1>1. IsWellFoundedOn(Less, Nat)
  BY NatLessThanWellFounded DEF OpToRel
<1> HIDE DEF Less
<1>2. PICK x \in T : \A y \in T : ~(<<y, x>> \in Less)
  BY <1>1, WFMin
<1>3. ASSUME NEW y \in T
      PROVE  x <= y
  <2>1. ~(y < x)
    BY <1>2 DEF Less
  <2>q. QED
    BY <2>1
<1>q. QED
  BY <1>3 DEF Min

\* What a person, a message or the owner makes of what is stored, and a save of it.
LEMMA StateFacts ==
    /\ NoState \in State
    /\ \A m \in State, p \in Person :
         /\ [m EXCEPT !.waiting = @ \ {p}] \in State /\ [m EXCEPT !.waiting = @ \cup {p}] \in State
         /\ [m EXCEPT !.people = @ \ {p}] \in State
         /\ [m EXCEPT !.waiting = @ \ {p}, !.people = @ \cup {p}] \in State
    /\ \A m \in State, b \in Bot \cup {0} : [m EXCEPT !.bot = b, !.offset = 0] \in State
    /\ \A m \in State, i \in Update : [m EXCEPT !.offset = i + 1] \in State
    /\ \A m \in State : [m EXCEPT !.bound = TRUE] \in State /\ [m EXCEPT !.people = @ \cup Seeded] \in State
<1> USE ChannelAssumption DEF State
<1>1. NoState \in State
  BY DEF NoState
<1>2. \A m \in State, p \in Person :
         /\ [m EXCEPT !.waiting = @ \ {p}] \in State /\ [m EXCEPT !.waiting = @ \cup {p}] \in State
         /\ [m EXCEPT !.people = @ \ {p}] \in State
         /\ [m EXCEPT !.waiting = @ \ {p}, !.people = @ \cup {p}] \in State
  OBVIOUS
<1>3. \A m \in State, b \in Bot \cup {0} : [m EXCEPT !.bot = b, !.offset = 0] \in State
  <2>1. 0 \in 0..MaxSent + 1
    OBVIOUS
  <2>q. QED
    BY <2>1
<1>4. \A m \in State, i \in Update : [m EXCEPT !.offset = i + 1] \in State
  BY DEF Update
<1>5. \A m \in State : [m EXCEPT !.bound = TRUE] \in State /\ [m EXCEPT !.people = @ \cup Seeded] \in State
  OBVIOUS
<1>q. QED
  BY <1>1, <1>2, <1>3, <1>4, <1>5, Zenon

\* What a save is, and what it makes of the two files.
LEMMA SaveFacts ==
    /\ NoSave \in Under /\ Due \in Under /\ NoFile \in Stored /\ Half \in Stored
    /\ \A x \in State : File("whole", x) \in Stored
    /\ \A s \in Under, x \in State : [s EXCEPT !.at = "snap", !.what = x] \in Under
    /\ \A s \in Under : [s EXCEPT !.at = "open"] \in Under /\ [s EXCEPT !.at = "written"] \in Under /\ Renamed(s) \in Under
<1>1. NoState \in State
  BY StateFacts
<1>q. QED
  BY <1>1 DEF Under, Stored, NoSave, Due, NoFile, Half, File, Beside, Renamed

\* What a poll is at each of its steps.
LEMMA PollFacts ==
    /\ IdlePoll \in Polling /\ [IdlePoll EXCEPT !.at = ChDown] \in Polling
    /\ \A b \in Bot \cup {0} : [IdlePoll EXCEPT !.at = "asked", !.bot = b] \in Polling
    /\ \A p \in Polling : [p EXCEPT !.at = "handle"] \in Polling
    /\ \A p \in Polling, o \in 0..MaxSent + 1 : [p EXCEPT !.at = "out", !.offset = o] \in Polling
    /\ \A p \in Polling, new \in SUBSET Update : [p EXCEPT !.at = "batch", !.batch = new] \in Polling
<1>1. 0 \in 0..MaxSent + 1
  BY ChannelAssumption
<1>q. QED
  BY <1>1 DEF Polling, IdlePoll, ChDown

\* One update's fate changes.
LEMMA FateFacts ==
    ASSUME fate \in [Bot -> [Update -> Fates]], NEW b \in Bot, NEW i \in Update, NEW v \in Fates,
           fate' = [fate EXCEPT ![b][i] = v]
    PROVE  /\ fate' \in [Bot -> [Update -> Fates]]
           /\ \A c \in Bot, j \in Update : fate'[c][j] = IF c = b /\ j = i THEN v ELSE fate[c][j]
OBVIOUS

\* The first of a batch is taken, and saved: it was not before.
LEMMA TakeMoves ==
    ASSUME ChInv, Take
    PROVE  LET i == Min(poll.batch)
           IN  /\ i \in poll.batch /\ i \in Update /\ \A j \in poll.batch : i <= j
               /\ poll.bot \in Bot /\ poll.bot = mem.bot /\ mem.offset <= i /\ mem.offset \in Nat
               /\ poll.at = "batch" /\ saver.poll.at = "none"
               /\ fate' \in [Bot -> [Update -> Fates]]
               /\ \A c \in Bot, j \in Update : fate'[c][j] = IF c = poll.bot /\ j = i THEN "taken" ELSE fate[c][j]
               /\ mem' = [mem EXCEPT !.offset = i + 1] /\ saver' = [saver EXCEPT !.poll = Due]
               /\ poll' = [poll EXCEPT !.at = "handle"]
               /\ UNCHANGED <<file, kept, sess, pumps, offer, revoked, left>>
<1> DEFINE i == Min(poll.batch)
<1>1. poll.at = "batch" /\ poll.batch # {} /\ saver.poll.at = "none" /\ poll \in Polling
  BY DEF Take, ChInv, ChKinds, WireKinds
<1>2. poll.batch \in SUBSET Update /\ Update \subseteq Nat
  BY <1>1 DEF Polling, Update
<1>3. i \in poll.batch /\ i \in Update /\ i \in Nat /\ \A j \in poll.batch : i <= j
  BY <1>1, <1>2, FirstUpdate
<1>4. poll.bot \in Bot /\ poll.bot = mem.bot /\ mem.bot # 0
  BY <1>1 DEF ChInv, Batched, Polling
<1>5. mem \in State /\ mem.offset \in Nat /\ mem.offset <= i /\ fate[poll.bot][i] # "none"
  BY <1>1, <1>3 DEF ChInv, ChKinds, DiskKinds, State, Batched
<1>6. fate[poll.bot][i] \in {"sent", "taken"}
  <2>1. Past(mem, fate)
    BY <1>1 DEF ChInv, Remembers, Sound, ChUp, ChDown
  <2>2. fate[poll.bot][i] # "handled"
    <3>1. ~(poll.bot < mem.bot)
      <4>1. poll.bot \in Nat
        BY <1>4, ChannelAssumption
      <4>q. QED
        BY <1>4, <4>1
    <3>q. QED
      BY <1>3, <1>4, <1>5, <2>1, <3>1 DEF Past
  <2>3. fate[poll.bot][i] \in Fates
    BY <1>3, <1>4 DEF ChInv, ChKinds, WireKinds
  <2>q. QED
    BY <1>5, <2>2, <2>3 DEF Fates
<1>7. fate' = [fate EXCEPT ![poll.bot][i] = "taken"]
  <2>1. fate' = [fate EXCEPT ![poll.bot][i] = IF @ = "sent" THEN "taken" ELSE @]
    BY DEF Take
  <2>2. fate \in [Bot -> [Update -> Fates]]
    BY DEF ChInv, ChKinds, WireKinds
  <2> HIDE DEF i
  <2>q. QED
    BY <1>3, <1>4, <1>6, <2>1, <2>2
<1>8. /\ fate' \in [Bot -> [Update -> Fates]]
      /\ \A c \in Bot, j \in Update : fate'[c][j] = IF c = poll.bot /\ j = i THEN "taken" ELSE fate[c][j]
  <2>1. "taken" \in Fates /\ fate \in [Bot -> [Update -> Fates]]
    BY DEF Fates, ChInv, ChKinds, WireKinds
  <2> HIDE DEF i
  <2>q. QED
    BY <1>3, <1>4, <1>7, <2>1, FateFacts
<1>9. mem' = [mem EXCEPT !.offset = i + 1] /\ saver' = [saver EXCEPT !.poll = Due] /\ poll' = [poll EXCEPT !.at = "handle"]
  <2>1. mem.offset # i + 1
    BY <1>3, <1>5
  <2>q. QED
    BY <2>1 DEF Take
<1>10. UNCHANGED <<file, kept, sess, pumps, offer, revoked, left>>
  BY DEF Take, driving
<1>q. QED
  BY <1>1, <1>3, <1>4, <1>5, <1>8, <1>9, <1>10

\* The one that was taken is handled, once.
LEMMA HandledMoves ==
    ASSUME ChInv, Handled
    PROVE  LET i == Min(poll.batch)
           IN  /\ i \in poll.batch /\ i \in Update /\ \A j \in poll.batch : i <= j
               /\ poll.bot \in Bot /\ poll.bot = mem.bot /\ mem.offset = i + 1
               /\ poll.at = "handle" /\ saver.poll.at = "none"
               /\ fate' \in [Bot -> [Update -> Fates]]
               /\ \A c \in Bot, j \in Update : fate'[c][j] = IF c = poll.bot /\ j = i THEN "handled" ELSE fate[c][j]
               /\ poll' = [poll EXCEPT !.at = "batch", !.batch = poll.batch \ {i}]
               /\ UNCHANGED <<file, kept, revoked>>
<1> DEFINE i == Min(poll.batch)
<1>1. poll.at = "handle" /\ saver.poll.at = "none" /\ poll \in Polling
  BY DEF Handled, CursorSaved, ChInv, ChKinds, WireKinds
<1>2. poll.batch \in SUBSET Update /\ Update \subseteq Nat /\ poll.batch # {} /\ mem.offset = i + 1 /\ fate[poll.bot][i] = "taken"
  BY <1>1 DEF Polling, Update, ChInv, Handling
<1>3. i \in poll.batch /\ i \in Update /\ i \in Nat /\ \A j \in poll.batch : i <= j
  BY <1>2, FirstUpdate
<1>4. poll.bot \in Bot /\ poll.bot = mem.bot
  BY <1>1 DEF ChInv, Batched, Polling
<1>5. fate' = [fate EXCEPT ![poll.bot][i] = "handled"]
  <2>1. fate' = [fate EXCEPT ![poll.bot][i] = IF @ = "taken" THEN "handled" ELSE "twice"]
    BY DEF Handled
  <2>2. fate \in [Bot -> [Update -> Fates]]
    BY DEF ChInv, ChKinds, WireKinds
  <2> HIDE DEF i
  <2>q. QED
    BY <1>2, <1>3, <1>4, <2>1, <2>2
<1>6. /\ fate' \in [Bot -> [Update -> Fates]]
      /\ \A c \in Bot, j \in Update : fate'[c][j] = IF c = poll.bot /\ j = i THEN "handled" ELSE fate[c][j]
  <2>1. "handled" \in Fates /\ fate \in [Bot -> [Update -> Fates]]
    BY DEF Fates, ChInv, ChKinds, WireKinds
  <2> HIDE DEF i
  <2>q. QED
    BY <1>3, <1>4, <1>5, <2>1, FateFacts
<1>7. poll' = [poll EXCEPT !.at = "batch", !.batch = poll.batch \ {i}] /\ UNCHANGED <<file, kept, revoked>>
  BY DEF Handled
<1>q. QED
  BY <1>1, <1>2, <1>3, <1>4, <1>6, <1>7

\* One count less, of what is left.
LEMMA SpendFacts ==
    ASSUME ChatKinds, NEW what \in {"change", "open", "crash"}, Spend(what)
    PROVE  left' \in [{"change", "open", "crash"} -> Nat] /\ left[what] > 0 /\ (what # "crash" => left'["crash"] = left["crash"])
<1>1. left' = [left EXCEPT ![what] = left[what] - 1] /\ left[what] > 0 /\ left \in [{"change", "open", "crash"} -> Nat]
  BY DEF Spend, ChatKinds
<1>2. left[what] \in Nat /\ left[what] - 1 \in Nat
  BY <1>1
<1>q. QED
  BY <1>1, <1>2

\* A record of two fields is a function on their names.
LEMMA PairFacts ==
    ASSUME NEW S, NEW a \in S, NEW b \in S
    PROVE  [json |-> a, tmp |-> b] \in [{"json", "tmp"} -> S] /\ [poll |-> a, app |-> b] \in [{"poll", "app"} -> S]
OBVIOUS

\* What was saved stays good as more is taken, handled and started.
LEMMA SoundStays ==
    ASSUME NEW st, NEW f, NEW g, NEW n \in Nat, NEW k \in Nat, n <= k, Sound(st, f, n),
           \A c \in Bot, j \in Update :
              /\ g[c][j] = "handled" => f[c][j] = "handled" \/ Covers(st, c, j)
              /\ f[c][j] \notin {"none", "sent"} => g[c][j] \notin {"none", "sent"}
    PROVE  Sound(st, g, k)
<1>1. Past(st, g)
  BY DEF Sound, Past, Covers
<1>2. Own(st, g)
  BY DEF Sound, Own, State
<1>q. QED
  BY <1>1, <1>2 DEF Sound

\* People come and go beside what was taken.
LEMMA SoundSame ==
    ASSUME NEW st \in State, NEW su \in State, NEW f, NEW n, Sound(st, f, n), su.bot = st.bot, su.offset = st.offset, su.bound => st.bound
    PROVE  Sound(su, f, n)
BY DEF Sound, Past, Own

\* Memory, file and saves keep their types.
LEMMA DiskKindsKept ==
    ASSUME ChInv, ChNext
    PROVE  DiskKinds'
<1> USE DEF ChInv, ChKinds, DiskKinds, Savers
<1>1. ASSUME NEW s \in DOMAIN saver, SaveReads(s), UNCHANGED <<mem, poll, telegram, driving, revoked, left>>
      PROVE  DiskKinds'
  BY <1>1, StateFacts, SaveFacts, Zenon DEF SaveReads, Saving, telegram, driving
<1>2. ASSUME NEW s \in DOMAIN saver, SaveOpens(s), UNCHANGED <<mem, poll, telegram, driving, revoked, left>>
      PROVE  DiskKinds'
  BY <1>2, StateFacts, SaveFacts, Zenon DEF SaveOpens, Half, telegram, driving
<1>3. ASSUME NEW s \in DOMAIN saver, SaveWrites(s), UNCHANGED <<mem, poll, telegram, driving, revoked, left>>
      PROVE  DiskKinds'
  <2>1. s \in Savers /\ saver[s] \in Under /\ saver[s].what \in State /\ saver[s].to \in {"tmp", "json"}
    BY <1>3 DEF Under
  <2>2. File("whole", saver[s].what) \in Stored /\ [saver[s] EXCEPT !.at = "written"] \in Under
    BY <2>1, SaveFacts
  <2>q. QED
    BY <1>3, <2>1, <2>2 DEF SaveWrites
<1>4. ASSUME NEW s \in DOMAIN saver, SaveRenames(s), UNCHANGED <<mem, poll, telegram, driving, revoked, left>>
      PROVE  DiskKinds'
  <2>1. CASE file.tmp = NoFile
    BY <1>4, <2>1, SaveFacts DEF SaveRenames
  <2>2. CASE file.tmp # NoFile
    <3>1. file' = [json |-> file.tmp, tmp |-> NoFile] /\ file.tmp \in Stored
      BY <1>4, <2>2 DEF SaveRenames
    <3>2. saver' = [o \in Savers |-> IF o = s THEN NoSave ELSE Renamed(saver[o])]
      BY <1>4, <2>2 DEF SaveRenames
    <3>3. \A o \in Savers : (IF o = s THEN NoSave ELSE Renamed(saver[o])) \in Under
      BY SaveFacts
    <3>4. saver' \in [Savers -> Under]
      BY <3>2, <3>3, Zenon
    <3>5. file' \in [{"json", "tmp"} -> Stored]
      <4>1. NoFile \in Stored
        BY SaveFacts
      <4>q. QED
        BY <3>1, <4>1, PairFacts, Zenon
    <3>q. QED
      BY <1>4, <3>4, <3>5
  <2>q. QED
    BY <2>1, <2>2
<1>5. ASSUME NEW b \in Bot \cup {0}, SetToken(b)
      PROVE  DiskKinds'
  BY <1>5, StateFacts, SaveFacts, Zenon DEF SetToken, ChAsks, Answered, ChUp, Due, Spend, NewCursor, telegram, driving
<1>6. ASSUME NEW p \in Person, ApprovePerson(p)
      PROVE  DiskKinds'
  BY <1>6, StateFacts, SaveFacts, Zenon DEF ApprovePerson, ChAsks, Answered, ChUp, Due, Spend, telegram, driving
<1>7. ASSUME NEW p \in Person, DenyPerson(p)
      PROVE  DiskKinds'
  BY <1>7, StateFacts, SaveFacts, Zenon DEF DenyPerson, ChAsks, Answered, ChUp, Due, Spend, telegram, driving
<1>8. ASSUME NEW p \in Person, RevokePerson(p)
      PROVE  DiskKinds'
  BY <1>8, StateFacts, SaveFacts, Zenon DEF RevokePerson, ChAsks, Answered, ChUp, Due, Spend, telegram, driving
<1>9. ASSUME NEW p \in Person, Expires(p)
      PROVE  DiskKinds'
  BY <1>9, StateFacts, SaveFacts, Zenon DEF Expires, telegram, driving
<1>10. CASE PollReads
  BY <1>10, StateFacts, SaveFacts, Zenon DEF PollReads, IdlePoll, telegram, driving
<1>11. CASE PollAsks
  BY <1>11, StateFacts, SaveFacts, Zenon DEF PollAsks, telegram, driving
<1>12. CASE PollFails
  BY <1>12, StateFacts, SaveFacts, Zenon DEF PollFails, IdlePoll, telegram, driving
<1>13. CASE PollAnswered
  BY <1>13, StateFacts, SaveFacts, Zenon DEF PollAnswered, telegram, driving
<1>14. CASE BatchDone
  BY <1>14, StateFacts, SaveFacts, Zenon DEF BatchDone, IdlePoll, telegram, driving
<1>15. CASE Take
  <2>1. mem' \in State
    <3>1. Min(poll.batch) \in Update /\ mem' = [mem EXCEPT !.offset = Min(poll.batch) + 1] /\ mem \in State
      BY <1>15, TakeMoves, Zenon
    <3>2. \A m \in State, i \in Update : [m EXCEPT !.offset = i + 1] \in State
      BY StateFacts
    <3>q. QED
      BY <3>1, <3>2, Zenon
  <2>2. saver' \in [Savers -> Under] /\ file' = file
    BY <1>15, TakeMoves, SaveFacts, Zenon
  <2>q. QED
    BY <2>1, <2>2
<1>16. ASSUME NEW p \in Person, HandleStranger(p)
      PROVE  DiskKinds'
  BY <1>16, StateFacts, SaveFacts, Zenon DEF HandleStranger, Handled, CursorSaved, Due, telegram, driving
<1>17. ASSUME NEW p \in Person, HandleBind(p)
      PROVE  DiskKinds'
  BY <1>17, StateFacts, SaveFacts, Zenon DEF HandleBind, Handled, CursorSaved, Watch, Cancelled, Spend, Due, telegram, driving
<1>18. ASSUME NEW p \in Person, HandleBindFails(p)
      PROVE  DiskKinds'
  BY <1>18, StateFacts, SaveFacts, Zenon DEF HandleBindFails, Handled, CursorSaved, Unbound, telegram, driving
<1>19. ASSUME NEW p \in Person, HandlePrompt(p)
      PROVE  DiskKinds'
  BY <1>19, StateFacts, SaveFacts, Zenon DEF HandlePrompt, Handled, CursorSaved, telegram, driving
<1>20. ASSUME NEW p \in Person, HandleEnd(p)
      PROVE  DiskKinds'
  BY <1>20, StateFacts, SaveFacts, Zenon DEF HandleEnd, Handled, CursorSaved, Cancelled, telegram, driving
<1>21. CASE ChSessionEnds
  BY <1>21, StateFacts, SaveFacts, Zenon DEF ChSessionEnds, telegram, driving
<1>22. CASE ChSessionOpens
  BY <1>22, StateFacts, SaveFacts, Zenon DEF ChSessionOpens, Spend, telegram, driving
<1>23. ASSUME NEW q \in pumps, PumpEnds(q)
      PROVE  DiskKinds'
  BY <1>23, StateFacts, SaveFacts, Zenon DEF PumpEnds, Offered, telegram, driving
<1>24. ASSUME NEW q \in pumps, PumpStops(q)
      PROVE  DiskKinds'
  BY <1>24, StateFacts, SaveFacts, Zenon DEF PumpStops, telegram, driving
<1>25. ASSUME NEW b \in Bot, Sends(b)
      PROVE  DiskKinds'
  BY <1>25, StateFacts, SaveFacts, Zenon DEF Sends, telegram, driving
<1>26. CASE ChCrash
  <2>1. mem' = NoState /\ file' = file /\ saver' = [poll |-> NoSave, app |-> NoSave]
    BY <1>26 DEF ChCrash
  <2>2. saver' \in [Savers -> Under]
    <3>1. NoSave \in Under
      BY SaveFacts
    <3>q. QED
      BY <2>1, <3>1, PairFacts, Zenon
  <2>q. QED
    BY <2>1, <2>2, StateFacts
<1>27. CASE ChBoot
  <2>1. file.json.what \in State
    BY DEF Stored
  <2>q. QED
    BY <1>27, <2>1, StateFacts, SaveFacts DEF ChBoot
<1>q. QED
  BY <1>1, <1>2, <1>3, <1>4, <1>5, <1>6, <1>7, <1>8, <1>9, <1>10, <1>11, <1>12, <1>13, <1>14, <1>15, <1>16, <1>17, <1>18, <1>19, <1>20, <1>21, <1>22, <1>23, <1>24, <1>25, <1>26, <1>27 DEF ChNext, Saves, OwnerChanges, Polls, Handles, ChSession

\* Polls and updates keep their types.
LEMMA WireKindsKept ==
    ASSUME ChInv, ChNext
    PROVE  WireKinds'
<1> USE DEF WireKinds
<1>1. ASSUME NEW s \in DOMAIN saver, SaveReads(s), UNCHANGED <<mem, poll, telegram, driving, revoked, left>>
      PROVE  WireKinds'
  BY <1>1 DEF ChInv, ChKinds, SaveReads, Saving, telegram, driving
<1>2. ASSUME NEW s \in DOMAIN saver, SaveOpens(s), UNCHANGED <<mem, poll, telegram, driving, revoked, left>>
      PROVE  WireKinds'
  BY <1>2 DEF ChInv, ChKinds, SaveOpens, Half, telegram, driving
<1>3. ASSUME NEW s \in DOMAIN saver, SaveWrites(s), UNCHANGED <<mem, poll, telegram, driving, revoked, left>>
      PROVE  WireKinds'
  BY <1>3 DEF ChInv, ChKinds, SaveWrites, File, telegram, driving
<1>4. ASSUME NEW s \in DOMAIN saver, SaveRenames(s), UNCHANGED <<mem, poll, telegram, driving, revoked, left>>
      PROVE  WireKinds'
  BY <1>4 DEF ChInv, ChKinds, SaveRenames, NoFile, Renamed, File, telegram, driving
<1>5. ASSUME NEW b \in Bot \cup {0}, SetToken(b)
      PROVE  WireKinds'
  BY <1>5 DEF ChInv, ChKinds, SetToken, ChAsks, Answered, ChUp, Due, Spend, NewCursor, telegram, driving
<1>6. ASSUME NEW p \in Person, ApprovePerson(p)
      PROVE  WireKinds'
  BY <1>6 DEF ChInv, ChKinds, ApprovePerson, ChAsks, Answered, ChUp, Due, Spend, telegram, driving
<1>7. ASSUME NEW p \in Person, DenyPerson(p)
      PROVE  WireKinds'
  BY <1>7 DEF ChInv, ChKinds, DenyPerson, ChAsks, Answered, ChUp, Due, Spend, telegram, driving
<1>8. ASSUME NEW p \in Person, RevokePerson(p)
      PROVE  WireKinds'
  BY <1>8 DEF ChInv, ChKinds, RevokePerson, ChAsks, Answered, ChUp, Due, Spend, telegram, driving
<1>9. ASSUME NEW p \in Person, Expires(p)
      PROVE  WireKinds'
  BY <1>9 DEF ChInv, ChKinds, Expires, telegram, driving
<1>10. CASE PollReads
  <2>1. mem.bot \in Bot \cup {0} /\ poll' = [IdlePoll EXCEPT !.at = "asked", !.bot = mem.bot] /\ UNCHANGED <<fate, kept>>
    BY <1>10 DEF PollReads, ChInv, ChKinds, DiskKinds, State, telegram
  <2>q. QED
    BY <2>1, PollFacts, Zenon DEF ChInv, ChKinds
<1>11. CASE PollAsks
  <2>1. mem.offset \in 0..MaxSent + 1 /\ poll' = [poll EXCEPT !.at = "out", !.offset = mem.offset] /\ fate' = fate
    BY <1>11 DEF PollAsks, ChInv, ChKinds, DiskKinds, State
  <2>2. poll' \in Polling
    BY <2>1, PollFacts, Zenon DEF ChInv, ChKinds
  <2>3. kept' \in [Bot -> 0..MaxSent + 1]
    BY <1>11, <2>1 DEF PollAsks, ChInv, ChKinds
  <2>q. QED
    BY <2>1, <2>2, <2>3, Zenon DEF ChInv, ChKinds
<1>12. CASE PollFails
  BY <1>12, PollFacts, Zenon DEF ChInv, ChKinds, PollFails, telegram
<1>13. CASE PollAnswered
  <2> DEFINE new == {i \in Update : i >= kept[poll.bot] /\ fate[poll.bot][i] # "none"}
  <2>1. new \in SUBSET Update /\ poll' = [poll EXCEPT !.at = "batch", !.batch = new] /\ UNCHANGED <<fate, kept>>
    BY <1>13 DEF PollAnswered, telegram
  <2> HIDE DEF new
  <2>q. QED
    BY <2>1, PollFacts, Zenon DEF ChInv, ChKinds
<1>14. CASE BatchDone
  BY <1>14, PollFacts, Zenon DEF ChInv, ChKinds, BatchDone, telegram
<1>15. CASE Take
  BY <1>15, TakeMoves, PollFacts, Zenon DEF ChInv, ChKinds
<1>16. ASSUME NEW p \in Person, HandleStranger(p)
      PROVE  WireKinds'
  <2>1. Handled
    BY <1>16 DEF HandleStranger
  <2>2. poll.batch \ {Min(poll.batch)} \in SUBSET Update
    BY <2>1, HandledMoves DEF ChInv, ChKinds, WireKinds, Polling
  <2>q. QED
    BY <2>1, <2>2, HandledMoves, PollFacts, Zenon DEF ChInv, ChKinds, WireKinds
<1>17. ASSUME NEW p \in Person, HandleBind(p)
      PROVE  WireKinds'
  <2>1. Handled
    BY <1>17 DEF HandleBind
  <2>2. poll.batch \ {Min(poll.batch)} \in SUBSET Update
    BY <2>1, HandledMoves DEF ChInv, ChKinds, WireKinds, Polling
  <2>q. QED
    BY <2>1, <2>2, HandledMoves, PollFacts, Zenon DEF ChInv, ChKinds, WireKinds
<1>18. ASSUME NEW p \in Person, HandleBindFails(p)
      PROVE  WireKinds'
  <2>1. Handled
    BY <1>18 DEF HandleBindFails
  <2>2. poll.batch \ {Min(poll.batch)} \in SUBSET Update
    BY <2>1, HandledMoves DEF ChInv, ChKinds, WireKinds, Polling
  <2>q. QED
    BY <2>1, <2>2, HandledMoves, PollFacts, Zenon DEF ChInv, ChKinds, WireKinds
<1>19. ASSUME NEW p \in Person, HandlePrompt(p)
      PROVE  WireKinds'
  <2>1. Handled
    BY <1>19 DEF HandlePrompt
  <2>2. poll.batch \ {Min(poll.batch)} \in SUBSET Update
    BY <2>1, HandledMoves DEF ChInv, ChKinds, WireKinds, Polling
  <2>q. QED
    BY <2>1, <2>2, HandledMoves, PollFacts, Zenon DEF ChInv, ChKinds, WireKinds
<1>20. ASSUME NEW p \in Person, HandleEnd(p)
      PROVE  WireKinds'
  <2>1. Handled
    BY <1>20 DEF HandleEnd
  <2>2. poll.batch \ {Min(poll.batch)} \in SUBSET Update
    BY <2>1, HandledMoves DEF ChInv, ChKinds, WireKinds, Polling
  <2>q. QED
    BY <2>1, <2>2, HandledMoves, PollFacts, Zenon DEF ChInv, ChKinds, WireKinds
<1>21. CASE ChSessionEnds
  BY <1>21 DEF ChInv, ChKinds, ChSessionEnds, telegram, driving
<1>22. CASE ChSessionOpens
  BY <1>22 DEF ChInv, ChKinds, ChSessionOpens, Spend, telegram, driving
<1>23. ASSUME NEW q \in pumps, PumpEnds(q)
      PROVE  WireKinds'
  BY <1>23 DEF ChInv, ChKinds, PumpEnds, Offered, telegram, driving
<1>24. ASSUME NEW q \in pumps, PumpStops(q)
      PROVE  WireKinds'
  BY <1>24 DEF ChInv, ChKinds, PumpStops, telegram, driving
<1>25. ASSUME NEW b \in Bot, Sends(b)
      PROVE  WireKinds'
  <2>1. PICK i \in Update : fate' = [fate EXCEPT ![b][i] = "sent"]
    BY <1>25 DEF Sends
  <2>2. fate' \in [Bot -> [Update -> Fates]]
    BY <2>1, FateFacts DEF ChInv, ChKinds, Fates
  <2>q. QED
    BY <1>25, <2>2 DEF ChInv, ChKinds, Sends
<1>26. CASE ChCrash
  BY <1>26, PollFacts, Zenon DEF ChInv, ChKinds, ChCrash, telegram
<1>27. CASE ChBoot
  BY <1>27, PollFacts, Zenon DEF ChInv, ChKinds, ChBoot, telegram
<1>q. QED
  BY <1>1, <1>2, <1>3, <1>4, <1>5, <1>6, <1>7, <1>8, <1>9, <1>10, <1>11, <1>12, <1>13, <1>14, <1>15, <1>16, <1>17, <1>18, <1>19, <1>20, <1>21, <1>22, <1>23, <1>24, <1>25, <1>26, <1>27 DEF ChNext, Saves, OwnerChanges, Polls, Handles, ChSession

\* The session, its watchers and what is left keep their types.
LEMMA ChatKindsKept ==
    ASSUME ChInv, ChNext
    PROVE  ChatKinds'
<1> USE DEF ChInv, ChKinds, ChatKinds
<1>1. ASSUME NEW s \in DOMAIN saver, SaveReads(s), UNCHANGED <<mem, poll, telegram, driving, revoked, left>>
      PROVE  ChatKinds'
  BY <1>1 DEF SaveReads, Saving, telegram, driving
<1>2. ASSUME NEW s \in DOMAIN saver, SaveOpens(s), UNCHANGED <<mem, poll, telegram, driving, revoked, left>>
      PROVE  ChatKinds'
  BY <1>2 DEF SaveOpens, Half, telegram, driving
<1>3. ASSUME NEW s \in DOMAIN saver, SaveWrites(s), UNCHANGED <<mem, poll, telegram, driving, revoked, left>>
      PROVE  ChatKinds'
  BY <1>3 DEF SaveWrites, File, telegram, driving
<1>4. ASSUME NEW s \in DOMAIN saver, SaveRenames(s), UNCHANGED <<mem, poll, telegram, driving, revoked, left>>
      PROVE  ChatKinds'
  BY <1>4 DEF SaveRenames, NoFile, Renamed, File, telegram, driving
<1>5. ASSUME NEW b \in Bot \cup {0}, SetToken(b)
      PROVE  ChatKinds'
  BY <1>5 DEF SetToken, ChAsks, Answered, ChUp, Due, Spend, NewCursor, telegram, driving
<1>6. ASSUME NEW p \in Person, ApprovePerson(p)
      PROVE  ChatKinds'
  BY <1>6 DEF ApprovePerson, ChAsks, Answered, ChUp, Due, Spend, telegram, driving
<1>7. ASSUME NEW p \in Person, DenyPerson(p)
      PROVE  ChatKinds'
  BY <1>7 DEF DenyPerson, ChAsks, Answered, ChUp, Due, Spend, telegram, driving
<1>8. ASSUME NEW p \in Person, RevokePerson(p)
      PROVE  ChatKinds'
  BY <1>8 DEF RevokePerson, ChAsks, Answered, ChUp, Due, Spend, telegram, driving
<1>9. ASSUME NEW p \in Person, Expires(p)
      PROVE  ChatKinds'
  BY <1>9 DEF Expires, telegram, driving
<1>10. CASE PollReads
  BY <1>10 DEF PollReads, IdlePoll, telegram, driving
<1>11. CASE PollAsks
  BY <1>11 DEF PollAsks, telegram, driving
<1>12. CASE PollFails
  BY <1>12 DEF PollFails, IdlePoll, telegram, driving
<1>13. CASE PollAnswered
  BY <1>13 DEF PollAnswered, telegram, driving
<1>14. CASE BatchDone
  BY <1>14 DEF BatchDone, IdlePoll, telegram, driving
<1>15. CASE Take
  BY <1>15 DEF Take, Due, telegram, driving
<1>16. ASSUME NEW p \in Person, HandleStranger(p)
      PROVE  ChatKinds'
  BY <1>16 DEF HandleStranger, Handled, CursorSaved, Due, telegram, driving
<1>17. ASSUME NEW p \in Person, HandleBind(p)
      PROVE  ChatKinds'
  <2>1. sess' \in [n : Nat, live : BOOLEAN] /\ left' \in [{"change", "open", "crash"} -> Nat]
    <3>1. CASE sess.live
      BY <1>17, <3>1 DEF HandleBind
    <3>2. CASE ~sess.live
      <4>1. Spend("open") /\ sess' = [n |-> sess.n + 1, live |-> TRUE]
        BY <1>17, <3>2 DEF HandleBind
      <4>2. left' \in [{"change", "open", "crash"} -> Nat]
        BY <4>1, SpendFacts
      <4>q. QED
        BY <4>1, <4>2
    <3>q. QED
      BY <3>1, <3>2
  <2>2. pumps' \subseteq [n : Nat, on : BOOLEAN]
    <3>1. pumps' = {[q EXCEPT !.on = FALSE] : q \in pumps} \cup {[n |-> sess'.n, on |-> TRUE]}
      BY <1>17 DEF HandleBind, Watch, Cancelled
    <3>2. \A q \in pumps : [q EXCEPT !.on = FALSE] \in [n : Nat, on : BOOLEAN]
      OBVIOUS
    <3>3. [n |-> sess'.n, on |-> TRUE] \in [n : Nat, on : BOOLEAN]
      BY <2>1
    <3>q. QED
      BY <3>1, <3>2, <3>3
  <2>q. QED
    BY <1>17, <2>1, <2>2 DEF HandleBind, Handled
<1>18. ASSUME NEW p \in Person, HandleBindFails(p)
      PROVE  ChatKinds'
  BY <1>18 DEF HandleBindFails, Handled, CursorSaved, Unbound, telegram, driving
<1>19. ASSUME NEW p \in Person, HandlePrompt(p)
      PROVE  ChatKinds'
  BY <1>19 DEF HandlePrompt, Handled, CursorSaved, telegram, driving
<1>20. ASSUME NEW p \in Person, HandleEnd(p)
      PROVE  ChatKinds'
  BY <1>20 DEF HandleEnd, Handled, CursorSaved, Cancelled, telegram, driving
<1>21. CASE ChSessionEnds
  BY <1>21 DEF ChSessionEnds, telegram, driving
<1>22. CASE ChSessionOpens
  BY <1>22 DEF ChSessionOpens, Spend, telegram, driving
<1>23. ASSUME NEW q \in pumps, PumpEnds(q)
      PROVE  ChatKinds'
  BY <1>23 DEF PumpEnds, Offered, telegram, driving
<1>24. ASSUME NEW q \in pumps, PumpStops(q)
      PROVE  ChatKinds'
  BY <1>24 DEF PumpStops, telegram, driving
<1>25. ASSUME NEW b \in Bot, Sends(b)
      PROVE  ChatKinds'
  BY <1>25 DEF Sends, telegram, driving
<1>26. CASE ChCrash
  <2>1. left' \in [{"change", "open", "crash"} -> Nat]
    <3>1. left \in [{"change", "open", "crash"} -> Nat] /\ left["crash"] > 0
      BY <1>26 DEF ChCrash
    <3>2. left["crash"] - 1 \in Nat /\ (IF left["change"] > 0 THEN left["change"] - 1 ELSE 0) \in Nat
      BY <3>1
    <3>3. left' = [[left EXCEPT !["crash"] = left["crash"] - 1] EXCEPT !["change"] = IF left["change"] > 0 THEN left["change"] - 1 ELSE 0]
      BY <1>26, <3>1 DEF ChCrash
    <3>q. QED
      BY <3>1, <3>2, <3>3
  <2>2. sess' \in [n : Nat, live : BOOLEAN] /\ pumps' = {} /\ offer' = offer /\ revoked' \subseteq Person
    BY <1>26 DEF ChCrash
  <2>q. QED
    BY <2>1, <2>2
<1>27. CASE ChBoot
  <2>1. pumps' = {} \/ pumps' = {[n |-> sess.n, on |-> TRUE]}
    BY <1>27 DEF ChBoot
  <2>2. pumps' \subseteq [n : Nat, on : BOOLEAN]
    <3>1. sess.n \in Nat
      OBVIOUS
    <3>2. [n |-> sess.n, on |-> TRUE] \in [n : Nat, on : BOOLEAN]
      BY <3>1
    <3>q. QED
      BY <2>1, <3>2
  <2>q. QED
    BY <1>27, <2>2 DEF ChBoot
<1>q. QED
  BY <1>1, <1>2, <1>3, <1>4, <1>5, <1>6, <1>7, <1>8, <1>9, <1>10, <1>11, <1>12, <1>13, <1>14, <1>15, <1>16, <1>17, <1>18, <1>19, <1>20, <1>21, <1>22, <1>23, <1>24, <1>25, <1>26, <1>27 DEF ChNext, Saves, OwnerChanges, Polls, Handles, ChSession

\* Saves do not overlap, and the file is never half written.
LEMMA OneSaveKept ==
    ASSUME ChInv, SerialSaves, ChKinds', ChNext
    PROVE  OneSave'
<1> USE DEF ChInv, ChKinds, DiskKinds, OneSave, Savers, Saving, NoSave, Beside, ChDown
<1>1. ASSUME NEW s \in DOMAIN saver, SaveReads(s), UNCHANGED <<mem, poll, telegram, driving, revoked, left>>
      PROVE  OneSave'
  BY <1>1 DEF SaveReads, Saving, telegram, driving
<1>2. ASSUME NEW s \in DOMAIN saver, SaveOpens(s), UNCHANGED <<mem, poll, telegram, driving, revoked, left>>
      PROVE  OneSave'
  BY <1>2 DEF SaveOpens, Half, telegram, driving
<1>3. ASSUME NEW s \in DOMAIN saver, SaveWrites(s), UNCHANGED <<mem, poll, telegram, driving, revoked, left>>
      PROVE  OneSave'
  BY <1>3 DEF SaveWrites, File, telegram, driving
<1>4. ASSUME NEW s \in DOMAIN saver, SaveRenames(s), UNCHANGED <<mem, poll, telegram, driving, revoked, left>>
      PROVE  OneSave'
  <2>1. s \in Savers /\ saver[s].at = "written" /\ Saving(s) /\ UNCHANGED <<mem, poll>>
    BY <1>4 DEF SaveRenames
  <2>2. file.tmp = File("whole", saver[s].what) /\ \A o \in Savers : o # s => ~Saving(o)
    BY <2>1
  <2>3. file.tmp # NoFile /\ file.tmp # Half /\ file.tmp.how = "whole"
    BY <2>2 DEF NoFile, Half, File
  <2>4. file'.json = file.tmp /\ file'.tmp = NoFile /\ saver' = [o \in Savers |-> IF o = s THEN NoSave ELSE Renamed(saver[o])]
    BY <1>4, <2>3 DEF SaveRenames
  <2>5. \A o \in Savers : o # s => Renamed(saver[o]) = saver[o]
    BY <2>2 DEF Renamed
  <2>6. \A o \in Savers : saver'[o] = IF o = s THEN NoSave ELSE saver[o]
    BY <2>4, <2>5
  <2>7. \A f \in {"json", "tmp"} : file'[f] \in {NoFile, Half} \/ file'[f].how = "whole"
    BY <2>3, <2>4
  <2>8. poll.at # "down"
    BY <2>1
  <2>q. QED
    BY <2>1, <2>2, <2>3, <2>4, <2>6, <2>7, <2>8
<1>5. ASSUME NEW b \in Bot \cup {0}, SetToken(b)
      PROVE  OneSave'
  BY <1>5 DEF SetToken, ChAsks, Answered, ChUp, Due, Spend, NewCursor, telegram, driving
<1>6. ASSUME NEW p \in Person, ApprovePerson(p)
      PROVE  OneSave'
  BY <1>6 DEF ApprovePerson, ChAsks, Answered, ChUp, Due, Spend, telegram, driving
<1>7. ASSUME NEW p \in Person, DenyPerson(p)
      PROVE  OneSave'
  BY <1>7 DEF DenyPerson, ChAsks, Answered, ChUp, Due, Spend, telegram, driving
<1>8. ASSUME NEW p \in Person, RevokePerson(p)
      PROVE  OneSave'
  BY <1>8 DEF RevokePerson, ChAsks, Answered, ChUp, Due, Spend, telegram, driving
<1>9. ASSUME NEW p \in Person, Expires(p)
      PROVE  OneSave'
  <2>1. poll.at # "down"
    BY <1>9 DEF Expires, NoState
  <2>q. QED
    BY <1>9, <2>1 DEF Expires
<1>10. CASE PollReads
  <2>1. poll'.at # "down" /\ UNCHANGED <<saver, file>>
    BY <1>10 DEF PollReads, IdlePoll, WireKinds, Polling
  <2>q. QED
    BY <1>10, <2>1 DEF PollReads
<1>11. CASE PollAsks
  <2>1. poll'.at # "down" /\ UNCHANGED <<saver, file>>
    BY <1>11 DEF PollAsks, IdlePoll, WireKinds, Polling
  <2>q. QED
    BY <1>11, <2>1 DEF PollAsks
<1>12. CASE PollFails
  <2>1. poll'.at # "down" /\ UNCHANGED <<saver, file>>
    BY <1>12 DEF PollFails, IdlePoll, WireKinds, Polling
  <2>q. QED
    BY <1>12, <2>1 DEF PollFails
<1>13. CASE PollAnswered
  <2>1. poll'.at # "down" /\ UNCHANGED <<saver, file>>
    BY <1>13 DEF PollAnswered, IdlePoll, WireKinds, Polling
  <2>q. QED
    BY <1>13, <2>1 DEF PollAnswered
<1>14. CASE BatchDone
  <2>1. poll'.at # "down" /\ UNCHANGED <<saver, file>>
    BY <1>14 DEF BatchDone, IdlePoll, WireKinds, Polling
  <2>q. QED
    BY <1>14, <2>1 DEF BatchDone
<1>15. CASE Take
  <2>1. poll' = [poll EXCEPT !.at = "handle"] /\ saver' = [saver EXCEPT !.poll = Due] /\ file' = file /\ saver.poll.at = "none"
    BY <1>15, TakeMoves, Zenon
  <2>2. poll'.at # "down"
    BY <2>1 DEF WireKinds, Polling
  <2>q. QED
    BY <2>1, <2>2 DEF Due
<1>16. ASSUME NEW p \in Person, HandleStranger(p)
      PROVE  OneSave'
  <2>1. Handled
    BY <1>16 DEF HandleStranger
  <2>2. poll.at = "handle" /\ poll' = [poll EXCEPT !.at = "batch", !.batch = poll.batch \ {Min(poll.batch)}] /\ saver.poll.at = "none" /\ file' = file
    BY <2>1, HandledMoves, Zenon
  <2>3. poll'.at = "batch"
    BY <2>2 DEF WireKinds, Polling
  <2>q. QED
    BY <1>16, <2>2, <2>3 DEF HandleStranger, Due, Unbound
<1>17. ASSUME NEW p \in Person, HandleBind(p)
      PROVE  OneSave'
  <2>1. Handled
    BY <1>17 DEF HandleBind
  <2>2. poll.at = "handle" /\ poll' = [poll EXCEPT !.at = "batch", !.batch = poll.batch \ {Min(poll.batch)}] /\ saver.poll.at = "none" /\ file' = file
    BY <2>1, HandledMoves, Zenon
  <2>3. poll'.at = "batch"
    BY <2>2 DEF WireKinds, Polling
  <2>q. QED
    BY <1>17, <2>2, <2>3 DEF HandleBind, Due, Unbound
<1>18. ASSUME NEW p \in Person, HandleBindFails(p)
      PROVE  OneSave'
  <2>1. Handled
    BY <1>18 DEF HandleBindFails
  <2>2. poll.at = "handle" /\ poll' = [poll EXCEPT !.at = "batch", !.batch = poll.batch \ {Min(poll.batch)}] /\ saver.poll.at = "none" /\ file' = file
    BY <2>1, HandledMoves, Zenon
  <2>3. poll'.at = "batch"
    BY <2>2 DEF WireKinds, Polling
  <2>q. QED
    BY <1>18, <2>2, <2>3 DEF HandleBindFails, Due, Unbound
<1>19. ASSUME NEW p \in Person, HandlePrompt(p)
      PROVE  OneSave'
  <2>1. Handled
    BY <1>19 DEF HandlePrompt
  <2>2. poll.at = "handle" /\ poll' = [poll EXCEPT !.at = "batch", !.batch = poll.batch \ {Min(poll.batch)}] /\ saver.poll.at = "none" /\ file' = file
    BY <2>1, HandledMoves, Zenon
  <2>3. poll'.at = "batch"
    BY <2>2 DEF WireKinds, Polling
  <2>q. QED
    BY <1>19, <2>2, <2>3 DEF HandlePrompt, Due, Unbound
<1>20. ASSUME NEW p \in Person, HandleEnd(p)
      PROVE  OneSave'
  <2>1. Handled
    BY <1>20 DEF HandleEnd
  <2>2. poll.at = "handle" /\ poll' = [poll EXCEPT !.at = "batch", !.batch = poll.batch \ {Min(poll.batch)}] /\ saver.poll.at = "none" /\ file' = file
    BY <2>1, HandledMoves, Zenon
  <2>3. poll'.at = "batch"
    BY <2>2 DEF WireKinds, Polling
  <2>q. QED
    BY <1>20, <2>2, <2>3 DEF HandleEnd, Due, Unbound
<1>21. CASE ChSessionEnds
  BY <1>21 DEF ChSessionEnds, telegram, driving
<1>22. CASE ChSessionOpens
  BY <1>22 DEF ChSessionOpens, Spend, telegram, driving
<1>23. ASSUME NEW q \in pumps, PumpEnds(q)
      PROVE  OneSave'
  BY <1>23 DEF PumpEnds, Offered, telegram, driving
<1>24. ASSUME NEW q \in pumps, PumpStops(q)
      PROVE  OneSave'
  BY <1>24 DEF PumpStops, telegram, driving
<1>25. ASSUME NEW b \in Bot, Sends(b)
      PROVE  OneSave'
  BY <1>25 DEF Sends, telegram, driving
<1>26. CASE ChCrash
  BY <1>26 DEF ChCrash, ChUp, IdlePoll, telegram, driving
<1>27. CASE ChBoot
  BY <1>27 DEF ChBoot, Due, IdlePoll, telegram, driving
<1>q. QED
  BY <1>1, <1>2, <1>3, <1>4, <1>5, <1>6, <1>7, <1>8, <1>9, <1>10, <1>11, <1>12, <1>13, <1>14, <1>15, <1>16, <1>17, <1>18, <1>19, <1>20, <1>21, <1>22, <1>23, <1>24, <1>25, <1>26, <1>27 DEF ChNext, Saves, OwnerChanges, Polls, Handles, ChSession

\* Who was revoked is in no place that is read again.
LEMMA RevokesKept ==
    ASSUME ChInv, SerialSaves, Seeded = {}, ChKinds', ChNext
    PROVE  Revokes'
<1> USE DEF ChInv, ChKinds, DiskKinds, OneSave, Revokes, Without, Savers, Saving, State
<1>1. ASSUME NEW s \in DOMAIN saver, SaveReads(s), UNCHANGED <<mem, poll, telegram, driving, revoked, left>>
      PROVE  Revokes'
  BY <1>1 DEF SaveReads, Saving, telegram, driving
<1>2. ASSUME NEW s \in DOMAIN saver, SaveOpens(s), UNCHANGED <<mem, poll, telegram, driving, revoked, left>>
      PROVE  Revokes'
  <2>1. saver' = [saver EXCEPT ![s].at = "open"] /\ saver[s].at = "snap" /\ file'.json = file.json /\ UNCHANGED <<mem, revoked>>
    BY <1>2 DEF SaveOpens, Half, Beside, Stored
  <2>2. \A o \in Savers : saver'[o].what = saver[o].what /\ (Saving(o)' <=> Saving(o)) /\ (saver'[o].at = "none" <=> saver[o].at = "none")
    BY <2>1 DEF Under
  <2>q. QED
    BY <2>1, <2>2
<1>3. ASSUME NEW s \in DOMAIN saver, SaveWrites(s), UNCHANGED <<mem, poll, telegram, driving, revoked, left>>
      PROVE  Revokes'
  BY <1>3 DEF SaveWrites, File, telegram, driving
<1>4. ASSUME NEW s \in DOMAIN saver, SaveRenames(s), UNCHANGED <<mem, poll, telegram, driving, revoked, left>>
      PROVE  Revokes'
  <2>1. saver[s].at = "written" /\ file.tmp = File("whole", saver[s].what) /\ \A o \in Savers : o # s => ~Saving(o)
    BY <1>4 DEF SaveRenames
  <2>2. file.tmp # NoFile
    BY <2>1 DEF NoFile, File
  <2>3. file'.json.what = saver[s].what /\ \A o \in Savers : saver'[o] = IF o = s THEN NoSave ELSE Renamed(saver[o])
    BY <1>4, <2>1, <2>2 DEF SaveRenames, File
  <2>4. \A o \in Savers : Renamed(saver[o]).what = saver[o].what /\ Renamed(saver[o]).at = saver[o].at
    BY DEF Renamed, Under
  <2>5. \A o \in Savers : ~Saving(o)' /\ (o # s => saver'[o].at = saver[o].at)
    BY <2>1, <2>3, <2>4 DEF NoSave
  <2>6. CASE s = "app"
    <3>1. Without(saver.app.what) /\ Without(mem) /\ UNCHANGED <<mem, revoked>>
      BY <1>4, <2>1, <2>6
    <3>q. QED
      BY <2>3, <2>5, <2>6, <3>1
  <2>7. CASE s = "poll"
    <3>1. Without(mem) /\ UNCHANGED <<mem, revoked>> /\ (saver.app.at = "none" => Without(saver.poll.what))
      BY <1>4, <2>1, <2>7
    <3>2. saver'.app.at = saver.app.at
      BY <2>5, <2>7
    <3>q. QED
      BY <2>3, <2>5, <2>7, <3>1, <3>2
  <2>q. QED
    BY <2>6, <2>7
<1>5. ASSUME NEW b \in Bot \cup {0}, SetToken(b)
      PROVE  Revokes'
  <2>1. mem' = [mem EXCEPT !.bot = b, !.offset = 0] /\ mem.people \subseteq Person
    BY <1>5 DEF SetToken, NewCursor
  <2>2. revoked' = revoked /\ UNCHANGED file /\ saver' = [saver EXCEPT !.app = Due] /\ saver.app.at = "none"
    BY <1>5 DEF SetToken, ChAsks, Answered
  <2>3. Without(mem)'
    BY <2>1, <2>2
  <2>4. saver'.app.at = "due"
    BY <2>2 DEF Due, NoSave
  <2>q. QED
    BY <2>3, <2>4
<1>6. ASSUME NEW p \in Person, ApprovePerson(p)
      PROVE  Revokes'
  <2>1. mem' = [mem EXCEPT !.waiting = mem.waiting \ {p}, !.people = mem.people \cup {p}] /\ mem.people \subseteq Person
    BY <1>6 DEF ApprovePerson
  <2>2. revoked' = revoked \ {p} /\ UNCHANGED file /\ saver' = [saver EXCEPT !.app = Due] /\ saver.app.at = "none"
    BY <1>6 DEF ApprovePerson, ChAsks, Answered
  <2>3. Without(mem)'
    BY <2>1, <2>2
  <2>4. saver'.app.at = "due"
    BY <2>2 DEF Due, NoSave
  <2>q. QED
    BY <2>3, <2>4
<1>7. ASSUME NEW p \in Person, DenyPerson(p)
      PROVE  Revokes'
  <2>1. mem' = [mem EXCEPT !.waiting = mem.waiting \ {p}] /\ mem.people \subseteq Person
    BY <1>7 DEF DenyPerson
  <2>2. revoked' = revoked /\ UNCHANGED file /\ saver' = [saver EXCEPT !.app = Due] /\ saver.app.at = "none"
    BY <1>7 DEF DenyPerson, ChAsks, Answered
  <2>3. Without(mem)'
    BY <2>1, <2>2
  <2>4. saver'.app.at = "due"
    BY <2>2 DEF Due, NoSave
  <2>q. QED
    BY <2>3, <2>4
<1>8. ASSUME NEW p \in Person, RevokePerson(p)
      PROVE  Revokes'
  <2>1. mem' = [mem EXCEPT !.people = mem.people \ {p}] /\ mem.people \subseteq Person
    BY <1>8 DEF RevokePerson
  <2>2. revoked' = revoked \cup {p} /\ UNCHANGED file /\ saver' = [saver EXCEPT !.app = Due] /\ saver.app.at = "none"
    BY <1>8 DEF RevokePerson, ChAsks, Answered
  <2>3. Without(mem)'
    BY <2>1, <2>2
  <2>4. saver'.app.at = "due"
    BY <2>2 DEF Due, NoSave
  <2>q. QED
    BY <2>3, <2>4
<1>9. ASSUME NEW p \in Person, Expires(p)
      PROVE  Revokes'
  BY <1>9 DEF Expires, telegram, driving
<1>10. CASE PollReads
  BY <1>10 DEF PollReads, IdlePoll, telegram, driving
<1>11. CASE PollAsks
  BY <1>11 DEF PollAsks, telegram, driving
<1>12. CASE PollFails
  BY <1>12 DEF PollFails, IdlePoll, telegram, driving
<1>13. CASE PollAnswered
  BY <1>13 DEF PollAnswered, telegram, driving
<1>14. CASE BatchDone
  BY <1>14 DEF BatchDone, IdlePoll, telegram, driving
<1>15. CASE Take
  BY <1>15 DEF Take, Due, telegram, driving
<1>16. ASSUME NEW p \in Person, HandleStranger(p)
      PROVE  Revokes'
  BY <1>16 DEF HandleStranger, Handled, CursorSaved, Due, telegram, driving
<1>17. ASSUME NEW p \in Person, HandleBind(p)
      PROVE  Revokes'
  <2>1. Handled /\ mem' = [mem EXCEPT !.bound = TRUE] /\ saver' = [saver EXCEPT !.poll = Due]
    BY <1>17 DEF HandleBind
  <2>2. UNCHANGED <<file, revoked>> /\ saver.poll.at = "none"
    BY <2>1, HandledMoves
  <2>3. mem'.people = mem.people /\ saver'.app = saver.app /\ saver'.poll.at = "due"
    BY <2>1 DEF Due, NoSave
  <2>q. QED
    BY <2>2, <2>3
<1>18. ASSUME NEW p \in Person, HandleBindFails(p)
      PROVE  Revokes'
  BY <1>18 DEF HandleBindFails, Handled, CursorSaved, Unbound, telegram, driving
<1>19. ASSUME NEW p \in Person, HandlePrompt(p)
      PROVE  Revokes'
  BY <1>19 DEF HandlePrompt, Handled, CursorSaved, telegram, driving
<1>20. ASSUME NEW p \in Person, HandleEnd(p)
      PROVE  Revokes'
  BY <1>20 DEF HandleEnd, Handled, CursorSaved, Cancelled, telegram, driving
<1>21. CASE ChSessionEnds
  BY <1>21 DEF ChSessionEnds, telegram, driving
<1>22. CASE ChSessionOpens
  BY <1>22 DEF ChSessionOpens, Spend, telegram, driving
<1>23. ASSUME NEW q \in pumps, PumpEnds(q)
      PROVE  Revokes'
  BY <1>23 DEF PumpEnds, Offered, telegram, driving
<1>24. ASSUME NEW q \in pumps, PumpStops(q)
      PROVE  Revokes'
  BY <1>24 DEF PumpStops, telegram, driving
<1>25. ASSUME NEW b \in Bot, Sends(b)
      PROVE  Revokes'
  BY <1>25 DEF Sends, telegram, driving
<1>26. CASE ChCrash
  <2>1. mem' = NoState /\ UNCHANGED file /\ saver' = [poll |-> NoSave, app |-> NoSave] /\ revoked' = IF saver.app = NoSave THEN revoked ELSE {}
    BY <1>26 DEF ChCrash
  <2>2. Without(mem)'
    BY <2>1 DEF NoState
  <2>3. ~Saving("poll")' /\ ~Saving("app")'
    BY <2>1 DEF NoSave
  <2>4. Without(file.json.what)'
    BY <2>1 DEF NoSave
  <2>q. QED
    BY <2>2, <2>3, <2>4
<1>27. CASE ChBoot
  <2>1. saver = [o \in Savers |-> NoSave]
    BY <1>27 DEF ChBoot
  <2>2. mem' = [file.json.what EXCEPT !.people = file.json.what.people] /\ file.json.what \in State
    BY <1>27 DEF ChBoot, Stored
  <2>3. mem' = file.json.what
    BY <2>2
  <2>4. saver' = saver /\ UNCHANGED <<file, revoked>>
    BY <1>27, <2>3 DEF ChBoot
  <2>5. Without(file.json.what)
    BY <2>1 DEF NoSave
  <2>6. \A o \in Savers : ~Saving(o)'
    BY <2>1, <2>4 DEF NoSave
  <2>q. QED
    BY <2>3, <2>4, <2>5, <2>6
<1>q. QED
  BY <1>1, <1>2, <1>3, <1>4, <1>5, <1>6, <1>7, <1>8, <1>9, <1>10, <1>11, <1>12, <1>13, <1>14, <1>15, <1>16, <1>17, <1>18, <1>19, <1>20, <1>21, <1>22, <1>23, <1>24, <1>25, <1>26, <1>27 DEF ChNext, Saves, OwnerChanges, Polls, Handles, ChSession

\* Telegram forgets only what was taken.
LEMMA KeepsKept ==
    ASSUME ChInv, ChKinds', ChNext
    PROVE  Keeps'
<1> USE DEF Keeps
<1>1. ASSUME NEW s \in DOMAIN saver, SaveReads(s), UNCHANGED <<mem, poll, telegram, driving, revoked, left>>
      PROVE  Keeps'
  BY <1>1 DEF ChInv, SaveReads, Saving, telegram, driving
<1>2. ASSUME NEW s \in DOMAIN saver, SaveOpens(s), UNCHANGED <<mem, poll, telegram, driving, revoked, left>>
      PROVE  Keeps'
  BY <1>2 DEF ChInv, SaveOpens, Half, telegram, driving
<1>3. ASSUME NEW s \in DOMAIN saver, SaveWrites(s), UNCHANGED <<mem, poll, telegram, driving, revoked, left>>
      PROVE  Keeps'
  BY <1>3 DEF ChInv, SaveWrites, File, telegram, driving
<1>4. ASSUME NEW s \in DOMAIN saver, SaveRenames(s), UNCHANGED <<mem, poll, telegram, driving, revoked, left>>
      PROVE  Keeps'
  BY <1>4 DEF ChInv, SaveRenames, NoFile, Renamed, File, telegram, driving
<1>5. ASSUME NEW b \in Bot \cup {0}, SetToken(b)
      PROVE  Keeps'
  BY <1>5 DEF ChInv, SetToken, ChAsks, Answered, ChUp, Due, Spend, NewCursor, telegram, driving
<1>6. ASSUME NEW p \in Person, ApprovePerson(p)
      PROVE  Keeps'
  BY <1>6 DEF ChInv, ApprovePerson, ChAsks, Answered, ChUp, Due, Spend, telegram, driving
<1>7. ASSUME NEW p \in Person, DenyPerson(p)
      PROVE  Keeps'
  BY <1>7 DEF ChInv, DenyPerson, ChAsks, Answered, ChUp, Due, Spend, telegram, driving
<1>8. ASSUME NEW p \in Person, RevokePerson(p)
      PROVE  Keeps'
  BY <1>8 DEF ChInv, RevokePerson, ChAsks, Answered, ChUp, Due, Spend, telegram, driving
<1>9. ASSUME NEW p \in Person, Expires(p)
      PROVE  Keeps'
  BY <1>9 DEF ChInv, Expires, telegram, driving
<1>10. CASE PollReads
  BY <1>10 DEF ChInv, PollReads, IdlePoll, telegram, driving
<1>11. CASE PollAsks
  <2>1. Own(mem, fate) /\ mem.bot # 0 /\ poll.bot = mem.bot /\ poll.bot \in Bot
    BY <1>11 DEF PollAsks, ChInv, Remembers, Sound, Batched, ChUp, ChDown, ChKinds, WireKinds, Polling
  <2>2. kept' = [kept EXCEPT ![poll.bot] = IF mem.offset > kept[poll.bot] THEN mem.offset ELSE kept[poll.bot]] /\ fate' = fate
        /\ kept \in [Bot -> 0..MaxSent + 1]
    BY <1>11 DEF PollAsks, ChInv, ChKinds, WireKinds
  <2>3. ASSUME NEW b \in Bot, NEW i \in Update, i < kept'[b]
        PROVE  fate[b][i] \notin {"none", "sent"}
    <3>1. CASE i < kept[b]
      BY <3>1 DEF ChInv
    <3>2. CASE ~(i < kept[b])
      <4>1. b = poll.bot /\ i < mem.offset
        BY <2>2, <2>3, <3>2
      <4>q. QED
        BY <2>1, <4>1 DEF Own
    <3>q. QED
      BY <3>1, <3>2
  <2>q. QED
    BY <2>2, <2>3 DEF ChInv
<1>12. CASE PollFails
  BY <1>12 DEF ChInv, PollFails, IdlePoll, telegram, driving
<1>13. CASE PollAnswered
  BY <1>13 DEF ChInv, PollAnswered, telegram
<1>14. CASE BatchDone
  BY <1>14 DEF ChInv, BatchDone, IdlePoll, telegram, driving
<1>15. CASE Take
  <2>1. Take
    BY <1>15
  <2>2. /\ kept' = kept /\ Min(poll.batch) \in poll.batch /\ poll.at = "batch"
        /\ \A c \in Bot, j \in Update : fate'[c][j] = IF c = poll.bot /\ j = Min(poll.batch) THEN "taken" ELSE fate[c][j]
    BY <2>1, TakeMoves, Zenon
  <2>3. fate[poll.bot][Min(poll.batch)] # "none"
    BY <2>2 DEF ChInv, Batched
  <2>4. ASSUME NEW c \in Bot, NEW j \in Update
        PROVE  (fate'[c][j] \in {"none", "sent"} => fate[c][j] \in {"none", "sent"}) /\ (fate'[c][j] = "none" <=> fate[c][j] = "none")
    BY <2>2, <2>3
  <2>5. ASSUME NEW c \in Bot, NEW j \in Update, j < kept'[c]
        PROVE  fate'[c][j] \notin {"none", "sent"}
    BY <2>2, <2>4, <2>5 DEF ChInv
  <2>6. ASSUME NEW c \in Bot, NEW k \in Update, NEW j \in Update, j < k, fate'[c][k] # "none"
        PROVE  fate'[c][j] # "none"
    BY <2>4, <2>6 DEF ChInv
  <2>q. QED
    BY <2>5, <2>6
<1>16. ASSUME NEW p \in Person, HandleStranger(p)
      PROVE  Keeps'
  <2>1. Handled
    BY <1>16 DEF HandleStranger
  <2>2. /\ kept' = kept /\ Min(poll.batch) \in poll.batch /\ poll.at = "handle"
        /\ \A c \in Bot, j \in Update : fate'[c][j] = IF c = poll.bot /\ j = Min(poll.batch) THEN "handled" ELSE fate[c][j]
    BY <2>1, HandledMoves, Zenon
  <2>3. fate[poll.bot][Min(poll.batch)] # "none"
    BY <2>2 DEF ChInv, Batched
  <2>4. ASSUME NEW c \in Bot, NEW j \in Update
        PROVE  (fate'[c][j] \in {"none", "sent"} => fate[c][j] \in {"none", "sent"}) /\ (fate'[c][j] = "none" <=> fate[c][j] = "none")
    BY <2>2, <2>3
  <2>5. ASSUME NEW c \in Bot, NEW j \in Update, j < kept'[c]
        PROVE  fate'[c][j] \notin {"none", "sent"}
    BY <2>2, <2>4, <2>5 DEF ChInv
  <2>6. ASSUME NEW c \in Bot, NEW k \in Update, NEW j \in Update, j < k, fate'[c][k] # "none"
        PROVE  fate'[c][j] # "none"
    BY <2>4, <2>6 DEF ChInv
  <2>q. QED
    BY <2>5, <2>6
<1>17. ASSUME NEW p \in Person, HandleBind(p)
      PROVE  Keeps'
  <2>1. Handled
    BY <1>17 DEF HandleBind
  <2>2. /\ kept' = kept /\ Min(poll.batch) \in poll.batch /\ poll.at = "handle"
        /\ \A c \in Bot, j \in Update : fate'[c][j] = IF c = poll.bot /\ j = Min(poll.batch) THEN "handled" ELSE fate[c][j]
    BY <2>1, HandledMoves, Zenon
  <2>3. fate[poll.bot][Min(poll.batch)] # "none"
    BY <2>2 DEF ChInv, Batched
  <2>4. ASSUME NEW c \in Bot, NEW j \in Update
        PROVE  (fate'[c][j] \in {"none", "sent"} => fate[c][j] \in {"none", "sent"}) /\ (fate'[c][j] = "none" <=> fate[c][j] = "none")
    BY <2>2, <2>3
  <2>5. ASSUME NEW c \in Bot, NEW j \in Update, j < kept'[c]
        PROVE  fate'[c][j] \notin {"none", "sent"}
    BY <2>2, <2>4, <2>5 DEF ChInv
  <2>6. ASSUME NEW c \in Bot, NEW k \in Update, NEW j \in Update, j < k, fate'[c][k] # "none"
        PROVE  fate'[c][j] # "none"
    BY <2>4, <2>6 DEF ChInv
  <2>q. QED
    BY <2>5, <2>6
<1>18. ASSUME NEW p \in Person, HandleBindFails(p)
      PROVE  Keeps'
  <2>1. Handled
    BY <1>18 DEF HandleBindFails
  <2>2. /\ kept' = kept /\ Min(poll.batch) \in poll.batch /\ poll.at = "handle"
        /\ \A c \in Bot, j \in Update : fate'[c][j] = IF c = poll.bot /\ j = Min(poll.batch) THEN "handled" ELSE fate[c][j]
    BY <2>1, HandledMoves, Zenon
  <2>3. fate[poll.bot][Min(poll.batch)] # "none"
    BY <2>2 DEF ChInv, Batched
  <2>4. ASSUME NEW c \in Bot, NEW j \in Update
        PROVE  (fate'[c][j] \in {"none", "sent"} => fate[c][j] \in {"none", "sent"}) /\ (fate'[c][j] = "none" <=> fate[c][j] = "none")
    BY <2>2, <2>3
  <2>5. ASSUME NEW c \in Bot, NEW j \in Update, j < kept'[c]
        PROVE  fate'[c][j] \notin {"none", "sent"}
    BY <2>2, <2>4, <2>5 DEF ChInv
  <2>6. ASSUME NEW c \in Bot, NEW k \in Update, NEW j \in Update, j < k, fate'[c][k] # "none"
        PROVE  fate'[c][j] # "none"
    BY <2>4, <2>6 DEF ChInv
  <2>q. QED
    BY <2>5, <2>6
<1>19. ASSUME NEW p \in Person, HandlePrompt(p)
      PROVE  Keeps'
  <2>1. Handled
    BY <1>19 DEF HandlePrompt
  <2>2. /\ kept' = kept /\ Min(poll.batch) \in poll.batch /\ poll.at = "handle"
        /\ \A c \in Bot, j \in Update : fate'[c][j] = IF c = poll.bot /\ j = Min(poll.batch) THEN "handled" ELSE fate[c][j]
    BY <2>1, HandledMoves, Zenon
  <2>3. fate[poll.bot][Min(poll.batch)] # "none"
    BY <2>2 DEF ChInv, Batched
  <2>4. ASSUME NEW c \in Bot, NEW j \in Update
        PROVE  (fate'[c][j] \in {"none", "sent"} => fate[c][j] \in {"none", "sent"}) /\ (fate'[c][j] = "none" <=> fate[c][j] = "none")
    BY <2>2, <2>3
  <2>5. ASSUME NEW c \in Bot, NEW j \in Update, j < kept'[c]
        PROVE  fate'[c][j] \notin {"none", "sent"}
    BY <2>2, <2>4, <2>5 DEF ChInv
  <2>6. ASSUME NEW c \in Bot, NEW k \in Update, NEW j \in Update, j < k, fate'[c][k] # "none"
        PROVE  fate'[c][j] # "none"
    BY <2>4, <2>6 DEF ChInv
  <2>q. QED
    BY <2>5, <2>6
<1>20. ASSUME NEW p \in Person, HandleEnd(p)
      PROVE  Keeps'
  <2>1. Handled
    BY <1>20 DEF HandleEnd
  <2>2. /\ kept' = kept /\ Min(poll.batch) \in poll.batch /\ poll.at = "handle"
        /\ \A c \in Bot, j \in Update : fate'[c][j] = IF c = poll.bot /\ j = Min(poll.batch) THEN "handled" ELSE fate[c][j]
    BY <2>1, HandledMoves, Zenon
  <2>3. fate[poll.bot][Min(poll.batch)] # "none"
    BY <2>2 DEF ChInv, Batched
  <2>4. ASSUME NEW c \in Bot, NEW j \in Update
        PROVE  (fate'[c][j] \in {"none", "sent"} => fate[c][j] \in {"none", "sent"}) /\ (fate'[c][j] = "none" <=> fate[c][j] = "none")
    BY <2>2, <2>3
  <2>5. ASSUME NEW c \in Bot, NEW j \in Update, j < kept'[c]
        PROVE  fate'[c][j] \notin {"none", "sent"}
    BY <2>2, <2>4, <2>5 DEF ChInv
  <2>6. ASSUME NEW c \in Bot, NEW k \in Update, NEW j \in Update, j < k, fate'[c][k] # "none"
        PROVE  fate'[c][j] # "none"
    BY <2>4, <2>6 DEF ChInv
  <2>q. QED
    BY <2>5, <2>6
<1>21. CASE ChSessionEnds
  BY <1>21 DEF ChInv, ChSessionEnds, telegram, driving
<1>22. CASE ChSessionOpens
  BY <1>22 DEF ChInv, ChSessionOpens, Spend, telegram, driving
<1>23. ASSUME NEW q \in pumps, PumpEnds(q)
      PROVE  Keeps'
  BY <1>23 DEF ChInv, PumpEnds, Offered, telegram, driving
<1>24. ASSUME NEW q \in pumps, PumpStops(q)
      PROVE  Keeps'
  BY <1>24 DEF ChInv, PumpStops, telegram, driving
<1>25. ASSUME NEW b \in Bot, Sends(b)
      PROVE  Keeps'
  <2>1. PICK i \in Update : fate[b][i] = "none" /\ (\A j \in 1..i - 1 : fate[b][j] # "none") /\ fate' = [fate EXCEPT ![b][i] = "sent"] /\ kept' = kept
    BY <1>25 DEF Sends
  <2>2. \A c \in Bot, j \in Update : fate'[c][j] = IF c = b /\ j = i THEN "sent" ELSE fate[c][j]
    BY <2>1, FateFacts DEF ChInv, ChKinds, WireKinds, Fates
  <2>3. ASSUME NEW c \in Bot, NEW j \in Update, j < kept'[c]
        PROVE  fate'[c][j] \notin {"none", "sent"}
    <3>1. ~(c = b /\ j = i)
      BY <2>1, <2>3 DEF ChInv
    <3>q. QED
      BY <2>1, <2>2, <2>3, <3>1 DEF ChInv
  <2>4. ASSUME NEW c \in Bot, NEW k \in Update, NEW j \in Update, j < k, fate'[c][k] # "none"
        PROVE  fate'[c][j] # "none"
    <3>1. CASE c = b /\ k = i
      <4>1. j \in 1..i - 1
        BY <2>4, <3>1, ChannelAssumption DEF Update
      <4>q. QED
        BY <2>1, <2>2, <3>1, <4>1
    <3>2. CASE ~(c = b /\ k = i)
      BY <2>2, <2>4, <3>2 DEF ChInv
    <3>q. QED
      BY <3>1, <3>2
  <2>q. QED
    BY <2>3, <2>4
<1>26. CASE ChCrash
  BY <1>26 DEF ChInv, ChCrash, ChUp, IdlePoll, telegram, driving
<1>27. CASE ChBoot
  BY <1>27 DEF ChInv, ChBoot, Due, IdlePoll, telegram, driving
<1>q. QED
  BY <1>1, <1>2, <1>3, <1>4, <1>5, <1>6, <1>7, <1>8, <1>9, <1>10, <1>11, <1>12, <1>13, <1>14, <1>15, <1>16, <1>17, <1>18, <1>19, <1>20, <1>21, <1>22, <1>23, <1>24, <1>25, <1>26, <1>27 DEF ChNext, Saves, OwnerChanges, Polls, Handles, ChSession

\* A batch stays one of the bot that is asked, from the cursor on.
LEMMA BatchedKept ==
    ASSUME ChInv, Careful, ChKinds', ChNext
    PROVE  Batched'
<1> USE DEF ChDown
<1>1. ASSUME NEW s \in DOMAIN saver, SaveReads(s), UNCHANGED <<mem, poll, telegram, driving, revoked, left>>
      PROVE  Batched'
  BY <1>1 DEF ChInv, ChKinds, DiskKinds, WireKinds, Polling, State, OneSave, Batched, SaveReads, Saving, telegram, driving
<1>2. ASSUME NEW s \in DOMAIN saver, SaveOpens(s), UNCHANGED <<mem, poll, telegram, driving, revoked, left>>
      PROVE  Batched'
  BY <1>2 DEF ChInv, ChKinds, DiskKinds, WireKinds, Polling, State, OneSave, Batched, SaveOpens, Half, telegram, driving
<1>3. ASSUME NEW s \in DOMAIN saver, SaveWrites(s), UNCHANGED <<mem, poll, telegram, driving, revoked, left>>
      PROVE  Batched'
  BY <1>3 DEF ChInv, ChKinds, DiskKinds, WireKinds, Polling, State, OneSave, Batched, SaveWrites, File, telegram, driving
<1>4. ASSUME NEW s \in DOMAIN saver, SaveRenames(s), UNCHANGED <<mem, poll, telegram, driving, revoked, left>>
      PROVE  Batched'
  BY <1>4 DEF ChInv, ChKinds, DiskKinds, WireKinds, Polling, State, OneSave, Batched, SaveRenames, NoFile, Renamed, File, telegram, driving
<1>5. ASSUME NEW b \in Bot \cup {0}, SetToken(b)
      PROVE  Batched'
  BY <1>5 DEF Batched, SetToken, Answered, telegram
<1>6. ASSUME NEW p \in Person, ApprovePerson(p)
      PROVE  Batched'
  BY <1>6 DEF ChInv, ChKinds, DiskKinds, WireKinds, Polling, State, OneSave, Batched, ApprovePerson, ChAsks, Answered, ChUp, Due, Spend, telegram, driving
<1>7. ASSUME NEW p \in Person, DenyPerson(p)
      PROVE  Batched'
  BY <1>7 DEF ChInv, ChKinds, DiskKinds, WireKinds, Polling, State, OneSave, Batched, DenyPerson, ChAsks, Answered, ChUp, Due, Spend, telegram, driving
<1>8. ASSUME NEW p \in Person, RevokePerson(p)
      PROVE  Batched'
  BY <1>8 DEF ChInv, ChKinds, DiskKinds, WireKinds, Polling, State, OneSave, Batched, RevokePerson, ChAsks, Answered, ChUp, Due, Spend, telegram, driving
<1>9. ASSUME NEW p \in Person, Expires(p)
      PROVE  Batched'
  BY <1>9 DEF ChInv, ChKinds, DiskKinds, WireKinds, Polling, State, OneSave, Batched, Expires, telegram, driving
<1>10. CASE PollReads
  BY <1>10 DEF ChInv, ChKinds, DiskKinds, WireKinds, Polling, State, OneSave, Batched, PollReads, IdlePoll, telegram, driving
<1>11. CASE PollAsks
  <2>1. poll.at = "asked" /\ poll' = [poll EXCEPT !.at = "out", !.offset = mem.offset] /\ mem' = mem
        /\ kept' = [kept EXCEPT ![poll.bot] = IF mem.offset > kept[poll.bot] THEN mem.offset ELSE kept[poll.bot]]
    BY <1>11 DEF PollAsks
  <2>2. poll.bot # 0 /\ poll.bot = mem.bot /\ poll.bot \in Bot /\ mem.offset \in Nat /\ kept \in [Bot -> 0..MaxSent + 1] /\ poll \in Polling
    <3>1. poll.bot # 0 /\ poll.bot = mem.bot
      BY <2>1 DEF ChInv, Batched
    <3>2. kept \in [Bot -> 0..MaxSent + 1] /\ poll \in Polling /\ mem \in State
      BY DEF ChInv, ChKinds, WireKinds, DiskKinds
    <3>q. QED
      BY <3>1, <3>2 DEF Polling, State
  <2>3. kept'[poll.bot] \in Nat /\ mem.offset <= kept'[poll.bot]
    BY <2>1, <2>2
  <2>4. poll'.at = "out" /\ poll'.bot = poll.bot
    BY <2>1, <2>2 DEF Polling
  <2>q. QED
    BY <2>1, <2>2, <2>3, <2>4 DEF Batched
<1>12. CASE PollFails
  BY <1>12 DEF ChInv, ChKinds, DiskKinds, WireKinds, Polling, State, OneSave, Batched, PollFails, IdlePoll, telegram, driving
<1>13. CASE PollAnswered
  <2> DEFINE new == {i \in Update : i >= kept[poll.bot] /\ fate[poll.bot][i] # "none"}
  <2>1. poll.at = "out" /\ poll' = [poll EXCEPT !.at = "batch", !.batch = new] /\ UNCHANGED <<mem, fate, kept>>
    BY <1>13 DEF PollAnswered, telegram
  <2>2. poll.bot # 0 /\ poll.bot = mem.bot /\ poll.bot \in Bot /\ mem.offset \in Nat /\ kept[poll.bot] \in Nat /\ poll \in Polling /\ mem.offset <= kept[poll.bot]
    <3>1. poll.bot # 0 /\ poll.bot = mem.bot /\ mem.offset <= kept[poll.bot]
      BY <2>1 DEF ChInv, Batched
    <3>2. kept \in [Bot -> 0..MaxSent + 1] /\ poll \in Polling /\ mem \in State
      BY DEF ChInv, ChKinds, WireKinds, DiskKinds
    <3>q. QED
      BY <3>1, <3>2 DEF Polling, State
  <2>3. poll'.at = "batch" /\ poll'.bot = poll.bot /\ poll'.batch = new
    BY <2>1, <2>2 DEF Polling
  <2>4. \A i \in new : mem.offset <= i /\ fate[poll.bot][i] # "none"
    BY <2>2 DEF Update
  <2>5. ASSUME NEW i \in new, NEW j \in Update, j < i, j \notin new
        PROVE  fate[poll.bot][j] \notin {"none", "sent"}
    <3>1. fate[poll.bot][j] # "none"
      BY <2>2, <2>5 DEF ChInv, Keeps
    <3>2. j < kept[poll.bot]
      BY <2>2, <2>5, <3>1 DEF Update
    <3>q. QED
      BY <2>2, <3>2 DEF ChInv, Keeps
  <2> HIDE DEF new
  <2>q. QED
    BY <2>1, <2>2, <2>3, <2>4, <2>5 DEF Batched
<1>14. CASE BatchDone
  BY <1>14 DEF ChInv, ChKinds, DiskKinds, WireKinds, Polling, State, OneSave, Batched, BatchDone, IdlePoll, telegram, driving
<1>15. CASE Take
  <2>1. /\ Min(poll.batch) \in poll.batch /\ poll.at = "batch" /\ poll.bot \in Bot /\ poll.bot = mem.bot /\ poll' = [poll EXCEPT !.at = "handle"]
        /\ mem' = [mem EXCEPT !.offset = Min(poll.batch) + 1]
        /\ \A c \in Bot, j \in Update : fate'[c][j] = IF c = poll.bot /\ j = Min(poll.batch) THEN "taken" ELSE fate[c][j]
    BY <1>15, TakeMoves, Zenon
  <2>2. poll'.at = "handle" /\ poll'.bot = poll.bot /\ poll'.batch = poll.batch /\ mem'.bot = mem.bot /\ poll.batch \subseteq Update
    BY <2>1 DEF ChInv, ChKinds, WireKinds, DiskKinds, Polling, State
  <2>3. \A i \in poll.batch : fate'[poll.bot][i] # "none"
    BY <2>1, <2>2 DEF ChInv, Batched
  <2>4. \A i \in poll.batch, j \in Update : j < i => j \in poll.batch \/ fate'[poll.bot][j] \notin {"none", "sent"}
    BY <2>1 DEF ChInv, Batched
  <2>5. poll.bot # 0
    BY <2>1 DEF ChInv, Batched
  <2>q. QED
    BY <2>1, <2>2, <2>3, <2>4, <2>5 DEF Batched
<1>16. ASSUME NEW p \in Person, HandleStranger(p)
      PROVE  Batched'
  <2>1. Handled
    BY <1>16 DEF HandleStranger
  <2>2. /\ Min(poll.batch) \in poll.batch /\ poll.at = "handle" /\ poll.bot \in Bot /\ poll.bot = mem.bot /\ mem.offset = Min(poll.batch) + 1
        /\ \A j \in poll.batch : Min(poll.batch) <= j
        /\ poll' = [poll EXCEPT !.at = "batch", !.batch = poll.batch \ {Min(poll.batch)}]
        /\ \A c \in Bot, j \in Update : fate'[c][j] = IF c = poll.bot /\ j = Min(poll.batch) THEN "handled" ELSE fate[c][j]
    BY <2>1, HandledMoves, Zenon
  <2> DEFINE m == Min(poll.batch)
  <2> HIDE DEF m
  <2>3. /\ poll'.at = "batch" /\ poll'.bot = poll.bot /\ poll'.batch = poll.batch \ {m} /\ mem'.bot = mem.bot /\ mem'.offset = m + 1 /\ poll.batch \subseteq Update
    BY <1>16, <2>2 DEF m, ChInv, ChKinds, WireKinds, DiskKinds, Polling, State, HandleStranger, Unbound
  <2>4. \A i \in poll.batch \ {m} : fate'[poll.bot][i] # "none" /\ m + 1 <= i
    BY <2>2, <2>3 DEF m, ChInv, Batched, Update
  <2>5. \A i \in poll.batch, j \in Update : j < i => j \in poll.batch \ {m} \/ fate'[poll.bot][j] \notin {"none", "sent"}
    BY <2>2 DEF m, ChInv, Batched
  <2>6. poll.bot # 0
    BY <2>2 DEF ChInv, Batched
  <2>q. QED
    BY <2>2, <2>3, <2>4, <2>5, <2>6 DEF Batched
<1>17. ASSUME NEW p \in Person, HandleBind(p)
      PROVE  Batched'
  <2>1. Handled
    BY <1>17 DEF HandleBind
  <2>2. /\ Min(poll.batch) \in poll.batch /\ poll.at = "handle" /\ poll.bot \in Bot /\ poll.bot = mem.bot /\ mem.offset = Min(poll.batch) + 1
        /\ \A j \in poll.batch : Min(poll.batch) <= j
        /\ poll' = [poll EXCEPT !.at = "batch", !.batch = poll.batch \ {Min(poll.batch)}]
        /\ \A c \in Bot, j \in Update : fate'[c][j] = IF c = poll.bot /\ j = Min(poll.batch) THEN "handled" ELSE fate[c][j]
    BY <2>1, HandledMoves, Zenon
  <2> DEFINE m == Min(poll.batch)
  <2> HIDE DEF m
  <2>3. /\ poll'.at = "batch" /\ poll'.bot = poll.bot /\ poll'.batch = poll.batch \ {m} /\ mem'.bot = mem.bot /\ mem'.offset = m + 1 /\ poll.batch \subseteq Update
    BY <1>17, <2>2 DEF m, ChInv, ChKinds, WireKinds, DiskKinds, Polling, State, HandleBind, Unbound
  <2>4. \A i \in poll.batch \ {m} : fate'[poll.bot][i] # "none" /\ m + 1 <= i
    BY <2>2, <2>3 DEF m, ChInv, Batched, Update
  <2>5. \A i \in poll.batch, j \in Update : j < i => j \in poll.batch \ {m} \/ fate'[poll.bot][j] \notin {"none", "sent"}
    BY <2>2 DEF m, ChInv, Batched
  <2>6. poll.bot # 0
    BY <2>2 DEF ChInv, Batched
  <2>q. QED
    BY <2>2, <2>3, <2>4, <2>5, <2>6 DEF Batched
<1>18. ASSUME NEW p \in Person, HandleBindFails(p)
      PROVE  Batched'
  <2>1. Handled
    BY <1>18 DEF HandleBindFails
  <2>2. /\ Min(poll.batch) \in poll.batch /\ poll.at = "handle" /\ poll.bot \in Bot /\ poll.bot = mem.bot /\ mem.offset = Min(poll.batch) + 1
        /\ \A j \in poll.batch : Min(poll.batch) <= j
        /\ poll' = [poll EXCEPT !.at = "batch", !.batch = poll.batch \ {Min(poll.batch)}]
        /\ \A c \in Bot, j \in Update : fate'[c][j] = IF c = poll.bot /\ j = Min(poll.batch) THEN "handled" ELSE fate[c][j]
    BY <2>1, HandledMoves, Zenon
  <2> DEFINE m == Min(poll.batch)
  <2> HIDE DEF m
  <2>3. /\ poll'.at = "batch" /\ poll'.bot = poll.bot /\ poll'.batch = poll.batch \ {m} /\ mem'.bot = mem.bot /\ mem'.offset = m + 1 /\ poll.batch \subseteq Update
    BY <1>18, <2>2 DEF m, ChInv, ChKinds, WireKinds, DiskKinds, Polling, State, HandleBindFails, Unbound
  <2>4. \A i \in poll.batch \ {m} : fate'[poll.bot][i] # "none" /\ m + 1 <= i
    BY <2>2, <2>3 DEF m, ChInv, Batched, Update
  <2>5. \A i \in poll.batch, j \in Update : j < i => j \in poll.batch \ {m} \/ fate'[poll.bot][j] \notin {"none", "sent"}
    BY <2>2 DEF m, ChInv, Batched
  <2>6. poll.bot # 0
    BY <2>2 DEF ChInv, Batched
  <2>q. QED
    BY <2>2, <2>3, <2>4, <2>5, <2>6 DEF Batched
<1>19. ASSUME NEW p \in Person, HandlePrompt(p)
      PROVE  Batched'
  <2>1. Handled
    BY <1>19 DEF HandlePrompt
  <2>2. /\ Min(poll.batch) \in poll.batch /\ poll.at = "handle" /\ poll.bot \in Bot /\ poll.bot = mem.bot /\ mem.offset = Min(poll.batch) + 1
        /\ \A j \in poll.batch : Min(poll.batch) <= j
        /\ poll' = [poll EXCEPT !.at = "batch", !.batch = poll.batch \ {Min(poll.batch)}]
        /\ \A c \in Bot, j \in Update : fate'[c][j] = IF c = poll.bot /\ j = Min(poll.batch) THEN "handled" ELSE fate[c][j]
    BY <2>1, HandledMoves, Zenon
  <2> DEFINE m == Min(poll.batch)
  <2> HIDE DEF m
  <2>3. /\ poll'.at = "batch" /\ poll'.bot = poll.bot /\ poll'.batch = poll.batch \ {m} /\ mem'.bot = mem.bot /\ mem'.offset = m + 1 /\ poll.batch \subseteq Update
    BY <1>19, <2>2 DEF m, ChInv, ChKinds, WireKinds, DiskKinds, Polling, State, HandlePrompt, Unbound
  <2>4. \A i \in poll.batch \ {m} : fate'[poll.bot][i] # "none" /\ m + 1 <= i
    BY <2>2, <2>3 DEF m, ChInv, Batched, Update
  <2>5. \A i \in poll.batch, j \in Update : j < i => j \in poll.batch \ {m} \/ fate'[poll.bot][j] \notin {"none", "sent"}
    BY <2>2 DEF m, ChInv, Batched
  <2>6. poll.bot # 0
    BY <2>2 DEF ChInv, Batched
  <2>q. QED
    BY <2>2, <2>3, <2>4, <2>5, <2>6 DEF Batched
<1>20. ASSUME NEW p \in Person, HandleEnd(p)
      PROVE  Batched'
  <2>1. Handled
    BY <1>20 DEF HandleEnd
  <2>2. /\ Min(poll.batch) \in poll.batch /\ poll.at = "handle" /\ poll.bot \in Bot /\ poll.bot = mem.bot /\ mem.offset = Min(poll.batch) + 1
        /\ \A j \in poll.batch : Min(poll.batch) <= j
        /\ poll' = [poll EXCEPT !.at = "batch", !.batch = poll.batch \ {Min(poll.batch)}]
        /\ \A c \in Bot, j \in Update : fate'[c][j] = IF c = poll.bot /\ j = Min(poll.batch) THEN "handled" ELSE fate[c][j]
    BY <2>1, HandledMoves, Zenon
  <2> DEFINE m == Min(poll.batch)
  <2> HIDE DEF m
  <2>3. /\ poll'.at = "batch" /\ poll'.bot = poll.bot /\ poll'.batch = poll.batch \ {m} /\ mem'.bot = mem.bot /\ mem'.offset = m + 1 /\ poll.batch \subseteq Update
    BY <1>20, <2>2 DEF m, ChInv, ChKinds, WireKinds, DiskKinds, Polling, State, HandleEnd, Unbound
  <2>4. \A i \in poll.batch \ {m} : fate'[poll.bot][i] # "none" /\ m + 1 <= i
    BY <2>2, <2>3 DEF m, ChInv, Batched, Update
  <2>5. \A i \in poll.batch, j \in Update : j < i => j \in poll.batch \ {m} \/ fate'[poll.bot][j] \notin {"none", "sent"}
    BY <2>2 DEF m, ChInv, Batched
  <2>6. poll.bot # 0
    BY <2>2 DEF ChInv, Batched
  <2>q. QED
    BY <2>2, <2>3, <2>4, <2>5, <2>6 DEF Batched
<1>21. CASE ChSessionEnds
  BY <1>21 DEF ChInv, ChKinds, DiskKinds, WireKinds, Polling, State, OneSave, Batched, ChSessionEnds, telegram, driving
<1>22. CASE ChSessionOpens
  BY <1>22 DEF ChInv, ChKinds, DiskKinds, WireKinds, Polling, State, OneSave, Batched, ChSessionOpens, Spend, telegram, driving
<1>23. ASSUME NEW q \in pumps, PumpEnds(q)
      PROVE  Batched'
  BY <1>23 DEF ChInv, ChKinds, DiskKinds, WireKinds, Polling, State, OneSave, Batched, PumpEnds, Offered, telegram, driving
<1>24. ASSUME NEW q \in pumps, PumpStops(q)
      PROVE  Batched'
  BY <1>24 DEF ChInv, ChKinds, DiskKinds, WireKinds, Polling, State, OneSave, Batched, PumpStops, telegram, driving
<1>25. ASSUME NEW b \in Bot, Sends(b)
      PROVE  Batched'
  <2>1. PICK i \in Update : fate' = [fate EXCEPT ![b][i] = "sent"] /\ UNCHANGED <<mem, poll, kept>> /\ fate[b][i] = "none"
    BY <1>25 DEF Sends
  <2>2. \A c \in Bot, j \in Update : fate'[c][j] = IF c = b /\ j = i THEN "sent" ELSE fate[c][j]
    BY <2>1, FateFacts DEF ChInv, ChKinds, WireKinds, Fates
  <2>3. poll.at \in {"batch", "handle"} => poll.bot \in Bot /\ poll.batch \subseteq Update
    BY DEF ChInv, ChKinds, WireKinds, Polling, Batched
  <2>4. \A c \in Bot, j \in Update : (fate[c][j] # "none" => fate'[c][j] = fate[c][j])
    BY <2>1, <2>2
  <2>5. ASSUME poll.at \in {"batch", "handle"}, NEW k \in poll.batch
        PROVE  fate'[poll.bot][k] # "none"
    BY <2>3, <2>4, <2>5 DEF ChInv, Batched
  <2>6. ASSUME poll.at \in {"batch", "handle"}, NEW k \in poll.batch, NEW j \in Update, j < k, j \notin poll.batch
        PROVE  fate'[poll.bot][j] \notin {"none", "sent"}
    BY <2>3, <2>4, <2>6 DEF ChInv, Batched
  <2>q. QED
    BY <2>1, <2>5, <2>6 DEF ChInv, Batched
<1>26. CASE ChCrash
  BY <1>26 DEF ChInv, ChKinds, DiskKinds, WireKinds, Polling, State, OneSave, Batched, ChCrash, ChUp, IdlePoll, telegram, driving
<1>27. CASE ChBoot
  BY <1>27 DEF ChInv, ChKinds, DiskKinds, WireKinds, Polling, State, OneSave, Batched, ChBoot, Due, IdlePoll, telegram, driving
<1>q. QED
  BY <1>1, <1>2, <1>3, <1>4, <1>5, <1>6, <1>7, <1>8, <1>9, <1>10, <1>11, <1>12, <1>13, <1>14, <1>15, <1>16, <1>17, <1>18, <1>19, <1>20, <1>21, <1>22, <1>23, <1>24, <1>25, <1>26, <1>27 DEF ChNext, Saves, OwnerChanges, Polls, Handles, ChSession

\* One goroutine feeds the chat, or the chat has its way back.
LEMMA VoicesKept ==
    ASSUME ChInv, ChKinds', ChNext
    PROVE  Voices'
<1> USE DEF ChInv, ChKinds, ChatKinds, Voices, OneSave, ChUp, ChDown
<1>1. ASSUME NEW s \in DOMAIN saver, SaveReads(s), UNCHANGED <<mem, poll, telegram, driving, revoked, left>>
      PROVE  Voices'
  BY <1>1 DEF SaveReads, Saving, telegram, driving
<1>2. ASSUME NEW s \in DOMAIN saver, SaveOpens(s), UNCHANGED <<mem, poll, telegram, driving, revoked, left>>
      PROVE  Voices'
  BY <1>2 DEF SaveOpens, Half, telegram, driving
<1>3. ASSUME NEW s \in DOMAIN saver, SaveWrites(s), UNCHANGED <<mem, poll, telegram, driving, revoked, left>>
      PROVE  Voices'
  BY <1>3 DEF SaveWrites, File, telegram, driving
<1>4. ASSUME NEW s \in DOMAIN saver, SaveRenames(s), UNCHANGED <<mem, poll, telegram, driving, revoked, left>>
      PROVE  Voices'
  BY <1>4 DEF SaveRenames, NoFile, Renamed, File, telegram, driving
<1>5. ASSUME NEW b \in Bot \cup {0}, SetToken(b)
      PROVE  Voices'
  BY <1>5 DEF SetToken, ChAsks, Answered, ChUp, Due, Spend, NewCursor, telegram, driving
<1>6. ASSUME NEW p \in Person, ApprovePerson(p)
      PROVE  Voices'
  BY <1>6 DEF ApprovePerson, ChAsks, Answered, ChUp, Due, Spend, telegram, driving
<1>7. ASSUME NEW p \in Person, DenyPerson(p)
      PROVE  Voices'
  BY <1>7 DEF DenyPerson, ChAsks, Answered, ChUp, Due, Spend, telegram, driving
<1>8. ASSUME NEW p \in Person, RevokePerson(p)
      PROVE  Voices'
  BY <1>8 DEF RevokePerson, ChAsks, Answered, ChUp, Due, Spend, telegram, driving
<1>9. ASSUME NEW p \in Person, Expires(p)
      PROVE  Voices'
  BY <1>9 DEF Expires, telegram, driving
<1>10. CASE PollReads
  BY <1>10 DEF PollReads, IdlePoll, telegram, driving
<1>11. CASE PollAsks
  BY <1>11 DEF PollAsks, telegram, driving
<1>12. CASE PollFails
  BY <1>12 DEF PollFails, IdlePoll, telegram, driving
<1>13. CASE PollAnswered
  BY <1>13 DEF PollAnswered, telegram, driving
<1>14. CASE BatchDone
  BY <1>14 DEF BatchDone, IdlePoll, telegram, driving
<1>15. CASE Take
  BY <1>15 DEF Take, Due, telegram, driving
<1>16. ASSUME NEW p \in Person, HandleStranger(p)
      PROVE  Voices'
  BY <1>16 DEF HandleStranger, Handled, CursorSaved, Due, telegram, driving
<1>17. ASSUME NEW p \in Person, HandleBind(p)
      PROVE  Voices'
  <2>1. pumps' = {[q EXCEPT !.on = FALSE] : q \in pumps} \cup {[n |-> sess'.n, on |-> TRUE]}
    BY <1>17 DEF HandleBind, Watch, Cancelled
  <2>2. \A q \in pumps : ~[q EXCEPT !.on = FALSE].on
    OBVIOUS
  <2>3. \A q \in pumps' : q.on => q = [n |-> sess'.n, on |-> TRUE]
    BY <2>1, <2>2
  <2>4. [n |-> sess'.n, on |-> TRUE] \in pumps' /\ [n |-> sess'.n, on |-> TRUE].on
    BY <2>1
  <2>5. left'.crash = left.crash
    <3>1. CASE sess.live
      BY <1>17, <3>1 DEF HandleBind
    <3>2. CASE ~sess.live
      BY <1>17, <3>2, SpendFacts DEF HandleBind
    <3>q. QED
      BY <3>1, <3>2
  <2>6. \A q, r \in pumps' : q.on /\ r.on => q = r
    BY <2>3
  <2>7. poll'.at # "down"
    BY <1>17 DEF HandleBind, Handled, WireKinds, Polling
  <2>8. sess'.n > 0
    BY <1>17 DEF HandleBind
  <2>q. QED
    BY <2>4, <2>5, <2>6, <2>7, <2>8
<1>18. ASSUME NEW p \in Person, HandleBindFails(p)
      PROVE  Voices'
  BY <1>18 DEF HandleBindFails, Handled, CursorSaved, Unbound, telegram, driving
<1>19. ASSUME NEW p \in Person, HandlePrompt(p)
      PROVE  Voices'
  BY <1>19 DEF HandlePrompt, Handled, CursorSaved, telegram, driving
<1>20. ASSUME NEW p \in Person, HandleEnd(p)
      PROVE  Voices'
  BY <1>20 DEF HandleEnd, Handled, CursorSaved, Cancelled, telegram, driving
<1>21. CASE ChSessionEnds
  BY <1>21 DEF ChSessionEnds, telegram, driving
<1>22. CASE ChSessionOpens
  BY <1>22 DEF ChSessionOpens, Spend, telegram, driving
<1>23. ASSUME NEW q \in pumps, PumpEnds(q)
      PROVE  Voices'
  BY <1>23 DEF PumpEnds, Offered, telegram, driving
<1>24. ASSUME NEW q \in pumps, PumpStops(q)
      PROVE  Voices'
  BY <1>24 DEF PumpStops, telegram, driving
<1>25. ASSUME NEW b \in Bot, Sends(b)
      PROVE  Voices'
  BY <1>25 DEF Sends, telegram, driving
<1>26. CASE ChCrash
  <2>1. pumps' = {} /\ poll' = [IdlePoll EXCEPT !.at = "down"] /\ left.crash > 0
    BY <1>26 DEF ChCrash
  <2>2. left' = [[left EXCEPT !["crash"] = left["crash"] - 1] EXCEPT !["change"] = IF left["change"] > 0 THEN left["change"] - 1 ELSE 0]
    BY <1>26 DEF ChCrash
  <2>3. left'.crash = left.crash - 1 /\ left.crash \in Nat
    BY <2>1, <2>2
  <2>4. poll'.at = "down"
    BY <2>1 DEF IdlePoll
  <2>5. sess' = [sess EXCEPT !.live = FALSE]
    BY <1>26 DEF ChCrash
  <2>6. ~sess'.live /\ Crashes \in Nat
    BY <2>5, ChannelAssumption
  <2>7. left'.crash < Crashes
    BY <2>3, <2>6
  <2>q. QED
    BY <2>1, <2>3, <2>6, <2>7
<1>27. CASE ChBoot
  <2>1. (pumps' = {} \/ pumps' = {[n |-> sess.n, on |-> TRUE]}) /\ left' = left
    BY <1>27 DEF ChBoot
  <2>2. left.crash < Crashes
    BY <1>27 DEF ChBoot
  <2>3. \A q, r \in pumps' : q.on /\ r.on => q = r
    BY <2>1
  <2>4. sess' = sess
    BY <1>27 DEF ChBoot
  <2>5. left'.crash = left.crash /\ left.crash \in Nat /\ Crashes \in Nat
    BY <2>1, ChannelAssumption
  <2>q. QED
    BY <2>1, <2>2, <2>3, <2>4, <2>5
<1>q. QED
  BY <1>1, <1>2, <1>3, <1>4, <1>5, <1>6, <1>7, <1>8, <1>9, <1>10, <1>11, <1>12, <1>13, <1>14, <1>15, <1>16, <1>17, <1>18, <1>19, <1>20, <1>21, <1>22, <1>23, <1>24, <1>25, <1>26, <1>27 DEF ChNext, Saves, OwnerChanges, Polls, Handles, ChSession

\* What is stored stays good while no update changes its fate.
LEMMA RemembersOn ==
    ASSUME ChInv, UNCHANGED <<mem, file, saver, fate>>, sess.n \in Nat, sess'.n \in Nat, sess.n <= sess'.n, ChUp' => ChUp
    PROVE  Remembers'
<1>1. ASSUME NEW st, Sound(st, fate, sess.n)
      PROVE  Sound(st, fate, sess'.n)
  BY <1>1, SoundStays
<1>2. Remembers
  BY DEF ChInv
<1>q. QED
  BY <1>1, <1>2 DEF Remembers, Saving

\* An update that is handled was saved as taken wherever it could be read again.
LEMMA RemembersHandled ==
    ASSUME ChInv, Handled, sess.n \in Nat, sess'.n \in Nat, sess.n <= sess'.n, mem' \in State,
           mem'.bot = mem.bot, mem'.offset = mem.offset, mem'.bound => mem.bound \/ sess'.n > 0,
           saver' = saver \/ saver' = [saver EXCEPT !.poll = Due]
    PROVE  Remembers'
<1> DEFINE m == Min(poll.batch)
<1>1. /\ m \in Update /\ poll.bot \in Bot /\ poll.bot = mem.bot /\ mem.offset = m + 1 /\ poll.at = "handle" /\ saver.poll.at = "none" /\ file' = file
      /\ \A c \in Bot, j \in Update : fate'[c][j] = IF c = poll.bot /\ j = m THEN "handled" ELSE fate[c][j]
  BY HandledMoves, Zenon
<1> HIDE DEF m
<1>2. fate[poll.bot][m] = "taken"
  BY <1>1 DEF m, ChInv, Handling
<1>3. ASSUME NEW st, Sound(st, fate, sess.n), Covers(st, poll.bot, m)
      PROVE  Sound(st, fate', sess'.n)
  <2>1. \A c \in Bot, j \in Update :
              /\ fate'[c][j] = "handled" => fate[c][j] = "handled" \/ Covers(st, c, j)
              /\ fate[c][j] \notin {"none", "sent"} => fate'[c][j] \notin {"none", "sent"}
    BY <1>1, <1>2, <1>3
  <2>q. QED
    BY <1>3, <2>1, SoundStays
<1>4. Covers(mem, poll.bot, m)
  BY <1>1 DEF Covers, Update
<1>5. Sound(mem, fate', sess'.n)
  BY <1>1, <1>3, <1>4 DEF ChInv, Remembers, ChUp, ChDown
<1>6. Sound(mem', fate', sess'.n)
  BY <1>5 DEF Sound, Past, Own
<1>7. Sound(file.json.what, fate', sess'.n)
  <2>1. Covers(file.json.what, poll.bot, m)
    BY <1>1 DEF m, ChInv, Handling
  <2>2. Sound(file.json.what, fate, sess.n)
    BY DEF ChInv, Remembers
  <2>q. QED
    BY <1>3, <2>1, <2>2
<1>8. ASSUME NEW o \in Savers, Saving(o)'
      PROVE  Sound(saver'[o].what, fate', sess'.n)
  <2>1. saver \in [Savers -> Under]
    BY DEF ChInv, ChKinds, DiskKinds
  <2>2. o = "app" /\ saver'["app"] = saver["app"] /\ Saving("app")
    BY <1>1, <1>8, <2>1 DEF Saving, Due, NoSave, Savers
  <2>3. Covers(saver["app"].what, poll.bot, m)
    BY <1>1, <2>2 DEF m, ChInv, Handling
  <2>4. Sound(saver["app"].what, fate, sess.n)
    BY <2>2 DEF ChInv, Remembers, Savers
  <2>q. QED
    BY <1>3, <2>2, <2>3, <2>4
<1>q. QED
  BY <1>1, <1>6, <1>7, <1>8 DEF Remembers

\* What a crash would leave is past every update that was handled, and of its own bot.
LEMMA RemembersKept ==
    ASSUME ChInv, SerialSaves, Careful, ChKinds', ChNext
    PROVE  Remembers'
<1> USE DEF ChInv, ChKinds
<1>1. ASSUME NEW s \in DOMAIN saver, SaveReads(s), UNCHANGED <<mem, poll, telegram, driving, revoked, left>>
      PROVE  Remembers'
  <2>1. saver[s].at = "due" /\ saver' = [saver EXCEPT ![s] = [saver[s] EXCEPT !.at = "snap", !.what = mem]] /\ UNCHANGED <<file, mem, fate, sess, poll>>
    BY <1>1 DEF SaveReads, telegram, driving
  <2>2. ChUp
    BY <2>1 DEF OneSave, ChUp, NoSave, DiskKinds
  <2>3. \A o \in Savers : saver'[o].what = IF o = s THEN mem ELSE saver[o].what
    BY <2>1 DEF DiskKinds, Under
  <2>4. \A o \in Savers : Saving(o)' => o = s \/ Saving(o)
    BY <2>1 DEF DiskKinds, Saving
  <2>q. QED
    BY <2>1, <2>2, <2>3, <2>4 DEF Remembers
<1>2. ASSUME NEW s \in DOMAIN saver, SaveOpens(s), UNCHANGED <<mem, poll, telegram, driving, revoked, left>>
      PROVE  Remembers'
  <2>1. saver[s].at = "snap" /\ saver' = [saver EXCEPT ![s].at = "open"] /\ file' = [file EXCEPT !["tmp"] = Half] /\ UNCHANGED <<mem, fate, sess, poll>>
    BY <1>2 DEF SaveOpens, Beside, telegram, driving
  <2>2. \A o \in Savers : saver'[o].what = saver[o].what /\ (Saving(o)' => Saving(o))
    BY <2>1 DEF DiskKinds, Saving, Under
  <2>3. file'.json = file.json
    BY <2>1 DEF DiskKinds
  <2>q. QED
    BY <2>1, <2>2, <2>3 DEF Remembers, ChUp
<1>3. ASSUME NEW s \in DOMAIN saver, SaveWrites(s), UNCHANGED <<mem, poll, telegram, driving, revoked, left>>
      PROVE  Remembers'
  <2>1. saver[s].at = "open" /\ saver' = [saver EXCEPT ![s].at = "written"] /\ file' = [file EXCEPT ![saver[s].to] = File("whole", saver[s].what)]
        /\ UNCHANGED <<mem, fate, sess, poll>>
    BY <1>3 DEF SaveWrites, telegram, driving
  <2>2. \A o \in Savers : saver'[o].what = saver[o].what /\ (Saving(o)' => Saving(o))
    BY <2>1 DEF DiskKinds, Saving, Under
  <2>3. saver[s].to = "tmp"
    BY <1>3 DEF OneSave, DiskKinds, Beside
  <2>4. file'.json = file.json
    BY <2>1, <2>3 DEF DiskKinds
  <2>q. QED
    BY <2>1, <2>2, <2>4 DEF Remembers, ChUp
<1>4. ASSUME NEW s \in DOMAIN saver, SaveRenames(s), UNCHANGED <<mem, poll, telegram, driving, revoked, left>>
      PROVE  Remembers'
  <2>1. s \in Savers /\ saver[s].at = "written" /\ Saving(s) /\ UNCHANGED <<mem, fate, sess, poll>>
    BY <1>4 DEF SaveRenames, telegram, driving, Saving, DiskKinds
  <2>2. file.tmp = File("whole", saver[s].what) /\ \A o \in Savers : o # s => ~Saving(o)
    BY <2>1 DEF OneSave
  <2>3. file.tmp # NoFile
    BY <2>2 DEF NoFile, File
  <2>4. file'.json.what = saver[s].what /\ \A o \in Savers : saver'[o] = IF o = s THEN NoSave ELSE Renamed(saver[o])
    BY <1>4, <2>2, <2>3 DEF SaveRenames, File, DiskKinds
  <2>5. \A o \in Savers : Renamed(saver[o]).at = saver[o].at
    BY DEF Renamed, Under, DiskKinds
  <2>6. \A o \in Savers : ~Saving(o)'
    BY <2>2, <2>4, <2>5 DEF NoSave, Saving
  <2>q. QED
    BY <2>1, <2>4, <2>6 DEF Remembers, ChUp
<1>5. ASSUME NEW b \in Bot \cup {0}, SetToken(b)
      PROVE  Remembers'
  <2>1. /\ UNCHANGED <<file, fate, sess>>
        /\ saver' = saver \/ (\E o \in Savers : saver' = [saver EXCEPT ![o] = Due])
    BY <1>5 DEF SetToken, ChAsks, Answered, ChUp, Due, Spend, NewCursor, telegram, driving, Savers
  <2>2. \A o \in Savers : Saving(o)' => Saving(o) /\ saver'[o] = saver[o]
    BY <2>1 DEF Saving, Due, NoSave, DiskKinds
  <2>3. mem' = [mem EXCEPT !.bot = b, !.offset = 0] /\ b > mem.bot /\ mem \in State /\ ChUp /\ poll' = poll
    BY <1>5 DEF SetToken, NewCursor, DiskKinds, ChAsks, Answered
  <2>4. mem'.bot = b /\ mem'.offset = 0 /\ mem'.bound = mem.bound /\ mem' \in State
    BY <2>3 DEF State, DiskKinds
  <2>5. Sound(mem, fate, sess.n)
    BY <2>3 DEF Remembers
  <2>6. Past(mem', fate)
    <3>1. ASSUME NEW c \in Bot, NEW i \in Update, fate[c][i] = "handled"
          PROVE  c < b
      <4>1. c <= mem.bot
        BY <2>3, <2>5, <3>1, ChannelAssumption DEF Sound, Past, State
      <4>2. c \in Nat /\ mem.bot \in Nat /\ b \in Nat
        BY <2>3, ChannelAssumption DEF State
      <4>q. QED
        BY <2>3, <4>1, <4>2
    <3>q. QED
      BY <2>4, <3>1 DEF Past
  <2>7. Own(mem', fate)
    BY <2>4 DEF Own, Update
  <2>8. Sound(mem', fate, sess.n)
    BY <2>4, <2>5, <2>6, <2>7 DEF Sound
  <2>q. QED
    BY <2>1, <2>2, <2>8 DEF Remembers
<1>6. ASSUME NEW p \in Person, ApprovePerson(p)
      PROVE  Remembers'
  <2>1. /\ UNCHANGED <<file, fate, sess>>
        /\ saver' = saver \/ (\E o \in Savers : saver' = [saver EXCEPT ![o] = Due])
    BY <1>6 DEF ApprovePerson, ChAsks, Answered, ChUp, Due, Spend, telegram, driving, Savers
  <2>2. \A o \in Savers : Saving(o)' => Saving(o) /\ saver'[o] = saver[o]
    BY <2>1 DEF Saving, Due, NoSave, DiskKinds
  <2>3. ChUp /\ mem' \in State /\ mem'.bot = mem.bot /\ mem'.offset = mem.offset /\ mem'.bound = mem.bound
    BY <1>6 DEF DiskKinds, State, ApprovePerson, ChAsks
  <2>4. Sound(mem', fate, sess.n)
    BY <2>3, SoundSame DEF Remembers, DiskKinds
  <2>q. QED
    BY <2>1, <2>2, <2>4 DEF Remembers
<1>7. ASSUME NEW p \in Person, DenyPerson(p)
      PROVE  Remembers'
  <2>1. /\ UNCHANGED <<file, fate, sess>>
        /\ saver' = saver \/ (\E o \in Savers : saver' = [saver EXCEPT ![o] = Due])
    BY <1>7 DEF DenyPerson, ChAsks, Answered, ChUp, Due, Spend, telegram, driving, Savers
  <2>2. \A o \in Savers : Saving(o)' => Saving(o) /\ saver'[o] = saver[o]
    BY <2>1 DEF Saving, Due, NoSave, DiskKinds
  <2>3. ChUp /\ mem' \in State /\ mem'.bot = mem.bot /\ mem'.offset = mem.offset /\ mem'.bound = mem.bound
    BY <1>7 DEF DiskKinds, State, DenyPerson, ChAsks
  <2>4. Sound(mem', fate, sess.n)
    BY <2>3, SoundSame DEF Remembers, DiskKinds
  <2>q. QED
    BY <2>1, <2>2, <2>4 DEF Remembers
<1>8. ASSUME NEW p \in Person, RevokePerson(p)
      PROVE  Remembers'
  <2>1. /\ UNCHANGED <<file, fate, sess>>
        /\ saver' = saver \/ (\E o \in Savers : saver' = [saver EXCEPT ![o] = Due])
    BY <1>8 DEF RevokePerson, ChAsks, Answered, ChUp, Due, Spend, telegram, driving, Savers
  <2>2. \A o \in Savers : Saving(o)' => Saving(o) /\ saver'[o] = saver[o]
    BY <2>1 DEF Saving, Due, NoSave, DiskKinds
  <2>3. ChUp /\ mem' \in State /\ mem'.bot = mem.bot /\ mem'.offset = mem.offset /\ mem'.bound = mem.bound
    BY <1>8 DEF DiskKinds, State, RevokePerson, ChAsks
  <2>4. Sound(mem', fate, sess.n)
    BY <2>3, SoundSame DEF Remembers, DiskKinds
  <2>q. QED
    BY <2>1, <2>2, <2>4 DEF Remembers
<1>9. ASSUME NEW p \in Person, Expires(p)
      PROVE  Remembers'
  <2>1. /\ UNCHANGED <<file, fate, sess>>
        /\ saver' = saver \/ (\E o \in Savers : saver' = [saver EXCEPT ![o] = Due])
    BY <1>9 DEF Expires, telegram, driving, Savers
  <2>2. \A o \in Savers : Saving(o)' => Saving(o) /\ saver'[o] = saver[o]
    BY <2>1 DEF Saving, Due, NoSave, DiskKinds
  <2>0. ChUp
    BY <1>9 DEF Expires, NoState, OneSave, ChUp, ChDown
  <2>3. ChUp /\ mem' \in State /\ mem'.bot = mem.bot /\ mem'.offset = mem.offset /\ mem'.bound = mem.bound
    BY <1>9, <2>0 DEF DiskKinds, State, Expires
  <2>4. Sound(mem', fate, sess.n)
    BY <2>3, SoundSame DEF Remembers, DiskKinds
  <2>q. QED
    BY <2>1, <2>2, <2>4 DEF Remembers
<1>10. CASE PollReads
  <2>1. UNCHANGED <<mem, file, saver, fate>> /\ sess.n \in Nat /\ sess'.n \in Nat /\ sess.n <= sess'.n /\ (ChUp' => ChUp)
    BY <1>10 DEF PollReads, IdlePoll, telegram, driving, ChUp, ChDown, ChatKinds, WireKinds, Polling
  <2>q. QED
    BY <2>1, RemembersOn
<1>11. CASE PollAsks
  <2>1. UNCHANGED <<mem, file, saver, fate>> /\ sess.n \in Nat /\ sess'.n \in Nat /\ sess.n <= sess'.n /\ (ChUp' => ChUp)
    BY <1>11 DEF PollAsks, telegram, driving, ChUp, ChDown, ChatKinds, WireKinds, Polling
  <2>q. QED
    BY <2>1, RemembersOn
<1>12. CASE PollFails
  <2>1. UNCHANGED <<mem, file, saver, fate>> /\ sess.n \in Nat /\ sess'.n \in Nat /\ sess.n <= sess'.n /\ (ChUp' => ChUp)
    BY <1>12 DEF PollFails, IdlePoll, telegram, driving, ChUp, ChDown, ChatKinds, WireKinds, Polling
  <2>q. QED
    BY <2>1, RemembersOn
<1>13. CASE PollAnswered
  <2>1. UNCHANGED <<mem, file, saver, fate, sess>> /\ poll.at = "out"
    BY <1>13 DEF PollAnswered, telegram, driving
  <2>2. sess.n \in Nat /\ sess'.n \in Nat /\ sess.n <= sess'.n
    BY <2>1 DEF ChatKinds
  <2>q. QED
    BY <2>1, <2>2, RemembersOn DEF ChUp, ChDown
<1>14. CASE BatchDone
  <2>1. UNCHANGED <<mem, file, saver, fate>> /\ sess.n \in Nat /\ sess'.n \in Nat /\ sess.n <= sess'.n /\ (ChUp' => ChUp)
    BY <1>14 DEF BatchDone, IdlePoll, telegram, driving, ChUp, ChDown, ChatKinds, WireKinds, Polling
  <2>q. QED
    BY <2>1, RemembersOn
<1>15. CASE Take
  <2>f. Min(poll.batch) \in Update /\ poll.bot \in Bot /\ poll.bot = mem.bot /\ poll.at = "batch" /\ saver.poll.at = "none" /\ UNCHANGED <<file, sess>>
        /\ \A j \in poll.batch : Min(poll.batch) <= j
    BY <1>15, TakeMoves, Zenon
  <2>g. fate' \in [Bot -> [Update -> Fates]] /\ \A c \in Bot, j \in Update : fate'[c][j] = IF c = poll.bot /\ j = Min(poll.batch) THEN "taken" ELSE fate[c][j]
    BY <1>15, TakeMoves, Zenon
  <2>h. mem' = [mem EXCEPT !.offset = Min(poll.batch) + 1] /\ saver' = [saver EXCEPT !.poll = Due] /\ Min(poll.batch) \in poll.batch /\ mem.offset <= Min(poll.batch)
    BY <1>15, TakeMoves, Zenon
  <2> DEFINE m == Min(poll.batch)
  <2> HIDE DEF m
  <2>1. ASSUME NEW st, Sound(st, fate, sess.n)
        PROVE  Sound(st, fate', sess.n)
    <3>1. sess.n \in Nat /\ \A c \in Bot, j \in Update :
              /\ fate'[c][j] = "handled" => fate[c][j] = "handled" \/ Covers(st, c, j)
              /\ fate[c][j] \notin {"none", "sent"} => fate'[c][j] \notin {"none", "sent"}
      BY <2>g DEF ChatKinds
    <3>q. QED
      BY <2>1, <3>1, SoundStays
  <2>2. Sound(mem, fate', sess.n)
    BY <2>f, <2>1 DEF Remembers, ChUp, ChDown
  <2>3. mem'.bot = mem.bot /\ mem'.offset = m + 1 /\ mem'.bound = mem.bound /\ mem' \in State /\ mem \in State
    BY <2>h DEF m, DiskKinds, State
  <2>4. Past(mem', fate')
    <3>1. mem.offset \in Nat /\ m \in Nat /\ mem.offset <= m
      BY <2>f, <2>h, <2>3 DEF m, State, Update
    <3>q. QED
      BY <2>2, <2>3, <3>1 DEF Sound, Past, Update
  <2>5. Own(mem', fate')
    <3>1. ASSUME NEW j \in Update, j < m + 1
          PROVE  fate'[mem.bot][j] \notin {"none", "sent"}
      <4>1. CASE j = m
        BY <2>f, <2>g, <4>1 DEF m
      <4>2. CASE j # m
        <5>1. j < m /\ j \notin poll.batch
          BY <2>f, <3>1, <4>2 DEF m, Update
        <5>2. fate[poll.bot][j] \notin {"none", "sent"}
          BY <2>f, <2>h, <5>1 DEF m, Batched
        <5>q. QED
          BY <2>f, <2>g, <4>2, <5>2 DEF m
      <4>q. QED
        BY <4>1, <4>2
    <3>q. QED
      BY <2>3, <3>1 DEF Own
  <2>6. Sound(mem', fate', sess.n)
    BY <2>2, <2>3, <2>4, <2>5 DEF Sound
  <2>7. \A o \in Savers : Saving(o)' => Saving(o) /\ saver'[o] = saver[o]
    BY <2>h DEF Saving, Due, NoSave, DiskKinds
  <2>q. QED
    BY <2>f, <2>1, <2>6, <2>7 DEF Remembers
<1>16. ASSUME NEW p \in Person, HandleStranger(p)
      PROVE  Remembers'
  <2>1. Handled /\ mem' \in State /\ mem'.bot = mem.bot /\ mem'.offset = mem.offset /\ (mem'.bound => mem.bound \/ sess'.n > 0)
    BY <1>16 DEF HandleStranger, Unbound, DiskKinds, State, ChatKinds, Voices
  <2>2. sess.n \in Nat /\ sess'.n \in Nat /\ sess.n <= sess'.n
    BY <1>16 DEF HandleStranger, ChatKinds, Cancelled, driving
  <2>3. saver' = saver \/ saver' = [saver EXCEPT !.poll = Due]
    BY <1>16 DEF HandleStranger
  <2>q. QED
    BY <2>1, <2>2, <2>3, RemembersHandled DEF ChInv
<1>17. ASSUME NEW p \in Person, HandleBind(p)
      PROVE  Remembers'
  <2>1. Handled /\ mem' \in State /\ mem'.bot = mem.bot /\ mem'.offset = mem.offset /\ (mem'.bound => mem.bound \/ sess'.n > 0)
    BY <1>17 DEF HandleBind, Unbound, DiskKinds, State, ChatKinds, Voices
  <2>2. sess.n \in Nat /\ sess'.n \in Nat /\ sess.n <= sess'.n
    BY <1>17 DEF HandleBind, ChatKinds, Cancelled, driving
  <2>3. saver' = saver \/ saver' = [saver EXCEPT !.poll = Due]
    BY <1>17 DEF HandleBind
  <2>q. QED
    BY <2>1, <2>2, <2>3, RemembersHandled DEF ChInv
<1>18. ASSUME NEW p \in Person, HandleBindFails(p)
      PROVE  Remembers'
  <2>1. Handled /\ mem' \in State /\ mem'.bot = mem.bot /\ mem'.offset = mem.offset /\ (mem'.bound => mem.bound \/ sess'.n > 0)
    BY <1>18 DEF HandleBindFails, Unbound, DiskKinds, State, ChatKinds, Voices
  <2>2. sess.n \in Nat /\ sess'.n \in Nat /\ sess.n <= sess'.n
    BY <1>18 DEF HandleBindFails, ChatKinds, Cancelled, driving
  <2>3. saver' = saver \/ saver' = [saver EXCEPT !.poll = Due]
    BY <1>18 DEF HandleBindFails
  <2>q. QED
    BY <2>1, <2>2, <2>3, RemembersHandled DEF ChInv
<1>19. ASSUME NEW p \in Person, HandlePrompt(p)
      PROVE  Remembers'
  <2>1. Handled /\ mem' \in State /\ mem'.bot = mem.bot /\ mem'.offset = mem.offset /\ (mem'.bound => mem.bound \/ sess'.n > 0)
    BY <1>19 DEF HandlePrompt, Unbound, DiskKinds, State, ChatKinds, Voices
  <2>2. sess.n \in Nat /\ sess'.n \in Nat /\ sess.n <= sess'.n
    BY <1>19 DEF HandlePrompt, ChatKinds, Cancelled, driving
  <2>3. saver' = saver \/ saver' = [saver EXCEPT !.poll = Due]
    BY <1>19 DEF HandlePrompt
  <2>q. QED
    BY <2>1, <2>2, <2>3, RemembersHandled DEF ChInv
<1>20. ASSUME NEW p \in Person, HandleEnd(p)
      PROVE  Remembers'
  <2>1. Handled /\ mem' \in State /\ mem'.bot = mem.bot /\ mem'.offset = mem.offset /\ (mem'.bound => mem.bound \/ sess'.n > 0)
    BY <1>20 DEF HandleEnd, Unbound, DiskKinds, State, ChatKinds, Voices
  <2>2. sess.n \in Nat /\ sess'.n \in Nat /\ sess.n <= sess'.n
    BY <1>20 DEF HandleEnd, ChatKinds, Cancelled, driving
  <2>3. saver' = saver \/ saver' = [saver EXCEPT !.poll = Due]
    BY <1>20 DEF HandleEnd
  <2>q. QED
    BY <2>1, <2>2, <2>3, RemembersHandled DEF ChInv
<1>21. CASE ChSessionEnds
  <2>1. UNCHANGED <<mem, file, saver, fate>> /\ sess.n \in Nat /\ sess'.n \in Nat /\ sess.n <= sess'.n /\ (ChUp' => ChUp)
    BY <1>21 DEF ChSessionEnds, telegram, driving, ChUp, ChDown, ChatKinds, WireKinds, Polling
  <2>q. QED
    BY <2>1, RemembersOn
<1>22. CASE ChSessionOpens
  <2>1. UNCHANGED <<mem, file, saver, fate>> /\ sess.n \in Nat /\ sess'.n \in Nat /\ sess.n <= sess'.n /\ (ChUp' => ChUp)
    BY <1>22 DEF ChSessionOpens, Spend, telegram, driving, ChUp, ChDown, ChatKinds, WireKinds, Polling
  <2>q. QED
    BY <2>1, RemembersOn
<1>23. ASSUME NEW q \in pumps, PumpEnds(q)
      PROVE  Remembers'
  <2>1. UNCHANGED <<mem, file, saver, fate>> /\ sess.n \in Nat /\ sess'.n \in Nat /\ sess.n <= sess'.n /\ (ChUp' => ChUp)
    BY <1>23 DEF PumpEnds, Offered, telegram, driving, ChUp, ChDown, ChatKinds, WireKinds, Polling
  <2>q. QED
    BY <2>1, RemembersOn
<1>24. ASSUME NEW q \in pumps, PumpStops(q)
      PROVE  Remembers'
  <2>1. UNCHANGED <<mem, file, saver, fate>> /\ sess.n \in Nat /\ sess'.n \in Nat /\ sess.n <= sess'.n /\ (ChUp' => ChUp)
    BY <1>24 DEF PumpStops, telegram, driving, ChUp, ChDown, ChatKinds, WireKinds, Polling
  <2>q. QED
    BY <2>1, RemembersOn
<1>25. ASSUME NEW b \in Bot, Sends(b)
      PROVE  Remembers'
  <2>1. PICK i \in Update : fate' = [fate EXCEPT ![b][i] = "sent"] /\ fate[b][i] = "none" /\ UNCHANGED <<mem, file, saver, sess, poll>>
    BY <1>25 DEF Sends, driving
  <2>2. \A c \in Bot, j \in Update : fate'[c][j] = IF c = b /\ j = i THEN "sent" ELSE fate[c][j]
    BY <2>1, FateFacts DEF WireKinds, Fates
  <2>3. ASSUME NEW st, Sound(st, fate, sess.n)
        PROVE  Sound(st, fate', sess.n)
    <3>1. sess.n \in Nat /\ \A c \in Bot, j \in Update :
              /\ fate'[c][j] = "handled" => fate[c][j] = "handled" \/ Covers(st, c, j)
              /\ fate[c][j] \notin {"none", "sent"} => fate'[c][j] \notin {"none", "sent"}
      BY <2>1, <2>2 DEF ChatKinds
    <3>q. QED
      BY <2>3, <3>1, SoundStays
  <2>q. QED
    BY <2>1, <2>3 DEF Remembers, ChUp, Saving
<1>26. CASE ChCrash
  <2>1. poll' = [IdlePoll EXCEPT !.at = "down"] /\ saver' = [poll |-> NoSave, app |-> NoSave] /\ sess' = [sess EXCEPT !.live = FALSE] /\ UNCHANGED <<file, fate>>
    BY <1>26 DEF ChCrash, telegram, ChDown
  <2>2. sess'.n = sess.n /\ poll'.at = "down"
    BY <2>1 DEF ChatKinds, IdlePoll
  <2>3. \A o \in Savers : ~Saving(o)'
    BY <2>1 DEF Saving, NoSave, Savers
  <2>q. QED
    BY <2>1, <2>2, <2>3 DEF Remembers, ChUp, ChDown
<1>27. CASE ChBoot
  <2>1. saver = [o \in Savers |-> NoSave] /\ UNCHANGED <<file, fate, sess>> /\ mem' = [file.json.what EXCEPT !.people = file.json.what.people \cup Seeded]
    BY <1>27 DEF ChBoot, telegram, OneSave
  <2>2. saver' = saver \/ saver' = [saver EXCEPT !.poll = Due]
    BY <1>27 DEF ChBoot
  <2>3. \A o \in Savers : ~Saving(o)'
    BY <2>1, <2>2 DEF Saving, NoSave, Due, Savers
  <2>4. Sound(file.json.what, fate, sess.n) /\ file.json.what \in State
    BY DEF Remembers, Sound
  <2>5. mem' \in State /\ mem'.bot = file.json.what.bot /\ mem'.offset = file.json.what.offset /\ mem'.bound = file.json.what.bound
    BY <2>1, <2>4 DEF State, DiskKinds
  <2>6. Sound(mem', fate, sess.n)
    BY <2>4, <2>5, SoundSame
  <2>q. QED
    BY <2>1, <2>3, <2>4, <2>6 DEF Remembers
<1>q. QED
  BY <1>1, <1>2, <1>3, <1>4, <1>5, <1>6, <1>7, <1>8, <1>9, <1>10, <1>11, <1>12, <1>13, <1>14, <1>15, <1>16, <1>17, <1>18, <1>19, <1>20, <1>21, <1>22, <1>23, <1>24, <1>25, <1>26, <1>27 DEF ChNext, Saves, OwnerChanges, Polls, Handles, ChSession

\* A step that leaves polls, updates and the cursor alone, and no place without what is handled.
LEMMA HandlingOn ==
    ASSUME ChInv, UNCHANGED <<poll, fate>>, mem'.offset = mem.offset,
           \A b, i : poll.at = "handle" /\ i = Min(poll.batch) /\ b = poll.bot =>
             /\ Saving("poll")' => Covers(saver'.poll.what, b, i)
             /\ saver'.poll.at = "none" => Covers(file'.json.what, b, i) /\ (Saving("app")' => Covers(saver'.app.what, b, i))
    PROVE  Handling'
BY DEF ChInv, Handling

\* What is being handled was saved as taken.
LEMMA HandlingKept ==
    ASSUME ChInv, SerialSaves, Careful, ChKinds', ChNext
    PROVE  Handling'
<1> USE DEF ChInv, ChKinds
<1>1. ASSUME NEW s \in DOMAIN saver, SaveReads(s), UNCHANGED <<mem, poll, telegram, driving, revoked, left>>
      PROVE  Handling'
  <2>1. saver[s].at = "due" /\ saver' = [saver EXCEPT ![s] = [saver[s] EXCEPT !.at = "snap", !.what = mem]] /\ UNCHANGED <<file, mem, fate, sess, poll>>
    BY <1>1 DEF SaveReads, telegram, driving
  <2>2. \A o \in Savers : saver'[o] = IF o = s THEN [saver[s] EXCEPT !.at = "snap", !.what = mem] ELSE saver[o]
    BY <2>1 DEF DiskKinds
  <2>3. saver'[s].what = mem /\ saver'[s].at = "snap" /\ s \in Savers
    BY <1>1, <2>1 DEF DiskKinds, Under
  <2>4. poll.at = "handle" => Covers(mem, poll.bot, Min(poll.batch))
    <3>1. ASSUME poll.at = "handle"
          PROVE  poll.batch \in SUBSET Nat /\ poll.batch # {} /\ poll.bot = mem.bot /\ mem.offset = Min(poll.batch) + 1
      BY <3>1 DEF Batched, Handling, WireKinds, Polling, Update
    <3>2. ASSUME poll.at = "handle"
          PROVE  Min(poll.batch) \in Nat
      BY <3>1, <3>2, FirstUpdate
    <3>q. QED
      BY <3>1, <3>2 DEF Covers
  <2>5. s = "poll" \/ s = "app"
    BY <2>3 DEF Savers
  <2>q. QED
    BY <2>1, <2>2, <2>3, <2>4, <2>5 DEF Handling, Saving, Savers
<1>2. ASSUME NEW s \in DOMAIN saver, SaveOpens(s), UNCHANGED <<mem, poll, telegram, driving, revoked, left>>
      PROVE  Handling'
  <2>1. saver[s].at = "snap" /\ saver' = [saver EXCEPT ![s].at = "open"] /\ file' = [file EXCEPT !["tmp"] = Half] /\ UNCHANGED <<mem, fate, sess, poll>>
    BY <1>2 DEF SaveOpens, Beside, telegram, driving
  <2>2. \A o \in Savers : saver'[o].what = saver[o].what /\ (Saving(o)' => Saving(o)) /\ (saver'[o].at = "none" => saver[o].at = "none")
    BY <2>1 DEF DiskKinds, Saving, Under
  <2>3. file'.json = file.json
    BY <2>1 DEF DiskKinds
  <2>q. QED
    BY <2>1, <2>2, <2>3 DEF Handling, Savers
<1>3. ASSUME NEW s \in DOMAIN saver, SaveWrites(s), UNCHANGED <<mem, poll, telegram, driving, revoked, left>>
      PROVE  Handling'
  <2>1. saver[s].at = "open" /\ saver' = [saver EXCEPT ![s].at = "written"] /\ file' = [file EXCEPT ![saver[s].to] = File("whole", saver[s].what)]
        /\ UNCHANGED <<mem, fate, sess, poll>>
    BY <1>3 DEF SaveWrites, telegram, driving
  <2>2. \A o \in Savers : saver'[o].what = saver[o].what /\ (Saving(o)' => Saving(o)) /\ (saver'[o].at = "none" => saver[o].at = "none")
    BY <2>1 DEF DiskKinds, Saving, Under
  <2>3. saver[s].to = "tmp"
    BY <1>3 DEF OneSave, DiskKinds, Beside
  <2>4. file'.json = file.json
    BY <2>1, <2>3 DEF DiskKinds
  <2>q. QED
    BY <2>1, <2>2, <2>4 DEF Handling, Savers
<1>4. ASSUME NEW s \in DOMAIN saver, SaveRenames(s), UNCHANGED <<mem, poll, telegram, driving, revoked, left>>
      PROVE  Handling'
  <2>1. s \in Savers /\ saver[s].at = "written" /\ Saving(s) /\ UNCHANGED <<mem, fate, sess, poll>>
    BY <1>4 DEF SaveRenames, telegram, driving, Saving, DiskKinds
  <2>2. file.tmp = File("whole", saver[s].what) /\ \A o \in Savers : o # s => ~Saving(o)
    BY <2>1 DEF OneSave
  <2>3. file.tmp # NoFile
    BY <2>2 DEF NoFile, File
  <2>4. file'.json.what = saver[s].what /\ \A o \in Savers : saver'[o] = IF o = s THEN NoSave ELSE Renamed(saver[o])
    BY <1>4, <2>2, <2>3 DEF SaveRenames, File, DiskKinds
  <2>5. \A o \in Savers : Renamed(saver[o]).at = saver[o].at
    BY DEF Renamed, Under, DiskKinds
  <2>6. \A o \in Savers : ~Saving(o)' /\ (o # s => saver'[o].at = saver[o].at)
    BY <2>2, <2>4, <2>5 DEF NoSave, Saving
  <2>7. CASE s = "poll"
    BY <2>1, <2>4, <2>6, <2>7 DEF Handling, Savers
  <2>8. CASE s = "app"
    BY <2>1, <2>4, <2>6, <2>8 DEF Handling, Savers
  <2>q. QED
    BY <2>1, <2>7, <2>8 DEF Savers
<1>5. ASSUME NEW b \in Bot \cup {0}, SetToken(b)
      PROVE  Handling'
  <2>1. poll' = poll /\ poll.at = "idle"
    BY <1>5 DEF SetToken, Answered
  <2>q. QED
    BY <2>1 DEF Handling
<1>6. ASSUME NEW p \in Person, ApprovePerson(p)
      PROVE  Handling'
  <2>1. UNCHANGED <<file, poll, fate>> /\ mem'.offset = mem.offset /\ (saver' = saver \/ (\E o \in Savers : saver' = [saver EXCEPT ![o] = Due]))
    BY <1>6 DEF ApprovePerson, ChAsks, Answered, ChUp, Due, Spend, telegram, driving, DiskKinds, State, Savers
  <2>2. (Saving("poll")' => Saving("poll") /\ saver'.poll = saver.poll) /\ (Saving("app")' => Saving("app") /\ saver'.app = saver.app) /\ (saver'.poll.at = "none" => saver.poll.at = "none")
    BY <2>1 DEF Saving, Due, NoSave, DiskKinds, Savers
  <2>q. QED
    BY <2>1, <2>2, HandlingOn DEF Handling
<1>7. ASSUME NEW p \in Person, DenyPerson(p)
      PROVE  Handling'
  <2>1. UNCHANGED <<file, poll, fate>> /\ mem'.offset = mem.offset /\ (saver' = saver \/ (\E o \in Savers : saver' = [saver EXCEPT ![o] = Due]))
    BY <1>7 DEF DenyPerson, ChAsks, Answered, ChUp, Due, Spend, telegram, driving, DiskKinds, State, Savers
  <2>2. (Saving("poll")' => Saving("poll") /\ saver'.poll = saver.poll) /\ (Saving("app")' => Saving("app") /\ saver'.app = saver.app) /\ (saver'.poll.at = "none" => saver.poll.at = "none")
    BY <2>1 DEF Saving, Due, NoSave, DiskKinds, Savers
  <2>q. QED
    BY <2>1, <2>2, HandlingOn DEF Handling
<1>8. ASSUME NEW p \in Person, RevokePerson(p)
      PROVE  Handling'
  <2>1. UNCHANGED <<file, poll, fate>> /\ mem'.offset = mem.offset /\ (saver' = saver \/ (\E o \in Savers : saver' = [saver EXCEPT ![o] = Due]))
    BY <1>8 DEF RevokePerson, ChAsks, Answered, ChUp, Due, Spend, telegram, driving, DiskKinds, State, Savers
  <2>2. (Saving("poll")' => Saving("poll") /\ saver'.poll = saver.poll) /\ (Saving("app")' => Saving("app") /\ saver'.app = saver.app) /\ (saver'.poll.at = "none" => saver.poll.at = "none")
    BY <2>1 DEF Saving, Due, NoSave, DiskKinds, Savers
  <2>q. QED
    BY <2>1, <2>2, HandlingOn DEF Handling
<1>9. ASSUME NEW p \in Person, Expires(p)
      PROVE  Handling'
  <2>1. UNCHANGED <<file, poll, fate>> /\ mem'.offset = mem.offset /\ (saver' = saver \/ (\E o \in Savers : saver' = [saver EXCEPT ![o] = Due]))
    BY <1>9 DEF Expires, telegram, driving, DiskKinds, State, Savers
  <2>2. (Saving("poll")' => Saving("poll") /\ saver'.poll = saver.poll) /\ (Saving("app")' => Saving("app") /\ saver'.app = saver.app) /\ (saver'.poll.at = "none" => saver.poll.at = "none")
    BY <2>1 DEF Saving, Due, NoSave, DiskKinds, Savers
  <2>q. QED
    BY <2>1, <2>2, HandlingOn DEF Handling
<1>10. CASE PollReads
  <2>1. poll'.at # "handle"
    BY <1>10 DEF PollReads, IdlePoll, WireKinds, Polling, ChDown
  <2>q. QED
    BY <2>1 DEF Handling
<1>11. CASE PollAsks
  <2>1. poll'.at # "handle"
    BY <1>11 DEF PollAsks, IdlePoll, WireKinds, Polling, ChDown
  <2>q. QED
    BY <2>1 DEF Handling
<1>12. CASE PollFails
  <2>1. poll'.at # "handle"
    BY <1>12 DEF PollFails, IdlePoll, WireKinds, Polling, ChDown
  <2>q. QED
    BY <2>1 DEF Handling
<1>13. CASE PollAnswered
  <2>1. poll'.at # "handle"
    BY <1>13 DEF PollAnswered, IdlePoll, WireKinds, Polling, ChDown
  <2>q. QED
    BY <2>1 DEF Handling
<1>14. CASE BatchDone
  <2>1. poll'.at # "handle"
    BY <1>14 DEF BatchDone, IdlePoll, WireKinds, Polling, ChDown
  <2>q. QED
    BY <2>1 DEF Handling
<1>15. CASE Take
  <2>f. Min(poll.batch) \in Update /\ poll.bot \in Bot /\ poll.bot = mem.bot /\ poll.at = "batch" /\ saver.poll.at = "none" /\ poll' = [poll EXCEPT !.at = "handle"]
        /\ Min(poll.batch) \in poll.batch
    BY <1>15, TakeMoves, Zenon
  <2>g. \A c \in Bot, j \in Update : fate'[c][j] = IF c = poll.bot /\ j = Min(poll.batch) THEN "taken" ELSE fate[c][j]
    BY <1>15, TakeMoves, Zenon
  <2>h. mem' = [mem EXCEPT !.offset = Min(poll.batch) + 1] /\ saver' = [saver EXCEPT !.poll = Due]
    BY <1>15, TakeMoves, Zenon
  <2>1. poll'.batch = poll.batch /\ poll'.bot = poll.bot /\ mem'.offset = Min(poll.batch) + 1 /\ saver'.poll.at = "due"
    BY <2>f, <2>h DEF WireKinds, Polling, DiskKinds, State, Due, NoSave, Savers
  <2>q. QED
    BY <2>f, <2>g, <2>1 DEF Handling, Saving
<1>16. ASSUME NEW p \in Person, HandleStranger(p)
      PROVE  Handling'
  <2>1. poll'.at # "handle"
    BY <1>16 DEF HandleStranger, Handled, IdlePoll, WireKinds, Polling, ChDown
  <2>q. QED
    BY <2>1 DEF Handling
<1>17. ASSUME NEW p \in Person, HandleBind(p)
      PROVE  Handling'
  <2>1. poll'.at # "handle"
    BY <1>17 DEF HandleBind, Handled, IdlePoll, WireKinds, Polling, ChDown
  <2>q. QED
    BY <2>1 DEF Handling
<1>18. ASSUME NEW p \in Person, HandleBindFails(p)
      PROVE  Handling'
  <2>1. poll'.at # "handle"
    BY <1>18 DEF HandleBindFails, Handled, IdlePoll, WireKinds, Polling, ChDown
  <2>q. QED
    BY <2>1 DEF Handling
<1>19. ASSUME NEW p \in Person, HandlePrompt(p)
      PROVE  Handling'
  <2>1. poll'.at # "handle"
    BY <1>19 DEF HandlePrompt, Handled, IdlePoll, WireKinds, Polling, ChDown
  <2>q. QED
    BY <2>1 DEF Handling
<1>20. ASSUME NEW p \in Person, HandleEnd(p)
      PROVE  Handling'
  <2>1. poll'.at # "handle"
    BY <1>20 DEF HandleEnd, Handled, IdlePoll, WireKinds, Polling, ChDown
  <2>q. QED
    BY <2>1 DEF Handling
<1>21. CASE ChSessionEnds
  <2>1. UNCHANGED <<file, poll, fate>> /\ mem'.offset = mem.offset /\ (saver' = saver \/ (\E o \in Savers : saver' = [saver EXCEPT ![o] = Due]))
    BY <1>21 DEF ChSessionEnds, telegram, driving, DiskKinds, State, Savers
  <2>2. (Saving("poll")' => Saving("poll") /\ saver'.poll = saver.poll) /\ (Saving("app")' => Saving("app") /\ saver'.app = saver.app) /\ (saver'.poll.at = "none" => saver.poll.at = "none")
    BY <2>1 DEF Saving, Due, NoSave, DiskKinds, Savers
  <2>q. QED
    BY <2>1, <2>2, HandlingOn DEF Handling
<1>22. CASE ChSessionOpens
  <2>1. UNCHANGED <<file, poll, fate>> /\ mem'.offset = mem.offset /\ (saver' = saver \/ (\E o \in Savers : saver' = [saver EXCEPT ![o] = Due]))
    BY <1>22 DEF ChSessionOpens, Spend, telegram, driving, DiskKinds, State, Savers
  <2>2. (Saving("poll")' => Saving("poll") /\ saver'.poll = saver.poll) /\ (Saving("app")' => Saving("app") /\ saver'.app = saver.app) /\ (saver'.poll.at = "none" => saver.poll.at = "none")
    BY <2>1 DEF Saving, Due, NoSave, DiskKinds, Savers
  <2>q. QED
    BY <2>1, <2>2, HandlingOn DEF Handling
<1>23. ASSUME NEW q \in pumps, PumpEnds(q)
      PROVE  Handling'
  <2>1. UNCHANGED <<file, poll, fate>> /\ mem'.offset = mem.offset /\ (saver' = saver \/ (\E o \in Savers : saver' = [saver EXCEPT ![o] = Due]))
    BY <1>23 DEF PumpEnds, Offered, telegram, driving, DiskKinds, State, Savers
  <2>2. (Saving("poll")' => Saving("poll") /\ saver'.poll = saver.poll) /\ (Saving("app")' => Saving("app") /\ saver'.app = saver.app) /\ (saver'.poll.at = "none" => saver.poll.at = "none")
    BY <2>1 DEF Saving, Due, NoSave, DiskKinds, Savers
  <2>q. QED
    BY <2>1, <2>2, HandlingOn DEF Handling
<1>24. ASSUME NEW q \in pumps, PumpStops(q)
      PROVE  Handling'
  <2>1. UNCHANGED <<file, poll, fate>> /\ mem'.offset = mem.offset /\ (saver' = saver \/ (\E o \in Savers : saver' = [saver EXCEPT ![o] = Due]))
    BY <1>24 DEF PumpStops, telegram, driving, DiskKinds, State, Savers
  <2>2. (Saving("poll")' => Saving("poll") /\ saver'.poll = saver.poll) /\ (Saving("app")' => Saving("app") /\ saver'.app = saver.app) /\ (saver'.poll.at = "none" => saver.poll.at = "none")
    BY <2>1 DEF Saving, Due, NoSave, DiskKinds, Savers
  <2>q. QED
    BY <2>1, <2>2, HandlingOn DEF Handling
<1>25. ASSUME NEW b \in Bot, Sends(b)
      PROVE  Handling'
  <2>1. PICK i \in Update : fate' = [fate EXCEPT ![b][i] = "sent"] /\ fate[b][i] = "none" /\ UNCHANGED <<mem, file, saver, sess, poll>>
    BY <1>25 DEF Sends, driving
  <2>2. \A c \in Bot, j \in Update : fate'[c][j] = IF c = b /\ j = i THEN "sent" ELSE fate[c][j]
    BY <2>1, FateFacts DEF WireKinds, Fates
  <2>3. ASSUME poll.at = "handle"
        PROVE  fate'[poll.bot][Min(poll.batch)] = "taken"
    <3>1. poll.bot \in Bot /\ poll.batch \in SUBSET Nat /\ poll.batch # {} /\ poll.batch \subseteq Update
      BY <2>3 DEF Batched, Handling, WireKinds, Polling, Update
    <3>2. Min(poll.batch) \in Update
      BY <3>1, FirstUpdate
    <3>q. QED
      BY <2>1, <2>2, <2>3, <3>1, <3>2 DEF Handling
  <2>q. QED
    BY <2>1, <2>3 DEF Handling, Saving
<1>26. CASE ChCrash
  <2>1. poll'.at # "handle"
    BY <1>26 DEF ChCrash, IdlePoll, WireKinds, Polling, ChDown
  <2>q. QED
    BY <2>1 DEF Handling
<1>27. CASE ChBoot
  <2>1. poll'.at # "handle"
    BY <1>27 DEF ChBoot, IdlePoll, WireKinds, Polling, ChDown
  <2>q. QED
    BY <2>1 DEF Handling
<1>q. QED
  BY <1>1, <1>2, <1>3, <1>4, <1>5, <1>6, <1>7, <1>8, <1>9, <1>10, <1>11, <1>12, <1>13, <1>14, <1>15, <1>16, <1>17, <1>18, <1>19, <1>20, <1>21, <1>22, <1>23, <1>24, <1>25, <1>26, <1>27 DEF ChNext, Saves, OwnerChanges, Polls, Handles, ChSession

\* The invariant at the start, at every step, and what follows from it.
LEMMA ChInvInit == ChInit => ChInv
<1> SUFFICES ASSUME ChInit
             PROVE  ChInv
  OBVIOUS
<1>1. /\ mem = [NoState EXCEPT !.people = Seeded] /\ file = [json |-> NoFile, tmp |-> NoFile] /\ poll = IdlePoll
      /\ saver = [poll |-> IF Seeded = {} THEN NoSave ELSE Due, app |-> NoSave]
  BY DEF ChInit
<1>1a. mem \in State /\ mem.bot = 0 /\ mem.offset = 0 /\ ~mem.bound /\ mem.people = Seeded
  BY <1>1, StateFacts, ChannelAssumption DEF NoState, State
<1>2. /\ fate = [b \in Bot |-> [i \in Update |-> "none"]] /\ kept = [b \in Bot |-> 1]
      /\ sess = [n |-> 0, live |-> FALSE] /\ pumps = {} /\ offer = FALSE /\ revoked = {}
      /\ left = [change |-> Changes, open |-> Processes, crash |-> Crashes]
  BY DEF ChInit
<1>3. DiskKinds
  <2>1. NoFile \in Stored /\ NoSave \in Under /\ (IF Seeded = {} THEN NoSave ELSE Due) \in Under
    BY SaveFacts
  <2>q. QED
    BY <1>1, <1>1a, <2>1, PairFacts, Zenon DEF DiskKinds, Savers
<1>4. WireKinds
  <2>1. poll \in Polling
    BY <1>1, PollFacts
  <2>2. fate \in [Bot -> [Update -> Fates]]
    BY <1>2 DEF Fates
  <2>3. kept \in [Bot -> 0..MaxSent + 1]
    BY <1>2, ChannelAssumption
  <2>q. QED
    BY <2>1, <2>2, <2>3 DEF WireKinds
<1>5. ChatKinds
  <2>1. Changes \in Nat /\ Processes \in Nat /\ Crashes \in Nat
    BY ChannelAssumption
  <2>2. left \in [{"change", "open", "crash"} -> Nat]
    BY <1>2, <2>1
  <2>3. sess \in [n : Nat, live : BOOLEAN]
    BY <1>2
  <2>q. QED
    BY <1>2, <2>2, <2>3 DEF ChatKinds
<1>6. OneSave
  BY <1>1 DEF OneSave, Savers, NoSave, Due, Beside, Saving, NoFile, Half, File, IdlePoll, ChDown
<1>7. Remembers
  <2>1. Sound(NoState, fate, sess.n)
    BY <1>2, StateFacts DEF Sound, Past, Own, NoState
  <2>2. Sound(mem, fate, sess.n)
    BY <1>1a, <1>2 DEF Sound, Past, Own
  <2>3. file.json.what = NoState /\ \A s \in Savers : ~Saving(s)
    BY <1>1 DEF NoFile, File, Savers, Saving, NoSave, Due
  <2>q. QED
    BY <2>1, <2>2, <2>3 DEF Remembers
<1>8. Revokes
  BY <1>2 DEF Revokes, Without
<1>9. Keeps
  BY <1>2 DEF Keeps, Update
<1>10. Batched /\ Handling
  BY <1>1 DEF Batched, Handling, IdlePoll
<1>11. Voices
  BY <1>1, <1>1a, <1>2, ChannelAssumption DEF Voices, IdlePoll, ChDown
<1>q. QED
  BY <1>3, <1>4, <1>5, <1>6, <1>7, <1>8, <1>9, <1>10, <1>11 DEF ChInv, ChKinds

LEMMA ChInvNext ==
    ASSUME SerialSaves, Careful, ChInv, [ChNext]_chVars
    PROVE  ChInv'
<1>1. CASE ChNext
  <2>1. ChKinds'
    BY <1>1, DiskKindsKept, WireKindsKept, ChatKindsKept DEF ChKinds
  <2>2. OneSave' /\ Remembers' /\ (Seeded = {} => Revokes') /\ Keeps'
    BY <1>1, <2>1, OneSaveKept, RemembersKept, RevokesKept, KeepsKept
  <2>3. Batched' /\ Handling' /\ Voices'
    BY <1>1, <2>1, BatchedKept, HandlingKept, VoicesKept
  <2>q. QED
    BY <2>1, <2>2, <2>3 DEF ChInv
<1>2. CASE UNCHANGED chVars
  <2>1. UNCHANGED <<mem, file, saver, poll, fate, kept, sess, pumps, offer, revoked, left>>
    BY <1>2 DEF chVars
  <2>2. ChKinds' /\ OneSave'
    BY <2>1 DEF ChInv, ChKinds, DiskKinds, WireKinds, ChatKinds, OneSave, Saving
  <2>3. Remembers' /\ (Seeded = {} => Revokes')
    BY <2>1 DEF ChInv, Remembers, Revokes, Without, ChUp, Saving
  <2>4. Keeps' /\ Batched' /\ Handling' /\ Voices'
    BY <2>1 DEF ChInv, Keeps, Batched, Handling, Voices, ChUp, Saving
  <2>q. QED
    BY <2>2, <2>3, <2>4 DEF ChInv
<1>q. QED
  BY <1>1, <1>2

LEMMA ChInvImplies ==
    ASSUME ChInv
    PROVE  ChTypeOK /\ WholeFile /\ HandledOnce /\ CursorIsOwn /\ ChatIsTold /\ (Seeded = {} => FileRemembers)
<1>1. ChTypeOK
  <2>1. mem.bound => sess.n > 0
    BY DEF ChInv, OneSave, Remembers, Sound, ChUp, NoState
  <2>2. \A f \in DOMAIN file : file[f] = NoFile \/ file[f] = Half \/ (file[f].how = "whole" /\ file[f].what \in State)
    BY DEF ChInv, ChKinds, DiskKinds, OneSave, Stored
  <2>3. mem \in State /\ revoked \subseteq Person /\ poll \in Polling
    BY DEF ChInv, ChKinds, DiskKinds, WireKinds, ChatKinds
  <2>q. QED
    BY <2>1, <2>2, <2>3 DEF ChTypeOK, Polling
<1>2. WholeFile
  BY DEF ChInv, OneSave, WholeFile
<1>3. HandledOnce
  BY DEF ChInv, ChKinds, WireKinds, Fates, HandledOnce
<1>4. CursorIsOwn
  <2>1. ASSUME mem.bot # 0, NEW i \in 1..mem.offset - 1, i \in Update
        PROVE  fate[mem.bot][i] \notin {"none", "sent"}
    <3>1. ChUp
      BY <2>1 DEF ChInv, OneSave, ChUp, NoState
    <3>2. mem.offset \in Nat /\ i < mem.offset
      BY <2>1, ChannelAssumption DEF ChInv, ChKinds, DiskKinds, State
    <3>q. QED
      BY <2>1, <3>1, <3>2 DEF ChInv, Remembers, Sound, Own
  <2>q. QED
    BY <2>1 DEF CursorIsOwn
<1>5. Seeded = {} => RevokedStays
  BY DEF ChInv, Revokes, Without, RevokedStays
<1>6. OneVoice
  <2> DEFINE V == {q \in pumps : q.on}
  <2>1. \A q, r \in V : q = r
    BY DEF ChInv, Voices
  <2>2. V = {} \/ \E q : V = {q}
    BY <2>1
  <2> HIDE DEF V
  <2>3. Cardinality(V) <= 1
    <3>1. CASE V = {}
      BY <3>1, FS_EmptySet
    <3>2. CASE \E q : V = {q}
      <4>1. PICK q : V = {q}
        BY <3>2
      <4>2. Cardinality(V) = 1
        BY <4>1, FS_Singleton
      <4>q. QED
        BY <4>2
    <3>q. QED
      BY <2>2, <3>1, <3>2
  <2>q. QED
    BY <2>3 DEF V, OneVoice
<1>7. EndIsTold
  BY DEF ChInv, Voices, EndIsTold
<1>q. QED
  BY <1>1, <1>2, <1>3, <1>4, <1>5, <1>6, <1>7 DEF FileRemembers, ChatIsTold

\* For any bots, people, updates, owners' changes and crashes, if saves do not overlap and
\* a token is replaced between polls: telegram.json is never half a file; no update is
\* handled twice, over restarts too; the cursor is past nothing its bot has not been seen to send; who was
\* revoked stays so (where the command line names nobody); and a chat is fed by one
\* goroutine and hears of the end of its session (internal/telegram/bot.go, store.go).
THEOREM ChatRemembers ==
    ASSUME SerialSaves, Careful
    PROVE  ChSpec => [](/\ ChTypeOK /\ WholeFile /\ HandledOnce /\ CursorIsOwn /\ ChatIsTold
                        /\ Seeded = {} => FileRemembers)
<1>1. ChInit => ChInv
  BY ChInvInit
<1>2. ChInv /\ [ChNext]_chVars => ChInv'
  BY ChInvNext
<1>3. ChInv => ChTypeOK /\ WholeFile /\ HandledOnce /\ CursorIsOwn /\ ChatIsTold /\ (Seeded = {} => FileRemembers)
  BY ChInvImplies
<1>q. QED
  BY <1>1, <1>2, <1>3, PTL DEF ChSpec

=============================================================================
