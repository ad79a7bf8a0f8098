------------------------------- MODULE Replay -------------------------------
(***************************************************************************)
(* The sequenced event stream of one session id and the clients that       *)
(* follow it: internal/session (ring, Attach, emitLocked), the WebSocket   *)
(* bridge of internal/server/ws.go, and the client side of the protocol in *)
(* web/src/lib/chat.svelte.ts.                                             *)
(*                                                                         *)
(* An event is the pair of the process that sequenced it (its epoch) and   *)
(* its number; what it says is left out.  Number 0 is a streamed token,    *)
(* which is never sequenced.  A respawn puts a new process, with a new     *)
(* epoch and numbers from 1, behind the same id.                           *)
(***************************************************************************)
EXTENDS Naturals, Sequences, FiniteSets

CONSTANTS Client,     \* the phones and tabs following the session
          RingCap,    \* ringCapacity: events kept for replay
          SubBuf,     \* subChanBuf: frames a subscriber may lag by
          MaxSeq,     \* bound: events one process sequences
          MaxEpoch,   \* bound: processes behind the id
          MaxDrop,    \* bound: sockets the network loses
          MaxDelta    \* bound: streamed tokens

ASSUME ReplayAssumption ==
    /\ {RingCap, SubBuf, MaxSeq, MaxEpoch} \subseteq Nat \ {0}
    /\ {MaxDrop, MaxDelta} \subseteq Nat

VARIABLES
    epoch,      \* the process currently (or last) behind the id
    live,       \* "up", "ended" (driver gone, still registered) or "gone"
    seq,        \* s.seq
    buf,        \* s.buf: the numbers still held for replay, oldest first
    subs,       \* s.subs: clients whose channel is open
    chan,       \* sub.ch of each client's current connection
    out,        \* hello and backlog still to be written to the socket
    online,     \* clients with an open socket
    known,      \* client: the epoch it holds, 0 before the first hello
    lastSeq,    \* client: high-water mark, sent as ?since on reconnect
    items,      \* client: the events on screen, in the order applied
    drops,      \* sockets lost so far
    deltas      \* tokens streamed so far

server == <<epoch, live, seq, buf>>
client == <<known, lastSeq, items>>
vars == <<server, subs, chan, out, online, client, drops, deltas>>

Event(e, n) == [t |-> "event", epoch |-> e, seq |-> n]
Hello(e) == [t |-> "hello", epoch |-> e]

-----------------------------------------------------------------------------
(* Server side *)

\* Mutant: a full ring grows instead of evicting.
AddNoEvict(b, n) == Append(b, n)

\* ring.add: the oldest event makes room for the newest.
Add(b, n) == IF Len(b) = RingCap THEN Append(Tail(b), n) ELSE Append(b, n)

\* Mutant: off by one at the caller's mark.
SinceSkipsOne(b, after) ==
    SubSeq(b, Cardinality({i \in DOMAIN b : b[i] <= after + 1}) + 1, Len(b))

\* ring.since: what is still buffered above the caller's mark.  The ring is
\* ascending (TypeOK), so what the filter keeps is its end.
Since(b, after) ==
    SubSeq(b, Cardinality({i \in DOMAIN b : b[i] <= after}) + 1, Len(b))

\* The ring after n events were added to an empty one.
LastSeqs(n) ==
    LET kept == IF n < RingCap THEN n ELSE RingCap
    IN  [i \in 1..kept |-> n - kept + i]

\* Mutant: a lagging subscriber loses the event but keeps its channel.
EmitLossy(ev) ==
    /\ chan' = [c \in Client |-> IF c \in subs /\ Len(chan[c]) < SubBuf
                                 THEN Append(chan[c], ev) ELSE chan[c]]
    /\ UNCHANGED subs

\* emitLocked: fan out; a subscriber whose channel is full is dropped and its
\* channel closed, so it reads what is buffered and reconnects for the rest.
Emit(ev) ==
    LET fits == {c \in subs : Len(chan[c]) < SubBuf}
    IN  /\ subs' = fits
        /\ chan' = [c \in Client |-> IF c \in fits THEN Append(chan[c], ev) ELSE chan[c]]

\* broadcast of anything but a token: stamp, remember, fan out.
Broadcast ==
    /\ live = "up" /\ seq < MaxSeq
    /\ seq' = seq + 1
    /\ buf' = Add(buf, seq + 1)
    /\ Emit(Event(epoch, seq + 1))
    /\ UNCHANGED <<epoch, live, out, online, client, drops, deltas>>

\* broadcast of a delta or a thinking frame: live only, never in the ring.
BroadcastDelta ==
    /\ live = "up" /\ deltas < MaxDelta
    /\ deltas' = deltas + 1
    /\ Emit(Event(epoch, 0))
    /\ UNCHANGED <<server, out, online, client, drops>>

\* The driver's event channel closed: every subscriber's channel is closed.
DriverEnd ==
    /\ live = "up"
    /\ live' = "ended"
    /\ subs' = {}
    /\ UNCHANGED <<epoch, seq, buf, chan, out, online, client, drops, deltas>>

\* The reaper goroutine of Create takes the ended session off the registry.
Reap ==
    /\ live = "ended"
    /\ live' = "gone"
    /\ UNCHANGED <<epoch, seq, buf, subs, chan, out, online, client, drops, deltas>>

\* restart: the old process is done, a new one takes the id, seeded with n
\* turns of the transcript before any client can attach.
Respawn ==
    /\ live # "up" /\ epoch < MaxEpoch
    /\ \E n \in 0..MaxSeq :
         /\ seq' = n
         /\ buf' = LastSeqs(n)
    /\ epoch' = epoch + 1
    /\ live' = "up"
    /\ UNCHANGED <<subs, chan, out, online, client, drops, deltas>>

-----------------------------------------------------------------------------
(* The socket *)

\* A respawned process numbers from 1, so a mark above its seq is a stale one.
Clamp(after) == IF after > seq THEN 0 ELSE after

\* handleWS: look the session up and Attach.  Snapshot and subscription are one
\* critical section; a session that has ended hands out a closed channel.
Connect(c) ==
    /\ c \notin online /\ live # "gone"
    /\ online' = online \cup {c}
    /\ out' = [out EXCEPT ![c] =
                 <<Hello(epoch)>> \o [i \in DOMAIN Since(buf, Clamp(lastSeq[c])) |->
                                        Event(epoch, Since(buf, Clamp(lastSeq[c]))[i])]]
    /\ chan' = [chan EXCEPT ![c] = <<>>]
    /\ subs' = IF live = "up" THEN subs \cup {c} ELSE subs
    /\ UNCHANGED <<server, client, drops, deltas>>

\* Mutant: the screen of the dead process is kept (resetForNewProcess clears
\* the mark only).
OnHelloKeepScreen(c, e) ==
    /\ known' = [known EXCEPT ![c] = e]
    /\ lastSeq' = [lastSeq EXCEPT ![c] = IF known[c] \in {0, e} THEN @ ELSE 0]
    /\ UNCHANGED items

\* Mutant: the client does not look at the epoch.
OnHelloNoReset(c, e) ==
    /\ known' = [known EXCEPT ![c] = e]
    /\ UNCHANGED <<lastSeq, items>>

\* apply('hello'): a hello from another process than the one held wipes the
\* screen and the mark (resetForNewProcess).
OnHello(c, e) ==
    LET same == known[c] \in {0, e}
    IN  /\ known' = [known EXCEPT ![c] = e]
        /\ lastSeq' = [lastSeq EXCEPT ![c] = IF same THEN @ ELSE 0]
        /\ items' = [items EXCEPT ![c] = IF same THEN @ ELSE <<>>]

\* apply() of anything else: what is at or below the mark is already on screen,
\* and a token (number 0) moves nothing.
OnEvent(c, f) ==
    /\ IF f.seq > lastSeq[c]
       THEN /\ lastSeq' = [lastSeq EXCEPT ![c] = f.seq]
            /\ items' = [items EXCEPT ![c] = Append(@, f)]
       ELSE UNCHANGED <<lastSeq, items>>
    /\ UNCHANGED known

Apply(c, f) == IF f.t = "hello" THEN OnHello(c, f.epoch) ELSE OnEvent(c, f)

\* The writer goroutine: hello and backlog first, then the live channel.
Deliver(c) ==
    /\ c \in online
    /\ \/ /\ out[c] # <<>>
          /\ Apply(c, Head(out[c]))
          /\ out' = [out EXCEPT ![c] = Tail(@)]
          /\ UNCHANGED chan
       \/ /\ out[c] = <<>> /\ chan[c] # <<>>
          /\ Apply(c, Head(chan[c]))
          /\ chan' = [chan EXCEPT ![c] = Tail(@)]
          /\ UNCHANGED out
    /\ UNCHANGED <<server, subs, online, drops, deltas>>

\* Detach, and whatever was still on its way is gone.
Hangup(c) ==
    /\ online' = online \ {c}
    /\ subs' = subs \ {c}
    /\ chan' = [chan EXCEPT ![c] = <<>>]
    /\ out' = [out EXCEPT ![c] = <<>>]
    /\ UNCHANGED <<server, client, deltas>>

\* The writer reads a closed, drained channel and closes the socket.
ServerHangup(c) ==
    /\ c \in online \ subs
    /\ out[c] = <<>> /\ chan[c] = <<>>
    /\ Hangup(c)
    /\ UNCHANGED drops

\* The network takes the socket.
Drop(c) ==
    /\ c \in online /\ drops < MaxDrop
    /\ drops' = drops + 1
    /\ Hangup(c)

-----------------------------------------------------------------------------
Init ==
    /\ epoch = 1 /\ live = "up" /\ seq = 0 /\ buf = <<>>
    /\ subs = {} /\ online = {}
    /\ chan = [c \in Client |-> <<>>]
    /\ out = [c \in Client |-> <<>>]
    /\ known = [c \in Client |-> 0]
    /\ lastSeq = [c \in Client |-> 0]
    /\ items = [c \in Client |-> <<>>]
    /\ drops = 0 /\ deltas = 0

Next ==
    \/ Broadcast \/ BroadcastDelta
    \/ DriverEnd \/ Reap \/ Respawn
    \/ \E c \in Client : Connect(c) \/ Deliver(c) \/ ServerHangup(c) \/ Drop(c)

\* Goroutines run and the client's reconnect timer fires; nothing obliges the
\* session to say anything more.
Fairness == \A c \in Client : WF_vars(Connect(c)) /\ WF_vars(Deliver(c) \/ ServerHangup(c))

Spec == Init /\ [][Next]_vars
FairSpec == Spec /\ Fairness

-----------------------------------------------------------------------------
(* Properties *)

Frame == {Hello(e) : e \in 1..MaxEpoch}
         \cup {Event(e, n) : e \in 1..MaxEpoch, n \in 0..MaxSeq}

\* Every variable has its type; the ring holds the last numbers issued, the
\* channels stay within subChanBuf.
TypeOK ==
    /\ epoch \in 1..MaxEpoch
    /\ live \in {"up", "ended", "gone"}
    /\ seq \in 0..MaxSeq
    /\ buf \in Seq(1..MaxSeq) /\ buf = LastSeqs(seq)
    /\ subs \subseteq online /\ online \subseteq Client
    /\ chan \in [Client -> Seq(Frame)] /\ \A c \in Client : Len(chan[c]) <= SubBuf
    /\ out \in [Client -> Seq(Frame)]
    /\ known \in [Client -> 0..MaxEpoch]
    /\ lastSeq \in [Client -> 0..MaxSeq]
    /\ items \in [Client -> Seq(Frame)]
    /\ drops \in 0..MaxDrop /\ deltas \in 0..MaxDelta

\* The screen shows one process's events, each once, in the order they
\* happened, through lag drops, reconnects and respawns.
ScreenInOrder ==
    \A c \in Client :
        /\ \A i \in DOMAIN items[c] : items[c][i].epoch = known[c]
        /\ \A i, j \in DOMAIN items[c] : i < j => items[c][i].seq < items[c][j].seq

\* Frames on their way to a client, in the order it will read them.
Incoming(c) == out[c] \o chan[c]

\* No client goes deaf: an event about to be read is never one that the dedupe
\* in apply() throws away, whatever process the client's mark came from.
NeverDeaf ==
    \A c \in online :
        LET f == Head(Incoming(c))
        IN  (Incoming(c) # <<>> /\ f.t = "event" /\ f.seq > 0)
              => f.epoch = known[c] /\ f.seq > lastSeq[c]

\* Once the backlog of an attach has been read, everything the server still
\* holds is on the client's screen or on its way.  Not so behind a respawn: a
\* mark of the dead process that is not above the new one's seq is not clamped.
BacklogComplete ==
    \A c \in online :
        (out[c] = <<>> /\ live = "up" /\ epoch = 1) =>
            \A i \in DOMAIN buf :
                \/ \E j \in DOMAIN Incoming(c) : Incoming(c)[j].seq = buf[i]
                \/ \E j \in DOMAIN items[c] : items[c][j].seq = buf[i]
                \/ c \notin subs

\* Once the session goes quiet every client ends up with all of it, whatever
\* was dropped for lag or lost with a socket, unless the session is gone or
\* another process is behind its id.
EventuallyCurrent ==
    \A c \in Client :
        <>[](live # "gone" /\ epoch = 1 => known[c] = epoch /\ lastSeq[c] = seq)

\* The event feed of one process: the marks move through it in order.
Feed == INSTANCE EventFeed WITH
            Reader <- Client, high <- seq, floor <- seq - Len(buf), pos <- lastSeq

\* Until a respawn, Replay implements the feed: a client's mark only ever moves
\* to the next event, or past events the ring has lost.
ImplementsFeed == Feed!Init /\ [][epoch' = 1 => [Feed!Next]_(Feed!vars)]_vars
=============================================================================
