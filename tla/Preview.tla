------------------------------ MODULE Preview ------------------------------
(***************************************************************************)
(* The servers an agent started, and the ports kunai forwards for them:    *)
(* internal/preview (discover.go, listen_linux.go) and, in internal/server,*)
(* preview.go, previewforward.go, previewcwd.go and the hidden ports of    *)
(* sessionmeta.go.  A listening socket belongs to a session if its process *)
(* descends from the session's, or runs in the session's directory.  A     *)
(* server on loopback is opened by a listener of kunai at the same port of *)
(* the machine's network address.                                          *)
(*                                                                         *)
(* A path is the sequence of its segments.  An address is one of three:    *)
(* loopback, the local network's, the tailnet's; a wildcard socket holds   *)
(* all of them, and an address and port have one listener.                 *)
(***************************************************************************)
EXTENDS Integers, FiniteSets, Sequences, SequencesExt

CONSTANTS Id,        \* the sessions
          Seats,     \* the directories they may run in: a set of functions on Id
          Home,      \* the directory of the user
          Proc,      \* the processes below them, and those of others
          Program,   \* what may be run: [name, cwd, port, addrs]
          Port,      \* the ports
          Service,   \* kunai's own port
          Ask,       \* requests to open a preview
          NoOne,    \* no session, no process: init
          MaxRuns, MaxAsks, MaxHides    \* bounds: programs, opens and dismissals

VARIABLES sessState,      \* a session: live, its close under way, or gone
          seat,      \* where each runs
          proc,      \* the process table, with the sockets
          active,    \* the forwarder's map: port -> the session it is for
          listeners,     \* the ports kunai listens at
          asks,      \* the requests to open under way
          hides,     \* a dismissal between its two steps
          hidden,    \* the ports dismissed, per session
          ran, asked, dismissed,    \* how many
          saw,       \* what the request that opened a port had found there
          excused    \* ports whose forward was crossed by another request

pvVars == <<sessState, seat, proc, active, listeners, asks, hides, hidden, ran, asked,
            dismissed, saw, excused>>

Addr == {"lo", "lan", "tail"}

\* What listens is a dev server ("node"), another kunai or a test run.
ASSUME PreviewAssumption ==
  /\ IsFiniteSet(Proc) /\ Id \cap Proc = {} /\ NoOne \notin Id \cup Proc /\ 0 \notin Port
  /\ Home \in Seq(STRING) /\ Seats \subseteq [Id -> Seq(STRING)]
  /\ \A prog \in Program :
       /\ prog.cwd \in Seq(STRING) /\ prog.port \in Port \cup {0} /\ prog.addrs \subseteq Addr
       /\ prog.name \in IF prog.port = 0 THEN {"sh"} ELSE {"node", "kunai", "test"}
       /\ prog.port # 0 => prog.addrs # {}
  /\ {MaxRuns, MaxAsks, MaxHides} \subseteq Nat

Dead == [name |-> "dead", cwd |-> <<>>, port |-> 0, addrs |-> {}, parent |-> NoOne, by |-> NoOne]
NoAsk == [step |-> "idle", id |-> NoOne, port |-> 0, pid |-> NoOne]
NoHide == [id |-> NoOne, port |-> 0]

Up(p) == proc[p] # Dead
IsLive(i) == sessState[i] = "live"

(***************************************************************************)
(* Finding.                                                                *)
(***************************************************************************)
\* whether p is below the process of session i
DescendsFrom(p, i) ==
  LET up[k \in 0..Cardinality(Proc)] ==
        IF k = 0 THEN p
        ELSE IF up[k - 1] \in Proc THEN proc[up[k - 1]].parent ELSE up[k - 1]
  IN  up[Cardinality(Proc)] = i

WithinDir(dir, root) == IsPrefix(root, dir)

\* mutant: any directory says whose a process is
AnyDir(root) == root # <<>>

\* a directory that holds projects says nothing: home, and all above it
AttributableDir(root) == root # <<>> /\ ~WithinDir(Home, root)

\* another kunai, or a test run: nobody's server
Skipped(name) == name \in {"kunai", "test"}

Belongs(p, i) ==
  \/ DescendsFrom(p, i)
  \/ AttributableDir(seat[i]) /\ WithinDir(proc[p].cwd, seat[i])

\* the processes with a socket at a port; kunai's own are left out
Holders(port) == {p \in Proc : port \in Port /\ proc[p].port = port}

\* mutant: the first address decides
FirstAddress(port) ==
  {[port |-> port, pid |-> p, local |-> proc[p].addrs = {"lo"}] : p \in Holders(port)}

\* one row for a port, with any of its holders' names: the order is a map's
Rows(port) ==
  LET local == \A p \in Holders(port) : proc[p].addrs = {"lo"}
  IN  {[port |-> port, pid |-> p, local |-> local] : p \in Holders(port)}

\* mutant: a port kunai forwards is taken for one of its own
NotForwarded(port, i) ==
  IF port \in listeners \cup {Service} THEN {}
  ELSE {r \in Rows(port) : ~Skipped(proc[r.pid].name) /\ Belongs(r.pid, i)}

\* the rows the list of session i may have for a port
CardRows(port, i) ==
  IF port = Service THEN {}
  ELSE {r \in Rows(port) : ~Skipped(proc[r.pid].name) /\ Belongs(r.pid, i)}

Forwarding(i, port) == active[port] = i

\* a row as the card gets it
Decorated(r, i) ==
  [row |-> r, forwarding |-> Forwarding(i, r.port),
   url |-> Forwarding(i, r.port) \/ ~r.local, hidden |-> r.port \in hidden[i]]

(***************************************************************************)
(* The machine: sessions and processes come and go.                        *)
(***************************************************************************)
PvInit ==
  /\ sessState = [i \in Id |-> "live"] /\ seat \in Seats
  /\ proc = [p \in Proc |-> Dead]
  /\ active = [q \in Port |-> NoOne] /\ listeners = {} /\ saw = [q \in Port |-> NoOne]
  /\ asks = [a \in Ask |-> NoAsk] /\ hides = NoHide /\ hidden = [i \in Id |-> {}]
  /\ ran = 0 /\ asked = 0 /\ dismissed = 0 /\ excused = {}

Free(prog) ==
  /\ \A p \in Holders(prog.port) : proc[p].addrs \cap prog.addrs = {}
  /\ prog.port \in listeners \cup {Service} => "tail" \notin prog.addrs

\* an agent's command, a command of its command, or somebody else's program
RunsProgram(p, prog, parent) ==
  /\ ~Up(p) /\ ran < MaxRuns /\ Free(prog)
  /\ \/ parent \in Id /\ IsLive(parent)
     \/ parent \in Proc /\ Up(parent) /\ proc[parent].port = 0
     \/ parent = NoOne
  /\ ran' = ran + 1
  /\ proc' = [proc EXCEPT ![p] =
       [name |-> prog.name, cwd |-> prog.cwd, port |-> prog.port, addrs |-> prog.addrs,
        parent |-> parent,
        by |-> IF parent \in Proc THEN proc[parent].by ELSE parent]]
  /\ UNCHANGED <<sessState, seat, active, listeners, asks, hides, hidden, asked, dismissed, saw, excused>>

\* the kernel gives the children of what ended to init
Orphaned(dead) ==
  [p \in Proc |-> IF p \in dead THEN Dead
                  ELSE IF proc[p].parent \in dead THEN [proc[p] EXCEPT !.parent = NoOne]
                  ELSE proc[p]]

\* what a request saw is gone with the process
Unseen(gone) ==
  /\ saw' = [q \in Port |-> IF saw[q] \in gone THEN NoOne ELSE saw[q]]
  /\ asks' = [a \in Ask |-> IF asks[a].pid \in gone THEN [asks[a] EXCEPT !.pid = NoOne]
                            ELSE asks[a]]

Exits(p) ==
  /\ Up(p) /\ proc' = Orphaned({p}) /\ Unseen({p})
  /\ UNCHANGED <<sessState, seat, active, listeners, hides, hidden, ran, asked, dismissed, excused>>

\* the session's process ends, and of what it ran any part with it
ProcessEnds(i, gone) ==
  /\ gone \subseteq {p \in Proc : Up(p) /\ DescendsFrom(p, i)}
  /\ proc' = Orphaned(gone \cup {i}) /\ Unseen(gone)

\* without a word from anyone: nothing but its process goes
EndsAlone(i, gone) ==
  /\ IsLive(i) /\ sessState' = [sessState EXCEPT ![i] = "gone"] /\ ProcessEnds(i, gone)
  /\ excused' = excused \cup {q \in Port : active[q] = i}
  /\ UNCHANGED <<seat, active, listeners, hides, hidden, ran, asked, dismissed>>

\* handleCloseSession: the session first, and then its forwards
CloseAsked(i, gone) ==
  /\ IsLive(i) /\ sessState' = [sessState EXCEPT ![i] = "closing"] /\ ProcessEnds(i, gone)
  /\ UNCHANGED <<seat, active, listeners, hides, hidden, ran, asked, dismissed, excused>>

\* close: the entry, and the listener with it
Dropped(ports) ==
  /\ active' = [q \in Port |-> IF q \in ports THEN NoOne ELSE active[q]]
  /\ listeners' = listeners \ ports

\* mutant: the session goes, its forwards stay
LeavesForwards(i) ==
  /\ sessState[i] = "closing" /\ sessState' = [sessState EXCEPT ![i] = "gone"]
  /\ UNCHANGED <<seat, proc, active, listeners, asks, hides, hidden, ran, asked, dismissed, saw, excused>>

CloseSession(i) ==
  /\ sessState[i] = "closing" /\ sessState' = [sessState EXCEPT ![i] = "gone"]
  /\ Dropped({q \in Port : active[q] = i})
  /\ excused' = {q \in excused : active[q] # i}
  /\ UNCHANGED <<seat, proc, asks, hides, hidden, ran, asked, dismissed, saw>>

(***************************************************************************)
(* Opening: found in a scan, not forwarded yet, listened at, written down. *)
(***************************************************************************)
OpenPreview(a, i, port) ==
  /\ asks[a].step = "idle" /\ asked < MaxAsks /\ IsLive(i)
  /\ \E r \in CardRows(port, i) :
       /\ r.local
       /\ asks' = [asks EXCEPT ![a] = [step |-> "found", id |-> i, port |-> port, pid |-> r.pid]]
  /\ asked' = asked + 1
  /\ UNCHANGED <<sessState, seat, proc, active, listeners, hides, hidden, ran, dismissed, saw, excused>>

\* asking twice is no error, another session's port is busy
LooksForForward(a) ==
  /\ asks[a].step = "found"
  /\ asks' = [asks EXCEPT ![a] =
       IF active[asks[a].port] = NoOne THEN [asks[a] EXCEPT !.step = "clear"] ELSE NoAsk]
  /\ UNCHANGED <<sessState, seat, proc, active, listeners, hides, hidden, ran, asked, dismissed, saw, excused>>

CanListen(port) ==
  /\ port \notin listeners \cup {Service}
  /\ \A p \in Holders(port) : "tail" \notin proc[p].addrs

\* mutant: written down without a look at what the kernel said
ListensAnyway(a) ==
  /\ asks[a].step = "clear" /\ listeners' = listeners \cup {asks[a].port}
  /\ asks' = [asks EXCEPT ![a].step = "listening"]
  /\ UNCHANGED <<sessState, seat, proc, active, hides, hidden, ran, asked, dismissed, saw, excused>>

ListensAt(a) ==
  /\ asks[a].step = "clear"
  /\ LET port == asks[a].port
     IN  IF CanListen(port)
         THEN /\ listeners' = listeners \cup {port}
              /\ asks' = [asks EXCEPT ![a].step = "listening"]
         ELSE listeners' = listeners /\ asks' = [asks EXCEPT ![a] = NoAsk]
  /\ UNCHANGED <<sessState, seat, proc, active, hides, hidden, ran, asked, dismissed, saw, excused>>

\* another request of the session came first: its close, or a dismissal
Crossed(i, port) ==
  ~IsLive(i) \/ port \in hidden[i] \/ hides = [id |-> i, port |-> port]

Registers(a) ==
  LET i == asks[a].id    port == asks[a].port
  IN  /\ asks[a].step = "listening"
      /\ active' = [active EXCEPT ![port] = i] /\ saw' = [saw EXCEPT ![port] = asks[a].pid]
      /\ excused' = IF Crossed(i, port) THEN excused \cup {port} ELSE excused \ {port}
      /\ asks' = [asks EXCEPT ![a] = NoAsk]
      /\ UNCHANGED <<sessState, seat, proc, listeners, hides, hidden, ran, asked, dismissed>>

(***************************************************************************)
(* Closing and dismissing.                                                 *)
(***************************************************************************)
\* only the session it is for may close it
ClosePreview(i, port) ==
  /\ active[port] = i /\ Dropped({port})
  /\ UNCHANGED <<sessState, seat, proc, asks, hides, hidden, ran, asked, dismissed, saw, excused>>

\* mutant: the row goes, the forward stays
HidesOnly(i, port) ==
  /\ hides = NoHide /\ dismissed < MaxHides /\ dismissed' = dismissed + 1
  /\ hides' = [id |-> i, port |-> port]
  /\ UNCHANGED <<sessState, seat, proc, active, listeners, asks, hidden, ran, asked, saw, excused>>

\* a dismissal: a forward is stopped first ...
HidePreview(i, port) ==
  /\ hides = NoHide /\ dismissed < MaxHides /\ dismissed' = dismissed + 1
  /\ hides' = [id |-> i, port |-> port]
  /\ Dropped({q \in {port} : active[q] = i})
  /\ UNCHANGED <<sessState, seat, proc, asks, hidden, ran, asked, saw, excused>>

\* ... then the row is out of sight
SetPreviewHidden ==
  /\ hides # NoHide /\ hides' = NoHide
  /\ hidden' = [hidden EXCEPT ![hides.id] = @ \cup {hides.port}]
  /\ UNCHANGED <<sessState, seat, proc, active, listeners, asks, ran, asked, dismissed, saw, excused>>

ShowPreview(i, port) ==
  /\ port \in hidden[i] /\ hidden' = [hidden EXCEPT ![i] = @ \ {port}]
  /\ UNCHANGED <<sessState, seat, proc, active, listeners, asks, hides, ran, asked, dismissed, saw, excused>>

PvNext ==
  \/ \E p \in Proc, prog \in Program, parent \in Id \cup Proc \cup {NoOne} : RunsProgram(p, prog, parent)
  \/ \E p \in Proc : Exits(p)
  \/ \E i \in Id, gone \in SUBSET Proc : EndsAlone(i, gone) \/ CloseAsked(i, gone)
  \/ \E i \in Id : CloseSession(i)
  \/ \E a \in Ask, i \in Id, q \in Port : OpenPreview(a, i, q)
  \/ \E a \in Ask : LooksForForward(a) \/ ListensAt(a) \/ Registers(a)
  \/ \E i \in Id, q \in Port : ClosePreview(i, q) \/ HidePreview(i, q) \/ ShowPreview(i, q)
  \/ SetPreviewHidden

PvSpec == PvInit /\ [][PvNext]_pvVars

-----------------------------------------------------------------------------
\* Types of all state.
PvTypeOK ==
  /\ sessState \in [Id -> {"live", "closing", "gone"}] /\ seat \in Seats
  /\ \A p \in Proc : /\ proc[p].port \in Port \cup {0} /\ proc[p].addrs \subseteq Addr
                     /\ proc[p].parent \in Id \cup Proc \cup {NoOne}
                     /\ proc[p].by \in Id \cup {NoOne}
  /\ active \in [Port -> Id \cup {NoOne}] /\ saw \in [Port -> Proc \cup {NoOne}]
  /\ listeners \subseteq Port /\ excused \subseteq Port /\ hidden \in [Id -> SUBSET Port]
  /\ \A a \in Ask : asks[a].step \in {"idle", "found", "clear", "listening"}
  /\ ran \in 0..MaxRuns /\ asked \in 0..MaxAsks /\ dismissed \in 0..MaxHides

\* A path leads to a directory or to one that it is in.
AtOrAbove(root, dir) == \E n \in 0..Len(dir) : root = SubSeq(dir, 1, n)

\* A process runs in the directory of a session, and that is one project's.
RunsInProject(p, i) == AtOrAbove(seat[i], proc[p].cwd) /\ ~AtOrAbove(seat[i], Home)

\* A session's list names its own: what its agent ran, or what runs inside a
\* directory that is one project.  A kunai or a test run is no row, and a row
\* is local only if the port answers at no address but loopback.
ListNamesItsOwn ==
  \A i \in Id, q \in Port : IsLive(i) =>
    \A r \in CardRows(q, i) :
      /\ proc[r.pid].by = i \/ RunsInProject(r.pid, i)
      /\ proc[r.pid].name = "node"
      /\ r.local <=> ~\E p \in Proc : proc[p].port = q /\ {"lan", "tail"} \cap proc[p].addrs # {}

\* What is forwarded can be taken back: while the server a request found is
\* up, in its session's directory or below its process, and alone at its port,
\* the session's list has its row, marked as forwarded, with an address, and
\* in sight.
SharedRowStays ==
  \A i \in Id, q \in Port :
    (/\ IsLive(i) /\ active[q] = i /\ saw[q] # NoOne /\ Belongs(saw[q], i)
     /\ Holders(q) = {saw[q]})
    => \E r \in CardRows(q, i) :
         LET d == Decorated(r, i)
         IN  d.forwarding /\ d.url /\ (d.hidden => q \in excused)

\* A forward belongs to a session that is there: none is left after a close
\* was carried out, unless the open was still under way then.
ForwardEndsWithSession ==
  \A q \in Port : active[q] # NoOne /\ sessState[active[q]] = "gone" => q \in excused

\* kunai listens for nobody at no port: every listener is written down or
\* about to be, for one request.
ListenersAreKnown ==
  /\ listeners = {q \in Port : active[q] # NoOne}
             \cup {asks[a].port : a \in {b \in Ask : asks[b].step = "listening"}}
  /\ \A a, b \in Ask :
       asks[a].step = "listening" /\ asks[b].step = "listening" /\ asks[a].port = asks[b].port
       => a = b
  /\ \A a \in Ask : asks[a].step = "listening" => active[asks[a].port] = NoOne

\* What a forward was opened for was the session's own: its agent ran it, or
\* it runs in the session's directory, and that directory is a project's.
OnlyOwnIsPublished ==
  \A q \in Port : active[q] # NoOne /\ saw[q] # NoOne =>
    /\ proc[saw[q]].name = "node" /\ proc[saw[q]].port = q /\ q # Service
    /\ proc[saw[q]].by = active[q] \/ RunsInProject(saw[q], active[q])

\* Previews: lists name a session's own servers, a shared row stays, a forward
\* ends with its session, no listener is lost, and only the session's own is
\* published (internal/preview/discover.go, internal/server/preview.go and
\* previewforward.go).
PreviewsAreHeld ==
  /\ ListNamesItsOwn
  /\ SharedRowStays
  /\ ForwardEndsWithSession
  /\ ListenersAreKnown
  /\ OnlyOwnIsPublished

\* discover.go:55-59: only another kunai's own socket is skipped, so the row
\* stays for the dev server that owns the port.
RowStaysForTheServer ==
  \A i \in Id, q \in Port \ {Service} :
    (/\ IsLive(i)
     /\ \E p \in Holders(q) : proc[p].name = "node" /\ Belongs(p, i)
     /\ \A p \in Holders(q) : proc[p].name \in {"node", "kunai"}
     /\ Cardinality({p \in Holders(q) : proc[p].name = "node"}) = 1)
    => {r \in Rows(q) : r \notin CardRows(q, i)} = {}
=============================================================================
