---------------------------- MODULE Network_proofs ----------------------------
(***************************************************************************)
(* What kunai serves and to whom, for any machines, sessions, ports and    *)
(* timings: the PIN on the LAN, the listeners there, the previews, and what*)
(* a provider is asked.  The last theorems are those of the composition,   *)
(* with Signing_proofs for what kunai signs in with.                       *)
(***************************************************************************)
EXTENDS MCNetwork, Signing_proofs, FiniteSetTheorems, SequenceTheorems,
        WellFoundedInduction

-----------------------------------------------------------------------------
(* Induction over the naturals, from their being well-founded. *)

LEMMA LeastNat ==
  ASSUME NEW T \in SUBSET Nat, T # {}
  PROVE  \E x \in T : \A y \in T : ~(y < x)
<1> DEFINE R == OpToRel(<, Nat)
<1>1. IsWellFoundedOn(R, Nat)
  BY NatLessThanWellFounded, Zenon
<1>2. \A x, y : <<y, x>> \in R <=> (x \in Nat /\ y \in Nat /\ y < x)
  BY DEF OpToRel
<1> HIDE DEF R
<1>3. PICK x \in T : \A y \in T : ~ (<<y, x>> \in R)
  BY <1>1, WFMin, Zenon
<1>4. \A y \in T : ~(y < x)
  <2> TAKE y \in T
  <2>1. <<y, x>> \notin R
    BY <1>3
  <2> QED
    BY <2>1, <1>2, x \in Nat, y \in Nat
<1> QED
  BY <1>4

LEMMA InductionOnNat ==
  ASSUME NEW S, 0 \in S, \A n \in Nat : n \in S => n + 1 \in S
  PROVE  \A n \in Nat : n \in S
<1> DEFINE T == Nat \ S
<1> SUFFICES ASSUME T # {} PROVE FALSE
  OBVIOUS
<1>1. PICK m \in T : \A y \in T : ~(y < m)
  BY LeastNat
<1>2. m # 0 /\ m \in Nat
  OBVIOUS
<1>3. m - 1 \in Nat /\ m - 1 < m
  BY <1>2
<1>4. m - 1 \in S
  BY <1>1, <1>3
<1>5. (m - 1) + 1 \in S
  BY <1>3, <1>4
<1> QED
  BY <1>2, <1>5

-----------------------------------------------------------------------------
(* The listeners on the LAN. *)

\* The types one by one.
Syncs == [pc : {"idle", "want", "start", "listen", "stop"}, left : SUBSET NetAddr, live : SUBSET NetAddr]

LnEach ==
    /\ armed \in BOOLEAN /\ overlap \in BOOLEAN /\ net.running \in BOOLEAN
    /\ net.cancel \in Admin \cup {NoStart} /\ net.addrs \subseteq NetAddr
    /\ syncing \in [Admin -> Syncs]
    /\ listening \in [NetAddr -> Admin \cup {NoStart}] /\ ending \subseteq Admin

LEMMA LnTyped == LnEach => LnTypeOK
  BY DEF LnEach, LnTypeOK, Syncs

\* A Sync that is under way has its own cancel function, and only the addresses
\* it bound; what is shown was bound by the start that is not cancelled.
Owned ==
    /\ \A a \in Admin : syncing[a].pc # "idle" => a \notin ending /\ net.cancel # a
    /\ \A a \in Admin : syncing[a].pc = "listen" => \A x \in syncing[a].live : listening[x] = a
    /\ ~net.running => net = Off
    /\ net.running => net.cancel \in Admin \ ending

\* Of requests that come one at a time: the one there is, and how far the
\* network is in line.
Bound(a) == \A x \in NetAddr : IF x \in syncing[a].left THEN listening[x] = NoStart ELSE x \in syncing[a].live

Accounted == \A x \in NetAddr : listening[x] \in ending \cup {net.cancel, NoStart}

Stage(a) ==
    /\ syncing[a].pc \in {"want", "start", "stop"} => Accounted
    /\ syncing[a].pc = "want" => (armed => ending = {})
    /\ syncing[a].pc = "start" => armed /\ ending = {}
    /\ syncing[a].pc = "stop" => ~armed
    /\ syncing[a].pc = "listen" => armed /\ ending = {} /\ net = Off /\ Bound(a)

Alone ==
    ~overlap => /\ \A a, b \in Admin : syncing[a].pc # "idle" /\ syncing[b].pc # "idle" => a = b
                /\ \A a \in Admin : Stage(a)
                /\ (\A a \in Admin : syncing[a].pc = "idle") => net.running = armed /\ Accounted

LnInv == LnEach /\ Owned /\ ShownIsBound /\ Alone

LEMMA LnInitOK == LnInit => LnInv
  <1> SUFFICES ASSUME LnInit PROVE LnInv
    OBVIOUS
  <1>1. LnEach
    BY DEF LnInit, Off, Idling, Syncs, LnEach
  <1>2. Owned /\ ShownIsBound /\ Alone
    BY LannetAssumption DEF LnInit, Off, Idling, Owned, ShownIsBound, Alone, Stage, Accounted
  <1> QED
    BY <1>1, <1>2 DEF LnInv

\* A request goes on to another step of its Sync, and the others stay.
LEMMA Progress ==
    ASSUME syncing \in [Admin -> Syncs], NEW a \in Admin, NEW pc \in {"idle", "want", "start", "listen", "stop"}, Progresses(a, pc)
    PROVE  /\ syncing' \in [Admin -> Syncs]
           /\ syncing'[a].pc = pc
           /\ \A b \in Admin \ {a} : syncing'[b] = syncing[b]
  BY DEF Progresses, Syncs

LEMMA ChangeOK == ASSUME LnInv, NEW a \in Admin, NEW to \in BOOLEAN, Change(a, to) PROVE LnInv'
  <1> USE DEF LnInv
  <1>1. /\ syncing' \in [Admin -> Syncs] /\ syncing'[a].pc = "want"
        /\ \A b \in Admin \ {a} : syncing'[b] = syncing[b]
    BY Progress DEF Change, LnEach
  <1>2. /\ syncing[a].pc = "idle" /\ a \notin ending /\ net.cancel # a /\ armed' = to
        /\ UNCHANGED <<net, listening, ending>>
    BY LannetAssumption DEF Change
  <1>3. overlap' \in BOOLEAN /\ (~overlap' => ~overlap /\ (\A b \in Admin : syncing[b].pc = "idle") /\ (to => ending = {}))
    BY DEF Change, Busy, LnEach
  <1>4. LnEach'
    BY <1>1, <1>2, <1>3 DEF LnEach
  <1>5. Owned' /\ ShownIsBound'
    BY <1>1, <1>2 DEF Owned, ShownIsBound
  <1>6. Alone'
    BY <1>1, <1>2, <1>3 DEF Alone, Stage, Accounted
  <1> QED
    BY <1>4, <1>5, <1>6

LEMMA WantsOK == ASSUME LnInv, NEW a \in Admin, Wants(a) PROVE LnInv'
  <1> USE DEF LnInv
  <1>1. /\ syncing' \in [Admin -> Syncs] /\ syncing'[a].pc = (IF armed THEN "start" ELSE "stop")
        /\ \A b \in Admin \ {a} : syncing'[b] = syncing[b]
    BY Progress DEF Wants, LnEach
  <1>2. syncing[a].pc = "want" /\ UNCHANGED <<armed, net, listening, ending, overlap>>
    BY DEF Wants
  <1>3. LnEach'
    BY <1>1, <1>2 DEF LnEach
  <1>4. Owned' /\ ShownIsBound'
    BY <1>1, <1>2 DEF Owned, ShownIsBound
  <1>5. Alone'
    BY <1>1, <1>2 DEF Alone, Stage, Accounted, LnEach
  <1> QED
    BY <1>3, <1>4, <1>5

LEMMA SyncStartsOK == ASSUME LnInv, NEW a \in Admin, SyncStarts(a) PROVE LnInv'
  <1> USE DEF LnInv
  <1>1. syncing[a].pc = "start" /\ UNCHANGED <<armed, net, listening, ending, overlap>>
    BY DEF SyncStarts
  <1>2. CASE net.running
    <2>1. /\ syncing' \in [Admin -> Syncs] /\ syncing'[a].pc = "idle"
          /\ \A b \in Admin \ {a} : syncing'[b] = syncing[b]
      BY <1>2, Progress DEF SyncStarts, LnEach
    <2>2. LnEach'
      BY <1>1, <2>1 DEF LnEach
    <2>3. Owned' /\ ShownIsBound'
      BY <1>1, <2>1 DEF Owned, ShownIsBound
    <2>4. Alone'
      BY <1>1, <1>2, <2>1 DEF Alone, Stage, Accounted, LnEach
    <2> QED
      BY <2>2, <2>3, <2>4
  <1>3. CASE ~net.running
    <2>1. syncing' = [syncing EXCEPT ![a] = [pc |-> "listen", left |-> NetAddr, live |-> {}]]
      BY <1>3 DEF SyncStarts
    <2>2. /\ syncing' \in [Admin -> Syncs] /\ syncing'[a] = [pc |-> "listen", left |-> NetAddr, live |-> {}]
          /\ \A b \in Admin \ {a} : syncing'[b] = syncing[b]
      BY <2>1 DEF Syncs, LnEach
    <2>3. LnEach'
      BY <1>1, <2>2 DEF LnEach
    <2>4. Owned' /\ ShownIsBound'
      BY <1>1, <2>2 DEF Owned, ShownIsBound
    <2>5. ~overlap => armed /\ ending = {} /\ net = Off /\ \A x \in NetAddr : listening[x] = NoStart
      BY <1>1, <1>3 DEF Alone, Stage, Accounted, Owned, Off
    <2>6. Alone'
      <3> SUFFICES ASSUME ~overlap PROVE Alone'
        BY <1>1 DEF Alone
      <3>1. \A b \in Admin \ {a} : syncing'[b].pc = "idle"
        BY <1>1, <2>2 DEF Alone
      <3>2. Stage(a)'
        BY <1>1, <2>2, <2>5 DEF Stage, Bound
      <3>3. \A b \in Admin \ {a} : Stage(b)'
        BY <3>1 DEF Stage
      <3> QED
        BY <2>2, <3>1, <3>2, <3>3 DEF Alone
    <2> QED
      BY <2>3, <2>4, <2>6
  <1> QED
    BY <1>2, <1>3

LEMMA BindsOK == ASSUME LnInv, NEW a \in Admin, Binds(a) PROVE LnInv'
  <1> USE DEF LnInv
  <1>0. PICK x \in syncing[a].left :
            /\ syncing[a].pc = "listen"
            /\ IF listening[x] = NoStart
               THEN /\ listening' = [listening EXCEPT ![x] = a]
                    /\ syncing' = [syncing EXCEPT ![a] = [pc |-> "listen", left |-> @.left \ {x}, live |-> @.live \cup {x}]]
               ELSE /\ syncing' = [syncing EXCEPT ![a].left = @ \ {x}]
                    /\ UNCHANGED listening
    BY DEF Binds
  <1>1. syncing[a].pc = "listen" /\ x \in NetAddr /\ UNCHANGED <<armed, net, ending, overlap>>
    BY <1>0 DEF Binds, LnEach, Syncs
  <1>2. CASE listening[x] = NoStart
    <2>1. syncing' = [syncing EXCEPT ![a] = [pc |-> "listen", left |-> @.left \ {x}, live |-> @.live \cup {x}]]
      BY <1>0, <1>2
    <2>3. /\ syncing' \in [Admin -> Syncs] /\ syncing'[a].pc = "listen"
          /\ syncing'[a].left = syncing[a].left \ {x} /\ syncing'[a].live = syncing[a].live \cup {x}
          /\ \A b \in Admin \ {a} : syncing'[b] = syncing[b]
      BY <1>1, <2>1 DEF LnEach, Syncs
    <2>4. listening' = [listening EXCEPT ![x] = a]
      BY <1>0, <1>2
    <2>5. /\ listening' \in [NetAddr -> Admin \cup {NoStart}] /\ listening'[x] = a
          /\ \A y \in NetAddr \ {x} : listening'[y] = listening[y]
      BY <1>1, <2>4 DEF LnEach
    <2>6. LnEach'
      BY <1>1, <2>3, <2>5 DEF LnEach
    <2>7. \A b \in Admin : syncing'[b].pc = "listen" => \A y \in syncing'[b].live : listening'[y] = b
      <3> SUFFICES ASSUME NEW b \in Admin, syncing'[b].pc = "listen", NEW y \in syncing'[b].live PROVE listening'[y] = b
        OBVIOUS
      <3>1. y \in NetAddr
        BY <2>6 DEF LnEach, Syncs
      <3>2. CASE b = a
        BY <1>1, <2>3, <2>5, <3>1, <3>2 DEF Owned
      <3>3. CASE b # a
        <4>1. listening[y] = b
          BY <2>3, <3>3 DEF Owned
        <4> QED
          BY <1>2, <2>5, <3>1, <4>1, LannetAssumption
      <3> QED
        BY <3>2, <3>3
    <2>8. Owned'
      BY <1>1, <2>3, <2>7 DEF Owned
    <2>9. ShownIsBound'
      BY <1>1, <1>2, <2>5, LannetAssumption DEF ShownIsBound, Owned, LnEach
    <2>10. Alone'
      <3> SUFFICES ASSUME ~overlap PROVE Alone'
        BY <1>1 DEF Alone
      <3>1. \A b \in Admin \ {a} : syncing'[b].pc = "idle"
        BY <1>1, <2>3 DEF Alone
      <3>2. Stage(a)'
        BY <1>1, <2>3, <2>5 DEF Alone, Stage, Bound
      <3>3. \A b \in Admin \ {a} : Stage(b)'
        BY <3>1 DEF Stage
      <3> QED
        BY <2>3, <3>1, <3>2, <3>3 DEF Alone
    <2> QED
      BY <2>6, <2>8, <2>9, <2>10
  <1>3. CASE listening[x] # NoStart
    <2>1. /\ syncing' = [syncing EXCEPT ![a].left = @ \ {x}] /\ listening' = listening
      BY <1>0, <1>3
    <2>2. /\ syncing' \in [Admin -> Syncs] /\ syncing'[a].pc = "listen"
          /\ syncing'[a].left = syncing[a].left \ {x} /\ syncing'[a].live = syncing[a].live
          /\ \A b \in Admin \ {a} : syncing'[b] = syncing[b]
      BY <1>1, <2>1 DEF LnEach, Syncs
    <2>3. overlap
      BY <1>0, <1>1, <1>3 DEF Alone, Stage, Bound
    <2>4. LnEach'
      BY <1>1, <2>1, <2>2 DEF LnEach
    <2>5. Owned' /\ ShownIsBound'
      BY <1>1, <2>1, <2>2 DEF Owned, ShownIsBound
    <2>6. Alone'
      BY <1>1, <2>3 DEF Alone
    <2> QED
      BY <2>4, <2>5, <2>6
  <1> QED
    BY <1>2, <1>3

LEMMA PublishesOK == ASSUME LnInv, NEW a \in Admin, Publishes(a) PROVE LnInv'
  <1> USE DEF LnInv
  <1>1. /\ syncing[a].pc = "listen" /\ syncing[a].left = {} /\ net' = Published(a)
        /\ UNCHANGED <<armed, listening, ending, overlap>>
    BY DEF Publishes
  <1>2. /\ syncing' \in [Admin -> Syncs] /\ syncing'[a] = Idling
        /\ \A b \in Admin \ {a} : syncing'[b] = syncing[b]
    BY DEF Publishes, LnEach, Syncs, Idling
  <1>3. syncing'[a].pc = "idle"
    BY <1>2 DEF Idling
  <1>4. syncing[a].live \subseteq NetAddr
    BY DEF LnEach, Syncs
  <1>5. /\ net'.running \in BOOLEAN /\ net'.cancel \in Admin \cup {NoStart} /\ net'.addrs \subseteq NetAddr
    BY <1>1, <1>4 DEF Published, LnEach
  <1>6. LnEach'
    BY <1>1, <1>2, <1>5 DEF LnEach
  <1>7. net' = net \/ (net'.running /\ net'.cancel = a /\ net'.addrs = syncing[a].live /\ syncing[a].live # {})
    BY <1>1 DEF Published
  <1>8. Owned'
    <2>1. \A b \in Admin : syncing'[b].pc # "idle" => b \notin ending' /\ net'.cancel # b
      BY <1>1, <1>2, <1>3, <1>7 DEF Owned
    <2>2. \A b \in Admin : syncing'[b].pc = "listen" => \A x \in syncing'[b].live : listening'[x] = b
      BY <1>1, <1>2, <1>3 DEF Owned
    <2>3. (~net'.running => net' = Off) /\ (net'.running => net'.cancel \in Admin \ ending')
      BY <1>1, <1>7 DEF Owned
    <2> QED
      BY <2>1, <2>2, <2>3 DEF Owned
  <1>9. ShownIsBound'
    BY <1>1, <1>7 DEF ShownIsBound, Owned
  <1>10. Alone'
    <2> SUFFICES ASSUME ~overlap PROVE Alone'
      BY <1>1 DEF Alone
    <2>1. \A b \in Admin : syncing'[b].pc = "idle"
      BY <1>1, <1>2, <1>3 DEF Alone
    <2>2. \A b \in Admin : Stage(b)'
      BY <2>1 DEF Stage
    <2>3. armed /\ \A x \in NetAddr : x \in syncing[a].live
      BY <1>1 DEF Alone, Stage, Bound
    <2>4. net'.running /\ net'.cancel = a
      BY <1>1, <2>3, LannetAssumption DEF Published
    <2>5. Accounted'
      BY <1>1, <2>3, <2>4 DEF Accounted, Owned
    <2> QED
      BY <1>1, <2>1, <2>2, <2>3, <2>4, <2>5 DEF Alone
  <1> QED
    BY <1>6, <1>8, <1>9, <1>10

LEMMA StartFailsOK == ASSUME LnInv, NEW a \in Admin, StartFails(a) PROVE LnInv'
  <1> USE DEF LnInv
  <1>1. syncing[a].pc = "listen" /\ overlap' = TRUE /\ UNCHANGED <<armed, net, listening, ending>>
    BY DEF StartFails
  <1>2. /\ syncing' \in [Admin -> Syncs] /\ syncing'[a] = Idling
        /\ \A b \in Admin \ {a} : syncing'[b] = syncing[b]
    BY DEF StartFails, LnEach, Syncs, Idling
  <1>3. syncing'[a].pc = "idle"
    BY <1>2 DEF Idling
  <1>4. overlap' \in BOOLEAN
    BY <1>1
  <1>5. LnEach'
    BY <1>1, <1>2, <1>4 DEF LnEach
  <1>6. Owned' /\ ShownIsBound'
    BY <1>1, <1>2, <1>3 DEF Owned, ShownIsBound
  <1> QED
    BY <1>1, <1>5, <1>6 DEF Alone

LEMMA SyncStopsOK == ASSUME LnInv, NEW a \in Admin, SyncStops(a) PROVE LnInv'
  <1> USE DEF LnInv
  <1>1. syncing[a].pc = "stop" /\ UNCHANGED <<armed, listening, overlap>>
    BY DEF SyncStops
  <1>2. /\ syncing' \in [Admin -> Syncs] /\ syncing'[a].pc = "idle"
        /\ \A b \in Admin \ {a} : syncing'[b] = syncing[b]
    BY Progress DEF SyncStops, LnEach
  <1>3. CASE net.running
    <2>1. net' = Off /\ ending' = ending \cup {net.cancel} /\ net.cancel \in Admin
      BY <1>3, LannetAssumption DEF SyncStops, StopServing, Owned
    <2>2. net'.running = FALSE /\ net'.cancel = NoStart /\ net'.addrs = {}
      BY <2>1 DEF Off
    <2>3. LnEach'
      BY <1>1, <1>2, <2>1, <2>2 DEF LnEach
    <2>4. Owned' /\ ShownIsBound'
      BY <1>1, <1>2, <2>1, <2>2, LannetAssumption DEF Owned, ShownIsBound
    <2>5. Alone'
      <3> SUFFICES ASSUME ~overlap PROVE Alone'
        BY <1>1 DEF Alone
      <3>1. \A b \in Admin : syncing'[b].pc = "idle"
        BY <1>1, <1>2 DEF Alone
      <3>2. \A b \in Admin : Stage(b)'
        BY <3>1 DEF Stage
      <3>3. ~armed /\ Accounted
        BY <1>1 DEF Alone, Stage
      <3>4. Accounted'
        BY <1>1, <2>1, <2>2, <3>3 DEF Accounted
      <3> QED
        BY <1>1, <2>2, <3>1, <3>2, <3>3, <3>4 DEF Alone, LnEach
    <2> QED
      BY <2>3, <2>4, <2>5
  <1>4. CASE ~net.running
    <2>1. UNCHANGED <<net, ending>>
      BY <1>4 DEF SyncStops
    <2>2. LnEach'
      BY <1>1, <1>2, <2>1 DEF LnEach
    <2>3. Owned' /\ ShownIsBound'
      BY <1>1, <1>2, <2>1 DEF Owned, ShownIsBound
    <2>4. Alone'
      <3> SUFFICES ASSUME ~overlap PROVE Alone'
        BY <1>1 DEF Alone
      <3>1. \A b \in Admin : syncing'[b].pc = "idle"
        BY <1>1, <1>2 DEF Alone
      <3>2. \A b \in Admin : Stage(b)'
        BY <3>1 DEF Stage
      <3>3. ~armed /\ Accounted
        BY <1>1 DEF Alone, Stage
      <3> QED
        BY <1>1, <1>4, <2>1, <3>1, <3>2, <3>3 DEF Alone, LnEach, Accounted
    <2> QED
      BY <2>2, <2>3, <2>4
  <1> QED
    BY <1>3, <1>4

LEMMA ListenerEndsOK == ASSUME LnInv, NEW x \in NetAddr, ListenerEnds(x) PROVE LnInv'
  <1> USE DEF LnInv
  <1>1. /\ listening[x] \in ending /\ UNCHANGED <<armed, syncing, net, overlap>>
        /\ ending' = {a \in ending : \E y \in NetAddr : listening'[y] = a}
    BY DEF ListenerEnds
  <1>2. /\ listening' \in [NetAddr -> Admin \cup {NoStart}] /\ listening'[x] = NoStart
        /\ \A y \in NetAddr \ {x} : listening'[y] = listening[y]
    BY DEF ListenerEnds, LnEach
  <1>3. ending' \subseteq ending /\ \A y \in NetAddr : listening'[y] \in ending => listening'[y] \in ending'
    BY <1>1
  <1>4. LnEach'
    BY <1>1, <1>2, <1>3 DEF LnEach
  <1>5. Owned'
    <2>1. \A a \in Admin : syncing[a].pc = "listen" => \A y \in syncing[a].live : y # x /\ y \in NetAddr
      BY <1>1 DEF Owned, LnEach, Syncs
    <2> QED
      BY <1>1, <1>2, <1>3, <2>1 DEF Owned
  <1>6. ShownIsBound'
    BY <1>1, <1>2 DEF ShownIsBound, Owned, LnEach
  <1>7. Accounted => Accounted'
    BY <1>1, <1>2, <1>3 DEF Accounted
  <1>8. ending # {}
    BY <1>1
  <1>9. \A a \in Admin : Stage(a) => Stage(a)'
    BY <1>1, <1>3, <1>7, <1>8 DEF Stage
  <1>10. Alone'
    BY <1>1, <1>7, <1>9 DEF Alone
  <1> QED
    BY <1>4, <1>5, <1>6, <1>10

LEMMA LnStepOK == LnInv /\ [LnNext]_lnVars => LnInv'
  <1> SUFFICES ASSUME LnInv, [LnNext]_lnVars PROVE LnInv'
    OBVIOUS
  <1>1. CASE UNCHANGED lnVars
    BY <1>1 DEF lnVars, LnInv, LnEach, Owned, ShownIsBound, Alone, Stage, Bound, Accounted
  <1> QED
    BY <1>1, ChangeOK, WantsOK, SyncStartsOK, BindsOK, PublishesOK, StartFailsOK, SyncStopsOK, ListenerEndsOK DEF LnNext

LEMMA LnInvMeans == LnInv => LnTypeOK /\ NetworkInLine
  <1> SUFFICES ASSUME LnInv PROVE InLine
    BY LnTyped DEF LnInv, NetworkInLine
  <1> SUFFICES ASSUME Busy = {}, ~overlap PROVE net.running = armed /\ Accounted
    BY DEF InLine, Accounted
  <1>1. \A a \in Admin : syncing[a].pc = "idle"
    BY DEF Busy
  <1> QED
    BY <1>1 DEF LnInv, Alone

\* The panel shows as served what is listened on, and once requests that did not
\* overlap are answered the LAN is served if and only if a PIN is set.
THEOREM NetworkStaysInLine == LnSpec => [](LnTypeOK /\ NetworkInLine)
  BY LnInvMeans, LnInitOK, LnStepOK, PTL DEF LnSpec

-----------------------------------------------------------------------------
(* The previews: whose a listener is, by its ancestors and its directory. *)

Holder == Id \cup {NoOne}
Parents == Id \cup Proc \cup {NoOne}
ProcRec == [name : {"dead", "sh", "node", "kunai", "test"}, cwd : Seq(STRING), port : Port \cup {0},
            addrs : SUBSET Addr, parent : Parents, by : Holder]
AskRec == [step : {"idle", "found", "clear", "listening"}, id : Holder, port : Port \cup {0}, pid : Proc \cup {NoOne}]

PvEach ==
  /\ sessState \in [Id -> {"live", "closing", "gone"}] /\ seat \in Seats
  /\ proc \in [Proc -> ProcRec]
  /\ active \in [Port -> Holder] /\ saw \in [Port -> Proc \cup {NoOne}]
  /\ listeners \subseteq Port /\ excused \subseteq Port /\ hidden \in [Id -> SUBSET Port]
  /\ asks \in [Ask -> AskRec]
  /\ hides \in [id : Holder, port : Port \cup {0}]
  /\ ran \in 0..MaxRuns /\ asked \in 0..MaxAsks /\ dismissed \in 0..MaxHides

\* A program's name says what it does, and a parent is up and of the same session.
Kin ==
  \A p \in Proc :
    /\ proc[p].name \in IF proc[p].port = 0 THEN {"sh", "dead"} ELSE {"node", "kunai", "test"}
    /\ proc[p].port # 0 => proc[p].addrs # {}
    /\ proc[p].name = "dead" => ~Up(p)
    /\ proc[p].parent \in Id => proc[p].by = proc[p].parent
    /\ proc[p].parent \in Proc => Up(proc[p].parent) /\ proc[proc[p].parent].by = proc[p].by

\* The process is a server of the session, at that port.
Good(p, i, q) ==
  /\ proc[p].name = "node" /\ proc[p].port = q /\ q # Service
  /\ proc[p].by = i \/ RunsInProject(p, i)

AsksAreFor ==
  \A a \in Ask : asks[a].step # "idle" =>
    /\ asks[a].id \in Id /\ asks[a].port \in Port \ {Service}
    /\ asks[a].pid # NoOne => Good(asks[a].pid, asks[a].id, asks[a].port)

ForwardsAreFor ==
  \A q \in Port : active[q] # NoOne =>
    /\ q # Service
    /\ saw[q] # NoOne => Good(saw[q], active[q], q)

Excuses ==
  \A q \in Port : (/\ active[q] # NoOne
                   /\ \/ sessState[active[q]] = "gone" \/ q \in hidden[active[q]]
                      \/ hides = [id |-> active[q], port |-> q])
                  => q \in excused

HidesRight == hides # NoHide => hides.id \in Id /\ hides.port \in Port

PvInv == PvEach /\ Kin /\ AsksAreFor /\ ForwardsAreFor /\ Excuses /\ HidesRight /\ ListenersAreKnown

LEMMA PvEachIsTyped == PvEach => PvTypeOK
  BY DEF PvEach, PvTypeOK, ProcRec, AskRec, Holder, Parents

\* The directory tests of the model say what they should.
LEMMA PrefixMeans ==
  ASSUME NEW root \in Seq(STRING), NEW dir \in Seq(STRING)
  PROVE  WithinDir(dir, root) <=> AtOrAbove(root, dir)
<1>0. SubSeq(root, 1, Len(root)) = root
  BY SubSeqFull
<1>1. ASSUME IsPrefix(root, dir) PROVE AtOrAbove(root, dir)
  <2>1. Len(root) \in 0..Len(dir) /\ root = SubSeq(dir, 1, Len(root))
    BY <1>0, <1>1 DEF IsPrefix
  <2> QED
    BY <2>1 DEF AtOrAbove
<1>2. ASSUME NEW n \in 0..Len(dir), root = SubSeq(dir, 1, n) PROVE IsPrefix(root, dir)
  <2>1. Len(root) = n
    BY <1>2
  <2> QED
    BY <2>1, <1>0, <1>2 DEF IsPrefix
<1> QED
  BY <1>1, <1>2 DEF WithinDir, AtOrAbove

\* Who is below a session's process was run by the session.
LEMMA AncestorsAgree ==
  ASSUME PvEach, Kin, NEW p \in Proc, NEW i \in Id, DescendsFrom(p, i)
  PROVE  proc[p].by = i
<1> DEFINE N == Cardinality(Proc)
           Step(x) == IF x \in Proc THEN proc[x].parent ELSE x
           Path(f, n) == /\ f \in [0..n -> Parents] /\ f[0] = p
                         /\ \A k \in 1..n : f[k] = Step(f[k - 1])
           S == {n \in Nat : \E f : Path(f, n)}
<1>0. N \in Nat
  BY FS_CardinalityType, PreviewAssumption
<1>a. \A x \in Parents : Step(x) \in Parents
  BY DEF PvEach, ProcRec, Parents
<1>1. \A n \in Nat : n \in S
  <2>1. 0 \in S
    <3>1. Path([k \in 0..0 |-> p], 0)
      BY DEF Parents
    <3> QED
      BY <3>1
  <2>2. ASSUME NEW n \in Nat, n \in S PROVE n + 1 \in S
    <3>1. PICK f : Path(f, n)
      BY <2>2
    <3> DEFINE g == [k \in 0..(n + 1) |-> IF k = n + 1 THEN Step(f[n]) ELSE f[k]]
    <3>2. f[n] \in Parents
      BY <3>1
    <3>3. g \in [0..(n + 1) -> Parents]
      BY <3>1, <3>2, <1>a
    <3>4. g[0] = p
      BY <3>1
    <3>5. ASSUME NEW k \in 1..(n + 1) PROVE g[k] = Step(g[k - 1])
      <4>1. CASE k = n + 1
        BY <4>1
      <4>2. CASE k # n + 1
        <5>1. k \in 1..n /\ k - 1 \in 0..n /\ k - 1 # n + 1
          BY <4>2
        <5>2. g[k] = f[k] /\ g[k - 1] = f[k - 1]
          BY <5>1, <4>2
        <5> QED
          BY <5>1, <5>2, <3>1
      <4> QED
        BY <4>1, <4>2
    <3>6. Path(g, n + 1)
      BY <3>3, <3>4, <3>5
    <3> HIDE DEF Path, g
    <3> QED
      BY <3>6, n + 1 \in Nat, Zenon
  <2> HIDE DEF S
  <2> QED
    BY <2>1, <2>2, InductionOnNat
<1>2. PICK f : Path(f, N)
  BY <1>0, <1>1
<1> DEFINE Def(u) == [k \in 0..N |-> IF k = 0 THEN p ELSE IF u[k - 1] \in Proc THEN proc[u[k - 1]].parent ELSE u[k - 1]]
           up == CHOOSE u : u = Def(u)
<1>3. f = Def(f)
  BY <1>2, <1>0
<1>4. up = Def(up)
  BY <1>3
<1>5. up[N] = i
  BY DEF DescendsFrom
<1> DEFINE Agrees(x) == (x \in Proc => proc[x].by = proc[p].by) /\ (x \in Id => x = proc[p].by) /\ x \in Parents
           G == {k \in Nat : k <= N => Agrees(up[k])}
<1> HIDE DEF up
<1>6. \A k \in Nat : k \in G
  <2>1. 0 \in G
    <3>1. up[0] = p
      BY <1>0, <1>4
    <3>2. Agrees(p)
      BY PreviewAssumption DEF Parents
    <3> QED
      BY <3>1, <3>2
  <2>2. ASSUME NEW k \in Nat, k \in G PROVE k + 1 \in G
    <3>1. SUFFICES ASSUME k + 1 <= N PROVE Agrees(up[k + 1])
      OBVIOUS
    <3>2. Agrees(up[k])
      BY <2>2, <3>1, <1>0
    <3>3. k + 1 \in 0..N /\ k + 1 # 0 /\ (k + 1) - 1 = k
      BY <3>1, <1>0
    <3>4. up[k + 1] = Step(up[k])
      BY <3>3, <1>4
    <3>5. \A x \in Parents : Agrees(x) => Agrees(Step(x))
      BY <1>a, PreviewAssumption DEF Kin, PvEach, ProcRec, Parents
    <3> QED
      BY <3>2, <3>4, <3>5
  <2> HIDE DEF G
  <2> QED
    BY <2>1, <2>2, InductionOnNat
<1>7. Agrees(up[N])
  BY <1>0, <1>6
<1> QED
  BY <1>5, <1>7

LEMMA FoundIsOwn ==
  ASSUME PvEach, Kin, NEW i \in Id, NEW q \in Port, NEW r \in CardRows(q, i)
  PROVE  /\ q # Service /\ r.pid \in Proc /\ r.port = q /\ Good(r.pid, i, q)
         /\ r.local <=> \A p \in Holders(q) : proc[p].addrs = {"lo"}
<1>1. q # Service /\ r \in Rows(q) /\ ~Skipped(proc[r.pid].name) /\ Belongs(r.pid, i)
  BY DEF CardRows
<1>2. /\ r.pid \in Holders(q) /\ r.port = q
      /\ r.local <=> \A p \in Holders(q) : proc[p].addrs = {"lo"}
  BY <1>1 DEF Rows
<1>3. r.pid \in Proc /\ proc[r.pid].port = q /\ q # 0
  BY <1>2, PreviewAssumption DEF Holders
<1>4. proc[r.pid].name = "node"
  BY <1>1, <1>3 DEF Kin, Skipped
<1>5. proc[r.pid].by = i \/ RunsInProject(r.pid, i)
  <2>1. CASE DescendsFrom(r.pid, i)
    BY <2>1, <1>3, AncestorsAgree
  <2>2. CASE AttributableDir(seat[i]) /\ WithinDir(proc[r.pid].cwd, seat[i])
    <3>1. seat[i] \in Seq(STRING) /\ proc[r.pid].cwd \in Seq(STRING) /\ Home \in Seq(STRING)
      BY <1>3, PreviewAssumption DEF PvEach, ProcRec
    <3> QED
      BY <3>1, <2>2, PrefixMeans DEF AttributableDir, RunsInProject
  <2> QED
    BY <1>1, <2>1, <2>2 DEF Belongs
<1> QED
  BY <1>1, <1>2, <1>3, <1>4, <1>5 DEF Good

\* What the invariant says of the previews.
LEMMA PvInvMeans == PvInv => PvTypeOK /\ PreviewsAreHeld
<1> SUFFICES ASSUME PvInv PROVE PvTypeOK /\ PreviewsAreHeld
  OBVIOUS
<1>1. PvEach /\ Kin /\ AsksAreFor /\ ForwardsAreFor /\ Excuses /\ HidesRight /\ ListenersAreKnown
  BY DEF PvInv
<1>2. ListNamesItsOwn
  <2> SUFFICES ASSUME NEW i \in Id, NEW q \in Port, IsLive(i), NEW r \in CardRows(q, i)
               PROVE  /\ proc[r.pid].by = i \/ RunsInProject(r.pid, i)
                      /\ proc[r.pid].name = "node"
                      /\ r.local <=> ~\E p \in Proc : proc[p].port = q /\ {"lan", "tail"} \cap proc[p].addrs # {}
    BY DEF ListNamesItsOwn
  <2>1. /\ Good(r.pid, i, q)
        /\ r.local <=> \A p \in Holders(q) : proc[p].addrs = {"lo"}
    BY <1>1, FoundIsOwn
  <2>2. \A p \in Holders(q) : proc[p].addrs = {"lo"} <=> {"lan", "tail"} \cap proc[p].addrs = {}
    <3> SUFFICES ASSUME NEW p \in Holders(q) PROVE proc[p].addrs = {"lo"} <=> {"lan", "tail"} \cap proc[p].addrs = {}
      OBVIOUS
    <3>1. p \in Proc /\ proc[p].port # 0
      BY PreviewAssumption DEF Holders
    <3>2. proc[p] \in ProcRec /\ proc[p].addrs # {}
      BY <1>1, <3>1 DEF Kin, PvEach
    <3>3. proc[p].addrs \subseteq {"lo", "lan", "tail"}
      BY <3>2 DEF ProcRec, Addr
    <3> QED
      BY <3>2, <3>3
  <2>3. \A p \in Proc : proc[p].port = q <=> p \in Holders(q)
    BY DEF Holders
  <2>4. Holders(q) \subseteq Proc
    BY DEF Holders
  <2> QED
    BY <2>1, <2>2, <2>3, <2>4 DEF Good
<1>3. SharedRowStays
  <2> SUFFICES ASSUME NEW i \in Id, NEW q \in Port, active[q] = i, saw[q] # NoOne,
                      Belongs(saw[q], i), Holders(q) = {saw[q]}
               PROVE  \E r \in CardRows(q, i) :
                         LET d == Decorated(r, i)
                         IN  d.forwarding /\ d.url /\ (d.hidden => q \in excused)
    BY DEF SharedRowStays
  <2>1. active[q] # NoOne
    BY PreviewAssumption
  <2>2. q # Service /\ proc[saw[q]].name = "node"
    BY <2>1, <1>1 DEF ForwardsAreFor, Good
  <2> DEFINE r == [port |-> q, pid |-> saw[q], local |-> \A p \in Holders(q) : proc[p].addrs = {"lo"}]
  <2>3. r \in Rows(q)
    BY DEF Rows
  <2>4. r.pid = saw[q] /\ r.port = q
    OBVIOUS
  <2> HIDE DEF r
  <2>5. r \in CardRows(q, i)
    BY <2>2, <2>3, <2>4 DEF CardRows, Skipped
  <2>6. Decorated(r, i).forwarding /\ Decorated(r, i).url
    BY <2>4 DEF Decorated, Forwarding
  <2>7. Decorated(r, i).hidden => q \in hidden[active[q]]
    BY <2>4 DEF Decorated
  <2>8. Decorated(r, i).hidden => q \in excused
    BY <2>7, <2>1, <1>1 DEF Excuses
  <2> QED
    BY <2>5, <2>6, <2>8
<1>4. ForwardEndsWithSession
  BY <1>1 DEF Excuses, ForwardEndsWithSession
<1>5. OnlyOwnIsPublished
  BY <1>1 DEF ForwardsAreFor, Good, OnlyOwnIsPublished
<1> QED
  BY <1>1, <1>2, <1>3, <1>4, <1>5, PvEachIsTyped DEF PreviewsAreHeld

LEMMA PvInitOK == PvInit => PvInv
<1> SUFFICES ASSUME PvInit PROVE PvInv
  OBVIOUS
<1>0. Dead \in ProcRec /\ NoAsk \in AskRec /\ NoHide \in [id : Holder, port : Port \cup {0}]
  BY EmptySeq DEF Dead, NoAsk, NoHide, ProcRec, AskRec, Holder, Parents
<1>1. PvEach
  BY <1>0, PreviewAssumption DEF PvInit, PvEach, Holder
<1>2. Kin
  BY PreviewAssumption DEF PvInit, Kin, Dead, Up
<1>3. AsksAreFor /\ ForwardsAreFor /\ Excuses /\ HidesRight
  BY DEF PvInit, AsksAreFor, ForwardsAreFor, Excuses, HidesRight, NoAsk, NoHide
<1>4. ListenersAreKnown
  BY DEF PvInit, ListenersAreKnown, NoAsk
<1> QED
  BY <1>1, <1>2, <1>3, <1>4 DEF PvInv

LEMMA GoodStays ==
  ASSUME UNCHANGED seat, NEW p, NEW i, NEW q, Good(p, i, q),
         proc'[p].name = proc[p].name, proc'[p].port = proc[p].port,
         proc'[p].cwd = proc[p].cwd, proc'[p].by = proc[p].by
  PROVE  Good(p, i, q)'
BY DEF Good, RunsInProject, AtOrAbove

\* What a process that ends takes with it.
LEMMA EndingKeeps ==
  ASSUME PvInv, NEW dead, NEW lost, lost = dead \cap Proc, dead \subseteq Id \cup Proc,
         proc' = Orphaned(dead), Unseen(lost), UNCHANGED <<seat, active, listeners>>
  PROVE  /\ proc' \in [Proc -> ProcRec] /\ Kin'
         /\ saw' \in [Port -> Proc \cup {NoOne}] /\ asks' \in [Ask -> AskRec]
         /\ AsksAreFor' /\ ForwardsAreFor' /\ ListenersAreKnown'
<1>1. PvEach /\ Kin /\ AsksAreFor /\ ForwardsAreFor /\ ListenersAreKnown
  BY DEF PvInv
<1>2. Dead \in ProcRec
  BY EmptySeq DEF Dead, ProcRec, Holder, Parents
<1>3. \A p \in Proc : [proc[p] EXCEPT !.parent = NoOne] \in ProcRec
  BY <1>1 DEF PvEach, ProcRec, Parents
<1>4. proc' \in [Proc -> ProcRec]
  BY <1>1, <1>2, <1>3 DEF PvEach, Orphaned
<1>5. \A p \in Proc \ dead :
        /\ proc'[p].name = proc[p].name /\ proc'[p].port = proc[p].port /\ proc'[p].cwd = proc[p].cwd
        /\ proc'[p].by = proc[p].by /\ proc'[p].addrs = proc[p].addrs
        /\ proc'[p].parent = IF proc[p].parent \in dead THEN NoOne ELSE proc[p].parent
  <2> TAKE p \in Proc \ dead
  <2>1. proc'[p] = IF proc[p].parent \in dead THEN [proc[p] EXCEPT !.parent = NoOne] ELSE proc[p]
    BY DEF Orphaned
  <2>2. proc[p] \in ProcRec
    BY <1>1 DEF PvEach
  <2> QED
    BY <2>1, <2>2 DEF ProcRec
<1>6. \A p \in Proc \cap dead : proc'[p] = Dead
  BY DEF Orphaned
<1>7. Kin'
  <2> SUFFICES ASSUME NEW p \in Proc
               PROVE  /\ proc'[p].name \in IF proc'[p].port = 0 THEN {"sh", "dead"} ELSE {"node", "kunai", "test"}
                      /\ proc'[p].port # 0 => proc'[p].addrs # {}
                      /\ proc'[p].name = "dead" => proc'[p] = Dead
                      /\ proc'[p].parent \in Id => proc'[p].by = proc'[p].parent
                      /\ proc'[p].parent \in Proc =>
                           proc'[proc'[p].parent] # Dead /\ proc'[proc'[p].parent].by = proc'[p].by
    BY DEF Kin, Up
  <2>0. /\ Dead.name = "dead" /\ Dead.port = 0 /\ Dead.parent = NoOne
        /\ NoOne \notin dead /\ NoOne \notin Id /\ NoOne \notin Proc
    BY PreviewAssumption DEF Dead
  <2>1. CASE p \in dead
    <3>1. proc'[p] = Dead
      BY <2>1, <1>6
    <3> QED
      BY <3>1, <2>0
  <2>d. ASSUME p \notin dead, proc'[p].name = "dead" PROVE proc'[p] = Dead
    <3>1. proc[p] = Dead
      BY <2>d, <1>1, <1>5 DEF Kin, Up
    <3> QED
      BY <3>1, <2>0, <2>d DEF Orphaned
  <2>2. CASE p \notin dead /\ proc[p].parent \in dead
    <3>1. proc'[p].parent = NoOne
      BY <2>2, <1>5
    <3> QED
      BY <3>1, <2>0, <2>2, <2>d, <1>1, <1>5 DEF Kin
  <2>3. CASE p \notin dead /\ proc[p].parent \notin dead
    <3>1. proc'[p].parent = proc[p].parent
      BY <2>3, <1>5
    <3>2. ASSUME proc[p].parent \in Proc
          PROVE  proc'[proc[p].parent] # Dead /\ proc'[proc[p].parent].by = proc[p].by
      <4>1. proc[proc[p].parent] # Dead /\ proc[proc[p].parent].by = proc[p].by
        BY <3>2, <1>1 DEF Kin, Up
      <4>2. proc[proc[p].parent].parent \notin dead => proc'[proc[p].parent] = proc[proc[p].parent]
        BY <3>2, <2>3 DEF Orphaned
      <4>3. proc[proc[p].parent].parent \in dead => proc'[proc[p].parent].name # "dead"
        <5>1. proc[proc[p].parent].parent \in dead => proc[proc[p].parent].name # "dead"
          BY <3>2, <1>1, <4>1 DEF Kin, Up
        <5> QED
          BY <5>1, <1>5, <3>2, <2>3
      <4>4. Dead.name = "dead"
        BY DEF Dead
      <4> QED
        BY <4>1, <4>2, <4>3, <4>4, <1>5, <3>2, <2>3
    <3> QED
      BY <3>1, <3>2, <2>3, <2>d, <1>1, <1>5 DEF Kin
  <2> QED
    BY <2>1, <2>2, <2>3
<1>8. saw' \in [Port -> Proc \cup {NoOne}] /\ \A q \in Port : saw'[q] = IF saw[q] \in lost THEN NoOne ELSE saw[q]
  BY <1>1 DEF Unseen, PvEach
<1>9. /\ asks' \in [Ask -> AskRec]
      /\ \A a \in Ask : /\ asks'[a].step = asks[a].step /\ asks'[a].id = asks[a].id /\ asks'[a].port = asks[a].port
                         /\ asks'[a].pid = IF asks[a].pid \in lost THEN NoOne ELSE asks[a].pid
  BY <1>1 DEF Unseen, PvEach, AskRec
<1>10. \A p \in Proc \ lost : \A i, q : Good(p, i, q) => Good(p, i, q)'
  BY <1>5, GoodStays
<1>11. AsksAreFor'
  BY <1>1, <1>9, <1>10 DEF AsksAreFor, PvEach, AskRec
<1>12. ForwardsAreFor'
  BY <1>1, <1>8, <1>10 DEF ForwardsAreFor, PvEach
<1>13. ListenersAreKnown'
  BY <1>1, <1>9 DEF ListenersAreKnown
<1> QED
  BY <1>4, <1>7, <1>8, <1>9, <1>11, <1>12, <1>13

\* A step that leaves the processes and the requests alone, and forwards no more.
LEMMA Fewer ==
  ASSUME PvInv, UNCHANGED <<seat, proc, asks, saw>>, active' \in [Port -> Holder],
         \A q \in Port : active'[q] = active[q] \/ active'[q] = NoOne
  PROVE  Kin' /\ AsksAreFor' /\ ForwardsAreFor'
<1>1. PvEach /\ Kin /\ AsksAreFor /\ ForwardsAreFor
  BY DEF PvInv
<1>2. Kin'
  BY <1>1 DEF Kin, Up
<1>3. \A p, i, q : Good(p, i, q) => Good(p, i, q)'
  BY DEF Good, RunsInProject, AtOrAbove
<1>4. AsksAreFor'
  BY <1>1, <1>3 DEF AsksAreFor
<1>5. ForwardsAreFor'
  BY <1>1, <1>3 DEF ForwardsAreFor
<1> QED
  BY <1>2, <1>4, <1>5

LEMMA RunsOK ==
  ASSUME PvInv, NEW p \in Proc, NEW prog \in Program, NEW parent \in Parents, RunsProgram(p, prog, parent)
  PROVE  PvInv'
<1>1. PvEach /\ Kin /\ AsksAreFor /\ ForwardsAreFor /\ Excuses /\ HidesRight /\ ListenersAreKnown
  BY DEF PvInv
<1>2. ~Up(p) /\ (parent \in Proc => Up(parent) /\ parent # p)
  BY PreviewAssumption DEF RunsProgram
<1> DEFINE by == IF parent \in Proc THEN proc[parent].by ELSE parent
           new == [name |-> prog.name, cwd |-> prog.cwd, port |-> prog.port, addrs |-> prog.addrs,
                   parent |-> parent, by |-> by]
<1>3. proc' = [proc EXCEPT ![p] = new] /\ ran < MaxRuns /\ ran' = ran + 1
  BY DEF RunsProgram
<1>4. UNCHANGED <<sessState, seat, active, listeners, asks, hides, hidden, asked, dismissed, saw, excused>>
  BY DEF RunsProgram
<1>5. /\ prog.cwd \in Seq(STRING) /\ prog.port \in Port \cup {0} /\ prog.addrs \subseteq Addr
      /\ prog.name \in IF prog.port = 0 THEN {"sh"} ELSE {"node", "kunai", "test"}
      /\ prog.port # 0 => prog.addrs # {}
  BY PreviewAssumption
<1>6. by \in Holder /\ (parent \in Id => by = parent)
  BY <1>1, PreviewAssumption DEF Parents, Holder, PvEach, ProcRec
<1>7. /\ new \in ProcRec /\ new.name = prog.name /\ new.port = prog.port /\ new.addrs = prog.addrs
      /\ new.parent = parent /\ new.by = by /\ new # Dead
  BY <1>5, <1>6 DEF ProcRec, Dead
<1> HIDE DEF new
<1>8. PvEach'
  BY <1>1, <1>3, <1>4, <1>7, PreviewAssumption DEF PvEach
<1>9. \A o \in Proc \ {p} : proc'[o] = proc[o]
  BY <1>1, <1>3 DEF PvEach
<1>10. proc'[p] = new
  BY <1>1, <1>3 DEF PvEach
<1>11. proc[p] = Dead
  BY <1>2 DEF Up
<1>12. Kin'
  <2> SUFFICES ASSUME NEW o \in Proc
               PROVE  /\ proc'[o].name \in IF proc'[o].port = 0 THEN {"sh", "dead"} ELSE {"node", "kunai", "test"}
                      /\ proc'[o].port # 0 => proc'[o].addrs # {}
                      /\ proc'[o].name = "dead" => proc'[o] = Dead
                      /\ proc'[o].parent \in Id => proc'[o].by = proc'[o].parent
                      /\ proc'[o].parent \in Proc =>
                           proc'[proc'[o].parent] # Dead /\ proc'[proc'[o].parent].by = proc'[o].by
    BY DEF Kin, Up
  <2>1. CASE o = p
    <3>1. parent \in Proc => proc'[parent] = proc[parent] /\ proc[parent] # Dead
      BY <1>2, <1>9 DEF Up
    <3>2. parent \in Proc => by = proc[parent].by
      OBVIOUS
    <3>3. prog.name # "dead"
      BY <1>5
    <3> HIDE DEF by
    <3> QED
      BY <2>1, <3>1, <3>2, <3>3, <1>5, <1>6, <1>7, <1>10
  <2>2. CASE o # p
    <3>1. proc'[o] = proc[o]
      BY <2>2, <1>9
    <3>2. proc[o].parent # p
      BY <1>1, <1>2 DEF Kin
    <3>3. proc[o].parent \in Proc => proc'[proc[o].parent] = proc[proc[o].parent]
      BY <3>2, <1>9
    <3> QED
      BY <3>1, <3>3, <1>1 DEF Kin, Up
  <2> QED
    BY <2>1, <2>2
<1>13. \A o \in Proc : \A i, q : Good(o, i, q) => Good(o, i, q)'
  <2> SUFFICES ASSUME NEW o \in Proc, NEW i, NEW q, Good(o, i, q) PROVE Good(o, i, q)'
    OBVIOUS
  <2>1. o # p
    BY <1>11 DEF Good, Dead
  <2> QED
    BY <2>1, <1>9, <1>4, GoodStays
<1>14. AsksAreFor'
  BY <1>1, <1>4, <1>13 DEF AsksAreFor, PvEach, AskRec
<1>15. ForwardsAreFor'
  BY <1>1, <1>4, <1>13 DEF ForwardsAreFor, PvEach
<1>16. Excuses' /\ HidesRight' /\ ListenersAreKnown'
  BY <1>1, <1>4 DEF Excuses, HidesRight, ListenersAreKnown
<1> QED
  BY <1>8, <1>12, <1>14, <1>15, <1>16 DEF PvInv

LEMMA ExitsOK == ASSUME PvInv, NEW p \in Proc, Exits(p) PROVE PvInv'
<1>1. PvEach /\ Excuses /\ HidesRight
  BY DEF PvInv
<1>2. proc' = Orphaned({p}) /\ Unseen({p})
      /\ UNCHANGED <<sessState, seat, active, listeners, hides, hidden, ran, asked, dismissed, excused>>
  BY DEF Exits
<1>3. /\ proc' \in [Proc -> ProcRec] /\ Kin'
      /\ saw' \in [Port -> Proc \cup {NoOne}] /\ asks' \in [Ask -> AskRec]
      /\ AsksAreFor' /\ ForwardsAreFor' /\ ListenersAreKnown'
  BY <1>2, EndingKeeps, {p} = {p} \cap Proc
<1>4. PvEach' /\ Excuses' /\ HidesRight'
  BY <1>1, <1>2, <1>3 DEF PvEach, Excuses, HidesRight
<1> QED
  BY <1>3, <1>4 DEF PvInv

LEMMA SessionEndsOK ==
  ASSUME PvInv, NEW i \in Id, NEW lost \in SUBSET Proc, EndsAlone(i, lost) \/ CloseAsked(i, lost)
  PROVE  PvInv'
<1>1. PvEach /\ Excuses /\ HidesRight
  BY DEF PvInv
<1>2. ProcessEnds(i, lost) /\ UNCHANGED <<seat, active, listeners, hides, hidden, ran, asked, dismissed>>
  BY DEF EndsAlone, CloseAsked
<1>3. /\ proc' \in [Proc -> ProcRec] /\ Kin'
      /\ saw' \in [Port -> Proc \cup {NoOne}] /\ asks' \in [Ask -> AskRec]
      /\ AsksAreFor' /\ ForwardsAreFor' /\ ListenersAreKnown'
  <2>1. lost = (lost \cup {i}) \cap Proc
    BY PreviewAssumption
  <2> QED
    BY <2>1, <1>2, EndingKeeps DEF ProcessEnds
<1>4. sessState' \in [Id -> {"live", "closing", "gone"}] /\ excused' \subseteq Port
  BY <1>1 DEF PvEach, EndsAlone, CloseAsked
<1>5. PvEach' /\ HidesRight'
  BY <1>1, <1>2, <1>3, <1>4 DEF PvEach, HidesRight
<1>6. Excuses'
  <2>1. CASE EndsAlone(i, lost)
    BY <2>1, <1>1, <1>2 DEF EndsAlone, Excuses, PvEach
  <2>2. CASE CloseAsked(i, lost)
    BY <2>2, <1>1, <1>2 DEF CloseAsked, Excuses, PvEach
  <2> QED
    BY <2>1, <2>2
<1> QED
  BY <1>3, <1>5, <1>6 DEF PvInv

\* What is dropped was forwarded, so nobody is about to write it down.
LEMMA DroppedIsKnown ==
  ASSUME PvInv, NEW ports \in SUBSET {q \in Port : active[q] # NoOne}, Dropped(ports), UNCHANGED asks
  PROVE  /\ active' \in [Port -> Holder] /\ listeners' \subseteq Port /\ ListenersAreKnown'
         /\ \A q \in Port : active'[q] = IF q \in ports THEN NoOne ELSE active[q]
<1>1. PvEach /\ ListenersAreKnown
  BY DEF PvInv
<1>2. /\ active' \in [Port -> Holder] /\ listeners' \subseteq Port
      /\ \A q \in Port : active'[q] = IF q \in ports THEN NoOne ELSE active[q]
  BY <1>1 DEF Dropped, PvEach, Holder
<1>3. \A a \in Ask : asks[a].step = "listening" => asks[a].port \notin ports
  BY <1>1 DEF ListenersAreKnown
<1>4. {q \in Port : active'[q] # NoOne} = {q \in Port : active[q] # NoOne} \ ports
  BY <1>2
<1>5. listeners' = {q \in Port : active'[q] # NoOne}
                    \cup {asks'[a].port : a \in {b \in Ask : asks'[b].step = "listening"}}
  BY <1>1, <1>3, <1>4 DEF Dropped, ListenersAreKnown
<1>6. ASSUME NEW a \in Ask, asks[a].step = "listening" PROVE active'[asks[a].port] = NoOne
  <2>1. asks[a].port \in Port
    <3>1. asks[a].port \in listeners
      BY <1>1, <1>6 DEF ListenersAreKnown
    <3> QED
      BY <3>1, <1>1 DEF PvEach
  <2> QED
    BY <2>1, <1>1, <1>2, <1>6 DEF ListenersAreKnown
<1> QED
  BY <1>1, <1>2, <1>5, <1>6 DEF ListenersAreKnown

LEMMA CloseSessionOK == ASSUME PvInv, NEW i \in Id, CloseSession(i) PROVE PvInv'
<1>1. PvEach /\ Excuses /\ HidesRight
  BY DEF PvInv
<1> DEFINE ports == {q \in Port : active[q] = i}
<1>2. /\ sessState' = [sessState EXCEPT ![i] = "gone"] /\ Dropped(ports)
      /\ excused' = {q \in excused : active[q] # i}
      /\ UNCHANGED <<seat, proc, asks, hides, hidden, ran, asked, dismissed, saw>>
  BY DEF CloseSession
<1>3. i # NoOne /\ ports \in SUBSET {q \in Port : active[q] # NoOne}
  BY PreviewAssumption
<1>4. /\ active' \in [Port -> Holder] /\ listeners' \subseteq Port /\ ListenersAreKnown'
      /\ \A q \in Port : active'[q] = IF q \in ports THEN NoOne ELSE active[q]
  BY <1>2, <1>3, DroppedIsKnown
<1>5. Kin' /\ AsksAreFor' /\ ForwardsAreFor'
  BY <1>2, <1>4, Fewer
<1>6. PvEach' /\ HidesRight'
  BY <1>1, <1>2, <1>4 DEF PvEach, HidesRight
<1>7. Excuses'
  BY <1>1, <1>2, <1>4 DEF Excuses, PvEach
<1> QED
  BY <1>4, <1>5, <1>6, <1>7 DEF PvInv

LEMMA OpenPreviewOK ==
  ASSUME PvInv, NEW a \in Ask, NEW i \in Id, NEW q \in Port, OpenPreview(a, i, q)
  PROVE  PvInv'
<1>1. PvEach /\ Kin /\ AsksAreFor /\ ForwardsAreFor /\ Excuses /\ HidesRight /\ ListenersAreKnown
  BY DEF PvInv
<1>2. PICK r \in CardRows(q, i) : asks' = [asks EXCEPT ![a] = [step |-> "found", id |-> i, port |-> q, pid |-> r.pid]]
  BY DEF OpenPreview
<1>3. /\ asks[a].step = "idle" /\ asked < MaxAsks /\ asked' = asked + 1
      /\ UNCHANGED <<sessState, seat, proc, active, listeners, hides, hidden, ran, dismissed, saw, excused>>
  BY DEF OpenPreview
<1>4. q # Service /\ r.pid \in Proc /\ Good(r.pid, i, q)
  BY <1>1, FoundIsOwn
<1>5. /\ asks' \in [Ask -> AskRec]
      /\ asks'[a] = [step |-> "found", id |-> i, port |-> q, pid |-> r.pid]
      /\ \A b \in Ask \ {a} : asks'[b] = asks[b]
  BY <1>1, <1>2, <1>4 DEF PvEach, AskRec, Holder
<1>6. PvEach' /\ Excuses' /\ HidesRight'
  BY <1>1, <1>3, <1>5, PreviewAssumption DEF PvEach, Excuses, HidesRight
<1>7. \A o, j, k : Good(o, j, k) => Good(o, j, k)'
  BY <1>3 DEF Good, RunsInProject, AtOrAbove
<1>8. Kin' /\ ForwardsAreFor'
  BY <1>1, <1>3, <1>7 DEF Kin, Up, ForwardsAreFor
<1>9. AsksAreFor'
  BY <1>1, <1>4, <1>5, <1>7 DEF AsksAreFor
<1>10. \A b \in Ask : asks'[b].step = "listening" <=> asks[b].step = "listening"
  BY <1>3, <1>5
<1>11. ListenersAreKnown'
  BY <1>1, <1>3, <1>5, <1>10 DEF ListenersAreKnown
<1> QED
  BY <1>6, <1>8, <1>9, <1>11 DEF PvInv

LEMMA LooksOK == ASSUME PvInv, NEW a \in Ask, LooksForForward(a) PROVE PvInv'
<1>1. PvEach /\ Kin /\ AsksAreFor /\ ForwardsAreFor /\ Excuses /\ HidesRight /\ ListenersAreKnown
  BY DEF PvInv
<1>2. /\ asks[a].step = "found"
      /\ UNCHANGED <<sessState, seat, proc, active, listeners, hides, hidden, ran, asked, dismissed, saw, excused>>
  BY DEF LooksForForward
<1>3. /\ asks' \in [Ask -> AskRec] /\ \A b \in Ask \ {a} : asks'[b] = asks[b]
      /\ \/ asks'[a] = NoAsk
         \/ asks'[a].step = "clear" /\ asks'[a].id = asks[a].id /\ asks'[a].port = asks[a].port /\ asks'[a].pid = asks[a].pid
  BY <1>1, PreviewAssumption DEF LooksForForward, PvEach, AskRec, NoAsk, Holder
<1>4. PvEach' /\ Excuses' /\ HidesRight'
  BY <1>1, <1>2, <1>3 DEF PvEach, Excuses, HidesRight
<1>5. \A o, j, k : Good(o, j, k) => Good(o, j, k)'
  BY <1>2 DEF Good, RunsInProject, AtOrAbove
<1>6. Kin' /\ ForwardsAreFor'
  BY <1>1, <1>2, <1>5 DEF Kin, Up, ForwardsAreFor
<1>7. AsksAreFor'
  BY <1>1, <1>2, <1>3, <1>5 DEF AsksAreFor, NoAsk
<1>8. \A b \in Ask : asks'[b].step = "listening" <=> asks[b].step = "listening"
  BY <1>2, <1>3 DEF NoAsk
<1>9. ListenersAreKnown'
  BY <1>1, <1>2, <1>3, <1>8 DEF ListenersAreKnown
<1> QED
  BY <1>4, <1>6, <1>7, <1>9 DEF PvInv

LEMMA ListensOK == ASSUME PvInv, NEW a \in Ask, ListensAt(a) PROVE PvInv'
<1>1. PvEach /\ Kin /\ AsksAreFor /\ ForwardsAreFor /\ Excuses /\ HidesRight /\ ListenersAreKnown
  BY DEF PvInv
<1>2. /\ asks[a].step = "clear"
      /\ UNCHANGED <<sessState, seat, proc, active, hides, hidden, ran, asked, dismissed, saw, excused>>
  BY DEF ListensAt
<1>3. asks[a].port \in Port \ {Service} /\ asks[a].id \in Id
  BY <1>1, <1>2 DEF AsksAreFor
<1>4. /\ asks' \in [Ask -> AskRec] /\ \A b \in Ask \ {a} : asks'[b] = asks[b]
      /\ \/ asks'[a] = NoAsk /\ listeners' = listeners
         \/ /\ asks'[a].step = "listening" /\ asks'[a].id = asks[a].id
            /\ asks'[a].port = asks[a].port /\ asks'[a].pid = asks[a].pid
            /\ asks[a].port \notin listeners /\ listeners' = listeners \cup {asks[a].port}
  <2>1. asks[a] \in AskRec /\ NoAsk \in AskRec /\ asks \in [Ask -> AskRec]
    BY <1>1 DEF PvEach, AskRec, NoAsk, Holder
  <2>2. CASE /\ CanListen(asks[a].port) /\ listeners' = listeners \cup {asks[a].port}
             /\ asks' = [asks EXCEPT ![a].step = "listening"]
    <3> DEFINE new == [asks[a] EXCEPT !.step = "listening"]
    <3>1. /\ new \in AskRec /\ new.step = "listening" /\ new.id = asks[a].id
          /\ new.port = asks[a].port /\ new.pid = asks[a].pid
      BY <2>1 DEF AskRec
    <3>2. asks' = [asks EXCEPT ![a] = new]
      BY <2>1, <2>2
    <3> HIDE DEF new
    <3>3. asks[a].port \notin listeners
      BY <2>2 DEF CanListen
    <3> QED
      BY <2>1, <2>2, <3>1, <3>2, <3>3
  <2>3. CASE listeners' = listeners /\ asks' = [asks EXCEPT ![a] = NoAsk]
    BY <2>1, <2>3
  <2> QED
    BY <2>2, <2>3 DEF ListensAt
<1>5. PvEach' /\ Excuses' /\ HidesRight'
  BY <1>1, <1>2, <1>3, <1>4 DEF PvEach, Excuses, HidesRight
<1>6. \A o, j, k : Good(o, j, k) => Good(o, j, k)'
  BY <1>2 DEF Good, RunsInProject, AtOrAbove
<1>7. Kin' /\ ForwardsAreFor'
  BY <1>1, <1>2, <1>6 DEF Kin, Up, ForwardsAreFor
<1>8. AsksAreFor'
  BY <1>1, <1>2, <1>4, <1>6 DEF AsksAreFor, NoAsk
<1>9. ListenersAreKnown'
  <2>1. CASE asks'[a] = NoAsk /\ listeners' = listeners
    <3>1. \A b \in Ask : asks'[b].step = "listening" <=> asks[b].step = "listening"
      BY <1>2, <1>4, <2>1 DEF NoAsk
    <3>2. \A b \in Ask : asks[b].step = "listening" => asks'[b] = asks[b]
      BY <1>2, <1>4
    <3> QED
      BY <1>1, <1>2, <2>1, <3>1, <3>2 DEF ListenersAreKnown
  <2>2. CASE /\ asks'[a].step = "listening" /\ asks'[a].port = asks[a].port
             /\ asks[a].port \notin listeners /\ listeners' = listeners \cup {asks[a].port}
    <3>1. {b \in Ask : asks'[b].step = "listening"} = {b \in Ask : asks[b].step = "listening"} \cup {a}
      BY <1>2, <1>4, <2>2
    <3>2. \A b \in Ask : asks'[b].port = asks[b].port
      BY <1>4, <2>2
    <3>3. \A b \in Ask : asks[b].step = "listening" => asks[b].port \in listeners
      BY <1>1 DEF ListenersAreKnown
    <3>4. active[asks[a].port] = NoOne
      BY <1>1, <1>3, <2>2 DEF ListenersAreKnown
    <3> QED
      BY <1>1, <1>2, <2>2, <3>1, <3>2, <3>3, <3>4 DEF ListenersAreKnown
  <2> QED
    BY <1>4, <2>1, <2>2
<1> QED
  BY <1>5, <1>7, <1>8, <1>9 DEF PvInv

LEMMA RegistersOK == ASSUME PvInv, NEW a \in Ask, Registers(a) PROVE PvInv'
<1>1. PvEach /\ Kin /\ AsksAreFor /\ ForwardsAreFor /\ Excuses /\ HidesRight /\ ListenersAreKnown
  BY DEF PvInv
<1> DEFINE i == asks[a].id  prt == asks[a].port
<1>2. /\ asks[a].step = "listening"
      /\ active' = [active EXCEPT ![prt] = i] /\ saw' = [saw EXCEPT ![prt] = asks[a].pid]
      /\ excused' = (IF Crossed(i, prt) THEN excused \cup {prt} ELSE excused \ {prt})
      /\ asks' = [asks EXCEPT ![a] = NoAsk]
      /\ UNCHANGED <<sessState, seat, proc, listeners, hides, hidden, ran, asked, dismissed>>
  BY DEF Registers
<1>3. /\ prt \in Port \ {Service} /\ i \in Id /\ i # NoOne /\ asks[a].pid \in Proc \cup {NoOne}
      /\ asks[a].pid # NoOne => Good(asks[a].pid, i, prt)
  BY <1>1, <1>2, PreviewAssumption DEF AsksAreFor, PvEach, AskRec
<1>4. asks' \in [Ask -> AskRec] /\ asks'[a] = NoAsk /\ \A b \in Ask \ {a} : asks'[b] = asks[b]
  BY <1>1, <1>2 DEF PvEach, AskRec, NoAsk, Holder
<1>5. /\ active' \in [Port -> Holder] /\ saw' \in [Port -> Proc \cup {NoOne}] /\ excused' \subseteq Port
      /\ active'[prt] = i /\ saw'[prt] = asks[a].pid
      /\ \A q \in Port \ {prt} : active'[q] = active[q] /\ saw'[q] = saw[q] /\ (q \in excused' <=> q \in excused)
      /\ prt \in excused' <=> Crossed(i, prt)
  BY <1>1, <1>2, <1>3 DEF PvEach, Holder
<1>6. \A o, j, k : Good(o, j, k) => Good(o, j, k)'
  BY <1>2 DEF Good, RunsInProject, AtOrAbove
<1> HIDE DEF i, prt
<1>7. PvEach' /\ HidesRight'
  BY <1>1, <1>2, <1>4, <1>5 DEF PvEach, HidesRight
<1>8. Kin'
  BY <1>1, <1>2 DEF Kin, Up
<1>9. AsksAreFor'
  BY <1>1, <1>4, <1>6 DEF AsksAreFor, NoAsk
<1>10. ForwardsAreFor'
  BY <1>1, <1>3, <1>5, <1>6 DEF ForwardsAreFor
<1>11. Excuses'
  BY <1>1, <1>2, <1>3, <1>5 DEF Excuses, Crossed, IsLive
<1>12. ListenersAreKnown'
  <2>1. {b \in Ask : asks'[b].step = "listening"} = {b \in Ask : asks[b].step = "listening"} \ {a}
    BY <1>4 DEF NoAsk
  <2>2. {q \in Port : active'[q] # NoOne} = {q \in Port : active[q] # NoOne} \cup {prt}
    BY <1>3, <1>5
  <2>3. \A b \in Ask \ {a} : asks[b].step = "listening" => asks[b].port # prt
    BY <1>1, <1>2 DEF ListenersAreKnown, prt
  <2>4. {asks[b].port : b \in {c \in Ask : asks[c].step = "listening"}}
          = {asks'[b].port : b \in {c \in Ask : asks'[c].step = "listening"}} \cup {prt}
    <3>1. \A b \in {c \in Ask : asks'[c].step = "listening"} : asks'[b].port = asks[b].port
      BY <2>1, <1>4
    <3>2. prt = asks[a].port
      BY DEF prt
    <3> QED
      BY <3>1, <3>2, <2>1, <1>2
  <2>5. listeners' = {q \in Port : active'[q] # NoOne}
                      \cup {asks'[b].port : b \in {c \in Ask : asks'[c].step = "listening"}}
    BY <1>1, <1>2, <2>2, <2>4 DEF ListenersAreKnown
  <2>6. ASSUME NEW b \in Ask, asks'[b].step = "listening"
        PROVE  asks'[b] = asks[b] /\ asks[b].step = "listening" /\ active'[asks'[b].port] = NoOne
    <3>1. b # a /\ asks'[b] = asks[b] /\ asks[b].step = "listening"
      BY <2>6, <1>4 DEF NoAsk
    <3>2. asks[b].port # prt /\ active[asks[b].port] = NoOne
      BY <3>1, <2>3, <1>1 DEF ListenersAreKnown
    <3>3. asks[b].port \in Port
      BY <3>1, <1>1 DEF AsksAreFor
    <3> QED
      BY <3>1, <3>2, <3>3, <1>5
  <2>7. \A b, c \in Ask : asks'[b].step = "listening" /\ asks'[c].step = "listening" /\ asks'[b].port = asks'[c].port
                             => b = c
    BY <2>6, <1>1 DEF ListenersAreKnown
  <2> QED
    BY <2>5, <2>6, <2>7 DEF ListenersAreKnown
<1> QED
  BY <1>7, <1>8, <1>9, <1>10, <1>11, <1>12 DEF PvInv

LEMMA ClosePreviewOK == ASSUME PvInv, NEW i \in Id, NEW prt \in Port, ClosePreview(i, prt) PROVE PvInv'
<1>1. PvEach /\ Excuses /\ HidesRight
  BY DEF PvInv
<1>2. /\ active[prt] = i /\ Dropped({prt})
      /\ UNCHANGED <<sessState, seat, proc, asks, hides, hidden, ran, asked, dismissed, saw, excused>>
  BY DEF ClosePreview
<1>3. {prt} \in SUBSET {q \in Port : active[q] # NoOne}
  BY <1>2, PreviewAssumption
<1>4. /\ active' \in [Port -> Holder] /\ listeners' \subseteq Port /\ ListenersAreKnown'
      /\ \A q \in Port : active'[q] = IF q \in {prt} THEN NoOne ELSE active[q]
  BY <1>2, <1>3, DroppedIsKnown
<1>5. Kin' /\ AsksAreFor' /\ ForwardsAreFor'
  BY <1>2, <1>4, Fewer
<1>6. PvEach' /\ HidesRight' /\ Excuses'
  BY <1>1, <1>2, <1>4 DEF PvEach, HidesRight, Excuses
<1> QED
  BY <1>4, <1>5, <1>6 DEF PvInv

LEMMA HideOK == ASSUME PvInv, NEW i \in Id, NEW prt \in Port, HidePreview(i, prt) PROVE PvInv'
<1>1. PvEach /\ Excuses /\ HidesRight
  BY DEF PvInv
<1> DEFINE ports == {q \in {prt} : active[q] = i}
<1>2. /\ hides' = [id |-> i, port |-> prt] /\ dismissed < MaxHides /\ dismissed' = dismissed + 1
      /\ Dropped(ports)
      /\ UNCHANGED <<sessState, seat, proc, asks, hidden, ran, asked, saw, excused>>
  BY DEF HidePreview
<1>3. ports \in SUBSET {q \in Port : active[q] # NoOne}
  BY PreviewAssumption
<1>4. /\ active' \in [Port -> Holder] /\ listeners' \subseteq Port /\ ListenersAreKnown'
      /\ \A q \in Port : active'[q] = IF q \in ports THEN NoOne ELSE active[q]
  BY <1>2, <1>3, DroppedIsKnown
<1>5. Kin' /\ AsksAreFor' /\ ForwardsAreFor'
  BY <1>2, <1>4, Fewer
<1>6. PvEach' /\ HidesRight'
  BY <1>1, <1>2, <1>4, PreviewAssumption DEF PvEach, HidesRight, Holder
<1>7. active'[prt] # i
  BY <1>4, PreviewAssumption
<1>8. Excuses'
  <2> SUFFICES ASSUME NEW q \in Port, active'[q] # NoOne,
                      \/ sessState[active'[q]] = "gone" \/ q \in hidden[active'[q]]
                      \/ hides' = [id |-> active'[q], port |-> q]
               PROVE  q \in excused
    BY <1>2 DEF Excuses
  <2>1. active'[q] = active[q] /\ active[q] # NoOne
    BY <1>4
  <2>2. hides' # [id |-> active'[q], port |-> q]
    <3> SUFFICES ASSUME hides' = [id |-> active'[q], port |-> q] PROVE FALSE
      OBVIOUS
    <3>1. hides'.port = q /\ hides'.id = active'[q] /\ hides'.port = prt /\ hides'.id = i
      BY <1>2
    <3> QED
      BY <3>1, <1>7
  <2> QED
    BY <2>1, <2>2, <1>1 DEF Excuses
<1> QED
  BY <1>4, <1>5, <1>6, <1>8 DEF PvInv

LEMMA SetHiddenOK == ASSUME PvInv, SetPreviewHidden PROVE PvInv'
<1>1. PvEach /\ Kin /\ AsksAreFor /\ ForwardsAreFor /\ Excuses /\ HidesRight /\ ListenersAreKnown
  BY DEF PvInv
<1>2. /\ hides # NoHide /\ hides' = NoHide
      /\ hidden' = [hidden EXCEPT ![hides.id] = @ \cup {hides.port}]
      /\ UNCHANGED <<sessState, seat, proc, active, listeners, asks, ran, asked, dismissed, saw, excused>>
  BY DEF SetPreviewHidden
<1>3. hides.id \in Id /\ hides.port \in Port /\ hides = [id |-> hides.id, port |-> hides.port]
  BY <1>1, <1>2 DEF HidesRight, PvEach
<1>4. NoHide \in [id : Holder, port : Port \cup {0}] /\ NoHide.id = NoOne
  BY DEF NoHide, Holder
<1>5. Kin' /\ AsksAreFor' /\ ForwardsAreFor'
  BY <1>1, <1>2, Fewer DEF PvEach
<1>6. PvEach' /\ HidesRight' /\ ListenersAreKnown'
  BY <1>1, <1>2, <1>3, <1>4 DEF PvEach, HidesRight, ListenersAreKnown
<1>7. Excuses'
  <2> SUFFICES ASSUME NEW q \in Port, active[q] # NoOne,
                      \/ sessState[active[q]] = "gone" \/ q \in hidden'[active[q]]
                      \/ hides' = [id |-> active[q], port |-> q]
               PROVE  q \in excused
    BY <1>2 DEF Excuses
  <2>1. hides' # [id |-> active[q], port |-> q]
    <3> SUFFICES ASSUME hides' = [id |-> active[q], port |-> q] PROVE FALSE
      OBVIOUS
    <3>1. hides'.id = active[q] /\ hides'.id = NoOne
      BY <1>2, <1>4
    <3> QED
      BY <3>1
  <2>2. active[q] \in Id
    BY <1>1 DEF PvEach, Holder
  <2>3. q \in hidden'[active[q]] => q \in hidden[active[q]] \/ (active[q] = hides.id /\ q = hides.port)
    BY <1>1, <1>2, <1>3, <2>2 DEF PvEach
  <2> QED
    BY <2>1, <2>3, <1>1, <1>3 DEF Excuses
<1> QED
  BY <1>5, <1>6, <1>7 DEF PvInv

LEMMA ShowOK == ASSUME PvInv, NEW i \in Id, NEW prt \in Port, ShowPreview(i, prt) PROVE PvInv'
<1>1. PvEach /\ Kin /\ AsksAreFor /\ ForwardsAreFor /\ Excuses /\ HidesRight /\ ListenersAreKnown
  BY DEF PvInv
<1>2. /\ hidden' = [hidden EXCEPT ![i] = @ \ {prt}]
      /\ UNCHANGED <<sessState, seat, proc, active, listeners, asks, hides, ran, asked, dismissed, saw, excused>>
  BY DEF ShowPreview
<1>3. Kin' /\ AsksAreFor' /\ ForwardsAreFor'
  BY <1>1, <1>2, Fewer DEF PvEach
<1>4. PvEach' /\ HidesRight' /\ ListenersAreKnown'
  BY <1>1, <1>2 DEF PvEach, HidesRight, ListenersAreKnown
<1>5. \A j \in Id : hidden'[j] \subseteq hidden[j]
  BY <1>1, <1>2 DEF PvEach
<1>6. Excuses'
  <2>1. \A q \in Port : active[q] # NoOne => active[q] \in Id
    BY <1>1 DEF PvEach, Holder
  <2> QED
    BY <2>1, <1>1, <1>2, <1>5 DEF Excuses
<1> QED
  BY <1>3, <1>4, <1>6 DEF PvInv

LEMMA PvStepOK == PvInv /\ [PvNext]_pvVars => PvInv'
<1> SUFFICES ASSUME PvInv, [PvNext]_pvVars PROVE PvInv'
  OBVIOUS
<1>1. ASSUME NEW p \in Proc, NEW prog \in Program, NEW parent \in Id \cup Proc \cup {NoOne},
             RunsProgram(p, prog, parent)
      PROVE  PvInv'
  BY <1>1, RunsOK DEF Parents
<1>2. ASSUME NEW i \in Id, NEW lost \in SUBSET Proc, EndsAlone(i, lost) \/ CloseAsked(i, lost) PROVE PvInv'
  BY <1>2, SessionEndsOK
<1>3. CASE UNCHANGED pvVars
  BY <1>3 DEF pvVars, PvInv, PvEach, Kin, Up, AsksAreFor, ForwardsAreFor, Good, RunsInProject, AtOrAbove, Excuses,
              HidesRight, ListenersAreKnown
<1>4. ASSUME NEW a \in Ask, LooksForForward(a) \/ ListensAt(a) \/ Registers(a) PROVE PvInv'
  BY <1>4, LooksOK, ListensOK, RegistersOK
<1>5. ASSUME NEW i \in Id, NEW q \in Port, ClosePreview(i, q) \/ HidePreview(i, q) \/ ShowPreview(i, q) PROVE PvInv'
  BY <1>5, ClosePreviewOK, HideOK, ShowOK
<1> QED
  BY <1>1, <1>2, <1>3, <1>4, <1>5, ExitsOK, CloseSessionOK, OpenPreviewOK, SetHiddenOK DEF PvNext

\* The previews are held, whatever comes between two steps of a request.
THEOREM PreviewsStayHeld == PvSpec => [](PvTypeOK /\ PreviewsAreHeld)
<1>1. PvInv => PvTypeOK /\ PreviewsAreHeld
  BY PvInvMeans
<1> QED
  BY <1>1, PvInitOK, PvStepOK, PTL DEF PvSpec

-----------------------------------------------------------------------------
(* The lock: what was let in, what was refused, and when a guess is taken. *)

-----------------------------------------------------------------------------

\* Doubling is what it should be: the recursion has a solution, and only one.
LEMMA DoubledMeans ==
  ASSUME NEW first \in Nat
  PROVE  /\ Doubled(first, 0) = first
         /\ \A n \in Nat : Doubled(first, n) \in Nat /\ Doubled(first, n + 1) = 2 * Doubled(first, n)
<1> DEFINE Def(f) == [n \in Nat |-> IF n = 0 THEN first ELSE 2 * f[n - 1]]
           Path(f, n) == f \in [0..n -> Nat] /\ f[0] = first /\ \A k \in 1..n : f[k] = 2 * f[k - 1]
           S == {n \in Nat : \E f : Path(f, n)}
<1>1. \A n \in Nat : n \in S
  <2>1. 0 \in S
    <3>1. Path([k \in 0..0 |-> first], 0)
      OBVIOUS
    <3> HIDE DEF Path
    <3> QED
      BY <3>1, 0 \in Nat, Zenon
  <2>2. ASSUME NEW n \in Nat, n \in S PROVE n + 1 \in S
    <3>1. PICK f : Path(f, n)
      BY <2>2
    <3> DEFINE g == [k \in 0..(n + 1) |-> IF k = n + 1 THEN 2 * f[n] ELSE f[k]]
    <3>2. f[n] \in Nat
      BY <3>1
    <3>3. g \in [0..(n + 1) -> Nat] /\ g[0] = first
      BY <3>1, <3>2
    <3>4. ASSUME NEW k \in 1..(n + 1) PROVE g[k] = 2 * g[k - 1]
      <4>1. CASE k = n + 1
        BY <4>1
      <4>2. CASE k # n + 1
        <5>1. k \in 1..n /\ k - 1 \in 0..n /\ k - 1 # n + 1
          BY <4>2
        <5>2. g[k] = f[k] /\ g[k - 1] = f[k - 1]
          BY <5>1, <4>2
        <5> QED
          BY <5>1, <5>2, <3>1
      <4> QED
        BY <4>1, <4>2
    <3>5. Path(g, n + 1)
      BY <3>3, <3>4
    <3> HIDE DEF Path, g
    <3> QED
      BY <3>5, n + 1 \in Nat, Zenon
  <2> HIDE DEF S
  <2> QED
    BY <2>1, <2>2, InductionOnNat
<1>2. ASSUME NEW m \in Nat, NEW n \in Nat, m <= n, NEW f, Path(f, m), NEW g, Path(g, n) PROVE f[m] = g[m]
  <2> DEFINE T == {k \in Nat : k <= m => f[k] = g[k]}
  <2>1. 0 \in T
    BY <1>2
  <2>2. ASSUME NEW k \in Nat, k \in T PROVE k + 1 \in T
    <3> SUFFICES ASSUME k + 1 <= m PROVE f[k + 1] = g[k + 1]
      OBVIOUS
    <3>1. k + 1 \in 1..m /\ k + 1 \in 1..n /\ (k + 1) - 1 = k
      BY <1>2
    <3>2. f[k] = g[k]
      BY <2>2, <3>1
    <3> QED
      BY <3>1, <3>2, <1>2
  <2>3. \A k \in Nat : k \in T
    <3> HIDE DEF T
    <3> QED
      BY <2>1, <2>2, InductionOnNat
  <2>4. m \in T
    BY <2>3
  <2> QED
    BY <2>4
<1> DEFINE Of(n) == CHOOSE f : Path(f, n)
           F == [n \in Nat |-> Of(n)[n]]
<1>3. \A n \in Nat : Path(Of(n), n)
  BY <1>1
<1> HIDE DEF Of
<1>4. F[0] = first
  <2>1. Path(Of(0), 0)
    BY <1>3
  <2> QED
    BY <2>1
<1>6. ASSUME NEW n \in Nat PROVE F[n + 1] = 2 * F[n]
  <2>1. Path(Of(n), n) /\ Path(Of(n + 1), n + 1)
    <3> HIDE DEF Path
    <3> QED
      BY <1>3, n + 1 \in Nat
  <2>2. Of(n + 1)[n] = Of(n)[n]
    <3> HIDE DEF Path, Of
    <3> QED
      BY <2>1, <1>2, n + 1 \in Nat, n <= n + 1
  <2>3. n + 1 \in 1..(n + 1) /\ (n + 1) - 1 = n
    OBVIOUS
  <2>4. Of(n + 1)[n + 1] = 2 * Of(n + 1)[n]
    BY <2>1, <2>3
  <2> QED
    BY <2>2, <2>4
<1>7. F = Def(F)
  <2> HIDE DEF F
  <2>1. \A n \in Nat : F[n] = IF n = 0 THEN first ELSE 2 * F[n - 1]
    <3> TAKE n \in Nat
    <3>1. CASE n = 0
      BY <3>1, <1>4
    <3>2. CASE n # 0
      <4>1. n - 1 \in Nat /\ (n - 1) + 1 = n
        BY <3>2
      <4> QED
        BY <4>1, <1>6, <3>2
    <3> QED
      BY <3>1, <3>2
  <2>2. F = [n \in Nat |-> F[n]]
    BY DEF F
  <2> QED
    BY <2>1, <2>2
<1> DEFINE D == CHOOSE f : f = Def(f)
<1>8. D = Def(D)
  <2> HIDE DEF F
  <2> QED
    BY <1>7
<1>9. \A n : Doubled(first, n) = D[n]
  BY DEF Doubled
<1> HIDE DEF D
<1>10. D[0] = first
  BY <1>8
<1>11. \A n \in Nat : D[n + 1] = 2 * D[n]
  <2> TAKE n \in Nat
  <2>1. n + 1 \in Nat /\ n + 1 # 0 /\ (n + 1) - 1 = n
    OBVIOUS
  <2> QED
    BY <2>1, <1>8
<1>12. \A n \in Nat : D[n] \in Nat
  <2> DEFINE T == {n \in Nat : D[n] \in Nat}
  <2>1. 0 \in T /\ \A n \in Nat : n \in T => n + 1 \in T
    BY <1>10, <1>11
  <2>2. \A n \in Nat : n \in T
    <3> HIDE DEF T
    <3> QED
      BY <2>1, InductionOnNat
  <2> QED
    BY <2>2
<1> QED
  BY <1>9, <1>10, <1>11, <1>12

\* More doublings, more to wait.
LEMMA DoubledGrows ==
  ASSUME NEW first \in Nat, NEW m \in Nat, NEW n \in Nat, m <= n
  PROVE  Doubled(first, m) <= Doubled(first, n)
<1> DEFINE S == {k \in Nat : Doubled(first, m) <= Doubled(first, m + k)}
<1>1. 0 \in S
  BY DoubledMeans
<1>2. ASSUME NEW k \in Nat, k \in S PROVE k + 1 \in S
  <2>1. Doubled(first, m + k) \in Nat /\ Doubled(first, (m + k) + 1) = 2 * Doubled(first, m + k) /\ Doubled(first, m) \in Nat
    BY DoubledMeans, m + k \in Nat
  <2>2. Doubled(first, m) <= 2 * Doubled(first, m + k)
    BY <1>2, <2>1
  <2>3. m + (k + 1) = (m + k) + 1
    OBVIOUS
  <2> QED
    BY <2>1, <2>2, <2>3
<1>3. \A k \in Nat : k \in S
  <2> HIDE DEF S
  <2> QED
    BY <1>1, <1>2, InductionOnNat
<1>4. n - m \in S /\ m + (n - m) = n
  BY <1>3
<1> QED
  BY <1>4

-----------------------------------------------------------------------------
Policies == [free : Nat, base : Nat \ {0}, max : Nat \ {0}, decay : Nat]
Device == [token : 1..MaxTokens, seen : 0..MaxTicks]
Token == [at : 0..MaxTicks, pin : 0..MaxPins, out : BOOLEAN]
LockRec == [pin : 0..MaxPins, devices : SUBSET Device, sources : [Source -> Counter], global : Counter]

LkEach ==
    /\ ticks \in 0..MaxTicks /\ pins \in 0..MaxPins /\ restarted \in 0..Restarts
    /\ lock \in LockRec /\ disk \in LockRec
    /\ spentTokens \in Seq(Token) /\ Len(spentTokens) <= MaxTokens
    /\ guesses \in Seq(0..MaxTicks)

\* Who is signed in was signed in by this PIN, and is written down as seen.
LetIn ==
    /\ lock.pin <= pins /\ \A t \in 1..Len(spentTokens) : spentTokens[t].pin <= pins
    /\ \A d \in lock.devices :
        /\ d.token \in 1..Len(spentTokens) /\ d.seen <= ticks
        /\ spentTokens[d.token].pin = lock.pin /\ lock.pin # 0
        /\ spentTokens[d.token].at - d.seen <= Refresh /\ spentTokens[d.token].at <= ticks
        /\ \A e \in lock.devices : e.token = d.token => e = d

\* The global counter has counted the run of failures, and locks for the last.
Counted ==
    /\ lock.global.fails \in Nat
    /\ \A s \in Source : lock.sources[s] = NoCounter \/ lock.sources[s].fails \in Nat
    /\ guesses # <<>> =>
        /\ lock.global.last = guesses[Len(guesses)] /\ RunLength <= lock.global.fails
        /\ lock.global.fails > Global.free =>
             lock.global.until = lock.global.last + LockOf(Global, lock.global.fails - Global.free)

LkInv == LkEach /\ disk = lock /\ LetIn /\ Counted /\ TableIsBounded

LEMMA LkEachIsTyped == LkEach => LkTypeOK
  BY DEF LkEach, LkTypeOK, LockRec, Device

LEMMA LockMeans ==
  ASSUME NEW p \in Policies, NEW over \in Nat, over # 0
  PROVE  /\ LockOf(p, over) \in Nat
         /\ \A more \in Nat : over <= more => LockOf(p, over) <= LockOf(p, more)
<1>1. p.base \in Nat /\ p.max \in Nat /\ over - 1 \in Nat
  BY DEF Policies
<1>2. Doubled(p.base, over - 1) \in Nat
  BY <1>1, DoubledMeans
<1>3. ASSUME NEW more \in Nat, over <= more
      PROVE  Doubled(p.base, more - 1) \in Nat /\ Doubled(p.base, over - 1) <= Doubled(p.base, more - 1)
  <2>1. more - 1 \in Nat /\ over - 1 <= more - 1
    BY <1>3
  <2> QED
    BY <2>1, <1>1, DoubledMeans, DoubledGrows
<1> QED
  BY <1>1, <1>2, <1>3 DEF LockOf, Smaller

LEMMA NoteMeans ==
  ASSUME NEW c \in Counter, NEW p \in Policies, ticks \in 0..MaxTicks, c.fails \in Nat
  PROVE  /\ Note(c, p) \in Counter /\ Note(c, p).last = ticks /\ Note(c, p) # NoCounter
         /\ Note(c, p).fails = (IF c.last # Never /\ ticks - c.last > p.decay THEN 0 ELSE c.fails) + 1
         /\ Note(c, p).fails > p.free => Note(c, p).until = ticks + LockOf(p, Note(c, p).fails - p.free)
<1> DEFINE fails == (IF c.last # Never /\ ticks - c.last > p.decay THEN 0 ELSE c.fails) + 1
<1>1. fails \in Nat /\ p.free \in Nat /\ c.until \in Int /\ MaxTicks \in Nat /\ fails # -1
  BY LanlockAssumption DEF Counter, Policies
<1>2. fails > p.free => LockOf(p, fails - p.free) \in Nat
  BY <1>1, LockMeans
<1>3. Note(c, p) = [fails |-> fails, last |-> ticks,
                    until |-> IF fails > p.free THEN ticks + LockOf(p, fails - p.free) ELSE c.until]
  BY DEF Note
<1>4. NoCounter.fails = -1
  BY DEF NoCounter
<1> HIDE DEF fails
<1>5. (IF fails > p.free THEN ticks + LockOf(p, fails - p.free) ELSE c.until) \in Int
  BY <1>1, <1>2
<1>6. Note(c, p) \in Counter
  BY <1>1, <1>3, <1>5 DEF Counter
<1>7. Note(c, p).fails = fails /\ Note(c, p).last = ticks
      /\ Note(c, p).until = (IF fails > p.free THEN ticks + LockOf(p, fails - p.free) ELSE c.until)
  BY <1>3
<1>8. Note(c, p) # NoCounter
  BY <1>1, <1>4, <1>7
<1> QED
  BY <1>6, <1>7, <1>8 DEF fails

\* The table after a failure: typed, with counters, and no larger than it may be.
LEMMA ForgottenMeans ==
  ASSUME NEW sources \in [Source -> Counter],
         \A s \in Source : sources[s] = NoCounter \/ sources[s].fails \in Nat,
         NEW left \in Forgotten(sources)
  PROVE  /\ left \in [Source -> Counter]
         /\ \A s \in Source : left[s] = NoCounter \/ left[s].fails \in Nat
         /\ Cardinality({s \in Source : left[s] # NoCounter}) <= MaxSources
<1> DEFINE recent == {s \in Source : sources[s] # NoCounter
                                  /\ ~(ticks - sources[s].last > PerSource.decay /\ ticks > sources[s].until)}
<1>1. PICK keep \in SUBSET recent :
         /\ Cardinality(keep) = Smaller(Cardinality(recent), MaxSources)
         /\ left = [s \in Source |-> IF s \in keep THEN sources[s] ELSE NoCounter]
  BY DEF Forgotten
<1>2. NoCounter \in Counter
  BY LanlockAssumption DEF NoCounter, Counter, Never
<1>3. {s \in Source : left[s] # NoCounter} = keep
  BY <1>1
<1>4. IsFiniteSet(recent)
  <2>1. recent \subseteq Source
    OBVIOUS
  <2> HIDE DEF recent
  <2> QED
    BY <2>1, FS_Subset, LanlockAssumption
<1>5. Cardinality(recent) \in Nat /\ MaxSources \in Nat
  BY <1>4, FS_CardinalityType, LanlockAssumption
<1>6. Cardinality(keep) <= MaxSources
  <2> HIDE DEF recent
  <2> QED
    BY <1>1, <1>5 DEF Smaller
<1>7. left \in [Source -> Counter] /\ \A s \in Source : left[s] = NoCounter \/ left[s].fails \in Nat
  <2> HIDE DEF recent
  <2> QED
    BY <1>1, <1>2
<1> QED
  BY <1>3, <1>6, <1>7

\* The run of failures after one more.
From(g) == {i \in DOMAIN g : \A k \in i..(Len(g) - 1) : g[k + 1] - g[k] <= Global.decay}

LEMMA RunMeans ==
  ASSUME NEW g \in Seq(0..MaxTicks)
  PROVE  IsFiniteSet(From(g)) /\ Cardinality(From(g)) \in Nat /\ (g = <<>> => Cardinality(From(g)) = 0)
<1>1. From(g) \subseteq 1..Len(g) /\ Len(g) \in Nat
  BY DEF From
<1>2. IsFiniteSet(From(g))
  <2>1. IsFiniteSet(1..Len(g))
    BY <1>1, FS_Interval
  <2> QED
    BY <2>1, <1>1, FS_Subset
<1>3. g = <<>> => From(g) = {}
  BY <1>1
<1> QED
  BY <1>2, <1>3, FS_CardinalityType, FS_EmptySet

LEMMA RunGrows ==
  ASSUME NEW g \in Seq(0..MaxTicks), NEW t \in 0..MaxTicks
  PROVE  /\ g = <<>> => Cardinality(From(Append(g, t))) = 1
         /\ g # <<>> => Cardinality(From(Append(g, t))) =
                          IF t - g[Len(g)] > Global.decay THEN 1 ELSE Cardinality(From(g)) + 1
<1> DEFINE h == Append(g, t)  n == Len(g)
<1>1. n \in Nat /\ Len(h) = n + 1 /\ h[n + 1] = t /\ (\A i \in 1..n : h[i] = g[i]) /\ DOMAIN h = 1..(n + 1)
  OBVIOUS
<1>0. Global.decay \in Int /\ t \in Int /\ 0..MaxTicks \subseteq Int
  BY LanlockAssumption
<1>2. DOMAIN g = 1..n /\ \A i \in 1..n : g[i] \in Int
  <2>1. DOMAIN g = 1..n /\ \A i \in 1..n : g[i] \in 0..MaxTicks
    BY LenProperties, ElementOfSeq DEF n
  <2> QED
    BY <2>1, <1>0
<1> HIDE DEF h, n
<1>3. n + 1 \in From(h)
  BY <1>1 DEF From
<1>4. ASSUME g = <<>> PROVE From(h) = {1}
  <2>1. n = 0
    BY <1>4 DEF n
  <2> QED
    BY <2>1, <1>1, <1>3 DEF From
<1>5. ASSUME g # <<>>, t - g[n] > Global.decay PROVE From(h) = {n + 1}
  <2>1. n \in 1..n
    BY <1>1, <1>5 DEF n
  <2>2. ASSUME NEW i \in From(h) PROVE i = n + 1
    <3>1. i \in 1..(n + 1) /\ \A k \in i..n : h[k + 1] - h[k] <= Global.decay
      BY <1>1 DEF From
    <3>2. SUFFICES ASSUME i <= n PROVE FALSE
      BY <3>1, <1>1
    <3>3. n \in i..n /\ h[n + 1] - h[n] = t - g[n]
      BY <2>1, <3>1, <3>2, <1>1
    <3> QED
      BY <3>1, <3>3, <1>5, <1>0, <1>2, <2>1
  <2> QED
    BY <2>2, <1>3
<1>6. ASSUME g # <<>>, ~(t - g[n] > Global.decay) PROVE From(h) = From(g) \cup {n + 1} /\ n + 1 \notin From(g)
  <2>1. n \in 1..n /\ t - g[n] <= Global.decay
    BY <1>0, <1>1, <1>2, <1>6 DEF n
  <2>2. ASSUME NEW i \in 1..n PROVE i \in From(h) <=> i \in From(g)
    <3>1. i \in From(h) <=> \A k \in i..n : h[k + 1] - h[k] <= Global.decay
      BY <1>1 DEF From
    <3>2. i \in From(g) <=> \A k \in i..(n - 1) : g[k + 1] - g[k] <= Global.decay
      BY <1>2 DEF From, n
    <3>3. \A k \in i..(n - 1) : h[k + 1] = g[k + 1] /\ h[k] = g[k]
      BY <1>1
    <3>4. h[n + 1] - h[n] <= Global.decay
      BY <1>1, <2>1
    <3>5. \A k \in i..n : k = n \/ k \in i..(n - 1)
      BY <1>1
    <3>6. \A k \in i..(n - 1) : k \in i..n
      BY <1>1
    <3> QED
      BY <3>1, <3>2, <3>3, <3>4, <3>5, <3>6
  <2>3. From(h) \subseteq 1..(n + 1) /\ From(g) \subseteq 1..n
    BY <1>1, <1>2 DEF From
  <2> QED
    BY <2>2, <2>3, <1>1, <1>3
<1>7. IsFiniteSet(From(g)) /\ Cardinality(From(g)) \in Nat
  BY RunMeans
<1>8. CASE g = <<>>
  BY <1>4, <1>8, FS_Singleton DEF h
<1>9. CASE g # <<>> /\ t - g[n] > Global.decay
  BY <1>5, <1>9, FS_Singleton DEF h, n
<1>10. CASE g # <<>> /\ ~(t - g[n] > Global.decay)
  <2>1. Cardinality(From(h)) = Cardinality(From(g)) + 1
    BY <1>6, <1>7, <1>10, FS_AddElement
  <2> QED
    BY <2>1, <1>10 DEF h, n
<1> QED
  BY <1>8, <1>9, <1>10

-----------------------------------------------------------------------------
LEMMA PoliciesAre ==
  /\ PerSource \in Policies /\ Global \in Policies
  /\ MaxTicks \in Nat /\ MaxPins \in Nat /\ MaxTokens \in Nat /\ Restarts \in Nat /\ MaxSources \in Nat
  /\ TTL \in Nat /\ Refresh \in Nat
BY LanlockAssumption DEF Policies

LEMMA UnlockedIs ==
  ASSUME NEW pin \in 0..MaxPins
  PROVE  LET u == [Unlocked EXCEPT !.pin = pin]
         IN  /\ u \in LockRec /\ u.pin = pin /\ u.devices = {} /\ u.global = Zero
             /\ u.sources = [s \in Source |-> NoCounter]
<1>1. NoCounter \in Counter /\ Zero \in Counter
  BY PoliciesAre DEF NoCounter, Zero, Counter, Never
<1> QED
  BY <1>1 DEF Unlocked, LockRec

LEMMA Aged ==
  ASSUME NEW now \in Int, NEW seen \in Int, NEW at \in Int, NEW ttl \in Int, NEW re \in Int,
         now - seen > ttl, at - seen <= re
  PROVE  now - at >= ttl - re
OBVIOUS

\* The lock after one that is taken off or replaced: nothing in it but a PIN.
LEMMA ClearedOK ==
  ASSUME LkInv, SavesPin, NEW pin \in 0..MaxPins, Save([Unlocked EXCEPT !.pin = pin]), guesses' = <<>>,
         pins' \in 0..MaxPins, pin <= pins', pins <= pins', UNCHANGED <<ticks, spentTokens, restarted>>
  PROVE  LkInv'
<1> DEFINE u == [Unlocked EXCEPT !.pin = pin]
<1>1. lock' = u /\ disk' = u
  BY DEF Save
<1>2. /\ u \in LockRec /\ u.pin = pin /\ u.devices = {} /\ u.global = Zero
      /\ u.sources = [s \in Source |-> NoCounter]
  BY UnlockedIs
<1> HIDE DEF u
<1>3. LkEach'
  BY <1>1, <1>2 DEF LkInv, LkEach
<1>4. LetIn'
  <2>1. \A t \in 1..Len(spentTokens) : spentTokens[t].pin <= pins'
    <3> TAKE t \in 1..Len(spentTokens)
    <3>1. spentTokens[t] \in Token
      BY ElementOfSeq DEF LkInv, LkEach
    <3>2. spentTokens[t].pin \in 0..MaxPins /\ spentTokens[t].pin <= pins /\ pins \in 0..MaxPins
      BY <3>1 DEF LkInv, LkEach, LetIn, Token
    <3> QED
      BY <3>2, PoliciesAre
  <2> QED
    BY <2>1, <1>1, <1>2 DEF LetIn
<1>5. Counted'
  BY <1>1, <1>2 DEF Counted, Zero
<1>6. TableIsBounded'
  <2>1. {s \in Source : lock'.sources[s] # NoCounter} = {}
    BY <1>1, <1>2
  <2>2. Cardinality({s \in Source : lock'.sources[s] # NoCounter}) <= MaxSources
    <3>1. \A T : T = {} => Cardinality(T) <= MaxSources
      BY FS_EmptySet, PoliciesAre
    <3> QED
      BY <2>1, <3>1, Zenon
  <2> QED
    BY <2>2 DEF TableIsBounded
<1> QED
  BY <1>1, <1>3, <1>4, <1>5, <1>6 DEF LkInv

LEMMA LkInitOK == LkInit => LkInv
<1> SUFFICES ASSUME LkInit PROVE LkInv
  OBVIOUS
<1>1. /\ lock = Unlocked /\ disk = Unlocked /\ spentTokens = <<>> /\ guesses = <<>>
      /\ ticks = 0 /\ pins = 0 /\ restarted = 0
  BY DEF LkInit
<1>2. NoCounter \in Counter /\ Zero \in Counter /\ Unlocked \in LockRec
      /\ Unlocked.pin = 0 /\ Unlocked.devices = {} /\ Unlocked.global = Zero
      /\ Unlocked.sources = [s \in Source |-> NoCounter]
  BY PoliciesAre DEF NoCounter, Zero, Counter, Never, Unlocked, LockRec
<1>3. LkEach
  BY <1>1, <1>2, PoliciesAre DEF LkEach
<1>4. LetIn /\ Counted
  BY <1>1, <1>2 DEF LetIn, Counted, Zero
<1>5. TableIsBounded
  <2>1. {s \in Source : lock.sources[s] # NoCounter} = {}
    BY <1>1, <1>2
  <2> QED
    BY <2>1, FS_EmptySet, PoliciesAre DEF TableIsBounded
<1> QED
  BY <1>1, <1>3, <1>4, <1>5 DEF LkInv

LEMMA SetPinOK == ASSUME LkInv, SavesPin, SetPIN PROVE LkInv' /\ lock'.pin = pins + 1
<1>1. pins \in 0..MaxPins /\ pins < MaxPins /\ Save([Unlocked EXCEPT !.pin = pins + 1]) /\ pins' = pins + 1
      /\ guesses' = <<>> /\ UNCHANGED <<ticks, spentTokens, restarted>>
  BY DEF SetPIN, NewPin, LkInv, LkEach
<1>2. pins + 1 \in 0..MaxPins
  BY <1>1, PoliciesAre
<1>3. LkInv'
  BY <1>1, <1>2, ClearedOK
<1>4. lock' = [Unlocked EXCEPT !.pin = pins + 1]
  BY <1>1 DEF Save
<1> QED
  BY <1>2, <1>3, <1>4, UnlockedIs

LEMMA ClearPinOK == ASSUME LkInv, SavesPin, ClearPIN PROVE LkInv' /\ lock'.pin = 0
<1>1. /\ lock' = Unlocked /\ disk' = Unlocked
      /\ guesses' = <<>> /\ UNCHANGED <<ticks, pins, spentTokens, restarted>>
  BY DEF ClearPIN, Save
<1>2. Unlocked = [Unlocked EXCEPT !.pin = 0]
  BY DEF Unlocked
<1>3. 0 \in 0..MaxPins /\ pins \in 0..MaxPins
  BY PoliciesAre DEF LkInv, LkEach
<1>4. LkInv'
  BY <1>1, <1>2, <1>3, PoliciesAre, ClearedOK DEF Save
<1> QED
  BY <1>1, <1>4 DEF Unlocked

LEMMA EasedMeans ==
  ASSUME NEW g \in Counter, g.fails \in Nat
  PROVE  NoCounter \in Counter /\ EasedGlobal(g) \in Counter /\ EasedGlobal(g).fails \in Nat
<1> DEFINE fails == IF g.fails > 0 THEN g.fails - 1 ELSE 0
<1>1. fails \in Nat
  OBVIOUS
<1>2. g.last \in -1..MaxTicks
  BY DEF Counter
<1>3. EasedGlobal(g) = [fails |-> fails, last |-> g.last, until |-> Never]
  BY DEF EasedGlobal
<1> HIDE DEF fails
<1> QED
  BY <1>1, <1>2, <1>3, PoliciesAre DEF Counter, NoCounter, Never

\* A sign-in with the right PIN.
LEMMA LoginRightOK == ASSUME LkInv, SavesPin, NEW s \in Source, LoginRight(s) PROVE LkInv'
<1>0. LkEach /\ disk = lock /\ LetIn /\ Counted /\ TableIsBounded
  BY DEF LkInv
<1> DEFINE t == Len(spentTokens) + 1
           stays == {d \in lock.devices : ~Expired(d)}
           recent == [token |-> t, seen |-> ticks]
           new == [pin |-> lock.pin, sources |-> [lock.sources EXCEPT ![s] = NoCounter], global |-> EasedGlobal(lock.global),
                   devices |-> stays \cup {recent}]
           token == [at |-> ticks, pin |-> lock.pin, out |-> FALSE]
<1>1. /\ lock.pin # 0 /\ Len(spentTokens) < MaxTokens /\ lock' = new /\ disk' = new
      /\ spentTokens' = Append(spentTokens, token) /\ guesses' = <<>>
      /\ UNCHANGED <<ticks, pins, restarted>>
  BY DEF LoginRight, Save
<1>2. /\ ticks \in 0..MaxTicks /\ lock.pin \in 0..MaxPins /\ lock.devices \subseteq Device
      /\ lock.sources \in [Source -> Counter] /\ lock.global \in Counter /\ lock.global.fails \in Nat
  BY <1>0 DEF LkEach, LockRec, Counted
<1>3. /\ Len(spentTokens) \in Nat /\ t \in 1..MaxTokens /\ token \in Token /\ recent \in Device
  BY <1>0, <1>1, <1>2, PoliciesAre, LenProperties DEF LkEach, Token, Device
<1>4. /\ spentTokens' \in Seq(Token) /\ Len(spentTokens') = t /\ spentTokens'[t] = token
      /\ \A k \in 1..Len(spentTokens) : spentTokens'[k] = spentTokens[k]
  BY <1>0, <1>1, <1>3, AppendProperties DEF LkEach
<1>5. /\ new.pin = lock.pin /\ new.devices = stays \cup {recent} /\ new.global = EasedGlobal(lock.global)
      /\ new.sources = [lock.sources EXCEPT ![s] = NoCounter]
  BY <1>0 DEF LkEach, LockRec
<1>7. NoCounter \in Counter /\ EasedGlobal(lock.global) \in Counter /\ EasedGlobal(lock.global).fails \in Nat
  BY <1>2, EasedMeans
<1>8. new.sources \in [Source -> Counter] /\ new.devices \in SUBSET Device
  BY <1>2, <1>3, <1>5, <1>7
<1> HIDE DEF new
<1>9. new \in LockRec
  BY <1>2, <1>5, <1>7, <1>8 DEF LockRec, new
<1>10. token.at = ticks /\ token.pin = lock.pin /\ recent.token = t /\ recent.seen = ticks
  OBVIOUS
<1> HIDE DEF token, recent, t
<1>11. LkEach'
  BY <1>0, <1>1, <1>3, <1>4, <1>9, PoliciesAre DEF LkEach
<1>12. LetIn'
  <2>1. \A k \in 1..Len(spentTokens') : k = t \/ k \in 1..Len(spentTokens)
    BY <1>3, <1>4 DEF t
  <2>2. lock'.pin <= pins' /\ \A k \in 1..Len(spentTokens') : spentTokens'[k].pin <= pins'
    BY <2>1, <1>0, <1>1, <1>4, <1>5, <1>10 DEF LetIn
  <2>3. ASSUME NEW d \in stays
        PROVE  /\ d.token \in 1..Len(spentTokens') /\ d.seen <= ticks /\ d.token # t
               /\ spentTokens'[d.token].pin = lock.pin /\ spentTokens'[d.token].at - d.seen <= Refresh
               /\ spentTokens'[d.token].at <= ticks
    <3>1. d \in lock.devices /\ d.token \in 1..Len(spentTokens)
      BY <1>0 DEF LetIn
    <3>2. d.token # t /\ d.token \in 1..t
      BY <3>1, <1>3 DEF t
    <3> QED
      BY <3>1, <3>2, <1>0, <1>4 DEF LetIn
  <2>4. t \in 1..Len(spentTokens') /\ ticks - ticks <= Refresh /\ ticks <= ticks
    BY <1>2, <1>3, <1>4, PoliciesAre
  <2>5. lock'.devices = stays \cup {recent} /\ lock'.pin = lock.pin
    BY <1>1, <1>5
  <2>6. ASSUME NEW d \in stays \cup {recent}, NEW e \in stays \cup {recent}, e.token = d.token PROVE e = d
    BY <2>3, <2>6, <1>0, <1>10 DEF LetIn
  <2>7. ASSUME NEW d \in stays \cup {recent}
        PROVE  /\ d.token \in 1..Len(spentTokens') /\ d.seen <= ticks'
               /\ spentTokens'[d.token].pin = lock'.pin /\ lock'.pin # 0
               /\ spentTokens'[d.token].at - d.seen <= Refresh /\ spentTokens'[d.token].at <= ticks'
    BY <2>3, <2>4, <2>5, <1>1, <1>4, <1>10
  <2> QED
    BY <2>2, <2>5, <2>6, <2>7 DEF LetIn
<1>13. Counted'
  <2>1. \A r \in Source : lock'.sources[r] = NoCounter \/ lock'.sources[r].fails \in Nat
    BY <1>0, <1>1, <1>2, <1>5 DEF Counted
  <2> QED
    BY <2>1, <1>1, <1>5, <1>7 DEF Counted
<1>14. TableIsBounded'
  <2> DEFINE old == {r \in Source : lock.sources[r] # NoCounter}
             left == {r \in Source : lock'.sources[r] # NoCounter}
  <2>1. left \subseteq old /\ old \subseteq Source
    BY <1>1, <1>2, <1>5
  <2>2. Cardinality(old) <= MaxSources
    BY <1>0 DEF TableIsBounded
  <2> HIDE DEF old, left
  <2>3. IsFiniteSet(old)
    BY <2>1, FS_Subset, LanlockAssumption
  <2>4. Cardinality(left) <= Cardinality(old) /\ Cardinality(left) \in Nat /\ Cardinality(old) \in Nat
    BY <2>1, <2>3, FS_Subset, FS_CardinalityType
  <2>5. Cardinality(left) <= MaxSources
    BY <2>2, <2>4, PoliciesAre
  <2> QED
    BY <2>5 DEF TableIsBounded, left
<1> QED
  BY <1>1, <1>11, <1>12, <1>13, <1>14 DEF LkInv

\* A guess that is wrong.
LEMMA LoginWrongOK == ASSUME LkInv, SavesPin, NEW s \in Source, LoginWrong(s) PROVE LkInv'
<1>0. LkEach /\ disk = lock /\ LetIn /\ Counted /\ TableIsBounded
  BY DEF LkInv
<1>1. /\ guesses' = Append(guesses, ticks) /\ UNCHANGED <<ticks, pins, spentTokens, restarted>>
      /\ \E new \in GuessFailed(lock, s) : lock' = new /\ disk' = new
  BY DEF LoginWrong, FailsSaved, Save
<1>2. /\ ticks \in 0..MaxTicks /\ lock.pin \in 0..MaxPins /\ lock.devices \in SUBSET Device
      /\ lock.sources \in [Source -> Counter] /\ lock.global \in Counter /\ lock.global.fails \in Nat
      /\ guesses \in Seq(0..MaxTicks)
  BY <1>0 DEF LkEach, LockRec, Counted
<1> DEFINE c == IF lock.sources[s] = NoCounter THEN Zero ELSE lock.sources[s]
           table == [lock.sources EXCEPT ![s] = Note(c, PerSource)]
           global == Note(lock.global, Global)
<1>3. PICK left \in Forgotten(table) :
         lock' = [pin |-> lock.pin, devices |-> lock.devices, global |-> global, sources |-> left] /\ disk' = lock'
  BY <1>1 DEF GuessFailed
<1>4. c \in Counter /\ c.fails \in Nat
  <2>1. Zero \in Counter /\ Zero.fails \in Nat
    BY PoliciesAre DEF Zero, Counter, Never
  <2>2. lock.sources[s] \in Counter /\ (lock.sources[s] # NoCounter => lock.sources[s].fails \in Nat)
    BY <1>0, <1>2 DEF Counted
  <2> QED
    BY <2>1, <2>2
<1> HIDE DEF c
<1>5. Note(c, PerSource) \in Counter /\ Note(c, PerSource).fails \in Nat
  <2>1. /\ Note(c, PerSource) \in Counter
        /\ Note(c, PerSource).fails = (IF c.last # Never /\ ticks - c.last > PerSource.decay THEN 0 ELSE c.fails) + 1
    BY <1>2, <1>4, NoteMeans, PoliciesAre
  <2> QED
    BY <2>1, <1>4
<1>6. /\ global \in Counter /\ global.last = ticks
      /\ global.fails = (IF lock.global.last # Never /\ ticks - lock.global.last > Global.decay THEN 0 ELSE lock.global.fails) + 1
      /\ global.fails > Global.free => global.until = ticks + LockOf(Global, global.fails - Global.free)
  BY <1>2, NoteMeans, PoliciesAre
<1>7. table \in [Source -> Counter] /\ \A r \in Source : table[r] = NoCounter \/ table[r].fails \in Nat
  BY <1>0, <1>2, <1>5 DEF Counted
<1> HIDE DEF table, global
<1>8. /\ left \in [Source -> Counter] /\ \A r \in Source : left[r] = NoCounter \/ left[r].fails \in Nat
      /\ Cardinality({r \in Source : left[r] # NoCounter}) <= MaxSources
  BY <1>7, ForgottenMeans
<1>9. lock' \in LockRec
  BY <1>2, <1>3, <1>6, <1>8 DEF LockRec
<1>10. guesses' \in Seq(0..MaxTicks) /\ guesses' # <<>> /\ guesses'[Len(guesses')] = ticks
  BY <1>1, <1>2, AppendProperties
<1>11. LkEach'
  BY <1>0, <1>1, <1>3, <1>9, <1>10 DEF LkEach
<1>12. lock'.pin = lock.pin /\ lock'.devices = lock.devices /\ lock'.global = global /\ lock'.sources = left
  BY <1>3
<1>13. LetIn'
  BY <1>0, <1>1, <1>12 DEF LetIn
<1>14. global.fails \in Nat
  BY <1>2, <1>6
<1>15. Cardinality(From(guesses')) <= global.fails
  <2>1. /\ guesses = <<>> => Cardinality(From(guesses')) = 1
        /\ guesses # <<>> => Cardinality(From(guesses')) =
                                IF ticks - guesses[Len(guesses)] > Global.decay THEN 1 ELSE Cardinality(From(guesses)) + 1
    BY <1>1, <1>2, RunGrows
  <2>2. Cardinality(From(guesses)) \in Nat
    BY <1>2, RunMeans
  <2>3. guesses # <<>> => guesses[Len(guesses)] = lock.global.last /\ Cardinality(From(guesses)) <= lock.global.fails
    BY <1>0 DEF Counted, RunLength, From
  <2>4. 1 <= global.fails
    BY <1>2, <1>6
  <2>5. CASE guesses # <<>> /\ ~(ticks - guesses[Len(guesses)] > Global.decay)
    <3>1. global.fails = lock.global.fails + 1
      BY <2>3, <2>5, <1>6
    <3> QED
      BY <2>1, <2>2, <2>3, <2>5, <3>1, <1>2
  <2> QED
    BY <2>1, <2>4, <2>5
<1>16. Counted'
  <2>1. RunLength' = Cardinality(From(guesses'))
    BY DEF RunLength, From
  <2> QED
    BY <2>1, <1>6, <1>8, <1>10, <1>12, <1>14, <1>15 DEF Counted
<1>17. TableIsBounded'
  BY <1>8, <1>12 DEF TableIsBounded
<1> QED
  BY <1>3, <1>11, <1>13, <1>16, <1>17 DEF LkInv

\* A guess is looked at only after the wait for the ones before it.
LEMMA WaitIsLong ==
  ASSUME LkInv, NEW s \in Source, ~MustWait(s), RunLength > Global.free
  PROVE  ticks - guesses[Len(guesses)] >= Smaller(Doubled(Global.base, RunLength - Global.free - 1), Global.max)
<1>0. LkEach /\ Counted
  BY DEF LkInv
<1>1. ticks \in Nat /\ guesses \in Seq(0..MaxTicks) /\ lock.global \in Counter /\ lock.global.fails \in Nat
  BY <1>0 DEF LkEach, LockRec, Counted
<1>2. RunLength = Cardinality(From(guesses))
  BY DEF RunLength, From
<1>3. RunLength \in Nat /\ Global.free \in Nat /\ guesses # <<>>
  BY <1>1, <1>2, RunMeans, PoliciesAre DEF Policies
<1> DEFINE fails == lock.global.fails
<1>4. guesses[Len(guesses)] = lock.global.last /\ RunLength <= fails /\ lock.global.last \in Int
  BY <1>0, <1>1, <1>3 DEF Counted, Counter
<1>5. lock.global.until = lock.global.last + LockOf(Global, fails - Global.free)
  BY <1>0, <1>1, <1>3, <1>4 DEF Counted
<1>6. /\ LockOf(Global, RunLength - Global.free) \in Nat /\ LockOf(Global, fails - Global.free) \in Nat
      /\ LockOf(Global, RunLength - Global.free) <= LockOf(Global, fails - Global.free)
  <2>1. RunLength - Global.free \in Nat /\ RunLength - Global.free # 0 /\ fails - Global.free \in Nat
        /\ RunLength - Global.free <= fails - Global.free /\ fails - Global.free # 0
    BY <1>1, <1>3, <1>4
  <2> QED
    BY <2>1, LockMeans, PoliciesAre
<1>7. ~(ticks < lock.global.until)
  BY DEF MustWait
<1>8. ticks - lock.global.last >= LockOf(Global, RunLength - Global.free)
  BY <1>1, <1>4, <1>5, <1>6, <1>7
<1> QED
  BY <1>4, <1>8 DEF LockOf

\* A device whose token is used.
LEMMA UseOK ==
  ASSUME LkInv, SavesPin, NEW t \in 1..Len(spentTokens), Use(t)
  PROVE  LkInv' /\ \A k \in SignedIn : k \notin {d.token : d \in lock'.devices} =>
                        ticks - spentTokens[k].at >= TTL - Refresh
<1>0. LkEach /\ disk = lock /\ LetIn /\ Counted /\ TableIsBounded
  BY DEF LkInv
<1>1. PICK d \in lock.devices :
        /\ d.token = t
        /\ IF Expired(d)
           THEN Save([lock EXCEPT !.devices = @ \ {d}]) /\ UNCHANGED spentTokens
           ELSE /\ spentTokens' = [spentTokens EXCEPT ![t].at = ticks]
                /\ IF Refreshed(d) = d THEN UNCHANGED <<lock, disk>>
                   ELSE Save([lock EXCEPT !.devices = (@ \ {d}) \cup {Refreshed(d)}])
        /\ UNCHANGED <<ticks, pins, guesses, restarted>>
  BY DEF Use
<1>2. /\ ticks \in 0..MaxTicks /\ lock.devices \in SUBSET Device /\ d \in Device /\ d.seen \in Nat
      /\ spentTokens \in [1..Len(spentTokens) -> Token] /\ Len(spentTokens) \in Nat /\ Len(spentTokens) <= MaxTokens
      /\ spentTokens[t] \in Token /\ spentTokens[t].at \in Nat /\ ticks \in Nat
  <2>1. /\ ticks \in 0..MaxTicks /\ lock.devices \in SUBSET Device /\ d \in Device
        /\ spentTokens \in Seq(Token) /\ Len(spentTokens) <= MaxTokens
    BY <1>0 DEF LkEach, LockRec
  <2>2. spentTokens \in [1..Len(spentTokens) -> Token] /\ Len(spentTokens) \in Nat
    BY <2>1, LenProperties
  <2>3. spentTokens[t] \in Token
    BY <2>2
  <2>4. d.seen \in 0..MaxTicks /\ spentTokens[t].at \in 0..MaxTicks
    BY <2>1, <2>3 DEF Device, Token
  <2> QED
    BY <2>1, <2>2, <2>3, <2>4, PoliciesAre
<1>3. CASE Expired(d)
  <2>1. /\ lock' = [lock EXCEPT !.devices = @ \ {d}] /\ disk' = lock' /\ UNCHANGED spentTokens
        /\ UNCHANGED <<ticks, pins, guesses, restarted>>
    BY <1>1, <1>3 DEF Save
  <2>2. /\ lock' \in LockRec /\ lock'.devices = lock.devices \ {d} /\ lock'.pin = lock.pin
        /\ lock'.global = lock.global /\ lock'.sources = lock.sources
    BY <1>0, <2>1 DEF LkEach, LockRec
  <2>3. LkEach' /\ LetIn' /\ TableIsBounded'
    BY <1>0, <2>1, <2>2 DEF LkEach, LetIn, TableIsBounded
  <2>4. Counted'
    BY <1>0, <2>1, <2>2 DEF Counted, RunLength
  <2>5. ASSUME NEW k \in SignedIn, k \notin {e.token : e \in lock'.devices} PROVE ticks - spentTokens[k].at >= TTL - Refresh
    <3>1. k = t
      BY <1>1, <2>2, <2>5 DEF SignedIn
    <3>2. spentTokens[t].at - d.seen <= Refresh
      BY <1>0, <1>1 DEF LetIn
    <3>3. ticks - d.seen > TTL
      BY <1>3 DEF Expired
    <3> QED
      BY <1>2, <3>1, <3>2, <3>3, PoliciesAre
  <2> QED
    BY <2>1, <2>3, <2>4, <2>5 DEF LkInv
<1>4. CASE ~Expired(d)
  <2> DEFINE new == [spentTokens[t] EXCEPT !.at = ticks]
             r == Refreshed(d)
  <2>1. /\ spentTokens' = [spentTokens EXCEPT ![t] = new]
        /\ new \in Token /\ new.at = ticks /\ new.pin = spentTokens[t].pin
    BY <1>1, <1>2, <1>4 DEF Token
  <2>2. /\ spentTokens' \in [1..Len(spentTokens) -> Token] /\ spentTokens'[t] = new
        /\ \A k \in 1..Len(spentTokens) : k # t => spentTokens'[k] = spentTokens[k]
    BY <1>2, <2>1
  <2>3. spentTokens' \in Seq(Token) /\ Len(spentTokens') = Len(spentTokens)
    BY <1>2, <2>2
  <2>4. /\ r \in Device /\ r.token = t /\ r.seen <= ticks /\ ticks - r.seen <= Refresh
    <3>1. d.seen <= ticks
      BY <1>0 DEF LetIn
    <3>2. CASE ticks - d.seen > Refresh
      <4>1. r = [d EXCEPT !.seen = ticks]
        BY <3>2 DEF Refreshed
      <4>2. r \in Device /\ r.token = d.token /\ r.seen = ticks
        BY <4>1, <1>2 DEF Device
      <4> QED
        BY <4>2, <1>1, <1>2, PoliciesAre
    <3>3. CASE ~(ticks - d.seen > Refresh)
      BY <3>1, <3>3, <1>1, <1>2, PoliciesAre DEF Refreshed
    <3> QED
      BY <3>2, <3>3
  <2> HIDE DEF new, r
  <2>5. /\ lock' \in LockRec /\ disk' = lock' /\ lock'.devices = (lock.devices \ {d}) \cup {r}
        /\ lock'.pin = lock.pin /\ lock'.global = lock.global /\ lock'.sources = lock.sources
    <3>1. CASE r = d
      BY <3>1, <1>0, <1>1, <1>4 DEF LkEach, LockRec, r
    <3>2. CASE r # d
      <4>1. lock' = [lock EXCEPT !.devices = (@ \ {d}) \cup {r}] /\ disk' = lock'
        BY <3>2, <1>1, <1>4 DEF Save, r
      <4>2. (lock.devices \ {d}) \cup {r} \in SUBSET Device
        BY <1>2, <2>4
      <4> QED
        BY <4>1, <4>2, <1>0 DEF LkEach, LockRec
    <3> QED
      BY <3>1, <3>2
  <2>6. LkEach' /\ TableIsBounded'
    BY <1>0, <1>1, <2>3, <2>5 DEF LkEach, TableIsBounded
  <2>7. Counted'
    BY <1>0, <1>1, <2>5 DEF Counted, RunLength
  <2>8. LetIn'
    <3>1. \A k \in 1..Len(spentTokens') : spentTokens'[k].pin = spentTokens[k].pin
      BY <2>1, <2>2, <2>3
    <3>2. lock'.pin <= pins' /\ \A k \in 1..Len(spentTokens') : spentTokens'[k].pin <= pins'
      BY <3>1, <1>0, <1>1, <2>3, <2>5 DEF LetIn
    <3>3. ASSUME NEW e \in lock.devices \ {d} PROVE e.token # t /\ spentTokens'[e.token] = spentTokens[e.token]
      BY <1>0, <1>1, <2>2 DEF LetIn
    <3>4. ASSUME NEW e \in (lock.devices \ {d}) \cup {r}
          PROVE  /\ e.token \in 1..Len(spentTokens') /\ e.seen <= ticks'
                 /\ spentTokens'[e.token].pin = lock'.pin /\ lock'.pin # 0
                 /\ spentTokens'[e.token].at - e.seen <= Refresh /\ spentTokens'[e.token].at <= ticks'
      <4>1. CASE e = r
        <5>1. spentTokens[t].pin = lock.pin /\ lock.pin # 0
          BY <1>0, <1>1 DEF LetIn
        <5>2. ticks <= ticks
          BY <1>2
        <5> QED
          BY <4>1, <5>1, <5>2, <1>1, <2>1, <2>2, <2>3, <2>4, <2>5
      <4>2. CASE e \in lock.devices \ {d}
        BY <4>2, <3>3, <1>0, <1>1, <2>3, <2>5 DEF LetIn
      <4> QED
        BY <4>1, <4>2
    <3>5. \A e, f \in (lock.devices \ {d}) \cup {r} : e.token = f.token => e = f
      BY <3>3, <2>4, <1>0 DEF LetIn
    <3> QED
      BY <3>2, <3>4, <3>5, <2>5 DEF LetIn
  <2>9. \A k \in SignedIn : k \in {e.token : e \in lock'.devices}
    BY <1>1, <2>4, <2>5 DEF SignedIn
  <2> QED
    BY <2>5, <2>6, <2>7, <2>8, <2>9 DEF LkInv
<1> QED
  BY <1>3, <1>4

\* Devices that are signed out.
LEMMA SignOutOK ==
  ASSUME LkInv, SavesPin, NEW out \in SUBSET lock.devices, SignOut(out)
  PROVE  LkInv' /\ \A k \in SignedIn : k \notin {d.token : d \in lock'.devices} => spentTokens'[k].out
<1>0. LkEach /\ disk = lock /\ LetIn /\ Counted /\ TableIsBounded
  BY DEF LkInv
<1>1. /\ lock' = [lock EXCEPT !.devices = @ \ out] /\ disk' = lock'
      /\ spentTokens' = [t \in DOMAIN spentTokens |-> [spentTokens[t] EXCEPT !.out = @ \/ t \in {d.token : d \in out}]]
      /\ UNCHANGED <<ticks, pins, guesses, restarted>>
  BY DEF SignOut, Save
<1>2. /\ lock' \in LockRec /\ lock'.devices = lock.devices \ out /\ lock'.pin = lock.pin
      /\ lock'.global = lock.global /\ lock'.sources = lock.sources
  BY <1>0, <1>1 DEF LkEach, LockRec
<1>3. spentTokens \in [1..Len(spentTokens) -> Token] /\ Len(spentTokens) \in Nat
      /\ DOMAIN spentTokens = 1..Len(spentTokens)
  BY <1>0, LenProperties DEF LkEach
<1>4. ASSUME NEW t \in 1..Len(spentTokens)
      PROVE  /\ spentTokens'[t] \in Token /\ spentTokens'[t].at = spentTokens[t].at
             /\ spentTokens'[t].pin = spentTokens[t].pin
             /\ t \in {d.token : d \in out} => spentTokens'[t].out
  <2> DEFINE o == spentTokens[t].out \/ t \in {d.token : d \in out}
  <2>1. o \in BOOLEAN
    OBVIOUS
  <2>2. spentTokens'[t] = [spentTokens[t] EXCEPT !.out = o]
    BY <1>1, <1>3
  <2>3. t \in {d.token : d \in out} => o
    OBVIOUS
  <2> HIDE DEF o
  <2> QED
    BY <2>1, <2>2, <2>3, <1>3 DEF Token
<1>5. spentTokens' \in [1..Len(spentTokens) -> Token]
  BY <1>1, <1>3, <1>4
<1>6. spentTokens' \in Seq(Token) /\ Len(spentTokens') = Len(spentTokens)
  BY <1>3, <1>5
<1>7. LkEach' /\ TableIsBounded'
  BY <1>0, <1>1, <1>2, <1>6 DEF LkEach, TableIsBounded
<1>8. Counted'
  BY <1>0, <1>1, <1>2 DEF Counted, RunLength
<1>9. LetIn'
  BY <1>0, <1>1, <1>2, <1>4, <1>6 DEF LetIn
<1>10. ASSUME NEW k \in SignedIn, k \notin {d.token : d \in lock'.devices} PROVE spentTokens'[k].out
  <2>1. PICK d \in lock.devices : d.token = k
    BY DEF SignedIn
  <2>2. d \in out /\ k \in 1..Len(spentTokens)
    BY <2>1, <1>0, <1>2, <1>10 DEF LetIn
  <2> QED
    BY <2>1, <2>2, <1>4
<1> QED
  BY <1>1, <1>7, <1>8, <1>9, <1>10 DEF LkInv

RestartOf == restarted' # restarted => lock' = lock

StaysOf ==
  \A t \in SignedIn : t \notin {d.token : d \in lock'.devices} =>
    spentTokens'[t].out \/ lock'.pin # spentTokens[t].pin \/ ticks - spentTokens[t].at >= TTL - Refresh

GuessOf ==
  (Len(guesses') > Len(guesses) /\ RunLength > Global.free) =>
    ticks - guesses[Len(guesses)] >= Smaller(Doubled(Global.base, RunLength - Global.free - 1), Global.max)

LEMMA LkStepOK == SavesPin /\ LkInv /\ [LkNext]_lkVars => LkInv' /\ RestartOf /\ StaysOf /\ GuessOf
<1> SUFFICES ASSUME SavesPin, LkInv, [LkNext]_lkVars PROVE LkInv' /\ RestartOf /\ StaysOf /\ GuessOf
  OBVIOUS
<1>0. LkEach /\ disk = lock /\ LetIn /\ Counted /\ TableIsBounded
  BY DEF LkInv
<1>1. Len(guesses) \in Nat /\ Len(<<>>) = 0
  BY <1>0 DEF LkEach
<1>2. \A d \in lock.devices : d.token \in 1..Len(spentTokens) /\ spentTokens[d.token].pin = lock.pin /\ lock.pin # 0
  BY <1>0 DEF LetIn
<1>3. CASE SetPIN
  <2>1. LkInv' /\ lock'.pin = pins + 1
    BY <1>3, SetPinOK
  <2>2. StaysOf
    <3>1. lock.pin <= pins /\ pins \in Nat /\ lock.pin \in Nat
      BY <1>0, PoliciesAre DEF LetIn, LkEach, LockRec
    <3> QED
      BY <2>1, <3>1, <1>2 DEF StaysOf, SignedIn
  <2>3. RestartOf /\ guesses' = <<>>
    BY <1>3 DEF SetPIN, RestartOf
  <2> QED
    BY <2>1, <2>2, <2>3, <1>1 DEF GuessOf
<1>4. CASE ClearPIN
  <2>1. LkInv' /\ lock'.pin = 0
    BY <1>4, ClearPinOK
  <2>2. StaysOf
    BY <2>1, <1>2 DEF StaysOf, SignedIn
  <2>3. RestartOf /\ guesses' = <<>>
    BY <1>4 DEF ClearPIN, RestartOf
  <2> QED
    BY <2>1, <2>2, <2>3, <1>1 DEF GuessOf
<1>5. CASE Restart
  <2>1. lock' = lock /\ restarted < Restarts /\ restarted' = restarted + 1
        /\ UNCHANGED <<ticks, disk, pins, spentTokens, guesses>>
    BY <1>0, <1>5 DEF Restart
  <2>2. LkInv'
    BY <1>0, <2>1, PoliciesAre DEF LkInv, LkEach, LetIn, Counted, RunLength, TableIsBounded
  <2> QED
    BY <2>1, <2>2, <1>1 DEF RestartOf, StaysOf, SignedIn, GuessOf
<1>6. CASE Tick
  <2>1. ticks < MaxTicks /\ ticks' = ticks + 1 /\ UNCHANGED <<lock, disk, pins, spentTokens, guesses, restarted>>
    BY <1>6 DEF Tick
  <2>2. ticks \in 0..MaxTicks /\ spentTokens \in Seq(Token) /\ lock.devices \in SUBSET Device
    BY <1>0 DEF LkEach, LockRec
  <2>3. LetIn'
    <3>1. ASSUME NEW d \in lock.devices PROVE d.seen <= ticks' /\ spentTokens[d.token].at <= ticks'
      <4>1. d.token \in 1..Len(spentTokens) /\ d.seen <= ticks /\ spentTokens[d.token].at <= ticks
        BY <1>0 DEF LetIn
      <4>2. spentTokens[d.token] \in Token /\ d \in Device
        BY <2>2, <4>1, ElementOfSeq
      <4>3. spentTokens[d.token].at \in 0..MaxTicks /\ d.seen \in 0..MaxTicks
        BY <4>2 DEF Device, Token
      <4> QED
        BY <4>1, <4>3, <2>1, <2>2, PoliciesAre
    <3> QED
      BY <3>1, <2>1, <1>0 DEF LetIn
  <2>4. LkInv'
    BY <1>0, <2>1, <2>3, PoliciesAre DEF LkInv, LkEach, Counted, RunLength, TableIsBounded
  <2> QED
    BY <2>1, <2>4, <1>1 DEF RestartOf, StaysOf, SignedIn, GuessOf
<1>7. ASSUME NEW s \in Source, LoginRight(s) PROVE LkInv' /\ RestartOf /\ StaysOf /\ GuessOf
  <2>1. LkInv'
    BY <1>7, LoginRightOK
  <2>2. /\ guesses' = <<>> /\ restarted' = restarted
        /\ lock'.devices = {d \in lock.devices : ~Expired(d)} \cup {[token |-> Len(spentTokens) + 1, seen |-> ticks]}
    BY <1>7 DEF LoginRight, Save
  <2>3. StaysOf
    <3> SUFFICES ASSUME NEW d \in lock.devices, d.token \notin {e.token : e \in lock'.devices}
                 PROVE  ticks - spentTokens[d.token].at >= TTL - Refresh
      BY DEF StaysOf, SignedIn
    <3>1. ticks - d.seen > TTL
      BY <2>2 DEF Expired
    <3>2. d.token \in 1..Len(spentTokens) /\ spentTokens[d.token].at - d.seen <= Refresh
      BY <1>0 DEF LetIn
    <3>3. d \in Device /\ spentTokens[d.token] \in Token /\ ticks \in 0..MaxTicks
      BY <1>0, <3>2, ElementOfSeq DEF LkEach, LockRec
    <3>4. d.seen \in 0..MaxTicks /\ spentTokens[d.token].at \in 0..MaxTicks
      BY <3>3 DEF Device, Token
    <3>5. {ticks, d.seen, spentTokens[d.token].at, TTL, Refresh} \subseteq Int
      BY <3>3, <3>4, PoliciesAre
    <3> QED
      BY <3>1, <3>2, <3>5, Aged
  <2> QED
    BY <2>1, <2>2, <2>3, <1>1 DEF RestartOf, GuessOf
<1>8. ASSUME NEW s \in Source, LoginWrong(s) PROVE LkInv' /\ RestartOf /\ StaysOf /\ GuessOf
  <2>1. LkInv'
    BY <1>8, LoginWrongOK
  <2>2. ~MustWait(s) /\ restarted' = restarted /\ lock'.devices = lock.devices
    BY <1>8 DEF LoginWrong, FailsSaved, GuessFailed, Save
  <2>3. GuessOf
    BY <2>2, WaitIsLong DEF GuessOf
  <2> QED
    BY <2>1, <2>2, <2>3 DEF RestartOf, StaysOf, SignedIn
<1>9. ASSUME NEW t \in 1..Len(spentTokens), Use(t) PROVE LkInv' /\ RestartOf /\ StaysOf /\ GuessOf
  <2>1. guesses' = guesses /\ restarted' = restarted
    BY <1>9 DEF Use
  <2> QED
    BY <2>1, <1>1, <1>9, UseOK DEF RestartOf, StaysOf, GuessOf
<1>10. ASSUME NEW out \in SUBSET lock.devices, SignOut(out) PROVE LkInv' /\ RestartOf /\ StaysOf /\ GuessOf
  <2>1. guesses' = guesses /\ restarted' = restarted
    BY <1>10 DEF SignOut
  <2> QED
    BY <2>1, <1>1, <1>10, SignOutOK DEF RestartOf, StaysOf, GuessOf
<1>11. CASE UNCHANGED lkVars
  BY <1>0, <1>1, <1>11 DEF lkVars, LkInv, LkEach, LetIn, Counted, RunLength, TableIsBounded,
                       RestartOf, StaysOf, SignedIn, GuessOf
<1> QED
  BY <1>3, <1>4, <1>5, <1>6, <1>7, <1>8, <1>9, <1>10, <1>11 DEF LkNext

LEMMA LkInvMeans == LkInv => LkTypeOK /\ SignedInByThisPin /\ TableIsBounded
<1>1. LkInv => SignedInByThisPin
  BY DEF LkInv, LetIn, SignedInByThisPin, SignedIn
<1> QED
  BY <1>1, LkEachIsTyped DEF LkInv

\* The lock remembers, over restarts, whom it let in and how often it refused,
\* if what it saves reaches the disk.
THEOREM LockKeepsRemembering == SavesPin => (LkSpec => []LkTypeOK /\ LockRemembers)
<1> SUFFICES ASSUME SavesPin PROVE LkSpec => []LkTypeOK /\ LockRemembers
  OBVIOUS
<1>1. LkInv /\ [LkNext]_lkVars => LkInv' /\ RestartOf /\ StaysOf /\ GuessOf
  BY LkStepOK
<1>2. LkInv => LkTypeOK /\ SignedInByThisPin /\ TableIsBounded
  BY LkInvMeans
<1>3. RestartOf /\ StaysOf /\ GuessOf =>
        /\ [restarted' # restarted => lock' = lock]_lkVars
        /\ [\A t \in SignedIn : t \notin {d.token : d \in lock'.devices} =>
             spentTokens'[t].out \/ lock'.pin # spentTokens[t].pin \/ ticks - spentTokens[t].at >= TTL - Refresh]_lkVars
        /\ [(Len(guesses') > Len(guesses) /\ RunLength > Global.free) =>
             ticks - guesses[Len(guesses)] >= Smaller(Doubled(Global.base, RunLength - Global.free - 1), Global.max)]_lkVars
  BY DEF RestartOf, StaysOf, GuessOf
<1> QED
  BY <1>1, <1>2, <1>3, LkInitOK, PTL
     DEF LkSpec, LockRemembers, RestartForgetsNothing, UsedStaysIn, GuessesAreFew

-----------------------------------------------------------------------------
(* What a provider is asked. *)

\* The names that are used are what the recursion says.
LEMMA UsedMeans ==
  ASSUME NEW offer
  PROVE  /\ Used(offer)[0] = {}
         /\ \A n \in Nat : Used(offer)[n + 1] = Used(offer)[n] \cup {Unused(offer[n + 1], Used(offer)[n])}
<1> DEFINE Next(n, U) == U \cup {Unused(offer[n], U)}
           Def(f) == [n \in Nat |-> IF n = 0 THEN {} ELSE f[n - 1] \cup {Unused(offer[n], f[n - 1])}]
           Path(f, n) == f[0] = {} /\ \A k \in 1..n : f[k] = Next(k, f[k - 1])
           S == {n \in Nat : \E f : Path(f, n)}
<1> HIDE DEF Next
<1>1. \A n \in Nat : n \in S
  <2>1. 0 \in S
    <3>1. Path([k \in 0..0 |-> {}], 0)
      OBVIOUS
    <3> HIDE DEF Path
    <3> QED
      BY <3>1, 0 \in Nat, Zenon
  <2>2. ASSUME NEW n \in Nat, n \in S PROVE n + 1 \in S
    <3>1. PICK f : Path(f, n)
      BY <2>2
    <3> DEFINE g == [k \in 0..(n + 1) |-> IF k = n + 1 THEN Next(n + 1, f[n]) ELSE f[k]]
    <3>3. g[0] = {}
      BY <3>1
    <3>4. ASSUME NEW k \in 1..(n + 1) PROVE g[k] = Next(k, g[k - 1])
      <4>1. CASE k = n + 1
        <5>1. k - 1 = n /\ n \in 0..(n + 1) /\ n # n + 1 /\ k \in 0..(n + 1)
          BY <4>1
        <5> QED
          BY <5>1, <4>1
      <4>2. CASE k # n + 1
        <5>1. k \in 1..n /\ k - 1 \in 0..n /\ k - 1 # n + 1
          BY <4>2
        <5>2. g[k] = f[k] /\ g[k - 1] = f[k - 1]
          BY <5>1, <4>2
        <5> QED
          BY <5>1, <5>2, <3>1
      <4> QED
        BY <4>1, <4>2
    <3>5. Path(g, n + 1)
      <4> HIDE DEF g
      <4> QED
        BY <3>3, <3>4
    <3> HIDE DEF Path, g
    <3> QED
      BY <3>5, n + 1 \in Nat, Zenon
  <2> HIDE DEF S
  <2> QED
    BY <2>1, <2>2, InductionOnNat
<1>2. ASSUME NEW m \in Nat, NEW n \in Nat, m <= n, NEW f, Path(f, m), NEW g, Path(g, n) PROVE f[m] = g[m]
  <2> DEFINE T == {k \in Nat : k <= m => f[k] = g[k]}
  <2>1. 0 \in T
    BY <1>2
  <2>2. ASSUME NEW k \in Nat, k \in T PROVE k + 1 \in T
    <3> SUFFICES ASSUME k + 1 <= m PROVE f[k + 1] = g[k + 1]
      OBVIOUS
    <3>1. k + 1 \in 1..m /\ k + 1 \in 1..n /\ (k + 1) - 1 = k
      BY <1>2
    <3>2. f[k] = g[k]
      BY <2>2, <3>1
    <3> QED
      BY <3>1, <3>2, <1>2
  <2>3. \A k \in Nat : k \in T
    <3> HIDE DEF T
    <3> QED
      BY <2>1, <2>2, InductionOnNat
  <2>4. m \in T
    BY <2>3
  <2> QED
    BY <2>4
<1> DEFINE Of(n) == CHOOSE f : Path(f, n)
           F == [n \in Nat |-> Of(n)[n]]
<1>3. \A n \in Nat : Path(Of(n), n)
  BY <1>1
<1> HIDE DEF Of
<1>4. F[0] = {}
  <2>1. Path(Of(0), 0)
    BY <1>3
  <2> QED
    BY <2>1
<1>6. ASSUME NEW n \in Nat PROVE F[n + 1] = Next(n + 1, F[n])
  <2>1. Path(Of(n), n) /\ Path(Of(n + 1), n + 1)
    <3> HIDE DEF Path
    <3> QED
      BY <1>3, n + 1 \in Nat
  <2>2. Of(n + 1)[n] = Of(n)[n]
    <3> HIDE DEF Path, Of
    <3> QED
      BY <2>1, <1>2, n + 1 \in Nat, n <= n + 1
  <2>3. n + 1 \in 1..(n + 1) /\ (n + 1) - 1 = n
    OBVIOUS
  <2>4. Of(n + 1)[n + 1] = Next(n + 1, Of(n + 1)[n])
    BY <2>1, <2>3
  <2> QED
    BY <2>2, <2>4
<1>7. F = Def(F)
  <2> HIDE DEF F
  <2>1. \A n \in Nat : F[n] = IF n = 0 THEN {} ELSE F[n - 1] \cup {Unused(offer[n], F[n - 1])}
    <3> TAKE n \in Nat
    <3>1. CASE n = 0
      BY <3>1, <1>4
    <3>2. CASE n # 0
      <4>1. n - 1 \in Nat /\ (n - 1) + 1 = n
        BY <3>2
      <4> QED
        BY <4>1, <1>6, <3>2 DEF Next
    <3> QED
      BY <3>1, <3>2
  <2>2. F = [n \in Nat |-> F[n]]
    BY DEF F
  <2> QED
    BY <2>1, <2>2
<1> DEFINE D == CHOOSE f : f = Def(f)
<1>8. D = Def(D)
  <2> HIDE DEF F, Def
  <2> QED
    BY <1>7
<1>9. Used(offer) = D
  BY DEF Used
<1> HIDE DEF D
<1>10. D[0] = {}
  BY <1>8
<1>11. \A n \in Nat : D[n + 1] = D[n] \cup {Unused(offer[n + 1], D[n])}
  <2> TAKE n \in Nat
  <2>1. n + 1 \in Nat /\ n + 1 # 0 /\ (n + 1) - 1 = n
    OBVIOUS
  <2> QED
    BY <2>1, <1>8
<1> QED
  BY <1>9, <1>10, <1>11

\* They are no more than the tools that have got theirs, and none is given back.
LEMMA UsedAreFew ==
  ASSUME NEW offer
  PROVE  \A n \in Nat : IsFiniteSet(Used(offer)[n]) /\ Cardinality(Used(offer)[n]) <= n
<1> DEFINE U == Used(offer)
           S == {n \in Nat : IsFiniteSet(U[n]) /\ Cardinality(U[n]) <= n}
<1> HIDE DEF U
<1>1. 0 \in S
  BY UsedMeans, FS_EmptySet DEF U
<1>2. ASSUME NEW n \in Nat, n \in S PROVE n + 1 \in S
  <2>1. U[n + 1] = U[n] \cup {Unused(offer[n + 1], U[n])}
    BY UsedMeans DEF U
  <2>2. IsFiniteSet(U[n]) /\ Cardinality(U[n]) <= n /\ Cardinality(U[n]) \in Nat
    BY <1>2, FS_CardinalityType
  <2>3. IsFiniteSet(U[n + 1]) /\ (Cardinality(U[n + 1]) = Cardinality(U[n]) \/ Cardinality(U[n + 1]) = Cardinality(U[n]) + 1)
    BY <2>1, <2>2, FS_AddElement
  <2> QED
    BY <2>2, <2>3
<1>3. \A n \in Nat : n \in S
  <2> HIDE DEF S
  <2> QED
    BY <1>1, <1>2, InductionOnNat
<1> QED
  BY <1>3 DEF U

LEMMA UsedGrow ==
  ASSUME NEW offer, NEW m \in Nat, NEW n \in Nat, m <= n
  PROVE  Used(offer)[m] \subseteq Used(offer)[n]
<1> DEFINE S == {k \in Nat : Used(offer)[m] \subseteq Used(offer)[m + k]}
<1>1. 0 \in S
  OBVIOUS
<1>2. ASSUME NEW k \in Nat, k \in S PROVE k + 1 \in S
  <2>1. m + k \in Nat /\ m + (k + 1) = (m + k) + 1
    OBVIOUS
  <2>2. Used(offer)[m + k] \subseteq Used(offer)[m + (k + 1)]
    BY <2>1, UsedMeans
  <2> QED
    BY <1>2, <2>2
<1>3. \A k \in Nat : k \in S
  <2> HIDE DEF S
  <2> QED
    BY <1>1, <1>2, InductionOnNat
<1>4. n - m \in S /\ m + (n - m) = n
  BY <1>3
<1> QED
  BY <1>4

\* A tool's name is not taken: with fewer names used than a list of tools is long,
\* one of its numbers is free.
LEMMA UnusedIsNew ==
  ASSUME NEW t \in Tool, NEW U, IsFiniteSet(U), Cardinality(U) < MaxOffer
  PROVE  Unused(t, U) \notin U
<1>1. CASE Brief[t] \notin U
  BY <1>1 DEF Unused
<1>2. CASE Brief[t] \in U
  <2> DEFINE Spare == {n \in 1..MaxOffer : Suffixed[t][n] \notin U}
  <2>1. MaxOffer \in Nat /\ \A i, j \in 1..MaxOffer : Suffixed[t][i] = Suffixed[t][j] => i = j
    BY RequestAssumption
  <2>2. Spare # {}
    <3> SUFFICES ASSUME Spare = {} PROVE FALSE
      OBVIOUS
    <3> DEFINE f == [n \in 1..MaxOffer |-> Suffixed[t][n]]
    <3>1. f \in [1..MaxOffer -> U]
      OBVIOUS
    <3>2. f \in Injection(1..MaxOffer, U)
      BY <3>1, <2>1 DEF Injection, IsInjective
    <3>3. IsFiniteSet(1..MaxOffer) /\ Cardinality(1..MaxOffer) = MaxOffer
      BY <2>1, FS_Interval
    <3>4. Cardinality(1..MaxOffer) <= Cardinality(U)
      BY <3>2, <3>3, FS_Injection
    <3> QED
      BY <3>3, <3>4, FS_CardinalityType, <2>1
  <2>3. PICK n \in Spare : \A m \in Spare : ~(m < n)
    BY <2>2, LeastNat, Spare \in SUBSET Nat
  <2>4. n \in 1..MaxOffer /\ Suffixed[t][n] \notin U /\ \A m \in 1..(n - 1) : Suffixed[t][m] \in U
    <3>1. ASSUME NEW m \in 1..(n - 1) PROVE Suffixed[t][m] \in U
      <4>1. m \in 1..MaxOffer /\ m < n
        BY <2>1
      <4> QED
        BY <4>1, <2>3
    <3> QED
      BY <3>1
  <2> DEFINE c == CHOOSE k \in 1..MaxOffer : Suffixed[t][k] \notin U /\ \A m \in 1..(k - 1) : Suffixed[t][m] \in U
  <2>5. c \in 1..MaxOffer /\ Suffixed[t][c] \notin U
    BY <2>4
  <2>6. Unused(t, U) = Suffixed[t][c]
    BY <1>2 DEF Unused
  <2> QED
    BY <2>5, <2>6
<1> QED
  BY <1>1, <1>2

LEMMA OfferIs ==
  ASSUME NEW offer \in Offers
  PROVE  /\ offer \in Seq(Tool) /\ Len(offer) \in Nat /\ Len(offer) <= MaxOffer /\ MaxOffer \in Nat
         /\ \A k \in 1..Len(offer) : offer[k] \in Tool
         /\ \A i, j \in 1..Len(offer) : offer[i] = offer[j] => i = j
<1>1. offer \in Seq(Tool) /\ Len(offer) <= MaxOffer /\ MaxOffer \in Nat
  BY RequestAssumption
<1>2. \A i, j \in 1..Len(offer) : offer[i] = offer[j] => i = j
  BY RequestAssumption
<1> QED
  BY <1>1, <1>2, LenProperties, ElementOfSeq

\* Each tool that is offered has a name of its own.
LEMMA NamesAreApart ==
  ASSUME NEW offer \in Offers
  PROVE  /\ DOMAIN ShortNames(offer) = 1..Len(offer)
         /\ \A i, j \in 1..Len(offer) : ShortNames(offer)[i] = ShortNames(offer)[j] => i = j
<1>1. DOMAIN ShortNames(offer) = 1..Len(offer)
  BY DEF ShortNames
<1>2. ASSUME NEW i \in 1..Len(offer), NEW j \in 1..Len(offer), i < j
      PROVE  ShortNames(offer)[i] # ShortNames(offer)[j]
  <2>1. i \in Nat /\ j \in Nat /\ i - 1 \in Nat /\ j - 1 \in Nat /\ i <= j - 1 /\ (i - 1) + 1 = i /\ j - 1 < MaxOffer /\ MaxOffer \in Nat
    BY <1>2, OfferIs
  <2>2. ShortNames(offer)[i] = Unused(offer[i], Used(offer)[i - 1]) /\ ShortNames(offer)[j] = Unused(offer[j], Used(offer)[j - 1])
    BY DEF ShortNames
  <2>3. Unused(offer[i], Used(offer)[i - 1]) \in Used(offer)[i]
    <3>1. Used(offer)[(i - 1) + 1] = Used(offer)[i - 1] \cup {Unused(offer[(i - 1) + 1], Used(offer)[i - 1])}
      BY <2>1, UsedMeans
    <3> QED
      BY <2>1, <3>1
  <2>4. Used(offer)[i] \subseteq Used(offer)[j - 1]
    BY <2>1, UsedGrow
  <2>5. IsFiniteSet(Used(offer)[j - 1]) /\ Cardinality(Used(offer)[j - 1]) <= j - 1 /\ Cardinality(Used(offer)[j - 1]) \in Nat
    BY <2>1, UsedAreFew, FS_CardinalityType
  <2>6. offer[j] \in Tool /\ Cardinality(Used(offer)[j - 1]) < MaxOffer
    BY <2>1, <2>5, OfferIs
  <2>7. Unused(offer[j], Used(offer)[j - 1]) \notin Used(offer)[j - 1]
    BY <2>5, <2>6, UnusedIsNew
  <2> QED
    BY <2>2, <2>3, <2>4, <2>7
<1>3. ASSUME NEW i \in 1..Len(offer), NEW j \in 1..Len(offer), ShortNames(offer)[i] = ShortNames(offer)[j] PROVE i = j
  <2>1. i < j \/ i = j \/ j < i
    OBVIOUS
  <2> QED
    BY <2>1, <1>2, <1>3
<1> QED
  BY <1>1, <1>3

\* A tool's name stands for that tool.
LEMMA ToolOfName ==
  ASSUME NEW offer \in Offers, NEW k \in 1..Len(offer)
  PROVE  ToolOf(ShortNames(offer), offer, ShortNames(offer)[k]) = offer[k]
<1> DEFINE names == ShortNames(offer)
           c == CHOOSE i \in DOMAIN names : names[i] = names[k]
<1>1. DOMAIN names = 1..Len(offer) /\ \A i, j \in 1..Len(offer) : names[i] = names[j] => i = j
  BY NamesAreApart
<1> HIDE DEF names
<1>2. c \in 1..Len(offer) /\ names[c] = names[k]
  BY <1>1
<1>3. c = k
  <2> HIDE DEF c
  <2> QED
    BY <1>1, <1>2
<1>4. ToolOf(names, offer, names[k]) = offer[c]
  BY DEF ToolOf
<1> QED
  BY <1>3, <1>4 DEF names

\* What was called before goes by the name it is offered under.
LEMMA NameInOffer ==
  ASSUME NEW offer \in Offers, NEW k \in 1..Len(offer)
  PROVE  NameIn(offer, offer[k]) = ShortNames(offer)[k]
<1> DEFINE c == CHOOSE i \in 1..Len(offer) : offer[i] = offer[k]
<1>1. c \in 1..Len(offer) /\ offer[c] = offer[k]
  OBVIOUS
<1>2. c = k
  <2> HIDE DEF c
  <2> QED
    BY <1>1, OfferIs
<1>3. NameIn(offer, offer[k]) = ShortNames(offer)[c]
  BY DEF NameIn
<1> QED
  BY <1>2, <1>3

-----------------------------------------------------------------------------
Hows == {"none", "retry", "final"}
Whys == {"none", "window", "login", "overflow", "exhausted", "nomodel", "busy", "unauthorized", "dropped"}

RqEach ==
    /\ talk \in Seq(MessageType) /\ runsOn \in Proxies \cup {"other"} /\ asksFor \in Families
    /\ turn \in {"rest", "ask", "sent", "told"} /\ told \in [how : Hows, why : Whys]
    /\ tries \in Nat /\ moves \in Nat /\ (meant = NoReply \/ meant \in MessageType)

\* A result follows right on its call.
Paired == \A k \in 1..Len(talk) : talk[k].answers # {} => k > 1 /\ talk[k].answers \subseteq talk[k - 1].calls

\* What is under way was built from the conversation as it is.
SentIs ==
    turn = "sent" =>
        /\ runsOn \in Proxies /\ Kept # 0
        /\ \E offer \in Offers : \E stream \in BOOLEAN : sent = Built(runsOn, Kept, offer, stream)

\* Why it was told, and why it is asked again.
ToldWhy ==
    /\ told.how = "retry" => told.why \in {"busy", "dropped"}
    /\ told.how = "final" => told.why \in {"window", "login", "overflow", "exhausted", "nomodel"}
    /\ tries > 0 /\ turn # "told" => told.how = "retry"
    /\ turn = "told" /\ told.why = "window" => runsOn \in Proxies /\ Kept = 0

Begun == turn # "rest" => talk # <<>>

RqInv == RqEach /\ Paired /\ SentIs /\ ToldWhy /\ Begun /\ HeardWhole

LEMMA TalkIs ==
  ASSUME talk \in Seq(MessageType)
  PROVE  /\ Len(talk) \in Nat /\ \A k \in 1..Len(talk) : talk[k] \in MessageType
         /\ Total \in Nat /\ Awaited \in SUBSET Call
         /\ talk # <<>> => Len(talk) \in 1..Len(talk)
<1>1. Len(talk) \in Nat /\ \A k \in 1..Len(talk) : talk[k] \in MessageType
  BY LenProperties, ElementOfSeq
<1>2. talk # <<>> => Len(talk) \in 1..Len(talk)
  BY <1>1, EmptySeq
<1>3. Total \in Nat
  <2>1. CASE talk = <<>>
    BY <2>1 DEF Total
  <2>2. CASE talk # <<>>
    <3>1. talk[Len(talk)] \in MessageType
      BY <1>1, <1>2, <2>2
    <3>2. talk[Len(talk)].upto \in Nat
      BY <3>1 DEF MessageType
    <3> QED
      BY <3>2, <2>2 DEF Total
  <2> QED
    BY <2>1, <2>2
<1>4. Awaited \in SUBSET Call
  <2>1. CASE talk = <<>>
    BY <2>1 DEF Awaited
  <2>2. CASE talk # <<>>
    <3>1. talk[Len(talk)] \in MessageType
      BY <1>1, <1>2, <2>2
    <3>2. talk[Len(talk)].calls \in SUBSET Call
      BY <3>1 DEF MessageType
    <3> QED
      BY <3>2, <2>2 DEF Awaited
  <2> QED
    BY <2>1, <2>2
<1> QED
  BY <1>1, <1>2, <1>3, <1>4

LEMMA MessageOK ==
  ASSUME talk \in Seq(MessageType), NEW role \in {"user", "assistant", "system"}, NEW by \in Signature,
         NEW made \in SUBSET Call, NEW answers \in SUBSET Call, NEW w \in Weight
  PROVE  /\ Message(role, by, made, answers, w) \in MessageType
         /\ Message(role, by, made, answers, w).answers = answers
         /\ Message(role, by, made, answers, w) # NoReply
<1>1. Total + w \in Nat
  BY TalkIs, RequestAssumption
<1>2. Message(role, by, made, answers, w) = [role |-> role, by |-> by, calls |-> made, answers |-> answers, upto |-> Total + w]
  BY DEF Message
<1> QED
  BY <1>1, <1>2 DEF MessageType, NoReply

LEMMA AddedOK ==
  ASSUME talk \in Seq(MessageType), Paired, NEW m \in MessageType, talk' = Append(talk, m),
         m.answers # {} => m.answers \subseteq Awaited
  PROVE  talk' \in Seq(MessageType) /\ Paired' /\ talk' # <<>> /\ talk'[Len(talk')] = m
<1>1. /\ talk' \in Seq(MessageType) /\ Len(talk') = Len(talk) + 1 /\ Len(talk) \in Nat
      /\ talk'[Len(talk) + 1] = m /\ \A k \in 1..Len(talk) : talk'[k] = talk[k]
  BY AppendProperties, LenProperties
<1>2. talk' # <<>>
  BY <1>1, EmptySeq
<1>3. Paired'
  <2> SUFFICES ASSUME NEW k \in 1..Len(talk'), talk'[k].answers # {}
               PROVE  k > 1 /\ talk'[k].answers \subseteq talk'[k - 1].calls
    BY DEF Paired
  <2>1. CASE k \in 1..Len(talk)
    <3>1. talk[k].answers # {} /\ talk'[k] = talk[k]
      BY <2>1, <1>1
    <3>2. k > 1 /\ talk[k].answers \subseteq talk[k - 1].calls
      BY <3>1, <2>1 DEF Paired
    <3>3. k - 1 \in 1..Len(talk)
      BY <3>2, <2>1, <1>1
    <3> QED
      BY <3>1, <3>2, <3>3, <1>1
  <2>2. CASE k = Len(talk) + 1
    <3>1. m.answers # {} /\ m.answers \subseteq Awaited
      BY <2>2, <1>1
    <3>2. talk # <<>>
      BY <3>1 DEF Awaited
    <3>3. Awaited = talk[Len(talk)].calls
      BY <3>2 DEF Awaited
    <3>4. Len(talk) \in 1..Len(talk)
      BY <3>2, TalkIs
    <3>5. k - 1 = Len(talk) /\ k > 1
      BY <2>2, <3>4, <1>1
    <3> QED
      BY <3>1, <3>3, <3>4, <3>5, <2>2, <1>1
  <2> QED
    BY <2>1, <2>2, <1>1
<1> QED
  BY <1>1, <1>2, <1>3

\* The first message that is kept: whole turns from there on are what fits, and no
\* more of them would.
LEMMA KeptMeans ==
  ASSUME talk \in Seq(MessageType), talk # <<>>, NEW w \in Nat
  PROVE  /\ KeptFrom(w) # 0 =>
              /\ KeptFrom(w) \in 1..Len(talk) /\ MayBegin(KeptFrom(w)) /\ Size(KeptFrom(w)) <= w
              /\ \A k \in 1..(KeptFrom(w) - 1) : MayBegin(k) => Size(k) > w
         /\ KeptFrom(w) = 0 => \A k \in 1..Len(talk) : MayBegin(k) => Size(k) > w
<1>1. Len(talk) \in Nat /\ 1 \in 1..Len(talk)
  BY TalkIs
<1>2. \A k \in 1..Len(talk) : Size(k) \in Int
  <2> TAKE k \in 1..Len(talk)
  <2>1. Overhead \in Nat /\ Total \in Nat
    BY TalkIs, RequestAssumption
  <2>2. CASE k = 1
    BY <2>1, <2>2 DEF Size
  <2>3. CASE k # 1
    <3>1. k - 1 \in 1..Len(talk)
      BY <2>3, <1>1
    <3>2. talk[k - 1] \in MessageType
      BY <3>1, TalkIs
    <3>3. talk[k - 1].upto \in Nat
      BY <3>2 DEF MessageType
    <3> QED
      BY <2>1, <2>3, <3>3 DEF Size
  <2> QED
    BY <2>2, <2>3
<1>3. CASE Size(1) <= w
  <2>1. KeptFrom(w) = 1
    BY <1>3 DEF KeptFrom
  <2> QED
    BY <2>1, <1>1, <1>3 DEF MayBegin
<1>4. CASE ~(Size(1) <= w) /\ Fitting(w) = {}
  <2>1. KeptFrom(w) = 0
    BY <1>4 DEF KeptFrom
  <2>2. ASSUME NEW k \in 1..Len(talk), MayBegin(k) PROVE Size(k) > w
    <3>1. CASE k = 1
      BY <3>1, <1>4, <1>2
    <3>2. CASE k # 1
      <4>1. k \in 2..Len(talk) /\ CleanStart(talk[k])
        BY <3>2, <2>2, <1>1 DEF MayBegin
      <4>2. ~(Size(k) <= w)
        BY <4>1, <1>4 DEF Fitting
      <4> QED
        BY <4>2, <1>2
    <3> QED
      BY <3>1, <3>2
  <2> QED
    BY <2>1, <2>2
<1>5. CASE ~(Size(1) <= w) /\ Fitting(w) # {}
  <2>1. Fitting(w) \in SUBSET Nat /\ Fitting(w) \subseteq 2..Len(talk)
    BY <1>1 DEF Fitting
  <2>2. PICK x \in Fitting(w) : \A y \in Fitting(w) : ~(y < x)
    BY <2>1, <1>5, LeastNat
  <2>3. x \in Fitting(w) /\ \A j \in Fitting(w) : x <= j
    <3>1. ASSUME NEW j \in Fitting(w) PROVE x <= j
      <4>1. j \in Nat /\ x \in Nat /\ ~(j < x)
        BY <2>1, <2>2
      <4> QED
        BY <4>1
    <3> QED
      BY <3>1
  <2> DEFINE c == CHOOSE k \in Fitting(w) : \A j \in Fitting(w) : k <= j
  <2>4. c \in Fitting(w) /\ \A j \in Fitting(w) : c <= j
    BY <2>3
  <2>5. KeptFrom(w) = c
    BY <1>5 DEF KeptFrom
  <2> HIDE DEF c
  <2>6. c \in 2..Len(talk) /\ CleanStart(talk[c]) /\ Size(c) <= w
    BY <2>4 DEF Fitting
  <2>7. ASSUME NEW k \in 1..(c - 1), MayBegin(k) PROVE Size(k) > w
    <3>1. k \in 1..Len(talk) /\ k < c
      BY <2>6, <1>1
    <3>2. CASE k = 1
      BY <3>2, <1>5, <1>2, <3>1
    <3>3. CASE k # 1
      <4>1. k \in 2..Len(talk) /\ CleanStart(talk[k])
        BY <3>3, <3>1, <2>7, <1>1 DEF MayBegin
      <4>2. k \notin Fitting(w)
        <5> SUFFICES ASSUME k \in Fitting(w) PROVE FALSE
          OBVIOUS
        <5>1. c <= k /\ c \in Int /\ k \in Int
          BY <2>4, <2>6
        <5> QED
          BY <5>1, <3>1
      <4>3. ~(Size(k) <= w)
        BY <4>1, <4>2 DEF Fitting
      <4> QED
        BY <4>3, <1>2, <3>1
    <3> QED
      BY <3>2, <3>3
  <2>8. c # 0 /\ c \in 1..Len(talk) /\ MayBegin(c)
    BY <2>6, <1>1 DEF MayBegin
  <2> QED
    BY <2>5, <2>6, <2>7, <2>8
<1> QED
  BY <1>3, <1>4, <1>5

LEMMA ModelIs == ASSUME NEW p PROVE ModelOrFallback(p) = p
  BY DEF ModelOrFallback

\* Of a provider's reasoning its own is replayed to it, and no other's.
LEMMA ReplayedIs ==
  ASSUME Strangers = {}, NEW m \in MessageType, NEW p \in Proxies
  PROVE  /\ Replayed(m, p) \in {"none", p}
         /\ m.role = "assistant" /\ m.by = p => Replayed(m, p) = p
<1>1. m.by \in {"none", "claude", "gemini", "codex#", "codex", "grok"}
  BY DEF MessageType, Signature, Foreign, Proxies
<1>2. /\ IsValidGPTReasoningSignature("codex") /\ ~IsValidGPTReasoningSignature("none")
      /\ ~IsValidGPTReasoningSignature("claude") /\ ~IsValidGPTReasoningSignature("gemini")
      /\ ~IsValidGPTReasoningSignature("grok")
  BY RequestAssumption DEF IsValidGPTReasoningSignature
<1>3. IsValidClaudeThinkingSignature("claude") /\ ~IsValidClaudeThinkingSignature("grok")
  BY RequestAssumption DEF IsValidClaudeThinkingSignature
<1>4. IsValidGeminiThoughtSignature("gemini") /\ ~IsValidGeminiThoughtSignature("grok")
  BY RequestAssumption DEF IsValidGeminiThoughtSignature
<1>5. IsValidGrokEncryptedContent("grok") /\ \A s \in {"none", "claude", "gemini", "codex#", "codex"} : ~IsValidGrokEncryptedContent(s)
  BY <1>3, <1>4, RequestAssumption DEF IsValidGrokEncryptedContent
<1>6. CASE p = "grok"
  BY <1>1, <1>5, <1>6 DEF Replayed, GrokSignature
<1>7. CASE p = "codex"
  <2>1. \A s \in {"codex", "codex#"} : GptSignature(s) = "codex"
    BY <1>2 DEF GptSignature, Detected, Payload
  <2>2. \A s \in {"none", "claude", "gemini", "grok"} : GptSignature(s) = "none"
    BY <1>2 DEF GptSignature, Detected, Payload
  <2> QED
    BY <1>1, <1>7, <2>1, <2>2 DEF Replayed
<1> QED
  BY <1>6, <1>7 DEF Proxies

-----------------------------------------------------------------------------
\* What is sent, from what there is.
LEMMA SentMeans ==
  ASSUME RqInv, turn = "sent"
  PROVE  /\ runsOn \in Proxies /\ Kept # 0 /\ Kept = KeptFrom(ModelWindow[runsOn]) /\ ModelWindow[runsOn] \in Nat
         /\ talk \in Seq(MessageType) /\ talk # <<>> /\ Kept \in 1..Len(talk) /\ MayBegin(Kept)
         /\ \E offer \in Offers : \E stream \in BOOLEAN :
               /\ sent = Built(runsOn, Kept, offer, stream)
               /\ sent.input = [k \in Kept..Len(talk) |-> Translated(talk[k], runsOn, offer)]
               /\ sent.to = runsOn /\ sent.first = Kept /\ sent.offer = offer /\ sent.stream = stream
               /\ sent.names = ShortNames(offer) /\ sent.choice = HasChoice(offer)
               /\ sent.model = runsOn /\ sent.draws = Draws(runsOn)
<1>1. runsOn \in Proxies /\ Kept # 0 /\ talk \in Seq(MessageType) /\ talk # <<>>
  BY DEF RqInv, SentIs, RqEach, Begun
<1>2. ModelOrFallback(runsOn) = runsOn
  BY ModelIs
<1>3. Kept = KeptFrom(ModelWindow[runsOn])
  BY <1>2 DEF Kept
<1>4. ModelWindow[runsOn] \in Nat
  BY <1>1, RequestAssumption DEF Families
<1>5. Kept \in 1..Len(talk) /\ MayBegin(Kept)
  BY <1>1, <1>3, <1>4, KeptMeans
<1>6. PICK offer \in Offers, stream \in BOOLEAN : sent = Built(runsOn, Kept, offer, stream)
  BY DEF RqInv, SentIs
<1>7. sent = [to |-> runsOn, model |-> runsOn, first |-> Kept, stream |-> stream,
              input |-> [k \in Kept..Len(talk) |-> Translated(talk[k], runsOn, offer)],
              offer |-> offer, names |-> ShortNames(offer), choice |-> HasChoice(offer), draws |-> Draws(runsOn)]
  BY <1>2, <1>6 DEF Built
<1>8. /\ sent.input = [k \in Kept..Len(talk) |-> Translated(talk[k], runsOn, offer)]
      /\ sent.to = runsOn /\ sent.first = Kept /\ sent.offer = offer /\ sent.stream = stream
      /\ sent.names = ShortNames(offer) /\ sent.choice = HasChoice(offer)
      /\ sent.model = runsOn /\ sent.draws = Draws(runsOn)
  BY <1>7
<1> QED
  BY <1>1, <1>3, <1>4, <1>5, <1>6, <1>8

LEMMA Pairing == RqInv => CallsArePaired
<1> SUFFICES ASSUME RqInv, turn = "sent", NEW k \in DOMAIN sent.input, NEW c \in sent.input[k].outputs
             PROVE  \E j \in DOMAIN sent.input : j < k /\ \E call \in sent.input[j].calls : call.id = c
  BY DEF CallsArePaired
<1>1. PICK offer \in Offers : sent.input = [j \in Kept..Len(talk) |-> Translated(talk[j], runsOn, offer)]
  BY SentMeans
<1>2. Kept \in 1..Len(talk) /\ MayBegin(Kept) /\ Len(talk) \in Nat
  BY SentMeans, TalkIs
<1>3. DOMAIN sent.input = Kept..Len(talk) /\ k \in Kept..Len(talk) /\ k \in 1..Len(talk)
  BY <1>1, <1>2
<1>4. sent.input[k] = Translated(talk[k], runsOn, offer)
  BY <1>1, <1>3
<1>5. c \in talk[k].answers
  BY <1>4 DEF Translated
<1>6. k > 1 /\ talk[k].answers \subseteq talk[k - 1].calls
  BY <1>3, <1>5 DEF RqInv, Paired
<1>7. k # Kept
  BY <1>2, <1>5, <1>6 DEF MayBegin, CleanStart
<1>8. k - 1 \in Kept..Len(talk) /\ k - 1 < k
  BY <1>2, <1>3, <1>7
<1>9. sent.input[k - 1] = Translated(talk[k - 1], runsOn, offer)
  BY <1>1, <1>8
<1>10. [id |-> c, name |-> NameIn(offer, c.tool)] \in sent.input[k - 1].calls
  BY <1>5, <1>6, <1>9 DEF Translated
<1> QED
  BY <1>3, <1>8, <1>10

LEMMA Reasoning == Strangers = {} /\ RqInv => ReasoningGoesHome
<1> SUFFICES ASSUME Strangers = {}, RqInv, turn = "sent", NEW k \in DOMAIN sent.input
             PROVE  /\ sent.input[k].reasoning \in {"none", runsOn}
                    /\ talk[k].role = "assistant" /\ talk[k].by = runsOn => sent.input[k].reasoning = runsOn
  BY DEF ReasoningGoesHome
<1>1. PICK offer \in Offers : sent.input = [j \in Kept..Len(talk) |-> Translated(talk[j], runsOn, offer)]
  BY SentMeans
<1>2. Kept \in 1..Len(talk) /\ runsOn \in Proxies /\ Len(talk) \in Nat
  BY SentMeans, TalkIs
<1>3. k \in Kept..Len(talk) /\ k \in 1..Len(talk)
  BY <1>1, <1>2
<1>4. sent.input[k].reasoning = Replayed(talk[k], runsOn)
  BY <1>1, <1>3 DEF Translated
<1>5. talk[k] \in MessageType
  BY <1>3, SentMeans, TalkIs
<1> QED
  BY <1>2, <1>4, <1>5, ReplayedIs

LEMMA Asking == RqInv => AsksForWhatIsThere
<1> SUFFICES ASSUME RqInv, turn = "sent"
             PROVE  /\ sent.model = runsOn
                    /\ sent.draws => runsOn = "codex"
                    /\ sent.choice => sent.names # <<>>
                    /\ \A i, j \in DOMAIN sent.names : sent.names[i] = sent.names[j] => i = j
                    /\ \A k \in DOMAIN sent.input : \A c \in sent.input[k].calls : \A i \in DOMAIN sent.names :
                           sent.offer[i] = c.id.tool => c.name = sent.names[i]
  BY DEF AsksForWhatIsThere
<1>1. PICK offer \in Offers :
         /\ sent.input = [j \in Kept..Len(talk) |-> Translated(talk[j], runsOn, offer)]
         /\ sent.offer = offer /\ sent.names = ShortNames(offer) /\ sent.choice = HasChoice(offer)
         /\ sent.model = runsOn /\ sent.draws = Draws(runsOn)
  BY SentMeans
<1>2. sent.draws => runsOn = "codex"
  BY <1>1 DEF Draws
<1>3. DOMAIN sent.names = 1..Len(offer) /\ \A i, j \in DOMAIN sent.names : sent.names[i] = sent.names[j] => i = j
  BY <1>1, NamesAreApart
<1>4. sent.choice => sent.names # <<>>
  <2> SUFFICES ASSUME offer # <<>> PROVE sent.names # <<>>
    BY <1>1 DEF HasChoice
  <2>1. 1 \in 1..Len(offer)
    BY OfferIs, EmptySeq
  <2> QED
    BY <2>1, <1>3
<1>5. ASSUME NEW k \in DOMAIN sent.input, NEW c \in sent.input[k].calls, NEW i \in DOMAIN sent.names,
             sent.offer[i] = c.id.tool
      PROVE  c.name = sent.names[i]
  <2>1. sent.input[k] = Translated(talk[k], runsOn, offer)
    BY <1>1
  <2>2. PICK call \in talk[k].calls : c = [id |-> call, name |-> NameIn(offer, call.tool)]
    BY <2>1 DEF Translated
  <2>3. offer[i] = call.tool
    BY <2>2, <1>5, <1>1
  <2>4. NameIn(offer, offer[i]) = ShortNames(offer)[i]
    BY <1>3, NameInOffer
  <2> QED
    BY <2>2, <2>3, <2>4, <1>1
<1> QED
  BY <1>1, <1>2, <1>3, <1>4, <1>5

LEMMA Dropping == RqInv => LeastIsDropped
<1> SUFFICES ASSUME RqInv PROVE LeastIsDropped
  OBVIOUS
<1>1. ASSUME turn = "sent"
      PROVE  /\ MayBegin(sent.first) /\ Size(sent.first) <= ModelWindow[runsOn]
             /\ \A k \in 1..(sent.first - 1) : MayBegin(k) => Size(k) > ModelWindow[runsOn]
  <2>1. sent.first = Kept
    BY <1>1, SentMeans
  <2>2. /\ Kept # 0 /\ Kept = KeptFrom(ModelWindow[runsOn]) /\ ModelWindow[runsOn] \in Nat
        /\ talk \in Seq(MessageType) /\ talk # <<>>
    BY <1>1, SentMeans
  <2> QED
    BY <2>1, <2>2, KeptMeans
<1>2. ASSUME turn = "told", told.why = "window"
      PROVE  \A k \in 1..Len(talk) : MayBegin(k) => Size(k) > ModelWindow[runsOn]
  <2>1. runsOn \in Proxies /\ Kept = 0 /\ talk \in Seq(MessageType) /\ talk # <<>>
    BY <1>2 DEF RqInv, ToldWhy, RqEach, Begun
  <2>2. Kept = KeptFrom(ModelWindow[runsOn])
    BY ModelIs DEF Kept
  <2>3. ModelWindow[runsOn] \in Nat
    BY <2>1, RequestAssumption DEF Families
  <2> QED
    BY <2>1, <2>2, <2>3, KeptMeans
<1> QED
  BY <1>1, <1>2 DEF LeastIsDropped

LEMMA RqInvMeans == Strangers = {} /\ RqInv => RqTypeOK /\ RequestIsSound
<1> SUFFICES ASSUME Strangers = {}, RqInv PROVE RqTypeOK /\ RequestIsSound
  OBVIOUS
<1>1. ASSUME turn = "sent" PROVE sent.to = runsOn /\ sent.first \in 1..Len(talk) /\ sent.offer \in Offers
  BY <1>1, SentMeans
<1>2. told.how \in Hows
  BY DEF RqInv, RqEach
<1>3. RqTypeOK
  BY <1>1, <1>2 DEF RqTypeOK, RqInv, RqEach, Hows
<1>4. AskedAgainIfItHelps
  BY DEF AskedAgainIfItHelps, RqInv, ToldWhy
<1> QED
  BY <1>3, <1>4, Pairing, Reasoning, Asking, Dropping DEF RequestIsSound, RqInv

-----------------------------------------------------------------------------
LEMMA RqInitOK == RqInit => RqInv
<1> SUFFICES ASSUME RqInit PROVE RqInv
  OBVIOUS
<1>1. talk = <<>> /\ talk \in Seq(MessageType) /\ Len(talk) = 0
  BY EmptySeq DEF RqInit
<1>2. told = [how |-> "none", why |-> "none"]
  BY DEF RqInit, Untold
<1>3. RqEach
  BY <1>1, <1>2 DEF RqInit, RqEach, Hows, Whys
<1>4. Paired
  BY <1>1 DEF Paired
<1> QED
  BY <1>2, <1>3, <1>4 DEF RqInit, RqInv, SentIs, ToldWhy, Begun, HeardWhole

LEMMA KeptStays == ASSUME UNCHANGED <<talk, runsOn, asksFor>> PROVE Kept' = Kept
  BY DEF Kept, KeptFrom, Fitting, Size, Total, CleanStart, ModelOrFallback

\* The CLI is told of a failure.
LEMMA TellsOK ==
  ASSUME RqInv, NEW how \in {"retry", "final"}, NEW why \in Whys, TellsCLI(how, why), turn \in {"ask", "sent"},
         how = "retry" => why \in {"busy", "dropped"},
         how = "final" => why \in {"window", "login", "overflow", "exhausted", "nomodel"},
         why = "window" => runsOn \in Proxies /\ Kept = 0
  PROVE  RqInv'
<1>1. UNCHANGED <<talk, runsOn, asksFor, tries, moves, meant>> /\ turn' = "told" /\ told' = [how |-> how, why |-> why]
  BY DEF TellsCLI
<1>2. Kept' = Kept
  BY <1>1, KeptStays
<1>3. RqEach'
  <2>1. told' \in [how : Hows, why : Whys]
    BY <1>1 DEF Hows
  <2> QED
    BY <1>1, <2>1 DEF RqInv, RqEach
<1>4. Paired' /\ HeardWhole' /\ talk # <<>>
  BY <1>1 DEF RqInv, Paired, HeardWhole, Begun
<1>5. ToldWhy'
  <2>1. told'.how = how /\ told'.why = why
    BY <1>1
  <2> QED
    BY <1>1, <1>2, <2>1 DEF ToldWhy
<1> QED
  BY <1>1, <1>3, <1>4, <1>5 DEF RqInv, SentIs, Begun

\* A message is added.
LEMMA AddsOK ==
  ASSUME RqInv, NEW m \in MessageType, m.answers # {} => m.answers \subseteq Awaited,
         talk' = Append(talk, m), turn' \in {"rest", "ask"}, UNCHANGED <<runsOn, asksFor, moves>>,
         told' = Untold \/ told' = told, tries' = 0 \/ (tries' = tries /\ told' = told /\ turn # "told"),
         meant' = NoReply \/ meant' = m
  PROVE  RqInv'
<1>1. talk \in Seq(MessageType) /\ Paired
  BY DEF RqInv, RqEach
<1>2. talk' \in Seq(MessageType) /\ Paired' /\ talk' # <<>> /\ talk'[Len(talk')] = m
  BY <1>1, AddedOK
<1>3. RqEach'
  <2>1. told' \in [how : Hows, why : Whys]
    BY DEF RqInv, RqEach, Untold, Hows, Whys
  <2> QED
    BY <1>2, <2>1 DEF RqInv, RqEach
<1>4. ToldWhy'
  <2>1. CASE told' = Untold
    BY <2>1 DEF RqInv, RqEach, ToldWhy, Untold
  <2>2. CASE told' = told
    BY <2>2 DEF RqInv, ToldWhy
  <2> QED
    BY <2>1, <2>2
<1>5. HeardWhole'
  BY <1>2 DEF HeardWhole
<1> QED
  BY <1>2, <1>3, <1>4, <1>5 DEF RqInv, SentIs, Begun

LEMMA TooLongOK == ASSUME RqInv, TooLong PROVE RqInv'
  BY TellsOK DEF TooLong, Whys

LEMMA LoginDeadOK == ASSUME RqInv, LoginDead PROVE RqInv'
  BY TellsOK DEF LoginDead, DeadLogin, Whys

LEMMA DropsOK == ASSUME RqInv, Drops PROVE RqInv'
  BY TellsOK DEF Drops, Whys

LEMMA RefusesOK == ASSUME Candid, RqInv, NEW why, Refuses(why) PROVE RqInv'
<1>1. why \in {"overflow", "exhausted", "nomodel", "busy"} /\ why \in Whys /\ turn = "sent" /\ TellsCLI(Classified(why), why)
  BY DEF Refuses, Whys
<1>2. Classified(why) = IF why \in {"overflow", "exhausted", "nomodel"} THEN "final" ELSE "retry"
  BY DEF Classified
<1> QED
  BY <1>1, <1>2, TellsOK

LEMMA FailsInlineOK == ASSUME Candid, RqInv, NEW why, FailsInline(why) PROVE RqInv'
<1>1. why = "busy" \/ (why = "overflow" /\ sent.stream)
  BY DEF FailsInline
<1>2. why \in Whys /\ turn = "sent" /\ TellsCLI(Inline(why), why)
  BY <1>1 DEF FailsInline, Whys
<1>3. Inline(why) = IF why = "overflow" THEN "final" ELSE "retry"
  BY <1>1 DEF Inline
<1> QED
  BY <1>1, <1>2, <1>3, TellsOK

LEMMA ForwardOK ==
  ASSUME RqInv, NEW offer \in Offers, NEW stream \in BOOLEAN, Forward(offer, stream) PROVE RqInv'
<1>1. UNCHANGED <<talk, runsOn, asksFor, told, tries, meant, moves>> /\ turn' = "sent" /\ turn = "ask"
  BY DEF Forward
<1>2. Kept' = Kept
  BY <1>1, KeptStays
<1>3. sent' = Built(runsOn, Kept, offer, stream)' /\ Kept # 0 /\ runsOn \in Proxies
  <2>1. Built(runsOn, Kept, offer, stream)' = Built(runsOn, Kept, offer, stream)
    BY <1>1, <1>2 DEF Built, ModelOrFallback
  <2> QED
    BY <2>1 DEF Forward
<1>4. RqEach' /\ Paired' /\ HeardWhole' /\ Begun'
  BY <1>1 DEF RqInv, RqEach, Paired, HeardWhole, Begun
<1>5. ToldWhy'
  BY <1>1 DEF RqInv, ToldWhy
<1>6. SentIs'
  BY <1>1, <1>2, <1>3 DEF SentIs
<1> QED
  BY <1>4, <1>5, <1>6 DEF RqInv

\* The answer is the one that was meant, however it was sent.
LEMMA RepliesOK ==
  ASSUME RqInv, NEW called \in SUBSET (1..MaxOffer), NEW thinks \in BOOLEAN, NEW bare \in BOOLEAN,
         NEW w \in Weight, Replies(called, thinks, bare, w)
  PROVE  RqInv'
<1> DEFINE said == [by |-> IF thinks THEN runsOn ELSE "none", names |-> {sent.names[k] : k \in called}]
           got == IF sent.stream THEN said ELSE CompletedEvent(IF bare THEN Nothing ELSE said, said)
           C(t) == [at |-> Len(talk) + 1, tool |-> t]
           heard == {C(ToolOf(sent.names, sent.offer, name)) : name \in got.names}
           own == {C(sent.offer[k]) : k \in called}
           m == Message("assistant", said.by, own, {}, w)
<1>0. turn = "sent" /\ called \subseteq DOMAIN sent.names
  BY DEF Replies
<1>1. PICK offer \in Offers : sent.offer = offer /\ sent.names = ShortNames(offer)
  BY <1>0, SentMeans
<1>2. called \subseteq 1..Len(offer)
  BY <1>0, <1>1, NamesAreApart
<1>3. got = said
  BY DEF CompletedEvent
<1>4. heard = own
  <2>1. \A k \in called : ToolOf(sent.names, sent.offer, sent.names[k]) = sent.offer[k]
    BY <1>1, <1>2, ToolOfName
  <2>2. got.names = {sent.names[k] : k \in called}
    BY <1>3
  <2> HIDE DEF got, C
  <2> QED
    BY <2>1, <2>2
<1>5. /\ talk' = Append(talk, Message("assistant", got.by, heard, {}, w))
      /\ meant' = Message("assistant", said.by, own, {}, w)
      /\ turn' = "rest" /\ told' = Untold /\ tries' = 0 /\ UNCHANGED <<runsOn, asksFor, moves>>
  BY DEF Replies
<1>6. said.by \in Signature
  BY <1>0, SentMeans DEF Signature, Foreign
<1>7. own \in SUBSET Call
  <2> SUFFICES ASSUME NEW k \in called PROVE C(sent.offer[k]) \in Call
    OBVIOUS
  <2>1. Len(talk) + 1 \in Nat
    BY TalkIs DEF RqInv, RqEach
  <2>2. sent.offer[k] \in Tool
    BY <1>1, <1>2, OfferIs
  <2> QED
    BY <2>1, <2>2 DEF Call
<1> HIDE DEF own, heard, got, said, C
<1>8. m \in MessageType /\ m.answers = {}
  <2>1. talk \in Seq(MessageType)
    BY DEF RqInv, RqEach
  <2> QED
    BY <1>6, <1>7, <2>1, MessageOK
<1>9. talk' = Append(talk, m) /\ meant' = m
  BY <1>3, <1>4, <1>5
<1> HIDE DEF m
<1> QED
  BY <1>5, <1>8, <1>9, AddsOK

LEMMA SaysOK == ASSUME RqInv, NEW w \in Weight, Says(w) PROVE RqInv'
<1> DEFINE m == Message("user", "none", {}, {}, w)
<1>1. m \in MessageType /\ m.answers = {}
  <2>1. talk \in Seq(MessageType)
    BY DEF RqInv, RqEach
  <2> QED
    BY <2>1, MessageOK DEF Signature, Foreign
<1>2. talk' = Append(talk, m) /\ meant' = NoReply /\ turn' = "ask" /\ told' = Untold /\ tries' = 0 /\ UNCHANGED <<runsOn, asksFor, moves>>
  BY DEF Says, Adds
<1> HIDE DEF m
<1> QED
  BY <1>1, <1>2, AddsOK

LEMMA ReportsOK == ASSUME RqInv, NEW w \in Weight, Reports(w) PROVE RqInv'
<1> DEFINE m == Message("user", "none", {}, Awaited, w)
<1>1. m \in MessageType /\ m.answers = Awaited
  <2>1. talk \in Seq(MessageType)
    BY DEF RqInv, RqEach
  <2> QED
    BY <2>1, TalkIs, MessageOK DEF Signature, Foreign
<1>2. talk' = Append(talk, m) /\ meant' = NoReply /\ turn' = "ask" /\ told' = Untold /\ tries' = 0 /\ UNCHANGED <<runsOn, asksFor, moves>>
  BY DEF Reports, Adds
<1> HIDE DEF m
<1> QED
  BY <1>1, <1>2, AddsOK

LEMMA RemindsOK == ASSUME RqInv, NEW w \in Weight, Reminds(w) PROVE RqInv'
<1> DEFINE m == Message("system", "none", {}, {}, w)
<1>1. m \in MessageType /\ m.answers = {}
  <2>1. talk \in Seq(MessageType)
    BY DEF RqInv, RqEach
  <2> QED
    BY <2>1, MessageOK DEF Signature, Foreign
<1>2. talk' = Append(talk, m) /\ meant' = NoReply /\ turn = "ask" /\ turn' = turn /\ told' = told /\ tries' = tries /\ UNCHANGED <<runsOn, asksFor, moves>>
  BY DEF Reminds, Adds
<1> HIDE DEF m
<1> QED
  BY <1>1, <1>2, AddsOK

LEMMA OtherRepliesOK ==
  ASSUME RqInv, NEW sig \in Foreign, NEW tools \in SUBSET Tool, NEW w \in Weight, OtherReplies(sig, tools, w) PROVE RqInv'
<1> DEFINE own == {[at |-> Len(talk) + 1, tool |-> t] : t \in tools}
           m == Message("assistant", sig, own, {}, w)
<1>1. talk \in Seq(MessageType)
  BY DEF RqInv, RqEach
<1>2. own \in SUBSET Call
  <2>1. Len(talk) + 1 \in Nat
    BY <1>1, TalkIs
  <2> QED
    BY <2>1 DEF Call
<1>3. talk' = Append(talk, m) /\ meant' = NoReply /\ turn = "ask" /\ turn' = "rest" /\ told' = told /\ tries' = tries /\ UNCHANGED <<runsOn, asksFor, moves>>
  BY DEF OtherReplies, Adds
<1> HIDE DEF own
<1>4. m \in MessageType /\ m.answers = {}
  BY <1>1, <1>2, MessageOK DEF Signature
<1> HIDE DEF m
<1> QED
  BY <1>3, <1>4, AddsOK

LEMMA RetriesOK == ASSUME RqInv, Retries PROVE RqInv'
<1>1. UNCHANGED <<talk, runsOn, asksFor, told, meant, moves>> /\ turn' = "ask" /\ turn = "told" /\ tries' = tries + 1 /\ told.how = "retry"
  BY DEF Retries
<1>2. RqEach' /\ Paired' /\ HeardWhole' /\ Begun'
  BY <1>1 DEF RqInv, RqEach, Paired, HeardWhole, Begun
<1> QED
  BY <1>1, <1>2 DEF RqInv, ToldWhy, SentIs

LEMMA GivesUpOK == ASSUME RqInv, GivesUp PROVE RqInv'
<1>1. UNCHANGED <<talk, runsOn, asksFor, told, meant, moves>> /\ turn' = "rest" /\ tries' = 0
  BY DEF GivesUp
<1>2. RqEach' /\ Paired' /\ HeardWhole' /\ Begun'
  BY <1>1 DEF RqInv, RqEach, Paired, HeardWhole, Begun
<1> QED
  BY <1>1, <1>2 DEF RqInv, ToldWhy, SentIs

LEMMA CompactsOK == ASSUME RqInv, NEW w \in Weight, Compacts(w) PROVE RqInv'
<1> DEFINE m == [Message("user", "none", {}, {}, w) EXCEPT !.upto = w]
<1>1. m \in MessageType /\ m.answers = {}
  <2>1. m = [role |-> "user", by |-> "none", calls |-> {}, answers |-> {}, upto |-> w]
    BY DEF Message
  <2>2. w \in Nat
    BY RequestAssumption
  <2> QED
    BY <2>1, <2>2 DEF MessageType, Signature, Foreign
<1>2. talk' = <<m>> /\ meant' = NoReply /\ turn' = "rest" /\ UNCHANGED <<runsOn, asksFor, told, tries, moves>> /\ turn = "rest"
  BY DEF Compacts
<1> HIDE DEF m
<1>3. talk' \in Seq(MessageType) /\ Len(talk') = 1 /\ talk'[1] = m
  BY <1>1, <1>2
<1>4. Paired'
  BY <1>1, <1>3 DEF Paired
<1>5. RqEach' /\ HeardWhole' /\ Begun'
  BY <1>2, <1>3 DEF RqInv, RqEach, HeardWhole, Begun
<1> QED
  BY <1>2, <1>4, <1>5 DEF RqInv, ToldWhy, SentIs

LEMMA MovesOK == ASSUME RqInv, NEW p \in Proxies \cup {"other"}, NEW model \in Families, Moves(p, model) PROVE RqInv'
<1>1. UNCHANGED <<talk, meant>> /\ turn' = "rest" /\ told' = Untold /\ tries' = 0 /\ runsOn' = p /\ asksFor' = model /\ moves' = moves + 1
  BY DEF Moves
<1>2. RqEach'
  BY <1>1 DEF RqInv, RqEach, Untold, Hows, Whys
<1>3. Paired' /\ HeardWhole' /\ Begun'
  BY <1>1 DEF RqInv, Paired, HeardWhole, Begun
<1> QED
  BY <1>1, <1>2, <1>3 DEF RqInv, ToldWhy, SentIs, Untold

LEMMA RqStepOK == Candid /\ RqInv /\ [RqNext]_rqVars => RqInv'
<1> SUFFICES ASSUME Candid, RqInv, [RqNext]_rqVars PROVE RqInv'
  OBVIOUS
<1>1. CASE UNCHANGED rqVars
  <2>1. UNCHANGED <<talk, runsOn, asksFor, turn, sent, told, tries, meant, moves>>
    BY <1>1 DEF rqVars
  <2>2. Kept' = Kept
    BY <2>1, KeptStays
  <2>3. RqEach' /\ Paired' /\ HeardWhole' /\ Begun' /\ ToldWhy'
    BY <2>1, <2>2 DEF RqInv, RqEach, Paired, HeardWhole, Begun, ToldWhy
  <2>4. SentIs'
    BY <2>1, <2>2 DEF RqInv, SentIs, Built, ModelOrFallback
  <2> QED
    BY <2>3, <2>4 DEF RqInv
<1>2. CASE RqNext
  BY <1>2, TooLongOK, LoginDeadOK, DropsOK, RetriesOK, GivesUpOK, ForwardOK, RefusesOK, FailsInlineOK, SaysOK,
     ReportsOK, RemindsOK, CompactsOK, RepliesOK, OtherRepliesOK, MovesOK DEF RqNext
<1> QED
  BY <1>1, <1>2

\* A provider is asked for what it can give and told what is its own, and the CLI
\* gets the whole answer or an error it can use, for any tools, names and windows.
THEOREM RequestsStaySound == Candid /\ Strangers = {} => (RqSpec => [](RqTypeOK /\ RequestIsSound))
<1> SUFFICES ASSUME Candid, Strangers = {} PROVE RqSpec => [](RqTypeOK /\ RequestIsSound)
  OBVIOUS
<1>1. RqInv /\ [RqNext]_rqVars => RqInv'
  BY RqStepOK
<1>2. RqInv => RqTypeOK /\ RequestIsSound
  BY RqInvMeans
<1> QED
  BY <1>1, <1>2, RqInitOK, PTL DEF RqSpec

-----------------------------------------------------------------------------
(* The parts in one instance: each steps or rests. *)

NetInv == LnInv /\ PvInv /\ LgInv /\ ScInv /\ TkInv /\ NlInv

LEMMA EachSteps ==
  [NetNext]_netVars =>
    /\ [LkNext]_lkVars /\ [LnNext]_lnVars /\ [PvNext]_pvVars
    /\ [LgNext]_lgVars /\ [ScNext]_scVars /\ [TkNext]_tkVars /\ [NlNext]_nlVars
    /\ [CxNext]_cxVars /\ [RqNext]_rqVars
<1>1. CASE UNCHANGED netVars
  BY <1>1 DEF netVars, serving, signing, proxying
<1>2. CASE ServingNext /\ UNCHANGED <<signing, proxying>>
  BY <1>2 DEF ServingNext, signing, proxying
<1>3. CASE SigningNext /\ UNCHANGED <<serving, proxying>>
  BY <1>3 DEF SigningNext, serving, proxying
<1>4. CASE ProxyingNext /\ UNCHANGED <<serving, signing>>
  BY <1>4 DEF ProxyingNext, serving, signing
<1> QED
  BY <1>1, <1>2, <1>3, <1>4 DEF NetNext

LEMMA NetInitOK == NetInit => NetInv
  BY LnInitOK, PvInitOK, LgInitOK, ScInitOK, TkInitOK, NlInitOK DEF NetInit, NetInv

\* What people, phones and sessions are told is so, for any constants, while the
\* accounts' directory can be reached and edits of the accounts do not overlap.
THEOREM ToldIsSo == Reachable /\ SerialEdits => (NetSpec => []WhatIsToldIsSo)
<1> SUFFICES ASSUME Reachable, SerialEdits PROVE NetSpec => []WhatIsToldIsSo
  OBVIOUS
<1>1. NetInv /\ [NetNext]_netVars => NetInv'
  BY EachSteps, LnStepOK, PvStepOK, LgStepOK, ScStepOK, TkStepOK, NlStepOK DEF NetInv
<1>2. NetInv => WhatIsToldIsSo
  BY LnInvMeans, PvInvMeans, LgInvMeans, ScInvMeans, TkInvMeans, NlInvMeans
     DEF NetInv, WhatIsToldIsSo, SignInIsTrue
<1> QED
  BY <1>1, <1>2, NetInitOK, PTL DEF NetSpec

\* In the composition too, a provider is asked for what it can give.
THEOREM AsksStaySound == Candid /\ Strangers = {} => (NetSpec => []RequestsAreSound)
<1> SUFFICES ASSUME Candid, Strangers = {} PROVE NetSpec => []RequestsAreSound
  OBVIOUS
<1>1. RqInv /\ [NetNext]_netVars => RqInv'
  BY EachSteps, RqStepOK
<1>2. RqInv => RequestsAreSound
  BY RqInvMeans DEF RequestsAreSound
<1>3. NetInit => RqInv
  BY RqInitOK DEF NetInit
<1> QED
  BY <1>1, <1>2, <1>3, PTL DEF NetSpec

\* No step of the network lets in who must stay out or wait, over restarts too, if
\* what the lock saves reaches the disk.
THEOREM NetworkRemembers == SavesPin => (NetSpec => LockRemembers)
<1> SUFFICES ASSUME SavesPin PROVE NetSpec => LockRemembers
  OBVIOUS
<1>1. NetSpec => LkSpec
  BY EachSteps, PTL DEF NetSpec, LkSpec, NetInit
<1> QED
  BY <1>1, LockKeepsRemembering, PTL

=============================================================================
