---------------------------- MODULE Review_proofs ----------------------------
(***************************************************************************)
(* What a review does with what it finds, for any number of runs, of       *)
(* answers on their way, of restarts and of sessions that end; who may     *)
(* drive a shared session, for any guests and codes; where the public port *)
(* leads, for any ports; and the types of the composition.                 *)
(***************************************************************************)
EXTENDS MCServer, SequenceTheorems, WellFoundedInduction, TLAPS

PhaseName == {"survey", "find", "verify", "done"}
AskedTurn == [kind : {"survey", "find", "verify", "chat"}, by : 0..MaxRuns]
Answer == [from : Session, turn : AskedTurn, ok : BOOLEAN, on : 0..MaxRuns]
RunOf == [phase : PhaseName, found : BOOLEAN, draft : {"none"}, repairs : 0..MaxRepairs,
          cancelled : BOOLEAN, looked : BOOLEAN]
Request == [st : {"none", "stopping", "reading", "asking", "posting", "posted"},
            on : 0..MaxRuns, phase : PhaseName \cup {"none"}]

Resuming(c) == press[c].st \in {"reading", "asking"}

\* The types of all variables, and that nothing speaks of a run not yet made.
RecordType == [phase : PhaseName, found : BOOLEAN, draft : {"none", "raw", "checked"},
               failed : BOOLEAN, looked : BOOLEAN, posted : BOOLEAN]

RunTypes ==
    /\ record \in RecordType /\ posts \in Nat
    /\ runs \in Run /\ runner \in 0..runs /\ run \in [Run -> RunOf]

SessionTypes ==
    /\ borrowed \subseteq 1..runs
    /\ live \subseteq Session /\ hooked \subseteq live
    /\ asked \in [Session -> Seq(AskedTurn)]
    /\ \A s \in Session : Len(asked[s]) <= MaxQueue /\ (s \notin live => asked[s] = <<>>)

AnswerTypes == answers \subseteq Answer /\ \A a \in answers : a.on <= runs

PressTypes ==
    /\ press \in [Client -> Request]
    /\ \A c \in Client :
          /\ Resuming(c) => press[c].phase # "none" /\ press[c].phase # "done"
          /\ press[c].st \in {"stopping", "asking"} => press[c].on \in 1..runs

RvTypes == RunTypes /\ SessionTypes /\ AnswerTypes /\ PressTypes

\* What a run has found is on the record, and a verification has claims: in the
\* phase machine, and between a resume's look at the record and its question.
Backed ==
    /\ \A h \in Run : run[h].found => record.found
    /\ \A h \in Run : run[h].phase = "verify" => run[h].found
    /\ \A c \in Client : Resuming(c) /\ press[c].phase = "verify" => record.found
    /\ \A c \in Client : press[c].st = "asking" /\ press[c].phase = "verify" =>
          run[press[c].on].found /\ run[press[c].on].phase \in {"verify", "done"}

RvInv == RvTypes /\ Backed

-----------------------------------------------------------------------------
(* One request at a time, on a review that is left to end before it is resumed *)

RunLooks(phase) == phase \in {"survey", "find"}

\* A run that may still come upon claims.
Open(h) == ~run[h].cancelled /\ RunLooks(run[h].phase) /\ (runner = h \/ \E a \in answers : a.on = h)

\* Only the last run may be looking, and none while a resume reads.
LastLooks ==
    /\ \A h \in Run : Open(h) => h = runs /\ \A c \in Client : press[c].st # "reading"
    /\ \A c \in Client : press[c].st = "reading" => runner = 0
    /\ \A c \in Client : press[c].st = "asking" => press[c].on = runs /\ ~run[press[c].on].cancelled

\* A borrowed session is one of a run that looks no more, and an answer goes to
\* the run whose session it came from, or to the runner.
OwnSessions ==
    /\ \A s \in Run : (s \in borrowed \/ asked[s] # <<>> \/ \E a \in answers : a.from = s) =>
          s <= runs /\ ~RunLooks(run[s].phase)
    /\ \A a \in answers : a.on # 0 => a.from \in {Own, a.on}

\* As long as nothing is found, a resume has the review's session to itself.
ToItself ==
    ~record.found => \A c \in Client : Resuming(c) => asked[Own] = <<>> /\ \A a \in answers : a.from # Own

\* What is found is not looked for.
Settles ==
    record.found =>
        /\ \A h \in Run : ~Open(h)
        /\ ~RunLooks(record.phase)
        /\ \A c \in Client : Resuming(c) => ~RunLooks(press[c].phase)

OnePost == posts <= 1 /\ \A c \in Client : press[c].st = "posting" => posts = 0

Holding == LastLooks /\ OwnSessions /\ ToItself /\ Settles
Kept == Holding /\ OnePost

\* A review is left to end before it is resumed, and is asked one thing at a time.
OneByOne == Patient /\ \A c, d \in Client : c = d

-----------------------------------------------------------------------------
(* The phase machine *)

LEMMA Bounds == /\ MaxRuns \in Nat \ {0} /\ MaxQueue \in Nat \ {0} /\ Patient \in BOOLEAN
                /\ Run = 1..MaxRuns /\ Session = 0..MaxRuns /\ Own = 0 /\ MaxRepairs = 1
  BY ReviewAssumption DEF Run, Session, Own, MaxRepairs

\* A run as Accept may leave it, with what is to become of it.
Judged == [phase : PhaseName, found : BOOLEAN, draft : {"none", "checked", "raw", "error"},
           repairs : 0..MaxRepairs, cancelled : BOOLEAN, looked : BOOLEAN]

LEMMA Settling ==
    ASSUME NEW r \in RunOf, NEW phase \in PhaseName
    PROVE  /\ Settled(r, phase) \in RunOf
           /\ Settled(r, phase).phase = phase /\ Settled(r, phase).found = r.found
           /\ Settled(r, phase).draft = "none" /\ Settled(r, phase).cancelled = r.cancelled
  <1> DEFINE m == [r EXCEPT !.phase = phase]
             n == [m EXCEPT !.repairs = 0]
  <1>1. m \in RunOf /\ m.phase = phase /\ m.found = r.found /\ m.draft = "none" /\ m.cancelled = r.cancelled
    BY DEF RunOf
  <1>2. 0 \in 0..MaxRepairs
    BY Bounds
  <1> HIDE DEF m
  <1>3. n \in RunOf /\ n.phase = m.phase /\ n.found = m.found /\ n.draft = m.draft /\ n.cancelled = m.cancelled
    BY <1>1, <1>2 DEF RunOf
  <1>4. Settled(r, phase) = n
    BY DEF m, Settled
  <1> QED
    BY <1>1, <1>3, <1>4

\* What Accept makes of an answer: the phases go one way, claims come of a find
\* phase only and keep it from coming back, and a verdict is one that was read.
LEMMA Accepts ==
    ASSUME NEW r0 \in RunOf, NEW kind, NEW ok \in BOOLEAN, NEW r \in Accept(r0, kind, ok)
    PROVE  /\ r \in Judged /\ r.cancelled = r0.cancelled
           /\ RunLooks(r.phase) => RunLooks(r0.phase) /\ r.found = r0.found
           /\ r.found /\ ~r0.found => r0.phase = "find" /\ r.phase = "verify"
           /\ r.phase = "verify" => r.found \/ (r0.phase = "verify" /\ r.found = r0.found)
           /\ r0.phase \in {"verify", "done"} => r.phase \in {"verify", "done"} /\ r.found = r0.found
           /\ r.draft = "checked" => kind = "verify" /\ ok
           /\ r.draft = "error" => r.phase = r0.phase /\ r.found = r0.found
  <1> USE Bounds
  <1>1. CASE r0.phase = "survey"
    <2>1. r = Settled(r0, "find")
      BY <1>1 DEF Accept
    <2> QED
      BY <1>1, <2>1, Settling DEF RunOf, Judged, RunLooks, PhaseName
  <1>2. CASE r0.phase = "find"
    <2>1. CASE ok /\ Readable(kind, "find")
      <3>1. r \in {[Settled(r0, "verify") EXCEPT !.found = TRUE, !.looked = TRUE],
                   [Settled(r0, "done") EXCEPT !.found = FALSE, !.looked = TRUE]}
        BY <1>2, <2>1 DEF Accept
      <3>2. "verify" \in PhaseName /\ "done" \in PhaseName
        BY DEF PhaseName
      <3>3. CASE r = [Settled(r0, "verify") EXCEPT !.found = TRUE, !.looked = TRUE]
        <4> DEFINE s == Settled(r0, "verify")
                   t == [s EXCEPT !.found = TRUE]
        <4>1. s \in RunOf /\ s.phase = "verify" /\ s.draft = "none" /\ s.cancelled = r0.cancelled
          BY <3>2, Settling
        <4> HIDE DEF s
        <4>2. t \in RunOf /\ t.phase = "verify" /\ t.draft = "none" /\ t.cancelled = r0.cancelled /\ t.found
          BY <4>1 DEF RunOf
        <4>3. r = [t EXCEPT !.looked = TRUE]
          BY <3>3 DEF s
        <4> HIDE DEF t
        <4> QED
          BY <1>2, <4>2, <4>3 DEF RunOf, Judged, RunLooks
      <3>4. CASE r = [Settled(r0, "done") EXCEPT !.found = FALSE, !.looked = TRUE]
        <4> DEFINE s == Settled(r0, "done")
                   t == [s EXCEPT !.found = FALSE]
        <4>1. s \in RunOf /\ s.phase = "done" /\ s.draft = "none" /\ s.cancelled = r0.cancelled
          BY <3>2, Settling
        <4> HIDE DEF s
        <4>2. t \in RunOf /\ t.phase = "done" /\ t.draft = "none" /\ t.cancelled = r0.cancelled /\ ~t.found
          BY <4>1 DEF RunOf
        <4>3. r = [t EXCEPT !.looked = TRUE]
          BY <3>4 DEF s
        <4> HIDE DEF t
        <4> QED
          BY <1>2, <4>2, <4>3 DEF RunOf, Judged, RunLooks
      <3> QED
        BY <3>1, <3>3, <3>4
    <2>2. CASE ~(ok /\ Readable(kind, "find"))
      <3>1. (r = Repaired(r0) /\ MayRepair(r0)) \/ r = [r0 EXCEPT !.draft = "error"]
        BY <1>2, <2>2 DEF Accept
      <3> QED
        BY <1>2, <3>1 DEF RunOf, Judged, RunLooks, PhaseName, Repaired, MayRepair
    <2> QED
      BY <2>1, <2>2
  <1>3. CASE r0.phase = "verify"
    <2>1. \/ r = [Settled(r0, "done") EXCEPT !.draft = "checked"] /\ ok /\ kind = "verify"
          \/ r = Repaired(r0) /\ MayRepair(r0)
          \/ r = [Settled(r0, "done") EXCEPT !.draft = UnverifiedDraft]
      BY <1>3 DEF Accept, Readable
    <2>2. Settled(r0, "done") \in RunOf
      BY Settling DEF PhaseName
    <2> QED
      BY <1>3, <2>1, <2>2, Settling DEF RunOf, Judged, RunLooks, PhaseName, Repaired, MayRepair, UnverifiedDraft
  <1>4. CASE r0.phase = "done"
    <2>1. r = r0
      BY <1>4 DEF Accept
    <2> QED
      BY <1>4, <2>1 DEF RunOf, Judged, RunLooks, PhaseName
  <1> QED
    BY <1>1, <1>2, <1>3, <1>4 DEF RunOf, PhaseName

\* What is left of it once it is acted on.
LEMMA Continued ==
    ASSUME NEW r \in Judged
    PROVE  LET q == [r EXCEPT !.draft = "none", !.looked = FALSE]
           IN  /\ q \in RunOf /\ q.phase = r.phase /\ q.found = r.found /\ q.cancelled = r.cancelled
  BY DEF Judged, RunOf

-----------------------------------------------------------------------------
(* Sessions *)

\* A step that only takes turns away asks for nothing.
LEMMA NothingAsked ==
    ASSUME SessionTypes, NEW s \in Session, NEW kind, NEW h, asked'[s] \in {asked[s], <<>>}
    PROVE  ~Asks(s, kind, h)
  <1>1. Len(<<>>) = 0 /\ Len(asked[s]) \in Nat /\ (s \notin live => asked[s] = <<>>)
    BY DEF SessionTypes
  <1> QED
    BY <1>1 DEF Asks

LEMMA Ending ==
    ASSUME RunTypes, SessionTypes, NEW h \in Run, EndRun(h), runs' = runs
    PROVE  /\ SessionTypes' /\ runner' = 0 /\ borrowed' \subseteq borrowed
           /\ \A s \in Session : asked'[s] \in {asked[s], <<>>}
  <1>1. /\ borrowed' = borrowed \ {h} /\ live' = live \ (borrowed \cap {h})
        /\ hooked' = hooked \ (borrowed \cap {h})
        /\ asked' = [s \in Session |-> IF s = h /\ h \in borrowed THEN <<>> ELSE asked[s]]
    BY DEF EndRun
  <1>2. \A s \in Session : asked'[s] = IF s = h /\ h \in borrowed THEN <<>> ELSE asked[s]
    BY <1>1
  <1>3. asked' \in [Session -> Seq(AskedTurn)]
    BY <1>1 DEF SessionTypes
  <1>4. ASSUME NEW s \in Session PROVE Len(asked'[s]) <= MaxQueue /\ (s \notin live' => asked'[s] = <<>>)
    <2>1. Len(<<>>) = 0 /\ MaxQueue \in Nat
      BY Bounds
    <2> QED
      BY <1>1, <1>2, <2>1 DEF SessionTypes
  <1>5. borrowed' \subseteq 1..runs' /\ live' \subseteq Session /\ hooked' \subseteq live'
    BY <1>1 DEF SessionTypes
  <1> QED
    BY <1>1, <1>2, <1>3, <1>4, <1>5 DEF SessionTypes, EndRun

\* A question is put to one session, the review's own or one that is borrowed.
LEMMA Asking ==
    ASSUME RunTypes, SessionTypes, NEW h \in 1..runs, NEW phase \in {"survey", "find", "verify"},
           Ask(h, phase), runs' = runs
    PROVE  /\ SessionTypes'
           /\ borrowed' = borrowed \/ (phase = "verify" /\ borrowed' = borrowed \cup {h})
           /\ \E s \in Session :
                 /\ s = Own \/ (s = h /\ h \in borrowed')
                 /\ \A t \in Session : t # s => asked'[t] = asked[t]
                 /\ asked'[s] # <<>> /\ Last(asked'[s]) = Turn(phase, h)
  <1>0. /\ h \in Session /\ Own \in Session /\ Turn(phase, h) \in AskedTurn /\ 1 <= MaxQueue /\ runs \in 1..MaxRuns
        /\ runs \in Nat /\ MaxQueue \in Nat
    BY Bounds DEF RunTypes, AskedTurn, Turn
  <1>1. CASE /\ phase = "verify" /\ h \notin borrowed
             /\ borrowed' = borrowed \cup {h}
             /\ live' = live \cup {h} /\ hooked' = hooked \cup {h}
             /\ asked' = [asked EXCEPT ![h] = <<Turn("verify", h)>>]
    <2>1. asked'[h] = <<Turn(phase, h)>> /\ \A t \in Session : t # h => asked'[t] = asked[t]
      BY <1>0, <1>1 DEF SessionTypes
    <2>2. <<Turn(phase, h)>> \in Seq(AskedTurn) /\ Len(<<Turn(phase, h)>>) = 1
          /\ <<Turn(phase, h)>> # <<>> /\ Last(<<Turn(phase, h)>>) = Turn(phase, h)
      BY <1>0 DEF Last
    <2>3. asked' \in [Session -> Seq(AskedTurn)]
      BY <1>0, <1>1, <2>2 DEF SessionTypes
    <2>4. SessionTypes'
      BY <1>0, <1>1, <2>1, <2>2, <2>3 DEF SessionTypes
    <2> QED
      BY <1>0, <1>1, <2>1, <2>2, <2>4
  <1>2. ASSUME NEW s, s = IF h \in borrowed THEN h ELSE Own, s \in live, Room(s),
               asked' = [asked EXCEPT ![s] = Append(@, Turn(phase, h))],
               UNCHANGED <<borrowed, live, hooked>>
        PROVE  /\ SessionTypes'
               /\ borrowed' = borrowed
               /\ s \in Session
               /\ s = Own \/ (s = h /\ h \in borrowed')
               /\ \A t \in Session : t # s => asked'[t] = asked[t]
               /\ asked'[s] # <<>> /\ Last(asked'[s]) = Turn(phase, h)
    <2>1. s \in Session
      BY <1>0, <1>2
    <2>2. asked'[s] = Append(asked[s], Turn(phase, h)) /\ \A t \in Session : t # s => asked'[t] = asked[t]
      BY <1>2, <2>1 DEF SessionTypes
    <2>3. asked[s] \in Seq(AskedTurn) /\ Len(asked[s]) < MaxQueue /\ Len(asked[s]) \in Nat
      BY <1>2, <2>1 DEF SessionTypes, Room
    <2>4. asked'[s] \in Seq(AskedTurn) /\ Len(asked'[s]) = Len(asked[s]) + 1
          /\ Last(asked'[s]) = Turn(phase, h)
      BY <1>0, <2>2, <2>3 DEF Last
    <2>5. asked'[s] # <<>>
      BY <2>3, <2>4
    <2>6. asked' \in [Session -> Seq(AskedTurn)]
      BY <1>0, <1>2, <2>1, <2>2, <2>4 DEF SessionTypes
    <2>7. \A t \in Session : Len(asked'[t]) <= MaxQueue /\ (t \notin live' => asked'[t] = <<>>)
      BY <1>0, <1>2, <2>2, <2>3, <2>4 DEF SessionTypes
    <2>8. SessionTypes'
      BY <1>2, <2>6, <2>7 DEF SessionTypes
    <2> QED
      BY <1>2, <2>1, <2>2, <2>4, <2>5, <2>8
  <1> QED
    BY <1>1, <1>2 DEF Ask

\* It is asked for no other run, and for nothing else.
LEMMA AskedFor ==
    ASSUME SessionTypes, NEW h, NEW phase, NEW s \in Session,
           \A t \in Session : t # s => asked'[t] = asked[t],
           Last(asked'[s]) = Turn(phase, h),
           NEW t \in Session, NEW kind, NEW g, Asks(t, kind, g)
    PROVE  kind = phase /\ g = h
  <1>1. t = s
    BY NothingAsked
  <1>2. Turn(kind, g) = Turn(phase, h)
    BY <1>1 DEF Asks
  <1> QED
    BY <1>2 DEF Turn

-----------------------------------------------------------------------------
(* Types *)

LEMMA RvStarted == RvInit => RvInv
  <1> SUFFICES ASSUME NEW phase \in {"survey", "find"},
                      /\ record = [phase |-> phase, found |-> FALSE, draft |-> "none", failed |-> FALSE, looked |-> FALSE, posted |-> FALSE]
                      /\ run = [h \in Run |-> IF h = 1 THEN Fresh(phase, FALSE) ELSE Blank]
                      /\ asked = [s \in Session |-> IF s = Own THEN <<Turn(phase, 1)>> ELSE <<>>]
                      /\ runs = 1 /\ runner = 1 /\ borrowed = {} /\ posts = 0
                      /\ live = {Own} /\ hooked = {Own} /\ answers = {}
                      /\ press = [c \in Client |-> NoPress]
               PROVE  RvInv
    BY DEF RvInit
  <1> USE Bounds
  <1>1. Turn(phase, 1) \in AskedTurn /\ 1 \in Run /\ Own \in Session
    BY DEF AskedTurn, Turn
  <1>2. Fresh(phase, FALSE) \in RunOf /\ Fresh(phase, FALSE).found = FALSE /\ Fresh(phase, FALSE).phase = phase
        /\ Blank \in RunOf /\ Blank.found = FALSE /\ Blank.phase = "done"
    BY DEF Fresh, Blank, RunOf, PhaseName
  <1>3. RunTypes
    <2>1. run \in [Run -> RunOf]
      BY <1>2
    <2>2. record \in RecordType
      BY DEF RecordType, PhaseName
    <2>3. runs \in Run /\ runner \in 0..runs /\ posts \in Nat
      BY <1>1
    <2> QED
      BY <2>1, <2>2, <2>3 DEF RunTypes
  <1>4. SessionTypes
    <2>1. <<Turn(phase, 1)>> \in Seq(AskedTurn) /\ <<>> \in Seq(AskedTurn) /\ Len(<<Turn(phase, 1)>>) = 1 /\ Len(<<>>) = 0
      BY <1>1
    <2>2. asked \in [Session -> Seq(AskedTurn)]
      BY <2>1
    <2>3. \A s \in Session : Len(asked[s]) <= MaxQueue /\ (s \notin live => asked[s] = <<>>)
      BY <2>1
    <2> QED
      BY <1>1, <2>2, <2>3 DEF SessionTypes
  <1>5. AnswerTypes
    BY DEF AnswerTypes
  <1>6. NoPress \in Request /\ NoPress.st = "none"
    BY DEF NoPress, Request
  <1>7. PressTypes
    BY <1>6 DEF PressTypes, Resuming
  <1>8. Backed
    BY <1>2, <1>6 DEF Backed, Resuming
  <1> QED
    BY <1>3, <1>4, <1>5, <1>7, <1>8 DEF RvInv, RvTypes

\* What one client does, to the types of the requests.
LEMMA Pressed ==
    ASSUME PressTypes, runs' \in {runs, runs + 1}, runs \in Nat, NEW c \in Client, NEW p \in Request,
           press' = [press EXCEPT ![c] = p],
           p.st \in {"reading", "asking"} => p.phase # "none" /\ p.phase # "done",
           p.st \in {"stopping", "asking"} => p.on \in 1..runs'
    PROVE  PressTypes' /\ press'[c] = p /\ \A d \in Client : d # c => press'[d] = press[d]
  <1>1. press'[c] = p /\ \A d \in Client : d # c => press'[d] = press[d]
    BY DEF PressTypes
  <1>2. press' \in [Client -> Request]
    BY DEF PressTypes
  <1>3. ASSUME NEW d \in Client
        PROVE  /\ Resuming(d)' => press'[d].phase # "none" /\ press'[d].phase # "done"
               /\ press'[d].st \in {"stopping", "asking"} => press'[d].on \in 1..runs'
    BY <1>1 DEF PressTypes, Resuming
  <1> QED
    BY <1>1, <1>2, <1>3 DEF PressTypes

LEMMA TurnTypes ==
    ASSUME RvTypes, NEW s \in Session, NEW ok \in BOOLEAN, TurnOver(s, ok)
    PROVE  RvTypes'
  <1> USE DEF RvTypes
  <1>0. 0 \in 0..MaxRuns /\ runs \in Nat
    BY Bounds DEF RunTypes
  <1>1. asked[s] \in Seq(AskedTurn) /\ asked[s] # <<>>
    BY DEF TurnOver, SessionTypes
  <1>2. Head(asked[s]) \in AskedTurn /\ Tail(asked[s]) \in Seq(AskedTurn) /\ Len(Tail(asked[s])) = Len(asked[s]) - 1
    BY <1>1
  <1>3. SessionTypes'
    <2>1. asked' = [asked EXCEPT ![s] = Tail(asked[s])] /\ UNCHANGED <<runVars, live, hooked>> /\ s \in live
      BY DEF TurnOver
    <2>2. asked'[s] = Tail(asked[s]) /\ \A t \in Session : t # s => asked'[t] = asked[t]
      BY <2>1 DEF SessionTypes
    <2>3. asked' \in [Session -> Seq(AskedTurn)]
      BY <1>2, <2>1 DEF SessionTypes
    <2>4. \A t \in Session : Len(asked'[t]) <= MaxQueue /\ (t \notin live' => asked'[t] = <<>>)
      BY <1>1, <1>2, <2>1, <2>2, Bounds DEF SessionTypes
    <2> QED
      BY <2>1, <2>3, <2>4 DEF SessionTypes, runVars
  <1>4. AnswerTypes'
    <2>1. [from |-> s, turn |-> Head(asked[s]), ok |-> ok, on |-> 0] \in Answer
      BY <1>0, <1>2 DEF Answer
    <2> QED
      BY <1>0, <2>1 DEF TurnOver, AnswerTypes, runVars
  <1> QED
    BY <1>3, <1>4 DEF TurnOver, RunTypes, PressTypes, Resuming, runVars

LEMMA ChatTypes == ASSUME RvTypes, Chat PROVE RvTypes'
  <1> USE DEF RvTypes
  <1>1. Turn("chat", 0) \in AskedTurn /\ Own \in Session /\ MaxQueue \in Nat
    BY Bounds DEF AskedTurn, Turn
  <1>2. asked' = [asked EXCEPT ![Own] = Append(@, Turn("chat", 0))] /\ Own \in live /\ Len(asked[Own]) < MaxQueue - 1
        /\ UNCHANGED <<record, runVars, live, hooked, answers, press, posts>>
    BY DEF Chat
  <1>3. asked[Own] \in Seq(AskedTurn) /\ Len(asked[Own]) \in Nat
    BY <1>1 DEF SessionTypes
  <1>4. Append(asked[Own], Turn("chat", 0)) \in Seq(AskedTurn)
        /\ Len(Append(asked[Own], Turn("chat", 0))) = Len(asked[Own]) + 1
    BY <1>1, <1>3
  <1>5. asked' \in [Session -> Seq(AskedTurn)] /\ asked'[Own] = Append(asked[Own], Turn("chat", 0))
        /\ \A t \in Session : t # Own => asked'[t] = asked[t]
    BY <1>1, <1>2, <1>4 DEF SessionTypes
  <1>6. \A t \in Session : Len(asked'[t]) <= MaxQueue /\ (t \notin live' => asked'[t] = <<>>)
    BY <1>1, <1>2, <1>3, <1>4, <1>5 DEF SessionTypes
  <1> QED
    BY <1>2, <1>5, <1>6 DEF SessionTypes, RunTypes, AnswerTypes, PressTypes, Resuming, runVars

LEMMA EndTypes == ASSUME RvTypes, NEW s \in Session, SessionEnds(s) PROVE RvTypes'
  <1> USE DEF RvTypes
  <1>1. asked' = [asked EXCEPT ![s] = <<>>] /\ live' = live \ {s} /\ hooked' = hooked \ {s}
        /\ UNCHANGED <<record, runVars, answers, press, posts>>
    BY DEF SessionEnds
  <1>2. asked'[s] = <<>> /\ (\A t \in Session : t # s => asked'[t] = asked[t])
        /\ asked' \in [Session -> Seq(AskedTurn)] /\ Len(<<>>) = 0 /\ MaxQueue \in Nat
    BY <1>1, Bounds DEF SessionTypes
  <1>3. \A t \in Session : Len(asked'[t]) <= MaxQueue /\ (t \notin live' => asked'[t] = <<>>)
    BY <1>1, <1>2 DEF SessionTypes
  <1> QED
    BY <1>1, <1>2, <1>3 DEF SessionTypes, RunTypes, AnswerTypes, PressTypes, Resuming, runVars

LEMMA RestartTypes == ASSUME RvTypes, Restart PROVE RvTypes'
  <1> USE DEF RvTypes
  <1>1. NoPress \in Request /\ NoPress.st = "none" /\ Blank \in RunOf
    BY Bounds DEF NoPress, Request, Blank, Fresh, RunOf, PhaseName
  <1>2. RunTypes'
    BY <1>1, Bounds DEF Restart, RunTypes
  <1>3. SessionTypes'
    <2>1. <<>> \in Seq(AskedTurn) /\ Len(<<>>) = 0 /\ MaxQueue \in Nat
      BY Bounds
    <2> QED
      BY <2>1 DEF Restart, SessionTypes
  <1>4. AnswerTypes' /\ PressTypes'
    BY <1>1 DEF Restart, AnswerTypes, PressTypes, Resuming
  <1> QED
    BY <1>2, <1>3, <1>4

LEMMA RouteTypes == ASSUME RvTypes, NEW a \in answers, Route(a) PROVE RvTypes'
  <1> USE DEF RvTypes
  <1> DEFINE h == IF a.from = Own THEN runner ELSE IF a.from \in borrowed THEN a.from ELSE 0
  <1>1. answers' = (answers \ {a}) \cup (IF h = 0 THEN {} ELSE {[a EXCEPT !.on = h]})
        /\ UNCHANGED <<record, runVars, sessionVars, press, posts>>
    BY DEF Route
  <1>2. h \in 0..runs /\ runs \in 1..MaxRuns
    <2>1. runs \in 1..MaxRuns /\ runner \in 0..runs /\ borrowed \subseteq 1..runs
      BY Bounds DEF RunTypes, SessionTypes
    <2>2. h \in {runner, 0} \cup borrowed
      OBVIOUS
    <2>3. 0 \in 0..runs /\ 1..runs \subseteq 0..runs
      BY <2>1, Bounds
    <2> QED
      BY <2>1, <2>2, <2>3
  <1>3. a \in Answer
    BY DEF AnswerTypes
  <1>4. [a EXCEPT !.on = h] \in Answer /\ [a EXCEPT !.on = h].on = h
    BY <1>2, <1>3, Bounds DEF Answer
  <1> HIDE DEF h
  <1>5. AnswerTypes'
    <2>1. \A b \in answers' : b \in answers \/ b = [a EXCEPT !.on = h]
      BY <1>1
    <2>2. runs' = runs
      BY <1>1 DEF runVars
    <2>3. h <= runs
      BY <1>2, Bounds
    <2>4. \A b \in answers' : b \in Answer /\ b.on <= runs
      BY <1>4, <2>1, <2>3 DEF AnswerTypes
    <2> QED
      BY <2>2, <2>4 DEF AnswerTypes
  <1> QED
    BY <1>1, <1>5 DEF RunTypes, SessionTypes, PressTypes, Resuming, runVars, sessionVars

LEMMA DropTypes == ASSUME RvTypes, NEW a \in answers, DropCancelled(a) PROVE RvTypes'
  BY DEF DropCancelled, RvTypes, RunTypes, SessionTypes, AnswerTypes, PressTypes, Resuming, runVars, sessionVars

\* The review comes to its end at this step.
EndsWith(r) ==
    /\ runner' = 0 /\ borrowed' \subseteq borrowed
    /\ \A s \in Session : asked'[s] \in {asked[s], <<>>}
    /\ record'.phase = "done"
    /\ \/ r.draft = "error" /\ record'.found = record.found /\ record'.draft = record.draft
       \/ r.draft # "error" /\ record'.found = (record.found \/ r.found) /\ (record'.draft = "checked" <=> r.draft = "checked")

\* It goes on to the next question.
GoesOn(h, r) ==
    /\ r.phase # "done" /\ Ask(h, r.phase) /\ UNCHANGED runner
    /\ record'.phase = r.phase /\ record'.found = (record.found \/ r.found) /\ record'.draft = record.draft

\* An answer that is acted on: what it does to its run, and the two ways on.
LEMMA Advancing ==
    ASSUME RvTypes, NEW a \in answers, Advance(a)
    PROVE  /\ a.on \in 1..runs /\ a.on \in Run /\ ~run[a.on].cancelled
           /\ answers' = answers \ {a} /\ UNCHANGED <<runs, press, posts>>
           /\ record' \in RecordType /\ SessionTypes' /\ run' \in [Run -> RunOf]
           /\ \A g \in Run : g # a.on => run'[g] = run[g]
           /\ \E r \in Judged :
                 /\ r \in Accept(run[a.on], a.turn.kind, a.ok)
                 /\ run'[a.on].phase = r.phase /\ run'[a.on].found = r.found /\ run'[a.on].cancelled = r.cancelled
                 /\ EndsWith(r) \/ GoesOn(a.on, r)
  <1> USE DEF RvTypes
  <1> DEFINE h == a.on
  <1>1. a \in Answer /\ a.on <= runs /\ a.on # 0 /\ runs \in 1..MaxRuns
    BY Bounds DEF AnswerTypes, Advance, RunTypes
  <1>2. h \in 1..runs /\ h \in Run /\ ~run[h].cancelled /\ a.ok \in BOOLEAN
    BY <1>1, Bounds DEF Answer, Advance, Continues
  <1>3. answers' = answers \ {a} /\ UNCHANGED <<runs, press, posts>>
    BY DEF Advance
  <1>4. PICK r \in Accept(run[h], a.turn.kind, a.ok) :
              /\ run' = [run EXCEPT ![h] = [r EXCEPT !.draft = "none", !.looked = FALSE]]
              /\ \/ r.draft = "error" /\ GiveUp(h)
                 \/ r.draft # "error" /\ r.phase = "done" /\ Finish(h, r)
                 \/ r.draft # "error" /\ r.phase # "done" /\ Note(r) /\ Ask(h, r.phase) /\ UNCHANGED runner
                 \/ /\ r.draft # "error" /\ r.phase # "done"
                    /\ (IF h \in borrowed THEN h ELSE Own) \notin live
                    /\ Finish(h, r)
    BY DEF Advance
  <1> HIDE DEF h
  <1>5. run[h] \in RunOf
    BY <1>2 DEF RunTypes
  <1>6. r \in Judged
    BY <1>2, <1>5, Accepts
  <1> DEFINE q == [r EXCEPT !.draft = "none", !.looked = FALSE]
  <1>7. q \in RunOf /\ q.phase = r.phase /\ q.found = r.found /\ q.cancelled = r.cancelled
    BY <1>6, Continued
  <1>8. run' = [run EXCEPT ![h] = q]
    BY <1>4
  <1> HIDE DEF q
  <1>9. run' \in [Run -> RunOf] /\ run'[h] = q /\ \A g \in Run : g # h => run'[g] = run[g]
    BY <1>2, <1>7, <1>8 DEF RunTypes
  <1>10. record \in RecordType /\ r.found \in BOOLEAN /\ r.looked \in BOOLEAN /\ r.phase \in PhaseName
    BY <1>6 DEF RunTypes, Judged
  <1>11. ASSUME GiveUp(h) \/ Finish(h, r) PROVE EndRun(h)
    BY <1>11 DEF GiveUp, Finish
  <1>12. CASE r.draft = "error" /\ GiveUp(h)
    <2>1. record' = [record EXCEPT !.phase = "done", !.failed = TRUE]
      BY <1>12 DEF GiveUp
    <2>2. record' \in RecordType /\ record'.phase = "done" /\ record'.found = record.found /\ record'.draft = record.draft
      BY <1>10, <2>1 DEF RecordType, PhaseName
    <2>3. SessionTypes' /\ EndsWith(r)
      BY <1>2, <1>3, <1>11, <1>12, <2>2, Ending DEF EndsWith
    <2> QED
      BY <1>2, <1>3, <1>4, <1>6, <1>7, <1>9, <2>2, <2>3 DEF h
  <1>13. CASE r.draft # "error" /\ Finish(h, r)
    <2>1. record' = [record EXCEPT !.phase = "done", !.found = @ \/ r.found,
                                  !.draft = IF r.draft = "checked" THEN "checked" ELSE "raw",
                                  !.failed = FALSE, !.looked = @ \/ r.looked]
      BY <1>13 DEF Finish
    <2> DEFINE drafted == IF r.draft = "checked" THEN "checked" ELSE "raw"
               m == [record EXCEPT !.phase = "done", !.failed = FALSE]
               n == [m EXCEPT !.found = @ \/ r.found, !.looked = @ \/ r.looked]
    <2>2. m \in RecordType /\ m.phase = "done" /\ m.found = record.found
      BY <1>10 DEF RecordType, PhaseName
    <2>3. record' = [n EXCEPT !.draft = drafted]
      BY <1>10, <2>1 DEF RecordType
    <2> HIDE DEF m
    <2>4. n \in RecordType /\ n.phase = "done" /\ n.found = (record.found \/ r.found)
      BY <1>10, <2>2 DEF RecordType
    <2> HIDE DEF n
    <2>5. record' \in RecordType /\ record'.phase = "done" /\ record'.found = (record.found \/ r.found)
          /\ (record'.draft = "checked" <=> r.draft = "checked")
      BY <2>3, <2>4 DEF RecordType
    <2>6. SessionTypes' /\ EndsWith(r)
      BY <1>2, <1>3, <1>11, <1>13, <2>5, Ending DEF EndsWith
    <2> QED
      BY <1>2, <1>3, <1>4, <1>6, <1>7, <1>9, <2>5, <2>6 DEF h
  <1>14. CASE r.phase # "done" /\ Note(r) /\ Ask(h, r.phase) /\ UNCHANGED runner
    <2>1. record' = [record EXCEPT !.phase = r.phase, !.found = @ \/ r.found, !.looked = @ \/ r.looked]
      BY <1>14 DEF Note
    <2>2. record' \in RecordType /\ record'.phase = r.phase /\ record'.found = (record.found \/ r.found)
          /\ record'.draft = record.draft
      BY <1>10, <2>1 DEF RecordType
    <2>3. r.phase \in {"survey", "find", "verify"}
      BY <1>10, <1>14 DEF PhaseName
    <2>4. SessionTypes'
      BY <1>2, <1>3, <1>14, <2>3, Asking
    <2>5. GoesOn(h, r)
      BY <1>14, <2>2 DEF GoesOn
    <2> QED
      BY <1>2, <1>3, <1>4, <1>6, <1>7, <1>9, <2>2, <2>4, <2>5 DEF h
  <1> QED
    BY <1>4, <1>12, <1>13, <1>14

LEMMA AdvanceTypes == ASSUME RvTypes, NEW a \in answers, Advance(a) PROVE RvTypes'
  <1> USE DEF RvTypes
  <1>1. /\ answers' = answers \ {a} /\ UNCHANGED <<runs, press, posts>>
        /\ record' \in RecordType /\ SessionTypes' /\ run' \in [Run -> RunOf]
        /\ \E r \in Judged : EndsWith(r) \/ GoesOn(a.on, r)
    BY Advancing
  <1>2. runner' \in {runner, 0}
    BY <1>1 DEF EndsWith, GoesOn
  <1>3. runner' \in 0..runs'
    BY <1>1, <1>2, Bounds DEF RunTypes
  <1> QED
    BY <1>1, <1>3 DEF RunTypes, AnswerTypes, PressTypes, Resuming

\* What Now notes of a request.
At(st, h) == [NoPress EXCEPT !.st = st, !.on = h]

LEMMA Requests ==
    /\ NoPress \in Request /\ NoPress.st = "none"
    /\ \A st \in {"stopping", "posting", "posted"}, h \in 0..MaxRuns :
          At(st, h) \in Request /\ At(st, h).st = st /\ At(st, h).on = h
    /\ \A c \in Client : \A st, h : Now(c, st, h) => press' = [press EXCEPT ![c] = At(st, h)]
  <1>1. NoPress \in Request /\ NoPress.st = "none"
    BY Bounds DEF NoPress, Request
  <1>2. ASSUME NEW st \in {"stopping", "posting", "posted"}, NEW h \in 0..MaxRuns
        PROVE  At(st, h) \in Request /\ At(st, h).st = st /\ At(st, h).on = h
    <2> DEFINE m == [NoPress EXCEPT !.st = st]
    <2>1. m \in Request /\ m.st = st
      BY <1>1 DEF Request
    <2> HIDE DEF m
    <2>2. [m EXCEPT !.on = h] \in Request /\ [m EXCEPT !.on = h].st = st /\ [m EXCEPT !.on = h].on = h
      BY <2>1 DEF Request
    <2>3. At(st, h) = [m EXCEPT !.on = h]
      BY DEF m, At
    <2> QED
      BY <2>2, <2>3
  <1>3. \A c \in Client : \A st, h : Now(c, st, h) => press' = [press EXCEPT ![c] = At(st, h)]
    BY DEF Now, At
  <1> QED
    BY <1>1, <1>2, <1>3

\* A request that ends, or that only notes where it is.
LEMMA Noted ==
    ASSUME RvTypes, NEW c \in Client, runs' = runs,
           \/ Done(c)
           \/ \E st \in {"posting", "posted"} : Now(c, st, 0)
    PROVE  PressTypes' /\ ~Resuming(c)' /\ \A d \in Client : d # c => press'[d] = press[d]
  <1> USE DEF RvTypes
  <1>1. runs \in Nat /\ 0 \in 0..MaxRuns
    BY Bounds DEF RunTypes
  <1>2. PICK p \in Request : press' = [press EXCEPT ![c] = p] /\ p.st \in {"none", "posting", "posted"}
    <2>1. CASE Done(c)
      BY <2>1, Requests DEF Done
    <2>2. ASSUME NEW st \in {"posting", "posted"}, Now(c, st, 0)
          PROVE  \E p \in Request : press' = [press EXCEPT ![c] = p] /\ p.st \in {"none", "posting", "posted"}
      <3>1. At(st, 0) \in Request /\ At(st, 0).st = st
        BY <1>1, Requests
      <3>2. press' = [press EXCEPT ![c] = At(st, 0)]
        BY <2>2, Requests
      <3> QED
        BY <3>1, <3>2
    <2> QED
      BY <2>1, <2>2
  <1>3. PressTypes' /\ press'[c] = p /\ \A d \in Client : d # c => press'[d] = press[d]
    BY <1>1, <1>2, Pressed
  <1> QED
    BY <1>2, <1>3 DEF Resuming

LEMMA StopTypes ==
    ASSUME RvTypes, NEW c \in Client, Stop(c)
    PROVE  /\ RvTypes' /\ runner \in Run
           /\ run'[runner].cancelled /\ run'[runner].phase = run[runner].phase /\ run'[runner].found = run[runner].found
           /\ \A h \in Run : h # runner => run'[h] = run[h]
           /\ press'[c].st = "stopping" /\ \A d \in Client : d # c => press'[d] = press[d]
  <1> USE DEF RvTypes
  <1>1. runner \in 1..runs /\ runs \in 1..MaxRuns /\ runs \in Nat /\ runner \in Run /\ runner \in 0..MaxRuns
    BY Bounds DEF RunTypes, Stop
  <1>2. run' = [run EXCEPT ![runner] = [run[runner] EXCEPT !.cancelled = TRUE]]
        /\ UNCHANGED <<record, runs, runner, borrowed, sessionVars, answers, posts>>
    BY DEF Stop
  <1> DEFINE q == [run[runner] EXCEPT !.cancelled = TRUE]
  <1>3. q \in RunOf /\ q.cancelled /\ q.phase = run[runner].phase /\ q.found = run[runner].found
    BY <1>1 DEF RunTypes, RunOf
  <1> HIDE DEF q
  <1>4. run' \in [Run -> RunOf] /\ run'[runner] = q /\ \A h \in Run : h # runner => run'[h] = run[h]
    BY <1>1, <1>2, <1>3 DEF q, RunTypes
  <1>5. PICK p \in Request : press' = [press EXCEPT ![c] = p] /\ p.st = "stopping" /\ p.on = runner
    <2>1. At("stopping", runner) \in Request /\ At("stopping", runner).st = "stopping" /\ At("stopping", runner).on = runner
      BY <1>1, Requests
    <2>2. press' = [press EXCEPT ![c] = At("stopping", runner)]
      BY Requests DEF Stop
    <2> QED
      BY <2>1, <2>2
  <1>6. PressTypes' /\ press'[c] = p /\ \A d \in Client : d # c => press'[d] = press[d]
    BY <1>1, <1>2, <1>5, Pressed
  <1>7. RunTypes' /\ SessionTypes' /\ AnswerTypes'
    BY <1>2, <1>4 DEF RunTypes, SessionTypes, AnswerTypes, sessionVars
  <1> QED
    BY <1>1, <1>3, <1>4, <1>5, <1>6, <1>7

LEMMA StopEndsTypes ==
    ASSUME RvTypes, NEW c \in Client, StopEnds(c)
    PROVE  /\ RvTypes' /\ runner' = 0 /\ borrowed' \subseteq borrowed
           /\ \A s \in Session : asked'[s] = <<>> \/ asked'[s] = asked[s]
                                  \/ (s = Own /\ asked[s] # <<>> /\ asked'[s] = <<Head(asked[s])>>)
           /\ ~Resuming(c)' /\ press'[c].st = "none" /\ \A d \in Client : d # c => press'[d] = press[d]
  <1> USE DEF RvTypes
  <1> DEFINE h == press[c].on
  <1>1. h \in 1..runs /\ runs \in Nat /\ Own = 0 /\ MaxQueue \in Nat /\ 1 <= MaxQueue
    BY Bounds DEF StopEnds, PressTypes, RunTypes
  <1>2. /\ runner' = 0 /\ borrowed' = borrowed \ {h}
        /\ live' = live \ (borrowed \cap {h}) /\ hooked' = hooked \ (borrowed \cap {h})
        /\ asked' = [s \in Session |->
                       IF s = Own /\ asked[s] # <<>> THEN <<Head(asked[s])>>
                       ELSE IF s = h /\ h \in borrowed THEN <<>> ELSE asked[s]]
        /\ Done(c) /\ UNCHANGED <<record, run, runs, answers, posts>>
    BY DEF StopEnds
  <1> HIDE DEF h
  <1>3. ASSUME NEW s \in Session
        PROVE  /\ asked'[s] \in Seq(AskedTurn) /\ Len(asked'[s]) <= MaxQueue /\ (s \notin live' => asked'[s] = <<>>)
               /\ asked'[s] = <<>> \/ asked'[s] = asked[s]
                  \/ (s = Own /\ asked[s] # <<>> /\ asked'[s] = <<Head(asked[s])>>)
    <2>1. asked[s] \in Seq(AskedTurn) /\ Len(asked[s]) <= MaxQueue /\ (s \notin live => asked[s] = <<>>)
      BY DEF SessionTypes
    <2>2. CASE s = Own /\ asked[s] # <<>>
      <3>1. Head(asked[s]) \in AskedTurn /\ asked'[s] = <<Head(asked[s])>> /\ s \in live'
        BY <1>1, <1>2, <2>1, <2>2
      <3> QED
        BY <1>1, <2>2, <3>1
    <2>3. CASE ~(s = Own /\ asked[s] # <<>>) /\ s = h /\ h \in borrowed
      <3>1. asked'[s] = <<>> /\ Len(<<>>) = 0
        BY <1>2, <2>3
      <3> QED
        BY <1>1, <3>1
    <2>4. CASE ~(s = Own /\ asked[s] # <<>>) /\ ~(s = h /\ h \in borrowed)
      <3>1. asked'[s] = asked[s] /\ (s \notin live' => s \notin live)
        BY <1>2, <2>4
      <3> QED
        BY <2>1, <3>1
    <2> QED
      BY <2>2, <2>3, <2>4
  <1>4. asked' \in [Session -> Seq(AskedTurn)]
    BY <1>2, <1>3
  <1>5. SessionTypes'
    BY <1>2, <1>3, <1>4 DEF SessionTypes
  <1>6. RunTypes' /\ AnswerTypes'
    BY <1>1, <1>2 DEF RunTypes, AnswerTypes
  <1>7. PressTypes' /\ ~Resuming(c)' /\ \A d \in Client : d # c => press'[d] = press[d]
    BY <1>2, Noted
  <1>8. press'[c].st = "none"
    BY <1>2, Requests DEF Done, PressTypes
  <1> QED
    BY <1>2, <1>3, <1>5, <1>6, <1>7, <1>8

LEMMA ResumeTypes ==
    ASSUME RvTypes, NEW c \in Client, Resume(c)
    PROVE  /\ RvTypes'
           /\ press'[c].st = "reading" /\ press'[c].phase = ResumedPhase(record)
           /\ \A d \in Client : d # c => press'[d] = press[d]
  <1> USE DEF RvTypes
  <1>1. record.phase \in {"survey", "find", "verify"} /\ runs \in Nat
    BY Bounds DEF RunTypes, RecordType, PhaseName, Resume
  <1> DEFINE p == [st |-> "reading", on |-> 0, phase |-> ResumedPhase(record)]
  <1>2. p \in Request /\ p.st = "reading" /\ p.phase # "none" /\ p.phase # "done"
    BY <1>1, Bounds DEF Request, ResumedPhase, PhaseName
  <1>3. press' = [press EXCEPT ![c] = p] /\ UNCHANGED <<record, runVars, sessionVars, answers, posts>>
    BY DEF Resume
  <1>4. PressTypes' /\ press'[c] = p /\ \A d \in Client : d # c => press'[d] = press[d]
    BY <1>1, <1>2, <1>3, Pressed DEF runVars
  <1> QED
    BY <1>3, <1>4 DEF RunTypes, SessionTypes, AnswerTypes, runVars, sessionVars

LEMMA PutsTypes ==
    ASSUME RvTypes, NEW c \in Client, ResumePuts(c)
    PROVE  /\ RvTypes' /\ runs' = runs + 1 /\ runs' \in Run /\ runner' = runs'
           /\ run'[runs'] = Fresh(press[c].phase, record.found)
           /\ \A h \in Run : h # runs' => run'[h] = run[h]
           /\ record'.phase = press[c].phase /\ record'.found = record.found /\ record'.draft = record.draft
           /\ press'[c].st = "asking" /\ press'[c].on = runs' /\ press'[c].phase = press[c].phase
           /\ \A d \in Client : d # c => press'[d] = press[d]
           /\ press[c].phase \in {"survey", "find", "verify"}
  <1> USE DEF RvTypes
  <1>1. runs \in 1..MaxRuns /\ runs < MaxRuns /\ runs + 1 \in Run /\ MaxRuns \in Nat /\ runs \in Nat
    BY Bounds DEF RunTypes, ResumePuts
  <1>2. press[c] \in Request /\ press[c].phase \in {"survey", "find", "verify"}
    BY DEF PressTypes, Resuming, ResumePuts, Request, PhaseName
  <1>3. /\ live' = live \cup {Own} /\ runs' = runs + 1 /\ runner' = runs + 1
        /\ run' = [run EXCEPT ![runs + 1] = Fresh(press[c].phase, record.found)]
        /\ record' = [record EXCEPT !.phase = press[c].phase]
        /\ press' = [press EXCEPT ![c].st = "asking", ![c].on = runs + 1]
        /\ UNCHANGED <<borrowed, hooked, asked, answers, posts>>
    BY DEF ResumePuts, RecordFound
  <1>4. Fresh(press[c].phase, record.found) \in RunOf
    BY <1>2, Bounds DEF Fresh, RunOf, PhaseName, RunTypes, RecordType
  <1>5. run' \in [Run -> RunOf] /\ run'[runs + 1] = Fresh(press[c].phase, record.found)
        /\ \A h \in Run : h # runs + 1 => run'[h] = run[h]
    BY <1>1, <1>3, <1>4 DEF RunTypes
  <1>6. record' \in RecordType /\ record'.phase = press[c].phase /\ record'.found = record.found
        /\ record'.draft = record.draft
    BY <1>2, <1>3 DEF RunTypes, RecordType, PhaseName
  <1>7. RunTypes'
    BY <1>1, <1>3, <1>5, <1>6 DEF RunTypes
  <1>8. SessionTypes'
    BY <1>1, <1>3, Bounds DEF SessionTypes
  <1>9. AnswerTypes'
    BY <1>1, <1>3, Bounds DEF AnswerTypes, Answer
  <1> DEFINE m == [press[c] EXCEPT !.st = "asking"]
             p == [m EXCEPT !.on = runs + 1]
  <1>10. m \in Request /\ m.st = "asking" /\ m.phase = press[c].phase
    BY <1>2 DEF Request
  <1> HIDE DEF m
  <1>11. p \in Request /\ p.st = "asking" /\ p.on = runs + 1 /\ p.phase = press[c].phase
    BY <1>1, <1>10, Bounds DEF Request
  <1>12. press' = [press EXCEPT ![c] = p]
    BY <1>3 DEF m, PressTypes
  <1> HIDE DEF p
  <1>13. PressTypes' /\ press'[c] = p /\ \A d \in Client : d # c => press'[d] = press[d]
    <2>1. runs' \in {runs, runs + 1} /\ runs + 1 \in 1..runs'
      BY <1>1, <1>3
    <2>2. p.phase # "none" /\ p.phase # "done" /\ p.on \in 1..runs'
      BY <1>2, <1>11, <2>1
    <2> QED
      BY <1>1, <1>11, <1>12, <2>1, <2>2, Pressed
  <1> QED
    BY <1>1, <1>2, <1>3, <1>5, <1>6, <1>7, <1>8, <1>9, <1>11, <1>13

LEMMA AsksTypes ==
    ASSUME RvTypes, NEW c \in Client, ResumeAsks(c)
    PROVE  /\ RvTypes' /\ press[c].on \in 1..runs /\ press[c].phase \in {"survey", "find", "verify"}
           /\ UNCHANGED <<record, run, runs, answers, posts>>
           /\ press'[c].st = "none" /\ \A d \in Client : d # c => press'[d] = press[d]
           /\ \/ Ask(press[c].on, press[c].phase) /\ runner' = runner
              \/ runner' = 0 /\ UNCHANGED <<borrowed, sessionVars>>
  <1> USE DEF RvTypes
  <1>1. press[c].on \in 1..runs /\ press[c].phase \in {"survey", "find", "verify"}
    BY DEF ResumeAsks, PressTypes, Resuming, Request, PhaseName
  <1>2. /\ UNCHANGED <<record, run, runs, answers, posts>> /\ Done(c)
        /\ \/ Ask(press[c].on, press[c].phase) /\ runner' = runner
           \/ runner' = 0 /\ UNCHANGED <<borrowed, sessionVars>>
    BY DEF ResumeAsks
  <1>3. SessionTypes'
    BY <1>1, <1>2, Asking DEF SessionTypes, sessionVars
  <1>4. RunTypes' /\ AnswerTypes'
    BY <1>2, Bounds DEF RunTypes, AnswerTypes
  <1>5. PressTypes' /\ \A d \in Client : d # c => press'[d] = press[d]
    BY <1>2, Noted
  <1>6. press'[c].st = "none"
    BY <1>2, Requests DEF Done, PressTypes
  <1> QED
    BY <1>1, <1>2, <1>3, <1>4, <1>5, <1>6

LEMMA PostTypes ==
    ASSUME RvTypes, NEW c \in Client, Post(c) \/ PostSubmits(c) \/ PostRecords(c)
    PROVE  /\ RvTypes' /\ UNCHANGED <<runVars, sessionVars, answers>> /\ ~Resuming(c)'
           /\ record'.phase = record.phase /\ record'.found = record.found /\ record'.draft = record.draft
           /\ \A d \in Client : d # c => press'[d] = press[d]
  <1> USE DEF RvTypes
  <1>1. UNCHANGED <<runVars, sessionVars, answers>>
    BY DEF Post, PostSubmits, PostRecords
  <1>2. Done(c) \/ \E st \in {"posting", "posted"} : Now(c, st, 0)
    BY DEF Post, PostSubmits, PostRecords
  <1>3. record' \in RecordType /\ record'.phase = record.phase /\ record'.found = record.found
        /\ record'.draft = record.draft
    BY DEF Post, PostSubmits, PostRecords, RunTypes, RecordType
  <1>4. posts' \in Nat
    BY DEF Post, PostSubmits, PostRecords, RunTypes
  <1>5. PressTypes' /\ ~Resuming(c)' /\ \A d \in Client : d # c => press'[d] = press[d]
    BY <1>1, <1>2, Noted DEF runVars
  <1> QED
    BY <1>1, <1>3, <1>4, <1>5 DEF RunTypes, SessionTypes, AnswerTypes, runVars, sessionVars

LEMMA RvNextTypes == RvTypes /\ [RvNext]_rvVars => RvTypes'
  <1> SUFFICES ASSUME RvTypes, [RvNext]_rvVars PROVE RvTypes'
    OBVIOUS
  <1>1. ASSUME NEW s \in Session, SessionEnds(s) PROVE RvTypes'
    BY <1>1, EndTypes
  <1>2. ASSUME NEW s \in Session, NEW ok \in BOOLEAN, TurnOver(s, ok) PROVE RvTypes'
    BY <1>2, TurnTypes
  <1>3. ASSUME NEW a \in answers, Route(a) \/ DropCancelled(a) \/ Advance(a) PROVE RvTypes'
    BY <1>3, RouteTypes, DropTypes, AdvanceTypes
  <1>4. ASSUME NEW c \in Client, Stop(c) \/ Resume(c) \/ Post(c) \/ Serves(c) PROVE RvTypes'
    BY <1>4, StopTypes, ResumeTypes, PostTypes, StopEndsTypes, PutsTypes, AsksTypes DEF Serves
  <1>5. CASE Chat \/ Restart
    BY <1>5, ChatTypes, RestartTypes
  <1>6. CASE UNCHANGED rvVars
    BY <1>6 DEF rvVars, runVars, sessionVars, RvTypes, RunTypes, SessionTypes, AnswerTypes, PressTypes, Resuming
  <1> QED
    BY <1>1, <1>2, <1>3, <1>4, <1>5, <1>6 DEF RvNext, Answering

LEMMA TypesSuffice == RvTypes => RvTypeOK
  <1> SUFFICES ASSUME RvTypes PROVE RvTypeOK
    OBVIOUS
  <1>1. \A h \in Run : run[h].repairs \in 0..MaxRepairs
    BY DEF RvTypes, RunTypes, RunOf
  <1> QED
    BY <1>1 DEF RvTypes, RunTypes, SessionTypes, RecordType, PhaseName, RvTypeOK

\* Every variable of a review has its type, whatever the runs, sessions and clients.
THEOREM ReviewIsTyped == RvSpec => []RvTypeOK
  <1>1. RvInit => RvTypes
    BY RvStarted DEF RvInv
  <1> QED
    BY <1>1, RvNextTypes, TypesSuffice, PTL DEF RvSpec

-----------------------------------------------------------------------------
(* Claims *)

\* A step that leaves the runs, the requests and what is found alone.
LEMMA StillBacked ==
    ASSUME Backed, record'.found = record.found, UNCHANGED <<run, press>>
    PROVE  Backed'
  BY DEF Backed, Resuming

LEMMA AdvanceBacked == ASSUME RvInv, NEW a \in answers, Advance(a) PROVE Backed'
  <1> USE DEF RvInv
  <1> DEFINE h == a.on
  <1>1. PICK r \in Judged :
              /\ r \in Accept(run[h], a.turn.kind, a.ok)
              /\ run'[h].phase = r.phase /\ run'[h].found = r.found
              /\ EndsWith(r) \/ GoesOn(h, r)
    BY Advancing
  <1>2. h \in Run /\ run[h] \in RunOf /\ a.ok \in BOOLEAN /\ press' = press
        /\ \A g \in Run : g # h => run'[g] = run[g]
    BY Advancing DEF RvTypes, RunTypes, AnswerTypes, Answer
  <1>3. /\ r.found /\ ~run[h].found => run[h].phase = "find" /\ r.phase = "verify"
        /\ r.phase = "verify" => r.found \/ (run[h].phase = "verify" /\ r.found = run[h].found)
        /\ run[h].phase \in {"verify", "done"} => r.phase \in {"verify", "done"} /\ r.found = run[h].found
        /\ r.draft = "error" => r.phase = run[h].phase /\ r.found = run[h].found
    BY <1>1, <1>2, Accepts
  <1> HIDE DEF h
  <1>4. (record.found => record'.found) /\ (r.found => record'.found)
    BY <1>1, <1>2, <1>3 DEF EndsWith, GoesOn, Backed
  <1>5. \A g \in Run : (run'[g].found => record'.found) /\ (run'[g].phase = "verify" => run'[g].found)
    BY <1>1, <1>2, <1>3, <1>4 DEF Backed
  <1>6. \A c \in Client : Resuming(c)' /\ press'[c].phase = "verify" => record'.found
    BY <1>2, <1>4 DEF Backed, Resuming
  <1>7. ASSUME NEW c \in Client, press'[c].st = "asking", press'[c].phase = "verify"
        PROVE  run'[press'[c].on].found /\ run'[press'[c].on].phase \in {"verify", "done"}
    <2>1. press[c].on \in Run /\ run[press[c].on].found /\ run[press[c].on].phase \in {"verify", "done"}
      BY <1>2, <1>7, Bounds DEF Backed, RvTypes, RunTypes, PressTypes
    <2> QED
      BY <1>1, <1>2, <1>3, <2>1
  <1> QED
    BY <1>5, <1>6, <1>7 DEF Backed

LEMMA PutsBacked == ASSUME RvInv, NEW c \in Client, ResumePuts(c) PROVE Backed'
  <1> USE DEF RvInv
  <1>1. /\ runs' = runs + 1 /\ runs' \in Run /\ runs \in Nat
        /\ run'[runs'] = Fresh(press[c].phase, record.found)
        /\ \A h \in Run : h # runs' => run'[h] = run[h]
        /\ record'.found = record.found
        /\ press'[c].st = "asking" /\ press'[c].on = runs' /\ press'[c].phase = press[c].phase
        /\ \A d \in Client : d # c => press'[d] = press[d]
    BY PutsTypes, Bounds DEF RvTypes, RunTypes
  <1>2. run'[runs'].found = record.found /\ run'[runs'].phase = press[c].phase
    BY <1>1 DEF Fresh
  <1>3. press[c].phase = "verify" => record.found
    BY DEF ResumePuts, Backed, Resuming
  <1>4. \A d \in Client : press[d].st = "asking" => press[d].on \in Run /\ press[d].on # runs'
    BY <1>1, Bounds DEF RvTypes, PressTypes, RunTypes
  <1> HIDE DEF RvInv
  <1>5. \A g \in Run : (run'[g].found => record'.found) /\ (run'[g].phase = "verify" => run'[g].found)
    BY <1>1, <1>2, <1>3 DEF RvInv, Backed
  <1>6. \A d \in Client : Resuming(d)' /\ press'[d].phase = "verify" => record'.found
    BY <1>1, <1>3 DEF RvInv, Backed, Resuming
  <1>7. ASSUME NEW d \in Client, press'[d].st = "asking", press'[d].phase = "verify"
        PROVE  run'[press'[d].on].found /\ run'[press'[d].on].phase \in {"verify", "done"}
    <2>1. CASE d = c
      BY <1>1, <1>2, <1>3, <1>7, <2>1
    <2>2. CASE d # c
      <3>1. press'[d] = press[d] /\ press[d].on \in Run /\ run'[press[d].on] = run[press[d].on]
        BY <1>1, <1>4, <1>7, <2>2
      <3> QED
        BY <1>7, <3>1 DEF RvInv, Backed
    <2> QED
      BY <2>1, <2>2
  <1> QED
    BY <1>5, <1>6, <1>7 DEF Backed

LEMMA RequestsBacked ==
    ASSUME RvInv, NEW c \in Client, Stop(c) \/ Resume(c) \/ Post(c) \/ Serves(c)
    PROVE  Backed'
  <1> USE DEF RvInv
  <1>1. CASE Stop(c)
    <2>1. /\ record' = record
          /\ \A h \in Run : run'[h].phase = run[h].phase /\ run'[h].found = run[h].found
          /\ press'[c].st = "stopping" /\ \A d \in Client : d # c => press'[d] = press[d]
      BY <1>1, StopTypes DEF Stop
    <2>2. \A d \in Client : press[d].st = "asking" => press[d].on \in Run
      BY Bounds DEF RvTypes, PressTypes, RunTypes
    <2> QED
      BY <2>1, <2>2 DEF Backed, Resuming
  <1>2. CASE Resume(c)
    <2>1. /\ press'[c].st = "reading" /\ press'[c].phase = ResumedPhase(record)
          /\ \A d \in Client : d # c => press'[d] = press[d]
          /\ record' = record /\ run' = run
      BY <1>2, ResumeTypes DEF Resume, runVars
    <2>2. press'[c].phase = "verify" => record.found
      BY <2>1 DEF ResumedPhase
    <2> QED
      BY <2>1, <2>2 DEF Backed, Resuming
  <1>3. CASE StopEnds(c) \/ ResumeAsks(c) \/ Post(c) \/ PostSubmits(c) \/ PostRecords(c)
    <2>1. /\ run' = run /\ record'.found = record.found /\ ~Resuming(c)'
          /\ \A d \in Client : d # c => press'[d] = press[d]
      <3>1. CASE StopEnds(c)
        BY <3>1, StopEndsTypes DEF StopEnds
      <3>2. CASE ResumeAsks(c)
        BY <3>2, AsksTypes DEF Resuming
      <3>3. CASE Post(c) \/ PostSubmits(c) \/ PostRecords(c)
        BY <3>3, PostTypes DEF runVars
      <3> QED
        BY <1>3, <3>1, <3>2, <3>3
    <2> QED
      BY <2>1 DEF Backed, Resuming
  <1>4. CASE ResumePuts(c)
    BY <1>4, PutsBacked
  <1> QED
    BY <1>1, <1>2, <1>3, <1>4 DEF Serves

LEMMA RvNextInv == RvInv /\ [RvNext]_rvVars => RvInv'
  <1> SUFFICES ASSUME RvInv, [RvNext]_rvVars PROVE Backed'
    BY RvNextTypes DEF RvInv
  <1>1. CASE \E s \in Session : SessionEnds(s) \/ \E ok \in BOOLEAN : TurnOver(s, ok)
    BY <1>1, StillBacked DEF SessionEnds, TurnOver, RvInv, runVars
  <1>2. ASSUME NEW a \in answers, Route(a) \/ DropCancelled(a) PROVE Backed'
    BY <1>2, StillBacked DEF Route, DropCancelled, RvInv, runVars
  <1>3. ASSUME NEW a \in answers, Advance(a) PROVE Backed'
    BY <1>3, AdvanceBacked
  <1>4. ASSUME NEW c \in Client, Stop(c) \/ Resume(c) \/ Post(c) \/ Serves(c) PROVE Backed'
    BY <1>4, RequestsBacked
  <1>5. CASE Chat
    BY <1>5, StillBacked DEF Chat, RvInv, runVars
  <1>6. CASE Restart
    <2>1. /\ \A h \in Run : run'[h] = Blank
          /\ \A c \in Client : press'[c] = NoPress
      BY <1>6 DEF Restart
    <2> QED
      BY <2>1 DEF Backed, Resuming, Blank, Fresh, NoPress
  <1>7. CASE UNCHANGED rvVars
    BY <1>7, StillBacked DEF rvVars, RvInv, runVars
  <1> QED
    BY <1>1, <1>2, <1>3, <1>4, <1>5, <1>6, <1>7 DEF RvNext, Answering

\* A question comes of an answer that is acted on, or of a resume.
LEMMA WhoAsks ==
    ASSUME RvTypes, RvNext, NEW s \in Session, NEW kind \in {"survey", "find", "verify"}, NEW h \in Run,
           Asks(s, kind, h)
    PROVE  \/ \E a \in answers : Advance(a) /\ a.on = h /\ run'[h].phase = kind
           \/ \E c \in Client : ResumeAsks(c) /\ press[c].on = h /\ press[c].phase = kind
  <1> USE DEF RvTypes
  <1>0. SessionTypes /\ RunTypes /\ asked[s] \in Seq(AskedTurn) /\ (s \notin live => asked[s] = <<>>) /\ Len(<<>>) = 0
    BY DEF SessionTypes
  <1>1. asked'[s] \notin {asked[s], <<>>}
    BY <1>0, NothingAsked
  <1>2. ASSUME NEW t \in Session, SessionEnds(t) PROVE FALSE
    BY <1>1, <1>2 DEF SessionEnds, SessionTypes
  <1>3. ASSUME NEW t \in Session, NEW ok \in BOOLEAN, TurnOver(t, ok) PROVE FALSE
    <2>1. t \in live /\ asked[t] # <<>> /\ asked' = [asked EXCEPT ![t] = Tail(asked[t])]
      BY <1>3 DEF TurnOver
    <2>2. t = s /\ asked'[s] = Tail(asked[s])
      BY <1>1, <2>1 DEF SessionTypes
    <2>3. Len(Tail(asked[s])) = Len(asked[s]) - 1 /\ Len(asked[s]) \in Nat
      BY <1>0, <2>1, <2>2
    <2> QED
      BY <2>1, <2>2, <2>3 DEF Asks
  <1>4. ASSUME NEW a \in answers, Route(a) \/ DropCancelled(a) PROVE FALSE
    BY <1>1, <1>4 DEF Route, DropCancelled, sessionVars
  <1>5. ASSUME NEW a \in answers, Advance(a)
        PROVE  a.on = h /\ run'[h].phase = kind
    <2>1. PICK r \in Judged : /\ run'[a.on].phase = r.phase
                              /\ EndsWith(r) \/ GoesOn(a.on, r)
      BY <1>5, Advancing
    <2>2. GoesOn(a.on, r) /\ a.on \in 1..runs /\ runs' = runs
      BY <1>1, <1>5, <2>1, Advancing DEF EndsWith
    <2>3. r.phase \in {"survey", "find", "verify"} /\ Ask(a.on, r.phase)
      BY <2>2 DEF GoesOn, Judged, PhaseName
    <2>4. PICK t \in Session : /\ \A u \in Session : t # u => asked'[u] = asked[u]
                               /\ Last(asked'[t]) = Turn(r.phase, a.on)
      BY <1>0, <2>2, <2>3, Asking
    <2> QED
      BY <1>0, <2>1, <2>4, AskedFor
  <1>6. ASSUME Chat PROVE FALSE
    <2>1. Own \in Session /\ asked' = [asked EXCEPT ![Own] = Append(asked[Own], Turn("chat", 0))]
      BY <1>6, Bounds DEF Chat
    <2>2. s = Own /\ asked'[s] = Append(asked[s], Turn("chat", 0))
      BY <1>1, <2>1 DEF SessionTypes
    <2>3. Turn("chat", 0) \in AskedTurn
      BY Bounds DEF AskedTurn, Turn
    <2>4. Last(asked'[s]) = Turn("chat", 0)
      BY <1>0, <2>2, <2>3 DEF Last
    <2> QED
      BY <2>4 DEF Asks, Turn
  <1>7. ASSUME Restart PROVE FALSE
    BY <1>1, <1>7 DEF Restart
  <1>8. ASSUME NEW c \in Client, Stop(c) \/ Resume(c) \/ Post(c) \/ ResumePuts(c) \/ PostSubmits(c) \/ PostRecords(c)
        PROVE  FALSE
    BY <1>1, <1>8 DEF Stop, Resume, Post, ResumePuts, PostSubmits, PostRecords, sessionVars
  <1>9. ASSUME NEW c \in Client, StopEnds(c) PROVE FALSE
    <2>1. s = Own /\ asked[s] # <<>> /\ asked'[s] = <<Head(asked[s])>>
      BY <1>1, <1>9, StopEndsTypes
    <2>2. Len(asked'[s]) = 1 /\ Len(asked[s]) > 0 /\ Len(asked[s]) \in Nat /\ s \in live
      BY <1>0, <2>1
    <2> QED
      BY <2>2 DEF Asks
  <1>10. ASSUME NEW c \in Client, ResumeAsks(c)
         PROVE  press[c].on = h /\ press[c].phase = kind
    <2>1. /\ press[c].on \in 1..runs /\ press[c].phase \in {"survey", "find", "verify"} /\ runs' = runs
          /\ Ask(press[c].on, press[c].phase)
      BY <1>1, <1>10, AsksTypes DEF sessionVars
    <2>2. PICK t \in Session : /\ \A u \in Session : t # u => asked'[u] = asked[u]
                               /\ Last(asked'[t]) = Turn(press[c].phase, press[c].on)
      BY <1>0, <2>1, Asking
    <2> QED
      BY <1>0, <2>2, AskedFor
  <1> QED
    BY <1>2, <1>3, <1>4, <1>5, <1>6, <1>7, <1>8, <1>9, <1>10 DEF RvNext, Answering, Serves

\* A verification is asked for a run that has claims.
LEMMA ChecksClaims ==
    ASSUME RvInv, RvInv', RvNext, NEW h \in Run, NEW s \in Session, Asks(s, "verify", h)
    PROVE  run'[h].found
  <1>1. CASE \E a \in answers : Advance(a) /\ a.on = h /\ run'[h].phase = "verify"
    BY <1>1 DEF RvInv, Backed
  <1>2. ASSUME NEW c \in Client, ResumeAsks(c), press[c].on = h, press[c].phase = "verify"
        PROVE  run'[h].found
    BY <1>2, AsksTypes DEF RvInv, Backed, ResumeAsks
  <1> QED
    BY <1>1, <1>2, WhoAsks DEF RvInv

\* Claims become checked ones on a verdict that was read.
LEMMA ChecksOnVerdict ==
    ASSUME RvInv, RvNext, record'.draft = "checked", record.draft # "checked"
    PROVE  \E a \in answers : a.turn.kind = "verify" /\ a.ok
  <1> USE DEF RvInv
  <1>1. ASSUME NEW a \in answers, Advance(a) PROVE a.turn.kind = "verify" /\ a.ok
    <2>1. PICK r \in Judged : /\ r \in Accept(run[a.on], a.turn.kind, a.ok)
                              /\ EndsWith(r) \/ GoesOn(a.on, r)
      BY <1>1, Advancing
    <2>2. r.draft = "checked"
      BY <2>1 DEF EndsWith, GoesOn
    <2>3. run[a.on] \in RunOf /\ a.ok \in BOOLEAN
      BY <1>1, Advancing DEF RvTypes, RunTypes, AnswerTypes, Answer
    <2> QED
      BY <2>1, <2>2, <2>3, Accepts
  <1>2. ASSUME NEW s \in Session, SessionEnds(s) \/ \E ok \in BOOLEAN : TurnOver(s, ok) PROVE FALSE
    BY <1>2 DEF SessionEnds, TurnOver
  <1>3. ASSUME NEW a \in answers, Route(a) \/ DropCancelled(a) PROVE FALSE
    BY <1>3 DEF Route, DropCancelled
  <1>4. ASSUME NEW c \in Client, Stop(c) \/ Resume(c) \/ Post(c) \/ Serves(c) PROVE FALSE
    <2>1. CASE Stop(c) \/ Resume(c) \/ StopEnds(c)
      BY <2>1 DEF Stop, Resume, StopEnds
    <2>2. CASE ResumeAsks(c) \/ ResumePuts(c)
      BY <2>2, AsksTypes, PutsTypes
    <2>3. CASE Post(c) \/ PostSubmits(c) \/ PostRecords(c)
      BY <2>3, PostTypes
    <2> QED
      BY <1>4, <2>1, <2>2, <2>3 DEF Serves
  <1>5. ASSUME Chat \/ Restart PROVE FALSE
    BY <1>5 DEF Chat, Restart
  <1> QED
    BY <1>1, <1>2, <1>3, <1>4, <1>5 DEF RvNext, Answering

\* Whoever stops, resumes, posts and talks, and whatever ends: a verification has
\* claims to check, and claims are told as checked on a verdict that was read.
THEOREM ClaimsAreChecked == RvSpec => VerifyHasClaims /\ VerdictsOnly
  <1>1. RvInit => RvInv
    BY RvStarted
  <1>2. RvInv /\ RvInv' /\ [RvNext]_rvVars =>
            [\A h \in Run, s \in Session : Asks(s, "verify", h) => run'[h].found]_rvVars
    BY ChecksClaims
  <1>3. RvInv /\ [RvNext]_rvVars =>
            [(record'.draft = "checked" /\ record.draft # "checked") =>
                \E a \in answers : a.turn.kind = "verify" /\ a.ok]_rvVars
    BY ChecksOnVerdict
  <1> QED
    BY <1>1, <1>2, <1>3, RvNextInv, PTL DEF RvSpec, VerifyHasClaims, VerdictsOnly

-----------------------------------------------------------------------------
(* What is found, for a review that is left to end before it is resumed *)

LEMMA KeptStarted == RvInit => Kept
  <1> SUFFICES ASSUME NEW phase \in {"survey", "find"},
                      /\ record = [phase |-> phase, found |-> FALSE, draft |-> "none", failed |-> FALSE, looked |-> FALSE, posted |-> FALSE]
                      /\ run = [h \in Run |-> IF h = 1 THEN Fresh(phase, FALSE) ELSE Blank]
                      /\ asked = [s \in Session |-> IF s = Own THEN <<Turn(phase, 1)>> ELSE <<>>]
                      /\ runs = 1 /\ runner = 1 /\ borrowed = {} /\ posts = 0
                      /\ live = {Own} /\ hooked = {Own} /\ answers = {}
                      /\ press = [c \in Client |-> NoPress]
               PROVE  Kept
    BY DEF RvInit
  <1> USE Bounds
  <1>1. \A c \in Client : press[c].st = "none"
    BY DEF NoPress
  <1>2. \A h \in Run : h # 1 => run[h].phase = "done"
    BY DEF Blank, Fresh
  <1>3. \A s \in Run : s \in Session /\ s # Own /\ asked[s] = <<>>
    <2>1. \A s \in Run : s \in Session /\ s # Own
      OBVIOUS
    <2> QED
      BY <2>1
  <1>4. LastLooks
    BY <1>1, <1>2 DEF LastLooks, Open, RunLooks
  <1>5. OwnSessions
    BY <1>3 DEF OwnSessions
  <1>6. ToItself /\ Settles /\ OnePost
    BY <1>1 DEF ToItself, Settles, OnePost, Resuming
  <1> QED
    BY <1>4, <1>5, <1>6 DEF Kept, Holding

\* A step that forgets, drops, ends or stops, and resumes nothing.
LEMMA FewerHeld ==
    ASSUME RvTypes, Holding, runs' = runs, runner' \in {runner, 0}, borrowed' \subseteq borrowed, answers' \subseteq answers,
           \A h \in Run : run'[h].phase = run[h].phase /\ (run[h].cancelled => run'[h].cancelled),
           \A s \in Session : asked'[s] # <<>> => asked[s] # <<>>,
           record'.phase = record.phase, record'.found = record.found,
           (press' = press /\ run' = run) \/ \A c \in Client : ~Resuming(c)'
    PROVE  Holding'
  <1> USE DEF Holding
  <1>1. 0 \notin Run /\ Own \in Session /\ \A s \in Run : s \in Session
    BY Bounds
  <1>2. \A h \in Run : Open(h)' => Open(h)
    BY <1>1 DEF Open
  <1>3. LastLooks'
    BY <1>2 DEF LastLooks, Resuming
  <1>4. OwnSessions'
    <2>1. \A s \in Run : (s \in borrowed' \/ asked'[s] # <<>> \/ \E a \in answers' : a.from = s) =>
              s <= runs /\ ~RunLooks(run[s].phase)
      BY <1>1 DEF OwnSessions
    <2>2. \A s \in Run : RunLooks(run'[s].phase) <=> RunLooks(run[s].phase)
      OBVIOUS
    <2> QED
      BY <2>1, <2>2 DEF OwnSessions
  <1>5. ToItself'
    BY <1>1 DEF ToItself, Resuming
  <1>6. Settles'
    BY <1>2 DEF Settles, Resuming
  <1> QED
    BY <1>3, <1>4, <1>5, <1>6

LEMMA TurnHeld == ASSUME RvTypes, Holding, NEW s \in Session, NEW ok \in BOOLEAN, TurnOver(s, ok) PROVE Holding'
  <1> USE DEF Holding
  <1> DEFINE new == [from |-> s, turn |-> Head(asked[s]), ok |-> ok, on |-> 0]
  <1>1. /\ answers' \subseteq answers \cup {new} /\ asked[s] # <<>>
        /\ UNCHANGED <<record, runVars, live, hooked, press, posts>>
        /\ \A t \in Session : t # s => asked'[t] = asked[t]
    BY DEF TurnOver, RvTypes, SessionTypes
  <1>2. new.from = s /\ new.on = 0 /\ 0 \notin Run /\ Own \in Session /\ \A t \in Run : t \in Session
    BY Bounds
  <1> HIDE DEF new
  <1>3. \A h \in Run : Open(h)' => Open(h)
    BY <1>1, <1>2 DEF Open, runVars
  <1>4. LastLooks'
    BY <1>1, <1>3 DEF LastLooks, runVars
  <1>5. OwnSessions'
    BY <1>1, <1>2 DEF OwnSessions, runVars
  <1>6. ToItself'
    BY <1>1, <1>2 DEF ToItself, Resuming
  <1>7. Settles'
    BY <1>1, <1>3 DEF Settles, Resuming
  <1> QED
    BY <1>4, <1>5, <1>6, <1>7

LEMMA ChatHeld == ASSUME OneByOne, RvTypes, Holding, Chat PROVE Holding'
  <1> USE DEF Holding
  <1>1. \A c \in Client : ~Resuming(c)
    BY DEF OneByOne, Chat, Resuming
  <1>2. /\ UNCHANGED <<record, runVars, live, hooked, answers, press, posts>>
        /\ \A t \in Run : asked'[t] = asked[t]
    <2>1. \A t \in Run : t \in Session /\ t # Own
      BY Bounds
    <2> QED
      BY <2>1 DEF Chat, RvTypes, SessionTypes
  <1>3. LastLooks'
    BY <1>2 DEF LastLooks, Open, runVars
  <1>4. OwnSessions'
    BY <1>2 DEF OwnSessions, runVars
  <1>5. ToItself' /\ Settles'
    BY <1>1, <1>2 DEF ToItself, Settles, Resuming, Open, runVars
  <1> QED
    BY <1>3, <1>4, <1>5

LEMMA RestartHeld == ASSUME RvTypes, Holding, Restart PROVE Holding'
  <1> USE DEF Holding
  <1>1. /\ \A h \in Run : run'[h].phase = "done"
        /\ \A c \in Client : press'[c].st = "none"
        /\ answers' = {} /\ borrowed' = {} /\ runs' = runs /\ record' = record
        /\ \A s \in Session : asked'[s] = <<>>
    BY DEF Restart, Blank, Fresh, NoPress
  <1>2. \A h \in Run : ~Open(h)'
    BY <1>1 DEF Open, RunLooks
  <1>3. \A s \in Run : s \in Session
    BY Bounds
  <1> QED
    BY <1>1, <1>2, <1>3 DEF LastLooks, OwnSessions, ToItself, Settles, Resuming

LEMMA RouteHeld == ASSUME RvTypes, Holding, NEW a \in answers, Route(a) PROVE Holding'
  <1> USE DEF Holding
  <1> DEFINE h == IF a.from = Own THEN runner ELSE IF a.from \in borrowed THEN a.from ELSE 0
             new == [a EXCEPT !.on = h]
  <1>1. answers' \subseteq answers \cup {new} /\ (h = 0 => answers' \subseteq answers)
        /\ UNCHANGED <<record, runVars, sessionVars, press, posts>>
    BY DEF Route
  <1>2. new.from = a.from /\ new.on = h
    BY DEF RvTypes, AnswerTypes, Answer
  <1>3. h # 0 => (a.from = Own /\ h = runner) \/ (a.from = h /\ h \in borrowed)
    OBVIOUS
  <1> HIDE DEF h, new
  <1>4. \A g \in Run : Open(g)' => Open(g)
    <2> SUFFICES ASSUME NEW g \in Run, Open(g)' PROVE Open(g)
      OBVIOUS
    <2>1. ~run[g].cancelled /\ RunLooks(run[g].phase) /\ (runner = g \/ \E b \in answers' : b.on = g)
      BY <1>1 DEF Open, runVars
    <2>2. g # 0
      BY Bounds
    <2>3. ASSUME g = h PROVE Open(g)
      BY <1>3, <2>1, <2>2, <2>3 DEF Open, OwnSessions
    <2> QED
      BY <1>1, <1>2, <2>1, <2>3 DEF Open
  <1>5. LastLooks'
    BY <1>1, <1>4 DEF LastLooks, runVars
  <1>6. OwnSessions'
    BY <1>1, <1>2, <1>3 DEF OwnSessions, runVars, sessionVars
  <1>7. ToItself'
    BY <1>1, <1>2 DEF ToItself, Resuming, sessionVars
  <1>8. Settles'
    BY <1>1, <1>4 DEF Settles, Resuming
  <1> QED
    BY <1>5, <1>6, <1>7, <1>8

\* The claims of an answer: nobody looks any more, and no resume is under way.
LEMMA AdvanceHeld == ASSUME RvInv, RvInv', Holding, NEW a \in answers, Advance(a) PROVE Holding'
  <1> USE DEF Holding, RvInv
  <1> DEFINE h == a.on
  <1>1. PICK r \in Judged :
              /\ r \in Accept(run[h], a.turn.kind, a.ok)
              /\ run'[h].phase = r.phase /\ run'[h].found = r.found /\ run'[h].cancelled = r.cancelled
              /\ EndsWith(r) \/ GoesOn(h, r)
    BY Advancing
  <1>2. /\ h \in 1..runs /\ h \in Run /\ ~run[h].cancelled
        /\ answers' = answers \ {a} /\ UNCHANGED <<runs, press, posts>>
        /\ \A g \in Run : g # h => run'[g] = run[g]
    BY Advancing
  <1>3. run[h] \in RunOf /\ a.ok \in BOOLEAN /\ runs \in Nat /\ h # 0 /\ a \in answers /\ a.on = h /\ h <= runs
    BY <1>2, Bounds DEF RvTypes, RunTypes, AnswerTypes, Answer
  <1>4. /\ r.cancelled = run[h].cancelled
        /\ RunLooks(r.phase) => RunLooks(run[h].phase) /\ r.found = run[h].found
        /\ r.found /\ ~run[h].found => run[h].phase = "find" /\ r.phase = "verify"
        /\ r.draft = "error" => r.phase = run[h].phase /\ r.found = run[h].found
    BY <1>1, <1>3, Accepts
  <1> HIDE DEF h
  <1>5. runner' \in {runner, 0} /\ (record.found => record'.found)
    BY <1>1 DEF EndsWith, GoesOn
  <1>6. RunLooks(run[h].phase) => Open(h)
    BY <1>2, <1>3 DEF Open
  <1>7. \A g \in Run : Open(g)' => Open(g)
    <2>1. \A g \in Run : g # h => (Open(g)' => Open(g))
      BY <1>2, <1>5, Bounds DEF Open
    <2>2. Open(h)' => Open(h)
      BY <1>1, <1>4, <1>6 DEF Open
    <2> QED
      BY <2>1, <2>2
  <1>8. LastLooks'
    <2>1. \A c \in Client : press[c].st = "asking" => press[c].on \in Run
      BY Bounds DEF RvTypes, PressTypes, RunTypes
    <2>2. \A g \in Run : run'[g].cancelled = run[g].cancelled
      BY <1>1, <1>2, <1>4
    <2> QED
      BY <1>2, <1>5, <1>7, <2>1, <2>2 DEF LastLooks
  <1>9. \A s \in Run : s <= runs /\ ~RunLooks(run[s].phase) => s <= runs' /\ ~RunLooks(run'[s].phase)
    BY <1>1, <1>2, <1>4
  <1>10. a.from # Own => a.from = h /\ ~RunLooks(run[h].phase)
    BY <1>2, <1>3 DEF OwnSessions
  <1>11. OwnSessions'
    <2>1. CASE EndsWith(r)
      <3>1. \A s \in Run : (s \in borrowed' => s \in borrowed) /\ (asked'[s] # <<>> => asked[s] # <<>>)
        BY <2>1, Bounds DEF EndsWith
      <3> QED
        BY <1>2, <1>9, <3>1 DEF OwnSessions
    <2>2. CASE GoesOn(h, r)
      <3>1. r.phase \in {"survey", "find", "verify"} /\ Ask(h, r.phase)
        BY <2>2 DEF GoesOn, Judged, PhaseName
      <3>2. /\ borrowed' = borrowed \/ (r.phase = "verify" /\ borrowed' = borrowed \cup {h})
            /\ \E s \in Session : /\ s = Own \/ (s = h /\ h \in borrowed')
                                  /\ \A t \in Session : t # s => asked'[t] = asked[t]
        BY <1>2, <3>1, Asking DEF RvTypes
      <3>3. h \in borrowed' => h <= runs' /\ ~RunLooks(run'[h].phase)
        <4>1. h \in borrowed => ~RunLooks(run[h].phase)
          BY <1>2 DEF OwnSessions
        <4>2. r.phase = "verify" => ~RunLooks(run'[h].phase)
          BY <1>1 DEF RunLooks
        <4> QED
          BY <1>2, <1>3, <1>9, <3>2, <4>1, <4>2
      <3>4. \A s \in Run : s # h => (s \in borrowed' => s \in borrowed) /\ (asked'[s] # <<>> => asked[s] # <<>>)
        BY <3>2, Bounds
      <3>5. asked'[h] # <<>> => h \in borrowed' \/ asked[h] # <<>>
        BY <1>2, <3>2, Bounds
      <3>6. \A s \in Run : (s \in borrowed' \/ asked'[s] # <<>> \/ \E b \in answers' : b.from = s) =>
                s <= runs' /\ ~RunLooks(run'[s].phase)
        BY <1>2, <1>9, <3>3, <3>4, <3>5 DEF OwnSessions
      <3> QED
        BY <1>2, <3>6 DEF OwnSessions
    <2> QED
      BY <1>1, <2>1, <2>2
  <1>12. r.found /\ ~record.found => run[h].phase = "find" /\ r.phase = "verify" /\ Open(h)
    BY <1>2, <1>4, <1>6 DEF Backed, RunLooks
  <1>13. ToItself'
    <2> SUFFICES ASSUME ~record'.found, NEW c \in Client, Resuming(c)'
                 PROVE  asked'[Own] = <<>> /\ \A b \in answers' : b.from # Own
      BY DEF ToItself
    <2>1. Resuming(c) /\ ~record.found
      BY <1>2, <1>5 DEF Resuming
    <2>2. asked[Own] = <<>> /\ \A b \in answers : b.from # Own
      BY <2>1 DEF ToItself
    <2>3. CASE EndsWith(r)
      BY <1>2, <2>2, <2>3, Bounds DEF EndsWith
    <2>4. CASE GoesOn(h, r)
      <3>1. ~RunLooks(r.phase)
        BY <1>3, <1>4, <1>10, <2>2
      <3>2. r.phase = "verify"
        BY <2>4, <3>1 DEF GoesOn, RunLooks, Judged, PhaseName
      <3>3. record'.found
        BY <1>1, <1>2, <3>2 DEF Backed
      <3> QED
        BY <3>3
    <2> QED
      BY <1>1, <2>3, <2>4
  <1>14. Settles'
    <2> SUFFICES ASSUME record'.found
                 PROVE  /\ \A g \in Run : ~Open(g)'
                        /\ ~RunLooks(record'.phase)
                        /\ \A c \in Client : Resuming(c)' => ~RunLooks(press'[c].phase)
      BY DEF Settles
    <2>1. CASE record.found
      <3>1. ~RunLooks(r.phase)
        BY <1>2, <1>4, <1>6, <2>1 DEF Settles
      <3>2. ~RunLooks(record'.phase)
        BY <1>1, <3>1 DEF EndsWith, GoesOn, RunLooks
      <3> QED
        BY <1>2, <1>7, <2>1, <3>2 DEF Settles, Resuming
    <2>2. CASE ~record.found
      <3>1. r.found
        BY <1>1, <2>2 DEF EndsWith, GoesOn
      <3>2. run[h].phase = "find" /\ r.phase = "verify" /\ Open(h)
        BY <1>12, <2>2, <3>1
      <3>3. \A g \in Run : Open(g) => g = h
        BY <1>2, <3>2 DEF LastLooks
      <3>4. ~Open(h)'
        BY <1>1, <3>2 DEF Open, RunLooks
      <3>5. ~RunLooks(record'.phase)
        BY <1>1, <3>2 DEF EndsWith, GoesOn, RunLooks
      <3>6. \A c \in Client : ~Resuming(c)
        <4> SUFFICES ASSUME NEW c \in Client, Resuming(c) PROVE FALSE
          OBVIOUS
        <4>1. a.from # Own
          BY <1>3, <2>2 DEF ToItself
        <4> QED
          BY <1>10, <3>2, <4>1 DEF RunLooks
      <3> QED
        BY <1>2, <1>7, <3>3, <3>4, <3>5, <3>6 DEF Resuming
    <2> QED
      BY <2>1, <2>2
  <1> QED
    BY <1>8, <1>11, <1>13, <1>14

LEMMA ResumeHeld == ASSUME OneByOne, RvTypes, Holding, NEW c \in Client, Resume(c) PROVE Holding'
  <1> USE DEF Holding
  <1>1. /\ runner = 0 /\ answers = {} /\ asked[Own] = <<>> /\ record.phase # "done"
        /\ UNCHANGED <<record, runVars, sessionVars, answers, posts>>
    BY DEF OneByOne, Resume
  <1>2. /\ press'[c].st = "reading" /\ press'[c].phase = ResumedPhase(record)
        /\ \A d \in Client : d = c
    BY ResumeTypes DEF OneByOne
  <1>3. \A h \in Run : ~Open(h) /\ ~Open(h)'
    BY <1>1, Bounds DEF Open, runVars
  <1>4. LastLooks'
    BY <1>1, <1>2, <1>3 DEF LastLooks, runVars
  <1>5. OwnSessions'
    BY <1>1 DEF OwnSessions, runVars, sessionVars
  <1>6. ToItself'
    BY <1>1 DEF ToItself, sessionVars
  <1>7. record.found => ~RunLooks(ResumedPhase(record))
    BY DEF Settles, ResumedPhase
  <1>8. Settles'
    BY <1>1, <1>2, <1>3, <1>7 DEF Settles
  <1> QED
    BY <1>4, <1>5, <1>6, <1>8

LEMMA PutsHeld == ASSUME OneByOne, RvTypes, Holding, NEW c \in Client, ResumePuts(c) PROVE Holding'
  <1> USE DEF Holding
  <1>1. /\ runs' = runs + 1 /\ runs' \in Run /\ runner' = runs' /\ runs \in Nat
        /\ run'[runs'] = Fresh(press[c].phase, record.found)
        /\ \A h \in Run : h # runs' => run'[h] = run[h]
        /\ record'.phase = press[c].phase /\ record'.found = record.found
        /\ press'[c].st = "asking" /\ press'[c].on = runs' /\ press'[c].phase = press[c].phase
        /\ \A d \in Client : d = c
    BY PutsTypes, Bounds DEF RvTypes, RunTypes, OneByOne
  <1>2. press[c].st = "reading" /\ Resuming(c) /\ UNCHANGED <<borrowed, hooked, asked, answers, posts>>
    BY DEF ResumePuts, Resuming
  <1>3. run'[runs'].phase = press[c].phase /\ ~run'[runs'].cancelled
    BY <1>1 DEF Fresh
  <1>4. \A h \in Run : ~Open(h)
    BY <1>2 DEF LastLooks
  <1>5. \A h \in Run : h # runs' => ~Open(h)'
    BY <1>1, <1>2, <1>4 DEF Open
  <1>6. LastLooks'
    BY <1>1, <1>3, <1>5 DEF LastLooks
  <1>7. OwnSessions'
    <2>1. \A s \in Run : s <= runs => s # runs' /\ s <= runs'
      BY <1>1, Bounds
    <2>2. \A s \in Run : (s \in borrowed' \/ asked'[s] # <<>> \/ \E a \in answers' : a.from = s) =>
              s <= runs' /\ ~RunLooks(run'[s].phase)
      BY <1>1, <1>2, <2>1 DEF OwnSessions
    <2> QED
      BY <1>2, <2>2 DEF OwnSessions
  <1>8. ToItself'
    BY <1>1, <1>2 DEF ToItself
  <1>9. Settles'
    <2>1. record.found => ~RunLooks(press[c].phase)
      BY <1>2 DEF Settles
    <2> QED
      BY <1>1, <1>3, <1>5, <2>1 DEF Settles, Open
  <1> QED
    BY <1>6, <1>7, <1>8, <1>9

LEMMA AsksHeld == ASSUME OneByOne, RvInv, Holding, NEW c \in Client, ResumeAsks(c) PROVE Holding'
  <1> USE DEF Holding, RvInv
  <1> DEFINE h == press[c].on
  <1>1. /\ h \in 1..runs /\ press[c].phase \in {"survey", "find", "verify"} /\ press[c].st = "asking"
        /\ UNCHANGED <<record, run, runs, answers, posts>>
        /\ press'[c].st = "none" /\ \A d \in Client : d = c
        /\ \/ Ask(h, press[c].phase) /\ runner' = runner
           \/ runner' = 0 /\ UNCHANGED <<borrowed, sessionVars>>
    BY AsksTypes DEF OneByOne, ResumeAsks
  <1>2. h \in Run /\ h <= runs /\ 0 \notin Run
    BY <1>1, Bounds DEF RvTypes, RunTypes
  <1>3. press[c].phase = "verify" => ~RunLooks(run[h].phase)
    BY <1>1 DEF Backed, RunLooks
  <1> HIDE DEF h
  <1>4. \A g \in Run : Open(g)' => Open(g)
    BY <1>1, <1>2 DEF Open
  <1>5. LastLooks'
    BY <1>1, <1>4 DEF LastLooks
  <1>6. OwnSessions'
    <2>1. CASE Ask(h, press[c].phase)
      <3>1. /\ borrowed' = borrowed \/ (press[c].phase = "verify" /\ borrowed' = borrowed \cup {h})
            /\ \E s \in Session : /\ s = Own \/ (s = h /\ h \in borrowed')
                                  /\ \A t \in Session : t # s => asked'[t] = asked[t]
        BY <1>1, <2>1, Asking DEF RvTypes
      <3>2. \A s \in Run : (s \in borrowed' => s \in borrowed \/ (s = h /\ press[c].phase = "verify"))
                /\ (asked'[s] # <<>> => asked[s] # <<>> \/ s \in borrowed')
        BY <3>1, Bounds
      <3> QED
        BY <1>1, <1>2, <1>3, <3>2 DEF OwnSessions
    <2>2. CASE UNCHANGED <<borrowed, sessionVars>>
      BY <1>1, <2>2 DEF OwnSessions, sessionVars
    <2> QED
      BY <1>1, <2>1, <2>2
  <1>7. ToItself' /\ Settles'
    BY <1>1, <1>4 DEF ToItself, Settles, Resuming
  <1> QED
    BY <1>5, <1>6, <1>7

LEMMA HeldNext == ASSUME OneByOne, RvInv, RvInv', Holding, [RvNext]_rvVars PROVE Holding'
  <1> USE DEF RvInv
  <1>1. ASSUME NEW s \in Session, SessionEnds(s) PROVE Holding'
    <2>1. \A t \in Session : asked'[t] # <<>> => asked[t] # <<>>
      BY <1>1 DEF SessionEnds, RvTypes, SessionTypes
    <2> QED
      BY <1>1, <2>1, FewerHeld DEF SessionEnds, runVars
  <1>2. ASSUME NEW s \in Session, NEW ok \in BOOLEAN, TurnOver(s, ok) PROVE Holding'
    BY <1>2, TurnHeld
  <1>3. ASSUME NEW a \in answers, Route(a) PROVE Holding'
    BY <1>3, RouteHeld
  <1>4. ASSUME NEW a \in answers, DropCancelled(a) PROVE Holding'
    BY <1>4, FewerHeld DEF DropCancelled, runVars, sessionVars
  <1>5. ASSUME NEW a \in answers, Advance(a) PROVE Holding'
    BY <1>5, AdvanceHeld
  <1>6. ASSUME NEW c \in Client, Stop(c) PROVE Holding'
    <2>1. \A h \in Run : run'[h].phase = run[h].phase /\ (run[h].cancelled => run'[h].cancelled)
      BY <1>6, StopTypes
    <2>2. \A d \in Client : ~Resuming(d)'
      BY <1>6, StopTypes DEF OneByOne, Resuming
    <2> QED
      BY <1>6, <2>1, <2>2, FewerHeld DEF Stop, sessionVars
  <1>7. ASSUME NEW c \in Client, StopEnds(c) PROVE Holding'
    <2>1. \A t \in Session : asked'[t] # <<>> => asked[t] # <<>>
      BY <1>7, StopEndsTypes
    <2>2. runner' = 0 /\ borrowed' \subseteq borrowed /\ \A d \in Client : ~Resuming(d)'
      BY <1>7, StopEndsTypes DEF OneByOne
    <2> QED
      BY <1>7, <2>1, <2>2, FewerHeld DEF StopEnds
  <1>8. ASSUME NEW c \in Client, Post(c) \/ PostSubmits(c) \/ PostRecords(c) PROVE Holding'
    <2>1. \A d \in Client : ~Resuming(d)'
      BY <1>8, PostTypes DEF OneByOne
    <2>2. /\ UNCHANGED <<runVars, sessionVars, answers>>
          /\ record'.phase = record.phase /\ record'.found = record.found
      BY <1>8, PostTypes
    <2> QED
      BY <2>1, <2>2, FewerHeld DEF runVars, sessionVars
  <1>9. ASSUME NEW c \in Client, Resume(c) \/ ResumePuts(c) \/ ResumeAsks(c) PROVE Holding'
    BY <1>9, ResumeHeld, PutsHeld, AsksHeld
  <1>10. CASE Chat \/ Restart
    BY <1>10, ChatHeld, RestartHeld
  <1>11. CASE UNCHANGED rvVars
    BY <1>11, FewerHeld DEF rvVars, runVars, sessionVars
  <1> QED
    BY <1>1, <1>2, <1>3, <1>4, <1>5, <1>6, <1>7, <1>8, <1>9, <1>10, <1>11 DEF RvNext, Answering, Serves

LEMMA PostNext == ASSUME OneByOne, RvTypes, OnePost, [RvNext]_rvVars PROVE OnePost'
  <1>1. CASE UNCHANGED <<press, posts>>
    BY <1>1 DEF OnePost
  <1>2. ASSUME NEW c \in Client, Stop(c) \/ Resume(c) \/ Post(c) \/ Serves(c) PROVE OnePost'
    <2>1. \A d \in Client : d = c
      BY DEF OneByOne
    <2>2. CASE Stop(c) \/ Resume(c) \/ StopEnds(c) \/ ResumePuts(c) \/ ResumeAsks(c)
      <3>1. press'[c].st # "posting"
        BY <2>2, StopTypes, ResumeTypes, StopEndsTypes, PutsTypes, AsksTypes
      <3>2. posts' = posts
        BY <2>2 DEF Stop, Resume, StopEnds, ResumePuts, ResumeAsks
      <3> QED
        BY <2>1, <3>1, <3>2 DEF OnePost
    <2>3. CASE Post(c)
      BY <2>1, <2>3 DEF Post, UnreviewedAt, OnePost
    <2>4. CASE PostSubmits(c)
      <3>1. press[c].st = "posting" /\ posts = 0
        BY <2>4 DEF PostSubmits, OnePost
      <3>2. CASE posts' = posts + 1 /\ Now(c, "posted", 0)
        <4>1. At("posted", 0).st = "posted"
          BY Requests, Bounds
        <4>2. press' = [press EXCEPT ![c] = At("posted", 0)]
          BY <3>2, Requests
        <4>3. press'[c].st = "posted"
          BY <4>1, <4>2 DEF RvTypes, PressTypes
        <4> QED
          BY <2>1, <3>1, <3>2, <4>3 DEF OnePost
      <3>3. CASE Done(c) /\ UNCHANGED posts
        BY <2>1, <3>1, <3>3 DEF OnePost
      <3> QED
        BY <2>4, <3>2, <3>3 DEF PostSubmits
    <2>5. CASE PostRecords(c)
      <3>1. press'[c].st = "none" /\ posts' = posts
        BY <2>5, Requests DEF PostRecords, Done, RvTypes, PressTypes
      <3> QED
        BY <2>1, <3>1 DEF OnePost
    <2> QED
      BY <1>2, <2>2, <2>3, <2>4, <2>5 DEF Serves
  <1>3. CASE Restart
    <2>1. posts' = posts /\ \A c \in Client : press'[c].st = "none"
      BY <1>3 DEF Restart, NoPress
    <2> QED
      BY <2>1 DEF OnePost
  <1>4. CASE \/ \E s \in Session : SessionEnds(s) \/ \E ok \in BOOLEAN : TurnOver(s, ok)
             \/ Answering \/ Chat
    BY <1>1, <1>4 DEF SessionEnds, TurnOver, Answering, Route, DropCancelled, Advance, Chat
  <1> QED
    BY <1>1, <1>2, <1>3, <1>4 DEF RvNext, rvVars

\* What is asked for was not stopped, and claims that are found are not looked for.
LEMMA AsksWell ==
    ASSUME OneByOne, RvInv, Kept, RvNext, NEW h \in Run, NEW s \in Session,
           NEW kind \in {"survey", "find", "verify"}, Asks(s, kind, h)
    PROVE  ~run[h].cancelled /\ (kind = "find" => ~record.found)
  <1> USE DEF RvInv, Kept, Holding
  <1>1. ASSUME NEW a \in answers, Advance(a), a.on = h, run'[h].phase = kind
        PROVE  ~run[h].cancelled /\ (kind = "find" => ~record.found)
    <2>1. PICK r \in Judged : r \in Accept(run[h], a.turn.kind, a.ok) /\ run'[h].phase = r.phase
      BY <1>1, Advancing
    <2>2. run[h] \in RunOf /\ a.ok \in BOOLEAN /\ ~run[h].cancelled
      BY <1>1, Advancing DEF RvTypes, RunTypes, AnswerTypes, Answer
    <2>3. RunLooks(r.phase) => RunLooks(run[h].phase)
      BY <2>1, <2>2, Accepts
    <2>4. kind = "find" => RunLooks(run[h].phase)
      BY <1>1, <2>1, <2>3 DEF RunLooks
    <2> QED
      BY <1>1, <2>2, <2>4 DEF Open, Settles
  <1>2. ASSUME NEW c \in Client, ResumeAsks(c), press[c].on = h, press[c].phase = kind
        PROVE  ~run[h].cancelled /\ (kind = "find" => ~record.found)
    BY <1>2 DEF ResumeAsks, LastLooks, Settles, Resuming, RunLooks
  <1> QED
    BY <1>1, <1>2, WhoAsks

\* Of a review that is left to end before it is resumed, by one person at a time:
\* nothing is asked for after Stop, what is found is kept, only claims are
\* verified, only verdicts check them, and GitHub is told once.
THEOREM ClaimsHold ==
    ASSUME Patient, \A c, d \in Client : c = d
    PROVE  RvSpec => ClaimsAreKept
  <1> USE DEF OneByOne
  <1>1. RvInit => Kept
    BY KeptStarted
  <1>2. RvInv /\ RvInv' /\ Kept /\ [RvNext]_rvVars => Kept'
    BY HeldNext, PostNext DEF Kept, RvInv
  <1>3. RvInv /\ Kept /\ [RvNext]_rvVars =>
            /\ [\A h \in Run, s \in Session, kind \in {"survey", "find", "verify"} :
                   Asks(s, kind, h) => ~run[h].cancelled]_rvVars
            /\ [\A h \in Run, s \in Session : Asks(s, "find", h) => ~record.found]_rvVars
    BY AsksWell
  <1>4. Kept => PostedOnce
    BY DEF Kept, OnePost, PostedOnce
  <1>5. RvInit => RvInv
    BY RvStarted
  <1>6. RvSpec => [](RvInv /\ Kept)
    BY <1>1, <1>2, <1>5, RvNextInv, PTL DEF RvSpec
  <1>7. RvSpec => NothingAfterStop /\ FoundIsKept
    BY <1>3, <1>6, PTL DEF RvSpec, NothingAfterStop, FoundIsKept
  <1>8. RvSpec => [][PostedOnce']_rvVars
    BY <1>4, <1>6, PTL
  <1> QED
    BY <1>7, <1>8, ClaimsAreChecked DEF ClaimsAreKept

-----------------------------------------------------------------------------
(* Share links *)

PairCode == [code : Nat, device : Device \cup {Nobody}]
LinkType == [id : Nat, tier : Tiers \cup {"none"}, guest : Device \cup {Nobody}, pending : PairCode, turns : Nat]
ToolSet == [tools : {"all", "review"} \cup Tiers, owner : {"none", "review", "share"}]
JobType == [at : {"none", "restrict", "down", "up", "hangup"}, with : Held]

\* Every variable has its type.
ShTypes ==
    /\ link \in LinkType /\ tab \in [Tab -> LinkType]
    /\ agent \in [live : BOOLEAN, tools : {"all", "review"} \cup Tiers, owner : {"none", "review", "share"}]
    /\ Runs \in Held /\ native \in {Plain, Reviewed}
    /\ job \in [app : JobType, check : JobType]
    /\ screen \in [Device -> Nat] /\ told \in PairCode /\ sent \in Nat
    /\ made \in [links : Nat, codes : Nat, opens : Nat, ends : BOOLEAN]

\* The turns on the record are those that were let through.
Counting ==
    /\ link.id = 0 => link = NoLink
    /\ link.id # 0 => sent = link.turns
    /\ sent <= MaxTurns

\* A code is on one screen only, the one it was made for, and what the owner was
\* told is on no other than the one it was read off.
OneScreen ==
    /\ link.pending # NoPending =>
          link.pending.device \in Device /\ link.pending.code # 0 /\ screen[link.pending.device] = link.pending.code
    /\ told # NoPending => told.code # 0 /\ \A d \in Device : screen[d] = told.code => d = told.device
    /\ \A d, e \in Device : screen[d] = screen[e] /\ screen[d] # 0 => d = e
    /\ told.code <= made.codes /\ \A d \in Device : screen[d] <= made.codes

\* Nobody restarts a session that was never shared.
LeftAlone ==
    made.links = 0 =>
        /\ link = NoLink /\ agent.owner # "share"
        /\ job.app.at \in {"none", "hangup"} /\ job.check.at = "none"

ShInv == ShTypes /\ Counting /\ OneScreen /\ LeftAlone

\* What a session runs with is made of tools and of who withholds them.
LEMMA HeldTools ==
    /\ Held \subseteq ToolSet /\ {Plain, Reviewed} \subseteq Held /\ Nobody \notin Device
    /\ \A t \in Tiers : Shared(t) \in Held
    /\ \A how \in Held : [tools |-> how.tools, owner |-> how.owner] = how
<1>1. Held \subseteq ToolSet
  BY DEF Held, ToolSet, Plain, Reviewed, Shared
<1>2. \A how \in ToolSet : [tools |-> how.tools, owner |-> how.owner] = how
  BY DEF ToolSet
<1>3. Nobody \notin Device
  BY ShareAssumption DEF Nobody
<1>4. {Plain, Reviewed} \subseteq Held /\ \A t \in Tiers : Shared(t) \in Held
  BY DEF Held
<1>q. QED
  BY <1>1, <1>2, <1>3, <1>4

LEMMA ShInvInit == ShInit => ShInv
<1> SUFFICES ASSUME ShInit
             PROVE  ShInv
  OBVIOUS
<1>1. Runs = native
  BY DEF ShInit, Runs, Plain, Reviewed
<1>2. ShTypes
  BY <1>1, HeldTools DEF ShInit, ShTypes, LinkType, PairCode, NoLink, NoPending, JobType, NoJob, Plain, Reviewed, Nobody
<1>3. Counting
  BY ShareAssumption DEF ShInit, Counting, NoLink
<1>4. OneScreen
  BY DEF ShInit, OneScreen, NoLink, NoPending
<1>5. LeftAlone
  BY DEF ShInit, LeftAlone, NoJob, Plain, Reviewed
<1>q. QED
  BY <1>2, <1>3, <1>4, <1>5 DEF ShInv

\* Every variable keeps its type.
LEMMA ShTypesKept ==
    ASSUME ShTypes, ShNext
    PROVE  ShTypes'
<1> USE DEF ShTypes, LinkType, PairCode, JobType
<1>1. CASE Revoke
  BY <1>1, HeldTools DEF Revoke, guests, NoLink, NoPending, NoJob, ToRestrict, Nobody, Runs
<1>2. CASE Close
  BY <1>2, HeldTools DEF Close, guests, NoLink, NoPending, NoJob, ToRestrict, Nobody, Runs
<1>3. CASE RevokeSession
  BY <1>3, HeldTools DEF RevokeSession, JobDone, guests, NoLink, NoPending, NoJob, ToRestrict, Nobody, Runs
<1>4. CASE Approve
  <2>1. link.pending \in PairCode /\ NoPending \in PairCode
    BY DEF NoPending, Nobody
  <2>2. link' \in LinkType
    BY <1>4, <2>1 DEF Approve
  <2>3. Runs' = Runs
    BY <1>4 DEF Approve, Runs
  <2>q. QED
    BY <1>4, <2>2, <2>3 DEF Approve, guests
<1>5. CASE Deny
  <2>1. NoPending \in PairCode /\ Nobody \in Device \cup {Nobody}
    BY DEF NoPending
  <2>2. link' \in LinkType
    BY <1>5, <2>1 DEF Deny
  <2>3. Runs' = Runs
    BY <1>5 DEF Deny, Runs
  <2>q. QED
    BY <1>5, <2>2, <2>3 DEF Deny, guests
<1>6. CASE Unpair
  <2>1. NoPending \in PairCode /\ Nobody \in Device \cup {Nobody}
    BY DEF NoPending
  <2>2. link' \in LinkType
    BY <1>6, <2>1 DEF Unpair
  <2>3. Runs' = Runs
    BY <1>6 DEF Unpair, Runs
  <2>q. QED
    BY <1>6, <2>2, <2>3 DEF Unpair, guests
<1>7. ASSUME NEW t \in Tiers, Create(t)
      PROVE  ShTypes'
  <2>0. link' = [id |-> made.links + 1, tier |-> t, guest |-> Nobody, pending |-> NoPending, turns |-> 0]
    BY <1>7 DEF Create, NewLink, NoLink
  <2>1. link' \in LinkType
    BY <2>0 DEF NoPending
  <2>2. Shared(t) \in Held /\ Plain \in Held
    BY HeldTools
  <2>3. job' \in [app : JobType, check : JobType]
    BY <1>7, <2>2 DEF Create, ToRestrict, NoJob
  <2>4. made' \in [links : Nat, codes : Nat, opens : Nat, ends : BOOLEAN]
    BY <1>7 DEF Create
  <2>5. Runs' = Runs
    BY <1>7 DEF Create, Runs
  <2>q. QED
    BY <1>7, <2>1, <2>3, <2>4, <2>5 DEF Create
<1>8. ASSUME NEW d \in Device, Reads(d)
      PROVE  ShTypes'
  BY <1>8, HeldTools DEF Reads, guests, NoLink, NoPending, NoJob, ToRestrict, Nobody, Runs
<1>9. ASSUME NEW d \in Device, AskToDrive(d)
      PROVE  ShTypes'
  BY <1>9, HeldTools DEF AskToDrive, CanPrompt, MayWait, guests, NoLink, NoPending, NoJob, ToRestrict, Nobody, Runs
<1>10. ASSUME NEW k \in Tab, NEW d \in Device, Looks(k, d)
      PROVE  ShTypes'
  BY <1>10, HeldTools DEF Looks, guests, NoLink, NoPending, NoJob, ToRestrict, Nobody, Runs
<1>11. ASSUME NEW k \in Tab, Prompts(k)
      PROVE  ShTypes'
  <2>1. tab' \in [Tab -> LinkType]
    BY <1>11 DEF Prompts, NoLink, NoPending, Nobody
  <2>2. link' \in LinkType /\ sent' \in Nat
    <3>1. CASE MaySpend(k)
      <4>1. link' = [link EXCEPT !.turns = link.turns + 1] /\ sent' = sent + 1
        BY <1>11, <3>1 DEF Prompts
      <4>2. link.turns + 1 \in Nat /\ sent + 1 \in Nat
        OBVIOUS
      <4>3. link' \in LinkType
        BY <4>1, <4>2
      <4>q. QED
        BY <4>1, <4>2, <4>3
    <3>2. CASE ~MaySpend(k)
      BY <1>11, <3>2 DEF Prompts
    <3>q. QED
      BY <3>1, <3>2
  <2>3. Runs' = Runs
    BY <1>11 DEF Prompts, Runs
  <2>q. QED
    BY <1>11, <2>1, <2>2, <2>3 DEF Prompts
<1>12. CASE CheckLooks
  BY <1>12, HeldTools DEF CheckLooks, ShouldRestore, Runs, guests, NoLink, NoPending, NoJob, ToRestrict, Nobody
<1>13. CASE Lapses
  BY <1>13, HeldTools DEF Lapses, guests, NoLink, NoPending, NoJob, ToRestrict, Nobody, Runs
<1>14. CASE ShSessionEnds
  BY <1>14, HeldTools DEF ShSessionEnds, guests, NoLink, NoPending, NoJob, ToRestrict, Nobody, Runs
<1>15. CASE ShSessionOpens
  <2>1. native \in Held /\ native \in ToolSet
    BY HeldTools
  <2>2. agent' \in [live : BOOLEAN, tools : {"all", "review"} \cup Tiers, owner : {"none", "review", "share"}] /\ Runs' \in Held
    BY <1>15, <2>1, HeldTools DEF ShSessionOpens, WithTools, ToolSet, Runs
  <2>3. made' \in [links : Nat, codes : Nat, opens : Nat, ends : BOOLEAN]
    BY <1>15 DEF ShSessionOpens
  <2>q. QED
    BY <1>15, <2>2, <2>3 DEF ShSessionOpens, guests
<1>16. CASE ShRestart
  BY <1>16, HeldTools DEF ShRestart, guests, NoLink, NoPending, NoJob, ToRestrict, Nobody, Runs
<1>17. ASSUME NEW j \in {"app", "check"}, Restricts(j)
      PROVE  ShTypes'
  BY <1>17, HeldTools DEF Restricts, JobDone, guests, NoLink, NoPending, NoJob, ToRestrict, Nobody, Runs
<1>18. ASSUME NEW j \in {"app", "check"}, RestartDown(j)
      PROVE  ShTypes'
  <2>1. job[j] \in JobType /\ NoJob \in JobType
    BY HeldTools DEF NoJob
  <2>2. job' \in [app : JobType, check : JobType]
    BY <1>18, <2>1 DEF RestartDown, JobDone
  <2>3. agent' \in [live : BOOLEAN, tools : {"all", "review"} \cup Tiers, owner : {"none", "review", "share"}] /\ Runs' = Runs
    BY <1>18 DEF RestartDown, Runs
  <2>q. QED
    BY <1>18, <2>2, <2>3 DEF RestartDown, guests
<1>19. ASSUME NEW j \in {"app", "check"}, RestartUp(j)
      PROVE  ShTypes'
  <2>1. job[j] \in JobType /\ NoJob \in JobType /\ job[j].with \in ToolSet
    BY HeldTools DEF NoJob
  <2>2. job' \in [app : JobType, check : JobType]
    BY <1>19, <2>1 DEF RestartUp, JobDone
  <2>3. agent' = agent \/ agent' = WithTools(job[j].with)
    BY <1>19 DEF RestartUp
  <2>4. CASE agent' = agent
    BY <1>19, <2>2, <2>4 DEF RestartUp, guests, Runs
  <2>5. CASE agent' = WithTools(job[j].with)
    <3>1. agent' \in [live : BOOLEAN, tools : {"all", "review"} \cup Tiers, owner : {"none", "review", "share"}]
      BY <2>1, <2>5 DEF WithTools, ToolSet
    <3>2. Runs' = job[j].with
      BY <2>1, <2>5, HeldTools DEF WithTools, Runs
    <3>q. QED
      BY <1>19, <2>1, <2>2, <3>1, <3>2 DEF RestartUp, guests
  <2>q. QED
    BY <2>3, <2>4, <2>5
<1>q. QED
  BY <1>1, <1>2, <1>3, <1>4, <1>5, <1>6, <1>7, <1>8, <1>9, <1>10, <1>11, <1>12, <1>13, <1>14, <1>15, <1>16, <1>17, <1>18, <1>19 DEF ShNext, OwnerActs, Guests, JobGoes

\* No prompt is let through that is not counted.
LEMMA CountingKept ==
    ASSUME ShInv, ShNext
    PROVE  Counting'
<1> USE DEF ShInv, ShTypes, LinkType, PairCode, Counting
<1>1. CASE Revoke
  BY <1>1, HeldTools, ShareAssumption DEF Revoke, guests, NoLink, NoPending, NoJob, ToRestrict, Nobody, Asked
<1>2. CASE Close
  BY <1>2, HeldTools, ShareAssumption DEF Close, guests, NoLink, NoPending, NoJob, ToRestrict, Nobody, Asked
<1>3. CASE RevokeSession
  BY <1>3, HeldTools, ShareAssumption DEF RevokeSession, JobDone, guests, NoLink, NoPending, NoJob, ToRestrict, Nobody, Asked
<1>4. CASE Approve
  <2>1. link # NoLink
    BY <1>4 DEF Approve, Approving, NoLink, NoPending, OneScreen
  <2>2. link.id # 0 /\ link'.id = link.id /\ link'.turns = link.turns
    BY <1>4, <2>1 DEF Approve
  <2>q. QED
    BY <1>4, <2>2 DEF Approve, guests
<1>5. CASE Deny
  BY <1>5, HeldTools, ShareAssumption DEF Deny, guests, NoLink, NoPending, NoJob, ToRestrict, Nobody, Asked
<1>6. CASE Unpair
  BY <1>6, HeldTools, ShareAssumption DEF Unpair, guests, NoLink, NoPending, NoJob, ToRestrict, Nobody, Asked
<1>7. ASSUME NEW t \in Tiers, Create(t)
      PROVE  Counting'
  BY <1>7, HeldTools, ShareAssumption DEF Create, NewLink, guests, NoLink, NoPending, NoJob, ToRestrict, Nobody, Asked
<1>8. ASSUME NEW d \in Device, Reads(d)
      PROVE  Counting'
  BY <1>8, HeldTools, ShareAssumption DEF Reads, guests, NoLink, NoPending, NoJob, ToRestrict, Nobody, Asked
<1>9. ASSUME NEW d \in Device, AskToDrive(d)
      PROVE  Counting'
  BY <1>9, HeldTools, ShareAssumption DEF AskToDrive, CanPrompt, MayWait, guests, NoLink, NoPending, NoJob, ToRestrict, Nobody, Asked
<1>10. ASSUME NEW k \in Tab, NEW d \in Device, Looks(k, d)
      PROVE  Counting'
  BY <1>10, HeldTools, ShareAssumption DEF Looks, guests, NoLink, NoPending, NoJob, ToRestrict, Nobody, Asked
<1>11. ASSUME NEW k \in Tab, Prompts(k)
      PROVE  Counting'
  BY <1>11, HeldTools, ShareAssumption DEF Prompts, MaySpend, MayPrompt, CanPrompt, guests, NoLink, NoPending, NoJob, ToRestrict, Nobody, Asked
<1>12. CASE CheckLooks
  BY <1>12, HeldTools, ShareAssumption DEF CheckLooks, ShouldRestore, Runs, guests, NoLink, NoPending, NoJob, ToRestrict, Nobody, Asked
<1>13. CASE Lapses
  BY <1>13, HeldTools, ShareAssumption DEF Lapses, guests, NoLink, NoPending, NoJob, ToRestrict, Nobody, Asked
<1>14. CASE ShSessionEnds
  BY <1>14, HeldTools, ShareAssumption DEF ShSessionEnds, guests, NoLink, NoPending, NoJob, ToRestrict, Nobody, Asked
<1>15. CASE ShSessionOpens
  BY <1>15, HeldTools, ShareAssumption DEF ShSessionOpens, WithTools, guests, NoLink, NoPending, NoJob, ToRestrict, Nobody, Asked
<1>16. CASE ShRestart
  BY <1>16, HeldTools, ShareAssumption DEF ShRestart, guests, NoLink, NoPending, NoJob, ToRestrict, Nobody, Asked
<1>17. ASSUME NEW j \in {"app", "check"}, Restricts(j)
      PROVE  Counting'
  BY <1>17, HeldTools, ShareAssumption DEF Restricts, JobDone, guests, NoLink, NoPending, NoJob, ToRestrict, Nobody, Asked
<1>18. ASSUME NEW j \in {"app", "check"}, RestartDown(j)
      PROVE  Counting'
  BY <1>18, HeldTools, ShareAssumption DEF RestartDown, JobDone, guests, NoLink, NoPending, NoJob, ToRestrict, Nobody, Asked
<1>19. ASSUME NEW j \in {"app", "check"}, RestartUp(j)
      PROVE  Counting'
  BY <1>19, HeldTools, ShareAssumption DEF RestartUp, JobDone, WithTools, guests, NoLink, NoPending, NoJob, ToRestrict, Nobody, Asked
<1>q. QED
  BY <1>1, <1>2, <1>3, <1>4, <1>5, <1>6, <1>7, <1>8, <1>9, <1>10, <1>11, <1>12, <1>13, <1>14, <1>15, <1>16, <1>17, <1>18, <1>19 DEF ShNext, OwnerActs, Guests, JobGoes

\* A code stays on one screen.
LEMMA OneScreenKept ==
    ASSUME ShInv, ShNext
    PROVE  OneScreen'
<1> USE DEF ShInv, ShTypes, LinkType, PairCode, OneScreen
<1>1. CASE Revoke
  BY <1>1, HeldTools DEF Revoke, guests, NoLink, NoPending, NoJob, ToRestrict, Nobody
<1>2. CASE Close
  BY <1>2, HeldTools DEF Close, guests, NoLink, NoPending, NoJob, ToRestrict, Nobody
<1>3. CASE RevokeSession
  BY <1>3, HeldTools DEF RevokeSession, JobDone, guests, NoLink, NoPending, NoJob, ToRestrict, Nobody
<1>4. CASE Approve
  BY <1>4, HeldTools DEF Approve, Approving, guests, NoLink, NoPending, NoJob, ToRestrict, Nobody
<1>5. CASE Deny
  BY <1>5, HeldTools DEF Deny, guests, NoLink, NoPending, NoJob, ToRestrict, Nobody
<1>6. CASE Unpair
  BY <1>6, HeldTools DEF Unpair, guests, NoLink, NoPending, NoJob, ToRestrict, Nobody
<1>7. ASSUME NEW t \in Tiers, Create(t)
      PROVE  OneScreen'
  BY <1>7, HeldTools DEF Create, NewLink, guests, NoLink, NoPending, NoJob, ToRestrict, Nobody
<1>8. ASSUME NEW d \in Device, Reads(d)
      PROVE  OneScreen'
  BY <1>8, HeldTools DEF Reads, guests, NoLink, NoPending, NoJob, ToRestrict, Nobody
<1>9. ASSUME NEW d \in Device, AskToDrive(d)
      PROVE  OneScreen'
  BY <1>9, HeldTools DEF AskToDrive, CanPrompt, MayWait, guests, NoLink, NoPending, NoJob, ToRestrict, Nobody
<1>10. ASSUME NEW k \in Tab, NEW d \in Device, Looks(k, d)
      PROVE  OneScreen'
  BY <1>10, HeldTools DEF Looks, guests, NoLink, NoPending, NoJob, ToRestrict, Nobody
<1>11. ASSUME NEW k \in Tab, Prompts(k)
      PROVE  OneScreen'
  BY <1>11, HeldTools DEF Prompts, MaySpend, MayPrompt, CanPrompt, guests, NoLink, NoPending, NoJob, ToRestrict, Nobody
<1>12. CASE CheckLooks
  BY <1>12, HeldTools DEF CheckLooks, ShouldRestore, Runs, guests, NoLink, NoPending, NoJob, ToRestrict, Nobody
<1>13. CASE Lapses
  BY <1>13, HeldTools DEF Lapses, guests, NoLink, NoPending, NoJob, ToRestrict, Nobody
<1>14. CASE ShSessionEnds
  BY <1>14, HeldTools DEF ShSessionEnds, guests, NoLink, NoPending, NoJob, ToRestrict, Nobody
<1>15. CASE ShSessionOpens
  BY <1>15, HeldTools DEF ShSessionOpens, WithTools, guests, NoLink, NoPending, NoJob, ToRestrict, Nobody
<1>16. CASE ShRestart
  BY <1>16, HeldTools DEF ShRestart, guests, NoLink, NoPending, NoJob, ToRestrict, Nobody
<1>17. ASSUME NEW j \in {"app", "check"}, Restricts(j)
      PROVE  OneScreen'
  BY <1>17, HeldTools DEF Restricts, JobDone, guests, NoLink, NoPending, NoJob, ToRestrict, Nobody
<1>18. ASSUME NEW j \in {"app", "check"}, RestartDown(j)
      PROVE  OneScreen'
  BY <1>18, HeldTools DEF RestartDown, JobDone, guests, NoLink, NoPending, NoJob, ToRestrict, Nobody
<1>19. ASSUME NEW j \in {"app", "check"}, RestartUp(j)
      PROVE  OneScreen'
  BY <1>19, HeldTools DEF RestartUp, JobDone, WithTools, guests, NoLink, NoPending, NoJob, ToRestrict, Nobody
<1>q. QED
  BY <1>1, <1>2, <1>3, <1>4, <1>5, <1>6, <1>7, <1>8, <1>9, <1>10, <1>11, <1>12, <1>13, <1>14, <1>15, <1>16, <1>17, <1>18, <1>19 DEF ShNext, OwnerActs, Guests, JobGoes

\* A session is shared before it is restarted for that.
LEMMA LeftAloneKept ==
    ASSUME ShInv, ShNext
    PROVE  LeftAlone'
<1> USE DEF ShInv, ShTypes, LinkType, PairCode, JobType, LeftAlone
<1>1. CASE Revoke
  BY <1>1, HeldTools DEF Revoke, guests, NoLink, NoPending, NoJob, ToRestrict, Nobody, Runs, Plain, Reviewed
<1>2. CASE Close
  BY <1>2, HeldTools DEF Close, guests, NoLink, NoPending, NoJob, ToRestrict, Nobody, Runs, Plain, Reviewed
<1>3. CASE RevokeSession
  BY <1>3, HeldTools DEF RevokeSession, JobDone, guests, NoLink, NoPending, NoJob, ToRestrict, Nobody, Runs, Plain, Reviewed
<1>4. CASE Approve
  <2>1. link # NoLink
    BY <1>4 DEF Approve, Approving, NoLink, NoPending, OneScreen
  <2>q. QED
    BY <1>4, <2>1 DEF Approve
<1>5. CASE Deny
  BY <1>5, HeldTools DEF Deny, guests, NoLink, NoPending, NoJob, ToRestrict, Nobody, Runs, Plain, Reviewed
<1>6. CASE Unpair
  BY <1>6, HeldTools DEF Unpair, guests, NoLink, NoPending, NoJob, ToRestrict, Nobody, Runs, Plain, Reviewed
<1>7. ASSUME NEW t \in Tiers, Create(t)
      PROVE  LeftAlone'
  BY <1>7, HeldTools DEF Create, NewLink, guests, NoLink, NoPending, NoJob, ToRestrict, Nobody, Runs, Plain, Reviewed
<1>8. ASSUME NEW d \in Device, Reads(d)
      PROVE  LeftAlone'
  BY <1>8, HeldTools DEF Reads, guests, NoLink, NoPending, NoJob, ToRestrict, Nobody, Runs, Plain, Reviewed
<1>9. ASSUME NEW d \in Device, AskToDrive(d)
      PROVE  LeftAlone'
  BY <1>9, HeldTools DEF AskToDrive, CanPrompt, MayWait, guests, NoLink, NoPending, NoJob, ToRestrict, Nobody, Runs, Plain, Reviewed
<1>10. ASSUME NEW k \in Tab, NEW d \in Device, Looks(k, d)
      PROVE  LeftAlone'
  BY <1>10, HeldTools DEF Looks, guests, NoLink, NoPending, NoJob, ToRestrict, Nobody, Runs, Plain, Reviewed
<1>11. ASSUME NEW k \in Tab, Prompts(k)
      PROVE  LeftAlone'
  BY <1>11, HeldTools DEF Prompts, MaySpend, MayPrompt, CanPrompt, guests, NoLink, NoPending, NoJob, ToRestrict, Nobody, Runs, Plain, Reviewed
<1>12. CASE CheckLooks
  BY <1>12, HeldTools DEF CheckLooks, ShouldRestore, Runs, guests, NoLink, NoPending, NoJob, ToRestrict, Nobody, Plain, Reviewed
<1>13. CASE Lapses
  BY <1>13, HeldTools DEF Lapses, guests, NoLink, NoPending, NoJob, ToRestrict, Nobody, Runs, Plain, Reviewed
<1>14. CASE ShSessionEnds
  BY <1>14, HeldTools DEF ShSessionEnds, guests, NoLink, NoPending, NoJob, ToRestrict, Nobody, Runs, Plain, Reviewed
<1>15. CASE ShSessionOpens
  BY <1>15, HeldTools DEF ShSessionOpens, WithTools, guests, NoLink, NoPending, NoJob, ToRestrict, Nobody, Runs, Plain, Reviewed
<1>16. CASE ShRestart
  BY <1>16, HeldTools DEF ShRestart, guests, NoLink, NoPending, NoJob, ToRestrict, Nobody, Runs, Plain, Reviewed
<1>17. ASSUME NEW j \in {"app", "check"}, Restricts(j)
      PROVE  LeftAlone'
  BY <1>17, HeldTools DEF Restricts, JobDone, guests, NoLink, NoPending, NoJob, ToRestrict, Nobody, Runs, Plain, Reviewed
<1>18. ASSUME NEW j \in {"app", "check"}, RestartDown(j)
      PROVE  LeftAlone'
  BY <1>18, HeldTools DEF RestartDown, JobDone, guests, NoLink, NoPending, NoJob, ToRestrict, Nobody, Runs, Plain, Reviewed
<1>19. ASSUME NEW j \in {"app", "check"}, RestartUp(j)
      PROVE  LeftAlone'
  BY <1>19, HeldTools DEF RestartUp, JobDone, WithTools, guests, NoLink, NoPending, NoJob, ToRestrict, Nobody, Runs, Plain, Reviewed
<1>q. QED
  BY <1>1, <1>2, <1>3, <1>4, <1>5, <1>6, <1>7, <1>8, <1>9, <1>10, <1>11, <1>12, <1>13, <1>14, <1>15, <1>16, <1>17, <1>18, <1>19 DEF ShNext, OwnerActs, Guests, JobGoes

\* Whoever is let in has the code the owner was told.
LEMMA ReadIsIn ==
    ASSUME ShInv, ShNext
    PROVE  link'.guest \notin {Nobody, link.guest} => link'.guest = told.device
<1> USE DEF ShInv, ShTypes, LinkType, PairCode, OneScreen
<1>1. CASE Revoke
  BY <1>1, HeldTools DEF Revoke, guests, NoLink, NoPending, Nobody, NewLink
<1>2. CASE Close
  BY <1>2, HeldTools DEF Close, guests, NoLink, NoPending, Nobody, NewLink
<1>3. CASE RevokeSession
  BY <1>3, HeldTools DEF RevokeSession, JobDone, guests, NoLink, NoPending, Nobody, NewLink
<1>4. CASE Approve
  BY <1>4, HeldTools DEF Approve, Approving, guests, NoLink, NoPending, Nobody, NewLink
<1>5. CASE Deny
  BY <1>5, HeldTools DEF Deny, guests, NoLink, NoPending, Nobody, NewLink
<1>6. CASE Unpair
  BY <1>6, HeldTools DEF Unpair, guests, NoLink, NoPending, Nobody, NewLink
<1>7. ASSUME NEW t \in Tiers, Create(t)
      PROVE  link'.guest \notin {Nobody, link.guest} => link'.guest = told.device
  BY <1>7, HeldTools DEF Create, NewLink, guests, NoLink, NoPending, Nobody
<1>8. ASSUME NEW d \in Device, Reads(d)
      PROVE  link'.guest \notin {Nobody, link.guest} => link'.guest = told.device
  BY <1>8, HeldTools DEF Reads, guests, NoLink, NoPending, Nobody, NewLink
<1>9. ASSUME NEW d \in Device, AskToDrive(d)
      PROVE  link'.guest \notin {Nobody, link.guest} => link'.guest = told.device
  BY <1>9, HeldTools DEF AskToDrive, CanPrompt, MayWait, guests, NoLink, NoPending, Nobody, NewLink
<1>10. ASSUME NEW k \in Tab, NEW d \in Device, Looks(k, d)
      PROVE  link'.guest \notin {Nobody, link.guest} => link'.guest = told.device
  BY <1>10, HeldTools DEF Looks, guests, NoLink, NoPending, Nobody, NewLink
<1>11. ASSUME NEW k \in Tab, Prompts(k)
      PROVE  link'.guest \notin {Nobody, link.guest} => link'.guest = told.device
  BY <1>11, HeldTools DEF Prompts, MaySpend, MayPrompt, CanPrompt, guests, NoLink, NoPending, Nobody, NewLink
<1>12. CASE CheckLooks
  BY <1>12, HeldTools DEF CheckLooks, ShouldRestore, Runs, guests, NoLink, NoPending, Nobody, NewLink
<1>13. CASE Lapses
  BY <1>13, HeldTools DEF Lapses, guests, NoLink, NoPending, Nobody, NewLink
<1>14. CASE ShSessionEnds
  BY <1>14, HeldTools DEF ShSessionEnds, guests, NoLink, NoPending, Nobody, NewLink
<1>15. CASE ShSessionOpens
  BY <1>15, HeldTools DEF ShSessionOpens, WithTools, guests, NoLink, NoPending, Nobody, NewLink
<1>16. CASE ShRestart
  BY <1>16, HeldTools DEF ShRestart, guests, NoLink, NoPending, Nobody, NewLink
<1>17. ASSUME NEW j \in {"app", "check"}, Restricts(j)
      PROVE  link'.guest \notin {Nobody, link.guest} => link'.guest = told.device
  BY <1>17, HeldTools DEF Restricts, JobDone, guests, NoLink, NoPending, Nobody, NewLink
<1>18. ASSUME NEW j \in {"app", "check"}, RestartDown(j)
      PROVE  link'.guest \notin {Nobody, link.guest} => link'.guest = told.device
  BY <1>18, HeldTools DEF RestartDown, JobDone, guests, NoLink, NoPending, Nobody, NewLink
<1>19. ASSUME NEW j \in {"app", "check"}, RestartUp(j)
      PROVE  link'.guest \notin {Nobody, link.guest} => link'.guest = told.device
  BY <1>19, HeldTools DEF RestartUp, JobDone, WithTools, guests, NoLink, NoPending, Nobody, NewLink
<1>q. QED
  BY <1>1, <1>2, <1>3, <1>4, <1>5, <1>6, <1>7, <1>8, <1>9, <1>10, <1>11, <1>12, <1>13, <1>14, <1>15, <1>16, <1>17, <1>18, <1>19 DEF ShNext, OwnerActs, Guests, JobGoes

\* Whoever waits goes on waiting.
LEMMA WaitingKept ==
    ASSUME ShInv, ShNext
    PROVE  link.pending # NoPending => link'.pending \in {link.pending, NoPending}
<1> USE DEF ShInv, ShTypes, LinkType, PairCode, OneScreen
<1>1. CASE Revoke
  BY <1>1, HeldTools DEF Revoke, guests, NoLink, NoPending, Nobody, NewLink
<1>2. CASE Close
  BY <1>2, HeldTools DEF Close, guests, NoLink, NoPending, Nobody, NewLink
<1>3. CASE RevokeSession
  BY <1>3, HeldTools DEF RevokeSession, JobDone, guests, NoLink, NoPending, Nobody, NewLink
<1>4. CASE Approve
  BY <1>4, HeldTools DEF Approve, Approving, guests, NoLink, NoPending, Nobody, NewLink
<1>5. CASE Deny
  BY <1>5, HeldTools DEF Deny, guests, NoLink, NoPending, Nobody, NewLink
<1>6. CASE Unpair
  BY <1>6, HeldTools DEF Unpair, guests, NoLink, NoPending, Nobody, NewLink
<1>7. ASSUME NEW t \in Tiers, Create(t)
      PROVE  link.pending # NoPending => link'.pending \in {link.pending, NoPending}
  BY <1>7, HeldTools DEF Create, NewLink, guests, NoLink, NoPending, Nobody
<1>8. ASSUME NEW d \in Device, Reads(d)
      PROVE  link.pending # NoPending => link'.pending \in {link.pending, NoPending}
  BY <1>8, HeldTools DEF Reads, guests, NoLink, NoPending, Nobody, NewLink
<1>9. ASSUME NEW d \in Device, AskToDrive(d)
      PROVE  link.pending # NoPending => link'.pending \in {link.pending, NoPending}
  BY <1>9, HeldTools DEF AskToDrive, CanPrompt, MayWait, guests, NoLink, NoPending, Nobody, NewLink
<1>10. ASSUME NEW k \in Tab, NEW d \in Device, Looks(k, d)
      PROVE  link.pending # NoPending => link'.pending \in {link.pending, NoPending}
  BY <1>10, HeldTools DEF Looks, guests, NoLink, NoPending, Nobody, NewLink
<1>11. ASSUME NEW k \in Tab, Prompts(k)
      PROVE  link.pending # NoPending => link'.pending \in {link.pending, NoPending}
  BY <1>11, HeldTools DEF Prompts, MaySpend, MayPrompt, CanPrompt, guests, NoLink, NoPending, Nobody, NewLink
<1>12. CASE CheckLooks
  BY <1>12, HeldTools DEF CheckLooks, ShouldRestore, Runs, guests, NoLink, NoPending, Nobody, NewLink
<1>13. CASE Lapses
  BY <1>13, HeldTools DEF Lapses, guests, NoLink, NoPending, Nobody, NewLink
<1>14. CASE ShSessionEnds
  BY <1>14, HeldTools DEF ShSessionEnds, guests, NoLink, NoPending, Nobody, NewLink
<1>15. CASE ShSessionOpens
  BY <1>15, HeldTools DEF ShSessionOpens, WithTools, guests, NoLink, NoPending, Nobody, NewLink
<1>16. CASE ShRestart
  BY <1>16, HeldTools DEF ShRestart, guests, NoLink, NoPending, Nobody, NewLink
<1>17. ASSUME NEW j \in {"app", "check"}, Restricts(j)
      PROVE  link.pending # NoPending => link'.pending \in {link.pending, NoPending}
  BY <1>17, HeldTools DEF Restricts, JobDone, guests, NoLink, NoPending, Nobody, NewLink
<1>18. ASSUME NEW j \in {"app", "check"}, RestartDown(j)
      PROVE  link.pending # NoPending => link'.pending \in {link.pending, NoPending}
  BY <1>18, HeldTools DEF RestartDown, JobDone, guests, NoLink, NoPending, Nobody, NewLink
<1>19. ASSUME NEW j \in {"app", "check"}, RestartUp(j)
      PROVE  link.pending # NoPending => link'.pending \in {link.pending, NoPending}
  BY <1>19, HeldTools DEF RestartUp, JobDone, WithTools, guests, NoLink, NoPending, Nobody, NewLink
<1>q. QED
  BY <1>1, <1>2, <1>3, <1>4, <1>5, <1>6, <1>7, <1>8, <1>9, <1>10, <1>11, <1>12, <1>13, <1>14, <1>15, <1>16, <1>17, <1>18, <1>19 DEF ShNext, OwnerActs, Guests, JobGoes

\* A session that was not shared is not ended.
LEMMA UnsharedKept ==
    ASSUME ShInv, ShNext
    PROVE  agent.live /\ ~agent'.live /\ made.links = 0 => made'.ends \/ job'.app.at = "hangup"
<1> USE DEF LeftAlone, ShInv, ShTypes, LinkType, PairCode, JobType
<1>1. CASE Revoke
  BY <1>1, HeldTools DEF Revoke, guests, NoJob, Runs, Plain, Reviewed, Asked
<1>2. CASE Close
  BY <1>2, HeldTools DEF Close, guests, NoJob, Runs, Plain, Reviewed, Asked
<1>3. CASE RevokeSession
  BY <1>3, HeldTools DEF RevokeSession, JobDone, guests, NoJob, Runs, Plain, Reviewed, Asked
<1>4. CASE Approve
  BY <1>4, HeldTools DEF Approve, Approving, guests, NoJob, Runs, Plain, Reviewed, Asked
<1>5. CASE Deny
  BY <1>5, HeldTools DEF Deny, guests, NoJob, Runs, Plain, Reviewed, Asked
<1>6. CASE Unpair
  BY <1>6, HeldTools DEF Unpair, guests, NoJob, Runs, Plain, Reviewed, Asked
<1>7. ASSUME NEW t \in Tiers, Create(t)
      PROVE  agent.live /\ ~agent'.live /\ made.links = 0 => made'.ends \/ job'.app.at = "hangup"
  BY <1>7, HeldTools DEF Create, NewLink, guests, NoJob, Runs, Plain, Reviewed, Asked
<1>8. ASSUME NEW d \in Device, Reads(d)
      PROVE  agent.live /\ ~agent'.live /\ made.links = 0 => made'.ends \/ job'.app.at = "hangup"
  BY <1>8, HeldTools DEF Reads, guests, NoJob, Runs, Plain, Reviewed, Asked
<1>9. ASSUME NEW d \in Device, AskToDrive(d)
      PROVE  agent.live /\ ~agent'.live /\ made.links = 0 => made'.ends \/ job'.app.at = "hangup"
  BY <1>9, HeldTools DEF AskToDrive, CanPrompt, MayWait, guests, NoJob, Runs, Plain, Reviewed, Asked
<1>10. ASSUME NEW k \in Tab, NEW d \in Device, Looks(k, d)
      PROVE  agent.live /\ ~agent'.live /\ made.links = 0 => made'.ends \/ job'.app.at = "hangup"
  BY <1>10, HeldTools DEF Looks, guests, NoJob, Runs, Plain, Reviewed, Asked
<1>11. ASSUME NEW k \in Tab, Prompts(k)
      PROVE  agent.live /\ ~agent'.live /\ made.links = 0 => made'.ends \/ job'.app.at = "hangup"
  BY <1>11, HeldTools DEF Prompts, MaySpend, MayPrompt, CanPrompt, guests, NoJob, Runs, Plain, Reviewed, Asked
<1>12. CASE CheckLooks
  BY <1>12, HeldTools DEF CheckLooks, ShouldRestore, Runs, guests, NoJob, Plain, Reviewed, Asked
<1>13. CASE Lapses
  BY <1>13, HeldTools DEF Lapses, guests, NoJob, Runs, Plain, Reviewed, Asked
<1>14. CASE ShSessionEnds
  BY <1>14, HeldTools DEF ShSessionEnds, guests, NoJob, Runs, Plain, Reviewed, Asked
<1>15. CASE ShSessionOpens
  BY <1>15, HeldTools DEF ShSessionOpens, WithTools, guests, NoJob, Runs, Plain, Reviewed, Asked
<1>16. CASE ShRestart
  BY <1>16, HeldTools DEF ShRestart, guests, NoJob, Runs, Plain, Reviewed, Asked
<1>17. ASSUME NEW j \in {"app", "check"}, Restricts(j)
      PROVE  agent.live /\ ~agent'.live /\ made.links = 0 => made'.ends \/ job'.app.at = "hangup"
  BY <1>17, HeldTools DEF Restricts, JobDone, guests, NoJob, Runs, Plain, Reviewed, Asked
<1>18. ASSUME NEW j \in {"app", "check"}, RestartDown(j)
      PROVE  agent.live /\ ~agent'.live /\ made.links = 0 => made'.ends \/ job'.app.at = "hangup"
  BY <1>18, HeldTools DEF RestartDown, JobDone, guests, NoJob, Runs, Plain, Reviewed, Asked
<1>19. ASSUME NEW j \in {"app", "check"}, RestartUp(j)
      PROVE  agent.live /\ ~agent'.live /\ made.links = 0 => made'.ends \/ job'.app.at = "hangup"
  BY <1>19, HeldTools DEF RestartUp, JobDone, WithTools, guests, NoJob, Runs, Plain, Reviewed, Asked
<1>q. QED
  BY <1>1, <1>2, <1>3, <1>4, <1>5, <1>6, <1>7, <1>8, <1>9, <1>10, <1>11, <1>12, <1>13, <1>14, <1>15, <1>16, <1>17, <1>18, <1>19 DEF ShNext, OwnerActs, Guests, JobGoes

LEMMA ShTypesSuffice == ShTypes => ShTypeOK
<1> SUFFICES ASSUME ShTypes
             PROVE  ShTypeOK
  OBVIOUS
<1>1. DOMAIN job = {"app", "check"} /\ job.app \in JobType /\ job.check \in JobType
  BY DEF ShTypes
<1>q. QED
  BY <1>1 DEF ShTypes, ShTypeOK, LinkType, JobType, NoLink

LEMMA ShStutters ==
    ASSUME UNCHANGED shVars
    PROVE  (ShTypes => ShTypes') /\ (ShInv => ShInv')
<1> USE DEF shVars
<1>1. ShTypes => ShTypes'
  BY DEF ShTypes, Runs
<1>2. Counting => Counting'
  BY DEF Counting
<1>3. OneScreen => OneScreen'
  BY DEF OneScreen
<1>4. LeftAlone => LeftAlone'
  BY DEF LeftAlone
<1>q. QED
  BY <1>1, <1>2, <1>3, <1>4 DEF ShInv

\* A session may only be driven by who was let in: the one who asked first waits, the
\* one whose code the owner was read is let in, all of them together have the turns of
\* the link, and a session that was never shared is left to run.
THEOREM GuestsTakeTurns == ShSpec => []ShTypeOK /\ GuestsInTurn /\ UnsharedRunsOn
<1>1. ShInit => ShInv
  BY ShInvInit
<1>2. ShInv /\ [ShNext]_shVars => ShInv'
  <2> SUFFICES ASSUME ShInv, [ShNext]_shVars
               PROVE  ShInv'
    OBVIOUS
  <2>1. CASE ShNext
    BY <2>1, ShTypesKept, CountingKept, OneScreenKept, LeftAloneKept DEF ShInv
  <2>2. CASE UNCHANGED shVars
    BY <2>2, ShStutters
  <2>q. QED
    BY <2>1, <2>2
<1>3. ShInv => ShTypeOK /\ CapKept
  BY ShTypesSuffice DEF ShInv, Counting, CapKept
<1>4. ShInv /\ [ShNext]_shVars =>
          /\ [link'.guest \notin {Nobody, link.guest} => link'.guest = told.device]_shVars
          /\ [link.pending # NoPending => link'.pending \in {link.pending, NoPending}]_shVars
          /\ [agent.live /\ ~agent'.live /\ made.links = 0 => made'.ends \/ job'.app.at = "hangup"]_shVars
  BY ReadIsIn, WaitingKept, UnsharedKept
<1>5. ShSpec => []ShInv
  BY <1>1, <1>2, PTL DEF ShSpec
<1>6. ShSpec => []ShTypeOK
  BY <1>3, <1>5, PTL
<1>7. ShSpec => GuestIsRead /\ WaitingIsKept /\ UnsharedRunsOn
  BY <1>4, <1>5, PTL DEF ShSpec, GuestIsRead, WaitingIsKept, UnsharedRunsOn
<1>8. ShSpec => [][CapKept']_shVars
  BY <1>3, <1>5, PTL
<1>q. QED
  BY <1>6, <1>7, <1>8 DEF GuestsInTurn

-----------------------------------------------------------------------------
(* The public port *)

\* Every variable has its type.
FuTypes ==
    /\ shared \in BOOLEAN /\ app \in BOOLEAN /\ gate \in Local \cup {0}
    /\ ours \subseteq Public /\ cache \in Public \cup {0, Unknown}
    /\ target \in [Public -> Local \cup {0, Mine}]
    /\ ownerAsk \in [at : {"none", "create", "on", "run"}, port : Public \cup {0}]
    /\ check \in [at : {"tick", "reopen", "stop", "close", "aim", Down}, port : Public \cup {0}, to : Local \cup {0}]
    /\ ownerAsk.at \in {"on", "run"} => ownerAsk.port \in Public

\* What leads to a gate kunai opened, it has not given away, and what a check is about to
\* change leads to one.
Marked ==
    /\ \A p \in Public : (target[p] \in Local => p \in ours) /\ (p \in ours => target[p] # Mine)
    /\ cache \in Public => cache \in ours
    /\ check.at \in {"close", "aim"} => check.port \in ours

\* The gate goes down for nobody who has a link.
Gated ==
    /\ shared /\ ownerAsk.at # "create" /\ Up => gate # 0
    /\ check.at \in {"close", "stop"} => ~shared

FuInv == FuTypes /\ Marked /\ Gated

\* A set of naturals that is not empty has a least member.
LEMMA LeastPort ==
    ASSUME NEW T \in SUBSET Nat, T # {}
    PROVE  \E x \in T : \A y \in T : x <= y
<1> DEFINE R == OpToRel(<, Nat)
<1>1. IsWellFoundedOn(R, Nat)
  BY NatLessThanWellFounded, Zenon
<1>2. \A x, y : <<y, x>> \in R <=> (x \in Nat /\ y \in Nat /\ y < x)
  BY DEF OpToRel
<1> HIDE DEF R
<1>3. PICK x \in T : \A y \in T : <<y, x>> \notin R
  BY <1>1, WFMin, Zenon
<1>4. ASSUME NEW y \in T
      PROVE  x <= y
  <2>1. <<y, x>> \notin R
    BY <1>3
  <2>q. QED
    BY <2>1, <1>2, x \in Nat, y \in Nat
<1>q. QED
  BY <1>4

\* A set of ports has a highest one and a lowest.
LEMMA Ports ==
    ASSUME NEW S \in SUBSET (1..MaxPort), S # {}
    PROVE  /\ Max(S) \in S /\ \A p \in S : p <= Max(S)
           /\ Min(S) \in S /\ \A p \in S : Min(S) <= p
<1>0. MaxPort \in Nat
  BY DEF MaxPort
<1>1. S \in SUBSET Nat
  BY <1>0
<1>2. \E x \in S : \A y \in S : x <= y
  BY <1>1, LeastPort
<1>3. \E x \in S : \A y \in S : x >= y
  <2> DEFINE T == {MaxPort - x : x \in S}
  <2>0. \A x \in S : MaxPort - x \in Nat
    BY <1>0
  <2>1. T \in SUBSET Nat /\ T # {}
    BY <2>0
  <2>2. \A x \in S : MaxPort - x \in T
    OBVIOUS
  <2>3. \A t \in T : \E x \in S : t = MaxPort - x
    OBVIOUS
  <2> HIDE DEF T
  <2>4. PICK t \in T : \A u \in T : t <= u
    BY <2>1, LeastPort
  <2>5. PICK x \in S : t = MaxPort - x
    BY <2>3
  <2>6. ASSUME NEW y \in S
        PROVE  x >= y
    <3>1. t <= MaxPort - y
      BY <2>2, <2>4
    <3>2. x \in Nat /\ y \in Nat
      BY <1>1
    <3>q. QED
      BY <1>0, <3>1, <3>2, <2>5
  <2>q. QED
    BY <2>6
<1>4. Max(S) \in S /\ \A p \in S : Max(S) >= p
  BY <1>3, Zenon DEF Max
<1>5. \A p \in S : p <= Max(S)
  <2> TAKE p \in S
  <2>1. p \in Nat /\ Max(S) \in Nat /\ Max(S) >= p
    BY <1>1, <1>4
  <2>q. QED
    BY <2>1
<1>6. Min(S) \in S /\ \A p \in S : Min(S) <= p
  BY <1>2, Zenon DEF Min
<1>q. QED
  BY <1>4, <1>5, <1>6

\* No gate is where the owner's app is, and Unknown is no port.
LEMMA Elsewhere == Mine \notin Local \cup {0} /\ Unknown \notin Public /\ 0 \notin Local /\ 0 \notin Public
<1>0. MaxPort \in Nat
  BY DEF MaxPort
<1>1. Mine \notin Local \cup {0}
  <2>1. Max(Local) \in Local /\ \A p \in Local : p <= Max(Local)
    BY Ports, FunnelAssumption
  <2>2. Max(Local) \in 1..MaxPort
    BY <2>1, FunnelAssumption
  <2>3. Max(Local) \in Nat /\ Mine = Max(Local) + 1
    BY <1>0, <2>2 DEF Mine
  <2> HIDE DEF Mine
  <2>q. QED
    BY <2>1, <2>3
<1>2. Unknown \notin Public
  <2>1. CASE Public = {}
    BY <2>1
  <2>2. CASE Public # {}
    <3>1. Max(Public) \in Public /\ \A p \in Public : p <= Max(Public)
      BY <2>2, Ports, FunnelAssumption
    <3>2. Max(Public) \in 1..MaxPort
      BY <3>1, FunnelAssumption
    <3>q. QED
      BY <3>1, <3>2 DEF Unknown
  <2>q. QED
    BY <2>1, <2>2
<1>3. 0 \notin Local /\ 0 \notin Public
  BY FunnelAssumption
<1>q. QED
  BY <1>1, <1>2, <1>3

\* What is found to lead to the gate is a port, or nothing.
LEMMA ServingPorts ==
    ASSUME FuTypes
    PROVE  /\ PortOf(Serving(gate)) \in Serving(gate) \cup {0} /\ Serving(gate) \subseteq Public
           /\ PublicPort \in Public \cup {0}
<1>1. Serving(gate) \in SUBSET (1..MaxPort) /\ Serving(gate) \subseteq Public
  BY FunnelAssumption DEF Serving
<1>2. PortOf(Serving(gate)) \in Serving(gate) \cup {0}
  BY <1>1, Ports DEF PortOf
<1>q. QED
  BY <1>1, <1>2 DEF PublicPort, FuTypes

\* The port that is found to lead to the gate is kunai's.
LEMMA ServingOurs ==
    ASSUME FuTypes, Marked
    PROVE  /\ PortOf(Serving(gate)) \in Public => PortOf(Serving(gate)) \in ours
           /\ PublicPort \in Public => PublicPort \in ours
<1>1. Serving(gate) \subseteq ours
  BY Elsewhere DEF Serving, FuTypes, Marked
<1>2. PortOf(Serving(gate)) \in ours \cup {0}
  BY <1>1, ServingPorts
<1>3. PublicPort \in ours \cup {0}
  BY <1>2, ServingPorts DEF PublicPort, FuTypes, Marked
<1>q. QED
  BY <1>2, <1>3, Elsewhere DEF FuTypes

\* What is aimed again is kunai's.
LEMMA ReaimedOurs ==
    ASSUME FuTypes, Reaimed # {}
    PROVE  Min(Reaimed) \in ours
<1>1. Reaimed \subseteq ours /\ Reaimed \in SUBSET (1..MaxPort)
  BY FunnelAssumption DEF Reaimed, Has, FuTypes
<1>q. QED
  BY <1>1, Ports

LEMMA FuInvInit == FuInit => FuInv
<1> SUFFICES ASSUME FuInit
             PROVE  FuInv
  OBVIOUS
<1>1. FuTypes
  BY DEF FuInit, FuTypes, NoRequest, IdleCheck, Nowhere, Down
<1>2. Marked
  BY Elsewhere DEF FuInit, Marked, IdleCheck, Nowhere
<1>3. Gated
  BY DEF FuInit, Gated, IdleCheck
<1>q. QED
  BY <1>1, <1>2, <1>3 DEF FuInv

\* Every variable keeps its type.
LEMMA FuTypesKept ==
    ASSUME FuTypes, FuNext
    PROVE  FuTypes'
<1> USE DEF FuTypes
<1>1. CASE FuCreate
  BY <1>1, Elsewhere DEF FuCreate, NoRequest, world, FuAsks, FuQuiet, IdleCheck, Nowhere, Up, Down
<1>2. CASE FuCreateStarts
  BY <1>2, Elsewhere DEF FuCreateStarts, Starts, world, FuAsks, FuQuiet, IdleCheck, NoRequest, Nowhere, Up, Down
<1>3. CASE OnLooks
  BY <1>3, Elsewhere DEF OnLooks, world, FuAsks, FuQuiet, IdleCheck, NoRequest, Nowhere, Up, Down
<1>4. CASE OnRuns
  BY <1>4, Elsewhere DEF OnRuns, world, FuAsks, FuQuiet, IdleCheck, NoRequest, Nowhere, Up, Down
<1>5. CASE View
  BY <1>5, Elsewhere, ServingPorts DEF View, world, FuAsks, FuQuiet, IdleCheck, NoRequest, Nowhere, Up, Down
<1>6. ASSUME NEW p \in Public, On(p)
      PROVE  FuTypes'
  BY <1>6, Elsewhere DEF On, Starts, world, FuAsks, FuQuiet, IdleCheck, NoRequest, Nowhere, Up, Down
<1>7. ASSUME NEW p \in Public, Off(p)
      PROVE  FuTypes'
  BY <1>7, Elsewhere DEF Off, world, FuAsks, FuQuiet, IdleCheck, NoRequest, Nowhere, Up, Down
<1>8. CASE CloseLooks
  BY <1>8, Elsewhere, ServingPorts DEF CloseLooks, Checks, world, FuAsks, FuQuiet, IdleCheck, NoRequest, Nowhere, Up, Down
<1>9. CASE CloseFails
  BY <1>9, Elsewhere DEF CloseFails, KeepsGate, world, FuAsks, FuQuiet, IdleCheck, NoRequest, Nowhere, Up, Down
<1>10. CASE CloseRuns
  BY <1>10, Elsewhere DEF CloseRuns, world, FuAsks, FuQuiet, IdleCheck, NoRequest, Nowhere, Up, Down
<1>11. CASE GateStops
  BY <1>11, Elsewhere DEF GateStops, world, FuAsks, FuQuiet, IdleCheck, NoRequest, Nowhere, Up, Down
<1>12. CASE ReopenLooks
  BY <1>12, Elsewhere, ReaimedOurs DEF ReopenLooks, world, FuAsks, FuQuiet, IdleCheck, NoRequest, Nowhere, Up, Down
<1>13. CASE ReopenRuns
  BY <1>13, Elsewhere DEF ReopenRuns, world, FuAsks, FuQuiet, IdleCheck, NoRequest, Nowhere, Up, Down
<1>14. CASE ReopenFails
  BY <1>14, Elsewhere DEF ReopenFails, world, FuAsks, FuQuiet, IdleCheck, NoRequest, Nowhere, Up, Down
<1>15. CASE Lapse
  BY <1>15, Elsewhere DEF Lapse, world, FuAsks, FuQuiet, IdleCheck, NoRequest, Nowhere, Up, Down
<1>16. CASE CacheAges
  BY <1>16, Elsewhere DEF CacheAges, world, FuAsks, FuQuiet, IdleCheck, NoRequest, Nowhere, Up, Down
<1>17. CASE AppTurns
  BY <1>17, Elsewhere DEF AppTurns, world, FuAsks, FuQuiet, IdleCheck, NoRequest, Nowhere, Up, Down
<1>18. CASE Ends
  BY <1>18, Elsewhere DEF Ends, world, FuAsks, FuQuiet, IdleCheck, NoRequest, Nowhere, Up, Down
<1>19. ASSUME NEW p \in Apps, OwnFunnel(p)
      PROVE  FuTypes'
  BY <1>19, Elsewhere, FunnelAssumption DEF OwnFunnel, world, FuAsks, FuQuiet, IdleCheck, NoRequest, Nowhere, Up, Down
<1>20. CASE FuBoot
  BY <1>20, Elsewhere DEF FuBoot, Reopens, Starts, world, FuAsks, FuQuiet, IdleCheck, NoRequest, Nowhere, Up, Down
<1>q. QED
  BY <1>1, <1>2, <1>3, <1>4, <1>5, <1>6, <1>7, <1>8, <1>9, <1>10, <1>11, <1>12, <1>13, <1>14, <1>15, <1>16, <1>17, <1>18, <1>19, <1>20 DEF FuNext, Owner, Reconcile, World

\* What kunai opened is on its record.
LEMMA MarkedKept ==
    ASSUME Calm, Tidy, FuInv, FuNext
    PROVE  Marked'
<1> USE DEF FuInv, FuTypes, Marked
<1>1. CASE FuCreate
  BY <1>1, Elsewhere DEF FuCreate, NoRequest, world, FuAsks, FuQuiet, IdleCheck, Nowhere, Up, Down
<1>2. CASE FuCreateStarts
  BY <1>2, Elsewhere DEF FuCreateStarts, Starts, world, FuAsks, FuQuiet, IdleCheck, NoRequest, Nowhere, Up, Down
<1>3. CASE OnLooks
  BY <1>3, Elsewhere DEF OnLooks, world, FuAsks, FuQuiet, IdleCheck, NoRequest, Nowhere, Up, Down
<1>4. CASE OnRuns
  BY <1>4, Elsewhere DEF OnRuns, world, FuAsks, FuQuiet, IdleCheck, NoRequest, Nowhere, Up, Down
<1>5. CASE View
  BY <1>5, Elsewhere, ServingPorts, ServingOurs DEF View, world, FuAsks, FuQuiet, IdleCheck, NoRequest, Nowhere, Up, Down
<1>6. ASSUME NEW p \in Public, On(p)
      PROVE  Marked'
  BY <1>6, Elsewhere DEF On, Starts, world, FuAsks, FuQuiet, IdleCheck, NoRequest, Nowhere, Up, Down
<1>7. ASSUME NEW p \in Public, Off(p)
      PROVE  Marked'
  BY <1>7, Elsewhere DEF Off, world, FuAsks, FuQuiet, IdleCheck, NoRequest, Nowhere, Up, Down
<1>8. CASE CloseLooks
  BY <1>8, Elsewhere, ServingPorts, ServingOurs DEF CloseLooks, Checks, world, FuAsks, FuQuiet, IdleCheck, NoRequest, Nowhere, Up, Down
<1>9. CASE CloseFails
  BY <1>9, Elsewhere DEF CloseFails, KeepsGate, world, FuAsks, FuQuiet, IdleCheck, NoRequest, Nowhere, Up, Down
<1>10. CASE CloseRuns
  BY <1>10, Elsewhere DEF CloseRuns, world, FuAsks, FuQuiet, IdleCheck, NoRequest, Nowhere, Up, Down
<1>11. CASE GateStops
  BY <1>11, Elsewhere DEF GateStops, world, FuAsks, FuQuiet, IdleCheck, NoRequest, Nowhere, Up, Down
<1>12. CASE ReopenLooks
  BY <1>12, Elsewhere, ReaimedOurs DEF ReopenLooks, world, FuAsks, FuQuiet, IdleCheck, NoRequest, Nowhere, Up, Down
<1>13. CASE ReopenRuns
  BY <1>13, Elsewhere DEF ReopenRuns, world, FuAsks, FuQuiet, IdleCheck, NoRequest, Nowhere, Up, Down
<1>14. CASE ReopenFails
  BY <1>14, Elsewhere DEF ReopenFails, world, FuAsks, FuQuiet, IdleCheck, NoRequest, Nowhere, Up, Down
<1>15. CASE Lapse
  BY <1>15, Elsewhere DEF Lapse, world, FuAsks, FuQuiet, IdleCheck, NoRequest, Nowhere, Up, Down
<1>16. CASE CacheAges
  BY <1>16, Elsewhere DEF CacheAges, world, FuAsks, FuQuiet, IdleCheck, NoRequest, Nowhere, Up, Down
<1>17. CASE AppTurns
  BY <1>17, Elsewhere DEF AppTurns, world, FuAsks, FuQuiet, IdleCheck, NoRequest, Nowhere, Up, Down
<1>18. CASE Ends
  BY <1>18, Elsewhere DEF Ends, world, FuAsks, FuQuiet, IdleCheck, NoRequest, Nowhere, Up, Down
<1>19. ASSUME NEW p \in Apps, OwnFunnel(p)
      PROVE  Marked'
  BY <1>19, Elsewhere, FunnelAssumption DEF OwnFunnel, world, FuAsks, FuQuiet, IdleCheck, NoRequest, Nowhere, Up, Down
<1>20. CASE FuBoot
  BY <1>20, Elsewhere DEF FuBoot, Reopens, Starts, world, FuAsks, FuQuiet, IdleCheck, NoRequest, Nowhere, Up, Down
<1>q. QED
  BY <1>1, <1>2, <1>3, <1>4, <1>5, <1>6, <1>7, <1>8, <1>9, <1>10, <1>11, <1>12, <1>13, <1>14, <1>15, <1>16, <1>17, <1>18, <1>19, <1>20 DEF FuNext, Owner, Reconcile, World

\* A link is answered.
LEMMA GatedKept ==
    ASSUME Calm, Tidy, FuInv, FuNext
    PROVE  Gated'
<1> USE DEF FuInv, FuTypes, Gated
<1>1. CASE FuCreate
  BY <1>1, Elsewhere DEF FuCreate, NoRequest, world, FuAsks, FuQuiet, IdleCheck, Nowhere, Up, Down
<1>2. CASE FuCreateStarts
  BY <1>2, Elsewhere DEF FuCreateStarts, Starts, world, FuAsks, FuQuiet, IdleCheck, NoRequest, Nowhere, Up, Down
<1>3. CASE OnLooks
  BY <1>3, Elsewhere DEF OnLooks, world, FuAsks, FuQuiet, IdleCheck, NoRequest, Nowhere, Up, Down
<1>4. CASE OnRuns
  BY <1>4, Elsewhere DEF OnRuns, world, FuAsks, FuQuiet, IdleCheck, NoRequest, Nowhere, Up, Down
<1>5. CASE View
  BY <1>5, Elsewhere, ServingPorts, ServingOurs DEF View, world, FuAsks, FuQuiet, IdleCheck, NoRequest, Nowhere, Up, Down
<1>6. ASSUME NEW p \in Public, On(p)
      PROVE  Gated'
  BY <1>6, Elsewhere DEF On, Starts, world, FuAsks, FuQuiet, IdleCheck, NoRequest, Nowhere, Up, Down
<1>7. ASSUME NEW p \in Public, Off(p)
      PROVE  Gated'
  BY <1>7, Elsewhere DEF Off, world, FuAsks, FuQuiet, IdleCheck, NoRequest, Nowhere, Up, Down
<1>8. CASE CloseLooks
  BY <1>8, Elsewhere, ServingPorts, ServingOurs DEF CloseLooks, Checks, world, FuAsks, FuQuiet, IdleCheck, NoRequest, Nowhere, Up, Down
<1>9. CASE CloseFails
  BY <1>9, Elsewhere DEF CloseFails, KeepsGate, world, FuAsks, FuQuiet, IdleCheck, NoRequest, Nowhere, Up, Down
<1>10. CASE CloseRuns
  BY <1>10, Elsewhere DEF CloseRuns, world, FuAsks, FuQuiet, IdleCheck, NoRequest, Nowhere, Up, Down
<1>11. CASE GateStops
  BY <1>11, Elsewhere DEF GateStops, world, FuAsks, FuQuiet, IdleCheck, NoRequest, Nowhere, Up, Down
<1>12. CASE ReopenLooks
  BY <1>12, Elsewhere, ReaimedOurs DEF ReopenLooks, world, FuAsks, FuQuiet, IdleCheck, NoRequest, Nowhere, Up, Down
<1>13. CASE ReopenRuns
  BY <1>13, Elsewhere DEF ReopenRuns, world, FuAsks, FuQuiet, IdleCheck, NoRequest, Nowhere, Up, Down
<1>14. CASE ReopenFails
  BY <1>14, Elsewhere DEF ReopenFails, world, FuAsks, FuQuiet, IdleCheck, NoRequest, Nowhere, Up, Down
<1>15. CASE Lapse
  BY <1>15, Elsewhere DEF Lapse, world, FuAsks, FuQuiet, IdleCheck, NoRequest, Nowhere, Up, Down
<1>16. CASE CacheAges
  BY <1>16, Elsewhere DEF CacheAges, world, FuAsks, FuQuiet, IdleCheck, NoRequest, Nowhere, Up, Down
<1>17. CASE AppTurns
  BY <1>17, Elsewhere DEF AppTurns, world, FuAsks, FuQuiet, IdleCheck, NoRequest, Nowhere, Up, Down
<1>18. CASE Ends
  BY <1>18, Elsewhere DEF Ends, world, FuAsks, FuQuiet, IdleCheck, NoRequest, Nowhere, Up, Down
<1>19. ASSUME NEW p \in Apps, OwnFunnel(p)
      PROVE  Gated'
  BY <1>19, Elsewhere, FunnelAssumption DEF OwnFunnel, world, FuAsks, FuQuiet, IdleCheck, NoRequest, Nowhere, Up, Down
<1>20. CASE FuBoot
  BY <1>20, Elsewhere DEF FuBoot, Reopens, Starts, world, FuAsks, FuQuiet, IdleCheck, NoRequest, Nowhere, Up, Down
<1>q. QED
  BY <1>1, <1>2, <1>3, <1>4, <1>5, <1>6, <1>7, <1>8, <1>9, <1>10, <1>11, <1>12, <1>13, <1>14, <1>15, <1>16, <1>17, <1>18, <1>19, <1>20 DEF FuNext, Owner, Reconcile, World

LEMMA FuTypesSuffice == FuTypes => FuTypeOK
  BY DEF FuTypes, FuTypeOK

\* A step that changes nothing changes none of this.
LEMMA FuStutters ==
    ASSUME UNCHANGED fuVars
    PROVE  (FuTypes => FuTypes') /\ (FuInv => FuInv') /\ (LinkAnswers => LinkAnswers')
<1> USE DEF fuVars
<1>1. FuTypes => FuTypes'
  BY DEF FuTypes
<1>2. Marked => Marked'
  BY DEF Marked
<1>3. Gated => Gated'
  BY DEF Gated, Up
<1>4. LinkAnswers => LinkAnswers'
  BY DEF LinkAnswers
<1>q. QED
  BY <1>1, <1>2, <1>3, <1>4 DEF FuInv

\* A check changes where a public port leads only if kunai opened it.
LEMMA ChecksOwn ==
    ASSUME FuInv, Reconcile, NEW p \in Public, target[p] = Mine
    PROVE  target'[p] = Mine
<1> USE DEF FuInv, FuTypes
<1>1. p \notin ours
  BY DEF Marked
<1>2. CASE CloseRuns
  BY <1>1, <1>2 DEF CloseRuns, Marked
<1>3. CASE ReopenRuns
  BY <1>1, <1>3 DEF ReopenRuns, Marked
<1>4. CASE CloseLooks \/ CloseFails \/ GateStops \/ ReopenLooks \/ ReopenFails
  BY <1>4 DEF CloseLooks, CloseFails, GateStops, ReopenLooks, ReopenFails
<1>q. QED
  BY <1>2, <1>3, <1>4 DEF Reconcile

\* The types of the funnel's variables hold however its owner goes about it.
THEOREM FunnelTyped == FuSpec => []FuTypeOK
<1>1. FuInit => FuTypes
  BY FuInvInit DEF FuInv
<1>2. FuTypes /\ [FuNext]_fuVars => FuTypes'
  BY FuTypesKept, FuStutters
<1>q. QED
  BY <1>1, <1>2, FuTypesSuffice, PTL DEF FuSpec

\* "A mapping pointing anywhere else, including one the owner made for their own
\* app, is left exactly as it is" by the check of the minute, and a link that was
\* handed out has a gate behind it: while no request runs beside the check, and
\* the owner does not take a port that kunai has opened for an app of their own.
THEOREM FunnelLeavesOthers ==
    ASSUME Calm, Tidy
    PROVE  FuSpec => OthersUntouched /\ []LinkAnswers
<1>1. FuInit => FuInv
  BY FuInvInit
<1>2. FuInv /\ [FuNext]_fuVars => FuInv'
  BY FuTypesKept, MarkedKept, GatedKept, FuStutters DEF FuInv
<1>3. FuInv => LinkAnswers
  BY DEF FuInv, Gated, LinkAnswers, IdleCheck, Up, Down
<1>4. FuInv => (Reconcile => \A p \in Public : target[p] = Mine => target'[p] = Mine)
  BY ChecksOwn
<1>q. QED
  BY <1>1, <1>2, <1>3, <1>4, PTL DEF FuSpec, OthersUntouched

-----------------------------------------------------------------------------
(* The parts beside each other *)

\* Every variable of the review and of the public port has its type, whichever
\* of the two moves.
THEOREM ServerTyped == SvSpec => []SvTypeOK
<1>1. SvInit => RvTypes /\ FuTypes
  BY RvStarted, FuInvInit DEF SvInit, RvInv, FuInv
<1>2. RvTypes /\ FuTypes /\ [SvNext]_svVars => RvTypes' /\ FuTypes'
  <2> SUFFICES ASSUME RvTypes, FuTypes, [SvNext]_svVars
               PROVE  RvTypes' /\ FuTypes'
    OBVIOUS
  <2>1. [RvNext]_rvVars /\ [FuNext]_fuVars
    BY DEF SvNext, svVars
  <2>q. QED
    BY <2>1, RvNextTypes, FuTypesKept, FuStutters
<1>3. RvTypes /\ FuTypes => SvTypeOK
  BY TypesSuffice, FuTypesSuffice DEF SvTypeOK
<1>q. QED
  BY <1>1, <1>2, <1>3, PTL DEF SvSpec
=============================================================================
