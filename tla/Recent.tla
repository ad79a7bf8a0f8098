-------------------------------- MODULE Recent --------------------------------
(***************************************************************************)
(* The sessions that are over and can be taken up again (scanHistory of    *)
(* server/history.go, server/sessionmeta.go, the share of channelsessions  *)
(* and of handleCreateSession in it): the transcripts of every account are *)
(* scanned on each poll, of a session that was copied from account to      *)
(* account one copy is believed, and what a person set on a session (name, *)
(* pin, dismissed ports) is kept by id in a file.                          *)
(*                                                                         *)
(* A copy is the sequence of its lines, with the time of its last change   *)
(* in ticks that several changes share.  A line is a prompt ("ask"), one   *)
(* kunai wrapped ("ours") or any other.  A switch is atomic here;          *)
(* Transcript takes it apart.  A workspace is kept as a name is, a snooze  *)
(* as a pin.  Left out: the branch and repository of a worktree, titles.   *)
(***************************************************************************)
EXTENDS Integers, Sequences, FiniteSets, SequencesExt, FiniteSetsExt

CONSTANTS
    Id,        \* sessions, numbers, the order of which breaks a tie
    Root,      \* account folders, 1..n in the order they are scanned
    Dir,       \* directories under the one a session was started in
    Tally,     \* how many lines of a tail may name one of them
    Port,      \* ports a preview is found on
    Limit,     \* historyLimit
    HeadLines, \* of a transcript, the first lines that are probed
    MinLines,  \* minDirLines
    MaxHistLines, MaxHistMoves, MaxTime  \* bounds: lines; changes, moves and deletes; ticks

ASSUME RecentAssumption ==
    /\ Id \subseteq Nat \ {0} /\ Root = 1..Cardinality(Root)
    /\ {Limit, HeadLines, Tally, MinLines, MaxHistLines, MaxHistMoves, MaxTime} \subseteq Nat

VARIABLES
    time,     \* the clock of the file system
    copies,   \* [Id -> [Root -> [said, at]]]
    liveOn,   \* of each session, the account it is live on, or 0
    removing, \* the session a delete has found not to be live, or 0
    meta,     \* the overrides in memory
    onFile,   \* and in the file
    listedAs,     \* all that was said in a session, since it was last deleted
    asked,    \* the override that was last asked for
    parted,   \* sessions taken up from a list that was out of date
    undone,   \* sessions taken up while a delete was under way
    chatMoves

rcVars == <<time, copies, liveOn, removing, meta, onFile, listedAs, asked, parted, undone, chatMoves>>
rcDisk == <<copies, listedAs>>
rcMeta == <<meta, onFile, asked>>

Kind == {"ask", "ours", "other"}
NoCopy == [said |-> <<>>, at |-> 0]
Plain == [name |-> FALSE, pinned |-> FALSE, hidden |-> {}]

-----------------------------------------------------------------------------
(* One transcript *)

Head_(said) == SubSeq(said, 1, IF Len(said) > HeadLines THEN HeadLines ELSE Len(said))

\* Mutant: whatever begins with a bracket is boilerplate.
AskedInWords(said) == "ask" \in ToSet(Head_(said))

\* "Every prompt a review is driven by is wrapped, and every iteration of a
\* self-prompting run": these were asked for too.
WasAsked(said) == {"ask", "ours"} \cap ToSet(Head_(said)) # {}

Leads(kids, over, d) == over = "" \/ kids[d] > kids[over]

\* Mutant: who is overtaken is forgotten.
VoteAfresh(kids, race, d) ==
    IF Leads(kids, race.best, d) THEN [race EXCEPT !.best = d]
    ELSE IF Leads(kids, race.runner, d) THEN [race EXCEPT !.runner = d] ELSE race

\* One child in the loop that looks for the winner and the runner-up; the
\* children come in the order of a map, which is any.
Vote(kids, race, d) ==
    IF Leads(kids, race.best, d) THEN [best |-> d, runner |-> race.best]
    ELSE IF Leads(kids, race.runner, d) THEN [race EXCEPT !.runner = d] ELSE race

\* projectDir: "a clear winner", that still exists.  The directory itself is no
\* checkout: one that is names the session's project outright.
Heading(kids, gone, order) ==
    LET race == FoldLeft(LAMBDA r, d : Vote(kids, r, d), [best |-> "", runner |-> ""],
                         SelectSeq(order, LAMBDA d : kids[d] > 0))
    IN  IF \/ race.best = "" \/ kids[race.best] < MinLines \/ race.best \in gone
           \/ (race.runner # "" /\ kids[race.best] < 2 * kids[race.runner])
        THEN "" ELSE race.best

-----------------------------------------------------------------------------
(* The scan *)

\* Mutant: of two copies with one time, the first to be found.
NewerOnly(c, cur) == c.at > cur.at

\* "A transcript is append-only, so on a tie the longer copy is the one that ran
\* further."
Beats(c, cur) == c.at > cur.at \/ (c.at = cur.at /\ Len(c.said) > Len(cur.said))

\* The account whose copy is believed, 0 when there is none; an empty one "is not
\* a conversation".
Best(all, id) ==
    FoldLeft(LAMBDA cur, r :
                IF all[id][r].said # <<>> /\ (cur = 0 \/ Beats(all[id][r], all[id][cur])) THEN r ELSE cur,
             0, [r \in 1..Cardinality(Root) |-> r])

Mtime(all, id) == all[id][Best(all, id)].at

\* Those that are not live and were ever asked anything, newest first.
Resumable(all, live) ==
    LET past == {id \in Id : ~live[id] /\ Best(all, id) # 0 /\ WasAsked(all[id][Best(all, id)].said)}
    IN  SetToSortSeq(past, LAMBDA i, j : Mtime(all, i) > Mtime(all, j) \/ (Mtime(all, i) = Mtime(all, j) /\ i < j))

\* keepIDs
KeepIds == {id \in DOMAIN meta : meta[id].pinned}

\* Mutant: the newest are listed, and that is that.
NewestOnly(sorted) == SubSeq(sorted, 1, IF Len(sorted) > Limit THEN Limit ELSE Len(sorted))

\* "A pinned session past the cutoff is appended so a pin is never hidden by the
\* newest-N window."
WithKept(sorted) ==
    LET n == IF Len(sorted) > Limit THEN Limit ELSE Len(sorted)
    IN  SubSeq(sorted, 1, n) \o SelectSeq(SubSeq(sorted, n + 1, Len(sorted)), LAMBDA id : id \in KeepIds)

Live == [id \in Id |-> liveOn[id] # 0]

\* pastSessions
PastSessions == WithKept(Resumable(copies, Live))

-----------------------------------------------------------------------------
(* Sessions *)

ChatMoves == chatMoves < MaxHistMoves /\ chatMoves' = chatMoves + 1

Ticks ==
    /\ time < MaxTime
    /\ time' = time + 1
    /\ UNCHANGED <<rcDisk, liveOn, removing, rcMeta, parted, undone, chatMoves>>

\* The CLI of a live session appends a line.
ChatSays(id, k) ==
    /\ liveOn[id] # 0 /\ FoldSet(LAMBDA i, n : n + Len(listedAs[i]), 0, Id) < MaxHistLines
    /\ LET r == liveOn[id] IN
       copies' = [copies EXCEPT ![id][r] = [said |-> Append(@.said, k), at |-> time]]
    /\ listedAs' = [listedAs EXCEPT ![id] = Append(@, k)]
    /\ UNCHANGED <<time, liveOn, removing, rcMeta, parted, undone, chatMoves>>

\* stageTranscriptForSwitch: a clone may keep the time of what it is a clone of.
Switches(id, r) ==
    /\ ChatMoves
    /\ liveOn[id] \notin {0, r} /\ liveOn' = [liveOn EXCEPT ![id] = r]
    /\ LET from == copies[id][liveOn[id]] IN
       \/ from.said = <<>> /\ UNCHANGED copies
       \/ from.said # <<>> /\ \E at \in {time, from.at} :
              copies' = [copies EXCEPT ![id][r] = [said |-> from.said, at |-> at]]
    /\ UNCHANGED <<time, removing, rcMeta, listedAs, parted, undone>>

ChatCloses(id) ==
    /\ liveOn[id] # 0
    /\ liveOn' = [liveOn EXCEPT ![id] = 0]
    /\ UNCHANGED <<time, rcDisk, removing, rcMeta, parted, undone, chatMoves>>

\* A session that was never there before is given an account by whoever starts it.
ChatStarts(id, r) ==
    /\ listedAs[id] = <<>> /\ liveOn[id] = 0 /\ removing # id /\ \A q \in Root : copies[id][q] = NoCopy
    /\ liveOn' = [liveOn EXCEPT ![id] = r]
    /\ UNCHANGED <<time, rcDisk, removing, rcMeta, parted, undone, chatMoves>>

\* The account is the one a client's list says, which may be out of date.
ReopensPast(id, r) ==
    /\ liveOn[id] = 0 /\ copies[id][r] # NoCopy
    /\ ChatMoves
    /\ liveOn' = [liveOn EXCEPT ![id] = r]
    /\ parted' = IF copies[id][r].said = listedAs[id] THEN parted ELSE parted \cup {id}
    /\ undone' = IF removing = id THEN undone \cup {id} ELSE undone
    /\ UNCHANGED <<time, rcDisk, removing, rcMeta>>

\* From a chat the account is looked up as it is now.
Resumes(id) ==
    /\ liveOn[id] = 0 /\ id \in ToSet(Resumable(copies, Live))
    /\ ChatMoves
    /\ liveOn' = [liveOn EXCEPT ![id] = Best(copies, id)]
    /\ undone' = IF removing = id THEN undone \cup {id} ELSE undone
    /\ UNCHANGED <<time, rcDisk, removing, rcMeta, parted>>

\* handleDeleteHistory refuses a live session, ...
DeleteAsked(id) ==
    /\ ChatMoves /\ removing = 0 /\ liveOn[id] = 0 /\ \E r \in Root : copies[id][r] # NoCopy
    /\ removing' = id
    /\ UNCHANGED <<time, rcDisk, liveOn, rcMeta, parted, undone>>

\* ... removes what each account has of it ...
Removed(id) == [copies EXCEPT ![id] = [r \in Root |-> NoCopy]]

\* ... and its overrides.
DeleteRuns ==
    /\ removing # 0 /\ removing' = 0
    /\ copies' = Removed(removing)
    /\ listedAs' = [listedAs EXCEPT ![removing] = <<>>]
    /\ meta' = [i \in DOMAIN meta \ {removing} |-> meta[i]]
    /\ onFile' = IF removing \in DOMAIN meta THEN meta' ELSE onFile
    /\ asked' = [asked EXCEPT ![removing] = Plain]
    /\ UNCHANGED <<time, liveOn, parted, undone, chatMoves>>

-----------------------------------------------------------------------------
(* What a person sets on a session *)

\* putLocked: "so the file only ever names sessions the user customized"
NothingSet(m) == m = Plain

Put(id, m) ==
    /\ meta' = IF NothingSet(m) THEN [i \in DOMAIN meta \ {id} |-> meta[i]]
               ELSE [i \in DOMAIN meta \cup {id} |-> IF i = id THEN m ELSE meta[i]]
    /\ onFile' = meta'

Current(id) == IF id \in DOMAIN meta THEN meta[id] ELSE Plain

\* update: a patch leaves alone what it does not name.  (One that asks for what
\* there is changes nothing.)
Patches(id, field, on) ==
    /\ ChatMoves /\ Current(id)[field] # on
    /\ Put(id, [Current(id) EXCEPT ![field] = on])
    /\ asked' = [asked EXCEPT ![id][field] = on]
    /\ UNCHANGED <<time, rcDisk, liveOn, removing, parted, undone>>

\* setPreviewHidden: one port, and not the set the device had seen
Hides(id, p, on) ==
    /\ ChatMoves /\ on # (p \in Current(id).hidden)
    /\ Put(id, [Current(id) EXCEPT !.hidden = IF on THEN @ \cup {p} ELSE @ \ {p}])
    /\ asked' = [asked EXCEPT ![id].hidden = IF on THEN @ \cup {p} ELSE @ \ {p}]
    /\ UNCHANGED <<time, rcDisk, liveOn, removing, parted, undone>>

\* kunai ends and is started again: its sessions end with it.
Reboots ==
    /\ ChatMoves
    /\ meta' = onFile
    /\ liveOn' = [id \in Id |-> 0] /\ removing' = 0
    /\ UNCHANGED <<time, rcDisk, onFile, asked, parted, undone>>

-----------------------------------------------------------------------------

RcInit ==
    /\ time = 1 /\ copies = [id \in Id |-> [r \in Root |-> NoCopy]]
    /\ liveOn = [id \in Id |-> 0] /\ removing = 0
    /\ meta = <<>> /\ onFile = <<>>
    /\ listedAs = [id \in Id |-> <<>>] /\ asked = [id \in Id |-> Plain]
    /\ parted = {} /\ undone = {} /\ chatMoves = 0

RcNext ==
    \/ Ticks \/ DeleteRuns \/ Reboots
    \/ \E id \in Id :
        \/ ChatCloses(id) \/ Resumes(id) \/ DeleteAsked(id)
        \/ \E k \in Kind : ChatSays(id, k)
        \/ \E r \in Root : ChatStarts(id, r) \/ Switches(id, r) \/ ReopensPast(id, r)
        \/ \E on \in BOOLEAN :
            \/ \E field \in {"name", "pinned"} : Patches(id, field, on)
            \/ \E p \in Port : Hides(id, p, on)

RcSpec == RcInit /\ [][RcNext]_rcVars

-----------------------------------------------------------------------------
(* Properties *)

RcTypeOK ==
    /\ time \in 1..MaxTime /\ liveOn \in [Id -> Root \cup {0}] /\ removing \in Id \cup {0}
    /\ \A id \in Id : ToSet(listedAs[id]) \subseteq Kind /\ \A r \in Root : copies[id][r].at \in 0..MaxTime
    /\ DOMAIN meta \subseteq Id /\ parted \cup undone \subseteq Id /\ chatMoves \in 0..MaxHistMoves

Sound == Id \ (parted \cup undone)

\* "Newest mtime wins": whatever accounts a session went through, in whatever
\* order and within one tick or not, the copy it would be taken up from is one
\* that has all that was said, and a live one goes on with such a copy.  Not so
\* one that was taken up from an outdated list or under a delete.
NothingGoesMissing ==
    \A id \in Sound :
        /\ listedAs[id] # <<>> => Best(copies, id) # 0 /\ copies[id][Best(copies, id)].said = listedAs[id]
        /\ liveOn[id] # 0 /\ listedAs[id] # <<>> => copies[id][liveOn[id]].said = listedAs[id]

\* Who was asked something is listed, unless as many newer ones are; one that is
\* pinned always, and none twice, none that is live, none a delete has
\* removed.
ListIsWhole ==
    LET ids == PastSessions
        due == {id \in Sound : liveOn[id] = 0 /\ ToSet(Head_(listedAs[id])) \cap {"ask", "ours"} # {}}
    IN  /\ \A i, j \in DOMAIN ids : ids[i] = ids[j] => i = j
        /\ \A id \in due \ ToSet(ids) :
               /\ ~asked[id].pinned
               /\ Cardinality({j \in ToSet(ids) : Mtime(copies, j) >= Mtime(copies, id)}) >= Limit
        /\ \A id \in ToSet(ids) : liveOn[id] = 0 /\ listedAs[id] # <<>>

\* "Map order is random": in whatever order the directories are counted a session
\* is filed under the same one, and only under one that has twice the lines of
\* every other.
HeadingIsSettled ==
    \A kids \in [Dir -> 0..Tally], gone \in SUBSET Dir, order \in SetToSeqs(Dir) :
        {Heading(kids, gone, order)} \ {""} =
            {d \in Dir : kids[d] >= MinLines /\ \A e \in Dir \ {d} : kids[d] >= 2 * kids[e]} \ gone

\* A pin, a name and the ports two devices dismissed are as they were last asked
\* for, after any other change and after a restart, and the file names no session
\* on which nothing is set.
OverridesHold == \A id \in Id : Current(id) = asked[id] /\ (id \in DOMAIN meta => meta[id] # Plain)

\* A session that is over is found again, whole, where it was left.
RecentIsTrue == NothingGoesMissing /\ ListIsWhole /\ OverridesHold
=============================================================================
