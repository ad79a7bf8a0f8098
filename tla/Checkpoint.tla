------------------------------ MODULE Checkpoint ------------------------------
(***************************************************************************)
(* Checkpoints (internal/checkpoint, server/checkpoints.go, and the hook   *)
(* of session.go): a git snapshot of the working tree before every turn,   *)
(* kept on a shadow ref named after the number of the turn's message, the  *)
(* map of those refs in memory, and the revert that restores one after     *)
(* keeping what it is about to discard.                                    *)
(*                                                                         *)
(* A working tree is the set of the edits in it: one for what each turn of *)
(* the agent changed, and those of a person.  A session that is respawned, *)
(* or reopened, is fed its transcript again, and that gives its messages   *)
(* new numbers.                                                            *)
(*                                                                         *)
(* Left out: commits, ignored files, folders that are no repository, the   *)
(* preview of a revert.                                                    *)
(***************************************************************************)
EXTENDS Naturals, Sequences

CONSTANTS
    MaxCpTurns,    \* bound: turns
    MaxEdits,    \* bound: edits of a person
    Reverter,    \* reverts that can be under way at once
    MaxReverts,  \* bound: reverts
    Respawns,    \* bound: times the session is respawned or opened again
    Live,        \* events a turn puts into the live stream
    SeededTurns,      \* events it puts there when it is fed from the transcript
    Prompt,      \* a capture ends within the turn's wait, and its session
    CalmTree     \* nobody edits between a revert's snapshot and its reset

ASSUME CheckpointAssumption ==
    /\ {MaxCpTurns, MaxEdits, MaxReverts, Respawns, Live, SeededTurns} \subseteq Nat
    /\ Live # 0 /\ SeededTurns # 0 /\ {Prompt, CalmTree} \subseteq BOOLEAN

VARIABLES
    tree,      \* the working tree
    turns,     \* of each turn: the number its message has now, what the agent had
               \* done before it, and whether its capture is good
    cpSeq,     \* the session's last number
    phase,     \* of the last turn: "capture", "work" or "idle"
    captures,  \* captures that run: [turn, n, at, snap]
    refs,      \* git: the snapshots of turns, by number
    safety,    \* git: the snapshots reverts took
    byID,      \* checkpointManager: the numbers it knows a ref of
    reverts,   \* each revert as far as it has got
    times      \* edits of a person, respawns so far

cpVars == <<tree, turns, cpSeq, phase, captures, refs, safety, byID, reverts, times>>

Number == 1..((MaxCpTurns + Respawns) * (Live + SeededTurns))
NoTree == {0}
NoRevert == [at |-> "none", turn |-> 0, good |-> FALSE, from |-> <<"turn", 0>>]
Turns == 1..Len(turns)

-----------------------------------------------------------------------------
(* A turn and its capture *)

TurnStarts ==
    /\ phase = "idle" /\ Len(turns) < MaxCpTurns
    /\ LET n == cpSeq + 1  IN
       /\ turns' = Append(turns, [n |-> n, before |-> tree \cap 1..MaxCpTurns, good |-> FALSE])
       /\ captures' = captures \cup {[turn |-> Len(turns) + 1, n |-> n, at |-> "look", snap |-> NoTree]}
       /\ cpSeq' = cpSeq + Live
    /\ phase' = "capture"
    /\ UNCHANGED <<tree, refs, safety, byID, reverts, times>>

Steps(c, to) == captures' = (captures \ {c}) \cup {to}

\* Capture: the tree is written as git finds it.
CaptureLooks(c) ==
    /\ c.at = "look"
    /\ Steps(c, [c EXCEPT !.at = "ref", !.snap = tree])
    /\ UNCHANGED <<tree, turns, cpSeq, phase, refs, safety, byID, reverts, times>>

\* update-ref; the snapshot is good if the turn it is of has yet to begin.
CaptureStores(c) ==
    /\ c.at = "ref"
    /\ refs' = [refs EXCEPT ![c.n] = c.snap]
    /\ turns' = [turns EXCEPT ![c.turn].good = @ \/ (phase = "capture" /\ turns[c.turn].n = c.n)]
    /\ Steps(c, [c EXCEPT !.at = "record", !.snap = NoTree])
    /\ UNCHANGED <<tree, cpSeq, phase, safety, byID, reverts, times>>

CaptureRecords(c) ==
    /\ c.at = "record"
    /\ byID' = byID \cup {c.n}
    /\ captures' = captures \ {c}
    /\ UNCHANGED <<tree, turns, cpSeq, phase, refs, safety, reverts, times>>

CaptureFails(c) ==
    /\ c.at \in {"look", "ref"}
    /\ captures' = captures \ {c}
    /\ UNCHANGED <<tree, turns, cpSeq, phase, refs, safety, byID, reverts, times>>

\* Mutant: the turn does not wait.
GoesAtOnce == TRUE

\* "The turn proceeds after a bounded wait."
WaitIsOver == ~Prompt \/ \A c \in captures : c.turn # Len(turns)

TurnGoes ==
    /\ phase = "capture" /\ WaitIsOver
    /\ phase' = "work"
    /\ UNCHANGED <<tree, turns, cpSeq, captures, refs, safety, byID, reverts, times>>

TurnEnds ==
    /\ phase = "work"
    /\ phase' = "idle"
    /\ UNCHANGED <<tree, turns, cpSeq, captures, refs, safety, byID, reverts, times>>

Calmly == CalmTree => \A r \in Reverter : reverts[r].at # "tree"

AgentEdits ==
    /\ phase = "work" /\ Calmly /\ Len(turns) \notin tree
    /\ tree' = tree \cup {Len(turns)}
    /\ UNCHANGED <<turns, cpSeq, phase, captures, refs, safety, byID, reverts, times>>

PersonEdits ==
    /\ times.edits < MaxEdits /\ Calmly
    /\ times' = [times EXCEPT !.edits = @ + 1]
    /\ tree' = tree \cup {MaxCpTurns + times.edits + 1}
    /\ UNCHANGED <<turns, cpSeq, phase, captures, refs, safety, byID, reverts>>

\* The session is respawned: the map stays.  Closed and opened again, the map
\* forgets it; a kunai that restarts forgets it as well.  Each feeds the
\* transcript again.
Reseeds ==
    /\ times.respawns < Respawns
    /\ Prompt => captures = {}
    /\ times' = [times EXCEPT !.respawns = @ + 1]
    /\ turns' = [i \in Turns |->
          LET n == (i - 1) * SeededTurns + 1
          IN  [turns[i] EXCEPT !.n = n, !.good = @ /\ turns[i].n = n]]
    /\ cpSeq' = Len(turns) * SeededTurns
    /\ phase' = "idle"
    /\ byID' \in {byID, {}}
    /\ captures' \in {captures, {}}
    /\ UNCHANGED <<tree, refs, safety, reverts>>

-----------------------------------------------------------------------------
(* list, refForSeq, Restore *)

Stored == {n \in Number : refs[n] # NoTree}

\* list: an empty map is filled from the refs.
Listed == IF byID = {} THEN Stored ELSE byID

Lists ==
    /\ byID' = Listed
    /\ UNCHANGED <<tree, turns, cpSeq, phase, captures, refs, safety, reverts, times>>

Ready(r) == reverts[r] = NoRevert /\ Len(safety) < MaxReverts
Asks(r, i, good, from) == reverts' = [reverts EXCEPT ![r] = [at |-> "safety", turn |-> i, good |-> good, from |-> from]]

\* handleRevert of a turn
RevertTurn(r, i) ==
    /\ Ready(r) /\ turns[i].n \in Listed
    /\ byID' = IF turns[i].n \in byID THEN byID ELSE Listed
    /\ Asks(r, i, turns[i].good, <<"turn", turns[i].n>>)
    /\ UNCHANGED <<tree, turns, cpSeq, phase, captures, refs, safety, times>>

\* handleRevert of the ref a revert gave back
UndoRevert(r, k) ==
    /\ Ready(r)
    /\ Asks(r, 0, FALSE, <<"safety", k>>)
    /\ UNCHANGED <<tree, turns, cpSeq, phase, captures, refs, safety, byID, times>>

\* Mutant: what is about to be discarded is not kept.
KeepsNothing == Append(safety, {})

\* "Snapshot the current state before we clobber it."
KeepsTree == Append(safety, tree)

RestoreKeeps(r) ==
    /\ reverts[r].at = "safety" /\ Len(safety) < MaxReverts
    /\ safety' = KeepsTree
    /\ reverts' = [reverts EXCEPT ![r].at = "tree"]
    /\ UNCHANGED <<tree, turns, cpSeq, phase, captures, refs, byID, times>>

\* Mutant: untracked files are left where they are.
Unclean(snap) == snap \cup {e \in tree : e > MaxCpTurns - 1}

\* read-tree -u --reset, clean -df: an exact match of the snapshot
Restored(snap) == snap

RestoreResets(r) ==
    /\ reverts[r].at = "tree"
    /\ LET from == reverts[r].from IN tree' = Restored(IF from[1] = "turn" THEN refs[from[2]] ELSE safety[from[2]])
    /\ reverts' = [reverts EXCEPT ![r] = NoRevert]
    /\ UNCHANGED <<turns, cpSeq, phase, captures, refs, safety, byID, times>>

-----------------------------------------------------------------------------

CpInit ==
    /\ tree = {} /\ turns = <<>> /\ cpSeq = 0 /\ phase = "idle" /\ captures = {}
    /\ refs = [n \in Number |-> NoTree] /\ safety = <<>> /\ byID = {}
    /\ reverts = [r \in Reverter |-> NoRevert] /\ times = [edits |-> 0, respawns |-> 0]

CpNext ==
    \/ TurnStarts \/ TurnGoes \/ AgentEdits \/ TurnEnds \/ PersonEdits \/ Reseeds \/ Lists
    \/ \E c \in captures : CaptureLooks(c) \/ CaptureStores(c) \/ CaptureRecords(c) \/ CaptureFails(c)
    \/ \E r \in Reverter :
        \/ \E i \in Turns : RevertTurn(r, i)
        \/ \E k \in 1..Len(safety) : UndoRevert(r, k)
        \/ RestoreKeeps(r) \/ RestoreResets(r)

CpSpec == CpInit /\ [][CpNext]_cpVars

-----------------------------------------------------------------------------
(* Properties *)

Edits == 1..(MaxCpTurns + MaxEdits)

CpTypeOK ==
    /\ tree \subseteq Edits /\ phase \in {"capture", "work", "idle"}
    /\ Len(turns) <= MaxCpTurns /\ \A i \in Turns : turns[i] \in [n : Number, before : SUBSET (1..MaxCpTurns), good : BOOLEAN]
    /\ cpSeq \in Number \cup {0} /\ byID \subseteq Number
    /\ captures \subseteq [turn : 1..MaxCpTurns, n : Number, at : {"look", "ref", "record"}, snap : SUBSET (Edits \cup {0})]
    /\ refs \in [Number -> (SUBSET Edits) \cup {NoTree}] /\ Len(safety) <= MaxReverts

\* "A raw ref, a branch, a tag": a revert is offered for what git has a
\* snapshot of, and for nothing else.
ListedIsThere == byID \subseteq Stored

\* Whatever a revert discards can be brought back.
NothingIsLost ==
    [][\A e \in tree \ tree' : (\E n \in Stored : e \in refs[n]) \/ \E k \in 1..Len(safety) : e \in safety[k]]_cpVars

\* A turn that was captured before it began, by the number it had when it was
\* chosen and still has at the reset, can be undone: none of what it did, or a
\* turn after it, is left.
TurnIsUndone ==
    [][\A r \in Reverter :
          reverts[r].at = "tree" /\ reverts'[r].at = "none" /\ reverts[r].good /\ turns[reverts[r].turn].good =>
          \A e \in tree' : e >= reverts[r].turn => e > MaxCpTurns]_cpVars

\* What a revert kept brings the tree back as it was.
UndoIsExact ==
    [][\A r \in Reverter : reverts[r].at = "tree" /\ reverts'[r].at = "none" /\ reverts[r].from[1] = "safety" =>
          tree' = safety[reverts[r].from[2]]]_cpVars

\* A revert restores the tree it was asked for, and can itself be undone.
RevertsAreSafe == [][ListedIsThere']_cpVars /\ NothingIsLost /\ TurnIsUndone /\ UndoIsExact

\* "The turns that have a restorable pre-turn snapshot, so the client can show
\* a revert affordance on those turns": a revert of any of them, while nothing
\* runs, leaves what the agent had done before it.
OfferedIsUndone ==
    [][\A r \in Reverter : phase = "idle" /\ reverts[r].at = "tree" /\ reverts'[r].at = "none" /\ reverts[r].turn # 0 =>
          tree' \cap 1..MaxCpTurns = turns[reverts[r].turn].before]_cpVars
=============================================================================
