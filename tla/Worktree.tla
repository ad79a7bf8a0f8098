------------------------------- MODULE Worktree -------------------------------
(***************************************************************************)
(* Worktrees (internal/worktree, server/worktrees.go, worktrees_api.go): a *)
(* branch and a directory for one piece of work, the setup command run in  *)
(* it, the sessions that start there, the branch that takes its name from  *)
(* the first prompt, and what ends it: a merge, a removal.                 *)
(*                                                                         *)
(* A worktree's directory is named after the branch it was born with and   *)
(* keeps that name, so directories are written as branches here.  Requests *)
(* and the hook at a turn's end are actors that go from one call of git,   *)
(* or of the store, to the next.  The store saves under its lock, so its   *)
(* file is its memory.                                                     *)
(*                                                                         *)
(* Left out: what a setup command does and how it ended, a restart of      *)
(* kunai, pull requests, origin's own branches, slugs, the brief, sessions *)
(* that reopen in the folder without asking for the worktree.              *)
(***************************************************************************)
EXTENDS Naturals, FiniteSets, FiniteSetsExt

CONSTANTS
    Task,         \* names: what was typed, or read off a prompt
    Placeholder,  \* the name of a worktree made with nothing to name it after
    MaxSuffix,    \* maxBranchAttempts
    Keep,         \* removedKeep: deleted worktrees that are remembered
    Hand,         \* requests and hooks under way at once
    MaxMade,      \* bound: worktrees made
    MaxCommits,   \* bound: commits
    Patient,      \* no setup outlasts the 45 s a session's request waits
    Calm          \* nobody asks for a worktree that is being deleted or gone

ASSUME WorktreeAssumption ==
    /\ {MaxSuffix, Keep, MaxMade, MaxCommits} \subseteq Nat
    /\ Placeholder \notin Task /\ {Patient, Calm} \subseteq BOOLEAN

VARIABLES
    branches,  \* git: the branches under kunai/
    work,      \* git: the commits of each
    checkout,  \* git: the branch a directory has checked out
    base,      \* git: the commits of the base branch
    merging,   \* the commits of the merge the main checkout is stopped in
    records,   \* worktreeStore.records
    setups,    \* setup commands that run, by the number of their worktree
    hand,      \* each request or hook, as far as it has got
    inside,    \* directories with a live session
    used       \* worktrees, and commits so far

wtVars == <<branches, work, checkout, base, merging, records, setups, hand, inside, used>>
wtGit == <<branches, work, checkout, base, merging>>

Branch == (Task \cup {Placeholder}) \X (1..MaxSuffix)
NoBranch == <<"none", 0>>
IsPlaceholder(b) == b[1] = Placeholder

NoRecord == [branch |-> NoBranch, made |-> 0, removed |-> FALSE]
Idle == [at |-> "none", dir |-> NoBranch, branch |-> NoBranch, made |-> 0, saw |-> {}, drop |-> FALSE]

\* get: "A tombstone is not a worktree."
Has(d) == records[d] # NoRecord /\ ~records[d].removed
Present(d) == checkout[d] # NoBranch

\* AvailableBranch: the first free suffix of a name, if there is one.
FreeSuffix(n) == {k \in 1..MaxSuffix : <<n, k>> \notin branches}
Available(n) == {<<n, k>> : k \in {k \in FreeSuffix(n) : \A j \in FreeSuffix(n) : k <= j}}

Deleting == {"tree", "branch", "forget"}
Undisturbed(d) == Calm => Present(d) /\ \A h \in Hand : hand[h].dir = d => hand[h].at \notin Deleting \cup {"put"}
Alone(d) == Calm => Present(d) /\ \A h \in Hand : hand[h].dir # d

Rests(h) == hand[h] = Idle
Leaves(h) == hand' = [hand EXCEPT ![h] = Idle]
Advances(h, to) == hand' = [hand EXCEPT ![h].at = to]

-----------------------------------------------------------------------------
(* create *)

\* Create: a free branch, and if the path it would have is taken, an error.
Pick(h, n) ==
    /\ Rests(h) /\ used.made < MaxMade
    /\ \E b \in Available(n) :
        /\ ~Present(b)
        /\ \A o \in Hand : Calm /\ hand[o].dir = b => hand[o].at \notin Deleting
        /\ hand' = [hand EXCEPT ![h] = [Idle EXCEPT !.at = "add", !.dir = b, !.branch = b]]
    /\ UNCHANGED <<wtGit, records, setups, inside, used>>

\* git worktree add -b, from the base
AddTree(h) ==
    /\ hand[h].at = "add" /\ used.made < MaxMade
    /\ LET b == hand[h].branch IN
       IF b \in branches \/ Present(b)
       THEN Leaves(h) /\ UNCHANGED <<branches, work, checkout, used>>
       ELSE /\ branches' = branches \cup {b}
            /\ work' = [work EXCEPT ![b] = base]
            /\ checkout' = [checkout EXCEPT ![b] = b]
            /\ used' = [used EXCEPT !.made = @ + 1]
            /\ hand' = [hand EXCEPT ![h].at = "put", ![h].made = used.made + 1]
    /\ UNCHANGED <<base, merging, records, setups, inside>>

\* put, with the setup that is to run, if there is one
PutRecord(h) ==
    /\ hand[h].at = "put"
    /\ records' = [records EXCEPT ![hand[h].dir] =
         [branch |-> hand[h].branch, made |-> hand[h].made, removed |-> FALSE]]
    /\ setups' \in {setups, setups \cup {hand[h].made}}
    /\ Leaves(h)
    /\ UNCHANGED <<wtGit, inside, used>>

\* runSetup: over, whatever came of it
SetupEnds(n) ==
    /\ n \in setups
    /\ setups' = setups \ {n}
    /\ UNCHANGED <<wtGit, records, hand, inside, used>>

-----------------------------------------------------------------------------
(* A session that is to run there *)

SessionAsks(h, d) ==
    /\ Rests(h) /\ Has(d) /\ Undisturbed(d)
    /\ hand' = [hand EXCEPT ![h] =
         [Idle EXCEPT !.at = "wait", !.dir = d, !.made = IF records[d].made \in setups THEN records[d].made ELSE 0]]
    /\ UNCHANGED <<wtGit, records, setups, inside, used>>

\* Mutant: a setup is not waited for.
WaitsNot(h) == TRUE

\* waitReady: until the setup it knew of has finished, or its own time is up
WaitsNoMore(h) == hand[h].made \notin setups \/ ~Patient

\* applyWorktree reads the record again after the wait; Manager.Create asks only
\* that there is such a folder.
SessionStarts(h) ==
    /\ hand[h].at = "wait" /\ WaitsNoMore(h)
    /\ LET d == hand[h].dir IN inside' = IF Has(d) /\ Present(d) THEN inside \cup {d} ELSE inside
    /\ Leaves(h)
    /\ UNCHANGED <<wtGit, records, setups, used>>

SessionCloses(d) ==
    /\ d \in inside
    /\ inside' = inside \ {d}
    /\ UNCHANGED <<wtGit, records, setups, hand, used>>

\* The agent commits.
Works(d) ==
    /\ d \in inside /\ Present(d) /\ used.commits < MaxCommits
    /\ used' = [used EXCEPT !.commits = @ + 1]
    /\ work' = [work EXCEPT ![checkout[d]] = @ \cup {used.commits + 1}]
    /\ UNCHANGED <<branches, checkout, base, merging, records, setups, hand, inside>>

-----------------------------------------------------------------------------
(* nameFromFirstPrompt, at a turn's end *)

\* Mutant: whatever the branch is called.
MayName(d) == TRUE

\* "Only a placeholder is replaced."
ToBeNamed(d) == IsPlaceholder(records[d].branch)

NameReads(h, d) ==
    /\ Rests(h) /\ d \in inside /\ Has(d) /\ ToBeNamed(d) /\ Undisturbed(d)
    /\ hand' = [hand EXCEPT ![h] = [Idle EXCEPT !.at = "name", !.dir = d, !.branch = records[d].branch]]
    /\ UNCHANGED <<wtGit, records, setups, inside, used>>

\* git branch -m, which takes the directories that have it checked out along
Moved(f, b, c) == [d \in Branch |-> IF f[d] = b THEN c ELSE f[d]]

\* Rename
NameMoves(h, n) ==
    /\ hand[h].at = "name"
    /\ LET b == hand[h].branch IN
       IF b \notin branches \/ Available(n) = {}
       THEN Leaves(h) /\ UNCHANGED wtGit
       ELSE \E c \in Available(n) :
            /\ branches' = (branches \ {b}) \cup {c}
            /\ work' = [work EXCEPT ![c] = work[b], ![b] = {}]
            /\ checkout' = Moved(checkout, b, c)
            /\ hand' = [hand EXCEPT ![h].at = "named", ![h].branch = c]
            /\ UNCHANGED <<base, merging>>
    /\ UNCHANGED <<records, setups, inside, used>>

\* Mutant: the record keeps the name it had.
NotRenamed(d, b) == records

\* live.Info = renamed
BranchRenamed(d, b) == IF records[d] = NoRecord THEN records ELSE [records EXCEPT ![d].branch = b]

NameWrites(h) ==
    /\ hand[h].at = "named"
    /\ records' = BranchRenamed(hand[h].dir, hand[h].branch)
    /\ Leaves(h)
    /\ UNCHANGED <<wtGit, setups, inside, used>>

-----------------------------------------------------------------------------
(* Merge *)

MergeAsks(h, d) ==
    /\ Rests(h) /\ Has(d) /\ Undisturbed(d)
    /\ hand' = [hand EXCEPT ![h] = [Idle EXCEPT !.at = "merge", !.dir = d, !.branch = records[d].branch]]
    /\ UNCHANGED <<wtGit, records, setups, inside, used>>

\* Mutant: the base is moved to whatever the branch holds.
FastForwardsAny(b) == TRUE

\* canFastForward: the base is an ancestor of the branch.
FastForwards(b) == base \subseteq work[b]

\* "Merge refuses rather than improvises": a base that only has to advance is
\* advanced, anything else wants the main checkout on it and clean.  Where that
\* checkout is, and whether somebody is at work in it, is up to its owner.
Merges(h) ==
    /\ hand[h].at = "merge"
    /\ LET b == hand[h].branch
           refused == UNCHANGED <<base, merging>>
       IN  IF b \notin branches \/ work[b] \subseteq base THEN refused
           ELSE \E onBase, dirty \in BOOLEAN :
                /\ merging # {} => onBase /\ dirty
                /\ CASE FastForwards(b) /\ ~onBase -> base' = work[b] /\ UNCHANGED merging
                     [] OTHER -> \/ (dirty \/ ~onBase) /\ refused
                                 \/ ~dirty /\ onBase /\ base' = base \cup work[b] /\ UNCHANGED merging
                                 \/ ~dirty /\ onBase /\ ~(base \subseteq work[b]) /\ merging' = work[b] /\ UNCHANGED base
    /\ Leaves(h)
    /\ UNCHANGED <<branches, work, checkout, records, setups, inside, used>>

\* Somebody commits on the base, or resolves the merge that stopped.
BaseMoves ==
    /\ IF merging # {} THEN base' = base \cup merging /\ merging' = {} /\ UNCHANGED used
       ELSE /\ used.commits < MaxCommits
            /\ used' = [used EXCEPT !.commits = @ + 1]
            /\ base' = base \cup {used.commits + 1}
            /\ UNCHANGED merging
    /\ UNCHANGED <<branches, work, checkout, records, setups, hand, inside>>

-----------------------------------------------------------------------------
(* Removal *)

\* handleDeleteWorktree: "is anyone here"
DeleteAsks(h, d, drop) ==
    /\ Rests(h) /\ Has(d) /\ d \notin inside /\ Alone(d)
    /\ hand' = [hand EXCEPT ![h] =
         [Idle EXCEPT !.at = "tree", !.dir = d, !.branch = records[d].branch, !.drop = drop,
                      !.saw = IF Present(d) THEN work[checkout[d]] ELSE {}]]
    /\ UNCHANGED <<wtGit, records, setups, inside, used>>

\* git worktree remove, which without --force spares what nobody has committed
DeleteTree(h) ==
    /\ hand[h].at = "tree"
    /\ \/ Leaves(h) /\ UNCHANGED checkout
       \/ /\ Present(hand[h].dir)
          /\ checkout' = [checkout EXCEPT ![hand[h].dir] = NoBranch]
          /\ Advances(h, IF hand[h].drop THEN "branch" ELSE "forget")
    /\ UNCHANGED <<branches, work, base, merging, records, setups, inside, used>>

\* git branch -D, which spares a branch that is checked out
DeleteBranch(h) ==
    /\ hand[h].at = "branch"
    /\ LET b == hand[h].branch IN
       IF b \notin branches \/ \E d \in Branch : checkout[d] = b
       THEN Leaves(h) /\ UNCHANGED <<branches, work>>
       ELSE branches' = branches \ {b} /\ work' = [work EXCEPT ![b] = {}] /\ Advances(h, "forget")
    /\ UNCHANGED <<checkout, base, merging, records, setups, inside, used>>

Tombstones(r) == {d \in Branch : r[d].removed}

\* Mutant: the oldest are the ones that stay.
PrunedNewest(r) ==
    LET out(d) == Cardinality({o \in Tombstones(r) : r[o].made < r[d].made}) >= Keep
    IN  [d \in Branch |-> IF r[d].removed /\ out(d) THEN NoRecord ELSE r[d]]

\* pruneRemovedLocked keeps the newest.
Pruned(r) ==
    LET out(d) == Cardinality({o \in Tombstones(r) : r[o].made > r[d].made}) >= Keep
    IN  [d \in Branch |-> IF r[d].removed /\ out(d) THEN NoRecord ELSE r[d]]

Buried(r, gone) == Pruned([d \in Branch |-> IF d \in gone /\ r[d] # NoRecord THEN [r[d] EXCEPT !.removed = TRUE] ELSE r[d]])

Forget(h) ==
    /\ hand[h].at = "forget"
    /\ records' = Buried(records, {hand[h].dir})
    /\ Leaves(h)
    /\ UNCHANGED <<wtGit, setups, inside, used>>

\* all: "a worktree deleted from a terminal is gone".
Listing ==
    /\ \E d \in Branch : Has(d) /\ ~Present(d)
    /\ records' = Buried(records, {d \in Branch : Has(d) /\ ~Present(d)})
    /\ UNCHANGED <<wtGit, setups, hand, inside, used>>

\* git worktree remove, in a terminal
RemovedByHand(d) ==
    /\ Present(d) /\ d \notin inside /\ Alone(d)
    /\ checkout' = [checkout EXCEPT ![d] = NoBranch]
    /\ UNCHANGED <<branches, work, base, merging, records, setups, hand, inside, used>>

-----------------------------------------------------------------------------

WtInit ==
    /\ branches = {} /\ work = [b \in Branch |-> {}] /\ checkout = [d \in Branch |-> NoBranch]
    /\ base = {} /\ merging = {}
    /\ records = [d \in Branch |-> NoRecord] /\ setups = {} /\ hand = [h \in Hand |-> Idle]
    /\ inside = {} /\ used = [made |-> 0, commits |-> 0]

HandMoves(h) ==
    \/ \E n \in Task \cup {Placeholder} : Pick(h, n)
    \/ AddTree(h) \/ PutRecord(h)
    \/ SessionStarts(h)
    \/ \E d \in Branch : SessionAsks(h, d) \/ NameReads(h, d) \/ MergeAsks(h, d)
    \/ \E n \in Task : NameMoves(h, n)
    \/ NameWrites(h) \/ Merges(h)
    \/ \E d \in Branch, drop \in BOOLEAN : DeleteAsks(h, d, drop)
    \/ DeleteTree(h) \/ DeleteBranch(h) \/ Forget(h)

WtNext ==
    \/ \E h \in Hand : HandMoves(h)
    \/ \E n \in setups : SetupEnds(n)
    \/ \E d \in Branch : SessionCloses(d) \/ Works(d) \/ RemovedByHand(d)
    \/ Listing \/ BaseMoves

WtSpec == WtInit /\ [][WtNext]_wtVars

-----------------------------------------------------------------------------
(* Properties *)

WtTypeOK ==
    /\ branches \subseteq Branch /\ inside \subseteq Branch
    /\ checkout \in [Branch -> branches \cup {NoBranch}]
    /\ work \in [Branch -> SUBSET (1..MaxCommits)] /\ base \cup merging \subseteq 1..MaxCommits
    /\ \A d \in Branch : records[d] \in [branch : Branch \cup {NoBranch}, made : 0..MaxMade, removed : BOOLEAN]
    /\ setups \subseteq 1..used.made

\* What the store says a worktree's branch is, is what git has checked out
\* there, once whoever made or renamed it has written that down: it is the name
\* that is merged, pushed and deleted.
RecordFits ==
    \A d \in Branch :
        Has(d) /\ Present(d) /\ (\A h \in Hand : hand[h].dir = d => hand[h].at \notin {"put", "named"})
            => records[d].branch = checkout[d]

\* A commit can be reached from some branch for as long as nobody has asked to
\* throw away a worktree that held it.
ReachableFrom == base \cup merging \cup UNION {work[b] : b \in branches}
WorkIsKept == [][\A n \in ReachableFrom \ ReachableFrom' : \E h \in Hand : hand[h].at = "branch" /\ n \in hand[h].saw]_wtVars

\* "A session never starts against a half-installed tree."
NeverHalfInstalled == [][\A d \in inside' \ inside : records[d].made \notin setups]_wtVars

\* The repository of a past session can still be told, unless as many worktrees
\* as are remembered have been removed since.
PastIsKnown ==
    [][\A d \in Branch : records[d] # NoRecord /\ records'[d] = NoRecord =>
          Cardinality({o \in Tombstones(records') : records'[o].made > records[d].made}) >= Keep]_wtVars

\* "A name someone chose is never overwritten."
ChosenStays ==
    [][\A d \in Branch : Present(d) /\ checkout'[d] \notin {NoBranch, checkout[d]} => IsPlaceholder(checkout[d])]_wtVars

\* A worktree is what the store says, and keeps what was done in it.
TreesAreSound ==
    /\ [][RecordFits']_wtVars
    /\ WorkIsKept /\ NeverHalfInstalled /\ PastIsKnown /\ ChosenStays

\* "Starting a second worktree with a name you have used before": while a name
\* has a free branch, the directory that goes with it is free as well.
UsedNameWorksAgain == \A n \in Task \cup {Placeholder} : \A b \in Available(n) : ~Present(b)
=============================================================================
