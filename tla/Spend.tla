-------------------------------- MODULE Spend --------------------------------
(***************************************************************************)
(* What every session cost (internal/usagestats, server/usagepage.go),     *)
(* read back out of the transcripts: an index that remembers of each file  *)
(* how far it was read and what was found up to there, brought up to date  *)
(* by one scan at a time, which runs beside sessions that write, move to   *)
(* another account (their transcript is copied there) and are deleted.     *)
(*                                                                         *)
(* A file is a sequence of records, each one number of its own, with the   *)
(* time of its last change and whether it ends in half a record; what a    *)
(* record spent is the record.  Left out: what a token costs, the day and  *)
(* the model it is filed under, a record that was cut off for good, behind *)
(* which nothing of its file is ever read.                                 *)
(***************************************************************************)
EXTENDS Integers, Sequences, FiniteSets, SequencesExt, FiniteSetsExt

CONSTANTS
    Chat,     \* sessions
    Folder,   \* account folders, 1..n in the order they are walked
    MaxRecs, MaxSpendTurns, MaxScans, MaxStamp  \* bounds: records; moves and deletes; scans and restarts; ticks

ASSUME SpendAssumption ==
    /\ Folder = 1..Cardinality(Folder)
    /\ {MaxRecs, MaxSpendTurns, MaxScans, MaxStamp} \subseteq Nat

VARIABLES
    stamp,    \* the clock of the file system
    store,    \* [Chat \X Folder -> a file]
    livesIn,  \* of each session, the folder it writes to, 0 once it is deleted
    index,    \* Collector.files: of each file that was there, [size, off, rows]
    disk,     \* the index as it was saved
    scan,     \* the scan under way: what is left, the file at hand, what was found
    report,   \* the records the report counts, and those it is to count
    recs,     \* records written so far
    fooled,   \* files that were replaced and are as long as the index knows them
    steady,   \* whether no file has changed since the scan began
    turns, scans

spVars == <<stamp, store, livesIn, index, disk, scan, report, recs, fooled, steady, turns, scans>>
spScan == <<index, disk, scan, report, scans>>

Path == Chat \X Folder
NoFile == [recs |-> <<>>, half |-> FALSE, at |-> 0]
Exists(p) == store[p] # NoFile
\* What Stat says: half a record is bytes as well.
Bytes(f) == 2 * Len(f.recs) + (IF f.half THEN 1 ELSE 0)
NothingRead == [size |-> 0, off |-> 0, rows |-> <<>>]
NoScan == [on |-> FALSE, todo |-> {}, at |-> <<>>, size |-> 0, st |-> NothingRead, found |-> <<>>]
NoReport == [rows |-> <<>>, due |-> {}, whole |-> FALSE]

-----------------------------------------------------------------------------
(* The sessions *)

\* That a file was replaced shows only in its being shorter, and not at all while
\* it is looked at and not yet read.
Fools(now) ==
    {p \in Path :
        \/ scan.at = p /\ ~IsPrefix(store[p].recs, now[p].recs)
        \/ \E ix \in {j \in {index, disk, scan.found} : p \in DOMAIN j} :
              ix[p].size <= Bytes(now[p]) /\ ~IsPrefix(ix[p].rows, now[p].recs)}

FileChanges ==
    /\ fooled' = fooled \cup Fools(store')
    /\ steady' = FALSE
    /\ UNCHANGED <<stamp, spScan>>

\* The CLI writes a record, in two halves or at once.
Records(c) ==
    /\ livesIn[c] # 0 /\ recs < MaxRecs
    /\ LET p == <<c, livesIn[c]>> IN
       \/ /\ ~store[p].half /\ recs' = recs
          /\ store' = [store EXCEPT ![p].half = TRUE, ![p].at = stamp]
       \/ /\ recs' = recs + 1
          /\ store' = [store EXCEPT ![p] = [recs |-> Append(@.recs, recs + 1), half |-> FALSE, at |-> stamp]]
    /\ UNCHANGED <<livesIn, turns>> /\ FileChanges

Turns == turns < MaxSpendTurns /\ turns' = turns + 1

\* The copy of an account switch, which the session goes on with.
MovesTo(c, to) ==
    /\ Turns /\ livesIn[c] \notin {0, to} /\ livesIn' = [livesIn EXCEPT ![c] = to]
    /\ LET from == store[<<c, livesIn[c]>>] IN
       /\ from # NoFile /\ ~from.half
       /\ store' = [store EXCEPT ![<<c, to>>] = [from EXCEPT !.at = stamp]]
    /\ UNCHANGED recs /\ FileChanges

\* Taken up again in an account whose copy is not the last: from there the two
\* differ.
GoesOnIn(c, there) ==
    /\ Turns /\ livesIn[c] \notin {0, there} /\ Exists(<<c, there>>)
    /\ livesIn' = [livesIn EXCEPT ![c] = there]
    /\ UNCHANGED <<store, recs>> /\ FileChanges

Deleted(c) ==
    /\ Turns /\ livesIn[c] # 0 /\ livesIn' = [livesIn EXCEPT ![c] = 0]
    /\ store' = [p \in Path |-> IF p[1] = c THEN NoFile ELSE store[p]]
    /\ UNCHANGED recs /\ FileChanges

ClockTicks ==
    /\ stamp < MaxStamp /\ stamp' = stamp + 1
    /\ UNCHANGED <<store, livesIn, recs, fooled, turns, spScan, steady>>

-----------------------------------------------------------------------------
(* The scan *)

\* Mutant: one per file on disk.
EveryCopy == {p \in Path : Exists(p)}

\* transcripts: "one per SESSION, not one per file on disk", the first of those
\* written last.
Transcripts ==
    {p \in Path :
        Exists(p) /\ \A f \in Folder : IF f < p[2] THEN store[<<p[1], f>>].at < store[p].at
                                       ELSE store[<<p[1], f>>].at <= store[p].at}

\* Refresh: the index is copied out, and a second caller returns at once.
ScanStarts ==
    /\ ~scan.on /\ scans < MaxScans /\ scans' = scans + 1
    /\ scan' = [NoScan EXCEPT !.on = TRUE, !.todo = Transcripts]
    /\ steady' = TRUE
    /\ UNCHANGED <<stamp, store, livesIn, recs, fooled, turns, index, disk, report>>

\* Mutant: the offset is believed whatever has become of the file.
OffsetTrusted(p) == IF p \in DOMAIN index THEN index[p] ELSE NothingRead

\* "New, or rewritten shorter than we had read: start over."
Known(p) == IF p \in DOMAIN index /\ Bytes(store[p]) >= index[p].size THEN index[p] ELSE NothingRead

With(found, p, st) == [q \in DOMAIN found \cup {p} |-> IF q = p THEN st ELSE found[q]]

\* scanRoots: one that has gone is not in the index any more, one that has its
\* old size is not read.
ScanLooks(p) ==
    /\ scan.on /\ scan.at = <<>> /\ p \in scan.todo
    /\ scan' = IF ~Exists(p) THEN [scan EXCEPT !.todo = @ \ {p}]
               ELSE IF Bytes(store[p]) = Known(p).size
                    THEN [scan EXCEPT !.todo = @ \ {p}, !.found = With(@, p, Known(p))]
                    ELSE [scan EXCEPT !.todo = @ \ {p}, !.at = p, !.size = Bytes(store[p]), !.st = Known(p)]
    /\ UNCHANGED <<stamp, store, livesIn, recs, fooled, turns, index, disk, report, scans, steady>>

\* Mutant: what is half there has been read.
HalfReadToo(f, from) ==
    [recs |-> SubSeq(f.recs, from + 1, Len(f.recs)), off |-> Len(f.recs) + (IF f.half THEN 1 ELSE 0)]

\* ScanFile: "the end of the last COMPLETE record", which is where it began if the
\* file ends before that.
ScanFile(f, from) ==
    [recs |-> SubSeq(f.recs, from + 1, Len(f.recs)), off |-> IF from > Len(f.recs) THEN from ELSE Len(f.recs)]

\* Mutant: what was found before is found again.
Anew(rows, more) == more

\* mergeRows
Merged(rows, more) == rows \o more

\* The size is the one from before the file was read; one that cannot be opened
\* any more keeps its entry.
ScanReads ==
    /\ scan.at # <<>>
    /\ LET got == ScanFile(store[scan.at], scan.st.off)
           now == IF Exists(scan.at) THEN [size |-> scan.size, off |-> got.off, rows |-> Merged(scan.st.rows, got.recs)]
                  ELSE scan.st
       IN  scan' = [scan EXCEPT !.at = <<>>, !.size = 0, !.st = NothingRead, !.found = With(@, scan.at, now)]
    /\ UNCHANGED <<stamp, store, livesIn, recs, fooled, turns, index, disk, report, scans, steady>>

SpendRows(ix) == FoldSet(LAMBDA p, all : all \o ix[p].rows, <<>>, DOMAIN ix)

\* What a session's last copies hold, if they are alike.
Newest(c) ==
    LET newest == {store[p] : p \in {q \in {c} \X Folder : \A f \in Folder : store[<<c, f>>].at <= store[q].at}}
    IN  IF Cardinality({f.recs : f \in newest}) = 1 THEN UNION {ToSet(f.recs) : f \in newest} ELSE {0}

\* build, and the merge back
ScanEnds ==
    /\ scan.on /\ scan.todo = {} /\ scan.at = <<>>
    /\ index' = scan.found /\ disk' = scan.found /\ scan' = NoScan
    /\ report' = [rows |-> SpendRows(scan.found), whole |-> steady, due |-> UNION {Newest(c) : c \in Chat}]
    /\ UNCHANGED <<stamp, store, livesIn, recs, fooled, turns, scans, steady>>

\* kunai is started again: load
Loads ==
    /\ scans < MaxScans /\ scans' = scans + 1
    /\ index' = disk /\ scan' = NoScan /\ report' = NoReport
    /\ UNCHANGED <<stamp, store, livesIn, recs, fooled, turns, disk, steady>>

-----------------------------------------------------------------------------

SpInit ==
    /\ stamp = 1 /\ store = [p \in Path |-> NoFile] /\ livesIn \in [Chat -> Folder]
    /\ index = <<>> /\ disk = <<>> /\ scan = NoScan /\ report = NoReport
    /\ recs = 0 /\ fooled = {} /\ steady = FALSE /\ turns = 0 /\ scans = 0

SpNext ==
    \/ ClockTicks \/ ScanStarts \/ ScanReads \/ ScanEnds \/ Loads
    \/ \E c \in Chat :
        \/ Records(c) \/ Deleted(c)
        \/ \E f \in Folder : MovesTo(c, f) \/ GoesOnIn(c, f)
    \/ \E p \in Path : ScanLooks(p)

SpSpec == SpInit /\ [][SpNext]_spVars

-----------------------------------------------------------------------------
(* Properties *)

SpTypeOK ==
    /\ stamp \in 1..MaxStamp /\ livesIn \in [Chat -> Folder \cup {0}] /\ recs \in 0..MaxRecs
    /\ \A p \in Path : ToSet(store[p].recs) \subseteq 1..recs /\ store[p].at \in 0..MaxStamp
    /\ DOMAIN index \cup DOMAIN disk \cup scan.todo \cup fooled \subseteq Path
    /\ turns \in 0..MaxSpendTurns /\ scans \in 0..MaxScans

\* "What makes the resume exact rather than approximately right": what the index
\* holds of a file is what stands before its offset, the whole of it and once,
\* unless the file is shorter than that, which the next scan sees.  Not so a file
\* that was replaced by one that differs and is no shorter.
IndexIsExact ==
    \A ix \in {index, disk, scan.found} : \A p \in DOMAIN ix \ fooled :
        Bytes(store[p]) >= ix[p].size /\ Exists(p) =>
            ix[p].off <= Len(store[p].recs) /\ ix[p].rows = SubSeq(store[p].recs, 1, ix[p].off)

\* "Counting the files would count that conversation once per account": the report
\* counts no record twice, and one that was made while no file changed counts all
\* that the sessions' last copies hold and nothing else.  (Of two copies written
\* in one tick that differ there is no last.)
SpentOnce ==
    fooled = {} =>
        /\ \A i, j \in DOMAIN report.rows : report.rows[i] = report.rows[j] => i = j
        /\ report.whole /\ 0 \notin report.due => ToSet(report.rows) = report.due

\* What a session cost is counted, and once.
SpendIsExact == IndexIsExact /\ SpentOnce

\* "The same way, with the same tie-break" as the list of past sessions: of two
\* copies written in one tick the longer is counted.
LongerOnATie ==
    \A p \in Transcripts, f \in Folder :
        store[<<p[1], f>>].at = store[p].at => Bytes(store[<<p[1], f>>]) <= Bytes(store[p])
=============================================================================
