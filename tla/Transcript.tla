------------------------------ MODULE Transcript ------------------------------
(***************************************************************************)
(* The conversation on disk and on the screen (server/history.go, the      *)
(* staging copy of accountlogin.go, loadOlder of the web client): a        *)
(* transcript that the CLI appends to, of which a session that is opened   *)
(* shows the last bytes and pages in the rest, and that is copied into     *)
(* another account's folder when the session moves there.                  *)
(*                                                                         *)
(* A transcript is a sequence of lines, a line the number under which it   *)
(* was written; sizes and offsets are in units the windows are scaled to.  *)
(* A prompt is a line like a reply, and so is the seam of a loop.          *)
(* Left out: the words, the titles and folders a listing reads off it, a   *)
(* copy that fails, which changes nothing.                                 *)
(***************************************************************************)
EXTENDS Integers, Sequences, FiniteSets, FiniteSetsExt, SequencesExt

CONSTANTS
    Home,      \* accounts' folders, 1..n in the order they are looked through
    Size,      \* of each kind of line, its size
    TailBytes, \* seedTailBytes
    PageBytes, \* histChunkBytes
    MaxSeed,   \* maxSeedTurns
    Resident,  \* tokens that stay in the window whatever is compacted
    MaxLines, MaxMoves  \* bounds: lines; switches, reopenings and reconnects

ASSUME TranscriptAssumption ==
    /\ Home = 1..Cardinality(Home)
    /\ Size \in [{"tools", "reply", "compact", "note"} -> Nat \ {0}]
    /\ {TailBytes, PageBytes, MaxSeed, Resident, MaxLines, MaxMoves} \subseteq Nat

VARIABLES
    lines,    \* the kind of each line written so far
    files,    \* of each account, its copy of the transcript
    runsOn,   \* the account the session runs on
    goingTo,  \* the account its transcript was staged for, 0 when it is not moving
    lost,     \* lines an old process wrote between that and its end
    staged,   \* lines written when that happened
    onScreen,    \* the turns on the screen
    cursor,   \* histBefore of the client
    began,    \* histBefore of the session
    paging,   \* the page on its way to the client
    flaws,    \* what has happened to the view, see ShownIsHistory
    moves     \* switches, reopenings and reconnects so far

trVars == <<lines, files, runsOn, goingTo, lost, staged, onScreen, cursor, began, paging, flaws, moves>>
trView == <<onScreen, cursor, began, paging, flaws>>

NoPage == [older |-> -1, turns |-> <<>>]

-----------------------------------------------------------------------------
(* Reading *)

\* Where the i-th line begins, and with i past the last, where the file ends.
Offset(f, i) == MapThenSumSet(LAMBDA j : Size[lines[f[j]]], 1..(i - 1))
Length(f) == Offset(f, Len(f) + 1)
TranscriptStarts(f) == {Offset(f, i) : i \in 1..(Len(f) + 1)}

\* Mutant: what is older begins where the window does, in the middle of a line.
Unaligned(f, low, high) == {low}

\* The first line boundary after the place a seek landed in.
Aligned(f, low, high) ==
    LET after == {s \in TranscriptStarts(f) : low < s /\ s <= high} IN IF after = {} THEN {} ELSE {Min(after)}

\* The turns of a line: a frame of tool results carries several, a harness
\* wrapper or a summary none.
TurnsOfLine(n) ==
    CASE lines[n] = "note" -> <<>>
      [] lines[n] = "tools" -> <<<<n, 1>>, <<n, 2>>>>
      [] OTHER -> <<<<n, 1>>>>

\* parseSeedTurns: of the whole lines between two offsets
TurnsBetween(f, from, to) ==
    FlattenSeq([i \in 1..Len(f) |-> IF Offset(f, i) >= from /\ Offset(f, i + 1) <= to THEN TurnsOfLine(f[i]) ELSE <<>>])

\* transcriptTail: where what is read of a long transcript begins
TailStart(f) ==
    IF Length(f) <= TailBytes THEN 0
    ELSE Min(Aligned(f, Length(f) - TailBytes, Length(f)))

\* loadTranscriptSeed
TailTurns(f) == TurnsBetween(f, TailStart(f), Length(f))
SeedOf(f) == LET t == TailTurns(f) IN SubSeq(t, (IF Len(t) > MaxSeed THEN Len(t) - MaxSeed ELSE 0) + 1, Len(t))

\* loadTranscriptSlice: a page of a file that is shorter than the client thinks
\* is none, and says that there is nothing older.
PageOf(f, before) ==
    LET low == before - PageBytes
        from == IF low <= 0 THEN {0} ELSE Aligned(f, low, before)
    IN  IF before > Length(f) \/ from = {} THEN [older |-> 0, turns |-> <<>>]
        ELSE [older |-> Min(from), turns |-> TurnsBetween(f, Min(from), before)]

\* transcriptForID: the first account that has a copy, 0 if none does
FirstCopy == LET has == {h \in Home : files[h] # <<>>} IN IF has = {} THEN 0 ELSE Min(has)

-----------------------------------------------------------------------------
(* The context meter of a session that is opened *)

\* What an assistant message says of the window: what was said since the last
\* compaction, which leaves one token, and what is always there.
IsCompact(i, f) == lines[f[i]] = "compact"
SaidLines(f, i) ==
    LET from == {j \in 1..i : IsCompact(j, f)} IN
    IF from = {} THEN i ELSE 1 + i - Max(from)
Usage(f, i) == SaidLines(f, i) + Resident

\* "The smallest such gap is the tightest estimate."
Tightest(known, gap) == IF gap > 0 /\ (known = 0 \/ gap < known) THEN gap ELSE known

\* Mutant: what the compaction says is what the meter reads.
BarePost(m) == 1

\* "A meter set to the bare postTokens reads far too low."
AfterCompact(m) == 1 + m.overhead

\* loadTranscriptContextTokens, over the tail
ReadsPage(f, m, i) ==
    CASE IsCompact(i, f) -> [m EXCEPT !.last = AfterCompact(m), !.post = 1]
      [] lines[f[i]] = "reply" ->
            [last |-> Usage(f, i), post |-> 0,
             overhead |-> IF m.post > 0 THEN Tightest(m.overhead, Usage(f, i) - m.post) ELSE m.overhead]
      [] OTHER -> m

InTail(f) == {i \in 1..Len(f) : Offset(f, i) >= TailStart(f)}
Meter(f) ==
    FoldLeft(LAMBDA m, i : ReadsPage(f, m, i), [last |-> 0, post |-> 0, overhead |-> 0],
             SetToSortSeq(InTail(f), <))

-----------------------------------------------------------------------------
(* The session *)

\* A line the CLI writes is a turn the client is shown.
WritesLine(k) ==
    /\ Len(lines) < MaxLines
    /\ lines' = Append(lines, k)
    /\ LET n == Len(lines) + 1 IN
       /\ files' = [files EXCEPT ![runsOn] = Append(@, n)]
       /\ onScreen' = onScreen \o (IF k = "note" THEN <<>> ELSE IF k = "tools" THEN <<<<n, 1>>, <<n, 2>>>> ELSE <<<<n, 1>>>>)
    /\ UNCHANGED <<runsOn, goingTo, lost, staged, cursor, began, paging, flaws, moves>>

\* The client rebuilds its screen from what the session was seeded with.
Shows(f, start) ==
    /\ onScreen' = SeedOf(f)
    /\ began' = start /\ cursor' = start
    /\ flaws' = {x \in {"capped", "cut", "crossed"} :
                    CASE x = "capped" -> Len(TailTurns(f)) > MaxSeed
                      [] x = "cut" -> start # TailStart(f)
                      [] OTHER -> paging # NoPage}
    /\ UNCHANGED paging

Moves == moves < MaxMoves /\ moves' = moves + 1

\* Closed, and opened again.
Reopens ==
    /\ goingTo = 0 /\ Moves
    /\ Shows(files[runsOn], TailStart(files[runsOn]))
    /\ UNCHANGED <<lines, files, runsOn, goingTo, lost, staged>>

\* Mutant: the copy that a search of every account finds.
SourceFound(cur) == FirstCopy

\* "The source MUST come from the account the session is running on now."
Source(cur) == IF files[cur] # <<>> THEN cur ELSE FirstCopy

\* stageTranscriptForSwitch: a file is never copied onto itself.  A restart that
\* stays where it is copies nothing.
Stages(to) ==
    /\ goingTo = 0 /\ Moves
    /\ goingTo' = to /\ staged' = Len(lines)
    /\ LET from == Source(runsOn) IN
       files' = IF from \in {0, to} \/ to = runsOn THEN files ELSE [files EXCEPT ![to] = files[from]]
    /\ UNCHANGED <<lines, runsOn, lost, trView>>

\* restart: seeded from the account it is now on, with no cursor
Respawns ==
    /\ goingTo # 0
    /\ runsOn' = goingTo /\ goingTo' = 0
    /\ lost' = IF goingTo = runsOn THEN lost ELSE lost \cup ((staged + 1)..Len(lines))
    /\ Shows(files[goingTo], 0)
    /\ UNCHANGED <<lines, files, staged, moves>>

-----------------------------------------------------------------------------
(* Reverse scroll *)

\* handleOlderTurns
PageAsked ==
    /\ cursor > 0 /\ paging = NoPage
    /\ paging' = PageOf(files[FirstCopy], cursor)
    /\ LET own == files[runsOn]
           older == {i \in 1..Len(own) : Offset(own, i) < cursor}
           same == \A i \in older : i <= Len(files[FirstCopy]) /\ files[FirstCopy][i] = own[i]
       IN  flaws' = IF same THEN flaws ELSE flaws \cup {"stale"}
    /\ UNCHANGED <<lines, files, runsOn, goingTo, lost, staged, onScreen, cursor, began, moves>>

\* loadOlder: prepended, and the cursor moves to where the page begins.
PageLands ==
    /\ paging # NoPage
    /\ onScreen' = paging.turns \o onScreen
    /\ cursor' = paging.older
    /\ paging' = NoPage
    /\ UNCHANGED <<lines, files, runsOn, goingTo, lost, staged, began, flaws, moves>>

PageFails ==
    /\ paging # NoPage
    /\ paging' = NoPage
    /\ UNCHANGED <<lines, files, runsOn, goingTo, lost, staged, onScreen, cursor, began, flaws, moves>>

\* hello, from the same process: what is on the screen stays, the cursor is the
\* session's again.
Reconnects ==
    /\ Moves
    /\ cursor' = began
    /\ flaws' = flaws \cup (IF cursor # began THEN {"again"} ELSE {})
                      \cup (IF paging # NoPage THEN {"crossed"} ELSE {})
    /\ UNCHANGED <<lines, files, runsOn, goingTo, lost, staged, onScreen, began, paging>>

-----------------------------------------------------------------------------

TrInit ==
    /\ lines = <<>> /\ files = [h \in Home |-> <<>>] /\ runsOn \in Home /\ goingTo = 0 /\ lost = {} /\ staged = 0
    /\ onScreen = <<>> /\ cursor = 0 /\ began = 0 /\ paging = NoPage /\ flaws = {} /\ moves = 0

TrNext ==
    \/ \E k \in DOMAIN Size : WritesLine(k)
    \/ \E to \in Home : Stages(to)
    \/ Respawns \/ Reopens \/ Reconnects \/ PageAsked \/ PageLands \/ PageFails

TrSpec == TrInit /\ [][TrNext]_trVars

-----------------------------------------------------------------------------
(* Properties *)

TrTypeOK ==
    /\ Len(lines) <= MaxLines /\ runsOn \in Home /\ goingTo \in Home \cup {0}
    /\ \A h \in Home : ToSet(files[h]) \subseteq 1..Len(lines)
    /\ ToSet(onScreen) \subseteq (1..Len(lines)) \X {1, 2} /\ {cursor, began} \subseteq Nat
    /\ lost \subseteq 1..Len(lines) /\ staged \in 0..MaxLines /\ flaws \subseteq {"capped", "cut", "crossed", "stale", "again"}

\* "Replayed history and paged-in older history build identical items": whatever
\* is opened, paged, moved and written in between, the screen shows the end of
\* the transcript, each turn once and in order, and all of it when there is
\* nothing older; a page brings the cursor nearer to the beginning.  Not so a
\* view that was seeded with more turns than are kept, or by a respawn, that
\* reads another account's copy, or that reconnects or is rebuilt between pages.
ShownIsHistory ==
    flaws = {} =>
        LET all == TurnsBetween(files[runsOn], 0, Length(files[runsOn]))
        IN  /\ Len(onScreen) <= Len(all) /\ onScreen = SubSeq(all, Len(all) - Len(onScreen) + 1, Len(all))
            /\ cursor = 0 => onScreen = all
            /\ paging # NoPage => paging.older < cursor

\* "The resumed process loads the full context under the new login": the copy the
\* session runs on has all that was said, through any number of switches, but
\* for what the old process wrote between the copy and its end.
HistoryFollows ==
    LET Kept(f) == SelectSeq(f, LAMBDA n : n \notin lost)
    IN  Kept(files[runsOn]) = Kept([n \in 1..Len(lines) |-> n])

\* The meter of a session that is opened reads what its last message said.  After
\* a compaction that nothing followed it is not too low, and too high by no more
\* than was said between one before it and the reply to that, if the tail has one.
MeterIsHonest ==
    LET f == files[runsOn]
        sized == {i \in InTail(f) : lines[f[i]] \in {"reply", "compact"}}
        pairs == {<<c, r>> \in sized \X sized :
                     IsCompact(c, f) /\ lines[f[r]] = "reply" /\ c < r /\ \A j \in sized : ~(c < j /\ j < r)}
        top == Max(sized)
        slack == Min({p[2] - p[1] : p \in pairs})
    IN  sized # {} =>
            /\ lines[f[top]] = "reply" => Meter(f).last = Usage(f, top)
            /\ IsCompact(top, f) /\ pairs # {} => Meter(f).last = Usage(f, top) + slack

\* What was said is on the disk of the account that goes on with it, and on the
\* screen.
HistoryIsKept == ShownIsHistory /\ HistoryFollows /\ MeterIsHonest

\* "The turns just older than what is loaded": no turn is shown twice.
ShownOnce == \A i, j \in 1..Len(onScreen) : onScreen[i] = onScreen[j] => i = j
=============================================================================
