-------------------------------- MODULE Tokens --------------------------------
(***************************************************************************)
(* The token manager of a native proxy (cliproxy/grok/auth.go,             *)
(* cliproxy/codex/auth.go): a login read from its file once, kept in       *)
(* memory, refreshed under a lock when its key is about to expire, and     *)
(* written back, because the provider rotates refresh tokens and takes     *)
(* only the newest.  The file may be the CLI's own, which refreshes it     *)
(* too.                                                                    *)
(*                                                                         *)
(* A refresh token is the number of its rotation; 0 is none.  Left out:    *)
(* the shapes of the file, the account in the token.                       *)
(***************************************************************************)
EXTENDS Naturals

CONSTANTS
    Rotations,  \* bound: refreshes
    Boots       \* bound: restarts of kunai

ASSUME TokensAssumption == Rotations \in Nat \ {0} /\ Boots \in Nat

VARIABLES
    latest,   \* the refresh token the provider takes
    keptToken,     \* the one in the file
    heldToken,      \* tokenManager.tok, 0 until it is loaded
    fresh,    \* its key has not expired, nor is about to
    refresh,  \* refreshLocked: "no", or "got" between the answer and the file
    other,    \* the CLI's refresh: the token it got, and has not written yet
    answer,   \* what the last request was given: "none", "key" or "signin"
    lives,    \* restarts so far
    mishap    \* what has happened to the login outside this manager: a token that
              \* was "lost" on its way to the file, one that was rotated "elsewhere"

tkVars == <<latest, keptToken, heldToken, fresh, refresh, other, answer, lives, mishap>>

\* readLocked
TokenLoads ==
    /\ heldToken = 0 /\ refresh = "no"
    /\ heldToken' = keptToken /\ fresh' \in BOOLEAN
    /\ UNCHANGED <<latest, keptToken, refresh, other, answer, lives, mishap>>

\* token, creds: a key that is not about to expire.
TokenServes ==
    /\ heldToken # 0 /\ fresh /\ refresh = "no"
    /\ answer' = "key"
    /\ UNCHANGED <<latest, keptToken, heldToken, fresh, refresh, other, lives, mishap>>

\* refreshLocked, up to the answer: a token that was used before is refused.
TokenRefreshes ==
    /\ heldToken # 0 /\ ~fresh /\ refresh = "no"
    /\ IF heldToken = latest
       THEN /\ latest < Rotations
            /\ latest' = latest + 1 /\ heldToken' = latest + 1
            /\ fresh' = TRUE /\ refresh' = "got"
            /\ UNCHANGED answer
       ELSE answer' = "signin" /\ UNCHANGED <<latest, heldToken, fresh, refresh>>
    /\ UNCHANGED <<keptToken, other, lives, mishap>>

\* The provider rotated the token, and its answer was lost.
AnswerLost ==
    /\ heldToken = latest /\ heldToken # 0 /\ ~fresh /\ refresh = "no" /\ latest < Rotations
    /\ latest' = latest + 1 /\ answer' = "signin" /\ mishap' = mishap \cup {"lost"}
    /\ UNCHANGED <<keptToken, heldToken, fresh, refresh, other, lives>>

\* Mutant: the rotated token is only kept in memory.
NotWritten == keptToken

\* persistLocked
Written == heldToken

TokenPersists ==
    /\ refresh = "got"
    /\ keptToken' = Written
    /\ refresh' = "no" /\ answer' = "key"
    /\ UNCHANGED <<latest, heldToken, fresh, other, lives, mishap>>

KeyExpires ==
    /\ fresh /\ refresh = "no"
    /\ fresh' = FALSE
    /\ UNCHANGED <<latest, keptToken, heldToken, refresh, other, answer, lives, mishap>>

\* The CLI does the same to the file.
CliRefreshes ==
    /\ other = 0 /\ keptToken = latest /\ latest < Rotations
    /\ latest' = latest + 1 /\ other' = latest + 1 /\ mishap' = mishap \cup {"elsewhere"}
    /\ UNCHANGED <<keptToken, heldToken, fresh, refresh, answer, lives>>

CliWrites ==
    /\ other # 0
    /\ keptToken' = other /\ other' = 0
    /\ UNCHANGED <<latest, heldToken, fresh, refresh, answer, lives, mishap>>

\* A login in the app writes the same file; the manager goes on with what it has.
SignsIn ==
    /\ latest < Rotations /\ refresh = "no" /\ other = 0
    /\ latest' = latest + 1 /\ keptToken' = latest + 1 /\ mishap' = {"elsewhere"}
    /\ UNCHANGED <<heldToken, fresh, refresh, other, answer, lives>>

\* kunai starts again; the CLI goes on.
NewManager ==
    /\ lives < Boots
    /\ lives' = lives + 1
    /\ heldToken' = 0 /\ fresh' = FALSE /\ refresh' = "no" /\ answer' = "none"
    /\ mishap' = IF refresh = "got" THEN mishap \cup {"lost"} ELSE IF other = 0 THEN mishap \ {"elsewhere"} ELSE mishap
    /\ UNCHANGED <<latest, keptToken, other>>

-----------------------------------------------------------------------------

TkInit ==
    /\ latest = 1 /\ keptToken = 1 /\ heldToken = 0 /\ fresh = FALSE /\ refresh = "no"
    /\ other = 0 /\ answer = "none" /\ lives = 0 /\ mishap = {}

TkNext ==
    \/ TokenLoads \/ TokenServes \/ TokenRefreshes \/ AnswerLost \/ TokenPersists \/ KeyExpires
    \/ CliRefreshes \/ CliWrites \/ SignsIn \/ NewManager

TkSpec == TkInit /\ [][TkNext]_tkVars

-----------------------------------------------------------------------------
(* Properties *)

TkTypeOK ==
    /\ {latest, keptToken, heldToken, other} \subseteq 0..Rotations /\ fresh \in BOOLEAN
    /\ refresh \in {"no", "got"} /\ answer \in {"none", "key", "signin"} /\ lives \in 0..Boots
    /\ mishap \subseteq {"lost", "elsewhere"}

\* "The new token MUST be written back or the next process reads the now-revoked
\* token and every session 401s": whenever no refresh is under way, and none was
\* lost between the provider and the file, a restart finds the token that works.
FileWorks == (refresh = "no" /\ other = 0 /\ "lost" \notin mishap) => keptToken = latest

\* "Sign in again" is not said of a login that only this manager refreshed,
\* through any number of refreshes and restarts.
SignInIsNeeded == answer = "signin" => mishap # {}

\* A login is not lost to its own refresh.
LoginIsKept == FileWorks /\ SignInIsNeeded
=============================================================================
