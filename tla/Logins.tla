------------------------------- MODULE Logins --------------------------------
(***************************************************************************)
(* Guarding the door: the attempts to log in to one account, which lock it *)
(* after a few wrong passwords, the limit on requests of one address, the  *)
(* log of what was tried, and the API tokens that need no login.           *)
(* What a login leads to is in Accounts.                                   *)
(***************************************************************************)
EXTENDS Naturals, FiniteSets

CONSTANTS
    Attempts,        \* attempts at once
    LockoutFailures, \* LOCKOUT_FAILURES
    MaxGuesses,      \* attempts in all
    MaxLogFailures,  \* failed writes
    TokenUsers       \* requests with the token at once

ASSUME LoginsAssumption == LockoutFailures \in Nat /\ MaxGuesses \in Nat

VARIABLES
    loginfail,   \* the counter of the account, 0 if there is no key
    attempt,     \* attempt -> where it is
    checked,     \* passwords checked since the window began or a login succeeded
    guesses,
    limited,     \* RATE_LIMITED rows of this minute
    ratelog,     \* the key that says this minute's RATE_LIMITED is logged
    token,       \* the row of the API token
    tokenRequest, \* request with the token -> where it is
    logFailures

doorVars == <<loginfail, attempt, checked, guesses, limited, ratelog>>
tokenVars == <<token, tokenRequest>>
loginsVars == <<doorVars, tokenVars, logFailures>>

Outcomes == {"LOCKED", "WRONG_PASSWORD", "DISABLED", "SUCCESS"}

LoginsInit ==
    /\ loginfail = 0 /\ checked = 0 /\ guesses = 0
    /\ attempt = [a \in Attempts |-> "idle"]
    /\ limited = 0
    /\ ratelog = FALSE
    /\ token = "none"
    /\ tokenRequest = [r \in TokenUsers |-> "idle"]
    /\ logFailures = 0

LogFails(it) ==
    /\ it => logFailures < MaxLogFailures
    /\ logFailures' = logFailures + (IF it THEN 1 ELSE 0)

Attempting(a, at) == attempt' = [attempt EXCEPT ![a] = at]

-----------------------------------------------------------------------------
(* LockoutService *)

\* Mutant: the count is read before the password is checked and raised after.
ReserveLater(n) == [granted |-> n < LockoutFailures, count |-> n]

\* One MULTI counts the attempt and sets the expiry, unless there is one.
Reserve(n) == [granted |-> n + 1 <= LockoutFailures, count |-> n + 1]

\* Fifteen minutes after the first attempt it counted.
LockoutEnds ==
    /\ loginfail > 0
    /\ loginfail' = 0 /\ checked' = 0
    /\ UNCHANGED <<attempt, guesses, limited, ratelog, tokenVars, logFailures>>

-----------------------------------------------------------------------------
(* login() *)

\* An attempt is taken before the password is looked at.
Login(a) ==
    LET r == Reserve(loginfail)
    IN  /\ attempt[a] = "idle" /\ guesses < MaxGuesses
        /\ guesses' = guesses + 1
        /\ loginfail' = r.count
        /\ Attempting(a, IF r.granted THEN "check" ELSE "LOCKED")
        /\ checked' = checked + (IF r.granted THEN 1 ELSE 0)
        /\ UNCHANGED <<limited, ratelog, tokenVars, logFailures>>

VerifyPassword(a, ok) ==
    /\ attempt[a] = "check"
    /\ Attempting(a, IF ok THEN "reset" ELSE "WRONG_PASSWORD")
    /\ UNCHANGED <<loginfail, checked, guesses, limited, ratelog, tokenVars, logFailures>>

\* The right password starts the count anew, and only it gets to know that the
\* account is disabled.
ResetLockout(a, outcome) ==
    /\ attempt[a] = "reset" /\ outcome \in {"DISABLED", "SUCCESS"}
    /\ loginfail' = 0 /\ checked' = 0
    /\ Attempting(a, outcome)
    /\ UNCHANGED <<guesses, limited, ratelog, tokenVars, logFailures>>

\* One row for the outcome, then the answer; without the row it is an error.
Record(a, fails) ==
    /\ attempt[a] \in Outcomes
    /\ LogFails(fails)
    /\ Attempting(a, "idle")
    /\ UNCHANGED <<loginfail, checked, guesses, limited, ratelog, tokenVars>>

\* Over the limit of the address: refused, and logged once a minute.
Throttle(fails) ==
    /\ guesses < MaxGuesses /\ guesses' = guesses + 1
    /\ LogFails(fails)
    /\ ratelog' = TRUE
    /\ limited' = IF ratelog \/ fails THEN limited ELSE limited + 1
    /\ UNCHANGED <<loginfail, attempt, checked, tokenVars>>

MinuteEnds ==
    /\ ratelog
    /\ ratelog' = FALSE /\ limited' = 0
    /\ UNCHANGED <<loginfail, attempt, checked, guesses, tokenVars, logFailures>>

-----------------------------------------------------------------------------
(* ApiTokensService *)

CreateToken ==
    /\ token = "none"
    /\ token' = "live"
    /\ UNCHANGED <<doorVars, tokenRequest, logFailures>>

RevokeToken ==
    /\ token = "live"
    /\ token' = "revoked"
    /\ UNCHANGED <<doorVars, tokenRequest, logFailures>>

\* A tokenRequest is there before the row is read; "late" if the token was revoked.
Arrives(r) ==
    /\ tokenRequest[r] = "idle"
    /\ tokenRequest' = [tokenRequest EXCEPT ![r] = IF token = "revoked" THEN "late" ELSE "arrived"]
    /\ UNCHANGED <<doorVars, token, logFailures>>

\* Mutant: a token is known by its hash, revoked or not.
KnownToken(row) == row # "none"

UsableToken(row) == row = "live"

\* When it was used last is written at most once a minute; a failure is logged.
ResolveToken(r) ==
    /\ tokenRequest[r] \in {"arrived", "late"}
    /\ tokenRequest' = [tokenRequest EXCEPT ![r] = IF ~UsableToken(token) THEN "idle"
                                         ELSE IF @ = "late" THEN "acts_late" ELSE "acts"]
    /\ UNCHANGED <<doorVars, token, logFailures>>

Responds(r) ==
    /\ tokenRequest[r] \in {"acts", "acts_late"}
    /\ tokenRequest' = [tokenRequest EXCEPT ![r] = "idle"]
    /\ UNCHANGED <<doorVars, token, logFailures>>

-----------------------------------------------------------------------------
LoginsNext ==
    \/ \E a \in Attempts :
          \/ Login(a)
          \/ \E ok \in BOOLEAN : VerifyPassword(a, ok) \/ Record(a, ok)
          \/ \E outcome \in Outcomes : ResetLockout(a, outcome)
    \/ LockoutEnds \/ MinuteEnds
    \/ \E fails \in BOOLEAN : Throttle(fails)
    \/ CreateToken \/ RevokeToken
    \/ \E r \in TokenUsers : Arrives(r) \/ ResolveToken(r) \/ Responds(r)

-----------------------------------------------------------------------------
(* Properties *)

LoginsTypeOK ==
    /\ loginfail \in Nat /\ checked \in Nat /\ guesses \in 0 .. MaxGuesses
    /\ attempt \in [Attempts -> Outcomes \cup {"idle", "check", "reset"}]
    /\ limited \in Nat /\ ratelog \in BOOLEAN
    /\ token \in {"none", "live", "revoked"}
    /\ tokenRequest \in [TokenUsers -> {"idle", "arrived", "late", "acts", "acts_late"}]

\* However many attempts run at once, no more passwords than the limit are
\* looked at in one window, unless one was right; a flood of requests leaves
\* one row a minute.
GuessesBounded == checked <= LockoutFailures /\ limited <= 1

\* A request that came after its token was revoked never acts.
RevokedIsRefused == \A r \in TokenUsers : tokenRequest[r] # "acts_late"

=============================================================================
