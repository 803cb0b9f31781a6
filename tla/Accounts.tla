------------------------------ MODULE Accounts -------------------------------
(***************************************************************************)
(* Users, their sessions in Redis, and the sockets of the live gateway.    *)
(* A request is cut where it awaits: reading the row, the row locks of the *)
(* transaction, the commit, the end of the sessions, and the event that    *)
(* closes sockets.  The gateway's recheck is the net under a lost event.   *)
(*                                                                         *)
(* A session holds the version of the password it was opened with, which   *)
(* Redis does not: it is there to state the properties.                    *)
(***************************************************************************)
EXTENDS Naturals, FiniteSets

CONSTANTS
    Users, Sessions,
    Callers,     \* the requests that run at once
    FirstSuperadmins,
    MaxAccountCalls, MaxAccountTrouble

ASSUME AccountsAssumption == IsFiniteSet(Users) /\ "nobody" \notin Callers

VARIABLES
    user,        \* user -> its row
    lock,        \* the transaction that locked rows FOR UPDATE, and which
    session,     \* session -> its user, while it is in Redis
    socket,      \* session -> its socket
    call,        \* request -> where it is
    recheck,     \* the gateway's recheck
    accountCalls, accountTrouble

accountBounds == <<accountCalls, accountTrouble>>
accountsVars == <<user, lock, session, socket, call, recheck, accountBounds>>

Roles == {"MANAGER", "SUPERADMIN"}
Free == [by |-> "nobody", rows |-> {}]
NoSession == [user |-> "nobody", password |-> 0, outlived |-> FALSE]
NoSocket == [at |-> "closed", user |-> "nobody", role |-> "MANAGER"]
Done == [at |-> "idle"]
IdleRecheck == [at |-> "idle", listed |-> {}, found |-> {}, bad |-> {}]

Live(s) == session[s] # NoSession
ActiveSuperadmins == {u \in Users : user[u].active /\ user[u].role = "SUPERADMIN"}

Open == {s \in Sessions : socket[s].at = "open"}

\* Its user is disabled or has another role.
Outdated(s) == ~user[socket[s].user].active \/ user[socket[s].user].role # socket[s].role

AccountsInit ==
    /\ user = [u \in Users |->
                  [role |-> IF u \in FirstSuperadmins THEN "SUPERADMIN" ELSE "MANAGER",
                   active |-> TRUE, password |-> 0]]
    /\ lock = Free
    /\ session = [s \in Sessions |-> NoSession]
    /\ socket = [s \in Sessions |-> NoSocket]
    /\ call = [r \in Callers |-> Done]
    /\ recheck = IdleRecheck
    /\ accountCalls = 0 /\ accountTrouble = 0

Mishap(fails) ==
    /\ fails => accountTrouble < MaxAccountTrouble
    /\ accountTrouble' = accountTrouble + (IF fails THEN 1 ELSE 0)

\* Callers are alike: any that is idle may stand for the next request.
Calling(r) ==
    /\ call[r] = Done /\ r = CHOOSE idle \in Callers : call[idle] = Done
    /\ accountCalls < MaxAccountCalls
    /\ accountCalls' = accountCalls + 1

CallAt(r, next) == call' = [call EXCEPT ![r] = next]

\* Sockets that joined their rooms are closed; one that is joining is not reached.
SocketsClosed(ended) ==
    socket' = [s \in Sessions |-> IF s \in ended /\ socket[s].at = "open" THEN NoSocket
                                  ELSE socket[s]]

\* Whom an access event is about: a user's sockets, of some sessions, but one.
Event(u, only, keep) == [at |-> "tell", user |-> u, only |-> only, keep |-> keep]

\* A change of a row makes what a recheck had found of its sockets old.
Touches(u) ==
    recheck' = [recheck EXCEPT !.bad = {s \in @ : socket[s].user # u}]

-----------------------------------------------------------------------------
(* Sessions and sockets *)

\* The id of a new session is one that nobody has, whichever it is.
NewSession(s) ==
    /\ ~Live(s) /\ socket[s].at = "closed"
    /\ \A q \in Callers : call[q].at = "login" => call[q].session # s

\* login() reads the user and checks the password ...
LoginReads(r, u, s) ==
    /\ NewSession(s) /\ s = CHOOSE new \in Sessions : NewSession(new)
    /\ user[u].active
    /\ Calling(r)
    /\ CallAt(r, [at |-> "login", user |-> u, session |-> s, password |-> user[u].password])
    /\ UNCHANGED <<user, lock, session, socket, recheck, accountTrouble>>

\* ... and starts the session.
LoginCreates(r) ==
    LET u == call[r].user
    IN  /\ call[r].at = "login"
        /\ session' = [session EXCEPT ![call[r].session] =
                          [user |-> u, password |-> call[r].password,
                           outlived |-> call[r].password # user[u].password]]
        /\ CallAt(r, Done)
        /\ UNCHANGED <<user, lock, socket, recheck, accountBounds>>

\* Idle for 12 hours, or 7 days old.
SessionExpires(s) ==
    /\ Live(s)
    /\ session' = [session EXCEPT ![s] = NoSession]
    /\ UNCHANGED <<user, lock, socket, call, recheck, accountBounds>>

Logout(r, s) ==
    /\ Live(s)
    /\ Calling(r) /\ CallAt(r, Event(session[s].user, {s}, {}))
    /\ session' = [session EXCEPT ![s] = NoSession]
    /\ UNCHANGED <<user, lock, socket, recheck, accountTrouble>>

\* Any request with the session of a disabled user ends it.
ResolveWithSession(s) ==
    /\ Live(s) /\ ~user[session[s].user].active
    /\ session' = [session EXCEPT ![s] = NoSession]
    /\ SocketsClosed({s})
    /\ UNCHANGED <<user, lock, call, recheck, accountBounds>>

\* The handshake reads session and user; the socket joins its rooms later.
AuthorizeHandshake(s) ==
    /\ Live(s) /\ socket[s].at = "closed" /\ user[session[s].user].active
    /\ socket' = [socket EXCEPT ![s] = [at |-> "joining", user |-> session[s].user,
                                        role |-> user[session[s].user].role]]
    /\ recheck' = [recheck EXCEPT !.listed = @ \ {s}, !.bad = @ \ {s}]
    /\ UNCHANGED <<user, lock, session, call, accountBounds>>

HandleConnection(s) ==
    /\ socket[s].at = "joining"
    /\ socket' = [socket EXCEPT ![s].at = "open"]
    /\ UNCHANGED <<user, lock, session, call, recheck, accountBounds>>

-----------------------------------------------------------------------------
(* Requests that change a user *)

ChangePassword(r, s) ==
    /\ Live(s)
    /\ Calling(r)
    /\ CallAt(r, [at |-> "write", user |-> session[s].user, keep |-> {s}, stops |-> FALSE,
                 set |-> "password"])
    /\ UNCHANGED <<user, lock, session, socket, recheck, accountTrouble>>

\* A change that stops the row, as read, from being an active superadmin must
\* count the others.
UpdateReads(r, actor, u, set) ==
    LET super == user[u].role = "SUPERADMIN"
    IN  /\ user[actor].active
        /\ super \/ set = "SUPERADMIN" => user[actor].role = "SUPERADMIN"
        /\ Calling(r)
        /\ CallAt(r, [at |-> IF super /\ user[u].active /\ set \in {"disabled", "MANAGER"}
                            THEN "lock" ELSE "write",
                     user |-> u, keep |-> {}, set |-> set,
                     stops |-> super /\ user[u].active /\ set \in {"disabled", "MANAGER"}])
        /\ UNCHANGED <<user, lock, session, socket, recheck, accountTrouble>>

\* A count without the row locks.
CountsOnly(r) ==
    /\ call[r].at = "lock"
    /\ IF Cardinality(ActiveSuperadmins) <= 1 THEN CallAt(r, Done)
       ELSE CallAt(r, [call[r] EXCEPT !.at = "write"])
    /\ UNCHANGED <<user, lock, session, socket, recheck, accountBounds>>

\* SELECT ... FOR UPDATE: waits for the transaction that holds the rows.
UpdateLocks(r) ==
    /\ call[r].at = "lock" /\ lock = Free
    /\ IF Cardinality(ActiveSuperadmins) <= 1 THEN CallAt(r, Done) /\ UNCHANGED lock
       ELSE /\ CallAt(r, [call[r] EXCEPT !.at = "write"])
            /\ lock' = [by |-> r, rows |-> ActiveSuperadmins]
    /\ UNCHANGED <<user, session, socket, recheck, accountBounds>>

Changed(row, set) ==
    CASE set = "disabled" -> [row EXCEPT !.active = FALSE]
      [] set = "password" -> [row EXCEPT !.password = @ + 1]
      [] OTHER            -> [row EXCEPT !.role = set]

\* The update waits for a lock on its row, and commits.
UpdateWrites(r) ==
    LET u == call[r].user
        set == call[r].set
    IN  /\ call[r].at = "write"
        /\ lock.by = r \/ u \notin lock.rows
        /\ user' = [user EXCEPT ![u] = Changed(@, set)]
        /\ lock' = IF lock.by = r THEN Free ELSE lock
        /\ CallAt(r, CASE set \in {"disabled", "password"} -> [call[r] EXCEPT !.at = "revoke"]
                      [] set \in Roles /\ user'[u] # user[u] -> Event(u, Sessions, {})
                      [] OTHER -> Done)
        /\ Touches(u)
        /\ UNCHANGED <<session, socket, accountBounds>>

\* The sessions of the user, but the caller's own.
Revoked(r) == {s \in Sessions : Live(s) /\ session[s].user = call[r].user} \ call[r].keep

\* revokeAllForUser.  When Redis fails, before or after it ended the sessions,
\* the request fails and nobody is told.
RevokeAllForUser(r, outcome) ==
    /\ call[r].at = "revoke"
    /\ Mishap(outcome # "ok")
    /\ session' = [s \in Sessions |->
                      IF s \in Revoked(r) /\ outcome # "refused" THEN NoSession
                      ELSE IF s \in Revoked(r) \cup call[r].keep /\ Live(s)
                      THEN [session[s] EXCEPT !.outlived = TRUE] ELSE session[s]]
    /\ CallAt(r, IF outcome = "ok" THEN Event(call[r].user, Sessions, call[r].keep)
                ELSE Done)
    /\ UNCHANGED <<user, lock, socket, recheck, accountCalls>>

\* The access event reaches the gateway.
Tell(r) ==
    /\ call[r].at = "tell"
    /\ SocketsClosed({s \in call[r].only \ call[r].keep : socket[s].user = call[r].user})
    /\ CallAt(r, Done)
    /\ UNCHANGED <<user, lock, session, recheck, accountBounds>>

-----------------------------------------------------------------------------
(* The recheck, every 60 s *)

RecheckLists ==
    /\ recheck.at = "idle" /\ Open # {}
    /\ recheck' = [at |-> "users", listed |-> Open, found |-> {},
                   bad |-> {s \in Open : ~Live(s) \/ Outdated(s)}]
    /\ UNCHANGED <<user, lock, session, socket, call, accountBounds>>

\* The rows of their users.
RecheckReads(fails) ==
    /\ recheck.at = "users"
    /\ Mishap(fails)
    /\ recheck' = IF fails THEN IdleRecheck
                  ELSE [recheck EXCEPT !.at = "sockets",
                                       !.found = {s \in recheck.listed \cap Open : Outdated(s)}]
    /\ UNCHANGED <<user, lock, session, socket, call, accountCalls>>

\* Only the sessions are looked at.
RecheckSession(s) == ~Live(s)

\* The session as it is by now, the user as read.
RecheckEnds(s) == ~Live(s) \/ s \in recheck.found

RecheckSocket(s, fails) ==
    /\ recheck.at = "sockets" /\ s \in recheck.listed
    /\ Mishap(fails)
    /\ IF fails THEN recheck' = IdleRecheck /\ UNCHANGED socket
       ELSE /\ recheck' = [recheck EXCEPT !.listed = @ \ {s}]
            /\ SocketsClosed(IF RecheckEnds(s) THEN {s} ELSE {})
    /\ UNCHANGED <<user, lock, session, call, accountCalls>>

\* Nothing but its flag is left of a recheck that is over.
RecheckOver ==
    /\ recheck.at = "sockets" /\ recheck.listed = {}
    /\ recheck' = IdleRecheck
    /\ UNCHANGED <<user, lock, session, socket, call, accountBounds>>

-----------------------------------------------------------------------------

AccountRequest(r) ==
    \/ \E u \in Users, s \in Sessions : LoginReads(r, u, s)
    \/ \E s \in Sessions : Logout(r, s) \/ ChangePassword(r, s)
    \/ \E actor, u \in Users, set \in Roles \cup {"disabled", "password"} :
          UpdateReads(r, actor, u, set)
    \/ LoginCreates(r) \/ UpdateLocks(r) \/ UpdateWrites(r) \/ Tell(r)
    \/ \E outcome \in {"ok", "refused", "lost"} : RevokeAllForUser(r, outcome)

SocketStep(s) ==
    \/ SessionExpires(s) \/ ResolveWithSession(s)
    \/ AuthorizeHandshake(s) \/ HandleConnection(s)

Recheck ==
    \/ RecheckLists \/ RecheckOver
    \/ \E fails \in BOOLEAN :
          RecheckReads(fails) \/ \E s \in Sessions : RecheckSocket(s, fails)

AccountsNext ==
    \/ \E r \in Callers : AccountRequest(r)
    \/ \E s \in Sessions : SocketStep(s)
    \/ Recheck

AccountsSpec == AccountsInit /\ [][AccountsNext]_accountsVars

-----------------------------------------------------------------------------
(* Properties *)

AccountsTypeOK ==
    /\ user \in [Users -> [role : Roles, active : BOOLEAN, password : Nat]]
    /\ \A s \in Sessions : session[s].user \in Users \cup {"nobody"}
    /\ \A s \in Sessions : socket[s].at \in {"closed", "joining", "open"}
    /\ lock.rows \subseteq Users

\* The last active superadmin is not disabled or demoted, whatever requests run
\* at once; but for a change that was checked while its user was none yet.
LastSuperadminStays ==
    [][ActiveSuperadmins # {} /\ ActiveSuperadmins' = {}
        => \E r \in Callers : call[r].at = "write" /\ ~call[r].stops
                                /\ call'[r].at # "write"]_accountsVars

\* A new password ends the sessions opened with the old one, except the
\* caller's own, a login under way and what a failing Redis left; and a full
\* recheck closes the sockets that had to end when it began.
AccessEnds ==
    /\ \A s \in Sessions :
          Live(s) =>
            \/ session[s].password = user[session[s].user].password
            \/ session[s].outlived
            \/ \E r \in Callers : call[r].at = "revoke" /\ call[r].user = session[s].user
    /\ recheck.at = "sockets" /\ recheck.listed = {} =>
          \A s \in recheck.bad : socket[s].at # "open"

=============================================================================
