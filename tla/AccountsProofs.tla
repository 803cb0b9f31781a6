---------------------------- MODULE AccountsProofs ---------------------------
(***************************************************************************)
(* Proof that the last active superadmin stays, whichever requests change  *)
(* users at the same time; and the invariant by which a new password ends  *)
(* sessions and a recheck ends sockets (ApiProofs has the theorem).        *)
(***************************************************************************)
EXTENDS Accounts, FiniteSetTheorems, TLAPS

\* Rows and requests are records by their name.
Shapes ==
    /\ DOMAIN user = Users
    /\ DOMAIN call = Callers
    /\ \A r \in Callers : "at" \in DOMAIN call[r]

\* The rows that are locked are still what the count found: active superadmins.
LockedStay == lock.rows \subseteq ActiveSuperadmins

\* A change that was counted holds the rows, of two superadmins at least.
CountedHolds ==
    \A r \in Callers :
        call[r].at = "write" /\ call[r].stops =>
            /\ lock.by = r
            /\ \E u, v \in lock.rows : u # v

IInv == Shapes /\ LockedStay /\ CountedHolds

\* The action of LastSuperadminStays.
Stays ==
    ActiveSuperadmins # {} /\ ActiveSuperadmins' = {}
        => \E r \in Callers : call[r].at = "write" /\ ~call[r].stops
                                /\ call'[r].at # "write"

-----------------------------------------------------------------------------

LEMMA InitHolds == AccountsInit => IInv
<1> SUFFICES ASSUME AccountsInit PROVE IInv
  OBVIOUS
<1>1. \A r \in Callers : call[r].at = "idle" /\ "at" \in DOMAIN call[r]
  BY DEF AccountsInit, Done
<1>2. lock.rows = {}
  BY DEF AccountsInit, Free
<1> QED  BY <1>1, <1>2 DEF AccountsInit, IInv, Shapes, LockedStay, CountedHolds

\* A set with more than one element has two.
LEMMA MoreThanOne ==
    ASSUME NEW S, IsFiniteSet(S), ~(Cardinality(S) <= 1)
    PROVE  \E u, v \in S : u # v
<1>1. Cardinality({}) = 0
  BY FS_EmptySet
<1>2. PICK u \in S : TRUE
  BY <1>1
<1>3. S # {u}
  BY FS_Singleton
<1> QED  BY <1>2, <1>3

\* A step that leaves users and locks alone, and one request that is not at a
\* counted change afterwards.
LEMMA CallMoves ==
    ASSUME IInv, NEW r \in Callers, NEW next, CallAt(r, next),
           UNCHANGED <<user, lock>>,
           "at" \in DOMAIN next, next.at = "write" => ~next.stops
    PROVE  IInv' /\ Stays
<1>1. /\ DOMAIN call' = Callers /\ call'[r] = next
      /\ \A q \in Callers \ {r} : call'[q] = call[q]
  BY DEF IInv, Shapes, CallAt
<1>2. ActiveSuperadmins' = ActiveSuperadmins
  BY DEF ActiveSuperadmins
<1> QED  BY <1>1, <1>2 DEF IInv, Shapes, LockedStay, CountedHolds, Stays

\* A step that touches neither users nor requests.
LEMMA OthersStep ==
    ASSUME IInv, UNCHANGED <<user, lock, call>>
    PROVE  IInv' /\ Stays
<1>1. ActiveSuperadmins' = ActiveSuperadmins
  BY DEF ActiveSuperadmins
<1> QED  BY <1>1 DEF IInv, Shapes, LockedStay, CountedHolds, Stays

LEMMA LocksStep ==
    ASSUME IInv, NEW r \in Callers, UpdateLocks(r)
    PROVE  IInv' /\ Stays
<1>1. CASE CallAt(r, Done) /\ UNCHANGED lock
  BY <1>1, CallMoves DEF UpdateLocks, Done
<1>2. CASE /\ CallAt(r, [call[r] EXCEPT !.at = "write"])
           /\ lock' = [by |-> r, rows |-> ActiveSuperadmins]
           /\ ~(Cardinality(ActiveSuperadmins) <= 1)
  <2>1. /\ DOMAIN call' = Callers /\ "at" \in DOMAIN call'[r]
        /\ \A q \in Callers \ {r} : call'[q] = call[q]
    BY <1>2 DEF IInv, Shapes, CallAt
  <2>2. user' = user /\ ActiveSuperadmins' = ActiveSuperadmins
    BY DEF UpdateLocks, ActiveSuperadmins
  <2>3. lock'.by = r /\ lock'.rows = ActiveSuperadmins
    BY <1>2
  <2>4. \E u, v \in ActiveSuperadmins : u # v
    <3>1. IsFiniteSet(ActiveSuperadmins)
      BY AccountsAssumption, FS_Subset DEF ActiveSuperadmins
    <3> QED  BY <1>2, <3>1, MoreThanOne
  <2>5. \A q \in Callers : lock.by # q
    BY AccountsAssumption DEF UpdateLocks, Free
  <2>6. CountedHolds'
    BY <2>1, <2>3, <2>4, <2>5 DEF IInv, CountedHolds
  <2> QED  BY <2>1, <2>2, <2>3, <2>6 DEF IInv, Shapes, LockedStay, Stays
<1> QED  BY <1>1, <1>2 DEF UpdateLocks

LEMMA WritesStep ==
    ASSUME IInv, NEW r \in Callers, UpdateWrites(r)
    PROVE  IInv' /\ Stays
<1> DEFINE u == call[r].user
<1>1. call[r].at = "write" /\ (lock.by = r \/ u \notin lock.rows)
  BY DEF UpdateWrites
<1>2. /\ DOMAIN user' = Users
      /\ \A v \in Users \ {u} : user'[v] = user[v]
  BY DEF UpdateWrites, IInv, Shapes
<1>3. /\ DOMAIN call' = Callers /\ "at" \in DOMAIN call'[r] /\ call'[r].at # "write"
      /\ \A q \in Callers \ {r} : call'[q] = call[q]
  <2>1. PICK next : /\ CallAt(r, next)
                    /\ next \in {[call[r] EXCEPT !.at = "revoke"], Event(u, Sessions, {}), Done}
    BY DEF UpdateWrites
  <2>2. "at" \in DOMAIN next /\ next.at # "write"
    BY <2>1 DEF IInv, Shapes, Event, Done
  <2> QED  BY <2>1, <2>2 DEF CallAt, IInv, Shapes
<1>4. \A v \in ActiveSuperadmins \ {u} : v \in ActiveSuperadmins'
  BY <1>2 DEF ActiveSuperadmins
<1>5. Shapes'
  BY <1>2, <1>3 DEF IInv, Shapes
<1>6. CASE lock.by = r
  <2>1. lock'.rows = {} /\ lock'.by = "nobody"
    BY <1>6 DEF UpdateWrites, Free
  <2>2. \A q \in Callers \ {r} : ~(call[q].at = "write" /\ call[q].stops)
    BY <1>6 DEF IInv, CountedHolds
  <2>3. LockedStay' /\ CountedHolds'
    BY <1>3, <2>1, <2>2 DEF LockedStay, CountedHolds
  <2>4. CASE call[r].stops
    <3>1. \E v \in lock.rows : v # u
      BY <1>1, <2>4 DEF IInv, CountedHolds
    <3>2. ActiveSuperadmins' # {}
      BY <1>4, <3>1 DEF IInv, LockedStay
    <3> QED  BY <1>5, <2>3, <3>2 DEF IInv, Stays
  <2>5. CASE ~call[r].stops
    BY <1>1, <1>3, <1>5, <2>3, <2>5 DEF IInv, Stays
  <2> QED  BY <2>4, <2>5
<1>7. CASE lock.by # r
  <2>1. lock' = lock /\ u \notin lock.rows /\ ~call[r].stops
    BY <1>1, <1>7 DEF UpdateWrites, IInv, CountedHolds
  <2>2. LockedStay'
    BY <1>4, <2>1 DEF IInv, LockedStay
  <2>3. CountedHolds'
    BY <1>3, <2>1 DEF IInv, CountedHolds
  <2> QED  BY <1>1, <1>3, <1>5, <2>1, <2>2, <2>3 DEF IInv, Stays
<1> QED  BY <1>6, <1>7

LEMMA RequestStep ==
    ASSUME IInv, NEW r \in Callers, AccountRequest(r)
    PROVE  IInv' /\ Stays
<1>1. ASSUME NEW u \in Users, NEW s \in Sessions, LoginReads(r, u, s)
      PROVE  IInv' /\ Stays
  BY <1>1, CallMoves DEF LoginReads
<1>2. ASSUME NEW s \in Sessions, Logout(r, s)
      PROVE  IInv' /\ Stays
  BY <1>2, CallMoves DEF Logout, Event
<1>3. ASSUME NEW s \in Sessions, ChangePassword(r, s)
      PROVE  IInv' /\ Stays
  BY <1>3, CallMoves DEF ChangePassword
<1>4. ASSUME NEW actor \in Users, NEW u \in Users, NEW set, UpdateReads(r, actor, u, set)
      PROVE  IInv' /\ Stays
  <2> DEFINE stops == user[u].role = "SUPERADMIN" /\ user[u].active /\ set \in {"disabled", "MANAGER"}
             next == [at |-> IF stops THEN "lock" ELSE "write",
                      user |-> u, keep |-> {}, set |-> set, stops |-> stops]
  <2>1. CallAt(r, next) /\ UNCHANGED <<user, lock>>
    BY <1>4 DEF UpdateReads
  <2>2. "at" \in DOMAIN next /\ (next.at = "write" => ~next.stops)
    BY Zenon
  <2> HIDE DEF next
  <2> QED  BY <2>1, <2>2, CallMoves
<1>5. CASE LoginCreates(r)
  BY <1>5, CallMoves DEF LoginCreates, Done
<1>6. CASE Tell(r)
  BY <1>6, CallMoves DEF Tell, Done
<1>7. ASSUME NEW outcome, RevokeAllForUser(r, outcome)
      PROVE  IInv' /\ Stays
  <2>1. PICK next : /\ CallAt(r, next) /\ UNCHANGED <<user, lock>>
                    /\ next \in {Event(call[r].user, Sessions, call[r].keep), Done}
    BY <1>7 DEF RevokeAllForUser
  <2> QED  BY <2>1, CallMoves DEF Event, Done
<1> QED
  BY <1>1, <1>2, <1>3, <1>4, <1>5, <1>6, <1>7, LocksStep, WritesStep DEF AccountRequest

LEMMA NextStep ==
    ASSUME IInv, [AccountsNext]_accountsVars
    PROVE  IInv' /\ Stays
<1>1. ASSUME NEW s \in Sessions, SocketStep(s)
      PROVE  IInv' /\ Stays
  BY <1>1, OthersStep
     DEF SocketStep, SessionExpires, ResolveWithSession, AuthorizeHandshake, HandleConnection
<1>2. CASE Recheck
  BY <1>2, OthersStep DEF Recheck, RecheckLists, RecheckOver, RecheckReads, RecheckSocket
<1>3. CASE UNCHANGED accountsVars
  BY <1>3, OthersStep DEF accountsVars
<1> QED  BY <1>1, <1>2, <1>3, RequestStep DEF AccountsNext

\* The last active superadmin is not disabled or demoted, but by a change that
\* was checked when its user was none, for any number of users and requests at
\* the same time (users/users.service.ts:90).
THEOREM LastSuperadminIsKept == AccountsSpec => LastSuperadminStays
<1>1. IInv /\ [AccountsNext]_accountsVars => IInv'
  BY NextStep
<1>2. IInv /\ [AccountsNext]_accountsVars => [Stays]_accountsVars
  BY NextStep
<1>3. AccountsSpec => [][Stays]_accountsVars
  BY InitHolds, <1>1, <1>2, PTL DEF AccountsSpec
<1> QED  BY <1>3 DEF LastSuperadminStays, Stays

-----------------------------------------------------------------------------
(* Access ends.                                                            *)

Sets == Roles \cup {"disabled", "password"}

\* What a request is about, at each place it can be.
Calls ==
    {Done}
    \cup [at : {"login"}, user : Users, session : Sessions, password : Nat]
    \cup [at : {"lock", "write", "revoke"}, user : Users, keep : SUBSET Sessions,
          set : Sets, stops : BOOLEAN]
    \cup [at : {"tell"}, user : Users, only : SUBSET Sessions,
          keep : SUBSET Sessions]

AccountRecords ==
    /\ user \in [Users -> [role : Roles, active : BOOLEAN, password : Nat]]
    /\ session \in [Sessions -> [user : Users \cup {"nobody"}, password : Nat,
                                 outlived : BOOLEAN]]
    /\ \A s \in Sessions : Live(s) => session[s].user \in Users
    /\ socket \in [Sessions -> [at : {"closed", "joining", "open"},
                                user : Users \cup {"nobody"}, role : Roles]]
    /\ \A s \in Sessions : socket[s].at # "closed" => socket[s].user \in Users
    /\ call \in [Callers -> Calls]
    /\ recheck \in [at : {"idle", "users", "sockets"}, listed : SUBSET Sessions,
                    found : SUBSET Sessions, bad : SUBSET Sessions]
    /\ lock.rows \subseteq Users

Revoking(u) == \E r \in Callers : call[r].at = "revoke" /\ call[r].user = u

\* Sessions of an old password are excused or about to end.
SessionsMatch ==
    \A s \in Sessions : Live(s) =>
        \/ session[s].password = user[session[s].user].password
        \/ session[s].outlived
        \/ Revoking(session[s].user)

\* The session a login is about to start is of nobody else, and has no socket.
LoginsApart ==
    \A r \in Callers : call[r].at = "login" =>
        /\ ~Live(call[r].session) /\ socket[call[r].session].at = "closed"
        /\ \A q \in Callers \ {r} :
             call[q].at = "login" => call[q].session # call[r].session

\* A socket that had to end when the recheck began is closed by now, or still
\* in its list with the reason to close it.
BadAreListed ==
    \A s \in recheck.bad :
        /\ socket[s].at # "joining"
        /\ recheck.at \in {"users", "sockets"} /\ socket[s].at = "open" =>
             /\ s \in recheck.listed
             /\ ~Live(s) \/ (IF recheck.at = "users" THEN Outdated(s)
                                                     ELSE s \in recheck.found)

AccessInv == AccountRecords /\ SessionsMatch /\ LoginsApart /\ BadAreListed

LEMMA AccessInit == AccountsInit => AccessInv
<1> SUFFICES ASSUME AccountsInit PROVE AccessInv
  OBVIOUS
<1> USE DEF AccountsInit
<1>1. AccountRecords
  <2>1. user \in [Users -> [role : Roles, active : BOOLEAN, password : Nat]]
    BY DEF Roles
  <2>2. session \in [Sessions -> [user : Users \cup {"nobody"}, password : Nat,
                                  outlived : BOOLEAN]]
    BY DEF NoSession
  <2>3. socket \in [Sessions -> [at : {"closed", "joining", "open"},
                                 user : Users \cup {"nobody"}, role : Roles]]
    BY DEF NoSocket, Roles
  <2>4. call \in [Callers -> Calls] /\ lock.rows \subseteq Users
    BY DEF Calls, Free
  <2>5. recheck \in [at : {"idle", "users", "sockets"}, listed : SUBSET Sessions,
                     found : SUBSET Sessions, bad : SUBSET Sessions]
    BY DEF IdleRecheck
  <2> QED BY <2>1, <2>2, <2>3, <2>4, <2>5 DEF AccountRecords, Live, NoSocket
<1>2. SessionsMatch /\ LoginsApart /\ BadAreListed
  BY DEF SessionsMatch, Live, LoginsApart, Done, BadAreListed, IdleRecheck
<1> QED BY <1>1, <1>2 DEF AccessInv

\* A request that goes on without touching a session, a user or a socket, to a
\* place where it is about neither a login nor what it was about to revoke.
LEMMA CallGoesOn ==
    ASSUME AccessInv, NEW r \in Callers, NEW next \in Calls, CallAt(r, next),
           call[r].at # "revoke", next.at # "login",
           UNCHANGED <<user, session, socket, recheck>>, lock'.rows \subseteq Users
    PROVE  AccessInv'
<1>1. /\ call'[r] = next /\ \A q \in Callers \ {r} : call'[q] = call[q]
      /\ call' \in [Callers -> Calls]
  BY DEF CallAt, AccessInv, AccountRecords
<1>2. AccountRecords'
  BY <1>1 DEF AccessInv, AccountRecords, Live
<1>3. SessionsMatch'
  BY <1>1 DEF AccessInv, SessionsMatch, Revoking, Live
<1>4. LoginsApart'
  BY <1>1 DEF AccessInv, LoginsApart, Live
<1>5. BadAreListed'
  BY DEF AccessInv, BadAreListed, Live, Outdated
<1> QED BY <1>2, <1>3, <1>4, <1>5 DEF AccessInv

\* What may happen to a session and a socket, but for a login and a handshake:
\* they end, or the socket that was joining is open.
Ends(s) == session' = [session EXCEPT ![s] = NoSession]

LEMMA SessionEnds ==
    ASSUME AccessInv, NEW s \in Sessions, Ends(s), UNCHANGED <<user, recheck>>,
           lock' = lock,
           call' = call \/ \E r \in Callers, next \in Calls :
              CallAt(r, next) /\ call[r].at # "revoke" /\ next.at # "login",
           SocketsClosed({s}) \/ socket' = socket
    PROVE  AccessInv'
<1>1. /\ session'[s] = NoSession
      /\ \A q \in Sessions \ {s} : session'[q] = session[q]
      /\ session' \in [Sessions -> [user : Users \cup {"nobody"}, password : Nat,
                                    outlived : BOOLEAN]]
  <2>1. NoSession \in [user : Users \cup {"nobody"}, password : Nat,
                       outlived : BOOLEAN]
    BY DEF NoSession
  <2> QED BY <2>1 DEF AccessInv, AccountRecords, Ends
<1>2. \A q \in Sessions : Live(q)' => Live(q) /\ session'[q] = session[q]
  BY <1>1 DEF Live
<1>3. /\ call' \in [Callers -> Calls]
      /\ \A r \in Callers : call[r].at = "revoke" => call'[r] = call[r]
      /\ \A r \in Callers : call'[r].at = "login" => call'[r] = call[r]
  BY DEF CallAt, AccessInv, AccountRecords
<1>4. /\ \A q \in Sessions : socket'[q] \in {socket[q], NoSocket}
      /\ socket' \in [Sessions -> [at : {"closed", "joining", "open"},
                                   user : Users \cup {"nobody"}, role : Roles]]
  <2>1. NoSocket \in [at : {"closed", "joining", "open"},
                      user : Users \cup {"nobody"}, role : Roles]
    BY DEF NoSocket, Roles
  <2> QED BY <2>1 DEF SocketsClosed, AccessInv, AccountRecords
<1>5. AccountRecords'
  BY <1>1, <1>2, <1>3, <1>4 DEF AccessInv, AccountRecords, NoSocket
<1>6. SessionsMatch'
  BY <1>2, <1>3 DEF AccessInv, SessionsMatch, Revoking
<1>7. LoginsApart'
  <2>1. \A r \in Callers : call[r].at = "login" => call[r].session \in Sessions
    BY DEF AccessInv, AccountRecords, Calls, Done
  <2> QED
    BY <1>2, <1>3, <1>4, <2>1 DEF AccessInv, LoginsApart, NoSocket
<1>8. BadAreListed'
  BY <1>2, <1>4 DEF AccessInv, AccountRecords, BadAreListed, NoSocket, Outdated
<1> QED BY <1>5, <1>6, <1>7, <1>8 DEF AccessInv

LEMMA CallTypes ==
    ASSUME AccessInv, NEW r \in Callers
    PROVE  /\ call[r] \in Calls
           /\ call[r].at = "login" =>
                /\ call[r].user \in Users /\ call[r].session \in Sessions
                /\ call[r].password \in Nat
           /\ call[r].at \in {"lock", "write", "revoke"} =>
                /\ call[r].user \in Users /\ call[r].keep \subseteq Sessions
                /\ call[r].set \in Sets /\ call[r].stops \in BOOLEAN
                /\ call[r] = [at |-> call[r].at, user |-> call[r].user,
                              keep |-> call[r].keep, set |-> call[r].set,
                              stops |-> call[r].stops]
  BY DEF AccessInv, AccountRecords, Calls, Done

LEMMA EventType ==
    ASSUME NEW u \in Users, NEW only \in SUBSET Sessions, NEW keep \in SUBSET Sessions
    PROVE  /\ Event(u, only, keep) \in Calls /\ Event(u, only, keep).at = "tell"
           /\ Done \in Calls /\ Done.at = "idle"
  BY DEF Event, Calls, Done

LEMMA LoginReadsInv ==
    ASSUME AccessInv, NEW r \in Callers, NEW u \in Users, NEW s \in Sessions,
           LoginReads(r, u, s)
    PROVE  AccessInv'
<1> DEFINE next == [at |-> "login", user |-> u, session |-> s,
                    password |-> user[u].password]
<1>1. next \in Calls
  BY DEF Calls, AccessInv, AccountRecords
<1>2. /\ call[r].at = "idle" /\ CallAt(r, next) /\ NewSession(s)
      /\ UNCHANGED <<user, lock, session, socket, recheck>>
  BY DEF LoginReads, Calling, Done
<1>3. /\ call'[r] = next /\ \A q \in Callers \ {r} : call'[q] = call[q]
      /\ call' \in [Callers -> Calls]
  <2> HIDE DEF next
  <2> QED BY <1>1, <1>2 DEF CallAt, AccessInv, AccountRecords
<1>4. AccountRecords'
  BY <1>2, <1>3 DEF AccessInv, AccountRecords, Live
<1>5. SessionsMatch'
  BY <1>2, <1>3 DEF AccessInv, SessionsMatch, Revoking, Live
<1>6. LoginsApart'
  <2>1. session'[s] = NoSession /\ socket'[s].at = "closed"
    BY <1>2 DEF NewSession, Live
  <2>2. \A q \in Callers : call[q].at = "login" => call[q].session # s
    BY <1>2 DEF NewSession
  <2>3. \A q \in Callers \ {r} : call'[q].at = "login" =>
           /\ session'[call'[q].session] = NoSession
           /\ socket'[call'[q].session].at = "closed"
           /\ \A p \in Callers \ {q} : call'[p].at = "login" =>
                 call'[p].session # call'[q].session
    BY <1>2, <1>3, <2>2 DEF AccessInv, LoginsApart, Live
  <2> QED BY <1>3, <2>1, <2>2, <2>3 DEF LoginsApart, Live
<1>7. BadAreListed'
  BY <1>2 DEF AccessInv, BadAreListed, Live, Outdated
<1> QED BY <1>4, <1>5, <1>6, <1>7 DEF AccessInv

LEMMA LoginCreatesInv ==
    ASSUME AccessInv, NEW r \in Callers, LoginCreates(r)
    PROVE  AccessInv'
<1> DEFINE u == call[r].user
           s == call[r].session
           new == [user |-> u, password |-> call[r].password,
                   outlived |-> call[r].password # user[u].password]
<1>1. /\ call[r].at = "login" /\ u \in Users /\ s \in Sessions
      /\ call[r].password \in Nat
      /\ session' = [session EXCEPT ![s] = new] /\ CallAt(r, Done)
      /\ UNCHANGED <<user, lock, socket, recheck>>
  BY CallTypes DEF LoginCreates
<1>2. /\ new.user = u /\ new.password = call[r].password
      /\ new.outlived = (call[r].password # user[u].password)
      /\ new \in [user : Users \cup {"nobody"}, password : Nat, outlived : BOOLEAN]
  BY <1>1
<1> HIDE DEF new
<1>3. /\ session'[s] = new /\ \A q \in Sessions \ {s} : session'[q] = session[q]
      /\ session' \in [Sessions -> [user : Users \cup {"nobody"}, password : Nat,
                                    outlived : BOOLEAN]]
  BY <1>1, <1>2 DEF AccessInv, AccountRecords
<1>4. /\ call'[r] = Done /\ \A q \in Callers \ {r} : call'[q] = call[q]
      /\ call' \in [Callers -> Calls]
  BY <1>1 DEF CallAt, AccessInv, AccountRecords, Calls
<1>5. AccountRecords'
  BY <1>1, <1>2, <1>3, <1>4 DEF AccessInv, AccountRecords, Live
<1>6. SessionsMatch'
  <2>1. \A v : Revoking(v) => Revoking(v)'
    BY <1>1, <1>4 DEF Revoking
  <2>2. new.password = user'[new.user].password \/ new.outlived
    BY <1>1, <1>2
  <2> QED BY <1>1, <1>3, <2>1, <2>2 DEF AccessInv, SessionsMatch, Live
<1>7. LoginsApart'
  BY <1>1, <1>3, <1>4 DEF AccessInv, LoginsApart, Live, Done
<1>8. BadAreListed'
  <2>1. socket[s].at = "closed"
    BY <1>1 DEF AccessInv, LoginsApart
  <2>2. \A q \in recheck.bad : q \in Sessions
    BY DEF AccessInv, AccountRecords
  <2> QED
    BY <1>1, <1>3, <2>1, <2>2 DEF AccessInv, BadAreListed, Live, Outdated
<1> QED BY <1>5, <1>6, <1>7, <1>8 DEF AccessInv

\* A step of the sockets alone, or of the recheck.
LEMMA SocketsMove ==
    ASSUME AccessInv, AccountRecords', UNCHANGED <<user, lock, session, call>>, BadAreListed',
           \A s \in Sessions : ~Live(s) => socket'[s] = socket[s] \/ socket'[s] = NoSocket
    PROVE  AccessInv'
<1>1. SessionsMatch'
  BY DEF AccessInv, SessionsMatch, Revoking, Live
<1>2. LoginsApart'
  <2>1. \A r \in Callers : call[r].at = "login" => call[r].session \in Sessions
    BY CallTypes
  <2> QED
    BY <2>1 DEF AccessInv, LoginsApart, Live, NoSocket
<1> QED BY <1>1, <1>2 DEF AccessInv

LEMMA SocketsType ==
    ASSUME AccessInv, NEW ended, SocketsClosed(ended)
    PROVE  /\ socket' \in [Sessions -> [at : {"closed", "joining", "open"},
                                        user : Users \cup {"nobody"}, role : Roles]]
           /\ \A s \in Sessions : socket'[s] \in {socket[s], NoSocket}
           /\ \A s \in Sessions : s \in ended => socket'[s].at # "open"
<1>1. NoSocket \in [at : {"closed", "joining", "open"},
                    user : Users \cup {"nobody"}, role : Roles]
  BY DEF NoSocket, Roles
<1>2. NoSocket.at = "closed"
  BY DEF NoSocket
<1> QED BY <1>1, <1>2 DEF SocketsClosed, AccessInv, AccountRecords

LEMMA HandshakeInv ==
    ASSUME AccessInv, NEW s \in Sessions,
           AuthorizeHandshake(s) \/ HandleConnection(s)
    PROVE  AccessInv'
<1>1. CASE AuthorizeHandshake(s)
  <2> DEFINE new == [at |-> "joining", user |-> session[s].user,
                     role |-> user[session[s].user].role]
  <2>1. /\ Live(s) /\ UNCHANGED <<user, lock, session, call>>
        /\ socket' = [socket EXCEPT ![s] = new]
        /\ recheck' = [recheck EXCEPT !.listed = @ \ {s}, !.bad = @ \ {s}]
    BY <1>1 DEF AuthorizeHandshake
  <2>2. new \in [at : {"closed", "joining", "open"},
                 user : Users \cup {"nobody"}, role : Roles]
    BY <2>1 DEF AccessInv, AccountRecords
  <2> HIDE DEF new
  <2>3. /\ \A q \in Sessions \ {s} : socket'[q] = socket[q]
        /\ socket' \in [Sessions -> [at : {"closed", "joining", "open"},
                                     user : Users \cup {"nobody"}, role : Roles]]
    BY <2>1, <2>2 DEF AccessInv, AccountRecords
  <2>4. /\ recheck' \in [at : {"idle", "users", "sockets"}, listed : SUBSET Sessions,
                         found : SUBSET Sessions, bad : SUBSET Sessions]
        /\ recheck'.at = recheck.at /\ recheck'.bad = recheck.bad \ {s}
        /\ recheck'.listed = recheck.listed \ {s} /\ recheck'.found = recheck.found
    BY <2>1 DEF AccessInv, AccountRecords
  <2>5. AccountRecords'
    <3>1. socket'[s].user = session[s].user
      BY <2>1 DEF AccessInv, AccountRecords, new
    <3> QED BY <2>1, <2>3, <2>4, <3>1 DEF AccessInv, AccountRecords, Live
  <2>6. BadAreListed'
    BY <2>1, <2>3, <2>4 DEF AccessInv, AccountRecords, BadAreListed, Live, Outdated
  <2> QED BY <2>1, <2>3, <2>5, <2>6, SocketsMove
<1>2. CASE HandleConnection(s)
  <2>1. /\ socket[s].at = "joining" /\ UNCHANGED <<user, lock, session, call, recheck>>
        /\ socket' = [socket EXCEPT ![s].at = "open"]
    BY <1>2 DEF HandleConnection
  <2>2. /\ \A q \in Sessions \ {s} : socket'[q] = socket[q]
        /\ socket' \in [Sessions -> [at : {"closed", "joining", "open"},
                                     user : Users \cup {"nobody"}, role : Roles]]
    BY <2>1 DEF AccessInv, AccountRecords
  <2>3. s \notin recheck.bad
    BY <2>1 DEF AccessInv, BadAreListed
  <2>4. AccountRecords'
    <3>1. socket'[s].user = socket[s].user
      BY <2>1 DEF AccessInv, AccountRecords
    <3> QED BY <2>1, <2>2, <3>1 DEF AccessInv, AccountRecords, Live
  <2>5. BadAreListed'
    BY <2>1, <2>2, <2>3 DEF AccessInv, AccountRecords, BadAreListed, Live, Outdated
  <2>6. SessionsMatch'
    BY <2>1 DEF AccessInv, SessionsMatch, Revoking, Live
  <2>7. LoginsApart'
    <3>1. \A r \in Callers : call[r].at = "login" =>
             call[r].session \in Sessions /\ call[r].session # s
      BY <2>1, CallTypes DEF AccessInv, LoginsApart
    <3> QED
      BY <2>1, <2>2, <3>1 DEF AccessInv, LoginsApart, Live
  <2> QED BY <2>4, <2>5, <2>6, <2>7 DEF AccessInv
<1> QED BY <1>1, <1>2

LEMMA TellInv ==
    ASSUME AccessInv, NEW r \in Callers, Tell(r)
    PROVE  AccessInv'
<1> DEFINE ended == {s \in call[r].only \ call[r].keep : socket[s].user = call[r].user}
<1>1. /\ call[r].at = "tell" /\ SocketsClosed(ended) /\ CallAt(r, Done)
      /\ UNCHANGED <<user, lock, session, recheck>>
  BY DEF Tell
<1> HIDE DEF ended
<1>2. /\ socket' \in [Sessions -> [at : {"closed", "joining", "open"},
                                   user : Users \cup {"nobody"}, role : Roles]]
      /\ \A s \in Sessions : socket'[s] \in {socket[s], NoSocket}
  BY <1>1, SocketsType
<1>3. /\ call'[r] = Done /\ \A q \in Callers \ {r} : call'[q] = call[q]
      /\ call' \in [Callers -> Calls]
  BY <1>1 DEF CallAt, AccessInv, AccountRecords, Calls
<1>4. AccountRecords'
  BY <1>1, <1>2, <1>3 DEF AccessInv, AccountRecords, Live, NoSocket
<1>5. SessionsMatch'
  BY <1>1, <1>3 DEF AccessInv, SessionsMatch, Revoking, Live
<1>6. LoginsApart'
  <2>1. \A q \in Callers : call[q].at = "login" => call[q].session \in Sessions
    BY CallTypes
  <2> QED
    BY <1>1, <1>2, <1>3, <2>1 DEF AccessInv, LoginsApart, Live, Done, NoSocket
<1>7. BadAreListed'
  <2>1. \A s \in recheck.bad : s \in Sessions
    BY DEF AccessInv, AccountRecords
  <2> QED
    BY <1>1, <1>2, <2>1
    DEF AccessInv, BadAreListed, Live, Outdated, NoSocket
<1> QED BY <1>4, <1>5, <1>6, <1>7 DEF AccessInv

LEMMA WritesInv ==
    ASSUME AccessInv, NEW r \in Callers, UpdateWrites(r)
    PROVE  AccessInv'
<1>0. PICK u \in Users, set \in Sets : u = call[r].user /\ set = call[r].set
  BY CallTypes DEF UpdateWrites
<1> DEFINE row == Changed(user[u], set)
<1>1. /\ call[r].at = "write" /\ u \in Users /\ set \in Sets
      /\ call[r].keep \subseteq Sessions /\ call[r].stops \in BOOLEAN
      /\ call[r] = [at |-> call[r].at, user |-> u, keep |-> call[r].keep,
                    set |-> set, stops |-> call[r].stops]
      /\ user' = [user EXCEPT ![u] = row] /\ Touches(u)
      /\ UNCHANGED <<session, socket>>
  BY <1>0, CallTypes DEF UpdateWrites
<1>2. /\ row \in [role : Roles, active : BOOLEAN, password : Nat]
      /\ set # "password" => row.password = user[u].password
  <2>1. user[u] \in [role : Roles, active : BOOLEAN, password : Nat]
    BY <1>1 DEF AccessInv, AccountRecords
  <2>2. CASE set = "disabled"
    <3>1. row = [user[u] EXCEPT !.active = FALSE]
      BY <2>2 DEF Changed
    <3> QED BY <2>1, <3>1
  <2>3. CASE set = "password"
    <3>1. row = [user[u] EXCEPT !.password = @ + 1]
      BY <2>3 DEF Changed
    <3> QED BY <2>1, <2>3, <3>1
  <2>4. CASE set \in Roles /\ set # "disabled" /\ set # "password"
    <3>1. row = [user[u] EXCEPT !.role = set]
      BY <2>4 DEF Changed
    <3> QED BY <2>1, <2>4, <3>1
  <2> QED BY <1>1, <2>2, <2>3, <2>4 DEF Sets
<1>3. lock'.rows \subseteq Users
  BY DEF UpdateWrites, Free, AccessInv, AccountRecords
<1>4. \E next \in Calls :
         /\ CallAt(r, next) /\ next.at # "login"
         /\ set \in {"disabled", "password"} => next.at = "revoke" /\ next.user = u
  <2>1. CASE set \in {"disabled", "password"}
    <3> DEFINE next == [call[r] EXCEPT !.at = "revoke"]
    <3>1. CallAt(r, next)
      BY <1>0, <2>1 DEF UpdateWrites, Sets, Roles
    <3>2. next = [at |-> "revoke", user |-> u, keep |-> call[r].keep,
                  set |-> set, stops |-> call[r].stops]
      BY <1>1
    <3>3. next \in Calls
      BY <1>1, <3>2 DEF Calls
    <3> QED BY <3>1, <3>2, <3>3
  <2>2. CASE set \notin {"disabled", "password"}
    <3>1. CallAt(r, Event(u, Sessions, {})) \/ CallAt(r, Done)
      BY <1>0, <2>2 DEF UpdateWrites, Sets
    <3>2. /\ Event(u, Sessions, {}) \in Calls /\ Event(u, Sessions, {}).at = "tell"
          /\ Done \in Calls /\ Done.at = "idle"
      BY <1>1, EventType
    <3> QED BY <2>2, <3>1, <3>2
  <2> QED BY <2>1, <2>2
<1>5. PICK next \in Calls :
         /\ CallAt(r, next) /\ next.at # "login"
         /\ set \in {"disabled", "password"} => next.at = "revoke" /\ next.user = u
  BY <1>4
<1>6. /\ call'[r] = next /\ \A q \in Callers \ {r} : call'[q] = call[q]
      /\ call' \in [Callers -> Calls]
  BY <1>5 DEF CallAt, AccessInv, AccountRecords
<1> HIDE DEF row
<1>7. /\ user'[u] = row /\ \A v \in Users \ {u} : user'[v] = user[v]
      /\ user' \in [Users -> [role : Roles, active : BOOLEAN, password : Nat]]
  BY <1>1, <1>2 DEF AccessInv, AccountRecords
<1>8. /\ recheck' \in [at : {"idle", "users", "sockets"}, listed : SUBSET Sessions,
                       found : SUBSET Sessions, bad : SUBSET Sessions]
      /\ recheck'.at = recheck.at /\ recheck'.listed = recheck.listed
      /\ recheck'.found = recheck.found
      /\ recheck'.bad = {s \in recheck.bad : socket[s].user # u}
  BY <1>1 DEF Touches, AccessInv, AccountRecords
<1>9. AccountRecords'
  BY <1>1, <1>3, <1>6, <1>7, <1>8 DEF AccessInv, AccountRecords, Live
<1>10. SessionsMatch'
  <2>1. \A v : Revoking(v) => Revoking(v)'
    BY <1>1, <1>6 DEF Revoking
  <2>2. set = "password" => Revoking(u)'
    BY <1>5, <1>6 DEF Revoking
  <2>3. \A v \in Users : \/ user'[v].password = user[v].password
                         \/ v = u /\ set = "password"
    BY <1>2, <1>7
  <2> QED
    BY <1>1, <2>1, <2>2, <2>3 DEF AccessInv, AccountRecords, SessionsMatch, Live
<1>11. LoginsApart'
  BY <1>1, <1>5, <1>6 DEF AccessInv, LoginsApart, Live
<1>12. BadAreListed'
  <2>1. SUFFICES ASSUME NEW s \in recheck.bad, socket[s].user # u
                 PROVE  /\ socket[s].at # "joining"
                        /\ (/\ recheck.at \in {"users", "sockets"}
                            /\ socket[s].at = "open") =>
                             /\ s \in recheck.listed
                             /\ ~Live(s) \/ (IF recheck.at = "users" THEN Outdated(s)'
                                                        ELSE s \in recheck.found)
    BY <1>1, <1>8 DEF BadAreListed, Live
  <2>2. ASSUME socket[s].at = "open", Outdated(s) PROVE Outdated(s)'
    <3>1. s \in Sessions /\ socket[s].user \in Users
      BY <2>2 DEF AccessInv, AccountRecords
    <3>2. user'[socket[s].user] = user[socket[s].user]
      BY <1>7, <2>1, <3>1
    <3> QED BY <1>1, <2>2, <3>2 DEF Outdated
  <2> QED BY <2>1, <2>2 DEF AccessInv, BadAreListed
<1> QED BY <1>9, <1>10, <1>11, <1>12 DEF AccessInv

LEMMA RevokesInv ==
    ASSUME AccessInv, NEW r \in Callers, NEW outcome, RevokeAllForUser(r, outcome)
    PROVE  AccessInv'
<1> DEFINE kept(s) == [session[s] EXCEPT !.outlived = TRUE]
<1>1. /\ call[r].at = "revoke" /\ call[r].user \in Users
      /\ call[r].keep \subseteq Sessions
      /\ UNCHANGED <<user, lock, socket, recheck>>
      /\ session' = [s \in Sessions |->
                        IF s \in Revoked(r) /\ outcome # "refused" THEN NoSession
                        ELSE IF s \in Revoked(r) \cup call[r].keep /\ Live(s)
                        THEN kept(s) ELSE session[s]]
  BY CallTypes DEF RevokeAllForUser
<1>2. PICK next \in Calls : CallAt(r, next) /\ next.at # "login"
  <2>1. \/ CallAt(r, Event(call[r].user, Sessions, call[r].keep))
        \/ CallAt(r, Done)
    BY DEF RevokeAllForUser
  <2>2. /\ Event(call[r].user, Sessions, call[r].keep) \in Calls
        /\ Event(call[r].user, Sessions, call[r].keep).at = "tell"
        /\ Done \in Calls /\ Done.at = "idle"
    BY <1>1, EventType
  <2> QED BY <2>1, <2>2
<1>3. /\ call'[r] = next /\ \A q \in Callers \ {r} : call'[q] = call[q]
      /\ call' \in [Callers -> Calls]
  BY <1>2 DEF CallAt, AccessInv, AccountRecords
<1>4. \A s \in Sessions :
         /\ kept(s) \in [user : Users \cup {"nobody"}, password : Nat, outlived : BOOLEAN]
         /\ kept(s).outlived /\ kept(s).user = session[s].user
  BY DEF AccessInv, AccountRecords
<1> HIDE DEF kept
<1>5. NoSession \in [user : Users \cup {"nobody"}, password : Nat, outlived : BOOLEAN]
  BY DEF NoSession
<1>6. session' \in [Sessions -> [user : Users \cup {"nobody"}, password : Nat,
                                 outlived : BOOLEAN]]
  BY <1>1, <1>4, <1>5 DEF AccessInv, AccountRecords
<1>7. \A s \in Sessions : Live(s)' =>
         /\ Live(s) /\ session'[s].user = session[s].user
         /\ \/ session'[s].outlived
            \/ session'[s] = session[s] /\ session[s].user # call[r].user
  BY <1>1, <1>4 DEF Live, Revoked
<1>8. AccountRecords'
  BY <1>1, <1>3, <1>6, <1>7 DEF AccessInv, AccountRecords
<1>9. SessionsMatch'
  <2>1. \A v : Revoking(v) /\ v # call[r].user => Revoking(v)'
    BY <1>3 DEF Revoking
  <2> QED BY <1>1, <1>7, <2>1 DEF AccessInv, SessionsMatch
<1>10. LoginsApart'
  <2>1. \A q \in Callers : call[q].at = "login" => call[q].session \in Sessions
    BY CallTypes
  <2>2. \A q \in Callers : call'[q].at = "login" => call'[q] = call[q]
    BY <1>2, <1>3
  <2> QED BY <1>1, <1>7, <2>1, <2>2 DEF AccessInv, LoginsApart
<1>11. BadAreListed'
  <2>1. \A s \in recheck.bad : s \in Sessions
    BY DEF AccessInv, AccountRecords
  <2> QED BY <1>1, <1>7, <2>1 DEF AccessInv, BadAreListed, Outdated
<1> QED BY <1>8, <1>9, <1>10, <1>11 DEF AccessInv

LEMMA RecheckInv == ASSUME AccessInv, Recheck PROVE AccessInv'
<1> DEFINE Rechecks == [at : {"idle", "users", "sockets"}, listed : SUBSET Sessions,
                        found : SUBSET Sessions, bad : SUBSET Sessions]
<1>0. UNCHANGED <<user, lock, session, call>>
  BY DEF Recheck, RecheckLists, RecheckReads, RecheckSocket, RecheckOver
<1>1. ASSUME recheck' = IdleRecheck, socket' = socket PROVE AccessInv'
  <2>1. recheck'.bad = {} /\ recheck' \in Rechecks
    BY <1>1 DEF IdleRecheck
  <2>2. AccountRecords'
    BY <1>0, <1>1, <2>1 DEF AccessInv, AccountRecords, Live
  <2>3. BadAreListed'
    BY <2>1 DEF BadAreListed
  <2> QED BY <1>0, <1>1, <2>2, <2>3, SocketsMove
<1>2. CASE RecheckLists
  <2>1. /\ socket' = socket /\ recheck' \in Rechecks
        /\ recheck'.at = "users" /\ recheck'.listed = Open
        /\ recheck'.bad = {s \in Open : ~Live(s) \/ Outdated(s)}
    BY <1>2 DEF RecheckLists, Open
  <2>2. AccountRecords'
    BY <1>0, <2>1 DEF AccessInv, AccountRecords, Live
  <2>3. BadAreListed'
    BY <1>0, <2>1 DEF BadAreListed, Open, Live, Outdated
  <2> QED BY <1>0, <2>1, <2>2, <2>3, SocketsMove
<1>3. ASSUME NEW fails \in BOOLEAN, RecheckReads(fails) PROVE AccessInv'
  <2>1. CASE fails
    BY <1>1, <1>3, <2>1 DEF RecheckReads
  <2>2. CASE ~fails
    <3>1. /\ socket' = socket /\ recheck.at = "users" /\ recheck' \in Rechecks
          /\ recheck'.at = "sockets" /\ recheck'.listed = recheck.listed
          /\ recheck'.bad = recheck.bad
          /\ recheck'.found = {s \in recheck.listed \cap Open : Outdated(s)}
      BY <1>3, <2>2 DEF RecheckReads, AccessInv, AccountRecords
    <3>2. AccountRecords'
      BY <1>0, <3>1 DEF AccessInv, AccountRecords, Live
    <3>3. \A s \in recheck.bad : s \in Sessions
      BY DEF AccessInv, AccountRecords
    <3>4. BadAreListed'
      BY <1>0, <3>1, <3>3 DEF AccessInv, BadAreListed, Open, Live
    <3> QED BY <1>0, <3>1, <3>2, <3>4, SocketsMove
  <2> QED BY <2>1, <2>2
<1>4. ASSUME NEW fails \in BOOLEAN, NEW s \in Sessions, RecheckSocket(s, fails)
      PROVE  AccessInv'
  <2>1. CASE fails
    BY <1>1, <1>4, <2>1 DEF RecheckSocket
  <2>2. CASE ~fails
    <3> DEFINE ended == IF RecheckEnds(s) THEN {s} ELSE {}
    <3>1. /\ SocketsClosed(ended) /\ recheck.at = "sockets" /\ recheck' \in Rechecks
          /\ recheck'.at = "sockets" /\ recheck'.listed = recheck.listed \ {s}
          /\ recheck'.bad = recheck.bad /\ recheck'.found = recheck.found
      BY <1>4, <2>2 DEF RecheckSocket, AccessInv, AccountRecords
    <3>2. s \in ended <=> ~Live(s) \/ s \in recheck.found
      BY DEF RecheckEnds
    <3> HIDE DEF ended
    <3>3. /\ socket' \in [Sessions -> [at : {"closed", "joining", "open"},
                                       user : Users \cup {"nobody"}, role : Roles]]
          /\ \A q \in Sessions : socket'[q] \in {socket[q], NoSocket}
          /\ \A q \in Sessions : q \in ended => socket'[q].at # "open"
      BY <3>1, SocketsType
    <3>4. AccountRecords'
      BY <1>0, <3>1, <3>3 DEF AccessInv, AccountRecords, Live, NoSocket
    <3>5. \A q \in recheck.bad : q \in Sessions
      BY DEF AccessInv, AccountRecords
    <3>6. BadAreListed'
      <4>1. SUFFICES ASSUME NEW q \in recheck.bad
                     PROVE  /\ socket'[q].at # "joining"
                            /\ socket'[q].at = "open" =>
                                 /\ q \in recheck.listed \ {s}
                                 /\ ~Live(q) \/ q \in recheck.found
        BY <1>0, <3>1 DEF BadAreListed, Live
      <4>2. socket'[q].at \in {socket[q].at, "closed"}
        BY <3>3, <3>5 DEF NoSocket
      <4> QED BY <3>1, <3>2, <3>3, <3>5, <4>2 DEF AccessInv, BadAreListed
    <3> QED BY <1>0, <3>3, <3>4, <3>6, SocketsMove
  <2> QED BY <2>1, <2>2
<1>5. CASE RecheckOver
  BY <1>1, <1>5 DEF RecheckOver
<1> QED BY <1>2, <1>3, <1>4, <1>5 DEF Recheck

LEMMA RequestInv == ASSUME AccessInv, NEW r \in Callers, AccountRequest(r) PROVE AccessInv'
<1>1. ASSUME NEW s \in Sessions, Logout(r, s) PROVE AccessInv'
  <2>1. /\ call[r].at = "idle" /\ Live(s) /\ Ends(s)
        /\ CallAt(r, Event(session[s].user, {s}, {}))
        /\ UNCHANGED <<user, lock, socket, recheck>>
    BY <1>1 DEF Logout, Calling, Done, Ends
  <2>2. /\ Event(session[s].user, {s}, {}) \in Calls
        /\ Event(session[s].user, {s}, {}).at = "tell"
    BY <2>1, EventType DEF AccessInv, AccountRecords
  <2> QED BY <2>1, <2>2, SessionEnds
<1>2. ASSUME NEW s \in Sessions, ChangePassword(r, s) PROVE AccessInv'
  <2> DEFINE next == [at |-> "write", user |-> session[s].user, keep |-> {s},
                      stops |-> FALSE, set |-> "password"]
  <2>1. /\ call[r].at = "idle" /\ Live(s) /\ CallAt(r, next)
        /\ UNCHANGED <<user, lock, session, socket, recheck>>
    BY <1>2 DEF ChangePassword, Calling, Done
  <2>2. next \in Calls /\ next.at = "write"
    BY <2>1 DEF Calls, Sets, AccessInv, AccountRecords
  <2>3. lock'.rows \subseteq Users
    BY <2>1 DEF AccessInv, AccountRecords
  <2> HIDE DEF next
  <2> QED BY <2>1, <2>2, <2>3, CallGoesOn
<1>3. ASSUME NEW actor \in Users, NEW u \in Users, NEW set \in Sets,
             UpdateReads(r, actor, u, set)
      PROVE  AccessInv'
  <2> DEFINE stops == /\ user[u].role = "SUPERADMIN" /\ user[u].active
                      /\ set \in {"disabled", "MANAGER"}
             next == [at |-> IF stops THEN "lock" ELSE "write",
                      user |-> u, keep |-> {}, set |-> set, stops |-> stops]
  <2>0. /\ call[r].at = "idle"
        /\ UNCHANGED <<user, lock, session, socket, recheck>>
    BY <1>3 DEF UpdateReads, Calling, Done
  <2>1. CallAt(r, next)
    BY <1>3, Zenon DEF UpdateReads
  <2>2. next \in Calls /\ next.at # "login"
    <3>1. stops \in BOOLEAN
      BY DEF AccessInv, AccountRecords
    <3> HIDE DEF stops
    <3> QED BY <3>1 DEF Calls
  <2>3. lock'.rows \subseteq Users
    BY <2>0 DEF AccessInv, AccountRecords
  <2> HIDE DEF next
  <2> QED BY <2>0, <2>1, <2>2, <2>3, CallGoesOn
<1>4. ASSUME UpdateLocks(r) PROVE AccessInv'
  <2> DEFINE next == [call[r] EXCEPT !.at = "write"]
  <2>1. /\ call[r].at = "lock"
        /\ \/ CallAt(r, Done)
           \/ CallAt(r, next)
        /\ UNCHANGED <<user, session, socket, recheck>>
        /\ lock' = lock \/ lock'.rows = ActiveSuperadmins
    BY <1>4 DEF UpdateLocks
  <2>2. next \in Calls /\ next.at = "write"
    <3>1. next = [at |-> "write", user |-> call[r].user, keep |-> call[r].keep,
                  set |-> call[r].set, stops |-> call[r].stops]
      <4>1. call[r] = [at |-> call[r].at, user |-> call[r].user,
                       keep |-> call[r].keep, set |-> call[r].set,
                       stops |-> call[r].stops]
        BY <2>1, CallTypes
      <4> QED BY <4>1
    <3>2. /\ call[r].user \in Users /\ call[r].keep \subseteq Sessions
          /\ call[r].set \in Sets /\ call[r].stops \in BOOLEAN
      BY <2>1, CallTypes
    <3> HIDE DEF next
    <3> QED BY <3>1, <3>2 DEF Calls
  <2>3. lock'.rows \subseteq Users
    BY <2>1 DEF AccessInv, AccountRecords, ActiveSuperadmins
  <2>4. Done \in Calls /\ Done.at = "idle"
    BY DEF Done, Calls
  <2> HIDE DEF next
  <2> QED BY <2>1, <2>2, <2>3, <2>4, CallGoesOn
<1> QED
  BY <1>1, <1>2, <1>3, <1>4, LoginReadsInv, LoginCreatesInv, WritesInv, TellInv,
     RevokesInv
  DEF AccountRequest, Sets

LEMMA SocketInv == ASSUME AccessInv, NEW s \in Sessions, SocketStep(s) PROVE AccessInv'
<1>1. SessionExpires(s) => AccessInv'
  BY SessionEnds DEF SessionExpires, Ends
<1>2. ResolveWithSession(s) => AccessInv'
  BY SessionEnds DEF ResolveWithSession, Ends
<1> QED BY <1>1, <1>2, HandshakeInv DEF SocketStep

LEMMA AccessStep == AccessInv /\ [AccountsNext]_accountsVars => AccessInv'
<1> SUFFICES ASSUME AccessInv, [AccountsNext]_accountsVars PROVE AccessInv'
  OBVIOUS
<1>1. CASE UNCHANGED accountsVars
  <2>1. UNCHANGED <<user, lock, session, socket, call, recheck>>
    BY <1>1 DEF accountsVars
  <2>2. AccountRecords'
    BY <2>1 DEF AccessInv, AccountRecords, Live
  <2>3. BadAreListed'
    BY <2>1 DEF AccessInv, BadAreListed, Live, Outdated
  <2> QED BY <2>1, <2>2, <2>3, SocketsMove
<1> QED BY <1>1, RequestInv, SocketInv, RecheckInv DEF AccountsNext

\* The invariant gives AccessEnds: a recheck that went through its list has
\* closed whatever it found bad at its start.
LEMMA AccessFollows == AccessInv => AccessEnds
  BY DEF AccessInv, SessionsMatch, Revoking, BadAreListed, AccessEnds

=============================================================================
