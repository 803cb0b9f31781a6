------------------------------ MODULE LivePush -------------------------------
(***************************************************************************)
(* What the API tells the dashboard unasked: `data.changed` after a commit *)
(* of the consumer, at most one per window, and the status of the cameras  *)
(* every two seconds, from a list of cameras that is cached.               *)
(***************************************************************************)
EXTENDS Naturals, FiniteSets

CONSTANTS
    Concerns,       \* what a commit can touch: cameras, use cases, kinds of data
    MaxCommits,    \* commits of the consumer
    ListTicks,     \* ticks a list of cameras is good for, 5 in the code
    MaxLate,       \* ticks a query that is not waited for still takes
    MaxPushTrouble \* queries that fail or are late

ASSUME PushAssumption ==
    ListTicks \in Nat \ {0} /\ MaxLate \in Nat /\ MaxCommits \in Nat

VARIABLES
    merger,    \* ChangeMerger: its window, and what waits in it
    owed,      \* what was touched and the dashboard does not know of
    burst,     \* `data.changed` sent in this window
    commits,
    watched,   \* somebody is in the `status` room
    tick,      \* where the status tick stands, and the list it took
    ids,       \* the cached list: ticks since `at`, and since it was read
    late,      \* the queries nobody waits for: ticks since they were sent
    shown,     \* the last list sent: its age, and whether its refresh failed
    pushTrouble

mergerVars == <<merger, owed, burst, commits>>
statusVars == <<watched, tick, ids, late, shown, pushTrouble>>
pushVars == <<mergerVars, statusVars>>

NoList == [cached |-> FALSE, age |-> ListTicks, read |-> 0]
Idle == [at |-> "idle", read |-> 0, excused |-> FALSE]

PushInit ==
    /\ merger = [open |-> FALSE, pending |-> {}]
    /\ owed = {} /\ burst = 0 /\ commits = 0
    /\ watched = FALSE
    /\ tick = Idle /\ ids = NoList /\ late = {}
    /\ shown = [read |-> 0, excused |-> FALSE]
    /\ pushTrouble = 0

PushTroubled(it) ==
    /\ it => pushTrouble < MaxPushTrouble
    /\ pushTrouble' = pushTrouble + (IF it THEN 1 ELSE 0)

-----------------------------------------------------------------------------
(* data.changed *)

\* Mutant: what waits is replaced by the change that comes.
AddLast(change) ==
    IF merger.open
    THEN /\ merger' = [merger EXCEPT !.pending = change]
         /\ owed' = owed \cup change /\ UNCHANGED burst
    ELSE /\ merger' = [merger EXCEPT !.open = TRUE]
         /\ owed' = owed \ change /\ burst' = burst + 1

\* The first change after a quiet window goes out at once, those that come
\* within the window are merged.
Add(change) ==
    IF merger.open
    THEN /\ merger' = [merger EXCEPT !.pending = @ \cup change]
         /\ owed' = owed \cup change /\ UNCHANGED burst
    ELSE /\ merger' = [merger EXCEPT !.open = TRUE]
         /\ owed' = owed \ change /\ burst' = burst + 1

\* A commit of the consumer: its events one by one if they are few, and in any
\* case that something changed.
Push(change) ==
    /\ commits < MaxCommits
    /\ commits' = commits + 1
    /\ Add(change)
    /\ UNCHANGED statusVars

\* What waits goes out when the window ends, and opens the next one.
WindowEnds ==
    /\ merger.open
    /\ merger' = [open |-> merger.pending # {}, pending |-> {}]
    /\ owed' = owed \ merger.pending
    /\ burst' = IF merger.pending = {} THEN 0 ELSE 1
    /\ UNCHANGED <<commits, statusVars>>

\* The API goes away: what waits is dropped, and dashboards connect anew.
PushCloses ==
    /\ merger' = [open |-> FALSE, pending |-> {}]
    /\ owed' = {} /\ burst' = 0
    /\ tick' = Idle /\ ids' = NoList /\ late' = {}
    /\ UNCHANGED <<commits, watched, shown, pushTrouble>>

-----------------------------------------------------------------------------
(* The status of the cameras *)

StatusRoom ==
    /\ watched' = ~watched
    /\ UNCHANGED <<mergerVars, tick, ids, late, shown, pushTrouble>>

Fresh(list) == list.cached /\ list.age < ListTicks

\* Beyond this a list is as old as it matters.
Oldest == ListTicks + MaxLate + 2
Older(n, most) == IF n < most THEN n + 1 ELSE n
Aged == [ids EXCEPT !.age = Older(@, ListTicks), !.read = Older(@, Oldest)]

\* Two seconds pass.  The tick is skipped while nobody watches or the last one
\* runs; else it takes the cached list, or asks for a new one.
StatusTick ==
    /\ \A q \in late : q < MaxLate
    /\ tick.at # "asking"   \* a query is waited for half as long as a tick
    /\ late' = {q + 1 : q \in late}
    /\ ids' = IF ids.cached THEN Aged ELSE ids
    /\ tick' = IF ~watched \/ tick.at # "idle" THEN tick
               ELSE IF Fresh(Aged)
               THEN [at |-> "reading", read |-> Aged.read, excused |-> FALSE]
               ELSE [Idle EXCEPT !.at = "asking"]
    /\ UNCHANGED <<mergerVars, watched, shown, pushTrouble>>

\* The cameras of a query that was sent n ticks ago: it read them since.
Listed(n) == [cached |-> TRUE, age |-> 0, read |-> n]

RefreshAnswers ==
    /\ tick.at = "asking"
    /\ ids' = Listed(0)
    /\ tick' = [at |-> "reading", read |-> 0, excused |-> FALSE]
    /\ UNCHANGED <<mergerVars, watched, late, shown, pushTrouble>>

\* Mutant: the old list is good for another ten seconds.
GoesOnFor10s ==
    /\ ids' = [ids EXCEPT !.age = IF Fresh(ids) THEN @ ELSE 0]
    /\ tick' = IF ids.cached
               THEN [at |-> "reading", read |-> ids.read, excused |-> ~Fresh(ids)]
               ELSE Idle

\* Without an answer the tick goes on with the list it has, for one more tick;
\* without one it fails.
GoesOn ==
    /\ ids' = [ids EXCEPT !.age = IF Fresh(ids) \/ ~ids.cached THEN @ ELSE ListTicks - 1]
    /\ tick' = IF ids.cached
               THEN [at |-> "reading", read |-> ids.read, excused |-> ~Fresh(ids)]
               ELSE Idle

\* The refresh fails, or is not waited for any longer.
RefreshLate ==
    /\ tick.at = "asking" /\ PushTroubled(TRUE)
    /\ GoesOn
    /\ late' \in {late, late \cup {0}}
    /\ UNCHANGED <<mergerVars, watched, shown>>

\* It answers all the same, after newer ones even, or fails.
LateAnswers(q) ==
    /\ q \in late
    /\ late' = late \ {q}
    /\ ids' \in {ids, Listed(q)}
    /\ UNCHANGED <<mergerVars, watched, tick, shown, pushTrouble>>

\* The snapshot goes to the room; a failure skips the tick.
Snapshot(fails) ==
    /\ shown' = IF fails THEN shown ELSE [read |-> tick.read, excused |-> tick.excused]
    /\ tick' = Idle

\* Redis tells the status of the cameras listed, or fails.
StatusRead ==
    \E fails \in BOOLEAN :
        /\ tick.at = "reading" /\ PushTroubled(fails)
        /\ Snapshot(fails)
        /\ UNCHANGED <<mergerVars, watched, ids, late>>

-----------------------------------------------------------------------------
PushNext ==
    \/ \E change \in SUBSET Concerns \ {{}} : Push(change)
    \/ WindowEnds \/ PushCloses
    \/ StatusRoom \/ StatusTick \/ RefreshAnswers \/ RefreshLate \/ StatusRead
    \/ \E q \in late : LateAnswers(q)

-----------------------------------------------------------------------------
(* Properties *)

PushTypeOK ==
    /\ merger \in [open : BOOLEAN, pending : SUBSET Concerns]
    /\ owed \subseteq Concerns /\ burst \in Nat /\ commits \in 0 .. MaxCommits
    /\ watched \in BOOLEAN
    /\ tick \in [at : {"idle", "asking", "reading"}, read : 0 .. Oldest, excused : BOOLEAN]
    /\ ids \in [cached : BOOLEAN, age : 0 .. ListTicks, read : 0 .. Oldest]
    /\ late \subseteq 0 .. MaxLate
    /\ shown \in [read : 0 .. Oldest, excused : BOOLEAN]

\* Whatever a commit touched was told or waits in a window that will tell it,
\* and a window tells once, however many commits fall into it.
ChangesTold ==
    /\ owed = merger.pending
    /\ merger.pending # {} => merger.open
    /\ burst \in {0, 1}

\* The cameras shown were read at most ten seconds ago, and as long as a late
\* query took that answered last; only a tick whose own refresh failed shows
\* older ones, so the first answer of Postgres ends it.
StatusIsFresh == shown.excused \/ shown.read < ListTicks + MaxLate

=============================================================================
