------------------------------ MODULE DemoFeed -------------------------------
(***************************************************************************)
(* The demo feed, which plays the engine for the demo cameras: a history,  *)
(* then the messages of a day's plan as they fall due, while a refresh,    *)
(* called by notices and by a timer, follows the API's list of cameras.    *)
(* One camera with one table or desk is modelled; of its messages only     *)
(* intervals are told apart.  Time is the local time of the site in whole  *)
(* numbers; a session is known by the draw of its plan and when it opens.  *)
(***************************************************************************)
EXTENDS Integers, FiniteSets

CONSTANTS
    DayLength, Opening, Closing, \* a day, and when the place is open
    Pause,        \* the least time between two guests
    Days,         \* for each draw, days it may give, of all it can give
    Downtime,     \* a longer gap means that the feed was not running
    Start,        \* when the feed starts
    BackfillDays,
    Jumps,        \* by how much the clock changes at once
    MaxTime, MaxChanges

ASSUME TimesAssumption ==
    /\ DayLength \in Nat \ {0} /\ Opening \in Int /\ Closing \in Int /\ Downtime \in Nat
    /\ Start \in Nat /\ MaxTime \in Nat /\ Start <= MaxTime /\ Jumps \subseteq Int

VARIABLES
    now,
    api,       \* the camera as the API lists it, and its version
    notice,    \* cfg:changed of the last change: under way, lost, or none
    feed,      \* the camera as the feed has it, and its version
    state,     \* DemoState of the camera, NoState if it has none
    status,    \* whether Redis has a status key of the camera
    main,      \* where runDemoFeed stands, and the messages it holds
    refresh,   \* the coalesced refresh
    stopped,
    unclosed,  \* sessions of which the stream has the open only
    unopened,  \* ... the close only
    repeated,  \* ... an open, or a close, once too often
    draws, changes

demoBounds == <<draws, changes>>
wireVars == <<status, unclosed, unopened, repeated>>
sentVars == <<unclosed, unopened, repeated>>
demoVars == <<now, api, notice, feed, state, main, refresh, stopped,
              wireVars, demoBounds>>

Never == -1
Nobody == [there |-> FALSE, version |-> 0]
NoState == [last |-> Never, date |-> Never, plan |-> {}, upto |-> Never, open |-> {}]
Silence == [opens |-> {}, closes |-> {}]
NoRefresh == [at |-> "idle", again |-> FALSE, found |-> Nobody, failed |-> FALSE]

\* localDate and localDayStart
Date(t) == t \div DayLength
DayStart(t) == Date(t) * DayLength

DemoInit ==
    /\ now = Start
    /\ api \in [there : BOOLEAN, version : {1}]
    /\ notice = "none"
    /\ feed = Nobody /\ state = NoState /\ status = FALSE
    /\ main = [at |-> "wait", holds |-> Silence]
    /\ refresh = NoRefresh
    /\ stopped = FALSE
    /\ unclosed = {} /\ unopened = {} /\ repeated = FALSE
    /\ draws = 0 /\ changes = 0

-----------------------------------------------------------------------------
(* The plan of a day *)

Spans == {s \in [from : Opening .. Closing, to : Opening .. Closing] : s.from < s.to}

\* tableDay: one guest after the other, who all leave before the place closes.
TableDays ==
    {day \in SUBSET {s \in Spans : s.to < Closing} :
        \A a, b \in day : a = b \/ a.to + Pause <= b.from \/ b.to + Pause <= a.from}

\* cashierDay: the desk is left once in each of the equal parts of the day.
CashierDays ==
    {day \in SUBSET Spans :
        LET part == (Closing - Opening) \div Cardinality(day)
            until(i) == Opening + i * part
        IN  /\ day # {} /\ part > 0
            /\ \A i \in 1 .. Cardinality(day) :
                  \E s \in day : s.from >= until(i - 1) /\ s.to <= until(i)}

ASSUME DaysAssumption ==
    \A n \in DOMAIN Days : Days[n] \subseteq TableDays \cup CashierDays

\* planDay: the intervals of the day that begins at `start`.
PlanOf(draw, start, day) ==
    {[session |-> <<draw, start + s.from>>, from |-> start + s.from, to |-> start + s.to] :
        s \in day}

\* An interval of which one end is outside the window is left out.
HistoryMessages(plan, from, to) ==
    LET complete == {i \in plan : i.from >= from /\ i.to < to}
    IN  [opens |-> {i.session : i \in complete}, closes |-> {i.session : i \in complete}]

Latest(x, y) == IF x > y THEN x ELSE y

\* What is open, after opens and closes.
Track(open, opens, closes) == (open \cup opens) \ closes

\* What falls due in (the last call, t], and the state after it.  What is open
\* is closed if the feed was not running, the day is new, or the camera silent;
\* a close whose open was not sent is not sent either.
LiveMessages(st, t, silent, drawn) ==
    LET last == IF st.last = Never THEN t ELSE st.last
        down == t - last > Downtime
        anew == st.date # Date(t)
        plan == IF anew THEN drawn ELSE st.plan
        \* the cursor is past everything up to here
        past == Latest(IF down THEN t ELSE last, IF anew THEN Never ELSE st.upto)
        due(x) == x > past /\ x <= t /\ ~silent
        ended == IF down \/ anew \/ silent THEN st.open ELSE {}
        opens == {i.session : i \in {j \in plan : due(j.from)}}
        known == (st.open \ ended) \cup opens
        closes == {i.session : i \in {j \in plan : due(j.to)}} \cap known
    IN  [state |-> [last |-> t, date |-> Date(t), plan |-> plan,
                    upto |-> Latest(past, t), open |-> Track(st.open \ ended, opens, closes)],
         sends |-> [opens |-> opens, closes |-> ended \cup closes]]

-----------------------------------------------------------------------------
(* Sending *)

\* Commands of one connection are carried out in the order they are given; that
\* one of them fails is left out.
Send(out) ==
    /\ unclosed' = (unclosed \cup (out.opens \ unopened)) \ out.closes
    /\ unopened' = (unopened \cup (out.closes \ (unclosed \cup out.opens))) \ out.opens
    /\ repeated' = (repeated \/ unclosed \cap out.opens # {} \/ unopened \cap out.closes # {})

CloseOpen(st) == [opens |-> {}, closes |-> st.open]

-----------------------------------------------------------------------------
(* The API and the clock *)

ClockMoves(d) ==
    /\ now + d \in Start .. MaxTime /\ ~stopped
    /\ now' = now + d
    /\ UNCHANGED <<api, notice, feed, state, main, refresh, stopped,
                   wireVars, demoBounds>>

\* The camera is saved, disabled, enabled or deleted; until the feed listens,
\* nobody hears of it.
ApiChanges(there) ==
    /\ changes < MaxChanges /\ ~stopped
    /\ changes' = changes + 1
    /\ api' = [there |-> there, version |-> api.version + 1]
    /\ notice' = IF main.at \in {"wait", "subscribe"} THEN "lost" ELSE "under_way"
    /\ UNCHANGED <<now, feed, state, main, refresh, stopped, wireVars, draws>>

-----------------------------------------------------------------------------
(* refresh() *)

Fetching == [NoRefresh EXCEPT !.at = "fetching"]

\* Mutant: a call while one runs is dropped.
CallDropped == IF refresh.at # "idle" THEN refresh ELSE Fetching

\* A call while one runs makes it run once more.
Coalesced == IF refresh.at # "idle" THEN [refresh EXCEPT !.again = TRUE] ELSE Fetching

\* The notice arrives, or is lost with the connection, ...
NoticeArrives ==
    /\ notice = "under_way" /\ notice' = "none" /\ ~stopped
    /\ refresh' = Coalesced
    /\ UNCHANGED <<now, api, feed, state, main, stopped, wireVars, demoBounds>>

NoticeLost ==
    /\ notice = "under_way" /\ notice' = "lost" /\ ~stopped
    /\ UNCHANGED <<now, api, feed, state, main, refresh, stopped,
                   wireVars, demoBounds>>

\* ... which comes back, and then there may be news.
Reconnects ==
    /\ notice = "lost" /\ notice' = "none"
    /\ main.at \notin {"wait", "subscribe"} /\ ~stopped
    /\ refresh' = Coalesced
    /\ UNCHANGED <<now, api, feed, state, main, stopped, wireVars, demoBounds>>

\* The API reads its rows; its answer comes later, or not at all.
FetchCameras(fails) ==
    /\ refresh.at = "fetching"
    /\ refresh' = [refresh EXCEPT !.at = "fetched", !.found = api, !.failed = fails]
    /\ UNCHANGED <<now, api, notice, feed, state, main, stopped, wireVars, draws, changes>>

\* The list is taken in one go: a camera that left has its intervals closed.
Adopt(found) ==
    /\ feed' = found
    /\ state' = IF found.there THEN state ELSE NoState
    /\ IF feed.there /\ ~found.there
       THEN Send(CloseOpen(state)) /\ status' = FALSE ELSE UNCHANGED wireVars

RefreshAdopts ==
    /\ refresh.at = "fetched"
    /\ IF refresh.failed \/ stopped
       THEN UNCHANGED <<feed, state, wireVars>>
       ELSE Adopt(refresh.found)
    /\ refresh' = [refresh EXCEPT !.at = IF refresh.failed \/ stopped THEN "published" ELSE "adopted",
                                  !.found = Nobody]
    /\ UNCHANGED <<now, api, notice, main, stopped, demoBounds>>

\* Only cameras the feed has, and that are not silent, have their status set.
PublishStatus == status' \in {status, status \/ feed.there}

RefreshPublishes ==
    /\ refresh.at = "adopted"
    /\ refresh' = [refresh EXCEPT !.at = "published"]
    /\ PublishStatus
    /\ UNCHANGED <<now, api, notice, feed, state, main, stopped, sentVars, demoBounds>>

\* A refresh ends, and runs once more if it was called.
RefreshEnds ==
    /\ refresh.at = "published"
    /\ refresh' = IF refresh.again THEN Fetching ELSE [refresh EXCEPT !.at = "idle"]
    /\ UNCHANGED <<now, api, notice, feed, state, main, stopped, wireVars, demoBounds>>

\* The key of a camera that is silent expires.
StatusExpires ==
    /\ status /\ status' = FALSE /\ ~stopped
    /\ UNCHANGED <<now, api, notice, feed, state, main, refresh, stopped, sentVars, demoBounds>>

-----------------------------------------------------------------------------
(* runDemoFeed() *)

At(step) == main' = [at |-> step, holds |-> Silence]

\* waitForCameras() tries until the API answers; what it found is adopted.
WaitForCameras ==
    /\ main.at = "wait"
    /\ Adopt(api) /\ At("subscribe")
    /\ UNCHANGED <<now, api, notice, refresh, stopped, demoBounds>>

SubscribeNotices ==
    /\ main.at = "subscribe" /\ At("start")
    /\ UNCHANGED <<now, api, notice, feed, state, refresh, stopped, wireVars, demoBounds>>

\* The plans that may be drawn now: one if the day is new, none is needed else.
Drawn(st) ==
    IF st.date = Date(now) THEN {{}}
    ELSE IF draws + 1 \notin DOMAIN Days THEN {}
    ELSE {PlanOf(draws + 1, DayStart(now), day) : day \in Days[draws + 1]}

\* The plan is drawn from the state's own random numbers.
DrawsPlan(st) ==
    draws' = draws + (IF st.date # Date(now) THEN 1 ELSE 0)

\* The status shows at once; the live clock of a camera starts where its history
\* ends.
StartClock(drawn) ==
    /\ main.at = "start" /\ drawn \in Drawn(state) /\ PublishStatus
    /\ IF feed.there THEN /\ DrawsPlan(state)
                          /\ state' = LiveMessages(state, now, FALSE, drawn).state
       ELSE UNCHANGED <<state, draws>>
    /\ At("backfill")
    /\ UNCHANGED <<now, api, notice, feed, refresh, stopped, sentVars, changes>>

\* The history, unless it was written before: plans of its own for every day.
Backfill(before, today) ==
    /\ main.at = "backfill"
    /\ LET from == now - BackfillDays * DayLength
           plan == PlanOf(0, DayStart(from), before) \cup PlanOf(0, DayStart(now), today)
       IN  IF feed.there THEN Send(HistoryMessages(plan, from, now)) ELSE UNCHANGED sentVars
    /\ At("awake")
    /\ UNCHANGED <<status, now, api, notice, feed, state, refresh, stopped, demoBounds>>

BackfilledBefore ==
    /\ main.at = "backfill" /\ At("awake")
    /\ UNCHANGED <<now, api, notice, feed, state, refresh, stopped, wireVars, demoBounds>>

\* Each second: what is due is made, and held while snapshots are copied, ...
Tick(silent, drawn) ==
    /\ main.at = "awake" /\ feed.there
    /\ drawn \in Drawn(state) /\ DrawsPlan(state)
    /\ LET live == LiveMessages(state, now, silent, drawn)
       IN  /\ state' = live.state
           /\ main' = [at |-> "sends", holds |-> live.sends]
    /\ UNCHANGED <<now, api, notice, feed, refresh, stopped, wireVars,
                   changes>>

\* ... then sent; from time to time a refresh is due.
TickSends(resync) ==
    /\ main.at = "sends" /\ At("awake")
    /\ Send(main.holds) /\ PublishStatus
    /\ refresh' = IF resync THEN Coalesced ELSE refresh
    /\ UNCHANGED <<now, api, notice, feed, state, stopped, demoBounds>>

\* When the signal aborts, everything that is open is closed, as the engine does,
\* if Redis is there.
Finally(ready) ==
    /\ main.at \in {"wait", "awake"}
    /\ stopped' = TRUE /\ At(IF ready THEN "stopped" ELSE "cut_off")
    /\ IF ready THEN Send(CloseOpen(state)) /\ status' = FALSE ELSE UNCHANGED wireVars
    /\ state' = [state EXCEPT !.open = {}]
    /\ UNCHANGED <<now, api, notice, feed, refresh, demoBounds>>

-----------------------------------------------------------------------------
DemoNext ==
    \/ \E d \in Jumps : ClockMoves(d)
    \/ \E it \in BOOLEAN : ApiChanges(it) \/ FetchCameras(it)
    \/ NoticeArrives \/ NoticeLost \/ Reconnects
    \/ RefreshAdopts \/ RefreshPublishes \/ RefreshEnds \/ StatusExpires
    \/ WaitForCameras \/ SubscribeNotices \/ BackfilledBefore
    \/ \E ready \in BOOLEAN : Finally(ready)
    \/ \E drawn \in Drawn(state) :
          StartClock(drawn) \/ \E silent \in BOOLEAN : Tick(silent, drawn)
    \/ \E before, today \in Days[1] : Backfill(before, today)
    \/ \E resync \in BOOLEAN : TickSends(resync)

-----------------------------------------------------------------------------
(* Properties *)

DemoTypeOK ==
    /\ now \in Start .. MaxTime
    /\ api \in [there : BOOLEAN, version : Nat] /\ feed \in [there : BOOLEAN, version : Nat]
    /\ notice \in {"none", "under_way", "lost"}
    /\ feed.there \/ state = NoState
    /\ main.at \in {"wait", "subscribe", "start", "backfill", "awake", "sends", "stopped", "cut_off"}
    /\ refresh.at \in {"idle", "fetching", "fetched", "adopted", "published"}

\* Each interval is opened and closed once, whatever the clock, the silence of
\* the camera and its coming and going do: what is open and not closed on the
\* stream is what the feed remembers, but for what it holds back, and when it
\* has stopped nothing is left open.  (The two may change places: a camera that
\* leaves while its open is held has its close sent first.)
IntervalsClosed ==
    /\ ~repeated
    /\ main.at # "cut_off" =>
          (unclosed \cup main.holds.opens) \ (unopened \cup main.holds.closes) = state.open
    /\ unopened \subseteq main.holds.opens
    /\ main.holds.closes \subseteq unclosed \cup main.holds.opens
    /\ main.at = "stopped" => unclosed = {}

\* The status of a camera that left is not shown again, whatever is under way.
NoStatusOfGone == status /\ ~stopped => feed.there

\* After the last notice the feed has the cameras as they are, unless the fetch
\* failed: a change while a refresh is under way is not lost.
FollowsNotices ==
    notice = "none" /\ refresh.at = "idle" /\ ~refresh.failed /\ ~stopped /\ main.at # "wait"
        => feed = api

=============================================================================
