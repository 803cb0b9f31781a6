------------------------------- MODULE Ingest -------------------------------
(***************************************************************************)
(* The API's consumer of the Redis stream `events`                         *)
(* (apps/api/src/ingest/events-consumer.service.ts, ingest.service.ts):    *)
(* consumer api-1 of group `api` reads its own pending entries, else new   *)
(* ones, writes a batch in one Postgres transaction and acknowledges it.   *)
(* A transaction that fails because of an entry is retried entry by entry; *)
(* an entry that keeps failing becomes a DeadEvent row.  Every step where  *)
(* the process waits for Redis or Postgres is an action, so a crash, a     *)
(* failed call or a lost reply can fall between any two.                   *)
(*                                                                         *)
(* An entry is its position in the stream.  The message it carries is a    *)
(* position in Script, what the engine sent in send order; that position   *)
(* is also the message's time and, for a metric, its value.                *)
(***************************************************************************)
EXTENDS Naturals, Sequences, FiniteSets

CONSTANTS
    Cameras,       \* camera ids the engine sends for
    NoCamera,      \* the cameraId of a system message: null
    GroupCameras,  \* the cameras of the engine group that sends
    Keys,          \* event ids, session ids and metric keys
    Script,        \* the messages the engine sends, in order
    Faulty,        \* keys of the messages whose write Postgres may refuse
    Count,         \* COUNT of a read
    MaxAttempts,   \* MAX_ATTEMPTS
    MaxEntries,    \* bound: entries appended to the stream
    MaxTrouble,    \* bound: failed calls, crashes, losses, deleted cameras
    MaxLostReads   \* bound: lost replies to a read of new entries

Kinds == {"event", "engine_started", "open", "close", "metric", "invalid"}

\* `important`: severity above info, or an audit camera.
Message == [kind : Kinds, camera : Cameras \cup {NoCamera}, key : Keys,
            important : BOOLEAN]

ASSUME ScriptAssumption == Script \in Seq(Message)

\* An event and a session have an id of their own, a metric row is of one
\* camera, and the engine sends engine_started for none (services/engine).
ASSUME IdAssumption ==
    \A p, q \in 1 .. Len(Script) :
        Script[p].key = Script[q].key =>
            /\ {Script[p].kind, Script[q].kind} \subseteq
                   {"event", "engine_started"} => p = q
            /\ Script[p].kind = "open" /\ Script[q].kind = "open" => p = q
            /\ Script[p].kind = "metric" /\ Script[q].kind = "metric" =>
                   Script[p].camera = Script[q].camera
ASSUME BootAssumption ==
    \A p \in 1 .. Len(Script) :
        Script[p].kind = "engine_started" => Script[p].camera = NoCamera
ASSUME CameraAssumption ==
    NoCamera \notin Cameras /\ GroupCameras \subseteq Cameras
ASSUME FaultAssumption == Faulty \subseteq Keys
ASSUME CountAssumption == Count \in Nat \ {0} /\ MaxAttempts \in Nat \ {0}
ASSUME BoundAssumption ==
    MaxEntries \in Nat /\ MaxTrouble \in Nat /\ MaxLostReads \in Nat

VARIABLES
    stream,     \* Redis: the script position each entry carries
    trimmed,    \* Redis: entries 1 .. trimmed are no longer in the stream
    group,      \* Redis: the consumer group exists
    last,       \* Redis: the last entry delivered to the group
    pel,        \* Redis: delivered entries not acknowledged yet
    failures,   \* Redis: the hash ingest:failures
    db,         \* Postgres: the ingest tables
    cameras,    \* Postgres: the Camera rows
    pc,         \* where the consumer is
    mode,       \* what `work` is: the "batch", one entry ("each"), a "dead" one
    batch,      \* the entries of this read
    blank,      \* those of them that came without a msg field
    rest,       \* those the one-by-one pass has yet to try
    held,       \* cameras whose later entries wait
    work,       \* the entries of this transaction
    todo,       \* those of them not applied yet
    tx,         \* the tables as the transaction sees them
    known,      \* the cameras it read
    fresh,      \* the events it inserted
    trouble,    \* failed calls (not lost reads), crashes, losses, deletions so far
    lostReads,  \* lost replies to a read of new entries so far
    done,       \* history: entries committed or dead-lettered once
    gone,       \* history: entries Redis lost before they were acknowledged
    announced,  \* history: how often each event was pushed to the dashboard
    silenced    \* history: events whose push an interruption swallowed

redisVars == <<stream, trimmed, group, last, pel, failures>>
dbVars == <<db, cameras>>
batchVars == <<batch, blank>>
passVars == <<rest, held>>
txVars == <<work, todo, tx, known, fresh>>
envVars == <<trouble, lostReads>>
historyVars == <<done, gone, announced, silenced>>
vars == <<stream, trimmed, group, last, pel, failures, db, cameras, pc, mode,
          batch, blank, rest, held, work, todo, tx, known, fresh, trouble,
          lostReads, done, gone, announced, silenced>>

-----------------------------------------------------------------------------
(* Messages and rows.                                                      *)

Entries == 1 .. MaxEntries

Msg(e) == Script[stream[e]]

\* An Interval row: no row yet, open, or ended by its close or by a restart.
Interval == [state : {"none", "open", "closed", "restarted"}, start : Nat]

Tables == [events    : SUBSET Keys,
           evidence  : SUBSET Keys,
           intervals : [Keys -> Interval],
           metrics   : [Keys -> Nat],       \* 0: no row
           dead      : [Entries -> Nat]]    \* DeadEvent rows per entry

NoRows == [events    |-> {},
           evidence  |-> {},
           intervals |-> [s \in Keys |-> [state |-> "none", start |-> 0]],
           metrics   |-> [m \in Keys |-> 0],
           dead      |-> [e \in Entries |-> 0]]

\* The tables hold what entry e brought, or its dead letter.
Settled(d, e) ==
    \/ d.dead[e] > 0
    \/ /\ Msg(e).kind \in {"event", "engine_started"}
       /\ Msg(e).key \in d.events
    \/ /\ Msg(e).kind = "open"
       /\ d.intervals[Msg(e).key].state # "none"
    \/ /\ Msg(e).kind = "close"
       /\ d.intervals[Msg(e).key].state \in {"closed", "restarted"}
    \/ /\ Msg(e).kind = "metric"
       /\ d.metrics[Msg(e).key] # 0

\* `cameraOf`: null for a system message and for an entry that did not parse.
CameraOf(e) ==
    IF e \in blank \/ Msg(e).kind = "invalid" THEN NoCamera ELSE Msg(e).camera

\* The first n entries of a set, in stream order.
FirstOf(S, n) == {e \in S : Cardinality({f \in S : f < e}) < n}

\* New entries for the group.
Undelivered == {e \in 1 .. Len(stream) : e > last /\ e > trimmed}

Init ==
    /\ stream = <<>> /\ trimmed = 0 /\ group = FALSE /\ last = 0 /\ pel = {}
    /\ failures = [e \in Entries |-> 0]
    /\ db = NoRows /\ cameras = Cameras
    /\ pc = "group" /\ mode = "batch"
    /\ batch = {} /\ blank = {} /\ rest = {} /\ held = {}
    /\ work = {} /\ todo = {} /\ tx = NoRows /\ known = {} /\ fresh = {}
    /\ trouble = 0 /\ lostReads = 0
    /\ done = {} /\ gone = {} /\ silenced = {}
    /\ announced = [x \in Keys |-> 0]

-----------------------------------------------------------------------------
(* The consumer's loop (EventsConsumer.run).                               *)

\* The locals of processBatch go out of scope and the loop goes on at `at`.
Forget(at) ==
    /\ pc' = at /\ mode' = "batch"
    /\ batch' = {} /\ blank' = {} /\ rest' = {} /\ held' = {}
    /\ work' = {} /\ todo' = {} /\ tx' = db' /\ known' = {} /\ fresh' = {}

\* A call fails: the loop backs off, then reads again.
Throw == trouble < MaxTrouble /\ trouble' = trouble + 1 /\ Forget("read")

\* XGROUP CREATE events api 0 MKSTREAM; an existing group is left alone.
CreateGroup ==
    /\ pc = "group"
    /\ group' = TRUE /\ pc' = "read"
    /\ UNCHANGED <<stream, trimmed, last, pel, failures, dbVars, mode,
                   batchVars, passVars, txVars, envVars, historyVars>>

NoGroup ==
    /\ pc \in {"read", "resent"} /\ ~group
    /\ pc' = "group"
    /\ UNCHANGED <<redisVars, dbVars, mode, batchVars, passVars, txVars,
                   envVars, historyVars>>

\* processBatch: one transaction for the entries S of this read.
Process(S) ==
    /\ batch' = S /\ work' = S /\ blank' = {e \in S : e <= trimmed}
    /\ pc' = "begin"

\* XREADGROUP ... 0: an entry trimmed while pending comes without fields.
ReadPending ==
    /\ pc = "read" /\ group /\ pel # {}
    /\ Process(FirstOf(pel, Count))
    /\ UNCHANGED <<redisVars, dbVars, mode, passVars, todo, tx, known, fresh,
                   envVars, historyVars>>

\* Redis delivers the next new entries to the group: it moves its position
\* and puts them in the pending list, whether or not the reply arrives.
Deliver(S) ==
    /\ S # {}
    /\ \E m \in S : (\A e \in S : e <= m) /\ last' = m
    /\ pel' = pel \cup S
    /\ UNCHANGED <<stream, trimmed, group, failures>>

\* XREADGROUP ... > when nothing is pending.
ReadNew ==
    /\ pc = "read" /\ group /\ pel = {}
    /\ Deliver(FirstOf(Undelivered, Count))
    /\ Process(FirstOf(Undelivered, Count))
    /\ UNCHANGED <<dbVars, mode, passVars, todo, tx, known, fresh, envVars,
                   historyVars>>

\* The connection breaks after Redis delivered new entries.  The reader has
\* maxRetriesPerRequest null, so the client reconnects and sends the same
\* read of new entries again instead of failing it.
ReadReplyLost ==
    /\ pc \in {"read", "resent"} /\ group /\ (pc = "read" => pel = {})
    /\ lostReads < MaxLostReads /\ lostReads' = lostReads + 1
    /\ Deliver(FirstOf(Undelivered, Count))
    /\ pc' = "resent"
    /\ UNCHANGED <<dbVars, mode, batchVars, passVars, txVars, trouble, historyVars>>

ResentRead ==
    /\ pc = "resent" /\ group
    /\ Deliver(FirstOf(Undelivered, Count))
    /\ Process(FirstOf(Undelivered, Count))
    /\ UNCHANGED <<dbVars, mode, passVars, todo, tx, known, fresh, envVars,
                   historyVars>>

\* BLOCK ran out: an empty reply, and the next round reads pending entries.
ResentEmpty ==
    /\ pc = "resent" /\ group /\ Undelivered = {}
    /\ pc' = "read"
    /\ UNCHANGED <<redisVars, dbVars, mode, batchVars, passVars, txVars,
                   envVars, historyVars>>

-----------------------------------------------------------------------------
(* The transaction (IngestService.apply).                                  *)

BeginTx ==
    /\ pc = "begin"
    /\ tx' = db /\ known' = cameras /\ todo' = work /\ fresh' = {}
    /\ pc' = "apply"
    /\ UNCHANGED <<redisVars, dbVars, mode, batchVars, passVars, work,
                   envVars, historyVars>>

\* The next entry of the transaction, in stream order.
Current(e) == pc = "apply" /\ e \in todo /\ \A f \in todo : e <= f

\* Entry e leaves the tables as d and inserted the events E.
Applied(e, d, E) ==
    /\ tx' = d /\ todo' = todo \ {e} /\ fresh' = fresh \cup E
    /\ UNCHANGED <<redisVars, dbVars, pc, mode, batchVars, passVars, work,
                   known, envVars, historyVars>>

DeadLetter(d, e) == [d EXCEPT !.dead[e] = @ + 1]

\* A readable entry of kind k; a row needs its Camera row (foreign key).
Readable(e, k) == e \notin blank /\ Msg(e).kind = k

CameraKnown(e) ==
    /\ Msg(e).camera \in known \cup {NoCamera}
    /\ Msg(e).camera \in cameras \cup {NoCamera}

ApplyUnreadable ==
    \E e \in todo :
        /\ Current(e)
        /\ e \in blank \/ Msg(e).kind = "invalid"
        /\ Applied(e, DeadLetter(tx, e), {})

ApplyUnknownCamera ==
    \E e \in todo :
        /\ Current(e)
        /\ e \notin blank /\ Msg(e).kind # "invalid"
        /\ Msg(e).camera \notin known \cup {NoCamera}
        /\ Applied(e, DeadLetter(tx, e), {})

\* INSERT ... ON CONFLICT DO NOTHING, and the Evidence row of an important
\* event with a camera.
InsertEvent(d, e) ==
    [d EXCEPT !.events = @ \cup {Msg(e).key},
              !.evidence = IF /\ Msg(e).key \notin d.events
                              /\ Msg(e).camera # NoCamera /\ Msg(e).important
                           THEN @ \cup {Msg(e).key} ELSE @]

\* Mutant of Inserted: a redelivered event counts as inserted.
AllInserted(d, e) == {Msg(e).key}

\* The event as far as this transaction inserted it.
Inserted(d, e) == {Msg(e).key} \ d.events

ApplyEvent ==
    \E e \in todo :
        /\ Current(e) /\ Readable(e, "event") /\ CameraKnown(e)
        /\ Applied(e, InsertEvent(tx, e), Inserted(tx, e))

\* The sessions of a camera of the group that sends.
GroupSessions ==
    {Script[p].key : p \in {q \in 1 .. Len(Script) :
        Script[q].kind = "open" /\ Script[q].camera \in GroupCameras}}

\* engine_started ends what the previous boot left open.
EndOldBoot(d, time) ==
    [d EXCEPT !.intervals = [s \in Keys |->
        IF /\ s \in GroupSessions
           /\ d.intervals[s].state = "open" /\ d.intervals[s].start <= time
        THEN [d.intervals[s] EXCEPT !.state = "restarted"]
        ELSE d.intervals[s]]]

\* Only its first delivery ends intervals.
StartBoot(d, e) ==
    IF Inserted(d, e) = {} THEN d
    ELSE EndOldBoot(InsertEvent(d, e), stream[e])

ApplyEngineStarted ==
    \E e \in todo :
        /\ Current(e) /\ Readable(e, "engine_started") /\ CameraKnown(e)
        /\ Applied(e, StartBoot(tx, e), Inserted(tx, e))

OpenRow(d, e) ==
    IF d.intervals[Msg(e).key].state # "none" THEN d
    ELSE [d EXCEPT !.intervals[Msg(e).key] =
            [state |-> "open", start |-> stream[e]]]

ApplyOpen ==
    \E e \in todo :
        /\ Current(e) /\ Readable(e, "open") /\ CameraKnown(e)
        /\ Applied(e, OpenRow(tx, e), {})

\* Closing twice, or after a restart closed it, changes nothing; a close
\* without a row is a dead letter.
CloseRow(d, e) ==
    CASE d.intervals[Msg(e).key].state = "open" ->
           [d EXCEPT !.intervals[Msg(e).key].state = "closed"]
      [] d.intervals[Msg(e).key].state = "none" -> DeadLetter(d, e)
      [] OTHER -> d

ApplyClose ==
    \E e \in todo :
        /\ Current(e) /\ Readable(e, "close")
        /\ Msg(e).camera \in known \cup {NoCamera}
        /\ Applied(e, CloseRow(tx, e), {})

\* Mutant of MetricRow: the first value of a minute stays.
MetricRowOnce(d, e) ==
    IF d.metrics[Msg(e).key] # 0 THEN d
    ELSE [d EXCEPT !.metrics[Msg(e).key] = stream[e]]

\* ON CONFLICT DO UPDATE: the value applied last stays.
MetricRow(d, e) == [d EXCEPT !.metrics[Msg(e).key] = stream[e]]

ApplyMetric ==
    \E e \in todo :
        /\ Current(e) /\ Readable(e, "metric") /\ CameraKnown(e)
        /\ Applied(e, MetricRow(tx, e), {})

ApplyMessage ==
    \/ ApplyUnreadable \/ ApplyUnknownCamera \/ ApplyEvent
    \/ ApplyEngineStarted \/ ApplyOpen \/ ApplyClose \/ ApplyMetric

Commit ==
    /\ pc = "apply" /\ todo = {}
    /\ db' = tx /\ done' = done \cup work
    /\ pc' = "ack"
    /\ UNCHANGED <<redisVars, cameras, mode, batchVars, passVars, txVars,
                   envVars, gone, announced, silenced>>

\* COMMIT took effect and its answer was lost: a transient error, so nothing
\* is acknowledged, and nothing is pushed.
CommitReplyLost ==
    /\ pc = "apply" /\ todo = {}
    /\ db' = tx /\ done' = done \cup work
    /\ silenced' = silenced \cup fresh
    /\ UNCHANGED <<redisVars, cameras, lostReads, gone, announced>>
    /\ Throw

\* A transient error, or Postgres not answering the probe: rethrown, with
\* nothing acknowledged, counted or dead-lettered.
TxTransient ==
    /\ pc \in {"begin", "apply"}
    /\ UNCHANGED <<redisVars, dbVars, lostReads, historyVars>>
    /\ Throw

\* Postgres refuses the row of entry e: for its data, or because its camera
\* was deleted after the transaction looked it up.
Refuses(e) ==
    /\ e \notin blank
    /\ \/ Msg(e).key \in Faulty
       \/ Msg(e).camera \in known \ cameras

\* Mutant of TxFault: the rest of the failed transaction is not dropped.
TxFaultKeepsTodo ==
    /\ \E e \in todo : Current(e) /\ Refuses(e)
    /\ IF mode = "batch"
       THEN pc' = "each" /\ rest' = batch /\ work' = {}
       ELSE pc' = "count" /\ UNCHANGED <<rest, work>>
    /\ tx' = db /\ known' = {} /\ fresh' = {}
    /\ UNCHANGED <<redisVars, dbVars, mode, batchVars, held, todo, envVars,
                   historyVars>>

\* An error that is the fault of an entry, with Postgres up: the batch is
\* retried entry by entry, an entry of its own is counted.
TxFault ==
    /\ \E e \in todo : Current(e) /\ Refuses(e)
    /\ IF mode = "batch"
       THEN pc' = "each" /\ rest' = batch /\ work' = {}
       ELSE pc' = "count" /\ UNCHANGED <<rest, work>>
    /\ todo' = {} /\ tx' = db /\ known' = {} /\ fresh' = {}
    /\ UNCHANGED <<redisVars, dbVars, mode, batchVars, held, envVars,
                   historyVars>>

-----------------------------------------------------------------------------
(* Acknowledgement (ackThenPublish, ack, publish).                         *)

\* The push of the events this transaction inserted.
Publish ==
    announced' = [x \in Keys |->
                    announced[x] + (IF x \in fresh THEN 1 ELSE 0)]

\* Mutant of Xack: the whole read is acknowledged, held entries included.
XackBatch ==
    /\ pc = "ack"
    /\ pel' = pel \ batch /\ pc' = "hdel"
    /\ UNCHANGED <<stream, trimmed, group, last, failures, dbVars, mode,
                   batchVars, passVars, txVars, envVars, historyVars>>

Xack ==
    /\ pc = "ack"
    /\ pel' = pel \ work /\ pc' = "hdel"
    /\ UNCHANGED <<stream, trimmed, group, last, failures, dbVars, mode,
                   batchVars, passVars, txVars, envVars, historyVars>>

\* The XACK fails, applied or not; the push still goes out.
XackFails ==
    /\ pc = "ack"
    /\ pel' \in {pel, pel \ work}
    /\ Publish
    /\ UNCHANGED <<stream, trimmed, group, last, failures, dbVars, lostReads,
                   done, gone, silenced>>
    /\ Throw

\* HDEL of the failure counts, then the push and the next entry or batch.
Hdel ==
    /\ pc = "hdel"
    /\ failures' = [e \in Entries |-> IF e \in work THEN 0 ELSE failures[e]]
    /\ Publish
    /\ UNCHANGED <<stream, trimmed, group, last, pel, dbVars, envVars, done,
                   gone, silenced>>
    /\ IF mode = "batch"
       THEN Forget("read")
       ELSE /\ pc' = "each" /\ mode' = "each"
            /\ work' = {} /\ fresh' = {} /\ tx' = db /\ known' = {}
            /\ UNCHANGED <<batchVars, passVars, todo>>

HdelFails ==
    /\ pc = "hdel"
    /\ Publish
    /\ UNCHANGED <<redisVars, dbVars, lostReads, done, gone, silenced>>
    /\ Throw

-----------------------------------------------------------------------------
(* One entry at a time (oneByOne, countFailure).                           *)

\* Mutant of Waits: a system entry does not wait for the held cameras.
WaitsOwnCamera(e) == NoCamera \in held \/ CameraOf(e) \in held

\* Mutant of Waits: only a failed system entry holds others back.
WaitsSystemOnly(e) == NoCamera \in held

\* An entry waits for the next pass behind a held entry of its camera; a held
\* system entry holds everything back, and a system entry waits for any.
Waits(e) ==
    \/ NoCamera \in held
    \/ CameraOf(e) = NoCamera /\ held # {}
    \/ CameraOf(e) \in held

\* The next entry of the pass.
Each(e) == pc = "each" /\ e \in rest /\ \A f \in rest : e <= f

TryEntry ==
    \E e \in rest :
        /\ Each(e) /\ ~Waits(e)
        /\ rest' = rest \ {e} /\ work' = {e}
        /\ pc' = "begin" /\ mode' = "each"
        /\ UNCHANGED <<redisVars, dbVars, batchVars, held, todo, tx, known,
                       fresh, envVars, historyVars>>

SkipEntry ==
    \E e \in rest :
        /\ Each(e) /\ Waits(e)
        /\ rest' = rest \ {e}
        /\ UNCHANGED <<redisVars, dbVars, pc, mode, batchVars, held, txVars,
                       envVars, historyVars>>

\* The pass is over: the held entries are read again after a pause.
PassDone ==
    /\ pc = "each" /\ rest = {}
    /\ UNCHANGED <<redisVars, dbVars, envVars, historyVars>>
    /\ Forget("read")

\* Mutant of CountFailure: the count does not outlive the pass.
CountInMemory ==
    /\ pc = "count"
    /\ \E e \in work : held' = held \cup {CameraOf(e)}
    /\ work' = {} /\ pc' = "each"
    /\ UNCHANGED <<redisVars, dbVars, mode, batchVars, rest, todo, tx, known,
                   fresh, envVars, historyVars>>

\* HINCRBY; the client may send it a second time when the connection breaks
\* before the answer, and Redis counts both.
CountFailure ==
    /\ pc = "count"
    /\ \E e \in work, times \in 1 .. 2 :
        /\ trouble' = trouble + times - 1 /\ trouble' <= MaxTrouble
        /\ failures' = [failures EXCEPT ![e] = @ + times]
        /\ IF failures'[e] < MaxAttempts
           THEN /\ held' = held \cup {CameraOf(e)} /\ work' = {}
                /\ pc' = "each" /\ UNCHANGED mode
           ELSE /\ mode' = "dead" /\ pc' = "bury"
                /\ UNCHANGED <<held, work>>
    /\ UNCHANGED <<stream, trimmed, group, last, pel, dbVars, batchVars, rest,
                   todo, tx, known, fresh, lostReads, historyVars>>

\* The HINCRBY fails, applied or not.
CountFails ==
    /\ pc = "count"
    /\ \E e \in work, times \in 0 .. 1 :
        failures' = [failures EXCEPT ![e] = @ + times]
    /\ UNCHANGED <<stream, trimmed, group, last, pel, dbVars, lostReads,
                   historyVars>>
    /\ Throw

\* The last attempt: a DeadEvent row, then the acknowledgement.
Bury ==
    /\ pc = "bury"
    /\ \E e \in work : db' = DeadLetter(db, e)
    /\ tx' = db' /\ done' = done \cup work
    /\ pc' = "ack"
    /\ UNCHANGED <<redisVars, cameras, mode, batchVars, passVars, work, todo,
                   known, fresh, envVars, gone, announced, silenced>>

\* The insert fails, or its answer is lost.
BuryFails ==
    /\ pc = "bury"
    /\ \/ UNCHANGED <<db, done>>
       \/ /\ \E e \in work : db' = DeadLetter(db, e)
          /\ done' = done \cup work
    /\ UNCHANGED <<redisVars, cameras, lostReads, gone, announced, silenced>>
    /\ Throw

-----------------------------------------------------------------------------
(* The environment.                                                        *)

\* The consumer looks at the stream only when it reads, so an XADD or a trim at
\* any other moment is the same as one just before the next read: only those
\* are steps here.
Reading == pc \in {"group", "read", "resent"}

\* The engine's XADD: in send order; a message may be dropped before it gets
\* here or arrive twice in a row (EventStream, InSendOrder).
Xadd ==
    /\ Reading
    /\ Len(stream) < MaxEntries
    /\ \E p \in 1 .. Len(Script) :
        /\ Len(stream) > 0 => stream[Len(stream)] <= p
        /\ stream' = Append(stream, p)
    /\ UNCHANGED <<trimmed, group, last, pel, failures, dbVars, pc, mode,
                   batchVars, passVars, txVars, envVars, historyVars>>

HasRows(d, c) ==
    \E p \in 1 .. Len(Script) :
        /\ Script[p].camera = c
        /\ \/ Script[p].key \in d.events
           \/ d.intervals[Script[p].key].state # "none"
           \/ d.metrics[Script[p].key] # 0

\* A superadmin deletes a camera; its rows, also uncommitted ones, forbid it.
RemoveCamera ==
    /\ trouble < MaxTrouble /\ trouble' = trouble + 1
    /\ \E c \in cameras :
        /\ ~HasRows(db, c) /\ ~HasRows(tx, c)
        /\ cameras' = cameras \ {c}
    /\ UNCHANGED <<redisVars, db, pc, mode, batchVars, passVars, txVars,
                   lostReads, historyVars>>

\* XADD MAXLEN ~: the oldest entry leaves the stream (a backlog of a million).
Trim ==
    /\ Reading
    /\ trimmed < Len(stream) /\ trouble < MaxTrouble
    /\ trouble' = trouble + 1 /\ trimmed' = trimmed + 1
    /\ gone' = gone \cup ({trimmed + 1} \cap Undelivered)
    /\ UNCHANGED <<stream, group, last, pel, failures, dbVars, pc, mode,
                   batchVars, passVars, txVars, lostReads, done, announced,
                   silenced>>

\* Redis restarts without its data, the group included; seen by the next call.
RedisLosesData ==
    /\ Reading \/ pc \in {"ack", "hdel", "count"}
    /\ trouble < MaxTrouble /\ group
    /\ trouble' = trouble + 1
    /\ trimmed' = Len(stream) /\ last' = Len(stream)
    /\ group' = FALSE /\ pel' = {} /\ failures' = [e \in Entries |-> 0]
    /\ gone' = gone \cup Undelivered \cup pel
    /\ UNCHANGED <<stream, dbVars, pc, mode, batchVars, passVars, txVars,
                   lostReads, done, announced, silenced>>

\* The API process dies and starts again; a transaction is rolled back.
Crash ==
    /\ trouble < MaxTrouble /\ pc # "group"
    /\ trouble' = trouble + 1
    /\ silenced' = IF pc \in {"ack", "hdel"} THEN silenced \cup fresh
                                             ELSE silenced
    /\ UNCHANGED <<redisVars, dbVars, lostReads, done, gone, announced>>
    /\ Forget("group")

Consumer ==
    \/ CreateGroup \/ NoGroup \/ ReadPending \/ ReadNew
    \/ ResentRead \/ ResentEmpty
    \/ BeginTx \/ ApplyMessage \/ Commit \/ TxFault \/ Xack \/ Hdel
    \/ TryEntry \/ SkipEntry \/ PassDone \/ CountFailure \/ Bury

Failing ==
    \/ ReadReplyLost \/ CommitReplyLost \/ TxTransient \/ XackFails
    \/ HdelFails \/ CountFails \/ BuryFails \/ Crash

Environment == Xadd \/ RemoveCamera \/ Trim \/ RedisLosesData

Next == Consumer \/ Failing \/ Environment

Spec == Init /\ [][Next]_vars

\* The loop runs as long as the process does; calls may fail only MaxTrouble
\* times, so it is not starved by failures.
FairSpec == Spec /\ WF_vars(Consumer)

-----------------------------------------------------------------------------
(* Properties.                                                             *)

RedisType ==
    /\ stream \in Seq(1 .. Len(Script)) /\ Len(stream) <= MaxEntries
    /\ trimmed \in 0 .. Len(stream) /\ last \in 0 .. Len(stream)
    /\ group \in BOOLEAN /\ pel \subseteq 1 .. last
    /\ failures \in [Entries -> Nat]

RowsType ==
    /\ db \in Tables /\ tx \in Tables
    /\ cameras \subseteq Cameras /\ known \subseteq Cameras
    /\ fresh \subseteq Keys

LoopType ==
    /\ pc \in {"group", "read", "resent", "begin", "apply", "ack", "hdel",
               "each", "count", "bury"}
    /\ mode \in {"batch", "each", "dead"}
    /\ batch \subseteq 1 .. last /\ blank \subseteq batch
    /\ rest \subseteq batch /\ work \subseteq batch /\ todo \subseteq work
    /\ held \subseteq Cameras \cup {NoCamera}

HistoryType ==
    /\ done \subseteq 1 .. Len(stream) /\ gone \subseteq 1 .. Len(stream)
    /\ announced \in [Keys -> Nat] /\ silenced \subseteq Keys
    /\ trouble \in Nat /\ lostReads \in Nat

TypeOK == RedisType /\ RowsType /\ LoopType /\ HistoryType

\* Nothing is acknowledged unwritten: an entry the group no longer holds is
\* in the tables or among the dead letters, whatever failed or crashed in
\* between, unless Redis itself lost it.
AckedIsSettled ==
    \A e \in 1 .. last : e \notin pel \cup gone => Settled(db, e)

\* The camera whose order an entry keeps; none for a system message and for
\* one that fails the contract.
Lane(e) == IF Msg(e).kind = "invalid" THEN NoCamera ELSE Msg(e).camera

\* Entry a has its turn before b: both are of one camera; b is a system entry;
\* or a is one, and waits itself behind no entry that is still pending.
ComesFirst(a, b) ==
    /\ a < b
    /\ \/ Lane(a) = Lane(b)
       \/ Lane(b) = NoCamera
       \/ Lane(a) = NoCamera /\ \A x \in 1 .. a - 1 : x \notin pel

\* Per-camera order (oneByOne): no step writes or buries an entry before one
\* whose turn is earlier is written, buried or lost by Redis, whatever failed
\* and is held back, as long as no reply to a read of new entries is lost.  A
\* system entry that only waits behind a held camera lets the others flow.
OrderKept ==
    [][lostReads = 0 =>
         \A b \in done' \ done : \A a \in 1 .. Len(stream) :
            ComesFirst(a, b) => a \in done' \cup gone']_vars

\* An engine_started that was written ends every interval the previous boot
\* left open and nothing the new boot opened.
RestartSplitsBoots ==
    lostReads = 0 =>
      \A p \in 1 .. Len(Script) :
        LET m == Script[p] IN
        /\ m.kind = "engine_started" /\ m.key \in db.events =>
             \A s \in GroupSessions :
                db.intervals[s].state = "open" => db.intervals[s].start > p
        /\ m.kind = "open" /\ db.intervals[m.key].state = "restarted" =>
             \E q \in p .. Len(Script) :
                Script[q].kind = "engine_started" /\ Script[q].key \in db.events

Drained == pel = {} /\ Undelivered = {}

\* The value a metric ends with, redeliveries included, is the newest one that
\* was not dead-lettered or lost.
MetricIsLatest ==
    Drained /\ lostReads = 0 =>
      \A e \in 1 .. Len(stream) :
        (/\ Msg(e).kind = "metric" /\ e \notin gone
         /\ e \in done /\ db.dead[e] = 0)
            => db.metrics[Msg(e).key] >= stream[e]

\* An event is pushed at most once and only when it is stored; a stored event
\* is pushed unless a crash or a lost COMMIT answer came in between.
PushedOnce ==
    /\ \A x \in Keys : announced[x] <= 1
    /\ \A x \in Keys : announced[x] = 1 => x \in db.events
    /\ \A x \in db.events :
        announced[x] = 1 \/ x \in silenced \/ (pc \in {"ack", "hdel"} /\ x \in fresh)

\* Whatever fails, every entry is in the end written or dead, and
\* acknowledged: one bad entry never blocks the rest.
EverythingSettles == <>[]Drained

\* "One consumer keeps per-camera order, which interval open/close pairs need":
\* a close that came after its open is never dead-lettered for want of it.
PairsKept ==
    \A b \in Entries : \A a \in 1 .. b - 1 :
        (/\ b <= Len(stream) /\ Msg(b).kind = "close" /\ db.dead[b] > 0
         /\ Msg(a).kind = "open" /\ Msg(a).key = Msg(b).key)
            => a \notin done \/ db.dead[a] > 0

\* "Every write is idempotent (...), so an entry delivered twice changes
\* nothing."
DeliveredTwiceChangesNothing ==
    \A e \in 1 .. Len(stream) : db.dead[e] <= 1

=============================================================================
