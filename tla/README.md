# Zoo Vision in TLA+

Zoo Vision watches camera streams: an **engine** (Python, `services/engine`) runs one
worker thread per camera, each with a use case pipeline on a shared model, and sends
events, intervals and metrics to a Redis stream; an **API** (NestJS, `apps/api`) stores
them in Postgres, keeps versioned camera configs and models, pins evidence, deletes old
data and pushes live changes to the dashboard. Paths below are relative to the
repository (`services/...`, `apps/...`).

This directory models the parts where the order of things matters: threads, queues,
retries, lost answers, crashes and superseded changes. TLC checks every module on small
instances; TLAPS proves nearly all of the safety properties for every value of the constants.

    tlc -config MCIngest.cfg MCIngest        # one run
    tlapm IngestProofs.tla                   # one proof module

## 1. The system and its components

| Component | Code | State | Modelled by |
|---|---|---|---|
| event sender | `services/engine/core/event_stream.py` | bounded buffer, drop counts, the message in flight | `EventStream` |
| stream consumer | `apps/api/src/ingest/` | consumer group and pending list, failure hash, one transaction, ingest tables | `Ingest` |
| camera worker | `services/engine/core/worker.py` | generations, change queue, pipeline, detector, stream, reported state | `CameraWorker` |
| model pool | `services/engine/core/model_pool.py` | one call queue and thread per model, handle counts | `ModelPool`, refining `ModelHandles` |
| supervisor and status | `services/engine/core/supervisor.py`, `status.py`, `config_listener.py` | workers by camera, sync request, status keys in Redis | `Delivery` (partly) |
| config versions | `apps/api/src/cameras/`, `engine-internal/` | versions of a camera, its active one | `Cameras`, `Delivery` |
| offline detection | `apps/api/src/jobs/offline.job.ts`, `status/` | open `camera_offline` intervals against status keys | `Cameras`, `LivePush` |
| stream and recorder paths | `apps/api/src/mediamtx/` | MediaMTX paths by camera | `Cameras` (partly) |
| model registry | `apps/api/src/models/` | model rows and files, job lists in Redis | `ModelRegistry` (partly) |
| evidence and retention | `apps/api/src/evidence/`, `jobs/`, `site-settings/`, `system-log/` | pins, clips, day folders, settings, disk level | `Recordings`, `Site`, `Disks` (partly) |
| exports | `apps/api/src/exports/`, `csv/` | PDF jobs and their files, CSV streams | `Exports`, `Pages`, `Reports` |
| reports | `apps/api/src/reports/`, lists of events, intervals, metrics, audit, logins | cursors, buckets | `Pages`, `Reports` (partly) |
| auth and users | `apps/api/src/auth/`, `users/`, `api-tokens/` | users, sessions, lockout and rate keys, tokens | `Accounts`, `Logins` (partly) |
| live push | `apps/api/src/live/`, `redis/` | rooms, subscriptions, merged changes, cached camera list | `Channels`, `Accounts`, `LivePush` (partly) |
| media and playback | `apps/api/src/media/`, `debug/` | viewers of debug frames, clips on request | `Channels`, `Recordings` (partly) |
| deployment and demo | `apps/api/src/demo/`, compose files | the demo's plan of the day, its open sessions | `DemoFeed` (partly) |
| use case pipelines, snapshots and boxes, contracts, Nx plugin | see section 7 | | no |

### How they interact

    operator --save--> config versions --notify--> config listener --request_sync--> supervisor
                              ^                                                          | update / stop
                              |--------------- snapshot (HTTP) --------------------------|
                                                                                         v
    model registry --jobs--> model jobs        model pool <--acquire/call/release-- camera worker --> pipelines
        ^ reports                |                                                       | send
        '------------------------'                                                       v
    Postgres <--transaction-- stream consumer <--XREADGROUP-- Redis stream <--XADD-- event sender, demo feed
        |                            |--push--> live gateway --> dashboard <-- status keys (status publisher)
        |-- pin job, retention, sweep, PDF job --> files (clips, day folders, models, reports)
        |-- path sync --> MediaMTX               |-- offline job (reads the status keys)
        '-- lists, exports, reports

### Component by component

**Event sender.** Operations: `send` (any camera thread, never waits), the sender thread
(take the head, XADD, pop it, report drops, back off), `stop`. Hard: the XADD runs
outside the lock while a full buffer drops its head; a timed-out XADD may have been run;
the report of drops competes for room with what it reports. Correct when the buffer is
bounded, what reaches Redis is in send order, every message is somewhere or counted, the
buffer drains once Redis is back, and `stop` ends the thread.

**Stream consumer.** Operations: create the group, read pending entries or new ones, one
transaction per batch, the one-by-one pass after an entry's fault, count a failure,
bury a dead letter, acknowledge, push. Hard: a failure, a lost answer or a crash between
any two of them; an entry that fails must hold back what depends on its order;
redelivery. Correct when nothing is acknowledged that is not written, order per camera
holds, a restart of the engine splits the intervals of its boots, and one bad entry
never blocks the rest.

**Camera worker.** Operations: `update`, `stop`, loaders (`_prepare`), stream starters
(`_start_stream`), and the worker thread (apply an identity, a stream, a settings change;
process a frame; clean up). Hard: results of slow helpers that arrive after something
newer was requested; checks made under the lock and used after it; a thread that dies.
Correct when no detector or stream leaks, the version never goes back, what is at rest is
the newest config or a reported error, and a stop ends everything.

**Model pool.** Operations: `acquire`, `load`, `call` with its timeout, `release`,
`submit`, `stop`, the model thread's batches with a carried item and a sentinel, `close`.
Hard: the queue is fed outside the pool's lock; a load runs outside it; the last release
and a new acquire of the same model; a caller that gave up on a call the thread still
holds. Correct when a handle is usable until the pool closes, every call in the queue is
ahead of the sentinel and answered with its own arguments, and every loaded model is
freed exactly when its last handle goes.

**Supervisor, status, config versions.** Operations: save, roll back and edit a camera;
notify; the snapshot of two queries; `request_sync`, `sync`, `reconcile`, `check_stalls`,
a worker's start and stop; publish and forget of a status key. Hard: notifications and
answers get lost, a stop runs outside the lock, a late delete hits the successor's key,
two saves on one base version. Correct when the newest saved version comes to be applied
or refused and shown, a camera never has two live workers, and no version is replaced.

**Offline detection, stream paths.** The offline job reads the cameras and the status
keys one after the other and writes intervals; the path sync merges requests into one
pass and repairs paths every minute. Hard: each of its awaits lets a request change the
row. Correct when the path is what the row says as soon as nothing is under way.

**Model registry.** Upload, rescan and adoption, validation and conversion jobs, reports
of the engine, selection by a config, removal. Hard: a file and a row cannot be written
at once; a report comes late or twice; a config may take a model that is being removed.
Correct when a READY model has its file and can be run, a decision stands, and a model in
use stays.

**Evidence and retention.** An event asks for a clip, the pin job cuts it, a viewer or a
keep may come first, retention deletes. Hard: a temporary file and a rename, then a row;
footage that goes before the cut; a day that is still being kept. Correct when what a row
says of its clip is true and a viewer is not told "no recording" while there is one and
playback answers.

**Site settings, sweep, disks.** One cached row that jobs read without awaiting; the
sweep of recordings of deleted cameras; a level per disk with hysteresis. Correct when
the copy follows the row, footage goes only as the settings say, and managers are told
once of each level.

**Exports, reports, lists.** PDF jobs like pins; keyset pages and CSV batches while rows
come in; sums over buckets cut at local midnights and hours. Correct when a DONE job has
its file, no row is missed or repeated, and no second is lost or counted twice when the
clocks change.

**Auth, users, live push.** Login with lockout and throttle, sessions in Redis, role and
password changes that must end sessions and sockets; rooms that share one subscription
per channel; merged `data.changed`; a status list read from a cache. Hard: the row locks
of one request against the reads of another, an event lost between two processes, a
SUBSCRIBE and an UNSUBSCRIBE on the way at once. Correct when revoked access ends, the
last superadmin stays, and who listens is told.

**Demo feed.** Plays the engine: a history, a day's plan, live messages held while the
clock stands still, a refresh of the cameras. Correct when each interval opens and closes
once and a camera that left has no status.

## 2. The modules

### EventStream (`services/engine/core/event_stream.py`)

Each critical section of `_cond` is one action, and so is each outcome of an XADD:
accepted, unreachable, accepted with a lost reply, refused. `queue` is `_queue`, `pc` the
place of the sender thread, `inflight` the message it took, `redis` how Redis answers.
`Enqueue` is `_enqueue` with its overflow; `PopInflight` is the identity check before the
pop (a message is named by the order it was sent in, which stands for object identity);
`ReportDrops` is `_report_drops`. The backoff has no length.

### Ingest (`apps/api/src/ingest/events-consumer.service.ts`, `ingest.service.ts`)

Every place where the process awaits Redis or Postgres is the end of an action. `pc` says
where the loop is, `mode` whether the transaction is for the batch, for one entry of the
one-by-one pass, or for an entry given up. `stream`, `last`, `pel`, `failures` are the
Redis side; `db` and `tx` are the tables as committed and as the open transaction sees
them. `ApplyMessage` is `applyMessage` with one operator per kind of message;
`TxFault` is an error that an entry causes, `TxTransient` one that it does not (the loop
starts over). `XackFails`, `HdelFails`, `CountFails`, `BuryFails`, `CommitReplyLost`,
`ReadReplyLost` and `Crash` are the failures, `Trim`, `RedisLosesData` and `RemoveCamera`
what happens around it. `ReadReplyLost` with `ResentRead` is what the reader's connection
does because it is made with `maxRetriesPerRequest: null`: the client sends the same read
again.

A message is its position in the constant `Script`, the engine's messages in send order;
the position is also its time and, for a metric, its value. So "newer" is simply
"further in the script".

### CameraWorker (`services/engine/core/worker.py`)

Each critical section of `_lock`, and each call outside it that waits or fails, is one
action. The caller's side: `Update` (with `_retry_load`), `Ignore`, `Take`,
`RequestInvalid`, `RequestSettings`, `Stop`. One loader per settings generation, one
starter per stream generation. The worker thread takes the queue and applies one change
after the other: `ApplyIdentity`, `CheckStream` then `SwapStream`, `CheckSettings` then
`LoadFirst`, `Refuse`, `Build` and `Install`, or `Reconfigure`. `Leave` and `Cleanup` are
`_cleanup`, reached by a stop (`LoopEnds`) or by an error (`Die`). Detectors and streams
are named by the generation they were made for, `held` and `live` are those acquired or
started and not given back. `config`, `given`, `applied` are positions in `Script`, the
configs the snapshots bring. A pipeline that fails to start or to take settings is
`Refuse`, whatever the reason, within the bound on failures.

Left out: pixels and fps, `stalled()` and `died()` (they only read), the set of versions
already reported (it only spares a second event), a stop before `start()`.

### ModelPool and ModelHandles (`services/engine/core/model_pool.py`)

Entries are numbered as they are created. A caller (a camera worker) is at one place `at`
of `acquire`, `call` or `release`; a model thread is at one place `thread` of `_run`, with
`queue`, the `batch` it collected and the `carry` it put aside because its arguments
differ. Every locked section is one action, as is every wait outside the locks: for the
loader, for `ready`, for an answer, for the thread to end. A request is what its caller
waits for in `asked`; a request given up (`GiveUp`, the call's timeout) stays with the
thread, whose late answer must reach nobody.

`ModelHandles` is what the pool promises, without locks, threads or counts: users join a
model, get it once it is loaded, and it goes with the last of them or when the pool
closes. `ModelPool` implements it under the mapping `Handles`: `open` is `~closed`,
`current` the map of entries, `users` and `granted` the callers by their place, `loaded`
the entries that have had a thread.

### Delivery (`services/engine/core/supervisor.py`, `status.py`, `config_listener.py`)

One camera: the supervisor with its sync (read the camera and its version, reconcile),
`check_stalls`, one stopper thread per worker it stops (which `_stop_workers` may give up
on), workers by the order of their start, and the publisher of status keys with the
deletes. A sync may be asked for at any time (`RequestSync`: a notification, a new
subscription) and need not be: the timer starts one anyway. Each version is good, refused
by the pipeline, invalid (its settings do not parse) or unreadable (its snapshot entry does
not), as `KindsOf` allows. Of a worker the model has what `CameraWorker` shows: the config
it was given, the change in flight, the version its pipeline runs, the version
its error is about, whether a load is owed (`Given`, `Apply`, `Refuse`, `LoadFails`), and
whether it runs, hangs, died or ended. `RestartConfig` is what a successor starts with. The
key of a worker is written while it is `fresh`: in the 15 s after its start or a frame
(`FrameDone`, `GoesStale`), so a worker without a pipeline loses it (`Expire`).

### Api: the parts of the API

The API is one Node process: between two awaits nothing else runs, so an action ends
where the code awaits Redis, Postgres, a file or an HTTP call, and each call may fail.
`Api` composes thirteen modules in one specification with fourteen parts: `part` says
which of them this behaviour is about, and the others rest, because they share no
variable. What one does to another is an action of the module that feels it.

* **Cameras**: `camera` is the row, `versions` its config versions, `path` MediaMTX's
  path. A request of an operator (create, save or roll back, edit, remove) is cut into
  what it reads, its transaction, and its request for a path sync; `Sync` and `Reconcile`
  are `path-sync.service.ts` with its coalescing; `OfflineTick` is the offline job with
  its two reads; `KeyChanges` is the engine, `ApiRestarts` a restart between any two.
* **ModelRegistry**: `Person` is an upload, a validation, a conversion or a removal step by
  step (`CreateRow`, the file, the queue); `Rescan` and adoption; `ModelJobs` the engine
  that takes a job and reports; `AnyFlow` the conversion's report, which stores a new
  model. Content stands for a file, so equal hashes are equal contents.
* **Recordings**: `IngestEvent` (the row the consumer writes with an event), `PinJob` with
  claim, cut, rename and `settle`, `KeepInserts` and `KeepRequeues` (the evidence service),
  `ViewClip` (the kept file, looked for by `StatKept` and opened by `SendKept`, or playback,
  with why a viewer was refused), `Retention`, `FootageGoes` (MediaMTX's own deletion and
  the space guard), `SwitchStream` and `LengthenClips` (edits of the camera), `JobsCrash`. A
  row keeps the end of its clip as of when it was queued (`runAt`), a cut takes the
  camera's of now (`clipAfter`).
* **Exports**: `CreateExport`, the tick through Gotenberg, expiry, and a download that reads
  the row before it opens the file.
* **Site**, **Disks**: the settings service with its copy and its loads; the sweep with the
  cameras it knows and the folders it saw before; the disk round, one folder after the
  other, with hysteresis and one message per level.
* **Accounts**, **Logins**: the requests that change a user with their row locks, the end
  of sessions, the event to the gateway, a socket's handshake and the gateway's recheck; a
  login with its lockout keys, throttle, login log, and API tokens.
* **Channels**, **LivePush**: `RedisPubSub` with one entry per channel, commands answered
  in order on the `wire`; the boxes relay and the viewers of debug frames; the merger of
  `data.changed`; the status tick with a cached list of ids, its timeout and late answers.
* **Pages**, **Reports**: each list and CSV export with its own keyset while rows come in;
  the buckets of a range cut on a wall clock whose offset changes once.
* **DemoFeed**: `main` is the start and the tick loop, `refresh` the refresh, `state` the
  open session with its plan; `unclosed` and `unopened` are what the stream has seen.
  `Days` are the plans that a day's random draw can give.

### Library operators

`Cameras` takes `Functions`, `MCEventStream` takes `MapThenSumSet` and `Range`; the rest
use the standard modules. `Reports` says of each bucket how many instants it has, not what
their sum is: a fold over a set is defined by recursion, out of the provers' reach, and
with each instant in one bucket the sum follows.

## 3. The runs

| Run | Question | Bounds, and why they are enough |
|---|---|---|
| `event_stream` | do order, accounting, `stop` and draining hold? | buffer 2, 4 sends, 1 lost reply: overflow of the message in flight, of a queued message and of a report all happen |
| `event_stream_report` | does the count of drops arrive? (it does not, see section 5) | same |
| `ingest` | do the safety properties hold through two boots of an engine? | 3 entries of a 6-message script (the engine may skip messages) in batches of up to 3, so that a system entry can wait between two cameras; 2 attempts, any two failures: every pair of failures in one batch and its one-by-one pass; lost replies to reads are left to `ingest_settles` |
| `ingest_settles` | does every entry end settled, also after a read is sent again? | all six kinds of message; one read whose reply is lost and one failure anywhere, both in one behaviour (each has a bound of its own), besides the entries Postgres refuses |
| `ingest_pairs` | do open and close stay in order? (not after a resent read) | one session, batches of 1 |
| `ingest_dead` | does a redelivery change nothing? (a dead letter is repeated) | one session |
| `camera_worker` | leaks, order of versions, what a worker at rest shows | four configs, one of them invalid, two models, use cases, streams and names, one failure: a change can be superseded in each of its phases |
| `camera_worker_ends` | does the newest version come to run, does a stop end everything? | three versions that change the model and change it back, which is what a second load of a change needs; one failure |
| `camera_worker_error` | is the newest version always applied or refused? (no) | two configs, one failed load |
| `model_pool` | does the pool do what `ModelHandles` promises, and does nobody wait for ever? | two cameras on one model, 3 acquires (so a model goes and comes again), 2 calls each with two kinds of arguments, batches of 2 (full, cut by the sentinel, with a carried item), 1 hung call |
| `delivery` | does the newest version come to run and be shown, by one worker? | 3 events among saves, edits and failures; the second version may be good, refused or unreadable, the third good or invalid, so a refusal is superseded, follows a good version, or is the last word |
| `api` | does each part of the API keep what it says consistent? | below |

What the properties say is above each of them in the modules. The ones that take most to
break: `NothingVanishes` (an overflow while an XADD runs), `OrderKept` and
`RestartSplitsBoots` (the one-by-one pass must hold back by camera and, for system
messages, everything), `AckedIsSettled` (a crash or a failure between COMMIT and XACK),
`NothingLeaks` (in every state, each detector and stream has exactly someone who will
give it back), `AppliedForward` (a slow load of an older version), `NewestRuns` (a failed
load is repeated, a change that lost its detector comes back), `CallsServed` (a call
behind the sentinel), `ImplementsHandles`, `StatusFollowsConfig` (a late delete of a
predecessor's key), `EvidenceIsTrue` (a crash between rename and row),
`ListenersHear` (an UNSUBSCRIBE on the way while a new listener joins), `SumsAreRight` (a
day of 23 or 25 hours), `IntervalsClosed` (a clock that jumps over a silent time).

### The run `api`

Its parts are explored one after the other in one run: a part that rests adds no states.
`api` has some properties of several parts, named in `Api.tla`:

| Property | is |
|---|---|
| `RowsHaveFiles` | `EvidenceIsTrue`, `ViewersGetClips` (Recordings), `DoneHasFile` (Exports), `ReadyIsSound` (ModelRegistry) |
| `ModelsStand` | `DecisionStands`, `UsedModelStays` (ModelRegistry) |
| `NobodyGetsIn` | `AccessEnds` (Accounts), `GuessesBounded`, `RevokedIsRefused` (Logins) |
| `DashboardsHear` | `ListenersHear` (Channels), `ChangesTold`, `StatusIsFresh` (LivePush) |
| `ReportsAreRight` | `PagesMissNothing` (Pages), `SumsAreRight` (Reports) |
| `DemoIsConsistent` | `IntervalsClosed`, `NoStatusOfGone`, `FollowsNotices` (DemoFeed) |
| `SiteIsKept` | `CopyFollowsRow`, `OldFootageGoes` (Site), `DisksAreTold` (Disks) |
| one part each | `VersionsKept`, `PathFollowsRow` (Cameras), `LastSuperadminStays` (Accounts) |

Why the bounds are enough:

* two operators of whom one is superadmin, two restricted settings, three requests and two
  lives of a camera: a save can be overtaken by a save, an edit, or a removal and a new
  camera with the same id; one failed call, restart or restart of MediaMTX;
* three models of which one is built in, one content that converts, three calls, one
  failure. A fourth call, with which a converted file that was refused as another's twin is
  validated again, passes too, but makes this part fourteen times as large; the proof is
  for any number;
* one clip with two attempts, two keeps or views, one switch, longer clips once, one
  failure (of a job, or an answer of playback); two PDF jobs with two
  attempts and two failures (a failure of the file and of the row);
* two users, two sessions, two callers and three requests: a pair that demote each other;
  two attempts with a limit of one failure; a token used before, while and after it ends;
* three sockets, three viewers and three relays on a channel, so one can go, one stay and
  one come while an answer is out; four commands on the way and two failures;
* four rows with two times and pages of two: ties within a page and over its edge, a row
  inserted before and behind the cursor;
* fifteen instants with an hour of two and a day of eight, three zones: no change, an hour
  repeated, an hour skipped. `ZonesAssumption` excludes the zones for which the buckets
  are wrong, see section 5; the proof is for all others;
* a demo day with a table and a day with a desk, and a clock that moves by one, by three (over
  a silence and over the resync) and back by one;
* two patchers of the settings, three days of recordings, two disks under two folders with
  four readings.

No symmetry set is used; where callers, sessions or patchers are interchangeable, the
idle one that starts is picked by `CHOOSE`, which keeps every behaviour up to renaming.

### Bounds

`MaxSends`, `MaxLostReplies`; `MaxEntries`, `MaxTrouble`, `MaxLostReads`; `MaxFailures`
and the length of `Script`; `MaxAcquires`, `MaxCalls`, `MaxHangs`; `MaxEvents`; and in the
API `MaxRequests`, `MaxLives`, `MaxModelCalls`, `MaxKeeps`, `MaxAccountCalls`, `MaxWire`,
`MaxGuesses`, `MaxCommits`, `MaxTime`, `MaxChanges`, `LastDay`, `MaxReadings` and the
`Max...Trouble` of each part. They appear only in guards, and the proofs hold for every
natural number in their place. (`MaxBatch`, `MaxAttempts`, `MaxPrints`, `LockoutFailures`, `MaxRange`,
`ListTicks`, `PageSize` are the code's own constants, made small.) `CHECK_DEADLOCK FALSE`
stands in each cfg because each system really stops: a stopped sender, worker or pool does
nothing more, and a consumer of a bounded stream ends with nothing left to fail.

### Fairness

* `EventStream`: weak fairness of the sender thread (an XADD ends by its 5 s timeouts) and
  of the thread that waits in `stop()` with a timeout. Redis owes nothing; `Drains` assumes
  that it comes back for good.
* `Ingest`: weak fairness of the consumer loop, which runs as long as the process. Failures
  are not fair and are bounded.
* `CameraWorker`: weak fairness of all threads together (each takes finitely many steps, so
  this is the same as fairness of each) and of the resync, which the supervisor repeats
  every 60 s with the newest config. New configs, stops, failures and the death of a thread
  are not fair.
* `ModelPool`: weak fairness of the callers' steps inside an operation, of the model threads
  and of `close`'s stops, together for the same reason: a loader returns or raises, a join
  has a timeout. Nobody has to acquire, call or release; a hung model call owes no return,
  and `CallersGoOn` says so.
* `Delivery`: weak fairness of the supervisor's loop (its timer starts a sync without a
  request), each stopper, each worker, the publisher, the frames of a stream that delivers
  and the expiry of keys; strong fairness of `CheckStalls`, which runs on a timer between
  syncs that disable it. Notifications, operators and failures owe nothing, and what fails
  is bounded.
* `api` states none: its properties are safety.

## 4. What is proved

For every value of the constants that satisfies the named assumptions of the modules:

| Theorem | Says |
|---|---|
| `EventStreamProofs!TypeCorrect` | `Spec => []TypeOK` |
| `EventStreamProofs!BufferBounded` | the buffer never exceeds `BufferSize`, reports included |
| `EventStreamProofs!SendOrder` | Redis gets the messages in send order |
| `EventStreamProofs!EveryLossCounted` | `dropped_total` misses no loss |
| `EventStreamProofs!NothingDisappears` | every message is in the buffer, in Redis or among the losses |
| `IngestProofs!TypeCorrect` | `Spec => []TypeOK` |
| `IngestProofs!NothingAckedUnwritten` | what the group no longer holds is in the tables or dead-lettered, unless Redis lost it |
| `IngestProofs!PerCameraOrder` | no entry is written or buried before one whose turn is earlier |
| `IngestProofs!EventsPushedOnce` | an event is pushed at most once, only when stored, and if stored unless an interruption swallowed the push |
| `IngestProofs!NewestMetricStays` | when all is acknowledged, a metric row has the newest value that counts |
| `IngestProofs!RestartEndsOldBoot` | a stored restart has ended what the old boot left open and nothing of the new one |
| `CameraWorkerProofs!TypeCorrect` | `Spec => []TypeOK` |
| `CameraWorkerProofs!NoLeaks` | every detector and stream has one owner who will give it back |
| `CameraWorkerProofs!NeverBack` | the pipeline never goes back to an older version |
| `CameraWorkerProofs!RunsWhatWasGiven` | the pipeline runs nothing newer than the newest config given |
| `CameraWorkerProofs!RunsNewestConfig` | at rest, the pipeline has the stream and the name of the newest config |
| `CameraWorkerProofs!ErrorIsShown` | at rest, a worker without a pipeline reports an error |
| `ModelPoolProofs!TypeCorrect` | `Spec => []TypeOK` |
| `ModelPoolProofs!HandlesUsable` | until the pool closes, a handle somebody has is of a mapped, loaded model whose thread runs |
| `ModelPoolProofs!ModelsFreed` | a loaded model is in the map or with somebody who will free it |
| `ModelPoolProofs!CallsAreServed` | a call that waits is ahead of the end mark of a thread that has not ended; an answer is for its own arguments |
| `ModelPoolProofs!PoolImplementsHandles` | the pool implements `ModelHandles` |
| `DeliveryProofs!TypeCorrect` | `Spec => []TypeOK` |
| `DeliveryProofs!OneLiveWorker` | a camera has at most one worker that nobody told to stop |
| `DeliveryProofs!NothingGoesBack` | no worker and no status runs or shows what was not saved; no worker is given an older config, and the version in the key goes back neither to an earlier worker's nor to an older one of the same worker |
| `CamerasProofs!VersionsAreKept` | no version is changed or dropped; only superadmins change what is restricted |
| `CamerasProofs!PathIsKept` | the path in MediaMTX is what the row wants when nothing is under way |
| `AccountsProofs!LastSuperadminIsKept` | no counted change takes the last active superadmin |
| `ApiProofs!TypesAreKept` | `ApiSpec => []ApiTypeOK`, the types of all thirteen parts |
| `ApiProofs!RowsAreRight` | `RowsHaveFiles`: a row that is KEPT, DONE or READY has its file, whole unless the camera's clips were made longer while it waited; a viewer is refused only for want of an answer, of footage, or past the days of a kept clip |
| `ApiProofs!DecisionsHold` | `ModelsStand`: what the engine decided stands, a model in use stays |
| `ApiProofs!NobodyIsLetIn` | `NobodyGetsIn`: revoked sessions, sockets and tokens end, guesses are bounded |
| `ApiProofs!DashboardsAreTold` | `DashboardsHear`: who listens is subscribed, each change is told, the status is fresh |
| `ApiProofs!TheDemoFollows` | `DemoIsConsistent`: intervals open and close once, the feed follows the cameras |
| `ApiProofs!TheSiteIsKept` | `SiteIsKept`: the settings in memory, the sweep of footage, the messages about disks |
| `ApiProofs!ReportsHold` | `ReportsAreRight`: a list or export read to its end has each row once, the buckets of a report have each second and start of an interval once and are those of the charts |
| `ApiProofs!PartsKeepTheirs` | `VersionsKept`, `PathFollowsRow` and `LastSuperadminStays` hold in the API too |

**EventStream.** `Bounded` is inductive together with the types, and proved rather than
checked. `InSendOrder` is not: it needs that the buffer itself is ordered, that everything
in Redis is older than everything in the buffer (equal for a repeat), and where the message
in flight stands between the two (`OrderInv`). `LossesCounted` needs that the losses are a
finite set. `NothingVanishes` needs that an accepted message is in Redis before it is
popped (`VanishInv`).

**Ingest.** `AckedIsSettled` speaks of entries after the XACK; the step that could break it
is the XACK itself, so the invariant carries what is known at each point before
(`SettledInv`): what was applied so far is in the transaction's tables
(`AppliedIsSettled`), after the COMMIT all of the work is in Postgres
(`CommittedIsSettled`), an entry trimmed before its delivery was counted as lost
(`TrimmedIsGone`). `ApplySettles` shows that a message is settled by its own row and that
no row of another takes that back; `Phases` says which sets are empty in which phase.

`OrderKept` is about steps, and needs to know what the pass over single entries may still
try (`OrderInv`): an entry that had its turn is before all that have not (`InTurn`) and is
acknowledged, or its camera is held, or it is a system entry that waits behind one that is
still pending (`HeldBack`); what the transaction works on waits behind nothing
(`OneInTurn`); a read leaves out no pending entry before one it takes (`ReadInTurn`); and
behind an acknowledged entry none of its camera is left (`AckInTurn`). A system entry that
waits is itself not in `held`, so entries of cameras that are not held flow past it, as
`ingest.service.spec.ts` wants: `ComesFirst` therefore gives a system entry its turn before
a later one only when nothing is pending before it. When Redis loses its data in the middle
of a pass, the pending list is empty and there is nothing left to keep in order.

`PushedOnce` needs that `fresh` is new to Postgres before the COMMIT, in Postgres and not
yet pushed after it (`PushInv`). `MetricIsLatest` holds at rest only; at any time an
acknowledged metric has no older value over it, in Postgres and in the open transaction
(`MetricInv`), because what the transaction applies next is no older than what it has
applied (`StreamSorted`, and `AckInTurn` for the metrics of one camera). For
`RestartSplitsBoots` the danger is an open of the old boot that is applied after the
restart was stored; `OpensBefore` says that every entry still to be acknowledged that
carries such an open finds its row, has lost its message, or names a deleted camera. A
COMMIT keeps it because of the order: an earlier entry that is pending is in the same
transaction as the restart.

The last two rest on what the engine sends: `IdAssumption` (event and session ids are
random and made for one message, a metric row's key names its camera) and `BootAssumption`
(`engine_started` is sent for no camera, `services/engine/main.py:50`). The scripts of the
runs satisfy both, TLC evaluates them.

**CameraWorker.** The types already need an argument: a settings generation is a config
taken or a failed load tried again, so the generations, the request under way and the
versions marked as failed never outnumber the configs and the failures (`Counts`).
`NothingLeaks` says what is held equals what the owners have, and a step that gives
something back breaks it if two owners have the same thing. So the invariant keeps them
apart: no two waiting changes have the same generation (`NoneTwice`), a change that comes
with a detector has a loader that is done, one that comes without has a loader that never
ran, and what the pipeline has is of a change that is gone (`DetectorOwners`,
`StreamOwners`). `AppliedForward` needs that versions rise with the generations
(`VersionsRise`, from `VersionAssumption`) and that a chosen change is of no older
generation than the one that runs (`AppliedBefore`): the check of the generation and the
swap are separate steps, and updates come in between. The same invariant gives
`RunsWhatWasGiven`. `FollowsConfig` and `NoSilentWait`
speak of a worker at rest, so the invariant says who still has what is newest until then:
the newest settings generation is settled or with a loader, the queue or the thread
(`NewestUnderWay`); the newest stream generation is of the newest config and in use or on
its way, and the one about to be swapped in is not older than the one in use
(`StreamWanted`, `StreamUnderWay`, which needs the owners of the streams); and the name
shown, or read for a pipeline being built, is the newest unless a change of it waits
(`LabelFollows`). A newest generation that is settled without a pipeline was refused
(`RefusalShown`).

**ModelPool.** The three safety properties and the refinement rest on one invariant in two
halves, checked by TLC on the run's instance before it was proved. `EntryInv` is about the
entries: where an entry that is not in the map may still be (`Places`, `StopsUnmapped`),
that only one caller creates and loads it (`OneCreator`, `LoadsEnd`), and that the count
under the lock is the number of callers at the places that own a handle (`Counted`). That
last part makes `MappedLives` inductive: the entry leaves the map in the section in which
the count reaches zero, so nobody can hold a model whose thread is told to end. `CallInv` is
about requests: a caller waits for the request it sent and no other (`Asking`), each live
request is at one place of its own entry (`InLine`, `Batches`), an answer is for the request
it was made for (`Answers`), and nothing comes into a queue behind the end mark
(`SentinelLast`), because a caller needs a handle to put a request and the mark follows the
last of them. The refinement is proved step by step: one lemma for each abstract action says
which steps of the pool take it, and every other step of the pool keeps the mapped variables.
`PoolAssumption` says only that the callers are finitely many and Main is none of them, that
the end mark and "no answer" are not taken for requests or arguments, and that the bounds
are natural numbers. That the batch `_run` collects exists (the
CHOOSE in `BatchLength`) needs a least number, which is proved from the well-foundedness of
the naturals.

**Delivery.** A start is safe because the map is empty then: `NoneWhileStopping` says so for
the successor that `check_stalls` starts after a stop, and `StartIsAlone` that whoever runs
unasked is in the map. The types need `VersionsCounted`. `NothingGoesBack` states the order
of what arrives: a version that is run or shown was saved before, the worker in the map is
never given an older version than it had, and the status key is never overwritten by an
earlier worker's status or with an older version of the same worker. No run checks it; TLC
found it and its invariant true of the run's model before it was proved.
The invariant compares the steps between reading and acting: what a sync has read is no
older than what any worker was given (`ConfigsInOrder`), and a status about to be written
is of the worker in the map or of one before it, names no version that worker has not
applied, and follows the one in the key (`StatusInOrder`) - there is one publisher, so a
second status cannot be read before the first is written, and a worker told to stop is out
of the map before it can end. The theorem is about the versions that run, which go forward
in a worker as `NeverBack` shows of `CameraWorker`. The error of a status does go back: a
load of an older version that fails late takes the place of a newer refusal (`LoadFails`;
`AppliedOrRefused`, section 5).

**Cameras.** A save was checked against its base in one transaction step and commits in a
later one. `SavesChecked` says that the check still holds then, if the camera is still the
same: versions are only appended, so the base is what it was, and a camera created again
has a higher life. The primary key refuses it unless the base is the last version. For the
path, `PassIsRight` says what each phase of a pass knows (the paths as listed, the row as
read), unless somebody is about to ask, a repetition is noted, or something failed. The
types (`CameraTypes`) need that an edit names fields and values of theirs (`EditsAssumption`)
and that what a request carries was read from a row.

**Accounts.** A change that would take a superadmin counts them with their rows locked. The
rows locked stay active superadmins, because every other write waits for them
(`LockedStay`), and they are two at least (`CountedHolds`), so one is left when one of them
is written. The exception in the property is a change that was not counted. `AccessEnds`
rests on `AccessInv`: a live session is of its user's password, or excused, or its user's
sessions are about to end (`SessionsMatch`); the session a login is about to start is
nobody else's (`LoginsApart`); and a socket that had to end when the recheck began is
closed or still in its list with the reason to close it (`BadAreListed`), which is what
keeps the two awaits of the recheck apart from the requests in between.

**Api.** Each part moves its own variables only (`PartsMove`), so each has an inductive
invariant of its own, and the theorems put them together.

* *Rows and files.* Exports: what is being printed is still queued until its result is
  written, retention works on old rows only (`PrintInv`, `ExpireInv`, `DownloadInv`), so a
  whole file is there when its row becomes DONE and stays until the row is old. Recordings:
  the rows of a pass stay queued and are past the end they were queued with (`PassInv`), so
  what it stores is whole or cut for longer clips (`KeptWell`); what it knows of its clip is
  true or the clip is beyond its days by now (`PinInv`), and retention takes nothing within
  them (`SweepInv`), so what a viewer saw kept is there to be sent (`ViewInv`). Models: for each place of each upload,
  validation, conversion and removal, what it knows of row and file (`FlowOk`). The heart is
  that the target of a conversion holds nothing or the export, never another's content
  (`TargetOk`), so a file that was found good is the file the row was made for (`RowOk`).
* *Who is let in.* `DoorInv`: a password is looked at only after it was counted, under the
  same key; a request that resolved its token late is of a token revoked for good.
* *Who is told.* `EntryInv`: Redis answers in order, so an entry that waits has its
  SUBSCRIBE last on the wire, one that is answered has no command left, and one without
  listeners has none on its way; relays and the watch are where the promise is (`RelayInv`,
  `WatchInv`, `AllListen`). `MergerInv`: what is owed is what the open window holds.
  `StatusInv`: a list is as old as its ticks say, or in its last one (`ListsAge`).
* *The demo.* `WireInv`: what is held back opens nothing that is open on the stream and
  closes nothing twice, and the stream with what is held has open what the feed remembers.
  That needs sessions to be different (`PlanInv`: a session is a draw of a plan and the time
  it opens). `NewsInv`: with no notice on its way, the feed or the refresh that runs has the
  newest list.
* *The site.* `SettingsInv`: unless two patches crossed, the one under way has written what
  the row is. `FootageInv`: a camera that a pass does not know was gone when the pass read
  the cameras, or came since and has no older file (`PassIsFair`). `DisksInv`: the
  severities told are those up to the level, and the level is not under a reading that was
  dealt with.
* *Lists.* Sent is what is up to the cursor (`SentIsPassed`), and a batch follows it without
  a gap (`BatchIsNext`). That a page has a last row, up to which a walk then is, is proved by
  counting the rows ahead of each (`FiniteSetTheorems`, and a least number from the
  well-foundedness of the naturals).
* *Reports.* Which instants a bucket has does not depend on the kind of bucket once
  `Divided` is known: buckets are not empty, each touches what is cut, and each instant is
  in one, the one an event at that instant is counted in. For days that rests on `Midnight`:
  an instant is at or after the instant of a midnight exactly when the wall clock shows that
  midnight or later, although the wall clock goes back. For hours and minutes it rests on
  the remainder by the step being the same on both clocks. The remainders are by a constant
  of any size, so quotients are compared by hand (`Apart`, `RemainderOf`, `Floored`).
  `Clipped` says that what is cut is where the interval lasts, also when the interval has
  no length, is open, or begins after the clock of the query.
* *Types.* Most follow from the invariants above; `DoorTypes` and `CameraTypes` add the rest.

The assumptions of these modules say only that bounds are natural numbers (at least one
attempt, day, tick or row on a page), that the names for "nothing" and "nobody" are not
those of somebody, and that sets which are counted are finite. `ZonesAssumption` says which
changes of a clock the buckets can follow, `DaysAssumption` and `TimesAssumption` describe
the demo's plans and its clock. TLC evaluates them all.

Only model-checked:

* liveness (`StopEnds` of both threads, `Drains`, `EverythingSettles`, `NewestRuns`,
  `CallersGoOn`, `StatusFollowsConfig`): it needs fairness and ENABLED.

## 5. Where the documents say something else

Shown by a run:

* **The count of drops can be dropped** (`DropCountArrives`): the `events_dropped` report
  waits in the same bounded buffer; pushed out, it counts as one loss and takes the count
  it carried with it.
* **A resent read overtakes** (`PairsKept`): after a broken connection the client sends
  the read of new entries again and skips the batch Redis had already delivered, so a close
  can come before its open.
* **Dead letters repeat** (`DeliveredTwiceChangesNothing`): a redelivered invalid entry
  leaves a second `DeadEvent` row.
* **A late refusal hides a newer one** (`AppliedOrRefused`): a failed load of an older
  version overwrites the refusal of the newest, and is not tried again.

Met while modelling, written into the properties as the exception they are, without a run:

* "A model in use can't be deleted."
  (`docs/superpowers/specs/2026-10-08-zoo-vision-production-architecture-design.md:524`):
  a config that takes the model after the removal has looked is not seen (`UsedModelStays`).
* "null only while CONVERTING" (`apps/api/prisma/schema.prisma:234`, of a model's hash): a
  conversion that failed keeps a row without a hash, its file may be there, and a validation
  (`models/models.service.ts:176-183`) can make it READY, as a second model of a content
  that has one. `ReadyIsSound` allows for it. It takes four calls;
  the proof of `RowsAreRight` fails without the exception, and so does TLC with that bound.
* The check for the last superadmin locks the superadmins it sees; a user who becomes one
  between the check and the write of another request is not among them
  (`LastSuperadminStays`).
* A login under way survives a password reset, and a Redis that fails while sessions are
  ended leaves them (`AccessEnds`).
* A crash between a file and its row leaves an mp4 or PDF that no row names; the pin job's
  `return this.settle(...)` is not awaited in its `try` (`evidence/pin.job.ts:91,113,117`), so
  an error of the settle goes to the tick, not to the retry.
* "Never earlier than ingest would have copied it [...] a cut-short copy would be stored as
  KEPT for good" (`evidence/evidence.service.ts:27-29`): when the camera's `clipAfterSec` is
  raised by more than a minute while a row waits, the row keeps its `runAt` and the pin job
  cuts the longer clip (`evidence/pin.job.ts:93-111`) before its end is recorded
  (`EvidenceIsTrue`).
* A playback server that is down, slow or in error is answered with the 404
  `RECORDING_NOT_AVAILABLE` of footage that is gone (`media/clips.service.ts:62-67`, as
  `docs/fe-contract.md:105` and `media/playback.service.ts:105-107` say), and so is a kept
  file that retention unlinks between `stat` and `sendFile`, without a look at the footage
  (`media/clips.service.ts:104-128`; `ViewersGetClips`).
* A camera whose worker has no pipeline, because each version it was given was refused,
  shows its error for 15 s after the start and is then offline, as it processes no frame
  (`services/engine/core/status.py:107-112`); `docs/fe-contract.md:169-172` has every refusal
  reach the editor as `configError` (`StatusFollowsConfig` says nothing of it).
* "the newest, which it rejects again" (`services/engine/core/worker.py:238-242`, of the
  config a successor is given after the one it starts with): a version that parses
  supersedes the start of the other before that has a pipeline, so the successor can end
  without any (`RestartConfig` in `Delivery`).
* An insert of a `disk_low` event that is committed and not answered is repeated by the next
  tick, as a second row (`jobs/disk.job.ts:109-132`); managers hear of it once. The demo feed
  does not look at what the commands of its pipeline answered
  (`demo/demo-feed.ts:170-191`), so an XADD that fails leaves a session half on the stream;
  `IntervalsClosed` is of a Redis that takes every message.
* A failed SUBSCRIBE leaves a boxes room silent until it is emptied and made again
  (`live/boxes-relay.ts:63-68`; `deaf` in `Channels`).
* Concurrent edits of a camera, each valid, can give a camera that is no FILE a URL that is
  not RTSP (`cameras/cameras.service.ts:188,328-341`).
* Concurrent or unanswered updates of the site settings leave a copy that is not the row
  (`site-settings/site-settings.service.ts:83-90`; `crossed` in `Site`).
* A page walk by bigint ids can miss a row whose transaction commits after a later id was
  read; a cut clip is cached with the end it had.
* A demo item exactly at `started` is neither in the history nor live
  (`demo/demo-feed.ts:313`); a camera that leaves while its open is held has its close sent
  first, which `ingest.service.ts:390-394` buries as a dead letter; a change between the
  first fetch and the subscription waits for the resync timer; a refresh under way can show
  a status again after `finally` deleted it.
* Buckets on the wall clock (`reports/buckets.ts:22-31`: "a `day` bucket starts at local
  midnight, an `hour` at local :00") are wrong for some changes of the clock, which
  `ZonesAssumption` leaves out: a repeated midnight (Havana), whose first hour comes before
  the start of its bucket; a midnight inside skipped time (Toronto in 1919); a day skipped
  altogether (Samoa in 2011), a bucket without length; and an offset that changes by half an
  hour (Lord Howe), after which `bucketsBetween` goes on cutting hours at the old :00. Each
  violates `SumsAreRight`.
* Two status answers that overtake give a wrong bitrate (`media/stream-info.service.ts:101-117`).

## 6. Plan

Done: the event sender, the consumer, the camera worker, the model pool with its abstract
specification, and the API by parts, each with the proofs of its safety properties; the
delivery of configs with the proofs that a camera has one live worker and that neither
configs nor statuses go back. Left, in this order:

1. `UseCaseSessions`: the sessions of the pipelines, refining an abstract interval that
   opens and closes once; the script of `Ingest` is one of its behaviours.
2. The space guard with its reading of the disk between files, the rate limit of the boxes,
   the stream info with its cache.
3. `Delivery` composed with `Cameras`, so that the snapshot's two queries read the versions
   that real requests commit.

## 7. Not modelled

* **Use case pipelines**: their sessions run inside one thread on numerical input; what
  leaves them is the script of `Ingest`, which the consumer takes in any order it can have.
* **Snapshots and boxes**: the newest frame or box set, sent best effort, with no promise.
* **Contracts**: schemas and the code generated from them. **Nx plugin**: a plugin for
  another video system with its own tracker.
* Of the modelled parts: frame reading and pixels; the debounce and shutdown of the
  supervisor; renaming and class names of models; the space guard's reading of the disk;
  filters, grouping, cells and layout of reports, exports and documents; the creation of
  users and the audit rows; range requests and the stream info; compose files, seed data
  and scripts.

Redis, Postgres, MediaMTX, Gotenberg, ffmpeg and the model library appear as the code sees
them: their answers, whether they come, and for Postgres what a row lock or a unique index
refuses.
