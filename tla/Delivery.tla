------------------------------ MODULE Delivery ------------------------------
(***************************************************************************)
(* How a saved camera config comes to run, and how the dashboard hears of  *)
(* it, for one camera: the engine's listener, supervisor and status        *)
(* publisher (services/engine/core).  The API's side is the commits and    *)
(* notifications that Cameras makes.                                       *)
(*                                                                         *)
(* The parts run at the same time and fail on their own.  Of a camera      *)
(* worker it says which change is in flight, which version its pipeline    *)
(* runs and which one its error is about; how that comes is CameraWorker's *)
(* part.  Workers are numbered as they are started.                        *)
(***************************************************************************)
EXTENDS Naturals

CONSTANTS
    KindsOf,      \* KindsOf[v]: the kinds that version v may be of
    MaxEvents     \* bound on saves, edits and what goes wrong, together

Versions == 1 .. 1 + MaxEvents

\* Every worker can run a good version; a refused one gets no pipeline, an
\* invalid one has settings that do not parse, and an unreadable one is a
\* snapshot entry that does not parse.
Kinds == {"good", "refused", "invalid", "unreadable"}

ASSUME DeliveryAssumption ==
    /\ MaxEvents \in Nat
    /\ KindsOf \in [Versions -> SUBSET Kinds]

VARIABLES
    row,       \* the Camera row: enabled, version (activeVersion)
    kind,      \* what becomes of each version, known once it is saved
    due,       \* _sync_due
    sup,       \* where the supervisor's thread stands
    read,      \* what the snapshot has read so far
    worker,    \* worker[i]: see Worker
    current,   \* workers[camera], 0 if none
    made,      \* workers started so far
    stops,     \* stops[i]: where the stopper thread of worker i stands
    restart,   \* the worker that check_stalls replaces, 0 if none
    pub,       \* the status the publisher is about to write
    key,       \* the status key: by whom, applied version, error; by = 0 if missing
    fresh,     \* the worker in the map started, or processed a frame, in the last 15 s
    stream,    \* frames arrive
    events     \* saves, edits and failures so far

apiVars == <<row, kind>>
supVars == <<sup, read, worker, current, made, stops, restart, fresh>>
keyVars == <<pub, key>>
vars == <<apiVars, supVars, keyVars, due, stream, events>>

\* A start of a worker is the first one or follows an event.
Workers == 1 .. 1 + MaxEvents
Absent == 0   \* the snapshot has no such camera

NoKey == [by |-> 0, applied |-> 0, error |-> 0]
Status == [by : {0} \cup Workers, applied : {0} \cup Versions, error : {0} \cup Versions]

Worker ==
    [given : {0} \cup Versions,    \* config
     next : {0} \cup Versions,     \* the newest change, until it is applied or refused
     applied : {0} \cup Versions,  \* applied_version: its pipeline's, 0 if it has none
     error : {0} \cup Versions,    \* the version that config_error is about, 0 if none
     failed : BOOLEAN,             \* the model of config did not load (_load_failed)
     rejected : {0} \cup Versions, \* the newest of rejected_versions, 0 if none
     asked : BOOLEAN,              \* told to stop
     life : {"none", "runs", "hangs", "died", "ended"}]

Started(version, rejected) ==
    [given |-> version, next |-> version, applied |-> 0, error |-> 0, failed |-> FALSE,
     rejected |-> rejected, asked |-> FALSE, life |-> "runs"]

\* A worker that ended, once nothing asks any more what it ran.
Over == [Started(0, 0) EXCEPT !.asked = TRUE, !.life = "ended"]

TypeOK ==
    /\ row \in [enabled : BOOLEAN, version : Versions]
    /\ kind \in [Versions -> Kinds]
    /\ due \in BOOLEAN /\ stream \in BOOLEAN /\ fresh \in BOOLEAN
    /\ sup \in {"idle", "fetch", "snapshot", "stopping"}
    /\ read \in {0} \cup Versions
    /\ worker \in [Workers -> Worker]
    /\ current \in {0} \cup Workers /\ made \in {0} \cup Workers
    /\ stops \in [Workers -> {"none", "stop", "forget"}]
    /\ restart \in {0} \cup Workers
    /\ pub \in Status /\ key \in Status
    /\ events \in 0 .. MaxEvents

Init ==
    /\ row = [enabled |-> TRUE, version |-> 1]
    /\ \E k \in KindsOf[1] : kind = [v \in Versions |-> IF v = 1 THEN k ELSE "good"]
    /\ due = FALSE /\ stream = TRUE /\ fresh = FALSE
    /\ sup = "idle" /\ read = Absent
    /\ worker = [i \in Workers |-> [Started(0, 0) EXCEPT !.life = "none"]]
    /\ current = 0 /\ made = 0 /\ restart = 0
    /\ stops = [i \in Workers |-> "none"]
    /\ pub = NoKey /\ key = NoKey
    /\ events = 0

\* Something happens that the bound counts.
Counts(it) == /\ it => events < MaxEvents
              /\ events' = IF it THEN events + 1 ELSE events

-----------------------------------------------------------------------------
(* The API, as Cameras has it.  To the engine a camera that is removed is  *)
(* one that is disabled for good.                                          *)

Commit(change) ==
    /\ Counts(TRUE)
    /\ row' = change
    /\ UNCHANGED <<supVars, keyVars, due, stream>>

\* Mutant: a transaction that is tried again counts the version twice.
SaveTwice ==
    /\ Commit([row EXCEPT !.version = @ + 2])
    /\ \E k \in KindsOf[row.version + 1] : kind' = [kind EXCEPT ![row.version + 1] = k]

Save ==
    /\ Commit([row EXCEPT !.version = @ + 1])
    /\ \E k \in KindsOf[row.version + 1] : kind' = [kind EXCEPT ![row.version + 1] = k]

Edit == Commit([row EXCEPT !.enabled = ~@]) /\ UNCHANGED kind

-----------------------------------------------------------------------------
(* The engine: listener *)

\* A notification arrives, or the engine subscribes, at first or again.  A
\* notification may come late or, while Redis, the API or the subscription is
\* down, never; nothing here relies on it.
RequestSync ==
    /\ ~due
    /\ due' = TRUE
    /\ UNCHANGED <<apiVars, supVars, keyVars, stream, events>>

-----------------------------------------------------------------------------
(* The engine: supervisor *)

\* A sync is due when it was requested or its timer ran out; a request made
\* from here on starts another one.
BeginSync ==
    /\ sup = "idle"
    /\ sup' = "fetch" /\ due' = FALSE
    /\ UNCHANGED <<apiVars, read, worker, current, made, stops, restart, fresh, keyVars, stream, events>>

\* snapshot(): the enabled cameras with the versions they have active.  (Stored
\* versions never change, so it does not matter that they are read later.)
Snapshot ==
    /\ sup = "fetch"
    /\ read' = IF row.enabled THEN row.version ELSE Absent
    /\ sup' = "snapshot"
    /\ UNCHANGED <<apiVars, worker, current, made, stops, restart, fresh, keyVars, due, stream, events>>

\* No answer: every camera keeps its config, and a timer starts the next sync.
SyncFails ==
    /\ sup = "fetch" /\ Counts(TRUE)
    /\ sup' = "idle"
    /\ UNCHANGED <<apiVars, read, worker, current, made, stops, restart, fresh, keyVars, due, stream>>

Start(i, version, rejected) ==
    /\ i \in Workers
    /\ worker' = [j \in Workers |->
                     IF j = i THEN Started(version, rejected)
                              ELSE [Over EXCEPT !.asked = worker[j].asked,
                                                !.life = worker[j].life]]
    /\ current' = i /\ made' = i /\ fresh' = TRUE

\* Mutant: the worker leaves the map and is left running.
StartStopQuietly(i) ==
    /\ stops' = [stops EXCEPT ![i] = "forget"]
    /\ current' = 0 /\ fresh' = FALSE /\ UNCHANGED worker

\* The worker leaves the map, and a thread of its own tells it to stop; what is
\* in flight comes to nothing.
StartStop(i) ==
    /\ stops' = [stops EXCEPT ![i] = "stop"]
    /\ worker' = [worker EXCEPT ![i].asked = TRUE, ![i].next = 0]
    /\ current' = 0 /\ fresh' = FALSE

\* _reject
Rejects(w, v) == [w EXCEPT !.error = v, !.rejected = IF v > @ THEN v ELSE @]

\* update: a new config supersedes the change in flight, unless its settings do
\* not parse; and the newest one again has its model loaded again if that failed.
Given(w, v) ==
    CASE v # w.given /\ kind[v] # "invalid" ->
             [w EXCEPT !.given = v, !.next = v, !.failed = FALSE]
      [] v # w.given /\ kind[v] = "invalid" ->
             Rejects([w EXCEPT !.given = v, !.failed = FALSE], v)
      [] v = w.given /\ w.failed -> [w EXCEPT !.next = v, !.failed = FALSE]
      [] OTHER -> w

\* reconcile: start, update or stop the camera's worker.  One whose thread died
\* takes no config.
Reconcile ==
    LET readable == read # Absent /\ kind[read] # "unreadable" IN
    /\ sup = "snapshot"
    /\ read' = Absent
    /\ \/ /\ readable /\ current = 0
          /\ Start(made + 1, read, 0)
          /\ sup' = "idle" /\ UNCHANGED stops
       \/ /\ readable /\ current # 0 /\ worker[current].life # "died"
          /\ worker' = [worker EXCEPT ![current] = Given(@, read)]
          /\ sup' = "idle" /\ UNCHANGED <<current, made, stops, fresh>>
       \/ /\ read = Absent /\ current # 0
          /\ StartStop(current)
          /\ sup' = "stopping" /\ UNCHANGED made
       \/ /\ \/ ~readable /\ (read = Absent => current = 0)
             \/ readable /\ current # 0 /\ worker[current].life = "died"
          /\ sup' = "idle" /\ UNCHANGED <<worker, current, made, stops, fresh>>
    /\ UNCHANGED <<apiVars, restart, keyVars, due, stream, events>>

\* Mutant: only workers that hang are restarted, not those whose thread died.
CheckHungOnly ==
    /\ sup = "idle" /\ current # 0
    /\ worker[current].life = "hangs" /\ stream
    /\ StartStop(current) /\ restart' = current /\ sup' = "stopping"
    /\ UNCHANGED <<apiVars, read, made, keyVars, due, stream, events>>

\* check_stalls: a worker that hangs while its stream delivers, or that died,
\* leaves the map and is stopped.
CheckStalls ==
    /\ sup = "idle" /\ current # 0
    /\ worker[current].life = "died" \/ (worker[current].life = "hangs" /\ stream)
    /\ StartStop(current)
    /\ restart' = current
    /\ sup' = "stopping"
    /\ UNCHANGED <<apiVars, read, made, keyVars, due, stream, events>>

\* _stop_one: stop() returns when the worker ended, or without it after a while
\* (one that hangs); then the status is forgotten.
StopReturns(i) ==
    /\ stops[i] = "stop"
    /\ worker[i].life \in {"hangs", "died", "ended"}
    /\ stops' = [stops EXCEPT ![i] = "forget"]
    /\ UNCHANGED <<apiVars, sup, read, worker, current, made, restart, fresh, keyVars, due, stream, events>>

\* The delete may fail; the key then expires.
Forget(i) ==
    \E fails \in BOOLEAN :
        /\ stops[i] = "forget"
        /\ Counts(fails)
        /\ key' = IF fails THEN key ELSE NoKey
        /\ stops' = [stops EXCEPT ![i] = "none"]
        /\ UNCHANGED <<apiVars, sup, read, worker, current, made, restart, fresh, pub, due, stream>>

\* restart_config: what the pipeline ran, if the newest version was refused (no
\* newer one can have been), else the newest.
RestartConfig(w) ==
    IF w.applied # 0 /\ w.given = w.rejected THEN w.applied ELSE w.given

\* _stop_workers returns when the stopper is done or, late, without it (it
\* goes on alone); check_stalls then starts the successor, and gives it the
\* newest config if it begins with another one.
StopsDone ==
    LET old == worker[restart]
        first == RestartConfig(old)
        more == restart # 0 /\ first # old.given
    IN  /\ sup = "stopping"
        /\ \E late \in BOOLEAN :
             /\ Counts(late)
             /\ late \/ \A i \in Workers : stops[i] = "none"
        /\ sup' = IF more THEN "snapshot" ELSE "idle"
        /\ read' = IF more THEN old.given ELSE Absent
        /\ IF restart = 0
             THEN UNCHANGED <<worker, current, made, fresh>>
             ELSE Start(made + 1, first, old.rejected)
        /\ restart' = 0
        /\ UNCHANGED <<apiVars, stops, keyVars, due, stream>>

-----------------------------------------------------------------------------
(* The engine: a camera worker, as CameraWorker has it *)

\* A change waits for its model, or for the end of a frame.
InFlight(i) == ~worker[i].asked /\ worker[i].next # 0

OnlyWorkers ==
    UNCHANGED <<apiVars, sup, read, current, made, stops, restart, fresh, keyVars, due, stream>>

\* The pipeline runs it; an error about it or an older version is over.
Apply(i) ==
    LET w == worker[i] IN
    /\ InFlight(i) /\ w.life = "runs" /\ kind[w.next] = "good"
    /\ worker' = [worker EXCEPT ![i] =
                     [w EXCEPT !.applied = w.next, !.next = 0,
                               !.error = IF w.next >= w.error THEN 0 ELSE w.error]]
    /\ OnlyWorkers /\ UNCHANGED events

\* The pipeline does not take it or does not start (or, of the config it began
\* with, the settings do not parse); it goes on with what it runs, if anything.
Refuse(i) ==
    LET w == worker[i] IN
    /\ InFlight(i) /\ w.life = "runs" /\ kind[w.next] # "good"
    /\ worker' = [worker EXCEPT ![i] = Rejects([w EXCEPT !.next = 0], w.next)]
    /\ OnlyWorkers /\ UNCHANGED events

\* Its model does not load, which a thread of its own finds; the error is about
\* it even if a newer version has been refused meanwhile.
LoadFails(i) ==
    LET w == worker[i] IN
    /\ InFlight(i) /\ w.life \in {"runs", "hangs"} /\ kind[w.next] # "invalid"
    /\ Counts(TRUE)
    /\ worker' = [worker EXCEPT ![i] =
                     Rejects([w EXCEPT !.next = 0, !.failed = (w.next = w.given)], w.next)]
    /\ OnlyWorkers

WorkerGoes(i, life) ==
    /\ worker' = [worker EXCEPT ![i] = IF life = "ended" /\ i # restart THEN Over
                                       ELSE [@ EXCEPT !.life = life]]
    /\ OnlyWorkers

\* It ends when asked to.
Ends(i, life) ==
    /\ worker[i].asked /\ worker[i].life = life
    /\ WorkerGoes(i, "ended") /\ UNCHANGED events

\* It dies, or hangs in a call of its pipeline.  (One whose pipeline raises on
\* every frame is restarted alike; a model load that never returns is not here.)
Fails(i, life) ==
    /\ worker[i].life = "runs" /\ (life = "hangs" => worker[i].applied # 0 /\ stream)
    /\ Counts(TRUE)
    /\ WorkerGoes(i, life)

\* The process goes down with all its threads and starts again.
EngineCrash ==
    /\ Counts(TRUE)
    /\ worker' = [i \in Workers |-> IF worker[i].life = "none" THEN worker[i] ELSE Over]
    /\ current' = 0 /\ restart' = 0 /\ sup' = "idle" /\ read' = Absent
    /\ stops' = [i \in Workers |-> "none"]
    /\ pub' = NoKey /\ due' = FALSE /\ fresh' = FALSE
    /\ UNCHANGED <<apiVars, made, key, stream>>

-----------------------------------------------------------------------------
(* The status key *)

\* publish_status looks at the workers, and writes a little later, with an
\* expiry 15 s after the worker's last frame or, before the first one, its start;
\* once that is past it writes nothing.  (Version and error are read one after the
\* other; if a change lands in between, the heartbeat corrects it.)
PublishReads ==
    /\ pub = NoKey /\ current # 0 /\ fresh
    /\ worker[current].life \in {"runs", "hangs"}
    /\ pub' = [by |-> current, applied |-> worker[current].applied,
               error |-> worker[current].error]
    /\ UNCHANGED <<apiVars, supVars, key, due, stream, events>>

\* While writes fail, the key may expire.
PublishWrites ==
    \E fails \in BOOLEAN :
        /\ pub # NoKey
        /\ Counts(fails)
        /\ key' \in IF fails THEN {key, NoKey} ELSE {pub}
        /\ pub' = NoKey
        /\ UNCHANGED <<apiVars, supVars, due, stream>>

\* The worker in the map has a pipeline and frames for it.
Delivers ==
    /\ stream /\ current # 0
    /\ worker[current].life = "runs" /\ worker[current].applied # 0

\* _frame_done
FrameDone ==
    /\ Delivers /\ ~fresh
    /\ fresh' = TRUE
    /\ UNCHANGED <<apiVars, sup, read, worker, current, made, stops, restart, keyVars, due, stream, events>>

\* 15 s without a frame pass.
GoesStale ==
    /\ fresh /\ ~Delivers
    /\ fresh' = FALSE
    /\ UNCHANGED <<apiVars, sup, read, worker, current, made, stops, restart, keyVars, due, stream, events>>

\* The heartbeat writes the key again, with a later expiry, before it is gone.
Renewed == fresh /\ key.by = current

Expire ==
    /\ key # NoKey /\ ~Renewed
    /\ key' = NoKey
    /\ UNCHANGED <<apiVars, supVars, pub, due, stream, events>>

StreamGoes ==
    /\ stream /\ Counts(TRUE)
    /\ stream' = FALSE
    /\ UNCHANGED <<apiVars, supVars, keyVars, due>>

StreamComes ==
    /\ ~stream
    /\ stream' = TRUE
    /\ UNCHANGED <<apiVars, supVars, keyVars, due, events>>

-----------------------------------------------------------------------------
SupervisorStep ==
    BeginSync \/ Snapshot \/ Reconcile \/ StopsDone

StopperStep(i) == StopReturns(i) \/ Forget(i)
WorkerStep(i) == Apply(i) \/ Refuse(i) \/ Ends(i, "runs")
PublisherStep == PublishReads \/ PublishWrites

Next ==
    \/ Save \/ Edit \/ RequestSync
    \/ SupervisorStep \/ CheckStalls \/ SyncFails
    \/ \E i \in Workers :
         \/ StopperStep(i) \/ WorkerStep(i)
         \/ LoadFails(i) \/ Ends(i, "hangs")
         \/ \E life \in {"hangs", "died"} : Fails(i, life)
    \/ EngineCrash
    \/ PublisherStep \/ FrameDone \/ GoesStale \/ Expire
    \/ StreamGoes \/ StreamComes

Spec == Init /\ [][Next]_vars

\* The engine's threads run, its timers (resync, stall check, heartbeat) and
\* Redis's expiry fire, and a stream that delivers has frames.  Operators and
\* notifications owe nothing, and what goes wrong does so a bounded number of
\* times.
FairSpec ==
    /\ Spec
    /\ WF_vars(SupervisorStep) /\ SF_vars(CheckStalls)
    /\ \A i \in Workers : WF_vars(StopperStep(i)) /\ WF_vars(WorkerStep(i))
    /\ WF_vars(PublisherStep) /\ WF_vars(FrameDone) /\ WF_vars(Expire)

-----------------------------------------------------------------------------
(* Properties *)

\* A camera has no second worker that nobody has told to stop, although a stop
\* gives up on a worker that hangs and its successor starts beside it, and
\* however crashes, restarts and syncs follow each other
\* (supervisor.py:63-81, 106-135, 193-214, worker.py:193-211).
OneWorker ==
    \A i \in Workers :
        worker[i].life \in {"runs", "hangs"} /\ ~worker[i].asked =>
            i = current

\* Once nobody changes the camera any more: if its newest version is good and it
\* delivers frames, its status comes to name that version and no error; if the
\* newest version was refused and a pipeline goes on running an older one, it
\* comes to name an error (of an older version, if that failed to load later);
\* and if it is disabled or removed, it comes to have no worker and no status.
\* This although notifications and answers get lost, workers die and late
\* deletes hit a successor's key.  A camera without a pipeline shows its error
\* for 15 s only, so nothing is said of it
\* (supervisor.py:137-168, status.py:52-62, 87-136, 151-158, worker.py:348-374).
StatusFollowsConfig ==
    /\ <>[](row.enabled /\ stream /\ kind[row.version] = "good")
         => <>[](key.by = current /\ key.applied = row.version /\ key.error = 0)
    /\ <>[](row.enabled /\ Delivers /\ kind[row.version] \in {"refused", "invalid"})
         => <>[](key.by = current /\ key.error # 0)
    /\ <>[]~row.enabled => <>[](key = NoKey /\ current = 0)
=============================================================================
