---------------------------- MODULE CameraWorker ----------------------------
(***************************************************************************)
(* One camera's worker (services/engine/core/worker.py).  The supervisor   *)
(* calls update() and stop(); the worker thread owns the pipeline, the     *)
(* stream in use and the detector the pipeline holds; loaders acquire      *)
(* detectors and stream starters start streams, and hand them over through *)
(* a queue.  Every settings or stream change takes the next generation,    *)
(* and a result of an older generation is thrown away.                     *)
(*                                                                         *)
(* Each critical section of `_lock` is one action, and so is each call     *)
(* that waits or fails outside it.  What a thread does after its section   *)
(* with things only it can reach (release, stop, log) is part of the       *)
(* section.  Detectors and streams are named by the generation they were   *)
(* made for.  The waits of the loop are stuttering: they all time out.     *)
(***************************************************************************)
EXTENDS Naturals, Sequences, FiniteSets

CONSTANTS
    Script,      \* the camera's configs as the snapshots bring them
    UseCases, Models, Streams, Names,
    MaxFailures  \* bound: loads, stream starts and pipelines that fail

\* `valid`: parse_settings takes the settings.
Config == [version : Nat \ {0}, useCase : UseCases, model : Models,
           stream : Streams, name : Names, valid : BOOLEAN]

ASSUME ScriptAssumption == Script \in Seq(Config) /\ Script # <<>>

\* A later snapshot never brings an older version, and a version's settings
\* never change (the file its model resolves to may).
ASSUME VersionAssumption ==
    \A p, q \in 1 .. Len(Script) : p < q =>
        /\ Script[p].version <= Script[q].version
        /\ Script[p].version = Script[q].version =>
             /\ Script[p].useCase = Script[q].useCase
             /\ Script[p].valid = Script[q].valid
ASSUME BoundAssumption == MaxFailures \in Nat

VARIABLES
    config,      \* the newest config given to update()
    upc, given,  \* where the caller is in update(), and with which config
    changes,     \* the config of each settings generation
    sources,     \* the stream of each stream generation
    settled,     \* the newest settings generation applied or rejected
    queue,       \* changes for the worker thread
    wanted,      \* a stream was requested
    applied,     \* the config the pipeline runs; 0: no pipeline
    detector,    \* the detector it holds
    label,       \* the camera name it shows
    stream,      \* the stream in use
    state,       \* starting, running, error or stopped
    error,       \* the version config_error is about; 0: none
    loadFailed,  \* versions rejected because their model did not load
    stopping,
    wpc,         \* where the worker thread is
    todo,        \* the changes it took from the queue
    named,       \* the name it read for the pipeline it builds
    loaders,     \* where each loader is
    starters,    \* where each stream starter is
    held,        \* detectors acquired and not released
    live,        \* streams started and not stopped
    failures     \* how many failed so far

callerVars == <<config, upc, given>>
statusVars == <<error, loadFailed, settled, state>>
pipelineVars == <<applied, detector, label>>
threadVars == <<wpc, todo, named>>
vars == <<config, upc, given, changes, sources, settled, queue, wanted,
          applied, detector, label, stream, state, error,
          loadFailed, stopping, wpc, todo, named, loaders, starters, held,
          live, failures>>

Positions == 1 .. Len(Script)

\* As many generations as there can be: every config once, and again after
\* every load that failed; every stream once.
SettingsGens == 1 .. Len(Script) + MaxFailures
StreamGens == 1 .. Len(Script)

Change == [kind : {"settings"}, gen : SettingsGens, loaded : BOOLEAN]
          \cup [kind : {"stream"}, gen : StreamGens]
          \cup [kind : {"identity"}]

SettingsChange(g, loaded) ==
    [kind |-> "settings", gen |-> g, loaded |-> loaded]

\* The fields whose change needs a settings change; the settings of a version
\* never change.
SettingsOf(p) ==
    <<Script[p].useCase, Script[p].version, Script[p].model>>

\* A worker starts from whichever config the snapshot has by then.
Init ==
    /\ config \in Positions /\ upc = "idle" /\ given = config
    /\ changes = <<config>> /\ sources = <<>> /\ settled = 0
    /\ queue = <<>> /\ wanted = FALSE
    /\ applied = 0 /\ detector = 0 /\ stream = 0
    /\ label = Script[config].name /\ named = Script[config].name
    /\ state = "starting" /\ error = 0 /\ loadFailed = {}
    /\ stopping = FALSE /\ wpc = "prepare" /\ todo = <<>>
    /\ loaders = [g \in SettingsGens |-> IF g = 1 THEN "check" ELSE "none"]
    /\ starters = [s \in StreamGens |-> "none"]
    /\ held = {} /\ live = {} /\ failures = 0

\* Mutant of Current: newer changes are not looked at.
CurrentUnlessStopping(g) == ~stopping /\ g <= Len(changes)

\* `_is_current`: no newer settings change was requested.
Current(g) == ~stopping /\ g = Len(changes)

CurrentStream(s) == ~stopping /\ s = Len(sources)

\* The pipeline cannot run config p as it is: it has another use case or
\* another model, or there is none.
NeedsDetector(p) ==
    applied # 0 =>
        \/ Script[p].useCase # Script[applied].useCase
        \/ Script[p].model # Script[applied].model

\* Mutant of Reject: the state is set before the change counts as settled.
RejectStateFirst(p, g, loadError) ==
    IF stopping \/ g \notin {0, Len(changes)}
    THEN UNCHANGED statusVars
    ELSE /\ error' = Script[p].version
         /\ loadFailed' = IF loadError
                          THEN loadFailed \cup {Script[p].version}
                          ELSE loadFailed
         /\ settled' = IF g = 0 THEN settled ELSE g
         /\ state' = IF applied = 0 /\ settled = Len(changes)
                     THEN "error" ELSE state

\* `_reject` of config p; g is 0 for settings update() could not parse.  A
\* superseded change is not reported.
Reject(p, g, loadError) ==
    IF stopping \/ g \notin {0, Len(changes)}
    THEN UNCHANGED statusVars
    ELSE /\ error' = Script[p].version
         /\ loadFailed' = IF loadError
                          THEN loadFailed \cup {Script[p].version}
                          ELSE loadFailed
         /\ settled' = IF g = 0 THEN settled ELSE g
         /\ state' = IF applied = 0 /\ settled' = Len(changes)
                     THEN "error" ELSE state

-----------------------------------------------------------------------------
(* The caller: update() and stop().                                        *)

\* Mutant of Retries: only a camera without a pipeline tries again.
RetriesWithoutPipeline(p) ==
    /\ ~stopping /\ Script[p] = Script[config] /\ applied = 0
    /\ Script[p].version \in loadFailed /\ settled = Len(changes)

\* `_retry_load`: the newest config again, its model did not load, and
\* nothing is in flight.
Retries(p) ==
    /\ ~stopping /\ Script[p] = Script[config]
    /\ Script[p].version \in loadFailed /\ settled = Len(changes)

\* Mutant of Update: a version whose model did not load stays marked so.
UpdateStaysFailed(p) ==
    /\ upc = "idle" /\ p >= config
    /\ given' = p
    /\ upc' = IF Retries(p) THEN "request" ELSE "take"
    /\ UNCHANGED <<config, changes, sources, settled, queue, wanted,
                   loadFailed, pipelineVars, stream, state, error,
                   stopping, threadVars, loaders, starters, held, live,
                   failures>>

\* update() of a config that is not older than the newest one.
Update(p) ==
    /\ upc = "idle" /\ p >= config
    /\ given' = p
    /\ IF Retries(p)
       THEN /\ loadFailed' = loadFailed \ {Script[p].version}
            /\ upc' = "request"
       ELSE upc' = "take" /\ UNCHANGED loadFailed
    /\ UNCHANGED <<config, changes, sources, settled, queue, wanted,
                   pipelineVars, stream, state, error, stopping,
                   threadVars, loaders, starters, held, live, failures>>

Ignore ==
    /\ upc = "take" /\ (stopping \/ Script[given] = Script[config])
    /\ upc' = "idle"
    /\ UNCHANGED <<config, given, changes, sources, statusVars, queue, wanted,
                   pipelineVars, stream, stopping, threadVars, loaders,
                   starters, held, live, failures>>

\* The newest config: a stream change gets its starter, a new name is queued.
Take ==
    /\ upc = "take" /\ ~stopping /\ Script[given] # Script[config]
    /\ config' = given
    /\ IF wanted /\ Script[given].stream # Script[config].stream
       THEN /\ sources' = Append(sources, Script[given].stream)
            /\ starters' = [starters EXCEPT ![Len(sources')] = "spawn"]
       ELSE UNCHANGED <<sources, starters>>
    /\ queue' = IF Script[given].name # Script[config].name
                THEN Append(queue, [kind |-> "identity"]) ELSE queue
    /\ upc' = IF SettingsOf(given) # SettingsOf(config)
              THEN "request" ELSE "idle"
    /\ UNCHANGED <<given, changes, statusVars, wanted, pipelineVars, stream,
                   stopping, threadVars, loaders, held, live, failures>>

\* `_request_settings`: an invalid version is rejected at once and takes no
\* generation.
RequestInvalid ==
    /\ upc = "request" /\ ~Script[given].valid
    /\ Reject(given, 0, FALSE)
    /\ upc' = "idle"
    /\ UNCHANGED <<config, given, changes, sources, queue, wanted,
                   pipelineVars, stream, stopping, threadVars, loaders,
                   starters, held, live, failures>>

RequestSettings ==
    /\ upc = "request" /\ Script[given].valid
    /\ changes' = Append(changes, given)
    /\ IF NeedsDetector(given)
       THEN /\ loaders' = [loaders EXCEPT ![Len(changes')] = "spawn"]
            /\ UNCHANGED queue
       ELSE /\ queue' = Append(queue, SettingsChange(Len(changes'), FALSE))
            /\ UNCHANGED loaders
    /\ upc' = "idle"
    /\ UNCHANGED <<config, given, sources, statusVars, wanted, pipelineVars,
                   stream, stopping, threadVars, starters, held, live,
                   failures>>

\* stop(): the supervisor takes the worker off its list under the lock it holds
\* in update(), so no update() overlaps or follows.
Stop ==
    /\ upc = "idle"
    /\ stopping' = TRUE /\ upc' = "gone"
    /\ UNCHANGED <<config, given, changes, sources, statusVars, queue, wanted,
                   pipelineVars, stream, threadVars, loaders, starters, held,
                   live, failures>>

-----------------------------------------------------------------------------
(* Loaders (`_prepare`).  The worker thread loads the first config itself. *)

LoaderVars == <<callerVars, changes, sources, wanted, pipelineVars, stream,
                stopping, threadVars, starters, live>>

\* `_spawn` starts no helper while the worker is stopping.
SpawnLoader(g) ==
    /\ loaders[g] = "spawn"
    /\ loaders' = [loaders EXCEPT ![g] = IF stopping THEN "done" ELSE "check"]
    /\ UNCHANGED <<LoaderVars, statusVars, queue, held, failures>>

\* A change superseded before its load started ends here.
CheckLoad(g) ==
    /\ loaders[g] = "check" /\ Script[changes[g]].valid
    /\ loaders' = [loaders EXCEPT ![g] = IF Current(g) THEN "acquire"
                                                       ELSE "done"]
    /\ UNCHANGED <<LoaderVars, statusVars, queue, held, failures>>

\* Only the first config was not parsed yet.
CheckInvalid(g) ==
    /\ loaders[g] = "check" /\ ~Script[changes[g]].valid
    /\ Reject(changes[g], g, FALSE)
    /\ loaders' = [loaders EXCEPT ![g] = "done"]
    /\ UNCHANGED <<LoaderVars, queue, held, failures>>

Acquire(g) ==
    /\ loaders[g] = "acquire"
    /\ held' = held \cup {g}
    /\ loaders' = [loaders EXCEPT ![g] = "queue"]
    /\ UNCHANGED <<LoaderVars, statusVars, queue, failures>>

AcquireFails(g) ==
    /\ loaders[g] = "acquire" /\ failures < MaxFailures
    /\ failures' = failures + 1
    /\ Reject(changes[g], g, TRUE)
    /\ loaders' = [loaders EXCEPT ![g] = "done"]
    /\ UNCHANGED <<LoaderVars, queue, held>>

\* Mutant of QueueLoaded: a stop during the load goes unnoticed.
QueueAlways(g) ==
    /\ loaders[g] = "queue"
    /\ queue' = Append(queue, SettingsChange(g, TRUE))
    /\ loaders' = [loaders EXCEPT ![g] = "done"]
    /\ UNCHANGED <<LoaderVars, statusVars, held, failures>>

\* A detector that comes too late is released by its loader.
QueueLoaded(g) ==
    /\ loaders[g] = "queue"
    /\ IF Current(g)
       THEN queue' = Append(queue, SettingsChange(g, TRUE)) /\ UNCHANGED held
       ELSE held' = held \ {g} /\ UNCHANGED queue
    /\ loaders' = [loaders EXCEPT ![g] = "done"]
    /\ UNCHANGED <<LoaderVars, statusVars, failures>>

Loader(g) ==
    \/ SpawnLoader(g) \/ CheckLoad(g) \/ CheckInvalid(g)
    \/ Acquire(g) \/ AcquireFails(g) \/ QueueLoaded(g)

-----------------------------------------------------------------------------
(* Stream starters (`_start_stream`).                                      *)

StarterVars == <<callerVars, changes, sources, settled, wanted, pipelineVars,
                 stream, state, error, loadFailed, stopping,
                 threadVars, loaders, held>>

SpawnStarter(s) ==
    /\ starters[s] = "spawn"
    /\ starters' = [starters EXCEPT ![s] = IF stopping THEN "done"
                                                       ELSE "start"]
    /\ UNCHANGED <<StarterVars, queue, live, failures>>

StartStream(s) ==
    /\ starters[s] = "start"
    /\ live' = live \cup {s}
    /\ starters' = [starters EXCEPT ![s] = "queue"]
    /\ UNCHANGED <<StarterVars, queue, failures>>

StartFails(s) ==
    /\ starters[s] = "start" /\ failures < MaxFailures
    /\ failures' = failures + 1
    /\ starters' = [starters EXCEPT ![s] = "wait"]
    /\ UNCHANGED <<StarterVars, queue, live>>

\* Mutant of StartAgain: nothing ends the wait when the worker stops.
StartAgainUnlessStopped(s) ==
    /\ starters[s] = "wait" /\ ~stopping
    /\ starters' = [starters EXCEPT ![s] = IF CurrentStream(s) THEN "start"
                                                               ELSE "done"]
    /\ UNCHANGED <<StarterVars, queue, live, failures>>

\* stop() and a newer stream end the retries.
StartAgain(s) ==
    /\ starters[s] = "wait"
    /\ starters' = [starters EXCEPT ![s] = IF CurrentStream(s) THEN "start"
                                                               ELSE "done"]
    /\ UNCHANGED <<StarterVars, queue, live, failures>>

QueueStream(s) ==
    /\ starters[s] = "queue"
    /\ IF CurrentStream(s)
       THEN /\ queue' = Append(queue, [kind |-> "stream", gen |-> s])
            /\ UNCHANGED live
       ELSE live' = live \ {s} /\ UNCHANGED queue
    /\ starters' = [starters EXCEPT ![s] = "done"]
    /\ UNCHANGED <<StarterVars, failures>>

Starter(s) ==
    \/ SpawnStarter(s) \/ StartStream(s) \/ StartFails(s)
    \/ StartAgain(s) \/ QueueStream(s)

-----------------------------------------------------------------------------
(* The worker thread.                                                      *)

\* What no step of the worker thread changes.
FixedVars == <<callerVars, changes, loadFailed, failures>>

\* The settings change the thread is applying.
gen == Head(todo).gen

\* The first config was loaded, or not.
Prepared ==
    /\ wpc = "prepare" /\ loaders[1] = "done"
    /\ wpc' = "loop"
    /\ UNCHANGED <<FixedVars, sources, settled, queue, wanted, pipelineVars,
                   stream, state, error, stopping, todo, named, loaders,
                   starters, held, live>>

TakeQueue ==
    /\ wpc = "loop" /\ ~stopping /\ queue # <<>>
    /\ todo' = queue /\ queue' = <<>> /\ wpc' = "apply"
    /\ UNCHANGED <<FixedVars, sources, settled, wanted, pipelineVars, stream,
                   state, error, stopping, named, loaders, starters, held,
                   live>>

EndRound ==
    /\ wpc = "apply" /\ todo = <<>>
    /\ wpc' = "loop"
    /\ UNCHANGED <<FixedVars, sources, settled, queue, wanted, pipelineVars,
                   stream, state, error, stopping, todo, named, loaders,
                   starters, held, live>>

\* The first frame the pipeline processed.
FrameDone ==
    /\ wpc = "loop" /\ ~stopping /\ queue = <<>>
    /\ applied # 0 /\ stream # 0 /\ state = "starting"
    /\ state' = "running"
    /\ UNCHANGED <<FixedVars, sources, settled, queue, wanted, pipelineVars,
                   stream, error, stopping, threadVars, loaders, starters,
                   held, live>>

\* A pipeline to come takes the name from the config.
ApplyIdentity ==
    /\ wpc = "apply" /\ todo # <<>> /\ Head(todo).kind = "identity"
    /\ label' = IF applied = 0 THEN label ELSE Script[config].name
    /\ todo' = Tail(todo)
    /\ UNCHANGED <<FixedVars, sources, settled, queue, wanted, applied,
                   detector, stream, state, error, stopping, wpc, named,
                   loaders, starters, held, live>>

\* The check under the lock, and the swap after it, are two steps.
CheckStream ==
    /\ wpc = "apply" /\ todo # <<>> /\ Head(todo).kind = "stream"
    /\ IF CurrentStream(Head(todo).gen)
       THEN wpc' = "swap" /\ UNCHANGED <<todo, live>>
       ELSE /\ live' = live \ {Head(todo).gen}
            /\ todo' = Tail(todo) /\ UNCHANGED wpc
    /\ UNCHANGED <<FixedVars, sources, settled, queue, wanted, pipelineVars,
                   stream, state, error, stopping, named, loaders, starters,
                   held>>

SwapStream ==
    /\ wpc = "swap"
    /\ stream' = Head(todo).gen
    /\ live' = live \ {stream}
    /\ todo' = Tail(todo) /\ wpc' = "apply"
    /\ UNCHANGED <<FixedVars, sources, settled, queue, wanted, pipelineVars,
                   state, error, stopping, named, loaders, starters, held>>

CheckSettings ==
    /\ wpc = "apply" /\ todo # <<>> /\ Head(todo).kind = "settings"
    /\ IF Current(gen)
       THEN wpc' = "chosen" /\ UNCHANGED <<todo, held>>
       ELSE held' = held \ {gen} /\ todo' = Tail(todo) /\ UNCHANGED wpc
    /\ UNCHANGED <<FixedVars, sources, settled, queue, wanted, pipelineVars,
                   stream, state, error, stopping, named, loaders, starters,
                   live>>

\* The change is current and has all it needs.
Ready ==
    /\ wpc = "chosen"
    /\ Head(todo).loaded \/ ~NeedsDetector(changes[gen])

Rebuilds ==
    applied # 0 => Script[changes[gen]].useCase # Script[applied].useCase

\* update() found no need of a detector, and an earlier change then swapped
\* the pipeline or its model: the change comes back with its detector.
LoadFirst ==
    /\ wpc = "chosen" /\ ~Head(todo).loaded /\ NeedsDetector(changes[gen])
    /\ loaders' = [loaders EXCEPT ![gen] = "spawn"]
    /\ todo' = Tail(todo) /\ wpc' = "apply"
    /\ UNCHANGED <<FixedVars, sources, settled, queue, wanted, pipelineVars,
                   stream, state, error, stopping, named, starters, held,
                   live>>

\* The pipeline cannot be built, or cannot take the settings and goes back to
\* its old ones.
Refuse ==
    /\ Ready /\ failures < MaxFailures
    /\ failures' = failures + 1
    /\ held' = held \ {gen}
    /\ Reject(changes[gen], gen, FALSE)
    /\ todo' = Tail(todo) /\ wpc' = "apply"
    /\ UNCHANGED <<callerVars, changes, sources, queue, wanted, pipelineVars,
                   stream, stopping, named, loaders, starters, live>>

\* `_rebuild` up to the new pipeline, which has the name as of now.
Build ==
    /\ Ready /\ Rebuilds
    /\ named' = Script[config].name
    /\ wpc' = "built"
    /\ UNCHANGED <<FixedVars, sources, settled, queue, wanted, pipelineVars,
                   stream, state, error, stopping, todo, loaders, starters,
                   held, live>>

\* Mutant of Applied: the old detector is not released.
AppliedKeepsOld ==
    LET p == changes[gen] IN
    /\ applied' = p
    /\ settled' = IF gen > settled THEN gen ELSE settled
    /\ error' = IF Script[p].version >= error THEN 0 ELSE error
    /\ detector' = IF Head(todo).loaded THEN gen ELSE detector
    /\ UNCHANGED held

\* `_applied`: the pipeline runs the change.
Applied ==
    LET p == changes[gen] IN
    /\ applied' = p
    /\ settled' = IF gen > settled THEN gen ELSE settled
    /\ error' = IF Script[p].version >= error THEN 0 ELSE error
    /\ IF Head(todo).loaded
       THEN detector' = gen /\ held' = held \ {detector}
       ELSE UNCHANGED <<detector, held>>

\* Mutant of Install: the first stream is the change's own.
InstallOwnStream ==
    /\ wpc = "built"
    /\ Applied
    /\ label' = named
    /\ state' = IF state = "error" THEN "starting" ELSE state
    /\ IF wanted
       THEN UNCHANGED <<wanted, sources, starters>>
       ELSE /\ wanted' = TRUE
            /\ sources' = Append(sources, Script[changes[gen]].stream)
            /\ starters' = [starters EXCEPT ![Len(sources')] = "spawn"]
    /\ todo' = Tail(todo) /\ wpc' = "apply"
    /\ UNCHANGED <<FixedVars, queue, stream, stopping, named, loaders, live>>

\* The first pipeline requests the stream of the newest config.
Install ==
    /\ wpc = "built"
    /\ Applied
    /\ label' = named
    /\ state' = IF state = "error" THEN "starting" ELSE state
    /\ IF wanted
       THEN UNCHANGED <<wanted, sources, starters>>
       ELSE /\ wanted' = TRUE
            /\ sources' = Append(sources, Script[config].stream)
            /\ starters' = [starters EXCEPT ![Len(sources')] = "spawn"]
    /\ todo' = Tail(todo) /\ wpc' = "apply"
    /\ UNCHANGED <<FixedVars, queue, stream, stopping, named, loaders, live>>

\* New settings, and maybe a new detector, for the same pipeline.
Reconfigure ==
    /\ Ready /\ ~Rebuilds
    /\ Applied
    /\ todo' = Tail(todo) /\ wpc' = "apply"
    /\ UNCHANGED <<FixedVars, sources, queue, wanted, label, stream, state,
                   stopping, named, loaders, starters, live>>

\* The loop ends, asked to or on an error nobody catches: `_cleanup` takes
\* what is left in the queue ...
Leave ==
    /\ wpc = "loop"
    /\ stopping' = TRUE
    /\ todo' = queue /\ queue' = <<>> /\ wpc' = "closing"
    /\ UNCHANGED <<FixedVars, sources, settled, wanted, pipelineVars, stream,
                   state, error, named, loaders, starters, held, live>>

LoopEnds == stopping /\ Leave

Die == ~stopping /\ Leave

LoadedIn(changesLeft) ==
    {changesLeft[i].gen : i \in {j \in 1 .. Len(changesLeft) :
        changesLeft[j].kind = "settings" /\ changesLeft[j].loaded}}

StreamsIn(changesLeft) ==
    {changesLeft[i].gen : i \in {j \in 1 .. Len(changesLeft) :
        changesLeft[j].kind = "stream"}}

\* ... and ends all of it.
Cleanup ==
    /\ wpc = "closing"
    /\ held' = held \ ({detector} \cup LoadedIn(todo))
    /\ live' = live \ ({stream} \cup StreamsIn(todo))
    /\ todo' = <<>> /\ state' = "stopped" /\ wpc' = "stopped"
    /\ UNCHANGED <<FixedVars, sources, settled, queue, wanted, pipelineVars,
                   stream, error, stopping, named, loaders, starters>>

Worker ==
    \/ Prepared \/ TakeQueue \/ EndRound \/ FrameDone \/ ApplyIdentity
    \/ CheckStream \/ SwapStream \/ CheckSettings \/ LoadFirst \/ Refuse
    \/ Build \/ Install \/ Reconfigure \/ LoopEnds \/ Cleanup

-----------------------------------------------------------------------------
\* The rest of an update() under way.
Caller == Ignore \/ Take \/ RequestInvalid \/ RequestSettings

Next ==
    \/ \E p \in Positions : Update(p)
    \/ Caller
    \/ Stop
    \/ \E g \in SettingsGens : Loader(g)
    \/ \E s \in StreamGens : Starter(s)
    \/ Worker
    \/ Die

Spec == Init /\ [][Next]_vars

\* The newest config given again, and the rest of every update().
Resync == Caller \/ Update(config)

Threads ==
    \/ Worker
    \/ \E g \in SettingsGens : Loader(g)
    \/ \E s \in StreamGens : Starter(s)

\* The supervisor resyncs every 60 s, and no thread stops running: each takes
\* finitely many steps, so fairness of all of them together is enough.
\* Nothing makes a new config, a stop or a failure come.
FairSpec == Spec /\ WF_vars(Resync) /\ WF_vars(Threads)

-----------------------------------------------------------------------------
(* Properties.                                                             *)

\* Types, the length of the two generation counters among them.
TypeOK ==
    /\ config \in Positions /\ given \in Positions
    /\ upc \in {"idle", "take", "request", "gone"}
    /\ changes \in Seq(Positions) /\ Len(changes) \in SettingsGens
    /\ sources \in Seq(Streams) /\ Len(sources) <= Len(Script)
    /\ settled \in 0 .. Len(changes)
    /\ queue \in Seq(Change) /\ todo \in Seq(Change)
    /\ wanted \in BOOLEAN /\ stopping \in BOOLEAN
    /\ applied \in Positions \cup {0}
    /\ detector \in SettingsGens \cup {0} /\ stream \in StreamGens \cup {0}
    /\ label \in Names /\ named \in Names
    /\ state \in {"starting", "running", "error", "stopped"}
    /\ error \in Nat /\ loadFailed \in SUBSET Nat
    /\ wpc \in {"prepare", "loop", "apply", "swap", "chosen", "built",
                "closing", "stopped"}
    /\ loaders \in [SettingsGens ->
                      {"none", "spawn", "check", "acquire", "queue", "done"}]
    /\ starters \in [StreamGens ->
                      {"none", "spawn", "start", "wait", "queue", "done"}]
    /\ held \in SUBSET SettingsGens /\ live \in SUBSET StreamGens
    /\ failures \in 0 .. MaxFailures

\* Who still has to release a detector or stop a stream: the pipeline, a
\* helper that has it, or a change the worker thread will still come to.
Unqueued == wpc \in {"closing", "stopped"}

DetectorsOwned ==
    (IF wpc = "stopped" THEN {} ELSE {detector} \ {0})
    \cup {g \in SettingsGens : loaders[g] = "queue"}
    \cup LoadedIn(todo) \cup (IF Unqueued THEN {} ELSE LoadedIn(queue))

StreamsOwned ==
    (IF wpc = "stopped" THEN {} ELSE {stream} \ {0})
    \cup {s \in StreamGens : starters[s] = "queue"}
    \cup StreamsIn(todo) \cup (IF Unqueued THEN {} ELSE StreamsIn(queue))

\* At every moment each acquired detector and each started stream has someone
\* who will still release or stop it, and nothing in use was given back:
\* whatever supersedes a change, and however late its helper ends.
NothingLeaks == held = DetectorsOwned /\ live = StreamsOwned

\* Nothing is under way for a worker that is not stopping.
AtRest ==
    /\ ~stopping /\ upc = "idle" /\ wpc = "loop" /\ queue = <<>>
    /\ \A g \in SettingsGens : loaders[g] \in {"none", "done"}
    /\ \A s \in StreamGens : starters[s] \in {"none", "done"}

\* Once nothing is under way, a pipeline runs on the stream and under the name
\* of the newest config, whichever order update(), the first pipeline and the
\* starters came in.
FollowsConfig ==
    AtRest /\ applied # 0 =>
        /\ stream # 0 /\ sources[stream] = Script[config].stream
        /\ label = Script[config].name

\* A camera without a pipeline for which nothing is under way says "error",
\* not "starting".
NoSilentWait == AtRest /\ applied = 0 => state = "error"

\* The pipeline never goes back to an older version: a slow model load of an
\* older change never lands on a newer one.
AppliedForward ==
    [][applied # 0 =>
        applied' # 0 /\ Script[applied'].version >= Script[applied].version]_vars

\* The settings of the newest config come to run, unless they cannot be
\* parsed, the pipeline refused them or the worker stops: a model that did not
\* load is tried again, and a change that has to come back with a detector is
\* not forgotten.
NewestRuns ==
    <>[](\/ stopping \/ ~Script[config].valid
         \/ /\ error = Script[config].version
            /\ Script[config].version \notin loadFailed
         \/ applied # 0 /\ SettingsOf(applied) = SettingsOf(config))

\* A stop (or the end of the thread) ends the worker and every helper.
StopEnds ==
    stopping ~> /\ wpc = "stopped"
                /\ \A g \in SettingsGens : loaders[g] \in {"none", "done"}
                /\ \A s \in StreamGens : starters[s] \in {"none", "done"}

\* What docs/fe-contract.md promises of a saved version: the engine reports it
\* as applied, or says why it refused it.
AppliedOrRefused ==
    AtRest =>
        \/ applied # 0 /\ Script[applied].version = Script[config].version
        \/ error = Script[config].version

=============================================================================
