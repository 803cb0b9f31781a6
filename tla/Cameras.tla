------------------------------ MODULE Cameras -------------------------------
(***************************************************************************)
(* One camera id in the API: its row and config versions, the requests    *)
(* that create, save, edit and remove it, the offline job that reads the   *)
(* engine's status key, and the sync that makes MediaMTX's path follow the *)
(* row.                                                                    *)
(*                                                                         *)
(* A request is cut where it awaits: what it reads, what it commits, and   *)
(* the call of the path sync after the commit.  Delivery has the other     *)
(* end of the notification it publishes.  The use case and the restricted  *)
(* settings of a version are one value, its limits; the rest of the        *)
(* settings, which no check compares, is left out.                         *)
(***************************************************************************)
EXTENDS Naturals, Sequences, Functions

CONSTANTS
    Operators,       \* people with a request in flight, one each
    Superadmins,     \* those of them with the SUPERADMIN role
    Limits,          \* use case and restricted settings of a version
    Edits,           \* PATCH bodies: functions from some of Fields to values
    MaxRequests,     \* requests started
    MaxLives,        \* times the id is created
    MaxCameraTrouble \* failed calls, and restarts of the API and of MediaMTX

VARIABLES
    camera,      \* the Camera row
    versions,    \* its CameraConfigVersion rows; the last is the active one
    life,        \* how often the id has been created
    request,     \* operator -> the request it waits for
    requests,    \* requests started so far
    key,         \* whether the engine's status key exists
    offline,     \* the camera_offline interval: "none", "open" or "closed"
    job,         \* the offline job's tick
    sync,        \* the path sync
    path,        \* what MediaMTX is configured to pull for the camera
    unsynced,    \* a pass failed, or MediaMTX restarted, since the last pass began
    cameraTrouble

apiVars == <<camera, versions, life, request, requests>>
offlineVars == <<key, offline, job>>
syncVars == <<sync, path, unsynced>>
camerasVars == <<apiVars, offlineVars, syncVars, cameraTrouble>>

Fields == {"enabled", "sourceType", "url"}
ManagerFields == {"enabled"}

NoPath == "none"
Values(f) == CASE f = "enabled" -> BOOLEAN
               [] f = "sourceType" -> {"FILE", "IP_CAMERA"}
               [] f = "url" -> {"file", "rtsp1", "rtsp2"}

ASSUME EditsAssumption ==
    \A edit \in Edits :
        DOMAIN edit \subseteq Fields /\ \A f \in DOMAIN edit : edit[f] \in Values(f)

NewCamera == [there |-> TRUE, seen |-> FALSE, enabled |-> TRUE,
              sourceType |-> "IP_CAMERA", url |-> "rtsp1"]
NoRequest == [at |-> "idle"]
IdleJob == [at |-> "idle", enabled |-> FALSE, seen |-> FALSE, open |-> FALSE,
            present |-> FALSE]
IdleSync == [at |-> "none", rerun |-> FALSE, have |-> NoPath, want |-> NoPath]

\* checkStreamUrl
Streams(c) == c.sourceType # "FILE" => c.url # "file"

\* What a role below SUPERADMIN may not change between two versions.
RestrictedChanges(before, after) == before # after

\* A disabled camera keeps an idle path, a FILE camera has none.
WantedPath(c) ==
    IF ~c.there \/ c.sourceType = "FILE" THEN NoPath
    ELSE IF c.enabled THEN c.url ELSE "publisher"

CamerasInit ==
    /\ camera = [NewCamera EXCEPT !.there = FALSE]
    /\ versions = <<>>
    /\ life = 0
    /\ request = [o \in Operators |-> NoRequest]
    /\ requests = 0
    /\ key = FALSE
    /\ offline = "none"
    /\ job = IdleJob
    /\ sync = [IdleSync EXCEPT !.at = "list"]
    /\ path = NoPath
    /\ unsynced = FALSE
    /\ cameraTrouble = 0

CountTrouble(fails) ==
    /\ fails => cameraTrouble < MaxCameraTrouble
    /\ cameraTrouble' = cameraTrouble + (IF fails THEN 1 ELSE 0)

-----------------------------------------------------------------------------
(* Requests *)

Starts(o) ==
    /\ request[o].at = "idle" /\ requests < MaxRequests
    /\ requests' = requests + 1

Goes(o, next) == request' = [request EXCEPT ![o] = next]

AskSync == [at |-> "ask"]

Refused == NoRequest

\* One insert with version 1; a taken id is refused.
CreateCamera(o, limits) ==
    /\ o \in Superadmins /\ ~camera.there /\ life < MaxLives
    /\ Starts(o) /\ Goes(o, AskSync)
    /\ camera' = NewCamera
    /\ versions' = <<[limits |-> limits, by |-> o, life |-> life + 1]>>
    /\ life' = life + 1
    /\ UNCHANGED <<offlineVars, syncVars, cameraTrouble>>

\* The transaction reads the row and its active version; what it checks there
\* it does not check again.
SaveReads(o, limits) ==
    /\ camera.there
    /\ RestrictedChanges(versions[Len(versions)].limits, limits) => o \in Superadmins
    /\ Starts(o)
    /\ Goes(o, [at |-> "save", base |-> Len(versions), limits |-> limits, life |-> life])
    /\ UNCHANGED <<camera, versions, life, offlineVars, syncVars, cameraTrouble>>

\* A rollback reads an earlier version, and then saves its limits as any others.
Rollback(o, v) ==
    /\ camera.there /\ v \in DOMAIN versions
    /\ Starts(o) /\ Goes(o, [at |-> "rollback", limits |-> versions[v].limits])
    /\ UNCHANGED <<camera, versions, life, offlineVars, syncVars, cameraTrouble>>

RollbackSaves(o) ==
    LET limits == request[o].limits
        allowed == /\ camera.there
                   /\ RestrictedChanges(versions[Len(versions)].limits, limits)
                         => o \in Superadmins
    IN  /\ request[o].at = "rollback"
        /\ Goes(o, IF allowed
                   THEN [at |-> "save", base |-> Len(versions), limits |-> limits, life |-> life]
                   ELSE Refused)
        /\ UNCHANGED <<camera, versions, life, requests, offlineVars, syncVars, cameraTrouble>>

\* An insert without the primary key: the later save wins.
SaveUnkeyed(o) ==
    /\ request[o].at = "save"
    /\ versions' = IF ~camera.there THEN versions
                   ELSE Append(SubSeq(versions, 1, request[o].base),
                               [limits |-> request[o].limits, by |-> o,
                                life |-> request[o].life])
    /\ Goes(o, NoRequest)
    /\ UNCHANGED <<camera, life, requests, offlineVars, syncVars, cameraTrouble>>

\* The primary key (camera, version) refuses all saves on one base but the
\* first.  The save then only notifies.
SaveCommits(o) ==
    LET saved == [limits |-> request[o].limits, by |-> o, life |-> request[o].life]
        stale == ~camera.there \/ Len(versions) # request[o].base
    IN  /\ request[o].at = "save"
        /\ versions' = IF stale THEN versions ELSE Append(versions, saved)
        /\ Goes(o, NoRequest)
        /\ UNCHANGED <<camera, life, requests, offlineVars, syncVars, cameraTrouble>>

\* What an edit changes is decided against the row as read.
EditReads(o, edit) ==
    LET changed == {f \in DOMAIN edit : edit[f] # camera[f]}
    IN  /\ camera.there
        /\ \/ o \in Superadmins
           \/ "url" \notin DOMAIN edit /\ changed \subseteq ManagerFields
        /\ Streams([f \in DOMAIN camera |->
                       IF f \in changed THEN edit[f] ELSE camera[f]])
        /\ Starts(o)
        /\ Goes(o, [at |-> "edit", data |-> Restrict(edit, changed)])
        /\ UNCHANGED <<camera, versions, life, offlineVars, syncVars, cameraTrouble>>

\* Only the changed fields are written, over whatever the row holds by then.
EditWrites(o) ==
    LET data == request[o].data
        nothing == DOMAIN data = {}
    IN  /\ request[o].at = "edit"
        /\ camera' = IF nothing \/ ~camera.there THEN camera
                     ELSE [f \in DOMAIN camera |->
                              IF f \in DOMAIN data THEN data[f] ELSE camera[f]]
        /\ Goes(o, IF nothing \/ camera.there THEN AskSync ELSE Refused)
        /\ UNCHANGED <<versions, life, requests, offlineVars, syncVars, cameraTrouble>>

\* A camera with analytics data is refused; an offline interval is such data.
RemoveReads(o) ==
    /\ o \in Superadmins /\ camera.there /\ offline = "none"
    /\ Starts(o) /\ Goes(o, [at |-> "remove"])
    /\ UNCHANGED <<camera, versions, life, offlineVars, syncVars, cameraTrouble>>

\* The versions are left behind.
RemoveKeepsVersions(o) ==
    /\ request[o].at = "remove"
    /\ camera' = IF offline # "none" THEN camera ELSE [camera EXCEPT !.there = FALSE]
    /\ Goes(o, IF ~camera.there \/ offline # "none" THEN Refused ELSE AskSync)
    /\ UNCHANGED <<versions, life, requests, offlineVars, syncVars, cameraTrouble>>

\* Data that came since is caught by its foreign key.
RemoveDeletes(o) ==
    LET refused == ~camera.there \/ offline # "none"
    IN  /\ request[o].at = "remove"
        /\ camera' = IF refused THEN camera ELSE [camera EXCEPT !.there = FALSE]
        /\ versions' = IF refused THEN versions ELSE <<>>
        /\ Goes(o, IF refused THEN Refused ELSE AskSync)
        /\ UNCHANGED <<life, requests, offlineVars, syncVars, cameraTrouble>>

-----------------------------------------------------------------------------
(* The path sync *)

Begin == [IdleSync EXCEPT !.at = "list"]

\* A sync asked for during a pass is forgotten.
RequestNoRerun == IF sync.at = "none" THEN Begin ELSE sync

\* A sync asked for during a pass makes it run once more.
Request == IF sync.at = "none" THEN Begin ELSE [sync EXCEPT !.rerun = TRUE]

AskForSync(o) ==
    /\ request[o].at = "ask"
    /\ sync' = Request
    /\ unsynced' = (unsynced /\ sync.at # "none")
    /\ Goes(o, NoRequest)
    /\ UNCHANGED <<camera, versions, life, requests, offlineVars, path, cameraTrouble>>

\* Every 30 s.
Reconcile ==
    /\ sync' = Request
    /\ unsynced' = (unsynced /\ sync.at # "none")
    /\ UNCHANGED <<apiVars, offlineVars, path, cameraTrouble>>

\* The pass is over; it runs again if one was asked for meanwhile.
PassEnds(fails) ==
    /\ sync' = IF sync.rerun THEN Begin ELSE IdleSync
    /\ unsynced' = IF sync.rerun THEN FALSE ELSE unsynced \/ fails

\* MediaMTX's paths are listed before the cameras are read.
SyncLists(fails) ==
    /\ sync.at = "list"
    /\ CountTrouble(fails)
    /\ IF fails THEN PassEnds(TRUE)
       ELSE /\ sync' = [sync EXCEPT !.at = "read", !.have = path]
            /\ UNCHANGED unsynced
    /\ UNCHANGED <<apiVars, offlineVars, path>>

SyncReads(fails) ==
    /\ sync.at = "read"
    /\ CountTrouble(fails)
    /\ IF fails THEN PassEnds(TRUE)
       ELSE /\ sync' = [sync EXCEPT !.at = "apply", !.want = WantedPath(camera)]
            /\ UNCHANGED unsynced
    /\ UNCHANGED <<apiVars, offlineVars, path>>

\* Add, patch or remove: a call that timed out may have been done; a patch of a
\* path that went since the list is refused.
Lost(have, want) == want # NoPath /\ have # NoPath /\ path = NoPath
Called(have, want, fails) ==
    IF Lost(have, want) THEN {path} ELSE IF fails THEN {path, want} ELSE {want}

\* The one call the difference to the listed path asks for.
SyncApplies(fails) ==
    LET call == sync.have # sync.want
    IN  /\ sync.at = "apply"
        /\ fails => call
        /\ CountTrouble(fails)
        /\ path' \in IF call THEN Called(sync.have, sync.want, fails) ELSE {path}
        /\ PassEnds(fails \/ (call /\ Lost(sync.have, sync.want)))
        /\ UNCHANGED <<apiVars, offlineVars>>

\* MediaMTX keeps the paths in memory only.
MediamtxRestarts ==
    /\ CountTrouble(TRUE)
    /\ path' = NoPath /\ unsynced' = TRUE
    /\ UNCHANGED <<apiVars, offlineVars, sync>>

-----------------------------------------------------------------------------
(* The offline job *)

\* The engine's key: written while a camera runs, gone when it expires.
KeyChanges ==
    /\ key \/ camera.there
    /\ key' = ~key
    /\ UNCHANGED <<apiVars, offline, job, syncVars, cameraTrouble>>

JobReads ==
    /\ job.at = "idle" /\ camera.there
    /\ job' = [at |-> "keys", enabled |-> camera.enabled, seen |-> camera.seen,
               open |-> offline = "open", present |-> FALSE]
    /\ UNCHANGED <<apiVars, key, offline, syncVars, cameraTrouble>>

\* A Redis error ends the tick, so an outage opens nothing.
JobReadsKeys(fails) ==
    /\ job.at = "keys"
    /\ CountTrouble(fails)
    /\ job' = IF fails THEN IdleJob ELSE [job EXCEPT !.at = "seen", !.present = key]
    /\ UNCHANGED <<apiVars, key, offline, syncVars>>

\* A camera counts as seen from the first tick that finds its key.
JobMarksSeen(fails) ==
    /\ job.at = "seen"
    /\ CountTrouble(fails)
    /\ camera' = IF fails THEN camera
                 ELSE [camera EXCEPT !.seen = @ \/ (camera.there /\ job.present)]
    /\ job' = IF fails THEN IdleJob ELSE [job EXCEPT !.at = "write"]
    /\ UNCHANGED <<versions, life, request, requests, key, offline, syncVars>>

\* Closes, or opens unless one is open (unique index) or the camera is gone.
JobWrites(fails) ==
    LET closes == job.open /\ (~job.enabled \/ job.present)
        opens == job.enabled /\ ~job.present /\ job.seen /\ ~job.open
    IN  /\ job.at = "write"
        /\ CountTrouble(fails)
        /\ offline' = IF ~fails /\ closes THEN "closed"
                      ELSE IF ~fails /\ opens /\ camera.there THEN "open"
                      ELSE offline
        /\ job' = IdleJob
        /\ UNCHANGED <<apiVars, key, syncVars>>

\* The API stops between two steps; the sync starts with the next one.
ApiRestarts ==
    /\ CountTrouble(TRUE)
    /\ request' = [o \in Operators |-> NoRequest]
    /\ job' = IdleJob
    /\ sync' = Begin /\ unsynced' = FALSE
    /\ UNCHANGED <<camera, versions, life, requests, key, offline, path>>

-----------------------------------------------------------------------------

Operator(o) ==
    \/ \E limits \in Limits : CreateCamera(o, limits) \/ SaveReads(o, limits)
    \/ \E v \in 1..MaxRequests : Rollback(o, v)
    \/ RollbackSaves(o) \/ SaveCommits(o)
    \/ \E edit \in Edits : EditReads(o, edit)
    \/ EditWrites(o)
    \/ RemoveReads(o) \/ RemoveDeletes(o)
    \/ AskForSync(o)

Sync(fails) == SyncLists(fails) \/ SyncReads(fails) \/ SyncApplies(fails)

OfflineTick(fails) ==
    JobReads \/ JobReadsKeys(fails) \/ JobMarksSeen(fails) \/ JobWrites(fails)

Requests == \E o \in Operators : Operator(o)

PathSync ==
    \/ \E fails \in BOOLEAN : Sync(fails)
    \/ Reconcile \/ MediamtxRestarts

OfflineJob == KeyChanges \/ \E fails \in BOOLEAN : OfflineTick(fails)

CamerasNext == Requests \/ PathSync \/ OfflineJob \/ ApiRestarts

CamerasSpec == CamerasInit /\ [][CamerasNext]_camerasVars

-----------------------------------------------------------------------------
(* Properties *)

CamerasTypeOK ==
    /\ camera \in [there : BOOLEAN, seen : BOOLEAN, enabled : BOOLEAN,
                   sourceType : Values("sourceType"), url : Values("url")]
    /\ versions \in Seq([limits : Limits, by : Operators, life : Nat])
    /\ camera.there = (versions # <<>>)
    /\ key \in BOOLEAN /\ offline \in {"none", "open", "closed"}
    /\ path \in Values("url") \cup {NoPath, "publisher"}

\* While its camera exists, a version is never changed or dropped: of two saves
\* on one base the second is refused, it does not replace the first.  And a new
\* version that changes what only a superadmin may change is by one, whoever
\* saves at the same time; but for a save that was under way while the id was
\* removed and created again, which was checked against the old camera.
VersionsKept ==
    [][life' = life /\ camera'.there =>
        /\ SubSeq(versions', 1, Len(versions)) = versions
        /\ \A v \in Len(versions)+1..Len(versions') :
              \/ versions'[v].by \in Superadmins
              \/ versions'[v].limits = versions'[v-1].limits
              \/ versions'[v].life # life]_camerasVars

\* Between passes MediaMTX's path is what the row asks for, unless a pass
\* failed, MediaMTX restarted, or a request has yet to ask for a sync.
PathFollowsRow ==
    (/\ sync.at = "none" /\ ~unsynced
     /\ \A o \in Operators : request[o].at # "ask")
        => path = WantedPath(camera)

=============================================================================
