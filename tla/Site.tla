-------------------------------- MODULE Site ----------------------------------
(***************************************************************************)
(* The site's settings, and the job that runs on one of them: the sweep of *)
(* recordings whose camera is gone.  Of the settings only                  *)
(* recordingRetentionDays is modelled; of a camera's recording the day of  *)
(* one file.  Ids of cameras are not used again.                           *)
(***************************************************************************)
EXTENDS Naturals, FiniteSets

CONSTANTS
    Retentions,      \* days an operator may choose
    DefaultDays,     \* DEFAULTS.recordingRetentionDays
    SiteCameras,
    Patchers,        \* requests that change the settings
    LastDay,
    MaxSiteTrouble   \* failures and restarts

\* A retention is a day at least, as the DTO has it.
ASSUME SiteAssumption == Retentions \subseteq Nat \ {0} /\ LastDay \in Nat \ {0}

VARIABLES
    chosen,      \* the row of the settings
    held,        \* all the row has been
    copy,        \* the one in memory, Unloaded if none
    loading,     \* the load that is under way is shared
    patch,       \* patcher -> where it stands
    crossed,     \* two patches were under way at once, or one was not answered
    day,
    cameraAt,    \* camera -> "new", "there" or "gone"
    recorded,    \* camera -> the day its file is of, NoFiles
    cleaning,    \* the retention job's pass
    lost,        \* the files it deleted: was the camera there, how old were they
    siteTrouble

settingsVars == <<chosen, held, copy, loading, patch, crossed>>
footageVars == <<day, cameraAt, recorded, lost>>
siteVars == <<settingsVars, footageVars, cleaning, siteTrouble>>

Unloaded == 0
NoFiles == 0
NotCleaning == [at |-> "idle"]

SiteInit ==
    /\ chosen \in Retentions /\ held = {chosen}
    /\ copy = Unloaded /\ loading = FALSE
    /\ patch = [p \in Patchers |-> [at |-> "new"]]
    /\ crossed = FALSE
    /\ day = 1
    /\ cameraAt = [c \in SiteCameras |-> "new"]
    /\ recorded = [c \in SiteCameras |-> NoFiles]
    /\ cleaning = NotCleaning
    /\ lost = {}
    /\ siteTrouble = 0

Trips(fails) ==
    /\ fails => siteTrouble < MaxSiteTrouble
    /\ siteTrouble' = siteTrouble + (IF fails THEN 1 ELSE 0)

-----------------------------------------------------------------------------
(* SiteSettingsService *)

\* Anyone who reads a setting while there is no copy makes the service load it.
Current ==
    /\ copy = Unloaded /\ ~loading /\ loading' = TRUE
    /\ UNCHANGED <<chosen, held, copy, patch, crossed, footageVars, cleaning, siteTrouble>>

\* load(): the row is read, and all who wait have it; or Postgres is down, and
\* none has.
Load(fails) ==
    /\ loading /\ loading' = FALSE
    /\ Trips(fails)
    /\ copy' = IF fails THEN copy ELSE chosen
    /\ patch' = [p \in Patchers |->
                   IF patch[p].at # "loads" THEN patch[p]
                   ELSE [patch[p] EXCEPT !.at = IF fails THEN "done" ELSE "writes"]]
    /\ cleaning' = IF cleaning.at # "loads" THEN cleaning
                   ELSE IF fails THEN NotCleaning
                   ELSE [cleaning EXCEPT !.at = "sweeps", !.days = chosen]
    /\ UNCHANGED <<chosen, held, crossed, footageVars>>

UnderWay(p) == patch[p].at \in {"loads", "writes", "answers"}

\* update(): the copy first (the requests are alike), ...
Update(p, days) ==
    /\ patch[p].at = "new" /\ p = CHOOSE new \in Patchers : patch[new].at = "new"
    /\ patch' = [patch EXCEPT ![p] = [at |-> IF copy = Unloaded THEN "loads" ELSE "writes",
                                      days |-> days]]
    /\ loading' = (copy = Unloaded)
    /\ crossed' = (crossed \/ \E q \in Patchers : UnderWay(q))
    /\ UNCHANGED <<chosen, held, copy, footageVars, cleaning, siteTrouble>>

\* ... then the row, which may be written although no answer comes, ...
UpdateRow(p, fails, written) ==
    /\ patch[p].at = "writes"
    /\ fails \/ written
    /\ Trips(fails)
    /\ chosen' = IF written THEN patch[p].days ELSE chosen
    /\ held' = held \cup {chosen'}
    /\ patch' = [patch EXCEPT ![p].at = IF fails THEN "done" ELSE "answers"]
    /\ crossed' = (crossed \/ (fails /\ written))
    /\ UNCHANGED <<copy, loading, footageVars, cleaning>>

\* ... then the copy again.
UpdateReturns(p) ==
    /\ patch[p].at = "answers"
    /\ copy' = patch[p].days
    /\ patch' = [patch EXCEPT ![p].at = "done"]
    /\ UNCHANGED <<chosen, held, loading, crossed, footageVars, cleaning, siteTrouble>>

-----------------------------------------------------------------------------
(* RetentionJob *)

Pass(at, days) == [at |-> at, days |-> days, since |-> day, known |-> {}, todo |-> {}]

\* Mutant: the settings as they are in memory, or else the defaults.
CurrentSettings ==
    /\ cleaning' = Pass("sweeps", IF copy = Unloaded THEN DefaultDays ELSE copy)
    /\ UNCHANGED loading

\* loaded() waits for the row if need be.
LoadedSettings ==
    /\ cleaning' = Pass(IF copy = Unloaded THEN "loads" ELSE "sweeps", copy)
    /\ loading' = (copy = Unloaded)

RetentionTick ==
    /\ cleaning.at = "idle" /\ LoadedSettings
    /\ UNCHANGED <<chosen, held, copy, patch, crossed, footageVars, siteTrouble>>

\* The sweep of deleted cameras reads first the cameras there are, ...
KnownCameras(fails) ==
    /\ cleaning.at = "sweeps"
    /\ Trips(fails)
    /\ cleaning' = IF fails THEN NotCleaning
                   ELSE [cleaning EXCEPT !.at = "folders",
                                         !.known = {c \in SiteCameras : cameraAt[c] = "there"}]
    /\ UNCHANGED <<settingsVars, footageVars>>

\* ... then the folders there are; of those that belong to none of the cameras
DeletedCameras ==
    /\ cleaning.at = "folders"
    /\ cleaning' = [cleaning EXCEPT !.at = "files",
                        !.todo = {c \in SiteCameras : recorded[c] # NoFiles} \ cleaning.known]
    /\ UNCHANGED <<settingsVars, footageVars, siteTrouble>>

\* it removes the files that were old enough when the pass began, but for one
\* that cannot be deleted.
SweepFolder(c, fails) ==
    LET old == recorded[c] + cleaning.days < cleaning.since
    IN  /\ cleaning.at = "files" /\ c \in cleaning.todo
        /\ fails => old
        /\ Trips(fails)
        /\ IF old /\ ~fails
           THEN /\ recorded' = [recorded EXCEPT ![c] = NoFiles]
                /\ lost' = lost \cup {[there |-> cameraAt[c] = "there",
                                       days |-> day - recorded[c]]}
           ELSE UNCHANGED <<recorded, lost>>
        /\ cleaning' = [cleaning EXCEPT !.todo = @ \ {c}]
        /\ UNCHANGED <<day, cameraAt, settingsVars>>

SweepEnds ==
    /\ cleaning.at = "files" /\ cleaning.todo = {}
    /\ cleaning' = NotCleaning
    /\ UNCHANGED <<settingsVars, footageVars, siteTrouble>>

DayPasses ==
    /\ day < LastDay /\ day' = day + 1
    /\ UNCHANGED <<cameraAt, recorded, lost, settingsVars, cleaning, siteTrouble>>

\* Cameras come, are recorded, and go; their recordings stay.
CameraComes(c) ==
    /\ cameraAt[c] = "new" /\ cameraAt' = [cameraAt EXCEPT ![c] = "there"]
    /\ UNCHANGED <<day, recorded, lost, settingsVars, cleaning, siteTrouble>>

Records(c) ==
    /\ cameraAt[c] = "there" /\ recorded[c] = NoFiles
    /\ recorded' = [recorded EXCEPT ![c] = day]
    /\ UNCHANGED <<day, cameraAt, lost, settingsVars, cleaning, siteTrouble>>

CameraGoes(c) ==
    /\ cameraAt[c] = "there" /\ cameraAt' = [cameraAt EXCEPT ![c] = "gone"]
    /\ UNCHANGED <<day, recorded, lost, settingsVars, cleaning, siteTrouble>>

\* The API starts again: what it had in memory is gone.
SiteRestarts ==
    /\ Trips(TRUE)
    /\ copy' = Unloaded /\ loading' = TRUE
    /\ patch' = [p \in Patchers |-> IF UnderWay(p) THEN [at |-> "done"] ELSE patch[p]]
    /\ crossed' = FALSE
    /\ cleaning' = NotCleaning
    /\ UNCHANGED <<chosen, held, footageVars>>

-----------------------------------------------------------------------------

SettingsNext ==
    \/ Current
    \/ \E fails \in BOOLEAN :
          \/ Load(fails)
          \/ \E p \in Patchers, written \in BOOLEAN : UpdateRow(p, fails, written)
    \/ \E p \in Patchers :
          UpdateReturns(p) \/ \E days \in Retentions : Update(p, days)

SweepNext ==
    \/ RetentionTick \/ DeletedCameras \/ SweepEnds
    \/ \E fails \in BOOLEAN :
          KnownCameras(fails) \/ \E c \in SiteCameras : SweepFolder(c, fails)

SiteNext ==
    \/ SettingsNext \/ SweepNext \/ SiteRestarts
    \/ DayPasses
    \/ \E c \in SiteCameras : CameraComes(c) \/ Records(c) \/ CameraGoes(c)

-----------------------------------------------------------------------------
(* Properties *)

SiteTypeOK ==
    /\ chosen \in held /\ held \subseteq Retentions
    /\ copy \in Retentions \cup {Unloaded} /\ loading \in BOOLEAN
    /\ day \in 1..LastDay /\ recorded \in [SiteCameras -> 0..LastDay]
    /\ cleaning.at \in {"idle", "loads", "sweeps", "folders", "files"}

\* What the service holds is the row, once the requests that change it are
\* answered, unless two of them crossed or one was written without an answer.
CopyFollowsRow ==
    copy # Unloaded /\ ~crossed /\ (\A p \in Patchers : ~UnderWay(p)) => copy = chosen

\* A recording is only swept when its camera is gone and it is older than a
\* retention the site has chosen, whatever was created, changed, or not
\* answered meanwhile.
OldFootageGoes ==
    \A of \in lost : ~of.there /\ \E days \in held : of.days > days

=============================================================================
