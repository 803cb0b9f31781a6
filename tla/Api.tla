-------------------------------- MODULE Api ----------------------------------
(***************************************************************************)
(* The components of the API that share no variable, in one specification: *)
(* which of them runs is chosen at the start, and the others rest.  What   *)
(* one does to another is an action of the module that feels it (footage   *)
(* that goes, a camera that names a model).  The requests on a camera run  *)
(* once with the path sync and once with the offline job, which have only  *)
(* the camera's row in common.                                             *)
(***************************************************************************)
EXTENDS Cameras, ModelRegistry, Recordings, Exports, Accounts, Logins,
        Channels, LivePush, Pages, Reports, DemoFeed, Site, Disks

VARIABLE part

Parts == {"paths", "offline", "models", "recordings", "exports", "accounts",
          "logins", "channels", "push", "pages", "reports", "demo", "site", "disks"}

apiPartsVars == <<part, camerasVars, modelVars, recordingsVars, exportsVars,
                  accountsVars, loginsVars, channelsVars, pushVars, pagesVars,
                  reportsVars, demoVars, siteVars, disksVars>>

\* What a part that rests looks like does not matter.
ApiInit ==
    /\ part \in Parts
    /\ CamerasInit /\ ModelInit /\ RecordingsInit /\ ExportsInit
    /\ AccountsInit /\ LoginsInit /\ PushInit
    /\ ChannelsInit /\ (part = "channels" \/ channel = "boxes")
    /\ PagesInit /\ (part = "pages" \/ table = [id \in RowIds |-> 0])
    /\ ReportsInit /\ (\/ part = "reports"
                       \/ /\ interval = [start |-> 0, end |-> 0]
                          /\ zone = CHOOSE z \in Zones : TRUE
                          /\ clock = CHOOSE c \in Clocks : TRUE)
    /\ DemoInit /\ (part = "demo" \/ api.there)
    /\ SiteInit /\ (part = "site" \/ chosen = CHOOSE days \in Retentions : TRUE)
    /\ DisksInit /\ (\/ part = "disks"
                     \/ /\ \A f \in DOMAIN diskOf : diskOf[f] = Missing
                        /\ \A d \in Volumes : used[d] = CHOOSE percent \in Usages : TRUE)

\* Only the part that runs moves its variables.  It comes before the step, so that TLC
\* evaluates it once.
TheOthersRest ==
    /\ UNCHANGED part
    /\ IF part \in {"paths", "offline"} THEN TRUE ELSE UNCHANGED camerasVars
    /\ IF part = "models" THEN TRUE ELSE UNCHANGED modelVars
    /\ IF part = "recordings" THEN TRUE ELSE UNCHANGED recordingsVars
    /\ IF part = "exports" THEN TRUE ELSE UNCHANGED exportsVars
    /\ IF part = "accounts" THEN TRUE ELSE UNCHANGED accountsVars
    /\ IF part = "logins" THEN TRUE ELSE UNCHANGED loginsVars
    /\ IF part = "channels" THEN TRUE ELSE UNCHANGED channelsVars
    /\ IF part = "push" THEN TRUE ELSE UNCHANGED pushVars
    /\ IF part = "pages" THEN TRUE ELSE UNCHANGED pagesVars
    /\ IF part = "reports" THEN TRUE ELSE UNCHANGED reportsVars
    /\ IF part = "demo" THEN TRUE ELSE UNCHANGED demoVars
    /\ IF part = "site" THEN TRUE ELSE UNCHANGED siteVars
    /\ IF part = "disks" THEN TRUE ELSE UNCHANGED disksVars

-----------------------------------------------------------------------------

PathsPart == part = "paths" /\ TheOthersRest /\ (Requests \/ PathSync \/ ApiRestarts)
OfflinePart == part = "offline" /\ TheOthersRest /\ (Requests \/ OfflineJob \/ ApiRestarts)
ModelsPart == part = "models" /\ TheOthersRest /\ ModelNext
RecordingsPart == part = "recordings" /\ TheOthersRest /\ RecordingsNext
ExportsPart == part = "exports" /\ TheOthersRest /\ ExportsNext
AccountsPart == part = "accounts" /\ TheOthersRest /\ AccountsNext
LoginsPart == part = "logins" /\ TheOthersRest /\ LoginsNext
ChannelsPart == part = "channels" /\ TheOthersRest /\ ChannelsNext
PushPart == part = "push" /\ TheOthersRest /\ PushNext
PagesPart == part = "pages" /\ TheOthersRest /\ PagesNext
ReportsPart == part = "reports" /\ TheOthersRest /\ ReportsNext
DemoPart == part = "demo" /\ TheOthersRest /\ DemoNext
SitePart == part = "site" /\ TheOthersRest /\ SiteNext
DisksPart == part = "disks" /\ TheOthersRest /\ DisksNext

ApiNext ==
    \/ PathsPart \/ OfflinePart \/ ModelsPart \/ RecordingsPart \/ ExportsPart
    \/ AccountsPart \/ LoginsPart \/ ChannelsPart \/ PushPart
    \/ PagesPart \/ ReportsPart \/ DemoPart \/ SitePart \/ DisksPart

ApiSpec == ApiInit /\ [][ApiNext]_apiPartsVars

-----------------------------------------------------------------------------
(* Properties *)

\* The types of every part.
ApiTypeOK ==
    /\ CamerasTypeOK /\ ModelTypeOK /\ RecordingsTypeOK /\ ExportsTypeOK
    /\ AccountsTypeOK /\ LoginsTypeOK /\ ChannelsTypeOK /\ PushTypeOK
    /\ PagesTypeOK /\ ReportsTypeOK /\ DemoTypeOK /\ SiteTypeOK /\ DisksTypeOK

\* A row that says there is a clip, a report or a model the engine can run has
\* that file, whole (or a clip with the end it had when it was asked for), and one
\* that says there is none is right; who asks for a clip gets it if playback
\* answers and has it, or it is kept within its days.
RowsHaveFiles == EvidenceIsTrue /\ ViewersGetClips /\ DoneHasFile /\ ReadyIsSound

\* What the engine decided about a model stands until it is asked again, and a
\* model that a camera uses is not removed under it.
ModelsStand == DecisionStands /\ UsedModelStays

\* What was revoked, changed or locked lets nobody in: sessions and sockets end,
\* passwords are guessed a few times at most, a revoked token acts no more.
NobodyGetsIn == AccessEnds /\ GuessesBounded /\ RevokedIsRefused

\* Who listens is told: the channel is subscribed, each change goes out, and the
\* status shown is not of a list of long ago.
DashboardsHear == ListenersHear /\ ChangesTold /\ StatusIsFresh

\* A list or an export has each row once, and a chart each second and start.
ReportsAreRight == PagesMissNothing /\ SumsAreRight

\* The demo feed opens and closes each interval once, and follows the cameras.
DemoIsConsistent == IntervalsClosed /\ NoStatusOfGone /\ FollowsNotices

\* The settings in memory are those of the site, footage goes only when they say
\* so, and managers hear of a disk that fills, once.
SiteIsKept == CopyFollowsRow /\ OldFootageGoes /\ DisksAreTold

=============================================================================
