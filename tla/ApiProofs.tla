------------------------------ MODULE ApiProofs ------------------------------
(***************************************************************************)
(* What the parts of the API keep, proved for ApiSpec: who is let in, who  *)
(* is told, what is kept of a site, which rows have files, what the demo   *)
(* shows, what a list has, and the types.  A part's variables are moved by *)
(* its own actions only (PartsMove), so each part has an inductive         *)
(* invariant of its own: Start or Init, Step and Follow lemmas, one step   *)
(* per action.                                                             *)
(***************************************************************************)
EXTENDS Api, AccountsProofs, CamerasProofs, SequenceTheorems, WellFoundedInduction

(* The specification of the API moves one part at a time: each part follows *)
(* its own next-state relation.                                             *)

LEMMA PartsMove ==
    [ApiNext]_apiPartsVars =>
        /\ [CamerasNext]_camerasVars
        /\ [AccountsNext]_accountsVars
        /\ [LoginsNext]_loginsVars
        /\ [SiteNext]_siteVars
        /\ [DisksNext]_disksVars
        /\ [PushNext]_pushVars
        /\ [ChannelsNext]_channelsVars
        /\ [ModelNext]_modelVars
        /\ [RecordingsNext]_recordingsVars
        /\ [ExportsNext]_exportsVars
        /\ [PagesNext]_pagesVars
        /\ [ReportsNext]_reportsVars
        /\ [DemoNext]_demoVars
  BY DEF ApiNext, apiPartsVars, PathsPart, OfflinePart, ModelsPart, RecordingsPart,
         ExportsPart, AccountsPart, LoginsPart, ChannelsPart, PushPart, PagesPart,
         ReportsPart, DemoPart, SitePart, DisksPart, TheOthersRest, CamerasNext

-----------------------------------------------------------------------------
(* The door.                                                               *)

\* Each password that was looked at is counted, up to the limit.
GuessesCounted ==
    /\ loginfail \in Nat /\ checked \in Nat
    /\ checked <= loginfail /\ checked <= LockoutFailures

\* A minute's row is there only with its key.
RowHasKey ==
    /\ ratelog \in BOOLEAN /\ limited \in {0, 1}
    /\ ~ratelog => limited = 0

\* A request that came late is of a token that is revoked for good.
LateIsRevoked ==
    /\ tokenRequest \in [TokenUsers -> {"idle", "arrived", "late", "acts"}]
    /\ \A r \in TokenUsers : tokenRequest[r] = "late" => token = "revoked"

DoorInv == GuessesCounted /\ RowHasKey /\ LateIsRevoked

LEMMA DoorInit == LoginsInit => DoorInv
<1> SUFFICES ASSUME LoginsInit PROVE DoorInv
  OBVIOUS
<1>1. GuessesCounted
  BY LoginsAssumption DEF LoginsInit, GuessesCounted
<1>2. RowHasKey
  BY DEF LoginsInit, RowHasKey
<1>3. LateIsRevoked
  BY DEF LoginsInit, LateIsRevoked
<1> QED BY <1>1, <1>2, <1>3 DEF DoorInv

LEMMA DoorStep == DoorInv /\ [LoginsNext]_loginsVars => DoorInv'
<1> SUFFICES ASSUME DoorInv, [LoginsNext]_loginsVars PROVE DoorInv'
  OBVIOUS
<1> USE DEF doorVars, tokenVars, loginsVars
<1>1. GuessesCounted'
  <2>1. \/ \E a \in Attempts : Login(a)
        \/ loginfail' = 0 /\ checked' = 0
        \/ UNCHANGED <<loginfail, checked>>
    BY DEF LoginsNext, VerifyPassword, Record, ResetLockout, LockoutEnds, MinuteEnds,
           Throttle, CreateToken, RevokeToken, Arrives, ResolveToken, Responds
  <2>2. ASSUME NEW a \in Attempts, Login(a) PROVE GuessesCounted'
    <3>1. /\ loginfail' = loginfail + 1
          /\ checked' = checked + (IF loginfail + 1 <= LockoutFailures THEN 1 ELSE 0)
      BY <2>2 DEF Login, Reserve
    <3> QED BY <3>1, LoginsAssumption DEF DoorInv, GuessesCounted
  <2> QED BY <2>1, <2>2, LoginsAssumption DEF DoorInv, GuessesCounted
<1>2. RowHasKey'
  <2>1. \/ \E fails \in BOOLEAN : Throttle(fails)
        \/ ratelog' = FALSE /\ limited' = 0
        \/ UNCHANGED <<ratelog, limited>>
    BY DEF LoginsNext, Login, VerifyPassword, Record, ResetLockout, LockoutEnds,
           MinuteEnds, CreateToken, RevokeToken, Arrives, ResolveToken, Responds
  <2>2. ASSUME NEW fails \in BOOLEAN, Throttle(fails) PROVE RowHasKey'
    BY <2>2 DEF DoorInv, Throttle, RowHasKey
  <2> QED BY <2>1, <2>2 DEF DoorInv, RowHasKey
<1>3. LateIsRevoked'
  <2>1. \/ \E r \in TokenUsers : Arrives(r) \/ ResolveToken(r) \/ Responds(r)
        \/ CreateToken \/ RevokeToken
        \/ UNCHANGED <<token, tokenRequest>>
    BY DEF LoginsNext, Login, VerifyPassword, Record, ResetLockout, LockoutEnds,
           MinuteEnds, Throttle
  <2>2. ASSUME NEW r \in TokenUsers, Arrives(r) \/ ResolveToken(r) \/ Responds(r)
        PROVE  LateIsRevoked'
    BY <2>2 DEF DoorInv, Arrives, ResolveToken, Responds, UsableToken, LateIsRevoked
  <2>3. CASE CreateToken \/ RevokeToken
    BY <2>3 DEF DoorInv, CreateToken, RevokeToken, LateIsRevoked
  <2> QED BY <2>1, <2>2, <2>3 DEF DoorInv, LateIsRevoked
<1> QED BY <1>1, <1>2, <1>3 DEF DoorInv

LEMMA DoorFollows == DoorInv => GuessesBounded /\ RevokedIsRefused
<1>1. RowHasKey => limited <= 1
  BY DEF RowHasKey
<1>2. LateIsRevoked => RevokedIsRefused
  BY DEF LateIsRevoked, RevokedIsRefused
<1> QED BY <1>1, <1>2 DEF DoorInv, GuessesCounted, GuessesBounded

-----------------------------------------------------------------------------

\* However requests, rechecks, failures and expiries interleave, a new password
\* ends the sessions of the old one and a recheck the sockets it found bad; no
\* more passwords are looked at than the lockout allows, and no request with a
\* revoked token acts.
THEOREM NobodyIsLetIn == ApiSpec => []NobodyGetsIn
<1>1. ApiInit => AccessInv /\ DoorInv
  BY AccessInit, DoorInit DEF ApiInit
<1>2. AccessInv /\ DoorInv /\ [ApiNext]_apiPartsVars => (AccessInv /\ DoorInv)'
  BY PartsMove, AccessStep, DoorStep
<1>3. AccessInv /\ DoorInv => NobodyGetsIn
  BY AccessFollows, DoorFollows DEF NobodyGetsIn
<1> QED  BY <1>1, <1>2, <1>3, PTL DEF ApiSpec

-----------------------------------------------------------------------------
(* The site's settings.                                                    *)

PatchStates == [at : {"new", "done"}]
               \cup [at : {"loads", "writes", "answers", "done"}, days : Retentions]

\* The one patch that is under way, unless two crossed, has written what the
\* row is, and nobody waits for a load that is not under way.
PatchTypes ==
    /\ chosen \in held /\ held \subseteq Retentions
    /\ copy \in held \cup {Unloaded} /\ loading \in BOOLEAN /\ crossed \in BOOLEAN
    /\ patch \in [Patchers -> PatchStates]

LoadsAreAwaited ==
    /\ loading => copy = Unloaded
    /\ \A p \in Patchers :
          /\ patch[p].at = "loads" => loading
          /\ patch[p].at \in {"writes", "answers"} => copy # Unloaded
          /\ patch[p].at = "answers" => patch[p].days \in held

PatchesApart ==
    ~crossed =>
        /\ \A p, q \in Patchers : UnderWay(p) /\ UnderWay(q) => p = q
        /\ \A p \in Patchers : patch[p].at = "answers" => patch[p].days = chosen
        /\ copy # Unloaded /\ (\A p \in Patchers : patch[p].at # "answers") => copy = chosen

SettingsInv == PatchTypes /\ LoadsAreAwaited /\ PatchesApart

LEMMA SettingsInit == SiteInit => SettingsInv
<1> SUFFICES ASSUME SiteInit PROVE SettingsInv
  OBVIOUS
<1>1. \A p \in Patchers : patch[p] = [at |-> "new"]
  BY DEF SiteInit
<1>2. PatchTypes
  BY DEF SiteInit, PatchTypes, PatchStates
<1> QED
  BY <1>1, <1>2 DEF SiteInit, SettingsInv, LoadsAreAwaited, PatchesApart, UnderWay

LEMMA PatchShapes ==
    ASSUME SettingsInv, NEW p \in Patchers
    PROVE  /\ patch[p].at \in {"new", "loads", "writes", "answers", "done"}
           /\ UnderWay(p) => /\ patch[p].days \in Retentions
                             /\ patch[p] = [at |-> patch[p].at, days |-> patch[p].days]
  BY DEF SettingsInv, PatchTypes, PatchStates, UnderWay

LEMMA LoadStep ==
    ASSUME SettingsInv, NEW fails \in BOOLEAN, Load(fails)
    PROVE  SettingsInv'
<1>1. /\ loading /\ loading' = FALSE /\ copy = Unloaded
      /\ copy' = (IF fails THEN copy ELSE chosen)
      /\ UNCHANGED <<chosen, held, crossed>>
  BY DEF Load, SettingsInv, LoadsAreAwaited
<1> DEFINE after == IF fails THEN "done" ELSE "writes"
<1>2. \A p \in Patchers :
         /\ patch[p].at # "loads" => patch'[p] = patch[p]
         /\ patch[p].at = "loads" => patch'[p] = [at |-> after, days |-> patch[p].days]
  <2>1. \A p \in Patchers :
           patch'[p] = IF patch[p].at # "loads" THEN patch[p]
                       ELSE [patch[p] EXCEPT !.at = after]
    BY DEF Load
  <2>2. \A p \in Patchers : patch[p].at = "loads" =>
           patch[p] = [at |-> "loads", days |-> patch[p].days]
    BY PatchShapes DEF UnderWay
  <2> HIDE DEF after
  <2> QED BY <2>1, <2>2
<1>9. after \in {"done", "writes"} /\ (after = "writes" <=> ~fails)
  OBVIOUS
<1> HIDE DEF after
<1>10. ASSUME NEW p \in Patchers, patch[p].at = "loads"
       PROVE  /\ patch'[p] \in PatchStates /\ patch'[p].at \in {"done", "writes"}
              /\ patch'[p].at = "writes" => ~fails
  <2>1. patch[p].days \in Retentions
    BY <1>10, PatchShapes DEF UnderWay
  <2>2. patch'[p] = [at |-> after, days |-> patch[p].days]
    BY <1>2, <1>10
  <2>3. patch'[p].at = after /\ patch'[p] \in PatchStates
    BY <1>9, <2>1, <2>2 DEF PatchStates
  <2> QED BY <1>9, <2>3
<1>3. \A p \in Patchers : patch[p].at \notin {"writes", "answers"}
  BY <1>1 DEF SettingsInv, LoadsAreAwaited
<1>4. PatchTypes'
  <2>2. patch' \in [Patchers -> PatchStates]
    <3>1. \A p \in Patchers : patch'[p] \in PatchStates
      BY <1>2, <1>10 DEF SettingsInv, PatchTypes
    <3>2. patch' = [p \in Patchers |-> patch'[p]]
      BY DEF Load
    <3> QED BY <3>1, <3>2
  <2> QED BY <1>1, <2>2 DEF SettingsInv, PatchTypes
<1>5. chosen # Unloaded
  BY SiteAssumption DEF SettingsInv, PatchTypes, Unloaded
<1>6. LoadsAreAwaited'
  <2>1. \A p \in Patchers : patch'[p].at \notin {"loads", "answers"}
    BY <1>2, <1>3, <1>10
  <2>2. \A p \in Patchers : patch'[p].at = "writes" => ~fails
    BY <1>2, <1>3, <1>10
  <2> QED BY <1>1, <1>5, <2>1, <2>2 DEF LoadsAreAwaited
<1>7. PatchesApart'
  <2>1. \A p \in Patchers : patch'[p].at # "answers" /\ (UnderWay(p)' => UnderWay(p))
    BY <1>2, <1>3, <1>10 DEF UnderWay
  <2>2. copy' # Unloaded => copy' = chosen'
    BY <1>1
  <2> QED BY <1>1, <2>1, <2>2 DEF SettingsInv, PatchesApart
<1> QED BY <1>4, <1>6, <1>7 DEF SettingsInv

\* A step of one patcher, from a place to another.
LEMMA PatcherStep ==
    ASSUME SettingsInv, NEW p \in Patchers, NEW next,
           next \in PatchStates,
           patch' = [patch EXCEPT ![p] = next]
    PROVE  /\ patch'[p] = next /\ \A q \in Patchers \ {p} : patch'[q] = patch[q]
           /\ patch' \in [Patchers -> PatchStates]
  BY DEF SettingsInv, PatchTypes

LEMMA UpdateStep ==
    ASSUME SettingsInv, NEW p \in Patchers, NEW days \in Retentions, Update(p, days)
    PROVE  SettingsInv'
<1> DEFINE next == [at |-> IF copy = Unloaded THEN "loads" ELSE "writes", days |-> days]
<1>1. /\ patch[p].at = "new" /\ patch' = [patch EXCEPT ![p] = next]
      /\ loading' = (copy = Unloaded)
      /\ crossed' = (crossed \/ \E q \in Patchers : UnderWay(q))
      /\ UNCHANGED <<chosen, held, copy>>
  BY DEF Update
<1>2. next \in PatchStates /\ next.at = IF copy = Unloaded THEN "loads" ELSE "writes"
  BY DEF PatchStates
<1> HIDE DEF next
<1>3. /\ patch'[p] = next /\ \A q \in Patchers \ {p} : patch'[q] = patch[q]
      /\ patch' \in [Patchers -> PatchStates]
  BY <1>1, <1>2, PatcherStep
<1>4. PatchTypes'
  BY <1>1, <1>3 DEF SettingsInv, PatchTypes
<1>5. LoadsAreAwaited'
  BY <1>1, <1>2, <1>3 DEF SettingsInv, LoadsAreAwaited
<1>6. PatchesApart'
  BY <1>1, <1>2, <1>3 DEF SettingsInv, PatchesApart, UnderWay
<1> QED BY <1>4, <1>5, <1>6 DEF SettingsInv

LEMMA UpdateRowStep ==
    ASSUME SettingsInv, NEW p \in Patchers, NEW fails \in BOOLEAN, NEW written \in BOOLEAN,
           UpdateRow(p, fails, written)
    PROVE  SettingsInv'
<1> DEFINE next == [at |-> IF fails THEN "done" ELSE "answers", days |-> patch[p].days]
<1>0. /\ patch[p].at = "writes" /\ patch[p].days \in Retentions
      /\ patch[p] = [at |-> "writes", days |-> patch[p].days]
  BY PatchShapes DEF UpdateRow, UnderWay
<1>1. /\ fails \/ written
      /\ chosen' = (IF written THEN patch[p].days ELSE chosen)
      /\ held' = held \cup {chosen'}
      /\ crossed' = (crossed \/ (fails /\ written))
      /\ UNCHANGED <<copy, loading>>
  BY DEF UpdateRow
<1>2. patch' = [patch EXCEPT ![p] = next]
  <2>1. patch' = [patch EXCEPT ![p].at = IF fails THEN "done" ELSE "answers"]
    BY DEF UpdateRow
  <2>2. [patch[p] EXCEPT !.at = IF fails THEN "done" ELSE "answers"] = next
    BY <1>0
  <2> QED BY <2>1, <2>2
<1>3. /\ next \in PatchStates
      /\ next.at = (IF fails THEN "done" ELSE "answers") /\ next.days = patch[p].days
  BY <1>0 DEF PatchStates
<1> HIDE DEF next
<1>4. /\ patch'[p] = next /\ \A q \in Patchers \ {p} : patch'[q] = patch[q]
      /\ patch' \in [Patchers -> PatchStates]
  BY <1>2, <1>3, PatcherStep
<1>5. PatchTypes'
  BY <1>0, <1>1, <1>4 DEF SettingsInv, PatchTypes
<1>6. LoadsAreAwaited'
  BY <1>0, <1>1, <1>3, <1>4 DEF SettingsInv, LoadsAreAwaited
<1>7. PatchesApart'
  <2> SUFFICES ASSUME ~crossed' PROVE PatchesApart'
    BY DEF PatchesApart
  <2>1. \A q \in Patchers \ {p} : ~UnderWay(q)
    BY <1>0, <1>1 DEF SettingsInv, PatchesApart, UnderWay
  <2>2. CASE ~fails
    BY <1>0, <1>1, <1>3, <1>4, <2>1, <2>2 DEF PatchesApart, UnderWay
  <2>3. CASE fails
    <3>1. chosen' = chosen /\ copy # Unloaded /\ copy = chosen
      BY <1>0, <1>1, <2>1, <2>3 DEF SettingsInv, PatchesApart, LoadsAreAwaited, UnderWay
    <3> QED BY <1>0, <1>1, <1>3, <1>4, <2>1, <2>3, <3>1 DEF PatchesApart, UnderWay
  <2> QED BY <2>2, <2>3
<1> QED BY <1>5, <1>6, <1>7 DEF SettingsInv

LEMMA UpdateReturnsStep ==
    ASSUME SettingsInv, NEW p \in Patchers, UpdateReturns(p)
    PROVE  SettingsInv'
<1> DEFINE next == [at |-> "done", days |-> patch[p].days]
<1>0. /\ patch[p].at = "answers" /\ patch[p].days \in Retentions
      /\ patch[p] = [at |-> "answers", days |-> patch[p].days]
  BY PatchShapes DEF UpdateReturns, UnderWay
<1>1. copy' = patch[p].days /\ UNCHANGED <<chosen, held, loading, crossed>>
  BY DEF UpdateReturns
<1>2. patch' = [patch EXCEPT ![p] = next]
  <2>1. patch' = [patch EXCEPT ![p] = [patch[p] EXCEPT !.at = "done"]]
    BY DEF UpdateReturns
  <2>2. [patch[p] EXCEPT !.at = "done"] = next
    BY <1>0
  <2> QED BY <2>1, <2>2
<1>3. next \in PatchStates
  BY <1>0 DEF PatchStates
<1>4. /\ patch'[p] = next /\ \A q \in Patchers \ {p} : patch'[q] = patch[q]
      /\ patch' \in [Patchers -> PatchStates]
  BY <1>2, <1>3, PatcherStep
<1>5. /\ patch[p].days \in held /\ copy # Unloaded /\ ~loading
      /\ patch[p].days # Unloaded
  BY <1>0, SiteAssumption DEF SettingsInv, LoadsAreAwaited, Unloaded
<1>6. PatchTypes'
  BY <1>0, <1>1, <1>4, <1>5 DEF SettingsInv, PatchTypes
<1>7. LoadsAreAwaited'
  BY <1>0, <1>1, <1>4, <1>5 DEF SettingsInv, LoadsAreAwaited
<1>8. PatchesApart'
  BY <1>0, <1>1, <1>4 DEF SettingsInv, PatchesApart, UnderWay
<1> QED BY <1>6, <1>7, <1>8 DEF SettingsInv

LEMMA SettingsRestart == ASSUME SettingsInv, SiteRestarts PROVE SettingsInv'
<1>1. /\ copy' = Unloaded /\ loading' = TRUE /\ crossed' = FALSE
      /\ UNCHANGED <<chosen, held>>
      /\ patch' = [p \in Patchers |-> IF UnderWay(p) THEN [at |-> "done"] ELSE patch[p]]
  BY DEF SiteRestarts
<1>2. \A p \in Patchers :
         \/ patch'[p] = [at |-> "done"]
         \/ ~UnderWay(p) /\ patch'[p] = patch[p]
  BY <1>1
<1>3. \A p \in Patchers : patch'[p].at \notin {"loads", "writes", "answers"}
  BY <1>2 DEF UnderWay
<1>4. PatchTypes'
  BY <1>1 DEF SettingsInv, PatchTypes, PatchStates
<1> QED
  BY <1>1, <1>3, <1>4 DEF SettingsInv, LoadsAreAwaited, PatchesApart, UnderWay

LEMMA SettingsStep == SettingsInv /\ [SiteNext]_siteVars => SettingsInv'
<1> SUFFICES ASSUME SettingsInv, [SiteNext]_siteVars PROVE SettingsInv'
  OBVIOUS
<1>1. ASSUME UNCHANGED <<chosen, held, copy, patch, crossed>>, 
             UNCHANGED loading \/ (copy = Unloaded /\ loading') \/ (copy # Unloaded /\ ~loading'),
             loading' \in BOOLEAN
      PROVE  SettingsInv'
  BY <1>1 DEF SettingsInv, PatchTypes, LoadsAreAwaited, PatchesApart, UnderWay
<1>2. Current \/ RetentionTick => SettingsInv'
  BY <1>1 DEF Current, RetentionTick, LoadedSettings
<1>3. ASSUME UNCHANGED settingsVars PROVE SettingsInv'
  BY <1>1, <1>3 DEF settingsVars, SettingsInv, PatchTypes
<1>4. DeletedCameras \/ SweepEnds \/ DayPasses => SettingsInv'
  BY <1>3 DEF DeletedCameras, SweepEnds, DayPasses
<1>5. \A fails \in BOOLEAN : KnownCameras(fails) => SettingsInv'
  BY <1>3 DEF KnownCameras
<1>6. \A c \in SiteCameras :
         /\ \A fails \in BOOLEAN : SweepFolder(c, fails) => SettingsInv'
         /\ CameraComes(c) \/ Records(c) \/ CameraGoes(c) => SettingsInv'
  BY <1>3 DEF SweepFolder, CameraComes, Records, CameraGoes
<1>7. UNCHANGED siteVars => SettingsInv'
  BY <1>3 DEF siteVars
<1> QED
  BY <1>2, <1>4, <1>5, <1>6, <1>7, LoadStep, UpdateStep, UpdateRowStep,
     UpdateReturnsStep, SettingsRestart
  DEF SiteNext, SettingsNext, SweepNext

LEMMA SettingsFollow == SettingsInv => CopyFollowsRow
  BY DEF SettingsInv, PatchesApart, CopyFollowsRow, UnderWay

-----------------------------------------------------------------------------
(* The sweep of recordings.                                                *)

Passing == [at : {"loads", "sweeps", "folders", "files"}, days : held \cup {Unloaded},
            since : Nat, known : SUBSET SiteCameras, todo : SUBSET SiteCameras]

FootageTypes ==
    /\ day \in 1 .. LastDay
    /\ cameraAt \in [SiteCameras -> {"new", "there", "gone"}]
    /\ recorded \in [SiteCameras -> 0 .. LastDay]
    /\ cleaning \in {NotCleaning} \cup Passing
    /\ \A c \in SiteCameras : cameraAt[c] = "new" => recorded[c] = NoFiles

\* A pass knows a retention of the site.  A camera it does not know was gone when
\* the pass read the cameras, or has come since, and has no file that is older.
PassIsFair ==
    cleaning # NotCleaning =>
        /\ cleaning.since <= day
        /\ cleaning.at # "loads" => cleaning.days \in held
        /\ cleaning.at \in {"folders", "files"} =>
              \A c \in SiteCameras \ cleaning.known : cameraAt[c] = "there" =>
                  recorded[c] = NoFiles \/ recorded[c] >= cleaning.since
        /\ cleaning.at = "files" =>
              \A c \in cleaning.todo : c \notin cleaning.known /\ recorded[c] # NoFiles

FootageInv == FootageTypes /\ PassIsFair /\ OldFootageGoes

LEMMA FootageInit == SiteInit => FootageInv
  BY SiteAssumption
  DEF SiteInit, FootageInv, FootageTypes, PassIsFair, OldFootageGoes, NoFiles

\* What a setting is does not matter to a pass, but that it has been one.
LEMMA FootageWaits ==
    ASSUME FootageInv, held \subseteq held', UNCHANGED <<footageVars, cleaning>>
    PROVE  FootageInv'
<1> USE DEF footageVars
<1>1. FootageTypes'
  BY DEF FootageInv, FootageTypes, Passing
<1>2. PassIsFair'
  BY DEF FootageInv, PassIsFair
<1>3. OldFootageGoes'
  BY DEF FootageInv, OldFootageGoes
<1> QED BY <1>1, <1>2, <1>3 DEF FootageInv

\* A step of a pass that touches no file.
LEMMA PassMoves ==
    ASSUME FootageInv, UNCHANGED <<footageVars, held>>,
           cleaning' = NotCleaning \/ cleaning' \in Passing,
           cleaning' # NotCleaning => PassIsFair'
    PROVE  FootageInv'
<1> USE DEF footageVars
<1>1. FootageTypes'
  BY DEF FootageInv, FootageTypes, Passing
<1>2. PassIsFair'
  BY DEF PassIsFair
<1>3. OldFootageGoes'
  BY DEF FootageInv, OldFootageGoes
<1> QED BY <1>1, <1>2, <1>3 DEF FootageInv

LEMMA PassShape ==
    ASSUME FootageInv, cleaning.at # "idle"
    PROVE  /\ cleaning # NotCleaning /\ cleaning \in Passing
           /\ cleaning = [at |-> cleaning.at, days |-> cleaning.days,
                          since |-> cleaning.since, known |-> cleaning.known,
                          todo |-> cleaning.todo]
<1>1. cleaning # NotCleaning /\ cleaning \in Passing
  BY DEF FootageInv, FootageTypes, NotCleaning
<1> QED BY <1>1 DEF Passing

LEMMA LoadGoesOn ==
    ASSUME SettingsInv, FootageInv, NEW fails \in BOOLEAN, Load(fails)
    PROVE  FootageInv'
<1>1. UNCHANGED <<footageVars, held>> /\ chosen \in held
  BY DEF Load, SettingsInv, PatchTypes
<1>2. CASE cleaning.at # "loads"
  <2>1. cleaning' = cleaning
    BY <1>2 DEF Load
  <2> QED BY <1>1, <2>1, FootageWaits
<1>3. CASE cleaning.at = "loads" /\ fails
  <2>1. cleaning' = NotCleaning
    BY <1>3 DEF Load
  <2> QED BY <1>1, <2>1, PassMoves
<1>4. CASE cleaning.at = "loads" /\ ~fails
  <2>1. cleaning' = [cleaning EXCEPT !.at = "sweeps", !.days = chosen]
    BY <1>4 DEF Load
  <2>2. cleaning \in Passing /\ cleaning.since <= day
    BY <1>4, PassShape DEF FootageInv, PassIsFair
  <2>3. /\ cleaning' \in Passing /\ cleaning'.at = "sweeps"
        /\ cleaning'.days = chosen /\ cleaning'.since = cleaning.since
    BY <1>1, <2>1, <2>2 DEF Passing
  <2>4. PassIsFair'
    BY <1>1, <2>2, <2>3 DEF PassIsFair, footageVars
  <2> QED BY <1>1, <2>3, <2>4, PassMoves
<1> QED BY <1>2, <1>3, <1>4

LEMMA PassStep ==
    ASSUME SettingsInv, FootageInv,
           \/ RetentionTick \/ DeletedCameras \/ SweepEnds
           \/ \E fails \in BOOLEAN : KnownCameras(fails)
    PROVE  FootageInv'
<1>1. UNCHANGED <<footageVars, held>>
  BY DEF RetentionTick, DeletedCameras, SweepEnds, KnownCameras, settingsVars
<1>2. CASE RetentionTick
  <2> DEFINE at == IF copy = Unloaded THEN "loads" ELSE "sweeps"
  <2>1. cleaning' = [at |-> at, days |-> copy, since |-> day, known |-> {}, todo |-> {}]
    BY <1>2 DEF RetentionTick, LoadedSettings, Pass
  <2>2. at \in {"loads", "sweeps"} /\ (at # "loads" => copy \in held)
    BY DEF SettingsInv, PatchTypes
  <2> HIDE DEF at
  <2>3. copy \in held \cup {Unloaded} /\ day \in Nat
    BY SiteAssumption DEF SettingsInv, PatchTypes, FootageInv, FootageTypes
  <2>4. cleaning' \in Passing
    BY <2>1, <2>2, <2>3 DEF Passing
  <2>5. PassIsFair'
    BY <1>1, <2>1, <2>2, <2>3 DEF PassIsFair, footageVars
  <2> QED BY <1>1, <2>4, <2>5, PassMoves
<1>3. CASE SweepEnds
  BY <1>1, <1>3, PassMoves DEF SweepEnds
<1>4. ASSUME NEW fails \in BOOLEAN, KnownCameras(fails) PROVE FootageInv'
  <2>1. CASE fails
    BY <1>1, <1>4, <2>1, PassMoves DEF KnownCameras
  <2>2. CASE ~fails
    <3> DEFINE there == {c \in SiteCameras : cameraAt[c] = "there"}
    <3>1. /\ cleaning.at = "sweeps"
          /\ cleaning' = [cleaning EXCEPT !.at = "folders", !.known = there]
      BY <1>4, <2>2 DEF KnownCameras
    <3>2. cleaning \in Passing /\ cleaning.since <= day /\ cleaning.days \in held
      BY <3>1, PassShape DEF FootageInv, PassIsFair
    <3>3. /\ cleaning' \in Passing /\ cleaning'.at = "folders"
          /\ cleaning'.days = cleaning.days /\ cleaning'.since = cleaning.since
          /\ cleaning'.known = there
      BY <3>1, <3>2 DEF Passing
    <3>4. PassIsFair'
      BY <1>1, <3>2, <3>3 DEF PassIsFair, footageVars
    <3> QED BY <1>1, <3>3, <3>4, PassMoves
  <2> QED BY <2>1, <2>2
<1>5. CASE DeletedCameras
  <2> DEFINE found == {c \in SiteCameras : recorded[c] # NoFiles} \ cleaning.known
  <2>1. /\ cleaning.at = "folders"
        /\ cleaning' = [cleaning EXCEPT !.at = "files", !.todo = found]
    BY <1>5 DEF DeletedCameras
  <2>2. cleaning \in Passing /\ cleaning # NotCleaning
    BY <2>1, PassShape
  <2>3. /\ cleaning' \in Passing /\ cleaning'.at = "files"
        /\ cleaning'.days = cleaning.days /\ cleaning'.since = cleaning.since
        /\ cleaning'.known = cleaning.known /\ cleaning'.todo = found
    BY <2>1, <2>2 DEF Passing
  <2>4. PassIsFair'
    BY <1>1, <2>1, <2>2, <2>3 DEF FootageInv, PassIsFair, footageVars
  <2> QED BY <1>1, <2>3, <2>4, PassMoves
<1> QED BY <1>2, <1>3, <1>4, <1>5

\* The file that is swept: its camera is not there, or it would be too young.
LEMMA SweepStep ==
    ASSUME SettingsInv, FootageInv, NEW c \in SiteCameras, NEW fails \in BOOLEAN,
           SweepFolder(c, fails)
    PROVE  FootageInv'
<1>1. /\ cleaning.at = "files" /\ c \in cleaning.todo
      /\ cleaning' = [cleaning EXCEPT !.todo = @ \ {c}]
      /\ UNCHANGED <<day, cameraAt, held>>
  BY DEF SweepFolder, settingsVars
<1>2. cleaning \in Passing /\ cleaning # NotCleaning
  BY <1>1, PassShape
<1>3. /\ cleaning' \in Passing /\ cleaning'.at = "files"
      /\ cleaning'.days = cleaning.days /\ cleaning'.since = cleaning.since
      /\ cleaning'.known = cleaning.known /\ cleaning'.todo = cleaning.todo \ {c}
      /\ cleaning' # NotCleaning
  BY <1>1, <1>2 DEF Passing, NotCleaning
<1>4. \/ UNCHANGED <<recorded, lost>>
      \/ /\ recorded[c] + cleaning.days < cleaning.since
         /\ recorded' = [recorded EXCEPT ![c] = NoFiles]
         /\ lost' = lost \cup {[there |-> cameraAt[c] = "there", days |-> day - recorded[c]]}
  BY DEF SweepFolder
<1>5. \/ recorded' = recorded
      \/ recorded' = [recorded EXCEPT ![c] = NoFiles]
  BY <1>4
<1>6. FootageTypes'
  <2>1. cleaning' \in Passing'
    BY <1>1, <1>3 DEF Passing
  <2> QED BY <1>1, <1>5, <2>1, SiteAssumption DEF FootageInv, FootageTypes, NoFiles
<1>7. \A q \in SiteCameras :
         \/ recorded'[q] = recorded[q]
         \/ q = c /\ recorded'[q] = NoFiles
  BY <1>5 DEF FootageInv, FootageTypes
<1>8. PassIsFair'
  <2>1. \A q \in cleaning.todo : q \in SiteCameras
    BY <1>2 DEF Passing
  <2> QED BY <1>1, <1>2, <1>3, <1>7, <2>1 DEF FootageInv, PassIsFair
<1>9. OldFootageGoes'
  <2>1. CASE UNCHANGED lost
    BY <1>1, <2>1 DEF FootageInv, OldFootageGoes
  <2>2. CASE /\ recorded[c] + cleaning.days < cleaning.since
             /\ lost' = lost \cup {[there |-> cameraAt[c] = "there", days |-> day - recorded[c]]}
    <3>1. /\ cleaning.days \in held /\ cleaning.days \in Nat /\ recorded[c] \in Nat
          /\ cleaning.since \in Nat /\ day \in Nat /\ cleaning.since <= day
      BY <1>1, <1>2, SiteAssumption
      DEF FootageInv, PassIsFair, FootageTypes, Passing, SettingsInv, PatchTypes
    <3>2. c \notin cleaning.known /\ recorded[c] # NoFiles
      BY <1>1, <1>2 DEF FootageInv, PassIsFair
    <3>3. cameraAt[c] # "there"
      BY <1>1, <1>2, <2>2, <3>1, <3>2 DEF FootageInv, PassIsFair
    <3>4. day - recorded[c] > cleaning.days
      BY <2>2, <3>1
    <3> DEFINE of == [there |-> cameraAt[c] = "there", days |-> day - recorded[c]]
    <3>5. ~of.there /\ of.days > cleaning.days
      BY <3>3, <3>4
    <3>6. lost' = lost \cup {of}
      BY <2>2
    <3> HIDE DEF of
    <3> QED BY <1>1, <3>1, <3>5, <3>6 DEF FootageInv, OldFootageGoes
  <2> QED BY <1>4, <2>1, <2>2
<1> QED BY <1>6, <1>8, <1>9 DEF FootageInv

LEMMA CamerasLive ==
    ASSUME FootageInv,
           \/ DayPasses
           \/ \E c \in SiteCameras : CameraComes(c) \/ Records(c) \/ CameraGoes(c)
    PROVE  FootageInv'
<1> USE SiteAssumption
<1>1. UNCHANGED <<held, lost, cleaning>>
  BY DEF DayPasses, CameraComes, Records, CameraGoes, settingsVars
<1>2. OldFootageGoes'
  BY <1>1 DEF FootageInv, OldFootageGoes
<1>3. FootageTypes'
  <2>1. CASE DayPasses
    BY <1>1, <2>1 DEF DayPasses, FootageInv, FootageTypes, Passing
  <2>2. CASE \E c \in SiteCameras : CameraComes(c)
    BY <1>1, <2>2 DEF CameraComes, FootageInv, FootageTypes, Passing
  <2>3. CASE \E c \in SiteCameras : Records(c)
    BY <1>1, <2>3 DEF Records, FootageInv, FootageTypes, Passing
  <2>4. CASE \E c \in SiteCameras : CameraGoes(c)
    BY <1>1, <2>4 DEF CameraGoes, FootageInv, FootageTypes, Passing
  <2> QED BY <2>1, <2>2, <2>3, <2>4
<1>4. PassIsFair'
  <2> SUFFICES ASSUME cleaning # NotCleaning PROVE PassIsFair'
    BY <1>1 DEF PassIsFair
  <2>1. /\ cleaning.since \in Nat /\ cleaning.since <= day /\ day \in Nat
        /\ cleaning.todo \subseteq SiteCameras
    BY DEF FootageInv, PassIsFair, FootageTypes, Passing
  <2>2. day' >= day
    BY DEF DayPasses, CameraComes, Records, CameraGoes, FootageInv, FootageTypes
  <2>3. \A q \in SiteCameras :
           \/ cameraAt'[q] = cameraAt[q] /\ recorded'[q] = recorded[q]
           \/ cameraAt'[q] = "gone" /\ recorded'[q] = recorded[q]
           \/ recorded[q] = NoFiles /\ recorded'[q] = NoFiles
           \/ recorded[q] = NoFiles /\ recorded'[q] = day
    BY DEF DayPasses, CameraComes, Records, CameraGoes, FootageInv, FootageTypes
  <2>4. day' \in Nat /\ cleaning'.since <= day'
    BY <1>1, <1>3, <2>1, <2>2 DEF FootageTypes
  <2>5. cleaning'.at # "loads" => cleaning'.days \in held'
    BY <1>1 DEF FootageInv, PassIsFair
  <2>6. ASSUME cleaning'.at \in {"folders", "files"},
               NEW q \in SiteCameras \ cleaning'.known, cameraAt'[q] = "there"
        PROVE  recorded'[q] = NoFiles \/ recorded'[q] >= cleaning'.since
    BY <1>1, <2>1, <2>3, <2>6 DEF FootageInv, PassIsFair
  <2>7. ASSUME cleaning'.at = "files", NEW q \in cleaning'.todo
        PROVE  q \notin cleaning'.known /\ recorded'[q] # NoFiles
    BY <1>1, <2>1, <2>3, <2>7 DEF FootageInv, PassIsFair
  <2> QED BY <2>4, <2>5, <2>6, <2>7 DEF PassIsFair
<1> QED BY <1>2, <1>3, <1>4 DEF FootageInv

LEMMA FootageStep == SettingsInv /\ FootageInv /\ [SiteNext]_siteVars => FootageInv'
<1> SUFFICES ASSUME SettingsInv, FootageInv, [SiteNext]_siteVars PROVE FootageInv'
  OBVIOUS
<1>1. \/ Current \/ UNCHANGED siteVars
      \/ \E p \in Patchers : \/ UpdateReturns(p)
                             \/ \E days \in Retentions : Update(p, days)
                             \/ \E fails, written \in BOOLEAN : UpdateRow(p, fails, written)
      => FootageInv'
  BY FootageWaits DEF Current, UpdateReturns, Update, UpdateRow, siteVars, settingsVars
<1>2. SiteRestarts => FootageInv'
  BY PassMoves DEF SiteRestarts
<1> QED
  BY <1>1, <1>2, LoadGoesOn, PassStep, SweepStep, CamerasLive
  DEF SiteNext, SettingsNext, SweepNext

-----------------------------------------------------------------------------
(* The watch over the disks.                                               *)

FolderSet == {Folders[i] : i \in DOMAIN Folders}
Levels == Severities \cup {"ok"}

DiskTypes ==
    /\ diskOf \in [FolderSet -> Volumes \cup {Missing}]
    /\ used \in [Volumes -> Usages]
    /\ level \in [Volumes -> Levels]
    /\ told \in [Volumes -> SUBSET Severities]
    /\ reading \in [Volumes -> [used : Nat, done : BOOLEAN]]
    /\ toldTwice \in BOOLEAN

\* A pass has folders left; one that tells has read the level on its disk.
RoundIsSound ==
    /\ round.at \in {"idle", "folders", "tells"}
    /\ round.at # "idle" => round.todo \in Seq(FolderSet) /\ round.todo # <<>>
    /\ round.at = "tells" =>
          /\ round.disk \in Volumes /\ round.rose \in Severities
          /\ Rank[round.rose] > Rank[level[round.disk]]
          /\ round.rose = LevelAt(reading[round.disk].used, Reach)

\* The severities told are those up to the level.
ToldIsLevel ==
    \A d \in Volumes : \A s \in Severities : s \in told[d] <=> Rank[s] <= Rank[level[d]]

\* A reading that was dealt with is not above the level.
ReadIsLevel ==
    \A d \in Volumes : \A s \in Severities :
        reading[d].done /\ reading[d].used >= Reach[s] => Rank[s] <= Rank[level[d]]

DisksInv == DiskTypes /\ RoundIsSound /\ ToldIsLevel /\ ReadIsLevel /\ ~toldTwice

LEMMA DiskInit == DisksInit => DisksInv
<1> SUFFICES ASSUME DisksInit PROVE DisksInv
  OBVIOUS
<1>1. DiskTypes
  BY DisksAssumption DEF DisksInit, DiskTypes, FolderSet, Levels, Unchecked
<1>2. \A d \in Volumes : level[d] = "ok" /\ told[d] = {} /\ reading[d] = Unchecked
  BY DEF DisksInit
<1>3. ToldIsLevel
  BY <1>2 DEF ToldIsLevel, Severities, Rank
<1>4. ReadIsLevel
  BY <1>2 DEF ReadIsLevel, Unchecked
<1> QED BY <1>1, <1>3, <1>4 DEF DisksInit, DisksInv, RoundIsSound, NoRound

\* The level of a percentage is the highest figure it reaches.
LEMMA LevelReached ==
    ASSUME NEW percent \in Nat
    PROVE  /\ LevelAt(percent, Reach) \in Levels /\ LevelAt(percent, Hold) \in Levels
           /\ \A s \in Severities :
                /\ percent >= Reach[s] <=> Rank[s] <= Rank[LevelAt(percent, Reach)]
                /\ percent >= Hold[s] <=> Rank[s] <= Rank[LevelAt(percent, Hold)]
           /\ Rank[LevelAt(percent, Reach)] <= Rank[LevelAt(percent, Hold)]
  BY DEF LevelAt, Reach, Hold, Levels, Severities, Rank

LEMMA Ranks ==
    /\ \A l \in Levels : Rank[l] \in Nat
    /\ \A k, l \in Levels : Rank[k] = Rank[l] => k = l
    /\ \A s \in Severities : s \in Levels /\ Rank[s] > 0
    /\ \A l \in Levels : Rank[l] > 0 => l \in Severities
  BY DEF Levels, Severities, Rank

\* A level rises to what is reached, falls to what is held, or stays between.
LEMMA LevelMoves ==
    ASSUME NEW prev \in Levels, NEW percent \in Nat
    PROVE  LET next == NextLevel(prev, percent)
               reached == LevelAt(percent, Reach)
               kept == LevelAt(percent, Hold)
           IN  /\ next \in Levels
               /\ Rank[next] > Rank[prev] => next = reached
               /\ Rank[next] <= Rank[prev] =>
                    /\ Rank[reached] <= Rank[next]
                    /\ \A s \in Severities :
                         Rank[s] <= Rank[next] <=> (Rank[s] <= Rank[prev] /\ percent >= Hold[s])
<1> DEFINE reached == LevelAt(percent, Reach)
           kept == LevelAt(percent, Hold)
<1>1. /\ reached \in Levels /\ kept \in Levels /\ Rank[reached] <= Rank[kept]
      /\ \A s \in Severities : percent >= Hold[s] <=> Rank[s] <= Rank[kept]
  BY LevelReached
<1>2. NextLevel(prev, percent) = IF Rank[reached] > Rank[prev] THEN reached
                                 ELSE IF Rank[kept] < Rank[prev] THEN kept ELSE prev
  BY DEF NextLevel
<1> HIDE DEF reached, kept
<1>3. /\ Rank[reached] \in Nat /\ Rank[kept] \in Nat /\ Rank[prev] \in Nat
      /\ \A s \in Severities : Rank[s] \in Nat
  BY <1>1, Ranks
<1>4. CASE Rank[reached] > Rank[prev]
  BY <1>1, <1>2, <1>3, <1>4 DEF reached
<1>5. CASE ~(Rank[reached] > Rank[prev]) /\ Rank[kept] < Rank[prev]
  <2>1. NextLevel(prev, percent) = kept
    BY <1>2, <1>5
  <2> QED BY <1>1, <1>3, <1>5, <2>1 DEF reached, kept
<1>6. CASE ~(Rank[reached] > Rank[prev]) /\ ~(Rank[kept] < Rank[prev])
  <2>1. NextLevel(prev, percent) = prev
    BY <1>2, <1>6
  <2> QED BY <1>1, <1>3, <1>6, <2>1 DEF reached, kept
<1> QED BY <1>4, <1>5, <1>6

LEMMA TailsAreSequences ==
    ASSUME NEW S, NEW todo \in Seq(S), todo # <<>>, Len(todo) # 1
    PROVE  Tail(todo) \in Seq(S) /\ Tail(todo) # <<>>
<1>1. Len(todo) \in Nat /\ Len(todo) # 0
  OBVIOUS
<1>2. Len(Tail(todo)) = Len(todo) - 1 /\ Tail(todo) \in Seq(S)
  BY <1>1
<1>3. Len(<<>>) = 0 /\ Len(todo) - 1 # 0
  BY <1>1
<1> QED BY <1>2, <1>3

LEMMA NextFolderSound ==
    ASSUME DisksInv, round.at # "idle", NEW seen
    PROVE  LET next == NextFolder(seen)
           IN  /\ next.at \in {"idle", "folders"}
               /\ next.at # "idle" => next.todo \in Seq(FolderSet) /\ next.todo # <<>>
<1>1. round.todo \in Seq(FolderSet) /\ round.todo # <<>>
  BY DEF DisksInv, RoundIsSound
<1> QED BY <1>1, TailsAreSequences DEF NextFolder, NoRound

LEMMA HeadIsDisk ==
    ASSUME DisksInv, round.at = "folders"
    PROVE  diskOf[Head(round.todo)] \in Volumes \cup {Missing}
<1>1. round.todo \in Seq(FolderSet) /\ round.todo # <<>>
  BY DEF DisksInv, RoundIsSound
<1>2. Head(round.todo) \in FolderSet
  BY <1>1
<1> QED BY <1>2 DEF DisksInv, DiskTypes

\* A step that leaves what is known of the disks, for a pass that goes on.
LEMMA RoundMoves ==
    ASSUME DisksInv, UNCHANGED <<diskOf, level, told, reading, toldTwice>>,
           used' \in [Volumes -> Usages],
           \/ round' = round
           \/ /\ round'.at \in {"idle", "folders"}
              /\ round'.at # "idle" => round'.todo \in Seq(FolderSet) /\ round'.todo # <<>>
    PROVE  DisksInv'
<1>1. DiskTypes'
  BY DEF DisksInv, DiskTypes
<1>2. RoundIsSound'
  BY DEF DisksInv, RoundIsSound
<1>3. ToldIsLevel' /\ ReadIsLevel'
  BY DEF DisksInv, ToldIsLevel, ReadIsLevel
<1> QED BY <1>1, <1>2, <1>3 DEF DisksInv

LEMMA CheckStep == ASSUME DisksInv, Check PROVE DisksInv'
<1> DEFINE d == diskOf[Head(round.todo)]
           next == NextLevel(level[d], used[d])
           rises == Rank[next] > Rank[level[d]]
           read == [used |-> used[d], done |-> ~rises]
<1>1. /\ round.at = "folders" /\ d \in Volumes
      /\ told' = [told EXCEPT ![d] = {s \in @ : used[d] >= Hold[s]}]
      /\ reading' = [reading EXCEPT ![d] = read]
      /\ rises => /\ round' = [at |-> "tells", todo |-> round.todo,
                               seen |-> round.seen \cup {d}, disk |-> d, rose |-> next]
                  /\ level' = level
      /\ ~rises => /\ round' = NextFolder(round.seen \cup {d})
                   /\ level' = [level EXCEPT ![d] = next]
      /\ UNCHANGED <<diskOf, used, toldTwice>>
  BY HeadIsDisk DEF Check, diskRest
<1>2. PICK disk \in Volumes : disk = d
  BY <1>1
<1>3. level[disk] \in Levels /\ used[disk] \in Nat /\ told[disk] \subseteq Severities
  BY DisksAssumption DEF DisksInv, DiskTypes
<1>4. PICK to \in Levels :
         /\ to = NextLevel(level[disk], used[disk])
         /\ Rank[to] > Rank[level[disk]] => to = LevelAt(used[disk], Reach)
         /\ Rank[to] <= Rank[level[disk]] =>
              /\ Rank[LevelAt(used[disk], Reach)] <= Rank[to]
              /\ \A s \in Severities : Rank[s] <= Rank[to] <=>
                      (Rank[s] <= Rank[level[disk]] /\ used[disk] >= Hold[s])
  BY <1>3, LevelMoves
<1>5. PICK up \in BOOLEAN : up <=> Rank[to] > Rank[level[disk]]
  OBVIOUS
<1>12. ~up <=> Rank[to] <= Rank[level[disk]]
  BY <1>3, <1>4, <1>5, Ranks
<1>13. next = to /\ (rises <=> up) /\ read = [used |-> used[disk], done |-> ~up]
  BY <1>2, <1>4, <1>5
<1>6. /\ up <=> Rank[to] > Rank[level[disk]]
      /\ up => to = LevelAt(used[disk], Reach)
      /\ ~up => /\ Rank[LevelAt(used[disk], Reach)] <= Rank[to]
                /\ \A s \in Severities : Rank[s] <= Rank[to] <=>
                              (Rank[s] <= Rank[level[disk]] /\ used[disk] >= Hold[s])
      /\ told' = [told EXCEPT ![disk] = {s \in @ : used[disk] >= Hold[s]}]
      /\ reading' = [reading EXCEPT ![disk] = [used |-> used[disk], done |-> ~up]]
      /\ up => /\ round' = [at |-> "tells", todo |-> round.todo,
                            seen |-> round.seen \cup {disk}, disk |-> disk, rose |-> to]
               /\ level' = level
      /\ ~up => /\ round' = NextFolder(round.seen \cup {disk})
                /\ level' = [level EXCEPT ![disk] = to]
  <2> HIDE DEF d, next, rises, read
  <2> QED BY <1>1, <1>2, <1>4, <1>5, <1>12, <1>13
<1> HIDE DEF d, next, rises, read
<1>7. /\ told'[disk] = {s \in told[disk] : used[disk] >= Hold[s]}
      /\ reading'[disk] = [used |-> used[disk], done |-> ~up]
      /\ level'[disk] = IF up THEN level[disk] ELSE to
      /\ \A e \in Volumes \ {disk} : /\ told'[e] = told[e] /\ reading'[e] = reading[e]
                                     /\ level'[e] = level[e]
  BY <1>6 DEF DisksInv, DiskTypes
<1>8. DiskTypes'
  <2>1. reading' \in [Volumes -> [used : Nat, done : BOOLEAN]]
    <3> DEFINE new == [used |-> used[disk], done |-> ~up]
    <3>1. new \in [used : Nat, done : BOOLEAN]
      BY <1>3
    <3> HIDE DEF new
    <3>2. reading' = [reading EXCEPT ![disk] = new]
      BY <1>6 DEF new
    <3> QED BY <3>1, <3>2 DEF DisksInv, DiskTypes
  <2>2. level' \in [Volumes -> Levels]
    BY <1>3, <1>6 DEF DisksInv, DiskTypes
  <2>3. told' \in [Volumes -> SUBSET Severities]
    BY <1>3, <1>6 DEF DisksInv, DiskTypes
  <2> QED BY <1>1, <2>1, <2>2, <2>3 DEF DisksInv, DiskTypes
<1>9. RoundIsSound'
  <2>1. CASE up
    <3>1. to \in Severities /\ Rank[to] > Rank[level'[disk]]
      BY <1>3, <1>6, <1>7, <2>1, Ranks
    <3>2. reading'[disk].used = used[disk]
      BY <1>7
    <3>3. round.todo \in Seq(FolderSet) /\ round.todo # <<>>
      BY <1>1 DEF DisksInv, RoundIsSound
    <3> QED BY <1>6, <2>1, <3>1, <3>2, <3>3 DEF RoundIsSound
  <2>2. CASE ~up
    <3>1. LET new == NextFolder(round.seen \cup {disk})
          IN  /\ new.at \in {"idle", "folders"}
              /\ new.at # "idle" => new.todo \in Seq(FolderSet) /\ new.todo # <<>>
      BY <1>1, NextFolderSound
    <3> QED BY <1>6, <2>2, <3>1 DEF RoundIsSound
  <2> QED BY <2>1, <2>2
<1>10. ToldIsLevel'
  <2>1. ASSUME NEW s \in Severities PROVE s \in told'[disk] <=> Rank[s] <= Rank[level'[disk]]
    <3>1. s \in told[disk] <=> Rank[s] <= Rank[level[disk]]
      BY DEF DisksInv, ToldIsLevel
    <3>2. CASE up
      <4>1. Rank[s] <= Rank[level[disk]] => used[disk] >= Hold[s]
        <5>1. /\ Rank[to] <= Rank[LevelAt(used[disk], Hold)]
              /\ used[disk] >= Hold[s] <=> Rank[s] <= Rank[LevelAt(used[disk], Hold)]
              /\ LevelAt(used[disk], Hold) \in Levels
          BY <1>3, <1>6, <3>2, LevelReached
        <5> QED BY <1>3, <1>5, <1>6, <3>2, <5>1, Ranks
      <4> QED BY <1>7, <3>1, <3>2, <4>1
    <3>3. CASE ~up
      BY <1>6, <1>7, <3>1, <3>3
    <3> QED BY <3>2, <3>3
  <2> QED BY <1>7, <2>1 DEF DisksInv, ToldIsLevel
<1>11. ReadIsLevel'
  <2>1. ASSUME NEW s \in Severities, ~up, used[disk] >= Reach[s]
        PROVE  Rank[s] <= Rank[to]
    <3>1. /\ Rank[s] <= Rank[LevelAt(used[disk], Reach)]
          /\ LevelAt(used[disk], Reach) \in Levels
      BY <1>3, <2>1, LevelReached
    <3> QED BY <1>6, <2>1, <3>1, Ranks
  <2>2. ASSUME NEW s \in Severities, reading'[disk].done, reading'[disk].used >= Reach[s]
        PROVE  Rank[s] <= Rank[level'[disk]]
    <3>1. ~up /\ used[disk] >= Reach[s]
      <4>1. reading'[disk].done = ~up /\ reading'[disk].used = used[disk]
        BY <1>7
      <4> QED BY <2>2, <4>1
    <3> QED BY <1>7, <2>1, <3>1
  <2> QED BY <1>7, <2>2 DEF DisksInv, ReadIsLevel
<1> QED BY <1>1, <1>8, <1>9, <1>10, <1>11 DEF DisksInv

LEMMA TellStep ==
    ASSUME DisksInv, NEW fails \in BOOLEAN, TellManagers(fails)
    PROVE  DisksInv'
<1>1. PICK disk \in Volumes, rose \in Severities :
         /\ disk = round.disk /\ rose = round.rose
         /\ Rank[rose] > Rank[level[disk]]
         /\ rose = LevelAt(reading[disk].used, Reach)
  BY DEF TellManagers, DisksInv, RoundIsSound
<1>2. /\ round.at = "tells" /\ round' = NextFolder(round.seen)
      /\ level' = IF fails THEN level ELSE [level EXCEPT ![disk] = rose]
      /\ UNCHANGED <<diskOf, used>>
  BY <1>1 DEF TellManagers, LevelOnceTold, diskRest
<1>3. /\ round'.at \in {"idle", "folders"}
      /\ round'.at # "idle" => round'.todo \in Seq(FolderSet) /\ round'.todo # <<>>
  BY <1>2, NextFolderSound
<1>4. CASE fails
  <2>1. UNCHANGED <<level, told, reading, toldTwice>>
    BY <1>2, <1>4 DEF TellManagers
  <2>2. used' \in [Volumes -> Usages]
    BY <1>2 DEF DisksInv, DiskTypes
  <2> QED BY <1>2, <1>3, <2>1, <2>2, RoundMoves
<1>5. CASE ~fails
  <2> DEFINE upTo == {s \in Severities : Rank[s] <= Rank[rose]}
  <2>1. /\ level' = [level EXCEPT ![disk] = rose]
        /\ told' = [told EXCEPT ![disk] = upTo]
        /\ reading' = [reading EXCEPT ![disk].done = TRUE]
        /\ toldTwice' = (toldTwice \/ rose \in told[disk])
    BY <1>1, <1>2, <1>5 DEF TellManagers
  <2>2. rose \notin told[disk]
    <3>1. Rank[rose] \in Nat /\ Rank[level[disk]] \in Nat
      BY Ranks DEF DisksInv, DiskTypes
    <3> QED BY <1>1, <3>1 DEF DisksInv, ToldIsLevel
  <2>3. reading[disk] \in [used : Nat, done : BOOLEAN]
    BY DEF DisksInv, DiskTypes
  <2>5. /\ reading'[disk].used = reading[disk].used
        /\ reading' \in [Volumes -> [used : Nat, done : BOOLEAN]]
        /\ \A e \in Volumes \ {disk} : reading'[e] = reading[e]
    BY <2>1, <2>3 DEF DisksInv, DiskTypes
  <2>6. /\ level'[disk] = rose /\ told'[disk] = upTo
        /\ \A e \in Volumes \ {disk} : level'[e] = level[e] /\ told'[e] = told[e]
    BY <2>1 DEF DisksInv, DiskTypes
  <2>7. DiskTypes'
    <3>1. rose \in Levels /\ upTo \subseteq Severities
      BY Ranks
    <3> QED BY <1>2, <2>1, <2>2, <2>5, <3>1 DEF DisksInv, DiskTypes
  <2>8. RoundIsSound'
    BY <1>3 DEF RoundIsSound
  <2>9. ToldIsLevel'
    BY <2>6 DEF DisksInv, ToldIsLevel
  <2>10. ReadIsLevel'
    <3>1. \A s \in Severities : reading[disk].used >= Reach[s] => Rank[s] <= Rank[rose]
      BY <1>1, <2>3, LevelReached
    <3>2. \A s \in Severities : reading'[disk].used >= Reach[s] => Rank[s] <= Rank[level'[disk]]
      BY <2>5, <2>6, <3>1
    <3> QED BY <2>5, <2>6, <3>2 DEF DisksInv, ReadIsLevel
  <2> QED BY <2>1, <2>2, <2>7, <2>8, <2>9, <2>10 DEF DisksInv
<1> QED BY <1>4, <1>5

LEMMA DisksStep == DisksInv /\ [DisksNext]_disksVars => DisksInv'
<1> SUFFICES ASSUME DisksInv, [DisksNext]_disksVars PROVE DisksInv'
  OBVIOUS
<1>0. used \in [Volumes -> Usages]
  BY DEF DisksInv, DiskTypes
<1>1. UNCHANGED disksVars => DisksInv'
  BY <1>0, RoundMoves DEF disksVars, diskRest
<1>2. DiskTick => DisksInv'
  <2> SUFFICES ASSUME DiskTick PROVE DisksInv'
    OBVIOUS
  <2>1. round' = [at |-> "folders", todo |-> Folders, seen |-> {}]
    BY DEF DiskTick
  <2>2. Folders \in Seq(FolderSet) /\ Folders # <<>>
    BY DisksAssumption DEF FolderSet
  <2>3. UNCHANGED <<diskOf, used, level, told, reading, toldTwice>>
    BY DEF DiskTick, diskRest
  <2> QED BY <1>0, <2>1, <2>2, <2>3, RoundMoves
<1>3. ASSUME NEW fails \in BOOLEAN, SkipFolder(fails) PROVE DisksInv'
  <2>1. /\ round.at = "folders"
        /\ UNCHANGED <<diskOf, used, level, told, reading, toldTwice>>
    BY <1>3 DEF SkipFolder, diskRest
  <2>2. PICK tried : round' = NextFolder(round.seen \cup tried)
    BY <1>3 DEF SkipFolder
  <2> QED BY <1>0, <2>1, <2>2, NextFolderSound, RoundMoves
<1>4. ASSUME NEW d \in Volumes, NEW percent \in Usages, Fills(d, percent) PROVE DisksInv'
  <2>1. /\ used' \in [Volumes -> Usages]
        /\ UNCHANGED <<diskOf, level, told, reading, toldTwice, round>>
    BY <1>0, <1>4 DEF Fills
  <2> QED BY <2>1, RoundMoves
<1>5. CASE DisksRestart
  <2>1. /\ level' = [d \in Volumes |-> "ok"] /\ told' = [d \in Volumes |-> {}]
        /\ reading' = [d \in Volumes |-> Unchecked] /\ round' = NoRound
        /\ UNCHANGED <<diskOf, used, toldTwice>>
    BY <1>5 DEF DisksRestart, diskRest
  <2>2. DiskTypes'
    BY <2>1 DEF DisksInv, DiskTypes, Levels, Unchecked
  <2>3. ToldIsLevel'
    BY <2>1 DEF ToldIsLevel, Severities, Rank
  <2>4. ReadIsLevel'
    BY <2>1 DEF ReadIsLevel, Unchecked
  <2> QED BY <2>1, <2>2, <2>3, <2>4 DEF DisksInv, RoundIsSound, NoRound
<1> QED BY <1>1, <1>2, <1>3, <1>4, <1>5, CheckStep, TellStep DEF DisksNext

LEMMA DisksFollow == DisksInv => DisksAreTold
<1> SUFFICES ASSUME DisksInv, NEW d \in Volumes, NEW s \in Severities,
                    reading[d].done, reading[d].used >= Reach[s]
             PROVE  s \in told[d]
  BY DEF DisksAreTold, DisksInv
<1> QED BY DEF DisksInv, ToldIsLevel, ReadIsLevel

-----------------------------------------------------------------------------

\* What the service holds is the row once requests are answered, footage is only
\* swept when its camera is gone and it is old enough, and managers hear of a
\* disk that fills, once: whatever interleaves, fails, restarts.
THEOREM TheSiteIsKept == ApiSpec => []SiteIsKept
<1>1. ApiInit => SettingsInv /\ FootageInv /\ DisksInv
  BY SettingsInit, FootageInit, DiskInit DEF ApiInit
<1>2. SettingsInv /\ FootageInv /\ DisksInv /\ [ApiNext]_apiPartsVars
        => (SettingsInv /\ FootageInv /\ DisksInv)'
  BY PartsMove, SettingsStep, FootageStep, DisksStep
<1>3. SettingsInv /\ FootageInv /\ DisksInv => SiteIsKept
  BY SettingsFollow, DisksFollow DEF SiteIsKept, FootageInv
<1> QED  BY <1>1, <1>2, <1>3, PTL DEF ApiSpec

-----------------------------------------------------------------------------
(* What is pushed to the dashboard.                                        *)

\* A window that is open told once, one that is not has nothing to tell.
MergerInv ==
    /\ merger \in [open : BOOLEAN, pending : SUBSET Concerns]
    /\ owed = merger.pending
    /\ commits \in 0 .. MaxCommits
    /\ ~merger.open => merger.pending = {}
    /\ burst = IF merger.open THEN 1 ELSE 0

Ticks == [at : {"idle", "asking", "reading"}, read : 0 .. Oldest, excused : BOOLEAN]

StatusTypes ==
    /\ watched \in BOOLEAN
    /\ tick \in Ticks
    /\ ids \in [cached : BOOLEAN, age : 0 .. ListTicks, read : 0 .. Oldest]
    /\ late \subseteq 0 .. MaxLate
    /\ shown \in [read : 0 .. Oldest, excused : BOOLEAN]

\* A list was read as long ago as it is old, and a late query more; or it is in
\* its last tick, and will not be fresh when the next one asks.
ListsAge ==
    /\ ids.cached => \/ ids.read <= ids.age + MaxLate
                     \/ ids.age >= ListTicks - 1
    /\ ids.cached /\ tick.at = "asking" => \/ ids.read <= ids.age + MaxLate
                                           \/ ids.age >= ListTicks

TickIsFresh ==
    tick.at = "reading" => tick.excused \/ tick.read < ListTicks + MaxLate

StatusInv == StatusTypes /\ ListsAge /\ TickIsFresh /\ StatusIsFresh

LEMMA OldestIs == Oldest \in Nat /\ 0 \in 0 .. Oldest /\ MaxLate <= Oldest
  BY PushAssumption DEF Oldest

LEMMA Idles ==
    /\ Idle \in Ticks /\ Idle.at = "idle"
    /\ [Idle EXCEPT !.at = "asking"] \in Ticks
    /\ [Idle EXCEPT !.at = "asking"].at = "asking"
<1>1. Idle \in Ticks /\ Idle.at = "idle"
  BY OldestIs DEF Idle, Ticks
<1>2. ASSUME NEW t \in Ticks
      PROVE  [t EXCEPT !.at = "asking"] \in Ticks /\ [t EXCEPT !.at = "asking"].at = "asking"
  BY DEF Ticks
<1> QED BY <1>1, <1>2

LEMMA PushStarts == PushInit => MergerInv /\ StatusInv
<1> SUFFICES ASSUME PushInit PROVE MergerInv /\ StatusInv
  OBVIOUS
<1> USE PushAssumption DEF PushInit
<1>1. MergerInv
  BY DEF MergerInv
<1>2. StatusTypes
  <2>1. ids \in [cached : BOOLEAN, age : 0 .. ListTicks, read : 0 .. Oldest]
    BY OldestIs DEF NoList
  <2>2. shown \in [read : 0 .. Oldest, excused : BOOLEAN]
    BY OldestIs
  <2> QED BY <2>1, <2>2, Idles DEF StatusTypes
<1>3. ListsAge /\ TickIsFresh /\ StatusIsFresh
  BY DEF ListsAge, TickIsFresh, StatusIsFresh, Idle, NoList
<1> QED BY <1>1, <1>2, <1>3 DEF StatusInv

LEMMA MergerStep == MergerInv /\ [PushNext]_pushVars => MergerInv'
<1> SUFFICES ASSUME MergerInv, [PushNext]_pushVars PROVE MergerInv'
  OBVIOUS
<1>0. /\ merger = [open |-> merger.open, pending |-> merger.pending]
      /\ merger.open \in BOOLEAN /\ merger.pending \subseteq Concerns
  BY DEF MergerInv
<1>1. ASSUME NEW change \in SUBSET Concerns, Push(change) PROVE MergerInv'
  <2>1. commits' \in 0 .. MaxCommits
    BY <1>1, PushAssumption DEF Push, MergerInv
  <2>2. CASE merger.open
    <3>1. /\ merger' = [merger EXCEPT !.pending = @ \cup change]
          /\ owed' = owed \cup change /\ burst' = burst
      BY <1>1, <2>2 DEF Push, Add
    <3>2. merger' = [open |-> TRUE, pending |-> merger.pending \cup change]
      BY <1>0, <2>2, <3>1 DEF MergerInv
    <3> QED BY <1>0, <2>1, <2>2, <3>1, <3>2 DEF MergerInv
  <2>3. CASE ~merger.open
    <3>1. /\ merger' = [merger EXCEPT !.open = TRUE]
          /\ owed' = owed \ change /\ burst' = burst + 1
      BY <1>1, <2>3 DEF Push, Add
    <3>2. merger.pending = {} /\ owed = {} /\ burst = 0
      BY <2>3 DEF MergerInv
    <3>3. /\ merger'.open = TRUE /\ merger'.pending = {}
          /\ merger' \in [open : BOOLEAN, pending : SUBSET Concerns]
      BY <3>1, <3>2 DEF MergerInv
    <3> QED BY <2>1, <3>1, <3>2, <3>3 DEF MergerInv
  <2> QED BY <2>2, <2>3
<1>2. CASE WindowEnds
  <2>1. /\ merger' = [open |-> merger.pending # {}, pending |-> {}]
        /\ owed' = {} /\ commits' = commits
        /\ burst' = IF merger.pending = {} THEN 0 ELSE 1
    BY <1>2 DEF WindowEnds, MergerInv
  <2> QED BY <2>1 DEF MergerInv
<1>3. CASE PushCloses
  BY <1>3 DEF PushCloses, MergerInv
<1>4. ASSUME UNCHANGED mergerVars PROVE MergerInv'
  BY <1>4 DEF mergerVars, MergerInv
<1>5. \/ StatusRoom \/ StatusTick \/ RefreshAnswers \/ RefreshLate \/ StatusRead
      \/ \E q \in late : LateAnswers(q)
      \/ UNCHANGED pushVars
      => UNCHANGED mergerVars
  BY DEF StatusRoom, StatusTick, RefreshAnswers, RefreshLate, StatusRead, LateAnswers, pushVars
<1> QED BY <1>1, <1>2, <1>3, <1>4, <1>5 DEF PushNext

\* Another tick makes a list one older, up to where it matters no more.
LEMMA ListAges ==
    ASSUME StatusTypes
    PROVE  /\ Aged \in [cached : BOOLEAN, age : 0 .. ListTicks, read : 0 .. Oldest]
           /\ Aged.cached = ids.cached
           /\ Aged.read <= ids.read + 1
           /\ Aged.age = IF ids.age < ListTicks THEN ids.age + 1 ELSE ids.age
<1> USE PushAssumption
<1>1. /\ ids.age \in 0 .. ListTicks /\ ids.read \in 0 .. Oldest
      /\ ids.cached \in BOOLEAN /\ Oldest \in Nat
  BY DEF StatusTypes, Oldest
<1>2. /\ Aged.age = Older(ids.age, ListTicks) /\ Aged.read = Older(ids.read, Oldest)
      /\ Aged.cached = ids.cached
  BY DEF Aged, StatusTypes
<1>3. /\ Older(ids.age, ListTicks) \in 0 .. ListTicks
      /\ Older(ids.read, Oldest) \in 0 .. Oldest
      /\ Older(ids.read, Oldest) <= ids.read + 1
      /\ Older(ids.age, ListTicks) = IF ids.age < ListTicks THEN ids.age + 1 ELSE ids.age
  BY <1>1 DEF Older
<1>4. Aged \in [cached : BOOLEAN, age : 0 .. ListTicks, read : 0 .. Oldest]
  <2>1. \A a \in 0 .. ListTicks, r \in 0 .. Oldest :
           [ids EXCEPT !.age = a, !.read = r]
              \in [cached : BOOLEAN, age : 0 .. ListTicks, read : 0 .. Oldest]
    BY DEF StatusTypes
  <2> QED BY <1>3, <2>1 DEF Aged
<1> QED BY <1>2, <1>3, <1>4

LEMMA TickStep == ASSUME StatusInv, StatusTick PROVE StatusInv'
<1> USE PushAssumption
<1>1. /\ late' = {q + 1 : q \in late} /\ \A q \in late : q < MaxLate
      /\ UNCHANGED <<watched, shown>> /\ tick.at # "asking"
      /\ ids' = IF ids.cached THEN Aged ELSE ids
      /\ \/ tick' = tick
         \/ Fresh(Aged) /\ tick' = [at |-> "reading", read |-> Aged.read, excused |-> FALSE]
         \/ ~Fresh(Aged) /\ tick' = [Idle EXCEPT !.at = "asking"]
  BY DEF StatusTick
<1>2. /\ Aged \in [cached : BOOLEAN, age : 0 .. ListTicks, read : 0 .. Oldest]
      /\ Aged.cached = ids.cached
      /\ Aged.read <= ids.read + 1
      /\ Aged.age = IF ids.age < ListTicks THEN ids.age + 1 ELSE ids.age
      /\ Aged.age \in 0 .. ListTicks /\ Aged.read \in 0 .. Oldest /\ Oldest \in Nat
  BY ListAges DEF StatusInv, Oldest
<1>3. ids.age \in 0 .. ListTicks /\ ids.read \in 0 .. Oldest
  BY DEF StatusInv, StatusTypes
<1>4. ids.cached => \/ Aged.read <= Aged.age + MaxLate
                    \/ Aged.age >= ListTicks
  BY <1>2, <1>3 DEF StatusInv, ListsAge
<1>5. Fresh(Aged) => Aged.read < ListTicks + MaxLate
  BY <1>2, <1>4 DEF Fresh
<1>6. /\ [Idle EXCEPT !.at = "asking"] \in Ticks
      /\ [Idle EXCEPT !.at = "asking"].at = "asking"
  BY Idles
<1>7. StatusTypes'
  <2>1. late' \subseteq 0 .. MaxLate
    BY <1>1 DEF StatusInv, StatusTypes
  <2>2. tick' \in Ticks
    <3> DEFINE read == [at |-> "reading", read |-> Aged.read, excused |-> FALSE]
               asks == [Idle EXCEPT !.at = "asking"]
    <3>1. read \in Ticks /\ asks \in Ticks
      BY <1>2, <1>6 DEF Ticks
    <3>2. tick' \in {tick, read, asks}
      BY <1>1
    <3> HIDE DEF read, asks
    <3> QED BY <3>1, <3>2 DEF StatusInv, StatusTypes
  <2>3. ids' \in [cached : BOOLEAN, age : 0 .. ListTicks, read : 0 .. Oldest]
    BY <1>1, <1>2 DEF StatusInv, StatusTypes
  <2> QED BY <1>1, <2>1, <2>2, <2>3 DEF StatusInv, StatusTypes
<1>8. ListsAge'
  <2>1. ids'.cached => ids' = Aged
    BY <1>1
  <2> QED BY <1>2, <1>3, <1>4, <2>1 DEF ListsAge
<1>9. TickIsFresh'
  <2>1. ASSUME tick' = [at |-> "reading", read |-> Aged.read, excused |-> FALSE]
        PROVE  tick'.read = Aged.read
    BY <2>1
  <2>2. \/ tick' = tick
        \/ Fresh(Aged) /\ tick'.read = Aged.read
        \/ tick'.at = "asking"
    BY <1>1, <1>6, <2>1
  <2> QED BY <1>5, <2>2 DEF StatusInv, TickIsFresh
<1>10. StatusIsFresh'
  BY <1>1 DEF StatusInv, StatusIsFresh
<1> QED BY <1>7, <1>8, <1>9, <1>10 DEF StatusInv

LEMMA LateStep == ASSUME StatusInv, RefreshLate PROVE StatusInv'
<1> USE PushAssumption
<1> DEFINE goesOn == IF Fresh(ids) \/ ~ids.cached THEN ids.age ELSE ListTicks - 1
           excused == ~Fresh(ids)
<1>1. /\ tick.at = "asking" /\ UNCHANGED <<watched, shown>>
      /\ late' = late \/ late' = late \cup {0}
      /\ ids' = [ids EXCEPT !.age = goesOn]
      /\ tick' = IF ids.cached THEN [at |-> "reading", read |-> ids.read, excused |-> excused]
                 ELSE Idle
  BY DEF RefreshLate, GoesOn
<1>2. /\ ids.age \in 0 .. ListTicks /\ ids.read \in 0 .. Oldest /\ ids.cached \in BOOLEAN
      /\ ids = [cached |-> ids.cached, age |-> ids.age, read |-> ids.read]
  BY DEF StatusInv, StatusTypes
<1>3. /\ goesOn \in 0 .. ListTicks /\ excused \in BOOLEAN
      /\ ids.cached /\ ~excused => ids.read < ListTicks + MaxLate /\ goesOn = ids.age
      /\ ids.cached /\ excused => goesOn = ListTicks - 1
      /\ ids.cached /\ ~excused => ids.read <= ids.age + MaxLate
  BY <1>1, <1>2 DEF StatusInv, ListsAge, Fresh, Oldest
<1> HIDE DEF goesOn, excused
<1>4. /\ ids'.age = goesOn /\ ids'.read = ids.read /\ ids'.cached = ids.cached
      /\ ids' \in [cached : BOOLEAN, age : 0 .. ListTicks, read : 0 .. Oldest]
  BY <1>1, <1>2, <1>3
<1>5. /\ Idle \in Ticks
      /\ Idle.at = "idle"
  BY Idles
<1>6. StatusTypes'
  <2>1. late' \subseteq 0 .. MaxLate
    BY <1>1 DEF StatusInv, StatusTypes
  <2>2. tick' \in Ticks
    BY <1>1, <1>2, <1>3, <1>5 DEF Ticks
  <2> QED BY <1>1, <1>4, <2>1, <2>2 DEF StatusInv, StatusTypes
<1>7. ListsAge'
  <2>1. tick'.at # "asking"
    BY <1>1, <1>5
  <2> QED BY <1>3, <1>4, <2>1 DEF ListsAge
<1>8. TickIsFresh'
  BY <1>1, <1>3, <1>5 DEF TickIsFresh
<1>9. StatusIsFresh'
  BY <1>1 DEF StatusInv, StatusIsFresh
<1> QED BY <1>6, <1>7, <1>8, <1>9 DEF StatusInv

\* A list that has just been read, now or when a late query was sent.
LEMMA ListStep ==
    ASSUME StatusInv, NEW n \in 0 .. MaxLate, ids' = Listed(n),
           UNCHANGED <<watched, shown>>, late' \subseteq late,
           \/ tick' = tick
           \/ tick' = [at |-> "reading", read |-> 0, excused |-> FALSE]
    PROVE  StatusInv'
<1> USE PushAssumption
<1>1. /\ ids' \in [cached : BOOLEAN, age : 0 .. ListTicks, read : 0 .. Oldest]
      /\ ids'.read <= ids'.age + MaxLate
  BY DEF Listed, Oldest
<1>2. StatusTypes'
  <2>1. tick' \in Ticks
    <3>1. [at |-> "reading", read |-> 0, excused |-> FALSE] \in Ticks
      BY OldestIs DEF Ticks
    <3> QED BY <3>1 DEF StatusInv, StatusTypes
  <2> QED BY <1>1, <2>1 DEF StatusInv, StatusTypes
<1>3. ListsAge'
  BY <1>1 DEF ListsAge
<1>4. TickIsFresh'
  BY DEF StatusInv, TickIsFresh
<1>5. StatusIsFresh'
  BY DEF StatusInv, StatusIsFresh
<1> QED BY <1>2, <1>3, <1>4, <1>5 DEF StatusInv

\* A tick that ends, or nothing but who watches.
LEMMA IdleStep ==
    ASSUME StatusInv, watched' \in BOOLEAN, late' \subseteq late,
           ids' = ids \/ ids' = NoList, tick' = tick \/ tick' = Idle,
           \/ shown' = shown
           \/ /\ tick.at = "reading"
              /\ shown' = [read |-> tick.read, excused |-> tick.excused]
    PROVE  StatusInv'
<1> USE PushAssumption
<1>1. /\ Idle \in Ticks
      /\ Idle.at = "idle"
  BY Idles
<1>2. /\ NoList \in [cached : BOOLEAN, age : 0 .. ListTicks, read : 0 .. Oldest]
      /\ NoList.cached = FALSE
  BY DEF NoList, Oldest
<1>3. StatusTypes'
  <2>1. tick' \in Ticks
    BY <1>1 DEF StatusInv, StatusTypes
  <2>2. shown' \in [read : 0 .. Oldest, excused : BOOLEAN]
    <3>1. tick.read \in 0 .. Oldest /\ tick.excused \in BOOLEAN
      BY DEF StatusInv, StatusTypes, Ticks
    <3> QED BY <3>1 DEF StatusInv, StatusTypes
  <2>3. ids' \in [cached : BOOLEAN, age : 0 .. ListTicks, read : 0 .. Oldest]
    BY <1>2 DEF StatusInv, StatusTypes
  <2> QED BY <2>1, <2>2, <2>3 DEF StatusInv, StatusTypes
<1>4. ListsAge'
  BY <1>1, <1>2 DEF StatusInv, ListsAge
<1>5. TickIsFresh'
  BY <1>1 DEF StatusInv, TickIsFresh
<1>6. StatusIsFresh'
  BY DEF StatusInv, StatusIsFresh, TickIsFresh
<1> QED BY <1>3, <1>4, <1>5, <1>6 DEF StatusInv

LEMMA StatusStep == StatusInv /\ [PushNext]_pushVars => StatusInv'
<1> SUFFICES ASSUME StatusInv, [PushNext]_pushVars PROVE StatusInv'
  OBVIOUS
<1>0. watched \in BOOLEAN /\ late \subseteq 0 .. MaxLate
  BY DEF StatusInv, StatusTypes
<1>1. ASSUME UNCHANGED statusVars PROVE StatusInv'
  BY <1>0, <1>1, IdleStep DEF statusVars
<1>2. (\E change \in SUBSET Concerns \ {{}} : Push(change)) \/ WindowEnds \/ UNCHANGED pushVars
      => UNCHANGED statusVars
  BY DEF Push, WindowEnds, pushVars
<1>3. StatusRoom => StatusInv'
  BY <1>0, IdleStep DEF StatusRoom
<1>4. PushCloses => StatusInv'
  BY <1>0, IdleStep DEF PushCloses
<1>5. RefreshAnswers => StatusInv'
  BY ListStep, PushAssumption DEF RefreshAnswers
<1>6. ASSUME NEW q \in late, LateAnswers(q) PROVE StatusInv'
  <2>1. CASE ids' = ids
    BY <1>0, <1>6, <2>1, IdleStep DEF LateAnswers
  <2>2. CASE ids' = Listed(q)
    BY <1>0, <1>6, <2>2, ListStep DEF LateAnswers
  <2> QED BY <1>6, <2>1, <2>2 DEF LateAnswers
<1>7. StatusRead => StatusInv'
  BY <1>0, IdleStep DEF StatusRead, Snapshot
<1> QED
  BY <1>1, <1>2, <1>3, <1>4, <1>5, <1>6, <1>7, TickStep, LateStep DEF PushNext

LEMMA PushFollows == MergerInv /\ StatusInv => ChangesTold /\ StatusIsFresh /\ PushTypeOK
  BY DEF MergerInv, StatusInv, StatusTypes, ChangesTold, PushTypeOK, Ticks

-----------------------------------------------------------------------------
(* Who listens to a channel.                                               *)

\* An entry without listeners is none at all, and no SUBSCRIBE is on its way; one
\* that waits has its SUBSCRIBE last on the wire; one that is answered has no
\* command left.
EntryInv ==
    /\ entry \in [listeners : SUBSET (Relays \cup {"watch"}), promise : {"none", "sent", "ok"}]
    /\ subscribed \in BOOLEAN
    /\ entry.promise = "none" =>
          entry.listeners = {} /\ wire \in {<<>>, <<"UNSUBSCRIBE">>}
    /\ entry.promise = "sent" =>
          entry.listeners # {} /\ wire \in {<<"SUBSCRIBE">>, <<"UNSUBSCRIBE", "SUBSCRIBE">>}
    /\ entry.promise = "ok" => entry.listeners # {} /\ wire = <<>> /\ subscribed

\* The relay's subscriptions are where the promise is.
RelayInv ==
    /\ relay \in [Relays -> {"free", "waiting", "cancelled", "on"}]
    /\ roomRelay \in Relays \cup {"none"} /\ deaf \in BOOLEAN
    /\ member \in [RoomSockets -> {"out", "looking", "in"}]
    /\ \A r \in Relays : /\ relay[r] \in {"waiting", "cancelled"} => entry.promise = "sent"
                         /\ relay[r] = "on" => entry.promise = "ok"
    /\ (\E s \in RoomSockets : member[s] = "in") => deaf \/ roomRelay # "none"
    /\ roomRelay # "none" => relay[roomRelay] \in {"waiting", "on"}

\* So is the watch, and its viewers are where it is.
WatchInv ==
    /\ watch \in [viewers : SUBSET Viewers, on : {"none", "waiting", "on"}]
    /\ viewer \in [Viewers -> {"out", "looking", "joining", "in", "gone"}]
    /\ watch = NoWatch <=> watch.viewers = {}
    /\ watch.on = "waiting" => entry.promise = "sent"
    /\ watch.on = "on" => entry.promise = "ok"
    /\ \A v \in Viewers : /\ viewer[v] \in {"joining", "gone"} => watch.on = "waiting"
                          /\ viewer[v] = "in" => watch.on = "on"
    /\ watch.viewers = {v \in Viewers : viewer[v] \in {"joining", "in", "gone"}}

Watches == IF watch.viewers = {} THEN {} ELSE {"watch"}

AllListen == entry.listeners = {r \in Relays : relay[r] # "free"} \cup Watches

ChannelsInv == EntryInv /\ RelayInv /\ WatchInv /\ AllListen

LEMMA ChannelsStart == ChannelsInit => ChannelsInv
<1> SUFFICES ASSUME ChannelsInit PROVE ChannelsInv
  OBVIOUS
<1> USE DEF ChannelsInit
<1>1. EntryInv
  BY DEF EntryInv, NoEntry
<1>2. RelayInv
  BY DEF RelayInv
<1>3. WatchInv
  BY DEF WatchInv, NoWatch
<1>4. AllListen
  BY DEF AllListen, Watches, NoWatch, NoEntry
<1> QED BY <1>1, <1>2, <1>3, <1>4 DEF ChannelsInv

\* The wire holds two commands at most.
LEMMA Wires ==
    /\ Append(<<>>, "SUBSCRIBE") = <<"SUBSCRIBE">>
    /\ Append(<<>>, "UNSUBSCRIBE") = <<"UNSUBSCRIBE">>
    /\ Append(<<"UNSUBSCRIBE">>, "SUBSCRIBE") = <<"UNSUBSCRIBE", "SUBSCRIBE">>
    /\ Tail(<<"SUBSCRIBE">>) = <<>> /\ Tail(<<"UNSUBSCRIBE">>) = <<>>
    /\ Tail(<<"UNSUBSCRIBE", "SUBSCRIBE">>) = <<"SUBSCRIBE">>
    /\ Head(<<"SUBSCRIBE">>) = "SUBSCRIBE" /\ Head(<<"UNSUBSCRIBE">>) = "UNSUBSCRIBE"
    /\ Head(<<"UNSUBSCRIBE", "SUBSCRIBE">>) = "UNSUBSCRIBE"
<1>1. Append(<<>>, "SUBSCRIBE") = <<"SUBSCRIBE">>
  OBVIOUS
<1>2. Append(<<>>, "UNSUBSCRIBE") = <<"UNSUBSCRIBE">>
  OBVIOUS
<1>3. Append(<<"UNSUBSCRIBE">>, "SUBSCRIBE") = <<"UNSUBSCRIBE", "SUBSCRIBE">>
  <2> DEFINE appended == Append(<<"UNSUBSCRIBE">>, "SUBSCRIBE")
             both == <<"UNSUBSCRIBE", "SUBSCRIBE">>
  <2>1. /\ appended \in Seq({"SUBSCRIBE", "UNSUBSCRIBE"}) /\ Len(appended) = 2
        /\ appended[1] = "UNSUBSCRIBE" /\ appended[2] = "SUBSCRIBE"
    OBVIOUS
  <2>2. /\ both \in Seq({"SUBSCRIBE", "UNSUBSCRIBE"}) /\ Len(both) = 2
        /\ both[1] = "UNSUBSCRIBE" /\ both[2] = "SUBSCRIBE"
    OBVIOUS
  <2> HIDE DEF appended, both
  <2>3. \A i \in 1..2 : i = 1 \/ i = 2
    OBVIOUS
  <2>4. appended = both
    BY <2>1, <2>2, <2>3, SeqEqual
  <2> QED BY <2>4 DEF appended, both
<1>4. Tail(<<"SUBSCRIBE">>) = <<>>
  OBVIOUS
<1>5. Tail(<<"UNSUBSCRIBE">>) = <<>>
  OBVIOUS
<1>6. Tail(<<"UNSUBSCRIBE", "SUBSCRIBE">>) = <<"SUBSCRIBE">>
  OBVIOUS
<1>7. Head(<<"SUBSCRIBE">>) = "SUBSCRIBE" /\ Head(<<"UNSUBSCRIBE">>) = "UNSUBSCRIBE"
  OBVIOUS
<1>8. Head(<<"UNSUBSCRIBE", "SUBSCRIBE">>) = "UNSUBSCRIBE"
  OBVIOUS
<1> QED BY <1>1, <1>2, <1>3, <1>4, <1>5, <1>6, <1>7, <1>8

\* A listener more: its SUBSCRIBE is appended, or was.
LEMMA SubscribeStep ==
    ASSUME EntryInv, NEW l \in Relays \cup {"watch"}, Subscribe(l)
    PROVE  /\ EntryInv'
           /\ entry'.listeners = entry.listeners \cup {l}
           /\ entry'.promise = IF entry.promise = "none" THEN "sent" ELSE entry.promise
           /\ Waiting(entry.promise) = IF entry'.promise = "ok" THEN "on" ELSE "waiting"
<1> DEFINE promise == IF entry.promise = "none" THEN "sent" ELSE entry.promise
<1>1. /\ entry' = [listeners |-> entry.listeners \cup {l}, promise |-> promise]
      /\ wire' = IF entry.promise = "none" THEN Append(wire, "SUBSCRIBE") ELSE wire
      /\ UNCHANGED subscribed
  BY DEF Subscribe
<1>2. /\ promise \in {"sent", "ok"} /\ (promise = "ok" <=> entry.promise = "ok")
      /\ entry.listeners \subseteq Relays \cup {"watch"}
  BY DEF EntryInv
<1> HIDE DEF promise
<1>3. /\ entry'.listeners = entry.listeners \cup {l} /\ entry'.promise = promise
      /\ entry' \in [listeners : SUBSET (Relays \cup {"watch"}), promise : {"none", "sent", "ok"}]
  BY <1>1, <1>2
<1>4. promise = "sent" => wire' \in {<<"SUBSCRIBE">>, <<"UNSUBSCRIBE", "SUBSCRIBE">>}
  <2>1. CASE entry.promise = "none"
    BY <1>1, <2>1, Wires DEF EntryInv
  <2>2. CASE entry.promise = "sent"
    BY <1>1, <2>2 DEF EntryInv
  <2> QED BY <1>2, <2>1, <2>2 DEF EntryInv
<1>5. promise = "ok" => wire' = <<>> /\ subscribed'
  BY <1>1, <1>2 DEF EntryInv
<1>6. EntryInv'
  BY <1>1, <1>2, <1>3, <1>4, <1>5 DEF EntryInv
<1> QED BY <1>2, <1>3, <1>6 DEF Waiting, promise

\* A listener less, of an entry that was answered: the last one sends UNSUBSCRIBE.
LEMMA ReleaseStep ==
    ASSUME EntryInv, NEW ls, Release(ls), entry.promise = "ok", UNCHANGED subscribed
    PROVE  /\ EntryInv'
           /\ entry'.listeners = entry.listeners \ ls
           /\ entry.listeners \ ls # {} => entry'.promise = "ok"
<1> DEFINE left == entry.listeners \ ls
<1>1. CASE left = {}
  <2>1. entry' = NoEntry /\ wire' = <<"UNSUBSCRIBE">>
    BY <1>1, Wires DEF Release, EntryInv
  <2> QED BY <1>1, <2>1 DEF EntryInv, NoEntry
<1>2. CASE left # {}
  <2>1. entry' = [entry EXCEPT !.listeners = left] /\ wire' = wire
    BY <1>2 DEF Release
  <2>2. /\ entry'.listeners = left /\ entry'.promise = "ok"
        /\ entry' \in [listeners : SUBSET (Relays \cup {"watch"}),
                       promise : {"none", "sent", "ok"}]
    BY <2>1 DEF EntryInv
  <2> QED BY <1>2, <2>1, <2>2 DEF EntryInv
<1> QED BY <1>1, <1>2

LEMMA UnsubscribedStep ==
    ASSUME ChannelsInv, NEW fails \in BOOLEAN, Unsubscribed(fails)
    PROVE  ChannelsInv'
<1>1. /\ wire # <<>> /\ Head(wire) = "UNSUBSCRIBE" /\ wire' = Tail(wire)
      /\ subscribed' = (subscribed /\ fails)
      /\ UNCHANGED <<entry, relay, roomRelay, deaf, member, watch, viewer>>
  BY DEF Unsubscribed, roomVars, framesVars
<1>2. EntryInv'
  <2>1. CASE entry.promise = "none"
    BY <1>1, <2>1, Wires DEF ChannelsInv, EntryInv
  <2>2. CASE entry.promise = "sent"
    BY <1>1, <2>2, Wires DEF ChannelsInv, EntryInv
  <2> QED BY <1>1, <2>1, <2>2 DEF ChannelsInv, EntryInv
<1>3. RelayInv'
  BY <1>1 DEF ChannelsInv, RelayInv
<1>4. WatchInv'
  BY <1>1 DEF ChannelsInv, WatchInv
<1>5. AllListen'
  BY <1>1 DEF ChannelsInv, AllListen, Watches
<1> QED BY <1>2, <1>3, <1>4, <1>5 DEF ChannelsInv

\* The head of the wire is a SUBSCRIBE: it is the last one.
LEMMA HeadSubscribes ==
    ASSUME ChannelsInv, wire # <<>>, Head(wire) = "SUBSCRIBE"
    PROVE  /\ entry.promise = "sent" /\ Tail(wire) = <<>>
           /\ \A r \in Relays : relay[r] # "on"
           /\ watch.on # "on" /\ \A v \in Viewers : viewer[v] # "in"
<1>1. entry.promise = "sent" /\ Tail(wire) = <<>>
  BY Wires DEF ChannelsInv, EntryInv
<1> QED BY <1>1 DEF ChannelsInv, RelayInv, WatchInv

LEMMA FailsStep == ASSUME ChannelsInv, SubscribeFails PROVE ChannelsInv'
<1>1. /\ wire' = <<>> /\ entry' = NoEntry /\ relay' = [r \in Relays |-> "free"]
      /\ deaf' = (deaf \/ roomRelay # "none") /\ roomRelay' = "none" /\ watch' = NoWatch
      /\ viewer' = [v \in Viewers |-> IF v \in watch.viewers THEN "out" ELSE viewer[v]]
      /\ UNCHANGED <<subscribed, member>>
  BY HeadSubscribes DEF SubscribeFails
<1>2. EntryInv'
  BY <1>1 DEF ChannelsInv, EntryInv, NoEntry
<1>3. RelayInv'
  BY <1>1 DEF ChannelsInv, RelayInv
<1>4. WatchInv'
  <2>1. viewer' \in [Viewers -> {"out", "looking", "joining", "in", "gone"}]
    BY <1>1 DEF ChannelsInv, WatchInv
  <2>2. \A v \in Viewers : viewer'[v] \notin {"joining", "in", "gone"}
    BY <1>1 DEF ChannelsInv, WatchInv
  <2> QED BY <1>1, <2>1, <2>2 DEF WatchInv, NoWatch
<1>5. AllListen'
  BY <1>1 DEF AllListen, Watches, NoWatch, NoEntry
<1> QED BY <1>2, <1>3, <1>4, <1>5 DEF ChannelsInv

LEMMA SubscribedStep == ASSUME ChannelsInv, Subscribed PROVE ChannelsInv'
<1> DEFINE cancelled == {r \in Relays : relay[r] = "cancelled"}
           gone == {v \in Viewers : viewer[v] = "gone"}
           ends == cancelled \cup (IF watch # NoWatch /\ watch.viewers \subseteq gone
                                   THEN {"watch"} ELSE {})
           left == entry.listeners \ ends
<1>1. /\ wire # <<>> /\ Head(wire) = "SUBSCRIBE" /\ subscribed' = TRUE
      /\ entry.listeners \subseteq ends =>
            entry' = NoEntry /\ wire' = Append(Tail(wire), "UNSUBSCRIBE")
      /\ ~(entry.listeners \subseteq ends) =>
            entry' = [listeners |-> left, promise |-> "ok"] /\ wire' = Tail(wire)
      /\ UNCHANGED <<roomRelay, deaf, member>>
  BY DEF Subscribed
<1>2. /\ entry.promise = "sent" /\ Tail(wire) = <<>>
      /\ \A r \in Relays : relay[r] # "on"
      /\ watch.on # "on" /\ \A v \in Viewers : viewer[v] # "in"
  BY <1>1, HeadSubscribes
<1>3. /\ relay' \in [Relays -> {"free", "waiting", "cancelled", "on"}]
      /\ \A r \in Relays : relay'[r] = IF relay[r] = "waiting" THEN "on" ELSE "free"
  <2>1. relay' = [r \in Relays |-> CASE relay[r] = "waiting" -> "on"
                                     [] relay[r] = "cancelled" -> "free"
                                     [] OTHER -> relay[r]]
    BY DEF Subscribed
  <2>2. \A r \in Relays : relay[r] \in {"free", "waiting", "cancelled"}
    BY <1>2 DEF ChannelsInv, RelayInv
  <2> QED BY <2>1, <2>2
<1>4. /\ viewer' \in [Viewers -> {"out", "looking", "joining", "in", "gone"}]
      /\ \A v \in Viewers : viewer'[v] = IF viewer[v] = "joining" THEN "in"
                                         ELSE IF viewer[v] = "gone" THEN "out" ELSE viewer[v]
  <2>1. viewer' = [v \in Viewers |-> CASE viewer[v] = "joining" -> "in"
                                       [] viewer[v] = "gone" -> "out"
                                       [] OTHER -> viewer[v]]
    BY DEF Subscribed
  <2> QED BY <2>1 DEF ChannelsInv, WatchInv
<1>5. /\ watch' = IF watch.viewers \subseteq gone THEN NoWatch
                  ELSE [viewers |-> watch.viewers \ gone, on |-> "on"]
      /\ watch.viewers = {v \in Viewers : viewer[v] \in {"joining", "gone"}}
  BY <1>2 DEF Subscribed, ChannelsInv, WatchInv
<1>6. /\ watch'.viewers = {v \in Viewers : viewer'[v] \in {"joining", "in", "gone"}}
      /\ watch'.viewers = watch.viewers \ gone
      /\ watch'.on = IF watch.viewers \subseteq gone THEN "none" ELSE "on"
      /\ watch' \in [viewers : SUBSET Viewers, on : {"none", "waiting", "on"}]
      /\ watch' = NoWatch <=> watch'.viewers = {}
  <2>1. watch.viewers \ gone = {v \in Viewers : viewer'[v] \in {"joining", "in", "gone"}}
    BY <1>2, <1>4, <1>5
  <2>2. watch.viewers \subseteq Viewers
    BY <1>5
  <2> HIDE DEF gone
  <2>3. CASE watch.viewers \subseteq gone
    BY <1>5, <2>1, <2>2, <2>3 DEF NoWatch
  <2>4. CASE ~(watch.viewers \subseteq gone)
    BY <1>5, <2>1, <2>2, <2>4 DEF NoWatch
  <2> QED BY <2>3, <2>4
<1>7. left = {r \in Relays : relay'[r] # "free"} \cup Watches'
  <2>1. entry.listeners = {r \in Relays : relay[r] # "free"} \cup Watches
    BY DEF ChannelsInv, AllListen
  <2>2. watch # NoWatch <=> watch.viewers # {}
    BY DEF ChannelsInv, WatchInv
  <2>3. {r \in Relays : relay[r] # "free"} \ cancelled = {r \in Relays : relay'[r] # "free"}
    <3>1. \A r \in Relays : relay[r] \in {"free", "waiting", "cancelled"}
      BY <1>2 DEF ChannelsInv, RelayInv
    <3> QED BY <1>3, <3>1
  <2>4. "watch" \notin Relays
    BY ChannelsAssumption
  <2> HIDE DEF gone
  <2>5. CASE watch.viewers = {}
    <3>1. Watches = {} /\ Watches' = {} /\ ends = cancelled
      BY <1>6, <2>2, <2>5 DEF Watches
    <3> QED BY <2>1, <2>3, <3>1
  <2>6. CASE watch.viewers # {} /\ watch.viewers \subseteq gone
    <3>1. Watches = {"watch"} /\ Watches' = {} /\ ends = cancelled \cup {"watch"}
      BY <1>6, <2>2, <2>6 DEF Watches
    <3> QED BY <2>1, <2>3, <2>4, <3>1
  <2>7. CASE ~(watch.viewers \subseteq gone)
    <3>1. Watches = {"watch"} /\ Watches' = {"watch"} /\ ends = cancelled
      BY <1>6, <2>2, <2>7 DEF Watches
    <3> QED BY <2>1, <2>3, <2>4, <3>1
  <2> QED BY <2>5, <2>6, <2>7
<1>8. left \subseteq Relays \cup {"watch"} /\ (left = {} <=> entry.listeners \subseteq ends)
  BY DEF ChannelsInv, EntryInv
<1> HIDE DEF cancelled, gone, ends, left
<1>9. EntryInv' /\ entry'.listeners = left /\ (left # {} => entry'.promise = "ok")
  <2>1. CASE left = {}
    <3>1. entry' = NoEntry /\ wire' = <<"UNSUBSCRIBE">>
      BY <1>1, <1>2, <1>8, <2>1, Wires
    <3> QED BY <1>1, <2>1, <3>1 DEF EntryInv, NoEntry
  <2>2. CASE left # {}
    <3>1. entry' = [listeners |-> left, promise |-> "ok"] /\ wire' = <<>>
      BY <1>1, <1>2, <1>8, <2>2
    <3> QED BY <1>1, <1>8, <2>2, <3>1 DEF EntryInv
  <2> QED BY <2>1, <2>2
<1>10. RelayInv'
  BY <1>1, <1>2, <1>3, <1>7, <1>9 DEF ChannelsInv, RelayInv
<1>11. WatchInv'
  <2>1. watch'.on = "on" => left # {}
    <3>1. watch'.viewers # {} => "watch" \in Watches'
      BY DEF Watches
    <3>2. watch'.on = "on" => watch'.viewers # {}
      BY <1>6
    <3> QED BY <1>7, <3>1, <3>2
  <2>2. \A v \in Viewers : /\ viewer'[v] \notin {"joining", "gone"}
                           /\ viewer'[v] = "in" => watch'.on = "on"
    <3>1. \A v \in Viewers : viewer'[v] \notin {"joining", "gone"}
      BY <1>4
    <3>2. ASSUME NEW v \in Viewers, viewer'[v] = "in" PROVE watch'.on = "on"
      <4>1. v \in watch'.viewers
        BY <1>6, <3>2
      <4> QED BY <1>6, <4>1
    <3> QED BY <3>1, <3>2
  <2> QED BY <1>4, <1>6, <1>9, <2>1, <2>2 DEF WatchInv
<1>12. AllListen'
  BY <1>7, <1>9 DEF AllListen
<1> QED BY <1>9, <1>10, <1>11, <1>12 DEF ChannelsInv

\* The first socket's room subscribes.
LEMMA CreateRoomStep == ASSUME ChannelsInv, NEW s \in RoomSockets, OnCreateRoom(s)
                    PROVE  ChannelsInv'
<1> DEFINE r == CHOOSE r \in Relays : relay[r] = "free"
<1>1. r \in Relays /\ relay[r] = "free"
  BY DEF OnCreateRoom
<1>2. /\ member' = [member EXCEPT ![s] = "in"] /\ Subscribe(r)
      /\ relay' = [relay EXCEPT ![r] = Waiting(entry.promise)] /\ roomRelay' = r
      /\ UNCHANGED <<deaf, watch, viewer>>
  BY DEF OnCreateRoom, framesVars
<1> HIDE DEF r
<1>3. /\ EntryInv' /\ entry'.listeners = entry.listeners \cup {r}
      /\ entry'.promise = IF entry.promise = "none" THEN "sent" ELSE entry.promise
      /\ Waiting(entry.promise) = IF entry'.promise = "ok" THEN "on" ELSE "waiting"
  BY <1>1, <1>2, SubscribeStep DEF ChannelsInv
<1>4. entry.promise \in {"none", "sent", "ok"} /\ entry'.promise \in {"sent", "ok"}
  BY <1>3 DEF ChannelsInv, EntryInv
<1>5. /\ relay' \in [Relays -> {"free", "waiting", "cancelled", "on"}]
      /\ relay'[r] = IF entry'.promise = "ok" THEN "on" ELSE "waiting"
      /\ \A q \in Relays \ {r} : relay'[q] = relay[q]
  BY <1>1, <1>2, <1>3 DEF ChannelsInv, RelayInv
<1>6. RelayInv'
  <2>1. member' \in [RoomSockets -> {"out", "looking", "in"}]
    BY <1>2 DEF ChannelsInv, RelayInv
  <2>2. \A q \in Relays : /\ relay'[q] \in {"waiting", "cancelled"} => entry'.promise = "sent"
                          /\ relay'[q] = "on" => entry'.promise = "ok"
    <3>1. \A q \in Relays \ {r} :
             /\ relay'[q] \in {"waiting", "cancelled"} => entry'.promise = "sent"
             /\ relay'[q] = "on" => entry'.promise = "ok"
      BY <1>3, <1>5 DEF ChannelsInv, RelayInv
    <3> QED BY <1>4, <1>5, <3>1
  <2>3. roomRelay' # "none" /\ roomRelay' \in Relays
    BY <1>1, <1>2, ChannelsAssumption
  <2> QED BY <1>2, <1>4, <1>5, <2>1, <2>2, <2>3 DEF ChannelsInv, RelayInv
<1>7. WatchInv'
  BY <1>2, <1>3 DEF ChannelsInv, WatchInv
<1>8. AllListen'
  <2>1. {q \in Relays : relay'[q] # "free"} = {q \in Relays : relay[q] # "free"} \cup {r}
    BY <1>1, <1>5
  <2>2. Watches' = Watches
    BY <1>2 DEF Watches
  <2> QED BY <1>3, <2>1, <2>2 DEF ChannelsInv, AllListen
<1> QED BY <1>3, <1>6, <1>7, <1>8 DEF ChannelsInv

\* The last socket's room releases what is on, or cancels what waits.
LEMMA DeleteStep == ASSUME ChannelsInv, NEW s \in RoomSockets, OnDeleteRoom(s)
                    PROVE  ChannelsInv'
<1>1. /\ member[s] = "in" /\ \A t \in RoomSockets \ {s} : member[t] # "in"
      /\ member' = [member EXCEPT ![s] = "out"]
      /\ deaf' = FALSE /\ roomRelay' = "none" /\ UNCHANGED <<subscribed, watch, viewer>>
  BY DEF OnDeleteRoom, framesVars
<1>2. /\ member' \in [RoomSockets -> {"out", "looking", "in"}]
      /\ \A t \in RoomSockets : member'[t] # "in"
  BY <1>1 DEF ChannelsInv, RelayInv
<1>3. Watches' = Watches
  BY <1>1 DEF Watches
<1>4. CASE roomRelay # "none" /\ relay[roomRelay] = "on"
  <2>1. roomRelay \in Relays /\ entry.promise = "ok"
    BY <1>4 DEF ChannelsInv, RelayInv
  <2>2. Release({roomRelay}) /\ relay' = [relay EXCEPT ![roomRelay] = "free"]
    BY <1>4 DEF OnDeleteRoom
  <2>3. /\ EntryInv' /\ entry'.listeners = entry.listeners \ {roomRelay}
        /\ entry.listeners \ {roomRelay} # {} => entry'.promise = "ok"
    BY <1>1, <2>1, <2>2, ReleaseStep DEF ChannelsInv
  <2>4. /\ relay' \in [Relays -> {"free", "waiting", "cancelled", "on"}]
        /\ relay'[roomRelay] = "free"
        /\ \A q \in Relays \ {roomRelay} : relay'[q] = relay[q]
    BY <2>1, <2>2 DEF ChannelsInv, RelayInv
  <2>5. AllListen'
    <3>1. {q \in Relays : relay'[q] # "free"}
             = {q \in Relays : relay[q] # "free"} \ {roomRelay}
      BY <2>1, <2>4
    <3>2. roomRelay \notin Watches
      BY <2>1, ChannelsAssumption DEF Watches
    <3> QED BY <1>3, <2>3, <3>1, <3>2 DEF ChannelsInv, AllListen
  <2>6. \A q \in Relays : relay'[q] # "free" =>
           entry'.promise = "ok" /\ relay'[q] = relay[q]
    <3>1. \A q \in Relays : relay'[q] # "free" => q \in entry'.listeners
      BY <2>5 DEF AllListen
    <3> QED BY <2>3, <2>4, <3>1
  <2>7. RelayInv'
    <3>1. \A q \in Relays : relay[q] \notin {"waiting", "cancelled"}
      BY <2>1 DEF ChannelsInv, RelayInv
    <3>2. \A q \in Relays :
             /\ relay'[q] \in {"waiting", "cancelled"} => entry'.promise = "sent"
             /\ relay'[q] = "on" => entry'.promise = "ok"
      BY <2>4, <2>6, <3>1
    <3> QED BY <1>1, <1>2, <2>4, <3>2 DEF RelayInv
  <2>8. WatchInv'
    <3>1. watch'.on # "waiting"
      BY <1>1, <2>1 DEF ChannelsInv, WatchInv
    <3>2. watch'.on = "on" => entry'.promise = "ok"
      <4>1. watch.on = "on" => watch.viewers # {}
        BY DEF ChannelsInv, WatchInv, NoWatch
      <4>2. watch.on = "on" => "watch" \in entry'.listeners
        BY <1>3, <2>5, <4>1 DEF AllListen, Watches
      <4> QED BY <1>1, <2>3, <4>2
    <3> QED BY <1>1, <3>1, <3>2 DEF ChannelsInv, WatchInv
  <2> QED BY <2>3, <2>5, <2>7, <2>8 DEF ChannelsInv
<1>5. CASE ~(roomRelay # "none" /\ relay[roomRelay] = "on")
  <2>1. /\ relay' = [r \in Relays |-> IF r = roomRelay THEN "cancelled" ELSE relay[r]]
        /\ UNCHANGED <<entry, wire>>
    BY <1>5 DEF OnDeleteRoom
  <2>2. EntryInv'
    BY <1>1, <2>1 DEF ChannelsInv, EntryInv
  <2>3. \A r \in Relays : r = roomRelay => relay[r] = "waiting"
    BY <1>5, ChannelsAssumption DEF ChannelsInv, RelayInv
  <2>4. RelayInv'
    <3>1. relay' \in [Relays -> {"free", "waiting", "cancelled", "on"}]
      BY <2>1 DEF ChannelsInv, RelayInv
    <3>2. \A q \in Relays :
             /\ relay'[q] \in {"waiting", "cancelled"} => entry'.promise = "sent"
             /\ relay'[q] = "on" => entry'.promise = "ok"
      BY <2>1, <2>3 DEF ChannelsInv, RelayInv
    <3> QED BY <1>1, <1>2, <3>1, <3>2 DEF RelayInv
  <2>5. WatchInv'
    BY <1>1, <2>1 DEF ChannelsInv, WatchInv
  <2>6. AllListen'
    <3>1. {q \in Relays : relay'[q] # "free"} = {q \in Relays : relay[q] # "free"}
      BY <2>1, <2>3
    <3> QED BY <1>3, <2>1, <3>1 DEF ChannelsInv, AllListen
  <2> QED BY <2>2, <2>4, <2>5, <2>6 DEF ChannelsInv
<1> QED BY <1>4, <1>5

\* The other steps of the sockets move no subscription.
LEMMA RelayStep == ASSUME ChannelsInv, BoxesRelay PROVE ChannelsInv'
<1> PICK s \in RoomSockets : \/ SubscribeRoom(s) \/ JoinRoom(s) \/ LeaveRoom(s)
                             \/ OnCreateRoom(s) \/ OnDeleteRoom(s)
  BY DEF BoxesRelay
<1>1. CASE SubscribeRoom(s) \/ JoinRoom(s) \/ LeaveRoom(s)
  <2>1. /\ UNCHANGED <<entry, wire, subscribed, relay, roomRelay, deaf, watch, viewer>>
        /\ member' \in [RoomSockets -> {"out", "looking", "in"}]
    BY <1>1 DEF SubscribeRoom, JoinRoom, LeaveRoom, pubsubVars, framesVars, ChannelsInv,
                RelayInv
  <2>2. (\E t \in RoomSockets : member'[t] = "in") => \E t \in RoomSockets : member[t] = "in"
    <3>1. CASE SubscribeRoom(s)
      BY <3>1 DEF SubscribeRoom, ChannelsInv, RelayInv
    <3>2. CASE JoinRoom(s)
      BY <3>2 DEF JoinRoom
    <3>3. CASE LeaveRoom(s)
      BY <3>3 DEF LeaveRoom, ChannelsInv, RelayInv
    <3> QED BY <1>1, <3>1, <3>2, <3>3
  <2>3. EntryInv'
    BY <2>1 DEF ChannelsInv, EntryInv
  <2>4. RelayInv'
    BY <2>1, <2>2 DEF ChannelsInv, RelayInv
  <2>5. WatchInv'
    BY <2>1 DEF ChannelsInv, WatchInv
  <2>6. AllListen'
    BY <2>1 DEF ChannelsInv, AllListen, Watches
  <2> QED BY <2>3, <2>4, <2>5, <2>6 DEF ChannelsInv
<1>2. CASE OnCreateRoom(s)
  BY <1>2, CreateRoomStep
<1>3. CASE OnDeleteRoom(s)
  BY <1>3, DeleteStep
<1> QED BY <1>1, <1>2, <1>3

\* A viewer joins the watch; the first one subscribes.
LEMMA WatchStep == ASSUME ChannelsInv, NEW v \in Viewers, Watch(v) PROVE ChannelsInv'
<1> DEFINE on == IF entry'.promise = "ok" THEN "on" ELSE "waiting"
<1>1. /\ viewer[v] = "looking"
      /\ viewer' = [viewer EXCEPT ![v] = IF watch'.on = "on" THEN "in" ELSE "joining"]
      /\ UNCHANGED <<relay, roomRelay, deaf, member>>
  BY DEF Watch, roomVars
<1>2. v \notin watch.viewers
  BY <1>1 DEF ChannelsInv, WatchInv
<1>3. /\ EntryInv' /\ watch'.viewers = watch.viewers \cup {v} /\ watch'.on = on
      /\ watch' \in [viewers : SUBSET Viewers, on : {"none", "waiting", "on"}]
      /\ entry'.listeners = entry.listeners \cup {"watch"}
      /\ entry'.promise = IF entry.promise = "none" THEN "sent" ELSE entry.promise
      /\ entry'.promise \in {"sent", "ok"}
  <2>1. CASE watch = NoWatch
    <3>1. Subscribe("watch") /\ watch' = [viewers |-> {v}, on |-> Waiting(entry.promise)]
      BY <2>1 DEF Watch
    <3>2. /\ EntryInv' /\ entry'.listeners = entry.listeners \cup {"watch"}
          /\ entry'.promise = IF entry.promise = "none" THEN "sent" ELSE entry.promise
          /\ Waiting(entry.promise) = on
      BY <3>1, SubscribeStep DEF ChannelsInv
    <3>3. entry'.promise \in {"sent", "ok"}
      BY <3>2 DEF ChannelsInv, EntryInv
    <3>4. watch.viewers = {}
      BY <2>1 DEF NoWatch
    <3> QED BY <3>1, <3>2, <3>3, <3>4
  <2>2. CASE watch # NoWatch
    <3>1. watch' = [watch EXCEPT !.viewers = @ \cup {v}] /\ UNCHANGED <<entry, wire, subscribed>>
      BY <2>2 DEF Watch, pubsubVars
    <3>2. watch.viewers # {} /\ watch.on \in {"waiting", "on"}
      <4>1. watch.viewers # {}
        BY <2>2 DEF ChannelsInv, WatchInv
      <4>2. PICK w \in watch.viewers : w \in Viewers /\ viewer[w] \in {"joining", "in", "gone"}
        BY <4>1 DEF ChannelsInv, WatchInv
      <4> QED BY <4>1, <4>2 DEF ChannelsInv, WatchInv
    <3>3. entry.promise = IF watch.on = "on" THEN "ok" ELSE "sent"
      BY <3>2 DEF ChannelsInv, WatchInv
    <3>4. EntryInv'
      BY <3>1 DEF ChannelsInv, EntryInv
    <3>5. /\ watch'.viewers = watch.viewers \cup {v} /\ watch'.on = watch.on
          /\ watch' \in [viewers : SUBSET Viewers, on : {"none", "waiting", "on"}]
      BY <3>1 DEF ChannelsInv, WatchInv
    <3>6. "watch" \in entry.listeners
      BY <3>2 DEF ChannelsInv, AllListen, Watches
    <3> QED BY <3>1, <3>2, <3>3, <3>4, <3>5, <3>6
  <2> QED BY <2>1, <2>2
<1>4. RelayInv'
  BY <1>1, <1>3 DEF ChannelsInv, RelayInv
<1>5. WatchInv'
  <2>1. /\ viewer' \in [Viewers -> {"out", "looking", "joining", "in", "gone"}]
        /\ viewer'[v] = IF watch'.on = "on" THEN "in" ELSE "joining"
        /\ \A w \in Viewers \ {v} : viewer'[w] = viewer[w]
    BY <1>1 DEF ChannelsInv, WatchInv
  <2>2. watch.viewers # {} => watch.on = on
    <3>1. watch.viewers # {} => watch.on \in {"waiting", "on"}
      BY DEF ChannelsInv, WatchInv
    <3> QED BY <1>3, <3>1 DEF ChannelsInv, WatchInv
  <2> HIDE DEF on
  <2>3. on \in {"waiting", "on"}
    BY DEF on
  <2>4. \A w \in Viewers : /\ viewer'[w] \in {"joining", "gone"} => watch'.on = "waiting"
                           /\ viewer'[w] = "in" => watch'.on = "on"
    <3>1. ASSUME NEW w \in Viewers \ {v}
          PROVE  /\ viewer'[w] \in {"joining", "gone"} => watch'.on = "waiting"
                 /\ viewer'[w] = "in" => watch'.on = "on"
      <4>1. viewer[w] \in {"joining", "in", "gone"} => watch.on = on
        BY <2>2 DEF ChannelsInv, WatchInv
      <4>2. /\ viewer[w] \in {"joining", "gone"} => watch.on = "waiting"
            /\ viewer[w] = "in" => watch.on = "on"
        BY DEF ChannelsInv, WatchInv
      <4> QED BY <1>3, <2>1, <4>1, <4>2
    <3> QED BY <1>3, <2>1, <2>3, <3>1
  <2>5. watch'.viewers = {w \in Viewers : viewer'[w] \in {"joining", "in", "gone"}}
    <3>1. watch.viewers = {w \in Viewers : viewer[w] \in {"joining", "in", "gone"}}
      BY DEF ChannelsInv, WatchInv
    <3>2. viewer'[v] \in {"joining", "in", "gone"}
      BY <2>1
    <3> QED BY <1>3, <2>1, <3>1, <3>2
  <2>6. watch' # NoWatch /\ watch'.viewers # {}
    BY <1>3 DEF NoWatch
  <2>7. /\ watch'.on = "waiting" => entry'.promise = "sent"
        /\ watch'.on = "on" => entry'.promise = "ok"
    BY <1>3 DEF on
  <2> QED BY <1>3, <2>1, <2>4, <2>5, <2>6, <2>7 DEF WatchInv
<1>6. AllListen'
  BY <1>1, <1>3 DEF ChannelsInv, AllListen, Watches
<1> QED BY <1>3, <1>4, <1>5, <1>6 DEF ChannelsInv

\* The last viewer takes the watch's subscription with it.
LEMMA CleanupStep == ASSUME ChannelsInv, NEW v \in Viewers, Cleanup(v) PROVE ChannelsInv'
<1>1. /\ viewer[v] = "in" /\ viewer' = [viewer EXCEPT ![v] = "out"]
      /\ UNCHANGED <<subscribed, relay, roomRelay, deaf, member>>
  BY DEF Cleanup, roomVars
<1>2. watch.on = "on" /\ entry.promise = "ok" /\ v \in watch.viewers
  BY <1>1 DEF ChannelsInv, WatchInv
<1>3. \A r \in Relays : relay[r] \in {"free", "on"}
  BY <1>2 DEF ChannelsInv, RelayInv
<1>4. /\ viewer' \in [Viewers -> {"out", "looking", "joining", "in", "gone"}]
      /\ \A w \in Viewers : viewer'[w] \notin {"joining", "gone"}
      /\ watch.viewers \ {v} = {w \in Viewers : viewer'[w] \in {"joining", "in", "gone"}}
  BY <1>1, <1>2 DEF ChannelsInv, WatchInv
<1>5. CASE watch.viewers = {v}
  <2>1. watch' = NoWatch /\ Release({"watch"})
    BY <1>5 DEF Cleanup
  <2>2. /\ EntryInv' /\ entry'.listeners = entry.listeners \ {"watch"}
        /\ entry.listeners \ {"watch"} # {} => entry'.promise = "ok"
    BY <1>1, <1>2, <2>1, ReleaseStep DEF ChannelsInv
  <2>3. AllListen'
    <3>1. "watch" \notin Relays
      BY ChannelsAssumption
    <3>2. Watches' = {} /\ Watches \subseteq {"watch"}
      BY <2>1 DEF Watches, NoWatch
    <3>3. UNCHANGED relay
      BY <1>1
    <3> QED BY <2>2, <3>1, <3>2, <3>3 DEF ChannelsInv, AllListen
  <2>4. \A r \in Relays : relay'[r] # "free" => entry'.promise = "ok"
    BY <2>2, <2>3 DEF AllListen
  <2>5. RelayInv'
    BY <1>1, <1>3, <2>4 DEF ChannelsInv, RelayInv
  <2>6. WatchInv'
    <3>1. watch.viewers \ {v} = {}
      BY <1>5
    <3>2. watch'.viewers = {} /\ watch'.on = "none"
      BY <2>1 DEF NoWatch
    <3>3. watch' \in [viewers : SUBSET Viewers, on : {"none", "waiting", "on"}]
      BY <2>1 DEF NoWatch
    <3> QED BY <1>4, <2>1, <3>1, <3>2, <3>3 DEF WatchInv
  <2> QED BY <2>2, <2>3, <2>5, <2>6 DEF ChannelsInv
<1>6. CASE watch.viewers # {v}
  <2>1. watch' = [watch EXCEPT !.viewers = @ \ {v}] /\ UNCHANGED <<entry, wire>>
    BY <1>6 DEF Cleanup
  <2>2. /\ watch'.viewers = watch.viewers \ {v} /\ watch'.on = "on"
        /\ watch' \in [viewers : SUBSET Viewers, on : {"none", "waiting", "on"}]
    BY <1>2, <2>1 DEF ChannelsInv, WatchInv
  <2>3. watch.viewers \ {v} # {}
    BY <1>2, <1>6
  <2>4. EntryInv'
    BY <1>1, <2>1 DEF ChannelsInv, EntryInv
  <2>5. RelayInv'
    BY <1>1, <2>1 DEF ChannelsInv, RelayInv
  <2>6. WatchInv'
    BY <1>2, <1>4, <2>1, <2>2, <2>3 DEF WatchInv, NoWatch
  <2>7. AllListen'
    <3>1. Watches = {"watch"} /\ Watches' = {"watch"}
      BY <1>2, <2>2, <2>3 DEF Watches
    <3> QED BY <1>1, <2>1, <3>1 DEF ChannelsInv, AllListen
  <2> QED BY <2>4, <2>5, <2>6, <2>7 DEF ChannelsInv
<1> QED BY <1>5, <1>6

LEMMA ViewersStep == ASSUME ChannelsInv, DebugViewers PROVE ChannelsInv'
<1> PICK v \in Viewers : \/ DebugFrames(v) \/ CloseEarly(v) \/ Watch(v) \/ Cleanup(v)
  BY DEF DebugViewers
<1>1. CASE DebugFrames(v) \/ CloseEarly(v)
  <2>1. UNCHANGED <<entry, wire, subscribed, relay, roomRelay, deaf, member, watch>>
    BY <1>1 DEF DebugFrames, CloseEarly, pubsubVars, roomVars
  <2>2. /\ viewer' \in [Viewers -> {"out", "looking", "joining", "in", "gone"}]
        /\ \A w \in Viewers :
              /\ viewer'[w] \in {"joining", "gone"} <=> viewer[w] \in {"joining", "gone"}
              /\ viewer'[w] = "in" <=> viewer[w] = "in"
    <3>1. CASE DebugFrames(v)
      BY <3>1 DEF DebugFrames, ChannelsInv, WatchInv
    <3>2. CASE CloseEarly(v)
      BY <3>2 DEF CloseEarly, ChannelsInv, WatchInv
    <3> QED BY <1>1, <3>1, <3>2
  <2>3. WatchInv'
    <3>1. {w \in Viewers : viewer'[w] \in {"joining", "in", "gone"}}
             = {w \in Viewers : viewer[w] \in {"joining", "in", "gone"}}
      BY <2>2
    <3> QED BY <2>1, <2>2, <3>1 DEF ChannelsInv, WatchInv
  <2>4. EntryInv' /\ RelayInv' /\ AllListen'
    BY <2>1 DEF ChannelsInv, EntryInv, RelayInv, AllListen, Watches
  <2> QED BY <2>3, <2>4 DEF ChannelsInv
<1>2. CASE Watch(v)
  BY <1>2, WatchStep
<1>3. CASE Cleanup(v)
  BY <1>3, CleanupStep
<1> QED BY <1>1, <1>2, <1>3

LEMMA ChannelsStep == ChannelsInv /\ [ChannelsNext]_channelsVars => ChannelsInv'
<1> SUFFICES ASSUME ChannelsInv, [ChannelsNext]_channelsVars PROVE ChannelsInv'
  OBVIOUS
<1>1. CASE Subscribed
  BY <1>1, SubscribedStep
<1>2. CASE SubscribeFails
  BY <1>2, FailsStep
<1>3. ASSUME NEW fails \in BOOLEAN, Unsubscribed(fails) PROVE ChannelsInv'
  BY <1>3, UnsubscribedStep
<1>4. CASE BoxesRelay
  BY <1>4, RelayStep
<1>5. CASE DebugViewers
  BY <1>5, ViewersStep
<1>6. CASE UNCHANGED channelsVars
  <2>1. UNCHANGED <<entry, wire, subscribed, relay, roomRelay, deaf, member, watch, viewer>>
    BY <1>6 DEF channelsVars, pubsubVars, roomVars, framesVars
  <2> QED BY <2>1 DEF ChannelsInv, EntryInv, RelayInv, WatchInv, AllListen, Watches
<1> QED BY <1>1, <1>2, <1>3, <1>4, <1>5, <1>6 DEF ChannelsNext, Redis

LEMMA ChannelsFollow == ChannelsInv => ListenersHear /\ ChannelsTypeOK
<1> SUFFICES ASSUME ChannelsInv PROVE ListenersHear /\ ChannelsTypeOK
  OBVIOUS
<1>1. wire \in {<<>>, <<"UNSUBSCRIBE">>, <<"SUBSCRIBE">>, <<"UNSUBSCRIBE", "SUBSCRIBE">>}
  BY DEF ChannelsInv, EntryInv
<1>2. entry.listeners # {} => WillHear
  <2>1. CASE entry.promise = "sent"
    <3>1. wire \in {<<"SUBSCRIBE">>, <<"UNSUBSCRIBE", "SUBSCRIBE">>}
      BY <2>1 DEF ChannelsInv, EntryInv
    <3>2. wire # <<>> /\ wire[Len(wire)] = "SUBSCRIBE"
      BY <3>1
    <3> QED BY <3>2 DEF WillHear
  <2> QED BY <2>1 DEF ChannelsInv, EntryInv, WillHear
<1>3. entry.listeners = {r \in Relays : relay[r] # "free"}
                        \cup (IF watch # NoWatch THEN {"watch"} ELSE {})
  <2>1. watch # NoWatch <=> watch.viewers # {}
    BY DEF ChannelsInv, WatchInv
  <2> QED BY <2>1 DEF ChannelsInv, AllListen, Watches
<1>4. ListenersHear
  <2>1. entry.promise = "ok" => subscribed
    BY DEF ChannelsInv, EntryInv
  <2>2. /\ (\E s \in RoomSockets : member[s] = "in") => deaf \/ roomRelay # "none"
        /\ roomRelay # "none" => relay[roomRelay] \in {"waiting", "on"}
    BY DEF ChannelsInv, RelayInv
  <2>3. watch.viewers = {v \in Viewers : viewer[v] \in {"joining", "in", "gone"}}
    BY DEF ChannelsInv, WatchInv
  <2> QED BY <1>2, <1>3, <2>1, <2>2, <2>3 DEF ListenersHear
<1>5. ChannelsTypeOK
  <2>1. wire \in Seq({"SUBSCRIBE", "UNSUBSCRIBE"})
    <3> DEFINE Commands == {"SUBSCRIBE", "UNSUBSCRIBE"}
    <3>1. <<>> \in Seq(Commands)
      OBVIOUS
    <3>2. <<"SUBSCRIBE">> \in Seq(Commands) /\ <<"UNSUBSCRIBE">> \in Seq(Commands)
      OBVIOUS
    <3>3. <<"UNSUBSCRIBE", "SUBSCRIBE">> \in Seq(Commands)
      OBVIOUS
    <3> HIDE DEF Commands
    <3>4. wire \in Seq(Commands)
      BY <1>1, <3>1, <3>2, <3>3
    <3> QED BY <3>4 DEF Commands
  <2>2. /\ entry.listeners \subseteq Relays \cup {"watch"}
        /\ entry.promise \in {"none", "sent", "ok"} /\ subscribed \in BOOLEAN
    BY DEF ChannelsInv, EntryInv
  <2>3. /\ relay \in [Relays -> {"free", "waiting", "cancelled", "on"}]
        /\ roomRelay \in Relays \cup {"none"} /\ deaf \in BOOLEAN
        /\ member \in [RoomSockets -> {"out", "looking", "in"}]
    BY DEF ChannelsInv, RelayInv
  <2>4. /\ watch.viewers \subseteq Viewers /\ watch.on \in {"none", "waiting", "on"}
        /\ viewer \in [Viewers -> {"out", "looking", "joining", "in", "gone"}]
    BY DEF ChannelsInv, WatchInv
  <2> QED BY <2>1, <2>2, <2>3, <2>4 DEF ChannelsTypeOK
<1> QED BY <1>4, <1>5

-----------------------------------------------------------------------------

\* Whoever listens is told: the channel's one entry is subscribed while it has
\* listeners and forgets who left, each change goes out once its window ends, and
\* the status shown is of a list that was read lately: whatever Redis answers, in
\* what order, and whoever joins or leaves meanwhile.
THEOREM DashboardsAreTold == ApiSpec => []DashboardsHear
<1>1. ApiInit => ChannelsInv /\ MergerInv /\ StatusInv
  BY ChannelsStart, PushStarts DEF ApiInit
<1>2. ChannelsInv /\ MergerInv /\ StatusInv /\ [ApiNext]_apiPartsVars
        => (ChannelsInv /\ MergerInv /\ StatusInv)'
  BY PartsMove, ChannelsStep, MergerStep, StatusStep
<1>3. ChannelsInv /\ MergerInv /\ StatusInv => DashboardsHear
  BY ChannelsFollow, PushFollows DEF DashboardsHear
<1> QED  BY <1>1, <1>2, <1>3, PTL DEF ApiSpec

-----------------------------------------------------------------------------
(* The PDF exports.                                                        *)

Printed == {"page", "print", "store", "settle"}
Jobs == [status : {"none", "QUEUED", "DONE", "FAILED", "EXPIRED"},
         attempts : 0 .. MaxPrints, filed : BOOLEAN]

ExportTypes ==
    /\ export \in [Pdfs -> Jobs]
    /\ old \subseteq Pdfs /\ pdfPart \subseteq Pdfs
    /\ pdf \in [Pdfs -> {"none", "whole"}]
    /\ \A j \in Pdfs : export[j].status = "QUEUED" => export[j].attempts < MaxPrints

\* What is printed is still queued, until its result may have been written; the file
\* of a job that is done is whole.
PrintInv ==
    /\ print.at \in Printed => print.id \in Pdfs /\ print.attempts \in 1 .. MaxPrints
    /\ print.at \in {"page", "print", "store"} => export[print.id].status = "QUEUED"
    /\ print.at = "settle" => print.outcome \in {"done", "refused", "failed"}
    /\ print.at = "settle" /\ print.outcome = "done" =>
          export[print.id].status = "QUEUED" /\ pdf[print.id] = "whole"

\* Nothing old is queued again, and what retention unlinked stays gone.
ExpireInv ==
    /\ \A j \in old : export[j].status \in {"DONE", "FAILED", "EXPIRED"}
    /\ expire.rows \subseteq old
    /\ expire.at = "expire" => expire.id \in old /\ pdf[expire.id] = "none"

\* A download that began while the file was offered has it, or the job is old.
DownloadInv ==
    /\ download.at \in {"send", "sent"} => download.id \in Pdfs
    /\ download.at = "send" => pdf[download.id] = "whole" \/ download.id \in old
    /\ download.at = "sent" => download.got = "whole" \/ download.id \in old

OfferedIsWhole ==
    \A j \in Pdfs :
        /\ export[j].status = "DONE" /\ j \notin old => pdf[j] = "whole"
        /\ export[j].status = "EXPIRED" => pdf[j] = "none"

ExportsInv == ExportTypes /\ PrintInv /\ ExpireInv /\ DownloadInv /\ OfferedIsWhole

LEMMA ExportsStart == ExportsInit => ExportsInv
<1> SUFFICES ASSUME ExportsInit PROVE ExportsInv
  OBVIOUS
<1> USE ExportsAssumption DEF ExportsInit
<1>1. ExportTypes
  <2>1. NoJob \in Jobs /\ NoJob.status = "none"
    BY DEF NoJob, Jobs
  <2> QED BY <2>1 DEF ExportTypes
<1>2. PrintInv /\ ExpireInv /\ DownloadInv
  BY DEF PrintInv, ExpireInv, DownloadInv, IdlePrint, IdleExpire, IdleDownload, Printed
<1>3. OfferedIsWhole
  BY DEF OfferedIsWhole, NoJob
<1> QED BY <1>1, <1>2, <1>3 DEF ExportsInv

\* A row that is printed keeps its type, whatever comes out.
LEMMA FinishedRow ==
    ASSUME ExportTypes, PrintInv, print.at = "settle"
    PROVE  LET row == Finished(export[print.id])
           IN  /\ row \in Jobs
               /\ row.status = IF print.outcome = "done" THEN "DONE"
                               ELSE IF print.outcome = "refused" \/ print.attempts >= MaxPrints
                               THEN "FAILED" ELSE export[print.id].status
               /\ row.status = "QUEUED" => row.attempts < MaxPrints
<1>1. export[print.id] \in Jobs /\ print.attempts \in 0 .. MaxPrints /\ MaxPrints \in Nat
  BY ExportsAssumption DEF ExportTypes, PrintInv, Printed
<1>2. ASSUME NEW row \in Jobs
      PROVE  /\ Finished(row) \in Jobs
             /\ Finished(row).status = IF print.outcome = "done" THEN "DONE"
                                      ELSE IF print.outcome = "refused" \/ print.attempts >= MaxPrints
                                      THEN "FAILED" ELSE row.status
             /\ Finished(row).status = "QUEUED" => Finished(row).attempts < MaxPrints
  <2>1. CASE print.outcome = "done"
    <3>1. Finished(row) = [row EXCEPT !.status = "DONE", !.filed = TRUE]
      BY <2>1 DEF Finished
    <3> QED BY <2>1, <3>1 DEF Jobs
  <2>2. CASE print.outcome # "done" /\ (print.outcome = "refused" \/ print.attempts >= MaxPrints)
    <3>1. Finished(row) = [row EXCEPT !.status = "FAILED", !.attempts = print.attempts]
      BY <2>2 DEF Finished
    <3> QED BY <1>1, <2>2, <3>1 DEF Jobs
  <2>3. CASE print.outcome # "done" /\ ~(print.outcome = "refused" \/ print.attempts >= MaxPrints)
    <3>1. Finished(row) = [row EXCEPT !.attempts = print.attempts]
      BY <2>3 DEF Finished
    <3> QED BY <1>1, <2>3, <3>1 DEF Jobs
  <2> QED BY <2>1, <2>2, <2>3
<1> QED BY <1>1, <1>2

LEMMA PdfJobStep == ASSUME ExportsInv, PdfJob PROVE ExportsInv'
<1> USE ExportsAssumption
<1>1. ASSUME NEW j \in Pdfs, PdfTick(j) PROVE ExportsInv'
  <2>1. /\ export[j].status = "QUEUED"
        /\ print' = [at |-> "page", id |-> j, attempts |-> export[j].attempts + 1]
        /\ UNCHANGED <<export, old, pdf, pdfPart, expire, download>>
    BY <1>1 DEF PdfTick
  <2>2. export[j].attempts + 1 \in 1 .. MaxPrints
    BY <2>1 DEF ExportsInv, ExportTypes, Jobs
  <2>3. PrintInv'
    BY <2>1, <2>2 DEF PrintInv
  <2> QED BY <2>1, <2>3 DEF ExportsInv, ExportTypes, ExpireInv, DownloadInv, OfferedIsWhole
<1>2. ASSUME NEW fails \in BOOLEAN, PdfPage(fails) PROVE ExportsInv'
  <2>1. /\ print.at = "page" /\ print'.id = print.id /\ print'.attempts = print.attempts
        /\ \/ print'.at = "print"
           \/ print'.at = "settle" /\ print'.outcome = "failed"
        /\ UNCHANGED <<export, old, pdf, pdfPart, expire, download>>
    BY <1>2 DEF PdfPage, Printing
  <2>2. PrintInv'
    BY <2>1 DEF ExportsInv, PrintInv, Printed
  <2> QED BY <2>1, <2>2 DEF ExportsInv, ExportTypes, ExpireInv, DownloadInv, OfferedIsWhole
<1>3. ASSUME NEW answer \in {"pdf", "refused", "failed"}, PdfPrint(answer) PROVE ExportsInv'
  <2>1. /\ print.at = "print" /\ print'.id = print.id /\ print'.attempts = print.attempts
        /\ \/ print'.at = "store" /\ pdfPart' = pdfPart \cup {print.id}
           \/ /\ print'.at = "settle" /\ print'.outcome \in {"refused", "failed"}
              /\ UNCHANGED pdfPart
        /\ UNCHANGED <<export, old, pdf, expire, download>>
    BY <1>3 DEF PdfPrint, Printing
  <2>2. PrintInv'
    BY <2>1 DEF ExportsInv, PrintInv, Printed
  <2>3. ExportTypes'
    BY <2>1 DEF ExportsInv, ExportTypes, PrintInv, Printed
  <2> QED BY <2>1, <2>2, <2>3 DEF ExportsInv, ExpireInv, DownloadInv, OfferedIsWhole
<1>4. ASSUME NEW outcome \in {"stored", "broken", "not_renamed", "no_size"}, PdfStored(outcome)
      PROVE ExportsInv'
  <2>1. /\ print.at = "store" /\ print'.id = print.id /\ print'.attempts = print.attempts
        /\ print'.at = "settle"
        /\ print'.outcome = IF outcome = "stored" THEN "done" ELSE "failed"
        /\ pdfPart' \subseteq pdfPart
        /\ pdf' = IF outcome \in {"broken", "not_renamed"} THEN pdf
                  ELSE [pdf EXCEPT ![print.id] = "whole"]
        /\ UNCHANGED <<export, old, expire, download>>
    BY <1>4 DEF PdfStored, Printing
  <2>2. print.id \in Pdfs /\ export[print.id].status = "QUEUED" /\ print.id \notin old
    BY <2>1 DEF ExportsInv, PrintInv, ExpireInv, Printed
  <2>3. /\ pdf' \in [Pdfs -> {"none", "whole"}]
        /\ \A j \in Pdfs \ {print.id} : pdf'[j] = pdf[j]
        /\ \A j \in Pdfs : pdf[j] = "whole" => pdf'[j] = "whole"
        /\ outcome = "stored" => pdf'[print.id] = "whole"
    BY <2>1, <2>2 DEF ExportsInv, ExportTypes
  <2>4. ExportTypes'
    BY <2>1, <2>3 DEF ExportsInv, ExportTypes
  <2>5. PrintInv'
    BY <2>1, <2>2, <2>3 DEF ExportsInv, PrintInv, Printed
  <2>6. ExpireInv'
    BY <2>1, <2>2, <2>3 DEF ExportsInv, ExpireInv, ExportTypes
  <2>7. DownloadInv'
    BY <2>1, <2>3 DEF ExportsInv, DownloadInv
  <2>8. OfferedIsWhole'
    BY <2>1, <2>2, <2>3 DEF ExportsInv, OfferedIsWhole
  <2> QED BY <2>4, <2>5, <2>6, <2>7, <2>8 DEF ExportsInv
<1>5. ASSUME NEW outcome \in {"written", "refused", "lost"}, PdfSettles(outcome)
      PROVE ExportsInv'
  <2> DEFINE row == Finished(export[print.id])
  <2>1. /\ print.at = "settle"
        /\ export' = IF outcome = "refused" THEN export ELSE [export EXCEPT ![print.id] = row]
        /\ \/ /\ print'.at = "settle" /\ print'.id = print.id
              /\ print'.attempts = print.attempts /\ print'.outcome = "failed"
           \/ print'.at = "idle"
        /\ UNCHANGED <<old, pdf, pdfPart, expire, download>>
    BY <1>5 DEF PdfSettles, Printing, IdlePrint
  <2>2. print.id \in Pdfs /\ print.outcome \in {"done", "refused", "failed"}
    BY <2>1 DEF ExportsInv, PrintInv, Printed
  <2>3. /\ row \in Jobs
        /\ row.status = "QUEUED" => row.attempts < MaxPrints
        /\ row.status = IF print.outcome = "done" THEN "DONE"
                        ELSE IF print.outcome = "refused" \/ print.attempts >= MaxPrints
                        THEN "FAILED" ELSE export[print.id].status
    BY <2>1, FinishedRow DEF ExportsInv
  <2> HIDE DEF row
  <2>4. ExportTypes'
    BY <2>1, <2>2, <2>3 DEF ExportsInv, ExportTypes
  <2>5. \A j \in Pdfs : \/ export'[j] = export[j]
                        \/ j = print.id /\ export'[j] = row
    BY <2>1, <2>2 DEF ExportsInv, ExportTypes
  <2>6. PrintInv'
    BY <2>1 DEF ExportsInv, PrintInv, Printed
  <2>7. ExpireInv'
    BY <2>1, <2>3, <2>5 DEF ExportsInv, ExpireInv, ExportTypes
  <2>8. DownloadInv'
    BY <2>1 DEF ExportsInv, DownloadInv
  <2>9. OfferedIsWhole'
    BY <2>1, <2>3, <2>5 DEF ExportsInv, OfferedIsWhole, PrintInv
  <2> QED BY <2>4, <2>6, <2>7, <2>8, <2>9 DEF ExportsInv
<1> QED BY <1>1, <1>2, <1>3, <1>4, <1>5 DEF PdfJob

LEMMA ExpireStep == ASSUME ExportsInv, ExportFiles PROVE ExportsInv'
<1>1. CASE ExportFilesRead
  <2>1. /\ expire'.at = "unlink" /\ expire'.rows = {j \in old : export[j].status = "DONE"}
        /\ UNCHANGED <<export, old, pdf, pdfPart, print, download>>
    BY <1>1 DEF ExportFilesRead
  <2> QED
    BY <2>1 DEF ExportsInv, ExportTypes, PrintInv, ExpireInv, DownloadInv, OfferedIsWhole
<1>2. CASE ExportParts
  <2>1. /\ expire' = IdleExpire /\ pdfPart' \subseteq pdfPart
        /\ UNCHANGED <<export, old, pdf, print, download>>
    BY <1>2 DEF ExportParts
  <2> QED
    BY <2>1 DEF ExportsInv, ExportTypes, PrintInv, ExpireInv, DownloadInv, OfferedIsWhole,
                IdleExpire
<1>3. ASSUME NEW j \in Pdfs, NEW fails \in BOOLEAN, ExportUnlinked(j, fails) PROVE ExportsInv'
  <2>1. /\ j \in expire.rows /\ pdf' = IF fails THEN pdf ELSE [pdf EXCEPT ![j] = "none"]
        /\ expire'.at = IF fails THEN "unlink" ELSE "expire"
        /\ expire'.rows = expire.rows \ {j} /\ expire'.id = j
        /\ UNCHANGED <<export, old, pdfPart, print, download>>
    BY <1>3 DEF ExportUnlinked
  <2>2. j \in old
    BY <2>1 DEF ExportsInv, ExpireInv
  <2>3. /\ pdf' \in [Pdfs -> {"none", "whole"}]
        /\ \A k \in Pdfs : pdf'[k] = pdf[k] \/ (k = j /\ pdf'[k] = "none")
        /\ ~fails => pdf'[j] = "none"
    BY <2>1 DEF ExportsInv, ExportTypes
  <2>4. ExportTypes'
    BY <2>1, <2>3 DEF ExportsInv, ExportTypes
  <2>5. PrintInv'
    BY <2>1, <2>2, <2>3 DEF ExportsInv, PrintInv, ExpireInv, Printed
  <2>6. ExpireInv'
    BY <2>1, <2>2, <2>3 DEF ExportsInv, ExpireInv
  <2>7. DownloadInv'
    BY <2>1, <2>2, <2>3 DEF ExportsInv, DownloadInv
  <2>8. OfferedIsWhole'
    BY <2>1, <2>2, <2>3 DEF ExportsInv, OfferedIsWhole
  <2> QED BY <2>4, <2>5, <2>6, <2>7, <2>8 DEF ExportsInv
<1>4. ASSUME NEW fails \in BOOLEAN, ExportExpired(fails) PROVE ExportsInv'
  <2> DEFINE row == [export[expire.id] EXCEPT !.status = "EXPIRED", !.filed = FALSE]
  <2>1. /\ expire.at = "expire" /\ expire'.at \in {"idle", "unlink"}
        /\ expire'.rows \subseteq expire.rows
        /\ UNCHANGED <<old, pdf, pdfPart, print, download>>
    BY <1>4 DEF ExportExpired, IdleExpire
  <2>2. expire.id \in Pdfs /\ expire.id \in old /\ pdf[expire.id] = "none"
    BY <2>1 DEF ExportsInv, ExpireInv, ExportTypes
  <2>3. export' = IF fails THEN export ELSE [export EXCEPT ![expire.id] = row]
    BY <1>4 DEF ExportExpired
  <2>4. row \in Jobs /\ row.status = "EXPIRED"
    <3>1. \A r \in Jobs : /\ [r EXCEPT !.status = "EXPIRED", !.filed = FALSE] \in Jobs
                          /\ [r EXCEPT !.status = "EXPIRED", !.filed = FALSE].status = "EXPIRED"
      BY DEF Jobs
    <3> QED BY <2>2, <3>1 DEF ExportsInv, ExportTypes
  <2> HIDE DEF row
  <2>5. /\ export' \in [Pdfs -> Jobs]
        /\ \A j \in Pdfs : export'[j] = export[j] \/ (j = expire.id /\ export'[j] = row)
    BY <2>2, <2>3, <2>4 DEF ExportsInv, ExportTypes
  <2>6. ExportTypes'
    BY <2>1, <2>4, <2>5 DEF ExportsInv, ExportTypes
  <2>7. PrintInv'
    <3>1. export[expire.id].status # "QUEUED"
      BY <2>2 DEF ExportsInv, ExpireInv
    <3> QED BY <2>1, <2>5, <3>1 DEF ExportsInv, PrintInv, Printed
  <2>8. ExpireInv'
    BY <2>1, <2>4, <2>5 DEF ExportsInv, ExpireInv, ExportTypes
  <2>9. DownloadInv'
    BY <2>1 DEF ExportsInv, DownloadInv
  <2>10. OfferedIsWhole'
    BY <2>1, <2>2, <2>4, <2>5 DEF ExportsInv, OfferedIsWhole
  <2> QED BY <2>6, <2>7, <2>8, <2>9, <2>10 DEF ExportsInv
<1> QED BY <1>1, <1>2, <1>3, <1>4 DEF ExportFiles

LEMMA ExportsStep == ExportsInv /\ [ExportsNext]_exportsVars => ExportsInv'
<1> SUFFICES ASSUME ExportsInv, [ExportsNext]_exportsVars PROVE ExportsInv'
  OBVIOUS
<1>1. ASSUME NEW j \in Pdfs, CreateExport(j) PROVE ExportsInv'
  <2> DEFINE row == [export[j] EXCEPT !.status = "QUEUED"]
  <2>1. /\ export[j] = NoJob /\ export' = [export EXCEPT ![j] = row]
        /\ UNCHANGED <<old, pdf, pdfPart, print, expire, download>>
    BY <1>1 DEF CreateExport
  <2>2. /\ row \in Jobs /\ row.status = "QUEUED" /\ row.attempts < MaxPrints
        /\ export[j].status = "none"
    <3>1. \A r \in Jobs : /\ [r EXCEPT !.status = "QUEUED"] \in Jobs
                          /\ [r EXCEPT !.status = "QUEUED"].status = "QUEUED"
                          /\ [r EXCEPT !.status = "QUEUED"].attempts = r.attempts
      BY DEF Jobs
    <3>2. NoJob \in Jobs /\ NoJob.attempts = 0 /\ NoJob.status = "none"
      BY ExportsAssumption DEF NoJob, Jobs
    <3> QED BY <2>1, <3>1, <3>2, ExportsAssumption
  <2> HIDE DEF row
  <2>3. /\ export' \in [Pdfs -> Jobs] /\ export'[j] = row
        /\ \A k \in Pdfs \ {j} : export'[k] = export[k]
    BY <2>1, <2>2 DEF ExportsInv, ExportTypes
  <2>4. ExportTypes'
    BY <2>1, <2>2, <2>3 DEF ExportsInv, ExportTypes
  <2>5. PrintInv'
    BY <2>1, <2>2, <2>3 DEF ExportsInv, PrintInv, Printed
  <2>6. ExpireInv' /\ DownloadInv' /\ OfferedIsWhole'
    BY <2>1, <2>2, <2>3 DEF ExportsInv, ExpireInv, DownloadInv, OfferedIsWhole, ExportTypes
  <2> QED BY <2>4, <2>5, <2>6 DEF ExportsInv
<1>2. ASSUME NEW j \in Pdfs, Ages7Days(j) PROVE ExportsInv'
  <2>1. /\ export[j].status \in {"DONE", "FAILED"} /\ old' = old \cup {j}
        /\ UNCHANGED <<export, pdf, pdfPart, print, expire, download>>
    BY <1>2 DEF Ages7Days
  <2> QED
    BY <2>1 DEF ExportsInv, ExportTypes, PrintInv, ExpireInv, DownloadInv, OfferedIsWhole
<1>3. ASSUME NEW j \in Pdfs, DownloadReads(j) PROVE ExportsInv'
  <2>1. /\ export[j].status = "DONE" /\ download'.at = "send" /\ download'.id = j
        /\ UNCHANGED <<export, old, pdf, pdfPart, print, expire>>
    BY <1>3 DEF DownloadReads
  <2> QED
    BY <2>1 DEF ExportsInv, ExportTypes, PrintInv, ExpireInv, DownloadInv, OfferedIsWhole
<1>4. CASE DownloadSends
  <2>1. /\ download.at = "send" /\ download'.at = "sent" /\ download'.id = download.id
        /\ download'.got = pdf[download.id]
        /\ UNCHANGED <<export, old, pdf, pdfPart, print, expire>>
    BY <1>4 DEF DownloadSends
  <2> QED
    BY <2>1 DEF ExportsInv, ExportTypes, PrintInv, ExpireInv, DownloadInv, OfferedIsWhole
<1>5. CASE ExportsCrash
  <2>1. /\ print'.at = "idle" /\ expire'.at = "idle" /\ expire'.rows = {}
        /\ download'.at = "idle"
        /\ UNCHANGED <<export, old, pdf, pdfPart>>
    BY <1>5 DEF ExportsCrash, IdlePrint, IdleExpire, IdleDownload
  <2> QED
    BY <2>1 DEF ExportsInv, ExportTypes, PrintInv, ExpireInv, DownloadInv, OfferedIsWhole,
                Printed
<1>6. CASE UNCHANGED exportsVars
  BY <1>6 DEF exportsVars, ExportsInv, ExportTypes, PrintInv, ExpireInv, DownloadInv,
              OfferedIsWhole
<1> QED
  BY <1>1, <1>2, <1>3, <1>4, <1>5, <1>6, PdfJobStep, ExpireStep DEF ExportsNext

LEMMA ExportsFollow == ExportsInv => DoneHasFile /\ ExportsTypeOK
  BY DEF ExportsInv, ExportTypes, OfferedIsWhole, DownloadInv, DoneHasFile, ExportsTypeOK, Jobs

-----------------------------------------------------------------------------
(* The clips of events.                                                    *)

EvidenceRows == [status : {"no_event", "none", "QUEUED", "KEPT", "FAILED", "NO_RECORDING"},
                 attempts : 0 .. MaxAttempts, filed : BOOLEAN, runAt : ClipEnds]

RecordingsTypes ==
    /\ age \in [Clips -> Ages] /\ stream \in RecordedStreams /\ clipAfter \in ClipEnds
    /\ footage \in [Clips -> RecordedStreams \cup {NoFootage}]
    /\ snapshots \subseteq Clips /\ parts \subseteq Clips /\ keeping \subseteq Clips

EvidenceTypes ==
    /\ evidence \in [Clips -> EvidenceRows]
    /\ \A e \in Clips : evidence[e].status = "QUEUED" => evidence[e].attempts < MaxAttempts

ClipTypes == clip \in [Clips -> {"none", "cut", "whole"}]

\* The file of a clip that may be called kept: cut only if clips were made longer
\* after its row was queued.
KeptWell(e) == clip[e] = "whole" \/ (clip[e] = "cut" /\ QueuedForLess(e))

\* The rows of a pass stay queued, and their time has come.

PassInv ==
    pin.at \in {"next", "store", "settle"} =>
        /\ pin.todo \subseteq Clips
        /\ \A e \in pin.todo : Due(e) /\ pin.read[e] \in 0 .. MaxAttempts - 1

\* What a pass knows of its clip: the file may be kept, unless retention took it,
\* or there was no footage.
PinInv ==
    pin.at \in {"store", "settle"} =>
        /\ pin = [at |-> pin.at, todo |-> pin.todo, read |-> pin.read, id |-> pin.id,
                  result |-> pin.result, whole |-> pin.whole]
        /\ pin.id \in pin.todo /\ pin.result \in {"KEPT", "NO_RECORDING", "retry"}
        /\ pin.at = "store" => pin.result = "KEPT" /\ (pin.whole \/ QueuedForLess(pin.id))
        /\ pin.at = "settle" /\ pin.result = "KEPT" =>
              KeptWell(pin.id) \/ age[pin.id] = 4
        /\ pin.at = "settle" /\ pin.result = "NO_RECORDING" => footage[pin.id] = NoFootage

\* Retention takes no clip within its days.
SweepInv ==
    /\ sweep.at = "unlink" => \A e \in sweep.rows : e \in Clips => age[e] = 4
    /\ sweep.at = "delete" => /\ sweep.id \in Clips /\ age[sweep.id] = 4
                              /\ \A e \in sweep.rows : e \in Clips => age[e] = 4

ViewSteps == {"kept", "send", "playback", "other_path", "cut", "not_found", "no_answer",
              "unlinked"}
Views == [at : ViewSteps, id : Clips, first : RecordedStreams, kept : BOOLEAN]

\* Within its days a kept clip stays kept until it is sent.
ViewInv ==
    /\ view \in Views \cup {NoView}
    /\ view.at = "kept" /\ view.kept => evidence[view.id].status = "KEPT" \/ age[view.id] = 4
    /\ view.at = "send" => evidence[view.id].status = "KEPT" \/ age[view.id] = 4
    /\ view.at = "cut" =>
          age[view.id] = 4 \/ (evidence[view.id].status = "KEPT" /\ QueuedForLess(view.id))
    /\ view.at = "unlinked" => age[view.id] = 4
    /\ view.at = "other_path" => footage[view.id] # view.first
    /\ view.at = "not_found" => footage[view.id] = NoFootage

RecordingsInv ==
    /\ RecordingsTypes /\ EvidenceTypes /\ ClipTypes
    /\ PassInv /\ PinInv /\ SweepInv /\ ViewInv /\ EvidenceIsTrue

LEMMA NewRow ==
    ASSUME NEW given \in {"no_event", "none", "QUEUED", "KEPT", "FAILED", "NO_RECORDING"}
    PROVE  /\ EvidenceRow(given) \in EvidenceRows
           /\ EvidenceRow(given).status = given /\ EvidenceRow(given).attempts = 0
  BY RecordingsAssumption DEF EvidenceRow, EvidenceRows, ClipEnds

LEMMA NewQueuedRow ==
    ASSUME clipAfter \in ClipEnds
    PROVE  QueuedRow \in EvidenceRows /\ QueuedRow.status = "QUEUED" /\ QueuedRow.attempts = 0
<1>1. QueuedRow = [EvidenceRow("QUEUED") EXCEPT !.runAt = clipAfter]
  BY DEF QueuedRow
<1>2. ASSUME NEW r \in EvidenceRows
      PROVE  /\ [r EXCEPT !.runAt = clipAfter] \in EvidenceRows
             /\ [r EXCEPT !.runAt = clipAfter].status = r.status
             /\ [r EXCEPT !.runAt = clipAfter].attempts = r.attempts
  BY DEF EvidenceRows
<1> QED BY <1>1, <1>2, NewRow

LEMMA RequeuedRow ==
    ASSUME NEW r \in EvidenceRows, clipAfter \in ClipEnds
    PROVE  LET again == [r EXCEPT !.status = "QUEUED", !.attempts = 0, !.runAt = clipAfter]
           IN  again \in EvidenceRows /\ again.status = "QUEUED" /\ again.attempts = 0
<1>1. PICK n \in 0 .. MaxAttempts : n = 0
  BY RecordingsAssumption
<1>2. LET again == [r EXCEPT !.status = "QUEUED", !.attempts = n, !.runAt = clipAfter]
      IN  again \in EvidenceRows /\ again.status = "QUEUED" /\ again.attempts = n
  BY DEF EvidenceRows
<1> QED BY <1>1, <1>2

LEMMA RecordingsStart == RecordingsInit => RecordingsInv
<1> SUFFICES ASSUME RecordingsInit PROVE RecordingsInv
  OBVIOUS
<1> USE RecordingsAssumption DEF RecordingsInit
<1>1. RecordingsTypes /\ ClipTypes
  BY DEF RecordingsTypes, ClipTypes, Ages, RecordedStreams, ClipEnds
<1>2. EvidenceRow("no_event") \in EvidenceRows /\ EvidenceRow("no_event").status = "no_event"
  BY NewRow
<1>3. EvidenceTypes /\ EvidenceIsTrue
  BY <1>2 DEF EvidenceTypes, EvidenceIsTrue
<1>4. PassInv /\ PinInv /\ SweepInv
  BY DEF PassInv, PinInv, SweepInv, IdlePin, IdleSweep
<1>5. ViewInv
  BY DEF ViewInv, NoView
<1> QED BY <1>1, <1>3, <1>4, <1>5 DEF RecordingsInv

\* Nothing of a clip changes but its row, which was not queued or stays as it is,
\* and says nothing new.
LEMMA RowsChange ==
    ASSUME RecordingsInv, NEW e \in Clips, NEW row \in EvidenceRows,
           evidence' = [evidence EXCEPT ![e] = row],
           row.status = "QUEUED" => row.attempts < MaxAttempts,
           \/ row = evidence[e]
           \/ /\ row.status \in {"QUEUED", "none"} /\ evidence[e].status # "QUEUED"
              /\ evidence[e].status = "KEPT" => age[e] = 4,
           UNCHANGED <<view, age, clipAfter, footage, clip, pin>>
    PROVE  EvidenceTypes' /\ EvidenceIsTrue' /\ PassInv' /\ PinInv' /\ ViewInv'
<1>1. /\ evidence' \in [Clips -> EvidenceRows] /\ evidence'[e] = row
      /\ \A f \in Clips \ {e} : evidence'[f] = evidence[f]
  BY DEF RecordingsInv, EvidenceTypes
<1>2. EvidenceTypes'
  BY <1>1 DEF RecordingsInv, EvidenceTypes
<1>3. EvidenceIsTrue'
  BY <1>1 DEF RecordingsInv, EvidenceIsTrue, QueuedForLess
<1>4. \A f \in Clips :
         /\ evidence[f].status = "QUEUED" => evidence'[f] = evidence[f]
         /\ evidence[f].status = "KEPT" => evidence'[f] = evidence[f] \/ age[f] = 4
  BY <1>1
<1>5. PassInv'
  BY <1>4 DEF RecordingsInv, PassInv, Due
<1>6. PinInv'
  <2>1. pin.at \in {"store", "settle"} => pin.id \in Clips /\ Due(pin.id)
    BY DEF RecordingsInv, PassInv, PinInv
  <2> QED BY <1>4, <2>1 DEF RecordingsInv, PinInv, KeptWell, QueuedForLess, Due
<1>7. ViewInv'
  <2>1. view # NoView => view.id \in Clips
    BY DEF RecordingsInv, ViewInv, Views
  <2> QED BY <1>4, <2>1 DEF RecordingsInv, ViewInv, QueuedForLess, NoView
<1> QED BY <1>2, <1>3, <1>5, <1>6, <1>7

\* The rows of events and of those who keep them.
LEMMA KeepStep ==
    ASSUME RecordingsInv, NEW e \in Clips,
           KeepInserts(e) \/ KeepRequeues(e) \/ \E important \in BOOLEAN : IngestEvent(e, important)
    PROVE  RecordingsInv'
<1>1. /\ UNCHANGED <<view, age, stream, clipAfter, footage, snapshots, parts, clip, pin, sweep>>
      /\ keeping' \subseteq Clips
  BY DEF KeepInserts, KeepRequeues, IngestEvent, pinVars, RecordingsInv, RecordingsTypes
<1>2. /\ evidence[e] \in EvidenceRows /\ clipAfter \in ClipEnds
      /\ evidence[e].status = "QUEUED" => evidence[e].attempts < MaxAttempts
  BY DEF RecordingsInv, RecordingsTypes, EvidenceTypes
<1>3. PICK row \in EvidenceRows :
         /\ evidence' = [evidence EXCEPT ![e] = row]
         /\ \/ row = evidence[e]
            \/ /\ row.status \in {"QUEUED", "none"} /\ row.attempts = 0
               /\ evidence[e].status \notin {"QUEUED", "KEPT"}
  <2>1. CASE KeepInserts(e)
    BY <1>2, <2>1, NewQueuedRow DEF KeepInserts, SetEvidence, HasRow
  <2>2. CASE KeepRequeues(e)
    <3> DEFINE again == [evidence[e] EXCEPT !.status = "QUEUED", !.attempts = 0,
                                            !.runAt = clipAfter]
    <3>1. again \in EvidenceRows /\ again.status = "QUEUED" /\ again.attempts = 0
      BY <1>2, RequeuedRow
    <3>2. \/ /\ evidence' = [evidence EXCEPT ![e] = again]
             /\ evidence[e].status \in {"FAILED", "NO_RECORDING"}
          \/ evidence' = [evidence EXCEPT ![e] = evidence[e]]
      BY <2>2 DEF KeepRequeues, SetEvidence
    <3> HIDE DEF again
    <3> QED BY <1>2, <3>1, <3>2
  <2>3. ASSUME NEW important \in BOOLEAN, IngestEvent(e, important)
        PROVE  \E row \in EvidenceRows :
                  /\ evidence' = [evidence EXCEPT ![e] = row]
                  /\ row.status \in {"QUEUED", "none"} /\ row.attempts = 0
                  /\ evidence[e].status \notin {"QUEUED", "KEPT"}
    <3>1. /\ \/ evidence' = [evidence EXCEPT ![e] = QueuedRow]
             \/ evidence' = [evidence EXCEPT ![e] = EvidenceRow("none")]
          /\ evidence[e].status = "no_event"
      BY <2>3 DEF IngestEvent, SetEvidence
    <3> QED BY <1>2, <3>1, NewRow, NewQueuedRow
  <2> QED BY <2>1, <2>2, <2>3
<1>4. EvidenceTypes' /\ EvidenceIsTrue' /\ PassInv' /\ PinInv' /\ ViewInv'
  <2>1. row.status = "QUEUED" => row.attempts < MaxAttempts
    BY <1>2, <1>3, RecordingsAssumption
  <2>2. UNCHANGED <<view, age, clipAfter, footage, clip, pin>>
    BY <1>1
  <2> QED BY <1>3, <2>1, <2>2, RowsChange
<1>5. RecordingsTypes' /\ ClipTypes' /\ SweepInv'
  BY <1>1 DEF RecordingsInv, RecordingsTypes, ClipTypes, SweepInv
<1> QED BY <1>4, <1>5 DEF RecordingsInv

\* Time passes, footage goes, the camera is switched or its clips made longer.
LEMMA WorldStep ==
    ASSUME RecordingsInv,
           SwitchStream \/ LengthenClips \/ \E e \in Clips : Passes(e) \/ FootageGoes(e)
    PROVE  RecordingsInv'
<1>1. /\ UNCHANGED <<view, evidence, snapshots, parts, clip, pin, sweep, keeping>>
      /\ age' \in [Clips -> Ages] /\ \A f \in Clips : age'[f] >= age[f]
      /\ footage' \in [Clips -> RecordedStreams \cup {NoFootage}]
      /\ \A f \in Clips : footage'[f] = footage[f] \/ footage'[f] = NoFootage
      /\ stream' \in RecordedStreams /\ clipAfter' \in ClipEnds /\ clipAfter' >= clipAfter
  <2>1. CASE SwitchStream
    BY <2>1 DEF SwitchStream, pinVars, RecordingsInv, RecordingsTypes, RecordedStreams, Ages,
                ClipEnds
  <2>2. CASE LengthenClips
    BY <2>2 DEF LengthenClips, pinVars, RecordingsInv, RecordingsTypes, Ages, ClipEnds
  <2>3. ASSUME NEW e \in Clips, Passes(e)
        PROVE  /\ age' \in [Clips -> Ages] /\ \A f \in Clips : age'[f] >= age[f]
               /\ UNCHANGED <<view, evidence, snapshots, parts, clip, pin, sweep, keeping,
                              footage, stream, clipAfter>>
    BY <2>3 DEF Passes, pinVars, RecordingsInv, RecordingsTypes, Ages
  <2>4. ASSUME NEW e \in Clips, FootageGoes(e)
        PROVE  /\ footage' \in [Clips -> RecordedStreams \cup {NoFootage}]
               /\ \A f \in Clips : footage'[f] = footage[f] \/ footage'[f] = NoFootage
               /\ UNCHANGED <<view, evidence, snapshots, parts, clip, pin, sweep, keeping,
                              age, stream, clipAfter>>
    BY <2>4 DEF FootageGoes, pinVars, RecordingsInv, RecordingsTypes
  <2>5. (\A f \in Clips : age[f] \in Ages) /\ clipAfter \in ClipEnds
    BY DEF RecordingsInv, RecordingsTypes
  <2> QED BY <2>1, <2>2, <2>3, <2>4, <2>5 DEF RecordingsInv, RecordingsTypes, Ages, ClipEnds
<1>2. /\ \A f \in Clips : age[f] \in 0 .. 4 /\ age'[f] \in 0 .. 4
      /\ \A f \in Clips : evidence[f].runAt \in {1, 2}
      /\ clipAfter \in {1, 2} /\ clipAfter' \in {1, 2}
  BY <1>1 DEF RecordingsInv, RecordingsTypes, EvidenceTypes, EvidenceRows, Ages, ClipEnds
<1>3. RecordingsTypes' /\ EvidenceTypes' /\ ClipTypes'
  BY <1>1 DEF RecordingsInv, RecordingsTypes, EvidenceTypes, ClipTypes
<1>4. \A f \in Clips : /\ QueuedForLess(f) => (QueuedForLess(f))'
                       /\ Due(f) => (Due(f))'
                       /\ age[f] = 4 => age'[f] = 4
  BY <1>1, <1>2 DEF QueuedForLess, Due
<1>5. PassInv'
  BY <1>1, <1>4 DEF RecordingsInv, PassInv
<1>6. PinInv'
  <2>1. pin.at \in {"store", "settle"} => pin.id \in Clips
    BY DEF RecordingsInv, PassInv, PinInv
  <2> QED BY <1>1, <1>4, <2>1 DEF RecordingsInv, PinInv, KeptWell
<1>7. SweepInv'
  BY <1>1, <1>4 DEF RecordingsInv, SweepInv
<1>8. ViewInv'
  <2>1. view.at # "none" => view.id \in Clips /\ view.first \in RecordedStreams
    BY DEF RecordingsInv, ViewInv, Views, NoView
  <2>2. NoFootage \notin RecordedStreams
    BY DEF NoFootage, RecordedStreams
  <2> QED BY <1>1, <1>4, <2>1, <2>2 DEF RecordingsInv, ViewInv
<1>9. EvidenceIsTrue'
  BY <1>1, <1>2, <1>4 DEF RecordingsInv, EvidenceIsTrue
<1> QED BY <1>3, <1>5, <1>6, <1>7, <1>8, <1>9 DEF RecordingsInv

LEMMA PinTickStep == ASSUME RecordingsInv, PinTick PROVE RecordingsInv'
<1>1. UNCHANGED <<view, age, stream, clipAfter, footage, snapshots, evidence, parts, clip, sweep, keeping>>
  BY DEF PinTick
<1>2. PICK due \in SUBSET {e \in Clips : Due(e)} \ {{}} :
         pin' = [at |-> "next", todo |-> due, read |-> [e \in due |-> evidence[e].attempts]]
  BY DEF PinTick
<1>3. \A e \in due : /\ e \in Clips /\ Due(e)
                     /\ evidence[e].attempts \in 0 .. MaxAttempts - 1
  BY RecordingsAssumption DEF Due, RecordingsInv, EvidenceTypes, EvidenceRows
<1>4. PassInv' /\ PinInv'
  BY <1>1, <1>2, <1>3 DEF PassInv, PinInv, Due
<1> QED
  BY <1>1, <1>4 DEF RecordingsInv, RecordingsTypes, EvidenceTypes, ClipTypes, SweepInv, ViewInv,
                    EvidenceIsTrue, QueuedForLess

LEMMA PinOpensStep ==
    ASSUME RecordingsInv, NEW fails \in BOOLEAN, NEW e \in Clips, PinOpens(e, fails)
    PROVE  RecordingsInv'
<1>1. /\ pin.at = "next" /\ e \in pin.todo
      /\ UNCHANGED <<view, age, stream, clipAfter, footage, snapshots, evidence, clip, sweep, keeping>>
      /\ parts' \subseteq parts \cup {e}
  BY DEF PinOpens
<1>2. /\ Due(e) /\ pin.todo \subseteq Clips
      /\ \A f \in pin.todo : Due(f) /\ pin.read[f] \in 0 .. MaxAttempts - 1
  BY <1>1 DEF RecordingsInv, PassInv
<1>3. PICK at, result :
         /\ pin' = [at |-> at, todo |-> pin.todo, read |-> pin.read, id |-> e,
                    result |-> result, whole |-> age[e] >= clipAfter]
         /\ \/ at = "settle" /\ result = "retry"
            \/ at = "store" /\ result = "KEPT"
            \/ at = "settle" /\ result = "NO_RECORDING" /\ ~Found(e)
  BY DEF PinOpens, Goto
<1>4. ~Found(e) => footage[e] = NoFootage
  BY DEF Found, RecordingsInv, RecordingsTypes
<1>5. /\ pin'.at = at /\ pin'.todo = pin.todo /\ pin'.read = pin.read /\ pin'.id = e
      /\ pin'.result = result /\ pin'.whole = (age[e] >= clipAfter)
  BY <1>3
<1>6. PassInv'
  BY <1>1, <1>2, <1>5 DEF PassInv, Due
<1>7. PinInv'
  <2>1. pin' = [at |-> pin'.at, todo |-> pin'.todo, read |-> pin'.read, id |-> pin'.id,
                result |-> pin'.result, whole |-> pin'.whole]
    BY <1>3
  <2>2. age[e] \in 0 .. 4 /\ clipAfter \in {1, 2} /\ evidence[e].runAt \in {1, 2}
    BY <1>1, <1>2 DEF RecordingsInv, RecordingsTypes, EvidenceTypes, EvidenceRows, Ages, ClipEnds
  <2>3. age[e] >= clipAfter \/ evidence[e].runAt < clipAfter
    BY <1>2, <2>2 DEF Due
  <2>4. pin'.whole \/ (QueuedForLess(pin.id))'
    BY <1>1, <1>5, <2>3 DEF QueuedForLess
  <2>5. ~Found(e) => footage'[pin'.id] = NoFootage
    BY <1>1, <1>4, <1>5
  <2> QED BY <1>1, <1>3, <1>5, <2>1, <2>4, <2>5 DEF PinInv
<1> QED
  BY <1>1, <1>6, <1>7 DEF RecordingsInv, RecordingsTypes, EvidenceTypes, ClipTypes, SweepInv,
                          ViewInv, EvidenceIsTrue, QueuedForLess

LEMMA PinStoresStep ==
    ASSUME RecordingsInv, NEW outcome \in {"stored", "broken", "not_renamed", "no_size"},
           PinStores(outcome)
    PROVE  RecordingsInv'
<1> DEFINE e == pin.id
           result == IF outcome = "stored" THEN pin.result ELSE "retry"
<1>1. /\ pin.at = "store" /\ parts' \subseteq parts
      /\ clip' = IF outcome \in {"broken", "not_renamed"} THEN clip
                 ELSE [clip EXCEPT ![e] = IF pin.whole THEN "whole" ELSE "cut"]
      /\ pin' = [pin EXCEPT !.at = "settle", !.result = result]
      /\ UNCHANGED <<view, age, stream, clipAfter, footage, snapshots, evidence, sweep, keeping>>
  <2>1. /\ pin' = [pin EXCEPT !.at = "settle",
                              !.result = IF outcome = "stored" THEN @ ELSE "retry"]
        /\ parts' = IF outcome = "not_renamed" THEN parts ELSE parts \ {e}
    BY DEF PinStores
  <2> QED BY <2>1 DEF PinStores
<1>2. /\ pin = [at |-> pin.at, todo |-> pin.todo, read |-> pin.read, id |-> pin.id,
                result |-> pin.result, whole |-> pin.whole]
      /\ e \in pin.todo /\ pin.result = "KEPT" /\ pin.todo \subseteq Clips
      /\ Due(e) /\ (pin.whole \/ QueuedForLess(e))
  BY <1>1 DEF RecordingsInv, PinInv, PassInv
<1>3. pin' = [at |-> "settle", todo |-> pin.todo, read |-> pin.read, id |-> e,
              result |-> result, whole |-> pin.whole]
  BY <1>1, <1>2
<1>4. /\ clip' \in [Clips -> {"none", "cut", "whole"}]
      /\ \A f \in Clips : evidence[f].status = "KEPT" => clip'[f] = clip[f]
      /\ outcome = "stored" => (KeptWell(e))'
  BY <1>1, <1>2 DEF RecordingsInv, ClipTypes, KeptWell, QueuedForLess, Due
<1>5. result \in {"KEPT", "retry"} /\ (result = "KEPT" => outcome = "stored")
  BY <1>2
<1> HIDE DEF result
<1>6. /\ pin'.at = "settle" /\ pin'.todo = pin.todo /\ pin'.read = pin.read /\ pin'.id = e
      /\ pin'.result = result /\ pin'.whole = pin.whole
  BY <1>3
<1>7. PassInv'
  BY <1>1, <1>6 DEF RecordingsInv, PassInv, Due
<1>8. PinInv'
  <2>1. pin' = [at |-> pin'.at, todo |-> pin'.todo, read |-> pin'.read, id |-> pin'.id,
                result |-> pin'.result, whole |-> pin'.whole]
    BY <1>3
  <2> QED BY <1>2, <1>4, <1>5, <1>6, <2>1 DEF PinInv
<1>9. EvidenceIsTrue'
  BY <1>1, <1>4 DEF RecordingsInv, EvidenceIsTrue, QueuedForLess
<1>10. RecordingsTypes'
  BY <1>1 DEF RecordingsInv, RecordingsTypes
<1>11. ViewInv'
  BY <1>1 DEF RecordingsInv, ViewInv, QueuedForLess
<1> QED
  BY <1>1, <1>4, <1>7, <1>8, <1>9, <1>10, <1>11 DEF RecordingsInv, EvidenceTypes, ClipTypes,
     SweepInv

\* What a pass writes into a row.
LEMMA SettledRow ==
    ASSUME RecordingsInv, pin.at = "settle"
    PROVE  LET row == Settled(pin.id, pin.result)
               was == evidence[pin.id]
           IN  /\ row \in EvidenceRows
               /\ row.status = "QUEUED" => row.attempts < MaxAttempts
               /\ row.status \in {pin.result, "FAILED", was.status}
               /\ row.status # "retry" /\ row.runAt = was.runAt
<1>1. /\ pin.id \in Clips /\ pin.result \in {"KEPT", "NO_RECORDING", "retry"}
      /\ pin.read[pin.id] \in 0 .. MaxAttempts - 1
  BY DEF RecordingsInv, PinInv, PassInv
<1>2. evidence[pin.id] \in EvidenceRows
      /\ (evidence[pin.id].status = "QUEUED" => evidence[pin.id].attempts < MaxAttempts)
  BY <1>1 DEF RecordingsInv, EvidenceTypes
<1> DEFINE n == pin.read[pin.id] + 1
           was == evidence[pin.id]
<1>3. n \in 0 .. MaxAttempts /\ MaxAttempts \in Nat
  BY <1>1, RecordingsAssumption
<1>4. /\ pin.result = "KEPT" =>
            Settled(pin.id, pin.result) = [was EXCEPT !.status = "KEPT", !.filed = TRUE]
      /\ pin.result = "NO_RECORDING" =>
            Settled(pin.id, pin.result) = [was EXCEPT !.status = "NO_RECORDING"]
      /\ pin.result = "retry" =>
            Settled(pin.id, pin.result)
               = [was EXCEPT !.status = IF n >= MaxAttempts THEN "FAILED" ELSE @, !.attempts = n]
  BY <1>1 DEF Settled
<1> HIDE DEF n, was
<1>5. was \in EvidenceRows
  BY <1>2 DEF was
<1>6. CASE pin.result = "KEPT"
  <2>1. ASSUME NEW r \in EvidenceRows
        PROVE  /\ [r EXCEPT !.status = "KEPT", !.filed = TRUE] \in EvidenceRows
               /\ [r EXCEPT !.status = "KEPT", !.filed = TRUE].status = "KEPT"
               /\ [r EXCEPT !.status = "KEPT", !.filed = TRUE].runAt = r.runAt
    BY DEF EvidenceRows
  <2> QED BY <1>4, <1>5, <1>6, <2>1 DEF was
<1>7. CASE pin.result = "NO_RECORDING"
  <2>1. ASSUME NEW r \in EvidenceRows
        PROVE  /\ [r EXCEPT !.status = "NO_RECORDING"] \in EvidenceRows
               /\ [r EXCEPT !.status = "NO_RECORDING"].status = "NO_RECORDING"
               /\ [r EXCEPT !.status = "NO_RECORDING"].runAt = r.runAt
    BY DEF EvidenceRows
  <2> QED BY <1>4, <1>5, <1>7, <2>1 DEF was
<1>8. CASE pin.result = "retry"
  <2> DEFINE given == IF n >= MaxAttempts THEN "FAILED" ELSE was.status
  <2>1. given \in {"no_event", "none", "QUEUED", "KEPT", "FAILED", "NO_RECORDING"}
    BY <1>5 DEF EvidenceRows
  <2>2. Settled(pin.id, pin.result) = [was EXCEPT !.status = given, !.attempts = n]
    BY <1>4, <1>8
  <2>3. given = "QUEUED" => n < MaxAttempts
    BY <1>3
  <2>4. given \in {"FAILED", was.status} /\ given # "retry"
    BY <2>1
  <2> HIDE DEF given
  <2>5. ASSUME NEW r \in EvidenceRows
        PROVE  /\ [r EXCEPT !.status = given, !.attempts = n] \in EvidenceRows
               /\ [r EXCEPT !.status = given, !.attempts = n].status = given
               /\ [r EXCEPT !.status = given, !.attempts = n].attempts = n
               /\ [r EXCEPT !.status = given, !.attempts = n].runAt = r.runAt
    BY <1>3, <2>1 DEF EvidenceRows
  <2>6. /\ Settled(pin.id, pin.result) \in EvidenceRows
        /\ Settled(pin.id, pin.result).status = given
        /\ Settled(pin.id, pin.result).attempts = n
        /\ Settled(pin.id, pin.result).runAt = was.runAt
    BY <1>3, <1>5, <2>1, <2>2, <2>5
  <2> QED BY <2>1, <2>3, <2>4, <2>6 DEF was
<1> QED BY <1>1, <1>6, <1>7, <1>8

LEMMA PinSettlesStep ==
    ASSUME RecordingsInv, NEW outcome \in {"written", "refused", "lost"}, PinSettles(outcome)
    PROVE  RecordingsInv'
<1> DEFINE row == Settled(pin.id, pin.result)
           was == evidence[pin.id]
<1>1. /\ pin.at = "settle"
      /\ evidence' = evidence \/ evidence' = [evidence EXCEPT ![pin.id] = row]
      /\ \/ pin'.at = "idle"
         \/ pin'.at = "next" /\ pin'.todo = pin.todo \ {pin.id} /\ pin'.read = pin.read
      /\ UNCHANGED <<view, age, stream, clipAfter, footage, snapshots, parts, clip, sweep, keeping>>
  BY DEF PinSettles, IdlePin
<1>2. /\ pin.id \in Clips /\ pin.id \in pin.todo
      /\ pin.result \in {"KEPT", "NO_RECORDING", "retry"}
      /\ pin.result = "KEPT" => KeptWell(pin.id) \/ age[pin.id] = 4
      /\ pin.result = "NO_RECORDING" => footage[pin.id] = NoFootage
      /\ was.status = "QUEUED"
  BY <1>1 DEF RecordingsInv, PinInv, PassInv, Due
<1>3. /\ row \in EvidenceRows
      /\ row.status = "QUEUED" => row.attempts < MaxAttempts
      /\ row.status \in {pin.result, "FAILED", was.status} /\ row.status # "retry"
      /\ row.runAt = was.runAt
  BY <1>1, SettledRow
<1> HIDE DEF row, was
<1>4. /\ evidence' \in [Clips -> EvidenceRows]
      /\ \A f \in Clips : evidence'[f] = evidence[f] \/ (f = pin.id /\ evidence'[f] = row)
  BY <1>1, <1>2, <1>3 DEF RecordingsInv, EvidenceTypes
<1>5. EvidenceTypes'
  BY <1>3, <1>4 DEF RecordingsInv, EvidenceTypes
<1>6. EvidenceIsTrue'
  <2>1. \A f \in Clips : age[f] \in 0 .. 4
    BY DEF RecordingsInv, RecordingsTypes, Ages
  <2>2. row.status = "KEPT" => KeptWell(pin.id) \/ age[pin.id] = 4
    BY <1>2, <1>3
  <2>3. row.status = "NO_RECORDING" => footage[pin.id] = NoFootage
    BY <1>2, <1>3
  <2>4. \A f \in Clips : evidence'[f].runAt = evidence[f].runAt
    BY <1>3, <1>4 DEF was
  <2> QED BY <1>1, <1>4, <2>1, <2>2, <2>3, <2>4 DEF RecordingsInv, EvidenceIsTrue, KeptWell,
             QueuedForLess
<1>7. PassInv' /\ PinInv'
  BY <1>1, <1>4 DEF RecordingsInv, PassInv, PinInv, Due
<1>8. ViewInv'
  <2>1. view # NoView => view.id \in Clips
    BY DEF RecordingsInv, ViewInv, Views
  <2>2. \A f \in Clips : evidence[f].status = "KEPT" => evidence'[f] = evidence[f]
    BY <1>2, <1>4 DEF was
  <2> QED BY <1>1, <2>1, <2>2 DEF RecordingsInv, ViewInv, QueuedForLess, NoView
<1> QED
  BY <1>1, <1>5, <1>6, <1>7, <1>8 DEF RecordingsInv, RecordingsTypes, ClipTypes, SweepInv

-----------------------------------------------------------------------------

LEMMA RetentionStep == ASSUME RecordingsInv, Retention PROVE RecordingsInv'
<1>1. CASE SnapshotsRead \/ SnapshotFolder \/ PartFiles
  <2>1. /\ sweep'.at \in {"snapshots", "clips", "idle"}
        /\ parts' \subseteq parts /\ snapshots' \subseteq snapshots
        /\ UNCHANGED <<view, age, stream, clipAfter, footage, evidence, clip, pin, keeping>>
    BY <1>1 DEF SnapshotsRead, SnapshotFolder, PartFiles, IdleSweep, pinVars
  <2> QED
    BY <2>1 DEF RecordingsInv, RecordingsTypes, EvidenceTypes, ClipTypes, PassInv, PinInv,
                SweepInv, ViewInv, EvidenceIsTrue, Due, KeptWell, QueuedForLess
<1>2. CASE ClipsRead
  <2>1. /\ sweep'.at = "unlink" /\ \A e \in sweep'.rows : age[e] = 4
        /\ UNCHANGED <<view, age, stream, clipAfter, footage, snapshots, evidence, parts, clip, pin, keeping>>
    BY <1>2 DEF ClipsRead, pinVars
  <2> QED
    BY <2>1 DEF RecordingsInv, RecordingsTypes, EvidenceTypes, ClipTypes, PassInv, PinInv,
                SweepInv, ViewInv, EvidenceIsTrue, Due, KeptWell, QueuedForLess
<1>3. ASSUME NEW e \in Clips, NEW fails \in BOOLEAN, ClipUnlinked(e, fails) PROVE RecordingsInv'
  <2>1. /\ sweep.at = "unlink" /\ e \in sweep.rows
        /\ clip' = clip \/ clip' = [clip EXCEPT ![e] = "none"]
        /\ sweep'.at \in {"unlink", "delete"} /\ sweep'.rows \subseteq sweep.rows
        /\ sweep'.id = e
        /\ UNCHANGED <<view, age, stream, clipAfter, footage, snapshots, evidence, parts, pin, keeping>>
    BY <1>3 DEF ClipUnlinked
  <2>2. age[e] = 4
    BY <2>1 DEF RecordingsInv, SweepInv
  <2>3. /\ clip' \in [Clips -> {"none", "cut", "whole"}]
        /\ \A f \in Clips : clip'[f] = clip[f] \/ age[f] = 4
    BY <2>1, <2>2 DEF RecordingsInv, ClipTypes
  <2>4. PinInv'
    <3>1. pin.at \in {"store", "settle"} => pin.id \in Clips
      BY DEF RecordingsInv, PassInv, PinInv
    <3> QED BY <2>1, <2>3, <3>1 DEF RecordingsInv, PinInv, KeptWell, QueuedForLess
  <2>5. SweepInv'
    BY <2>1, <2>2 DEF RecordingsInv, SweepInv
  <2>6. EvidenceIsTrue'
    <3>1. \A f \in Clips : age[f] < 4 => age[f] # 4
      BY DEF RecordingsInv, RecordingsTypes, Ages
    <3> QED BY <2>1, <2>3, <3>1 DEF RecordingsInv, EvidenceIsTrue, QueuedForLess
  <2> QED
    BY <2>1, <2>3, <2>4, <2>5, <2>6 DEF RecordingsInv, RecordingsTypes, EvidenceTypes,
       ClipTypes, PassInv, ViewInv, Due, QueuedForLess
<1>4. ASSUME NEW fails \in BOOLEAN, RowDeleted(fails) PROVE RecordingsInv'
  <2>1. /\ sweep.at = "delete"
        /\ \/ evidence' = [evidence EXCEPT ![sweep.id] = evidence[sweep.id]]
           \/ /\ evidence' = [evidence EXCEPT ![sweep.id] = EvidenceRow("none")]
              /\ evidence[sweep.id].status # "QUEUED"
        /\ \/ sweep'.at = "idle"
           \/ sweep'.at = "unlink" /\ sweep'.rows = sweep.rows
        /\ UNCHANGED <<view, age, stream, clipAfter, footage, snapshots, parts, clip, pin, keeping>>
    BY <1>4 DEF RowDeleted, SetEvidence, IdleSweep, pinVars
  <2>2. sweep.id \in Clips /\ age[sweep.id] = 4
    BY <2>1 DEF RecordingsInv, SweepInv
  <2>3. PICK row \in EvidenceRows :
           /\ evidence' = [evidence EXCEPT ![sweep.id] = row]
           /\ \/ row = evidence[sweep.id]
              \/ row.status = "none" /\ evidence[sweep.id].status # "QUEUED"
    BY <2>1, <2>2, NewRow DEF RecordingsInv, EvidenceTypes
  <2>4. EvidenceTypes' /\ EvidenceIsTrue' /\ PassInv' /\ PinInv' /\ ViewInv'
    <3>1. row.status = "QUEUED" => row.attempts < MaxAttempts
      BY <2>2, <2>3 DEF RecordingsInv, EvidenceTypes
    <3>2. UNCHANGED <<view, age, clipAfter, footage, clip, pin>>
      BY <2>1
    <3> QED BY <2>2, <2>3, <3>1, <3>2, RowsChange
  <2>5. SweepInv'
    BY <2>1 DEF RecordingsInv, SweepInv
  <2> QED
    BY <2>1, <2>4, <2>5 DEF RecordingsInv, RecordingsTypes, ClipTypes
<1> QED BY <1>1, <1>2, <1>3, <1>4 DEF Retention

LEMMA ViewStep == ASSUME RecordingsInv, ViewClip PROVE RecordingsInv'
<1>1. UNCHANGED viewRest
  BY DEF ViewClip, ViewLooks, StatKept, SendKept, OpenClip
<1>2. ASSUME NEW v \in Views, NEW at \in ViewSteps
      PROVE  /\ [v EXCEPT !.at = at] \in Views
             /\ [v EXCEPT !.at = at].at = at /\ [v EXCEPT !.at = at].id = v.id
             /\ [v EXCEPT !.at = at].first = v.first /\ [v EXCEPT !.at = at].kept = v.kept
  BY DEF Views
<1>3. ASSUME NEW e \in Clips, ViewLooks(e) PROVE ViewInv'
  <2>1. view' = [at |-> "kept", id |-> e, first |-> stream,
                 kept |-> evidence[e].status = "KEPT" /\ evidence[e].filed]
    BY <1>3 DEF ViewLooks
  <2>2. view' \in Views /\ view'.at = "kept" /\ view'.id = e
        /\ (view'.kept => evidence[e].status = "KEPT")
    BY <2>1 DEF Views, ViewSteps, RecordingsInv, RecordingsTypes
  <2> QED BY <1>1, <2>2 DEF ViewInv, viewRest
<1>4. ASSUME StatKept PROVE ViewInv'
  <2>1. /\ view.at = "kept"
        /\ \/ view' = [view EXCEPT !.at = "send"] /\ view.kept
           \/ view' = [view EXCEPT !.at = "playback"]
    BY <1>4 DEF StatKept
  <2>2. view \in Views
    BY <2>1 DEF RecordingsInv, ViewInv, NoView
  <2>3. CASE view' = [view EXCEPT !.at = "send"] /\ view.kept
    <3>1. view' \in Views /\ view'.id = view.id /\ view'.at = "send"
      BY <1>2, <2>2, <2>3 DEF ViewSteps
    <3>2. evidence[view.id].status = "KEPT" \/ age[view.id] = 4
      BY <2>1, <2>3 DEF RecordingsInv, ViewInv
    <3> QED BY <1>1, <3>1, <3>2 DEF ViewInv, viewRest
  <2>4. CASE view' = [view EXCEPT !.at = "playback"]
    <3>1. view' \in Views /\ view'.at = "playback"
      BY <1>2, <2>2, <2>4 DEF ViewSteps
    <3> QED BY <3>1 DEF ViewInv
  <2> QED BY <2>1, <2>3, <2>4
<1>5. ASSUME SendKept PROVE ViewInv'
  <2>1. /\ view.at = "send"
        /\ view' = CASE clip[view.id] = "whole" -> NoView
                     [] clip[view.id] = "cut" -> [view EXCEPT !.at = "cut"]
                     [] clip[view.id] = "none" -> [view EXCEPT !.at = "unlinked"]
    BY <1>5 DEF SendKept
  <2>2. view \in Views /\ view.id \in Clips
    BY <2>1 DEF RecordingsInv, ViewInv, Views, NoView
  <2>3. clip[view.id] \in {"none", "cut", "whole"} /\ age[view.id] \in 0 .. 4
    BY <2>2 DEF RecordingsInv, RecordingsTypes, ClipTypes, Ages
  <2>4. age[view.id] = 4 \/ (evidence[view.id].status = "KEPT" /\ KeptWell(view.id))
    BY <2>1, <2>2, <2>3 DEF RecordingsInv, ViewInv, EvidenceIsTrue, KeptWell
  <2>5. CASE clip[view.id] = "whole"
    <3>1. view' = NoView
      BY <2>1, <2>5
    <3> QED BY <3>1 DEF ViewInv, NoView
  <2>6. CASE clip[view.id] = "cut"
    <3>1. view' = [view EXCEPT !.at = "cut"]
      BY <2>1, <2>6
    <3>2. view' \in Views /\ view'.at = "cut" /\ view'.id = view.id
      BY <1>2, <2>2, <3>1 DEF ViewSteps
    <3>3. age[view.id] = 4 \/ (evidence[view.id].status = "KEPT" /\ QueuedForLess(view.id))
      BY <2>4, <2>6 DEF KeptWell
    <3> QED BY <1>1, <3>2, <3>3 DEF ViewInv, viewRest, QueuedForLess
  <2>7. CASE clip[view.id] = "none"
    <3>1. view' = [view EXCEPT !.at = "unlinked"]
      BY <2>1, <2>7
    <3>2. view' \in Views /\ view'.at = "unlinked" /\ view'.id = view.id
      BY <1>2, <2>2, <3>1 DEF ViewSteps
    <3>3. age[view.id] = 4
      BY <2>4, <2>7 DEF KeptWell
    <3> QED BY <1>1, <3>2, <3>3 DEF ViewInv, viewRest
  <2> QED BY <2>3, <2>5, <2>6, <2>7
<1>6. ASSUME NEW fails \in BOOLEAN, OpenClip(fails) PROVE ViewInv'
  <2> DEFINE second == IF view.at = "playback" THEN view.first
                     ELSE CHOOSE s \in RecordedStreams : s # view.first
  <2>1. /\ view.at \in {"playback", "other_path"}
        /\ view' = IF fails THEN [view EXCEPT !.at = "no_answer"]
                   ELSE FetchClip(view.id, second)
    BY <1>6 DEF OpenClip
  <2>2. view \in Views /\ view.id \in Clips /\ view.first \in RecordedStreams
    BY <2>1 DEF RecordingsInv, ViewInv, Views, NoView
  <2>3. \/ view' = NoView \/ view' = [view EXCEPT !.at = "no_answer"]
        \/ /\ view' = [view EXCEPT !.at = "other_path"]
           /\ view.at = "playback" /\ footage[view.id] # view.first
        \/ /\ view' = [view EXCEPT !.at = "not_found"]
           /\ view.at = "other_path" /\ footage[view.id] # second
    BY <2>1 DEF FetchClip
  <2>4. view.at = "other_path" =>
           second \in RecordedStreams /\ second # view.first /\ footage[view.id] # view.first
    BY <2>2 DEF RecordedStreams, RecordingsInv, ViewInv
  <2>5. view.at = "other_path" /\ footage[view.id] # second => footage[view.id] = NoFootage
    BY <2>2, <2>4 DEF RecordedStreams, RecordingsInv, RecordingsTypes
  <2> HIDE DEF second
  <2>6. CASE view' = NoView
    BY <2>6 DEF ViewInv, NoView
  <2>7. CASE view' = [view EXCEPT !.at = "no_answer"]
    <3>1. view' \in Views /\ view'.at = "no_answer"
      BY <1>2, <2>2, <2>7 DEF ViewSteps
    <3> QED BY <3>1 DEF ViewInv
  <2>8. CASE view' = [view EXCEPT !.at = "other_path"] /\ footage[view.id] # view.first
    <3>1. /\ view' \in Views /\ view'.at = "other_path"
          /\ view'.id = view.id /\ view'.first = view.first
      BY <1>2, <2>2, <2>8 DEF ViewSteps
    <3> QED BY <1>1, <2>8, <3>1 DEF ViewInv, viewRest
  <2>9. CASE view' = [view EXCEPT !.at = "not_found"] /\ footage[view.id] = NoFootage
    <3>1. view' \in Views /\ view'.at = "not_found" /\ view'.id = view.id
      BY <1>2, <2>2, <2>9 DEF ViewSteps
    <3> QED BY <1>1, <2>9, <3>1 DEF ViewInv, viewRest
  <2> QED BY <2>3, <2>5, <2>6, <2>7, <2>8, <2>9
<1>7. ViewInv'
  BY <1>3, <1>4, <1>5, <1>6 DEF ViewClip
<1> QED
  BY <1>1, <1>7 DEF viewRest, pinVars, RecordingsInv, RecordingsTypes, EvidenceTypes, ClipTypes,
     PassInv, PinInv, SweepInv, EvidenceIsTrue, Due, KeptWell, QueuedForLess

LEMMA RecordingsStep == RecordingsInv /\ [RecordingsNext]_recordingsVars => RecordingsInv'
<1> SUFFICES ASSUME RecordingsInv, [RecordingsNext]_recordingsVars PROVE RecordingsInv'
  OBVIOUS
<1>1. ASSUME NEW e \in Clips, Passes(e) \/ FootageGoes(e) PROVE RecordingsInv'
  BY <1>1, WorldStep
<1>2. CASE SwitchStream \/ LengthenClips
  BY <1>2, WorldStep
<1>3. ASSUME NEW e \in Clips,
             \/ KeepInserts(e) \/ KeepRequeues(e)
             \/ \E important \in BOOLEAN : IngestEvent(e, important)
      PROVE  RecordingsInv'
  BY <1>3, KeepStep
<1>4. CASE PinJob
  BY <1>4, PinTickStep, PinOpensStep, PinStoresStep, PinSettlesStep DEF PinJob
<1>5. CASE Retention
  BY <1>5, RetentionStep
<1>6. CASE ViewClip
  BY <1>6, ViewStep
<1>7. CASE JobsCrash
  <2>1. /\ pin'.at = "idle" /\ sweep'.at = "idle" /\ keeping' = {} /\ view' = NoView
        /\ UNCHANGED <<age, stream, clipAfter, footage, snapshots, evidence, parts, clip>>
    BY <1>7 DEF JobsCrash, IdlePin, IdleSweep
  <2> QED
    BY <2>1 DEF RecordingsInv, RecordingsTypes, EvidenceTypes, ClipTypes, PassInv, PinInv,
                SweepInv, ViewInv, NoView, EvidenceIsTrue, QueuedForLess
<1>8. CASE UNCHANGED recordingsVars
  BY <1>8 DEF recordingsVars, pinVars, RecordingsInv, RecordingsTypes, EvidenceTypes, ClipTypes,
              PassInv, PinInv, SweepInv, ViewInv, EvidenceIsTrue, Due, KeptWell, QueuedForLess
<1> QED BY <1>1, <1>2, <1>3, <1>4, <1>5, <1>6, <1>7, <1>8 DEF RecordingsNext

LEMMA RecordingsFollow ==
    RecordingsInv => EvidenceIsTrue /\ ViewersGetClips /\ RecordingsTypeOK
<1> SUFFICES ASSUME RecordingsInv PROVE EvidenceIsTrue /\ ViewersGetClips /\ RecordingsTypeOK
  OBVIOUS
<1>1. view.at \in {"none", "kept", "send", "playback", "other_path", "cut", "not_found",
                  "no_answer", "unlinked"}
  BY DEF RecordingsInv, ViewInv, Views, ViewSteps, NoView
<1>2. ViewersGetClips
  BY <1>1 DEF RecordingsInv, ViewInv, ViewersGetClips
<1>3. RecordingsTypeOK
  <2>1. clip \in [Clips -> {"none", "cut", "whole"}]
    BY DEF RecordingsInv, ClipTypes
  <2> QED BY <1>1, <2>1 DEF RecordingsInv, RecordingsTypes, EvidenceTypes, EvidenceRows,
                            RecordingsTypeOK
<1> QED BY <1>2, <1>3 DEF RecordingsInv

-----------------------------------------------------------------------------
(* The model registry.                                                     *)

Known(m) == model[m].status # "unused"

\* The row of a file names its content, unless the file went with the row, or a
\* conversion failed; the engine could run what is READY.
RowOk(m) ==
    /\ m \in Rows =>
          \/ file[m] \in {NoFile, model[m].hash}
          \/ model[m].hash = NoFile /\ file[m] = Converted
    /\ model[m].status = "READY" => file[m] \in Good

\* The target of a conversion never holds anything else.
TargetOk(m) ==
    /\ m \in ModelIds \ TopLevel /\ Known(m)
    /\ file[m] \in {NoFile, Converted} /\ model[m].hash \in {NoFile, Converted}

\* What was READY, or found good, would be READY with right.
GoodOk(m) == m \in Rows /\ m \notin TopLevel => file[m] \in Good

\* No row is back in conversion, and only a conversion writes a hash.
HashOk(m, hash) == m \in Rows => model[m].status # "CONVERTING" /\ model[m].hash = hash

ExportOk(m) == TargetOk(m) /\ (model[m].status = "CONVERTING" => file[m] = Converted)

CreateOk(f) ==
    LET m == flow[f].id
    IN  /\ m \in ModelIds /\ ~Known(m)
        /\ m \in TopLevel => f = "rescan" /\ flow[f].hash \in AllContents
        /\ m \notin TopLevel => flow[f].hash \in Contents /\ file[m] = flow[f].hash

MarkOk(f) ==
    LET m == flow[f].id
    IN  /\ flow[f] = Mark(m, flow[f].from, flow[f].hash, flow[f].revert)
        /\ flow[f].hash \in AllContents \cup {NoFile}
        /\ flow[f].from \in Statuses
        /\ flow[f].from = "CONVERTING" => flow[f].hash = Converted /\ ExportOk(m)
        /\ flow[f].from # "CONVERTING" => HashOk(m, flow[f].hash)

PushOk(f) ==
    LET m == flow[f].id
    IN  /\ m \in ModelIds /\ Known(m)
        /\ flow[f].revert \in Statuses \ {"CONVERTING"}
        /\ flow[f].revert = "READY" => GoodOk(m)

\* While no version was saved since it looked, the camera does not use it.
DeleteOk(f) ==
    /\ flow[f].id \in ModelIds /\ flow[f].saves \in Nat /\ flow[f].saves <= saves
    /\ flow[f].saves = saves => uses # flow[f].id

FlowOk(f) ==
    /\ flow[f].at = "stored" => flow[f].hash \in Contents
    /\ flow[f].at = "create" => CreateOk(f)
    /\ flow[f].at = "mark" => MarkOk(f)
    /\ flow[f].at \in {"mark", "push"} => PushOk(f)
    /\ flow[f].at = "queue" => TargetOk(flow[f].id) /\ flow[f].from \in ModelIds
    /\ flow[f].at = "save" => flow[f].id \in ModelIds
    /\ flow[f].at = "delete" => DeleteOk(f)
    /\ flow[f].at = "rm" => flow[f].id \in ModelIds /\ model[flow[f].id].status = "removed"

JobOk(task) ==
    /\ task.type = "validate" => task.id \in ModelIds /\ Known(task.id)
    /\ task.type = "convert" => TargetOk(task.id)

Tasks == [type : {"validate"}, id : ModelIds]
         \cup [type : {"convert"}, id : ModelIds, from : ModelIds]

WorkerOk ==
    /\ worker.at \in {"work", "answer"} => worker.job \in Tasks /\ JobOk(worker.job)
    /\ worker.at = "answer" /\ worker.job.type = "validate" /\ worker.ok => GoodOk(worker.job.id)

JobsOk == \A i \in 1 .. Len(jobs), task \in Tasks : task = jobs[i] => JobOk(task)

Types ==
    /\ ModelTypeOK /\ saves \in Nat
    /\ flow = [f \in Flows |-> flow[f]]
    /\ jobs \in Seq(Tasks)

\* An id is made for one flow.
OneCreates ==
    \A f, g \in Flows :
        flow[f].at = "create" /\ flow[g].at = "create" /\ flow[f].id = flow[g].id => f = g

ModelInv ==
    /\ Types
    /\ \A m \in ModelIds \ TopLevel : RowOk(m)
    /\ \A f \in Flows : FlowOk(f)
    /\ OneCreates
    /\ JobsOk /\ WorkerOk

\* What a step may do to a model and its file: nothing, make them, give the row
\* another status, take the hash of an export, remove the row, the file of a removed
\* row, or write an export.
Moved(m) ==
    \/ model'[m] = model[m] /\ file'[m] = file[m]
    \/ ~Known(m) /\ (m \notin TopLevel => RowOk(m)')
    \/ /\ m \in Rows /\ file'[m] = file[m] /\ model'[m].hash = model[m].hash
       /\ model'[m].status \in Statuses \ {"CONVERTING"}
       /\ model'[m].status = "READY" => GoodOk(m)
       /\ model[m].status \in {"READY", "FAILED"} => model'[m].status = "VALIDATING"
    \/ /\ m \in Rows /\ ExportOk(m) /\ model[m].status = "CONVERTING" /\ file'[m] = file[m]
       /\ model'[m].status = "VALIDATING" /\ model'[m].hash = Converted
    \/ model'[m] = Removed /\ file'[m] = file[m]
    \/ model[m].status = "removed" /\ model'[m] = model[m] /\ file'[m] = NoFile
    \/ TargetOk(m) /\ model'[m] = model[m] /\ file'[m] = Converted

ModelKept == ModelInv' /\ \A m \in ModelIds : Moved(m)

SavesGo == saves' \in Nat /\ saves <= saves' /\ (saves' = saves => uses' = uses)

LEMMA Contented ==
    /\ NoFile \notin Good /\ NoFile # Converted /\ NoFile \notin AllContents
    /\ "rescan" \in Flows /\ "report" \in Flows /\ People \subseteq Flows
    /\ TopLevel \subseteq ModelIds
  BY ModelAssumption DEF NoFile, AllContents, Flows

\* What is known of a model stays true.
LEMMA MovedKeeps ==
    ASSUME ModelTypeOK, NEW m \in ModelIds, Moved(m)
    PROVE  /\ Known(m) => Known(m)'
           /\ model[m].status = "removed" => model'[m].status = "removed"
           /\ TargetOk(m) => TargetOk(m)'
           /\ ExportOk(m) => ExportOk(m)'
           /\ Known(m) /\ GoodOk(m) => GoodOk(m)'
           /\ \A hash : Known(m) /\ HashOk(m, hash) /\ m \in Rows' =>
                 model'[m].status # "CONVERTING" /\ model'[m].hash = hash
<1> USE Contented
<1>0. model[m].status \in Statuses \cup {"unused", "removed"}
  BY DEF ModelTypeOK
<1>1. Known(m) => Known(m)'
  BY DEF Moved, Known, Removed, Row, Rows, Statuses
<1>2. model[m].status = "removed" => model'[m].status = "removed"
  BY DEF Moved, Known, Removed, Row, Rows, Statuses, TargetOk
<1>3. TargetOk(m) => TargetOk(m)'
  BY <1>1 DEF Moved, Known, Removed, Row, TargetOk
<1>4. ExportOk(m) => ExportOk(m)'
  BY <1>3 DEF Moved, Known, Removed, Row, TargetOk, ExportOk
<1>5. Known(m) /\ GoodOk(m) => GoodOk(m)'
  BY <1>0 DEF Moved, Known, Removed, Row, TargetOk, GoodOk, Rows, Statuses
<1>6. ASSUME NEW hash, Known(m), HashOk(m, hash), m \in Rows'
      PROVE  model'[m].status # "CONVERTING" /\ model'[m].hash = hash
  BY <1>0, <1>6 DEF Moved, Known, Removed, Row, HashOk, Rows, Statuses
<1> QED BY <1>1, <1>2, <1>3, <1>4, <1>5, <1>6

LEMMA RowKept ==
    ASSUME ModelTypeOK, NEW m \in ModelIds \ TopLevel, RowOk(m), Moved(m)
    PROVE  RowOk(m)'
<1> USE Contented
<1>1. CASE model'[m] = model[m] /\ file'[m] = file[m]
  BY <1>1 DEF RowOk, Rows
<1>2. CASE /\ m \in Rows /\ file'[m] = file[m] /\ model'[m].hash = model[m].hash
           /\ model'[m].status = "READY" => GoodOk(m)
  BY <1>2 DEF RowOk, Rows, GoodOk
<1>3. CASE /\ ExportOk(m) /\ model[m].status = "CONVERTING" /\ file'[m] = file[m]
           /\ model'[m].status = "VALIDATING" /\ model'[m].hash = Converted
  BY <1>3 DEF RowOk, Rows, ExportOk
<1>4. CASE model'[m].status = "removed"
  BY <1>4 DEF RowOk, Rows, Statuses
<1>5. CASE TargetOk(m) /\ model'[m] = model[m] /\ file'[m] = Converted
  BY <1>5 DEF RowOk, Rows, TargetOk
<1> QED BY <1>1, <1>2, <1>3, <1>4, <1>5 DEF Moved, Removed, Row

LEMMA JobKept ==
    ASSUME ModelTypeOK, \A m \in ModelIds : Moved(m), NEW task \in Tasks, JobOk(task)
    PROVE  JobOk(task)'
<1>1. task.id \in ModelIds
  BY DEF Tasks
<1>2. PICK m \in ModelIds : m = task.id
  BY <1>1
<1>3. /\ Known(m) => Known(m)'
      /\ TargetOk(m) => TargetOk(m)'
  BY MovedKeeps
<1> QED BY <1>2, <1>3 DEF JobOk

LEMMA FlowKept ==
    ASSUME ModelInv, \A m \in ModelIds : Moved(m), SavesGo,
           NEW f \in Flows, flow'[f] = flow[f],
           flow[f].at = "create" =>
              /\ model'[flow[f].id] = model[flow[f].id]
              /\ file'[flow[f].id] = file[flow[f].id]
    PROVE  FlowOk(f)'
<1>1. PICK x : x = flow[f] /\ x = flow'[f]
  OBVIOUS
<1>2. FlowOk(f) /\ ModelTypeOK
  BY DEF ModelInv, Types
<1>3. x.at = "stored" => x.hash \in Contents
  BY <1>1, <1>2 DEF FlowOk
<1>4. x.at = "create" => CreateOk(f)'
  BY <1>1, <1>2 DEF FlowOk, CreateOk, Known
<1>5. x.at \in {"mark", "push"} => PushOk(f)'
  <2> SUFFICES ASSUME x.at \in {"mark", "push"} PROVE PushOk(f)'
    OBVIOUS
  <2>1. PushOk(f) /\ x.id \in ModelIds
    BY <1>1, <1>2 DEF FlowOk, PushOk
  <2>2. PICK m \in ModelIds : m = x.id
    BY <2>1
  <2>3. Known(m)' /\ (GoodOk(m) => GoodOk(m)')
    BY <1>1, <1>2, <2>1, <2>2, MovedKeeps DEF PushOk
  <2> QED BY <1>1, <2>1, <2>2, <2>3 DEF PushOk
<1>6. x.at = "mark" => MarkOk(f)'
  <2> SUFFICES ASSUME x.at = "mark" PROVE MarkOk(f)'
    OBVIOUS
  <2>1. PushOk(f) /\ MarkOk(f) /\ x.id \in ModelIds
    BY <1>1, <1>2 DEF FlowOk, PushOk
  <2>2. PICK m \in ModelIds : m = x.id
    BY <2>1
  <2>3. /\ ExportOk(m) => ExportOk(m)'
        /\ Known(m) /\ HashOk(m, x.hash) /\ m \in Rows' =>
              model'[m].status # "CONVERTING" /\ model'[m].hash = x.hash
    BY <1>2, MovedKeeps
  <2>4. Known(m)
    BY <1>1, <2>1, <2>2 DEF PushOk
  <2>5. x.from = "CONVERTING" => ExportOk(m)'
    BY <1>1, <2>1, <2>2, <2>3 DEF MarkOk
  <2>6. x.from # "CONVERTING" => HashOk(m, x.hash)
    BY <1>1, <2>1, <2>2 DEF MarkOk
  <2>7. x.from # "CONVERTING" /\ m \in Rows' =>
           model'[m].status # "CONVERTING" /\ model'[m].hash = x.hash
    BY <2>3, <2>4, <2>6
  <2>8. /\ x = Mark(x.id, x.from, x.hash, x.revert)
        /\ x.hash \in AllContents \cup {NoFile} /\ x.from \in Statuses
        /\ x.from = "CONVERTING" => x.hash = Converted
    BY <1>1, <2>1 DEF MarkOk
  <2> QED BY <1>1, <2>2, <2>5, <2>7, <2>8 DEF MarkOk, HashOk, AllContents
<1>7. x.at = "queue" => TargetOk(x.id)' /\ x.from \in ModelIds
  <2> SUFFICES ASSUME x.at = "queue" PROVE TargetOk(x.id)' /\ x.from \in ModelIds
    OBVIOUS
  <2>1. TargetOk(x.id) /\ x.id \in ModelIds /\ x.from \in ModelIds
    BY <1>1, <1>2 DEF FlowOk, TargetOk
  <2>2. PICK m \in ModelIds : m = x.id
    BY <2>1
  <2> QED BY <1>2, <2>1, <2>2, MovedKeeps
<1>8. x.at = "save" => x.id \in ModelIds
  BY <1>1, <1>2 DEF FlowOk
<1>9. x.at = "delete" => DeleteOk(f)'
  <2>1. x.at = "delete" => /\ x.id \in ModelIds /\ x.saves \in Nat /\ x.saves <= saves
                           /\ x.saves = saves => uses # x.id
    BY <1>1, <1>2 DEF FlowOk, DeleteOk
  <2>2. saves \in Nat
    BY DEF ModelInv, Types
  <2> QED BY <1>1, <2>1, <2>2 DEF DeleteOk, SavesGo
<1>10. x.at = "rm" => x.id \in ModelIds /\ model'[x.id].status = "removed"
  BY <1>1, <1>2, MovedKeeps DEF FlowOk
<1> QED BY <1>1, <1>3, <1>4, <1>5, <1>6, <1>7, <1>8, <1>9, <1>10 DEF FlowOk

\* The queue and the engine's job, when a step leaves them alone or queues a job.
LEMMA JobsKept ==
    ASSUME ModelInv, \A m \in ModelIds : Moved(m), UNCHANGED jobs
    PROVE  jobs' \in Seq(Tasks) /\ JobsOk'
<1>1. ModelTypeOK /\ jobs \in Seq(Tasks) /\ JobsOk
  BY DEF ModelInv, Types
<1>2. ASSUME NEW i \in 1 .. Len(jobs), NEW task \in Tasks, task = jobs'[i] PROVE JobOk(task)'
  <2>1. JobOk(task)
    BY <1>1, <1>2 DEF JobsOk
  <2> QED BY <1>1, <2>1, JobKept
<1> QED BY <1>1, <1>2 DEF JobsOk

LEMMA JobQueued ==
    ASSUME ModelInv, \A m \in ModelIds : Moved(m),
           NEW task \in Tasks, JobOk(task), jobs' = Append(jobs, task)
    PROVE  jobs' \in Seq(Tasks) /\ JobsOk'
<1>1. ModelTypeOK /\ jobs \in Seq(Tasks) /\ JobsOk
  BY DEF ModelInv, Types
<1>2. /\ jobs' \in Seq(Tasks) /\ Len(jobs') = Len(jobs) + 1 /\ Len(jobs) \in Nat
      /\ \A i \in 1 .. Len(jobs) : jobs'[i] = jobs[i]
      /\ jobs'[Len(jobs) + 1] = task
  BY <1>1
<1>3. JobOk(task)'
  BY <1>1, JobKept
<1>4. ASSUME NEW i \in 1 .. Len(jobs'), NEW j \in Tasks, j = jobs'[i] PROVE JobOk(j)'
  <2>1. CASE i = Len(jobs) + 1
    BY <1>2, <1>3, <1>4, <2>1
  <2>2. CASE i # Len(jobs) + 1
    <3>1. i \in 1 .. Len(jobs)
      BY <1>2, <2>2
    <3>2. JobOk(j)
      BY <1>1, <1>2, <1>4, <3>1 DEF JobsOk
    <3> QED BY <1>1, <3>2, JobKept
  <2> QED BY <2>1, <2>2
<1> QED BY <1>2, <1>4 DEF JobsOk

LEMMA WorkerKept ==
    ASSUME ModelInv, \A m \in ModelIds : Moved(m), UNCHANGED worker
    PROVE  WorkerOk'
<1>1. ModelTypeOK /\ WorkerOk
  BY DEF ModelInv, Types
<1>2. PICK w : w = worker
  OBVIOUS
<1>3. CASE w.at \in {"work", "answer"}
  <2>1. w.job \in Tasks /\ JobOk(w.job)
    BY <1>1, <1>2, <1>3 DEF WorkerOk
  <2>2. PICK task \in Tasks : task = w.job
    BY <2>1
  <2>3. JobOk(task)'
    BY <1>1, <2>1, <2>2, JobKept
  <2>4. PICK m \in ModelIds : m = task.id
    BY DEF Tasks
  <2>5. w.at = "answer" /\ task.type = "validate" /\ w.ok => GoodOk(m)'
    BY <1>1, <1>2, <2>1, <2>2, <2>4, MovedKeeps DEF WorkerOk, JobOk
  <2> QED BY <1>2, <2>1, <2>2, <2>3, <2>4, <2>5 DEF WorkerOk
<1>4. CASE w.at \notin {"work", "answer"}
  BY <1>2, <1>4 DEF WorkerOk
<1> QED BY <1>3, <1>4

LEMMA FlowSet ==
    ASSUME Types, NEW g \in Flows, NEW x, Flow(g, x)
    PROVE  /\ flow' = [f \in Flows |-> flow'[f]]
           /\ flow'[g] = x
           /\ \A f \in Flows \ {g} : flow'[f] = flow[f]
  BY DEF Types, Flow

\* A step of one flow: it is enough to look at that flow, and at what others make.
LEMMA FlowStep ==
    ASSUME ModelInv, ModelTypeOK', SavesGo, \A m \in ModelIds : Moved(m),
           jobs' \in Seq(Tasks), JobsOk', WorkerOk',
           NEW g \in Flows, flow' = [f \in Flows |-> flow'[f]],
           \A f \in Flows \ {g} : flow'[f] = flow[f],
           FlowOk(g)',
           \A f \in Flows \ {g} : flow[f].at = "create" =>
              /\ model'[flow[f].id] = model[flow[f].id]
              /\ file'[flow[f].id] = file[flow[f].id]
              /\ flow'[g].at = "create" => flow'[g].id # flow[f].id
    PROVE  ModelKept
<1>1. ModelTypeOK
  BY DEF ModelInv, Types
<1>2. ASSUME NEW f \in Flows PROVE FlowOk(f)'
  <2>1. CASE f = g
    BY <2>1
  <2>2. CASE f # g
    BY <2>2, FlowKept
  <2> QED BY <2>1, <2>2
<1>3. ASSUME NEW m \in ModelIds \ TopLevel PROVE RowOk(m)'
  BY <1>1, RowKept DEF ModelInv
<1>4. OneCreates'
  <2>1. OneCreates
    BY DEF ModelInv
  <2> QED BY <2>1 DEF OneCreates
<1>5. Types'
  BY DEF Types, SavesGo
<1> QED BY <1>2, <1>3, <1>4, <1>5 DEF ModelInv, ModelKept

\* A flow that moves no model.
LEMMA QuietStep ==
    ASSUME ModelInv, SavesGo, UNCHANGED <<model, file, engineVars>>, ModelTypeOK',
           NEW g \in Flows, NEW x, Flow(g, x), FlowOk(g)', x.at # "create"
    PROVE  ModelKept
<1>1. UNCHANGED <<model, file, jobs, worker>>
  BY DEF engineVars
<1>2. \A m \in ModelIds : Moved(m)
  BY <1>1 DEF Moved
<1>3. jobs' \in Seq(Tasks) /\ JobsOk' /\ WorkerOk'
  BY <1>1, <1>2, JobsKept, WorkerKept
<1>4. /\ flow' = [f \in Flows |-> flow'[f]]
      /\ flow'[g] = x
      /\ \A f \in Flows \ {g} : flow'[f] = flow[f]
  BY FlowSet DEF ModelInv
<1> QED BY <1>1, <1>2, <1>3, <1>4, FlowStep

RowSet == [status : Statuses \cup {"unused", "removed"}, hash : AllContents \cup {NoFile}]

LEMMA ModelTypes == ModelTypeOK <=>
    /\ model \in [ModelIds -> RowSet] /\ file \in [ModelIds -> AllContents \cup {NoFile}]
    /\ inbox \subseteq Contents /\ uses \in ModelIds \cup {NoModel}
  BY DEF ModelTypeOK, RowSet

\* A row is replaced, or gets another status.
LEMMA RowReplaced ==
    ASSUME ModelTypeOK, NEW m \in ModelIds, NEW row \in RowSet, SetRow(m, row)
    PROVE  /\ model' \in [ModelIds -> RowSet] /\ model'[m] = row
           /\ \A n \in ModelIds \ {m} : model'[n] = model[n]
  BY ModelTypes DEF SetRow

LEMMA StatusSet ==
    ASSUME ModelTypeOK, NEW m \in ModelIds, NEW given \in Statuses,
           model' = [model EXCEPT ![m].status = given]
    PROVE  /\ model' \in [ModelIds -> RowSet]
           /\ model'[m].status = given /\ model'[m].hash = model[m].hash
           /\ \A n \in ModelIds \ {m} : model'[n] = model[n]
<1>1. ASSUME NEW row \in RowSet
      PROVE  /\ [row EXCEPT !.status = given] \in RowSet
             /\ [row EXCEPT !.status = given].status = given
             /\ [row EXCEPT !.status = given].hash = row.hash
  BY DEF RowSet
<1>2. model \in [ModelIds -> RowSet] /\ model[m] \in RowSet
  BY ModelTypes
<1>3. model' = [model EXCEPT ![m] = [model[m] EXCEPT !.status = given]]
  OBVIOUS
<1>4. PICK row \in RowSet : row = [model[m] EXCEPT !.status = given]
                            /\ row.status = given /\ row.hash = model[m].hash
  BY <1>1, <1>2
<1>5. model' = [model EXCEPT ![m] = row]
  BY <1>3, <1>4
<1> QED BY <1>2, <1>4, <1>5

LEMMA RowsTyped ==
    ASSUME NEW given \in Statuses \cup {"unused", "removed"}, NEW hash \in AllContents \cup {NoFile}
    PROVE  /\ Row(given, hash) \in RowSet
           /\ Row(given, hash).status = given /\ Row(given, hash).hash = hash
  BY DEF Row, RowSet

LEMMA IdleOk == ASSUME NEW f \in Flows, flow'[f] = NoFlow PROVE FlowOk(f)'
  BY DEF FlowOk, NoFlow

-----------------------------------------------------------------------------

LEMMA AskedStep ==
    ASSUME ModelInv, NEW p \in People, NEW m \in ModelIds,
           Validate(p, m) \/ SaveConfig(p, m) \/ RemoveModel(p, m)
    PROVE  ModelKept
<1>0. p \in Flows /\ ModelTypeOK /\ saves \in Nat
  BY Contented DEF ModelInv, Types
<1>1. UNCHANGED <<model, file, inbox, engineVars, useVars>>
  BY DEF Validate, SaveConfig, RemoveModel
<1>2. SavesGo /\ ModelTypeOK'
  BY <1>0, <1>1 DEF SavesGo, useVars, ModelTypeOK
<1>3. CASE Validate(p, m)
  <2> DEFINE x == Mark(m, model[m].status, model[m].hash, model[m].status)
  <2>1. /\ m \in Rows /\ model[m].status # "CONVERTING" /\ Flow(p, x)
    BY <1>3 DEF Validate
  <2>2. model[m].status \in Statuses /\ Known(m) /\ model[m].hash \in AllContents \cup {NoFile}
    BY <1>0, <2>1 DEF Rows, Known, Statuses, ModelTypeOK
  <2>3. flow'[p] = x
    BY <1>0, <2>1, FlowSet DEF ModelInv
  <2>4. model[m].status = "READY" => GoodOk(m)
    BY <2>1, <2>2, ModelAssumption DEF ModelInv, RowOk, GoodOk
  <2>5. FlowOk(p)'
    <3>1. PICK y : y = x
      OBVIOUS
    <3>2. /\ y.at = "mark" /\ y.id = m /\ y.from = model[m].status
          /\ y.hash = model[m].hash /\ y.revert = model[m].status
          /\ y = Mark(y.id, y.from, y.hash, y.revert)
      BY <3>1 DEF Mark
    <3>3. flow'[p] = y
      BY <2>3, <3>1
    <3> QED BY <1>1, <2>1, <2>2, <2>4, <3>2, <3>3
            DEF FlowOk, MarkOk, PushOk, HashOk, GoodOk, Known, Rows, AllContents
  <2>6. x.at # "create"
    BY DEF Mark
  <2> HIDE DEF x
  <2> QED BY <1>0, <1>1, <1>2, <2>1, <2>5, <2>6, QuietStep
<1>4. CASE SaveConfig(p, m)
  <2>1. Flow(p, [at |-> "save", id |-> m])
    BY <1>4 DEF SaveConfig
  <2>2. flow'[p] = [at |-> "save", id |-> m]
    BY <1>0, <2>1, FlowSet DEF ModelInv
  <2>3. FlowOk(p)'
    BY <2>2 DEF FlowOk
  <2> QED BY <1>0, <1>1, <1>2, <2>1, <2>3, QuietStep
<1>5. CASE RemoveModel(p, m)
  <2>1. Flow(p, [at |-> "delete", id |-> m, saves |-> saves]) /\ uses # m
    BY <1>5 DEF RemoveModel, CamerasUsing
  <2>2. flow'[p] = [at |-> "delete", id |-> m, saves |-> saves]
    BY <1>0, <2>1, FlowSet DEF ModelInv
  <2>3. FlowOk(p)'
    BY <1>0, <1>1, <2>1, <2>2 DEF FlowOk, DeleteOk, useVars
  <2> QED BY <1>0, <1>1, <1>2, <2>1, <2>3, QuietStep
<1> QED BY <1>3, <1>4, <1>5

LEMMA StoreStep == ASSUME ModelInv, NEW p \in People, NEW c \in Contents, StoreUpload(p, c)
                   PROVE  ModelKept
<1>0. p \in Flows /\ ModelTypeOK /\ saves \in Nat
  BY Contented DEF ModelInv, Types
<1>1. UNCHANGED <<model, file, inbox, engineVars, useVars>> /\ Flow(p, [at |-> "stored", hash |-> c])
  BY DEF StoreUpload
<1>2. SavesGo /\ ModelTypeOK'
  BY <1>0, <1>1 DEF SavesGo, useVars, ModelTypeOK
<1>3. flow'[p] = [at |-> "stored", hash |-> c]
  BY <1>0, <1>1, FlowSet DEF ModelInv
<1>4. FlowOk(p)'
  BY <1>3 DEF FlowOk
<1> QED BY <1>0, <1>1, <1>2, <1>4, QuietStep

LEMMA CommitsStep == ASSUME ModelInv, NEW p \in People, SaveConfigCommits(p) PROVE ModelKept
<1>0. p \in Flows /\ ModelTypeOK /\ saves \in Nat /\ FlowOk(p)
  BY Contented DEF ModelInv, Types
<1>1. /\ flow[p].at = "save" /\ uses' = flow[p].id /\ saves' = saves + 1 /\ Flow(p, NoFlow)
      /\ UNCHANGED <<model, file, inbox, engineVars>>
  BY DEF SaveConfigCommits
<1>2. SavesGo /\ ModelTypeOK'
  BY <1>0, <1>1 DEF SavesGo, ModelTypeOK, FlowOk
<1>3. FlowOk(p)' /\ NoFlow.at # "create"
  BY <1>0, <1>1, FlowSet, IdleOk DEF ModelInv, NoFlow
<1> QED BY <1>0, <1>1, <1>2, <1>3, QuietStep

\* Another flow that makes a model has its file, which a step of this one leaves.
LEMMA OthersMake ==
    ASSUME ModelInv, NEW f \in Flows, flow[f].at = "create"
    PROVE  /\ flow[f].id \in ModelIds /\ ~Known(flow[f].id)
           /\ flow[f].id \notin TopLevel => file[flow[f].id] # NoFile
           /\ flow[f].id \in TopLevel => f = "rescan"
  BY Contented DEF ModelInv, FlowOk, CreateOk, AllContents

\* A file gets its path.
LEMMA MakesStep ==
    ASSUME ModelInv, NEW g \in Flows, NEW m \in ModelIds \ TopLevel, NEW c \in Contents,
           model[m] = Unused, file[m] = NoFile,
           SetFile(m, c), Flow(g, [at |-> "create", id |-> m, hash |-> c]),
           inbox' \subseteq Contents, UNCHANGED <<model, engineVars, useVars>>
    PROVE  ModelKept
<1>0. ModelTypeOK /\ saves \in Nat /\ m \in ModelIds
  BY DEF ModelInv, Types
<1>1. UNCHANGED <<model, jobs, worker, uses, saves>>
  BY DEF engineVars, useVars
<1>2. /\ file' \in [ModelIds -> AllContents \cup {NoFile}] /\ file'[m] = c
      /\ \A n \in ModelIds \ {m} : file'[n] = file[n]
  BY <1>0, ModelTypes DEF SetFile, AllContents
<1>3. SavesGo
  BY <1>0, <1>1 DEF SavesGo
<1>4. ModelTypeOK'
  BY <1>0, <1>1, <1>2 DEF ModelTypeOK
<1>5. ~Known(m) /\ ~(m \in Rows)
  BY DEF Known, Unused, Row, Rows, Statuses
<1>6. \A n \in ModelIds : Moved(n)
  <2>1. RowOk(m)'
    BY <1>1 DEF RowOk, Unused, Row, Rows, Statuses
  <2>2. Moved(m)
    BY <1>5, <2>1 DEF Moved
  <2>3. ASSUME NEW n \in ModelIds \ {m} PROVE Moved(n)
    BY <1>1, <1>2, <2>3 DEF Moved
  <2> QED BY <2>2, <2>3
<1>7. jobs' \in Seq(Tasks) /\ JobsOk' /\ WorkerOk'
  BY <1>1, <1>6, JobsKept, WorkerKept
<1>8. /\ flow' = [f \in Flows |-> flow'[f]]
      /\ flow'[g] = [at |-> "create", id |-> m, hash |-> c]
      /\ \A f \in Flows \ {g} : flow'[f] = flow[f]
  BY FlowSet DEF ModelInv
<1>9. FlowOk(g)'
  BY <1>1, <1>2, <1>5, <1>8 DEF FlowOk, CreateOk, Known
<1>10. ASSUME NEW f \in Flows \ {g}, flow[f].at = "create"
       PROVE  /\ model'[flow[f].id] = model[flow[f].id]
              /\ file'[flow[f].id] = file[flow[f].id]
              /\ flow'[g].id # flow[f].id
  BY <1>1, <1>2, <1>8, <1>10, OthersMake
<1> QED BY <1>3, <1>4, <1>6, <1>7, <1>8, <1>9, <1>10, FlowStep

LEMMA UploadStep == ASSUME ModelInv, NEW p \in People, NEW m \in ModelIds \ TopLevel, Upload(p, m)
                    PROVE  ModelKept
<1>0. p \in Flows /\ ModelTypeOK /\ saves \in Nat /\ FlowOk(p)
  BY Contented DEF ModelInv, Types
<1>1. PICK c \in Contents : c = flow[p].hash
  BY <1>0 DEF Upload, FlowOk
<1>2. CASE HashKnown(c)
  <2>1. Flow(p, NoFlow) /\ UNCHANGED <<model, file, inbox, engineVars, useVars>>
    BY <1>1, <1>2 DEF Upload
  <2>2. SavesGo /\ ModelTypeOK'
    BY <1>0, <2>1 DEF SavesGo, useVars, ModelTypeOK
  <2>3. FlowOk(p)' /\ NoFlow.at # "create"
    BY <1>0, <2>1, FlowSet, IdleOk DEF ModelInv, NoFlow
  <2> QED BY <1>0, <2>1, <2>2, <2>3, QuietStep
<1>3. CASE ~HashKnown(c)
  <2>1. /\ model[m] = Unused /\ file[m] = NoFile /\ SetFile(m, c)
        /\ Flow(p, [at |-> "create", id |-> m, hash |-> c])
        /\ UNCHANGED <<model, inbox, engineVars, useVars>>
    BY <1>1, <1>3 DEF Upload, SetFile
  <2>2. inbox' \subseteq Contents
    BY <1>0, <2>1 DEF ModelTypeOK
  <2> QED BY <1>0, <2>1, <2>2, MakesStep
<1> QED BY <1>2, <1>3

LEMMA AdoptStep ==
    ASSUME ModelInv, NEW m \in ModelIds \ TopLevel, NEW c \in Contents, AdoptInbox(m, c)
    PROVE  ModelKept
<1>0. "rescan" \in Flows /\ ModelTypeOK
  BY Contented DEF ModelInv, Types
<1>1. /\ model[m] = Unused /\ file[m] = NoFile /\ SetFile(m, c)
      /\ Flow("rescan", [at |-> "create", id |-> m, hash |-> c])
      /\ inbox' = inbox \ {c} /\ UNCHANGED <<model, engineVars, useVars>>
  BY DEF AdoptInbox
<1>2. inbox' \subseteq Contents
  BY <1>0, <1>1 DEF ModelTypeOK
<1> QED BY <1>0, <1>1, <1>2, MakesStep

LEMMA BuiltinStep == ASSUME ModelInv, NEW m \in TopLevel, AdoptBuiltin(m) PROVE ModelKept
<1>0. "rescan" \in Flows /\ ModelTypeOK /\ saves \in Nat /\ m \in ModelIds
  BY Contented DEF ModelInv, Types
<1>1. PICK c \in AllContents : c = file[m]
  BY <1>0 DEF AdoptBuiltin, ModelTypeOK
<1>2. /\ model[m] = Unused
      /\ Flow("rescan", [at |-> "create", id |-> m, hash |-> c])
      /\ UNCHANGED <<model, file, inbox, jobs, worker, uses, saves>>
  BY <1>1 DEF AdoptBuiltin, engineVars, useVars
<1>3. SavesGo /\ ModelTypeOK' /\ ~Known(m)
  BY <1>0, <1>2 DEF SavesGo, ModelTypeOK, Known, Unused, Row
<1>4. \A n \in ModelIds : Moved(n)
  BY <1>2 DEF Moved
<1>5. jobs' \in Seq(Tasks) /\ JobsOk' /\ WorkerOk'
  BY <1>2, <1>4, JobsKept, WorkerKept
<1>6. /\ flow' = [f \in Flows |-> flow'[f]]
      /\ flow'["rescan"] = [at |-> "create", id |-> m, hash |-> c]
      /\ \A f \in Flows \ {"rescan"} : flow'[f] = flow[f]
  BY <1>0, <1>2, FlowSet DEF ModelInv
<1>7. FlowOk("rescan")'
  BY <1>0, <1>2, <1>3, <1>6 DEF FlowOk, CreateOk, Known, AllContents
<1>8. ASSUME NEW f \in Flows \ {"rescan"}, flow[f].at = "create"
      PROVE  flow'["rescan"].id # flow[f].id
  BY <1>6, <1>8, OthersMake
<1> QED BY <1>0, <1>2, <1>3, <1>4, <1>5, <1>6, <1>7, <1>8, FlowStep

LEMMA InsertStep ==
    ASSUME ModelInv, NEW g \in Flows, NEW fails \in BOOLEAN, NEW stored \in BOOLEAN,
           Insert(g, fails, stored), inbox' \subseteq Contents
    PROVE  ModelKept
<1>0. ModelTypeOK /\ saves \in Nat /\ FlowOk(g) /\ flow[g].at = "create"
  BY DEF ModelInv, Types, Insert
<1>1. CreateOk(g)
  BY <1>0 DEF FlowOk
<1>2. PICK m \in ModelIds, c \in AllContents : m = flow[g].id /\ c = flow[g].hash
  BY <1>1 DEF CreateOk, AllContents
<1> DEFINE refused == HashKnown(c) \/ fails
<1>3. /\ stored => fails /\ ~HashKnown(c)
      /\ model' = IF refused /\ ~stored THEN model ELSE [model EXCEPT ![m] = Row("UPLOADED", c)]
      /\ Flow(g, IF refused THEN NoFlow ELSE Mark(m, "UPLOADED", c, "UPLOADED"))
      /\ file' = IF refused /\ m \notin TopLevel THEN [file EXCEPT ![m] = NoFile] ELSE file
      /\ UNCHANGED <<jobs, worker, uses, saves>>
  BY <1>2 DEF Insert, engineVars, useVars
<1>4. ~Known(m) /\ (m \notin TopLevel => file[m] = c) /\ Row("UPLOADED", c) \in RowSet
      /\ Row("UPLOADED", c).status = "UPLOADED" /\ Row("UPLOADED", c).hash = c
  BY <1>1, <1>2, RowsTyped DEF CreateOk, Statuses
<1> HIDE DEF refused
<1>5. /\ model' \in [ModelIds -> RowSet]
      /\ model'[m] = IF refused /\ ~stored THEN model[m] ELSE Row("UPLOADED", c)
      /\ \A n \in ModelIds \ {m} : model'[n] = model[n]
  BY <1>0, <1>3, <1>4, RowReplaced, ModelTypes DEF SetRow
<1>6. /\ file' \in [ModelIds -> AllContents \cup {NoFile}]
      /\ file'[m] = IF refused /\ m \notin TopLevel THEN NoFile ELSE file[m]
      /\ \A n \in ModelIds \ {m} : file'[n] = file[n]
  BY <1>0, <1>3, ModelTypes
<1>7. SavesGo /\ ModelTypeOK'
  BY <1>0, <1>3, <1>5, <1>6 DEF SavesGo, ModelTypeOK, RowSet
<1>8. \A n \in ModelIds : Moved(n)
  <2>1. m \notin TopLevel => RowOk(m)'
    BY <1>4, <1>5, <1>6 DEF RowOk, Rows, Known, Statuses
  <2>2. Moved(m)
    BY <1>4, <2>1 DEF Moved
  <2>3. ASSUME NEW n \in ModelIds \ {m} PROVE Moved(n)
    BY <1>5, <1>6, <2>3 DEF Moved
  <2> QED BY <2>2, <2>3
<1>9. jobs' \in Seq(Tasks) /\ JobsOk' /\ WorkerOk'
  BY <1>3, <1>8, JobsKept, WorkerKept
<1>10. /\ flow' = [f \in Flows |-> flow'[f]]
       /\ flow'[g] = IF refused THEN NoFlow ELSE Mark(m, "UPLOADED", c, "UPLOADED")
       /\ \A f \in Flows \ {g} : flow'[f] = flow[f]
  BY <1>3, FlowSet DEF ModelInv
<1>11. FlowOk(g)' /\ flow'[g].at # "create"
  <2>1. CASE refused
    BY <1>10, <2>1, IdleOk DEF NoFlow
  <2>2. CASE ~refused
    <3>1. PICK y : y = Mark(m, "UPLOADED", c, "UPLOADED")
      OBVIOUS
    <3>2. /\ y.at = "mark" /\ y.id = m /\ y.from = "UPLOADED"
          /\ y.hash = c /\ y.revert = "UPLOADED"
          /\ y = Mark(y.id, y.from, y.hash, y.revert)
      BY <3>1 DEF Mark
    <3>3. flow'[g] = y
      BY <1>10, <2>2, <3>1
    <3>4. model'[m].status = "UPLOADED" /\ model'[m].hash = c
      BY <1>4, <1>5, <2>2
    <3> QED BY <3>2, <3>3, <3>4 DEF FlowOk, MarkOk, PushOk, HashOk, Known, Statuses
  <2> QED BY <2>1, <2>2
<1>12. ASSUME NEW f \in Flows \ {g}, flow[f].at = "create"
       PROVE  /\ model'[flow[f].id] = model[flow[f].id]
              /\ file'[flow[f].id] = file[flow[f].id]
  <2>1. flow[f].id # m /\ flow[f].id \in ModelIds
    BY <1>0, <1>2, <1>12, OthersMake DEF ModelInv, OneCreates
  <2> QED BY <1>5, <1>6, <2>1
<1> QED BY <1>7, <1>8, <1>9, <1>10, <1>11, <1>12, FlowStep

LEMMA CreateModelStep ==
    ASSUME ModelInv, NEW fails \in BOOLEAN, NEW stored \in BOOLEAN,
           (\E p \in People : CreateRow(p, fails, stored)) \/ CreateAdopted(fails, stored)
    PROVE  ModelKept
<1>0. ModelTypeOK
  BY DEF ModelInv, Types
<1>1. ASSUME NEW p \in People, CreateRow(p, fails, stored) PROVE ModelKept
  <2>1. p \in Flows /\ inbox' \subseteq Contents /\ Insert(p, fails, stored)
    BY <1>0, <1>1, Contented DEF CreateRow, ModelTypeOK
  <2> QED BY <2>1, InsertStep
<1>2. CASE CreateAdopted(fails, stored)
  <2>1. /\ "rescan" \in Flows /\ Insert("rescan", fails, stored)
        /\ inbox' = inbox \/ (/\ flow["rescan"].id \notin TopLevel
                              /\ inbox' = inbox \cup {flow["rescan"].hash})
    BY <1>2, Contented DEF CreateAdopted
  <2>2. flow["rescan"].id \notin TopLevel => flow["rescan"].hash \in Contents
    BY <2>1 DEF ModelInv, FlowOk, CreateOk, Insert
  <2>3. inbox' \subseteq Contents
    BY <1>0, <2>1, <2>2 DEF ModelTypeOK
  <2> QED BY <2>1, <2>3, InsertStep
<1> QED BY <1>1, <1>2

\* A step of one flow that touches one model, which is there.
LEMMA ModelMoves ==
    ASSUME ModelInv, NEW m \in ModelIds, Moved(m),
           \A n \in ModelIds \ {m} : model'[n] = model[n] /\ file'[n] = file[n]
    PROVE  \A n \in ModelIds : Moved(n)
  BY DEF Moved

LEMMA ModelStep ==
    ASSUME ModelInv, NEW m \in ModelIds, Known(m), Moved(m),
           model' \in [ModelIds -> RowSet], file' \in [ModelIds -> AllContents \cup {NoFile}],
           \A n \in ModelIds \ {m} : model'[n] = model[n] /\ file'[n] = file[n],
           UNCHANGED <<inbox, uses, saves>>,
           jobs' \in Seq(Tasks), JobsOk', WorkerOk',
           NEW g \in Flows, NEW x, Flow(g, x), FlowOk(g)', x.at # "create"
    PROVE  ModelKept
<1>0. ModelTypeOK /\ saves \in Nat
  BY DEF ModelInv, Types
<1>1. SavesGo /\ ModelTypeOK'
  BY <1>0 DEF SavesGo, ModelTypeOK, RowSet
<1>2. \A n \in ModelIds : Moved(n)
  BY ModelMoves
<1>3. /\ flow' = [f \in Flows |-> flow'[f]]
      /\ flow'[g] = x
      /\ \A f \in Flows \ {g} : flow'[f] = flow[f]
  BY FlowSet DEF ModelInv
<1>4. ASSUME NEW f \in Flows \ {g}, flow[f].at = "create"
      PROVE  /\ model'[flow[f].id] = model[flow[f].id]
             /\ file'[flow[f].id] = file[flow[f].id]
  <2>1. flow[f].id # m /\ flow[f].id \in ModelIds
    BY <1>4, OthersMake
  <2> QED BY <2>1
<1> QED BY <1>1, <1>2, <1>3, <1>4, FlowStep

LEMMA MarkStep == ASSUME ModelInv, NEW g \in Flows, MarkValidating(g) PROVE ModelKept
<1>0. ModelTypeOK /\ FlowOk(g) /\ flow[g].at = "mark"
  BY DEF ModelInv, Types, MarkValidating
<1>1. MarkOk(g) /\ PushOk(g)
  BY <1>0 DEF FlowOk
<1>2. PICK m \in ModelIds, c \in AllContents \cup {NoFile}, from \in Statuses :
         m = flow[g].id /\ c = flow[g].hash /\ from = flow[g].from
  BY <1>1 DEF MarkOk, PushOk
<1> DEFINE twin == from = "CONVERTING" /\ \E n \in Rows \ {m} : model[n].hash = c
           x == [flow[g] EXCEPT !.at = "push"]
<1>3. /\ model' = IF model[m].status # from THEN model
                  ELSE IF twin THEN [model EXCEPT ![m].status = "FAILED"]
                  ELSE [model EXCEPT ![m] = Row("VALIDATING", c)]
      /\ Flow(g, IF model[m].status = from /\ ~twin THEN x ELSE NoFlow)
      /\ UNCHANGED <<file, inbox, jobs, worker, uses, saves>>
  BY <1>2 DEF MarkValidating, engineVars, useVars
<1>4. /\ file' \in [ModelIds -> AllContents \cup {NoFile}] /\ Known(m)
      /\ model \in [ModelIds -> RowSet]
  BY <1>0, <1>1, <1>2, <1>3, ModelTypes DEF PushOk
<1> HIDE DEF twin, x
<1>5. CASE model[m].status = from /\ ~twin
  <2>1. SetRow(m, Row("VALIDATING", c)) /\ Flow(g, x)
    BY <1>3, <1>5 DEF SetRow
  <2>2. /\ Row("VALIDATING", c) \in RowSet /\ Row("VALIDATING", c).status = "VALIDATING"
        /\ Row("VALIDATING", c).hash = c
    BY RowsTyped DEF Statuses
  <2>3. /\ model' \in [ModelIds -> RowSet] /\ model'[m] = Row("VALIDATING", c)
        /\ \A n \in ModelIds \ {m} : model'[n] = model[n]
    BY <1>0, <2>1, <2>2, RowReplaced
  <2>4. m \in Rows
    BY <1>5 DEF Rows
  <2>5. Moved(m)
    <3>1. CASE from = "CONVERTING"
      <4>1. c = Converted /\ ExportOk(m)
        BY <1>1, <1>2, <3>1 DEF MarkOk
      <4> QED BY <1>3, <1>5, <2>2, <2>3, <2>4, <3>1, <4>1 DEF Moved
    <3>2. CASE from # "CONVERTING"
      <4>1. model[m].hash = c
        BY <1>1, <1>2, <2>4, <3>2 DEF MarkOk, HashOk
      <4> QED BY <1>3, <2>2, <2>3, <2>4, <4>1 DEF Moved, Statuses
    <3> QED BY <3>1, <3>2
  <2>6. \A n \in ModelIds : Moved(n)
    BY <1>3, <2>3, <2>5, ModelMoves
  <2>7. jobs' \in Seq(Tasks) /\ JobsOk' /\ WorkerOk'
    BY <1>3, <2>6, JobsKept, WorkerKept
  <2>8. x.at = "push" /\ x.id = m /\ x.revert = flow[g].revert
    <3>1. x.at = "push" /\ x.id = flow[g].id /\ x.revert = flow[g].revert
      BY <1>1 DEF MarkOk, Mark, x
    <3> QED BY <1>2, <3>1
  <2>9. FlowOk(g)'
    <3>1. PICK y : y = x
      OBVIOUS
    <3>2. flow'[g] = y
      BY <2>1, <3>1, FlowSet DEF ModelInv
    <3>3. Known(m)' /\ (GoodOk(m) => GoodOk(m)')
      BY <1>0, <1>4, <2>5, MovedKeeps
    <3>4. y.revert \in Statuses \ {"CONVERTING"} /\ (y.revert = "READY" => GoodOk(m))
      BY <1>1, <1>2, <2>8, <3>1 DEF PushOk
    <3> QED BY <2>8, <3>1, <3>2, <3>3, <3>4 DEF FlowOk, PushOk
  <2> QED BY <1>3, <1>4, <2>1, <2>3, <2>5, <2>7, <2>8, <2>9, ModelStep
<1>6. CASE ~(model[m].status = from /\ ~twin)
  <2>1. Flow(g, NoFlow)
    BY <1>3, <1>6
  <2>2. /\ model' \in [ModelIds -> RowSet]
        /\ \A n \in ModelIds \ {m} : model'[n] = model[n]
        /\ Moved(m)
    <3>1. CASE model[m].status # from
      <4>1. model' = model
        BY <1>3, <3>1
      <4> QED BY <1>3, <1>4, <4>1 DEF Moved
    <3>2. CASE model[m].status = from /\ twin
      <4>1. model' = [model EXCEPT ![m].status = "FAILED"]
        BY <1>3, <3>2
      <4>2. /\ model' \in [ModelIds -> RowSet]
            /\ model'[m].status = "FAILED" /\ model'[m].hash = model[m].hash
            /\ \A n \in ModelIds \ {m} : model'[n] = model[n]
        BY <1>0, <4>1, StatusSet DEF Statuses
      <4>3. m \in Rows /\ model[m].status = "CONVERTING"
        BY <3>2 DEF Rows, twin
      <4> QED BY <1>3, <4>2, <4>3 DEF Moved, Statuses
    <3> QED BY <1>6, <3>1, <3>2
  <2>3. \A n \in ModelIds : Moved(n)
    BY <1>3, <2>2, ModelMoves
  <2>4. jobs' \in Seq(Tasks) /\ JobsOk' /\ WorkerOk'
    BY <1>3, <2>3, JobsKept, WorkerKept
  <2>5. FlowOk(g)' /\ NoFlow.at # "create"
    BY <2>1, FlowSet, IdleOk DEF ModelInv, NoFlow
  <2> QED BY <1>3, <1>4, <2>1, <2>2, <2>4, <2>5, ModelStep
<1> QED BY <1>5, <1>6

LEMMA PushStep ==
    ASSUME ModelInv, NEW g \in Flows, NEW fails \in BOOLEAN, NEW reached \in BOOLEAN,
           PushValidation(g, fails, reached)
    PROVE  ModelKept
<1>0. ModelTypeOK /\ FlowOk(g) /\ flow[g].at = "push"
  BY DEF ModelInv, Types, PushValidation
<1>1. PushOk(g)
  BY <1>0 DEF FlowOk
<1>2. PICK m \in ModelIds, revert \in Statuses \ {"CONVERTING"} :
         m = flow[g].id /\ revert = flow[g].revert
  BY <1>1 DEF PushOk
<1> DEFINE task == [type |-> "validate", id |-> m]
<1>3. /\ jobs' = IF reached THEN Append(jobs, task) ELSE jobs
      /\ model' = IF fails /\ model[m].status = "VALIDATING"
                  THEN [model EXCEPT ![m].status = revert] ELSE model
      /\ Flow(g, NoFlow)
      /\ UNCHANGED <<file, inbox, worker, uses, saves>>
  BY <1>2 DEF PushValidation, useVars
<1>4. /\ file' \in [ModelIds -> AllContents \cup {NoFile}] /\ Known(m)
      /\ model \in [ModelIds -> RowSet] /\ (revert = "READY" => GoodOk(m))
  BY <1>0, <1>1, <1>2, <1>3, ModelTypes DEF PushOk
<1>5. task \in Tasks /\ JobOk(task)
  BY <1>4 DEF Tasks, JobOk
<1> HIDE DEF task
<1>6. /\ model' \in [ModelIds -> RowSet]
      /\ \A n \in ModelIds \ {m} : model'[n] = model[n]
      /\ Moved(m)
  <2>1. CASE fails /\ model[m].status = "VALIDATING"
    <3>1. model' = [model EXCEPT ![m].status = revert]
      BY <1>3, <2>1
    <3>2. /\ model' \in [ModelIds -> RowSet]
          /\ model'[m].status = revert /\ model'[m].hash = model[m].hash
          /\ \A n \in ModelIds \ {m} : model'[n] = model[n]
      BY <1>0, <3>1, StatusSet
    <3>3. m \in Rows
      BY <2>1 DEF Rows, Statuses
    <3> QED BY <1>3, <1>4, <3>2, <3>3 DEF Moved
  <2>2. CASE ~(fails /\ model[m].status = "VALIDATING")
    <3>1. model' = model
      BY <1>3, <2>2
    <3> QED BY <1>3, <1>4, <3>1 DEF Moved
  <2> QED BY <2>1, <2>2
<1>7. \A n \in ModelIds : Moved(n)
  BY <1>3, <1>6, ModelMoves
<1>8. jobs' \in Seq(Tasks) /\ JobsOk'
  <2>1. CASE reached
    BY <1>3, <1>5, <1>7, <2>1, JobQueued
  <2>2. CASE ~reached
    BY <1>3, <1>7, <2>2, JobsKept
  <2> QED BY <2>1, <2>2
<1>9. WorkerOk' /\ FlowOk(g)' /\ NoFlow.at # "create"
  BY <1>3, <1>7, WorkerKept, FlowSet, IdleOk DEF ModelInv, NoFlow
<1> QED BY <1>3, <1>4, <1>6, <1>8, <1>9, ModelStep

LEMMA ConvertStep ==
    ASSUME ModelInv, NEW p \in People, NEW m \in TopLevel, NEW target \in ModelIds \ TopLevel,
           Convert(p, m, target)
    PROVE  ModelKept
<1> DEFINE x == [at |-> "queue", from |-> m, id |-> target]
           row == Row("CONVERTING", NoFile)
<1>0. p \in Flows /\ ModelTypeOK /\ saves \in Nat /\ target \in ModelIds
  BY Contented DEF ModelInv, Types
<1>1. /\ model[target] = Unused /\ file[target] = NoFile
      /\ Flow(p, x) /\ SetRow(target, row)
      /\ UNCHANGED <<file, inbox, jobs, worker, uses, saves>>
  BY DEF Convert, engineVars, useVars
<1>2. row \in RowSet /\ row.status = "CONVERTING" /\ row.hash = NoFile
  BY RowsTyped DEF Statuses
<1> HIDE DEF row
<1>3. /\ model' \in [ModelIds -> RowSet] /\ model'[target] = row
      /\ \A n \in ModelIds \ {target} : model'[n] = model[n]
  BY <1>0, <1>1, <1>2, RowReplaced
<1>4. SavesGo /\ ModelTypeOK'
  BY <1>0, <1>1, <1>3 DEF SavesGo, ModelTypeOK, RowSet
<1>5. ~Known(target)
  BY <1>1 DEF Known, Unused, Row
<1>6. \A n \in ModelIds : Moved(n)
  <2>1. RowOk(target)'
    BY <1>1, <1>2, <1>3 DEF RowOk, Rows
  <2>2. Moved(target)
    BY <1>5, <2>1 DEF Moved
  <2>3. ASSUME NEW n \in ModelIds \ {target} PROVE Moved(n)
    BY <1>1, <1>3, <2>3 DEF Moved
  <2> QED BY <2>2, <2>3
<1>7. jobs' \in Seq(Tasks) /\ JobsOk' /\ WorkerOk'
  BY <1>1, <1>6, JobsKept, WorkerKept
<1>8. /\ flow' = [f \in Flows |-> flow'[f]]
      /\ flow'[p] = x
      /\ \A f \in Flows \ {p} : flow'[f] = flow[f]
  BY <1>0, <1>1, FlowSet DEF ModelInv
<1>9. FlowOk(p)' /\ flow'[p].at # "create"
  <2>1. TargetOk(target)'
    BY <1>0, <1>1, <1>2, <1>3 DEF TargetOk, Known
  <2>2. m \in ModelIds
    BY Contented
  <2> QED BY <1>8, <2>1, <2>2 DEF FlowOk, TargetOk, Known
<1>10. ASSUME NEW f \in Flows \ {p}, flow[f].at = "create"
       PROVE  /\ model'[flow[f].id] = model[flow[f].id]
              /\ file'[flow[f].id] = file[flow[f].id]
  <2>1. flow[f].id # target /\ flow[f].id \in ModelIds
    BY <1>1, <1>10, OthersMake
  <2> QED BY <1>1, <1>3, <2>1
<1> QED BY <1>0, <1>4, <1>6, <1>7, <1>8, <1>9, <1>10, FlowStep

LEMMA RemovedRow == Removed \in RowSet /\ Removed.status = "removed" /\ Removed.hash = NoFile
  BY DEF Removed, Row, RowSet

LEMMA QueueStep ==
    ASSUME ModelInv, NEW p \in People, NEW fails \in BOOLEAN, NEW reached \in BOOLEAN,
           PushConversion(p, fails, reached)
    PROVE  ModelKept
<1>0. p \in Flows /\ ModelTypeOK /\ FlowOk(p) /\ flow[p].at = "queue"
  BY Contented DEF ModelInv, Types, PushConversion
<1>1. TargetOk(flow[p].id)
  BY <1>0 DEF FlowOk
<1>2. PICK m \in ModelIds : m = flow[p].id
  BY <1>1 DEF TargetOk
<1> DEFINE task == [type |-> "convert", id |-> m, from |-> flow[p].from]
<1>3. /\ jobs' = IF reached THEN Append(jobs, task) ELSE jobs
      /\ model' = IF fails THEN [model EXCEPT ![m] = Removed] ELSE model
      /\ Flow(p, NoFlow)
      /\ UNCHANGED <<file, inbox, worker, uses, saves>>
  BY <1>2 DEF PushConversion, useVars
<1>4. /\ file' \in [ModelIds -> AllContents \cup {NoFile}] /\ TargetOk(m) /\ Known(m)
      /\ model \in [ModelIds -> RowSet] /\ flow[p].from \in ModelIds
  BY <1>0, <1>1, <1>2, <1>3, ModelTypes DEF TargetOk, FlowOk
<1>5. task \in Tasks /\ JobOk(task)
  BY <1>4 DEF Tasks, JobOk
<1>6. /\ model' \in [ModelIds -> RowSet]
      /\ \A n \in ModelIds \ {m} : model'[n] = model[n]
      /\ Moved(m)
  <2>1. CASE fails
    <3>1. SetRow(m, Removed)
      BY <1>3, <2>1 DEF SetRow
    <3>2. /\ model' \in [ModelIds -> RowSet] /\ model'[m] = Removed
          /\ \A n \in ModelIds \ {m} : model'[n] = model[n]
      BY <1>0, <3>1, RowReplaced, RemovedRow
    <3> QED BY <1>3, <3>2 DEF Moved
  <2>2. CASE ~fails
    BY <1>3, <1>4, <2>2 DEF Moved
  <2> QED BY <2>1, <2>2
<1>7. \A n \in ModelIds : Moved(n)
  BY <1>3, <1>6, ModelMoves
<1>8. jobs' \in Seq(Tasks) /\ JobsOk'
  <2>1. CASE reached
    <3>1. PICK j \in Tasks : j = task /\ JobOk(j)
      BY <1>5
    <3>2. jobs' = Append(jobs, j)
      BY <1>3, <2>1, <3>1
    <3> QED BY <1>7, <3>1, <3>2, JobQueued
  <2>2. CASE ~reached
    BY <1>3, <1>7, <2>2, JobsKept
  <2> QED BY <2>1, <2>2
<1> HIDE DEF task
<1>9. WorkerOk' /\ FlowOk(p)' /\ NoFlow.at # "create"
  BY <1>0, <1>3, <1>7, WorkerKept, FlowSet, IdleOk DEF ModelInv, NoFlow
<1> QED BY <1>0, <1>3, <1>4, <1>6, <1>8, <1>9, ModelStep

LEMMA RowRemoveStep == ASSUME ModelInv, NEW p \in People, DeleteRow(p) \/ DeleteFile(p)
                    PROVE  ModelKept
<1>0. p \in Flows /\ ModelTypeOK /\ FlowOk(p)
  BY Contented DEF ModelInv, Types
<1>1. CASE DeleteRow(p)
  <2>1. flow[p].at = "delete" /\ DeleteOk(p)
    BY <1>0, <1>1 DEF DeleteRow, FlowOk
  <2>2. PICK m \in ModelIds : m = flow[p].id
    BY <2>1 DEF DeleteOk
  <2> DEFINE x == IF m \in Rows THEN [at |-> "rm", id |-> m] ELSE NoFlow
  <2>3. /\ model' = IF m \in Rows THEN [model EXCEPT ![m] = Removed] ELSE model
        /\ Flow(p, x) /\ UNCHANGED <<file, inbox, jobs, worker, uses, saves>>
    BY <1>1, <2>2 DEF DeleteRow, engineVars, useVars
  <2>4. file' \in [ModelIds -> AllContents \cup {NoFile}] /\ model \in [ModelIds -> RowSet]
    BY <1>0, <2>3, ModelTypes
  <2>5. flow'[p] = x /\ x.at # "create"
    BY <1>0, <2>3, FlowSet DEF ModelInv, NoFlow
  <2>6. CASE m \in Rows
    <3>1. SetRow(m, Removed) /\ Known(m)
      BY <2>3, <2>6 DEF SetRow, Rows, Known, Statuses
    <3>2. /\ model' \in [ModelIds -> RowSet] /\ model'[m] = Removed
          /\ \A n \in ModelIds \ {m} : model'[n] = model[n]
      BY <1>0, <3>1, RowReplaced, RemovedRow
    <3>3. Moved(m)
      BY <2>3, <3>2 DEF Moved
    <3>4. \A n \in ModelIds : Moved(n)
      BY <2>3, <3>2, <3>3, ModelMoves
    <3>5. jobs' \in Seq(Tasks) /\ JobsOk' /\ WorkerOk'
      BY <2>3, <3>4, JobsKept, WorkerKept
    <3>6. FlowOk(p)'
      BY <2>5, <2>6, <3>2, RemovedRow DEF FlowOk
    <3> HIDE DEF x
    <3> QED BY <1>0, <2>3, <2>4, <2>5, <3>1, <3>2, <3>3, <3>5, <3>6, ModelStep
  <2>7. CASE m \notin Rows
    <3>1. UNCHANGED <<model, file, inbox, engineVars>> /\ Flow(p, NoFlow)
      BY <2>3, <2>7 DEF engineVars
    <3>2. SavesGo /\ ModelTypeOK'
      BY <1>0, <2>3, <3>1 DEF SavesGo, ModelTypeOK, ModelInv, Types
    <3>3. FlowOk(p)' /\ NoFlow.at # "create"
      BY <1>0, <3>1, FlowSet, IdleOk DEF ModelInv, NoFlow
    <3> QED BY <1>0, <3>1, <3>2, <3>3, QuietStep
  <2> QED BY <2>6, <2>7
<1>2. CASE DeleteFile(p)
  <2>1. flow[p].at = "rm"
    BY <1>2 DEF DeleteFile
  <2>2. PICK m \in ModelIds : m = flow[p].id /\ model[m].status = "removed"
    BY <1>0, <2>1 DEF FlowOk
  <2>3. /\ SetFile(m, NoFile) /\ Flow(p, NoFlow)
        /\ UNCHANGED <<model, inbox, jobs, worker, uses, saves>>
    BY <1>2, <2>2 DEF DeleteFile, engineVars, useVars
  <2>4. /\ file' \in [ModelIds -> AllContents \cup {NoFile}] /\ file'[m] = NoFile
        /\ \A n \in ModelIds \ {m} : file'[n] = file[n]
        /\ model' \in [ModelIds -> RowSet] /\ Known(m)
    BY <1>0, <2>2, <2>3, ModelTypes DEF SetFile, Known
  <2>5. Moved(m)
    BY <2>2, <2>3, <2>4 DEF Moved
  <2>6. \A n \in ModelIds : Moved(n)
    BY <2>3, <2>4, <2>5, ModelMoves
  <2>7. jobs' \in Seq(Tasks) /\ JobsOk' /\ WorkerOk'
    BY <2>3, <2>6, JobsKept, WorkerKept
  <2>8. FlowOk(p)' /\ NoFlow.at # "create"
    BY <1>0, <2>3, FlowSet, IdleOk DEF ModelInv, NoFlow
  <2> QED BY <1>0, <2>3, <2>4, <2>5, <2>7, <2>8, ModelStep
<1> QED BY <1>1, <1>2

\* A step of the engine: no flow moves but the report's.
LEMMA EngineStep ==
    ASSUME ModelInv, UNCHANGED <<inbox, uses, saves>>, ModelTypeOK',
           \A m \in ModelIds : Moved(m),
           \A f \in Flows : flow[f].at = "create" =>
              /\ model'[flow[f].id] = model[flow[f].id]
              /\ file'[flow[f].id] = file[flow[f].id],
           jobs' \in Seq(Tasks), JobsOk', WorkerOk',
           NEW x, flow' = flow \/ (Flow("report", x) /\ FlowOk("report")' /\ x.at # "create")
    PROVE  ModelKept
<1>0. ModelTypeOK /\ saves \in Nat /\ "report" \in Flows /\ flow = [f \in Flows |-> flow[f]]
  BY Contented DEF ModelInv, Types
<1>1. SavesGo
  BY <1>0 DEF SavesGo
<1>2. CASE flow' = flow
  <2>1. FlowOk("report")'
    BY <1>0, <1>1, <1>2, FlowKept
  <2>2. \A f \in Flows \ {"report"} :
           flow[f].at = "create" /\ flow'["report"].at = "create" =>
              flow'["report"].id # flow[f].id
    BY <1>0, <1>2 DEF ModelInv, OneCreates
  <2> QED BY <1>0, <1>1, <1>2, <2>1, <2>2, FlowStep
<1>3. CASE Flow("report", x) /\ FlowOk("report")' /\ x.at # "create"
  <2>1. /\ flow' = [f \in Flows |-> flow'[f]]
        /\ flow'["report"] = x
        /\ \A f \in Flows \ {"report"} : flow'[f] = flow[f]
    BY <1>0, <1>3, FlowSet DEF ModelInv
  <2> QED BY <1>0, <1>1, <1>3, <2>1, FlowStep
<1> QED BY <1>2, <1>3

LEMMA TakeStep == ASSUME ModelInv, TakeJob PROVE ModelKept
<1>0. ModelTypeOK /\ jobs \in Seq(Tasks) /\ JobsOk
  BY DEF ModelInv, Types
<1>1. /\ jobs # <<>> /\ worker' = [at |-> "work", job |-> Head(jobs)] /\ jobs' = Tail(jobs)
      /\ UNCHANGED <<model, file, inbox, flow, uses, saves>>
  BY DEF TakeJob, useVars
<1>2. ModelTypeOK' /\ \A m \in ModelIds : Moved(m)
  BY <1>0, <1>1 DEF ModelTypeOK, Moved
<1>3. /\ jobs' \in Seq(Tasks) /\ Len(jobs) \in Nat /\ Len(jobs) > 0
      /\ Head(jobs) = jobs[1] /\ jobs[1] \in Tasks
      /\ Len(jobs') = Len(jobs) - 1
      /\ \A i \in 1 .. Len(jobs') : jobs'[i] = jobs[i + 1]
  BY <1>0, <1>1, HeadTailProperties, ElementOfSeq, EmptySeq
<1>4. JobsOk'
  <2>1. ASSUME NEW i \in 1 .. Len(jobs'), NEW task \in Tasks, task = jobs'[i] PROVE JobOk(task)'
    <3>1. i + 1 \in 1 .. Len(jobs) /\ task = jobs[i + 1]
      BY <1>3, <2>1
    <3>2. JobOk(task)
      BY <1>0, <3>1 DEF JobsOk
    <3> QED BY <1>0, <1>2, <3>2, JobKept
  <2> QED BY <2>1 DEF JobsOk
<1>5. WorkerOk'
  <2>1. PICK task \in Tasks : task = jobs[1]
    BY <1>3
  <2>2. JobOk(task)
    BY <1>0, <1>3, <2>1 DEF JobsOk
  <2>3. JobOk(task)'
    BY <1>0, <1>2, <2>2, JobKept
  <2> QED BY <1>1, <1>3, <2>1, <2>3 DEF WorkerOk
<1> QED BY <1>1, <1>2, <1>3, <1>4, <1>5, EngineStep

LEMMA ValidateStep == ASSUME ModelInv, NEW fails \in BOOLEAN, ValidateModel(fails) PROVE ModelKept
<1>0. ModelTypeOK /\ WorkerOk
  BY DEF ModelInv, Types
<1>1. /\ worker.at = "work" /\ worker.job.type = "validate"
      /\ worker' = [at |-> "answer", job |-> worker.job,
                    ok |-> ~fails /\ file[worker.job.id] \in Good]
      /\ UNCHANGED <<model, file, inbox, flow, jobs, uses, saves>>
  BY DEF ValidateModel, useVars
<1>2. ModelTypeOK' /\ \A m \in ModelIds : Moved(m)
  BY <1>0, <1>1 DEF ModelTypeOK, Moved
<1>3. jobs' \in Seq(Tasks) /\ JobsOk'
  BY <1>1, <1>2, JobsKept
<1>4. WorkerOk'
  <2>1. PICK task \in Tasks : task = worker.job /\ JobOk(task)
    BY <1>0, <1>1 DEF WorkerOk
  <2>2. JobOk(task)'
    BY <1>0, <1>2, <2>1, JobKept
  <2>3. PICK y : y = [at |-> "answer", job |-> task, ok |-> ~fails /\ file[task.id] \in Good]
    OBVIOUS
  <2>4. y.at = "answer" /\ y.job = task /\ y.ok = (~fails /\ file[task.id] \in Good)
    BY <2>3
  <2>5. worker' = y
    BY <1>1, <2>1, <2>3
  <2>6. y.ok => GoodOk(task.id)'
    BY <1>1, <2>4 DEF GoodOk
  <2> QED BY <2>2, <2>4, <2>5, <2>6 DEF WorkerOk
<1> QED BY <1>1, <1>2, <1>3, <1>4, EngineStep

LEMMA RestingOk == worker' = Resting => WorkerOk'
  BY DEF WorkerOk, Resting

LEMMA ExportStep == ASSUME ModelInv, NEW fails \in BOOLEAN, ConvertToOnnx(fails) PROVE ModelKept
<1>0. ModelTypeOK /\ WorkerOk /\ worker.at = "work" /\ worker.job.type = "convert"
  BY DEF ModelInv, Types, ConvertToOnnx
<1>1. PICK task \in Tasks : task = worker.job /\ JobOk(task) /\ TargetOk(task.id)
  BY <1>0 DEF WorkerOk, JobOk
<1>2. PICK m \in ModelIds, ok \in BOOLEAN :
         m = task.id /\ ok = (~fails /\ file[worker.job.from] # NoFile)
  BY <1>1 DEF TargetOk
<1>3. /\ file' = IF ok THEN [file EXCEPT ![m] = Converted] ELSE file
      /\ worker' = [at |-> "answer", job |-> task, ok |-> ok]
      /\ UNCHANGED <<model, inbox, flow, jobs, uses, saves>>
  BY <1>1, <1>2 DEF ConvertToOnnx, useVars
<1>4. /\ file' \in [ModelIds -> AllContents \cup {NoFile}]
      /\ file'[m] \in {file[m], Converted}
      /\ \A n \in ModelIds \ {m} : file'[n] = file[n]
  BY <1>0, <1>3, ModelTypes DEF AllContents
<1>5. ModelTypeOK'
  BY <1>0, <1>3, <1>4 DEF ModelTypeOK
<1>6. Moved(m) /\ Known(m)
  BY <1>1, <1>2, <1>3, <1>4 DEF Moved, TargetOk
<1>7. \A n \in ModelIds : Moved(n)
  BY <1>3, <1>4, <1>6, ModelMoves
<1>8. jobs' \in Seq(Tasks) /\ JobsOk'
  BY <1>3, <1>7, JobsKept
<1>9. WorkerOk'
  <2>1. JobOk(task)'
    BY <1>0, <1>1, <1>7, JobKept
  <2>2. PICK y : y = [at |-> "answer", job |-> task, ok |-> ok]
    OBVIOUS
  <2>3. y.at = "answer" /\ y.job = task /\ task.type = "convert"
    BY <1>0, <1>1, <2>2
  <2>4. worker' = y
    BY <1>3, <2>2
  <2> QED BY <2>1, <2>3, <2>4 DEF WorkerOk
<1>10. ASSUME NEW f \in Flows, flow[f].at = "create"
       PROVE  /\ model'[flow[f].id] = model[flow[f].id]
              /\ file'[flow[f].id] = file[flow[f].id]
  <2>1. flow[f].id \in ModelIds /\ flow[f].id # m
    BY <1>6, <1>10, OthersMake
  <2> QED BY <1>3, <1>4, <2>1
<1> QED BY <1>3, <1>5, <1>7, <1>8, <1>9, <1>10, EngineStep

\* What a report does to a row.
LEMMA ReportedRow ==
    ASSUME ModelInv, NEW m \in ModelIds, Known(m), UNCHANGED file,
           NEW from \in {"VALIDATING", "CONVERTING"}, NEW to \in {"READY", "FAILED"},
           to = "READY" => GoodOk(m), model' = Applied(m, from, to)
    PROVE  /\ model' \in [ModelIds -> RowSet] /\ \A n \in ModelIds : Moved(n)
           /\ \A n \in ModelIds : ~Known(n) => model'[n] = model[n]
<1>0. ModelTypeOK /\ model \in [ModelIds -> RowSet]
  BY ModelTypes DEF ModelInv, Types
<1>1. CASE m \in Rows /\ model[m].status = from
  <2>1. model' = [model EXCEPT ![m].status = to]
    BY <1>1 DEF Applied
  <2>2. to \in Statuses \ {"CONVERTING"}
    BY DEF Statuses
  <2>3. /\ model' \in [ModelIds -> RowSet]
        /\ model'[m].status = to /\ model'[m].hash = model[m].hash
        /\ \A n \in ModelIds \ {m} : model'[n] = model[n]
    BY <1>0, <2>1, <2>2, StatusSet
  <2>4. Moved(m)
    BY <1>1, <2>2, <2>3 DEF Moved
  <2> QED BY <2>3, <2>4, ModelMoves
<1>2. CASE ~(m \in Rows /\ model[m].status = from)
  <2>1. model' = model
    BY <1>2 DEF Applied
  <2> QED BY <1>0, <2>1 DEF Moved
<1> QED BY <1>1, <1>2

LEMMA ReportStep == ASSUME ModelInv, ReportValidation PROVE ModelKept
<1>0. ModelTypeOK /\ WorkerOk /\ worker.at = "answer" /\ worker.job.type = "validate"
  BY DEF ModelInv, Types, ReportValidation
<1>1. PICK m \in ModelIds, to \in {"READY", "FAILED"} :
         /\ m = worker.job.id /\ Known(m) /\ (to = "READY" => GoodOk(m))
         /\ to = IF worker.ok THEN "READY" ELSE "FAILED"
  BY <1>0 DEF WorkerOk, JobOk
<1>2. /\ model' = Applied(m, "VALIDATING", to) /\ worker' = Resting
      /\ UNCHANGED <<file, inbox, flow, jobs, uses, saves>>
  BY <1>1 DEF ReportValidation, useVars
<1>3. /\ model' \in [ModelIds -> RowSet] /\ \A n \in ModelIds : Moved(n)
      /\ \A n \in ModelIds : ~Known(n) => model'[n] = model[n]
  BY <1>1, <1>2, ReportedRow
<1>4. ModelTypeOK'
  BY <1>0, <1>2, <1>3 DEF ModelTypeOK, RowSet
<1>5. jobs' \in Seq(Tasks) /\ JobsOk' /\ WorkerOk'
  BY <1>2, <1>3, JobsKept, RestingOk
<1>6. \A f \in Flows : flow[f].at = "create" => model'[flow[f].id] = model[flow[f].id]
  BY <1>3, OthersMake
<1> QED BY <1>2, <1>3, <1>4, <1>5, <1>6, EngineStep

LEMMA ConvertedStep == ASSUME ModelInv, ReportConversion PROVE ModelKept
<1>0. ModelTypeOK /\ WorkerOk /\ worker.at = "answer" /\ worker.job.type = "convert"
  BY DEF ModelInv, Types, ReportConversion
<1>1. PICK m \in ModelIds : m = worker.job.id /\ TargetOk(m)
  BY <1>0 DEF WorkerOk, JobOk, TargetOk
<1> DEFINE waits == m \in Rows /\ model[m].status = "CONVERTING"
           fine == worker.ok /\ file[m] # NoFile /\ ~HashKnown(file[m])
           x == IF waits /\ fine THEN Mark(m, "CONVERTING", file[m], "FAILED") ELSE NoFlow
<1>2. /\ model' = IF fine THEN model ELSE Applied(m, "CONVERTING", "FAILED")
      /\ Flow("report", x)
      /\ worker' = Resting
      /\ UNCHANGED <<file, inbox, jobs, uses, saves>>
  BY <1>1 DEF ReportConversion, useVars
<1>3. Known(m) /\ "report" \in Flows /\ model \in [ModelIds -> RowSet]
  BY <1>0, <1>1, Contented, ModelTypes DEF TargetOk
<1>4. /\ model' \in [ModelIds -> RowSet] /\ \A n \in ModelIds : Moved(n)
      /\ \A n \in ModelIds : ~Known(n) => model'[n] = model[n]
  <2>1. CASE fine
    <3>1. model' = model
      BY <1>2, <2>1
    <3> QED BY <1>2, <1>3, <3>1 DEF Moved
  <2>2. CASE ~fine
    <3>1. model' = Applied(m, "CONVERTING", "FAILED")
      BY <1>2, <2>2
    <3> HIDE DEF fine, waits, x
    <3> QED BY <1>2, <1>3, <3>1, ReportedRow
  <2> QED BY <2>1, <2>2
<1>5. ModelTypeOK'
  BY <1>0, <1>2, <1>4 DEF ModelTypeOK, RowSet
<1>6. jobs' \in Seq(Tasks) /\ JobsOk' /\ WorkerOk'
  BY <1>2, <1>4, JobsKept, RestingOk
<1>7. \A f \in Flows : flow[f].at = "create" => model'[flow[f].id] = model[flow[f].id]
  BY <1>4, OthersMake
<1>8. flow'["report"] = x
  BY <1>2, <1>3, FlowSet DEF ModelInv
<1>9. FlowOk("report")' /\ x.at # "create"
  <2>1. CASE waits /\ fine
    <3>1. PICK y : y = Mark(m, "CONVERTING", Converted, "FAILED")
      OBVIOUS
    <3>2. /\ y.at = "mark" /\ y.id = m /\ y.from = "CONVERTING"
          /\ y.hash = Converted /\ y.revert = "FAILED"
          /\ y = Mark(y.id, y.from, y.hash, y.revert)
      BY <3>1 DEF Mark
    <3>3. file[m] = Converted
      BY <1>1, <2>1 DEF TargetOk
    <3>4. x = y
      BY <2>1, <3>1, <3>3
    <3>5. model' = model
      BY <1>2, <2>1
    <3>6. ExportOk(m)'
      BY <1>1, <1>2, <1>3, <3>3, <3>5 DEF ExportOk, TargetOk, Known
    <3>7. Known(m)'
      BY <1>3, <3>5 DEF Known
    <3>8. flow'["report"] = y
      BY <1>8, <3>4
    <3>9. MarkOk("report")'
      BY <3>2, <3>6, <3>8 DEF MarkOk, AllContents, Statuses
    <3>10. PushOk("report")'
      BY <3>2, <3>7, <3>8 DEF PushOk, Statuses
    <3> QED BY <3>2, <3>4, <3>8, <3>9, <3>10 DEF FlowOk
  <2>2. CASE ~(waits /\ fine)
    BY <1>3, <1>8, <2>2, IdleOk DEF NoFlow
  <2> QED BY <2>1, <2>2
<1> HIDE DEF x, fine, waits
<1> QED BY <1>2, <1>4, <1>5, <1>6, <1>7, <1>9, EngineStep

LEMMA StillStep == ASSUME ModelInv, UNCHANGED modelVars PROVE ModelKept
<1>1. UNCHANGED <<model, file, inbox, flow, jobs, worker, uses, saves>>
  BY DEF modelVars, engineVars, useVars
<1>2. ModelTypeOK' /\ \A m \in ModelIds : Moved(m)
  BY <1>1 DEF ModelInv, Types, ModelTypeOK, Moved
<1>3. jobs' \in Seq(Tasks) /\ JobsOk' /\ WorkerOk'
  BY <1>1, <1>2, JobsKept, WorkerKept
<1> QED BY <1>1, <1>2, <1>3, EngineStep

LEMMA LoseStep == ASSUME ModelInv, LoseJob PROVE ModelKept
<1>1. worker' = Resting /\ UNCHANGED <<model, file, inbox, flow, jobs, uses, saves>>
  BY DEF LoseJob, useVars
<1>2. ModelTypeOK' /\ \A m \in ModelIds : Moved(m)
  BY <1>1 DEF ModelInv, Types, ModelTypeOK, Moved
<1>3. jobs' \in Seq(Tasks) /\ JobsOk' /\ WorkerOk'
  BY <1>1, <1>2, JobsKept, RestingOk
<1> QED BY <1>1, <1>2, <1>3, EngineStep

LEMMA RestartStep == ASSUME ModelInv, RestartRegistry PROVE ModelKept
<1>0. ModelTypeOK /\ saves \in Nat
  BY DEF ModelInv, Types
<1>1. /\ flow' = [f \in Flows |-> NoFlow]
      /\ UNCHANGED <<model, file, inbox, jobs, worker, uses, saves>>
  BY DEF RestartRegistry, engineVars, useVars
<1>2. ModelTypeOK' /\ \A m \in ModelIds : Moved(m)
  BY <1>0, <1>1 DEF ModelTypeOK, Moved
<1>3. jobs' \in Seq(Tasks) /\ JobsOk' /\ WorkerOk'
  BY <1>1, <1>2, JobsKept, WorkerKept
<1>4. \A f \in Flows : FlowOk(f)'
  BY <1>1, IdleOk
<1>5. Types' /\ OneCreates'
  BY <1>0, <1>1, <1>2, <1>3 DEF Types, OneCreates, NoFlow
<1>6. \A m \in ModelIds \ TopLevel : RowOk(m)'
  BY <1>0, <1>2, RowKept DEF ModelInv
<1> QED BY <1>2, <1>3, <1>4, <1>5, <1>6 DEF ModelInv, ModelKept

LEMMA ModelsStart == ModelInit => ModelInv
<1> SUFFICES ASSUME ModelInit PROVE ModelInv
  OBVIOUS
<1>1. /\ model = [m \in ModelIds |-> Unused] /\ saves = 0 /\ jobs = <<>> /\ worker = Resting
      /\ file = [m \in ModelIds |-> IF m \in TopLevel THEN "weights" ELSE NoFile]
      /\ inbox = Contents /\ flow = [f \in Flows |-> NoFlow] /\ uses = NoModel
  BY DEF ModelInit
<1>2. Unused.status = "unused" /\ Unused \in RowSet
  BY DEF Unused, Row, RowSet
<1>3. Types
  <2>1. ModelTypeOK
    BY <1>1, <1>2, ModelTypes DEF AllContents
  <2>2. jobs \in Seq(Tasks)
    BY <1>1
  <2> QED BY <1>1, <2>1, <2>2 DEF Types
<1>4. \A m \in ModelIds \ TopLevel : RowOk(m)
  BY <1>1, <1>2 DEF RowOk, Rows, Statuses
<1>5. (\A f \in Flows : FlowOk(f)) /\ OneCreates
  BY <1>1 DEF FlowOk, NoFlow, OneCreates
<1>6. JobsOk /\ WorkerOk
  <2>1. 1 .. Len(jobs) = {}
    BY <1>1
  <2> QED BY <1>1, <2>1 DEF JobsOk, WorkerOk, Resting
<1> QED BY <1>3, <1>4, <1>5, <1>6 DEF ModelInv

LEMMA PersonStep == ASSUME ModelInv, NEW p \in People, Person(p) PROVE ModelKept
<1>1. CASE \E c \in Contents : StoreUpload(p, c)
  BY <1>1, StoreStep
<1>2. CASE \E m \in ModelIds \ TopLevel : Upload(p, m)
  BY <1>2, UploadStep
<1>3. CASE \E m \in ModelIds : Validate(p, m) \/ SaveConfig(p, m) \/ RemoveModel(p, m)
  BY <1>3, AskedStep
<1>4. CASE \E m \in TopLevel, target \in ModelIds \ TopLevel : Convert(p, m, target)
  BY <1>4, ConvertStep
<1>5. CASE \E fails, stored \in BOOLEAN : CreateRow(p, fails, stored)
  BY <1>5, CreateModelStep
<1>6. CASE \E fails, reached \in BOOLEAN : PushConversion(p, fails, reached)
  BY <1>6, QueueStep
<1>7. CASE SaveConfigCommits(p)
  BY <1>7, CommitsStep
<1>8. CASE DeleteRow(p) \/ DeleteFile(p)
  BY <1>8, RowRemoveStep
<1> QED BY <1>1, <1>2, <1>3, <1>4, <1>5, <1>6, <1>7, <1>8 DEF Person

LEMMA ModelsMove == ModelInv /\ [ModelNext]_modelVars => ModelKept
<1> SUFFICES ASSUME ModelInv, [ModelNext]_modelVars PROVE ModelKept
  OBVIOUS
<1>1. ASSUME NEW p \in People, Person(p) PROVE ModelKept
  BY <1>1, PersonStep
<1>2. CASE Rescan
  <2>1. CASE \E m \in ModelIds \ TopLevel, c \in Contents : AdoptInbox(m, c)
    BY <2>1, AdoptStep
  <2>2. CASE \E m \in TopLevel : AdoptBuiltin(m)
    BY <2>2, BuiltinStep
  <2>3. CASE \E fails, stored \in BOOLEAN : CreateAdopted(fails, stored)
    BY <2>3, CreateModelStep
  <2> QED BY <1>2, <2>1, <2>2, <2>3 DEF Rescan
<1>3. ASSUME NEW f \in Flows, AnyFlow(f) PROVE ModelKept
  BY <1>3, MarkStep, PushStep DEF AnyFlow
<1>4. CASE ModelJobs
  <2>1. CASE \E fails \in BOOLEAN : ValidateModel(fails) \/ ConvertToOnnx(fails)
    BY <2>1, ValidateStep, ExportStep
  <2>2. CASE TakeJob \/ ReportValidation \/ ReportConversion \/ LoseJob
    BY <2>2, TakeStep, ReportStep, ConvertedStep, LoseStep
  <2> QED BY <1>4, <2>1, <2>2 DEF ModelJobs
<1>5. CASE RestartRegistry
  BY <1>5, RestartStep
<1>6. CASE UNCHANGED modelVars
  BY <1>6, StillStep
<1> QED BY <1>1, <1>2, <1>3, <1>4, <1>5, <1>6 DEF ModelNext

LEMMA ModelsFollow == ModelInv => ReadyIsSound /\ ModelTypeOK
<1> SUFFICES ASSUME ModelInv PROVE ReadyIsSound /\ ModelTypeOK
  OBVIOUS
<1>1. ASSUME NEW m \in Rows \ TopLevel, model[m].status = "READY"
      PROVE  /\ file[m] \in Good
             /\ model[m].hash = file[m] \/ (model[m].hash = NoFile /\ file[m] = Converted)
  <2>1. RowOk(m) /\ m \in ModelIds
    BY <1>1 DEF ModelInv, Rows
  <2> QED BY <1>1, <2>1, Contented DEF RowOk
<1> QED BY <1>1 DEF ReadyIsSound, ModelInv, Types

\* A decision is left by the next validation, or with the row.
LEMMA DecisionMoves ==
    ASSUME ModelInv, ModelKept, NEW m \in ModelIds, model[m].status \in {"READY", "FAILED"}
    PROVE  model'[m].status \in {model[m].status, "VALIDATING", "removed"}
  BY RemovedRow DEF ModelKept, Moved, Known, ExportOk

\* A removal looked before the camera took the model, if it uses it.
LEMMA RemovalLooked ==
    ASSUME ModelInv, NEW p \in People, flow[p].at = "delete", uses = flow[p].id
    PROVE  saves > flow[p].saves
<1>1. p \in Flows
  BY Contented
<1>2. DeleteOk(p) /\ saves \in Nat
  BY <1>1 DEF ModelInv, Types, FlowOk
<1> QED BY <1>2 DEF DeleteOk

-----------------------------------------------------------------------------

\* A row that says there is a clip, a report or a model the engine can run has that
\* file, whole unless the camera got longer clips while the row waited, and one that
\* says there is none is right; a viewer is refused a clip only if playback did not
\* answer, has no footage of it, or it was kept and is past its days: for all
\* clips, reports and models, however requests, jobs, retention, the engine's
\* reports and crashes are interleaved.
THEOREM RowsAreRight == ApiSpec => []RowsHaveFiles
<1>1. ApiInit => ExportsInv /\ RecordingsInv /\ ModelInv
  BY ExportsStart, RecordingsStart, ModelsStart DEF ApiInit
<1>2. ExportsInv /\ [ApiNext]_apiPartsVars => ExportsInv'
  BY PartsMove, ExportsStep
<1>3. RecordingsInv /\ [ApiNext]_apiPartsVars => RecordingsInv'
  BY PartsMove, RecordingsStep
<1>4. ModelInv /\ [ApiNext]_apiPartsVars => ModelInv'
  BY PartsMove, ModelsMove DEF ModelKept
<1>5. ExportsInv /\ RecordingsInv /\ ModelInv => RowsHaveFiles
  BY ExportsFollow, RecordingsFollow, ModelsFollow DEF RowsHaveFiles
<1> QED BY <1>1, <1>2, <1>3, <1>4, <1>5, PTL DEF ApiSpec

\* What the engine decided about a model stands until it is asked again, and a model
\* is not removed under the camera that uses it unless a version was saved after the
\* removal had looked.
THEOREM DecisionsHold == ApiSpec => ModelsStand
<1> DEFINE Stands ==
             \A m \in ModelIds :
                model[m].status \in {"READY", "FAILED"} =>
                   model'[m].status \in {model[m].status, "VALIDATING", "removed"}
           Used ==
             \A m \in Rows, p \in People :
                /\ model'[m].status = "removed" /\ uses = m
                /\ flow[p].at = "delete" /\ flow[p].id = m
                /\ flow'[p].at = "rm"
                => saves > flow[p].saves
<1>1. ApiInit => ModelInv
  BY ModelsStart DEF ApiInit
<1>2. ModelInv /\ [ApiNext]_apiPartsVars => ModelInv'
  BY PartsMove, ModelsMove DEF ModelKept
<1>3. ModelInv /\ [ApiNext]_apiPartsVars => [Stands]_modelVars
  BY PartsMove, ModelsMove, DecisionMoves
<1>4. ModelInv => [Used]_modelVars
  BY RemovalLooked
<1> QED BY <1>1, <1>2, <1>3, <1>4, PTL DEF ApiSpec, ModelsStand, DecisionStands, UsedModelStays

-----------------------------------------------------------------------------
-----------------------------------------------------------------------------
(* The demo feed.                                                          *)

Cams == [there : BOOLEAN, version : Nat]
Refreshes == [at : {"idle", "fetching", "fetched", "adopted", "published"},
              again : BOOLEAN, found : Cams, failed : BOOLEAN]

FeedTypes ==
    /\ now \in Start .. MaxTime /\ api \in Cams /\ feed \in Cams /\ refresh \in Refreshes
    /\ notice \in {"none", "under_way", "lost"}
    /\ status \in BOOLEAN /\ (feed.there \/ state = NoState)
    /\ state = [last |-> state.last, date |-> state.date, plan |-> state.plan,
                upto |-> state.upto, open |-> state.open]

\* A session is known by its draw and when it opens.  The plan is of one draw, and
\* what is open was opened up to the cursor.
DrawnBy(x, t, n) == \E d \in 0 .. n : x = <<d, t>>

PlanInv ==
    /\ draws \in Nat /\ state.last \in Int /\ state.upto \in Int
    /\ \A i \in state.plan : i.from \in Int /\ DrawnBy(i.session, i.from, draws)
    /\ \A x \in state.open : \E t \in Int : t <= state.upto /\ DrawnBy(x, t, draws)

\* What is held back opens nothing that is open on the stream and closes nothing
\* twice; with it, the stream has open what the feed remembers.
WireInv ==
    /\ ~repeated
    /\ unopened \subseteq main.holds.opens /\ unclosed \cap main.holds.opens = {}
    /\ main.holds.closes \subseteq unclosed \cup main.holds.opens
    /\ unopened \cap main.holds.closes = {}
    /\ main.at # "cut_off" =>
          (unclosed \cup main.holds.opens) \ (unopened \cup main.holds.closes) = state.open

\* Nothing is open before the live clock has started or when the feed has stopped,
\* and nobody calls for a refresh before the feed listens.
MainInv ==
    /\ main.at \in {"wait", "subscribe", "start", "backfill", "awake", "sends", "stopped", "cut_off"}
    /\ main.at # "sends" => main.holds = Silence
    /\ main.at \in {"wait", "subscribe", "start"} => state = NoState
    /\ main.at \in {"wait", "subscribe", "start", "backfill"} => unclosed = {} /\ state.open = {}
    /\ main.at = "stopped" => unclosed = {}
    /\ stopped <=> main.at \in {"stopped", "cut_off"}
    /\ main.at \in {"wait", "subscribe"} => refresh.at = "idle" /\ notice # "under_way"

\* With no notice on its way and no call waiting, the feed has the newest list, or
\* the refresh that runs has it.
NewsInv ==
    /\ refresh.at = "idle" => ~refresh.again
    /\ ~stopped /\ main.at # "wait" /\ notice = "none" /\ ~refresh.again /\ ~refresh.failed =>
          /\ refresh.at = "fetched" => refresh.found = api
          /\ refresh.at \in {"idle", "adopted", "published"} => feed = api

FeedInv == FeedTypes /\ PlanInv /\ WireInv /\ MainInv /\ NewsInv /\ NoStatusOfGone

LEMMA RefreshForms ==
    ASSUME NEW r \in Refreshes
    PROVE  /\ [r EXCEPT !.again = TRUE] \in Refreshes
           /\ [r EXCEPT !.again = TRUE].at = r.at /\ [r EXCEPT !.again = TRUE].again
           /\ [r EXCEPT !.at = "published"] \in Refreshes
           /\ [r EXCEPT !.at = "published"].at = "published"
           /\ [r EXCEPT !.at = "published"].again = r.again
           /\ [r EXCEPT !.at = "published"].failed = r.failed
           /\ [r EXCEPT !.at = "idle"] \in Refreshes
           /\ [r EXCEPT !.at = "idle"].at = "idle"
           /\ [r EXCEPT !.at = "idle"].again = r.again
           /\ [r EXCEPT !.at = "idle"].failed = r.failed
  BY DEF Refreshes

LEMMA RefreshStarts ==
    /\ NoRefresh \in Refreshes /\ NoRefresh.at = "idle" /\ NoRefresh.again = FALSE
    /\ Fetching \in Refreshes /\ Fetching.at = "fetching"
    /\ Nobody \in Cams /\ Nobody.there = FALSE
<1>1. Nobody \in Cams /\ Nobody.there = FALSE
  BY DEF Nobody, Cams
<1>2. NoRefresh \in Refreshes /\ NoRefresh.at = "idle" /\ NoRefresh.again = FALSE
  BY <1>1 DEF NoRefresh, Refreshes
<1>3. ASSUME NEW r \in Refreshes
      PROVE  [r EXCEPT !.at = "fetching"] \in Refreshes /\ [r EXCEPT !.at = "fetching"].at = "fetching"
  BY DEF Refreshes
<1>4. Fetching \in Refreshes /\ Fetching.at = "fetching"
  BY <1>2, <1>3 DEF Fetching
<1> QED BY <1>1, <1>2, <1>4

\* A call is never lost.
LEMMA CallWaits ==
    ASSUME refresh \in Refreshes
    PROVE  /\ Coalesced \in Refreshes /\ Coalesced.at # "idle"
           /\ Coalesced.at = "fetching" \/ Coalesced.again
<1>1. CASE refresh.at = "idle"
  BY <1>1, RefreshStarts DEF Coalesced
<1>2. CASE refresh.at # "idle"
  <2>1. Coalesced = [refresh EXCEPT !.again = TRUE]
    BY <1>2 DEF Coalesced
  <2> QED BY <1>2, <2>1, RefreshForms
<1> QED BY <1>1, <1>2

LEMMA NoStateIs ==
    /\ NoState.last = Never /\ NoState.upto = Never /\ Never \in Int
    /\ NoState.plan = {} /\ NoState.open = {}
    /\ NoState = [last |-> NoState.last, date |-> NoState.date, plan |-> NoState.plan,
                  upto |-> NoState.upto, open |-> NoState.open]
  BY DEF NoState, Never

LEMMA SilenceIs == Silence.opens = {} /\ Silence.closes = {}
  BY DEF Silence

LEMMA FeedStart == DemoInit => FeedInv
<1> SUFFICES ASSUME DemoInit PROVE FeedInv
  OBVIOUS
<1>1. /\ now = Start /\ api \in [there : BOOLEAN, version : {1}] /\ notice = "none"
      /\ feed = Nobody /\ state = NoState /\ status = FALSE
      /\ main.at = "wait" /\ main.holds = Silence /\ refresh = NoRefresh /\ stopped = FALSE
      /\ unclosed = {} /\ unopened = {} /\ repeated = FALSE /\ draws = 0
  BY DEF DemoInit
<1>2. api \in Cams
  BY <1>1 DEF Cams
<1>3. FeedTypes
  <2>1. now \in Start .. MaxTime
    BY <1>1, TimesAssumption
  <2>2. status \in BOOLEAN /\ (feed.there \/ state = NoState)
    BY <1>1
  <2> QED BY <1>1, <1>2, <2>1, <2>2, RefreshStarts, NoStateIs DEF FeedTypes
<1>4. PlanInv
  BY <1>1, NoStateIs DEF PlanInv
<1>5. WireInv /\ MainInv
  <2>1. WireInv
    BY <1>1, SilenceIs, NoStateIs DEF WireInv
  <2>2. refresh.at = "idle" /\ notice # "under_way" /\ state.open = {}
    BY <1>1, NoStateIs, RefreshStarts
  <2>3. MainInv
    BY <1>1, <2>2 DEF MainInv
  <2> QED BY <2>1, <2>3
<1>6. NewsInv
  BY <1>1, RefreshStarts DEF NewsInv
<1>7. NoStatusOfGone
  BY <1>1 DEF NoStatusOfGone
<1> QED BY <1>3, <1>4, <1>5, <1>6, <1>7 DEF FeedInv

\* Steps that send nothing.
LEMMA WireKept ==
    ASSUME WireInv, UNCHANGED <<unclosed, unopened, repeated, main, state>>
    PROVE  WireInv'
  BY DEF WireInv

LEMMA PlanKept == ASSUME PlanInv, UNCHANGED <<draws, state>> PROVE PlanInv'
  BY DEF PlanInv, DrawnBy

LEMMA ClockStep == ASSUME FeedInv, NEW d \in Jumps, ClockMoves(d) PROVE FeedInv'
<1>1. /\ now' \in Start .. MaxTime
      /\ UNCHANGED <<api, notice, feed, state, main, refresh, stopped, status, unclosed,
                     unopened, repeated, draws>>
  BY DEF ClockMoves, wireVars, demoBounds
<1>2. WireInv' /\ PlanInv'
  BY <1>1, WireKept, PlanKept DEF FeedInv
<1>3. FeedTypes'
  BY <1>1 DEF FeedInv, FeedTypes
<1>4. MainInv' /\ NewsInv'
  BY <1>1 DEF FeedInv, MainInv, NewsInv
<1>5. NoStatusOfGone'
  BY <1>1 DEF FeedInv, NoStatusOfGone
<1> QED BY <1>2, <1>3, <1>4, <1>5 DEF FeedInv

LEMMA ApiStep == ASSUME FeedInv, NEW there \in BOOLEAN, ApiChanges(there) PROVE FeedInv'
<1>1. /\ api' = [there |-> there, version |-> api.version + 1]
      /\ notice' = IF main.at \in {"wait", "subscribe"} THEN "lost" ELSE "under_way"
      /\ UNCHANGED <<now, feed, state, main, refresh, stopped, status, unclosed,
                     unopened, repeated, draws>>
  BY DEF ApiChanges, wireVars
<1>2. WireInv' /\ PlanInv'
  BY <1>1, WireKept, PlanKept DEF FeedInv
<1>3. FeedTypes'
  <2>1. api' \in Cams
    BY <1>1 DEF FeedInv, FeedTypes, Cams
  <2> QED BY <1>1, <2>1 DEF FeedInv, FeedTypes
<1>4. MainInv' /\ NewsInv'
  BY <1>1 DEF FeedInv, MainInv, NewsInv
<1>5. NoStatusOfGone'
  BY <1>1 DEF FeedInv, NoStatusOfGone
<1> QED BY <1>2, <1>3, <1>4, <1>5 DEF FeedInv

\* A notice is answered by a call; one that is lost is known to be.
LEMMA NoticeStep == ASSUME FeedInv, NoticeArrives \/ NoticeLost \/ Reconnects PROVE FeedInv'
<1>1. UNCHANGED <<now, api, feed, state, main, stopped, status, unclosed, unopened, repeated, draws>>
  BY DEF NoticeArrives, NoticeLost, Reconnects, wireVars, demoBounds
<1>2. WireInv' /\ PlanInv'
  BY <1>1, WireKept, PlanKept DEF FeedInv
<1>3. \/ notice' = "none" /\ refresh' = Coalesced /\ main.at \notin {"wait", "subscribe"}
      \/ notice' = "lost" /\ refresh' = refresh
  BY DEF NoticeArrives, NoticeLost, Reconnects, FeedInv, MainInv
<1>4. refresh \in Refreshes
  BY DEF FeedInv, FeedTypes
<1>5. FeedTypes'
  BY <1>1, <1>3, <1>4, CallWaits DEF FeedInv, FeedTypes
<1>6. MainInv'
  BY <1>1, <1>3 DEF FeedInv, MainInv
<1>7. NewsInv'
  <2>1. CASE refresh' = Coalesced
    BY <1>4, <2>1, CallWaits DEF NewsInv
  <2>2. CASE notice' = "lost" /\ refresh' = refresh
    BY <2>2 DEF FeedInv, NewsInv
  <2> QED BY <1>3, <2>1, <2>2
<1>8. NoStatusOfGone'
  BY <1>1 DEF FeedInv, NoStatusOfGone
<1> QED BY <1>2, <1>5, <1>6, <1>7, <1>8 DEF FeedInv

\* A list that is taken in: what was open of a camera that left is closed.
LEMMA AdoptKeeps ==
    ASSUME FeedInv, NEW found \in Cams, Adopt(found), ~stopped, ~stopped',
           main'.holds = main.holds, draws' = draws
    PROVE  /\ feed' = found /\ state' \in {state, NoState} /\ (found.there \/ state' = NoState)
           /\ status' \in BOOLEAN /\ unclosed' \subseteq unclosed
           /\ WireInv' /\ PlanInv' /\ NoStatusOfGone'
<1>0. /\ status \in BOOLEAN /\ feed \in Cams /\ (feed.there \/ state = NoState)
      /\ main.at # "cut_off"
  BY DEF FeedInv, FeedTypes, MainInv
<1>1. /\ feed' = found /\ state' = IF found.there THEN state ELSE NoState
      /\ IF feed.there /\ ~found.there
         THEN Send(CloseOpen(state)) /\ status' = FALSE
         ELSE UNCHANGED <<status, unclosed, unopened, repeated>>
  BY DEF Adopt, wireVars
<1>2. PlanInv'
  <2>1. CASE state' = state
    BY <2>1, PlanKept DEF FeedInv
  <2>2. CASE state' = NoState
    BY <2>2, NoStateIs DEF FeedInv, PlanInv, DrawnBy
  <2> QED BY <1>1, <2>1, <2>2
<1>3. status' \in BOOLEAN /\ NoStatusOfGone'
  BY <1>0, <1>1 DEF FeedInv, NoStatusOfGone
<1>4. WireInv' /\ unclosed' \subseteq unclosed
  <2> DEFINE HO == main.holds.opens
             HC == main.holds.closes
  <2>1. /\ ~repeated /\ unopened \subseteq HO /\ unclosed \cap HO = {}
        /\ HC \subseteq unclosed \cup HO /\ unopened \cap HC = {}
        /\ (unclosed \cup HO) \ (unopened \cup HC) = state.open
    BY <1>0 DEF FeedInv, WireInv
  <2>2. main'.holds.opens = HO /\ main'.holds.closes = HC
    OBVIOUS
  <2>3. CASE feed.there /\ ~found.there
    <3>1. CloseOpen(state).opens = {} /\ CloseOpen(state).closes = state.open
      BY DEF CloseOpen
    <3>2. /\ unclosed' = unclosed \ state.open
          /\ unopened' = unopened \cup (state.open \ unclosed)
          /\ repeated' = (repeated \/ unopened \cap state.open # {})
      BY <1>1, <2>3, <3>1 DEF Send
    <3>3. state'.open = {}
      BY <1>1, <2>3, NoStateIs
    <3> HIDE DEF HO, HC
    <3>4. ~repeated'
      BY <2>1, <3>2
    <3>5. /\ unopened' \subseteq HO /\ unclosed' \cap HO = {}
          /\ HC \subseteq unclosed' \cup HO /\ unopened' \cap HC = {}
          /\ (unclosed' \cup HO) \ (unopened' \cup HC) = {}
      BY <2>1, <3>2
    <3> QED BY <2>2, <3>2, <3>3, <3>4, <3>5 DEF WireInv
  <2>4. CASE ~(feed.there /\ ~found.there)
    <3>1. state' = state /\ UNCHANGED <<unclosed, unopened, repeated>>
      BY <1>0, <1>1, <2>4
    <3> HIDE DEF HO, HC
    <3> QED BY <2>1, <2>2, <3>1 DEF WireInv
  <2> QED BY <2>3, <2>4
<1> QED BY <1>0, <1>1, <1>2, <1>3, <1>4

LEMMA FetchStep == ASSUME FeedInv, NEW fails \in BOOLEAN, FetchCameras(fails) PROVE FeedInv'
<1>0. refresh \in Refreshes /\ api \in Cams
  BY DEF FeedInv, FeedTypes
<1>1. /\ refresh.at = "fetching"
      /\ refresh' = [refresh EXCEPT !.at = "fetched", !.found = api, !.failed = fails]
      /\ UNCHANGED <<now, api, notice, feed, state, main, stopped, status, unclosed,
                     unopened, repeated, draws>>
  BY DEF FetchCameras, wireVars
<1>2. ASSUME NEW r \in Refreshes
      PROVE  /\ [r EXCEPT !.at = "fetched", !.found = api, !.failed = fails] \in Refreshes
             /\ [r EXCEPT !.at = "fetched", !.found = api, !.failed = fails].at = "fetched"
             /\ [r EXCEPT !.at = "fetched", !.found = api, !.failed = fails].found = api
  BY <1>0 DEF Refreshes
<1>3. refresh' \in Refreshes /\ refresh'.at = "fetched" /\ refresh'.found = api
  BY <1>0, <1>1, <1>2
<1>4. WireInv' /\ PlanInv'
  BY <1>1, WireKept, PlanKept DEF FeedInv
<1>5. FeedTypes'
  BY <1>1, <1>3 DEF FeedInv, FeedTypes
<1>6. MainInv' /\ NewsInv'
  BY <1>1, <1>3 DEF FeedInv, MainInv, NewsInv
<1>7. NoStatusOfGone'
  BY <1>1 DEF FeedInv, NoStatusOfGone
<1> QED BY <1>4, <1>5, <1>6, <1>7 DEF FeedInv

LEMMA AdoptsStep == ASSUME FeedInv, RefreshAdopts PROVE FeedInv'
<1>0. refresh \in Refreshes /\ refresh.found \in Cams
  BY DEF FeedInv, FeedTypes, Refreshes
<1> DEFINE skips == refresh.failed \/ stopped
<1>1. /\ refresh.at = "fetched"
      /\ refresh' = [refresh EXCEPT !.at = IF skips THEN "published" ELSE "adopted",
                                    !.found = Nobody]
      /\ skips => UNCHANGED <<feed, state, status, unclosed, unopened, repeated>>
      /\ ~skips => Adopt(refresh.found)
      /\ UNCHANGED <<now, api, notice, main, stopped, draws>>
  BY DEF RefreshAdopts, wireVars, demoBounds
<1>2. /\ refresh' \in Refreshes /\ refresh'.at = IF skips THEN "published" ELSE "adopted"
      /\ refresh'.again = refresh.again /\ refresh'.failed = refresh.failed
  <2> DEFINE step == IF skips THEN "published" ELSE "adopted"
  <2>1. step \in {"adopted", "published"}
    OBVIOUS
  <2> HIDE DEF step
  <2>2. ASSUME NEW r \in Refreshes
        PROVE  /\ [r EXCEPT !.at = step, !.found = Nobody] \in Refreshes
               /\ [r EXCEPT !.at = step, !.found = Nobody].at = step
               /\ [r EXCEPT !.at = step, !.found = Nobody].again = r.again
               /\ [r EXCEPT !.at = step, !.found = Nobody].failed = r.failed
    BY <2>1, RefreshStarts DEF Refreshes
  <2>3. refresh' = [refresh EXCEPT !.at = step, !.found = Nobody]
    BY <1>1 DEF step
  <2>4. /\ refresh' \in Refreshes /\ refresh'.at = step
        /\ refresh'.again = refresh.again /\ refresh'.failed = refresh.failed
    BY <1>0, <2>2, <2>3
  <2> QED BY <2>4 DEF step
<1>3. CASE skips
  <2> HIDE DEF skips
  <2>1. UNCHANGED <<now, api, notice, feed, state, main, stopped, status, unclosed,
                    unopened, repeated, draws>>
    BY <1>1, <1>3
  <2>2. WireInv' /\ PlanInv'
    BY <2>1, WireKept, PlanKept DEF FeedInv
  <2>3. FeedTypes'
    BY <1>2, <2>1 DEF FeedInv, FeedTypes
  <2>4. MainInv'
    BY <1>1, <1>2, <2>1 DEF FeedInv, MainInv
  <2>5. NewsInv'
    BY <1>2, <1>3, <2>1 DEF FeedInv, NewsInv, skips
  <2>6. NoStatusOfGone'
    BY <2>1 DEF FeedInv, NoStatusOfGone
  <2> QED BY <2>2, <2>3, <2>4, <2>5, <2>6 DEF FeedInv
<1>4. CASE ~skips
  <2>0. ~stopped /\ ~refresh.failed /\ Adopt(refresh.found) /\ refresh'.at = "adopted"
    BY <1>1, <1>2, <1>4
  <2> HIDE DEF skips
  <2>1. PICK found \in Cams : found = refresh.found
    BY <1>0
  <2>2. /\ feed' = found /\ state' \in {state, NoState} /\ (found.there \/ state' = NoState)
        /\ status' \in BOOLEAN /\ unclosed' \subseteq unclosed
        /\ WireInv' /\ PlanInv' /\ NoStatusOfGone'
    BY <1>1, <2>0, <2>1, AdoptKeeps
  <2>3. FeedTypes'
    BY <1>1, <1>2, <2>2, NoStateIs DEF FeedInv, FeedTypes
  <2>4. MainInv'
    BY <1>1, <1>2, <2>0, <2>2, NoStateIs DEF FeedInv, MainInv
  <2>5. NewsInv'
    BY <1>1, <1>2, <2>0, <2>1, <2>2 DEF FeedInv, NewsInv
  <2> QED BY <2>2, <2>3, <2>4, <2>5 DEF FeedInv
<1> QED BY <1>3, <1>4

\* The status of a camera the feed has, or as it was.
LEMMA StatusKept ==
    ASSUME FeedInv, status' \in {FALSE, status, status \/ feed.there}, feed' = feed,
           stopped => stopped'
    PROVE  status' \in BOOLEAN /\ NoStatusOfGone'
  BY DEF FeedInv, FeedTypes, Cams, NoStatusOfGone

LEMMA PublishStep == ASSUME FeedInv, RefreshPublishes \/ RefreshEnds \/ StatusExpires PROVE FeedInv'
<1>0. refresh \in Refreshes
  BY DEF FeedInv, FeedTypes
<1>1. /\ UNCHANGED <<now, api, notice, feed, state, main, stopped, unclosed, unopened,
                     repeated, draws>>
      /\ status' \in {FALSE, status, status \/ feed.there}
  BY DEF RefreshPublishes, RefreshEnds, StatusExpires, PublishStatus, sentVars, wireVars, demoBounds
<1>2. \/ refresh' = refresh
      \/ refresh.at = "adopted" /\ refresh' = [refresh EXCEPT !.at = "published"]
      \/ refresh' = Fetching /\ refresh.at = "published"
      \/ /\ refresh.at = "published" /\ ~refresh.again
         /\ refresh' = [refresh EXCEPT !.at = "idle"]
  BY DEF RefreshPublishes, RefreshEnds, StatusExpires
<1>3. /\ refresh' \in Refreshes
      /\ \/ refresh' = refresh
         \/ /\ refresh.at = "adopted" /\ refresh'.at = "published"
            /\ refresh'.again = refresh.again /\ refresh'.failed = refresh.failed
         \/ refresh'.at = "fetching" /\ refresh.at = "published"
         \/ /\ refresh.at = "published" /\ ~refresh.again /\ refresh'.at = "idle"
            /\ refresh'.again = refresh.again /\ refresh'.failed = refresh.failed
  <2>1. CASE refresh' = refresh
    BY <1>0, <2>1
  <2>2. CASE refresh.at = "adopted" /\ refresh' = [refresh EXCEPT !.at = "published"]
    BY <1>0, <2>2, RefreshForms
  <2>3. CASE refresh' = Fetching /\ refresh.at = "published"
    BY <2>3, RefreshStarts
  <2>4. CASE /\ refresh.at = "published" /\ ~refresh.again
             /\ refresh' = [refresh EXCEPT !.at = "idle"]
    BY <1>0, <2>4, RefreshForms
  <2> QED BY <1>2, <2>1, <2>2, <2>3, <2>4
<1>4. WireInv' /\ PlanInv'
  BY <1>1, WireKept, PlanKept DEF FeedInv
<1>5. status' \in BOOLEAN /\ NoStatusOfGone'
  BY <1>1, StatusKept
<1>6. FeedTypes'
  BY <1>1, <1>3, <1>5 DEF FeedInv, FeedTypes
<1>7. MainInv'
  BY <1>1, <1>3 DEF FeedInv, MainInv
<1>8. NewsInv'
  BY <1>1, <1>3 DEF FeedInv, NewsInv
<1> QED BY <1>4, <1>5, <1>6, <1>7, <1>8 DEF FeedInv

LEMMA WaitStep == ASSUME FeedInv, WaitForCameras \/ SubscribeNotices PROVE FeedInv'
<1>1. CASE WaitForCameras
  <2>1. /\ main.at = "wait" /\ Adopt(api) /\ main' = [at |-> "subscribe", holds |-> Silence]
        /\ UNCHANGED <<now, api, notice, refresh, stopped, draws>>
    BY <1>1 DEF WaitForCameras, At, demoBounds
  <2>2. /\ main.holds = Silence /\ ~stopped /\ unclosed = {} /\ state = NoState
        /\ refresh.at = "idle" /\ notice # "under_way" /\ api \in Cams
    BY <2>1 DEF FeedInv, MainInv, FeedTypes
  <2>3. main'.at = "subscribe" /\ main'.holds = Silence
    BY <2>1
  <2>4. PICK found \in Cams : found = api
    BY <2>2
  <2>5. /\ feed' = found /\ state' \in {state, NoState} /\ (found.there \/ state' = NoState)
        /\ status' \in BOOLEAN /\ unclosed' \subseteq unclosed
        /\ WireInv' /\ PlanInv' /\ NoStatusOfGone'
    BY <2>1, <2>2, <2>3, <2>4, AdoptKeeps
  <2>6. FeedTypes'
    BY <2>1, <2>2, <2>5, NoStateIs DEF FeedInv, FeedTypes
  <2>7. MainInv'
    BY <2>1, <2>2, <2>3, <2>5, NoStateIs DEF MainInv
  <2>8. NewsInv'
    BY <2>1, <2>2, <2>4, <2>5 DEF FeedInv, NewsInv
  <2> QED BY <2>5, <2>6, <2>7, <2>8 DEF FeedInv
<1>2. CASE SubscribeNotices
  <2>1. /\ main.at = "subscribe" /\ main' = [at |-> "start", holds |-> Silence]
        /\ UNCHANGED <<now, api, notice, feed, state, refresh, stopped, status, unclosed,
                       unopened, repeated, draws>>
    BY <1>2 DEF SubscribeNotices, At, wireVars, demoBounds
  <2>2. main'.at = "start" /\ main'.holds = Silence /\ main.holds = Silence
    BY <2>1 DEF FeedInv, MainInv
  <2>3. WireInv'
    BY <2>1, <2>2 DEF FeedInv, WireInv
  <2>4. PlanInv' /\ FeedTypes'
    BY <2>1, PlanKept DEF FeedInv, FeedTypes
  <2>5. MainInv'
    BY <2>1, <2>2 DEF FeedInv, MainInv
  <2>6. NewsInv' /\ NoStatusOfGone'
    BY <2>1, <2>2 DEF FeedInv, NewsInv, NoStatusOfGone
  <2> QED BY <2>3, <2>4, <2>5, <2>6 DEF FeedInv
<1> QED BY <1>1, <1>2

\* The messages of one call: what is opened is new, what is closed is open.
LEMMA DatesAreWhole == now \in Int => DayStart(now) \in Int
  BY TimesAssumption DEF DayStart, Date

LEMMA DrawnPlan ==
    ASSUME FeedInv, NEW drawn \in Drawn(state)
    PROVE  state.date # Date(now) => \A i \in drawn :
              i.from \in Int /\ i.session = <<draws + 1, i.from>>
<1> SUFFICES ASSUME state.date # Date(now), NEW i \in drawn
             PROVE  i.from \in Int /\ i.session = <<draws + 1, i.from>>
  OBVIOUS
<1>1. PICK stays \in Days[draws + 1] :
         draws + 1 \in DOMAIN Days /\ drawn = PlanOf(draws + 1, DayStart(now), stays)
  BY DEF Drawn
<1>2. PICK s \in stays : i = [session |-> <<draws + 1, DayStart(now) + s.from>>,
                            from |-> DayStart(now) + s.from, to |-> DayStart(now) + s.to]
  BY <1>1 DEF PlanOf
<1>3. s \in Spans
  BY <1>1, DaysAssumption DEF TableDays, CashierDays
<1>4. s.from \in Int /\ DayStart(now) \in Int
  BY <1>3, TimesAssumption, DatesAreWhole DEF Spans, FeedInv, FeedTypes
<1> QED BY <1>2, <1>4

LEMMA LiveIs ==
    ASSUME FeedInv, NEW silent \in BOOLEAN, NEW drawn \in Drawn(state), DrawsPlan(state)
    PROVE  LET live == LiveMessages(state, now, silent, drawn)
           IN  /\ live.state = [last |-> live.state.last, date |-> live.state.date,
                                plan |-> live.state.plan, upto |-> live.state.upto,
                                open |-> live.state.open]
               /\ draws' \in Nat /\ live.state.last \in Int /\ live.state.upto \in Int
               /\ \A i \in live.state.plan : i.from \in Int /\ DrawnBy(i.session, i.from, draws')
               /\ \A x \in live.state.open :
                     \E t \in Int : t <= live.state.upto /\ DrawnBy(x, t, draws')
               /\ live.state.open = (state.open \cup live.sends.opens) \ live.sends.closes
               /\ live.sends.opens \cap state.open = {}
               /\ live.sends.closes \subseteq state.open \cup live.sends.opens
               /\ state.last = Never => live.sends.opens = {}
<1> DEFINE st == state
           t == now
           last == IF st.last = Never THEN t ELSE st.last
           down == t - last > Downtime
           anew == st.date # Date(t)
           plan == IF anew THEN drawn ELSE st.plan
           past == Latest(IF down THEN t ELSE last, IF anew THEN Never ELSE st.upto)
           due(x) == x > past /\ x <= t /\ ~silent
           ended == IF down \/ anew \/ silent THEN st.open ELSE {}
           opens == {i.session : i \in {j \in plan : due(j.from)}}
           known == (st.open \ ended) \cup opens
           closes == {i.session : i \in {j \in plan : due(j.to)}} \cap known
           after == [last |-> t, date |-> Date(t), plan |-> plan,
                     upto |-> Latest(past, t), open |-> Track(st.open \ ended, opens, closes)]
           sent2 == [opens |-> opens, closes |-> ended \cup closes]
<1>1. LiveMessages(state, now, silent, drawn) = [state |-> after, sends |-> sent2]
  BY DEF LiveMessages
<1>2. PlanInv /\ now \in Int /\ Never \in Int /\ Never = -1 /\ draws \in Nat
  BY TimesAssumption DEF FeedInv, FeedTypes, PlanInv, Never
<1>3. draws' = (IF anew THEN draws + 1 ELSE draws) /\ draws' \in Nat /\ draws <= draws'
  BY <1>2 DEF DrawsPlan
<1>4. /\ past \in Int /\ (~anew => st.upto <= past) /\ Latest(past, t) \in Int
      /\ past <= Latest(past, t) /\ t <= Latest(past, t)
      /\ st.last = Never => past >= t
  BY <1>2 DEF Latest, PlanInv
<1>5. /\ anew => \A i \in plan : i.from \in Int /\ i.session = <<draws + 1, i.from>>
      /\ ~anew => plan = st.plan
  BY DrawnPlan
<1>6. \A i \in plan : i.from \in Int /\ DrawnBy(i.session, i.from, draws')
  <2>1. CASE anew
    BY <1>2, <1>3, <1>5, <2>1 DEF DrawnBy
  <2>2. CASE ~anew
    BY <1>2, <1>3, <1>5, <2>2 DEF PlanInv, DrawnBy
  <2> QED BY <2>1, <2>2
<1>7. ASSUME NEW x \in opens
      PROVE  /\ x \notin st.open
             /\ \E u \in Int : u <= Latest(past, t) /\ DrawnBy(x, u, draws')
  <2>1. PICK i \in plan : x = i.session /\ i.from > past /\ i.from <= t
    BY <1>7
  <2>2. i.from \in Int /\ DrawnBy(x, i.from, draws') /\ i.from <= Latest(past, t)
    BY <1>2, <1>4, <1>6, <2>1
  <2>3. SUFFICES ASSUME x \in st.open PROVE FALSE
    BY <2>2
  <2>4. PICK u \in Int, d \in 0 .. draws : u <= st.upto /\ x = <<d, u>>
    BY <1>2, <2>3 DEF PlanInv, DrawnBy
  <2>5. CASE anew
    <3>1. x = <<draws + 1, i.from>>
      BY <1>5, <2>1, <2>5
    <3> QED BY <1>2, <2>4, <3>1
  <2>6. CASE ~anew
    <3>1. PICK e \in 0 .. draws' : x = <<e, i.from>>
      BY <2>2 DEF DrawnBy
    <3>2. u = i.from
      BY <2>4, <3>1
    <3>3. st.upto \in Int
      BY <1>2 DEF PlanInv
    <3> QED BY <1>4, <2>1, <2>4, <2>6, <3>2, <3>3
  <2> QED BY <2>5, <2>6
<1>8. ASSUME NEW x \in (st.open \ ended)
      PROVE  \E u \in Int : u <= Latest(past, t) /\ DrawnBy(x, u, draws')
  <2>1. ~anew
    BY <1>8
  <2>2. PICK u \in Int, d \in 0 .. draws : u <= st.upto /\ x = <<d, u>>
    BY <1>2, <1>8 DEF PlanInv, DrawnBy
  <2>3. u <= Latest(past, t)
    BY <1>2, <1>4, <2>1, <2>2 DEF PlanInv
  <2> QED BY <1>2, <1>3, <2>2, <2>3 DEF DrawnBy
<1>9. /\ after.open = ((st.open \ ended) \cup opens) \ closes
      /\ closes \subseteq (st.open \ ended) \cup opens /\ ended \subseteq st.open
  BY DEF Track
<1>10. opens \cap st.open = {}
  BY <1>7
<1>11. st.last = Never => opens = {}
  <2> SUFFICES ASSUME st.last = Never, NEW x \in opens PROVE FALSE
    OBVIOUS
  <2>1. PICK i \in plan : i.from > past /\ i.from <= t
    OBVIOUS
  <2> QED BY <1>2, <1>4, <1>6, <2>1
<1>12. /\ after = [last |-> after.last, date |-> after.date, plan |-> after.plan,
                   upto |-> after.upto, open |-> after.open]
       /\ after.last = t /\ after.upto = Latest(past, t) /\ after.plan = plan
       /\ sent2.opens = opens /\ sent2.closes = ended \cup closes
  OBVIOUS
<1>13. /\ LiveMessages(state, now, silent, drawn).state = after
       /\ LiveMessages(state, now, silent, drawn).sends = sent2
  BY <1>1
<1> HIDE DEF after, sent2, opens, closes, ended, plan, past, known
<1>14. after.open = (st.open \cup opens) \ (ended \cup closes)
  BY <1>9, <1>10
<1>15. \A x \in after.open : \E u \in Int : u <= Latest(past, t) /\ DrawnBy(x, u, draws')
  BY <1>7, <1>8, <1>9
<1> QED BY <1>2, <1>3, <1>4, <1>6, <1>9, <1>10, <1>11, <1>12, <1>13, <1>14, <1>15

LEMMA ClockStarts ==
    ASSUME FeedInv, NEW drawn \in Drawn(state), StartClock(drawn) PROVE FeedInv'
<1> DEFINE live == LiveMessages(state, now, FALSE, drawn)
<1>1. /\ main.at = "start" /\ main' = [at |-> "backfill", holds |-> Silence]
      /\ status' \in {FALSE, status, status \/ feed.there}
      /\ feed.there => DrawsPlan(state) /\ state' = live.state
      /\ ~feed.there => UNCHANGED <<state, draws>>
      /\ UNCHANGED <<now, api, notice, feed, refresh, stopped, unclosed, unopened, repeated>>
  BY DEF StartClock, PublishStatus, At, sentVars
<1>2. main'.at = "backfill" /\ main'.holds = Silence
  BY <1>1
<1>3. main.holds = Silence /\ state = NoState /\ unclosed = {} /\ ~stopped
  BY <1>1 DEF FeedInv, MainInv
<1>4. PlanInv' /\ state'.open = {} /\ (feed.there \/ state' = NoState)
      /\ state' = [last |-> state'.last, date |-> state'.date, plan |-> state'.plan,
                   upto |-> state'.upto, open |-> state'.open]
  <2>1. CASE feed.there
    <3>1. /\ live.state = [last |-> live.state.last, date |-> live.state.date,
                           plan |-> live.state.plan, upto |-> live.state.upto,
                           open |-> live.state.open]
          /\ draws' \in Nat /\ live.state.last \in Int /\ live.state.upto \in Int
          /\ \A i \in live.state.plan : i.from \in Int /\ DrawnBy(i.session, i.from, draws')
          /\ \A x \in live.state.open :
                \E t \in Int : t <= live.state.upto /\ DrawnBy(x, t, draws')
          /\ live.state.open = (state.open \cup live.sends.opens) \ live.sends.closes
          /\ state.last = Never => live.sends.opens = {}
      BY <1>1, <2>1, LiveIs
    <3> HIDE DEF live
    <3>2. state' = live.state /\ state.open = {} /\ state.last = Never
      BY <1>1, <1>3, <2>1, NoStateIs
    <3>3. live.state.open = {}
      BY <3>1, <3>2
    <3> QED BY <2>1, <3>1, <3>2, <3>3 DEF PlanInv, DrawnBy
  <2>2. CASE ~feed.there
    BY <1>1, <1>3, <2>2, PlanKept, NoStateIs DEF FeedInv
  <2> QED BY <2>1, <2>2
<1>5. status' \in BOOLEAN /\ NoStatusOfGone'
  BY <1>1, StatusKept
<1>6. FeedTypes'
  BY <1>1, <1>4, <1>5 DEF FeedInv, FeedTypes
<1>7. WireInv'
  BY <1>1, <1>2, <1>3, <1>4, SilenceIs DEF FeedInv, WireInv
<1>8. MainInv'
  BY <1>1, <1>2, <1>3, <1>4 DEF FeedInv, MainInv
<1>9. NewsInv'
  BY <1>1, <1>2 DEF FeedInv, NewsInv
<1> QED BY <1>4, <1>5, <1>6, <1>7, <1>8, <1>9 DEF FeedInv

\* The history is closed as it is opened.
LEMMA BackfillStep ==
    ASSUME FeedInv,
           BackfilledBefore \/ \E before, today \in Days[1] : Backfill(before, today)
    PROVE  FeedInv'
<1>1. /\ main.at = "backfill" /\ main' = [at |-> "awake", holds |-> Silence]
      /\ \/ UNCHANGED <<unclosed, unopened, repeated>>
         \/ \E sessions : Send([opens |-> sessions, closes |-> sessions])
      /\ UNCHANGED <<status, now, api, notice, feed, state, refresh, stopped, draws>>
  BY DEF BackfilledBefore, Backfill, HistoryMessages, At, sentVars, wireVars, demoBounds
<1>2. main'.at = "awake" /\ main'.holds = Silence
  BY <1>1
<1>3. main.holds = Silence /\ unclosed = {} /\ ~stopped /\ unopened = {} /\ ~repeated
  BY <1>1, SilenceIs DEF FeedInv, MainInv, WireInv
<1>4. unclosed' = {} /\ unopened' = {} /\ ~repeated'
  <2>1. CASE UNCHANGED <<unclosed, unopened, repeated>>
    BY <1>3, <2>1
  <2>2. ASSUME NEW sessions, Send([opens |-> sessions, closes |-> sessions])
        PROVE  unclosed' = {} /\ unopened' = {} /\ ~repeated'
    <3>1. /\ unclosed' = (unclosed \cup (sessions \ unopened)) \ sessions
          /\ unopened' = (unopened \cup (sessions \ (unclosed \cup sessions))) \ sessions
          /\ repeated' = (repeated \/ unclosed \cap sessions # {} \/ unopened \cap sessions # {})
      BY <2>2 DEF Send
    <3>2. ~repeated'
      BY <1>3, <3>1
    <3> QED BY <1>3, <3>1, <3>2
  <2> QED BY <1>1, <2>1, <2>2
<1>5. FeedTypes' /\ PlanInv'
  BY <1>1, PlanKept DEF FeedInv, FeedTypes
<1>6. state.open = {}
  BY <1>1 DEF FeedInv, MainInv
<1>7. WireInv'
  BY <1>1, <1>2, <1>4, <1>6, SilenceIs DEF WireInv
<1>8. MainInv'
  BY <1>1, <1>2, <1>3 DEF FeedInv, MainInv
<1>9. NewsInv' /\ NoStatusOfGone'
  BY <1>1, <1>2 DEF FeedInv, NewsInv, NoStatusOfGone
<1> QED BY <1>5, <1>7, <1>8, <1>9 DEF FeedInv

LEMMA FeedTickStep ==
    ASSUME FeedInv, NEW silent \in BOOLEAN, NEW drawn \in Drawn(state), Tick(silent, drawn)
    PROVE  FeedInv'
<1> DEFINE live == LiveMessages(state, now, silent, drawn)
<1>1. /\ main.at = "awake" /\ feed.there /\ DrawsPlan(state)
      /\ state' = live.state /\ main' = [at |-> "sends", holds |-> live.sends]
      /\ UNCHANGED <<now, api, notice, feed, refresh, stopped, status, unclosed, unopened, repeated>>
  BY DEF Tick, wireVars
<1>2. /\ live.state = [last |-> live.state.last, date |-> live.state.date,
                       plan |-> live.state.plan, upto |-> live.state.upto,
                       open |-> live.state.open]
      /\ draws' \in Nat /\ live.state.last \in Int /\ live.state.upto \in Int
      /\ \A i \in live.state.plan : i.from \in Int /\ DrawnBy(i.session, i.from, draws')
      /\ \A x \in live.state.open :
            \E t \in Int : t <= live.state.upto /\ DrawnBy(x, t, draws')
      /\ live.state.open = (state.open \cup live.sends.opens) \ live.sends.closes
      /\ live.sends.opens \cap state.open = {}
      /\ live.sends.closes \subseteq state.open \cup live.sends.opens
  BY <1>1, LiveIs
<1> HIDE DEF live
<1>3. main'.at = "sends" /\ main'.holds = live.sends
  BY <1>1
<1>4. main.holds = Silence /\ ~stopped
  BY <1>1 DEF FeedInv, MainInv
<1>5. /\ unopened = {} /\ ~repeated /\ unclosed = state.open
  BY <1>1, <1>4, SilenceIs DEF FeedInv, WireInv
<1>6. PlanInv'
  BY <1>1, <1>2 DEF PlanInv, DrawnBy
<1>7. WireInv'
  BY <1>1, <1>2, <1>3, <1>5 DEF WireInv
<1>8. FeedTypes'
  BY <1>1, <1>2 DEF FeedInv, FeedTypes
<1>9. MainInv'
  BY <1>1, <1>3, <1>4 DEF FeedInv, MainInv
<1>10. NewsInv' /\ NoStatusOfGone'
  BY <1>1, <1>3 DEF FeedInv, NewsInv, NoStatusOfGone
<1> QED BY <1>6, <1>7, <1>8, <1>9, <1>10 DEF FeedInv

\* What was held is sent: the stream is what the feed remembers again.
LEMMA SendsStep == ASSUME FeedInv, NEW resync \in BOOLEAN, TickSends(resync) PROVE FeedInv'
<1>1. /\ main.at = "sends" /\ main' = [at |-> "awake", holds |-> Silence]
      /\ Send(main.holds) /\ status' \in {FALSE, status, status \/ feed.there}
      /\ refresh' = IF resync THEN Coalesced ELSE refresh
      /\ UNCHANGED <<now, api, notice, feed, state, stopped, draws>>
  BY DEF TickSends, PublishStatus, At, demoBounds
<1>2. main'.at = "awake" /\ main'.holds = Silence
  BY <1>1
<1>3. refresh \in Refreshes /\ ~stopped
  BY <1>1 DEF FeedInv, FeedTypes, MainInv
<1>4. /\ refresh' \in Refreshes
      /\ refresh' = refresh \/ (/\ refresh'.at # "idle"
                                /\ refresh'.at = "fetching" \/ refresh'.again)
  BY <1>1, <1>3, CallWaits
<1>5. WireInv'
  <2> DEFINE HO == main.holds.opens
             HC == main.holds.closes
  <2>1. /\ ~repeated /\ unopened \subseteq HO /\ unclosed \cap HO = {}
        /\ HC \subseteq unclosed \cup HO /\ unopened \cap HC = {}
        /\ (unclosed \cup HO) \ (unopened \cup HC) = state.open
    BY <1>1 DEF FeedInv, WireInv
  <2>2. /\ unclosed' = (unclosed \cup (HO \ unopened)) \ HC
        /\ unopened' = (unopened \cup (HC \ (unclosed \cup HO))) \ HO
        /\ repeated' = (repeated \/ unclosed \cap HO # {} \/ unopened \cap HC # {})
    BY <1>1 DEF Send
  <2> HIDE DEF HO, HC
  <2>3. ~repeated'
    BY <2>1, <2>2
  <2>4. unopened' = {} /\ unclosed' = state.open
    BY <2>1, <2>2
  <2> QED BY <1>1, <1>2, <2>3, <2>4, SilenceIs DEF WireInv
<1>6. status' \in BOOLEAN /\ NoStatusOfGone'
  BY <1>1, StatusKept
<1>7. FeedTypes' /\ PlanInv'
  BY <1>1, <1>4, <1>6, PlanKept DEF FeedInv, FeedTypes
<1>8. MainInv'
  BY <1>1, <1>2, <1>3 DEF FeedInv, MainInv
<1>9. NewsInv'
  BY <1>1, <1>2, <1>4 DEF FeedInv, NewsInv
<1> QED BY <1>5, <1>6, <1>7, <1>8, <1>9 DEF FeedInv

LEMMA FinallyStep == ASSUME FeedInv, NEW ready \in BOOLEAN, Finally(ready) PROVE FeedInv'
<1> DEFINE end == IF ready THEN "stopped" ELSE "cut_off"
<1>1. /\ main.at \in {"wait", "awake"} /\ stopped' = TRUE
      /\ main' = [at |-> end, holds |-> Silence]
      /\ ready => Send(CloseOpen(state)) /\ status' = FALSE
      /\ ~ready => UNCHANGED <<status, unclosed, unopened, repeated>>
      /\ state' = [state EXCEPT !.open = {}]
      /\ UNCHANGED <<now, api, notice, feed, refresh, draws>>
  BY DEF Finally, At, wireVars, demoBounds
<1>2. main'.at = end /\ main'.holds = Silence
  BY <1>1
<1>3. main.holds = Silence /\ unopened = {} /\ ~repeated /\ unclosed = state.open
  BY <1>1, SilenceIs DEF FeedInv, MainInv, WireInv
<1>4. /\ state = [last |-> state.last, date |-> state.date, plan |-> state.plan,
                  upto |-> state.upto, open |-> state.open]
      /\ feed.there \/ state = NoState
  BY DEF FeedInv, FeedTypes
<1>5. state' = [last |-> state.last, date |-> state.date, plan |-> state.plan,
                upto |-> state.upto, open |-> {}]
  BY <1>1, <1>4
<1>6. /\ state' = [last |-> state'.last, date |-> state'.date, plan |-> state'.plan,
                   upto |-> state'.upto, open |-> state'.open]
      /\ state'.last = state.last /\ state'.plan = state.plan /\ state'.upto = state.upto
      /\ state'.open = {} /\ (feed.there \/ state' = NoState)
  <2>1. state = NoState => state' = NoState
    BY <1>5 DEF NoState
  <2> QED BY <1>4, <1>5, <2>1
<1>7. PlanInv'
  BY <1>1, <1>6 DEF FeedInv, PlanInv, DrawnBy
<1>8. unopened' = {} /\ ~repeated' /\ (ready => unclosed' = {}) /\ status' \in BOOLEAN
  <2>1. CASE ready
    <3>1. /\ unclosed' = unclosed \ state.open
          /\ unopened' = unopened \cup (state.open \ unclosed)
          /\ repeated' = (repeated \/ unopened \cap state.open # {})
          /\ status' = FALSE
      BY <1>1, <2>1 DEF Send, CloseOpen
    <3>2. ~repeated'
      BY <1>3, <3>1
    <3> QED BY <1>3, <3>1, <3>2
  <2>2. CASE ~ready
    BY <1>1, <1>3, <2>2 DEF FeedInv, FeedTypes
  <2> QED BY <2>1, <2>2
<1>9. FeedTypes'
  BY <1>1, <1>6, <1>8 DEF FeedInv, FeedTypes
<1>10. WireInv'
  BY <1>2, <1>6, <1>8, SilenceIs DEF WireInv
<1>11. MainInv'
  <2>1. CASE ready
    BY <1>1, <1>2, <1>8, <2>1 DEF MainInv
  <2>2. CASE ~ready
    BY <1>1, <1>2, <2>2 DEF MainInv
  <2> QED BY <2>1, <2>2
<1>12. NewsInv' /\ NoStatusOfGone'
  BY <1>1 DEF FeedInv, NewsInv, NoStatusOfGone
<1> QED BY <1>7, <1>9, <1>10, <1>11, <1>12 DEF FeedInv

LEMMA FeedStep == FeedInv /\ [DemoNext]_demoVars => FeedInv'
<1> SUFFICES ASSUME FeedInv, [DemoNext]_demoVars PROVE FeedInv'
  OBVIOUS
<1>1. CASE \E d \in Jumps : ClockMoves(d)
  BY <1>1, ClockStep
<1>2. ASSUME NEW it \in BOOLEAN, ApiChanges(it) \/ FetchCameras(it) PROVE FeedInv'
  BY <1>2, ApiStep, FetchStep
<1>3. CASE NoticeArrives \/ NoticeLost \/ Reconnects
  BY <1>3, NoticeStep
<1>4. CASE RefreshAdopts
  BY <1>4, AdoptsStep
<1>5. CASE RefreshPublishes \/ RefreshEnds \/ StatusExpires
  BY <1>5, PublishStep
<1>6. CASE WaitForCameras \/ SubscribeNotices
  BY <1>6, WaitStep
<1>7. CASE BackfilledBefore \/ \E before, today \in Days[1] : Backfill(before, today)
  BY <1>7, BackfillStep
<1>8. ASSUME NEW ready \in BOOLEAN, Finally(ready) PROVE FeedInv'
  BY <1>8, FinallyStep
<1>9. ASSUME NEW drawn \in Drawn(state),
             StartClock(drawn) \/ \E silent \in BOOLEAN : Tick(silent, drawn)
      PROVE  FeedInv'
  BY <1>9, ClockStarts, FeedTickStep
<1>10. ASSUME NEW resync \in BOOLEAN, TickSends(resync) PROVE FeedInv'
  BY <1>10, SendsStep
<1>11. CASE UNCHANGED demoVars
  <2>1. UNCHANGED <<now, api, notice, feed, state, main, refresh, stopped, status, unclosed,
                    unopened, repeated, draws>>
    BY <1>11 DEF demoVars, wireVars, demoBounds
  <2>2. WireInv' /\ PlanInv'
    BY <2>1, WireKept, PlanKept DEF FeedInv
  <2>3. FeedTypes' /\ MainInv'
    BY <2>1 DEF FeedInv, FeedTypes, MainInv
  <2>4. NewsInv' /\ NoStatusOfGone'
    BY <2>1 DEF FeedInv, NewsInv, NoStatusOfGone
  <2> QED BY <2>2, <2>3, <2>4 DEF FeedInv
<1> QED BY <1>1, <1>2, <1>3, <1>4, <1>5, <1>6, <1>7, <1>8, <1>9, <1>10, <1>11 DEF DemoNext

LEMMA FeedFollows == FeedInv => IntervalsClosed /\ NoStatusOfGone /\ FollowsNotices /\ DemoTypeOK
<1> SUFFICES ASSUME FeedInv
             PROVE  IntervalsClosed /\ NoStatusOfGone /\ FollowsNotices /\ DemoTypeOK
  OBVIOUS
<1>1. IntervalsClosed
  BY DEF FeedInv, WireInv, MainInv, IntervalsClosed
<1>2. FollowsNotices
  BY DEF FeedInv, NewsInv, FollowsNotices
<1>3. DemoTypeOK
  <2>1. refresh.at \in {"idle", "fetching", "fetched", "adopted", "published"}
    BY DEF FeedInv, FeedTypes, Refreshes
  <2> QED BY <2>1 DEF FeedInv, FeedTypes, MainInv, Cams, DemoTypeOK
<1> QED BY <1>1, <1>2, <1>3 DEF FeedInv

-----------------------------------------------------------------------------

\* Each interval of the demo feed is opened and closed once, no status is shown of
\* a camera that left, and after the last notice the feed has the cameras as they
\* are: whatever the days' plans, the jumps of the clock and the moments at which
\* the camera changes, a notice is lost or the feed is stopped.
THEOREM TheDemoFollows == ApiSpec => []DemoIsConsistent
<1>1. ApiInit => FeedInv
  BY FeedStart DEF ApiInit
<1>2. FeedInv /\ [ApiNext]_apiPartsVars => FeedInv'
  BY PartsMove, FeedStep
<1>3. FeedInv => DemoIsConsistent
  BY FeedFollows DEF DemoIsConsistent
<1> QED BY <1>1, <1>2, <1>3, PTL DEF ApiSpec

-----------------------------------------------------------------------------
(* The lists and the exports.                                              *)

Orders == {"asc", "desc"}
KeyedRows == [id : RowIds, time : RowTimes]

\* Rows of one table: an id is of one row.
OneTable(rows) ==
    /\ rows \subseteq KeyedRows /\ IsFiniteSet(rows)
    /\ \A q, r \in rows : q.id = r.id => q = r

\* A set of numbers has a least one.
LEMMA LeastNumber ==
    ASSUME NEW T \in SUBSET Nat, T # {}
    PROVE  \E m \in T : \A n \in T : m <= n
<1>1. PICK m \in T : \A n \in T : ~(<<n, m>> \in OpToRel(<, Nat))
  BY NatLessThanWellFounded, WFMin
<1>2. \A n \in T : n \in Nat /\ m \in Nat /\ (<<n, m>> \in OpToRel(<, Nat) <=> n < m)
  BY DEF OpToRel
<1>3. ASSUME NEW n \in T PROVE m <= n
  <2>1. n \in Nat /\ m \in Nat /\ ~(n < m)
    BY <1>1, <1>2
  <2> QED BY <2>1
<1> QED BY <1>1, <1>3, Zenon

\* A list's order is total on the rows of a table.
LEMMA RowOrder ==
    ASSUME NEW list, NEW order \in Orders, NEW p \in KeyedRows, NEW q \in KeyedRows,
           NEW r \in KeyedRows
    PROVE  /\ ~Precedes(list, p, p, order)
           /\ Precedes(list, p, q, order) /\ Precedes(list, q, r, order)
                 => Precedes(list, p, r, order)
           /\ p.id # q.id => Precedes(list, p, q, order) \/ Precedes(list, q, p, order)
<1>1. /\ p.id \in Nat /\ q.id \in Nat /\ r.id \in Nat
      /\ p.time \in Nat /\ q.time \in Nat /\ r.time \in Nat
  BY PagesAssumption DEF KeyedRows
<1>2. CASE list \in IdOrdered
  BY <1>1, <1>2 DEF Precedes, Beyond, Orders
<1>3. CASE list \notin IdOrdered
  BY <1>1, <1>3 DEF Precedes, Beyond, Orders
<1> QED BY <1>2, <1>3

\* The rows of a set that a list has before a row.
Ahead(list, rows, r, order) == {q \in rows : Precedes(list, q, r, order)}

LEMMA AheadIsFinite ==
    ASSUME NEW list, NEW order, NEW rows, OneTable(rows), NEW r
    PROVE  /\ IsFiniteSet(Ahead(list, rows, r, order))
           /\ Cardinality(Ahead(list, rows, r, order)) \in Nat
<1>1. Ahead(list, rows, r, order) \in SUBSET rows /\ IsFiniteSet(rows)
  BY DEF Ahead, OneTable
<1>2. IsFiniteSet(Ahead(list, rows, r, order))
  BY <1>1, FS_Subset
<1> QED BY <1>2, FS_CardinalityType

\* Of two rows, the later one has more rows before it.
LEMMA MoreAhead ==
    ASSUME NEW list, NEW order \in Orders, NEW rows, OneTable(rows),
           NEW q \in rows, NEW r \in rows, Precedes(list, q, r, order)
    PROVE  Cardinality(Ahead(list, rows, q, order)) < Cardinality(Ahead(list, rows, r, order))
<1> DEFINE less == Ahead(list, rows, q, order)
           more == Ahead(list, rows, r, order)
<1>1. q \in KeyedRows /\ r \in KeyedRows /\ rows \subseteq KeyedRows
  BY DEF OneTable
<1>2. q \in more /\ q \notin less
  BY <1>1, RowOrder DEF Ahead
<1>3. \A p \in less : p \in more
  BY <1>1, RowOrder DEF Ahead
<1>4. less \in SUBSET more /\ less # more
  BY <1>2, <1>3
<1>5. IsFiniteSet(more) /\ Cardinality(more) \in Nat /\ Cardinality(less) \in Nat
  BY AheadIsFinite
<1> HIDE DEF less, more
<1>6. Cardinality(less) <= Cardinality(more) /\ Cardinality(less) # Cardinality(more)
  BY <1>4, <1>5, FS_Subset
<1>7. Cardinality(less) < Cardinality(more)
  BY <1>5, <1>6
<1> QED BY <1>7 DEF less, more

LEMMA FirstAhead ==
    ASSUME NEW list, NEW order, NEW rows, NEW n
    PROVE  FirstOf(list, rows, n, order)
             = {r \in rows : Cardinality(Ahead(list, rows, r, order)) < n}
  BY DEF FirstOf, Ahead

\* With a row, the first rows have those before it.
LEMMA FirstIsClosed ==
    ASSUME NEW list, NEW order \in Orders, NEW rows, OneTable(rows), NEW n \in Nat,
           NEW r \in FirstOf(list, rows, n, order), NEW q \in rows,
           Precedes(list, q, r, order)
    PROVE  q \in FirstOf(list, rows, n, order)
<1>1. r \in rows /\ Cardinality(Ahead(list, rows, r, order)) < n
  BY FirstAhead
<1>2. Cardinality(Ahead(list, rows, q, order)) < Cardinality(Ahead(list, rows, r, order))
  BY <1>1, MoreAhead
<1>3. /\ Cardinality(Ahead(list, rows, r, order)) \in Nat
      /\ Cardinality(Ahead(list, rows, q, order)) \in Nat
  BY AheadIsFinite
<1>4. Cardinality(Ahead(list, rows, q, order)) < n
  BY <1>1, <1>2, <1>3
<1> QED BY <1>4, FirstAhead

\* Fewer rows than were asked for are all there are: the first that is missing
\* would have them all before it.
LEMMA FirstAreAll ==
    ASSUME NEW list, NEW order \in Orders, NEW rows, OneTable(rows), NEW n \in Nat,
           Cardinality(FirstOf(list, rows, n, order)) < n
    PROVE  FirstOf(list, rows, n, order) = rows
<1> DEFINE first == FirstOf(list, rows, n, order)
           count(r) == Cardinality(Ahead(list, rows, r, order))
           counts == {count(r) : r \in rows \ first}
<1>1. first \in SUBSET rows
  BY FirstAhead
<1>2. SUFFICES ASSUME rows \ first # {} PROVE FALSE
  BY <1>1
<1>3. \A r \in rows : count(r) \in Nat
  BY AheadIsFinite
<1>4. counts \in SUBSET Nat /\ counts # {}
  BY <1>2, <1>3
<1>5. PICK m \in counts : \A k \in counts : m <= k
  BY <1>4, LeastNumber
<1>6. PICK r \in rows \ first : m = count(r)
  BY <1>5
<1>7. ~(count(r) < n)
  BY <1>6, FirstAhead
<1>8. Ahead(list, rows, r, order) \in SUBSET first
  <2>1. SUFFICES ASSUME NEW q \in Ahead(list, rows, r, order), q \notin first PROVE FALSE
    OBVIOUS
  <2>2. q \in rows /\ Precedes(list, q, r, order)
    BY <2>1 DEF Ahead
  <2>3. count(q) < count(r)
    BY <1>6, <2>2, MoreAhead
  <2>4. count(q) \in counts
    BY <2>1, <2>2
  <2>5. m <= count(q) /\ count(q) \in Nat /\ count(r) \in Nat
    BY <1>3, <1>5, <1>6, <2>2, <2>4
  <2> QED BY <1>6, <2>3, <2>5
<1>9. IsFiniteSet(first) /\ Cardinality(first) \in Nat
  BY <1>1, FS_Subset, FS_CardinalityType DEF OneTable
<1>10. count(r) <= Cardinality(first)
  BY <1>8, <1>9, FS_Subset
<1>11. count(r) \in Nat
  BY <1>3, <1>6
<1> HIDE DEF count, first
<1>12. Cardinality(first) < n
  BY DEF first
<1> QED BY <1>7, <1>9, <1>10, <1>11, <1>12

\* No more rows than were asked for all fit.
LEMMA FirstFits ==
    ASSUME NEW list, NEW order \in Orders, NEW rows, OneTable(rows), NEW n \in Nat,
           Cardinality(rows) <= n
    PROVE  FirstOf(list, rows, n, order) = rows
<1>1. SUFFICES ASSUME NEW r \in rows
               PROVE  Cardinality(Ahead(list, rows, r, order)) < n
  BY FirstAhead
<1>2. r \notin Ahead(list, rows, r, order) /\ Ahead(list, rows, r, order) \in SUBSET rows
  BY RowOrder DEF Ahead, OneTable
<1>3. IsFiniteSet(rows) /\ Cardinality(rows) \in Nat
  BY FS_CardinalityType DEF OneTable
<1>4. /\ Cardinality(Ahead(list, rows, r, order)) <= Cardinality(rows)
      /\ Cardinality(Ahead(list, rows, r, order)) # Cardinality(rows)
  BY <1>2, <1>3, FS_Subset
<1>5. Cardinality(Ahead(list, rows, r, order)) \in Nat
  BY AheadIsFinite
<1> QED BY <1>3, <1>4, <1>5

\* Rows that are not none have a last one.
LEMMA LastIsLast ==
    ASSUME NEW list, NEW order \in Orders, NEW rows, OneTable(rows), rows # {}
    PROVE  /\ LastOf(list, rows, order) \in rows
           /\ \A q \in rows : \/ q = LastOf(list, rows, order)
                              \/ Precedes(list, q, LastOf(list, rows, order), order)
<1> DEFINE count(r) == Cardinality(Ahead(list, rows, r, order))
           size == Cardinality(rows)
           behind == {size - count(r) : r \in rows}
<1>1. IsFiniteSet(rows) /\ size \in Nat
  BY FS_CardinalityType DEF OneTable
<1>2. \A r \in rows : count(r) \in Nat /\ count(r) <= size
  <2>1. SUFFICES ASSUME NEW r \in rows PROVE count(r) \in Nat /\ count(r) <= size
    OBVIOUS
  <2>2. Ahead(list, rows, r, order) \in SUBSET rows
    BY DEF Ahead
  <2> QED BY <1>1, <2>2, FS_Subset, AheadIsFinite
<1> HIDE DEF size, count
<1>3. \A r \in rows : size - count(r) \in Nat
  BY <1>1, <1>2
<1>4. behind \in SUBSET Nat /\ behind # {}
  BY <1>3
<1>5. PICK m \in behind : \A k \in behind : m <= k
  BY <1>4, LeastNumber
<1>6. PICK r \in rows : m = size - count(r)
  BY <1>5
<1>7. \A q \in rows : q = r \/ Precedes(list, q, r, order)
  <2>1. SUFFICES ASSUME NEW q \in rows, q # r, Precedes(list, r, q, order) PROVE FALSE
    <3>1. \A q \in rows : q = r \/ Precedes(list, q, r, order) \/ Precedes(list, r, q, order)
      BY <1>6, RowOrder DEF OneTable
    <3> QED BY <3>1
  <2>2. count(r) < count(q)
    BY <1>6, <2>1, MoreAhead DEF count
  <2>3. size - count(q) \in behind
    BY <2>1
  <2>4. size - count(r) <= size - count(q)
    BY <1>5, <1>6, <2>3
  <2>5. count(r) \in Nat /\ count(q) \in Nat /\ size \in Nat
    BY <1>1, <1>2, <1>6
  <2> QED BY <2>2, <2>4, <2>5
<1> QED BY <1>6, <1>7 DEF LastOf

-----------------------------------------------------------------------------

Walking == {"list", "next", "write"}
WalkOrder == IF walk.list \in PagedLists THEN "desc" ELSE "asc"

\* The rows up to the cursor.
Passed(id) ==
    /\ walk.after # NoRow
    /\ \/ TableRow(id) = walk.after
       \/ Precedes(walk.list, TableRow(id), walk.after, WalkOrder)

\* What a walk knows where it stands.
WalkShape ==
    /\ walk.list \in PagedLists \cup CsvExports \cup {"none"}
    /\ walk.at \in {"idle", "list", "first", "next", "write", "complete", "cut", "error"}
    /\ walk.at = "list" =>
          /\ walk.list \in PagedLists
          /\ walk = [list |-> walk.list, at |-> "list", after |-> walk.after,
                     there |-> walk.there]
    /\ walk.at \in {"first", "next", "write"} => walk.list \in CsvExports
    /\ walk.at = "first" => walk.after = NoRow

\* The cursor and the batch are of rows that are in the table.
WalkTypes ==
    /\ table \in [RowIds -> RowTimes \cup {0}] /\ sent \in [RowIds -> {0, 1}]
    /\ walk.at \in Walking =>
          /\ walk.after = NoRow \/ walk.after \in TableRows
          /\ \A id \in walk.there : id \in RowIds /\ table[id] # 0
    /\ walk.at = "write" => walk.batch \subseteq TableRows

\* What was sent is up to the cursor, and what was there up to the cursor is sent.
SentIsPassed ==
    /\ walk.at \in {"idle", "first"} => \A id \in RowIds : sent[id] = 0
    /\ walk.at \in Walking =>
          \A id \in RowIds :
              /\ sent[id] = 1 => table[id] # 0 /\ Passed(id)
              /\ id \in walk.there /\ Passed(id) => sent[id] = 1

\* A batch follows the cursor; of what was there, all of it or what follows the
\* batch is left out.
BatchIsNext ==
    walk.at = "write" =>
        /\ \A id \in RowIds : TableRow(id) \in walk.batch => ~Passed(id)
        /\ \A q \in walk.batch :
              walk.after # NoRow => Precedes(walk.list, walk.after, q, WalkOrder)
        /\ \A id \in walk.there :
              \/ Passed(id) \/ TableRow(id) \in walk.batch
              \/ /\ ~(Cardinality(walk.batch) < PageSize)
                 /\ \A q \in walk.batch : Precedes(walk.list, q, TableRow(id), WalkOrder)

CompleteHasAll == walk.at = "complete" => \A id \in walk.there : id \in RowIds /\ sent[id] = 1

PagesInv == WalkShape /\ WalkTypes /\ SentIsPassed /\ BatchIsNext /\ CompleteHasAll

LEMMA PagesStart == PagesInit => PagesInv
<1> SUFFICES ASSUME PagesInit PROVE PagesInv
  OBVIOUS
<1>1. /\ table \in [RowIds -> RowTimes \cup {0}] /\ walk = [list |-> "none", at |-> "idle"]
      /\ sent = [id \in RowIds |-> 0]
  BY DEF PagesInit, IdleWalk
<1>2. walk.at = "idle" /\ walk.at \notin Walking
  BY <1>1 DEF Walking
<1>3. WalkShape
  BY <1>1 DEF WalkShape, IdleWalk
<1>4. WalkTypes
  BY <1>1, <1>2 DEF WalkTypes
<1>5. SentIsPassed
  BY <1>1, <1>2 DEF SentIsPassed
<1>6. BatchIsNext /\ CompleteHasAll
  BY <1>2 DEF BatchIsNext, CompleteHasAll
<1> QED BY <1>3, <1>4, <1>5, <1>6 DEF PagesInv

LEMMA TableIsOne ==
    ASSUME WalkTypes
    PROVE  /\ OneTable(TableRows)
           /\ \A id \in RowIds : TableRow(id) \in TableRows <=> table[id] # 0
           /\ \A rows \in SUBSET TableRows : OneTable(rows)
           /\ \A r \in TableRows : r.id \in RowIds /\ r = TableRow(r.id) /\ r # NoRow
<1>1. /\ table \in [RowIds -> RowTimes \cup {0}] /\ RowTimes \subseteq Nat \ {0}
      /\ IsFiniteSet(RowIds)
  BY PagesAssumption DEF WalkTypes
<1>2. \A r \in TableRows : r.id \in RowIds /\ r = TableRow(r.id) /\ table[r.id] # 0
  BY DEF TableRows, TableRow
<1>3. \A r \in TableRows : r \in KeyedRows /\ r # NoRow
  BY <1>1, <1>2 DEF TableRow, KeyedRows, NoRow
<1>4. \A id \in RowIds : TableRow(id) \in TableRows <=> table[id] # 0
  BY <1>2 DEF TableRows, TableRow
<1>5. IsFiniteSet(TableRows)
  <2>1. IsFiniteSet({i \in RowIds : table[i] # 0})
    BY <1>1, FS_Subset
  <2> DEFINE f == [id \in {i \in RowIds : table[i] # 0} |-> TableRow(id)]
  <2>2. f \in Surjection({i \in RowIds : table[i] # 0}, TableRows)
    BY DEF Surjection, TableRows
  <2> QED BY <2>1, <2>2, FS_Surjection
<1>6. \A q, r \in TableRows : q.id = r.id => q = r
  BY <1>2
<1>7. \A rows \in SUBSET TableRows : OneTable(rows)
  <2>1. SUFFICES ASSUME NEW rows \in SUBSET TableRows PROVE OneTable(rows)
    OBVIOUS
  <2>2. IsFiniteSet(rows)
    BY <1>5, FS_Subset
  <2> QED BY <1>3, <1>6, <2>2 DEF OneTable
<1> QED BY <1>2, <1>3, <1>4, <1>7

-----------------------------------------------------------------------------

\* The rows a query finds after the cursor are those not passed.
LEMMA FoundIsNotPassed ==
    ASSUME WalkShape, WalkTypes, walk.at \in Walking \cup {"first"}
    PROVE  LET found == FoundAfter(walk.list, walk.after, WalkOrder)
           IN  /\ OneTable(found) /\ found \subseteq TableRows
               /\ \A r \in found : walk.after = NoRow \/ Precedes(walk.list, walk.after, r, WalkOrder)
               /\ \A id \in RowIds : table[id] # 0 => (TableRow(id) \in found <=> ~Passed(id))
<1> DEFINE found == FoundAfter(walk.list, walk.after, WalkOrder)
<1>1. walk.after = NoRow \/ (walk.after \in TableRows /\ walk.after # NoRow)
  BY TableIsOne DEF WalkTypes, WalkShape
<1>2. /\ OneTable(TableRows) /\ OneTable(found) /\ found \subseteq TableRows
  BY TableIsOne DEF FoundAfter
<1>3. \A r \in TableRows : r \in found <=>
         walk.after = NoRow \/ Precedes(walk.list, walk.after, r, WalkOrder)
  BY DEF FoundAfter, Follows, KeysetAfter, Precedes, TimeOrdered, IdOrdered
<1>4. ASSUME NEW id \in RowIds, table[id] # 0
      PROVE  TableRow(id) \in found <=> ~Passed(id)
  <2>1. TableRow(id) \in TableRows
    BY <1>4, TableIsOne
  <2>2. CASE walk.after = NoRow
    BY <1>3, <2>1, <2>2 DEF Passed
  <2>3. CASE walk.after \in TableRows /\ walk.after # NoRow
    <3>1. WalkOrder \in Orders
      BY DEF WalkOrder, Orders
    <3>2. TableRow(id) \in KeyedRows /\ walk.after \in KeyedRows
      BY <1>2, <2>1, <2>3 DEF OneTable
    <3>3. TableRow(id) # walk.after => TableRow(id).id # walk.after.id
      BY <1>2, <2>1, <2>3 DEF OneTable
    <3>4. Passed(id) <=> \/ TableRow(id) = walk.after
                         \/ Precedes(walk.list, TableRow(id), walk.after, WalkOrder)
      BY <2>3 DEF Passed
    <3>5. TableRow(id) \in found <=> Precedes(walk.list, walk.after, TableRow(id), WalkOrder)
      BY <1>3, <2>1, <2>3
    <3>6. /\ ~Precedes(walk.list, walk.after, walk.after, WalkOrder)
          /\ ~(/\ Precedes(walk.list, walk.after, TableRow(id), WalkOrder)
               /\ Precedes(walk.list, TableRow(id), walk.after, WalkOrder))
          /\ TableRow(id) # walk.after =>
                \/ Precedes(walk.list, walk.after, TableRow(id), WalkOrder)
                \/ Precedes(walk.list, TableRow(id), walk.after, WalkOrder)
      BY <3>1, <3>2, <3>3, RowOrder
    <3> QED BY <3>4, <3>5, <3>6
  <2> QED BY <1>1, <2>2, <2>3
<1> QED BY <1>2, <1>3, <1>4

\* The first rows of a query: all there are, or what is left out follows them.
LEMMA FirstOrAll ==
    ASSUME NEW list, NEW order \in Orders, NEW rows, OneTable(rows), NEW n \in Nat \ {0}
    PROVE  LET first == FirstOf(list, rows, n, order)
           IN  /\ first \subseteq rows /\ OneTable(first)
               /\ Cardinality(first) < n => first = rows
               /\ ~(Cardinality(first) < n) => first # {}
               /\ \A r \in rows \ first, q \in first : Precedes(list, q, r, order)
<1> DEFINE first == FirstOf(list, rows, n, order)
<1>1. first \subseteq rows
  BY FirstAhead
<1>2. IsFiniteSet(first)
  BY <1>1, FS_Subset DEF OneTable
<1>3. OneTable(first)
  BY <1>1, <1>2 DEF OneTable
<1>4. Cardinality(first) < n => first = rows
  BY FirstAreAll
<1>5. ~(Cardinality(first) < n) => first # {}
  BY FS_EmptySet
<1>6. ASSUME NEW r \in rows \ first, NEW q \in first PROVE Precedes(list, q, r, order)
  <2>1. ~Precedes(list, r, q, order)
    BY <1>1, <1>6, FirstIsClosed
  <2>2. q \in KeyedRows /\ r \in KeyedRows /\ q.id # r.id
    BY <1>1, <1>6 DEF OneTable
  <2> QED BY <2>1, <2>2, RowOrder
<1> QED BY <1>1, <1>3, <1>4, <1>5, <1>6

\* A page of one row more than is sent.
LEMMA PageIsNext ==
    ASSUME NEW list, NEW order \in Orders, NEW rows, OneTable(rows), NEW n \in Nat \ {0}
    PROVE  LET found == FirstOf(list, rows, n + 1, order)
               page == FirstOf(list, found, n, order)
           IN  /\ page \subseteq rows /\ OneTable(page)
               /\ ~(Cardinality(found) > n) => page = rows
               /\ Cardinality(found) > n => page # {}
               /\ \A r \in rows \ page, q \in page : Precedes(list, q, r, order)
<1> DEFINE found == FirstOf(list, rows, n + 1, order)
           page == FirstOf(list, found, n, order)
<1>0. n \in Nat /\ n + 1 \in Nat \ {0} /\ n > 0
  OBVIOUS
<1>1. /\ found \subseteq rows /\ OneTable(found)
      /\ Cardinality(found) < n + 1 => found = rows
      /\ \A r \in rows \ found, q \in found : Precedes(list, q, r, order)
  BY <1>0, FirstOrAll
<1>2. /\ page \subseteq found /\ OneTable(page)
      /\ Cardinality(page) < n => page = found
      /\ ~(Cardinality(page) < n) => page # {}
      /\ \A r \in found \ page, q \in page : Precedes(list, q, r, order)
  BY <1>1, FirstOrAll
<1>3. Cardinality(found) \in Nat
  BY <1>1, FS_CardinalityType DEF OneTable
<1>4. ASSUME ~(Cardinality(found) > n) PROVE page = rows
  <2>1. Cardinality(found) < n + 1 /\ Cardinality(found) <= n
    BY <1>0, <1>3, <1>4
  <2>2. page = found
    BY <1>0, <1>1, <2>1, FirstFits
  <2> QED BY <1>1, <2>1, <2>2
<1>5. ASSUME Cardinality(found) > n PROVE page # {}
  <2>1. found # {}
    BY <1>0, <1>5, FS_EmptySet
  <2> QED BY <1>2, <2>1
<1>6. \A r \in rows \ page, q \in page : Precedes(list, q, r, order)
  BY <1>1, <1>2
<1> QED BY <1>1, <1>2, <1>4, <1>5, <1>6

-----------------------------------------------------------------------------

\* Rows that were not passed are sent once.
LEMMA SendsOnce ==
    ASSUME PagesInv, walk.at \in Walking, NEW batch \in SUBSET TableRows, Sends(batch),
           \A id \in RowIds : TableRow(id) \in batch => ~Passed(id)
    PROVE  /\ sent' \in [RowIds -> {0, 1}]
           /\ \A id \in RowIds : sent'[id] = 1 <=> (sent[id] = 1 \/ TableRow(id) \in batch)
<1>1. sent \in [RowIds -> {0, 1}] /\ \A id \in RowIds : sent[id] = 1 => Passed(id)
  BY DEF PagesInv, WalkTypes, SentIsPassed
<1>2. sent' = [id \in RowIds |-> sent[id] + (IF TableRow(id) \in batch THEN 1 ELSE 0)]
  BY DEF Sends
<1>3. \A id \in RowIds : /\ sent'[id] = sent[id] + (IF TableRow(id) \in batch THEN 1 ELSE 0)
                         /\ sent[id] \in {0, 1}
                         /\ TableRow(id) \in batch => sent[id] = 0
  BY <1>1, <1>2
<1>4. \A id \in RowIds : /\ sent'[id] \in {0, 1}
                         /\ sent'[id] = 1 <=> (sent[id] = 1 \/ TableRow(id) \in batch)
  BY <1>3
<1> QED BY <1>2, <1>4

\* The cursor goes to the last row that was sent.
LEMMA Advances ==
    ASSUME PagesInv, walk.at \in Walking, NEW batch \in SUBSET TableRows, Sends(batch),
           UNCHANGED table,
           \A id \in RowIds : TableRow(id) \in batch => ~Passed(id),
           \A r \in batch : walk.after = NoRow \/ Precedes(walk.list, walk.after, r, WalkOrder),
           NEW last \in batch,
           \A q \in batch : q = last \/ Precedes(walk.list, q, last, WalkOrder),
           \A id \in walk.there : \/ Passed(id) \/ TableRow(id) \in batch
                                  \/ Precedes(walk.list, last, TableRow(id), WalkOrder),
           walk'.list = walk.list, walk'.at \in {"list", "next"},
           walk'.after = last, walk'.there = walk.there
    PROVE  WalkTypes' /\ SentIsPassed' /\ BatchIsNext' /\ CompleteHasAll'
<1>1. WalkTypes /\ SentIsPassed /\ WalkOrder \in Orders /\ WalkOrder' = WalkOrder
  BY DEF PagesInv, WalkOrder, Orders
<1>2. /\ sent' \in [RowIds -> {0, 1}]
      /\ \A id \in RowIds : sent'[id] = 1 <=> (sent[id] = 1 \/ TableRow(id) \in batch)
  BY SendsOnce
<1>3. /\ TableRows' = TableRows /\ \A id : TableRow(id)' = TableRow(id)
  BY DEF TableRows, TableRow
<1>4. last \in TableRows /\ last # NoRow /\ last \in KeyedRows
  BY <1>1, TableIsOne DEF OneTable
<1>5. \A id \in RowIds : Passed(id)' <=> \/ TableRow(id) = last
                                         \/ Precedes(walk.list, TableRow(id), last, WalkOrder)
  BY <1>1, <1>3, <1>4 DEF Passed
<1>6. walk'.at \in Walking /\ walk'.at \notin {"idle", "first", "write", "complete"}
  BY DEF Walking
<1>7. WalkTypes'
  <2>1. \A id \in walk.there : id \in RowIds /\ table[id] # 0
    BY <1>1 DEF WalkTypes
  <2> QED BY <1>1, <1>2, <1>3, <1>4, <1>6, <2>1 DEF WalkTypes
<1>8. ASSUME NEW id \in RowIds, sent'[id] = 1 PROVE table[id] # 0 /\ Passed(id)'
  <2>1. CASE TableRow(id) \in batch
    <3>1. table[id] # 0
      BY <1>1, <2>1, TableIsOne
    <3> QED BY <1>5, <2>1, <3>1
  <2>2. CASE sent[id] = 1
    <3>1. table[id] # 0 /\ Passed(id)
      BY <1>1, <2>2 DEF SentIsPassed
    <3>2. walk.after # NoRow /\ Precedes(walk.list, walk.after, last, WalkOrder)
      BY <3>1 DEF Passed
    <3>3. TableRow(id) \in KeyedRows
      BY <1>1, <3>1, TableIsOne DEF OneTable
    <3>4. walk.after \in KeyedRows
      BY <1>1, <3>2, TableIsOne DEF OneTable, WalkTypes
    <3>5. Precedes(walk.list, TableRow(id), last, WalkOrder)
      BY <1>1, <1>4, <3>1, <3>2, <3>3, <3>4, RowOrder DEF Passed
    <3> QED BY <1>5, <3>1, <3>5
  <2> QED BY <1>2, <1>8, <2>1, <2>2
<1>9. ASSUME NEW id \in RowIds, id \in walk.there, Passed(id)' PROVE sent'[id] = 1
  <2>1. table[id] # 0
    BY <1>1, <1>9 DEF WalkTypes
  <2>2. TableRow(id) \in KeyedRows
    BY <1>1, <2>1, TableIsOne DEF OneTable
  <2>3. ~Precedes(walk.list, last, TableRow(id), WalkOrder)
    BY <1>1, <1>4, <1>5, <1>9, <2>2, RowOrder
  <2>4. Passed(id) => sent[id] = 1
    BY <1>1, <1>9 DEF SentIsPassed
  <2> QED BY <1>2, <1>9, <2>3, <2>4
<1>10. SentIsPassed'
  BY <1>6, <1>8, <1>9 DEF SentIsPassed
<1>11. BatchIsNext' /\ CompleteHasAll'
  BY <1>6 DEF BatchIsNext, CompleteHasAll
<1> QED BY <1>7, <1>10, <1>11

\* What was there is passed or is sent now: the walk has it all.
LEMMA Completes ==
    ASSUME PagesInv, walk.at \in Walking, NEW batch \in SUBSET TableRows, Sends(batch),
           UNCHANGED table,
           \A id \in RowIds : TableRow(id) \in batch => ~Passed(id),
           \A id \in walk.there : Passed(id) \/ TableRow(id) \in batch,
           walk'.at = "complete", walk'.there = walk.there
    PROVE  WalkTypes' /\ SentIsPassed' /\ BatchIsNext' /\ CompleteHasAll'
<1>1. WalkTypes /\ SentIsPassed
  BY DEF PagesInv
<1>2. /\ sent' \in [RowIds -> {0, 1}]
      /\ \A id \in RowIds : sent'[id] = 1 <=> (sent[id] = 1 \/ TableRow(id) \in batch)
  BY SendsOnce
<1>3. walk'.at \notin Walking /\ walk'.at \notin {"idle", "first", "write"}
  BY DEF Walking
<1>4. \A id \in walk.there : id \in RowIds /\ (Passed(id) => sent[id] = 1)
  BY <1>1 DEF WalkTypes, SentIsPassed
<1>5. CompleteHasAll'
  BY <1>2, <1>4 DEF CompleteHasAll
<1>6. WalkTypes'
  BY <1>1, <1>2, <1>3 DEF WalkTypes
<1> QED BY <1>3, <1>5, <1>6 DEF SentIsPassed, BatchIsNext

LEMMA ServePageStep ==
    ASSUME PagesInv, NEW list \in PagedLists, ServePage(list) PROVE PagesInv'
<1> DEFINE rows == FoundAfter(walk.list, walk.after, "desc")
           found == FirstOf(walk.list, rows, PageSize + 1, "desc")
           page == FirstOf(walk.list, found, PageSize, "desc")
<1>1. /\ WalkShape /\ WalkTypes /\ walk.at = "list" /\ walk.at \in Walking /\ list = walk.list
      /\ WalkOrder = "desc" /\ "desc" \in Orders
  BY DEF PagesInv, ServePage, Walking, WalkOrder, Orders
<1>2. /\ OneTable(rows) /\ rows \subseteq TableRows
      /\ \A r \in rows : walk.after = NoRow \/ Precedes(walk.list, walk.after, r, WalkOrder)
      /\ \A id \in RowIds : table[id] # 0 => (TableRow(id) \in rows <=> ~Passed(id))
  BY <1>1, FoundIsNotPassed
<1>3. PageSize \in Nat \ {0}
  BY PagesAssumption
<1> HIDE DEF rows
<1>4. /\ page \subseteq rows /\ OneTable(page)
      /\ ~(Cardinality(found) > PageSize) => page = rows
      /\ Cardinality(found) > PageSize => page # {}
      /\ \A r \in rows \ page, q \in page : Precedes(walk.list, q, r, WalkOrder)
  BY <1>1, <1>2, <1>3, PageIsNext
<1>5. /\ Sends(page) /\ UNCHANGED table
      /\ walk' = IF Cardinality(found) > PageSize
                 THEN [walk EXCEPT !.after = LastOf(walk.list, page, "desc")]
                 ELSE [walk EXCEPT !.at = "complete"]
  BY <1>1 DEF ServePage, rows
<1>6. /\ walk.list \in PagedLists
      /\ walk = [list |-> walk.list, at |-> "list", after |-> walk.after, there |-> walk.there]
  BY <1>1 DEF WalkShape
<1> HIDE DEF page, found
<1>7. \A id \in RowIds : TableRow(id) \in page => ~Passed(id)
  <2>1. \A id \in RowIds : TableRow(id) \in TableRows => table[id] # 0
    BY <1>1, TableIsOne
  <2> QED BY <1>2, <1>4, <2>1
<1>8. \A id \in walk.there : id \in RowIds /\ (Passed(id) \/ TableRow(id) \in rows)
  BY <1>1, <1>2 DEF WalkTypes
<1>9. page \in SUBSET TableRows
  BY <1>2, <1>4
<1>10. CASE Cardinality(found) > PageSize
  <2> DEFINE last == LastOf(walk.list, page, "desc")
  <2>1. /\ last \in page
        /\ \A q \in page : q = last \/ Precedes(walk.list, q, last, WalkOrder)
    BY <1>1, <1>4, <1>10, LastIsLast
  <2>2. walk' = [list |-> walk.list, at |-> "list", after |-> last, there |-> walk.there]
    BY <1>5, <1>6, <1>10
  <2> HIDE DEF last
  <2>3. /\ walk'.list = walk.list /\ walk'.at = "list" /\ walk'.after = last
        /\ walk'.there = walk.there
    BY <2>2
  <2>4. \A id \in walk.there : \/ Passed(id) \/ TableRow(id) \in page
                               \/ Precedes(walk.list, last, TableRow(id), WalkOrder)
    BY <1>4, <1>8, <2>1
  <2>5. \A r \in page : walk.after = NoRow \/ Precedes(walk.list, walk.after, r, WalkOrder)
    BY <1>2, <1>4
  <2>6. WalkTypes' /\ SentIsPassed' /\ BatchIsNext' /\ CompleteHasAll'
    BY <1>1, <1>5, <1>7, <1>9, <2>1, <2>3, <2>4, <2>5, Advances
  <2>7. WalkShape'
    BY <1>6, <2>2, <2>3 DEF WalkShape
  <2> QED BY <2>6, <2>7 DEF PagesInv
<1>11. CASE ~(Cardinality(found) > PageSize)
  <2>1. walk' = [list |-> walk.list, at |-> "complete", after |-> walk.after,
                 there |-> walk.there]
    BY <1>5, <1>6, <1>11
  <2>2. walk'.at = "complete" /\ walk'.there = walk.there /\ walk'.list = walk.list
    BY <2>1
  <2>3. \A id \in walk.there : Passed(id) \/ TableRow(id) \in page
    BY <1>4, <1>8, <1>11
  <2>4. WalkTypes' /\ SentIsPassed' /\ BatchIsNext' /\ CompleteHasAll'
    BY <1>1, <1>5, <1>7, <1>9, <2>2, <2>3, Completes
  <2>5. WalkShape'
    BY <1>6, <2>2 DEF WalkShape
  <2> QED BY <2>4, <2>5 DEF PagesInv
<1> QED BY <1>10, <1>11

LEMMA StreamStep ==
    ASSUME PagesInv, NEW gone \in BOOLEAN, StreamCsv(gone) PROVE PagesInv'
<1>1. /\ WalkShape /\ WalkTypes /\ BatchIsNext /\ walk.at = "write" /\ walk.at \in Walking
      /\ walk.list \in CsvExports /\ walk.list \notin PagedLists
      /\ WalkOrder = "asc" /\ "asc" \in Orders
  BY DEF PagesInv, StreamCsv, WalkShape, Walking, WalkOrder, Orders, PagedLists, CsvExports
<1>2. /\ walk.batch \in SUBSET TableRows /\ OneTable(walk.batch)
      /\ \A id \in RowIds : TableRow(id) \in walk.batch => ~Passed(id)
      /\ \A id \in walk.there : id \in RowIds
  BY <1>1, TableIsOne DEF WalkTypes, BatchIsNext
<1>3. UNCHANGED table
  BY DEF StreamCsv
<1>4. CASE gone
  <2>1. walk' = [list |-> walk.list, at |-> "cut"] /\ UNCHANGED sent
    BY <1>4 DEF StreamCsv
  <2>2. walk'.at = "cut" /\ walk'.list = walk.list
    BY <2>1
  <2> QED BY <1>1, <1>3, <2>1, <2>2
       DEF PagesInv, WalkShape, WalkTypes, SentIsPassed, BatchIsNext, CompleteHasAll, Walking
<1>5. CASE ~gone /\ Cardinality(walk.batch) < PageSize
  <2>1. /\ Sends(walk.batch)
        /\ walk' = [list |-> walk.list, at |-> "complete", there |-> walk.there]
    BY <1>5 DEF StreamCsv
  <2>2. walk'.at = "complete" /\ walk'.there = walk.there /\ walk'.list = walk.list
    BY <2>1
  <2>3. \A id \in walk.there : Passed(id) \/ TableRow(id) \in walk.batch
    BY <1>1, <1>5 DEF BatchIsNext
  <2>4. WalkTypes' /\ SentIsPassed' /\ BatchIsNext' /\ CompleteHasAll'
    BY <1>1, <1>2, <1>3, <2>1, <2>2, <2>3, Completes
  <2>5. WalkShape'
    BY <1>1, <2>2 DEF WalkShape
  <2> QED BY <2>4, <2>5 DEF PagesInv
<1>6. CASE ~gone /\ ~(Cardinality(walk.batch) < PageSize)
  <2> DEFINE last == LastOf(walk.list, walk.batch, "asc")
  <2>1. walk.batch # {}
    BY <1>6, FS_EmptySet, PagesAssumption
  <2>2. /\ last \in walk.batch
        /\ \A q \in walk.batch : q = last \/ Precedes(walk.list, q, last, WalkOrder)
    BY <1>1, <1>2, <2>1, LastIsLast
  <2>3. /\ Sends(walk.batch)
        /\ walk' = [list |-> walk.list, at |-> "next", there |-> walk.there, after |-> last]
    BY <1>6 DEF StreamCsv
  <2> HIDE DEF last
  <2>4. /\ walk'.list = walk.list /\ walk'.at = "next" /\ walk'.after = last
        /\ walk'.there = walk.there
    BY <2>3
  <2>5. \A id \in walk.there : \/ Passed(id) \/ TableRow(id) \in walk.batch
                               \/ Precedes(walk.list, last, TableRow(id), WalkOrder)
    BY <1>1, <2>2 DEF BatchIsNext
  <2>6. \A r \in walk.batch : \/ walk.after = NoRow
                              \/ Precedes(walk.list, walk.after, r, WalkOrder)
    BY <1>1 DEF BatchIsNext
  <2>7. WalkTypes' /\ SentIsPassed' /\ BatchIsNext' /\ CompleteHasAll'
    BY <1>1, <1>2, <1>3, <2>2, <2>3, <2>4, <2>5, <2>6, Advances
  <2>8. WalkShape'
    BY <1>1, <2>4 DEF WalkShape
  <2> QED BY <2>7, <2>8 DEF PagesInv
<1> QED BY <1>4, <1>5, <1>6

LEMMA ReadBatchStep ==
    ASSUME PagesInv, NEW list, NEW fails \in BOOLEAN, ReadBatch(list, fails) PROVE PagesInv'
<1> DEFINE rows == FoundAfter(walk.list, walk.after, "asc")
           batch == FirstOf(walk.list, rows, PageSize, "asc")
           there == IF walk.at = "first" THEN {r.id : r \in TableRows} ELSE walk.there
<1>1. /\ WalkShape /\ WalkTypes /\ SentIsPassed /\ walk.at \in {"first", "next"}
      /\ walk.at \in Walking \cup {"first"}
      /\ walk.list \in CsvExports /\ walk.list \notin PagedLists
      /\ WalkOrder = "asc" /\ "asc" \in Orders /\ list = walk.list
  BY DEF PagesInv, ReadBatch, WalkShape, Walking, WalkOrder, Orders, PagedLists, CsvExports
<1>2. /\ OneTable(rows) /\ rows \subseteq TableRows
      /\ \A r \in rows : walk.after = NoRow \/ Precedes(walk.list, walk.after, r, WalkOrder)
      /\ \A id \in RowIds : table[id] # 0 => (TableRow(id) \in rows <=> ~Passed(id))
  BY <1>1, FoundIsNotPassed
<1>3. PageSize \in Nat \ {0}
  BY PagesAssumption
<1>4. /\ UNCHANGED <<table, sent>>
      /\ walk' = IF fails
                 THEN [list |-> walk.list, at |-> IF walk.at = "first" THEN "error" ELSE "cut"]
                 ELSE [list |-> walk.list, at |-> "write", batch |-> batch,
                       after |-> walk.after, there |-> there]
  BY <1>1 DEF ReadBatch
<1> HIDE DEF rows
<1>5. /\ batch \subseteq rows
      /\ Cardinality(batch) < PageSize => batch = rows
      /\ \A r \in rows \ batch, q \in batch : Precedes(walk.list, q, r, WalkOrder)
  BY <1>1, <1>2, <1>3, FirstOrAll
<1> HIDE DEF batch
<1>6. \A id \in there : /\ id \in RowIds /\ table[id] # 0
                        /\ Passed(id) => sent[id] = 1
  <2>1. CASE walk.at = "first"
    <3>1. \A r \in TableRows : r.id \in RowIds /\ r = TableRow(r.id)
      BY <1>1, TableIsOne
    <3>2. \A r \in TableRows : table[r.id] # 0
      BY <1>1, <3>1, TableIsOne
    <3>3. \A id : ~Passed(id)
      BY <1>1, <2>1 DEF WalkShape, Passed
    <3> QED BY <2>1, <3>1, <3>2, <3>3
  <2>2. CASE walk.at # "first"
    BY <1>1, <2>2 DEF WalkTypes, SentIsPassed
  <2> QED BY <2>1, <2>2
<1> HIDE DEF there
<1>7. CASE fails
  <2>1. walk'.at \in {"error", "cut"} /\ walk'.list = walk.list
    BY <1>4, <1>7
  <2> QED BY <1>1, <1>4, <2>1
       DEF PagesInv, WalkShape, WalkTypes, SentIsPassed, BatchIsNext, CompleteHasAll, Walking
<1>8. CASE ~fails
  <2>1. walk' = [list |-> walk.list, at |-> "write", batch |-> batch,
                 after |-> walk.after, there |-> there]
    BY <1>4, <1>8
  <2>2. /\ walk'.list = walk.list /\ walk'.at = "write" /\ walk'.batch = batch
        /\ walk'.after = walk.after /\ walk'.there = there /\ walk'.at \in Walking
        /\ WalkOrder' = WalkOrder
    BY <2>1 DEF Walking, WalkOrder
  <2>3. TableRows' = TableRows /\ \A id : TableRow(id)' = TableRow(id)
    BY <1>4 DEF TableRows, TableRow
  <2>4. \A id : Passed(id)' <=> Passed(id)
    BY <2>2, <2>3 DEF Passed
  <2>5. WalkShape'
    BY <1>1, <2>2 DEF WalkShape
  <2>6. WalkTypes'
    <3>1. walk.after = NoRow \/ walk.after \in TableRows
      BY <1>1 DEF WalkShape, WalkTypes
    <3>2. batch \subseteq TableRows
      BY <1>2, <1>5
    <3> QED BY <1>1, <1>4, <1>6, <2>2, <2>3, <3>1, <3>2 DEF WalkTypes
  <2>7. SentIsPassed'
    BY <1>1, <1>4, <1>6, <2>2, <2>4 DEF SentIsPassed
  <2>8. \A id \in RowIds : TableRow(id) \in batch => ~Passed(id)
    <3>1. \A id \in RowIds : TableRow(id) \in TableRows => table[id] # 0
      BY <1>1, TableIsOne
    <3> QED BY <1>2, <1>5, <3>1
  <2>9. \A q \in batch : walk.after # NoRow => Precedes(walk.list, walk.after, q, WalkOrder)
    BY <1>2, <1>5
  <2>10. \A id \in there :
            \/ Passed(id) \/ TableRow(id) \in batch
            \/ /\ ~(Cardinality(batch) < PageSize)
               /\ \A q \in batch : Precedes(walk.list, q, TableRow(id), WalkOrder)
    BY <1>2, <1>5, <1>6
  <2>11. BatchIsNext'
    BY <1>4, <2>2, <2>3, <2>4, <2>8, <2>9, <2>10 DEF BatchIsNext
  <2>12. CompleteHasAll'
    BY <2>2 DEF CompleteHasAll
  <2> QED BY <2>5, <2>6, <2>7, <2>11, <2>12 DEF PagesInv
<1> QED BY <1>7, <1>8

LEMMA OpenStep ==
    ASSUME PagesInv, NEW list \in PagedLists, OpenList(list) PROVE PagesInv'
<1>1. /\ walk.at = "idle" /\ UNCHANGED <<table, sent>>
      /\ walk' = [list |-> list, at |-> "list", after |-> NoRow,
                  there |-> {r.id : r \in TableRows}]
  BY DEF OpenList, IdleWalk
<1>2. WalkTypes /\ \A id \in RowIds : sent[id] = 0
  BY <1>1 DEF PagesInv, SentIsPassed
<1>3. /\ walk'.list = list /\ walk'.at = "list" /\ walk'.after = NoRow
      /\ walk'.there = {r.id : r \in TableRows}
  BY <1>1
<1>4. WalkShape'
  BY <1>1, <1>3 DEF WalkShape
<1>5. \A id \in walk'.there : id \in RowIds /\ table[id] # 0
  <2>1. \A r \in TableRows : r.id \in RowIds /\ r = TableRow(r.id)
    BY <1>2, TableIsOne
  <2>2. \A r \in TableRows : table[r.id] # 0
    BY <1>2, <2>1, TableIsOne
  <2> QED BY <1>3, <2>1, <2>2
<1>6. WalkTypes'
  BY <1>1, <1>2, <1>3, <1>5 DEF WalkTypes
<1>7. \A id : ~Passed(id)'
  BY <1>3 DEF Passed
<1>8. SentIsPassed'
  BY <1>1, <1>2, <1>3, <1>7 DEF SentIsPassed
<1>9. BatchIsNext' /\ CompleteHasAll'
  BY <1>3 DEF BatchIsNext, CompleteHasAll
<1> QED BY <1>4, <1>6, <1>8, <1>9 DEF PagesInv

LEMMA RecordStep ==
    ASSUME PagesInv, NEW list \in CsvExports, NEW fails \in BOOLEAN, AuditExport(list, fails)
    PROVE  PagesInv'
<1>1. /\ walk.at = "idle" /\ UNCHANGED <<table, sent>>
      /\ walk' = IF fails THEN [list |-> list, at |-> "error"]
                 ELSE [list |-> list, at |-> "first", after |-> NoRow]
  BY DEF AuditExport, IdleWalk
<1>2. WalkTypes /\ \A id \in RowIds : sent[id] = 0
  BY <1>1 DEF PagesInv, SentIsPassed
<1>3. walk'.list = list /\ walk'.at \in {"error", "first"} /\ walk'.at \notin Walking \ {"first"}
  BY <1>1 DEF Walking
<1>4. walk'.at = "first" => walk'.after = NoRow
  BY <1>1
<1> QED BY <1>1, <1>2, <1>3, <1>4
     DEF PagesInv, WalkShape, WalkTypes, SentIsPassed, BatchIsNext, CompleteHasAll, Walking

\* A row that is inserted is none of those that are known.
LEMMA RowInsertStep ==
    ASSUME PagesInv, NEW id \in RowIds, NEW time \in RowTimes, InsertRow(id, time)
    PROVE  PagesInv'
<1>1. /\ WalkShape /\ WalkTypes /\ SentIsPassed /\ BatchIsNext /\ CompleteHasAll
      /\ table[id] = 0 /\ table' = [table EXCEPT ![id] = time] /\ UNCHANGED <<walk, sent>>
      /\ time # 0
  BY PagesAssumption DEF PagesInv, InsertRow
<1>2. /\ table' \in [RowIds -> RowTimes \cup {0}]
      /\ \A i \in RowIds : table[i] # 0 => table'[i] = table[i]
  BY <1>1 DEF WalkTypes
<1>3. \A i \in RowIds : table[i] # 0 => TableRow(i)' = TableRow(i)
  BY <1>2 DEF TableRow
<1>4. TableRows \subseteq TableRows'
  <2>1. ASSUME NEW r \in TableRows PROVE r \in TableRows'
    <3>1. PICK i \in RowIds : table[i] # 0 /\ r = TableRow(i)
      BY DEF TableRows
    <3>2. r = TableRow(i)' /\ table'[i] # 0
      BY <1>2, <1>3, <3>1
    <3> QED BY <3>2 DEF TableRows
  <2> QED BY <2>1
<1>5. \A i \in RowIds : table[i] # 0 => (Passed(i)' <=> Passed(i))
  BY <1>1, <1>3 DEF Passed, WalkOrder
<1>6. WalkTypes'
  BY <1>1, <1>2, <1>4 DEF WalkTypes
<1>7. SentIsPassed'
  BY <1>1, <1>2, <1>5 DEF SentIsPassed, WalkTypes
<1>8. ASSUME walk.at = "write", NEW i \in RowIds, TableRow(i)' \in walk.batch
      PROVE  ~Passed(i)'
  <2>1. TableRow(i)' \in TableRows
    BY <1>1, <1>8 DEF WalkTypes
  <2>2. table[i] # 0
    <3>1. TableRow(i)'.id = i
      BY DEF TableRow
    <3>2. \A r \in TableRows : table[r.id] # 0
      BY <1>1 DEF TableRows, TableRow
    <3> QED BY <2>1, <3>1, <3>2
  <2> QED BY <1>1, <1>3, <1>5, <1>8, <2>2 DEF BatchIsNext
<1>9. BatchIsNext'
  <2>1. walk.at = "write" => \A i \in walk.there : i \in RowIds /\ table[i] # 0
    BY <1>1 DEF WalkTypes, Walking
  <2>2. WalkOrder' = WalkOrder
    BY <1>1 DEF WalkOrder
  <2> QED BY <1>1, <1>3, <1>5, <1>8, <2>1, <2>2 DEF BatchIsNext
<1>10. WalkShape' /\ CompleteHasAll'
  BY <1>1 DEF WalkShape, CompleteHasAll
<1> QED BY <1>6, <1>7, <1>9, <1>10 DEF PagesInv

LEMMA PagesStep == PagesInv /\ [PagesNext]_pagesVars => PagesInv'
<1> SUFFICES ASSUME PagesInv, [PagesNext]_pagesVars PROVE PagesInv'
  OBVIOUS
<1>1. ASSUME NEW list \in PagedLists, OpenList(list) PROVE PagesInv'
  BY <1>1, OpenStep
<1>2. CASE EventsPage \/ IntervalsPage \/ AuditPage \/ LoginsPage
  BY <1>2, ServePageStep DEF EventsPage, IntervalsPage, AuditPage, LoginsPage, PagedLists
<1>3. ASSUME NEW list \in CsvExports, NEW fails \in BOOLEAN,
             AuditExport(list, fails) \/ ByIdBatches(list, fails)
      PROVE  PagesInv'
  BY <1>3, RecordStep, ReadBatchStep DEF ByIdBatches
<1>4. ASSUME NEW fails \in BOOLEAN,
             EventBatches(fails) \/ IntervalBatches(fails) \/ MetricBatches(fails)
      PROVE  PagesInv'
  BY <1>4, ReadBatchStep DEF EventBatches, IntervalBatches, MetricBatches
<1>5. ASSUME NEW gone \in BOOLEAN, StreamCsv(gone) PROVE PagesInv'
  BY <1>5, StreamStep
<1>6. ASSUME NEW id \in RowIds, NEW time \in RowTimes, InsertRow(id, time) PROVE PagesInv'
  BY <1>6, RowInsertStep
<1>7. CASE UNCHANGED pagesVars
  BY <1>7 DEF pagesVars, PagesInv, WalkShape, WalkTypes, SentIsPassed, BatchIsNext,
              CompleteHasAll, Passed, TableRow, TableRows, WalkOrder
<1> QED BY <1>1, <1>2, <1>3, <1>4, <1>5, <1>6, <1>7 DEF PagesNext

LEMMA PagesFollow == PagesInv => PagesMissNothing /\ PagesTypeOK
<1> SUFFICES ASSUME PagesInv PROVE PagesMissNothing /\ PagesTypeOK
  OBVIOUS
<1>1. sent \in [RowIds -> {0, 1}] /\ table \in [RowIds -> RowTimes \cup {0}]
  BY DEF PagesInv, WalkTypes
<1>2. sent \in [RowIds -> Nat] /\ \A id \in RowIds : sent[id] <= 1
  BY <1>1
<1> QED BY <1>1, <1>2 DEF PagesInv, WalkShape, CompleteHasAll, PagesMissNothing, PagesTypeOK

-----------------------------------------------------------------------------
(* The arithmetic of steps: a step has one quotient and one remainder.      *)

LEMMA Apart ==
    ASSUME NEW s \in Nat \ {0}, NEW q \in Int, NEW p \in Int, q < p
    PROVE  s * q \in Int /\ s * p \in Int /\ s * q + s <= s * p
<1>1. s * (q + 1) <= s * p
  OBVIOUS
<1> QED BY <1>1

LEMMA Remainder ==
    ASSUME NEW s \in Nat \ {0}, NEW x \in Int
    PROVE  x % s \in 0 .. s - 1 /\ \E q \in Int : x = s * q + (x % s)
<1>1. x % s \in 0 .. s - 1 /\ x \div s \in Int /\ x = s * (x \div s) + (x % s)
  OBVIOUS
<1> QED BY <1>1

LEMMA RemainderOf ==
    ASSUME NEW s \in Nat \ {0}, NEW q \in Int, NEW r \in 0 .. s - 1, NEW x \in Int,
           x = s * q + r
    PROVE  x % s = r
<1>1. PICK p \in Int : x = s * p + (x % s)
  BY Remainder
<1>2. x % s \in 0 .. s - 1 /\ s * q + r = s * p + (x % s)
  BY <1>1, Remainder
<1>3. CASE q < p
  BY <1>2, <1>3, Apart
<1>4. CASE p < q
  BY <1>2, <1>4, Apart
<1> QED BY <1>2, <1>3, <1>4

LEMMA Multiple ==
    ASSUME NEW s \in Nat \ {0}, NEW y \in Int, y % s = 0
    PROVE  \E q \in Int : y = s * q
<1>1. PICK q \in Int : y = s * q + (y % s)
  BY Remainder
<1> QED BY <1>1

LEMMA SameRemainder ==
    ASSUME NEW s \in Nat \ {0}, NEW x \in Int, NEW y \in Int, y % s = 0
    PROVE  (x + y) % s = x % s
<1> DEFINE r == x % s
<1>1. PICK p \in Int : x = s * p + r
  BY Remainder
<1>2. PICK q \in Int : y = s * q
  BY Multiple
<1>3. r \in 0 .. s - 1
  BY Remainder
<1> HIDE DEF r
<1>4. PICK n \in Int : n = p + q
  OBVIOUS
<1>5. PICK z \in Int : z = x + y
  OBVIOUS
<1>6. z = s * n + r
  BY <1>1, <1>2, <1>3, <1>4, <1>5
<1>7. z % s = r
  BY <1>3, <1>6, RemainderOf
<1> QED BY <1>5, <1>7 DEF r

LEMMA NextMultiple ==
    ASSUME NEW s \in Nat \ {0}, NEW x \in Int, x % s = 0
    PROVE  (x + s) % s = 0
<1>1. s = s * 1 + 0
  OBVIOUS
<1>2. PICK y \in Int : y = s
  OBVIOUS
<1>3. y % s = 0
  BY <1>1, <1>2, RemainderOf
<1>4. (x + y) % s = x % s
  BY <1>3, SameRemainder
<1> QED BY <1>2, <1>4

LEMMA Floored ==
    ASSUME NEW s \in Nat \ {0}, NEW x \in Int
    PROVE  /\ Floor(x, s) \in Int /\ Floor(x, s) % s = 0
           /\ Floor(x, s) <= x /\ x < Floor(x, s) + s
           /\ \A y \in Int : y % s = 0 /\ y <= x => y <= Floor(x, s)
           /\ \A y \in Int : y % s = 0 /\ x < y + s => Floor(x, s) <= y
<1> DEFINE f == Floor(x, s)
<1>1. x % s \in 0 .. s - 1 /\ f = x - (x % s)
  BY Remainder DEF Floor
<1>2. PICK p \in Int : x = s * p + (x % s)
  BY Remainder
<1> HIDE DEF f
<1>3. f \in Int /\ f <= x /\ x < f + s /\ f = s * p
  BY <1>1, <1>2
<1>4. f % s = 0
  BY <1>3, RemainderOf
<1>5. ASSUME NEW y \in Int, y % s = 0 PROVE (y <= x => y <= f) /\ (x < y + s => f <= y)
  <2>1. PICK q \in Int : y = s * q
    BY <1>5, Multiple
  <2>2. CASE q > p
    BY <1>3, <2>1, <2>2, Apart
  <2>3. CASE q < p
    BY <1>3, <2>1, <2>3, Apart
  <2>4. CASE q = p
    BY <1>3, <2>1, <2>4
  <2> QED BY <2>2, <2>3, <2>4
<1>6. /\ \A y \in Int : y % s = 0 /\ y <= x => y <= f
      /\ \A y \in Int : y % s = 0 /\ x < y + s => f <= y
  BY <1>5
<1> QED BY <1>3, <1>4, <1>6 DEF f

-----------------------------------------------------------------------------
(* The buckets of a range.                                                  *)

LEMMA ZoneFacts ==
    ASSUME zone \in Zones
    PROVE  /\ "day" \in Buckets /\ \A b \in Buckets : Step[b] \in Nat \ {0}
           /\ zone.at \in Int /\ zone.by \in Int /\ zone.by < Step["day"]
           /\ \A b \in Buckets \ {"day"} : zone.by % Step[b] = 0
           /\ \A l \in Int : l % Step["day"] = 0 =>
                 ~(zone.at + zone.by <= l /\ l < zone.at) /\ ~(zone.at < l /\ l < zone.at + zone.by)
  BY ReportsAssumption, ZonesAssumption

\* A midnight is passed on the wall clock when its instant is passed.
LEMMA Midnight ==
    ASSUME zone \in Zones, NEW d \in Int, d % Step["day"] = 0
    PROVE  /\ Instant(d) \in Int
           /\ \A t \in Int : Local(t) \in Int /\ (Instant(d) <= t <=> d <= Local(t))
           /\ Local(Instant(d)) < d + Step["day"]
<1> DEFINE at == zone.at
           by == zone.by
           long == Step["day"]
<1>1. /\ at \in Int /\ by \in Int /\ long \in Nat \ {0} /\ by < long
      /\ ~(at + by <= d /\ d < at) /\ ~(at < d /\ d < at + by)
  BY ZoneFacts
<1> HIDE DEF at, by, long
<1>2. Instant(d) = IF d - by >= at THEN d - by ELSE d
  BY DEF Instant, at, by
<1>3. ASSUME NEW t \in Int
      PROVE  Local(t) = IF t >= at THEN t + by ELSE t
  BY DEF Local, at, by
<1>4. ASSUME NEW t \in Int
      PROVE  Local(t) \in Int /\ (Instant(d) <= t <=> d <= Local(t))
  BY <1>1, <1>2, <1>3
<1>5. Instant(d) \in Int
  BY <1>1, <1>2
<1>6. Local(Instant(d)) < d + long
  BY <1>1, <1>2, <1>3, <1>5
<1> QED BY <1>4, <1>5, <1>6 DEF long

\* What the proofs use of the buckets from `first` to `last`.
Divided(bucket, first, last) ==
    LET B == BucketsBetween(bucket, first, last)
    IN  /\ \A b \in B :
              /\ b.start \in Int /\ b.end \in Int /\ b.start < b.end
              /\ b.start <= last /\ first < b.end
        /\ \A t \in first .. last :
              \E b \in B : /\ InBucket(t, b) /\ b.start = BucketStart(bucket, t)
                           /\ \A c \in B : InBucket(t, c) => c = b

LEMMA DaysDivided ==
    ASSUME zone \in Zones, NEW first \in Int, NEW last \in Int, first <= last
    PROVE  Divided("day", first, last)
<1> DEFINE D == Step["day"]
           Day(d) == [start |-> Instant(d), end |-> Instant(d + D)]
           F(t) == Floor(Local(t), D)
           B == BucketsBetween("day", first, last)
<1>1. D \in Nat \ {0}
  BY ZoneFacts
<1>2. B = {Day(d) : d \in {l \in F(first) .. Local(last) : l % D = 0}}
  BY DEF BucketsBetween
<1>3. ASSUME NEW d \in Int, d % D = 0
      PROVE  /\ d + D \in Int /\ (d + D) % D = 0
             /\ Instant(d) \in Int /\ Instant(d + D) \in Int
             /\ \A t \in Int : /\ Instant(d) <= t <=> d <= Local(t)
                               /\ Instant(d + D) <= t <=> d + D <= Local(t)
             /\ Local(Instant(d)) < d + D
  <2>1. PICK e \in Int : e = d + D
    BY <1>1
  <2>2. e % D = 0
    BY <1>1, <1>3, <2>1, NextMultiple
  <2>3. /\ Instant(d) \in Int /\ Instant(e) \in Int
        /\ \A t \in Int : /\ Instant(d) <= t <=> d <= Local(t)
                          /\ Instant(e) <= t <=> e <= Local(t)
        /\ Local(Instant(d)) < e
    BY <1>3, <2>1, <2>2, Midnight
  <2> QED BY <2>1, <2>2, <2>3
<1>4. ASSUME NEW t \in Int
      PROVE  /\ Local(t) \in Int /\ F(t) \in Int /\ F(t) % D = 0
             /\ F(t) <= Local(t) /\ Local(t) < F(t) + D
             /\ \A y \in Int : y % D = 0 /\ y <= Local(t) => y <= F(t)
             /\ \A y \in Int : y % D = 0 /\ Local(t) < y + D => F(t) <= y
  <2>1. Local(t) \in Int
    BY <1>4, ZoneFacts DEF Local
  <2> QED BY <1>1, <2>1, Floored
<1>5. ASSUME NEW b \in B
      PROVE  \E d \in Int : /\ d % D = 0 /\ b = Day(d)
                            /\ F(first) <= d /\ d <= Local(last)
  BY <1>2, <1>4
<1> HIDE DEF B, D, F
<1>6. ASSUME NEW b \in B
      PROVE  /\ b.start \in Int /\ b.end \in Int /\ b.start < b.end
             /\ b.start <= last /\ first < b.end
  <2>1. PICK d \in Int : /\ d % D = 0 /\ b = Day(d)
                         /\ F(first) <= d /\ d <= Local(last)
    BY <1>5
  <2> DEFINE s == Instant(d)
             e == Instant(d + D)
  <2>2. b.start = s /\ b.end = e
    BY <2>1
  <2>3. /\ s \in Int /\ e \in Int
        /\ s <= last <=> d <= Local(last)
        /\ e <= first <=> d + D <= Local(first)
        /\ e <= s <=> d + D <= Local(s)
        /\ Local(s) < d + D /\ Local(s) \in Int
    BY <1>3, <1>4, <2>1
  <2>4. Local(first) < d + D
    BY <1>1, <1>4, <2>1
  <2>5. d + D \in Int /\ Local(first) \in Int
    BY <1>1, <1>4
  <2> HIDE DEF s, e
  <2> QED BY <2>1, <2>2, <2>3, <2>4, <2>5
<1>7. ASSUME NEW t \in first .. last
      PROVE  \E b \in B : /\ InBucket(t, b) /\ b.start = BucketStart("day", t)
                          /\ \A c \in B : InBucket(t, c) => c = b
  <2> DEFINE d == F(t)
  <2>1. /\ t \in Int /\ d \in Int /\ d % D = 0 /\ d <= Local(t) /\ Local(t) < d + D
        /\ Local(t) \in Int /\ d + D \in Int
    BY <1>1, <1>4
  <2> HIDE DEF d
  <2>2. Instant(d) <= t /\ ~(Instant(d + D) <= t)
    BY <1>3, <2>1
  <2>3. F(first) <= d
    <3>1. Instant(F(first)) \in Int /\ Instant(F(first)) <= first
      BY <1>3, <1>4
    <3>2. Instant(F(first)) <= t
      BY <3>1
    <3>3. F(first) <= Local(t)
      BY <1>3, <1>4, <2>1, <3>2
    <3> QED BY <1>4, <2>1, <3>3 DEF d
  <2>4. d <= Local(last)
    <3>1. Instant(d) \in Int /\ Instant(d) <= last
      BY <1>3, <2>1, <2>2
    <3> QED BY <1>3, <2>1, <3>1
  <2>5. Day(d) \in B
    BY <1>2, <1>4, <2>1, <2>3, <2>4
  <2>6. InBucket(t, Day(d))
    BY <1>3, <2>1, <2>2 DEF InBucket
  <2>7. Day(d).start = BucketStart("day", t)
    BY DEF BucketStart, d, F, D
  <2>8. ASSUME NEW c \in B, InBucket(t, c) PROVE c = Day(d)
    <3>1. PICK x \in Int : x % D = 0 /\ c = Day(x)
      BY <1>5
    <3>2. Instant(x) <= t /\ t < Instant(x + D)
      BY <2>8, <3>1 DEF InBucket
    <3>3. x <= Local(t) /\ Local(t) < x + D
      <4>1. /\ Instant(x + D) \in Int /\ x + D \in Int
            /\ Instant(x) <= t <=> x <= Local(t)
            /\ Instant(x + D) <= t <=> x + D <= Local(t)
        BY <1>3, <2>1, <3>1
      <4> QED BY <2>1, <3>2, <4>1
    <3>4. x <= d /\ d <= x
      BY <1>4, <2>1, <3>1, <3>3 DEF d
    <3> QED BY <2>1, <3>1, <3>4
  <2> HIDE DEF Day
  <2> QED BY <2>5, <2>6, <2>7, <2>8
<1> QED BY <1>6, <1>7 DEF Divided, B

LEMMA HoursDivided ==
    ASSUME zone \in Zones, NEW bucket \in Buckets, bucket # "day",
           NEW first \in Int, NEW last \in Int, first <= last
    PROVE  Divided(bucket, first, last)
<1> DEFINE S == Step[bucket]
           Hour(x) == [start |-> x, end |-> x + S]
           F(t) == Floor(t, S)
           B == BucketsBetween(bucket, first, last)
<1>1. S \in Nat \ {0} /\ zone.by \in Int /\ zone.by % S = 0
  BY ZoneFacts
<1>2. ASSUME NEW t \in Int
      PROVE  /\ BucketStart(bucket, t) = F(t)
             /\ F(t) \in Int /\ F(t) % S = 0 /\ F(t) <= t /\ t < F(t) + S
             /\ \A y \in Int : y % S = 0 /\ y <= t => y <= F(t)
             /\ \A y \in Int : y % S = 0 /\ t < y + S => F(t) <= y
  <2>1. (t + zone.by) % S = t % S
    BY <1>1, SameRemainder
  <2>2. Local(t) % S = t % S
    BY <2>1 DEF Local
  <2>3. BucketStart(bucket, t) = F(t)
    BY <2>2 DEF BucketStart, Floor
  <2> QED BY <1>1, <2>3, Floored
<1>3. B = {Hour(x) : x \in {y \in F(first) .. F(last) : (y - F(first)) % S = 0}}
  BY <1>2 DEF BucketsBetween
<1>4. ASSUME NEW x \in Int
      PROVE  (x - F(first)) % S = 0 <=> x % S = 0
  <2>1. PICK f \in Int : f = F(first) /\ f % S = 0
    BY <1>2
  <2>2. PICK y \in Int : y = x - f
    OBVIOUS
  <2>3. (y + f) % S = y % S
    BY <1>1, <2>1, SameRemainder
  <2>4. y + f = x
    BY <2>2
  <2> QED BY <2>1, <2>2, <2>3, <2>4
<1> HIDE DEF B, S, F
<1>5. B = {Hour(x) : x \in {y \in F(first) .. F(last) : y % S = 0}}
  BY <1>2, <1>3, <1>4
<1>6. ASSUME NEW b \in B
      PROVE  /\ b.start \in Int /\ b.end \in Int /\ b.start < b.end
             /\ b.start <= last /\ first < b.end
  <2>1. PICK x \in F(first) .. F(last) : b = Hour(x)
    BY <1>5
  <2>2. b.start = x /\ b.end = x + S
    BY <2>1
  <2>3. /\ F(first) \in Int /\ F(last) \in Int /\ F(last) <= last /\ first < F(first) + S
    BY <1>2
  <2> QED BY <1>1, <2>1, <2>2, <2>3
<1>7. ASSUME NEW t \in first .. last
      PROVE  \E b \in B : /\ InBucket(t, b) /\ b.start = BucketStart(bucket, t)
                          /\ \A c \in B : InBucket(t, c) => c = b
  <2>1. /\ t \in Int /\ F(t) \in Int /\ F(t) % S = 0 /\ F(t) <= t /\ t < F(t) + S
        /\ BucketStart(bucket, t) = F(t)
    BY <1>2
  <2>2. F(first) <= F(t) /\ F(t) <= F(last) /\ F(first) \in Int /\ F(last) \in Int
    <3>1. /\ F(first) \in Int /\ F(first) % S = 0 /\ F(first) <= t
      BY <1>2
    <3>2. F(first) <= F(t)
      BY <1>2, <2>1, <3>1
    <3>3. F(t) <= F(last)
      BY <1>2, <2>1
    <3> QED BY <1>2, <3>1, <3>2, <3>3
  <2>3. Hour(F(t)) \in B
    BY <1>5, <2>1, <2>2
  <2>4. InBucket(t, Hour(F(t))) /\ Hour(F(t)).start = BucketStart(bucket, t)
    BY <2>1 DEF InBucket
  <2>5. ASSUME NEW c \in B, InBucket(t, c) PROVE c = Hour(F(t))
    <3>1. PICK x \in Int : x % S = 0 /\ c = Hour(x)
      BY <1>2, <1>5
    <3>2. x <= t /\ t < x + S
      BY <2>5, <3>1 DEF InBucket
    <3>3. x <= F(t) /\ F(t) <= x
      BY <1>2, <2>1, <3>1, <3>2
    <3> QED BY <2>1, <3>1, <3>3
  <2> HIDE DEF Hour
  <2> QED BY <2>3, <2>4, <2>5
<1> QED BY <1>6, <1>7 DEF Divided, B

\* A report is asked for a range, of an interval that did not end before it began.
ReportsInv ==
    /\ ReportsTypeOK
    /\ interval.end = NotClosed \/ interval.end >= interval.start
    /\ asked # Nothing => asked.from < asked.to

LEMMA ReportsStart == ReportsInit => ReportsInv
  BY DEF ReportsInit, ReportsInv, ReportsTypeOK

LEMMA ReportsTypes == ReportsInv => ReportsTypeOK
  BY DEF ReportsInv

LEMMA ReportsStep == ReportsInv /\ [ReportsNext]_reportsVars => ReportsInv'
<1>1. ReportsInv /\ ReportsNext => ReportsInv'
  BY DEF ReportsInv, ReportsTypeOK, ReportsNext, Ask
<1>2. ReportsInv /\ UNCHANGED reportsVars => ReportsInv'
  BY DEF ReportsInv, ReportsTypeOK, reportsVars
<1> QED BY <1>1, <1>2

\* The bounds of what is divided.
LEMMA Clipped ==
    ASSUME ReportsInv, asked # Nothing
    PROVE  LET i == interval
               q == asked
               lo == Lo(i, q)
               hi == Hi(i, q)
           IN  /\ i.start \in Nat /\ q.from \in Nat /\ q.to \in Nat /\ Finish(i, q) \in Nat
               /\ lo \in Int /\ hi \in Int
               /\ Selected(i, q) => lo <= hi /\ Lasting(q) = lo .. hi - 1
               /\ Selected(i, q) /\ i.start >= q.from => lo = i.start
               /\ ~Selected(i, q) => Lasting(q) = {} /\ i.start \notin q.from .. q.to - 1
<1> DEFINE i == interval
           q == asked
           fin == Finish(i, q)
           start == i.start
           end == i.end
           from == q.from
           to == q.to
<1>1. /\ start \in Nat /\ from \in Nat /\ to \in Nat /\ clock \in Nat /\ from < to
      /\ end = NotClosed \/ (end \in Nat /\ end >= start)
  BY ReportsAssumption DEF ReportsInv, ReportsTypeOK
<1>2. fin = (IF end = NotClosed THEN IF clock < to THEN clock ELSE to ELSE end)
  BY DEF Finish, Earlier
<1>3. fin \in Nat
  BY <1>1, <1>2 DEF NotClosed
<1>4. Lo(i, q) = IF start > from THEN start ELSE from
  BY DEF Lo, Later
<1>5. Hi(i, q) = LET m == IF fin < to THEN fin ELSE to IN IF m > start THEN m ELSE start
  BY DEF Hi, Later, Earlier
<1>6. Lasting(q) = {t \in from .. to - 1 : t >= start /\ t < fin}
  BY DEF Lasting
<1>7. Selected(i, q) <=> /\ start < to /\ (end = NotClosed \/ end >= from)
                         /\ (start >= from \/ fin > from)
  BY DEF Selected
<1> HIDE DEF start, end, from, to, fin
<1>8. Lo(i, q) \in Int /\ Hi(i, q) \in Int
  BY <1>1, <1>3, <1>4, <1>5
<1>9. ASSUME Selected(i, q) PROVE Lo(i, q) <= Hi(i, q)
  BY <1>1, <1>3, <1>4, <1>5, <1>7, <1>9
<1>10. ASSUME Selected(i, q) PROVE Lasting(q) = Lo(i, q) .. Hi(i, q) - 1
  BY <1>1, <1>3, <1>4, <1>5, <1>6, <1>7, <1>8, <1>10
<1>11. ASSUME ~Selected(i, q) PROVE Lasting(q) = {} /\ start \notin from .. to - 1
  BY <1>1, <1>2, <1>3, <1>6, <1>7, <1>11 DEF NotClosed
<1>12. start >= from => Lo(i, q) = start
  BY <1>1, <1>4
<1> QED BY <1>1, <1>3, <1>8, <1>9, <1>10, <1>11, <1>12 DEF start, end, from, to, fin

LEMMA SumsHold == ReportsInv => SumsAreRight
<1> SUFFICES ASSUME ReportsInv, asked # Nothing
             PROVE  LET pieces == Pieces(interval, asked)
                    IN  /\ \A p \in pieces :
                              /\ p.inside = Cardinality({t \in Lasting(asked) : InBucket(t, p.bucket)})
                              /\ p.inside > 0 \/ Lasting(asked) = {}
                        /\ Cardinality({p \in pieces : p.startsHere}) =
                              IF interval.start \in asked.from .. asked.to - 1 THEN 1 ELSE 0
                        /\ \A t \in Lasting(asked) :
                              /\ Cardinality({p \in pieces : InBucket(t, p.bucket)}) = 1
                              /\ SummaryRows(asked, t) = {r.bucketStart : r \in IntervalRows(asked)}
  BY DEF SumsAreRight
<1> DEFINE i == interval
           q == asked
           lo == Lo(i, q)
           hi == Hi(i, q)
           last == Later(hi - 1, lo)
           B == BucketsBetween(q.bucket, lo, last)
           Here(b) == i.start >= q.from /\ InBucket(i.start, b)
           Piece(b) == [bucket |-> b, startsHere |-> Here(b),
                        inside |-> Earlier(hi, b.end) - Later(lo, b.start),
                        whole |-> Later(Finish(i, q) - i.start, 0)]
           P == Pieces(i, q)
           L == Lasting(q)
<1>1. /\ i.start \in Nat /\ q.from \in Nat /\ q.to \in Nat
      /\ lo \in Int /\ hi \in Int
      /\ Selected(i, q) => lo <= hi /\ L = lo .. hi - 1
      /\ Selected(i, q) /\ i.start >= q.from => lo = i.start
      /\ ~Selected(i, q) => L = {} /\ i.start \notin q.from .. q.to - 1
  BY Clipped
<1>2. P = IF ~Selected(i, q) THEN {} ELSE {Piece(b) : b \in B}
  BY DEF Pieces, InBucket
<1>3. CASE ~Selected(i, q)
  <2>1. P = {} /\ L = {}
    BY <1>1, <1>2, <1>3
  <2>2. {p \in P : p.startsHere} = {}
    BY <2>1
  <2>3. Cardinality({p \in P : p.startsHere}) = 0
    BY <2>2, FS_EmptySet
  <2>4. i.start \notin q.from .. q.to - 1
    BY <1>1, <1>3
  <2> QED BY <2>1, <2>3, <2>4
<1>4. CASE Selected(i, q)
  <2>1. /\ P = {Piece(b) : b \in B} /\ L = lo .. hi - 1 /\ lo <= hi
        /\ last = (IF hi - 1 > lo THEN hi - 1 ELSE lo) /\ last \in Int /\ lo <= last
    BY <1>1, <1>2, <1>4 DEF Later
  <2>2. Divided(q.bucket, lo, last)
    <3>1. zone \in Zones /\ q.bucket \in Buckets
      BY DEF ReportsInv, ReportsTypeOK
    <3>2. CASE q.bucket = "day"
      BY <1>1, <2>1, <3>1, <3>2, DaysDivided
    <3>3. CASE q.bucket # "day"
      BY <1>1, <2>1, <3>1, <3>3, HoursDivided
    <3> QED BY <3>2, <3>3
  <2>3. /\ \A b \in B : /\ b.start \in Int /\ b.end \in Int /\ b.start < b.end
                        /\ b.start <= last /\ lo < b.end
        /\ \A t \in lo .. last :
              \E b \in B : /\ InBucket(t, b) /\ b.start = BucketStart(q.bucket, t)
                           /\ \A c \in B : InBucket(t, c) => c = b
    BY <2>2 DEF Divided
  <2>4. ASSUME NEW b \in B
        PROVE  /\ Piece(b).bucket = b /\ Piece(b).startsHere = Here(b)
               /\ Piece(b).inside = (IF hi < b.end THEN hi ELSE b.end) - (IF lo > b.start THEN lo ELSE b.start)
    BY DEF Earlier, Later
  <2> HIDE DEF B, P, L, lo, hi, last, Piece, Here
  <2>5. ASSUME NEW b \in B
        PROVE  /\ Piece(b).inside = Cardinality({t \in L : InBucket(t, b)})
               /\ Piece(b).inside > 0 \/ L = {}
    <3> DEFINE x == IF lo > b.start THEN lo ELSE b.start
               y == IF hi < b.end THEN hi ELSE b.end
    <3>1. x \in Int /\ y \in Int /\ Piece(b).inside = y - x /\ x <= y
      BY <1>1, <2>1, <2>3, <2>4
    <3>2. {t \in L : InBucket(t, b)} = x .. y - 1
      BY <1>1, <2>1, <2>3 DEF InBucket
    <3>3. Piece(b).inside > 0 \/ L = {}
      BY <1>1, <2>1, <2>3, <3>1
    <3> HIDE DEF x, y
    <3>4. PICK z \in Int : z = y - 1
      BY <3>1
    <3>5. Cardinality(x .. z) = IF x > z THEN 0 ELSE z - x + 1
      BY <3>1, FS_Interval
    <3>6. Cardinality(x .. y - 1) = y - x
      BY <3>1, <3>4, <3>5
    <3> QED BY <3>1, <3>2, <3>3, <3>6
  <2>6. ASSUME NEW t \in lo .. last
        PROVE  \E b \in B : /\ b.start = BucketStart(q.bucket, t) /\ InBucket(t, b)
                            /\ {p \in P : InBucket(t, p.bucket)} = {Piece(b)}
    <3>1. PICK b \in B : /\ InBucket(t, b) /\ b.start = BucketStart(q.bucket, t)
                         /\ \A c \in B : InBucket(t, c) => c = b
      BY <2>3
    <3>2. {p \in P : InBucket(t, p.bucket)} = {Piece(b)}
      BY <2>1, <2>4, <3>1
    <3> QED BY <3>1, <3>2
  <2>7. \A p \in P :
            /\ p.inside = Cardinality({t \in L : InBucket(t, p.bucket)})
            /\ p.inside > 0 \/ L = {}
    <3> SUFFICES ASSUME NEW p \in P
                 PROVE  /\ p.inside = Cardinality({t \in L : InBucket(t, p.bucket)})
                        /\ p.inside > 0 \/ L = {}
      OBVIOUS
    <3>1. PICK b \in B : p = Piece(b)
      BY <2>1
    <3>2. p.bucket = b
      BY <2>4, <3>1
    <3> QED BY <2>5, <3>1, <3>2
  <2>8. Cardinality({p \in P : p.startsHere}) = IF i.start \in q.from .. q.to - 1 THEN 1 ELSE 0
    <3>1. i.start < q.to
      BY <1>4 DEF Selected
    <3>2. CASE i.start >= q.from
      <4>1. i.start \in lo .. last
        BY <1>1, <1>4, <2>1, <3>2
      <4>2. PICK b \in B : {p \in P : InBucket(i.start, p.bucket)} = {Piece(b)}
        BY <2>6, <4>1
      <4>3. ASSUME NEW p \in P PROVE p.startsHere <=> InBucket(i.start, p.bucket)
        <5>1. PICK c \in B : p = Piece(c)
          BY <2>1
        <5>2. p.bucket = c /\ p.startsHere = Here(c)
          BY <2>4, <5>1
        <5> QED BY <3>2, <5>2 DEF Here
      <4>4. {p \in P : p.startsHere} = {Piece(b)}
        BY <4>2, <4>3
      <4>5. Cardinality({p \in P : p.startsHere}) = 1
        BY <4>4, FS_Singleton
      <4> QED BY <1>1, <3>1, <3>2, <4>5
    <3>3. CASE ~(i.start >= q.from)
      <4>1. {p \in P : p.startsHere} = {}
        BY <2>1, <2>4, <3>3 DEF Here
      <4>2. Cardinality({p \in P : p.startsHere}) = 0
        BY <4>1, FS_EmptySet
      <4> QED BY <1>1, <3>3, <4>2
    <3> QED BY <3>2, <3>3
  <2>9. ASSUME NEW t \in L
        PROVE  /\ Cardinality({p \in P : InBucket(t, p.bucket)}) = 1
               /\ SummaryRows(q, t) = {r.bucketStart : r \in IntervalRows(q)}
    <3>1. t \in lo .. last
      BY <1>1, <2>1
    <3>2. PICK b \in B : /\ b.start = BucketStart(q.bucket, t)
                         /\ {p \in P : InBucket(t, p.bucket)} = {Piece(b)}
      BY <2>6, <3>1
    <3>3. Cardinality({p \in P : InBucket(t, p.bucket)}) = 1
      BY <3>2, FS_Singleton
    <3>4. Piece(b) \in P /\ Piece(b).bucket.start = BucketStart(q.bucket, t)
      BY <2>1, <2>4, <3>2
    <3>5. BucketStart(q.bucket, t) \in {r.bucketStart : r \in IntervalRows(q)}
      <4> DEFINE RowOf(p) == [bucketStart |-> p.bucket.start, totalSec |-> p.inside,
                            count |-> IF p.startsHere THEN 1 ELSE 0,
                            maxSec |-> IF p.startsHere THEN p.whole ELSE 0]
      <4>1. IntervalRows(q) = {RowOf(p) : p \in P}
        BY DEF IntervalRows, P
      <4>2. RowOf(Piece(b)) \in IntervalRows(q)
        BY <3>4, <4>1
      <4>3. RowOf(Piece(b)).bucketStart = BucketStart(q.bucket, t)
        BY <3>4
      <4> HIDE DEF RowOf
      <4> QED BY <4>2, <4>3
    <3>6. EventRows(q, t) \subseteq {r.bucketStart : r \in IntervalRows(q)}
      BY <3>5 DEF EventRows
    <3>7. SummaryRows(q, t) = {r.bucketStart : r \in IntervalRows(q)}
      BY <3>6 DEF SummaryRows, MetricRows
    <3> QED BY <3>3, <3>7
  <2> QED BY <2>7, <2>8, <2>9 DEF P, L
<1> QED BY <1>3, <1>4

-----------------------------------------------------------------------------
(* The types.                                                              *)

\* The places of the attempts, the requests and the token.
DoorTypes ==
    /\ guesses \in 0 .. MaxGuesses
    /\ attempt \in [Attempts -> Outcomes \cup {"idle", "check", "reset"}]
    /\ token \in {"none", "live", "revoked"}

LEMMA DoorTypesStart == LoginsInit => DoorTypes
  BY LoginsAssumption DEF LoginsInit, DoorTypes

LEMMA DoorTypesStep == DoorTypes /\ [LoginsNext]_loginsVars => DoorTypes'
<1> SUFFICES ASSUME DoorTypes, [LoginsNext]_loginsVars PROVE DoorTypes'
  OBVIOUS
<1>1. MaxGuesses \in Nat /\ guesses \in 0 .. MaxGuesses
  BY LoginsAssumption DEF DoorTypes
<1>2. ASSUME NEW a \in Attempts, Login(a) PROVE DoorTypes'
  BY <1>1, <1>2 DEF DoorTypes, Login, Attempting, tokenVars, Outcomes
<1>3. ASSUME NEW a \in Attempts, NEW ok \in BOOLEAN, VerifyPassword(a, ok) PROVE DoorTypes'
  BY <1>3 DEF DoorTypes, VerifyPassword, Attempting, tokenVars, Outcomes
<1>4. ASSUME NEW a \in Attempts, NEW ok \in BOOLEAN, Record(a, ok) PROVE DoorTypes'
  BY <1>4 DEF DoorTypes, Record, Attempting, tokenVars
<1>5. ASSUME NEW a \in Attempts, NEW outcome \in Outcomes, ResetLockout(a, outcome)
      PROVE  DoorTypes'
  BY <1>5 DEF DoorTypes, ResetLockout, Attempting, tokenVars
<1>6. CASE LockoutEnds \/ MinuteEnds
  BY <1>6 DEF DoorTypes, LockoutEnds, MinuteEnds, tokenVars
<1>7. ASSUME NEW fails \in BOOLEAN, Throttle(fails) PROVE DoorTypes'
  BY <1>1, <1>7 DEF DoorTypes, Throttle, tokenVars
<1>8. CASE CreateToken \/ RevokeToken
  BY <1>8 DEF DoorTypes, CreateToken, RevokeToken, doorVars
<1>9. ASSUME NEW r \in TokenUsers, Arrives(r) \/ ResolveToken(r) \/ Responds(r)
      PROVE  DoorTypes'
  BY <1>9 DEF DoorTypes, Arrives, ResolveToken, Responds, doorVars
<1>10. CASE UNCHANGED loginsVars
  BY <1>10 DEF DoorTypes, loginsVars, doorVars, tokenVars
<1> QED BY <1>2, <1>3, <1>4, <1>5, <1>6, <1>7, <1>8, <1>9, <1>10 DEF LoginsNext

LEMMA DoorTypesFollow == DoorInv /\ DoorTypes => LoginsTypeOK
  BY DEF DoorInv, GuessesCounted, RowHasKey, LateIsRevoked, DoorTypes, LoginsTypeOK

LEMMA SiteTypesFollow == SettingsInv /\ FootageInv => SiteTypeOK
<1> SUFFICES ASSUME SettingsInv, FootageInv PROVE SiteTypeOK
  OBVIOUS
<1>1. /\ chosen \in held /\ held \subseteq Retentions
      /\ copy \in Retentions \cup {Unloaded} /\ loading \in BOOLEAN
  BY DEF SettingsInv, PatchTypes
<1>2. day \in 1 .. LastDay /\ recorded \in [SiteCameras -> 0 .. LastDay]
  BY DEF FootageInv, FootageTypes
<1>3. cleaning.at \in {"idle", "loads", "sweeps", "folders", "files"}
  BY DEF FootageInv, FootageTypes, NotCleaning, Passing
<1> QED BY <1>1, <1>2, <1>3 DEF SiteTypeOK

LEMMA DisksTypesFollow == DisksInv => DisksTypeOK
  BY DEF DisksInv, DiskTypes, RoundIsSound, Levels, DisksTypeOK

LEMMA AccountsTypesFollow == AccessInv => AccountsTypeOK
<1> SUFFICES ASSUME AccessInv PROVE AccountsTypeOK
  OBVIOUS
<1>1. \A s \in Sessions : session[s].user \in Users \cup {"nobody"}
  BY DEF AccessInv, AccountRecords
<1>2. \A s \in Sessions : socket[s].at \in {"closed", "joining", "open"}
  BY DEF AccessInv, AccountRecords
<1> QED BY <1>1, <1>2 DEF AccessInv, AccountRecords, AccountsTypeOK

\* Every variable of every part of the API keeps its type, for any number of
\* operators, sockets, clips, models, rows and failures.
THEOREM TypesAreKept == ApiSpec => []ApiTypeOK
<1> USE PartsMove DEF ApiInit
<1>1. ApiSpec => []CamerasTypeOK
  <2>1. ApiInit => VersionsInv /\ CameraTypes
    BY VersionsStart, CameraTypesStart
  <2>2. VersionsInv /\ CameraTypes /\ [ApiNext]_apiPartsVars => (VersionsInv /\ CameraTypes)'
    BY VersionsStep, CameraTypesStep
  <2> QED BY <2>1, <2>2, CameraTypesFollow, PTL DEF ApiSpec
<1>2. ApiSpec => [](ModelTypeOK /\ RecordingsTypeOK /\ ExportsTypeOK)
  <2>1. ApiInit => ModelInv /\ RecordingsInv /\ ExportsInv
    BY ModelsStart, RecordingsStart, ExportsStart
  <2>2. ModelInv /\ RecordingsInv /\ ExportsInv /\ [ApiNext]_apiPartsVars
        => (ModelInv /\ RecordingsInv /\ ExportsInv)'
    BY ModelsMove, RecordingsStep, ExportsStep DEF ModelKept
  <2> QED BY <2>1, <2>2, ModelsFollow, RecordingsFollow, ExportsFollow, PTL DEF ApiSpec
<1>3. ApiSpec => [](AccountsTypeOK /\ LoginsTypeOK)
  <2>1. ApiInit => AccessInv /\ DoorInv /\ DoorTypes
    BY AccessInit, DoorInit, DoorTypesStart
  <2>2. AccessInv /\ DoorInv /\ DoorTypes /\ [ApiNext]_apiPartsVars
        => (AccessInv /\ DoorInv /\ DoorTypes)'
    BY AccessStep, DoorStep, DoorTypesStep
  <2> QED BY <2>1, <2>2, AccountsTypesFollow, DoorTypesFollow, PTL DEF ApiSpec
<1>4. ApiSpec => [](ChannelsTypeOK /\ PushTypeOK)
  <2>1. ApiInit => ChannelsInv /\ MergerInv /\ StatusInv
    BY ChannelsStart, PushStarts
  <2>2. ChannelsInv /\ MergerInv /\ StatusInv /\ [ApiNext]_apiPartsVars
        => (ChannelsInv /\ MergerInv /\ StatusInv)'
    BY ChannelsStep, MergerStep, StatusStep
  <2> QED BY <2>1, <2>2, ChannelsFollow, PushFollows, PTL DEF ApiSpec
<1>5. ApiSpec => [](PagesTypeOK /\ ReportsTypeOK /\ DemoTypeOK)
  <2>1. ApiInit => PagesInv /\ ReportsInv /\ FeedInv
    BY PagesStart, ReportsStart, FeedStart
  <2>2. PagesInv /\ ReportsInv /\ FeedInv /\ [ApiNext]_apiPartsVars
        => (PagesInv /\ ReportsInv /\ FeedInv)'
    BY PagesStep, ReportsStep, FeedStep
  <2> QED BY <2>1, <2>2, PagesFollow, ReportsTypes, FeedFollows, PTL DEF ApiSpec
<1>6. ApiSpec => [](SiteTypeOK /\ DisksTypeOK)
  <2>1. ApiInit => SettingsInv /\ FootageInv /\ DisksInv
    BY SettingsInit, FootageInit, DiskInit
  <2>2. SettingsInv /\ FootageInv /\ DisksInv /\ [ApiNext]_apiPartsVars
        => (SettingsInv /\ FootageInv /\ DisksInv)'
    BY SettingsStep, FootageStep, DisksStep
  <2> QED BY <2>1, <2>2, SiteTypesFollow, DisksTypesFollow, PTL DEF ApiSpec
<1>7. /\ CamerasTypeOK
      /\ ModelTypeOK /\ RecordingsTypeOK /\ ExportsTypeOK
      /\ AccountsTypeOK /\ LoginsTypeOK
      /\ ChannelsTypeOK /\ PushTypeOK
      /\ PagesTypeOK /\ ReportsTypeOK /\ DemoTypeOK
      /\ SiteTypeOK /\ DisksTypeOK
      => ApiTypeOK
  BY DEF ApiTypeOK
<1> QED BY <1>1, <1>2, <1>3, <1>4, <1>5, <1>6, <1>7, PTL

-----------------------------------------------------------------------------

\* However many rows share a time and are inserted meanwhile, no page of a list
\* and no batch of an export repeats a row, and one that is read to its end has
\* every row that was there when it began; and the buckets of a report share the
\* time of an interval without a rest or a second twice, count its start once and
\* are those of the charts, in a day of any length: for any rows, page size,
\* steps, zones and ranges.
THEOREM ReportsHold == ApiSpec => []ReportsAreRight
<1>1. ApiInit => PagesInv /\ ReportsInv
  BY PagesStart, ReportsStart DEF ApiInit
<1>2. PagesInv /\ ReportsInv /\ [ApiNext]_apiPartsVars => (PagesInv /\ ReportsInv)'
  BY PartsMove, PagesStep, ReportsStep
<1>3. PagesInv /\ ReportsInv => ReportsAreRight
  BY PagesFollow, SumsHold DEF ReportsAreRight
<1> QED BY <1>1, <1>2, <1>3, PTL DEF ApiSpec

\* The parts that have a specification of their own behave in the API as they
\* do alone, so that what was proved of them holds in it: no version of a camera
\* is changed or dropped, the path in MediaMTX is the row's, and the last active
\* superadmin stays.
THEOREM PartsKeepTheirs ==
    ApiSpec => VersionsKept /\ []PathFollowsRow /\ LastSuperadminStays
<1>1. ApiSpec => CamerasSpec
  <2>1. ApiInit => CamerasInit
    BY DEF ApiInit
  <2>2. [ApiNext]_apiPartsVars => [CamerasNext]_camerasVars
    BY PartsMove
  <2> QED BY <2>1, <2>2, PTL DEF ApiSpec, CamerasSpec
<1>2. ApiSpec => AccountsSpec
  <2>1. ApiInit => AccountsInit
    BY DEF ApiInit
  <2>2. [ApiNext]_apiPartsVars => [AccountsNext]_accountsVars
    BY PartsMove
  <2> QED BY <2>1, <2>2, PTL DEF ApiSpec, AccountsSpec
<1> QED BY <1>1, <1>2, VersionsAreKept, PathIsKept, LastSuperadminIsKept

=============================================================================
