---------------------------- MODULE CamerasProofs ----------------------------
(***************************************************************************)
(* Proofs that a camera's config versions are kept, and change under the   *)
(* restrictions, and that MediaMTX's path follows its row, whichever       *)
(* requests run at the same time.                                          *)
(***************************************************************************)
EXTENDS Cameras, SequenceTheorems, TLAPS

Version == [limits : Limits, by : Operators, life : Nat]

\* The row exists exactly with its versions.
RowTypes ==
    /\ DOMAIN camera = {"there", "seen", "enabled", "sourceType", "url"}
    /\ camera.there \in BOOLEAN
    /\ versions \in Seq(Version)
    /\ camera.there = (versions # <<>>)
    /\ life \in Nat

\* What a request carries from one await to the next.
RequestTypes ==
    /\ DOMAIN request = Operators
    /\ \A o \in Operators :
          /\ request[o].at = "rollback" => request[o].limits \in Limits
          /\ request[o].at = "edit" => DOMAIN request[o].data \subseteq Fields
          /\ request[o].at = "save" =>
                /\ request[o].base \in Nat /\ request[o].limits \in Limits
                /\ request[o].life \in Nat /\ request[o].life <= life

\* A save under way was checked against its base, which is still what it was.
SavesChecked ==
    \A o \in Operators :
        request[o].at = "save" /\ request[o].life = life /\ versions # <<>> =>
            /\ request[o].base \in 1 .. Len(versions)
            /\ \/ o \in Superadmins
               \/ request[o].limits = versions[request[o].base].limits

VersionsInv == RowTypes /\ RequestTypes /\ SavesChecked

\* The action of VersionsKept.
Keeps ==
    life' = life /\ camera'.there =>
        /\ SubSeq(versions', 1, Len(versions)) = versions
        /\ \A v \in Len(versions)+1..Len(versions') :
              \/ versions'[v].by \in Superadmins
              \/ versions'[v].limits = versions'[v-1].limits
              \/ versions'[v].life # life

-----------------------------------------------------------------------------
(* Sequences *)

LEMMA AppendKeeps ==
    ASSUME NEW S, NEW s \in Seq(S), NEW e \in S
    PROVE  /\ Append(s, e) \in Seq(S) /\ Append(s, e) # <<>>
           /\ Len(Append(s, e)) = Len(s) + 1
           /\ Append(s, e)[Len(s) + 1] = e
           /\ \A i \in 1 .. Len(s) : Append(s, e)[i] = s[i]
           /\ SubSeq(Append(s, e), 1, Len(s)) = s
<1> DEFINE t == Append(s, e)
<1>1. /\ t \in Seq(S) /\ t # <<>> /\ Len(t) = Len(s) + 1 /\ t[Len(s) + 1] = e
      /\ \A i \in 1 .. Len(s) : t[i] = s[i]
  OBVIOUS
<1>2. SubSeq(t, 1, Len(s)) = s
  <2>1. SubSeq(t, 1, Len(s)) \in Seq(S) /\ Len(SubSeq(t, 1, Len(s))) = Len(s)
    BY <1>1
  <2>2. \A i \in 1 .. Len(s) : SubSeq(t, 1, Len(s))[i] = s[i]
    BY <1>1
  <2> HIDE DEF t
  <2> QED  BY <2>1, <2>2, SeqEqual
<1> QED  BY <1>1, <1>2

LEMMA SameKeeps ==
    ASSUME RowTypes, versions' = versions
    PROVE  Keeps
<1>1. SubSeq(versions, 1, Len(versions)) = versions
  BY SubSeqFull DEF RowTypes
<1> QED  BY <1>1 DEF Keeps, RowTypes

-----------------------------------------------------------------------------
(* Steps *)

LEMMA VersionsStart == CamerasInit => VersionsInv
<1> SUFFICES ASSUME CamerasInit PROVE VersionsInv
  OBVIOUS
<1>1. RowTypes
  <2>1. DOMAIN camera = {"there", "seen", "enabled", "sourceType", "url"} /\ camera.there = FALSE
    BY DEF CamerasInit, NewCamera
  <2>2. versions = <<>> /\ versions \in Seq(Version) /\ life \in Nat
    BY DEF CamerasInit
  <2> QED  BY <2>1, <2>2 DEF RowTypes
<1>2. \A o \in Operators : request[o] = NoRequest
  BY DEF CamerasInit
<1> QED  BY <1>1, <1>2 DEF VersionsInv, RequestTypes, SavesChecked, NoRequest, CamerasInit

\* A step that changes neither the versions nor the life of the camera keeps
\* the invariant if the requests it leaves behind are sound.
LEMMA RequestMoves ==
    ASSUME VersionsInv, NEW o \in Operators, NEW next, Goes(o, next),
           UNCHANGED <<versions, life>>, RowTypes',
           next.at = "rollback" => next.limits \in Limits,
           next.at = "edit" => DOMAIN next.data \subseteq Fields,
           next.at = "save" =>
              /\ next.base = Len(versions) /\ next.limits \in Limits /\ next.life = life
              /\ versions # <<>>
              /\ versions[Len(versions)].limits # next.limits => o \in Superadmins
    PROVE  VersionsInv' /\ Keeps
<1>1. /\ DOMAIN request' = Operators
      /\ request'[o] = next
      /\ \A p \in Operators \ {o} : request'[p] = request[p]
  BY DEF VersionsInv, RequestTypes, Goes
<1>2. Len(versions) \in Nat /\ (versions # <<>> => Len(versions) \in 1 .. Len(versions))
  BY DEF VersionsInv, RowTypes
<1>3. RequestTypes'
  BY <1>1, <1>2 DEF VersionsInv, RequestTypes, RowTypes
<1>4. SavesChecked'
  BY <1>1, <1>2 DEF VersionsInv, SavesChecked
<1> QED  BY <1>3, <1>4, SameKeeps DEF VersionsInv

\* Steps of others leave the camera's versions and the requests alone.
LEMMA OthersKeep ==
    ASSUME VersionsInv, UNCHANGED <<versions, life, request>>, RowTypes'
    PROVE  VersionsInv' /\ Keeps
  BY SameKeeps DEF VersionsInv, RequestTypes, SavesChecked

LEMMA SameRow ==
    ASSUME RowTypes, UNCHANGED <<camera, versions, life>>
    PROVE  RowTypes'
  BY DEF RowTypes

LEMMA CreateStep ==
    ASSUME VersionsInv, NEW o \in Operators, NEW limits \in Limits, CreateCamera(o, limits)
    PROVE  VersionsInv' /\ Keeps
<1> DEFINE first == [limits |-> limits, by |-> o, life |-> life + 1]
<1>1. /\ camera' = NewCamera /\ versions' = <<first>> /\ life' = life + 1
      /\ life \in Nat
  BY DEF CreateCamera, VersionsInv, RowTypes
<1>2. /\ DOMAIN request' = Operators
      /\ request'[o] = AskSync
      /\ \A p \in Operators \ {o} : request'[p] = request[p]
  BY DEF VersionsInv, RequestTypes, CreateCamera, Goes
<1>3. RowTypes'
  <2>1. first \in Version
    BY <1>1 DEF Version
  <2>2. DOMAIN camera' = {"there", "seen", "enabled", "sourceType", "url"} /\ camera'.there = TRUE
    BY <1>1 DEF NewCamera
  <2>3. versions' \in Seq(Version) /\ versions' # <<>>
    <3> HIDE DEF first
    <3> QED  BY <1>1, <2>1
  <2>4. life' \in Nat
    BY <1>1
  <2> QED  BY <2>2, <2>3, <2>4 DEF RowTypes
<1>4. \A p \in Operators : request'[p].at = "save" => request'[p].life <= life
  BY <1>2 DEF AskSync, VersionsInv, RequestTypes
<1>5. RequestTypes'
  BY <1>1, <1>2 DEF AskSync, VersionsInv, RequestTypes
<1>6. SavesChecked'
  BY <1>1, <1>2, <1>4, <1>5 DEF SavesChecked, RequestTypes
<1>7. Keeps
  BY <1>1 DEF Keeps
<1> QED  BY <1>3, <1>5, <1>6, <1>7 DEF VersionsInv

LEMMA SaveStep ==
    ASSUME VersionsInv, NEW o \in Operators, SaveCommits(o)
    PROVE  VersionsInv' /\ Keeps
<1> DEFINE r == request[o]
           saved == [limits |-> r.limits, by |-> o, life |-> r.life]
<1>1. /\ r.at = "save" /\ r.base \in Nat /\ r.limits \in Limits /\ r.life \in Nat
      /\ camera' = camera /\ life' = life
      /\ versions \in Seq(Version) /\ versions' \in {versions, Append(versions, saved)}
      /\ saved \in Version
  BY DEF SaveCommits, VersionsInv, RowTypes, RequestTypes, Version
<1>2. CASE versions' = versions
  <2>1. RowTypes'
    BY <1>1, <1>2, SameRow DEF VersionsInv
  <2> QED  BY <1>1, <1>2, <2>1, RequestMoves DEF SaveCommits, NoRequest
<1>3. CASE versions' # versions
  <2>1. /\ versions' = Append(versions, saved)
        /\ camera.there /\ Len(versions) = r.base
    BY <1>1, <1>3 DEF SaveCommits, VersionsInv, RowTypes
  <2>2. /\ versions' \in Seq(Version) /\ versions' # <<>>
        /\ Len(versions') = Len(versions) + 1
        /\ versions'[Len(versions) + 1] = saved
        /\ \A i \in 1 .. Len(versions) : versions'[i] = versions[i]
        /\ SubSeq(versions', 1, Len(versions)) = versions
        /\ Len(versions) \in Nat
    <3> HIDE DEF saved
    <3> QED  BY <1>1, <2>1, AppendKeeps
  <2>3. RowTypes'
    BY <1>1, <2>1, <2>2 DEF VersionsInv, RowTypes
  <2>4. /\ DOMAIN request' = Operators
        /\ request'[o] = NoRequest
        /\ \A p \in Operators \ {o} : request'[p] = request[p]
    BY DEF VersionsInv, RequestTypes, SaveCommits, Goes
  <2>5. RequestTypes'
    BY <1>1, <2>4 DEF NoRequest, VersionsInv, RequestTypes
  <2>6. SavesChecked'
    <3> SUFFICES ASSUME NEW p \in Operators,
                        request'[p].at = "save", request'[p].life = life
                 PROVE  /\ request'[p].base \in 1 .. Len(versions')
                        /\ \/ p \in Superadmins
                           \/ request'[p].limits = versions'[request'[p].base].limits
      BY <1>1 DEF SavesChecked
    <3>1. p # o /\ request'[p] = request[p]
      BY <2>4 DEF NoRequest
    <3>2. versions # <<>>
      BY <2>1 DEF VersionsInv, RowTypes
    <3>3. /\ request[p].base \in 1 .. Len(versions)
          /\ \/ p \in Superadmins
             \/ request[p].limits = versions[request[p].base].limits
      BY <3>1, <3>2 DEF VersionsInv, SavesChecked
    <3> QED  BY <3>1, <3>3, <2>2
  <2>7. Keeps
    <3> SUFFICES ASSUME r.life = life
                 PROVE  \/ o \in Superadmins
                        \/ r.limits = versions[Len(versions)].limits
      <4>1. \A v \in Len(versions)+1 .. Len(versions') : v = Len(versions) + 1
        BY <2>2
      <4>0. versions # <<>>
        BY <2>1 DEF VersionsInv, RowTypes
      <4>2. Len(versions) \in 1 .. Len(versions)
        BY <1>1, <4>0
      <4>3. versions'[Len(versions)] = versions[Len(versions)]
        BY <2>2, <4>2
      <4> QED  BY <1>1, <2>2, <4>1, <4>3 DEF Keeps
    <3>1. versions # <<>>
      BY <2>1 DEF VersionsInv, RowTypes
    <3> QED  BY <1>1, <2>1, <3>1 DEF VersionsInv, SavesChecked
  <2> QED  BY <2>3, <2>5, <2>6, <2>7 DEF VersionsInv
<1> QED  BY <1>2, <1>3

LEMMA RemoveStep ==
    ASSUME VersionsInv, NEW o \in Operators, RemoveDeletes(o)
    PROVE  VersionsInv' /\ Keeps
<1>1. CASE camera' = camera /\ versions' = versions
  <2>1. RowTypes'
    BY <1>1, SameRow DEF VersionsInv, RemoveDeletes
  <2> QED  BY <1>1, <2>1, RequestMoves DEF RemoveDeletes, Refused, NoRequest, AskSync
<1>2. CASE camera' = [camera EXCEPT !.there = FALSE] /\ versions' = <<>>
  <2>1. life' = life /\ ~camera'.there /\ DOMAIN camera' = DOMAIN camera
    BY <1>2 DEF RemoveDeletes, VersionsInv, RowTypes
  <2>2. RowTypes'
    <3>1. camera'.there = FALSE
      BY <1>2 DEF VersionsInv, RowTypes
    <3>2. versions' \in Seq(Version)
      BY <1>2
    <3> QED  BY <1>2, <2>1, <3>1, <3>2 DEF VersionsInv, RowTypes
  <2>3. /\ DOMAIN request' = Operators
        /\ request'[o].at \in {"idle", "ask"}
        /\ \A p \in Operators \ {o} : request'[p] = request[p]
    BY DEF VersionsInv, RequestTypes, RemoveDeletes, Goes, Refused, NoRequest, AskSync
  <2>4. RequestTypes'
    BY <2>1, <2>3 DEF VersionsInv, RequestTypes
  <2> QED  BY <1>2, <2>1, <2>2, <2>4 DEF VersionsInv, SavesChecked, Keeps
<1> QED  BY <1>1, <1>2 DEF RemoveDeletes

LEMMA EditReadsStep ==
    ASSUME VersionsInv, NEW o \in Operators, NEW edit \in Edits, EditReads(o, edit)
    PROVE  VersionsInv' /\ Keeps
<1> DEFINE changed == {f \in DOMAIN edit : edit[f] # camera[f]}
           next == [at |-> "edit", data |-> Restrict(edit, changed)]
<1>1. Goes(o, next) /\ UNCHANGED <<camera, versions, life>>
  BY DEF EditReads
<1>2. DOMAIN next.data \subseteq Fields
  BY EditsAssumption DEF Restrict
<1>3. next.at = "edit"
  OBVIOUS
<1>4. RowTypes'
  BY <1>1, SameRow DEF VersionsInv
<1> HIDE DEF next
<1> QED  BY <1>1, <1>2, <1>3, <1>4, RequestMoves

LEMMA EditWritesStep ==
    ASSUME VersionsInv, NEW o \in Operators, EditWrites(o)
    PROVE  VersionsInv' /\ Keeps
<1>1. /\ request[o].at = "edit" /\ DOMAIN request[o].data \subseteq Fields
      /\ UNCHANGED <<versions, life>>
  BY DEF VersionsInv, RequestTypes, EditWrites
<1>2. "there" \notin DOMAIN request[o].data
  BY <1>1 DEF Fields
<1>3. DOMAIN camera' = DOMAIN camera /\ camera'.there = camera.there
  BY <1>2 DEF EditWrites, VersionsInv, RowTypes
<1>4. RowTypes'
  BY <1>1, <1>3 DEF VersionsInv, RowTypes
<1>5. PICK next \in {AskSync, Refused} : Goes(o, next)
  BY DEF EditWrites
<1> QED  BY <1>1, <1>4, <1>5, RequestMoves DEF AskSync, Refused, NoRequest

\* A save is prepared against the active version, or refused.
LEMMA PrepareStep ==
    ASSUME VersionsInv, NEW o \in Operators, NEW limits \in Limits, NEW next,
           UNCHANGED <<camera, versions, life>>, Goes(o, next),
           \/ next = Refused
           \/ /\ camera.there
              /\ versions[Len(versions)].limits # limits => o \in Superadmins
              /\ next = [at |-> "save", base |-> Len(versions), limits |-> limits,
                         life |-> life]
    PROVE  VersionsInv' /\ Keeps
<1>1. RowTypes'
  BY SameRow DEF VersionsInv
<1>2. CASE next = Refused
  BY <1>1, <1>2, RequestMoves DEF Refused, NoRequest
<1>3. CASE next # Refused
  <2>1. versions # <<>>
    BY <1>3 DEF VersionsInv, RowTypes
  <2> QED  BY <1>1, <1>3, <2>1, RequestMoves
<1> QED  BY <1>2, <1>3

LEMMA OperatorStep ==
    ASSUME VersionsInv, NEW o \in Operators, Operator(o)
    PROVE  VersionsInv' /\ Keeps
<1>1. ASSUME NEW limits \in Limits, SaveReads(o, limits)
      PROVE  VersionsInv' /\ Keeps
  <2> DEFINE next == [at |-> "save", base |-> Len(versions), limits |-> limits, life |-> life]
  <2>1. /\ camera.there /\ Goes(o, next) /\ UNCHANGED <<camera, versions, life>>
        /\ versions[Len(versions)].limits # limits => o \in Superadmins
    BY <1>1 DEF SaveReads, RestrictedChanges
  <2> QED  BY <2>1, PrepareStep
<1>2. ASSUME NEW v, Rollback(o, v)
      PROVE  VersionsInv' /\ Keeps
  <2> DEFINE next == [at |-> "rollback", limits |-> versions[v].limits]
  <2>1. Goes(o, next) /\ UNCHANGED <<camera, versions, life>> /\ v \in DOMAIN versions
    BY <1>2 DEF Rollback
  <2>2. next.limits \in Limits
    <3>1. versions \in Seq(Version)
      BY DEF VersionsInv, RowTypes
    <3>2. versions[v] \in Version
      BY <2>1, <3>1
    <3> QED  BY <3>2 DEF Version
  <2>3. RowTypes'
    BY <2>1, SameRow DEF VersionsInv
  <2>4. next.at = "rollback"
    OBVIOUS
  <2> HIDE DEF next
  <2> QED  BY <2>1, <2>2, <2>3, <2>4, RequestMoves
<1>3. CASE RollbackSaves(o)
  <2> DEFINE limits == request[o].limits
             next == [at |-> "save", base |-> Len(versions), limits |-> limits, life |-> life]
  <2>1. limits \in Limits /\ UNCHANGED <<camera, versions, life>>
    BY <1>3 DEF RollbackSaves, VersionsInv, RequestTypes
  <2>2. \/ Goes(o, Refused)
        \/ /\ camera.there /\ Goes(o, next)
           /\ versions[Len(versions)].limits # limits => o \in Superadmins
    BY <1>3 DEF RollbackSaves, RestrictedChanges
  <2> HIDE DEF limits
  <2> QED  BY <2>1, <2>2, PrepareStep
<1>4. CASE RemoveReads(o)
  <2>1. Goes(o, [at |-> "remove"]) /\ UNCHANGED <<camera, versions, life>>
    BY <1>4 DEF RemoveReads
  <2>2. RowTypes'
    BY <2>1, SameRow DEF VersionsInv
  <2> QED  BY <2>1, <2>2, RequestMoves
<1>5. CASE AskForSync(o)
  <2>1. Goes(o, NoRequest) /\ UNCHANGED <<camera, versions, life>>
    BY <1>5 DEF AskForSync
  <2>2. RowTypes'
    BY <2>1, SameRow DEF VersionsInv
  <2> QED  BY <2>1, <2>2, RequestMoves DEF NoRequest
<1> QED
  BY <1>1, <1>2, <1>3, <1>4, <1>5, CreateStep, SaveStep, RemoveStep, EditReadsStep,
     EditWritesStep
  DEF Operator

LEMMA VersionsStep ==
    ASSUME VersionsInv, [CamerasNext]_camerasVars
    PROVE  VersionsInv' /\ Keeps
<1>1. CASE Requests
  BY <1>1, OperatorStep DEF Requests
<1>2. CASE UNCHANGED apiVars
  <2>1. RowTypes'
    BY <1>2, SameRow DEF VersionsInv, apiVars
  <2> QED  BY <1>2, <2>1, OthersKeep DEF apiVars
<1>3. CASE PathSync
  BY <1>2, <1>3
     DEF PathSync, Sync, SyncLists, SyncReads, SyncApplies, Reconcile, MediamtxRestarts
<1>4. ASSUME NEW fails \in BOOLEAN, JobMarksSeen(fails)
      PROVE  VersionsInv' /\ Keeps
  <2>1. /\ DOMAIN camera' = DOMAIN camera /\ camera'.there = camera.there
        /\ UNCHANGED <<versions, life, request>>
    BY <1>4 DEF JobMarksSeen, VersionsInv, RowTypes
  <2>2. RowTypes'
    BY <2>1 DEF VersionsInv, RowTypes
  <2> QED  BY <2>1, <2>2, OthersKeep
<1>5. CASE OfflineJob
  BY <1>2, <1>4, <1>5
     DEF OfflineJob, OfflineTick, KeyChanges, JobReads, JobReadsKeys, JobWrites
<1>6. CASE ApiRestarts
  <2>1. /\ UNCHANGED <<camera, versions, life>>
        /\ request' = [o \in Operators |-> NoRequest]
    BY <1>6 DEF ApiRestarts
  <2>2. RowTypes'
    BY <2>1, SameRow DEF VersionsInv
  <2>3. \A o \in Operators : request'[o] = NoRequest
    BY <2>1
  <2> QED  BY <2>1, <2>2, <2>3, SameKeeps
           DEF VersionsInv, RequestTypes, SavesChecked, NoRequest
<1> QED
  BY <1>1, <1>2, <1>3, <1>5, <1>6 DEF CamerasNext, camerasVars

\* While its camera exists, no version is changed or dropped, and only a
\* superadmin's save changes what is restricted, for any number of operators,
\* requests and lives (cameras.service.ts, config-versions.service.ts:121).
THEOREM VersionsAreKept == CamerasSpec => VersionsKept
<1>1. VersionsInv /\ [CamerasNext]_camerasVars => VersionsInv'
  BY VersionsStep
<1>2. VersionsInv /\ [CamerasNext]_camerasVars => [Keeps]_camerasVars
  BY VersionsStep
<1>3. CamerasSpec => [][Keeps]_camerasVars
  BY VersionsStart, <1>1, <1>2, PTL DEF CamerasSpec
<1> QED  BY <1>3 DEF VersionsKept, Keeps

-----------------------------------------------------------------------------
(* The path *)

Asked == \E o \in Operators : request[o].at = "ask"

SyncTypes ==
    /\ DOMAIN sync = {"at", "rerun", "have", "want"}
    /\ sync.at \in {"none", "list", "read", "apply"}
    /\ sync.rerun \in BOOLEAN /\ unsynced \in BOOLEAN

\* What a pass knows is true, or another pass will come, or one failed: the
\* paths are as listed, and the row as read.
PassIsRight ==
    \/ Asked \/ unsynced \/ sync.rerun
    \/ sync.at = "list"
    \/ sync.at = "read" /\ sync.have = path
    \/ sync.at = "apply" /\ sync.have = path /\ sync.want = WantedPath(camera)
    \/ sync.at = "none" /\ path = WantedPath(camera)

\* A pass that is not to be repeated was not asked to be.
IdleAsksNothing == sync.at = "none" => ~sync.rerun

PathInv == SyncTypes /\ PassIsRight /\ IdleAsksNothing

LEMMA PathInit == CamerasInit => PathInv
<1> SUFFICES ASSUME CamerasInit PROVE PathInv
  OBVIOUS
<1>1. sync = [at |-> "list", rerun |-> FALSE, have |-> NoPath, want |-> NoPath] /\ unsynced = FALSE
  BY DEF CamerasInit, IdleSync
<1> QED  BY <1>1 DEF PathInv, SyncTypes, PassIsRight, IdleAsksNothing

\* A new pass asks for nothing and lists first.
LEMMA BeginIsRight ==
    ASSUME sync' = Begin, unsynced' \in BOOLEAN
    PROVE  PathInv'
<1>1. sync' = [at |-> "list", rerun |-> FALSE, have |-> NoPath, want |-> NoPath]
  BY DEF Begin, IdleSync
<1> QED  BY <1>1 DEF PathInv, SyncTypes, PassIsRight, IdleAsksNothing

LEMMA PassEndIsRight ==
    ASSUME PathInv, NEW fails \in BOOLEAN, PassEnds(fails), Asked => Asked',
           fails \/ Asked \/ unsynced \/ sync.rerun \/ path' = WantedPath(camera')
    PROVE  PathInv'
<1>1. unsynced' \in BOOLEAN
  BY DEF PathInv, SyncTypes, PassEnds
<1>2. CASE sync.rerun
  BY <1>1, <1>2, BeginIsRight DEF PassEnds
<1>3. CASE ~sync.rerun
  <2>1. /\ sync' = [at |-> "none", rerun |-> FALSE, have |-> NoPath, want |-> NoPath]
        /\ unsynced' = (unsynced \/ fails)
    BY <1>3 DEF PassEnds, IdleSync
  <2> QED  BY <1>1, <1>3, <2>1 DEF PathInv, SyncTypes, PassIsRight, IdleAsksNothing
<1> QED  BY <1>2, <1>3

\* An asked sync begins a pass, or repeats the one under way.
LEMMA RequestIsRight ==
    ASSUME PathInv, sync' = Request, unsynced' = (unsynced /\ sync.at # "none")
    PROVE  PathInv'
<1>1. unsynced' \in BOOLEAN
  BY Zenon
<1>2. CASE sync.at = "none"
  BY <1>1, <1>2, BeginIsRight DEF Request
<1>3. CASE sync.at # "none"
  <2>1. /\ DOMAIN sync' = DOMAIN sync /\ sync'.at = sync.at /\ sync'.rerun = TRUE
    BY <1>3 DEF Request, PathInv, SyncTypes
  <2> QED  BY <1>1, <1>3, <2>1 DEF PathInv, SyncTypes, PassIsRight, IdleAsksNothing
<1> QED  BY <1>2, <1>3

LEMMA SyncStep ==
    ASSUME PathInv, NEW fails \in BOOLEAN, Sync(fails)
    PROVE  PathInv'
<1>1. UNCHANGED <<camera, request>> /\ (Asked => Asked')
  BY DEF Sync, SyncLists, SyncReads, SyncApplies, apiVars, Asked
<1>2. CASE SyncLists(fails)
  <2>1. CASE fails
    BY <1>1, <1>2, <2>1, PassEndIsRight DEF SyncLists
  <2>2. CASE ~fails
    <3>1. /\ DOMAIN sync' = DOMAIN sync /\ sync'.at = "read" /\ sync'.have = path
          /\ sync'.rerun = sync.rerun /\ unsynced' = unsynced /\ path' = path
      BY <1>2, <2>2 DEF SyncLists, PathInv, SyncTypes
    <3> QED  BY <3>1 DEF PathInv, SyncTypes, PassIsRight, IdleAsksNothing
  <2> QED  BY <2>1, <2>2
<1>3. CASE SyncReads(fails)
  <2>1. CASE fails
    BY <1>1, <1>3, <2>1, PassEndIsRight DEF SyncReads
  <2>2. CASE ~fails
    <3>1. /\ DOMAIN sync' = DOMAIN sync /\ sync'.at = "apply"
          /\ sync'.want = WantedPath(camera) /\ sync'.have = sync.have
          /\ sync'.rerun = sync.rerun /\ unsynced' = unsynced /\ path' = path
          /\ sync.at = "read"
      BY <1>3, <2>2 DEF SyncReads, PathInv, SyncTypes
    <3>2. WantedPath(camera') = WantedPath(camera)
      BY <1>1
    <3> QED  BY <1>1, <3>1, <3>2 DEF PathInv, SyncTypes, PassIsRight, IdleAsksNothing
  <2> QED  BY <2>1, <2>2
<1>4. CASE SyncApplies(fails)
  <2> DEFINE call == sync.have # sync.want
             bad == fails \/ (call /\ Lost(sync.have, sync.want))
  <2>1. /\ sync.at = "apply" /\ PassEnds(bad)
        /\ path' \in IF call THEN Called(sync.have, sync.want, fails) ELSE {path}
    BY <1>4 DEF SyncApplies
  <2>2. WantedPath(camera') = WantedPath(camera)
    BY <1>1
  <2>3. ~bad => path' = IF call THEN sync.want ELSE path
    BY <2>1 DEF Called
  <2>4. bad \/ Asked \/ unsynced \/ sync.rerun \/ path' = WantedPath(camera')
    BY <2>1, <2>2, <2>3 DEF PathInv, PassIsRight
  <2>5. bad \in BOOLEAN
    BY DEF Lost
  <2> HIDE DEF bad
  <2> QED  BY <1>1, <2>1, <2>4, <2>5, PassEndIsRight
<1> QED  BY <1>2, <1>3, <1>4 DEF Sync

\* A step that leaves the sync alone breaks nothing if what is wanted stays as
\* it is, or somebody asks.
LEMMA SyncWaits ==
    ASSUME PathInv, UNCHANGED syncVars, Asked => Asked',
           Asked' \/ WantedPath(camera') = WantedPath(camera)
    PROVE  PathInv'
  BY DEF PathInv, SyncTypes, PassIsRight, IdleAsksNothing, syncVars

LEMMA RequestsKeepPath ==
    ASSUME VersionsInv, PathInv, NEW o \in Operators, Operator(o)
    PROVE  PathInv'
<1>1. CASE AskForSync(o)
  BY <1>1, RequestIsRight DEF AskForSync
<1>2. ASSUME NEW next, Goes(o, next), request[o].at # "ask", UNCHANGED syncVars,
             next.at = "ask" \/ camera' = camera
      PROVE  PathInv'
  <2>1. request'[o] = next /\ \A p \in Operators \ {o} : request'[p] = request[p]
    BY <1>2 DEF VersionsInv, RequestTypes, Goes
  <2>2. Asked => Asked'
    BY <1>2, <2>1 DEF Asked
  <2>3. Asked' \/ WantedPath(camera') = WantedPath(camera)
    BY <1>2, <2>1 DEF Asked
  <2> QED  BY <1>2, <2>2, <2>3, SyncWaits
<1>3. ASSUME NEW limits, CreateCamera(o, limits) \/ SaveReads(o, limits)
      PROVE  PathInv'
  BY <1>2, <1>3 DEF CreateCamera, SaveReads, Starts, AskSync
<1>4. ASSUME NEW v, Rollback(o, v)
      PROVE  PathInv'
  BY <1>2, <1>4 DEF Rollback, Starts
<1>5. CASE RollbackSaves(o)
  <2>1. PICK next : Goes(o, next)
    BY <1>5 DEF RollbackSaves
  <2> QED  BY <1>2, <1>5, <2>1 DEF RollbackSaves
<1>6. CASE SaveCommits(o)
  BY <1>2, <1>6 DEF SaveCommits
<1>7. ASSUME NEW edit, EditReads(o, edit)
      PROVE  PathInv'
  <2>1. PICK next : Goes(o, next)
    BY <1>7 DEF EditReads
  <2> QED  BY <1>2, <1>7, <2>1 DEF EditReads, Starts
<1>8. CASE EditWrites(o)
  <2>1. CASE Goes(o, AskSync)
    BY <1>2, <1>8, <2>1 DEF EditWrites, AskSync
  <2>2. CASE Goes(o, Refused) /\ camera' = camera
    BY <1>2, <1>8, <2>2 DEF EditWrites
  <2> QED  BY <1>8, <2>1, <2>2 DEF EditWrites
<1>9. CASE RemoveReads(o)
  BY <1>2, <1>9 DEF RemoveReads, Starts
<1>10. CASE RemoveDeletes(o)
  <2>1. CASE Goes(o, AskSync)
    BY <1>2, <1>10, <2>1 DEF RemoveDeletes, AskSync
  <2>2. CASE Goes(o, Refused) /\ camera' = camera
    BY <1>2, <1>10, <2>2 DEF RemoveDeletes
  <2> QED  BY <1>10, <2>1, <2>2 DEF RemoveDeletes
<1> QED  BY <1>1, <1>3, <1>4, <1>5, <1>6, <1>7, <1>8, <1>9, <1>10 DEF Operator

LEMMA PathStep ==
    ASSUME VersionsInv, PathInv, [CamerasNext]_camerasVars
    PROVE  PathInv'
<1>1. CASE Requests
  BY <1>1, RequestsKeepPath DEF Requests
<1>2. CASE Reconcile
  BY <1>2, RequestIsRight DEF Reconcile
<1>3. CASE MediamtxRestarts
  <2>1. sync' = sync /\ unsynced' = TRUE
    BY <1>3 DEF MediamtxRestarts
  <2> QED  BY <2>1 DEF PathInv, SyncTypes, PassIsRight, IdleAsksNothing
<1>4. CASE PathSync
  BY <1>2, <1>3, <1>4, SyncStep DEF PathSync
<1>5. ASSUME UNCHANGED <<syncVars, request>>, WantedPath(camera') = WantedPath(camera)
      PROVE  PathInv'
  BY <1>5, SyncWaits DEF Asked
<1>6. ASSUME NEW fails \in BOOLEAN, JobMarksSeen(fails)
      PROVE  PathInv'
  <2>1. /\ camera'.there = camera.there /\ camera'.sourceType = camera.sourceType
        /\ camera'.enabled = camera.enabled /\ camera'.url = camera.url
        /\ UNCHANGED <<syncVars, request>>
    BY <1>6 DEF JobMarksSeen, VersionsInv, RowTypes
  <2>2. WantedPath(camera') = WantedPath(camera)
    BY <2>1 DEF WantedPath
  <2> QED  BY <1>5, <2>1, <2>2
<1>7. CASE OfflineJob
  <2>1. ASSUME UNCHANGED <<apiVars, syncVars>>
        PROVE  PathInv'
    BY <1>5, <2>1 DEF apiVars
  <2> QED  BY <1>6, <1>7, <2>1
           DEF OfflineJob, OfflineTick, KeyChanges, JobReads, JobReadsKeys, JobWrites
<1>8. CASE ApiRestarts
  BY <1>8, BeginIsRight DEF ApiRestarts
<1>9. CASE UNCHANGED camerasVars
  BY <1>5, <1>9 DEF camerasVars, apiVars
<1> QED  BY <1>1, <1>4, <1>7, <1>8, <1>9 DEF CamerasNext

\* Between passes MediaMTX's path is what the row asks for, unless a pass failed,
\* MediaMTX restarted, or a request has yet to ask (mediamtx/path-sync.service.ts),
\* for any number of operators, edits and failures.
THEOREM PathIsKept == CamerasSpec => []PathFollowsRow
<1>1. VersionsInv /\ [CamerasNext]_camerasVars => VersionsInv'
  BY VersionsStep
<1>2. VersionsInv /\ PathInv /\ [CamerasNext]_camerasVars => PathInv'
  BY PathStep
<1>3. PathInv => PathFollowsRow
  BY DEF PathInv, PassIsRight, IdleAsksNothing, PathFollowsRow, Asked
<1> QED  BY VersionsStart, PathInit, <1>1, <1>2, <1>3, PTL DEF CamerasSpec

-----------------------------------------------------------------------------
(* The types *)

CameraRows == [there : BOOLEAN, seen : BOOLEAN, enabled : BOOLEAN,
               sourceType : {"FILE", "IP_CAMERA"}, url : {"file", "rtsp1", "rtsp2"}]
Paths == {"file", "rtsp1", "rtsp2", NoPath, "publisher"}
TickStates == [at : {"idle", "keys", "seen", "write"}, enabled : BOOLEAN, seen : BOOLEAN,
         open : BOOLEAN, present : BOOLEAN]
Syncs == [at : {"none", "list", "read", "apply"}, rerun : BOOLEAN, have : Paths, want : Paths]

\* An edit writes values of its fields, a pass paths, and the job what it read.
EditsTyped ==
    \A o \in Operators : request[o].at = "edit" =>
        \A f \in DOMAIN request[o].data : request[o].data[f] \in Values(f)

OfflineTypes == key \in BOOLEAN /\ offline \in {"none", "open", "closed"} /\ job \in TickStates

PathTypes == path \in Paths /\ sync \in Syncs

CameraTypes == camera \in CameraRows /\ EditsTyped /\ OfflineTypes /\ PathTypes

LEMMA FieldValues ==
    /\ Values("enabled") = BOOLEAN /\ Values("sourceType") = {"FILE", "IP_CAMERA"}
    /\ Values("url") = {"file", "rtsp1", "rtsp2"}
  BY DEF Values

LEMMA CameraTypesStart == CamerasInit => CameraTypes
<1> SUFFICES ASSUME CamerasInit PROVE CameraTypes
  OBVIOUS
<1>1. camera \in CameraRows
  BY DEF CamerasInit, NewCamera, CameraRows
<1>2. EditsTyped
  BY DEF CamerasInit, EditsTyped, NoRequest
<1>3. OfflineTypes
  BY DEF CamerasInit, OfflineTypes, IdleJob, TickStates
<1>4. PathTypes
  BY DEF CamerasInit, PathTypes, IdleSync, Syncs, Paths
<1> QED BY <1>1, <1>2, <1>3, <1>4 DEF CameraTypes

LEMMA WantedTypes == ASSUME NEW c \in CameraRows PROVE WantedPath(c) \in Paths
  BY DEF CameraRows, Paths, WantedPath

\* What an edit writes over a row gives a row.
LEMMA EditedRow ==
    ASSUME NEW c \in CameraRows, NEW data, DOMAIN data \subseteq Fields,
           \A f \in DOMAIN data : data[f] \in Values(f)
    PROVE  [f \in DOMAIN c |-> IF f \in DOMAIN data THEN data[f] ELSE c[f]] \in CameraRows
<1> DEFINE d == [f \in DOMAIN c |-> IF f \in DOMAIN data THEN data[f] ELSE c[f]]
<1>1. /\ DOMAIN c = {"there", "seen", "enabled", "sourceType", "url"}
      /\ c.there \in BOOLEAN /\ c.seen \in BOOLEAN /\ c.enabled \in BOOLEAN
      /\ c.sourceType \in {"FILE", "IP_CAMERA"} /\ c.url \in {"file", "rtsp1", "rtsp2"}
  BY DEF CameraRows
<1>2. "there" \notin DOMAIN data /\ "seen" \notin DOMAIN data
  BY DEF Fields
<1>3. d.there \in BOOLEAN /\ d.seen \in BOOLEAN
  BY <1>1, <1>2
<1>4. d.enabled \in BOOLEAN
  <2>1. d.enabled = IF "enabled" \in DOMAIN data THEN data["enabled"] ELSE c.enabled
    BY <1>1
  <2>2. CASE "enabled" \in DOMAIN data
    BY <2>1, <2>2, FieldValues, Zenon
  <2>3. CASE "enabled" \notin DOMAIN data
    BY <1>1, <2>1, <2>3, Zenon
  <2> QED BY <2>2, <2>3
<1>5. d.sourceType \in {"FILE", "IP_CAMERA"}
  <2>1. "sourceType" \in DOMAIN data => data["sourceType"] \in {"FILE", "IP_CAMERA"}
    BY FieldValues, Zenon
  <2> QED BY <1>1, <2>1
<1>6. d.url \in {"file", "rtsp1", "rtsp2"}
  <2>1. "url" \in DOMAIN data => data["url"] \in {"file", "rtsp1", "rtsp2"}
    BY FieldValues, Zenon
  <2> QED BY <1>1, <2>1
<1>7. d = [there |-> d.there, seen |-> d.seen, enabled |-> d.enabled,
           sourceType |-> d.sourceType, url |-> d.url]
  BY <1>1
<1> HIDE DEF d
<1>8. d \in CameraRows
  BY <1>3, <1>4, <1>5, <1>6, <1>7 DEF CameraRows
<1> QED BY <1>8 DEF d

\* A request that goes on takes its values with it.
LEMMA EditsGoOn ==
    ASSUME RequestTypes, EditsTyped, NEW o \in Operators, NEW next, Goes(o, next),
           next.at = "edit" => \A f \in DOMAIN next.data : next.data[f] \in Values(f)
    PROVE  EditsTyped'
<1>1. request'[o] = next /\ \A p \in Operators \ {o} : request'[p] = request[p]
  BY DEF Goes, RequestTypes
<1> QED BY <1>1 DEF EditsTyped

LEMMA SyncGoesOn ==
    ASSUME PathTypes, NEW s \in Syncs, NEW p \in Paths, sync' = s, path' = p
    PROVE  PathTypes'
  BY DEF PathTypes

LEMMA PassEndTypes ==
    ASSUME PathTypes, NEW fails, PassEnds(fails), path' \in Paths
    PROVE  PathTypes'
<1>1. Begin \in Syncs /\ IdleSync \in Syncs
  BY DEF Begin, IdleSync, Syncs, Paths
<1> QED BY <1>1 DEF PathTypes, PassEnds

LEMMA RequestedTypes == ASSUME PathTypes, sync' = Request, UNCHANGED path PROVE PathTypes'
<1>1. Begin \in Syncs
  BY DEF Begin, IdleSync, Syncs, Paths
<1>2. [sync EXCEPT !.rerun = TRUE] \in Syncs
  BY DEF PathTypes, Syncs
<1> QED BY <1>1, <1>2 DEF PathTypes, Request

LEMMA OperatorTypes ==
    ASSUME VersionsInv, CameraTypes, NEW o \in Operators, Operator(o)
    PROVE  CameraTypes'
<1>1. /\ RequestTypes /\ camera \in CameraRows /\ EditsTyped /\ OfflineTypes /\ PathTypes
  BY DEF VersionsInv, CameraTypes
<1>2. UNCHANGED offlineVars
  BY DEF Operator, CreateCamera, SaveReads, Rollback, RollbackSaves, SaveCommits, EditReads,
         EditWrites, RemoveReads, RemoveDeletes, AskForSync
<1>3. OfflineTypes'
  BY <1>1, <1>2 DEF OfflineTypes, offlineVars
<1>4. ASSUME NEW next, Goes(o, next), next.at # "edit", UNCHANGED syncVars,
             camera' \in CameraRows
      PROVE  CameraTypes'
  BY <1>1, <1>3, <1>4, EditsGoOn DEF CameraTypes, PathTypes, syncVars
<1>5. ASSUME NEW limits \in Limits, CreateCamera(o, limits) PROVE CameraTypes'
  <2>1. NewCamera \in CameraRows
    BY DEF NewCamera, CameraRows
  <2> QED BY <1>4, <1>5, <2>1 DEF CreateCamera, AskSync
<1>6. ASSUME NEW limits \in Limits, SaveReads(o, limits) PROVE CameraTypes'
  BY <1>1, <1>4, <1>6 DEF SaveReads
<1>7. ASSUME NEW v, Rollback(o, v) PROVE CameraTypes'
  BY <1>1, <1>4, <1>7 DEF Rollback
<1>8. CASE RollbackSaves(o)
  <2>1. PICK next : Goes(o, next) /\ next.at # "edit"
    BY <1>8 DEF RollbackSaves, Refused, NoRequest
  <2> QED BY <1>1, <1>4, <1>8, <2>1 DEF RollbackSaves
<1>9. CASE SaveCommits(o) \/ RemoveReads(o)
  BY <1>1, <1>4, <1>9 DEF SaveCommits, RemoveReads, NoRequest
<1>10. ASSUME NEW edit \in Edits, EditReads(o, edit) PROVE CameraTypes'
  <2> DEFINE changed == {f \in DOMAIN edit : edit[f] # camera[f]}
             next == [at |-> "edit", data |-> Restrict(edit, changed)]
  <2>1. Goes(o, next) /\ UNCHANGED <<camera, syncVars>>
    BY <1>10 DEF EditReads
  <2>2. \A f \in DOMAIN next.data : next.data[f] \in Values(f)
    BY EditsAssumption DEF Restrict
  <2> HIDE DEF next
  <2>3. EditsTyped'
    BY <1>1, <2>1, <2>2, EditsGoOn
  <2> QED BY <1>1, <1>3, <2>1, <2>3 DEF CameraTypes, PathTypes, syncVars
<1>11. CASE EditWrites(o)
  <2>1. /\ request[o].at = "edit" /\ UNCHANGED syncVars
        /\ DOMAIN request[o].data \subseteq Fields
        /\ \A f \in DOMAIN request[o].data : request[o].data[f] \in Values(f)
    BY <1>1, <1>11 DEF EditWrites, RequestTypes, EditsTyped
  <2>2. camera' \in CameraRows
    BY <1>1, <1>11, <2>1, EditedRow DEF EditWrites
  <2>3. PICK next \in {AskSync, Refused} : Goes(o, next)
    BY <1>11 DEF EditWrites
  <2> QED BY <1>4, <2>1, <2>2, <2>3 DEF AskSync, Refused, NoRequest
<1>12. CASE RemoveDeletes(o)
  <2>1. PICK next \in {AskSync, Refused} : Goes(o, next)
    BY <1>12 DEF RemoveDeletes
  <2>2. [camera EXCEPT !.there = FALSE] \in CameraRows
    BY <1>1 DEF CameraRows
  <2>3. camera' \in CameraRows
    BY <1>1, <1>12, <2>2 DEF RemoveDeletes
  <2> QED BY <1>4, <1>12, <2>1, <2>3 DEF RemoveDeletes, AskSync, Refused, NoRequest
<1>13. CASE AskForSync(o)
  <2>1. PathTypes'
    BY <1>1, <1>13, RequestedTypes DEF AskForSync
  <2>2. EditsTyped'
    BY <1>1, <1>13, EditsGoOn DEF AskForSync, NoRequest
  <2> QED BY <1>1, <1>3, <1>13, <2>1, <2>2 DEF CameraTypes, AskForSync
<1> QED BY <1>5, <1>6, <1>7, <1>8, <1>9, <1>10, <1>11, <1>12, <1>13 DEF Operator

LEMMA SyncTypesStep ==
    ASSUME PathTypes, camera \in CameraRows, NEW fails \in BOOLEAN, Sync(fails)
    PROVE  PathTypes'
<1>1. ASSUME SyncLists(fails) PROVE PathTypes'
  <2>1. [sync EXCEPT !.at = "read", !.have = path] \in Syncs
    BY DEF PathTypes, Syncs
  <2> QED BY <1>1, <2>1, PassEndTypes DEF SyncLists, PathTypes
<1>2. ASSUME SyncReads(fails) PROVE PathTypes'
  <2>1. [sync EXCEPT !.at = "apply", !.want = WantedPath(camera)] \in Syncs
    BY WantedTypes DEF PathTypes, Syncs
  <2> QED BY <1>2, <2>1, PassEndTypes DEF SyncReads, PathTypes
<1>3. ASSUME SyncApplies(fails) PROVE PathTypes'
  <2>1. path \in Paths /\ sync.want \in Paths
    BY DEF PathTypes, Syncs
  <2>2. path' \in Paths
    BY <1>3, <2>1 DEF SyncApplies, Called
  <2> QED BY <1>3, <2>2, PassEndTypes DEF SyncApplies
<1> QED BY <1>1, <1>2, <1>3 DEF Sync

LEMMA TickTypesStep ==
    ASSUME OfflineTypes, camera \in CameraRows, NEW fails \in BOOLEAN, OfflineTick(fails)
    PROVE  OfflineTypes' /\ camera' \in CameraRows
<1>1. IdleJob \in TickStates
  BY DEF IdleJob, TickStates
<1>2. ASSUME JobReads PROVE OfflineTypes' /\ camera' \in CameraRows
  <2>1. camera.enabled \in BOOLEAN /\ camera.seen \in BOOLEAN
    BY DEF CameraRows
  <2>2. job' = [at |-> "keys", enabled |-> camera.enabled, seen |-> camera.seen,
                open |-> offline = "open", present |-> FALSE]
    BY <1>2 DEF JobReads
  <2>3. job' \in TickStates
    BY <2>1, <2>2 DEF TickStates
  <2> QED BY <1>2, <2>3 DEF JobReads, OfflineTypes, apiVars
<1>3. ASSUME JobReadsKeys(fails) PROVE OfflineTypes' /\ camera' \in CameraRows
  <2>1. ASSUME NEW j \in TickStates, NEW b \in BOOLEAN
        PROVE  [j EXCEPT !.at = "seen", !.present = b] \in TickStates
    BY <2>1 DEF TickStates
  <2>2. [job EXCEPT !.at = "seen", !.present = key] \in TickStates
    BY <2>1 DEF OfflineTypes
  <2>3. job' \in TickStates
    BY <1>1, <1>3, <2>2 DEF JobReadsKeys
  <2> QED BY <1>3, <2>3 DEF JobReadsKeys, OfflineTypes, apiVars
<1>4. ASSUME JobMarksSeen(fails) PROVE OfflineTypes' /\ camera' \in CameraRows
  <2>1. ASSUME NEW c \in CameraRows, NEW b \in BOOLEAN
        PROVE  [c EXCEPT !.seen = b] \in CameraRows
    BY <2>1 DEF CameraRows
  <2>2. camera.seen \/ (camera.there /\ job.present) \in BOOLEAN
    BY Zenon
  <2>3. camera' \in CameraRows
    BY <1>4, <2>1, <2>2 DEF JobMarksSeen
  <2>4. job' \in TickStates
    <3>1. [job EXCEPT !.at = "write"] \in TickStates
      BY DEF OfflineTypes, TickStates
    <3> QED BY <1>1, <1>4, <3>1 DEF JobMarksSeen
  <2> QED BY <1>4, <2>3, <2>4 DEF JobMarksSeen, OfflineTypes
<1>5. ASSUME JobWrites(fails) PROVE OfflineTypes' /\ camera' \in CameraRows
  BY <1>1, <1>5 DEF JobWrites, OfflineTypes, apiVars
<1> QED BY <1>2, <1>3, <1>4, <1>5 DEF OfflineTick

LEMMA CameraTypesStep ==
    ASSUME VersionsInv, CameraTypes, [CamerasNext]_camerasVars
    PROVE  CameraTypes'
<1>1. camera \in CameraRows /\ EditsTyped /\ OfflineTypes /\ PathTypes
  BY DEF CameraTypes
<1>2. CASE Requests
  BY <1>2, OperatorTypes DEF Requests
<1>3. CASE PathSync
  <2>1. UNCHANGED <<apiVars, offlineVars>>
    BY <1>3 DEF PathSync, Sync, SyncLists, SyncReads, SyncApplies, Reconcile, MediamtxRestarts
  <2>2. PathTypes'
    <3>1. CASE Reconcile
      BY <1>1, <3>1, RequestedTypes DEF Reconcile
    <3>2. CASE MediamtxRestarts
      BY <1>1, <3>2 DEF MediamtxRestarts, PathTypes, Paths
    <3> QED BY <1>1, <1>3, <3>1, <3>2, SyncTypesStep DEF PathSync
  <2> QED BY <1>1, <2>1, <2>2 DEF CameraTypes, EditsTyped, OfflineTypes, apiVars, offlineVars
<1>4. CASE OfflineJob
  <2>1. UNCHANGED <<request, syncVars>>
    BY <1>4 DEF OfflineJob, OfflineTick, KeyChanges, JobReads, JobReadsKeys, JobMarksSeen,
                JobWrites, apiVars
  <2>2. OfflineTypes' /\ camera' \in CameraRows
    <3>1. CASE KeyChanges
      BY <1>1, <3>1 DEF KeyChanges, OfflineTypes, apiVars
    <3> QED BY <1>1, <1>4, <3>1, TickTypesStep DEF OfflineJob
  <2> QED BY <1>1, <2>1, <2>2 DEF CameraTypes, EditsTyped, PathTypes, syncVars
<1>5. CASE ApiRestarts
  <2>1. /\ \A o \in Operators : request'[o] = NoRequest
        /\ job' = IdleJob /\ sync' = Begin /\ UNCHANGED <<camera, key, offline, path>>
    BY <1>5 DEF ApiRestarts
  <2>2. IdleJob \in TickStates /\ Begin \in Syncs
    BY DEF IdleJob, TickStates, Begin, IdleSync, Syncs, Paths
  <2> QED BY <1>1, <2>1, <2>2 DEF CameraTypes, EditsTyped, OfflineTypes, PathTypes, NoRequest
<1>6. CASE UNCHANGED camerasVars
  BY <1>1, <1>6 DEF camerasVars, apiVars, offlineVars, syncVars, CameraTypes, EditsTyped,
                    OfflineTypes, PathTypes
<1> QED BY <1>2, <1>3, <1>4, <1>5, <1>6 DEF CamerasNext

LEMMA CameraTypesFollow == VersionsInv /\ CameraTypes => CamerasTypeOK
<1> SUFFICES ASSUME VersionsInv, CameraTypes PROVE CamerasTypeOK
  OBVIOUS
<1>1. /\ camera \in [there : BOOLEAN, seen : BOOLEAN, enabled : BOOLEAN,
                     sourceType : Values("sourceType"), url : Values("url")]
      /\ path \in Values("url") \cup {NoPath, "publisher"}
  BY FieldValues DEF CameraTypes, CameraRows, PathTypes, Paths
<1> QED BY <1>1 DEF VersionsInv, RowTypes, Version, CameraTypes, OfflineTypes, CamerasTypeOK

\* The row, its versions and its path have their types, whatever is edited.
THEOREM CameraTypesAreKept == CamerasSpec => []CamerasTypeOK
<1>1. VersionsInv /\ [CamerasNext]_camerasVars => VersionsInv'
  BY VersionsStep
<1>2. VersionsInv /\ CameraTypes /\ [CamerasNext]_camerasVars => CameraTypes'
  BY CameraTypesStep
<1> QED BY VersionsStart, CameraTypesStart, CameraTypesFollow, <1>1, <1>2, PTL DEF CamerasSpec

=============================================================================
