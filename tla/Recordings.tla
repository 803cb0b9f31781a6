----------------------------- MODULE Recordings ------------------------------
(***************************************************************************)
(* The clips of events: the Evidence row that asks for one, the pin job    *)
(* that copies it out of MediaMTX's continuous recording, the operator who *)
(* keeps one by hand, and the jobs that delete: retention and the space    *)
(* guard.                                                                  *)
(*                                                                         *)
(* Time is the age of an event.  A retry's back-off only delays it: the    *)
(* tick may take any rows that could be due.  The camera has a recording   *)
(* path throughout; its recorded stream and clipAfterSec may change.       *)
(***************************************************************************)
EXTENDS Naturals, FiniteSets

CONSTANTS
    Clips,           \* events, each with the clip around it
    MaxAttempts,     \* MAX_ATTEMPTS of the pin job
    MaxKeeps,        \* requests to keep or to see a clip
    MaxDiskTrouble   \* failures and crashes

ASSUME RecordingsAssumption == MaxAttempts \in Nat \ {0}

VARIABLES
    age,         \* event -> how long ago, see Ages
    stream,      \* the stream MediaMTX records now
    clipAfter,   \* the camera's clipAfterSec: the age at which such a clip is over
    footage,     \* event -> the stream its recording is of, while it is there
    snapshots,   \* events whose JPEG is on disk
    evidence,    \* event -> its Evidence row
    parts,       \* events with an .mp4.part file
    clip,        \* event -> its .mp4 file
    pin,         \* the pin job
    sweep,       \* the retention job
    view,        \* a request for a clip
    keeping,     \* events whose request to keep them is between its statements
    keeps,       \* requests so far
    diskTrouble

pinVars == <<parts, clip, pin>>
recordingsVars == <<age, stream, clipAfter, footage, snapshots, evidence, pinVars,
                    sweep, view, keeping, keeps, diskTrouble>>

\* 0: the clip is being recorded; 1: it is on disk, up to the end, or 2: up to the
\* end of a clip with the longer clipAfterSec; 3: older than an hour and than the
\* snapshots are kept; 4: older than the evidence is kept.
Ages == 0..4
ClipEnds == {1, 2}
RecordedStreams == {"MAIN", "SUB"}
NoFootage == "gone"
EvidenceRow(status) == [status |-> status, attempts |-> 0, filed |-> FALSE, runAt |-> 1]
QueuedRow == [EvidenceRow("QUEUED") EXCEPT !.runAt = clipAfter]
HasRow(e) == evidence[e].status \notin {"no_event", "none"}
NoView == [at |-> "none"]
IdlePin == [at |-> "idle"]
IdleSweep == [at |-> "idle", rows |-> {}, files |-> {}]

RecordingsInit ==
    /\ age = [e \in Clips |-> 0]
    /\ stream = "MAIN" /\ clipAfter = 1
    /\ footage = [e \in Clips |-> "MAIN"]
    /\ snapshots = Clips
    /\ evidence = [e \in Clips |-> EvidenceRow("no_event")]
    /\ parts = {}
    /\ clip = [e \in Clips |-> "none"]
    /\ pin = IdlePin
    /\ sweep = IdleSweep
    /\ view = NoView
    /\ keeping = {}
    /\ keeps = 0
    /\ diskTrouble = 0

Damage(fails) ==
    /\ fails => diskTrouble < MaxDiskTrouble
    /\ diskTrouble' = diskTrouble + (IF fails THEN 1 ELSE 0)

SetEvidence(e, row) == evidence' = [evidence EXCEPT ![e] = row]

-----------------------------------------------------------------------------
(* Events, footage and requests *)

Passes(e) ==
    /\ age[e] < 4
    /\ age' = [age EXCEPT ![e] = @ + 1]
    /\ UNCHANGED <<view, stream, clipAfter, footage, snapshots, evidence, pinVars,
                   sweep, keeping, keeps, diskTrouble>>

SwitchStream ==
    /\ stream = "MAIN"
    /\ stream' = "SUB"
    /\ UNCHANGED <<view, age, clipAfter, footage, snapshots, evidence, pinVars, sweep,
                   keeping, keeps, diskTrouble>>

\* Clips are made more than a minute longer.
LengthenClips ==
    /\ clipAfter = 1
    /\ clipAfter' = 2
    /\ UNCHANGED <<view, age, stream, footage, snapshots, evidence, pinVars, sweep,
                   keeping, keeps, diskTrouble>>

\* An important event gets its Evidence row with its Event row.
IngestEvent(e, important) ==
    /\ evidence[e].status = "no_event"
    /\ SetEvidence(e, IF important THEN QueuedRow ELSE EvidenceRow("none"))
    /\ UNCHANGED <<view, age, stream, clipAfter, footage, snapshots, pinVars, sweep,
                   keeping, keeps, diskTrouble>>

\* keep(): an insert that leaves an existing row alone ...
KeepInserts(e) ==
    /\ evidence[e].status # "no_event" /\ e \notin keeping
    /\ keeps < MaxKeeps
    /\ keeps' = keeps + 1
    /\ keeping' = keeping \cup {e}
    /\ SetEvidence(e, IF HasRow(e) THEN evidence[e] ELSE QueuedRow)
    /\ UNCHANGED <<view, age, stream, clipAfter, footage, snapshots, pinVars, sweep,
                   diskTrouble>>

\* ... and an update that queues one that failed again.
KeepRequeues(e) ==
    /\ e \in keeping
    /\ keeping' = keeping \ {e}
    /\ SetEvidence(e, IF evidence[e].status \in {"FAILED", "NO_RECORDING"}
                      THEN [evidence[e] EXCEPT !.status = "QUEUED", !.attempts = 0,
                                               !.runAt = clipAfter]
                      ELSE evidence[e])
    /\ UNCHANGED <<view, age, stream, clipAfter, footage, snapshots, pinVars, sweep,
                   keeps, diskTrouble>>

\* MediaMTX deletes what its own retention says, the guard what is older than
\* an hour, oldest first, while the disk is full.
FootageGoes(e) ==
    /\ footage[e] # NoFootage /\ age[e] >= 3
    /\ \A f \in Clips : footage[f] # NoFootage => age[f] <= age[e]
    /\ footage' = [footage EXCEPT ![e] = NoFootage]
    /\ UNCHANGED <<view, age, stream, clipAfter, snapshots, evidence, pinVars, sweep,
                   keeping, keeps, diskTrouble>>

-----------------------------------------------------------------------------
(* The pin job *)

\* runAt taken for now.
DueAtOnce(e) == evidence[e].status = "QUEUED"

\* runAt is the end of the clip as it was when the row was queued, by whoever did.
Due(e) == evidence[e].status = "QUEUED" /\ age[e] >= evidence[e].runAt

PinTick ==
    /\ pin.at = "idle"
    /\ \E due \in SUBSET {e \in Clips : Due(e)} \ {{}} :
          pin' = [at |-> "next", todo |-> due,
                  read |-> [e \in due |-> evidence[e].attempts]]
    /\ UNCHANGED <<view, age, stream, clipAfter, footage, snapshots, evidence, parts,
                   clip, sweep, keeping, keeps, diskTrouble>>

\* First the path the camera records to now, then the other one.
Found(e) == footage[e] = stream \/ footage[e] \in RecordedStreams \ {stream}

Goto(at, e, result) ==
    pin' = [at |-> at, todo |-> pin.todo, read |-> pin.read, id |-> e, result |-> result,
            whole |-> age[e] >= clipAfter]

\* The clip is cut out as the camera says now, up to what has been recorded.
\* Playback answers with it, with "not_recorded", or not at all.
PinOpens(e, fails) ==
    /\ pin.at = "next" /\ e \in pin.todo
    /\ Damage(fails)
    /\ IF fails THEN Goto("settle", e, "retry") /\ UNCHANGED parts
       ELSE IF Found(e) THEN Goto("store", e, "KEPT") /\ parts' = parts \cup {e}
       ELSE Goto("settle", e, "NO_RECORDING") /\ UNCHANGED parts
    /\ UNCHANGED <<view, age, stream, clipAfter, footage, snapshots, evidence, clip,
                   sweep, keeping, keeps>>

\* The whole stream is in the .part file, or it goes; then it is renamed, and its
\* size read.
PinStores(outcome) ==
    LET e == pin.id
    IN  /\ pin.at = "store"
        /\ Damage(outcome # "stored")
        /\ parts' = IF outcome = "not_renamed" THEN parts ELSE parts \ {e}
        /\ clip' = IF outcome \in {"broken", "not_renamed"} THEN clip
                   ELSE [clip EXCEPT ![e] = IF pin.whole THEN "whole" ELSE "cut"]
        /\ pin' = [pin EXCEPT !.at = "settle",
                              !.result = IF outcome = "stored" THEN @ ELSE "retry"]
        /\ UNCHANGED <<view, age, stream, clipAfter, footage, snapshots, evidence,
                       sweep, keeping, keeps>>

Settled(e, result) ==
    LET attempts == pin.read[e] + 1
        row == evidence[e]
    IN  CASE result = "KEPT"         -> [row EXCEPT !.status = "KEPT", !.filed = TRUE]
          [] result = "NO_RECORDING" -> [row EXCEPT !.status = "NO_RECORDING"]
          [] result = "retry" ->
               [row EXCEPT !.status = IF attempts >= MaxAttempts THEN "FAILED" ELSE @,
                           !.attempts = attempts]

\* A failed attempt that cannot be written leaves the row as it is.  The update
\* with a result is not awaited in the try block: its failure, before or after
\* it was committed, ends the whole pass.
PinSettles(outcome) ==
    LET e == pin.id
        rest == pin.todo \ {e}
    IN  /\ pin.at = "settle"
        /\ Damage(outcome # "written")
        /\ evidence' = IF outcome = "refused" THEN evidence
                       ELSE [evidence EXCEPT ![e] = Settled(e, pin.result)]
        /\ pin' = IF rest = {} \/ (outcome # "written" /\ pin.result # "retry") THEN IdlePin
                  ELSE [at |-> "next", todo |-> rest, read |-> pin.read]
        /\ UNCHANGED <<view, age, stream, clipAfter, footage, snapshots, parts, clip,
                       sweep, keeping, keeps>>

-----------------------------------------------------------------------------
(* Retention *)

\* The protected events of an old snapshot folder are read before its files go.
SnapshotsRead ==
    /\ sweep.at = "idle"
    /\ sweep' = [at |-> "snapshots",
                 rows |-> {e \in snapshots : age[e] >= 3 /\ ~HasRow(e)}, files |-> {}]
    /\ UNCHANGED <<view, age, stream, clipAfter, footage, snapshots, evidence, pinVars,
                   keeping, keeps, diskTrouble>>

SnapshotFolder ==
    /\ sweep.at = "snapshots"
    /\ snapshots' = snapshots \ sweep.rows
    /\ sweep' = [IdleSweep EXCEPT !.at = "clips"]
    /\ UNCHANGED <<view, age, stream, clipAfter, footage, evidence, pinVars, keeping,
                   keeps, diskTrouble>>

\* The rows past their retention, but not those a pin may be writing.
ClipsRead ==
    LET past == {e \in Clips : age[e] = 4 /\ HasRow(e) /\ evidence[e].status # "QUEUED"}
    IN  /\ sweep.at = "clips"
        /\ sweep' = [at |-> "unlink", rows |-> past,
                     files |-> {e \in past : evidence[e].filed}]
        /\ UNCHANGED <<view, age, stream, clipAfter, footage, snapshots, evidence,
                       pinVars, keeping, keeps, diskTrouble>>

\* The file of a row, if it had one; a file that cannot be deleted keeps it.
ClipUnlinked(e, fails) ==
    /\ sweep.at = "unlink" /\ e \in sweep.rows
    /\ Damage(fails)
    /\ fails => e \in sweep.files
    /\ clip' = IF e \in sweep.files /\ ~fails THEN [clip EXCEPT ![e] = "none"] ELSE clip
    /\ sweep' = [at |-> IF fails THEN "unlink" ELSE "delete", rows |-> sweep.rows \ {e},
                 files |-> sweep.files, id |-> e]
    /\ UNCHANGED <<view, age, stream, clipAfter, footage, snapshots, evidence, parts,
                   pin, keeping, keeps>>

\* ... and then the row, unless it was queued again meanwhile.  A delete that
\* fails ends the sweep.
RowDeleted(fails) ==
    LET e == sweep.id
    IN  /\ sweep.at = "delete"
        /\ Damage(fails)
        /\ SetEvidence(e, IF fails \/ evidence[e].status = "QUEUED" THEN evidence[e]
                          ELSE EvidenceRow("none"))
        /\ sweep' = IF fails THEN IdleSweep
                    ELSE [at |-> "unlink", rows |-> sweep.rows, files |-> sweep.files]
        /\ UNCHANGED <<view, age, stream, clipAfter, footage, snapshots, pinVars,
                       keeping, keeps>>

\* A .part file is stale after an hour, a download ends after two minutes.
PartFiles ==
    /\ sweep.at = "unlink" /\ sweep.rows = {}
    /\ parts' = {e \in parts : pin.at = "store" /\ pin.id = e}
    /\ sweep' = IdleSweep
    /\ UNCHANGED <<view, age, stream, clipAfter, footage, snapshots, evidence, clip,
                   pin, keeping, keeps, diskTrouble>>

\* The API stops; the jobs start over, the files stay.
JobsCrash ==
    /\ Damage(TRUE)
    /\ pin' = IdlePin /\ sweep' = IdleSweep /\ keeping' = {} /\ view' = NoView
    /\ UNCHANGED <<age, stream, clipAfter, footage, snapshots, evidence, parts, clip,
                   keeps>>

-----------------------------------------------------------------------------
(* A request for a clip *)

viewRest ==
    <<age, stream, clipAfter, footage, snapshots, evidence, pinVars, sweep, keeping>>

\* The event with its evidence and the camera's streams are read in one query.
ViewLooks(e) ==
    /\ view = NoView /\ evidence[e].status # "no_event"
    /\ keeps < MaxKeeps
    /\ keeps' = keeps + 1
    /\ view' = [at |-> "kept", id |-> e, first |-> stream,
                kept |-> evidence[e].status = "KEPT" /\ evidence[e].filed]
    /\ UNCHANGED <<viewRest, diskTrouble>>

\* A kept clip is served from its file; without one it is a clip as any ...
StatKept ==
    /\ view.at = "kept"
    /\ view' = [view EXCEPT !.at = IF view.kept /\ clip[view.id] # "none" THEN "send"
                                  ELSE "playback"]
    /\ UNCHANGED <<viewRest, keeps, diskTrouble>>

\* ... but one that is unlinked before it is opened is answered with a 404.
SendKept ==
    /\ view.at = "send"
    /\ view' = CASE clip[view.id] = "whole" -> NoView
                 [] clip[view.id] = "cut" -> [view EXCEPT !.at = "cut"]
                 [] clip[view.id] = "none" -> [view EXCEPT !.at = "unlinked"]
    /\ UNCHANGED <<viewRest, keeps, diskTrouble>>

\* Mutant: only the path recorded to now.
FetchFirst(e, path) ==
    IF footage[e] = path THEN NoView ELSE [view EXCEPT !.at = "not_found"]

\* Playback has the clip under this path, or says that it was not recorded and
\* the other path is tried, by name.
FetchClip(e, path) ==
    IF footage[e] = path THEN NoView
    ELSE [view EXCEPT !.at = IF @ = "playback" THEN "other_path" ELSE "not_found"]

\* No answer in time or any other one of playback is a 404 too.
OpenClip(fails) ==
    LET path == IF view.at = "playback" THEN view.first
                ELSE CHOOSE s \in RecordedStreams : s # view.first
    IN  /\ view.at \in {"playback", "other_path"}
        /\ Damage(fails)
        /\ view' = IF fails THEN [view EXCEPT !.at = "no_answer"]
                   ELSE FetchClip(view.id, path)
        /\ UNCHANGED <<viewRest, keeps>>

-----------------------------------------------------------------------------

PinJob ==
    \/ PinTick
    \/ \E fails \in BOOLEAN :
          \E e \in Clips : PinOpens(e, fails)
    \/ \E outcome \in {"stored", "broken", "not_renamed", "no_size"} : PinStores(outcome)
    \/ \E outcome \in {"written", "refused", "lost"} : PinSettles(outcome)

ViewClip ==
    \/ StatKept \/ SendKept
    \/ \E e \in Clips : ViewLooks(e)
    \/ \E fails \in BOOLEAN : OpenClip(fails)

Retention ==
    \/ SnapshotsRead \/ SnapshotFolder \/ ClipsRead \/ PartFiles
    \/ \E fails \in BOOLEAN : RowDeleted(fails) \/ \E e \in Clips : ClipUnlinked(e, fails)

RecordingsNext ==
    \/ \E e \in Clips :
          \/ Passes(e) \/ FootageGoes(e) \/ KeepInserts(e) \/ KeepRequeues(e)
          \/ \E important \in BOOLEAN : IngestEvent(e, important)
    \/ SwitchStream \/ LengthenClips
    \/ PinJob \/ Retention \/ ViewClip \/ JobsCrash

RecordingsSpec == RecordingsInit /\ [][RecordingsNext]_recordingsVars

-----------------------------------------------------------------------------
(* Properties *)

RecordingsTypeOK ==
    /\ age \in [Clips -> Ages] /\ stream \in RecordedStreams /\ clipAfter \in ClipEnds
    /\ footage \in [Clips -> RecordedStreams \cup {NoFootage}]
    /\ snapshots \subseteq Clips /\ parts \subseteq Clips /\ keeping \subseteq Clips
    /\ evidence \in [Clips -> [status : {"no_event", "none", "QUEUED", "KEPT", "FAILED",
                                         "NO_RECORDING"},
                               attempts : 0..MaxAttempts, filed : BOOLEAN,
                               runAt : ClipEnds]]
    /\ clip \in [Clips -> {"none", "cut", "whole"}]
    /\ view.at \in {"none", "kept", "send", "playback", "other_path", "cut",
                    "not_found", "no_answer", "unlinked"}

\* The camera's clips were made longer after the row was queued.
QueuedForLess(e) == evidence[e].runAt < clipAfter

\* What a row says of its clip is true.  KEPT within its retention means that the
\* file is there, and whole unless clips were made longer while the row waited
\* (pin.job.ts:93-111); NO_RECORDING that there was no footage on either path.
EvidenceIsTrue ==
    \A e \in Clips :
        /\ evidence[e].status = "KEPT" /\ age[e] < 4 =>
              clip[e] = "whole" \/ (clip[e] = "cut" /\ QueuedForLess(e))
        /\ evidence[e].status = "NO_RECORDING" => footage[e] = NoFootage

\* Who asks for a clip is told that it is not available for one of three reasons,
\* which the answer does not tell apart: playback gave no answer; it has no
\* footage of either stream, whichever way the camera was switched meanwhile; or
\* a kept file past its retention went just before it was sent.  And a kept clip
\* ends early only if its row does not know of the camera's longer clips, or is
\* past its retention (clips.service.ts:58-68, 99-130, playback.service.ts:43-138).
ViewersGetClips ==
    /\ view.at = "not_found" => footage[view.id] = NoFootage
    /\ view.at = "unlinked" => age[view.id] = 4
    /\ view.at = "cut" => age[view.id] = 4 \/ QueuedForLess(view.id)

=============================================================================
