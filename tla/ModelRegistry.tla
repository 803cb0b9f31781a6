--------------------------- MODULE ModelRegistry ----------------------------
(***************************************************************************)
(* The registry of AI models: rows, files, the queue of jobs the engine    *)
(* takes, the reports it sends back, and one camera whose settings name a  *)
(* model.  A flow (an operator's request, the rescan, a conversion report) *)
(* is cut where it awaits.  A file is its content: equal contents have     *)
(* equal hashes.  Ids are UUIDs: none is used twice.                       *)
(***************************************************************************)
EXTENDS Naturals, Sequences, FiniteSets

CONSTANTS
    People,          \* operators with a request in flight, one each
    ModelIds,
    TopLevel,        \* ids of builtin files, which a camera may name by path
    Contents,        \* of the files people bring
    Good,            \* the contents the engine can run
    Converted,       \* what an export yields
    MaxModelCalls,   \* requests and rescans started
    MaxModelTrouble  \* failed calls, crashes, jobs that fail by chance

ASSUME ModelAssumption ==
    /\ "no_file" \notin Contents \cup Good \cup {Converted}
    /\ "rescan" \notin People /\ "report" \notin People
    /\ TopLevel \subseteq ModelIds

VARIABLES
    model,       \* id -> its row: status and hash
    file,        \* id -> the file at its path
    inbox,       \* contents put in the inbox folder
    flow,        \* flow -> where it is
    jobs,        \* the Redis list, oldest first
    worker,      \* the engine's job
    uses,        \* the model the camera's active version names
    saves,       \* how many config versions it has
    modelCalls,
    modelTrouble

engineVars == <<jobs, worker>>
useVars == <<uses, saves>>
modelVars == <<model, file, inbox, flow, engineVars, useVars, modelCalls, modelTrouble>>

NoFile == "no_file"
NoModel == "no_model"
Flows == People \cup {"rescan", "report"}
Statuses == {"UPLOADED", "VALIDATING", "READY", "FAILED", "CONVERTING"}
Row(status, hash) == [status |-> status, hash |-> hash]
Unused == Row("unused", NoFile)
Removed == Row("removed", NoFile)
Rows == {m \in ModelIds : model[m].status \in Statuses}
HashKnown(c) == \E m \in Rows : model[m].hash = c

NoFlow == [at |-> "idle"]
Resting == [at |-> "idle"]

ModelInit ==
    /\ model = [m \in ModelIds |-> Unused]
    /\ file = [m \in ModelIds |-> IF m \in TopLevel THEN "weights" ELSE NoFile]
    /\ inbox = Contents
    /\ flow = [f \in Flows |-> NoFlow]
    /\ jobs = <<>>
    /\ worker = Resting
    /\ uses = NoModel
    /\ saves = 0
    /\ modelCalls = 0
    /\ modelTrouble = 0

Trouble(n) ==
    /\ modelTrouble + n <= MaxModelTrouble
    /\ modelTrouble' = modelTrouble + n

Call(f) ==
    /\ flow[f].at = "idle" /\ modelCalls < MaxModelCalls
    /\ modelCalls' = modelCalls + 1

Flow(f, next) == flow' = [flow EXCEPT ![f] = next]
SetRow(m, row) == model' = [model EXCEPT ![m] = row]
SetFile(m, content) == file' = [file EXCEPT ![m] = content]

\* startValidation, from the status the caller read.
Mark(m, from, hash, revert) ==
    [at |-> "mark", id |-> m, from |-> from, hash |-> hash, revert |-> revert]

-----------------------------------------------------------------------------
(* How a file becomes a row *)

\* An upload is streamed to a file of its own and hashed; one that is not ONNX,
\* is empty or too large, or is cut off leaves nothing.
StoreUpload(p, c) ==
    /\ Call(p) /\ Flow(p, [at |-> "stored", hash |-> c])
    /\ UNCHANGED <<model, file, inbox, engineVars, useVars, modelTrouble>>

\* It is moved to its path, unless a row has its content: then it goes.
Upload(p, m) ==
    LET c == flow[p].hash
        known == HashKnown(c)
    IN  /\ flow[p].at = "stored"
        /\ model[m] = Unused /\ file[m] = NoFile
        /\ Flow(p, IF known THEN NoFlow ELSE [at |-> "create", id |-> m, hash |-> c])
        /\ file' = IF known THEN file ELSE [file EXCEPT ![m] = c]
        /\ UNCHANGED <<model, inbox, engineVars, useVars, modelCalls, modelTrouble>>

\* So is a file of the inbox; only one rescan runs at a time.
AdoptInbox(m, c) ==
    /\ c \in inbox /\ model[m] = Unused /\ file[m] = NoFile /\ ~HashKnown(c)
    /\ Call("rescan") /\ Flow("rescan", [at |-> "create", id |-> m, hash |-> c])
    /\ SetFile(m, c) /\ inbox' = inbox \ {c}
    /\ UNCHANGED <<model, engineVars, useVars, modelTrouble>>

\* A file beside the folders stays where it is.
AdoptBuiltin(m) ==
    /\ m \in TopLevel /\ model[m] = Unused /\ file[m] # NoFile /\ ~HashKnown(file[m])
    /\ Call("rescan") /\ Flow("rescan", [at |-> "create", id |-> m, hash |-> file[m]])
    /\ UNCHANGED <<model, file, inbox, engineVars, useVars, modelTrouble>>

\* The hash is unique; an insert whose answer is lost leaves its row.
Insert(f, fails, stored) ==
    LET m == flow[f].id
        c == flow[f].hash
        refused == HashKnown(c) \/ fails
    IN  /\ flow[f].at = "create"
        /\ stored => fails /\ ~HashKnown(c)
        /\ Trouble(IF fails THEN 1 ELSE 0)
        /\ model' = IF refused /\ ~stored THEN model
                    ELSE [model EXCEPT ![m] = Row("UPLOADED", c)]
        /\ Flow(f, IF refused THEN NoFlow ELSE Mark(m, "UPLOADED", c, "UPLOADED"))
        /\ file' = IF refused /\ m \notin TopLevel THEN [file EXCEPT ![m] = NoFile] ELSE file
        /\ UNCHANGED <<engineVars, useVars, modelCalls>>

\* A failed insert removes the file of an upload, ...
CreateRow(p, fails, stored) ==
    Insert(p, fails, stored) /\ UNCHANGED inbox

\* ... puts one of the inbox back, and leaves one beside the folders.
CreateAdopted(fails, stored) ==
    /\ Insert("rescan", fails, stored)
    /\ inbox' = IF flow'["rescan"] = NoFlow /\ flow["rescan"].id \notin TopLevel
                THEN inbox \cup {flow["rescan"].hash} ELSE inbox

-----------------------------------------------------------------------------
(* Validation and conversion *)

\* A model that is being converted has no complete file yet.
Validate(p, m) ==
    /\ m \in Rows /\ model[m].status # "CONVERTING"
    /\ Call(p)
    /\ Flow(p, Mark(m, model[m].status, model[m].hash, model[m].status))
    /\ UNCHANGED <<model, file, inbox, engineVars, useVars, modelTrouble>>

\* VALIDATING only from the status that was read, and before the job is
\* queued.  Only a conversion writes the hash: one another row has by now fails
\* the row.
MarkValidating(f) ==
    LET m == flow[f].id
        twin == /\ flow[f].from = "CONVERTING"
                /\ \E n \in Rows \ {m} : model[n].hash = flow[f].hash
        guarded == model[m].status = flow[f].from
    IN  /\ flow[f].at = "mark"
        /\ model' = IF ~guarded THEN model
                    ELSE IF twin THEN [model EXCEPT ![m].status = "FAILED"]
                    ELSE [model EXCEPT ![m] = Row("VALIDATING", flow[f].hash)]
        /\ Flow(f, IF guarded /\ ~twin THEN [flow[f] EXCEPT !.at = "push"] ELSE NoFlow)
        /\ UNCHANGED <<file, inbox, engineVars, useVars, modelCalls, modelTrouble>>

\* A push that fails reverts the row; it may have reached the list.
PushValidation(f, fails, reached) ==
    LET m == flow[f].id
    IN  /\ flow[f].at = "push"
        /\ Trouble(IF fails THEN 1 ELSE 0)
        /\ fails \/ reached
        /\ jobs' = IF reached THEN Append(jobs, [type |-> "validate", id |-> m]) ELSE jobs
        /\ model' = IF fails /\ model[m].status = "VALIDATING"
                    THEN [model EXCEPT ![m].status = flow[f].revert] ELSE model
        /\ Flow(f, NoFlow)
        /\ UNCHANGED <<file, inbox, worker, useVars, modelCalls>>

\* Only a READY PT model; the target row is there before the job.
Convert(p, m, target) ==
    /\ m \in TopLevel /\ model[m].status = "READY"
    /\ model[target] = Unused /\ file[target] = NoFile
    /\ Call(p) /\ Flow(p, [at |-> "queue", from |-> m, id |-> target])
    /\ SetRow(target, Row("CONVERTING", NoFile))
    /\ UNCHANGED <<file, inbox, engineVars, useVars, modelTrouble>>

PushConversion(p, fails, reached) ==
    LET target == flow[p].id
    IN  /\ flow[p].at = "queue"
        /\ Trouble(IF fails THEN 1 ELSE 0)
        /\ fails \/ reached
        /\ jobs' = IF ~reached THEN jobs
                   ELSE Append(jobs, [type |-> "convert", id |-> target, from |-> flow[p].from])
        /\ model' = IF fails THEN [model EXCEPT ![target] = Removed] ELSE model
        /\ Flow(p, NoFlow)
        /\ UNCHANGED <<file, inbox, worker, useVars, modelCalls>>

-----------------------------------------------------------------------------
(* The engine *)

\* BRPOP: a job that is taken is gone from the list.
TakeJob ==
    /\ worker.at = "idle" /\ jobs # <<>>
    /\ worker' = [at |-> "work", job |-> Head(jobs)]
    /\ jobs' = Tail(jobs)
    /\ UNCHANGED <<model, file, inbox, flow, useVars, modelCalls, modelTrouble>>

\* Loads the file and runs it; may also fail for want of memory.
ValidateModel(fails) ==
    /\ worker.at = "work" /\ worker.job.type = "validate"
    /\ Trouble(IF fails THEN 1 ELSE 0)
    /\ worker' = [at |-> "answer", job |-> worker.job,
                  ok |-> ~fails /\ file[worker.job.id] \in Good]
    /\ UNCHANGED <<model, file, inbox, flow, jobs, useVars, modelCalls>>

\* The export is moved to its path in one step.
ConvertToOnnx(fails) ==
    LET ok == ~fails /\ file[worker.job.from] # NoFile
    IN  /\ worker.at = "work" /\ worker.job.type = "convert"
        /\ Trouble(IF fails THEN 1 ELSE 0)
        /\ file' = IF ok THEN [file EXCEPT ![worker.job.id] = Converted] ELSE file
        /\ worker' = [at |-> "answer", job |-> worker.job, ok |-> ok]
        /\ UNCHANGED <<model, inbox, flow, jobs, useVars, modelCalls>>

\* A report that any row takes.
AppliedToAny(m, from, to) ==
    IF m \in Rows THEN [model EXCEPT ![m].status = to] ELSE model

\* A report is taken by a row in the status it is about, else refused.
Applied(m, from, to) ==
    IF m \in Rows /\ model[m].status = from
    THEN [model EXCEPT ![m].status = to] ELSE model

ReportValidation ==
    /\ worker.at = "answer" /\ worker.job.type = "validate"
    /\ model' = Applied(worker.job.id, "VALIDATING",
                        IF worker.ok THEN "READY" ELSE "FAILED")
    /\ worker' = Resting
    /\ UNCHANGED <<file, inbox, flow, jobs, useVars, modelCalls, modelTrouble>>

\* The target's file is hashed; a twin fails the row, else it is validated.
ReportConversion ==
    LET m == worker.job.id
        waits == m \in Rows /\ model[m].status = "CONVERTING"
        fine == worker.ok /\ file[m] # NoFile /\ ~HashKnown(file[m])
    IN  /\ worker.at = "answer" /\ worker.job.type = "convert"
        /\ flow["report"].at = "idle"
        /\ model' = IF fine THEN model ELSE Applied(m, "CONVERTING", "FAILED")
        /\ Flow("report", IF waits /\ fine THEN Mark(m, "CONVERTING", file[m], "FAILED")
                          ELSE NoFlow)
        /\ worker' = Resting
        /\ UNCHANGED <<file, inbox, jobs, useVars, modelCalls, modelTrouble>>

\* The engine stops, or its report does not get through: the job is lost.
LoseJob ==
    /\ worker.at # "idle"
    /\ Trouble(1)
    /\ worker' = Resting
    /\ UNCHANGED <<model, file, inbox, flow, jobs, useVars, modelCalls>>

-----------------------------------------------------------------------------
(* The camera that uses a model, and the removal of a model *)

\* A new model_id must be READY; the one a camera has and a builtin's file
\* name are not looked at.
AssertSelectable(m) ==
    \/ m = uses
    \/ m \in TopLevel
    \/ m \in Rows /\ model[m].status = "READY"

SaveConfig(p, m) ==
    /\ AssertSelectable(m)
    /\ Call(p) /\ Flow(p, [at |-> "save", id |-> m])
    /\ UNCHANGED <<model, file, inbox, engineVars, useVars, modelTrouble>>

SaveConfigCommits(p) ==
    /\ flow[p].at = "save"
    /\ uses' = flow[p].id /\ saves' = saves + 1
    /\ Flow(p, NoFlow)
    /\ UNCHANGED <<model, file, inbox, engineVars, modelCalls, modelTrouble>>

\* Only model_id is compared: a camera that names the builtin's file is missed.
UsingById(m) == uses = m /\ m \notin TopLevel

\* By id, or by the file name of a builtin.
CamerasUsing(m) == uses = m

RemoveModel(p, m) ==
    /\ m \in Rows /\ ~CamerasUsing(m)
    /\ Call(p) /\ Flow(p, [at |-> "delete", id |-> m, saves |-> saves])
    /\ UNCHANGED <<model, file, inbox, engineVars, useVars, modelTrouble>>

\* The file goes first, and the row's deletion fails.
DeleteFileFirst(p) ==
    /\ flow[p].at = "delete"
    /\ SetFile(flow[p].id, NoFile)
    /\ Flow(p, NoFlow)
    /\ UNCHANGED <<model, inbox, engineVars, useVars, modelCalls, modelTrouble>>

DeleteRow(p) ==
    LET m == flow[p].id
    IN  /\ flow[p].at = "delete"
        /\ model' = IF m \in Rows THEN [model EXCEPT ![m] = Removed] ELSE model
        /\ Flow(p, IF m \in Rows THEN [at |-> "rm", id |-> m] ELSE NoFlow)
        /\ UNCHANGED <<file, inbox, engineVars, useVars, modelCalls, modelTrouble>>

DeleteFile(p) ==
    /\ flow[p].at = "rm"
    /\ SetFile(flow[p].id, NoFile)
    /\ Flow(p, NoFlow)
    /\ UNCHANGED <<model, inbox, engineVars, useVars, modelCalls, modelTrouble>>

\* Requests, the rescan and reports end where they are.
RestartRegistry ==
    /\ Trouble(1)
    /\ flow' = [f \in Flows |-> NoFlow]
    /\ UNCHANGED <<model, file, inbox, engineVars, useVars, modelCalls>>

-----------------------------------------------------------------------------

Person(p) ==
    \/ \E c \in Contents : StoreUpload(p, c)
    \/ \E m \in ModelIds \ TopLevel : Upload(p, m)
    \/ \E m \in ModelIds : Validate(p, m) \/ SaveConfig(p, m) \/ RemoveModel(p, m)
    \/ \E m \in TopLevel, target \in ModelIds \ TopLevel : Convert(p, m, target)
    \/ \E fails, stored \in BOOLEAN : CreateRow(p, fails, stored)
    \/ \E fails, reached \in BOOLEAN : PushConversion(p, fails, reached)
    \/ SaveConfigCommits(p) \/ DeleteRow(p) \/ DeleteFile(p)

Rescan ==
    \/ \E m \in ModelIds \ TopLevel, c \in Contents : AdoptInbox(m, c)
    \/ \E m \in TopLevel : AdoptBuiltin(m)
    \/ \E fails, stored \in BOOLEAN : CreateAdopted(fails, stored)

AnyFlow(f) ==
    \/ MarkValidating(f)
    \/ \E fails, reached \in BOOLEAN : PushValidation(f, fails, reached)

ModelJobs ==
    \/ TakeJob \/ ReportValidation \/ ReportConversion \/ LoseJob
    \/ \E fails \in BOOLEAN : ValidateModel(fails) \/ ConvertToOnnx(fails)

ModelNext ==
    \/ \E p \in People : Person(p)
    \/ Rescan
    \/ \E f \in Flows : AnyFlow(f)
    \/ ModelJobs
    \/ RestartRegistry

ModelSpec == ModelInit /\ [][ModelNext]_modelVars

-----------------------------------------------------------------------------
(* Properties *)

AllContents == Contents \cup {"weights", Converted}

ModelTypeOK ==
    /\ model \in [ModelIds -> [status : Statuses \cup {"unused", "removed"},
                               hash : AllContents \cup {NoFile}]]
    /\ file \in [ModelIds -> AllContents \cup {NoFile}]
    /\ inbox \subseteq Contents
    /\ uses \in ModelIds \cup {NoModel}

\* A READY model of the registry has its file, one the engine could run, with the
\* content of its hash.  Only a converted file that was refused, for a twin, and
\* validated again has no hash.
ReadyIsSound ==
    \A m \in Rows \ TopLevel :
        model[m].status = "READY" =>
            /\ file[m] \in Good
            /\ model[m].hash = file[m] \/ (model[m].hash = NoFile /\ file[m] = Converted)

\* A decision of the engine stands until the next validation: a late report of
\* an earlier job does not turn it over.
DecisionStands ==
    [][\A m \in ModelIds :
          model[m].status \in {"READY", "FAILED"} =>
              model'[m].status \in {model[m].status, "VALIDATING", "removed"}]_modelVars

\* A model the camera uses is only removed under it if the camera took it
\* after the removal had looked.
UsedModelStays ==
    [][\A m \in Rows, p \in People :
          /\ model'[m].status = "removed" /\ uses = m
          /\ flow[p].at = "delete" /\ flow[p].id = m
          /\ flow'[p].at = "rm"
          => saves > flow[p].saves]_modelVars

=============================================================================
