--------------------------- MODULE DeliveryProofs ----------------------------
(***************************************************************************)
(* Proofs about the delivery of configs: the types, that a camera has no   *)
(* second worker that nobody told to stop, and that neither configs nor    *)
(* statuses arrive in another order than they were saved in.               *)
(***************************************************************************)
EXTENDS Delivery, TLAPS

Stops == {"none", "stop", "forget"}

\* A version is the first one or was saved, which is an event.
VersionsCounted == row.version <= 1 + events

\* While workers are being stopped, the map has none; and a successor is only
\* started from there.
NoneWhileStopping ==
    /\ sup = "stopping" => current = 0
    /\ restart # 0 => sup = "stopping"

TypeInv == TypeOK /\ VersionsCounted

IInv == TypeInv /\ NoneWhileStopping /\ OneWorker

-----------------------------------------------------------------------------
(* What the operators do to the workers *)

\* A worker at its start, and one that is over.
LEMMA StartedFields ==
    ASSUME NEW v \in {0} \cup Versions, NEW r \in {0} \cup Versions
    PROVE  /\ Started(v, r) \in Worker
           /\ Started(v, r).given = v /\ Started(v, r).next = v
           /\ Started(v, r).applied = 0 /\ Started(v, r).error = 0
           /\ Started(v, r).asked = FALSE /\ Started(v, r).life = "runs"
  BY DEF Started, Worker

LEMMA OverFields ==
    /\ Over \in Worker
    /\ Over.given = 0 /\ Over.next = 0 /\ Over.applied = 0 /\ Over.error = 0
    /\ Over.asked = TRUE /\ Over.life = "ended"
  BY DEF Over, Started, Worker

\* What a worker makes of a config it is given.
LEMMA GivenFields ==
    ASSUME NEW w \in Worker, NEW v \in Versions
    PROVE  /\ Given(w, v) \in Worker
           /\ Given(w, v).given = v /\ Given(w, v).next \in {w.next, v}
           /\ Given(w, v).applied = w.applied /\ Given(w, v).error \in {w.error, v}
           /\ Given(w, v).asked = w.asked /\ Given(w, v).life = w.life
<1>1. CASE v # w.given /\ kind[v] # "invalid"
  <2>1. Given(w, v) = [w EXCEPT !.given = v, !.next = v, !.failed = FALSE]
    BY <1>1 DEF Given
  <2> QED  BY <2>1 DEF Worker
<1>2. CASE v # w.given /\ kind[v] = "invalid"
  <2>1. Given(w, v) = [w EXCEPT !.given = v, !.failed = FALSE, !.error = v,
                                !.rejected = IF v > w.rejected THEN v ELSE w.rejected]
    BY <1>2 DEF Given, Rejects, Worker
  <2> QED  BY <2>1 DEF Worker
<1>3. CASE v = w.given /\ w.failed
  <2>1. Given(w, v) = [w EXCEPT !.next = v, !.failed = FALSE]
    BY <1>3 DEF Given
  <2> QED  BY <1>3, <2>1 DEF Worker
<1>4. CASE v = w.given /\ ~w.failed
  <2>1. Given(w, v) = w
    BY <1>4 DEF Given
  <2> QED  BY <1>4, <2>1 DEF Worker
<1> QED  BY <1>1, <1>2, <1>3, <1>4

\* A worker that starts keeps the types.
LEMMA StartTypes ==
    ASSUME TypeOK,
           NEW i, NEW v \in {0} \cup Versions, NEW r \in {0} \cup Versions,
           Start(i, v, r)
    PROVE  /\ worker' \in [Workers -> Worker]
           /\ current' \in {0} \cup Workers /\ made' \in {0} \cup Workers
           /\ fresh' \in BOOLEAN
<1>1. ASSUME NEW j \in Workers
      PROVE  [Over EXCEPT !.asked = worker[j].asked, !.life = worker[j].life] \in Worker
  <2>1. worker[j] \in Worker
    BY DEF TypeOK
  <2> QED  BY <2>1, OverFields DEF Worker
<1> QED  BY <1>1, StartedFields DEF Start

\* A worker that starts while the map is empty is the only one.
LEMMA StartIsAlone ==
    ASSUME TypeOK, OneWorker, current = 0,
           NEW i, NEW v \in {0} \cup Versions, NEW r \in {0} \cup Versions,
           Start(i, v, r)
    PROVE  OneWorker'
<1> SUFFICES ASSUME NEW j \in Workers,
                    worker'[j].life \in {"runs", "hangs"}, ~worker'[j].asked,
                    j # i
             PROVE  FALSE
  BY DEF OneWorker, Start
<1>1. worker'[j] = [Over EXCEPT !.asked = worker[j].asked, !.life = worker[j].life]
  BY DEF Start
<1>2. worker'[j].asked = worker[j].asked /\ worker'[j].life = worker[j].life
  BY <1>1, OverFields DEF Worker
<1>3. j = current
  BY <1>2 DEF OneWorker
<1>4. 0 \notin Workers
  BY DeliveryAssumption DEF Workers
<1> QED  BY <1>3, <1>4

\* A worker that is stopped leaves the map, and is told.
LEMMA StopTells ==
    ASSUME TypeOK, OneWorker, current # 0, StartStop(current)
    PROVE  /\ worker' \in [Workers -> Worker] /\ stops' \in [Workers -> Stops]
           /\ current' = 0 /\ fresh' = FALSE
           /\ OneWorker'
<1>1. current \in Workers /\ worker[current] \in Worker
  BY DEF TypeOK
<1>2. /\ worker'[current] = [worker[current] EXCEPT !.asked = TRUE, !.next = 0]
      /\ \A j \in Workers \ {current} : worker'[j] = worker[j]
      /\ worker' = [j \in Workers |-> worker'[j]]
  BY <1>1 DEF TypeOK, StartStop
<1>3. worker'[current] \in Worker /\ worker'[current].asked
  BY <1>1, <1>2 DEF Worker
<1>4. worker' \in [Workers -> Worker] /\ stops' \in [Workers -> Stops]
  BY <1>1, <1>2, <1>3 DEF TypeOK, StartStop, Stops
<1>5. ASSUME NEW j \in Workers,
             worker'[j].life \in {"runs", "hangs"}, ~worker'[j].asked
      PROVE  FALSE
  BY <1>2, <1>3, <1>5 DEF OneWorker
<1> QED  BY <1>4, <1>5 DEF OneWorker, StartStop

\* What a restart begins with is a version.
LEMMA RestartTypes ==
    ASSUME NEW w \in Worker
    PROVE  RestartConfig(w) \in {0} \cup Versions
  BY DEF RestartConfig, Worker

-----------------------------------------------------------------------------
(* The types *)

LEMMA InitTypes == Init => TypeInv
<1> SUFFICES ASSUME Init PROVE TypeInv
  OBVIOUS
<1>1. 1 \in Versions
  BY DeliveryAssumption DEF Versions
<1>2. row \in [enabled : BOOLEAN, version : Versions] /\ row.version <= 1 + events
  BY <1>1 DEF Init
<1>3. worker \in [Workers -> Worker]
  <2>1. [Started(0, 0) EXCEPT !.life = "none"] \in Worker
    BY DEF Started, Worker
  <2> QED  BY <2>1 DEF Init
<1>4. stops \in [Workers -> Stops]
  BY DEF Init, Stops
<1>9. kind \in [Versions -> Kinds]
  <2>1. KindsOf[1] \subseteq Kinds
    BY <1>1, DeliveryAssumption
  <2> QED  BY <2>1 DEF Init, Kinds
<1>5. pub \in Status /\ key \in Status
  BY DEF Init, NoKey, Status
<1>6. events \in 0 .. MaxEvents
  BY DeliveryAssumption DEF Init
<1>7. due \in BOOLEAN /\ stream \in BOOLEAN /\ fresh \in BOOLEAN
  BY Zenon DEF Init
<1>8. sup = "idle" /\ read = 0 /\ current = 0 /\ made = 0 /\ restart = 0
  BY DEF Init, Absent
<1> QED  BY <1>2, <1>3, <1>4, <1>5, <1>6, <1>7, <1>8, <1>9 DEF TypeInv, TypeOK, VersionsCounted, Stops

\* What an event allows: one more version.
LEMMA EventCounts ==
    ASSUME TypeInv, NEW it \in BOOLEAN, Counts(it)
    PROVE  /\ events' \in 0 .. MaxEvents
           /\ row.version <= 1 + events'
           /\ it => row.version + 1 \in Versions /\ row.version + 1 <= 1 + events'
  BY DeliveryAssumption DEF TypeInv, TypeOK, VersionsCounted, Counts, Versions

\* A step in which one worker changes, and nothing else but the count.
LEMMA WorkerTypes ==
    ASSUME TypeInv, NEW i \in Workers, NEW w \in Worker,
           worker' = [worker EXCEPT ![i] = w], OnlyWorkers,
           events' \in 0 .. MaxEvents, row.version <= 1 + events'
    PROVE  TypeInv'
<1>1. worker' \in [Workers -> Worker]
  BY DEF TypeInv, TypeOK
<1> QED  BY <1>1 DEF OnlyWorkers, TypeInv, TypeOK, VersionsCounted, apiVars, keyVars

\* What becomes of a change in flight.
LEMMA Settles ==
    ASSUME TypeOK, NEW i \in Workers, Apply(i) \/ Refuse(i) \/ LoadFails(i)
    PROVE  \E w \in Worker :
              /\ worker' = [worker EXCEPT ![i] = w]
              /\ w.given = worker[i].given /\ w.next = 0
              /\ w.applied \in {worker[i].applied, worker[i].next}
              /\ w.error \in {0, worker[i].error, worker[i].next}
              /\ w.asked = worker[i].asked /\ w.life = worker[i].life
<1> DEFINE old == worker[i]
           v == worker[i].next
           Is(w) == /\ w \in Worker
                    /\ w.given = old.given /\ w.next = 0
                    /\ w.applied \in {old.applied, v}
                    /\ w.error \in {0, old.error, v}
                    /\ w.asked = old.asked /\ w.life = old.life
<1>1. old \in Worker /\ v \in {0} \cup Versions
  BY DEF TypeOK, Worker
<1>2. CASE Apply(i)
  <2> DEFINE w == [old EXCEPT !.applied = v, !.next = 0,
                              !.error = IF v >= old.error THEN 0 ELSE old.error]
  <2>1. worker' = [worker EXCEPT ![i] = w]
    BY <1>2 DEF Apply
  <2> HIDE DEF old, v
  <2>2. Is(w)
    BY <1>1 DEF Worker
  <2> HIDE DEF w
  <2> QED  BY <2>1, <2>2 DEF old, v
<1>3. CASE Refuse(i)
  <2> DEFINE w == [old EXCEPT !.next = 0, !.error = v,
                              !.rejected = IF v > old.rejected THEN v ELSE old.rejected]
  <2>1. worker' = [worker EXCEPT ![i] = w]
    <3>1. Rejects([old EXCEPT !.next = 0], v) = w
      <4> HIDE DEF old, v
      <4> QED  BY <1>1 DEF Rejects, Worker
    <3> QED  BY <1>3, <3>1 DEF Refuse
  <2> HIDE DEF old, v
  <2>2. Is(w)
    BY <1>1 DEF Worker
  <2> HIDE DEF w
  <2> QED  BY <2>1, <2>2 DEF old, v
<1>4. CASE LoadFails(i)
  <2> DEFINE w == [old EXCEPT !.next = 0, !.failed = (v = old.given), !.error = v,
                              !.rejected = IF v > old.rejected THEN v ELSE old.rejected]
  <2>1. worker' = [worker EXCEPT ![i] = w]
    <3>1. Rejects([old EXCEPT !.next = 0, !.failed = (v = old.given)], v) = w
      <4> HIDE DEF old, v
      <4> QED  BY <1>1 DEF Rejects, Worker
    <3> QED  BY <1>4, <3>1 DEF LoadFails
  <2> HIDE DEF old, v
  <2>2. Is(w)
    BY <1>1 DEF Worker
  <2> HIDE DEF w
  <2> QED  BY <2>1, <2>2 DEF old, v
<1> QED  BY <1>2, <1>3, <1>4

LEMMA TypeStep ==
    ASSUME TypeInv, [Next]_vars
    PROVE  TypeInv'
<1> USE DEF TypeInv
<1>1. CASE Save
  <2>1. row' = [row EXCEPT !.version = @ + 1] /\ Counts(TRUE)
    BY <1>1 DEF Save, Commit
  <2>2. /\ row' \in [enabled : BOOLEAN, version : Versions]
        /\ events' \in 0 .. MaxEvents /\ row'.version <= 1 + events'
        /\ row.version + 1 \in Versions
    BY <2>1, EventCounts DEF TypeOK
  <2>3. kind' \in [Versions -> Kinds]
    <3>1. PICK k \in KindsOf[row.version + 1] : kind' = [kind EXCEPT ![row.version + 1] = k]
      BY <1>1 DEF Save
    <3>2. k \in Kinds
      BY <2>2, <3>1, DeliveryAssumption
    <3> QED  BY <3>1, <3>2 DEF TypeOK
  <2> QED  BY <1>1, <2>2, <2>3 DEF TypeOK, VersionsCounted, Save, Commit, supVars, keyVars
<1>2. CASE Edit
  <2>1. row' = [row EXCEPT !.enabled = ~@] /\ Counts(TRUE)
    BY <1>2 DEF Edit, Commit
  <2>2. /\ row' \in [enabled : BOOLEAN, version : Versions]
        /\ events' \in 0 .. MaxEvents /\ row'.version <= 1 + events'
    BY <2>1, EventCounts DEF TypeOK
  <2> QED  BY <1>2, <2>2 DEF TypeOK, VersionsCounted, Edit, Commit, supVars, keyVars
<1>3. CASE RequestSync
  BY <1>3 DEF RequestSync, TypeOK, VersionsCounted, apiVars, supVars, keyVars
<1>4. CASE BeginSync
  BY <1>4 DEF BeginSync, TypeOK, VersionsCounted, apiVars, keyVars
<1>5. CASE Snapshot
  BY <1>5 DEF Snapshot, TypeOK, VersionsCounted, Absent, apiVars, keyVars
<1>6. CASE SyncFails
  BY <1>6, EventCounts DEF SyncFails, TypeOK, VersionsCounted, apiVars, keyVars
<1>7. CASE Reconcile
  <2>1. read' \in {0} \cup Versions /\ sup' \in {"idle", "stopping"}
    BY <1>7 DEF Reconcile, Absent
  <2>2. /\ worker' \in [Workers -> Worker]
        /\ current' \in {0} \cup Workers /\ made' \in {0} \cup Workers
        /\ stops' \in [Workers -> Stops] /\ fresh' \in BOOLEAN
    <3>1. CASE Start(made + 1, read, 0) /\ UNCHANGED stops
      <4>1. read \in {0} \cup Versions /\ 0 \in {0} \cup Versions
        BY DEF TypeOK
      <4> QED  BY <3>1, <4>1, StartTypes DEF TypeOK, Stops
    <3>2. CASE /\ worker' = [worker EXCEPT ![current] = Given(@, read)]
               /\ read # Absent /\ current # 0
               /\ UNCHANGED <<current, made, stops, fresh>>
      <4>1. current \in Workers /\ read \in Versions /\ worker[current] \in Worker
        BY <3>2 DEF TypeOK, Absent
      <4>2. Given(worker[current], read) \in Worker
        BY <4>1, GivenFields
      <4> QED  BY <3>2, <4>1, <4>2 DEF TypeOK, Stops
    <3>3. CASE StartStop(current) /\ current # 0 /\ UNCHANGED made
      <4>1. current \in Workers /\ worker[current] \in Worker
        BY <3>3 DEF TypeOK
      <4>2. [worker[current] EXCEPT !.asked = TRUE, !.next = 0] \in Worker
        BY <4>1 DEF Worker
      <4> QED  BY <3>3, <4>1, <4>2 DEF TypeOK, StartStop, Stops
    <3>4. CASE UNCHANGED <<worker, current, made, stops, fresh>>
      BY <3>4 DEF TypeOK, Stops
    <3> QED  BY <1>7, <3>1, <3>2, <3>3, <3>4 DEF Reconcile
  <2> QED  BY <1>7, <2>1, <2>2 DEF Reconcile, TypeOK, VersionsCounted, Stops, apiVars, keyVars
<1>8. CASE StopsDone
  <2>1. PICK late \in BOOLEAN : Counts(late)
    BY <1>8 DEF StopsDone
  <2>2. /\ worker' \in [Workers -> Worker]
        /\ current' \in {0} \cup Workers /\ made' \in {0} \cup Workers
        /\ fresh' \in BOOLEAN
        /\ read' \in {0} \cup Versions
    <3>1. CASE restart = 0
      BY <1>8, <3>1 DEF StopsDone, TypeOK, Absent
    <3>2. CASE restart # 0
      <4>1. worker[restart] \in Worker
        BY <3>2 DEF TypeOK
      <4>2. /\ RestartConfig(worker[restart]) \in {0} \cup Versions
            /\ worker[restart].given \in {0} \cup Versions
            /\ worker[restart].rejected \in {0} \cup Versions
        BY <4>1, RestartTypes DEF Worker
      <4>3. read' \in {Absent, worker[restart].given}
        BY <1>8 DEF StopsDone
      <4> QED  BY <1>8, <3>2, <4>2, <4>3, StartTypes DEF StopsDone, Absent
    <3> QED  BY <3>1, <3>2
  <2>3. sup' \in {"idle", "snapshot"}
    BY <1>8 DEF StopsDone
  <2> QED  BY <1>8, <2>1, <2>2, <2>3, EventCounts
           DEF StopsDone, TypeOK, VersionsCounted, apiVars, keyVars
<1>9. CASE CheckStalls
  <2>1. current \in Workers /\ worker[current] \in Worker
    BY <1>9 DEF CheckStalls, TypeOK
  <2>2. [worker[current] EXCEPT !.asked = TRUE, !.next = 0] \in Worker
    BY <2>1 DEF Worker
  <2>3. /\ worker' \in [Workers -> Worker] /\ stops' \in [Workers -> Stops]
        /\ current' = 0 /\ fresh' = FALSE
    BY <1>9, <2>1, <2>2 DEF CheckStalls, TypeOK, StartStop, Stops
  <2> QED  BY <1>9, <2>3
           DEF CheckStalls, TypeOK, VersionsCounted, Stops, apiVars, keyVars
<1>10. ASSUME NEW i \in Workers, StopReturns(i)
       PROVE  TypeInv'
  BY <1>10 DEF StopReturns, TypeOK, VersionsCounted, apiVars, keyVars
<1>11. ASSUME NEW i \in Workers, Forget(i)
       PROVE  TypeInv'
  BY <1>11, EventCounts DEF Forget, TypeOK, VersionsCounted, Status, NoKey, apiVars
<1>12. ASSUME NEW i \in Workers, Apply(i) \/ Refuse(i) \/ LoadFails(i)
       PROVE  TypeInv'
  <2>1. PICK w \in Worker : worker' = [worker EXCEPT ![i] = w]
    BY <1>12, Settles
  <2>2. OnlyWorkers /\ events' \in 0 .. MaxEvents /\ row.version <= 1 + events'
    BY <1>12, EventCounts DEF Apply, Refuse, LoadFails, TypeOK, VersionsCounted
  <2> QED  BY <2>1, <2>2, WorkerTypes
<1>15. ASSUME NEW i \in Workers, NEW life \in {"hangs", "died", "ended"},
              WorkerGoes(i, life),
              events' \in 0 .. MaxEvents, row.version <= 1 + events'
       PROVE  TypeInv'
  <2>1. Over \in Worker /\ [worker[i] EXCEPT !.life = life] \in Worker
    BY OverFields DEF TypeOK, Worker
  <2> QED  BY <1>15, <2>1, WorkerTypes DEF WorkerGoes
<1>16. ASSUME NEW i \in Workers, NEW life \in {"runs", "hangs"}, Ends(i, life)
       PROVE  TypeInv'
  BY <1>15, <1>16 DEF Ends, TypeOK, VersionsCounted
<1>17. ASSUME NEW i \in Workers, NEW life \in {"hangs", "died"}, Fails(i, life)
       PROVE  TypeInv'
  BY <1>15, <1>17, EventCounts DEF Fails
<1>18. CASE EngineCrash
  <2>1. worker' \in [Workers -> Worker]
    BY <1>18, OverFields DEF EngineCrash, TypeOK
  <2>2. pub' \in Status
    BY <1>18 DEF EngineCrash, Status, NoKey
  <2> QED  BY <1>18, <2>1, <2>2, EventCounts
           DEF EngineCrash, TypeOK, VersionsCounted, Absent, apiVars
<1>19. CASE PublishReads
  <2>1. worker[current] \in Worker
    BY <1>19 DEF PublishReads, TypeOK
  <2>2. pub' \in Status
    BY <1>19, <2>1 DEF PublishReads, TypeOK, Worker, Status
  <2> QED  BY <1>19, <2>2 DEF PublishReads, TypeOK, VersionsCounted, apiVars, supVars
<1>20. CASE PublishWrites
  <2>1. pub' \in Status /\ key' \in Status
    BY <1>20 DEF PublishWrites, TypeOK, Status, NoKey
  <2> QED  BY <1>20, <2>1, EventCounts
           DEF PublishWrites, TypeOK, VersionsCounted, apiVars, supVars
<1>21. CASE Expire
  BY <1>21 DEF Expire, TypeOK, VersionsCounted, Status, NoKey, apiVars, supVars
<1>22. CASE StreamGoes
  BY <1>22, EventCounts DEF StreamGoes, TypeOK, VersionsCounted, apiVars, supVars, keyVars
<1>23. CASE StreamComes
  BY <1>23 DEF StreamComes, TypeOK, VersionsCounted, apiVars, supVars, keyVars
<1>24. CASE FrameDone \/ GoesStale
  BY <1>24 DEF FrameDone, GoesStale, TypeOK, VersionsCounted, apiVars, keyVars
<1>25. CASE UNCHANGED vars
  BY <1>25 DEF vars, TypeOK, VersionsCounted, apiVars, supVars, keyVars
<1> QED
  BY <1>1, <1>2, <1>3, <1>4, <1>5, <1>6, <1>7, <1>8, <1>9, <1>10, <1>11, <1>12,
     <1>16, <1>17, <1>18, <1>19, <1>20, <1>21, <1>22, <1>23, <1>24, <1>25
  DEF Next, SupervisorStep, StopperStep, WorkerStep, PublisherStep

\* Every variable keeps its type, and versions never outnumber the events
\* (supervisor.py, status.py, config_listener.py).
THEOREM TypeCorrect == Spec => []TypeOK
<1>1. TypeInv /\ [Next]_vars => TypeInv'
  BY TypeStep
<1>2. TypeInv => TypeOK
  BY DEF TypeInv
<1> QED  BY InitTypes, <1>1, <1>2, PTL DEF Spec

-----------------------------------------------------------------------------
(* One worker *)

\* A step that starts none and stops none only lets workers go.
LEMMA GoingKeepsOne ==
    ASSUME TypeOK, OneWorker, current' = current,
           \A j \in Workers :
              worker'[j].life \in {"runs", "hangs"} /\ ~worker'[j].asked =>
                 worker[j].life \in {"runs", "hangs"} /\ ~worker[j].asked
    PROVE  OneWorker'
  BY DEF OneWorker

\* A worker that stays asked or not, and goes on or not.
LEMMA ChangingKeepsOne ==
    ASSUME IInv, NEW i \in Workers, NEW w,
           worker' = [worker EXCEPT ![i] = w],
           w.life = worker[i].life, w.asked = worker[i].asked,
           UNCHANGED <<current, restart>>, sup' \in {sup, "idle"}, restart # 0 => sup' = sup
    PROVE  NoneWhileStopping' /\ OneWorker'
<1>1. \A j \in Workers : worker'[j].life = worker[j].life /\ worker'[j].asked = worker[j].asked
  BY DEF IInv, TypeInv, TypeOK
<1> QED  BY <1>1, GoingKeepsOne DEF IInv, TypeInv, NoneWhileStopping

\* At first there is no worker.
LEMMA InitOne == Init => NoneWhileStopping /\ OneWorker
<1>1. [Started(0, 0) EXCEPT !.life = "none"].life = "none"
  BY DEF Started
<1> QED  BY <1>1 DEF Init, NoneWhileStopping, OneWorker

LEMMA OneStep ==
    ASSUME IInv, [Next]_vars
    PROVE  NoneWhileStopping' /\ OneWorker'
<1> USE DEF IInv, TypeInv
<1>1. CASE Reconcile
  <2>1. restart = 0 /\ restart' = 0
    BY <1>1 DEF Reconcile, NoneWhileStopping
  <2>2. CASE Start(made + 1, read, 0) /\ current = 0 /\ sup' = "idle"
    <3>1. read \in {0} \cup Versions /\ 0 \in {0} \cup Versions
      BY DEF TypeOK
    <3> QED  BY <2>1, <2>2, <3>1, StartIsAlone DEF NoneWhileStopping
  <2>3. CASE /\ worker' = [worker EXCEPT ![current] = Given(@, read)] /\ sup' = "idle"
             /\ read # Absent /\ current # 0
             /\ UNCHANGED <<current, made, stops, fresh>>
    <3>1. current \in Workers /\ read \in Versions /\ worker[current] \in Worker
      BY <2>3 DEF TypeOK, Absent
    <3>2. /\ Given(worker[current], read).life = worker[current].life
          /\ Given(worker[current], read).asked = worker[current].asked
      BY <3>1, GivenFields
    <3>3. worker' = [worker EXCEPT ![current] = Given(worker[current], read)]
      BY <2>3
    <3> QED  BY <2>1, <2>3, <3>1, <3>2, <3>3, ChangingKeepsOne
  <2>4. CASE StartStop(current) /\ current # 0 /\ sup' = "stopping"
    BY <2>1, <2>4, StopTells DEF NoneWhileStopping
  <2>5. CASE UNCHANGED <<worker, current, made, stops, fresh>> /\ sup' = "idle"
    BY <2>1, <2>5, GoingKeepsOne DEF NoneWhileStopping
  <2> QED  BY <1>1, <2>2, <2>3, <2>4, <2>5 DEF Reconcile
<1>2. CASE StopsDone
  <2>1. current = 0 /\ sup' # "stopping" /\ restart' = 0
    BY <1>2 DEF StopsDone, NoneWhileStopping
  <2>2. CASE restart = 0
    BY <1>2, <2>1, <2>2, GoingKeepsOne DEF StopsDone, NoneWhileStopping
  <2>3. CASE restart # 0
    <3>1. worker[restart] \in Worker
      BY <2>3 DEF TypeOK
    <3>2. /\ RestartConfig(worker[restart]) \in {0} \cup Versions
          /\ worker[restart].rejected \in {0} \cup Versions
      BY <3>1, RestartTypes DEF Worker
    <3>3. Start(made + 1, RestartConfig(worker[restart]), worker[restart].rejected)
      BY <1>2, <2>3 DEF StopsDone
    <3> QED  BY <2>1, <3>2, <3>3, StartIsAlone DEF NoneWhileStopping
  <2> QED  BY <2>2, <2>3
<1>3. CASE CheckStalls
  BY <1>3, StopTells DEF CheckStalls, NoneWhileStopping
<1>4. ASSUME NEW i \in Workers, NEW life \in {"hangs", "died", "ended"},
             WorkerGoes(i, life), worker[i].life = "runs" \/ life = "ended"
      PROVE  NoneWhileStopping' /\ OneWorker'
  <2>1. worker[i] \in Worker
    BY DEF TypeOK
  <2>2. /\ [worker[i] EXCEPT !.life = life].asked = worker[i].asked
        /\ [worker[i] EXCEPT !.life = life].life = life
    BY <2>1 DEF Worker
  <2>3. \A j \in Workers :
           worker'[j].life \in {"runs", "hangs"} /\ ~worker'[j].asked =>
              worker[j].life \in {"runs", "hangs"} /\ ~worker[j].asked
    BY <1>4, <2>2, OverFields DEF WorkerGoes, TypeOK
  <2> QED  BY <1>4, <2>3, GoingKeepsOne DEF WorkerGoes, OnlyWorkers, NoneWhileStopping
<1>5. ASSUME NEW i \in Workers, Apply(i) \/ Refuse(i) \/ LoadFails(i)
      PROVE  NoneWhileStopping' /\ OneWorker'
  <2>1. PICK w \in Worker : /\ worker' = [worker EXCEPT ![i] = w]
                            /\ w.asked = worker[i].asked /\ w.life = worker[i].life
    BY <1>5, Settles
  <2>2. UNCHANGED <<current, restart, sup>>
    BY <1>5 DEF Apply, Refuse, LoadFails, OnlyWorkers
  <2> QED  BY <2>1, <2>2, ChangingKeepsOne
<1>6. ASSUME NEW i \in Workers, NEW life \in {"runs", "hangs"}, Ends(i, life)
      PROVE  NoneWhileStopping' /\ OneWorker'
  BY <1>4, <1>6 DEF Ends
<1>7. ASSUME NEW i \in Workers, NEW life \in {"hangs", "died"}, Fails(i, life)
      PROVE  NoneWhileStopping' /\ OneWorker'
  BY <1>4, <1>7 DEF Fails
<1>8. CASE EngineCrash
  <2>1. \A j \in Workers : worker'[j].life \notin {"runs", "hangs"}
    BY <1>8, OverFields DEF EngineCrash
  <2> QED  BY <1>8, <2>1 DEF EngineCrash, NoneWhileStopping, OneWorker
<1>9. CASE BeginSync \/ Snapshot \/ SyncFails
  BY <1>9, GoingKeepsOne DEF BeginSync, Snapshot, SyncFails, NoneWhileStopping
<1>10. ASSUME NEW i \in Workers, StopperStep(i)
       PROVE  NoneWhileStopping' /\ OneWorker'
  BY <1>10, GoingKeepsOne DEF StopperStep, StopReturns, Forget, NoneWhileStopping
<1>11. CASE \/ Save \/ Edit \/ RequestSync \/ PublisherStep \/ Expire
            \/ StreamGoes \/ StreamComes \/ FrameDone \/ GoesStale \/ UNCHANGED vars
  <2>1. UNCHANGED <<worker, current, sup, restart>>
    BY <1>11 DEF Save, Edit, Commit, RequestSync, PublisherStep, PublishReads, PublishWrites,
                 Expire, StreamGoes, StreamComes, FrameDone, GoesStale, vars, supVars
  <2> QED  BY <2>1, GoingKeepsOne DEF NoneWhileStopping
<1> QED
  BY <1>1, <1>2, <1>3, <1>5, <1>6, <1>7, <1>8, <1>9, <1>10, <1>11
  DEF Next, SupervisorStep, WorkerStep

\* A camera has at most one worker that nobody told to stop, for any number of
\* changes, crashes, hangs and late stops (supervisor.py:63-81, 106-135, 193-214).
THEOREM OneLiveWorker == Spec => []OneWorker
<1>1. Init => IInv
  BY InitTypes, InitOne DEF IInv
<1>2. IInv /\ [Next]_vars => IInv'
  BY TypeStep, OneStep DEF IInv
<1>3. IInv => OneWorker
  BY DEF IInv
<1> QED  BY <1>1, <1>2, <1>3, PTL DEF Spec

-----------------------------------------------------------------------------
(* Nothing goes back *)

\* A worker runs, is about to run and reports versions up to the newest one it
\* was given, and what is in flight is no older than what it runs.
Ordered(w) ==
    /\ w.next <= w.given /\ w.applied <= w.given /\ w.error <= w.given
    /\ w.next # 0 => w.applied <= w.next

\* What a worker was given was saved, and a version that a sync has read is no
\* older than what a worker was given.
ConfigsInOrder ==
    /\ read <= row.version
    /\ \A i \in Workers :
         /\ Ordered(worker[i])
         /\ worker[i].given <= row.version
         /\ read # Absent => worker[i].given <= read

\* A status is of the worker in the map or of an earlier one, and shows no newer
\* pipeline than that worker has.
Told(status) ==
    /\ status.by <= made
    /\ status.applied <= row.version /\ status.error <= row.version
    /\ current # 0 =>
         /\ status.by <= current
         /\ status.by = current => status.applied <= worker[current].applied

\* A status follows another one: it is of a later worker, or shows no older
\* pipeline.
Follows(later, earlier) ==
    /\ earlier.by <= later.by
    /\ earlier.by = later.by => earlier.applied <= later.applied

StatusInOrder ==
    /\ current <= made
    /\ current # 0 => ~worker[current].asked
    /\ Told(key) /\ Told(pub)
    /\ pub # NoKey => Follows(pub, key)

InOrder == ConfigsInOrder /\ StatusInOrder

\* No config is run or shown before it was saved.
NeverAhead ==
    /\ key.applied <= row.version /\ key.error <= row.version
    /\ \A i \in Workers : /\ worker[i].given <= row.version
                          /\ worker[i].applied <= row.version
                          /\ worker[i].error <= row.version

\* A worker goes on: with no older config, and no older pipeline.
Grows(w, later) == w.given <= later.given /\ w.applied <= later.applied

\* While a worker is in the map it goes on.
WorkerForward ==
    \A i \in Workers : current = i /\ current' = i => Grows(worker[i], worker'[i])

\* A status that replaces another one is not of an earlier worker, and does
\* not show an older pipeline of the same one.
StatusForward == key' # NoKey => Follows(key', key)

Forward == WorkerForward /\ StatusForward

\* What is compared are numbers, before a step and after it.
LEMMA Numerals ==
    /\ \A n \in {0} \cup Versions : n \in Nat
    /\ \A n \in {0} \cup Workers : n \in Nat
    /\ 0 \notin Workers
  BY DeliveryAssumption DEF Versions, Workers

LEMMA WorkerNumbers ==
    ASSUME NEW w \in Worker
    PROVE  w.given \in Nat /\ w.next \in Nat /\ w.applied \in Nat /\ w.error \in Nat
  BY Numerals DEF Worker

LEMMA Numbers ==
    ASSUME TypeInv
    PROVE  /\ row.version \in Nat /\ read \in Nat /\ current \in Nat /\ made \in Nat
           /\ key.by \in Nat /\ key.applied \in Nat /\ key.error \in Nat
           /\ pub.by \in Nat /\ pub.applied \in Nat /\ pub.error \in Nat
           /\ \A i \in Workers : /\ worker[i].given \in Nat /\ worker[i].next \in Nat
                                 /\ worker[i].applied \in Nat /\ worker[i].error \in Nat
                                 /\ worker[i] \in Worker /\ i \in Nat /\ i # 0
  BY Numerals, WorkerNumbers DEF TypeInv, TypeOK, Status

LEMMA NumbersAfter ==
    ASSUME TypeInv'
    PROVE  /\ row'.version \in Nat /\ read' \in Nat /\ current' \in Nat /\ made' \in Nat
           /\ key'.by \in Nat /\ key'.applied \in Nat /\ key'.error \in Nat
           /\ pub'.by \in Nat /\ pub'.applied \in Nat /\ pub'.error \in Nat
           /\ \A i \in Workers : /\ worker'[i].given \in Nat /\ worker'[i].next \in Nat
                                 /\ worker'[i].applied \in Nat /\ worker'[i].error \in Nat
                                 /\ worker'[i] \in Worker /\ i \in Nat /\ i # 0
  BY Numerals, WorkerNumbers DEF TypeInv, TypeOK, Status

LEMMA InitInOrder == Init => InOrder
<1> SUFFICES ASSUME Init PROVE InOrder
  OBVIOUS
<1>1. ASSUME NEW i \in Workers
      PROVE  worker[i].given = 0 /\ worker[i].next = 0 /\ worker[i].applied = 0 /\ worker[i].error = 0
  BY DEF Init, Started
<1> QED  BY <1>1 DEF Init, InOrder, ConfigsInOrder, Ordered, StatusInOrder, Told, NoKey, Absent

\* A step that leaves the workers and the statuses alone.
LEMMA RestInOrder ==
    ASSUME TypeInv, TypeInv', InOrder, UNCHANGED <<worker, current, made, keyVars>>,
           row.version <= row'.version,
           read' \in {Absent, read, row'.version}
    PROVE  InOrder' /\ Forward
<1>1. ConfigsInOrder'
  <2>1. ASSUME NEW i \in Workers, read' = read, read # Absent
        PROVE  worker[i].given <= read
    BY <2>1 DEF InOrder, ConfigsInOrder
  <2> QED  BY <2>1, Numbers, NumbersAfter DEF InOrder, ConfigsInOrder, Ordered, Absent
<1>2. StatusInOrder'
  BY Numbers, NumbersAfter DEF InOrder, StatusInOrder, Told, Follows, keyVars, NoKey
<1>3. Forward
  BY Numbers DEF Forward, WorkerForward, Grows, StatusForward, Follows, keyVars
<1> QED  BY <1>1, <1>2, <1>3 DEF InOrder

\* A worker that starts with a config that was saved.
LEMMA StartInOrder ==
    ASSUME TypeInv, TypeInv', InOrder, UNCHANGED <<row, keyVars>>,
           NEW v \in {0} \cup Versions, NEW r \in {0} \cup Versions,
           Start(made + 1, v, r),
           v <= row.version, read' <= row.version, read' # Absent => v <= read'
    PROVE  InOrder' /\ Forward
<1> DEFINE new == made + 1
<1>0. /\ new \in Workers /\ current' = new /\ made' = new
      /\ worker'[new] = Started(v, r)
      /\ \A i \in Workers \ {new} :
            worker'[i] = [Over EXCEPT !.asked = worker[i].asked, !.life = worker[i].life]
  BY DEF Start
<1>n. v \in Nat /\ new \in Nat
  BY Numerals, Numbers
<1>b. key.by < new /\ pub.by < new /\ current # new
  BY Numbers DEF InOrder, StatusInOrder, Told
<1> HIDE DEF new
<1>s. /\ worker'[new].given = v /\ worker'[new].next = v
      /\ worker'[new].applied = 0 /\ worker'[new].error = 0 /\ worker'[new].asked = FALSE
  <2>1. worker'[new] = Started(v, r)
    BY <1>0
  <2>2. /\ Started(v, r).given = v /\ Started(v, r).next = v
        /\ Started(v, r).applied = 0 /\ Started(v, r).error = 0
        /\ Started(v, r).asked = FALSE
    BY DEF Started
  <2> QED  BY <2>1, <2>2, Zenon
<1>o. ASSUME NEW i \in Workers \ {new}
      PROVE  /\ worker'[i].given = 0 /\ worker'[i].next = 0
             /\ worker'[i].applied = 0 /\ worker'[i].error = 0
  <2>1. worker'[i] = [Over EXCEPT !.asked = worker[i].asked, !.life = worker[i].life]
    BY <1>0
  <2> QED  BY <2>1, OverFields DEF Worker
<1>1. ConfigsInOrder'
  <2>1. ASSUME NEW i \in Workers
        PROVE  /\ Ordered(worker'[i])
               /\ worker'[i].given <= row'.version
               /\ read' # Absent => worker'[i].given <= read'
    <3>1. CASE i = new
      BY <1>s, <1>n, <3>1 DEF Ordered
    <3>2. CASE i # new
      BY <1>o, <3>2, NumbersAfter DEF Absent, Ordered
    <3> QED  BY <3>1, <3>2
  <2> QED  BY <2>1 DEF ConfigsInOrder
<1>2. StatusInOrder'
  <2>1. current' = new /\ made' = new /\ ~worker'[new].asked
    BY <1>0, <1>s
  <2> QED  BY <1>n, <1>b, <2>1, Numbers, NumbersAfter
           DEF InOrder, StatusInOrder, Told, Follows, keyVars, NoKey
<1>3. Forward
  <2>1. current' # current
    BY <1>0, <1>b
  <2> QED  BY <2>1, Numbers DEF Forward, WorkerForward, StatusForward, Follows, keyVars
<1> QED  BY <1>1, <1>2, <1>3 DEF InOrder

\* A worker that leaves the map.
LEMMA StopInOrder ==
    ASSUME TypeInv, TypeInv', InOrder, UNCHANGED <<row, made, keyVars>>,
           current # 0, StartStop(current), read' \in {Absent, read}
    PROVE  InOrder' /\ Forward
<1>1. ASSUME NEW i \in Workers
      PROVE  /\ worker'[i].given = worker[i].given /\ worker'[i].applied = worker[i].applied
             /\ worker'[i].error = worker[i].error
             /\ worker'[i].next \in {0, worker[i].next}
  BY Numbers DEF StartStop, TypeInv, TypeOK, Worker
<1>2. ConfigsInOrder'
  <2>1. ASSUME NEW i \in Workers
        PROVE  /\ Ordered(worker'[i])
               /\ worker'[i].given <= row.version
               /\ read # Absent => worker'[i].given <= read
    BY <1>1, Numbers DEF InOrder, ConfigsInOrder, Ordered
  <2> QED  BY <2>1, Numbers DEF ConfigsInOrder, InOrder, Absent
<1>3. current' = 0
  BY DEF StartStop
<1>4. StatusInOrder'
  BY <1>3, Numbers, NumbersAfter
  DEF InOrder, StatusInOrder, Told, Follows, keyVars, NoKey
<1>5. Forward
  BY <1>3, Numbers DEF Forward, WorkerForward, StatusForward, Follows, keyVars
<1> QED  BY <1>2, <1>4, <1>5 DEF InOrder

\* One worker changes; the one in the map only goes on.
LEMMA WorkerInOrder ==
    ASSUME TypeInv, TypeInv', InOrder, UNCHANGED <<row, current, made, keyVars>>,
           NEW i \in Workers, NEW w \in Worker,
           worker' = [worker EXCEPT ![i] = w],
           Ordered(w), w.given <= row.version,
           read' \in {Absent, read}, read' # Absent => w.given <= read',
           i = current => Grows(worker[i], w) /\ w.asked = worker[i].asked
    PROVE  InOrder' /\ Forward
<1>0. /\ worker'[i] = w
      /\ \A j \in Workers \ {i} : worker'[j] = worker[j]
  BY DEF TypeInv, TypeOK
<1>1. ConfigsInOrder'
  <2>1. ASSUME NEW j \in Workers
        PROVE  /\ Ordered(worker'[j])
               /\ worker'[j].given <= row.version
               /\ read' # Absent => worker'[j].given <= read'
    <3>1. CASE j = i
      BY <1>0, <3>1
    <3>2. CASE j # i
      BY <1>0, <3>2 DEF InOrder, ConfigsInOrder
    <3> QED  BY <3>1, <3>2
  <2> QED  BY <2>1, Numbers DEF ConfigsInOrder, InOrder, Absent
<1>2. current # 0 => /\ current \in Workers
                     /\ Grows(worker[current], worker'[current])
                     /\ worker'[current].asked = worker[current].asked
  BY <1>0, Numbers DEF TypeInv, TypeOK, Grows
<1>3. StatusInOrder'
  BY <1>2, Numbers, NumbersAfter
  DEF InOrder, StatusInOrder, Told, Follows, Grows, keyVars, NoKey
<1>4. Forward
  BY <1>2, Numbers DEF Forward, WorkerForward, StatusForward, Follows, keyVars
<1> QED  BY <1>1, <1>3, <1>4 DEF InOrder

LEMMA OrderStep ==
    ASSUME TypeInv, NoneWhileStopping, InOrder, [Next]_vars
    PROVE  InOrder' /\ Forward
<1>0. TypeInv'
  BY TypeStep
<1> USE <1>0
<1>w. ASSUME NEW i \in Workers
      PROVE  /\ worker[i] \in Worker /\ Ordered(worker[i])
             /\ worker[i].given <= row.version
             /\ read # Absent => worker[i].given <= read
  BY Numbers DEF InOrder, ConfigsInOrder
<1>1. CASE Save
  <2>1. row'.version = row.version + 1
    BY <1>1 DEF Save, Commit, TypeInv, TypeOK
  <2> QED  BY <1>1, <2>1, RestInOrder, Numbers DEF Save, Commit, supVars
<1>2. CASE Edit
  <2>1. row'.version = row.version
    BY <1>2 DEF Edit, Commit, TypeInv, TypeOK
  <2> QED  BY <1>2, <2>1, RestInOrder, Numbers DEF Edit, Commit, supVars
<1>3. CASE UNCHANGED <<row, read, worker, current, made, keyVars>>
  BY <1>3, RestInOrder, Numbers
<1>4. CASE \/ RequestSync \/ BeginSync \/ SyncFails \/ FrameDone \/ GoesStale
           \/ StreamGoes \/ StreamComes \/ UNCHANGED vars
  BY <1>3, <1>4
  DEF RequestSync, BeginSync, SyncFails, FrameDone, GoesStale, StreamGoes, StreamComes,
      vars, apiVars, supVars
<1>5. CASE Snapshot
  BY <1>5, RestInOrder, Numbers DEF Snapshot, apiVars
<1>6. CASE Reconcile
  <2>r. read' = Absent /\ UNCHANGED <<row, keyVars>>
    BY <1>6 DEF Reconcile, apiVars
  <2>n. read \in {0} \cup Versions /\ read <= row.version /\ 0 <= row.version
    BY Numbers DEF TypeInv, TypeOK, InOrder, ConfigsInOrder
  <2>1. CASE Start(made + 1, read, 0)
    BY <2>r, <2>n, <2>1, StartInOrder, Numbers DEF Absent
  <2>2. CASE /\ worker' = [worker EXCEPT ![current] = Given(@, read)]
             /\ read # Absent /\ current # 0 /\ UNCHANGED <<current, made>>
    <3> DEFINE w == Given(worker[current], read)
    <3>1. current \in Workers /\ worker[current] \in Worker /\ read \in Versions
      BY <2>2 DEF TypeInv, TypeOK, Absent
    <3>2. /\ w \in Worker /\ w.given = read /\ w.next \in {worker[current].next, read}
          /\ w.applied = worker[current].applied /\ w.error \in {worker[current].error, read}
          /\ w.asked = worker[current].asked
      BY <3>1, GivenFields
    <3>3. worker' = [worker EXCEPT ![current] = w]
      BY <2>2
    <3> HIDE DEF w
    <3>4. Ordered(w) /\ Grows(worker[current], w)
      BY <1>w, <2>2, <3>1, <3>2, Numbers DEF Ordered, Grows
    <3> QED  BY <2>r, <2>n, <2>2, <3>1, <3>2, <3>3, <3>4, WorkerInOrder
  <2>3. CASE StartStop(current) /\ current # 0 /\ UNCHANGED made
    BY <2>r, <2>3, StopInOrder
  <2>4. CASE UNCHANGED <<worker, current, made>>
    BY <2>r, <2>4, RestInOrder, Numbers
  <2> QED  BY <1>6, <2>1, <2>2, <2>3, <2>4 DEF Reconcile
<1>7. CASE StopsDone
  <2>r. UNCHANGED <<row, keyVars>>
    BY <1>7 DEF StopsDone, apiVars
  <2>1. CASE restart = 0
    <3>1. read' = Absent /\ UNCHANGED <<worker, current, made>>
      BY <1>7, <2>1 DEF StopsDone
    <3> QED  BY <2>r, <3>1, RestInOrder, Numbers
  <2>2. CASE restart # 0
    <3> DEFINE old == worker[restart]
               first == RestartConfig(old)
    <3>1. restart \in Workers
      BY <2>2 DEF TypeInv, TypeOK
    <3>2. /\ old \in Worker /\ Ordered(old) /\ old.given <= row.version
          /\ old.rejected \in {0} \cup Versions
      BY <1>w, <3>1 DEF Worker
    <3>3. Start(made + 1, first, old.rejected) /\ read' \in {Absent, old.given}
      BY <1>7, <2>2 DEF StopsDone
    <3> HIDE DEF old
    <3>4. first \in {0} \cup Versions
      BY <3>2, RestartTypes
    <3>5. first <= old.given
      BY <3>2, WorkerNumbers DEF RestartConfig, Ordered
    <3> HIDE DEF first
    <3>6. first \in Nat /\ old.given \in Nat
      BY <3>2, <3>4, Numerals, WorkerNumbers
    <3>7. first <= row.version /\ read' <= row.version /\ (read' # Absent => first <= read')
      BY <3>2, <3>3, <3>5, <3>6, Numbers DEF Absent
    <3> QED  BY <2>r, <3>2, <3>3, <3>4, <3>7, StartInOrder
  <2> QED  BY <2>1, <2>2
<1>8. CASE CheckStalls
  BY <1>8, StopInOrder DEF CheckStalls, apiVars
<1>9. ASSUME NEW i \in Workers, StopReturns(i)
      PROVE  InOrder' /\ Forward
  BY <1>3, <1>9 DEF StopReturns, apiVars
<1>10. ASSUME UNCHANGED <<row, read, worker, current, made, pub>>, key' = NoKey
       PROVE  InOrder' /\ Forward
  <2>1. ConfigsInOrder'
    BY <1>10 DEF InOrder, ConfigsInOrder
  <2>2. key'.by = 0 /\ key'.applied = 0 /\ key'.error = 0
    BY <1>10 DEF NoKey
  <2>3. StatusInOrder'
    BY <1>10, <2>2, Numbers, NumbersAfter DEF InOrder, StatusInOrder, Told, Follows
  <2>4. Forward
    BY <1>10, Numbers DEF Forward, WorkerForward, Grows, StatusForward
  <2> QED  BY <2>1, <2>3, <2>4 DEF InOrder
<1>11. ASSUME NEW i \in Workers, Forget(i)
       PROVE  InOrder' /\ Forward
  BY <1>3, <1>10, <1>11 DEF Forget, apiVars, keyVars
<1>12. ASSUME NEW i \in Workers, Apply(i) \/ Refuse(i) \/ LoadFails(i)
       PROVE  InOrder' /\ Forward
  <2>1. worker[i].next # 0 /\ UNCHANGED <<row, read, current, made, keyVars>>
    BY <1>12 DEF Apply, Refuse, LoadFails, InFlight, OnlyWorkers, apiVars
  <2>2. PICK w \in Worker :
           /\ worker' = [worker EXCEPT ![i] = w]
           /\ w.given = worker[i].given /\ w.next = 0
           /\ w.applied \in {worker[i].applied, worker[i].next}
           /\ w.error \in {0, worker[i].error, worker[i].next}
           /\ w.asked = worker[i].asked
    BY <1>12, Settles DEF TypeInv
  <2>3. Ordered(w) /\ Grows(worker[i], w)
    BY <1>w, <2>1, <2>2, Numbers DEF Ordered, Grows
  <2> QED  BY <1>w, <2>1, <2>2, <2>3, WorkerInOrder
<1>13. ASSUME NEW i \in Workers, NEW life \in {"hangs", "died", "ended"},
              WorkerGoes(i, life), life = "ended" => i # current
       PROVE  InOrder' /\ Forward
  <2>1. UNCHANGED <<row, read, current, made, keyVars>>
    BY <1>13 DEF WorkerGoes, OnlyWorkers, apiVars
  <2>2. CASE life = "ended" /\ i # restart
    <3>1. worker' = [worker EXCEPT ![i] = Over]
      BY <1>13, <2>2 DEF WorkerGoes
    <3>2. /\ Over \in Worker /\ Ordered(Over) /\ Over.given <= row.version
          /\ read' # Absent => Over.given <= read'
      BY <2>1, OverFields, Numbers DEF Ordered, Absent
    <3> QED  BY <1>13, <2>1, <2>2, <3>1, <3>2, WorkerInOrder
  <2>3. CASE ~(life = "ended" /\ i # restart)
    <3> DEFINE w == [worker[i] EXCEPT !.life = life]
    <3>1. worker' = [worker EXCEPT ![i] = w]
      BY <1>13, <2>3 DEF WorkerGoes
    <3>2. /\ w \in Worker /\ w.given = worker[i].given /\ w.next = worker[i].next
          /\ w.applied = worker[i].applied /\ w.error = worker[i].error
          /\ w.asked = worker[i].asked
      BY <1>w DEF Worker
    <3> HIDE DEF w
    <3>3. Ordered(w) /\ Grows(worker[i], w)
      BY <1>w, <3>2, Numbers DEF Ordered, Grows
    <3> QED  BY <1>w, <2>1, <3>1, <3>2, <3>3, WorkerInOrder
  <2> QED  BY <2>2, <2>3
<1>14. ASSUME NEW i \in Workers, NEW life \in {"runs", "hangs"}, Ends(i, life)
       PROVE  InOrder' /\ Forward
  <2>1. i # current
    BY <1>14, Numbers DEF Ends, InOrder, StatusInOrder
  <2> QED  BY <1>13, <1>14, <2>1 DEF Ends
<1>15. ASSUME NEW i \in Workers, NEW life \in {"hangs", "died"}, Fails(i, life)
       PROVE  InOrder' /\ Forward
  BY <1>13, <1>15 DEF Fails
<1>16. CASE EngineCrash
  <2>1. /\ current' = 0 /\ read' = Absent /\ pub' = NoKey
        /\ UNCHANGED <<row, made, key>>
    BY <1>16 DEF EngineCrash, apiVars
  <2>2. ASSUME NEW i \in Workers
        PROVE  Ordered(worker'[i]) /\ worker'[i].given <= row.version
    <3>1. worker'[i] = Over \/ worker'[i] = worker[i]
      BY <1>16 DEF EngineCrash
    <3>2. Ordered(Over) /\ Over.given <= row.version
      BY OverFields, Numbers DEF Ordered
    <3> QED  BY <1>w, <3>1, <3>2
  <2>3. ConfigsInOrder'
    BY <2>1, <2>2, Numbers DEF ConfigsInOrder, Absent
  <2>4. StatusInOrder'
    BY <2>1, Numbers DEF InOrder, StatusInOrder, Told, NoKey
  <2>5. Forward
    BY <2>1, Numbers DEF Forward, WorkerForward, StatusForward, Follows
  <2> QED  BY <2>3, <2>4, <2>5 DEF InOrder
<1>17. CASE PublishReads
  <2>1. /\ pub' = [by |-> current, applied |-> worker[current].applied,
                   error |-> worker[current].error]
        /\ current # 0 /\ current \in Workers
        /\ UNCHANGED <<row, read, worker, current, made, key>>
    BY <1>17 DEF PublishReads, apiVars, supVars, TypeInv, TypeOK
  <2>2. /\ worker[current].applied <= row.version
        /\ worker[current].error <= row.version
    BY <1>w, <2>1, Numbers DEF Ordered
  <2>3. ConfigsInOrder'
    BY <2>1 DEF InOrder, ConfigsInOrder
  <2>4. /\ pub'.by = current /\ pub'.applied = worker[current].applied
        /\ pub'.error = worker[current].error
    BY <2>1
  <2>5. StatusInOrder'
    BY <2>1, <2>2, <2>4, Numbers DEF InOrder, StatusInOrder, Told, Follows
  <2>6. Forward
    BY <2>1, Numbers DEF Forward, WorkerForward, Grows, StatusForward, Follows
  <2> QED  BY <2>3, <2>5, <2>6 DEF InOrder
<1>18. CASE PublishWrites
  <2>1. /\ pub # NoKey /\ pub' = NoKey /\ key' \in {key, pub, NoKey}
        /\ UNCHANGED <<row, read, worker, current, made>>
    BY <1>18 DEF PublishWrites, apiVars, supVars
  <2>2. ConfigsInOrder'
    BY <2>1 DEF InOrder, ConfigsInOrder
  <2>3. Told(key)' /\ Told(pub)'
    <3>1. CASE key' = key
      BY <2>1, <3>1, Numbers DEF InOrder, StatusInOrder, Told, NoKey
    <3>2. CASE key' = pub
      BY <2>1, <3>2, Numbers DEF InOrder, StatusInOrder, Told, NoKey
    <3>3. CASE key' = NoKey
      BY <2>1, <3>3, Numbers DEF InOrder, StatusInOrder, Told, NoKey
    <3> QED  BY <2>1, <3>1, <3>2, <3>3
  <2>4. StatusInOrder'
    BY <2>1, <2>3 DEF InOrder, StatusInOrder
  <2>5. Forward
    BY <2>1, Numbers
    DEF Forward, WorkerForward, Grows, StatusForward, Follows, InOrder, StatusInOrder
  <2> QED  BY <2>2, <2>4, <2>5 DEF InOrder
<1>19. CASE Expire
  BY <1>10, <1>19 DEF Expire, apiVars, supVars
<1> QED
  BY <1>1, <1>2, <1>4, <1>5, <1>6, <1>7, <1>8, <1>9, <1>11, <1>12, <1>14, <1>15, <1>16,
     <1>17, <1>18, <1>19
  DEF Next, SupervisorStep, StopperStep, WorkerStep, PublisherStep

\* No status and no worker is ahead of what was saved.  And nothing goes back:
\* the worker in the map is never given an older version than before, nor has
\* its pipeline replaced by one of an older version, and the status key is never
\* overwritten by a status of an earlier worker, or of an older pipeline of the
\* same one - although syncs, restarts, late stops, crashes and writes that fail
\* fall together, and a write shows what was read a while before.  (The error
\* that a status names may go back: a model that fails to load late overwrites a
\* newer refusal, worker.py:348-374.)  See supervisor.py:54-97, 106-135, 184-214,
\* status.py:87-136.  That a worker itself runs no older version again is
\* CameraWorkerProofs!NeverBack.
THEOREM NothingGoesBack == Spec => []NeverAhead /\ [][Forward]_vars
<1>1. Init => IInv /\ InOrder
  BY InitTypes, InitOne, InitInOrder DEF IInv
<1>2. IInv /\ InOrder /\ [Next]_vars => (IInv /\ InOrder)' /\ [Forward]_vars
  BY TypeStep, OneStep, OrderStep DEF IInv
<1>3. IInv /\ InOrder => NeverAhead
  <2> SUFFICES ASSUME IInv, InOrder PROVE NeverAhead
    OBVIOUS
  <2>1. ASSUME NEW i \in Workers
        PROVE  /\ worker[i].given <= row.version /\ worker[i].applied <= row.version
               /\ worker[i].error <= row.version
    BY Numbers DEF IInv, InOrder, ConfigsInOrder, Ordered
  <2> QED  BY <2>1 DEF InOrder, StatusInOrder, Told, NeverAhead
<1> QED  BY <1>1, <1>2, <1>3, PTL DEF Spec

=============================================================================
